SPECIFICATION Spec
CONSTANTS
  ua = ua
  ub = ub
  uc = uc
  Users <- MCUsers
  Emetteur = ua
  Signataire = ub
  Admins <- MCAdmins
  ModeVisa = "PARALLELE"
  Textes <- MCTextes
INVARIANT ResoumissionPossible
CHECK_DEADLOCK FALSE
