SPECIFICATION Spec
CONSTANTS
  ua = ua
  ub = ub
  uc = uc
  Users <- MCUsers
  Emetteur = ua
  Signataire = ub
  Admins <- MCAdmins
  ModeVisa = "SEQUENTIEL"
  Textes <- MCTextes
INVARIANTS
  VisasAvantSignature
  SignatureIntegre
  OrdreRespecte
  SansImpasse
PROPERTY ContenuFige
CHECK_DEADLOCK FALSE
