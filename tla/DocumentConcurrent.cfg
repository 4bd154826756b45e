SPECIFICATION SpecConcurrent
CONSTANTS
  ua = ua
  ub = ub
  uc = uc
  r1 = r1
  r2 = r2
  Users <- MCUsers
  Emetteur = ua
  Signataire = ub
  Admins = {}
  ModeVisa = "PARALLELE"
  Textes <- MCTextes
  Comite <- MCUnFacultatif
  Requetes <- MCDeuxRequetes
  Operations <- ToutesOperations
INVARIANTS
  CircuitRespecte
PROPERTIES
  ImplementeDocument
SYMMETRY MCSymetrie
CHECK_DEADLOCK FALSE
