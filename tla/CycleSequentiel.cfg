SPECIFICATION Spec
CONSTANTS
  cr1 = cr1
  cr2 = cr2
  u1 = u1
  u2 = u2
  CRs <- MCCRs
  Users <- MCUsers
  Perimetre <- MCPerimetre
  SnapshotInitial <- MCSnapshotVide
  Personne = Personne
  Contenus = {m1, m2}
  Vide = Vide
INVARIANTS
  ApprobationComplete
  LignesFigees
PROPERTIES
  GeleImmuable
  BasculeFaite
CHECK_DEADLOCK FALSE
