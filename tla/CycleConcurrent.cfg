SPECIFICATION SpecConcurrent
CONSTANTS
  cr1 = cr1
  cr2 = cr2
  u1 = u1
  u2 = u2
  r1 = r1
  r2 = r2
  CRs <- MCUnCr
  Users <- MCUnUser
  Perimetre <- MCPerimetre
  SnapshotInitial <- MCSnapshotVide
  Personne = Personne
  Contenus = {m1}
  Vide = Vide
  Requetes <- MCDeuxRequetes
  Operations <- ToutesOperations
INVARIANTS
  CheminDApprobation
  ValidationTracee
PROPERTY ImplementeCycleBudget
SYMMETRY MCSymetrie
CHECK_DEADLOCK FALSE
