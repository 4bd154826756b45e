SPECIFICATION Spec
CONSTANTS
  k1 = k1
  k2 = k2
  x = x
  y = y
  z = z
  Codes <- MCCodes
  Libelles <- MCLibelles
  Classes <- MCClasses
  TailleMax = 3
  JourMax = 2
  NiveauMax = 2
  Ensembles <- MCEnsembles
SYMMETRY MCSymetrie
INVARIANTS
  VersionUnique
  LienVivant
  CyclesExpliques
PROPERTIES
  PasseFige
CHECK_DEADLOCK FALSE
