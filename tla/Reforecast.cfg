CONSTANTS
  Cles <- c_Cles
  Montants = {6}
  LignesBudget <- c_LignesBudget
  MontantsBase <- c_MontantsBase
  MontantsSaisis = {7}
  Interventions <- c_Interventions
  VersionsMax = 2
  Requetes = {r1, r2}
SYMMETRY Symetrie
SPECIFICATION Spec
INVARIANTS UnSeulActif RemplacantVivant 
PROPERTY ObsoleteFige
