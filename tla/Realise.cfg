CONSTANTS
  Cles <- c_Cles
  Montants = {3, 6}
  Fichiers <- c_Fichiers
  LignesBudget <- c_LignesBudget
  Budgets <- c_Budgets
  SeuilAttention = 10
  SeuilCritique = 20
  IdMax = 2
  Requetes = {r1, r2}
SYMMETRY Symetrie
SPECIFICATION SpecRealise
INVARIANTS RienCompteDeuxFois SoldeExplique
PROPERTY ImplementeRegistre
