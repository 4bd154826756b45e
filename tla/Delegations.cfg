CONSTANTS
  Crs = {"c1", "c2"}
  Structures = {"s1", "s2"}
  Rattachement <- c_Rattachement
  Parent <- c_Parent
  Utilisateurs = {"a", "b"}
  Habilites = {"a", "b"}
  RolesDe <- c_RolesDe
  Affectations <- c_Affectations
  Evolutions <- c_Evolutions
  Attributions <- c_Attributions
  Retraits <- c_Retraits
  Periodes <- c_Periodes
  LignesMax = 1
  DelegationsMax = 2
  JourMax = 2
  PannesMax = 1
  Preavis = 1
  Requetes = {"r1"}
  Expirations = {"e1"}
  Rappels = {"p1", "p2"}
SPECIFICATION Spec
INVARIANTS MiroirsSuivent AccesJustifie UnRappel
PROPERTY EcheanceTenue
CHECK_DEADLOCK FALSE
