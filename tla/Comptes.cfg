CONSTANTS
  r1 = r1
  r2 = r2
  r3 = r3
  r4 = r4
  Utilisateurs = {"u", "v"}
  Inscrits = {"u"}
  Administrateurs = {"v"}
  Roles = {"a", "b"}
  Requetes = {r1, r2, r3, r4}
SPECIFICATION Spec
INVARIANTS UsageUnique RoleActif
PROPERTIES RienNeRevient JetonLegitime
SYMMETRY Symetrie
CHECK_DEADLOCK FALSE
