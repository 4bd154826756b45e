------------------------------ MODULE MCDelegations ------------------------------
EXTENDS Delegations, TLC
Du(t, ids) == [type |-> t, ids |-> ids]
c_Rattachement == ("c1" :> "s1") @@ ("c2" :> "s2")
c_Parent == ("s1" :> Racine) @@ ("s2" :> "s1")
c_RolesDe == ("a" :> {Du("CR", {"c1"})}) @@ ("b" :> {Du("CR", {"c1"})})
c_Affectations == << >>
c_Evolutions == {<<"s2", "clos">>}
c_Attributions == {<<"a", Du("STRUCTURE", {"s1"}), "AFFECTATION">>}
c_Retraits == {<<0, 1>>}
c_Periodes == {[debut |-> 0, fin |-> 1]}
=============================================================================
