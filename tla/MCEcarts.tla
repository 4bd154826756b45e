-------------------------------- MODULE MCEcarts --------------------------------
EXTENDS Ecarts, TLC
(* Two currencies of one grain, and another grain; two rows at a time.       *)
Cle(p, d) == [poste |-> p, devise |-> d, mois |-> 1]
c_Cles == {Cle("p", "XOF"), Cle("p", "EUR"), Cle("q", "XOF")}
c_Fichiers == {Cle("p", "EUR") :> 6 @@ Cle("q", "XOF") :> 3, Cle("p", "XOF") :> 6}
c_LignesBudget == {[cle |-> [poste |-> "p", mois |-> m], axe |-> a] : m, a \in {1, 2}} \ {[cle |-> [poste |-> "p", mois |-> 2], axe |-> 2]}
c_Budgets == {[l \in c_LignesBudget |-> 5], [l \in c_LignesBudget |-> IF l.axe = 1 THEN 2 ELSE 0],
              [l \in c_LignesBudget |-> 0]}
Symetrie == Permutations(Requetes)
=============================================================================
