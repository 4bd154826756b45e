-------------------------------- MODULE MCReforecast -------------------------------
(* The first reforecast is retyped and taken through the workflow by CR, the   *)
(* second, its replacement, emptied and deleted; both are entered over.       *)
EXTENDS Reforecast, TLC
Mars == [poste |-> "p", mois |-> 3]
c_Cles == {Mars}
c_LignesBudget == {[cle |-> Mars, axe |-> 1]}
c_MontantsBase == [l \in c_LignesBudget |-> 5]
c_Interventions == {<<"suivre", 1>>, <<"modifier", 1>>, <<"saisir", 1>>, <<"saisir", 2>>, <<"supprimer", 2>>}
Symetrie == Permutations(Requetes)
=============================================================================
