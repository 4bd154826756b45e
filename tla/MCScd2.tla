-------------------------------- MODULE MCScd2 --------------------------------
(* Small instance of Scd2: two keys, two labels.                           *)
EXTENDS Scd2, TLC

CONSTANTS k1, k2, x, y, z

MCCodes == {k1, k2}
MCLibelles == [d \in Dimensions |-> IF d \in {"structure", "compte", "ligne_metier", "produit"} THEN {z} ELSE {x, y}]
MCClasses == {"6", "7"}
MCEnsembles == {{"structure", "cr"}, {"compte"}, {"ligne_metier"}, {"produit"}, {"segment"}}
MCSymetrie == Permutations(MCCodes) \cup Permutations({x, y})
=============================================================================
