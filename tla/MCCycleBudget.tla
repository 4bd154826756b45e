---------------------------- MODULE MCCycleBudget ----------------------------
(* Small instances of CycleBudget: two CRs, a user in charge of both and a *)
(* user in charge of the first one only.                                   *)
EXTENDS CycleBudget

CONSTANTS cr1, cr2, u1, u2

MCCRs == {cr1, cr2}
MCUsers == {u1, u2}
MCPerimetre == [u \in MCUsers |-> IF u = u1 THEN MCCRs ELSE {cr1}]
MCSnapshotVide == {}
=============================================================================
