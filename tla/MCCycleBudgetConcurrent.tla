----------------------- MODULE MCCycleBudgetConcurrent -----------------------
(* Small instances of CycleBudgetConcurrent. *)
EXTENDS CycleBudgetConcurrent, TLC

CONSTANTS cr1, cr2, u1, u2, r1, r2

MCUnCr == {cr1}
MCDeuxCrs == {cr1, cr2}
MCUnUser == {u1}
MCDeuxUsers == {u1, u2}
MCPerimetre == [u \in Users |-> IF u = u1 THEN CRs ELSE CRs \ {cr2}]
MCSnapshotVide == {}
MCDeuxRequetes == {r1, r2}
MCValidation == {"soumettre", "valider"}
MCCycleComite == {"soumettre", "valider", "rouvrir", "soumettreComite",
                  "approuverComite", "publier"}
(* The requests are interchangeable: no definition names one of them. *)
MCSymetrie == Permutations(MCDeuxRequetes)
=============================================================================
