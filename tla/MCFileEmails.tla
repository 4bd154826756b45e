----------------------------- MODULE MCFileEmails -----------------------------
(* Small instances of FileEmails: an ordinary row and one with a secret.   *)
EXTENDS FileEmails, TLC

CONSTANTS la, ls, j1, j2, j3, r1, r2, w1, w2

MCUneLigne == {la}
MCLignes == {la, ls}
MCSecretes == {ls}
MCDeuxJobs == {j1, j2}
MCTroisJobs == {j1, j2, j3}
MCUneRequete == {r1}
MCRequetes == {r1, r2}
MCUnWorker == {w1}
MCWorkers == {w1, w2}
MCSymetrie == Permutations(MCTroisJobs) \cup Permutations(MCRequetes) \cup Permutations(MCWorkers)
=============================================================================
