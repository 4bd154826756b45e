--------------------- MODULE MCDocumentOfficielConcurrent ---------------------
(* Small instances of DocumentOfficielConcurrent: two mandatory members, a *)
(* third one who is not, and an emitter and signatory outside the Comite.  *)
EXTENDS DocumentOfficielConcurrent, TLC

CONSTANTS ua, ub, uc, r1, r2

MCUsers == {ua, ub, uc}
MCTextes == {"NULL", "v1"}
MCDeuxObligatoires ==
  [u \in MCUsers |-> CASE u = ua -> [ordre |-> 1, obligatoire |-> TRUE]
                       [] u = ub -> [ordre |-> 2, obligatoire |-> TRUE]
                       [] u = uc -> [ordre |-> 0, obligatoire |-> FALSE]]
MCUnFacultatif == [MCDeuxObligatoires EXCEPT ![uc] = [ordre |-> 3, obligatoire |-> FALSE]]
MCDeuxRequetes == {r1, r2}
MCVisas == {"soumettre", "viser", "rejeter"}
MCSymetrie == Permutations(MCDeuxRequetes)
=============================================================================
