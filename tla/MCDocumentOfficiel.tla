-------------------------- MODULE MCDocumentOfficiel --------------------------
(* Small instances of DocumentOfficiel: a Comite of up to three members;   *)
(* the emitter and the signatory are members or not as TLC chooses.        *)
EXTENDS DocumentOfficiel, TLC

CONSTANTS ua, ub, uc

MCUsers == {ua, ub, uc}
MCAdmins == {}
MCTextes == {"NULL", "v1"}
=============================================================================
