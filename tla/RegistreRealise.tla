----------------------------- MODULE RegistreRealise -----------------------------
(* What the actuals promise to whoever reads them: for each key, nothing,    *)
(* an amount, or a validated amount. A validation accepts the amount that is *)
(* shown, and what is validated stays, unless two requests overlapped on     *)
(* that key. Reforecast takes this promise; Realise keeps it.                *)

CONSTANTS Cles,      \* what makes a row of fait_realise unique
          Montants   \* amounts

VARIABLES
  etat,       \* key -> what the table holds for it
  retouchees  \* keys a request rewrote after a COMMIT it had not seen

Vide == [valide |-> FALSE]
Etats == {Vide} \cup [montant : Montants, valide : BOOLEAN]

InitRegistre == etat = [c \in Cles |-> Vide] /\ retouchees = {}

(* Fault: a validated row is edited and deleted like an open one.           *)
RegulierSansStatut(avant, apres) == apres.valide => apres = [avant EXCEPT !.valide = TRUE]

(* Nothing changes, what was open is replaced or removed, or the amount     *)
(* shown is validated.                                                     *)
Regulier(avant, apres) ==
  \/ apres = avant
  \/ ~ avant.valide /\ (apres.valide => apres = [avant EXCEPT !.valide = TRUE])

(* One COMMIT: several keys may change together.                           *)
Commit(nouvel, S) ==
  /\ etat' = nouvel
  /\ retouchees' = retouchees \cup S
  /\ \A c \in Cles \ retouchees' : Regulier(etat[c], nouvel[c])

NextRegistre == etat' \in [Cles -> Etats] /\ \E S \in SUBSET Cles : Commit(etat', S)

SpecRegistre == InitRegistre /\ [][NextRegistre]_<<etat, retouchees>>
=============================================================================
