----------------------------- MODULE CycleBudget -----------------------------
(***************************************************************************)
(* The life cycle of one budget version, with the requests served one at a *)
(* time: the two workflows that move dim_version.statut (the one by CR of  *)
(* CrWorkflowService and the global one of VersionWorkflowService), the    *)
(* table of statuses by CR, the snapshot of expected CRs, the three         *)
(* services that write budget lines, and the deletion of the version.       *)
(*                                                                         *)
(* Every action is a whole handler.  A refused request (an exception)      *)
(* changes nothing and is not a step.  CycleBudgetConcurrent splits the    *)
(* handlers into the database accesses they make.                          *)
(***************************************************************************)
CONSTANTS
  CRs,               \* the current, active centres de responsabilite
  Users,             \* the users who enter and validate budgets
  Personne,          \* no user: a NULL fk_validateur
  Contenus,          \* what the fait_budget rows of a CR can amount to
  Vide,              \* a CR without any fait_budget row
  Perimetre,         \* user -> the CRs PerimetreService grants
  SnapshotInitial    \* the CRs of the snapshot when the cycle starts

StatutsVersion ==
  {"ouvert", "soumis", "pre_valide", "soumis_comite", "valide", "gele"}
EtatsVersion == StatutsVersion \cup {"supprimee"}  \* or the row is deleted
StatutsCr == {"ABSENT", "EN_SAISIE", "SOUMIS", "VALIDE"}
EtatsSnapshot == {"HORS", "ACTIF", "RETIRE"}
Voies == {"aucune", "globale", "comite"}

ASSUME PerimetreAssumption == Perimetre \in [Users -> SUBSET CRs]
ASSUME PersonneAssumption == Personne \notin Users
ASSUME VideAssumption == Vide \notin Contenus
ASSUME SnapshotAssumption == SnapshotInitial \subseteq CRs

VARIABLES
  version,         \* dim_version.statut, "supprimee" once the row is deleted
  statutCr,        \* fait_budget_cr_statut.statut, "ABSENT" without a row
  validateur,      \* fait_budget_cr_statut.fk_validateur
  snapshot,        \* dim_version_cr_attendu: no row, actif, not actif
  contenu,         \* the fait_budget rows of each CR of the version
  contenuSoumis,   \* history: what a locked CR should hold (see Soumettre)
  voie,            \* history: the workflow that took the version to 'valide'
  tardifs          \* history: the CRs expected since the version left 'ouvert'

crVars == <<statutCr, validateur, contenuSoumis>>
traces == <<voie, tardifs>>
vars == <<version, statutCr, validateur, snapshot, contenu, contenuSoumis, traces>>

Init ==
  /\ version = "ouvert"
  /\ statutCr = [c \in CRs |-> "ABSENT"]
  /\ validateur = [c \in CRs |-> Personne]
  /\ snapshot = [c \in CRs |-> IF c \in SnapshotInitial THEN "ACTIF" ELSE "HORS"]
  /\ contenu \in [CRs -> Contenus \cup {Vide}]
  /\ contenuSoumis = [c \in CRs |-> Vide]
  /\ voie = "aucune"
  /\ tardifs = {}

-----------------------------------------------------------------------------
(* What the handlers test.                                                 *)

(* Faults, for the mutation runs: the version is never moved; the lock of  *)
(* entry covers SOUMIS only.                                               *)
BasculeOubliee(lue, snap, statuts, courante) == courante
ModifiableSaufSoumis(c) == statutCr[c] # "SOUMIS"
(* A row of status that assertCrModifiable does not refuse. *)
Modifiable(c) == statutCr[c] \in {"ABSENT", "EN_SAISIE"}

(* The active rows of the snapshot, given the snapshot. *)
Attendus(snap) == {c \in CRs : snap[c] = "ACTIF"}

(* compterSnapshot: there are expected CRs and all of them are VALIDE. *)
SnapshotComplet(snap, statuts) ==
  /\ Attendus(snap) # {}
  /\ \A c \in Attendus(snap) : statuts[c] = "VALIDE"

(* basculerVersionSiTousValides, from the statut the handler has read. *)
Bascule(lue, snap, statuts, courante) ==
  IF lue = "ouvert" /\ SnapshotComplet(snap, statuts) THEN "pre_valide" ELSE courante

(* The history when expected CRs are added to the snapshot.                *)
TardifsAvec(crs) == IF version = "ouvert" THEN tardifs ELSE tardifs \cup crs

(* The history of what a locked CR should hold: the rows it has submitted, *)
(* then as FaitBudgetService writes them; nothing once it is modifiable.   *)
Soumis(c, x) == contenuSoumis' = [contenuSoumis EXCEPT ![c] = x]
ReecritSoumis(c, x) == IF Modifiable(c) THEN UNCHANGED contenuSoumis ELSE Soumis(c, x)

-----------------------------------------------------------------------------
(* CrWorkflowService: the cycle of a CR.                                   *)

Soumettre(u, c) ==
  /\ c \in Perimetre[u]
  /\ contenu[c] # Vide
  /\ statutCr[c] \in {"ABSENT", "EN_SAISIE"}
  /\ statutCr' = [statutCr EXCEPT ![c] = "SOUMIS"]
  /\ Soumis(c, contenu[c])
  /\ UNCHANGED <<version, validateur, snapshot, contenu, traces>>

Valider(u, c) ==
  /\ c \in Perimetre[u]
  /\ statutCr[c] = "SOUMIS"
  /\ statutCr' = [statutCr EXCEPT ![c] = "VALIDE"]
  /\ validateur' = [validateur EXCEPT ![c] = u]
  /\ version' = Bascule(version, snapshot, statutCr', version)
  /\ UNCHANGED <<snapshot, contenu, contenuSoumis, traces>>

Rejeter(u, c) ==
  /\ c \in Perimetre[u]
  /\ statutCr[c] = "SOUMIS"
  /\ statutCr' = [statutCr EXCEPT ![c] = "EN_SAISIE"]
  /\ Soumis(c, Vide)
  /\ UNCHANGED <<version, validateur, snapshot, contenu, traces>>

(* Fault: the reopening forgets the version. *)
RouvrirSansVersion(u, c) ==
  /\ c \in Perimetre[u]
  /\ version \in {"ouvert", "pre_valide"}
  /\ statutCr[c] = "VALIDE" /\ validateur[c] = u
  /\ statutCr' = [statutCr EXCEPT ![c] = "EN_SAISIE"]
  /\ Soumis(c, Vide)
  /\ UNCHANGED <<version, validateur, snapshot, contenu, traces>>

Rouvrir(u, c) ==
  /\ c \in Perimetre[u]
  /\ version \in {"ouvert", "pre_valide"}
  /\ statutCr[c] = "VALIDE"
  /\ validateur[c] = u
  /\ statutCr' = [statutCr EXCEPT ![c] = "EN_SAISIE"]
  /\ Soumis(c, Vide)
  /\ version' = "ouvert"
  /\ tardifs' = {}
  /\ UNCHANGED <<validateur, snapshot, contenu, voie>>

(* The Comite sends one CR back; no perimeter is checked. *)
DemanderRevision(c) ==
  /\ version = "soumis_comite"
  /\ statutCr[c] = "VALIDE"
  /\ statutCr' = [statutCr EXCEPT ![c] = "EN_SAISIE"]
  /\ Soumis(c, Vide)
  /\ version' = "ouvert"
  /\ tardifs' = {}
  /\ UNCHANGED <<validateur, snapshot, contenu, voie>>

SoumettreComite ==
  /\ version = "pre_valide"
  /\ version' = "soumis_comite"
  /\ UNCHANGED <<crVars, snapshot, contenu, traces>>

ApprouverComite ==
  /\ version = "soumis_comite"
  /\ version' = "valide"
  /\ voie' = "comite"
  /\ UNCHANGED <<crVars, snapshot, contenu, tardifs>>

-----------------------------------------------------------------------------
(* CrWorkflowService: the snapshot of the expected CRs.                    *)

(* No guard on the statut of the version.                                  *)
InitialiserSnapshot(crs) ==
  /\ version # "supprimee"
  /\ snapshot' = [c \in CRs |-> IF c \in crs /\ snapshot[c] = "HORS"
                                THEN "ACTIF" ELSE snapshot[c]]
  /\ tardifs' = TardifsAvec({c \in crs : snapshot[c] = "HORS"})
  /\ UNCHANGED <<version, crVars, contenu, voie>>

RetirerCr(c, forcer) ==
  /\ snapshot[c] = "ACTIF"
  /\ forcer \/ (contenu[c] = Vide /\ Modifiable(c))
  /\ snapshot' = [snapshot EXCEPT ![c] = "RETIRE"]
  /\ version' = Bascule(version, snapshot', statutCr, version)
  /\ UNCHANGED <<crVars, contenu, traces>>

ReintegrerCr(c) ==
  /\ version = "ouvert"
  /\ snapshot[c] = "RETIRE"
  /\ snapshot' = [snapshot EXCEPT ![c] = "ACTIF"]
  /\ UNCHANGED <<version, crVars, contenu, traces>>

-----------------------------------------------------------------------------
(* VersionWorkflowService: the global workflow.                            *)

SoumettreVersion ==
  /\ version = "ouvert"
  /\ \E c \in CRs : contenu[c] # Vide
  /\ version' = "soumis"
  /\ UNCHANGED <<crVars, snapshot, contenu, traces>>

ValiderVersion ==
  /\ version = "soumis"
  /\ version' = "valide"
  /\ voie' = "globale"
  /\ UNCHANGED <<crVars, snapshot, contenu, tardifs>>

RejeterVersion ==
  /\ version = "soumis"
  /\ version' = "ouvert"
  /\ tardifs' = {}
  /\ UNCHANGED <<crVars, snapshot, contenu, voie>>

Publier ==
  /\ version = "valide"
  /\ version' = "gele"
  /\ UNCHANGED <<crVars, snapshot, contenu, traces>>

(* VersionService.softDelete is a DELETE: the foreign keys refuse it while   *)
(* a line, a row of status or a row of the snapshot refers to the version.  *)
SansReference ==
  \A c \in CRs : contenu[c] = Vide /\ statutCr[c] = "ABSENT" /\ snapshot[c] = "HORS"

Supprimer ==
  /\ version = "ouvert"
  /\ SansReference
  /\ version' = "supprimee"
  /\ UNCHANGED <<crVars, snapshot, contenu, traces>>

-----------------------------------------------------------------------------
(* The writers of budget lines.                                            *)

(* saveGrilleSaisie: the grid of one CR, cell by cell in one transaction;  *)
(* assertCrModifiable creates the row of status on the first entry.        *)
SaisirGrille(u, c, x) ==
  /\ c \in Perimetre[u]
  /\ version = "ouvert"
  /\ Modifiable(c)
  /\ statutCr' = [statutCr EXCEPT ![c] = "EN_SAISIE"]
  /\ contenu' = [contenu EXCEPT ![c] = x]
  /\ UNCHANGED <<version, validateur, snapshot, contenuSoumis, traces>>

(* importFichier: inserts and updates rows of several CRs, all or nothing; *)
(* it never deletes.  The lines outside the perimeter are dropped.         *)
Importer(u, crs, x) ==
  /\ crs \subseteq Perimetre[u]
  /\ version = "ouvert"
  /\ \A c \in crs : Modifiable(c)
  /\ statutCr' = [c \in CRs |-> IF c \in crs THEN "EN_SAISIE" ELSE statutCr[c]]
  /\ contenu' = [c \in CRs |-> IF c \in crs THEN x ELSE contenu[c]]
  /\ UNCHANGED <<version, validateur, snapshot, contenuSoumis, traces>>

(* Fault: the statut of the version is not read either. *)
EcrireLigneToujours(c, x) ==
  /\ contenu' = [contenu EXCEPT ![c] = x]
  /\ ReecritSoumis(c, x)
  /\ UNCHANGED <<version, statutCr, validateur, snapshot, traces>>

(* FaitBudgetService.create and update: the statut of the CR is not read. *)
EcrireLigne(c, x) ==
  /\ version = "ouvert"
  /\ contenu' = [contenu EXCEPT ![c] = x]
  /\ ReecritSoumis(c, x)
  /\ UNCHANGED <<version, statutCr, validateur, snapshot, traces>>

(* FaitBudgetService.remove: what is left may be nothing. *)
SupprimerLigne(c, x) ==
  /\ version = "ouvert"
  /\ contenu[c] # Vide
  /\ contenu' = [contenu EXCEPT ![c] = x]
  /\ ReecritSoumis(c, x)
  /\ UNCHANGED <<version, statutCr, validateur, snapshot, traces>>

-----------------------------------------------------------------------------
CycleCr ==
  \/ \E u \in Users, c \in CRs :
       Soumettre(u, c) \/ Valider(u, c) \/ Rejeter(u, c) \/ Rouvrir(u, c)
  \/ \E c \in CRs : DemanderRevision(c)
  \/ SoumettreComite \/ ApprouverComite

GestionSnapshot ==
  \/ \E crs \in SUBSET CRs : InitialiserSnapshot(crs)
  \/ \E c \in CRs, forcer \in BOOLEAN : RetirerCr(c, forcer)
  \/ \E c \in CRs : ReintegrerCr(c)

CycleGlobal == SoumettreVersion \/ ValiderVersion \/ RejeterVersion \/ Publier \/ Supprimer

Saisie ==
  \/ \E u \in Users, c \in CRs, x \in Contenus \cup {Vide} : SaisirGrille(u, c, x)
  \/ \E u \in Users, crs \in (SUBSET CRs) \ {{}}, x \in Contenus : Importer(u, crs, x)
  \/ \E c \in CRs, x \in Contenus : EcrireLigne(c, x)
  \/ \E c \in CRs, x \in Contenus \cup {Vide} : SupprimerLigne(c, x)

Next == CycleCr \/ GestionSnapshot \/ CycleGlobal \/ Saisie

Spec == Init /\ [][Next]_vars

-----------------------------------------------------------------------------
(* Properties.                                                             *)

(* Every variable holds a value its column can hold. *)
TypeOK ==
  /\ version \in EtatsVersion
  /\ statutCr \in [CRs -> StatutsCr]
  /\ validateur \in [CRs -> Users \cup {Personne}]
  /\ snapshot \in [CRs -> EtatsSnapshot]
  /\ contenu \in [CRs -> Contenus \cup {Vide}]
  /\ contenuSoumis \in [CRs -> Contenus \cup {Vide}]
  /\ voie \in Voies
  /\ tardifs \subseteq CRs

(* A version that the Comite is about to examine, examines, or has taken   *)
(* to 'valide' rests on validated CRs only, those apart that were added to *)
(* the snapshot too late: each path out of VALIDE also takes the version   *)
(* back to 'ouvert', and an 'ouvert' version only leaves it complete.      *)
ApprobationComplete ==
  (\/ version \in {"pre_valide", "soumis_comite"}
   \/ version \in {"valide", "gele"} /\ voie = "comite")
    => \A c \in Attendus(snapshot) \ tardifs : statutCr[c] = "VALIDE"

(* A CR that is SOUMIS or VALIDE holds exactly the lines its saisisseur    *)
(* submitted, as FaitBudgetService alone may have changed them since: the  *)
(* lock of assertCrModifiable and of assertCrsImportables covers the other *)
(* writers of lines.                                                       *)
LignesFigees ==
  \A c \in CRs : statutCr[c] \in {"SOUMIS", "VALIDE"} => contenu[c] = contenuSoumis[c]

(* A published version is final: neither its statut nor its lines change,  *)
(* whichever of the two workflows and three writers is called afterwards.  *)
GeleImmuable == [][version = "gele" => UNCHANGED <<version, contenu>>]_vars

(* A CR only leaves VALIDE to be corrected, before the version is          *)
(* approved, and the version is then 'ouvert': otherwise the grid would    *)
(* refuse the correction that the validator or the Comite asks for.        *)
ReouvertureCorrigeable ==
  [][\A c \in CRs : statutCr[c] = "VALIDE" /\ statutCr'[c] # "VALIDE" =>
       /\ statutCr'[c] = "EN_SAISIE"
       /\ version \notin {"valide", "gele"}
       /\ version' = "ouvert"]_vars

(* The validation of the last expected CR of an 'ouvert' version, or the   *)
(* removal of the last one that was not validated, takes the version to    *)
(* 'pre_valide': nothing else will.                                        *)
BasculeFaite ==
  [][/\ version = "ouvert"
     /\ Attendus(snapshot') \subseteq Attendus(snapshot)
     /\ SnapshotComplet(snapshot', statutCr') /\ ~ SnapshotComplet(snapshot, statutCr)
     => version' = "pre_valide"]_vars
=============================================================================
