------------------------ MODULE CycleBudgetConcurrent ------------------------
(***************************************************************************)
(* The requests of CycleBudget as the server executes them: side by side,  *)
(* each one a sequence of database accesses under READ COMMITTED, without  *)
(* SELECT ... FOR UPDATE and without a version column.                     *)
(*                                                                         *)
(*   Recevoir   what the handler reads and tests before its transaction    *)
(*   Lire       what it reads and tests inside the transaction             *)
(*   Compter    (valider, retirer) its UPDATE, then compterSnapshot, which *)
(*              sees the committed rows and the transaction's own one; the *)
(*              row stays locked until the end                             *)
(*   last step  the remaining writes and COMMIT                            *)
(*                                                                         *)
(* Writes are invisible before COMMIT, so the writes after which a         *)
(* transaction reads nothing more are taken with its COMMIT.  repo.save    *)
(* writes the row image read by Lire with the columns the handler sets;    *)
(* the SELECT that TypeORM issues in save and its UPDATE are one step.     *)
(***************************************************************************)
EXTENDS CycleBudget

CONSTANTS
  Requetes,      \* the requests that can be in progress at the same time
  Operations     \* the operations the users call in this instance

OpsAutorisees == {"soumettre", "valider", "rejeter", "rouvrir"}
OpsVersion == {"soumettreComite", "approuverComite", "soumettreVersion",
               "validerVersion", "rejeterVersion", "publier", "modifierVersion",
               "supprimer"}
ToutesOperations ==
  OpsAutorisees \cup OpsVersion
    \cup {"demanderRevision", "reintegrer", "retirer", "initialiserSnapshot",
          "saisir", "importer", "ecrireLigne"}

ASSUME OperationsAssumption == Operations \subseteq ToutesOperations

(* The calls of the controllers, with the arguments that matter. *)
Demandes ==
       [op : OpsAutorisees, acteur : Users, cr : CRs]
  \cup [op : OpsVersion]
  \cup [op : {"demanderRevision", "reintegrer"}, cr : CRs]
  \cup [op : {"retirer"}, cr : CRs, forcer : BOOLEAN]
  \cup [op : {"initialiserSnapshot"}, crs : SUBSET CRs]
  \cup [op : {"saisir"}, acteur : Users, cr : CRs, contenu : Contenus \cup {Vide}]
  \cup [op : {"importer"}, acteur : Users, crs : SUBSET CRs, contenu : Contenus]
  \cup [op : {"ecrireLigne"}, cr : CRs, contenu : Contenus \cup {Vide}]

VARIABLES
  requetes,        \* request -> where its handler is and what it has read
  statutsVus,      \* history: every statut the version has had
  soumisUnJour,    \* history: the CRs that have been SOUMIS
  validesUnJour,   \* history: the CRs that have been VALIDE
  doublees         \* history: the requests a COMMIT has overlapped

histVars == <<statutsVus, soumisUnJour, validesUnJour>>
varsConcurrent == <<vars, requetes, histVars, doublees>>

NonLue == "non_lue"
Libre == [phase |-> "libre"]
EnCours ==
  [phase : {"recue", "lue", "comptee"}, demande : Demandes,
   version : StatutsVersion \cup {NonLue},     \* read before the transaction
   absents : SUBSET CRs,                       \* rows to INSERT, not UPDATE
   auteur : Users \cup {Personne},             \* fk_validateur as read
   complet : BOOLEAN]                          \* what compterSnapshot found

InitConcurrent ==
  /\ Init
  /\ requetes = [r \in Requetes |-> Libre]
  /\ statutsVus = {"ouvert"}
  /\ soumisUnJour = {}
  /\ validesUnJour = {}
  /\ doublees = {}

-----------------------------------------------------------------------------
Op(r) == requetes[r].demande.op
Cr(r) == requetes[r].demande.cr

(* Rows locked by a transaction between its UPDATE and its COMMIT. *)
StatutVerrouille(c) ==
  \E r \in Requetes : requetes[r].phase = "comptee" /\ Op(r) = "valider" /\ Cr(r) = c
AttenduVerrouille(c) ==
  \E r \in Requetes : requetes[r].phase = "comptee" /\ Op(r) = "retirer" /\ Cr(r) = c

Terminer(r) == requetes' = [requetes EXCEPT ![r] = Libre]

Historique ==
  /\ statutsVus' = statutsVus \cup {version'}
  /\ soumisUnJour' = soumisUnJour \cup {c \in CRs : statutCr'[c] = "SOUMIS"}
  /\ validesUnJour' = validesUnJour \cup {c \in CRs : statutCr'[c] = "VALIDE"}
  /\ doublees' = {r \in Requetes : requetes'[r].phase # "libre"}

(* Tests made on rows read before the transaction starts. *)
GardeAvant(d) ==
  /\ version # "supprimee"
  /\ d.op \in OpsAutorisees \cup {"saisir"} => d.cr \in Perimetre[d.acteur]
  /\ d.op = "importer" => d.crs # {} /\ d.crs \subseteq Perimetre[d.acteur]
  /\ d.op = "rouvrir" => version \in {"ouvert", "pre_valide"}
  /\ d.op = "demanderRevision" => version = "soumis_comite"
  /\ d.op \in {"reintegrer", "saisir", "importer", "ecrireLigne", "modifierVersion", "supprimer"}
       => version = "ouvert"

(* The statut of the version that a handler keeps to use after its reads. *)
VersionGardee(d) ==
  IF d.op \in {"valider", "rouvrir", "retirer"} THEN version ELSE NonLue

(* Fault: the publication accepts what the Comite has not approved yet. *)
StatutRequisAvantComite ==
  [soumettreComite |-> "pre_valide", approuverComite |-> "soumis_comite",
   soumettreVersion |-> "ouvert", validerVersion |-> "soumis",
   rejeterVersion |-> "soumis", publier |-> "soumis_comite"]

(* The statut that each transition of the version requires. *)
StatutRequis ==
  [soumettreComite |-> "pre_valide", approuverComite |-> "soumis_comite",
   soumettreVersion |-> "ouvert", validerVersion |-> "soumis",
   rejeterVersion |-> "soumis", publier |-> "valide"]

(* Tests made on rows read by the transaction itself. *)
GardeLecture(d) ==
  /\ d.op = "soumettre" => contenu[d.cr] # Vide /\ Modifiable(d.cr)
  /\ d.op \in {"valider", "rejeter"} => statutCr[d.cr] = "SOUMIS"
  /\ d.op \in {"rouvrir", "demanderRevision"} => statutCr[d.cr] = "VALIDE"
  /\ d.op = "rouvrir" => validateur[d.cr] = d.acteur
  /\ d.op \in DOMAIN StatutRequis => version = StatutRequis[d.op]
  /\ d.op = "soumettreVersion" => \E c \in CRs : contenu[c] # Vide
  /\ d.op = "retirer" =>
       /\ snapshot[d.cr] = "ACTIF"
       /\ d.forcer \/ (contenu[d.cr] = Vide /\ Modifiable(d.cr))
  /\ d.op = "reintegrer" => snapshot[d.cr] = "RETIRE"
  /\ d.op = "saisir" => Modifiable(d.cr)
  /\ d.op = "importer" => \A c \in d.crs : Modifiable(c)

(* The rows a handler has not found and is going to INSERT. *)
Absents(d) ==
  IF d.op \in {"soumettre", "saisir"} THEN {c \in {d.cr} : statutCr[c] = "ABSENT"}
  ELSE IF d.op = "initialiserSnapshot" THEN {c \in d.crs : snapshot[c] = "HORS"}
  ELSE {}

AuteurLu(d) == IF d.op \in OpsAutorisees \cup {"demanderRevision"}
               THEN validateur[d.cr] ELSE Personne

-----------------------------------------------------------------------------
Recevoir(r, d) ==
  /\ requetes[r].phase = "libre"
  /\ d.op \in Operations
  /\ GardeAvant(d)
  /\ requetes' = [requetes EXCEPT ![r] =
       [phase |-> "recue", demande |-> d, version |-> VersionGardee(d),
        absents |-> {}, auteur |-> Personne, complet |-> FALSE]]
  /\ UNCHANGED <<vars, histVars, doublees>>

Lire(r) ==
  /\ requetes[r].phase = "recue"
  /\ GardeLecture(requetes[r].demande)
  /\ requetes' = [requetes EXCEPT ![r].phase = "lue",
                                  ![r].absents = Absents(requetes[r].demande),
                                  ![r].auteur = AuteurLu(requetes[r].demande)]
  /\ UNCHANGED <<vars, histVars, doublees>>

(* A test of the transaction fails, or the process or the connection dies: *)
(* ROLLBACK.                                                               *)
Annuler(r) ==
  /\ requetes[r].phase # "libre"
  /\ Terminer(r)
  /\ doublees' = doublees \ {r}
  /\ UNCHANGED <<vars, histVars>>

(* compterSnapshot, as the transaction that has written its own row sees it. *)
Compte(d) ==
  IF d.op = "valider" THEN SnapshotComplet(snapshot, [statutCr EXCEPT ![d.cr] = "VALIDE"])
  ELSE SnapshotComplet([snapshot EXCEPT ![d.cr] = "RETIRE"], statutCr)

(* The transaction has written its own row and reads the whole snapshot. *)
Compter(r) ==
  /\ requetes[r].phase = "lue"
  /\ requetes[r].version = "ouvert"
  /\ \/ Op(r) = "valider" /\ ~ StatutVerrouille(Cr(r))
     \/ Op(r) = "retirer" /\ ~ AttenduVerrouille(Cr(r))
  /\ requetes' = [requetes EXCEPT ![r].phase = "comptee",
                                  ![r].complet = Compte(requetes[r].demande)]
  /\ UNCHANGED <<vars, histVars, doublees>>

(* Whether the handler of r may make its last writes: it has counted when  *)
(* it has to, or the row is not locked by a transaction that has counted.  *)
PretAValider(r) ==
  \/ requetes[r].phase = "comptee"
  \/ /\ requetes[r].phase = "lue"
     /\ requetes[r].version # "ouvert"
     /\ ~ StatutVerrouille(Cr(r))

PretARetirer(r) ==
  \/ requetes[r].phase = "comptee"
  \/ /\ requetes[r].phase = "lue"
     /\ requetes[r].version # "ouvert"
     /\ ~ AttenduVerrouille(Cr(r))

(* Fault: the version is moved whatever the count. *)
BasculeSansCompte(r) == IF requetes[r].phase = "comptee" THEN "pre_valide" ELSE version

(* A blind UPDATE of the version, when the count has found it complete. *)
BasculeEcrite(r) == IF requetes[r].complet THEN "pre_valide" ELSE version

(* save of the status row of c: the columns set, and fk_validateur as given. *)
EcrireStatut(c, statut, auteur) ==
  /\ statutCr' = [statutCr EXCEPT ![c] = statut]
  /\ validateur' = [validateur EXCEPT ![c] = auteur]

-----------------------------------------------------------------------------
FinSoumettre(r) ==
  /\ requetes[r].phase = "lue" /\ Op(r) = "soumettre"
  /\ ~ StatutVerrouille(Cr(r))
  /\ \A c \in requetes[r].absents : statutCr[c] = "ABSENT"
  /\ EcrireStatut(Cr(r), "SOUMIS", requetes[r].auteur)
  /\ Soumis(Cr(r), contenu[Cr(r)])
  /\ UNCHANGED <<version, snapshot, contenu, traces>>

(* Fault: the image read is saved with its former validator. *)
FinValiderSansAuteur(r) ==
  /\ Op(r) = "valider"
  /\ PretAValider(r)
  /\ EcrireStatut(Cr(r), "VALIDE", requetes[r].auteur)
  /\ version' = BasculeEcrite(r)
  /\ UNCHANGED <<snapshot, contenu, contenuSoumis, traces>>

FinValider(r) ==
  /\ Op(r) = "valider"
  /\ PretAValider(r)
  /\ EcrireStatut(Cr(r), "VALIDE", requetes[r].demande.acteur)
  /\ version' = BasculeEcrite(r)
  /\ UNCHANGED <<snapshot, contenu, contenuSoumis, traces>>

FinRejeter(r) ==
  /\ requetes[r].phase = "lue" /\ Op(r) = "rejeter"
  /\ ~ StatutVerrouille(Cr(r))
  /\ EcrireStatut(Cr(r), "EN_SAISIE", requetes[r].auteur)
  /\ Soumis(Cr(r), Vide)
  /\ UNCHANGED <<version, snapshot, contenu, traces>>

(* The version goes back to 'ouvert' if it was 'pre_valide' when read. *)
FinRouvrir(r) ==
  /\ requetes[r].phase = "lue" /\ Op(r) = "rouvrir"
  /\ ~ StatutVerrouille(Cr(r))
  /\ EcrireStatut(Cr(r), "EN_SAISIE", requetes[r].auteur)
  /\ Soumis(Cr(r), Vide)
  /\ version' = IF requetes[r].version = "pre_valide" THEN "ouvert" ELSE version
  /\ tardifs' = IF version' = "ouvert" THEN {} ELSE tardifs
  /\ UNCHANGED <<snapshot, contenu, voie>>

FinDemanderRevision(r) ==
  /\ requetes[r].phase = "lue" /\ Op(r) = "demanderRevision"
  /\ ~ StatutVerrouille(Cr(r))
  /\ EcrireStatut(Cr(r), "EN_SAISIE", requetes[r].auteur)
  /\ Soumis(Cr(r), Vide)
  /\ version' = "ouvert"
  /\ tardifs' = IF version' = "ouvert" THEN {} ELSE tardifs
  /\ UNCHANGED <<snapshot, contenu, voie>>

(* The statut each handler of the version writes; VersionService.update    *)
(* saves the image it has read, whose statut is 'ouvert'.                  *)
StatutEcrit(op) ==
  CASE op = "soumettreComite" -> "soumis_comite"
    [] op \in {"approuverComite", "validerVersion"} -> "valide"
    [] op = "soumettreVersion" -> "soumis"
    [] op \in {"rejeterVersion", "modifierVersion"} -> "ouvert"
    [] op = "publier" -> "gele"
    [] op = "supprimer" -> "supprimee"

FinVersion(r) ==
  /\ requetes[r].phase = "lue" /\ Op(r) \in OpsVersion
  /\ Op(r) = "supprimer" => SansReference
  /\ version' = StatutEcrit(Op(r))
  /\ voie' = CASE Op(r) = "approuverComite" -> "comite"
               [] Op(r) = "validerVersion" -> "globale"
               [] OTHER -> voie
  /\ tardifs' = IF version' = "ouvert" THEN {} ELSE tardifs
  /\ UNCHANGED <<crVars, snapshot, contenu>>

FinInitialiserSnapshot(r) ==
  /\ requetes[r].phase = "lue" /\ Op(r) = "initialiserSnapshot"
  /\ \A c \in requetes[r].absents : snapshot[c] = "HORS"
  /\ snapshot' = [c \in CRs |-> IF c \in requetes[r].absents THEN "ACTIF" ELSE snapshot[c]]
  /\ tardifs' = TardifsAvec(requetes[r].absents)
  /\ UNCHANGED <<version, crVars, contenu, voie>>

FinRetirer(r) ==
  /\ Op(r) = "retirer"
  /\ PretARetirer(r)
  /\ snapshot' = [snapshot EXCEPT ![Cr(r)] = "RETIRE"]
  /\ version' = BasculeEcrite(r)
  /\ UNCHANGED <<crVars, contenu, traces>>

FinReintegrer(r) ==
  /\ requetes[r].phase = "lue" /\ Op(r) = "reintegrer"
  /\ ~ AttenduVerrouille(Cr(r))
  /\ snapshot' = [snapshot EXCEPT ![Cr(r)] = "ACTIF"]
  /\ UNCHANGED <<version, crVars, contenu, traces>>

(* The INSERT of assertCrModifiable meets the unique (fk_version, fk_cr). *)
FinSaisir(r) ==
  /\ requetes[r].phase = "lue" /\ Op(r) = "saisir"
  /\ \A c \in requetes[r].absents : statutCr[c] = "ABSENT"
  /\ statutCr' = [c \in CRs |-> IF c \in requetes[r].absents THEN "EN_SAISIE" ELSE statutCr[c]]
  /\ contenu' = [contenu EXCEPT ![Cr(r)] = requetes[r].demande.contenu]
  /\ UNCHANGED <<version, validateur, snapshot, contenuSoumis, traces>>

(* INSERT ... WHERE NOT EXISTS: the rows of status still missing. *)
FinImporter(r) ==
  /\ requetes[r].phase = "lue" /\ Op(r) = "importer"
  /\ LET crs == requetes[r].demande.crs IN
       /\ statutCr' = [c \in CRs |-> IF c \in crs /\ statutCr[c] = "ABSENT"
                                     THEN "EN_SAISIE" ELSE statutCr[c]]
       /\ contenu' = [c \in CRs |-> IF c \in crs THEN requetes[r].demande.contenu
                                    ELSE contenu[c]]
  /\ UNCHANGED <<version, validateur, snapshot, contenuSoumis, traces>>

(* create, update or remove of FaitBudgetService; remove needs a row. *)
FinEcrireLigne(r) ==
  /\ requetes[r].phase = "lue" /\ Op(r) = "ecrireLigne"
  /\ requetes[r].demande.contenu = Vide => contenu[Cr(r)] # Vide
  /\ contenu' = [contenu EXCEPT ![Cr(r)] = requetes[r].demande.contenu]
  /\ ReecritSoumis(Cr(r), requetes[r].demande.contenu)
  /\ UNCHANGED <<version, statutCr, validateur, snapshot, traces>>

Fin(r) ==
  \/ FinSoumettre(r) \/ FinValider(r) \/ FinRejeter(r) \/ FinRouvrir(r)
  \/ FinDemanderRevision(r) \/ FinVersion(r)
  \/ FinInitialiserSnapshot(r) \/ FinRetirer(r) \/ FinReintegrer(r)
  \/ FinSaisir(r) \/ FinImporter(r) \/ FinEcrireLigne(r)

(* What a handler writes refers to the version: nothing can be written once  *)
(* it is deleted, its id cannot be inserted again.                          *)
Conclure(r) ==
  /\ version # "supprimee"
  /\ requetes[r].phase \in {"lue", "comptee"}
  /\ Fin(r)
  /\ Terminer(r)
  /\ Historique

NextConcurrent ==
  \E r \in Requetes :
    \/ \E d \in Demandes : Recevoir(r, d)
    \/ Lire(r) \/ Annuler(r) \/ Compter(r) \/ Conclure(r)

SpecConcurrent == InitConcurrent /\ [][NextConcurrent]_varsConcurrent

-----------------------------------------------------------------------------
(* Properties.                                                             *)

(* The tables hold values of their columns, each request what it has read. *)
TypeOKConcurrent ==
  /\ TypeOK
  /\ requetes \in [Requetes -> {Libre} \cup EnCours]
  /\ statutsVus \subseteq EtatsVersion
  /\ soumisUnJour \subseteq CRs
  /\ validesUnJour \subseteq CRs
  /\ doublees \subseteq Requetes

(* However the requests interleave, each statut the version has had was    *)
(* reached through the one that must precede it, and a version has only    *)
(* been pre-validated when some CR had been validated: the tests on rows   *)
(* read inside the transactions are enough for the order of the steps.     *)
CheminDApprobation ==
  /\ "gele" \in statutsVus => "valide" \in statutsVus
  /\ "valide" \in statutsVus => statutsVus \cap {"soumis", "soumis_comite"} # {}
  /\ "soumis_comite" \in statutsVus => "pre_valide" \in statutsVus
  /\ "pre_valide" \in statutsVus => validesUnJour # {}

(* However the requests interleave, a CR that has been validated had been  *)
(* submitted first, and a VALIDE row names a validator in charge of it.    *)
ValidationTracee ==
  /\ validesUnJour \subseteq soumisUnJour
  /\ \A c \in CRs : statutCr[c] = "VALIDE" =>
       \E u \in Users : validateur[c] = u /\ c \in Perimetre[u]

(* The accesses of a request that no COMMIT has overlapped amount to its   *)
(* handler in CycleBudget: its COMMIT is one of the actions of CycleBudget *)
(* (or changes nothing), and no other access changes the tables.           *)
ImplementeCycleBudget ==
  /\ Init
  /\ [][\/ [Next]_vars
        \/ \E r \in doublees : requetes[r].phase # "libre" /\ requetes'[r] = Libre
       ]_varsConcurrent
=============================================================================
