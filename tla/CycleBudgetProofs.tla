-------------------------- MODULE CycleBudgetProofs --------------------------
(***************************************************************************)
(* Proofs about CycleBudget and CycleBudgetConcurrent, for every set of CRs *)
(* and of users, whatever the perimeters, the initial snapshot, the number  *)
(* of requests in progress and the set of operations.                      *)
(*                                                                         *)
(* One request at a time: TypeOK is inductive; LignesFigees and             *)
(* ApprobationComplete are inductive under TypeOK; the action properties    *)
(* follow from TypeOK or from the actions alone.                            *)
(*                                                                         *)
(* Interleaved: CheminDApprobation and ValidationTracee are not inductive:  *)
(* they hold because of what each handler has established before its last   *)
(* writes, which Acquis states.  The rows it has read may have changed      *)
(* since, so Acquis only speaks of the history, which never shrinks.        *)
(***************************************************************************)
EXTENDS CycleBudgetConcurrent, TLAPS


-----------------------------------------------------------------------------
(* Every state of the specification is well-typed: no handler can leave a  *)
(* statut in dim_version or fait_budget_cr_statut that its column refuses. *)
THEOREM TypeCorrecte == Spec => []TypeOK
<1>1. Init => TypeOK
  BY PersonneAssumption, SnapshotAssumption
  DEF Init, TypeOK, EtatsVersion, StatutsVersion, StatutsCr, EtatsSnapshot, Voies
<1>2. ASSUME TypeOK, [Next]_vars
      PROVE  TypeOK'
  <2>. USE <1>2 DEF traces, Soumis, ReecritSoumis, TypeOK, EtatsVersion, StatutsVersion, StatutsCr, EtatsSnapshot, Voies
  <2>1. CASE CycleCr
    <3>1. ASSUME NEW u \in Users, NEW c \in CRs, Soumettre(u, c)
          PROVE  TypeOK'
      BY <3>1 DEF Soumettre
    <3>2. ASSUME NEW u \in Users, NEW c \in CRs, Valider(u, c)
          PROVE  TypeOK'
      BY <3>2 DEF Valider, Bascule
    <3>3. ASSUME NEW u \in Users, NEW c \in CRs, Rejeter(u, c)
          PROVE  TypeOK'
      BY <3>3 DEF Rejeter
    <3>4. ASSUME NEW u \in Users, NEW c \in CRs, Rouvrir(u, c)
          PROVE  TypeOK'
      BY <3>4 DEF Rouvrir
    <3>5. ASSUME NEW c \in CRs, DemanderRevision(c)
          PROVE  TypeOK'
      BY <3>5 DEF DemanderRevision
    <3>6. CASE SoumettreComite \/ ApprouverComite
      BY <3>6 DEF SoumettreComite, ApprouverComite, crVars
    <3>. QED  BY <2>1, <3>1, <3>2, <3>3, <3>4, <3>5, <3>6 DEF CycleCr
  <2>2. CASE GestionSnapshot
    <3>1. ASSUME NEW crs \in SUBSET CRs, InitialiserSnapshot(crs)
          PROVE  TypeOK'
      BY <3>1 DEF InitialiserSnapshot, TardifsAvec, crVars
    <3>2. ASSUME NEW c \in CRs, NEW forcer \in BOOLEAN, RetirerCr(c, forcer)
          PROVE  TypeOK'
      BY <3>2 DEF RetirerCr, Bascule, crVars
    <3>3. ASSUME NEW c \in CRs, ReintegrerCr(c)
          PROVE  TypeOK'
      BY <3>3 DEF ReintegrerCr, crVars
    <3>. QED  BY <2>2, <3>1, <3>2, <3>3 DEF GestionSnapshot
  <2>3. CASE CycleGlobal
    BY <2>3 DEF CycleGlobal, SoumettreVersion, ValiderVersion, RejeterVersion,
                Publier, Supprimer, crVars
  <2>4. CASE Saisie
    <3>1. ASSUME NEW u \in Users, NEW c \in CRs, NEW x \in Contenus \cup {Vide},
                 SaisirGrille(u, c, x)
          PROVE  TypeOK'
      BY <3>1 DEF SaisirGrille
    <3>2. ASSUME NEW u \in Users, NEW crs \in (SUBSET CRs) \ {{}}, NEW x \in Contenus,
                 Importer(u, crs, x)
          PROVE  TypeOK'
      BY <3>2 DEF Importer
    <3>3. ASSUME NEW c \in CRs, NEW x \in Contenus \cup {Vide},
                 EcrireLigne(c, x) \/ SupprimerLigne(c, x)
          PROVE  TypeOK'
      BY <3>3 DEF EcrireLigne, SupprimerLigne, crVars
    <3>. QED  BY <2>4, <3>1, <3>2, <3>3 DEF Saisie
  <2>5. CASE UNCHANGED vars
    BY <2>5 DEF vars
  <2>. QED  BY <1>2, <2>1, <2>2, <2>3, <2>4, <2>5 DEF Next
<1>. QED  BY <1>1, <1>2, PTL DEF Spec

-----------------------------------------------------------------------------
(* What the Comite examines and approves rests on validated CRs only, the  *)
(* late additions to the snapshot apart, through any sequence of           *)
(* validations, reopenings, revisions and changes of the snapshot.         *)
THEOREM ApprobationToujoursComplete == Spec => []ApprobationComplete
<1>1. Init => ApprobationComplete
  BY DEF Init, ApprobationComplete
<1>2. ASSUME TypeOK, ApprobationComplete, [Next]_vars
      PROVE  ApprobationComplete'
  <2>. USE <1>2 DEF traces, Soumis, ReecritSoumis, TypeOK, ApprobationComplete, Attendus
  <2>1. CASE CycleCr
    <3>1. ASSUME NEW u \in Users, NEW c \in CRs, Soumettre(u, c) \/ Rejeter(u, c)
          PROVE  ApprobationComplete'
      BY <3>1 DEF Soumettre, Rejeter
    <3>2. ASSUME NEW u \in Users, NEW c \in CRs, Valider(u, c)
          PROVE  ApprobationComplete'
      BY <3>2 DEF Valider, Bascule, SnapshotComplet
    <3>3. ASSUME NEW u \in Users, NEW c \in CRs, Rouvrir(u, c)
          PROVE  ApprobationComplete'
      BY <3>3 DEF Rouvrir
    <3>4. ASSUME NEW c \in CRs, DemanderRevision(c)
          PROVE  ApprobationComplete'
      BY <3>4 DEF DemanderRevision
    <3>5. CASE SoumettreComite \/ ApprouverComite
      BY <3>5 DEF SoumettreComite, ApprouverComite, crVars
    <3>. QED  BY <2>1, <3>1, <3>2, <3>3, <3>4, <3>5 DEF CycleCr
  <2>2. CASE GestionSnapshot
    <3>1. ASSUME NEW crs \in SUBSET CRs, InitialiserSnapshot(crs)
          PROVE  ApprobationComplete'
      BY <3>1 DEF InitialiserSnapshot, TardifsAvec, crVars
    <3>2. ASSUME NEW c \in CRs, NEW forcer \in BOOLEAN, RetirerCr(c, forcer)
          PROVE  ApprobationComplete'
      BY <3>2 DEF RetirerCr, Bascule, SnapshotComplet, crVars
    <3>3. ASSUME NEW c \in CRs, ReintegrerCr(c)
          PROVE  ApprobationComplete'
      BY <3>3 DEF ReintegrerCr
    <3>. QED  BY <2>2, <3>1, <3>2, <3>3 DEF GestionSnapshot
  <2>3. CASE CycleGlobal
    BY <2>3 DEF CycleGlobal, SoumettreVersion, ValiderVersion, RejeterVersion,
                Publier, Supprimer, crVars
  <2>4. CASE Saisie
    BY <2>4 DEF Saisie, SaisirGrille, Importer, EcrireLigne, SupprimerLigne, crVars
  <2>5. CASE UNCHANGED vars
    BY <2>5 DEF vars
  <2>. QED  BY <1>2, <2>1, <2>2, <2>3, <2>4, <2>5 DEF Next
<1>. QED  BY <1>1, <1>2, TypeCorrecte, PTL DEF Spec

-----------------------------------------------------------------------------
(* When every line is written through the grid or the import, a submitted  *)
(* or validated CR keeps the lines that were submitted.                    *)
THEOREM LignesToujoursFigees == Spec => []LignesFigees
<1>1. Init => LignesFigees
  BY DEF Init, LignesFigees
<1>2. ASSUME TypeOK, LignesFigees, [Next]_vars
      PROVE  LignesFigees'
  <2>. USE <1>2 DEF traces, Soumis, ReecritSoumis, TypeOK, LignesFigees
  <2>1. CASE CycleCr
    <3>1. ASSUME NEW u \in Users, NEW c \in CRs, Soumettre(u, c)
          PROVE  LignesFigees'
      BY <3>1 DEF Soumettre
    <3>2. ASSUME NEW u \in Users, NEW c \in CRs,
                 Valider(u, c) \/ Rejeter(u, c) \/ Rouvrir(u, c)
          PROVE  LignesFigees'
      BY <3>2 DEF Valider, Rejeter, Rouvrir
    <3>3. ASSUME NEW c \in CRs, DemanderRevision(c)
          PROVE  LignesFigees'
      BY <3>3 DEF DemanderRevision
    <3>4. CASE SoumettreComite \/ ApprouverComite
      BY <3>4 DEF SoumettreComite, ApprouverComite, crVars
    <3>. QED  BY <2>1, <3>1, <3>2, <3>3, <3>4 DEF CycleCr
  <2>2. CASE GestionSnapshot
    BY <2>2 DEF GestionSnapshot, InitialiserSnapshot, RetirerCr, ReintegrerCr, crVars
  <2>3. CASE CycleGlobal
    BY <2>3 DEF CycleGlobal, SoumettreVersion, ValiderVersion, RejeterVersion,
                Publier, Supprimer, crVars
  <2>4. CASE Saisie
    <3>1. ASSUME NEW u \in Users, NEW c \in CRs, NEW x \in Contenus \cup {Vide},
                 SaisirGrille(u, c, x)
          PROVE  LignesFigees'
      BY <3>1 DEF SaisirGrille, Modifiable
    <3>2. ASSUME NEW u \in Users, NEW crs \in (SUBSET CRs) \ {{}}, NEW x \in Contenus,
                 Importer(u, crs, x)
          PROVE  LignesFigees'
      BY <3>2 DEF Importer, Modifiable
    <3>3. ASSUME NEW c \in CRs, NEW x \in Contenus \cup {Vide},
                 EcrireLigne(c, x) \/ SupprimerLigne(c, x)
          PROVE  LignesFigees'
      BY <3>3 DEF EcrireLigne, SupprimerLigne, Modifiable, StatutsCr, crVars
    <3>. QED  BY <2>4, <3>1, <3>2, <3>3 DEF Saisie
  <2>5. CASE UNCHANGED vars
    BY <2>5 DEF vars
  <2>. QED  BY <1>2, <2>1, <2>2, <2>3, <2>4, <2>5 DEF Next
<1>. QED  BY <1>1, <1>2, TypeCorrecte, PTL DEF Spec

-----------------------------------------------------------------------------
(* No request, of any service, changes the statut or the lines of a        *)
(* published version when requests are served one at a time.               *)
THEOREM GeleToujoursImmuable == Spec => GeleImmuable
<1>1. ASSUME [Next]_vars, version = "gele"
      PROVE  UNCHANGED <<version, contenu>>
  <2>. USE <1>1
  <2>1. CASE CycleCr
    BY <2>1 DEF CycleCr, Soumettre, Valider, Rejeter, Rouvrir, DemanderRevision,
                SoumettreComite, ApprouverComite, Bascule
  <2>2. CASE GestionSnapshot
    BY <2>2 DEF GestionSnapshot, InitialiserSnapshot, RetirerCr, ReintegrerCr, Bascule
  <2>3. CASE CycleGlobal
    BY <2>3 DEF CycleGlobal, SoumettreVersion, ValiderVersion, RejeterVersion, Publier, Supprimer
  <2>4. CASE Saisie
    BY <2>4 DEF Saisie, SaisirGrille, Importer, EcrireLigne, SupprimerLigne
  <2>5. CASE UNCHANGED vars
    BY <2>5 DEF vars
  <2>. QED  BY <1>1, <2>1, <2>2, <2>3, <2>4, <2>5 DEF Next
<1>. QED  BY <1>1, PTL DEF Spec, GeleImmuable

-----------------------------------------------------------------------------
(* A validated CR only goes back to correction, before the approval, and   *)
(* together with the version: the two reopenings are the only ways out.    *)
THEOREM ReouvertureToujoursCorrigeable == Spec => ReouvertureCorrigeable
<1>. DEFINE Sortie(c) ==
       statutCr[c] = "VALIDE" /\ statutCr'[c] # "VALIDE" =>
         /\ statutCr'[c] = "EN_SAISIE"
         /\ version \notin {"valide", "gele"}
         /\ version' = "ouvert"
<1>1. ASSUME TypeOK, [Next]_vars, NEW c \in CRs
      PROVE  Sortie(c)
  <2>. USE <1>1 DEF TypeOK
  <2>1. CASE CycleCr
    <3>1. ASSUME NEW u \in Users, NEW d \in CRs,
                 Soumettre(u, d) \/ Valider(u, d) \/ Rejeter(u, d) \/ Rouvrir(u, d)
          PROVE  Sortie(c)
      BY <3>1 DEF Soumettre, Valider, Rejeter, Rouvrir
    <3>2. ASSUME NEW d \in CRs, DemanderRevision(d)
          PROVE  Sortie(c)
      BY <3>2 DEF DemanderRevision
    <3>3. CASE SoumettreComite \/ ApprouverComite
      BY <3>3 DEF SoumettreComite, ApprouverComite, crVars
    <3>. QED  BY <2>1, <3>1, <3>2, <3>3 DEF CycleCr
  <2>2. CASE GestionSnapshot
    BY <2>2 DEF GestionSnapshot, InitialiserSnapshot, RetirerCr, ReintegrerCr, crVars
  <2>3. CASE CycleGlobal
    BY <2>3 DEF CycleGlobal, SoumettreVersion, ValiderVersion, RejeterVersion,
                Publier, Supprimer, crVars
  <2>4. CASE Saisie
    BY <2>4 DEF Saisie, SaisirGrille, Importer, EcrireLigne, SupprimerLigne,
                Modifiable, crVars
  <2>5. CASE UNCHANGED vars
    BY <2>5 DEF vars
  <2>. QED  BY <1>1, <2>1, <2>2, <2>3, <2>4, <2>5 DEF Next
<1>2. TypeOK /\ [Next]_vars =>
        [\A c \in CRs : Sortie(c)]_vars
  BY <1>1
<1>. QED  BY <1>2, TypeCorrecte, PTL DEF Spec, ReouvertureCorrigeable

-----------------------------------------------------------------------------
(* Whoever validates the last expected CR, or removes the last one that    *)
(* was not validated, moves an 'ouvert' version to 'pre_valide'.           *)
THEOREM BasculeToujoursFaite == Spec => BasculeFaite
<1>. DEFINE Complete ==
       /\ version = "ouvert"
       /\ Attendus(snapshot') \subseteq Attendus(snapshot)
       /\ SnapshotComplet(snapshot', statutCr') /\ ~ SnapshotComplet(snapshot, statutCr)
<1>1. ASSUME TypeOK, [Next]_vars, Complete
      PROVE  version' = "pre_valide"
  <2>. USE <1>1 DEF TypeOK, SnapshotComplet
  <2>1. CASE CycleCr
    <3>1. ASSUME NEW u \in Users, NEW c \in CRs, Valider(u, c)
          PROVE  version' = "pre_valide"
      BY <3>1 DEF Valider, Bascule
    <3>2. ASSUME NEW u \in Users, NEW c \in CRs,
                 Soumettre(u, c) \/ Rejeter(u, c) \/ Rouvrir(u, c)
          PROVE  FALSE
      BY <3>2 DEF Soumettre, Rejeter, Rouvrir, Attendus
    <3>3. ASSUME NEW c \in CRs, DemanderRevision(c)
          PROVE  FALSE
      BY <3>3 DEF DemanderRevision
    <3>4. CASE SoumettreComite \/ ApprouverComite
      BY <3>4 DEF SoumettreComite, ApprouverComite
    <3>. QED  BY <2>1, <3>1, <3>2, <3>3, <3>4 DEF CycleCr
  <2>2. CASE GestionSnapshot
    <3>1. ASSUME NEW crs \in SUBSET CRs, InitialiserSnapshot(crs)
          PROVE  FALSE
      BY <3>1 DEF InitialiserSnapshot, Attendus, crVars
    <3>2. ASSUME NEW c \in CRs, NEW forcer \in BOOLEAN, RetirerCr(c, forcer)
          PROVE  version' = "pre_valide"
      BY <3>2 DEF RetirerCr, Bascule, crVars
    <3>3. ASSUME NEW c \in CRs, ReintegrerCr(c)
          PROVE  FALSE
      BY <3>3 DEF ReintegrerCr, Attendus, crVars
    <3>. QED  BY <2>2, <3>1, <3>2, <3>3 DEF GestionSnapshot
  <2>3. CASE CycleGlobal
    BY <2>3 DEF CycleGlobal, SoumettreVersion, ValiderVersion, RejeterVersion,
                Publier, Supprimer, crVars
  <2>4. CASE Saisie
    <3>1. ASSUME NEW u \in Users, NEW c \in CRs, NEW x \in Contenus \cup {Vide},
                 SaisirGrille(u, c, x)
          PROVE  FALSE
      BY <3>1 DEF SaisirGrille, Modifiable, Attendus
    <3>2. ASSUME NEW u \in Users, NEW crs \in (SUBSET CRs) \ {{}}, NEW x \in Contenus,
                 Importer(u, crs, x)
          PROVE  FALSE
      BY <3>2 DEF Importer, Modifiable, Attendus
    <3>3. ASSUME NEW c \in CRs, NEW x \in Contenus \cup {Vide},
                 EcrireLigne(c, x) \/ SupprimerLigne(c, x)
          PROVE  FALSE
      BY <3>3 DEF EcrireLigne, SupprimerLigne, crVars
    <3>. QED  BY <2>4, <3>1, <3>2, <3>3 DEF Saisie
  <2>5. CASE UNCHANGED vars
    BY <2>5 DEF vars
  <2>. QED  BY <1>1, <2>1, <2>2, <2>3, <2>4, <2>5 DEF Next
<1>2. TypeOK /\ [Next]_vars => [Complete => version' = "pre_valide"]_vars
  BY <1>1
<1>. QED  BY <1>2, TypeCorrecte, PTL DEF Spec, BasculeFaite

-----------------------------------------------------------------------------
(* Requests that interleave.                                                *)


(* What the history keeps of the current state. *)
HistoireFidele ==
  /\ version \in statutsVus
  /\ \A c \in CRs : /\ statutCr[c] = "SOUMIS" => c \in soumisUnJour
                    /\ statutCr[c] = "VALIDE" => c \in validesUnJour

(* What the handler of r has established, and can still count on when the  *)
(* rows it has read have changed: the rights of its user never change, and *)
(* what a statut implies of the past stays true.                           *)
Acquis(r) ==
  LET q == requetes[r] IN
  q.phase # "libre" =>
    /\ q.demande.op \in OpsAutorisees => q.demande.cr \in Perimetre[q.demande.acteur]
    /\ q.phase # "recue" =>
         /\ q.demande.op \in DOMAIN StatutRequis => StatutRequis[q.demande.op] \in statutsVus
         /\ q.demande.op = "valider" => q.demande.cr \in soumisUnJour
    /\ q.complet => /\ q.phase = "comptee"
                    /\ q.demande.op = "valider" \/ validesUnJour # {}

(* The inductive invariant behind CheminDApprobation and ValidationTracee. *)
InvariantConcurrent ==
  /\ TypeOKConcurrent
  /\ HistoireFidele
  /\ \A r \in Requetes : Acquis(r)
  /\ CheminDApprobation
  /\ ValidationTracee

-----------------------------------------------------------------------------
(* The fields of a request, by operation. *)
LEMMA DemandeTypee ==
  ASSUME NEW d \in Demandes
  PROVE  /\ d.op \in ToutesOperations
         /\ d.op \in OpsAutorisees => d.acteur \in Users
         /\ d.op \in OpsAutorisees \cup {"demanderRevision", "reintegrer", "retirer",
                                        "saisir", "ecrireLigne"} => d.cr \in CRs
         /\ d.op \in {"initialiserSnapshot", "importer"} => d.crs \subseteq CRs
         /\ d.op \in {"saisir", "ecrireLigne", "importer"} => d.contenu \in Contenus \cup {Vide}
  BY DEF Demandes, ToutesOperations, OpsAutorisees, OpsVersion

(* A request in progress has the fields of EnCours. *)
LEMMA RequeteTypee ==
  ASSUME TypeOKConcurrent, NEW r \in Requetes, requetes[r].phase # "libre"
  PROVE  /\ requetes[r] \in EnCours
         /\ requetes[r].demande \in Demandes
         /\ requetes[r].phase \in {"recue", "lue", "comptee"}
         /\ requetes[r].version \in StatutsVersion \cup {NonLue}
         /\ requetes[r].absents \subseteq CRs
         /\ requetes[r].auteur \in Users \cup {Personne}
         /\ requetes[r].complet \in BOOLEAN
<1>1. requetes[r] \in {Libre} \cup EnCours
  BY DEF TypeOKConcurrent
<1>2. requetes[r] \in EnCours
  BY <1>1 DEF Libre
<1>. QED  BY <1>2 DEF EnCours

LEMMA TypeInitiale == InitConcurrent => TypeOKConcurrent
  BY PersonneAssumption, SnapshotAssumption
  DEF InitConcurrent, Init, TypeOKConcurrent, TypeOK, EtatsVersion, StatutsVersion, StatutsCr,
      EtatsSnapshot, Voies

-----------------------------------------------------------------------------
(* What one step does. *)

(* Recevoir, Lire and Compter keep the tables and type what they read. *)
LEMMA TypeAvantFin ==
  ASSUME TypeOKConcurrent, NEW r \in Requetes,
         (\E d \in Demandes : Recevoir(r, d)) \/ Lire(r) \/ Annuler(r) \/ Compter(r)
  PROVE  TypeOKConcurrent'
<1>. USE DEF TypeOKConcurrent
<1>1. UNCHANGED <<vars, histVars>>
  BY DEF Recevoir, Lire, Annuler, Compter
<1>2. TypeOK' /\ (statutsVus \subseteq EtatsVersion)'
      /\ (soumisUnJour \subseteq CRs)' /\ (validesUnJour \subseteq CRs)'
  BY <1>1 DEF TypeOK, vars, traces, histVars
<1>7. (doublees \subseteq Requetes)'
  BY DEF Recevoir, Lire, Annuler, Compter
<1>. SUFFICES requetes' \in [Requetes -> {Libre} \cup EnCours]
  BY <1>2, <1>7
<1>3. ASSUME NEW d \in Demandes, Recevoir(r, d)
      PROVE  requetes' \in [Requetes -> {Libre} \cup EnCours]
  <2>1. VersionGardee(d) \in StatutsVersion \cup {NonLue}
    BY <1>3 DEF VersionGardee, TypeOK, EtatsVersion, Recevoir, GardeAvant
  <2>2. [phase |-> "recue", demande |-> d, version |-> VersionGardee(d),
         absents |-> {}, auteur |-> Personne, complet |-> FALSE] \in EnCours
    BY <2>1 DEF EnCours
  <2>. QED  BY <1>3, <2>2 DEF Recevoir
<1>4. CASE Lire(r)
  <2>1. requetes[r].phase # "libre"
    BY <1>4 DEF Lire
  <2>2. /\ requetes[r] \in EnCours
        /\ requetes[r].demande \in Demandes
    BY <2>1, RequeteTypee
  <2>3. Absents(requetes[r].demande) \subseteq CRs
    BY <2>2, DemandeTypee DEF Absents, OpsAutorisees
  <2>4. AuteurLu(requetes[r].demande) \in Users \cup {Personne}
    BY <2>2, DemandeTypee DEF AuteurLu, TypeOK
  <2>5. [requetes[r] EXCEPT !.phase = "lue",
                            !.absents = Absents(requetes[r].demande),
                            !.auteur = AuteurLu(requetes[r].demande)] \in EnCours
    BY <2>2, <2>3, <2>4 DEF EnCours
  <2>. QED  BY <1>4, <2>5 DEF Lire
<1>5. CASE Annuler(r)
  BY <1>5 DEF Annuler, Terminer
<1>6. CASE Compter(r)
  <2>1. requetes[r] \in EnCours
    BY <1>6, RequeteTypee DEF Compter
  <2>2. \A b \in BOOLEAN :
          [requetes[r] EXCEPT !.phase = "comptee", !.complet = b] \in EnCours
    BY <2>1 DEF EnCours
  <2>3. Compte(requetes[r].demande) \in BOOLEAN
    BY DEF Compte, SnapshotComplet
  <2>4. requetes' = [requetes EXCEPT ![r] =
          [requetes[r] EXCEPT !.phase = "comptee", !.complet = Compte(requetes[r].demande)]]
    BY <1>6 DEF Compter
  <2>. QED  BY <2>2, <2>3, <2>4
<1>. QED  BY <1>3, <1>4, <1>5, <1>6

(* The last step of a handler leaves well-typed tables. *)
LEMMA TypeApresFin ==
  ASSUME TypeOKConcurrent, NEW r \in Requetes, Conclure(r)
  PROVE  TypeOKConcurrent'
<1>1. requetes[r].phase # "libre"
  BY DEF Conclure
<1>2. /\ requetes[r].demande \in Demandes
      /\ requetes[r].absents \subseteq CRs
      /\ requetes[r].auteur \in Users \cup {Personne}
  BY <1>1, RequeteTypee
<1>3. TypeOK'
  <2>. USE <1>2, DemandeTypee DEF traces, Soumis, ReecritSoumis, TypeOKConcurrent, TypeOK, Op, Cr, EtatsVersion, StatutsVersion,
           StatutsCr, EtatsSnapshot, Voies, OpsAutorisees
  <2>1. CASE FinSoumettre(r) \/ FinRejeter(r) \/ FinRouvrir(r) \/ FinDemanderRevision(r)
    BY <2>1 DEF FinSoumettre, FinRejeter, FinRouvrir, FinDemanderRevision, EcrireStatut
  <2>2. CASE FinValider(r)
    BY <2>2 DEF FinValider, BasculeEcrite, EcrireStatut
  <2>3. CASE FinVersion(r)
    BY <2>3 DEF FinVersion, StatutEcrit, OpsVersion, crVars
  <2>4. CASE FinInitialiserSnapshot(r) \/ FinReintegrer(r)
    BY <2>4 DEF FinInitialiserSnapshot, TardifsAvec, FinReintegrer, crVars
  <2>5. CASE FinRetirer(r)
    BY <2>5 DEF FinRetirer, BasculeEcrite, crVars
  <2>6. CASE FinSaisir(r)
    BY <2>6 DEF FinSaisir
  <2>7. CASE FinImporter(r)
    BY <2>7 DEF FinImporter
  <2>8. CASE FinEcrireLigne(r)
    BY <2>8 DEF FinEcrireLigne, crVars
  <2>. QED  BY <2>1, <2>2, <2>3, <2>4, <2>5, <2>6, <2>7, <2>8 DEF Conclure, Fin
<1>4. requetes' \in [Requetes -> {Libre} \cup EnCours]
  BY DEF Conclure, Terminer, TypeOKConcurrent
<1>5. (statutsVus \subseteq EtatsVersion)' /\ (soumisUnJour \subseteq CRs)'
      /\ (validesUnJour \subseteq CRs)' /\ (doublees \subseteq Requetes)'
  BY <1>3 DEF Conclure, Historique, TypeOKConcurrent, TypeOK
<1>. QED  BY <1>3, <1>4, <1>5 DEF TypeOKConcurrent

(* A stutter or a step of some request: the cases of the later lemmas. *)
LEMMA Etapes ==
  ASSUME [NextConcurrent]_varsConcurrent
  PROVE  \/ UNCHANGED varsConcurrent
         \/ \E r \in Requetes :
              \/ (\E d \in Demandes : Recevoir(r, d)) \/ Lire(r) \/ Annuler(r) \/ Compter(r)
              \/ Conclure(r)
  BY DEF NextConcurrent

LEMMA TypePreserve ==
  ASSUME TypeOKConcurrent, [NextConcurrent]_varsConcurrent
  PROVE  TypeOKConcurrent'
<1>1. CASE UNCHANGED varsConcurrent
  BY <1>1 DEF varsConcurrent, vars, traces, histVars, TypeOKConcurrent, TypeOK
<1>. QED  BY <1>1, Etapes, TypeAvantFin, TypeApresFin

(* The statut a handler leaves in dim_version, and why it was allowed to. *)
LEMMA VersionEcrite ==
  ASSUME TypeOKConcurrent, NEW r \in Requetes, Acquis(r), Conclure(r)
  PROVE  \/ version' \in {version, "ouvert", "supprimee"}
         \/ version' = "pre_valide" /\ validesUnJour' # {}
         \/ version' = "soumis_comite" /\ "pre_valide" \in statutsVus
         \/ version' = "soumis" /\ "ouvert" \in statutsVus
         \/ version' = "valide" /\ statutsVus \cap {"soumis", "soumis_comite"} # {}
         \/ version' = "gele" /\ "valide" \in statutsVus
<1>1. /\ requetes[r].phase \in {"lue", "comptee"}
      /\ requetes[r].demande \in Demandes
  BY RequeteTypee DEF Conclure
<1>2. requetes[r].complet => /\ requetes[r].phase = "comptee"
                             /\ Op(r) = "valider" \/ validesUnJour # {}
  BY <1>1 DEF Acquis, Op
<1>3. CASE FinValider(r)
  <2>1. Cr(r) \in CRs /\ statutCr \in [CRs -> StatutsCr]
    BY <1>1, <1>3, DemandeTypee
    DEF FinValider, Op, Cr, OpsAutorisees, TypeOKConcurrent, TypeOK
  <2>2. validesUnJour' # {}
    BY <1>3, <2>1 DEF FinValider, EcrireStatut, Conclure, Historique
  <2>. QED  BY <1>3, <2>2 DEF FinValider, BasculeEcrite
<1>4. CASE FinRetirer(r)
  BY <1>2, <1>4 DEF FinRetirer, BasculeEcrite, Conclure, Historique
<1>5. CASE FinVersion(r)
  <2>1. Op(r) \in DOMAIN StatutRequis => StatutRequis[Op(r)] \in statutsVus
    BY <1>1 DEF Acquis, Op
  <2>. QED  BY <1>5, <2>1 DEF FinVersion, OpsVersion, StatutEcrit, StatutRequis
<1>6. CASE FinRouvrir(r) \/ FinDemanderRevision(r)
  BY <1>6 DEF FinRouvrir, FinDemanderRevision
<1>. QED  BY <1>3, <1>4, <1>5, <1>6
  DEF Conclure, Fin, FinSoumettre, FinRejeter, FinInitialiserSnapshot, FinReintegrer,
      FinSaisir, FinImporter, FinEcrireLigne

(* A row is VALIDE after a handler: it was, or the handler is valider. *)
LEMMA ValideEcrit ==
  ASSUME TypeOKConcurrent, NEW r \in Requetes, Conclure(r),
         NEW c \in CRs, statutCr'[c] = "VALIDE"
  PROVE  \/ statutCr[c] = "VALIDE" /\ validateur'[c] = validateur[c]
         \/ /\ Op(r) = "valider" /\ Cr(r) = c
            /\ validateur'[c] = requetes[r].demande.acteur
<1>. /\ statutCr \in [CRs -> StatutsCr]
     /\ validateur \in [CRs -> Users \cup {Personne}]
  BY DEF TypeOKConcurrent, TypeOK
<1>1. CASE FinSoumettre(r) \/ FinRejeter(r) \/ FinRouvrir(r) \/ FinDemanderRevision(r)
  BY <1>1 DEF FinSoumettre, FinRejeter, FinRouvrir, FinDemanderRevision, EcrireStatut
<1>2. CASE FinValider(r)
  BY <1>2 DEF FinValider, EcrireStatut
<1>3. CASE FinSaisir(r) \/ FinImporter(r)
  BY <1>3 DEF FinSaisir, FinImporter
<1>4. CASE FinVersion(r) \/ FinInitialiserSnapshot(r) \/ FinRetirer(r)
             \/ FinReintegrer(r) \/ FinEcrireLigne(r)
  BY <1>4 DEF FinVersion, FinInitialiserSnapshot, FinRetirer, FinReintegrer,
              FinEcrireLigne, crVars
<1>. QED  BY <1>1, <1>2, <1>3, <1>4 DEF Conclure, Fin

(* What a request has established survives the steps of the others. *)
LEMMA AcquisDurable ==
  ASSUME NEW r \in Requetes, Acquis(r), requetes'[r] = requetes[r],
         statutsVus \subseteq statutsVus', soumisUnJour \subseteq soumisUnJour',
         validesUnJour \subseteq validesUnJour'
  PROVE  Acquis(r)'
  BY DEF Acquis

-----------------------------------------------------------------------------
(* The steps before the last one. *)
LEMMA InvariantAvantFin ==
  ASSUME InvariantConcurrent, NEW r \in Requetes,
         (\E d \in Demandes : Recevoir(r, d)) \/ Lire(r) \/ Annuler(r) \/ Compter(r)
  PROVE  InvariantConcurrent'
<1>1. UNCHANGED <<vars, histVars>>
  BY DEF Recevoir, Lire, Annuler, Compter
<1>2. TypeOKConcurrent'
  BY TypeAvantFin DEF InvariantConcurrent
<1>3. (HistoireFidele /\ CheminDApprobation /\ ValidationTracee)'
  BY <1>1 DEF InvariantConcurrent, HistoireFidele, CheminDApprobation, ValidationTracee,
              vars, histVars
<1>4. requetes \in [Requetes -> {Libre} \cup EnCours]
  BY DEF InvariantConcurrent, TypeOKConcurrent
<1>5. ASSUME NEW s \in Requetes
      PROVE  Acquis(s)'
  <2>. Acquis(s) /\ Acquis(r)
    BY DEF InvariantConcurrent
  <2>1. CASE s # r
    <3>1. requetes'[s] = requetes[s]
      BY <1>4, <2>1 DEF Recevoir, Lire, Annuler, Compter, Terminer
    <3>. QED  BY <1>1, <3>1, AcquisDurable DEF histVars
  <2>2. CASE s = r
    <3>1. ASSUME NEW d \in Demandes, Recevoir(r, d)
          PROVE  Acquis(r)'
      BY <1>4, <3>1 DEF Recevoir, GardeAvant, Acquis
    <3>2. CASE Lire(r)
      <4>1. /\ requetes[r].phase = "recue"
            /\ requetes[r].demande \in Demandes
        BY <3>2, RequeteTypee DEF Lire, InvariantConcurrent
      <4>2. /\ requetes'[r].phase = "lue"
            /\ requetes'[r].demande = requetes[r].demande
            /\ requetes'[r].complet = requetes[r].complet
        BY <1>4, <3>2, RequeteTypee DEF Lire, EnCours, InvariantConcurrent
      <4>3. Op(r) \in DOMAIN StatutRequis => StatutRequis[Op(r)] \in statutsVus
        BY <3>2 DEF Lire, GardeLecture, InvariantConcurrent, HistoireFidele, Op
      <4>4. Op(r) = "valider" => Cr(r) \in soumisUnJour
        BY <3>2, <4>1, DemandeTypee
        DEF Lire, GardeLecture, InvariantConcurrent, HistoireFidele, Op, Cr, OpsAutorisees
      <4>. QED  BY <1>1, <2>2, <4>1, <4>2, <4>3, <4>4 DEF Acquis, Op, Cr, histVars
    <3>3. CASE Annuler(r)
      BY <1>4, <2>2, <3>3 DEF Annuler, Terminer, Libre, Acquis
    <3>4. CASE Compter(r)
      <4>1. requetes[r].phase = "lue" /\ requetes[r] \in EnCours
        BY <3>4, RequeteTypee DEF Compter, InvariantConcurrent
      <4>2. /\ requetes'[r].phase = "comptee"
            /\ requetes'[r].demande = requetes[r].demande
        BY <1>4, <3>4, <4>1 DEF Compter, EnCours
      <4>3. requetes'[r].complet => Op(r) = "valider" \/ validesUnJour # {}
        <5>1. CASE Op(r) # "valider"
          <6>1. SnapshotComplet([snapshot EXCEPT ![Cr(r)] = "RETIRE"], statutCr)
                  => validesUnJour # {}
            BY DEF SnapshotComplet, Attendus, InvariantConcurrent, HistoireFidele
          <6>. QED  BY <1>4, <3>4, <4>1, <5>1, <6>1 DEF Compter, Compte, Op, Cr, EnCours
        <5>. QED  BY <5>1
      <4>. QED  BY <1>1, <2>2, <4>1, <4>2, <4>3 DEF Acquis, Op, histVars
    <3>. QED  BY <2>2, <3>1, <3>2, <3>3, <3>4
  <2>. QED  BY <2>1, <2>2
<1>. QED  BY <1>2, <1>3, <1>5 DEF InvariantConcurrent

(* The last step. *)
LEMMA InvariantApresFin ==
  ASSUME InvariantConcurrent, NEW r \in Requetes, Conclure(r)
  PROVE  InvariantConcurrent'
<1>. /\ TypeOKConcurrent /\ Acquis(r)
     /\ CheminDApprobation /\ ValidationTracee /\ HistoireFidele
  BY DEF InvariantConcurrent
<1>1. TypeOKConcurrent'
  BY TypeApresFin
<1>2. HistoireFidele'
  BY DEF HistoireFidele, Conclure, Historique
<1>3. ASSUME NEW s \in Requetes
      PROVE  Acquis(s)'
  <2>1. requetes' = [requetes EXCEPT ![r] = Libre]
        /\ requetes \in [Requetes -> {Libre} \cup EnCours]
    BY DEF Conclure, Terminer, TypeOKConcurrent
  <2>2. CASE s = r
    BY <2>1, <2>2 DEF Libre, Acquis
  <2>3. CASE s # r
    <3>1. /\ statutsVus \subseteq statutsVus'
          /\ soumisUnJour \subseteq soumisUnJour'
          /\ validesUnJour \subseteq validesUnJour'
      BY DEF Conclure, Historique
    <3>. QED  BY <2>1, <2>3, <3>1, AcquisDurable DEF InvariantConcurrent
  <2>. QED  BY <2>2, <2>3
<1>4. CheminDApprobation'
  <2>1. /\ statutsVus' = statutsVus \cup {version'}
        /\ validesUnJour \subseteq validesUnJour'
        /\ version \in statutsVus
    BY DEF Conclure, Historique, HistoireFidele
  <2>. QED  BY <2>1, VersionEcrite DEF CheminDApprobation
<1>5. ValidationTracee'
  <2>1. Op(r) = "valider" =>
          /\ Cr(r) \in soumisUnJour
          /\ requetes[r].demande.acteur \in Users
          /\ Cr(r) \in Perimetre[requetes[r].demande.acteur]
    BY RequeteTypee, DemandeTypee DEF Acquis, Op, Cr, Conclure, OpsAutorisees
  <2>2. ASSUME NEW c \in CRs, statutCr'[c] = "VALIDE"
        PROVE  /\ c \in soumisUnJour
               /\ \E u \in Users : validateur'[c] = u /\ c \in Perimetre[u]
    <3>1. statutCr[c] = "VALIDE" => c \in validesUnJour
      BY DEF HistoireFidele
    <3>. QED  BY <2>1, <2>2, <3>1, ValideEcrit DEF ValidationTracee
  <2>. QED  BY <2>2 DEF ValidationTracee, Conclure, Historique
<1>. QED  BY <1>1, <1>2, <1>3, <1>4, <1>5 DEF InvariantConcurrent

-----------------------------------------------------------------------------
LEMMA InvariantTenu == SpecConcurrent => []InvariantConcurrent
<1>1. InitConcurrent => InvariantConcurrent
  <2>. SUFFICES ASSUME InitConcurrent PROVE InvariantConcurrent
    OBVIOUS
  <2>1. \A r \in Requetes : Acquis(r)
    BY DEF InitConcurrent, Acquis, Libre
  <2>. QED  BY <2>1, TypeInitiale
    DEF InvariantConcurrent, InitConcurrent, Init, HistoireFidele, CheminDApprobation,
        ValidationTracee
<1>2. InvariantConcurrent /\ [NextConcurrent]_varsConcurrent => InvariantConcurrent'
  <2>. SUFFICES ASSUME InvariantConcurrent, [NextConcurrent]_varsConcurrent
                PROVE  InvariantConcurrent'
    OBVIOUS
  <2>1. CASE UNCHANGED varsConcurrent
    BY <2>1, TypePreserve
    DEF varsConcurrent, vars, histVars, InvariantConcurrent, HistoireFidele, Acquis,
        CheminDApprobation, ValidationTracee
  <2>. QED  BY <2>1, Etapes, InvariantAvantFin, InvariantApresFin
<1>. QED  BY <1>1, <1>2, PTL DEF SpecConcurrent

(* However many requests interleave, the tables and what each handler has  *)
(* read keep their types.                                                  *)
THEOREM TypeConcurrentCorrecte == SpecConcurrent => []TypeOKConcurrent
  BY InvariantTenu, PTL DEF InvariantConcurrent

(* However many requests interleave, each statut the version has had was   *)
(* reached through the one that must precede it.                           *)
THEOREM CheminToujoursRespecte == SpecConcurrent => []CheminDApprobation
  BY InvariantTenu, PTL DEF InvariantConcurrent

(* However many requests interleave, no CR is VALIDE without having been   *)
(* SOUMIS, nor without a validator whose perimeter holds it.               *)
THEOREM ValidationToujoursTracee == SpecConcurrent => []ValidationTracee
  BY InvariantTenu, PTL DEF InvariantConcurrent

-----------------------------------------------------------------------------
(* A request that no COMMIT has overlapped performs its whole handler.     *)

(* What the request r has read, and what it has counted, is still so.      *)
LectureFraiche(r) ==
  LET q == requetes[r] IN
  (r \notin doublees /\ q.phase # "libre") =>
    /\ GardeAvant(q.demande)
    /\ q.version = VersionGardee(q.demande)
    /\ q.phase # "recue" => /\ GardeLecture(q.demande)
                            /\ q.absents = Absents(q.demande)
                            /\ q.auteur = AuteurLu(q.demande)
    /\ q.phase # "comptee" => ~ q.complet
    /\ q.phase = "comptee" => /\ q.version = "ouvert"
                              /\ q.demande.op \in {"valider", "retirer"}
                              /\ q.complet = Compte(q.demande)

(* The invariant behind ImplementeCycleBudget: fresh readings, and no late *)
(* CR on an 'ouvert' version, which VersionService.update writes again.    *)
InvariantLectures ==
  /\ TypeOKConcurrent
  /\ \A r \in Requetes : LectureFraiche(r)
  /\ version = "ouvert" => tardifs = {}

(* What a handler tests and reads depends on the tables alone.             *)
LEMMA LecturesStables ==
  ASSUME UNCHANGED vars, NEW d \in Demandes
  PROVE  /\ GardeAvant(d)' <=> GardeAvant(d)
         /\ GardeLecture(d)' <=> GardeLecture(d)
         /\ VersionGardee(d)' = VersionGardee(d)
         /\ Absents(d)' = Absents(d)
         /\ AuteurLu(d)' = AuteurLu(d)
         /\ Compte(d)' = Compte(d)
<1>. USE DEF vars
<1>1. GardeAvant(d)' <=> GardeAvant(d)
  BY DEF GardeAvant
<1>2. GardeLecture(d)' <=> GardeLecture(d)
  BY DEF GardeLecture, Modifiable, StatutRequis
<1>3. VersionGardee(d)' = VersionGardee(d)
  BY DEF VersionGardee
<1>4. Absents(d)' = Absents(d)
  BY DEF Absents
<1>5. AuteurLu(d)' = AuteurLu(d)
  BY DEF AuteurLu
<1>6. Compte(d)' = Compte(d)
  BY DEF Compte, SnapshotComplet, Attendus
<1>. QED  BY <1>1, <1>2, <1>3, <1>4, <1>5, <1>6

LEMMA LecturesAvantFin ==
  ASSUME InvariantLectures, NEW r \in Requetes,
         (\E d \in Demandes : Recevoir(r, d)) \/ Lire(r) \/ Annuler(r) \/ Compter(r)
  PROVE  InvariantLectures'
<1>1. UNCHANGED vars /\ doublees \subseteq doublees' \cup {r}
  BY DEF Recevoir, Lire, Annuler, Compter
<1>2. TypeOKConcurrent'
  BY TypeAvantFin DEF InvariantLectures
<1>3. requetes \in [Requetes -> {Libre} \cup EnCours]
  BY DEF InvariantLectures, TypeOKConcurrent
<1>4. ASSUME NEW s \in Requetes
      PROVE  LectureFraiche(s)'
  <2>0. LectureFraiche(s)
    BY DEF InvariantLectures
  <2>1. CASE s # r
    <3>1. requetes'[s] = requetes[s]
      BY <1>3, <2>1 DEF Recevoir, Lire, Annuler, Compter, Terminer
    <3>2. s \notin doublees' => s \notin doublees
      BY <1>1, <2>1
    <3>3. CASE requetes[s].phase = "libre"
      BY <3>1, <3>3 DEF LectureFraiche
    <3>4. CASE requetes[s].phase # "libre"
      <4>1. requetes[s].demande \in Demandes
        BY <3>4, RequeteTypee DEF InvariantLectures
      <4>. QED  BY <1>1, <2>0, <3>1, <3>2, <3>4, <4>1, LecturesStables DEF LectureFraiche
    <3>. QED  BY <3>3, <3>4
  <2>2. CASE s = r
    <3>1. ASSUME NEW d \in Demandes, Recevoir(r, d)
          PROVE  LectureFraiche(r)'
      <4>1. /\ GardeAvant(d) /\ doublees' = doublees
            /\ requetes'[r] = [phase |-> "recue", demande |-> d, version |-> VersionGardee(d),
                  absents |-> {}, auteur |-> Personne, complet |-> FALSE]
        BY <1>3, <3>1 DEF Recevoir
      <4>. QED  BY <1>1, <4>1, LecturesStables DEF LectureFraiche
    <3>2. CASE Lire(r)
      <4>1. /\ requetes[r] \in EnCours /\ requetes[r].phase = "recue" /\ doublees' = doublees
            /\ requetes[r].demande \in Demandes
        BY <3>2, RequeteTypee DEF Lire, InvariantLectures
      <4>2. requetes'[r] = [requetes[r] EXCEPT !.phase = "lue",
                                    !.absents = Absents(requetes[r].demande),
                                    !.auteur = AuteurLu(requetes[r].demande)]
        BY <1>3, <3>2 DEF Lire
      <4>3. /\ requetes'[r].phase = "lue"
            /\ requetes'[r].demande = requetes[r].demande
            /\ requetes'[r].version = requetes[r].version
            /\ requetes'[r].absents = Absents(requetes[r].demande)
            /\ requetes'[r].auteur = AuteurLu(requetes[r].demande)
            /\ requetes'[r].complet = requetes[r].complet
        BY <4>1, <4>2 DEF EnCours
      <4>4. GardeLecture(requetes[r].demande)
        BY <3>2 DEF Lire
      <4>. QED  BY <1>1, <2>0, <2>2, <4>1, <4>3, <4>4, LecturesStables DEF LectureFraiche
    <3>3. CASE Annuler(r)
      <4>1. requetes'[r].phase = "libre"
        BY <1>3, <3>3 DEF Annuler, Terminer, Libre
      <4>. QED  BY <2>2, <4>1 DEF LectureFraiche
    <3>4. CASE Compter(r)
      <4>1. /\ requetes[r] \in EnCours /\ requetes[r].phase = "lue"
            /\ requetes[r].version = "ouvert" /\ doublees' = doublees
            /\ requetes[r].demande.op \in {"valider", "retirer"}
            /\ requetes[r].demande \in Demandes
        BY <3>4, RequeteTypee DEF Compter, InvariantLectures, Op
      <4>2. requetes'[r] = [requetes[r] EXCEPT !.phase = "comptee",
                                    !.complet = Compte(requetes[r].demande)]
        BY <1>3, <3>4 DEF Compter
      <4>3. /\ requetes'[r].phase = "comptee"
            /\ requetes'[r].demande = requetes[r].demande
            /\ requetes'[r].version = requetes[r].version
            /\ requetes'[r].absents = requetes[r].absents
            /\ requetes'[r].auteur = requetes[r].auteur
            /\ requetes'[r].complet = Compte(requetes[r].demande)
        BY <4>1, <4>2 DEF EnCours
      <4>. QED  BY <1>1, <2>0, <2>2, <4>1, <4>3, LecturesStables DEF LectureFraiche
    <3>. QED  BY <2>2, <3>1, <3>2, <3>3, <3>4
  <2>. QED  BY <2>1, <2>2
<1>. QED  BY <1>1, <1>2, <1>4 DEF InvariantLectures, vars, traces

LEMMA LecturesApresFin ==
  ASSUME InvariantLectures, NEW r \in Requetes, Conclure(r)
  PROVE  InvariantLectures'
<1>1. TypeOKConcurrent'
  BY TypeApresFin DEF InvariantLectures
<1>2. \A s \in Requetes : LectureFraiche(s)'
  BY DEF Conclure, Historique, LectureFraiche
<1>3. version' = "ouvert" => tardifs' = {}
  <2>. version = "ouvert" => tardifs = {}
    BY DEF InvariantLectures
  <2>1. CASE FinRouvrir(r) \/ FinDemanderRevision(r) \/ FinVersion(r)
    BY <2>1 DEF FinRouvrir, FinDemanderRevision, FinVersion
  <2>2. CASE FinValider(r) \/ FinRetirer(r)
    BY <2>2 DEF FinValider, FinRetirer, BasculeEcrite, traces
  <2>3. CASE FinInitialiserSnapshot(r)
    BY <2>3 DEF FinInitialiserSnapshot, TardifsAvec
  <2>. QED  BY <2>1, <2>2, <2>3
    DEF Conclure, Fin, FinSoumettre, FinRejeter, FinReintegrer, FinSaisir, FinImporter,
        FinEcrireLigne, traces
<1>. QED  BY <1>1, <1>2, <1>3 DEF InvariantLectures

LEMMA LecturesTenues == SpecConcurrent => []InvariantLectures
<1>1. InitConcurrent => InvariantLectures
  BY TypeInitiale DEF InitConcurrent, Init, InvariantLectures, LectureFraiche, Libre
<1>2. InvariantLectures /\ [NextConcurrent]_varsConcurrent => InvariantLectures'
  <2>. SUFFICES ASSUME InvariantLectures, [NextConcurrent]_varsConcurrent
                PROVE  InvariantLectures'
    OBVIOUS
  <2>1. CASE UNCHANGED varsConcurrent
    <3>1. TypeOKConcurrent'
      BY <2>1, TypePreserve DEF InvariantLectures
    <3>2. ASSUME NEW r \in Requetes
          PROVE  LectureFraiche(r)'
      <4>1. UNCHANGED vars /\ requetes'[r] = requetes[r] /\ doublees' = doublees
        BY <2>1 DEF varsConcurrent
      <4>2. LectureFraiche(r)
        BY DEF InvariantLectures
      <4>3. requetes[r].phase # "libre" => requetes[r].demande \in Demandes
        BY RequeteTypee DEF InvariantLectures
      <4>. QED  BY <4>1, <4>2, <4>3, LecturesStables DEF LectureFraiche
    <3>. QED  BY <2>1, <3>1, <3>2 DEF InvariantLectures, varsConcurrent, vars, traces
  <2>. QED  BY <2>1, Etapes, LecturesAvantFin, LecturesApresFin
<1>. QED  BY <1>1, <1>2, PTL DEF SpecConcurrent

(* The COMMIT of a request that no COMMIT has overlapped is a handler of   *)
(* CycleBudget, or VersionService.update, which writes back what it read.  *)
LEMMA FinFraiche ==
  ASSUME InvariantLectures, NEW r \in Requetes, r \notin doublees, Conclure(r)
  PROVE  [Next]_vars
<1>. DEFINE d == requetes[r].demande
<1>1. /\ requetes[r].phase \in {"lue", "comptee"}
      /\ d \in Demandes
  BY RequeteTypee DEF Conclure, InvariantLectures
<1>2. /\ GardeAvant(d) /\ GardeLecture(d)
      /\ requetes[r].version = VersionGardee(d)
      /\ requetes[r].absents = Absents(d)
      /\ requetes[r].auteur = AuteurLu(d)
      /\ requetes[r].phase # "comptee" => ~ requetes[r].complet
      /\ requetes[r].phase = "comptee" => /\ requetes[r].version = "ouvert"
                                          /\ requetes[r].complet = Compte(d)
  BY <1>1 DEF InvariantLectures, LectureFraiche
<1>3. TypeOK /\ (version = "ouvert" => tardifs = {})
  BY DEF InvariantLectures, TypeOKConcurrent
<1>4. CASE FinSoumettre(r)
  <2>1. d.cr \in CRs /\ d.acteur \in Users /\ d.op = "soumettre"
    BY <1>1, <1>4, DemandeTypee DEF FinSoumettre, Op, OpsAutorisees
  <2>2. Soumettre(d.acteur, d.cr)
    BY <1>2, <1>3, <1>4, <2>1
    DEF FinSoumettre, Soumettre, EcrireStatut, AuteurLu, GardeAvant, GardeLecture,
        Modifiable, OpsAutorisees, Cr, TypeOK
  <2>. QED  BY <2>1, <2>2 DEF Next, CycleCr
<1>5. CASE FinValider(r)
  <2>1. d.cr \in CRs /\ d.acteur \in Users /\ d.op = "valider"
    BY <1>1, <1>5, DemandeTypee DEF FinValider, Op, OpsAutorisees
  <2>2. requetes[r].version = version
    BY <1>2, <2>1 DEF VersionGardee
  <2>3. version' = Bascule(version, snapshot, statutCr', version)
    BY <1>2, <1>5, <2>1, <2>2
    DEF FinValider, PretAValider, EcrireStatut, BasculeEcrite, Compte, Bascule, Cr
  <2>4. Valider(d.acteur, d.cr)
    BY <1>2, <1>5, <2>1, <2>3
    DEF FinValider, Valider, EcrireStatut, GardeAvant, GardeLecture, OpsAutorisees, Cr
  <2>. QED  BY <2>1, <2>4 DEF Next, CycleCr
<1>6. CASE FinRejeter(r)
  <2>1. d.cr \in CRs /\ d.acteur \in Users /\ d.op = "rejeter"
    BY <1>1, <1>6, DemandeTypee DEF FinRejeter, Op, OpsAutorisees
  <2>2. Rejeter(d.acteur, d.cr)
    BY <1>2, <1>3, <1>6, <2>1
    DEF FinRejeter, Rejeter, EcrireStatut, AuteurLu, GardeAvant, GardeLecture,
        OpsAutorisees, Cr, TypeOK
  <2>. QED  BY <2>1, <2>2 DEF Next, CycleCr
<1>7. CASE FinRouvrir(r)
  <2>1. d.cr \in CRs /\ d.acteur \in Users /\ d.op = "rouvrir"
    BY <1>1, <1>7, DemandeTypee DEF FinRouvrir, Op, OpsAutorisees
  <2>2. requetes[r].version = version /\ version \in {"ouvert", "pre_valide"}
    BY <1>2, <2>1 DEF VersionGardee, GardeAvant
  <2>3. Rouvrir(d.acteur, d.cr)
    BY <1>2, <1>3, <1>7, <2>1, <2>2
    DEF FinRouvrir, Rouvrir, EcrireStatut, AuteurLu, GardeAvant, GardeLecture,
        OpsAutorisees, Cr, TypeOK
  <2>. QED  BY <2>1, <2>3 DEF Next, CycleCr
<1>8. CASE FinDemanderRevision(r)
  <2>1. d.cr \in CRs /\ d.op = "demanderRevision"
    BY <1>1, <1>8, DemandeTypee DEF FinDemanderRevision, Op
  <2>2. DemanderRevision(d.cr)
    BY <1>2, <1>3, <1>8, <2>1
    DEF FinDemanderRevision, DemanderRevision, EcrireStatut, AuteurLu, GardeAvant,
        GardeLecture, Cr, TypeOK
  <2>. QED  BY <2>1, <2>2 DEF Next, CycleCr
<1>9. CASE FinVersion(r)
  <2>1. d.op \in OpsVersion
    BY <1>9 DEF FinVersion, Op
  <2>2. CASE d.op = "modifierVersion"
    BY <1>2, <1>3, <1>9, <2>2
    DEF FinVersion, StatutEcrit, GardeAvant, Op, vars, traces, crVars
  <2>3. CASE d.op \in {"soumettreComite", "approuverComite"}
    BY <1>2, <1>9, <2>3
    DEF FinVersion, StatutEcrit, GardeLecture, StatutRequis, Op, traces,
        SoumettreComite, ApprouverComite, Next, CycleCr
  <2>4. CASE d.op \in {"soumettreVersion", "validerVersion", "rejeterVersion", "publier"}
    BY <1>2, <1>9, <2>4
    DEF FinVersion, StatutEcrit, GardeLecture, StatutRequis, Op, traces,
        SoumettreVersion, ValiderVersion, RejeterVersion, Publier, Next, CycleGlobal
  <2>5. CASE d.op = "supprimer"
    BY <1>2, <1>9, <2>5
    DEF FinVersion, StatutEcrit, GardeAvant, Op, traces, Supprimer, Next, CycleGlobal
  <2>. QED  BY <2>1, <2>2, <2>3, <2>4, <2>5 DEF OpsVersion
<1>10. CASE FinInitialiserSnapshot(r)
  <2>1. d.crs \subseteq CRs /\ d.op = "initialiserSnapshot"
    BY <1>1, <1>10, DemandeTypee DEF FinInitialiserSnapshot, Op
  <2>2. requetes[r].absents = {c \in d.crs : snapshot[c] = "HORS"}
    BY <1>2, <2>1 DEF Absents
  <2>3. InitialiserSnapshot(d.crs)
    BY <1>10, <2>1, <2>2 DEF FinInitialiserSnapshot, InitialiserSnapshot, Conclure
  <2>. QED  BY <2>1, <2>3 DEF Next, GestionSnapshot
<1>11. CASE FinRetirer(r)
  <2>1. d.cr \in CRs /\ d.forcer \in BOOLEAN /\ d.op = "retirer"
    BY <1>1, <1>11 DEF FinRetirer, Op, Demandes, OpsAutorisees, OpsVersion
  <2>2. requetes[r].version = version
    BY <1>2, <2>1 DEF VersionGardee
  <2>3. version' = Bascule(version, snapshot', statutCr, version)
    BY <1>2, <1>11, <2>1, <2>2
    DEF FinRetirer, PretARetirer, BasculeEcrite, Compte, Bascule, Cr
  <2>4. RetirerCr(d.cr, d.forcer)
    BY <1>2, <1>11, <2>1, <2>3 DEF FinRetirer, RetirerCr, GardeLecture, Cr
  <2>. QED  BY <2>1, <2>4 DEF Next, GestionSnapshot
<1>12. CASE FinReintegrer(r)
  <2>1. d.cr \in CRs /\ d.op = "reintegrer"
    BY <1>1, <1>12, DemandeTypee DEF FinReintegrer, Op
  <2>2. ReintegrerCr(d.cr)
    BY <1>2, <1>12, <2>1 DEF FinReintegrer, ReintegrerCr, GardeAvant, GardeLecture, Cr
  <2>. QED  BY <2>1, <2>2 DEF Next, GestionSnapshot
<1>13. CASE FinSaisir(r)
  <2>1. /\ d.cr \in CRs /\ d.acteur \in Users /\ d.op = "saisir"
        /\ d.contenu \in Contenus \cup {Vide}
    BY <1>1, <1>13 DEF FinSaisir, Op, Demandes, OpsAutorisees, OpsVersion
  <2>2. statutCr' = [statutCr EXCEPT ![d.cr] = "EN_SAISIE"]
    BY <1>2, <1>3, <1>13, <2>1 DEF FinSaisir, Absents, GardeLecture, Modifiable, TypeOK
  <2>3. SaisirGrille(d.acteur, d.cr, d.contenu)
    BY <1>2, <1>13, <2>1, <2>2 DEF FinSaisir, SaisirGrille, GardeAvant, GardeLecture, Cr
  <2>. QED  BY <2>1, <2>3 DEF Next, Saisie
<1>14. CASE FinImporter(r)
  <2>1. /\ d.crs \subseteq CRs /\ d.acteur \in Users /\ d.op = "importer"
        /\ d.contenu \in Contenus
    BY <1>1, <1>14 DEF FinImporter, Op, Demandes, OpsAutorisees, OpsVersion
  <2>2. statutCr' = [c \in CRs |-> IF c \in d.crs THEN "EN_SAISIE" ELSE statutCr[c]]
    BY <1>2, <1>3, <1>14, <2>1 DEF FinImporter, GardeLecture, Modifiable, TypeOK
  <2>3. Importer(d.acteur, d.crs, d.contenu) /\ d.crs # {}
    BY <1>2, <1>14, <2>1, <2>2 DEF FinImporter, Importer, GardeAvant, GardeLecture
  <2>. QED  BY <2>1, <2>3 DEF Next, Saisie
<1>15. CASE FinEcrireLigne(r)
  <2>1. d.cr \in CRs /\ d.contenu \in Contenus \cup {Vide} /\ d.op = "ecrireLigne"
    BY <1>1, <1>15, DemandeTypee DEF FinEcrireLigne, Op
  <2>2. CASE d.contenu = Vide
    <3>1. SupprimerLigne(d.cr, d.contenu)
      BY <1>2, <1>15, <2>1, <2>2 DEF FinEcrireLigne, SupprimerLigne, GardeAvant, Cr
    <3>. QED  BY <2>1, <3>1 DEF Next, Saisie
  <2>3. CASE d.contenu # Vide
    <3>1. EcrireLigne(d.cr, d.contenu)
      BY <1>2, <1>15, <2>1 DEF FinEcrireLigne, EcrireLigne, GardeAvant, Cr
    <3>. QED  BY <2>1, <2>3, <3>1 DEF Next, Saisie
  <2>. QED  BY <2>2, <2>3
<1>. QED  BY <1>4, <1>5, <1>6, <1>7, <1>8, <1>9, <1>10, <1>11, <1>12, <1>13, <1>14, <1>15
  DEF Conclure, Fin

(* With any number of requests in progress, the COMMIT of a request that   *)
(* no other COMMIT has overlapped is a whole handler of CycleBudget, and   *)
(* no other access changes the tables.                                     *)
THEOREM RaffinementCorrect == SpecConcurrent => ImplementeCycleBudget
<1>1. InitConcurrent => Init
  BY DEF InitConcurrent
<1>2. InvariantLectures /\ [NextConcurrent]_varsConcurrent
        => [\/ [Next]_vars
            \/ \E r \in doublees : requetes[r].phase # "libre" /\ requetes'[r] = Libre
           ]_varsConcurrent
  <2>. SUFFICES ASSUME InvariantLectures, [NextConcurrent]_varsConcurrent
                PROVE  \/ [Next]_vars
                       \/ \E r \in doublees :
                            requetes[r].phase # "libre" /\ requetes'[r] = Libre
    OBVIOUS
  <2>1. CASE UNCHANGED varsConcurrent
    BY <2>1 DEF varsConcurrent
  <2>2. ASSUME NEW r \in Requetes,
               (\E e \in Demandes : Recevoir(r, e)) \/ Lire(r) \/ Annuler(r) \/ Compter(r)
        PROVE  UNCHANGED vars
    BY <2>2 DEF Recevoir, Lire, Annuler, Compter
  <2>3. ASSUME NEW r \in Requetes, Conclure(r), r \in doublees
        PROVE  requetes[r].phase # "libre" /\ requetes'[r] = Libre
    BY <2>3 DEF Conclure, Terminer, InvariantLectures, TypeOKConcurrent
  <2>. QED  BY <2>1, <2>2, <2>3, Etapes, FinFraiche
<1>. QED  BY <1>1, <1>2, LecturesTenues, PTL DEF SpecConcurrent, ImplementeCycleBudget
=============================================================================
