--------------------------- MODULE FileEmailsProofs ---------------------------
(***************************************************************************)
(* Proofs about the sending of e-mails, for any rows, jobs, requests,       *)
(* workers, attempts and faults.                                           *)
(*                                                                         *)
(* The argument counts what is under way for a row: a request that will     *)
(* publish its job, or a job that a worker still has to treat (`ATraiter`).  *)
(* A row without outcome has one of these, unless a fault lost it           *)
(* (`LignesSuivies`). A row that no fault struck and that was not replayed    *)
(* too early has only one, and none once its outcome is written (`Seul`): its  *)
(* worker is alone to hand the mail to SMTP (`UneFois`).                     *)
(***************************************************************************)
EXTENDS FileEmails, TLAPS

(* A worker holds an active job that no other worker holds.                 *)
Prises ==
  \A w \in Workers : workers[w] # Libre =>
    /\ jobs[A(w)].etat = "actif"
    /\ \A v \in Workers \ {w} : workers[v] # Libre => A(v) # A(w)

EssaisRestants == \A j \in Jobs : EnVie(j) => jobs[j] \in Job /\ jobs[j].essais < MaxEssais

(* An outcome is about to be written for a mail that SMTP has accepted.      *)
Recus == \A w \in Workers : workers[w].etape \in {"accepte", "a_reecrire"} => recus[LigneDe(w)] > 0

Finaux == {"ABSENT", "ENVOYE", "ECHEC", "SUPPRIME"}

(* The job will still write the row.                                        *)
EnCharge(j) ==
  /\ EnVie(j)
  /\ \A w \in Workers : workers[w] # Libre /\ A(w) = j => workers[w].etape \notin {"fini", "definitif"}
APublier(r, l) == requetes[r].etape = "publier" /\ requetes[r].ligne = l
ATraiter(j, l) == EnCharge(j) /\ jobs[j].ligne = l

LignesSuivies ==
  \A l \in Lignes \ perdus : statut[l] \notin Finaux =>
    (\E r \in Requetes : APublier(r, l)) \/ \E j \in Jobs : ATraiter(j, l)

(* One request or one job at a time, and none once the row is final.         *)
Seul ==
  \A l \in Lignes \ doublables :
    /\ \A r, s \in Requetes : APublier(r, l) /\ APublier(s, l) => r = s
    /\ \A i, j \in Jobs : ATraiter(i, l) /\ ATraiter(j, l) => i = j
    /\ \A r \in Requetes, j \in Jobs : ~ (APublier(r, l) /\ ATraiter(j, l))
    /\ statut[l] \in Finaux => (\A r \in Requetes : ~ APublier(r, l)) /\ \A j \in Jobs : ~ ATraiter(j, l)

(* What SMTP has accepted is written, or about to be.                        *)
UneFois ==
  /\ \A l \in Lignes \ doublables : recus[l] > 0 =>
       /\ recus[l] = 1
       /\ statut[l] = "ENVOYE" \/ \E w \in Workers : workers[w].etape = "accepte" /\ LigneDe(w) = l
  /\ \A w \in Workers : workers[w].etape = "a_reecrire" => LigneDe(w) \in doublables

Invariant ==
  /\ TypeOK /\ Prises /\ EssaisRestants /\ Recus /\ EnvoyeSincere /\ LignesSuivies
  /\ Seul /\ UneFois

TypeWorkers == [Workers -> {Libre} \cup [etape : EtapesWorker, job : Jobs]]

USE DEF Libre, JobLibre, EnVie

LEMMA Initial == Init => Invariant
BY EssaisAssumption DEF Init, Invariant, TypeOK, Prises, EssaisRestants, Recus, EnvoyeSincere, LignesSuivies,
  StatutsEmail, Finaux, Seul, UneFois, APublier, ATraiter, EnCharge

-----------------------------------------------------------------------------
(* The step of a worker that keeps its job.                                  *)
Poursuit(w, e) ==
  /\ workers[w] # Libre /\ workers[w].etape \notin {"fini", "definitif"}
  /\ e \in EtapesWorker /\ workers' = [workers EXCEPT ![w].etape = e]
  /\ \A j \in Jobs : jobs'[j].etat = jobs[j].etat /\ jobs'[j].ligne = jobs[j].ligne
  /\ UNCHANGED requetes

(* What it leaves to do: the same, or what does not concern its row.         *)
LEMMA Avancement ==
  ASSUME Invariant, NEW w \in Workers, NEW e, Poursuit(w, e)
  PROVE  /\ A(w) \in Jobs /\ LigneDe(w) \in Lignes /\ ATraiter(A(w), LigneDe(w))
         /\ \A v \in Workers : /\ workers'[v].etape = IF v = w THEN e ELSE workers[v].etape
                               /\ workers[v] # Libre => LigneDe(v)' = LigneDe(v)
                               /\ workers'[v] # Libre <=> workers[v] # Libre
         /\ \A r \in Requetes, l \in Lignes : APublier(r, l)' <=> APublier(r, l)
         /\ \A j \in Jobs, l \in Lignes :
              /\ ATraiter(j, l)' => ATraiter(j, l)
              /\ j # A(w) \/ e \notin {"fini", "definitif"} => (ATraiter(j, l) => ATraiter(j, l)')
              /\ j = A(w) /\ e \in {"fini", "definitif"} => ~ ATraiter(j, l)'
<1>1. workers[w] \in [etape : EtapesWorker, job : Jobs] /\ workers \in TypeWorkers
  BY DEF Invariant, TypeOK, Poursuit, TypeWorkers
<1>2. A(w) \in Jobs /\ jobs[A(w)].etat = "actif" /\ jobs[A(w)] \in Job
  BY <1>1 DEF Invariant, Prises, EssaisRestants, Poursuit, A
<1>3. LigneDe(w) \in Lignes /\ ATraiter(A(w), LigneDe(w))
  BY <1>1, <1>2 DEF Invariant, Prises, ATraiter, EnCharge, LigneDe, Job, A, Poursuit
<1>4. ASSUME NEW v \in Workers
      PROVE  /\ workers'[v].etape = IF v = w THEN e ELSE workers[v].etape
             /\ workers[v] # Libre => workers'[v].job = workers[v].job
             /\ workers'[v] # Libre <=> workers[v] # Libre
             /\ workers[v] # Libre => workers[v].job \in Jobs
  BY <1>1 DEF Poursuit, TypeWorkers, EtapesWorker
<1>5. \A v \in Workers : workers[v] # Libre => LigneDe(v)' = LigneDe(v)
  BY <1>4 DEF LigneDe, A, Poursuit
<1>6. \A r \in Requetes, l \in Lignes : APublier(r, l)' <=> APublier(r, l)
  BY DEF APublier, Poursuit
<1>7. \A j \in Jobs : /\ EnCharge(j)' => EnCharge(j)
                      /\ j # A(w) \/ e \notin {"fini", "definitif"} => (EnCharge(j) => EnCharge(j)')
                      /\ j = A(w) /\ e \in {"fini", "definitif"} => ~ EnCharge(j)'
  <2>1. \A j \in Jobs : jobs'[j].etat = jobs[j].etat
    BY DEF Poursuit
  <2>2. workers[w] # Libre /\ workers[w].etape \notin {"fini", "definitif"}
    BY DEF Poursuit
  <2>3. \A v \in Workers \ {w} : workers[v] # Libre => A(v) # A(w)
    BY <2>2 DEF Invariant, Prises
  <2>. QED  BY <1>4, <2>1, <2>2, <2>3 DEF EnCharge, A
<1>8. \A j \in Jobs : jobs'[j].ligne = jobs[j].ligne
  BY DEF Poursuit
<1>. QED  BY <1>2, <1>3, <1>4, <1>5, <1>6, <1>7, <1>8 DEF ATraiter

-----------------------------------------------------------------------------
(* One lemma per action, one step per conjunct.                             *)

LEMMA PasCreer ==
  ASSUME Invariant, NEW r \in Requetes, NEW l \in Lignes, Creer(r, l)
  PROVE  Invariant'
<1>1. TypeOK'
  BY EssaisAssumption DEF Invariant, TypeOK, Prises, EssaisRestants, Creer, Job, EtatsJob,
    EtapesWorker, StatutsEmail, A, LigneDe, AEtape, Passer, EnRequete, Dernier
<1>2. Prises'
  BY DEF Invariant, TypeOK, Prises, Creer, A, AEtape, Passer, EtapesWorker, Tenu, Job
<1>3. EssaisRestants'
  BY EssaisAssumption DEF Invariant, TypeOK, EssaisRestants, Prises, Creer, A, AEtape, Passer,
    Job, Dernier, EtatsJob, EtapesWorker
<1>4. Recus'
  BY DEF Invariant, TypeOK, Prises, EssaisRestants, Recus, Creer, A, LigneDe, AEtape, Passer,
    Job, EtapesWorker
<1>5. EnvoyeSincere'
  BY DEF Invariant, TypeOK, EnvoyeSincere, Recus, EssaisRestants, Prises, Creer, A, LigneDe,
    AEtape, Passer, Job, EtapesWorker
<1>6. LignesSuivies'
  BY DEF Invariant, TypeOK, Prises, EssaisRestants, LignesSuivies, APublier, ATraiter, EnCharge,
    Finaux, Creer, A, LigneDe, AEtape, Passer, EnRequete, Tenu, Job, EtapesWorker, StatutsEmail
<1>7. Seul'
  BY DEF Invariant, TypeOK, Prises, EssaisRestants, Seul, APublier, ATraiter, EnCharge, Finaux,
    Creer, A, LigneDe, AEtape, Passer, EnRequete, Tenu, Job, EtapesWorker, StatutsEmail
<1>8. UneFois'
  BY DEF Invariant, TypeOK, Prises, EssaisRestants, UneFois, Seul, APublier, ATraiter, EnCharge,
    Finaux, Creer, A, LigneDe, AEtape, Passer, EnRequete, Tenu, Job, EtapesWorker, StatutsEmail
<1>. QED  BY <1>1, <1>2, <1>3, <1>4, <1>5, <1>6, <1>7, <1>8 DEF Invariant

LEMMA PasLogSupprime ==
  ASSUME Invariant, NEW l \in Lignes, LogSupprime(l)
  PROVE  Invariant'
<1>1. TypeOK'
  BY EssaisAssumption DEF Invariant, TypeOK, Prises, EssaisRestants, LogSupprime, Job, EtatsJob,
    EtapesWorker, StatutsEmail, A, LigneDe, AEtape, Passer, EnRequete, Dernier
<1>2. Prises'
  BY DEF Invariant, TypeOK, Prises, LogSupprime, A, AEtape, Passer, EtapesWorker, Tenu, Job
<1>3. EssaisRestants'
  BY EssaisAssumption DEF Invariant, TypeOK, EssaisRestants, Prises, LogSupprime, A, AEtape,
    Passer, Job, Dernier, EtatsJob, EtapesWorker
<1>4. Recus'
  BY DEF Invariant, TypeOK, Prises, EssaisRestants, Recus, LogSupprime, A, LigneDe, AEtape,
    Passer, Job, EtapesWorker
<1>5. EnvoyeSincere'
  BY DEF Invariant, TypeOK, EnvoyeSincere, Recus, EssaisRestants, Prises, LogSupprime, A,
    LigneDe, AEtape, Passer, Job, EtapesWorker
<1>6. LignesSuivies'
  BY DEF Invariant, TypeOK, Prises, EssaisRestants, LignesSuivies, APublier, ATraiter, EnCharge,
    Finaux, LogSupprime, A, LigneDe, AEtape, Passer, EnRequete, Tenu, Job, EtapesWorker,
    StatutsEmail
<1>7. Seul'
  BY DEF Invariant, TypeOK, Prises, EssaisRestants, Seul, APublier, ATraiter, EnCharge, Finaux,
    LogSupprime, A, LigneDe, AEtape, Passer, EnRequete, Tenu, Job, EtapesWorker, StatutsEmail
<1>8. UneFois'
  BY DEF Invariant, TypeOK, Prises, EssaisRestants, UneFois, Seul, APublier, ATraiter, EnCharge,
    Finaux, LogSupprime, A, LigneDe, AEtape, Passer, EnRequete, Tenu, Job, EtapesWorker,
    StatutsEmail
<1>. QED  BY <1>1, <1>2, <1>3, <1>4, <1>5, <1>6, <1>7, <1>8 DEF Invariant

LEMMA PasRejouer ==
  ASSUME Invariant, NEW r \in Requetes, NEW l \in Lignes, Rejouer(r, l)
  PROVE  Invariant'
<1>1. TypeOK'
  BY EssaisAssumption DEF Invariant, TypeOK, Prises, EssaisRestants, Rejouer, Job, EtatsJob,
    EtapesWorker, StatutsEmail, A, LigneDe, AEtape, Passer, EnRequete, Dernier
<1>2. Prises'
  BY DEF Invariant, TypeOK, Prises, Rejouer, A, AEtape, Passer, EtapesWorker, Tenu, Job
<1>3. EssaisRestants'
  BY EssaisAssumption DEF Invariant, TypeOK, EssaisRestants, Prises, Rejouer, A, AEtape, Passer,
    Job, Dernier, EtatsJob, EtapesWorker
<1>4. Recus'
  BY DEF Invariant, TypeOK, Prises, EssaisRestants, Recus, Rejouer, A, LigneDe, AEtape, Passer,
    Job, EtapesWorker
<1>5. EnvoyeSincere'
  BY DEF Invariant, TypeOK, EnvoyeSincere, Recus, EssaisRestants, Prises, Rejouer, A, LigneDe,
    AEtape, Passer, Job, EtapesWorker
<1>6. LignesSuivies'
  BY DEF Invariant, TypeOK, Prises, EssaisRestants, LignesSuivies, APublier, ATraiter, EnCharge,
    Finaux, Rejouer, A, LigneDe, AEtape, Passer, EnRequete, Tenu, Job, EtapesWorker,
    StatutsEmail
<1>7. Seul'
  BY DEF Invariant, TypeOK, Prises, EssaisRestants, Seul, APublier, ATraiter, EnCharge, Finaux,
    Rejouer, A, LigneDe, AEtape, Passer, EnRequete, Tenu, Job, EtapesWorker, StatutsEmail
<1>8. UneFois'
  BY DEF Invariant, TypeOK, Prises, EssaisRestants, UneFois, Seul, APublier, ATraiter, EnCharge,
    Finaux, Rejouer, A, LigneDe, AEtape, Passer, EnRequete, Tenu, Job, EtapesWorker,
    StatutsEmail
<1>. QED  BY <1>1, <1>2, <1>3, <1>4, <1>5, <1>6, <1>7, <1>8 DEF Invariant

LEMMA PasRejouerSupprime ==
  ASSUME Invariant, NEW r \in Requetes, RejouerSupprime(r)
  PROVE  Invariant'
<1>1. TypeOK'
  BY EssaisAssumption DEF Invariant, TypeOK, Prises, EssaisRestants, RejouerSupprime, Job,
    EtatsJob, EtapesWorker, StatutsEmail, A, LigneDe, AEtape, Passer, EnRequete, Dernier
<1>2. Prises'
  BY DEF Invariant, TypeOK, Prises, RejouerSupprime, A, AEtape, Passer, EtapesWorker, Tenu, Job
<1>3. EssaisRestants'
  BY EssaisAssumption DEF Invariant, TypeOK, EssaisRestants, Prises, RejouerSupprime, A, AEtape,
    Passer, Job, Dernier, EtatsJob, EtapesWorker
<1>4. Recus'
  BY DEF Invariant, TypeOK, Prises, EssaisRestants, Recus, RejouerSupprime, A, LigneDe, AEtape,
    Passer, Job, EtapesWorker
<1>5. EnvoyeSincere'
  BY DEF Invariant, TypeOK, EnvoyeSincere, Recus, EssaisRestants, Prises, RejouerSupprime, A,
    LigneDe, AEtape, Passer, Job, EtapesWorker
<1>6. LignesSuivies'
  BY DEF Invariant, TypeOK, Prises, EssaisRestants, LignesSuivies, APublier, ATraiter, EnCharge,
    Finaux, RejouerSupprime, A, LigneDe, AEtape, Passer, EnRequete, Tenu, Job, EtapesWorker,
    StatutsEmail
<1>7. Seul'
  BY DEF Invariant, TypeOK, Prises, EssaisRestants, Seul, APublier, ATraiter, EnCharge, Finaux,
    RejouerSupprime, A, LigneDe, AEtape, Passer, EnRequete, Tenu, Job, EtapesWorker,
    StatutsEmail
<1>8. UneFois'
  BY DEF Invariant, TypeOK, Prises, EssaisRestants, UneFois, Seul, APublier, ATraiter, EnCharge,
    Finaux, RejouerSupprime, A, LigneDe, AEtape, Passer, EnRequete, Tenu, Job, EtapesWorker,
    StatutsEmail
<1>. QED  BY <1>1, <1>2, <1>3, <1>4, <1>5, <1>6, <1>7, <1>8 DEF Invariant

LEMMA PasRemettreEnAttente ==
  ASSUME Invariant, NEW r \in Requetes, RemettreEnAttente(r)
  PROVE  Invariant'
<1>1. TypeOK'
  BY EssaisAssumption DEF Invariant, TypeOK, Prises, EssaisRestants, RemettreEnAttente, Job,
    EtatsJob, EtapesWorker, StatutsEmail, A, LigneDe, AEtape, Passer, EnRequete, Dernier
<1>2. Prises'
  BY DEF Invariant, TypeOK, Prises, RemettreEnAttente, A, AEtape, Passer, EtapesWorker, Tenu,
    Job
<1>3. EssaisRestants'
  BY EssaisAssumption DEF Invariant, TypeOK, EssaisRestants, Prises, RemettreEnAttente, A,
    AEtape, Passer, Job, Dernier, EtatsJob, EtapesWorker
<1>4. Recus'
  BY DEF Invariant, TypeOK, Prises, EssaisRestants, Recus, RemettreEnAttente, A, LigneDe,
    AEtape, Passer, Job, EtapesWorker
<1>5. EnvoyeSincere'
  BY DEF Invariant, TypeOK, EnvoyeSincere, Recus, EssaisRestants, Prises, RemettreEnAttente, A,
    LigneDe, AEtape, Passer, Job, EtapesWorker
<1>6. LignesSuivies'
  BY DEF Invariant, TypeOK, Prises, EssaisRestants, LignesSuivies, APublier, ATraiter, EnCharge,
    Finaux, RemettreEnAttente, A, LigneDe, AEtape, Passer, EnRequete, Tenu, Job, EtapesWorker,
    StatutsEmail
<1>7. Seul'
  BY DEF Invariant, TypeOK, Prises, EssaisRestants, Seul, APublier, ATraiter, EnCharge, Finaux,
    RemettreEnAttente, A, LigneDe, AEtape, Passer, EnRequete, Tenu, Job, EtapesWorker,
    StatutsEmail
<1>8. UneFois'
  BY DEF Invariant, TypeOK, Prises, EssaisRestants, UneFois, Seul, APublier, ATraiter, EnCharge,
    Finaux, RemettreEnAttente, A, LigneDe, AEtape, Passer, EnRequete, Tenu, Job, EtapesWorker,
    StatutsEmail
<1>. QED  BY <1>1, <1>2, <1>3, <1>4, <1>5, <1>6, <1>7, <1>8 DEF Invariant

LEMMA PasPublier ==
  ASSUME Invariant, NEW r \in Requetes, NEW j \in Jobs, Publier(r, j)
  PROVE  Invariant'
<1>1. TypeOK'
  BY EssaisAssumption DEF Invariant, TypeOK, Prises, EssaisRestants, Publier, Job, EtatsJob,
    EtapesWorker, StatutsEmail, A, LigneDe, AEtape, Passer, EnRequete, Dernier
<1>2. Prises'
  BY DEF Invariant, TypeOK, Prises, Publier, A, AEtape, Passer, EtapesWorker, Tenu, Job
<1>3. EssaisRestants'
  BY EssaisAssumption DEF Invariant, TypeOK, EssaisRestants, Prises, Publier, A, AEtape, Passer,
    Job, Dernier, EtatsJob, EtapesWorker
<1>4. Recus'
  BY DEF Invariant, TypeOK, Prises, EssaisRestants, Recus, Publier, A, LigneDe, AEtape, Passer,
    Job, EtapesWorker
<1>5. EnvoyeSincere'
  BY DEF Invariant, TypeOK, EnvoyeSincere, Recus, EssaisRestants, Prises, Publier, A, LigneDe,
    AEtape, Passer, Job, EtapesWorker
<1>6. LignesSuivies'
  BY DEF Invariant, TypeOK, Prises, EssaisRestants, LignesSuivies, APublier, ATraiter, EnCharge,
    Finaux, Publier, A, LigneDe, AEtape, Passer, EnRequete, Tenu, Job, EtapesWorker,
    StatutsEmail
<1>7. Seul'
  BY DEF Invariant, TypeOK, Prises, EssaisRestants, Seul, APublier, ATraiter, EnCharge, Finaux,
    Publier, A, LigneDe, AEtape, Passer, EnRequete, Tenu, Job, EtapesWorker, StatutsEmail
<1>8. UneFois'
  BY DEF Invariant, TypeOK, Prises, EssaisRestants, UneFois, Seul, APublier, ATraiter, EnCharge,
    Finaux, Publier, A, LigneDe, AEtape, Passer, EnRequete, Tenu, Job, EtapesWorker,
    StatutsEmail
<1>. QED  BY <1>1, <1>2, <1>3, <1>4, <1>5, <1>6, <1>7, <1>8 DEF Invariant

LEMMA PasPublicationPerdue ==
  ASSUME Invariant, NEW r \in Requetes, PublicationPerdue(r)
  PROVE  Invariant'
<1>1. TypeOK'
  BY EssaisAssumption DEF Invariant, TypeOK, Prises, EssaisRestants, PublicationPerdue, Job,
    EtatsJob, EtapesWorker, StatutsEmail, A, LigneDe, AEtape, Passer, EnRequete, Dernier
<1>2. Prises'
  BY DEF Invariant, TypeOK, Prises, PublicationPerdue, A, AEtape, Passer, EtapesWorker, Tenu,
    Job
<1>3. EssaisRestants'
  BY EssaisAssumption DEF Invariant, TypeOK, EssaisRestants, Prises, PublicationPerdue, A,
    AEtape, Passer, Job, Dernier, EtatsJob, EtapesWorker
<1>4. Recus'
  BY DEF Invariant, TypeOK, Prises, EssaisRestants, Recus, PublicationPerdue, A, LigneDe,
    AEtape, Passer, Job, EtapesWorker
<1>5. EnvoyeSincere'
  BY DEF Invariant, TypeOK, EnvoyeSincere, Recus, EssaisRestants, Prises, PublicationPerdue, A,
    LigneDe, AEtape, Passer, Job, EtapesWorker
<1>6. LignesSuivies'
  BY DEF Invariant, TypeOK, Prises, EssaisRestants, LignesSuivies, APublier, ATraiter, EnCharge,
    Finaux, PublicationPerdue, A, LigneDe, AEtape, Passer, EnRequete, Tenu, Job, EtapesWorker,
    StatutsEmail
<1>7. Seul'
  BY DEF Invariant, TypeOK, Prises, EssaisRestants, Seul, APublier, ATraiter, EnCharge, Finaux,
    PublicationPerdue, A, LigneDe, AEtape, Passer, EnRequete, Tenu, Job, EtapesWorker,
    StatutsEmail
<1>8. UneFois'
  BY DEF Invariant, TypeOK, Prises, EssaisRestants, UneFois, Seul, APublier, ATraiter, EnCharge,
    Finaux, PublicationPerdue, A, LigneDe, AEtape, Passer, EnRequete, Tenu, Job, EtapesWorker,
    StatutsEmail
<1>. QED  BY <1>1, <1>2, <1>3, <1>4, <1>5, <1>6, <1>7, <1>8 DEF Invariant

LEMMA PasPrendre ==
  ASSUME Invariant, NEW w \in Workers, NEW j \in Jobs, Prendre(w, j)
  PROVE  Invariant'
<1>1. TypeOK'
  BY EssaisAssumption DEF Invariant, TypeOK, Prises, EssaisRestants, Prendre, Job, EtatsJob,
    EtapesWorker, StatutsEmail, A, LigneDe, AEtape, Passer, EnRequete, Dernier
<1>2. Prises'
  BY DEF Invariant, TypeOK, Prises, Prendre, A, AEtape, Passer, EtapesWorker, Tenu, Job
<1>3. EssaisRestants'
  BY EssaisAssumption DEF Invariant, TypeOK, EssaisRestants, Prises, Prendre, A, AEtape, Passer,
    Job, Dernier, EtatsJob, EtapesWorker
<1>4. Recus'
  BY DEF Invariant, TypeOK, Prises, EssaisRestants, Recus, Prendre, A, LigneDe, AEtape, Passer,
    Job, EtapesWorker
<1>5. EnvoyeSincere'
  BY DEF Invariant, TypeOK, EnvoyeSincere, Recus, EssaisRestants, Prises, Prendre, A, LigneDe,
    AEtape, Passer, Job, EtapesWorker
<1>6. LignesSuivies'
  BY DEF Invariant, TypeOK, Prises, EssaisRestants, LignesSuivies, APublier, ATraiter, EnCharge,
    Finaux, Prendre, A, LigneDe, AEtape, Passer, EnRequete, Tenu, Job, EtapesWorker,
    StatutsEmail
<1>7. Seul'
  BY DEF Invariant, TypeOK, Prises, EssaisRestants, Seul, APublier, ATraiter, EnCharge, Finaux,
    Prendre, A, LigneDe, AEtape, Passer, EnRequete, Tenu, Job, EtapesWorker, StatutsEmail
<1>8. UneFois'
  BY DEF Invariant, TypeOK, Prises, EssaisRestants, UneFois, Seul, APublier, ATraiter, EnCharge,
    Finaux, Prendre, A, LigneDe, AEtape, Passer, EnRequete, Tenu, Job, EtapesWorker,
    StatutsEmail
<1>. QED  BY <1>1, <1>2, <1>3, <1>4, <1>5, <1>6, <1>7, <1>8 DEF Invariant

LEMMA PasMarquerEnCours ==
  ASSUME Invariant, NEW w \in Workers, MarquerEnCours(w)
  PROVE  Invariant'
<1>p. PICK e \in {"marque"} :
       /\ workers' = [workers EXCEPT ![w].etape = e]
       /\ statut' = [statut EXCEPT ![LigneDe(w)] = "EN_COURS"]
  BY DEF MarquerEnCours, Passer
<1>q. workers[w] # Libre /\ workers[w].etape \notin {"fini", "definitif"} /\ UNCHANGED requetes
  BY DEF MarquerEnCours, AEtape
<1>j. \A j \in Jobs : jobs'[j].etat = jobs[j].etat /\ jobs'[j].ligne = jobs[j].ligne
  BY <1>q DEF Invariant, TypeOK, Prises, EssaisRestants, MarquerEnCours, A, Job
<1>0. Poursuit(w, e)
  BY <1>p, <1>q, <1>j DEF Poursuit, EtapesWorker
<1>a. /\ LigneDe(w) \in Lignes /\ ATraiter(A(w), LigneDe(w)) /\ A(w) \in Jobs
      /\ \A v \in Workers : /\ workers'[v].etape = IF v = w THEN e ELSE workers[v].etape
                            /\ workers[v] # Libre => LigneDe(v)' = LigneDe(v)
                            /\ workers'[v] # Libre <=> workers[v] # Libre
      /\ \A r \in Requetes, l \in Lignes : APublier(r, l)' <=> APublier(r, l)
      /\ \A j \in Jobs, l \in Lignes :
           /\ ATraiter(j, l)' => ATraiter(j, l)
           /\ j # A(w) \/ e \notin {"fini", "definitif"} => (ATraiter(j, l) => ATraiter(j, l)')
           /\ j = A(w) /\ e \in {"fini", "definitif"} => ~ ATraiter(j, l)'
  BY <1>0, Avancement
<1>1. TypeOK'
  BY EssaisAssumption DEF Invariant, TypeOK, Prises, EssaisRestants, MarquerEnCours, Job,
    EtatsJob, EtapesWorker, StatutsEmail, A, LigneDe, AEtape, Passer, EnRequete, Dernier
<1>2. Prises'
  BY DEF Invariant, TypeOK, Prises, MarquerEnCours, A, AEtape, Passer, EtapesWorker, Tenu, Job
<1>3. EssaisRestants'
  BY EssaisAssumption DEF Invariant, TypeOK, EssaisRestants, Prises, MarquerEnCours, A, AEtape,
    Passer, Job, Dernier, EtatsJob, EtapesWorker
<1>4. Recus'
  BY DEF Invariant, TypeOK, Prises, EssaisRestants, Recus, MarquerEnCours, A, LigneDe, AEtape,
    Passer, Job, EtapesWorker
<1>5. EnvoyeSincere'
  BY DEF Invariant, TypeOK, EnvoyeSincere, Recus, EssaisRestants, Prises, MarquerEnCours, A,
    LigneDe, AEtape, Passer, Job, EtapesWorker
<1>6. LignesSuivies'
  BY <1>p, <1>a DEF Invariant, TypeOK, LignesSuivies, Finaux, StatutsEmail, MarquerEnCours,
    AEtape, ATraiter
<1>7. Seul'
  BY <1>p, <1>a DEF Invariant, TypeOK, Seul, Finaux, StatutsEmail, MarquerEnCours, AEtape
<1>8. UneFois'
  BY <1>p, <1>a DEF Invariant, TypeOK, UneFois, Seul, Finaux, StatutsEmail, MarquerEnCours,
    AEtape
<1>. QED  BY <1>1, <1>2, <1>3, <1>4, <1>5, <1>6, <1>7, <1>8 DEF Invariant

LEMMA PasEmettre ==
  ASSUME Invariant, NEW w \in Workers, Emettre(w)
  PROVE  Invariant'
<1>p. PICK e \in {"accepte", "refuse"} :
       /\ workers' = [workers EXCEPT ![w].etape = e]
       /\ recus' = [recus EXCEPT ![LigneDe(w)] = @ + 1]
       /\ \/ e = "accepte" /\ UNCHANGED doublables
          \/ e = "refuse" /\ doublables' = doublables \cup {LigneDe(w)}
  BY DEF Emettre, Passer
<1>q. workers[w] # Libre /\ workers[w].etape \notin {"fini", "definitif"} /\ UNCHANGED requetes
  BY DEF Emettre, AEtape
<1>j. \A j \in Jobs : jobs'[j].etat = jobs[j].etat /\ jobs'[j].ligne = jobs[j].ligne
  BY <1>q DEF Invariant, TypeOK, Prises, EssaisRestants, Emettre, A, Job
<1>0. Poursuit(w, e)
  BY <1>p, <1>q, <1>j DEF Poursuit, EtapesWorker
<1>a. /\ LigneDe(w) \in Lignes /\ ATraiter(A(w), LigneDe(w)) /\ A(w) \in Jobs
      /\ \A v \in Workers : /\ workers'[v].etape = IF v = w THEN e ELSE workers[v].etape
                            /\ workers[v] # Libre => LigneDe(v)' = LigneDe(v)
                            /\ workers'[v] # Libre <=> workers[v] # Libre
      /\ \A r \in Requetes, l \in Lignes : APublier(r, l)' <=> APublier(r, l)
      /\ \A j \in Jobs, l \in Lignes :
           /\ ATraiter(j, l)' => ATraiter(j, l)
           /\ j # A(w) \/ e \notin {"fini", "definitif"} => (ATraiter(j, l) => ATraiter(j, l)')
           /\ j = A(w) /\ e \in {"fini", "definitif"} => ~ ATraiter(j, l)'
  BY <1>0, Avancement
<1>1. TypeOK'
  BY EssaisAssumption DEF Invariant, TypeOK, Prises, EssaisRestants, Emettre, Job, EtatsJob,
    EtapesWorker, StatutsEmail, A, LigneDe, AEtape, Passer, EnRequete, Dernier
<1>2. Prises'
  BY DEF Invariant, TypeOK, Prises, Emettre, A, AEtape, Passer, EtapesWorker, Tenu, Job
<1>3. EssaisRestants'
  BY EssaisAssumption DEF Invariant, TypeOK, EssaisRestants, Prises, Emettre, A, AEtape, Passer,
    Job, Dernier, EtatsJob, EtapesWorker
<1>4. Recus'
  BY DEF Invariant, TypeOK, Prises, EssaisRestants, Recus, Emettre, A, LigneDe, AEtape, Passer,
    Job, EtapesWorker
<1>5. EnvoyeSincere'
  BY DEF Invariant, TypeOK, EnvoyeSincere, Recus, EssaisRestants, Prises, Emettre, A, LigneDe,
    AEtape, Passer, Job, EtapesWorker
<1>6. LignesSuivies'
  BY <1>p, <1>a DEF Invariant, TypeOK, LignesSuivies, Finaux, StatutsEmail, Emettre, AEtape,
    ATraiter
<1>7. Seul'
  BY <1>p, <1>a DEF Invariant, TypeOK, Seul, Finaux, StatutsEmail, Emettre, AEtape
<1>8. UneFois'
  <2>1. recus \in [Lignes -> Nat] /\ UNCHANGED statut /\ workers[w].etape = "marque"
    BY DEF Invariant, TypeOK, Emettre, AEtape
  <2>2. LigneDe(w) \notin doublables => recus[LigneDe(w)] = 0
    <3>1. ASSUME NEW v \in Workers, workers[v].etape = "accepte", LigneDe(v) = LigneDe(w)
          PROVE  LigneDe(w) \in doublables
      <4>1. v # w /\ workers[v] # Libre
        BY <2>1, <3>1
      <4>2. A(v) # A(w) /\ A(v) \in Jobs /\ ATraiter(A(v), LigneDe(v))
        BY <1>q, <3>1, <4>1 DEF Invariant, TypeOK, Prises, EssaisRestants, ATraiter, EnCharge, LigneDe, A
      <4>. QED  BY <1>a, <3>1, <4>2 DEF Invariant, Seul
    <3>2. statut[LigneDe(w)] = "ENVOYE" => LigneDe(w) \in doublables
      BY <1>a DEF Invariant, Seul, Finaux
    <3>. QED  BY <1>a, <2>1, <3>1, <3>2 DEF Invariant, UneFois
  <2>3. ASSUME NEW l \in Lignes \ doublables', recus'[l] > 0
        PROVE  /\ recus'[l] = 1
               /\ statut'[l] = "ENVOYE" \/ \E v \in Workers : workers'[v].etape = "accepte" /\ LigneDe(v)' = l
    <3>1. CASE l = LigneDe(w)
      <4>1. e = "accepte" /\ l \notin doublables
        BY <1>p, <2>3, <3>1
      <4>2. recus'[l] = 1
        BY <1>p, <2>1, <2>2, <3>1, <4>1
      <4>. QED  BY <1>a, <1>q, <3>1, <4>1, <4>2
    <3>2. CASE l # LigneDe(w)
      <4>1. recus'[l] = recus[l] /\ l \notin doublables
        BY <1>p, <2>1, <2>3, <3>2
      <4>. QED  BY <1>a, <1>q, <2>1, <2>3, <3>2, <4>1 DEF Invariant, UneFois
    <3>. QED  BY <3>1, <3>2
  <2>4. ASSUME NEW v \in Workers, workers'[v].etape = "a_reecrire"
        PROVE  LigneDe(v)' \in doublables'
    <3>1. v # w /\ workers[v].etape = "a_reecrire"
      BY <1>p, <1>a, <2>4
    <3>. QED  BY <1>p, <1>a, <3>1 DEF Invariant, UneFois
  <2>. QED  BY <2>3, <2>4 DEF UneFois
<1>. QED  BY <1>1, <1>2, <1>3, <1>4, <1>5, <1>6, <1>7, <1>8 DEF Invariant

LEMMA PasRefuser ==
  ASSUME Invariant, NEW w \in Workers, Refuser(w)
  PROVE  Invariant'
<1>p. PICK e \in {"refuse", "leve"} :
       /\ workers' = [workers EXCEPT ![w].etape = e]
       /\ UNCHANGED statut
  BY DEF Refuser, Passer
<1>q. workers[w] # Libre /\ workers[w].etape \notin {"fini", "definitif"} /\ UNCHANGED requetes
  BY DEF Refuser, AEtape
<1>j. \A j \in Jobs : jobs'[j].etat = jobs[j].etat /\ jobs'[j].ligne = jobs[j].ligne
  BY <1>q DEF Invariant, TypeOK, Prises, EssaisRestants, Refuser, A, Job
<1>0. Poursuit(w, e)
  BY <1>p, <1>q, <1>j DEF Poursuit, EtapesWorker
<1>a. /\ LigneDe(w) \in Lignes /\ ATraiter(A(w), LigneDe(w)) /\ A(w) \in Jobs
      /\ \A v \in Workers : /\ workers'[v].etape = IF v = w THEN e ELSE workers[v].etape
                            /\ workers[v] # Libre => LigneDe(v)' = LigneDe(v)
                            /\ workers'[v] # Libre <=> workers[v] # Libre
      /\ \A r \in Requetes, l \in Lignes : APublier(r, l)' <=> APublier(r, l)
      /\ \A j \in Jobs, l \in Lignes :
           /\ ATraiter(j, l)' => ATraiter(j, l)
           /\ j # A(w) \/ e \notin {"fini", "definitif"} => (ATraiter(j, l) => ATraiter(j, l)')
           /\ j = A(w) /\ e \in {"fini", "definitif"} => ~ ATraiter(j, l)'
  BY <1>0, Avancement
<1>1. TypeOK'
  BY EssaisAssumption DEF Invariant, TypeOK, Prises, EssaisRestants, Refuser, Job, EtatsJob,
    EtapesWorker, StatutsEmail, A, LigneDe, AEtape, Passer, EnRequete, Dernier
<1>2. Prises'
  BY DEF Invariant, TypeOK, Prises, Refuser, A, AEtape, Passer, EtapesWorker, Tenu, Job
<1>3. EssaisRestants'
  BY EssaisAssumption DEF Invariant, TypeOK, EssaisRestants, Prises, Refuser, A, AEtape, Passer,
    Job, Dernier, EtatsJob, EtapesWorker
<1>4. Recus'
  BY DEF Invariant, TypeOK, Prises, EssaisRestants, Recus, Refuser, A, LigneDe, AEtape, Passer,
    Job, EtapesWorker
<1>5. EnvoyeSincere'
  BY DEF Invariant, TypeOK, EnvoyeSincere, Recus, EssaisRestants, Prises, Refuser, A, LigneDe,
    AEtape, Passer, Job, EtapesWorker
<1>6. LignesSuivies'
  BY <1>p, <1>a DEF Invariant, TypeOK, LignesSuivies, Finaux, StatutsEmail, Refuser, AEtape,
    ATraiter
<1>7. Seul'
  BY <1>p, <1>a DEF Invariant, TypeOK, Seul, Finaux, StatutsEmail, Refuser, AEtape
<1>8. UneFois'
  BY <1>p, <1>a DEF Invariant, TypeOK, UneFois, Seul, Finaux, StatutsEmail, Refuser, AEtape
<1>. QED  BY <1>1, <1>2, <1>3, <1>4, <1>5, <1>6, <1>7, <1>8 DEF Invariant

LEMMA PasEnregistrerEnvoi ==
  ASSUME Invariant, NEW w \in Workers, EnregistrerEnvoi(w)
  PROVE  Invariant'
<1>p. PICK e \in {"fini", "a_reecrire"} :
       /\ workers' = [workers EXCEPT ![w].etape = e]
       /\ \/ e = "fini" /\ statut' = [statut EXCEPT ![LigneDe(w)] = "ENVOYE"] /\ UNCHANGED doublables
          \/ e = "a_reecrire" /\ UNCHANGED statut /\ doublables' = doublables \cup {LigneDe(w)}
  BY DEF EnregistrerEnvoi, Passer
<1>q. workers[w] # Libre /\ workers[w].etape \notin {"fini", "definitif"} /\ UNCHANGED requetes
  BY DEF EnregistrerEnvoi, AEtape
<1>j. \A j \in Jobs : jobs'[j].etat = jobs[j].etat /\ jobs'[j].ligne = jobs[j].ligne
  BY <1>q DEF Invariant, TypeOK, Prises, EssaisRestants, EnregistrerEnvoi, A, Job
<1>0. Poursuit(w, e)
  BY <1>p, <1>q, <1>j DEF Poursuit, EtapesWorker
<1>a. /\ LigneDe(w) \in Lignes /\ ATraiter(A(w), LigneDe(w)) /\ A(w) \in Jobs
      /\ \A v \in Workers : /\ workers'[v].etape = IF v = w THEN e ELSE workers[v].etape
                            /\ workers[v] # Libre => LigneDe(v)' = LigneDe(v)
                            /\ workers'[v] # Libre <=> workers[v] # Libre
      /\ \A r \in Requetes, l \in Lignes : APublier(r, l)' <=> APublier(r, l)
      /\ \A j \in Jobs, l \in Lignes :
           /\ ATraiter(j, l)' => ATraiter(j, l)
           /\ j # A(w) \/ e \notin {"fini", "definitif"} => (ATraiter(j, l) => ATraiter(j, l)')
           /\ j = A(w) /\ e \in {"fini", "definitif"} => ~ ATraiter(j, l)'
  BY <1>0, Avancement
<1>1. TypeOK'
  BY EssaisAssumption DEF Invariant, TypeOK, Prises, EssaisRestants, EnregistrerEnvoi, Job,
    EtatsJob, EtapesWorker, StatutsEmail, A, LigneDe, AEtape, Passer, EnRequete, Dernier
<1>2. Prises'
  BY DEF Invariant, TypeOK, Prises, EnregistrerEnvoi, A, AEtape, Passer, EtapesWorker, Tenu, Job
<1>3. EssaisRestants'
  BY EssaisAssumption DEF Invariant, TypeOK, EssaisRestants, Prises, EnregistrerEnvoi, A,
    AEtape, Passer, Job, Dernier, EtatsJob, EtapesWorker
<1>4. Recus'
  BY DEF Invariant, TypeOK, Prises, EssaisRestants, Recus, EnregistrerEnvoi, A, LigneDe, AEtape,
    Passer, Job, EtapesWorker
<1>5. EnvoyeSincere'
  BY DEF Invariant, TypeOK, EnvoyeSincere, Recus, EssaisRestants, Prises, EnregistrerEnvoi, A,
    LigneDe, AEtape, Passer, Job, EtapesWorker
<1>6. LignesSuivies'
  BY <1>p, <1>a DEF Invariant, TypeOK, LignesSuivies, Finaux, StatutsEmail, EnregistrerEnvoi,
    AEtape, ATraiter
<1>7. Seul'
  BY <1>p, <1>a DEF Invariant, TypeOK, Seul, Finaux, StatutsEmail, EnregistrerEnvoi, AEtape
<1>8. UneFois'
  BY <1>p, <1>a DEF Invariant, TypeOK, UneFois, Seul, Finaux, StatutsEmail, EnregistrerEnvoi,
    AEtape
<1>. QED  BY <1>1, <1>2, <1>3, <1>4, <1>5, <1>6, <1>7, <1>8 DEF Invariant

LEMMA PasEnregistrerErreur ==
  ASSUME Invariant, NEW w \in Workers, EnregistrerErreur(w)
  PROVE  Invariant'
<1>p. PICK e \in {"leve"} :
       /\ workers' = [workers EXCEPT ![w].etape = e]
       /\ UNCHANGED doublables
  BY DEF EnregistrerErreur, Passer
<1>q. workers[w] # Libre /\ workers[w].etape \notin {"fini", "definitif"} /\ UNCHANGED requetes
  BY DEF EnregistrerErreur, AEtape
<1>j. \A j \in Jobs : jobs'[j].etat = jobs[j].etat /\ jobs'[j].ligne = jobs[j].ligne
  BY <1>q DEF Invariant, TypeOK, Prises, EssaisRestants, EnregistrerErreur, A, Job
<1>0. Poursuit(w, e)
  BY <1>p, <1>q, <1>j DEF Poursuit, EtapesWorker
<1>a. /\ LigneDe(w) \in Lignes /\ ATraiter(A(w), LigneDe(w)) /\ A(w) \in Jobs
      /\ \A v \in Workers : /\ workers'[v].etape = IF v = w THEN e ELSE workers[v].etape
                            /\ workers[v] # Libre => LigneDe(v)' = LigneDe(v)
                            /\ workers'[v] # Libre <=> workers[v] # Libre
      /\ \A r \in Requetes, l \in Lignes : APublier(r, l)' <=> APublier(r, l)
      /\ \A j \in Jobs, l \in Lignes :
           /\ ATraiter(j, l)' => ATraiter(j, l)
           /\ j # A(w) \/ e \notin {"fini", "definitif"} => (ATraiter(j, l) => ATraiter(j, l)')
           /\ j = A(w) /\ e \in {"fini", "definitif"} => ~ ATraiter(j, l)'
  BY <1>0, Avancement
<1>1. TypeOK'
  BY EssaisAssumption DEF Invariant, TypeOK, Prises, EssaisRestants, EnregistrerErreur, Job,
    EtatsJob, EtapesWorker, StatutsEmail, A, LigneDe, AEtape, Passer, EnRequete, Dernier
<1>2. Prises'
  BY DEF Invariant, TypeOK, Prises, EnregistrerErreur, A, AEtape, Passer, EtapesWorker, Tenu,
    Job
<1>3. EssaisRestants'
  BY EssaisAssumption DEF Invariant, TypeOK, EssaisRestants, Prises, EnregistrerErreur, A,
    AEtape, Passer, Job, Dernier, EtatsJob, EtapesWorker
<1>4. Recus'
  BY DEF Invariant, TypeOK, Prises, EssaisRestants, Recus, EnregistrerErreur, A, LigneDe,
    AEtape, Passer, Job, EtapesWorker
<1>5. EnvoyeSincere'
  BY DEF Invariant, TypeOK, EnvoyeSincere, Recus, EssaisRestants, Prises, EnregistrerErreur, A,
    LigneDe, AEtape, Passer, Job, EtapesWorker
<1>6. LignesSuivies'
  BY <1>p, <1>a DEF Invariant, TypeOK, LignesSuivies, Finaux, StatutsEmail, EnregistrerErreur,
    AEtape, ATraiter
<1>7. Seul'
  BY <1>p, <1>a DEF Invariant, TypeOK, Seul, UneFois, Finaux, StatutsEmail, EnregistrerErreur, AEtape
<1>8. UneFois'
  BY <1>p, <1>a DEF Invariant, TypeOK, UneFois, Seul, Finaux, StatutsEmail, EnregistrerErreur,
    AEtape
<1>. QED  BY <1>1, <1>2, <1>3, <1>4, <1>5, <1>6, <1>7, <1>8 DEF Invariant

LEMMA PasMarquerEchec ==
  ASSUME Invariant, NEW w \in Workers, MarquerEchec(w)
  PROVE  Invariant'
<1>p. PICK e \in {"definitif"} :
       /\ workers' = [workers EXCEPT ![w].etape = e]
       /\ UNCHANGED doublables
  BY DEF MarquerEchec, Passer
<1>q. workers[w] # Libre /\ workers[w].etape \notin {"fini", "definitif"} /\ UNCHANGED requetes
  BY DEF MarquerEchec, AEtape
<1>j. \A j \in Jobs : jobs'[j].etat = jobs[j].etat /\ jobs'[j].ligne = jobs[j].ligne
  BY <1>q DEF Invariant, TypeOK, Prises, EssaisRestants, MarquerEchec, A, Job
<1>0. Poursuit(w, e)
  BY <1>p, <1>q, <1>j DEF Poursuit, EtapesWorker
<1>a. /\ LigneDe(w) \in Lignes /\ ATraiter(A(w), LigneDe(w)) /\ A(w) \in Jobs
      /\ \A v \in Workers : /\ workers'[v].etape = IF v = w THEN e ELSE workers[v].etape
                            /\ workers[v] # Libre => LigneDe(v)' = LigneDe(v)
                            /\ workers'[v] # Libre <=> workers[v] # Libre
      /\ \A r \in Requetes, l \in Lignes : APublier(r, l)' <=> APublier(r, l)
      /\ \A j \in Jobs, l \in Lignes :
           /\ ATraiter(j, l)' => ATraiter(j, l)
           /\ j # A(w) \/ e \notin {"fini", "definitif"} => (ATraiter(j, l) => ATraiter(j, l)')
           /\ j = A(w) /\ e \in {"fini", "definitif"} => ~ ATraiter(j, l)'
  BY <1>0, Avancement
<1>1. TypeOK'
  BY EssaisAssumption DEF Invariant, TypeOK, Prises, EssaisRestants, MarquerEchec, Job,
    EtatsJob, EtapesWorker, StatutsEmail, A, LigneDe, AEtape, Passer, EnRequete, Dernier
<1>2. Prises'
  BY DEF Invariant, TypeOK, Prises, MarquerEchec, A, AEtape, Passer, EtapesWorker, Tenu, Job
<1>3. EssaisRestants'
  BY EssaisAssumption DEF Invariant, TypeOK, EssaisRestants, Prises, MarquerEchec, A, AEtape,
    Passer, Job, Dernier, EtatsJob, EtapesWorker
<1>4. Recus'
  BY DEF Invariant, TypeOK, Prises, EssaisRestants, Recus, MarquerEchec, A, LigneDe, AEtape,
    Passer, Job, EtapesWorker
<1>5. EnvoyeSincere'
  BY DEF Invariant, TypeOK, EnvoyeSincere, Recus, EssaisRestants, Prises, MarquerEchec, A,
    LigneDe, AEtape, Passer, Job, EtapesWorker
<1>6. LignesSuivies'
  BY <1>p, <1>a DEF Invariant, TypeOK, LignesSuivies, Finaux, StatutsEmail, MarquerEchec,
    AEtape, ATraiter
<1>7. Seul'
  BY <1>p, <1>a DEF Invariant, TypeOK, Seul, Finaux, StatutsEmail, MarquerEchec, AEtape
<1>8. UneFois'
  BY <1>p, <1>a DEF Invariant, TypeOK, UneFois, Seul, Finaux, StatutsEmail, MarquerEchec, AEtape
<1>. QED  BY <1>1, <1>2, <1>3, <1>4, <1>5, <1>6, <1>7, <1>8 DEF Invariant

LEMMA PasReessayer ==
  ASSUME Invariant, NEW w \in Workers, Reessayer(w)
  PROVE  Invariant'
<1>1. TypeOK'
  BY EssaisAssumption DEF Invariant, TypeOK, Prises, EssaisRestants, Reessayer, Job, EtatsJob,
    EtapesWorker, StatutsEmail, A, LigneDe, AEtape, Passer, EnRequete, Dernier
<1>2. Prises'
  BY DEF Invariant, TypeOK, Prises, Reessayer, A, AEtape, Passer, EtapesWorker, Tenu, Job
<1>3. EssaisRestants'
  BY EssaisAssumption DEF Invariant, TypeOK, EssaisRestants, Prises, Reessayer, A, AEtape,
    Passer, Job, Dernier, EtatsJob, EtapesWorker
<1>4. Recus'
  BY DEF Invariant, TypeOK, Prises, EssaisRestants, Recus, Reessayer, A, LigneDe, AEtape,
    Passer, Job, EtapesWorker
<1>5. EnvoyeSincere'
  BY DEF Invariant, TypeOK, EnvoyeSincere, Recus, EssaisRestants, Prises, Reessayer, A, LigneDe,
    AEtape, Passer, Job, EtapesWorker
<1>6. LignesSuivies'
  BY DEF Invariant, TypeOK, Prises, EssaisRestants, LignesSuivies, APublier, ATraiter, EnCharge,
    Finaux, Reessayer, A, LigneDe, AEtape, Passer, EnRequete, Tenu, Job, EtapesWorker,
    StatutsEmail
<1>7. Seul'
  BY DEF Invariant, TypeOK, Prises, EssaisRestants, Seul, APublier, ATraiter, EnCharge, Finaux,
    Reessayer, A, LigneDe, AEtape, Passer, EnRequete, Tenu, Job, EtapesWorker, StatutsEmail
<1>8. UneFois'
  BY DEF Invariant, TypeOK, Prises, EssaisRestants, UneFois, Seul, APublier, ATraiter, EnCharge,
    Finaux, Reessayer, A, LigneDe, AEtape, Passer, EnRequete, Tenu, Job, EtapesWorker,
    StatutsEmail
<1>. QED  BY <1>1, <1>2, <1>3, <1>4, <1>5, <1>6, <1>7, <1>8 DEF Invariant

LEMMA PasTerminer ==
  ASSUME Invariant, NEW w \in Workers, Terminer(w)
  PROVE  Invariant'
<1>b. /\ workers[w] # Libre /\ workers[w].etape \in {"fini", "definitif"} /\ A(w) \in Jobs
      /\ jobs'[A(w)].etat \in {"termine", "echoue"}
  BY DEF Invariant, TypeOK, Prises, EssaisRestants, Terminer, AEtape, A, Job
<1>c. \A j \in Jobs \ {A(w)} : jobs'[j] = jobs[j]
  BY DEF Invariant, TypeOK, Terminer
<1>d. /\ workers'[w] = Libre
      /\ \A v \in Workers \ {w} : workers'[v] = workers[v] /\ (workers[v] # Libre => A(v) # A(w) /\ A(v) \in Jobs)
  BY <1>b DEF Invariant, TypeOK, Prises, Terminer, A
<1>1. TypeOK'
  BY EssaisAssumption DEF Invariant, TypeOK, Prises, EssaisRestants, Terminer, Job, EtatsJob,
    EtapesWorker, StatutsEmail, A, LigneDe, AEtape, Passer, EnRequete, Dernier
<1>2. Prises'
  BY DEF Invariant, TypeOK, Prises, Terminer, A, AEtape, Passer, EtapesWorker, Tenu, Job
<1>3. EssaisRestants'
  BY EssaisAssumption DEF Invariant, TypeOK, EssaisRestants, Prises, Terminer, A, AEtape,
    Passer, Job, Dernier, EtatsJob, EtapesWorker
<1>4. Recus'
  BY DEF Invariant, TypeOK, Prises, EssaisRestants, Recus, Terminer, A, LigneDe, AEtape, Passer,
    Job, EtapesWorker
<1>5. EnvoyeSincere'
  BY DEF Invariant, TypeOK, EnvoyeSincere, Recus, EssaisRestants, Prises, Terminer, A, LigneDe,
    AEtape, Passer, Job, EtapesWorker
<1>6. LignesSuivies'
  BY DEF Invariant, TypeOK, Prises, EssaisRestants, LignesSuivies, APublier, ATraiter, EnCharge,
    Finaux, Terminer, A, LigneDe, AEtape, Passer, EnRequete, Tenu, Job, EtapesWorker,
    StatutsEmail
<1>7. Seul'
  <2>1. \A j \in Jobs, l \in Lignes : ATraiter(j, l)' => ATraiter(j, l)
    BY <1>b, <1>c, <1>d DEF ATraiter, EnCharge, A
  <2>2. \A r \in Requetes, l \in Lignes : APublier(r, l)' <=> APublier(r, l)
    BY DEF Terminer, APublier
  <2>. QED  BY <2>1, <2>2 DEF Invariant, Seul, Terminer
<1>8. UneFois'
  <2>1. \A v \in Workers : workers'[v].etape \in {"accepte", "a_reecrire"}
           => workers'[v].etape = workers[v].etape /\ LigneDe(v)' = LigneDe(v)
    BY <1>b, <1>c, <1>d DEF LigneDe, A
  <2>2. \A v \in Workers : workers[v].etape = "accepte"
           => workers'[v].etape = "accepte" /\ LigneDe(v)' = LigneDe(v)
    BY <1>b, <1>c, <1>d DEF LigneDe, A
  <2>. QED  BY <2>1, <2>2 DEF Invariant, UneFois, Terminer
<1>. QED  BY <1>1, <1>2, <1>3, <1>4, <1>5, <1>6, <1>7, <1>8 DEF Invariant

LEMMA PasArret ==
  ASSUME Invariant, NEW w \in Workers, Arret(w)
  PROVE  Invariant'
<1>1. TypeOK'
  BY EssaisAssumption DEF Invariant, TypeOK, Prises, EssaisRestants, Arret, Job, EtatsJob,
    EtapesWorker, StatutsEmail, A, LigneDe, AEtape, Passer, EnRequete, Dernier
<1>2. Prises'
  BY DEF Invariant, TypeOK, Prises, Arret, A, AEtape, Passer, EtapesWorker, Tenu, Job
<1>3. EssaisRestants'
  BY EssaisAssumption DEF Invariant, TypeOK, EssaisRestants, Prises, Arret, A, AEtape, Passer,
    Job, Dernier, EtatsJob, EtapesWorker
<1>4. Recus'
  BY DEF Invariant, TypeOK, Prises, EssaisRestants, Recus, Arret, A, LigneDe, AEtape, Passer,
    Job, EtapesWorker
<1>5. EnvoyeSincere'
  BY DEF Invariant, TypeOK, EnvoyeSincere, Recus, EssaisRestants, Prises, Arret, A, LigneDe,
    AEtape, Passer, Job, EtapesWorker
<1>6. LignesSuivies'
  BY DEF Invariant, TypeOK, Prises, EssaisRestants, LignesSuivies, APublier, ATraiter, EnCharge,
    Finaux, Arret, A, LigneDe, AEtape, Passer, EnRequete, Tenu, Job, EtapesWorker, StatutsEmail
<1>7. Seul'
  BY DEF Invariant, TypeOK, Prises, EssaisRestants, Seul, APublier, ATraiter, EnCharge, Finaux,
    Arret, A, LigneDe, AEtape, Passer, EnRequete, Tenu, Job, EtapesWorker, StatutsEmail
<1>8. UneFois'
  BY DEF Invariant, TypeOK, Prises, EssaisRestants, UneFois, Seul, APublier, ATraiter, EnCharge,
    Finaux, Arret, A, LigneDe, AEtape, Passer, EnRequete, Tenu, Job, EtapesWorker, StatutsEmail
<1>. QED  BY <1>1, <1>2, <1>3, <1>4, <1>5, <1>6, <1>7, <1>8 DEF Invariant

LEMMA PasRelancer ==
  ASSUME Invariant, NEW j \in Jobs, Relancer(j)
  PROVE  Invariant'
<1>1. TypeOK'
  BY EssaisAssumption DEF Invariant, TypeOK, Prises, EssaisRestants, Relancer, Job, EtatsJob,
    EtapesWorker, StatutsEmail, A, LigneDe, AEtape, Passer, EnRequete, Dernier
<1>2. Prises'
  BY DEF Invariant, TypeOK, Prises, Relancer, A, AEtape, Passer, EtapesWorker, Tenu, Job
<1>3. EssaisRestants'
  BY EssaisAssumption DEF Invariant, TypeOK, EssaisRestants, Prises, Relancer, A, AEtape,
    Passer, Job, Dernier, EtatsJob, EtapesWorker
<1>4. Recus'
  BY DEF Invariant, TypeOK, Prises, EssaisRestants, Recus, Relancer, A, LigneDe, AEtape, Passer,
    Job, EtapesWorker
<1>5. EnvoyeSincere'
  BY DEF Invariant, TypeOK, EnvoyeSincere, Recus, EssaisRestants, Prises, Relancer, A, LigneDe,
    AEtape, Passer, Job, EtapesWorker
<1>6. LignesSuivies'
  BY DEF Invariant, TypeOK, Prises, EssaisRestants, LignesSuivies, APublier, ATraiter, EnCharge,
    Finaux, Relancer, A, LigneDe, AEtape, Passer, EnRequete, Tenu, Job, EtapesWorker,
    StatutsEmail
<1>7. Seul'
  BY DEF Invariant, TypeOK, Prises, EssaisRestants, Seul, APublier, ATraiter, EnCharge, Finaux,
    Relancer, A, LigneDe, AEtape, Passer, EnRequete, Tenu, Job, EtapesWorker, StatutsEmail
<1>8. UneFois'
  BY DEF Invariant, TypeOK, Prises, EssaisRestants, UneFois, Seul, APublier, ATraiter, EnCharge,
    Finaux, Relancer, A, LigneDe, AEtape, Passer, EnRequete, Tenu, Job, EtapesWorker,
    StatutsEmail
<1>. QED  BY <1>1, <1>2, <1>3, <1>4, <1>5, <1>6, <1>7, <1>8 DEF Invariant

LEMMA PasImmobile ==
  ASSUME Invariant, UNCHANGED emailVars
  PROVE  Invariant'
BY DEF Invariant, emailVars, TypeOK, Prises, EssaisRestants, Recus, EnvoyeSincere, LignesSuivies,
  Seul, UneFois, APublier, ATraiter, EnCharge, A, LigneDe

LEMMA Inductif == Invariant /\ [Next]_emailVars => Invariant'
<1>. SUFFICES ASSUME Invariant, [Next]_emailVars PROVE Invariant'
  OBVIOUS
<1>1. CASE Demander
  BY <1>1, PasCreer, PasRejouer, PasLogSupprime, PasRejouerSupprime, PasRemettreEnAttente,
     PasPublicationPerdue, PasPublier DEF Demander, Poursuivre
<1>2. CASE Traiter
  <2>1. ASSUME NEW w \in Workers, NEW j \in Jobs, Prendre(w, j)
        PROVE  Invariant'
    BY <2>1, PasPrendre
  <2>2. ASSUME NEW w \in Workers, Avancer(w)
        PROVE  Invariant'
    BY <2>2, PasMarquerEnCours, PasEmettre, PasRefuser, PasEnregistrerEnvoi, PasEnregistrerErreur,
       PasReessayer, PasMarquerEchec, PasTerminer DEF Avancer
  <2>3. ASSUME NEW w \in Workers, Arret(w)
        PROVE  Invariant'
    BY <2>3, PasArret
  <2>4. ASSUME NEW j \in Jobs, Relancer(j)
        PROVE  Invariant'
    BY <2>4, PasRelancer
  <2>. QED  BY <1>2, <2>1, <2>2, <2>3, <2>4 DEF Traiter
<1>3. CASE UNCHANGED emailVars
  BY <1>3, PasImmobile
<1>. QED  BY <1>1, <1>2, <1>3 DEF Next

LEMMA InvariantVrai == Spec => []Invariant
BY Initial, Inductif, PTL DEF Spec

-----------------------------------------------------------------------------
(* Rows, jobs, requests and workers hold what the code puts in them.         *)
THEOREM TypeCorrect == Spec => []TypeOK
BY InvariantVrai, PTL DEF Invariant

(* A row for which nothing is under way shows an outcome, unless a fault lost  *)
(* its job: replays, retries and stalled jobs never leave it EN_ATTENTE or     *)
(* EN_COURS (NotificationsService.envoyer, rejouer and traiterJob).           *)
THEOREM IssueToujoursConnue == Spec => []IssueConnue
<1>1. Invariant => IssueConnue
  <2>. SUFFICES ASSUME Invariant, NEW l \in Lignes, Repos(l), l \notin perdus
       PROVE  statut[l] \in Finaux
    BY DEF IssueConnue, Finaux
  <2>1. \A r \in Requetes : ~ APublier(r, l)
    BY DEF Repos, APublier
  <2>2. \A j \in Jobs : ~ ATraiter(j, l)
    BY DEF Repos, ATraiter, EnCharge, JobsDe
  <2>. QED  BY <2>1, <2>2 DEF Invariant, LignesSuivies
<1>. QED  BY <1>1, InvariantVrai, PTL

(* A row says ENVOYE only when SMTP has accepted its mail (traiterJob).       *)
THEOREM EnvoyeToujoursSincere == Spec => []EnvoyeSincere
BY InvariantVrai, PTL DEF Invariant

(* One mail per row, and no ECHEC for a mail that was received, unless a fault *)
(* struck or the row was replayed before its outcome (rejouer refuses ENVOYE    *)
(* alone).                                                                   *)
THEOREM JamaisDeDoublon == Spec => []SansDoublon
<1>1. Invariant => SansDoublon
  <2>. SUFFICES ASSUME Invariant, NEW l \in Lignes \ doublables
       PROVE  recus[l] <= 1 /\ (statut[l] = "ECHEC" => recus[l] = 0)
    BY DEF SansDoublon
  <2>1. recus[l] \in Nat
    BY DEF Invariant, TypeOK
  <2>2. ASSUME statut[l] = "ECHEC", recus[l] > 0
        PROVE  FALSE
    <3>1. PICK w \in Workers : workers[w].etape = "accepte" /\ LigneDe(w) = l
      BY <2>2 DEF Invariant, UneFois
    <3>2. A(w) \in Jobs /\ ATraiter(A(w), l)
      BY <3>1 DEF Invariant, TypeOK, Prises, ATraiter, EnCharge, LigneDe, A
    <3>. QED  BY <2>2, <3>2 DEF Invariant, Seul, Finaux
  <2>. QED  BY <2>1, <2>2 DEF Invariant, UneFois
<1>. QED  BY <1>1, InvariantVrai, PTL
=============================================================================
