------------------------------ MODULE FileEmails ------------------------------
(***************************************************************************)
(* The sending of e-mails: a row of email_log is created by a request      *)
(* (NotificationsService.envoyer, or the password and reminder services),  *)
(* a job naming it is published to the BullMQ queue "emails", a worker     *)
(* takes the job, hands the mail to SMTP and writes the outcome back in    *)
(* the row; an administrator can replay a row.                             *)
(*                                                                         *)
(* No transaction covers the row and the queue, nor the row and SMTP: each *)
(* database, Redis or SMTP access is a step, and a process may stop        *)
(* between any two of them.                                                *)
(***************************************************************************)
EXTENDS Naturals, FiniteSets

CONSTANTS
  Lignes,        \* the rows email_log can hold (a bound of the model)
  Rejouables,    \* those an administrator replays
  Secretes,      \* those whose text needs a secret that is not in the row
  Jobs,          \* the jobs that can be published (a bound of the model)
  Requetes,      \* HTTP requests served at once (a bound of the model)
  Workers,       \* the EmailWorker of each process
  MaxEssais,     \* attempts, an option of every job
  MaxRelances,   \* how often BullMQ restarts a job whose worker is gone
  Incidents      \* the faults that may happen, among ToutesPannes

ToutesPannes == {"redis", "arret", "base", "delai"}

ASSUME LignesAssumption == Secretes \subseteq Lignes /\ Rejouables \subseteq Lignes
ASSUME EssaisAssumption == MaxEssais \in Nat \ {0} /\ MaxRelances \in Nat
ASSUME IncidentsAssumption == Incidents \subseteq ToutesPannes

StatutsEmail == {"ABSENT", "EN_ATTENTE", "EN_COURS", "ENVOYE", "ECHEC", "SUPPRIME"}
EtatsJob == {"libre", "attente", "actif", "termine", "echoue"}

VARIABLES
  statut,       \* email_log.statut
  jobs,         \* the jobs in Redis
  requetes,     \* what each request is about to do
  workers,      \* where each worker is in process(job)
  recus,        \* row -> how many times SMTP has accepted its mail
  sansSecret,   \* the rows of Secretes a mail was sent for without the secret
  perdus,       \* the rows whose job or outcome a fault has lost
  doublables    \* the rows a fault or an early replay may have sent twice

emailVars == <<statut, jobs, requetes, workers, recus, sansSecret, perdus, doublables>>

Job == [etat : EtatsJob, ligne : Lignes, secret : BOOLEAN, essais : 0..MaxEssais,
        relances : 0..MaxRelances, emis : Nat]
JobLibre == [etat |-> "libre"]
EtapesWorker == {"pris", "marque", "accepte", "refuse", "a_reecrire", "leve", "definitif", "fini"}

Libre == [etape |-> "libre"]
EnRequete(etape, l, s) == [etape |-> etape, ligne |-> l, secret |-> s]

Init ==
  /\ statut = [l \in Lignes |-> "ABSENT"]
  /\ jobs = [j \in Jobs |-> JobLibre]
  /\ requetes = [r \in Requetes |-> Libre]
  /\ workers = [w \in Workers |-> Libre]
  /\ recus = [l \in Lignes |-> 0]
  /\ sansSecret = {} /\ perdus = {} /\ doublables = {}

EnVie(j) == jobs[j].etat \in {"attente", "actif"}
JobsDe(l) == {j \in Jobs : jobs[j].etat # "libre" /\ jobs[j].ligne = l}
Tenu(j) == \E w \in Workers : workers[w] # Libre /\ workers[w].job = j

(* A bound of the model: a request only starts when a job is left for it.  *)
Place ==
  Cardinality({r \in Requetes : requetes[r] # Libre})
    < Cardinality({j \in Jobs : jobs[j] = JobLibre})

-----------------------------------------------------------------------------
(* The requests.                                                           *)

(* The row is saved, then the job is published: two accesses. *)
Creer(r, l) ==
  /\ requetes[r] = Libre /\ Place
  /\ statut[l] = "ABSENT"
  /\ statut' = [statut EXCEPT ![l] = "EN_ATTENTE"]
  /\ requetes' = [requetes EXCEPT ![r] = EnRequete("publier", l, l \in Secretes)]
  /\ UNCHANGED <<jobs, workers, recus, sansSecret, perdus, doublables>>

(* A preference of the addressee, or EMAIL_DRY_RUN: a row, and no job. *)
LogSupprime(l) ==
  /\ statut[l] = "ABSENT"
  /\ l \notin Secretes
  /\ statut' = [statut EXCEPT ![l] = "SUPPRIME"]
  /\ UNCHANGED <<jobs, requetes, workers, recus, sansSecret, perdus, doublables>>

(* Fault: no statut is refused, and the row is not written before the job. *)
RejouerSansTest(r, l) ==
  /\ requetes[r] = Libre /\ Place
  /\ l \in Rejouables
  /\ statut[l] # "ABSENT"
  /\ requetes' = [requetes EXCEPT ![r] = EnRequete("publier", l, FALSE)]
  /\ UNCHANGED <<statut, jobs, workers, recus, sansSecret, perdus, doublables>>

(* rejouer reads the row: only ENVOYE is refused. *)
Rejouer(r, l) ==
  /\ requetes[r] = Libre /\ Place
  /\ l \in Rejouables
  /\ statut[l] \notin {"ABSENT", "ENVOYE"}
  /\ requetes' = [requetes EXCEPT ![r] = EnRequete("rejeu", l, FALSE)]
  /\ UNCHANGED <<statut, jobs, workers, recus, sansSecret, perdus, doublables>>

(* The preferences refuse the replay: another row records it (when the     *)
(* bound on the rows leaves one).                                          *)
RejouerSupprime(r) ==
  /\ requetes[r].etape = "rejeu"
  /\ requetes' = [requetes EXCEPT ![r] = Libre]
  /\ \/ \E l \in Lignes \ Secretes :
          statut[l] = "ABSENT" /\ statut' = [statut EXCEPT ![l] = "SUPPRIME"]
     \/ (\A l \in Lignes \ Secretes : statut[l] # "ABSENT") /\ UNCHANGED statut
  /\ UNCHANGED <<jobs, workers, recus, sansSecret, perdus, doublables>>

(* envoyer writes the row back to EN_ATTENTE, whatever it has become. *)
RemettreEnAttente(r) ==
  /\ requetes[r].etape = "rejeu"
  /\ statut' = [statut EXCEPT ![requetes[r].ligne] = "EN_ATTENTE"]
  /\ requetes' = [requetes EXCEPT ![r].etape = "publier"]
  /\ doublables' = IF statut[requetes[r].ligne] \in {"ECHEC", "SUPPRIME"}
                   THEN doublables ELSE doublables \cup {requetes[r].ligne}
  /\ UNCHANGED <<jobs, workers, recus, sansSecret, perdus>>

(* The replay publishes no secret, whatever the first job carried. *)
Publier(r, j) ==
  /\ requetes[r].etape = "publier"
  /\ jobs[j] = JobLibre
  /\ jobs' = [jobs EXCEPT ![j] =
       [etat |-> "attente", ligne |-> requetes[r].ligne, secret |-> requetes[r].secret,
        essais |-> 0, relances |-> 0, emis |-> 0]]
  /\ requetes' = [requetes EXCEPT ![r] = Libre]
  /\ UNCHANGED <<statut, workers, recus, sansSecret, perdus, doublables>>

(* Redis is down, or the process of the request stops. *)
PublicationPerdue(r) ==
  /\ "redis" \in Incidents
  /\ requetes[r].etape = "publier"
  /\ requetes' = [requetes EXCEPT ![r] = Libre]
  /\ perdus' = perdus \cup {requetes[r].ligne}
  /\ UNCHANGED <<statut, jobs, workers, recus, sansSecret, doublables>>

-----------------------------------------------------------------------------
(* The worker: EmailWorker.process around NotificationsService.traiterJob. *)

A(w) == workers[w].job
LigneDe(w) == jobs[A(w)].ligne
AEtape(w, e) == workers[w].etape = e
Passer(w, e) == workers' = [workers EXCEPT ![w].etape = e]

Prendre(w, j) ==
  /\ workers[w] = Libre
  /\ jobs[j].etat = "attente"
  /\ jobs' = [jobs EXCEPT ![j].etat = "actif"]
  /\ workers' = [workers EXCEPT ![w] = [etape |-> "pris", job |-> j]]
  /\ UNCHANGED <<statut, requetes, recus, sansSecret, perdus, doublables>>

MarquerEnCours(w) ==
  /\ AEtape(w, "pris")
  /\ statut' = [statut EXCEPT ![LigneDe(w)] = "EN_COURS"]
  /\ Passer(w, "marque")
  /\ UNCHANGED <<jobs, requetes, recus, sansSecret, perdus, doublables>>

(* SMTP has the mail; it may still answer too late for sendMail ("delai"). *)
Emettre(w) ==
  /\ AEtape(w, "marque")
  /\ recus' = [recus EXCEPT ![LigneDe(w)] = @ + 1]
  /\ jobs' = [jobs EXCEPT ![A(w)].emis = @ + 1]
  /\ sansSecret' = IF LigneDe(w) \in Secretes /\ ~ jobs[A(w)].secret
                   THEN sansSecret \cup {LigneDe(w)} ELSE sansSecret
  /\ \/ Passer(w, "accepte") /\ UNCHANGED doublables
     \/ /\ "delai" \in Incidents
        /\ Passer(w, "refuse")
        /\ doublables' = doublables \cup {LigneDe(w)}
  /\ UNCHANGED <<statut, requetes, perdus>>

(* SMTP refuses the mail, or the template cannot be rendered: the latter   *)
(* is outside the try of traiterJob and saves nothing.                     *)
Refuser(w) ==
  /\ AEtape(w, "marque")
  /\ \E e \in {"refuse", "leve"} : Passer(w, e)
  /\ UNCHANGED <<statut, jobs, requetes, recus, sansSecret, perdus, doublables>>

(* Fault: the outcome is written before the mail is handed to SMTP. *)
EnregistrerAvant(w) ==
  /\ AEtape(w, "marque")
  /\ statut' = [statut EXCEPT ![LigneDe(w)] = "ENVOYE"]
  /\ Passer(w, "fini")
  /\ UNCHANGED <<jobs, requetes, recus, sansSecret, perdus, doublables>>

(* The save of ENVOYE; when it fails ("base") the catch meant for SMTP     *)
(* saves the row again and the job is attempted again.                     *)
EnregistrerEnvoi(w) ==
  /\ AEtape(w, "accepte")
  /\ \/ /\ statut' = [statut EXCEPT ![LigneDe(w)] = "ENVOYE"]
        /\ Passer(w, "fini")
        /\ UNCHANGED doublables
     \/ /\ "base" \in Incidents
        /\ Passer(w, "a_reecrire")
        /\ doublables' = doublables \cup {LigneDe(w)}
        /\ UNCHANGED statut
  /\ UNCHANGED <<jobs, requetes, recus, sansSecret, perdus>>

(* The catch saves the image it holds: EN_COURS after a refusal, ENVOYE    *)
(* when it is the save of ENVOYE that has failed.                          *)
EnregistrerErreur(w) ==
  /\ \/ AEtape(w, "refuse") /\ statut' = [statut EXCEPT ![LigneDe(w)] = "EN_COURS"]
     \/ AEtape(w, "a_reecrire") /\ statut' = [statut EXCEPT ![LigneDe(w)] = "ENVOYE"]
     \/ AEtape(w, "a_reecrire") /\ UNCHANGED statut
  /\ Passer(w, "leve")
  /\ UNCHANGED <<jobs, requetes, recus, sansSecret, perdus, doublables>>

Dernier(j) == jobs[j].essais + 1 >= MaxEssais

(* The attempt failed: BullMQ waits, then gives the job to a worker again. *)
Reessayer(w) ==
  /\ AEtape(w, "leve")
  /\ ~ Dernier(A(w))
  /\ jobs' = [jobs EXCEPT ![A(w)].etat = "attente", ![A(w)].essais = @ + 1]
  /\ workers' = [workers EXCEPT ![w] = Libre]
  /\ UNCHANGED <<statut, requetes, recus, sansSecret, perdus, doublables>>

(* Fault: the row is left as the last attempt has put it. *)
EchecOublie(w) ==
  /\ AEtape(w, "leve")
  /\ Dernier(A(w))
  /\ Passer(w, "definitif")
  /\ UNCHANGED <<statut, jobs, requetes, recus, sansSecret, perdus, doublables>>

(* marquerEchecDefinitif writes ECHEC without looking at the row. *)
MarquerEchec(w) ==
  /\ AEtape(w, "leve")
  /\ Dernier(A(w))
  /\ \/ statut' = [statut EXCEPT ![LigneDe(w)] = "ECHEC"] /\ UNCHANGED perdus
     \/ /\ "base" \in Incidents
        /\ perdus' = perdus \cup {LigneDe(w)}
        /\ UNCHANGED statut
  /\ Passer(w, "definitif")
  /\ UNCHANGED <<jobs, requetes, recus, sansSecret, doublables>>

Terminer(w) ==
  /\ \/ AEtape(w, "fini") /\ jobs' = [jobs EXCEPT ![A(w)].etat = "termine"]
     \/ AEtape(w, "definitif") /\ jobs' = [jobs EXCEPT ![A(w)].etat = "echoue",
                                                       ![A(w)].essais = @ + 1]
  /\ workers' = [workers EXCEPT ![w] = Libre]
  /\ UNCHANGED <<statut, requetes, recus, sansSecret, perdus, doublables>>

(* The process stops: its job stays active in Redis. *)
Arret(w) ==
  /\ "arret" \in Incidents
  /\ workers[w] # Libre
  /\ workers' = [workers EXCEPT ![w] = Libre]
  /\ doublables' = doublables \cup {LigneDe(w)}
  /\ UNCHANGED <<statut, jobs, requetes, recus, sansSecret, perdus>>

(* BullMQ finds an active job that no worker renews: it is given back, or  *)
(* failed without a call of the worker when it was given back before.      *)
Relancer(j) ==
  /\ jobs[j].etat = "actif"
  /\ ~ Tenu(j)
  /\ \/ /\ jobs[j].relances < MaxRelances
        /\ jobs' = [jobs EXCEPT ![j].etat = "attente", ![j].relances = @ + 1]
        /\ UNCHANGED perdus
     \/ /\ jobs[j].relances = MaxRelances
        /\ jobs' = [jobs EXCEPT ![j].etat = "echoue"]
        /\ perdus' = perdus \cup {jobs[j].ligne}
  /\ UNCHANGED <<statut, requetes, workers, recus, sansSecret, doublables>>

-----------------------------------------------------------------------------
Poursuivre(r) ==
  \/ RejouerSupprime(r) \/ RemettreEnAttente(r) \/ PublicationPerdue(r)
  \/ \E j \in Jobs : Publier(r, j)

Demander ==
  \/ \E r \in Requetes, l \in Lignes : Creer(r, l) \/ Rejouer(r, l)
  \/ \E l \in Lignes : LogSupprime(l)
  \/ \E r \in Requetes : Poursuivre(r)

Avancer(w) ==
  \/ MarquerEnCours(w) \/ Emettre(w) \/ Refuser(w) \/ EnregistrerEnvoi(w)
  \/ EnregistrerErreur(w) \/ Reessayer(w) \/ MarquerEchec(w) \/ Terminer(w)

Traiter ==
  \/ \E w \in Workers, j \in Jobs : Prendre(w, j)
  \/ \E w \in Workers : Avancer(w) \/ Arret(w)
  \/ \E j \in Jobs : Relancer(j)

Next == Demander \/ Traiter

Spec == Init /\ [][Next]_emailVars

(* A worker that has a job and a request that has begun go on, a free      *)
(* worker takes a waiting job, and BullMQ looks for stalled jobs           *)
(* periodically.  Nothing is assumed of the arrival of requests, of the    *)
(* answers of SMTP or of the faults.                                       *)
Equite ==
  /\ \A r \in Requetes : WF_emailVars(Poursuivre(r))
  /\ \A w \in Workers : WF_emailVars(Avancer(w))
  /\ \A j \in Jobs : SF_emailVars(\E w \in Workers : Prendre(w, j))
  /\ \A j \in Jobs : WF_emailVars(Relancer(j))

SpecEquitable == Spec /\ Equite

-----------------------------------------------------------------------------
(* Properties.                                                             *)

(* Rows, jobs, requests and workers hold what the code puts in them. *)
TypeOK ==
  /\ statut \in [Lignes -> StatutsEmail]
  /\ jobs \in [Jobs -> {JobLibre} \cup Job]
  /\ requetes \in [Requetes -> {Libre} \cup
       [etape : {"rejeu", "publier"}, ligne : Lignes, secret : BOOLEAN]]
  /\ workers \in [Workers -> {Libre} \cup [etape : EtapesWorker, job : Jobs]]
  /\ recus \in [Lignes -> Nat]
  /\ sansSecret \subseteq Secretes
  /\ perdus \subseteq Lignes /\ doublables \subseteq Lignes

(* When nothing is under way for a row, it shows an outcome: a row is only *)
(* left EN_ATTENTE or EN_COURS by a fault that lost its job, however the   *)
(* replays and the workers wrote over each other in between.               *)
Repos(l) ==
  /\ \A j \in JobsDe(l) : ~ EnVie(j)
  /\ \A r \in Requetes : requetes[r] # Libre => requetes[r].ligne # l
IssueConnue ==
  \A l \in Lignes : Repos(l) /\ l \notin perdus
                      => statut[l] \in {"ABSENT", "ENVOYE", "ECHEC", "SUPPRIME"}

(* A row says ENVOYE only when SMTP has accepted its mail. *)
EnvoyeSincere == \A l \in Lignes : statut[l] = "ENVOYE" => recus[l] > 0

(* Nobody receives a mail twice, and no row says ECHEC for a mail that was *)
(* received, unless a fault struck or the row was replayed too early.      *)
SansDoublon ==
  \A l \in Lignes \ doublables :
    /\ recus[l] <= 1
    /\ statut[l] = "ECHEC" => recus[l] = 0

(* Whatever the faults, one job hands its mail to SMTP at most once per    *)
(* attempt and once more each time BullMQ has restarted it.                *)
EnvoisBornes ==
  \A j \in Jobs : jobs[j] # JobLibre => jobs[j].emis <= MaxEssais + MaxRelances

(* A published job ends with the row in a final statut, whatever the       *)
(* answers of SMTP and the replays, unless a fault has lost the job or the *)
(* outcome.                                                                *)
Aboutit ==
  \A l \in Lignes :
    (\E j \in JobsDe(l) : EnVie(j)) ~> (statut[l] \in {"ENVOYE", "ECHEC"} \/ l \in perdus)

(* A replayed mail carries the temporary password or the link of the first *)
(* one, without which its text is of no use.                               *)
SecretTransmis == sansSecret = {}
=============================================================================
