------------------------------ MODULE Delegations ------------------------------
(* Temporary delegations of perimeters: a delegation and its mirrors in        *)
(* user_perimetres are created, revoked and expired together; two daily jobs   *)
(* (expiration, reminder) run beside the requests. Each start of the           *)
(* application and each cron starts a run of a job, without a lock: the runs   *)
(* of a job may overlap. A handler reads first and saves later the image it    *)
(* has read: repo.save selects the row again and writes every column in which  *)
(* the image differs.                                                          *)
EXTENDS Perimetres, FiniteSets

CONSTANTS Utilisateurs,
          Habilites,        \* active users who hold the permissions to delegate
          RolesDe,          \* [Utilisateurs -> targets of their active roles]
          Affectations,     \* the rows of user_perimetres at the start: n -> row
          Evolutions,       \* <<row of a dimension, new state>> that may happen
          Attributions,     \* <<user, target, origin>> an administrator may give
          Retraits,         \* bound: rows an administrator may take back
          Periodes,         \* [debut, fin] that are asked for
          LignesMax, DelegationsMax,  \* bounds: rows ever inserted
          JourMax, PannesMax,         \* bounds: days, interrupted handlers
          Preavis,          \* days between the reminder and the end: 3
          Requetes,         \* bound: requests in progress together
          Expirations,      \* bound: runs of the expiration job in progress together
          Rappels           \* bound: runs of the reminder in progress together

Taches == Expirations \cup Rappels
Jours == 0..JourMax
SansFin == JourMax + 1
Lignes == [user : Utilisateurs, cible : Cibles, origine : {"PRINCIPAL", "AFFECTATION", "DELEGATION"},
           debut : Jours, fin : Jours \cup {SansFin}, actif : BOOLEAN]

ASSUME BornesDelegations ==
  /\ LignesMax \in Nat /\ DelegationsMax \in Nat /\ JourMax \in Nat /\ PannesMax \in Nat
  /\ Preavis \in Nat /\ IsFiniteSet(Rappels)
  /\ Requetes \cap Taches = {} /\ Expirations \cap Rappels = {}
  /\ Habilites \subseteq Utilisateurs
  /\ RolesDe \in [Utilisateurs -> SUBSET Cibles]
  /\ Evolutions \subseteq (Crs \cup Structures) \X EtatsRow
  /\ Attributions \subseteq Utilisateurs \X Cibles \X {"PRINCIPAL", "AFFECTATION", "DELEGATION"}
  /\ Retraits \subseteq (0..DelegationsMax) \X (1..LignesMax)
  /\ Periodes \subseteq [debut : Jours, fin : Jours]
  /\ \E N \in SUBSET (1..LignesMax) : Affectations \in [N -> {l \in Lignes : l.origine # "DELEGATION"}]

VARIABLES
  jour,         \* today
  delegations,  \* the table: id -> row
  perimetres,   \* user_perimetres: <<delegation or 0, number>> -> row
  etats,        \* the rows of the dimensions
  travaux,      \* request or job -> what it holds
  courriels,    \* delegation -> reminders sent
  croisements,  \* history: delegation -> times a run took it while another held it
  pannes,       \* handlers interrupted
  perimes,      \* history: <<holder, delegation>> whose image a COMMIT made stale
  chevauchees,  \* history: delegations saved from a stale image
  retires       \* history: mirrors an administrator took back

tables == <<delegations, perimetres>>
histoire == <<perimes, chevauchees>>
envois == <<courriels, croisements>>
vars == <<jour, tables, etats, travaux, envois, pannes, histoire, retires>>

Ids == 1..DelegationsMax
Cles == (0..DelegationsMax) \X (1..LignesMax)
Miroirs == Ids \X (1..LignesMax)
Absente == [actif |-> FALSE]
Delegation == [delegant : Utilisateurs, delegataire : Utilisateurs, sources : SUBSET Cles,
               debut : Jours, fin : Jours, actif : BOOLEAN, revoquee : BOOLEAN, rappelee : BOOLEAN]

Libre == [op |-> "aucun"]
EstLecture(f) == DOMAIN f \subseteq Ids /\ f \in [DOMAIN f -> Delegation]
EstTravail(r, t) ==
  CASE t.op = "creer" -> r \in Requetes /\ t \in [op : {"creer"}, image : Delegation]
    [] t.op \in {"revoquer", "expirer"} ->
         /\ IF t.op = "revoquer" THEN r \in Requetes ELSE r \in Expirations
         /\ t = [op |-> t.op, lues |-> t.lues] /\ EstLecture(t.lues)
    [] t.op = "rappeler" ->
         /\ r \in Rappels
         /\ t = [op |-> t.op, restent |-> t.restent, envoye |-> t.envoye, lues |-> t.lues]
         /\ t.restent \subseteq Ids /\ t.envoye \in BOOLEAN /\ EstLecture(t.lues)
    [] OTHER -> t = Libre

Existe(d) == delegations[d] # Absente
Ligne(k) == perimetres[k] # Absente

Init ==
  /\ jour = 0
  /\ delegations = [d \in Ids |-> Absente]
  /\ perimetres = [k \in Cles |->
       IF k[1] = 0 /\ k[2] \in DOMAIN Affectations THEN Affectations[k[2]] ELSE Absente]
  /\ etats = [x \in Crs \cup Structures |-> "actif"]
  /\ travaux = [r \in Requetes \cup Taches |-> Libre]
  /\ courriels = [d \in Ids |-> 0] /\ croisements = [d \in Ids |-> 0]
  /\ pannes = 0
  /\ perimes = {} /\ chevauchees = {} /\ retires = {}

-----------------------------------------------------------------------------
(* Access of a user today.                                                     *)

Couvre(k) == perimetres[k].actif /\ perimetres[k].debut <= jour /\ jour <= perimetres[k].fin
LignesDe(u, S) == {k \in S : Ligne(k) /\ perimetres[k].user = u /\ Couvre(k)}
AccesPar(u, S) ==
  CrAutorises({perimetres[k].cible : k \in LignesDe(u, S)}, RolesDe[u], etats)
Acces(u) == AccesPar(u, Cles)
AccesPropre(u) == AccesPar(u, Cles \ Miroirs)

(* The CRs shown to a user: the rows that are active, without their dates, and *)
(* without the roles.                                                          *)
LignesActives(u) == {k \in Cles : Ligne(k) /\ perimetres[k].user = u /\ perimetres[k].actif}
Liste(u) == CrListes({perimetres[k].cible : k \in LignesActives(u)}, etats)

EnVigueur(d) == delegations[d].actif /\ delegations[d].debut <= jour /\ jour <= delegations[d].fin

(* The unique partial indexes: the dates are not in them.                      *)
Doublon(k, l) ==
  /\ k.user = l.user /\ k.cible = l.cible
  /\ k.cible.type \in {"STRUCTURE", "CR"} => k.origine = l.origine
SansDoublonActif(table) ==
  \A j, k \in Cles :
    table[j] # Absente /\ table[k] # Absente /\ j # k /\ table[j].actif /\ table[k].actif
      => ~ Doublon(table[j], table[k])

-----------------------------------------------------------------------------
(* What a handler has read, and what it saves of it.                           *)

Tenues(r) == IF "lues" \in DOMAIN travaux[r] THEN DOMAIN travaux[r].lues ELSE {}

Commencer(r, travail) ==
  /\ travaux[r] = Libre
  /\ travaux' = [travaux EXCEPT ![r] = travail]
  /\ UNCHANGED <<jour, tables, etats, envois, pannes, histoire, retires>>

Modifiee(op, d) ==
  CASE op = "revoquer" -> [d EXCEPT !.actif = FALSE, !.revoquee = TRUE]
    [] op = "expirer"  -> [d EXCEPT !.actif = FALSE]
    [] op = "rappeler" -> [d EXCEPT !.rappelee = TRUE]

(* The whole image, or the columns of the operation alone when the COMMIT that *)
(* made the image stale came after the SELECT of save.                         *)
Enregistrer(r, d, tout) ==
  /\ ~ tout => <<r, d>> \in perimes
  /\ delegations' = [delegations EXCEPT
       ![d] = Modifiee(travaux[r].op, IF tout THEN travaux[r].lues[d] ELSE @)]
  /\ perimes' = {x \in perimes : x # <<r, d>>} \cup
                {<<s, d>> : s \in {q \in Requetes \cup Taches : q # r /\ d \in Tenues(q)}}
  /\ chevauchees' = IF <<r, d>> \in perimes THEN chevauchees \cup {d} ELSE chevauchees

(* Fault: the mirrors are left as they are.                                    *)
FermerRien(d) == UNCHANGED perimetres

FermerMiroirs(d) ==
  perimetres' = [k \in Cles |->
    IF k[1] = d /\ Ligne(k) THEN [perimetres[k] EXCEPT !.actif = FALSE] ELSE perimetres[k]]

-----------------------------------------------------------------------------
(* DelegationsService.creer: the guards, then delegation and mirrors in one    *)
(* transaction, which a unique index may refuse.                               *)

(* Fault: a perimeter received by delegation is delegated.                     *)
DelegableEnChaine(k, u, debut) ==
  /\ Ligne(k) /\ perimetres[k].user = u /\ perimetres[k].actif
  /\ perimetres[k].debut <= debut /\ debut <= perimetres[k].fin

Delegable(k, u, debut) ==
  /\ Ligne(k) /\ perimetres[k].user = u /\ perimetres[k].actif
  /\ perimetres[k].debut <= debut /\ debut <= perimetres[k].fin
  /\ perimetres[k].origine # "DELEGATION"

DemanderCreation(r, u, v, S, p) ==
  /\ u # v /\ u \in Habilites
  /\ p.debut <= p.fin
  /\ S # {} /\ \A k \in S : Delegable(k, u, p.debut)
  /\ Commencer(r, [op |-> "creer",
       image |-> [delegant |-> u, delegataire |-> v, sources |-> S, debut |-> p.debut, fin |-> p.fin,
                  actif |-> TRUE, revoquee |-> FALSE, rappelee |-> FALSE]])

Creer(r) ==
  /\ travaux[r].op = "creer"
  /\ \E d \in Ids :
       LET x == travaux[r].image
       IN  /\ ~ Existe(d) /\ \A e \in 1..(d - 1) : Existe(e)
           /\ delegations' = [delegations EXCEPT ![d] = x]
           /\ perimetres' = [k \in Cles |->
                IF k[1] = d /\ \E s \in x.sources : s[2] = k[2]
                THEN [user |-> x.delegataire, origine |-> "DELEGATION",
                      cible |-> perimetres[CHOOSE s \in x.sources : s[2] = k[2]].cible,
                      debut |-> x.debut, fin |-> x.fin, actif |-> TRUE]
                ELSE perimetres[k]]
  /\ SansDoublonActif(perimetres')
  /\ travaux' = [travaux EXCEPT ![r] = Libre]
  /\ UNCHANGED <<jour, etats, envois, pannes, histoire, retires>>

-----------------------------------------------------------------------------
(* DelegationsService.revoquer, by the delegator or an administrator.          *)

DemanderRevocation(r, d) ==
  /\ Existe(d) /\ delegations[d].actif
  /\ Commencer(r, [op |-> "revoquer", lues |-> [x \in {d} |-> delegations[x]]])

Revoquer(r, d, tout) ==
  /\ travaux[r].op = "revoquer" /\ d \in Tenues(r)
  /\ Enregistrer(r, d, tout)
  /\ FermerMiroirs(d)
  /\ travaux' = [travaux EXCEPT ![r] = Libre]
  /\ UNCHANGED <<jour, etats, envois, pannes, retires>>

-----------------------------------------------------------------------------
(* DelegationsService.expirerAutomatiquement, every night and at start: all    *)
(* the overdue rows are read, then each has its transaction.                   *)

(* Fault: a day late.                                                          *)
EchuesEnRetard == {d \in Ids : Existe(d) /\ delegations[d].actif /\ delegations[d].fin < jour - 1}

Echues == {d \in Ids : Existe(d) /\ delegations[d].actif /\ delegations[d].fin < jour}

LireExpirations(r) ==
  /\ r \in Expirations /\ Echues # {}
  /\ Commencer(r, [op |-> "expirer", lues |-> [d \in Echues |-> delegations[d]]])

Expirer(r, d, tout) ==
  /\ r \in Expirations /\ d \in Tenues(r)
  /\ Enregistrer(r, d, tout)
  /\ FermerMiroirs(d)
  /\ LET reste == Tenues(r) \ {d}
         lues == travaux[r].lues
     IN  travaux' = [travaux EXCEPT ![r] =
           IF reste = {} THEN Libre ELSE [op |-> "expirer", lues |-> [x \in reste |-> lues[x]]]]
  /\ UNCHANGED <<jour, etats, envois, pannes, retires>>

-----------------------------------------------------------------------------
(* DelegationsRappelService.notifierJ3, every morning and at every start: the  *)
(* ids, then for each a second read, the e-mails, and the mark outside any     *)
(* transaction. No lock keeps two runs apart.                                  *)

(* Fault: the delegations already reminded are taken again.                    *)
ARappelerToujours(d) == delegations[d].actif

ARappeler(d) == delegations[d].actif /\ ~ delegations[d].rappelee

LireRappels(r) ==
  LET ids == {d \in Ids : Existe(d) /\ ARappeler(d) /\ delegations[d].fin = jour + Preavis}
  IN  /\ r \in Rappels /\ ids # {}
      /\ Commencer(r, [op |-> "rappeler", restent |-> ids, envoye |-> FALSE,
                       lues |-> [d \in {} |-> Absente]])

Suite(restent) ==
  IF restent = {} THEN Libre
  ELSE [op |-> "rappeler", restent |-> restent, envoye |-> FALSE, lues |-> [d \in {} |-> Absente]]

(* The runs that have read the delegation as one to remind.                    *)
Preneurs(d) == {r \in Rappels : d \in Tenues(r)}

PrendreRappel(r, d) ==
  LET t == travaux[r]
  IN  /\ r \in Rappels /\ t # Libre /\ Tenues(r) = {} /\ d \in t.restent
      /\ travaux' = [travaux EXCEPT ![r] =
           IF ARappeler(d)
           THEN [t EXCEPT !.restent = @ \ {d}, !.lues = [x \in {d} |-> delegations[x]]]
           ELSE Suite(t.restent \ {d})]
      /\ croisements' = IF ARappeler(d) /\ Preneurs(d) # {}
                        THEN [croisements EXCEPT ![d] = @ + 1] ELSE croisements
  /\ UNCHANGED <<jour, tables, etats, courriels, pannes, histoire, retires>>

EnvoyerRappel(r, d) ==
  /\ r \in Rappels /\ d \in Tenues(r) /\ ~ travaux[r].envoye
  /\ courriels' = [courriels EXCEPT ![d] = @ + 1]
  /\ travaux' = [travaux EXCEPT ![r].envoye = TRUE]
  /\ UNCHANGED <<jour, tables, etats, croisements, pannes, histoire, retires>>

MarquerRappel(r, d, tout) ==
  /\ r \in Rappels /\ d \in Tenues(r) /\ travaux[r].envoye
  /\ Enregistrer(r, d, tout)
  /\ travaux' = [travaux EXCEPT ![r] = Suite(travaux[r].restent)]
  /\ UNCHANGED <<jour, perimetres, etats, envois, pannes, retires>>

-----------------------------------------------------------------------------
(* UserPerimetreService.creer and retirer, the dimensions, time and failures.  *)

Affecter(u, cible, origine, n) ==
  /\ \A x \in cible.ids : etats[x] = "actif" \/ (cible.type = "STRUCTURE" /\ etats[x] # "clos")
  /\ ~ Ligne(<<0, n>>) /\ \A m \in 1..(n - 1) : Ligne(<<0, m>>)
  /\ perimetres' = [perimetres EXCEPT ![<<0, n>>] =
       [user |-> u, cible |-> cible, origine |-> origine, debut |-> jour, fin |-> SansFin,
        actif |-> TRUE]]
  /\ SansDoublonActif(perimetres')
  /\ UNCHANGED <<jour, delegations, etats, travaux, envois, pannes, histoire, retires>>

(* The image written differs from the row read by actif alone: one step.       *)
Retirer(k) ==
  /\ Ligne(k) /\ perimetres[k].actif
  /\ perimetres' = [perimetres EXCEPT ![k].actif = FALSE]
  /\ retires' = retires \cup {k}
  /\ UNCHANGED <<jour, delegations, etats, travaux, envois, pannes, histoire>>

(* A revision closes the row: its key gets another, which no perimeter names.  *)
Evoluer(x, e) ==
  /\ etats[x] # "clos"
  /\ etats' = [etats EXCEPT ![x] = e]
  /\ UNCHANGED <<jour, tables, travaux, envois, pannes, histoire, retires>>

JourSuivant ==
  /\ jour < JourMax
  /\ jour' = jour + 1
  /\ UNCHANGED <<tables, etats, travaux, envois, pannes, histoire, retires>>

(* A statement fails or the process dies: the transaction is undone, what was  *)
(* sent is sent.                                                               *)
Interrompre(r) ==
  /\ travaux[r] # Libre /\ pannes < PannesMax
  /\ travaux' = [travaux EXCEPT ![r] = Libre]
  /\ pannes' = pannes + 1
  /\ perimes' = {x \in perimes : x[1] # r}
  /\ UNCHANGED <<jour, tables, etats, envois, chevauchees, retires>>

(* The creation is refused: by a unique index, or because its audit row is.    *)
Refuser(r) ==
  /\ travaux[r].op = "creer"
  /\ travaux' = [travaux EXCEPT ![r] = Libre]
  /\ UNCHANGED <<jour, tables, etats, envois, pannes, histoire, retires>>

TacheExpiration(r) ==
  LireExpirations(r) \/ \E d \in Ids, tout \in BOOLEAN : Expirer(r, d, tout)

TacheRappel(r) ==
  \/ LireRappels(r)
  \/ \E d \in Ids : \/ PrendreRappel(r, d) \/ EnvoyerRappel(r, d)
                    \/ \E tout \in BOOLEAN : MarquerRappel(r, d, tout)

AdministrerPerimetres ==
  \/ \E a \in Attributions, n \in 1..LignesMax : Affecter(a[1], a[2], a[3], n)
  \/ \E k \in Retraits : Retirer(k)

Next ==
  \/ JourSuivant
  \/ \E r \in Taches : TacheExpiration(r) \/ TacheRappel(r)
  \/ \E r \in Requetes :
       \/ \E u, v \in Utilisateurs, S \in SUBSET Cles, p \in Periodes :
            DemanderCreation(r, u, v, S, p)
       \/ Creer(r) \/ Refuser(r)
       \/ \E d \in Ids : DemanderRevocation(r, d) \/ \E tout \in BOOLEAN : Revoquer(r, d, tout)
  \/ \E r \in Requetes \cup Taches : Interrompre(r)
  \/ AdministrerPerimetres
  \/ \E x \in Evolutions : Evoluer(x[1], x[2])

(* The scheduler starts the job again every day, and at every start; a run     *)
(* that is in progress goes on.                                                *)
Spec == Init /\ [][Next]_vars /\ \A r \in Expirations : WF_vars(TacheExpiration(r))
-----------------------------------------------------------------------------
(* Properties.                                                                 *)

(* The rows hold values of their columns, the handlers what they have read.    *)
TypeOK ==
  /\ jour \in Jours /\ pannes \in 0..PannesMax
  /\ delegations \in [Ids -> Delegation \cup {Absente}]
  /\ perimetres \in [Cles -> Lignes \cup {Absente}]
  /\ etats \in [Crs \cup Structures -> EtatsRow]
  /\ DOMAIN travaux = Requetes \cup Taches /\ \A r \in DOMAIN travaux : EstTravail(r, travaux[r])
  /\ courriels \in [Ids -> Nat] /\ croisements \in [Ids -> Nat]
  /\ perimes \subseteq (Requetes \cup Taches) \X Ids
  /\ chevauchees \subseteq Ids /\ retires \subseteq Cles

(* Mirrors and delegation go together, whatever overlaps: a mirror is active   *)
(* only if its delegation is, and an active delegation has all its mirrors,    *)
(* save those an administrator took back and save when it was written from a   *)
(* stale image (a reminder in progress reactivates what was just revoked).     *)
MiroirsSuivent ==
  \A d \in Ids, n \in 1..LignesMax :
    /\ perimetres[<<d, n>>].actif => delegations[d].actif
    /\ delegations[d].actif /\ Ligne(<<d, n>>) /\ d \notin chevauchees
         => perimetres[<<d, n>>].actif \/ <<d, n>> \in retires

(* Whatever a user has access to comes from the rows and roles of that user,   *)
(* or from a delegation in force, of a perimeter that somebody else held       *)
(* without delegation: no access survives the end of a delegation, and no      *)
(* chain of delegations carries it further. The listing of the CRs, which      *)
(* tests no date, shows nothing by a delegation that is closed.                *)
ParDelegation(u, c) ==
  \E d \in Ids :
    /\ Existe(d) /\ EnVigueur(d) /\ delegations[d].delegataire = u
    /\ \E k \in delegations[d].sources :
         /\ perimetres[k].user = delegations[d].delegant
         /\ k \notin Miroirs
         /\ c \in CrAutorises({perimetres[k].cible}, RolesDe[u], etats)
AccesJustifie ==
  \A u \in Utilisateurs :
    /\ \A c \in Acces(u) : c \in AccesPropre(u) \/ ParDelegation(u, c)
    /\ \A c \in Liste(u) : \E k \in LignesActives(u) :
         /\ c \in Listables(perimetres[k].cible, etats)
         /\ k \in Miroirs => /\ delegations[k[1]].actif /\ delegations[k[1]].delegataire = u
                            /\ <<0, k[2]>> \in delegations[k[1]].sources

(* A delegation is reminded once, however often the job runs and whatever is   *)
(* saved beside it. The only causes of another reminder are a run interrupted  *)
(* between the e-mails and the mark, and a run that read the delegation while  *)
(* another one held it, not yet marked.                                        *)
UnRappel == \A d \in Ids : courriels[d] <= 1 + pannes + croisements[d]

(* A delegation past its end is closed in the end, and its mirrors with it.    *)
EcheanceTenue ==
  \A d \in Ids : (Existe(d) /\ delegations[d].fin < jour) ~>
    (~ delegations[d].actif /\ \A n \in 1..LignesMax : ~ perimetres[<<d, n>>].actif)
=============================================================================
