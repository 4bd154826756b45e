------------------------------- MODULE Reforecast -------------------------------
(* Quarterly reforecasts: `lancer` copies the validated actuals of the months  *)
(* already closed, extrapolates the others, and replaces the active           *)
(* reforecasts of the same key. Once inserted, a reforecast is a version like  *)
(* any other: both workflows, the edition and the deletion of versions and    *)
(* every writer of lines reach it, and only the global workflow asks whether  *)
(* it is OBSOLETE. The actuals are taken from their register, which Realise   *)
(* implements. A handler reads and tests, then writes in a transaction at      *)
(* READ COMMITTED: each statement sees the last COMMIT, what an open           *)
(* transaction has updated makes other writers wait, and a repo.save writes    *)
(* the image read before.                                                  *)
EXTENDS RegistreRealise, Integers, FiniteSets

CONSTANTS LignesBudget,    \* lines of a budget: [cle, axe], axe = product and segment
          MontantsBase,    \* their amounts in the published budget, version 0
          MontantsSaisis,  \* amounts entered by hand in a reforecast
          VersionsMax,     \* bound: reforecasts ever inserted
          Interventions,   \* bound: <<operation, reforecast>>: suivre, modifier, saisir, supprimer
          Requetes         \* bound: requests in progress together

ASSUME BornesReforecast ==
  /\ VersionsMax \in Nat
  /\ \A c \in Cles \cup {l.cle : l \in LignesBudget} : c.mois \in 1..12
  /\ Montants \subseteq Nat /\ MontantsBase \in [LignesBudget -> Nat]
  /\ MontantsSaisis \subseteq Nat

VARIABLES
  versions,    \* the reforecasts of dim_version, by id
  lignes,      \* fait_budget: id of a reforecast -> its lines
  suivies,     \* reforecasts with rows of the workflow by CR or of its snapshot
  suivante,    \* the next id of the sequence
  travaux,     \* request -> what its handler holds
  croises,     \* history: requests in progress that a COMMIT has overlapped
  chevauchees, \* history: reforecasts written by such a request
  saisies      \* history: <<reforecast, line>> written after the launch

propres == <<versions, lignes, suivies, suivante, travaux, croises, chevauchees, saisies>>
vars == <<etat, retouchees, propres>>

Ids == 1..VersionsMax
Base == 0  \* as a remplacante: NULL
Methodes == {"BUDGET_INITIAL", "MANUELLE", "MOYENNE_TRIMESTRE"}
Statuts == {"ouvert", "soumis", "pre_valide", "soumis_comite", "valide", "gele"}
Types == {"reforecast", "autre"}
Versions == [source : Ids \cup {Base}, trimestre : 1..4, statut : Statuts, type : Types,
             pub : {"ACTIVE", "OBSOLETE"}, remplacante : Ids \cup {Base}]
Tables == UNION {[D -> Nat] : D \in SUBSET LignesBudget}
SansLigne == [l \in {} |-> 0]

(* What a DELETE leaves is a history: the key of the row.                   *)
Supprimees == [source : Ids \cup {Base}, trimestre : 1..4, statut : {"supprimee"}, pub : {"SUPPRIMEE"}]
Absente == [pub |-> "ABSENTE", statut |-> "absente"]

Globales == {"soumettre", "valider", "rejeter", "publier"}
ParComite == {"soumettreComite", "approuverComite"}
ParCr == {"basculer", "rouvrir", "demanderRevision"}
Images == Globales \cup ParComite \cup ParCr \cup {"modifier"}
Simples == {"supprimer", "saisir"}

Libre == [op |-> "aucun"]
Travaux ==
       {Libre}
  \cup [op : {"lu", "consolide"}, source : Ids \cup {Base}, trimestre : 1..4,
        anciens : SUBSET Ids, id : Ids \cup {Base}, marquees : SUBSET Ids, lignes : Tables]
  \cup [op : Images, version : Ids, image : Versions]
  \cup [op : Simples, version : Ids]

Init ==
  /\ InitRegistre
  /\ versions = [v \in Ids |-> Absente]
  /\ lignes = [v \in Ids |-> SansLigne]
  /\ suivies = {}
  /\ suivante = 1
  /\ travaux = [r \in Requetes |-> Libre]
  /\ croises = {}
  /\ chevauchees = {}
  /\ saisies = {}

-----------------------------------------------------------------------------
(* Reading.                                                                *)

Existe(v) == versions[v].pub \in {"ACTIVE", "OBSOLETE"}
Gelees == {Base} \cup {v \in Ids : versions[v].statut = "gele"}
LignesDe(s) == IF s = Base THEN MontantsBase ELSE lignes[s]
MemeCle(v, w) == versions[v].source = versions[w].source /\ versions[v].trimestre = versions[w].trimestre

(* Fault: only the drafts are replaced.                                    *)
ActivesOuvertes(s, t) ==
  {v \in Ids : /\ versions[v].pub = "ACTIVE" /\ versions[v].statut = "ouvert"
               /\ versions[v].type = "reforecast"
               /\ versions[v].source = s /\ versions[v].trimestre = t}

(* Fault: the source is left out of the key.                               *)
ActivesDuTrimestre(s, t) ==
  {v \in Ids : /\ versions[v].pub = "ACTIVE" /\ versions[v].type = "reforecast"
               /\ versions[v].trimestre = t}

Actives(s, t) ==
  {v \in Ids : /\ versions[v].pub = "ACTIVE" /\ versions[v].type = "reforecast"
               /\ versions[v].source = s /\ versions[v].trimestre = t}

Mois(t) == {3 * t - 2, 3 * t - 1, 3 * t}
Consolidee(l, t) == l.cle.mois <= 3 * t

(* COALESCE(fr.montant, 0) of the rows at VALIDE.                          *)
Realise(c) == IF c \in Cles /\ etat[c].valide THEN etat[c].montant ELSE 0

(* SUM over the three months of the quarter / 3.0, of the validated rows.   *)
Moyenne(c, t) ==
  (  Realise([c EXCEPT !.mois = 3 * t - 2]) + Realise([c EXCEPT !.mois = 3 * t - 1])
   + Realise([c EXCEPT !.mois = 3 * t])) \div 3

(* The amount of a month to come, by method.                               *)
Extrapolation(l, s, t, methode) ==
  CASE methode = "BUDGET_INITIAL"    -> LignesDe(s)[l]
    [] methode = "MANUELLE"          -> 0
    [] methode = "MOYENNE_TRIMESTRE" -> Moyenne(l.cle, t)

(* A row updated by a transaction that has not ended.                       *)
Marquee(v) == \E r \in Requetes : travaux[r].op = "consolide" /\ v \in travaux[r].marquees

Commencer(r, travail) ==
  /\ travaux[r] = Libre
  /\ travaux' = [travaux EXCEPT ![r] = travail]
  /\ UNCHANGED <<etat, retouchees, versions, lignes, suivies, suivante, croises, chevauchees, saisies>>

(* A COMMIT on dim_version overlaps whatever else is in progress.           *)
Terminer(r, ecrites) ==
  /\ travaux' = [travaux EXCEPT ![r] = Libre]
  /\ croises' = {q \in Requetes \ {r} : travaux[q] # Libre}
  /\ chevauchees' = IF r \in croises THEN chevauchees \cup ecrites ELSE chevauchees
  /\ UNCHANGED <<etat, retouchees, suivies, suivante, saisies>>

-----------------------------------------------------------------------------
(* ReforecastService.lancer.                                               *)

(* The guards, then the active reforecasts of the key.                     *)
Lancer(r, s, t) ==
  /\ s \in Gelees
  /\ \E c \in Cles : etat[c].valide /\ c.mois \in Mois(t)
  /\ Commencer(r, [op |-> "lu", source |-> s, trimestre |-> t,
                   anciens |-> Actives(s, t), id |-> Base, marquees |-> {},
                   lignes |-> SansLigne])

(* INSERT of the version, marking of the former ones, and the lines of the  *)
(* closed months: every line of the source takes the amount of its key.    *)
Consolider(r) ==
  /\ travaux[r].op = "lu" /\ suivante \in Ids
  /\ travaux[r].source # Base => Existe(travaux[r].source)
  /\ \A v \in travaux[r].anciens : ~ Marquee(v)
  /\ travaux' = [travaux EXCEPT
       ![r].op = "consolide",
       ![r].id = suivante,
       ![r].marquees = {v \in @ \cup travaux[r].anciens : versions[v].pub = "ACTIVE"},
       ![r].lignes = [l \in {k \in DOMAIN LignesDe(travaux[r].source) :
                                Consolidee(k, travaux[r].trimestre)} |-> Realise(l.cle)]]
  /\ suivante' = suivante + 1
  /\ UNCHANGED <<etat, retouchees, versions, lignes, suivies, croises, chevauchees, saisies>>

(* The row of the launch and those it has marked.                           *)
Publication(r) ==
  LET w == travaux[r]
  IN  [v \in Ids |->
        IF v = w.id
        THEN [source |-> w.source, trimestre |-> w.trimestre, statut |-> "ouvert",
              type |-> "reforecast", pub |-> "ACTIVE", remplacante |-> Base]
        ELSE IF v \in w.marquees
        THEN [versions[v] EXCEPT !.pub = "OBSOLETE", !.remplacante = w.id]
        ELSE versions[v]]

(* Its lines: those of the closed months, and the months to come of a source *)
(* that is read again.                                                     *)
LignesLancees(r, methode) ==
  LET w == travaux[r]
      futures == {l \in DOMAIN LignesDe(w.source) : ~ Consolidee(l, w.trimestre)}
  IN  [l \in DOMAIN w.lignes \cup futures |->
        IF l \in DOMAIN w.lignes THEN w.lignes[l]
        ELSE Extrapolation(l, w.source, w.trimestre, methode)]

(* The lines of the months to come, then COMMIT. The method is an argument   *)
(* of lancer that nothing reads before this.                               *)
Extrapoler(r, methode) ==
  /\ travaux[r].op = "consolide"
  /\ versions' = Publication(r)
  /\ lignes' = [lignes EXCEPT ![travaux[r].id] = LignesLancees(r, methode)]
  /\ Terminer(r, {travaux[r].id} \cup travaux[r].marquees)

-----------------------------------------------------------------------------
(* The handlers of a version, whatever its type.                            *)

Requis == [soumettre |-> "ouvert", valider |-> "soumis", rejeter |-> "soumis", publier |-> "valide",
           soumettreComite |-> "pre_valide", approuverComite |-> "soumis_comite",
           basculer |-> "ouvert", rouvrir |-> "pre_valide", demanderRevision |-> "soumis_comite"]
Atteint == [soumettre |-> "soumis", valider |-> "valide", rejeter |-> "ouvert", publier |-> "gele",
            soumettreComite |-> "soumis_comite", approuverComite |-> "valide",
            basculer |-> "pre_valide", rouvrir |-> "ouvert", demanderRevision |-> "ouvert"]

LirePourAvancer(r, op, v) ==
  /\ versions[v].statut = Requis[op]
  /\ Commencer(r, [op |-> op, version |-> v,
                   image |-> [versions[v] EXCEPT !.statut = Atteint[op]]])

(* Fault: assertReforecastNonObsolete is forgotten.                        *)
LireVersionSansGarde(r, op, v) ==
  /\ op = "soumettre" => lignes[v] # SansLigne
  /\ LirePourAvancer(r, op, v)

(* VersionWorkflowService.                                                 *)
LireVersion(r, op, v) ==
  /\ ~ (versions[v].pub = "OBSOLETE" /\ versions[v].type = "reforecast")
  /\ op = "soumettre" => lignes[v] # SansLigne
  /\ LirePourAvancer(r, op, v)

(* CrWorkflowService: what its CRs must have done is left free.             *)
LireVersionCr(r, op, v) ==
  /\ v \in suivies
  /\ LirePourAvancer(r, op, v)

(* VersionService.update: the type is the column that matters here.         *)
LirePourModifier(r, v, type) ==
  /\ <<"modifier", v>> \in Interventions
  /\ versions[v].statut = "ouvert"
  /\ type \in {versions[v].type, "autre"}
  /\ Commencer(r, [op |-> "modifier", version |-> v,
                   image |-> [versions[v] EXCEPT !.type = type]])

(* VersionService.softDelete, and the writers of lines.                     *)
LireBrouillon(r, op, v) ==
  /\ <<op, v>> \in Interventions
  /\ versions[v].statut = "ouvert"
  /\ Commencer(r, [op |-> op, version |-> v])

(* The row once written: the whole image, or the columns the handler changes. *)
Sauvee(r, tout) ==
  LET image == travaux[r].image
      ligne == versions[travaux[r].version]
  IN  CASE tout                                     -> image
        [] ~ tout /\ travaux[r].op = "modifier"     -> [ligne EXCEPT !.type = image.type]
        [] ~ tout /\ travaux[r].op # "modifier"     -> [ligne EXCEPT !.statut = image.statut]

(* repo.save selects the row again and writes the columns in which the image *)
(* differs: the whole image, or what the handler changes alone when the      *)
(* COMMIT that made it stale came after that SELECT. The workflow by CR       *)
(* updates the statut alone when it moves the version. A row deleted since    *)
(* cannot be inserted again, nor point to one deleted since.                *)
Enregistrer(r, tout) ==
  /\ travaux[r].op \in Images
  /\ ~ tout => r \in croises \/ travaux[r].op \in ParCr
  /\ tout => travaux[r].op \notin ParCr
  /\ LET v == travaux[r].version
         ecrite == Sauvee(r, tout)
     IN  /\ Existe(v) /\ ~ Marquee(v)
         /\ ecrite.remplacante # Base => Existe(ecrite.remplacante)
         /\ versions' = [versions EXCEPT ![v] = ecrite]
         /\ Terminer(r, {v})
  /\ UNCHANGED lignes

(* DELETE, refused while anything but a remplacante refers to the row: ON     *)
(* DELETE SET NULL empties that one.                                       *)
Supprimer(r) ==
  /\ travaux[r].op = "supprimer"
  /\ LET v == travaux[r].version
     IN  /\ Existe(v) /\ ~ Marquee(v)
         /\ lignes[v] = SansLigne /\ v \notin suivies
         /\ \A w \in Ids : Existe(w) => versions[w].source # v
         /\ \A q \in Requetes : travaux[q].op = "consolide" => travaux[q].source # v
         /\ versions' = [w \in Ids |->
              IF w = v THEN [source |-> versions[v].source, trimestre |-> versions[v].trimestre,
                             statut |-> "supprimee", pub |-> "SUPPRIMEE"]
              ELSE IF Existe(w) /\ versions[w].remplacante = v
              THEN [versions[w] EXCEPT !.remplacante = Base]
              ELSE versions[w]]
         /\ Terminer(r, {v})
  /\ UNCHANGED lignes

-----------------------------------------------------------------------------
(* The writers of lines: they test the statut of the version before their    *)
(* transaction. A call on several lines does what a series of these does.   *)

Ecrire(r, l, table) ==
  /\ travaux[r].op = "saisir"
  /\ Existe(travaux[r].version)
  /\ lignes' = [lignes EXCEPT ![travaux[r].version] = table]
  /\ saisies' = saisies \cup {<<travaux[r].version, l>>}
  /\ travaux' = [travaux EXCEPT ![r] = Libre]
  /\ croises' = croises \ {r}
  /\ UNCHANGED <<etat, retouchees, versions, suivante, chevauchees>>

(* The grid and the import give the CR a row of statut, FaitBudgetService    *)
(* does not.                                                               *)
Saisir(r, l, m, suivie) ==
  LET v == travaux[r].version
  IN  /\ Ecrire(r, l, [k \in DOMAIN lignes[v] \cup {l} |-> IF k = l THEN m ELSE lignes[v][k]])
      /\ suivie => <<"suivre", v>> \in Interventions
      /\ suivies' = IF suivie THEN suivies \cup {v} ELSE suivies

Retirer(r, l, suivie) ==
  LET v == travaux[r].version
  IN  /\ Ecrire(r, l, [k \in DOMAIN lignes[v] \ {l} |-> lignes[v][k]])
      /\ suivie => <<"suivre", v>> \in Interventions
      /\ suivies' = IF suivie THEN suivies \cup {v} ELSE suivies

(* The first row of the workflow by CR, or of its snapshot: no test on v.    *)
Suivre(v) ==
  /\ <<"suivre", v>> \in Interventions
  /\ Existe(v)
  /\ suivies' = suivies \cup {v}
  /\ UNCHANGED <<etat, retouchees, versions, lignes, suivante, travaux, croises, chevauchees, saisies>>

-----------------------------------------------------------------------------
Annuler(r) ==
  /\ travaux[r] # Libre
  /\ travaux' = [travaux EXCEPT ![r] = Libre]
  /\ croises' = croises \ {r}
  /\ UNCHANGED <<etat, retouchees, versions, lignes, suivies, suivante, chevauchees, saisies>>

(* A regular COMMIT on the actuals (the irregular ones are those of requests  *)
(* that overlapped, which Realise counts). One that touches several keys      *)
(* reaches what a series of these does.                                    *)
Actualiser ==
  /\ \E c \in Cles, e \in Etats : Commit([etat EXCEPT ![c] = e], {})
  /\ croises' = {q \in Requetes : travaux[q] # Libre}
  /\ UNCHANGED <<versions, lignes, suivies, suivante, travaux, chevauchees, saisies>>

Next ==
  \/ Actualiser
  \/ \E v \in Ids : Suivre(v)
  \/ \E r \in Requetes :
       \/ \E s \in Ids \cup {Base}, t \in 1..4 : Lancer(r, s, t)
       \/ Consolider(r)
       \/ \E methode \in Methodes : Extrapoler(r, methode)
       \/ \E op \in Globales, v \in Ids : LireVersion(r, op, v)
       \/ \E op \in ParComite \cup ParCr, v \in Ids : LireVersionCr(r, op, v)
       \/ \E v \in Ids, type \in Types : LirePourModifier(r, v, type)
       \/ \E op \in Simples, v \in Ids : LireBrouillon(r, op, v)
       \/ \E tout \in BOOLEAN : Enregistrer(r, tout)
       \/ Supprimer(r)
       \/ \E l \in LignesBudget, m \in MontantsSaisis, suivie \in BOOLEAN : Saisir(r, l, m, suivie)
       \/ \E l \in LignesBudget, suivie \in BOOLEAN : Retirer(r, l, suivie)
       \/ Annuler(r)

Spec == Init /\ [][Next]_vars

-----------------------------------------------------------------------------
(* Properties.                                                             *)

(* The rows and what the handlers hold are of their types.                 *)
TypeOK ==
  /\ etat \in [Cles -> Etats] /\ retouchees \subseteq Cles
  /\ versions \in [Ids -> Versions \cup Supprimees \cup {Absente}]
  /\ lignes \in [Ids -> Tables] /\ suivies \subseteq Ids
  /\ suivante \in 1..(VersionsMax + 1)
  /\ travaux \in [Requetes -> Travaux]
  /\ croises \subseteq Requetes /\ chevauchees \subseteq Ids
  /\ saisies \subseteq Ids \X LignesBudget

EstActif(v) == versions[v].pub = "ACTIVE" /\ versions[v].type = "reforecast"

(* One reforecast is active for a source and a quarter, unless one of two    *)
(* was written by a request that a COMMIT overlapped: nothing in the        *)
(* database refuses the second.                                             *)
UnSeulActif ==
  \A v, w \in Ids :
    v # w /\ EstActif(v) /\ EstActif(w) /\ MemeCle(v, w) => {v, w} \cap chevauchees # {}

(* Whatever overlaps, only a deletion takes its replacement from an OBSOLETE  *)
(* reforecast: it points to a later row of its key that exists or, if the    *)
(* pointer was emptied, one was deleted; and the key has a later reforecast   *)
(* that was never replaced, still ACTIVE unless it was deleted.              *)
RemplacantVivant ==
  \A v \in Ids :
    versions[v].pub = "OBSOLETE" =>
      LET p == versions[v].remplacante
      IN  /\ p # Base => p > v /\ Existe(p) /\ MemeCle(p, v)
          /\ p = Base => \E w \in Ids : w > v /\ versions[w].pub = "SUPPRIMEE" /\ MemeCle(w, v)
          /\ \E w \in Ids : w > v /\ versions[w].pub \in {"ACTIVE", "SUPPRIMEE"} /\ MemeCle(w, v)

(* An amount of a closed month that nobody has entered over since the launch  *)
(* is still the validated amount of its key, however often the actuals and    *)
(* the line's neighbours changed: only a hand-made entry separates what a     *)
(* reforecast shows as REALISE from the register.                           *)
ConsolideDurable ==
  \A v \in Ids : \A l \in DOMAIN lignes[v] :
    Consolidee(l, versions[v].trimestre) /\ lignes[v][l] # 0 /\ <<v, l>> \notin saisies
      => l.cle \in Cles /\ etat[l.cle] = [montant |-> lignes[v][l], valide |-> TRUE]

(* The moves the workflow by CR makes without asking whether v is OBSOLETE.  *)
ParcoursCr == {<<Requis[op], Atteint[op]>> : op \in ParComite \cup ParCr}

(* An OBSOLETE reforecast is replaced for good and out of the global           *)
(* workflow: it does not become ACTIVE again, and unless it was given another *)
(* type it is neither submitted, rejected nor published; only the workflow by  *)
(* CR still moves it. Set apart: the reforecasts an overlapped request wrote. *)
ObsoleteFige ==
  [][\A v \in Ids : versions[v].pub = "OBSOLETE" /\ v \notin chevauchees' =>
       /\ versions'[v].pub \in {"OBSOLETE", "SUPPRIMEE"}
       /\ \/ versions'[v].statut \in {versions[v].statut, "supprimee"}
          \/ <<versions[v].statut, versions'[v].statut>> \in ParcoursCr
          \/ versions[v].type # "reforecast"]_vars
=============================================================================
