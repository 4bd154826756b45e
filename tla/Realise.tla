--------------------------------- MODULE Realise ---------------------------------
(* The actuals (fait_realise): entry, correction, deletion, validation in    *)
(* lots and import of a file, by requests that interleave. A handler reads   *)
(* and tests first, then writes in a transaction: `Recevoir...` is the       *)
(* first part, `Conclure` the second. An import reads and writes its rows    *)
(* one after the other in one transaction; what it has written is locked     *)
(* until its COMMIT. A repo.save writes the whole image read before.         *)
EXTENDS Integers, FiniteSets

CONSTANTS Cles,      \* what makes a row unique: [poste, devise, mois]
          Montants,  \* amounts
          Fichiers,  \* the files that are imported: key -> amount
          IdMax,     \* bound: rows ever inserted
          Requetes   \* bound: requests in progress together

ASSUME BornesRealise ==
  /\ IdMax \in Nat \ {0}
  /\ Fichiers \subseteq UNION {[S -> Montants] : S \in SUBSET Cles}

VARIABLES
  realise,     \* the table: id -> row
  suivant,     \* the next id of the sequence
  modeSaisie,  \* parametre_systeme: who enters the actuals
  requetes,    \* request -> what its handler holds
  depassees,   \* history: requests in progress that a COMMIT has overlapped
  retouchees   \* history: keys an overlapped request rewrote irregularly

realiseVars == <<realise, suivant, modeSaisie, requetes, depassees, retouchees>>

Ids == 1..IdMax
Lignes == [cle : Cles, montant : Montants, statut : {"IMPORTE", "VALIDE"}]
Absente == [statut |-> "ABSENTE"]
Images == UNION {[S -> Lignes] : S \in SUBSET Ids}
Restes == UNION {[S -> Montants] : S \in SUBSET Cles}
(* MIXTE is to these handlers what DECENTRALISE is: the manual entry is open.  *)
Modes == {"CENTRALISE", "DECENTRALISE"}

Libre == [op |-> "aucune"]
Nouvelle == 0
Rien == [id |-> -1]
EnCours ==
       [op : {"creer"}, ligne : Lignes]
  \cup [op : {"modifier", "supprimer", "valider"}, images : Images]
  \cup [op : {"importer"}, reste : Restes, vue : {Rien} \cup [id : Ids \cup {Nouvelle}, ligne : Lignes],
        images : Images]

InitRealise ==
  /\ realise = [i \in Ids |-> Absente]
  /\ suivant = 1
  /\ modeSaisie = "CENTRALISE"
  /\ requetes = [r \in Requetes |-> Libre]
  /\ depassees = {}
  /\ retouchees = {}

-----------------------------------------------------------------------------
Existe(i) == realise[i] # Absente
Validee(i) == realise[i].statut = "VALIDE"
Modifiables == {i \in Ids : realise[i].statut = "IMPORTE"}
DeCle(c) == {i \in Ids : Existe(i) /\ realise[i].cle = c}

Saisie(c, m) == [cle |-> c, montant |-> m, statut |-> "IMPORTE"]

(* What the table says of a key, as the reports read it.                   *)
Etat(c) ==
  IF DeCle(c) = {} THEN [valide |-> FALSE]
  ELSE LET i == CHOOSE j \in DeCle(c) : TRUE
       IN  [montant |-> realise[i].montant, valide |-> Validee(i)]

Registre == INSTANCE RegistreRealise WITH etat <- [c \in Cles |-> Etat(c)]

(* uq_fait_realise_dimensions.                                             *)
Unique(table) ==
  \A i, j \in Ids :
    table[i] # Absente /\ table[j] # Absente /\ i # j => table[i].cle # table[j].cle

(* What another import has written and not committed makes a write wait.    *)
Verrou(r, images) ==
  \E s \in Requetes \ {r} :
    /\ requetes[s].op = "importer"
    /\ \E i \in DOMAIN requetes[s].images, j \in DOMAIN images :
         i = j \/ requetes[s].images[i].cle = images[j].cle

Superposer(images) ==
  [i \in Ids |-> IF i \in DOMAIN images THEN images[i] ELSE realise[i]]

Lire(r, travail) ==
  /\ requetes[r] = Libre
  /\ requetes' = [requetes EXCEPT ![r] = travail]
  /\ UNCHANGED <<realise, suivant, modeSaisie, depassees, retouchees>>

-----------------------------------------------------------------------------
(* Reading and testing.                                                    *)

RecevoirCreation(r, c, m) ==
  /\ modeSaisie # "CENTRALISE"
  /\ DeCle(c) = {}
  /\ Lire(r, [op |-> "creer", ligne |-> Saisie(c, m)])

(* Fault: the statut is not tested.                                        *)
RecevoirModificationToujours(r, i, m) ==
  /\ Existe(i)
  /\ Lire(r, [op |-> "modifier", images |-> [j \in {i} |-> [realise[i] EXCEPT !.montant = m]]])

RecevoirModification(r, i, m) ==
  /\ i \in Modifiables
  /\ Lire(r, [op |-> "modifier", images |-> [j \in {i} |-> [realise[i] EXCEPT !.montant = m]]])

RecevoirSuppression(r, i) ==
  /\ i \in Modifiables
  /\ Lire(r, [op |-> "supprimer", images |-> [j \in {i} |-> realise[i]]])

(* All the rows or none: one missing or already validated refuses the lot.  *)
RecevoirValidation(r, S) ==
  /\ S # {} /\ S \subseteq Modifiables
  /\ Lire(r, [op |-> "valider",
              images |-> [i \in S |-> [realise[i] EXCEPT !.statut = "VALIDE"]]])

RecevoirImport(r, fichier) ==
  /\ DOMAIN fichier # {}
  /\ Lire(r, [op |-> "importer", reste |-> fichier, vue |-> Rien,
              images |-> [i \in {} |-> Absente]])

(* The next row of a file: one that is validated is ignored.               *)
LireLigne(r, c) ==
  /\ requetes[r].op = "importer" /\ requetes[r].vue = Rien
  /\ c \in DOMAIN requetes[r].reste
  /\ \E i \in IF DeCle(c) = {} THEN {Nouvelle} ELSE DeCle(c) :
       requetes' = [requetes EXCEPT
         ![r].reste = [k \in DOMAIN @ \ {c} |-> @[k]],
         ![r].vue = IF i # Nouvelle /\ Validee(i) THEN Rien
                    ELSE [id |-> i, ligne |-> Saisie(c, requetes[r].reste[c])]]
  /\ UNCHANGED <<realise, suivant, modeSaisie, depassees, retouchees>>

-----------------------------------------------------------------------------
(* Writing.                                                                *)

(* The row read is written: it is locked, and seen by nobody else yet.      *)
EcrireLigne(r) ==
  /\ requetes[r].op = "importer" /\ requetes[r].vue # Rien
  /\ LET v == requetes[r].vue
         id == IF v.id = Nouvelle THEN suivant ELSE v.id
         images == [i \in DOMAIN requetes[r].images \cup {id} |->
                      IF i = id THEN v.ligne ELSE requetes[r].images[i]]
     IN  /\ id \in Ids
         /\ ~ Verrou(r, images)
         /\ Unique(Superposer(images))
         /\ requetes' = [requetes EXCEPT ![r].vue = Rien, ![r].images = images]
         /\ suivant' = IF v.id = Nouvelle THEN suivant + 1 ELSE suivant
  /\ UNCHANGED <<realise, modeSaisie, depassees, retouchees>>

(* The table once the request is committed, and the next id.               *)
EffetCreation(r) ==
  /\ requetes[r].op = "creer"
  /\ suivant \in Ids
  /\ ~ Verrou(r, [i \in {suivant} |-> requetes[r].ligne])
  /\ realise' = [realise EXCEPT ![suivant] = requetes[r].ligne]
  /\ suivant' = suivant + 1

EffetImages(r) ==
  /\ requetes[r].op \in {"modifier", "valider", "importer"}
  /\ requetes[r].op = "importer" => requetes[r].vue = Rien /\ DOMAIN requetes[r].reste = {}
  /\ ~ Verrou(r, requetes[r].images)
  /\ realise' = Superposer(requetes[r].images)
  /\ UNCHANGED suivant

EffetSuppression(r) ==
  /\ requetes[r].op = "supprimer"
  /\ ~ Verrou(r, requetes[r].images)
  /\ realise' = [i \in Ids |-> IF i \in DOMAIN requetes[r].images THEN Absente ELSE realise[i]]
  /\ UNCHANGED suivant

Conclure(r) ==
  /\ EffetCreation(r) \/ EffetImages(r) \/ EffetSuppression(r)
  /\ Unique(realise')
  /\ requetes' = [requetes EXCEPT ![r] = Libre]
  /\ depassees' = {s \in Requetes : requetes'[s] # Libre}
  /\ retouchees' = retouchees \cup
       (IF r \in depassees THEN {c \in Cles : ~ Registre!Regulier(Etat(c), Etat(c)')} ELSE {})
  /\ UNCHANGED modeSaisie

(* A constraint refuses a write, a deadlock is broken, or the process dies.  *)
Annuler(r) ==
  /\ requetes[r] # Libre
  /\ requetes' = [requetes EXCEPT ![r] = Libre]
  /\ depassees' = depassees \ {r}
  /\ UNCHANGED <<realise, suivant, modeSaisie, retouchees>>

ModifierMode(m) ==
  /\ modeSaisie' = m
  /\ UNCHANGED <<realise, suivant, requetes, depassees, retouchees>>

Avancer(r) ==
  \/ \E c \in Cles, m \in Montants : RecevoirCreation(r, c, m)
  \/ \E i \in Ids, m \in Montants : RecevoirModification(r, i, m)
  \/ \E i \in Ids : RecevoirSuppression(r, i)
  \/ \E S \in SUBSET Ids : RecevoirValidation(r, S)
  \/ \E f \in Fichiers : RecevoirImport(r, f)
  \/ \E c \in Cles : LireLigne(r, c)
  \/ EcrireLigne(r) \/ Conclure(r) \/ Annuler(r)

NextRealise == (\E r \in Requetes : Avancer(r)) \/ (\E m \in Modes : ModifierMode(m))

SpecRealise == InitRealise /\ [][NextRealise]_realiseVars

-----------------------------------------------------------------------------
(* Properties.                                                             *)

(* The rows hold values of their columns under their unique key, the       *)
(* requests what they have read.                                           *)
TypeOKRealise ==
  /\ realise \in [Ids -> Lignes \cup {Absente}]
  /\ \A c \in Cles : Cardinality(DeCle(c)) <= 1
  /\ suivant \in 1..(IdMax + 1)
  /\ modeSaisie \in Modes
  /\ requetes \in [Requetes -> {Libre} \cup EnCours]
  /\ depassees \subseteq Requetes
  /\ retouchees \subseteq Cles

(* The detailed requests keep the promise of the register: a validation      *)
(* accepts the amount that is shown, and a validated row is neither changed  *)
(* nor deleted, except by a request that a COMMIT has overlapped:            *)
(* RealiseService tests the statut of an image and saves that image later    *)
(* without testing again, while an import reads each row just before it      *)
(* writes it.                                                              *)
ImplementeRegistre == Registre!SpecRegistre
=============================================================================
