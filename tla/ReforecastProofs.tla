----------------------------- MODULE ReforecastProofs -----------------------------
(***************************************************************************)
(* Proofs about Reforecast, for any number of requests, lines and keys.     *)
(*                                                                         *)
(* None of the four properties is inductive. Each speaks of the rows, and   *)
(* the rows are written from what open transactions and stale images hold:  *)
(* the invariant says what these still share with the table. `croises` is   *)
(* what makes it work: a request outside it has seen every COMMIT, so what   *)
(* it is about to replace is all there is to replace, and its image is the   *)
(* row. A stale image can make a replaced reforecast ACTIVE or an ACTIVE one *)
(* OBSOLETE again: Relayee follows the rows that some image may still do      *)
(* that to.                                                                *)
(***************************************************************************)
EXTENDS Reforecast, TLAPS

(* A row that was inserted, deleted since or not.                           *)
Connue(v) == versions[v].pub # "ABSENTE"
DeCle(v, s, t) == Connue(v) /\ versions[v].source = s /\ versions[v].trimestre = t

(* What a launch has copied is a validated amount of the register.          *)
Copie(table, t) ==
  \A l \in DOMAIN table :
    Consolidee(l, t) /\ table[l] # 0 =>
      l.cle \in Cles /\ etat[l.cle] = [montant |-> table[l], valide |-> TRUE]

(* x, a row or an image of v, points to a later row of its key, or a          *)
(* deletion emptied the pointer.                                           *)
Pointe(v, x) ==
  x.pub = "OBSOLETE" =>
    IF x.remplacante = Base
    THEN \E w \in Ids : w > v /\ versions[w].pub = "SUPPRIMEE" /\ MemeCle(w, v)
    ELSE x.remplacante > v /\ Connue(x.remplacante) /\ MemeCle(x.remplacante, v)

Lignees ==
  /\ \A v \in Ids : ~ Existe(v) => lignes[v] = SansLigne
  /\ ConsolideDurable

(* Rows come from the sequence; an id given and not committed is no row.     *)
Table ==
  /\ retouchees = {}
  /\ \A v \in Ids : Connue(v) => v < suivante
  /\ \A v \in Ids : Existe(v) => Pointe(v, versions[v])
  /\ \A v \in Ids : versions[v].pub = "OBSOLETE" /\ versions[v].remplacante # Base
                      => Existe(versions[v].remplacante)

(* A launch: the rows it is to replace are still of its key, and are all the  *)
(* active ones unless a COMMIT has overlapped it.                           *)
Lancement(r) ==
  LET w == travaux[r]
  IN  /\ \A v \in w.anciens : DeCle(v, w.source, w.trimestre)
      /\ r \notin croises => w.anciens = Actives(w.source, w.trimestre)

(* Once its version is inserted: what it has marked is locked, hence active. *)
Marquage(r) ==
  LET w == travaux[r]
  IN  /\ w.id \in Ids /\ w.id < suivante /\ ~ Connue(w.id)
      /\ w.marquees \subseteq w.anciens
      /\ \A v \in w.marquees : v < w.id /\ versions[v].pub = "ACTIVE"
      /\ r \notin croises => w.marquees = w.anciens
      /\ Copie(w.lignes, w.trimestre)

(* An image that no COMMIT has made stale is the row but for what the          *)
(* handler changes.                                                        *)
Fraiche(op, image, ligne) ==
  /\ image.pub = ligne.pub /\ image.remplacante = ligne.remplacante
  /\ op = "modifier" => image.statut = ligne.statut /\ image.type \in {ligne.type, "autre"}
  /\ op # "modifier" => image.type = ligne.type
  /\ op \in ParComite \cup ParCr => <<ligne.statut, image.statut>> \in ParcoursCr

Transition(r) ==
  LET w == travaux[r]
  IN  /\ DeCle(w.version, w.image.source, w.image.trimestre)
      /\ Pointe(w.version, w.image)
      /\ w.op \in Globales => ~ (w.image.pub = "OBSOLETE" /\ w.image.type = "reforecast")
      /\ r \notin croises => Fraiche(w.op, w.image, versions[w.version])

Tenu(r) ==
  /\ travaux[r].op \in {"lu", "consolide"} => Lancement(r)
  /\ travaux[r].op = "lu" => travaux[r].marquees = {}
  /\ travaux[r].op = "consolide" => Marquage(r)
  /\ travaux[r].op \in Images => Transition(r)

(* Two open transactions do not mark the same row.                          *)
Exclusifs ==
  \A r, q \in Requetes :
    r # q /\ travaux[r].op = "consolide" /\ travaux[q].op = "consolide" =>
      travaux[r].id # travaux[q].id /\ travaux[r].marquees \cap travaux[q].marquees = {}

(* v is OBSOLETE, or an image held by a handler may make it so again.         *)
VueObsolete(r, v) ==
  travaux[r].op \in Images /\ travaux[r].version = v /\ travaux[r].image.pub = "OBSOLETE"
Vieillie(v) == versions[v].pub = "OBSOLETE" \/ \E r \in Requetes : VueObsolete(r, v)

(* The last of a key is none of these.                                     *)
Releve(w, v) ==
  w > v /\ versions[w].pub \in {"ACTIVE", "SUPPRIMEE"} /\ MemeCle(w, v) /\ ~ Vieillie(w)
Relayee == \A v \in Ids : Vieillie(v) => \E w \in Ids : Releve(w, v)

Invariant ==
  /\ TypeOK /\ Lignees /\ Table /\ (\A r \in Requetes : Tenu(r)) /\ Exclusifs
  /\ Relayee /\ UnSeulActif

-----------------------------------------------------------------------------
(* The forms of what a handler holds.                                       *)
Lances ==
  [op : {"lu", "consolide"}, source : Ids \cup {Base}, trimestre : 1..4,
   anciens : SUBSET Ids, id : Ids \cup {Base}, marquees : SUBSET Ids, lignes : Tables]
Avances == [op : Images, version : Ids, image : Versions]
Brouillons == [op : Simples, version : Ids]

LEMMA Formes ==
  ASSUME TypeOK, NEW r \in Requetes
  PROVE  /\ travaux[r].op \in {"lu", "consolide"} => travaux[r] \in Lances
         /\ travaux[r].op \in Images => travaux[r] \in Avances
         /\ travaux[r].op \in Simples => travaux[r] \in Brouillons
         /\ travaux[r].op \notin {"lu", "consolide"} \cup Images \cup Simples => travaux[r] = Libre
<1>1. travaux[r] \in Travaux
  BY DEF TypeOK
<1>. QED  BY <1>1 DEF Travaux, Lances, Avances, Brouillons, Images, Simples, Globales, ParComite, ParCr, Libre

(* The rows that exist are rows.                                           *)
LEMMA Rangs ==
  ASSUME TypeOK, NEW v \in Ids
  PROVE  /\ Existe(v) => versions[v] \in Versions /\ Connue(v)
         /\ Connue(v) /\ ~ Existe(v) => versions[v].pub = "SUPPRIMEE"
<1>1. versions[v] \in Versions \cup Supprimees \cup {Absente}
  BY DEF TypeOK
<1>. QED  BY <1>1 DEF Existe, Connue, Versions, Supprimees, Absente

LEMMA FormeTable ==
  ASSUME NEW f \in Tables
  PROVE  DOMAIN f \subseteq LignesBudget /\ \A l \in DOMAIN f : f[l] \in Nat
  BY DEF Tables

LEMMA FaitTable ==
  ASSUME NEW f, NEW D \in SUBSET LignesBudget, f \in [D -> Nat]
  PROVE  f \in Tables
  BY DEF Tables

(* What every step keeps: the keys of the rows, the deletions, and the        *)
(* validated amounts.                                                      *)
Continuite ==
  \A v \in Ids : Connue(v) =>
    /\ Connue(v)'
    /\ versions'[v].source = versions[v].source
    /\ versions'[v].trimestre = versions[v].trimestre
    /\ versions[v].pub = "SUPPRIMEE" => versions'[v].pub = "SUPPRIMEE"
ValidesGardes == \A c \in Cles : etat[c].valide => etat'[c] = etat[c]

LEMMA CopieDurable ==
  ASSUME ValidesGardes, NEW table, NEW t, Copie(table, t)
  PROVE  Copie(table, t)'
  BY DEF Copie, ValidesGardes

LEMMA PointeDurable ==
  ASSUME Continuite, NEW v \in Ids, Connue(v), NEW x \in Versions, Pointe(v, x)
  PROVE  Pointe(v, x)'
<1>1. x.remplacante # Base => x.remplacante \in Ids
  BY DEF Versions
<1>2. \A w \in Ids : versions[w].pub = "SUPPRIMEE" => Connue(w)
  BY DEF Connue
<1>. QED  BY <1>1, <1>2 DEF Pointe, Continuite, MemeCle, Connue

(* A request that a step is not about keeps what it holds.                   *)
LEMMA TenuDurable ==
  ASSUME TypeOK, Continuite, ValidesGardes, suivante' \in Nat, suivante <= suivante',
         NEW q \in Requetes, Tenu(q), travaux'[q] = travaux[q],
         q \notin croises' => q \notin croises /\ UNCHANGED versions,
         travaux[q].op = "consolide" =>
           /\ ~ Connue(travaux[q].id)'
           /\ \A v \in travaux[q].marquees : versions'[v].pub = "ACTIVE"
  PROVE  Tenu(q)'
<1>. USE DEF Tenu
<1>1. ASSUME travaux[q].op \in {"lu", "consolide"}
      PROVE  Lancement(q)'
  <2>1. travaux[q].source \in Ids \cup {Base} /\ travaux[q].anciens \subseteq Ids
    BY <1>1, Formes DEF Lances
  <2>. QED  BY <1>1, <2>1 DEF Lancement, Continuite, DeCle, Connue, Actives
<1>2. ASSUME travaux[q].op = "consolide"
      PROVE  Marquage(q)'
  <2>1. travaux[q].id \in Ids \cup {Base}
    BY <1>2, Formes DEF Lances
  <2>2. PICK table, t : table = travaux[q].lignes /\ t = travaux[q].trimestre
    OBVIOUS
  <2>3. Copie(table, t)'
    BY <1>2, <2>2, CopieDurable DEF Marquage
  <2>4. Copie(travaux[q].lignes, travaux[q].trimestre)'
    BY <2>2, <2>3 DEF Copie
  <2>5. travaux[q].id < suivante'
    BY <1>2, <2>1, BornesReforecast DEF Marquage, TypeOK, Ids, Base
  <2>. QED  BY <1>2, <2>4, <2>5 DEF Marquage, Connue
<1>3. ASSUME travaux[q].op \in Images
      PROVE  Transition(q)'
  <2>1. PICK v \in Ids, x \in Versions : v = travaux[q].version /\ x = travaux[q].image
    BY <1>3, Formes DEF Avances
  <2>2. DeCle(v, x.source, x.trimestre) /\ Pointe(v, x)
    BY <1>3, <2>1 DEF Transition
  <2>3. Pointe(v, x)' /\ DeCle(v, x.source, x.trimestre)'
    BY <2>2, PointeDurable DEF DeCle, Continuite
  <2>4. Pointe(travaux[q].version, travaux[q].image)'
    BY <2>1, <2>3 DEF Pointe, Connue, MemeCle
  <2>. QED  BY <1>3, <2>1, <2>3, <2>4 DEF Transition, DeCle, Connue
<1>. QED  BY <1>1, <1>2, <1>3

(* A step that ages no row keeps the relays.                                *)
LEMMA RelaisDurable ==
  ASSUME TypeOK, TypeOK', Continuite, \A r \in Requetes : Tenu(r), Relayee,
         \A v \in Ids : Vieillie(v)' => Vieillie(v)
  PROVE  Relayee'
<1>1. SUFFICES ASSUME NEW v \in Ids, Vieillie(v)
               PROVE  \E w \in Ids : Releve(w, v)'
  BY DEF Relayee
<1>2. PICK w \in Ids : Releve(w, v)
  BY <1>1 DEF Relayee
<1>3. Connue(v)
  BY <1>1 DEF Vieillie, VueObsolete, Tenu, Transition, DeCle, Connue
<1>4. Connue(w) /\ ~ Vieillie(w)'
  BY <1>2 DEF Releve, Connue
<1>5. versions'[w].pub \in {"ACTIVE", "SUPPRIMEE"}
  <2>1. versions'[w] \in Versions \cup Supprimees \cup {Absente}
    BY DEF TypeOK
  <2>2. versions'[w].pub # "ABSENTE" /\ versions'[w].pub # "OBSOLETE"
    BY <1>4 DEF Continuite, Connue, Vieillie
  <2>. QED  BY <2>1, <2>2 DEF Versions, Supprimees, Absente
<1>. QED  BY <1>2, <1>3, <1>4, <1>5 DEF Releve, Continuite, MemeCle

(* The lines of a step that writes none of them.                            *)
LEMMA LignesInchangees ==
  ASSUME Lignees, ValidesGardes, UNCHANGED <<lignes, saisies>>,
         \A v \in Ids : DOMAIN lignes[v] # {} => versions'[v].trimestre = versions[v].trimestre,
         \A v \in Ids : ~ Existe(v)' => lignes[v] = SansLigne
  PROVE  Lignees'
<1>1. ConsolideDurable'
  <2>1. SUFFICES ASSUME NEW v \in Ids, NEW l \in DOMAIN lignes[v],
                        Consolidee(l, versions'[v].trimestre), lignes[v][l] # 0, <<v, l>> \notin saisies
                 PROVE  l.cle \in Cles /\ etat'[l.cle] = [montant |-> lignes[v][l], valide |-> TRUE]
    BY DEF ConsolideDurable
  <2>2. versions'[v].trimestre = versions[v].trimestre
    BY <2>1
  <2>3. l.cle \in Cles /\ etat[l.cle] = [montant |-> lignes[v][l], valide |-> TRUE]
    BY <2>1, <2>2 DEF Lignees, ConsolideDurable
  <2>. QED  BY <2>3 DEF ValidesGardes
<1>. QED  BY <1>1 DEF Lignees

LEMMA Initial == Init => Invariant
<1>. SUFFICES ASSUME Init
              PROVE  Invariant
  OBVIOUS
<1>. USE DEF Init, InitRegistre
<1>1. SansLigne \in Tables
  <2>1. SansLigne \in [{} -> Nat]
    BY DEF SansLigne
  <2>. QED  BY <2>1, FaitTable
<1>2. TypeOK
  BY <1>1, BornesReforecast DEF TypeOK, Etats, Travaux, Libre
<1>3. Table /\ Lignees /\ UnSeulActif
  BY DEF Table, Lignees, ConsolideDurable, SansLigne, UnSeulActif, EstActif, Existe, Connue, Absente
<1>4. (\A r \in Requetes : Tenu(r)) /\ Exclusifs /\ Relayee
  BY DEF Exclusifs, Tenu, Libre, Images, Globales, ParComite, ParCr, Relayee, Vieillie, VueObsolete, Absente
<1>. QED  BY <1>2, <1>3, <1>4 DEF Invariant

(* A step of r that leaves the versions as they are.                        *)
LEMMA PasSansCommit ==
  ASSUME Invariant, NEW r \in Requetes, NEW w \in Travaux,
         travaux' = [travaux EXCEPT ![r] = w],
         suivante' \in 1..(VersionsMax + 1), suivante <= suivante',
         UNCHANGED <<etat, retouchees, versions, chevauchees>>,
         lignes' \in [Ids -> Tables], suivies' \subseteq Ids, saisies' \subseteq Ids \X LignesBudget,
         Lignees',
         croises' \subseteq Requetes, \A q \in Requetes \ {r} : q \in croises' <=> q \in croises,
         Tenu(r)',
         w.op = "consolide" =>
           \A q \in Requetes \ {r} : travaux[q].op = "consolide" =>
             travaux[q].id # w.id /\ travaux[q].marquees \cap w.marquees = {},
         w.op \in Images => w.image.pub = versions[w.version].pub
  PROVE  Invariant'
<1>. USE DEF Invariant
<1>1. TypeOK'
  BY DEF TypeOK
<1>2. suivante \in Nat /\ suivante' \in Nat
  BY BornesReforecast DEF TypeOK
<1>3. Table' /\ UnSeulActif'
  <2>1. Table'
    BY <1>2 DEF Table, Existe, Connue, Pointe, MemeCle, Ids
  <2>2. UnSeulActif'
    BY DEF UnSeulActif, EstActif, MemeCle
  <2>. QED  BY <2>1, <2>2
<1>4. Continuite /\ ValidesGardes
  BY DEF Continuite, ValidesGardes, Connue
<1>5. travaux'[r] = w /\ \A q \in Requetes \ {r} : travaux'[q] = travaux[q]
  BY DEF TypeOK
<1>6. ASSUME NEW q \in Requetes, q # r
      PROVE  Tenu(q)'
  <2>1. travaux[q].op = "consolide" =>
          /\ ~ Connue(travaux[q].id)'
          /\ \A v \in travaux[q].marquees : versions'[v].pub = "ACTIVE"
    BY <1>6 DEF Tenu, Marquage, Connue
  <2>. QED  BY <1>2, <1>4, <1>5, <1>6, <2>1, TenuDurable
<1>7. Exclusifs'
  BY <1>5 DEF Exclusifs
<1>8. Relayee'
  <2>1. ASSUME NEW v \in Ids, Vieillie(v)'
        PROVE  Vieillie(v)
    <3>1. CASE versions'[v].pub = "OBSOLETE"
      BY <3>1 DEF Vieillie
    <3>2. CASE VueObsolete(r, v)'
      BY <1>5, <3>2 DEF Vieillie, VueObsolete
    <3>3. ASSUME NEW q \in Requetes \ {r}, VueObsolete(q, v)'
          PROVE  Vieillie(v)
      BY <1>5, <3>3 DEF Vieillie, VueObsolete
    <3>. QED  BY <2>1, <3>1, <3>2, <3>3 DEF Vieillie
  <2>. QED  BY <1>1, <1>4, <2>1, RelaisDurable
<1>. QED  BY <1>1, <1>3, <1>6, <1>7, <1>8

(* A handler that only reads.                                              *)
LEMMA PasCommencer ==
  ASSUME Invariant, NEW r \in Requetes, NEW w \in Travaux, Commencer(r, w),
         Tenu(r)', w.op # "consolide",
         w.op \in Images => w.image.pub = versions[w.version].pub
  PROVE  Invariant'
<1>1. Lignees'
  BY DEF Invariant, Commencer, Lignees, ConsolideDurable, Existe
<1>2. /\ travaux' = [travaux EXCEPT ![r] = w] /\ suivante' = suivante
      /\ suivante' \in 1..(VersionsMax + 1) /\ suivante <= suivante'
      /\ UNCHANGED <<etat, retouchees, versions, chevauchees>>
      /\ lignes' \in [Ids -> Tables] /\ suivies' \subseteq Ids /\ saisies' \subseteq Ids \X LignesBudget
      /\ croises' \subseteq Requetes /\ croises' = croises
  BY BornesReforecast DEF Commencer, Invariant, TypeOK
<1>. QED  BY <1>1, <1>2, PasSansCommit

LEMMA PasLancer ==
  ASSUME Invariant, NEW r \in Requetes, NEW s \in Ids \cup {Base}, NEW t \in 1..4, Lancer(r, s, t)
  PROVE  Invariant'
<1>1. PICK w : w = [op |-> "lu", source |-> s, trimestre |-> t, anciens |-> Actives(s, t),
                    id |-> Base, marquees |-> {}, lignes |-> SansLigne]
  OBVIOUS
<1>2. w \in Travaux /\ w.op = "lu"
  <2>1. SansLigne \in Tables
    <3>1. SansLigne \in [{} -> Nat]
      BY DEF SansLigne
    <3>. QED  BY <3>1, FaitTable
  <2>. QED  BY <1>1, <2>1 DEF Travaux, Actives
<1>3. Commencer(r, w) /\ travaux'[r] = w /\ UNCHANGED <<versions, croises>>
  BY <1>1 DEF Lancer, Commencer, Invariant, TypeOK
<1>4. Tenu(r)'
  <2>1. \A v \in Actives(s, t) : DeCle(v, s, t)
    BY DEF Actives, DeCle, Connue
  <2>2. Lancement(r)'
    BY <1>1, <1>3, <2>1 DEF Lancement, DeCle, Connue, Actives
  <2>. QED  BY <1>1, <1>3, <2>2 DEF Tenu, Images, Globales, ParComite, ParCr
<1>. QED  BY <1>2, <1>3, <1>4, PasCommencer DEF Images, Globales, ParComite, ParCr

(* What a handler makes of the row it reads.                                *)
LEMMA PasLireImage ==
  ASSUME Invariant, NEW r \in Requetes, NEW op \in Images, NEW v \in Ids, Existe(v),
         NEW x \in Versions, Commencer(r, [op |-> op, version |-> v, image |-> x]),
         x.source = versions[v].source, x.trimestre = versions[v].trimestre,
         op \in Globales => ~ (x.pub = "OBSOLETE" /\ x.type = "reforecast"),
         Fraiche(op, x, versions[v])
  PROVE  Invariant'
<1>. USE DEF Invariant
<1>1. PICK w : w = [op |-> op, version |-> v, image |-> x]
  OBVIOUS
<1>2. w \in Travaux /\ w.op # "consolide" /\ w.op \notin {"lu", "consolide"}
  BY <1>1 DEF Travaux, Images, Globales, ParComite, ParCr
<1>3. Commencer(r, w) /\ travaux'[r] = w /\ UNCHANGED <<versions, croises>>
  BY <1>1 DEF Commencer, TypeOK
<1>4. Pointe(v, x) /\ Connue(v)
  BY Rangs DEF Table, Pointe, Fraiche
<1>5. Transition(r)'
  <2>1. DeCle(v, x.source, x.trimestre)' /\ Pointe(v, x)'
    BY <1>3, <1>4 DEF DeCle, Pointe, Connue, MemeCle
  <2>2. travaux'[r].op = op /\ travaux'[r].version = v /\ travaux'[r].image = x
    BY <1>1, <1>3
  <2>3. DeCle(travaux[r].version, travaux[r].image.source, travaux[r].image.trimestre)'
        /\ Pointe(travaux[r].version, travaux[r].image)'
    BY <2>1, <2>2 DEF DeCle, Pointe, Connue, MemeCle
  <2>4. Fraiche(travaux'[r].op, travaux'[r].image, versions'[travaux'[r].version])
    BY <1>3, <2>2
  <2>. QED  BY <2>2, <2>3, <2>4 DEF Transition, Fraiche
<1>6. Tenu(r)'
  BY <1>2, <1>3, <1>5 DEF Tenu
<1>7. w.op \in Images => w.image.pub = versions[w.version].pub
  BY <1>1 DEF Fraiche
<1>. QED  BY <1>2, <1>3, <1>6, <1>7, PasCommencer

(* The statut alone moves.                                                 *)
LEMMA ImageAvancee ==
  ASSUME Invariant, NEW op \in Images \ {"modifier"}, NEW v \in Ids, versions[v].statut = Requis[op],
         NEW x, x = [versions[v] EXCEPT !.statut = Atteint[op]]
  PROVE  /\ Existe(v) /\ x \in Versions
         /\ x.source = versions[v].source /\ x.trimestre = versions[v].trimestre
         /\ x.type = versions[v].type /\ x.pub = versions[v].pub
         /\ Fraiche(op, x, versions[v])
<1>1. Requis[op] \in Statuts /\ Atteint[op] \in Statuts
  BY DEF Requis, Atteint, Images, Globales, ParComite, ParCr, Statuts
<1>2. versions[v] \in Versions
  BY <1>1 DEF Invariant, TypeOK, Supprimees, Absente, Statuts
<1>3. Existe(v)
  BY <1>2 DEF Existe, Versions
<1>4. /\ x \in Versions /\ x.source = versions[v].source /\ x.trimestre = versions[v].trimestre
      /\ x.type = versions[v].type /\ x.pub = versions[v].pub
      /\ x.remplacante = versions[v].remplacante /\ x.statut = Atteint[op]
  BY <1>1, <1>2 DEF Versions
<1>5. op \in ParComite \cup ParCr => <<versions[v].statut, x.statut>> \in ParcoursCr
  BY <1>4 DEF ParcoursCr
<1>. QED  BY <1>3, <1>4, <1>5 DEF Fraiche

LEMMA PasLireVersion ==
  ASSUME Invariant, NEW r \in Requetes, NEW op \in Globales, NEW v \in Ids, LireVersion(r, op, v)
  PROVE  Invariant'
<1>1. op \in Images \ {"modifier"}
  BY DEF Images, Globales
<1>2. PICK x : x = [versions[v] EXCEPT !.statut = Atteint[op]]
  OBVIOUS
<1>3. /\ ~ (versions[v].pub = "OBSOLETE" /\ versions[v].type = "reforecast")
      /\ versions[v].statut = Requis[op] /\ Commencer(r, [op |-> op, version |-> v, image |-> x])
  BY <1>2 DEF LireVersion, LirePourAvancer
<1>4. /\ Existe(v) /\ x \in Versions
      /\ x.source = versions[v].source /\ x.trimestre = versions[v].trimestre
      /\ x.type = versions[v].type /\ x.pub = versions[v].pub
      /\ Fraiche(op, x, versions[v])
  BY <1>1, <1>2, <1>3, ImageAvancee
<1>. QED  BY <1>1, <1>3, <1>4, PasLireImage

LEMMA PasLireVersionCr ==
  ASSUME Invariant, NEW r \in Requetes, NEW op \in ParComite \cup ParCr, NEW v \in Ids,
         LireVersionCr(r, op, v)
  PROVE  Invariant'
<1>1. op \in Images \ {"modifier"} /\ op \notin Globales
  BY DEF Images, Globales, ParComite, ParCr
<1>2. PICK x : x = [versions[v] EXCEPT !.statut = Atteint[op]]
  OBVIOUS
<1>3. versions[v].statut = Requis[op] /\ Commencer(r, [op |-> op, version |-> v, image |-> x])
  BY <1>2 DEF LireVersionCr, LirePourAvancer
<1>4. /\ Existe(v) /\ x \in Versions
      /\ x.source = versions[v].source /\ x.trimestre = versions[v].trimestre
      /\ Fraiche(op, x, versions[v])
  BY <1>1, <1>2, <1>3, ImageAvancee
<1>. QED  BY <1>1, <1>3, <1>4, PasLireImage

LEMMA PasLirePourModifier ==
  ASSUME Invariant, NEW r \in Requetes, NEW v \in Ids, NEW type \in Types, LirePourModifier(r, v, type)
  PROVE  Invariant'
<1>1. PICK x : x = [versions[v] EXCEPT !.type = type]
  OBVIOUS
<1>2. Commencer(r, [op |-> "modifier", version |-> v, image |-> x])
  BY <1>1 DEF LirePourModifier
<1>3. versions[v] \in Versions
  BY DEF Invariant, TypeOK, LirePourModifier, Supprimees, Absente
<1>4. /\ x \in Versions /\ x.source = versions[v].source /\ x.trimestre = versions[v].trimestre
      /\ x.pub = versions[v].pub /\ x.remplacante = versions[v].remplacante
      /\ x.statut = versions[v].statut /\ x.type = type
  BY <1>1, <1>3 DEF Versions
<1>5. Existe(v) /\ "modifier" \in Images /\ "modifier" \notin Globales \cup ParComite \cup ParCr
  BY <1>3 DEF Existe, Versions, Images, Globales, ParComite, ParCr
<1>6. Fraiche("modifier", x, versions[v])
  BY <1>4, <1>5 DEF Fraiche, LirePourModifier
<1>. QED  BY <1>2, <1>4, <1>5, <1>6, PasLireImage

LEMMA PasLireBrouillon ==
  ASSUME Invariant, NEW r \in Requetes, NEW op \in Simples, NEW v \in Ids, LireBrouillon(r, op, v)
  PROVE  Invariant'
<1>1. PICK w : w = [op |-> op, version |-> v]
  OBVIOUS
<1>2. w \in Travaux /\ w.op \notin {"lu", "consolide"} \cup Images
  BY <1>1 DEF Travaux, Simples, Images, Globales, ParComite, ParCr
<1>3. Commencer(r, w) /\ travaux'[r] = w
  BY <1>1 DEF LireBrouillon, Commencer, Invariant, TypeOK
<1>4. Tenu(r)'
  BY <1>2, <1>3 DEF Tenu
<1>. QED  BY <1>2, <1>3, <1>4, PasCommencer

LEMMA PasAnnuler ==
  ASSUME Invariant, NEW r \in Requetes, Annuler(r)
  PROVE  Invariant'
<1>1. Libre \in Travaux /\ Libre.op \notin {"lu", "consolide"} \cup Images /\ travaux'[r] = Libre
  BY DEF Travaux, Libre, Annuler, Invariant, TypeOK, Images, Globales, ParComite, ParCr
<1>2. Tenu(r)'
  BY <1>1 DEF Tenu
<1>3. Lignees'
  BY DEF Annuler, Invariant, Lignees, ConsolideDurable, Existe
<1>4. /\ suivante' \in 1..(VersionsMax + 1) /\ suivante <= suivante' /\ croises' \subseteq Requetes
      /\ travaux' = [travaux EXCEPT ![r] = Libre]
      /\ UNCHANGED <<etat, retouchees, versions, chevauchees>>
      /\ lignes' \in [Ids -> Tables] /\ suivies' \subseteq Ids /\ saisies' \subseteq Ids \X LignesBudget
      /\ \A q \in Requetes \ {r} : q \in croises' <=> q \in croises
  BY BornesReforecast DEF Annuler, Invariant, TypeOK
<1>. QED  BY <1>1, <1>2, <1>3, <1>4, PasSansCommit

(* One line of a reforecast is written or removed: the others are as before. *)
LEMMA PasEcrire ==
  ASSUME Invariant, NEW r \in Requetes, NEW l \in LignesBudget, NEW table \in Tables,
         Ecrire(r, l, table), suivies' \subseteq Ids,
         \A k \in DOMAIN table \ {l} :
           k \in DOMAIN lignes[travaux[r].version] /\ table[k] = lignes[travaux[r].version][k]
  PROVE  Invariant'
<1>. USE DEF Invariant
<1>1. Libre \in Travaux /\ Libre.op \notin {"lu", "consolide"} \cup Images /\ travaux'[r] = Libre
  BY DEF Travaux, Libre, Ecrire, TypeOK, Images, Globales, ParComite, ParCr
<1>2. Tenu(r)'
  BY <1>1 DEF Tenu
<1>3. PICK v \in Ids : v = travaux[r].version
  BY Formes DEF Ecrire, Simples, Brouillons
<1>4. /\ lignes' = [lignes EXCEPT ![v] = table] /\ saisies' = saisies \cup {<<v, l>>}
      /\ Existe(v) /\ UNCHANGED <<etat, versions>>
  BY <1>3 DEF Ecrire
<1>5. lignes' \in [Ids -> Tables] /\ lignes'[v] = table
      /\ \A w \in Ids \ {v} : lignes'[w] = lignes[w]
  BY <1>3, <1>4 DEF TypeOK
<1>6. Lignees'
  <2>1. \A w \in Ids : ~ Existe(w)' => lignes'[w] = SansLigne
    BY <1>4, <1>5 DEF Lignees, Existe
  <2>2. ConsolideDurable'
    <3>1. SUFFICES ASSUME NEW w \in Ids, NEW k \in DOMAIN lignes'[w],
                          Consolidee(k, versions[w].trimestre), lignes'[w][k] # 0,
                          <<w, k>> \notin saisies'
                   PROVE  k.cle \in Cles /\ etat[k.cle] = [montant |-> lignes'[w][k], valide |-> TRUE]
      BY <1>4 DEF ConsolideDurable
    <3>2. <<w, k>> \notin saisies /\ <<w, k>> # <<v, l>>
      BY <1>4, <3>1
    <3>3. k \in DOMAIN lignes[w] /\ lignes'[w][k] = lignes[w][k]
      BY <1>3, <1>5, <3>1, <3>2
    <3>. QED  BY <3>1, <3>2, <3>3 DEF Lignees, ConsolideDurable
  <2>. QED  BY <2>1, <2>2 DEF Lignees
<1>7. /\ suivante' \in 1..(VersionsMax + 1) /\ suivante <= suivante' /\ croises' \subseteq Requetes
      /\ travaux' = [travaux EXCEPT ![r] = Libre]
      /\ UNCHANGED <<etat, retouchees, versions, chevauchees>>
      /\ saisies' \subseteq Ids \X LignesBudget
      /\ \A q \in Requetes \ {r} : q \in croises' <=> q \in croises
  BY <1>3, <1>4, BornesReforecast DEF Ecrire, TypeOK
<1>. QED  BY <1>1, <1>2, <1>5, <1>6, <1>7, PasSansCommit

LEMMA PasSaisir ==
  ASSUME Invariant, NEW r \in Requetes, NEW l \in LignesBudget, NEW m \in MontantsSaisis,
         NEW suivie \in BOOLEAN, Saisir(r, l, m, suivie)
  PROVE  Invariant'
<1>1. PICK v \in Ids : v = travaux[r].version
  BY Formes DEF Saisir, Ecrire, Simples, Brouillons, Invariant
<1>2. lignes[v] \in Tables
  BY DEF Invariant, TypeOK
<1>3. PICK D \in SUBSET LignesBudget : D = DOMAIN lignes[v] \cup {l}
  BY <1>2, FormeTable
<1>4. PICK table : table = [k \in D |-> IF k = l THEN m ELSE lignes[v][k]]
  OBVIOUS
<1>5. table \in Tables
  <2>1. table \in [D -> Nat]
    BY <1>2, <1>3, <1>4, FormeTable, BornesReforecast
  <2>. QED  BY <2>1, FaitTable
<1>6. Ecrire(r, l, table) /\ suivies' \subseteq Ids
  BY <1>1, <1>3, <1>4 DEF Saisir, Invariant, TypeOK
<1>7. \A k \in DOMAIN table \ {l} : k \in DOMAIN lignes[v] /\ table[k] = lignes[v][k]
  BY <1>3, <1>4
<1>. QED  BY <1>1, <1>5, <1>6, <1>7, PasEcrire

LEMMA PasRetirer ==
  ASSUME Invariant, NEW r \in Requetes, NEW l \in LignesBudget, NEW suivie \in BOOLEAN,
         Retirer(r, l, suivie)
  PROVE  Invariant'
<1>1. PICK v \in Ids : v = travaux[r].version
  BY Formes DEF Retirer, Ecrire, Simples, Brouillons, Invariant
<1>2. lignes[v] \in Tables
  BY DEF Invariant, TypeOK
<1>3. PICK D \in SUBSET LignesBudget : D = DOMAIN lignes[v] \ {l}
  BY <1>2, FormeTable
<1>4. PICK table : table = [k \in D |-> lignes[v][k]]
  OBVIOUS
<1>5. table \in Tables
  <2>1. table \in [D -> Nat]
    BY <1>2, <1>3, <1>4, FormeTable
  <2>. QED  BY <2>1, FaitTable
<1>6. Ecrire(r, l, table) /\ suivies' \subseteq Ids
  BY <1>1, <1>3, <1>4 DEF Retirer, Invariant, TypeOK
<1>7. \A k \in DOMAIN table \ {l} : k \in DOMAIN lignes[v] /\ table[k] = lignes[v][k]
  BY <1>3, <1>4
<1>. QED  BY <1>1, <1>5, <1>6, <1>7, PasEcrire

(* The amounts copied are those the register shows as validated.            *)
LEMMA RealiseVrai ==
  ASSUME TypeOK, NEW c
  PROVE  /\ Realise(c) \in Nat
         /\ Realise(c) # 0 => c \in Cles /\ etat[c] = [montant |-> Realise(c), valide |-> TRUE]
<1>1. CASE c \in Cles /\ etat[c].valide
  <2>1. etat[c] \in [montant : Montants, valide : BOOLEAN]
    BY <1>1 DEF TypeOK, Etats, Vide
  <2>. QED  BY <1>1, <2>1, BornesReforecast DEF Realise
<1>2. CASE ~ (c \in Cles /\ etat[c].valide)
  BY <1>2 DEF Realise
<1>. QED  BY <1>1, <1>2

LEMMA DomaineSource ==
  ASSUME TypeOK, NEW s \in Ids \cup {Base}
  PROVE  /\ DOMAIN LignesDe(s) \subseteq LignesBudget
         /\ \A l \in DOMAIN LignesDe(s) : LignesDe(s)[l] \in Nat
<1>1. s # Base => lignes[s] \in Tables
  BY DEF TypeOK
<1>. QED  BY <1>1, FormeTable, BornesReforecast DEF LignesDe

LEMMA PasConsolider ==
  ASSUME Invariant, NEW r \in Requetes, Consolider(r)
  PROVE  Invariant'
<1>. USE DEF Invariant
<1>1. PICK s, t : s = travaux[r].source /\ t = travaux[r].trimestre
  OBVIOUS
<1>2. travaux[r] \in Lances /\ travaux[r].op = "lu" /\ Lancement(r) /\ travaux[r].marquees = {}
      /\ s \in Ids \cup {Base}
  BY <1>1, Formes DEF Consolider, Tenu, Lances
<1>3. PICK D \in SUBSET LignesBudget : D = {k \in DOMAIN LignesDe(s) : Consolidee(k, t)}
  BY <1>2, DomaineSource
<1>4. PICK table : table = [l \in D |-> Realise(l.cle)]
  OBVIOUS
<1>5. table \in Tables /\ Copie(table, t)
  <2>1. table \in [D -> Nat]
    BY <1>4, RealiseVrai
  <2>. QED  BY <1>4, <2>1, FaitTable, RealiseVrai DEF Copie
<1>6. PICK w : w = [travaux[r] EXCEPT
                     !.op = "consolide", !.id = suivante, !.lignes = table,
                     !.marquees = {v \in travaux[r].anciens : versions[v].pub = "ACTIVE"}]
  OBVIOUS
<1>7. /\ w.op = "consolide" /\ w.id = suivante /\ w.lignes = table
      /\ w.marquees = {v \in travaux[r].anciens : versions[v].pub = "ACTIVE"}
      /\ w.source = s /\ w.trimestre = t /\ w.anciens = travaux[r].anciens
  BY <1>1, <1>2, <1>6 DEF Lances
<1>8. w \in Lances /\ w \in Travaux
  <2>1. w \in Lances
    BY <1>2, <1>5, <1>6 DEF Lances, Consolider
  <2>. QED  BY <2>1 DEF Lances, Travaux
<1>9. travaux' = [travaux EXCEPT ![r] = w] /\ travaux'[r] = w
  <2>1. travaux'[r] = w
    BY <1>1, <1>2, <1>3, <1>4, <1>6 DEF Consolider, TypeOK, Lances
  <2>2. travaux' = [travaux EXCEPT ![r] = travaux'[r]]
    BY DEF Consolider, TypeOK
  <2>. QED  BY <2>1, <2>2
<1>10. /\ UNCHANGED <<etat, retouchees, versions, lignes, suivies, saisies, chevauchees, croises>>
       /\ suivante' = suivante + 1 /\ suivante \in Ids
  BY DEF Consolider
<1>11. Lancement(r)'
  BY <1>1, <1>2, <1>7, <1>9, <1>10 DEF Lancement, DeCle, Connue, Actives
<1>12. Marquage(r)'
  <2>1. ~ Connue(suivante)
    BY <1>10 DEF Table, Ids
  <2>2. \A v \in w.marquees : v \in Ids /\ Connue(v) /\ v < suivante
    BY <1>2, <1>7 DEF Lancement, DeCle, Table, Lances
  <2>3. r \notin croises => w.marquees = w.anciens
    BY <1>2, <1>7 DEF Lancement, Actives
  <2>4. Copie(travaux[r].lignes, travaux[r].trimestre)'
    BY <1>5, <1>7, <1>9, <1>10 DEF Copie
  <2>5. /\ w.id \in Ids /\ w.id < suivante' /\ ~ Connue(w.id)'
        /\ w.marquees \subseteq w.anciens /\ (r \notin croises' => w.marquees = w.anciens)
        /\ \A v \in w.marquees : v < w.id /\ versions'[v].pub = "ACTIVE"
    BY <1>7, <1>10, <2>1, <2>2, <2>3 DEF Connue, Ids
  <2>. QED  BY <1>9, <2>4, <2>5 DEF Marquage, Connue
<1>13. w.op \notin Images
  BY <1>7 DEF Images, Globales, ParComite, ParCr
<1>14. Tenu(r)'
  BY <1>7, <1>9, <1>11, <1>12, <1>13 DEF Tenu
<1>15. ASSUME NEW q \in Requetes \ {r}, travaux[q].op = "consolide"
       PROVE  travaux[q].id # w.id /\ travaux[q].marquees \cap w.marquees = {}
  <2>1. travaux[q].id < suivante
    BY <1>15 DEF Tenu, Marquage
  <2>2. \A v \in w.anciens : v \notin travaux[q].marquees
    BY <1>7, <1>15 DEF Consolider, Marquee
  <2>. QED  BY <1>7, <1>10, <2>1, <2>2 DEF Ids
<1>16. /\ suivante' \in 1..(VersionsMax + 1) /\ suivante <= suivante' /\ croises' \subseteq Requetes
       /\ lignes' \in [Ids -> Tables] /\ suivies' \subseteq Ids /\ saisies' \subseteq Ids \X LignesBudget
  BY <1>10, BornesReforecast DEF TypeOK, Ids
<1>17. Lignees'
  BY <1>10 DEF Lignees, ConsolideDurable, Existe
<1>. QED  BY <1>8, <1>9, <1>10, <1>13, <1>14, <1>15, <1>16, <1>17, PasSansCommit

(* A COMMIT of r on dim_version: the other requests are overlapped.          *)
LEMMA PasDeCommit ==
  ASSUME Invariant, NEW r \in Requetes, NEW S \in SUBSET Ids, Terminer(r, S),
         TypeOK', Continuite,
         \A q \in Requetes \ {r} : travaux[q].op = "consolide" =>
           /\ ~ Connue(travaux[q].id)'
           /\ \A v \in travaux[q].marquees : versions'[v].pub = "ACTIVE"
  PROVE  (\A q \in Requetes : Tenu(q)') /\ Exclusifs' /\ ValidesGardes
<1>. USE DEF Invariant
<1>1. UNCHANGED <<etat, retouchees>> /\ travaux' = [travaux EXCEPT ![r] = Libre]
  BY DEF Terminer
<1>2. Libre.op \notin {"lu", "consolide"} \cup Images
  BY DEF Libre, Images, Globales, ParComite, ParCr
<1>3. ValidesGardes /\ suivante' \in Nat /\ suivante <= suivante'
  BY <1>1, BornesReforecast DEF ValidesGardes, TypeOK, Terminer
<1>4. ASSUME NEW q \in Requetes
      PROVE  Tenu(q)'
  <2>1. CASE q = r
    BY <1>1, <1>2, <2>1 DEF Tenu, TypeOK
  <2>2. CASE travaux[q] = Libre
    BY <1>1, <1>2, <2>2 DEF Tenu, TypeOK
  <2>3. CASE q # r /\ travaux[q] # Libre
    <3>1. travaux'[q] = travaux[q] /\ q \in croises'
      BY <1>1, <2>3 DEF TypeOK, Terminer
    <3>. QED  BY <1>3, <2>3, <3>1, TenuDurable
  <2>. QED  BY <2>1, <2>2, <2>3
<1>5. Exclusifs'
  BY <1>1, <1>2 DEF Exclusifs, TypeOK
<1>. QED  BY <1>3, <1>4, <1>5

(* The images that remain after it were held before it.                     *)
LEMMA ImagesRestantes ==
  ASSUME TypeOK, NEW r \in Requetes, NEW S, Terminer(r, S), NEW v,
         NEW q \in Requetes, VueObsolete(q, v)'
  PROVE  VueObsolete(q, v)
<1>1. q = r => FALSE
  BY DEF Terminer, VueObsolete, TypeOK, Libre, Images, Globales, ParComite, ParCr
<1>. QED  BY <1>1 DEF Terminer, VueObsolete, TypeOK

LEMMA PasExtrapoler ==
  ASSUME Invariant, NEW r \in Requetes, NEW methode \in Methodes, Extrapoler(r, methode)
  PROVE  Invariant'
<1>. USE DEF Invariant
<1>1. PICK w : w = travaux[r]
  OBVIOUS
<1>2. w \in Lances /\ w.op = "consolide" /\ Lancement(r) /\ Marquage(r)
  BY <1>1, Formes DEF Extrapoler, Tenu
<1>3. /\ w.id \in Ids /\ w.id < suivante /\ ~ Connue(w.id) /\ w.id \notin w.marquees
      /\ \A v \in w.marquees :
           v \in Ids /\ v < w.id /\ versions[v].pub = "ACTIVE" /\ DeCle(v, w.source, w.trimestre)
  BY <1>1, <1>2 DEF Marquage, Lancement, Lances, DeCle
<1>4. PICK neuve : neuve =
        [source |-> w.source, trimestre |-> w.trimestre, statut |-> "ouvert",
         type |-> "reforecast", pub |-> "ACTIVE", remplacante |-> Base]
  OBVIOUS
<1>5. /\ neuve \in Versions /\ neuve.pub = "ACTIVE"
      /\ neuve.source = w.source /\ neuve.trimestre = w.trimestre
  BY <1>2, <1>4 DEF Versions, Lances, Statuts, Types
<1>6. /\ versions' \in [Ids -> Versions \cup Supprimees \cup {Absente}]
      /\ versions'[w.id] = neuve
      /\ \A v \in Ids \ {w.id} :
           versions'[v] = IF v \in w.marquees
                          THEN [versions[v] EXCEPT !.pub = "OBSOLETE", !.remplacante = w.id]
                          ELSE versions[v]
  <2>1. \A v \in w.marquees : versions[v] \in Versions
    BY <1>3, Rangs DEF Existe
  <2>2. /\ versions' = Publication(r)
        /\ versions' = [v \in Ids |-> IF v = w.id THEN neuve
                          ELSE IF v \in w.marquees
                          THEN [versions[v] EXCEPT !.pub = "OBSOLETE", !.remplacante = w.id]
                          ELSE versions[v]]
    BY <1>1, <1>4 DEF Extrapoler, Publication
  <2>3. \A v \in w.marquees :
          [versions[v] EXCEPT !.pub = "OBSOLETE", !.remplacante = w.id] \in Versions
    BY <1>3, <2>1 DEF Versions
  <2>4. \A v \in Ids :
          versions'[v] = IF v = w.id THEN neuve
                         ELSE IF v \in w.marquees
                         THEN [versions[v] EXCEPT !.pub = "OBSOLETE", !.remplacante = w.id]
                         ELSE versions[v]
    BY <2>2
  <2>5. \A v \in Ids : versions'[v] \in Versions \cup Supprimees \cup {Absente}
    BY <1>5, <2>3, <2>4 DEF TypeOK
  <2>. QED  BY <1>3, <2>2, <2>4, <2>5
<1>7. \A v \in w.marquees :
        /\ versions'[v].source = versions[v].source
        /\ versions'[v].trimestre = versions[v].trimestre
        /\ versions'[v].type = versions[v].type
        /\ versions'[v].pub = "OBSOLETE" /\ versions'[v].remplacante = w.id
        /\ Existe(v) /\ v \in Ids \ {w.id}
  <2>. TAKE v \in w.marquees
  <2>1. versions[v] \in Versions /\ Existe(v) /\ v \in Ids \ {w.id}
    BY <1>3, Rangs DEF Existe
  <2>. QED  BY <1>6, <2>1 DEF Versions
<1>8. \A v \in Ids \ {w.id} : v \notin w.marquees => versions'[v] = versions[v]
  BY <1>6
<1>9. Connue(w.id)' /\ Existe(w.id)' /\ versions'[w.id].pub = "ACTIVE"
      /\ versions'[w.id].source = w.source /\ versions'[w.id].trimestre = w.trimestre
  BY <1>5, <1>6 DEF Connue, Existe
<1>10. \A v \in Ids \ {w.id} : (Existe(v)' <=> Existe(v)) /\ (Connue(v)' <=> Connue(v))
  BY <1>3, <1>7, <1>8 DEF Existe, Connue
<1>11. Continuite
  BY <1>3, <1>7, <1>8 DEF Continuite, Connue, Existe
<1>12. /\ Terminer(r, {w.id} \cup w.marquees) /\ {w.id} \cup w.marquees \in SUBSET Ids
       /\ lignes' = [lignes EXCEPT ![w.id] = LignesLancees(r, methode)]
  BY <1>1, <1>3 DEF Extrapoler
<1>13. /\ LignesLancees(r, methode) \in Tables
       /\ \A l \in DOMAIN LignesLancees(r, methode) :
            \/ l \in DOMAIN w.lignes /\ LignesLancees(r, methode)[l] = w.lignes[l]
            \/ ~ Consolidee(l, w.trimestre)
  <2>1. PICK futures \in SUBSET LignesBudget :
          futures = {l \in DOMAIN LignesDe(w.source) : ~ Consolidee(l, w.trimestre)}
    BY <1>2, DomaineSource DEF Lances
  <2>2. PICK D \in SUBSET LignesBudget : D = DOMAIN w.lignes \cup futures
    BY <1>2, <2>1, FormeTable DEF Lances
  <2>3. LignesLancees(r, methode) =
          [l \in D |-> IF l \in DOMAIN w.lignes THEN w.lignes[l]
                       ELSE Extrapolation(l, w.source, w.trimestre, methode)]
    BY <1>1, <2>1, <2>2 DEF LignesLancees
  <2>4. ASSUME NEW l \in futures PROVE Extrapolation(l, w.source, w.trimestre, methode) \in Nat
    <3>1. PICK a, b, c \in Nat : Moyenne(l.cle, w.trimestre) = (a + b + c) \div 3
      BY RealiseVrai DEF Moyenne
    <3>2. Moyenne(l.cle, w.trimestre) \in Nat
      BY <3>1
    <3>3. LignesDe(w.source)[l] \in Nat
      BY <1>2, <2>1, DomaineSource DEF Lances
    <3>. QED  BY <3>2, <3>3 DEF Extrapolation, Methodes
  <2>5. \A l \in DOMAIN w.lignes : w.lignes[l] \in Nat
    BY <1>2, FormeTable DEF Lances
  <2>6. LignesLancees(r, methode) \in [D -> Nat]
    BY <2>2, <2>3, <2>4, <2>5
  <2>. QED  BY <2>1, <2>2, <2>3, <2>6, FaitTable
<1>14. TypeOK'
  <2>1. Libre \in Travaux
    BY DEF Travaux
  <2>2. lignes' \in [Ids -> Tables]
    BY <1>12, <1>13 DEF TypeOK
  <2>. QED  BY <1>6, <1>12, <2>1, <2>2 DEF Terminer, TypeOK
<1>15. ASSUME NEW q \in Requetes \ {r}, travaux[q].op = "consolide"
       PROVE  /\ ~ Connue(travaux[q].id)'
              /\ \A v \in travaux[q].marquees : versions'[v].pub = "ACTIVE"
  <2>1. travaux[q].id # w.id /\ travaux[q].marquees \cap w.marquees = {}
    BY <1>1, <1>2, <1>15 DEF Exclusifs
  <2>2. /\ travaux[q].id \in Ids /\ ~ Connue(travaux[q].id)
        /\ \A v \in travaux[q].marquees : v \in Ids /\ versions[v].pub = "ACTIVE"
    BY <1>15, Formes DEF Tenu, Marquage, Lances
  <2>3. w.id \notin travaux[q].marquees
    BY <1>3, <2>2 DEF Connue
  <2>4. travaux'[q] = travaux[q]
    BY <1>12 DEF Terminer, TypeOK
  <2>. QED  BY <1>8, <1>10, <2>1, <2>2, <2>3, <2>4 DEF Connue
<1>16. (\A q \in Requetes : Tenu(q)') /\ Exclusifs'
  BY <1>11, <1>12, <1>14, <1>15, PasDeCommit
<1>17. Lignees'
  <2>1. \A v \in Ids \ {w.id} : lignes'[v] = lignes[v]
    BY <1>12 DEF TypeOK
  <2>2. lignes'[w.id] = LignesLancees(r, methode) /\ UNCHANGED <<etat, saisies>>
    BY <1>3, <1>12 DEF TypeOK, Terminer
  <2>3. \A v \in Ids : ~ Existe(v)' => lignes'[v] = SansLigne
    BY <1>9, <1>10, <2>1 DEF Lignees
  <2>4. ConsolideDurable'
    <3>1. SUFFICES ASSUME NEW v \in Ids, NEW l \in DOMAIN lignes'[v],
                          Consolidee(l, versions'[v].trimestre), lignes'[v][l] # 0,
                          <<v, l>> \notin saisies
                   PROVE  l.cle \in Cles /\ etat[l.cle] = [montant |-> lignes'[v][l], valide |-> TRUE]
      BY <2>2 DEF ConsolideDurable
    <3>2. CASE v = w.id
      BY <1>1, <1>2, <1>9, <1>13, <2>2, <3>1, <3>2 DEF Marquage, Copie
    <3>3. CASE v # w.id
      <4>1. versions'[v].trimestre = versions[v].trimestre
        BY <1>7, <1>8, <3>3
      <4>. QED  BY <2>1, <3>1, <3>3, <4>1 DEF Lignees, ConsolideDurable
    <3>. QED  BY <3>2, <3>3
  <2>. QED  BY <2>3, <2>4 DEF Lignees
<1>18. Table'
  <2>1. \A v \in Ids : Connue(v)' => v < suivante'
    BY <1>3, <1>10, <1>12 DEF Table, Terminer
  <2>2. ASSUME NEW v \in Ids, Existe(v)'
        PROVE  Pointe(v, versions[v])'
    <3>1. CASE v = w.id
      BY <1>9, <3>1 DEF Pointe
    <3>2. CASE v \in w.marquees
      <4>1. versions[v].source = w.source /\ versions[v].trimestre = w.trimestre /\ w.id > v
        BY <1>3, <3>2 DEF DeCle, Ids
      <4>2. w.id # Base
        BY <1>3 DEF Ids, Base
      <4>. QED  BY <1>7, <1>9, <3>2, <4>1, <4>2 DEF Pointe, MemeCle
    <3>3. CASE v # w.id /\ v \notin w.marquees
      <4>1. versions[v] \in Versions /\ Connue(v) /\ Pointe(v, versions[v])
        BY <1>10, <2>2, <3>3, Rangs DEF Table
      <4>2. PICK x \in Versions : x = versions[v] /\ x = versions'[v]
        BY <1>8, <3>3, <4>1
      <4>3. Pointe(v, x)'
        BY <1>11, <4>1, <4>2, PointeDurable
      <4>. QED  BY <4>2, <4>3 DEF Pointe, Connue, MemeCle
    <3>. QED  BY <3>1, <3>2, <3>3
  <2>3. ASSUME NEW v \in Ids, versions'[v].pub = "OBSOLETE", versions'[v].remplacante # Base
        PROVE  Existe(versions[v].remplacante)'
    <3>1. CASE v \in w.marquees
      BY <1>7, <1>9, <3>1 DEF Existe
    <3>2. CASE v \notin w.marquees
      <4>1. v # w.id
        BY <1>9, <2>3
      <4>2. versions[v] \in Versions /\ Existe(versions[v].remplacante) /\ versions'[v] = versions[v]
        BY <1>8, <2>3, <3>2, <4>1, Rangs DEF Table, Existe
      <4>3. versions[v].remplacante \in Ids
        BY <2>3, <4>2 DEF Versions
      <4>. QED  BY <1>9, <1>10, <4>2, <4>3 DEF Existe
    <3>. QED  BY <3>1, <3>2
  <2>. QED  BY <1>12, <2>1, <2>2, <2>3 DEF Table, Terminer
<1>19. Relayee'
  <2>1. ~ Vieillie(w.id)'
    <3>1. ASSUME NEW q \in Requetes PROVE ~ VueObsolete(q, w.id)'
      BY <1>3, <1>12, ImagesRestantes DEF VueObsolete, Tenu, Transition, DeCle
    <3>. QED  BY <1>9, <3>1 DEF Vieillie
  <2>2. \A v \in Ids : Vieillie(v)' => Vieillie(v) \/ v \in w.marquees
    <3>1. ASSUME NEW v \in Ids, NEW q \in Requetes, VueObsolete(q, v)' PROVE Vieillie(v)
      BY <1>12, <3>1, ImagesRestantes DEF Vieillie
    <3>. QED  BY <1>8, <1>9, <3>1 DEF Vieillie
  <2>3. SUFFICES ASSUME NEW v \in Ids, Vieillie(v) \/ v \in w.marquees
                 PROVE  \E x \in Ids : Releve(x, v)'
    BY <2>2 DEF Relayee
  <2>4. \A y \in w.marquees : y < w.id /\ MemeCle(w.id, y)'
    BY <1>3, <1>7, <1>9 DEF MemeCle, DeCle
  <2>5. CASE v \in w.marquees
    BY <1>3, <1>9, <2>1, <2>4, <2>5 DEF Releve, Ids
  <2>6. CASE Vieillie(v)
    <3>1. PICK x \in Ids : Releve(x, v)
      BY <2>6 DEF Relayee
    <3>2. Connue(v) /\ Connue(x)
      BY <2>6, <3>1 DEF Releve, Vieillie, VueObsolete, Tenu, Transition, DeCle, Connue
    <3>3. MemeCle(x, v)'
      BY <1>11, <3>1, <3>2 DEF Releve, Continuite, MemeCle
    <3>4. CASE x \in w.marquees
      <4>1. w.id > v /\ MemeCle(w.id, v)'
        BY <1>3, <2>4, <3>1, <3>3, <3>4 DEF Releve, MemeCle, Ids
      <4>. QED  BY <1>3, <1>9, <2>1, <4>1 DEF Releve
    <3>5. CASE x \notin w.marquees
      <4>1. versions'[x] = versions[x]
        BY <1>3, <1>8, <3>2, <3>5
      <4>2. ~ Vieillie(x)'
        BY <2>2, <3>1, <3>5 DEF Releve
      <4>. QED  BY <3>1, <3>3, <4>1, <4>2 DEF Releve
    <3>. QED  BY <3>4, <3>5
  <2>. QED  BY <2>3, <2>5, <2>6
<1>20. UnSeulActif'
  <2>1. SUFFICES ASSUME NEW y \in Ids, NEW z \in Ids, y # z, EstActif(y)', EstActif(z)', MemeCle(y, z)'
                 PROVE  {y, z} \cap chevauchees' # {}
    BY DEF UnSeulActif
  <2>2. /\ chevauchees \subseteq chevauchees'
        /\ r \in croises => w.id \in chevauchees'
    BY <1>12 DEF Terminer
  <2>3. \A x \in Ids : EstActif(x)' /\ x # w.id => EstActif(x) /\ x \notin w.marquees /\ versions'[x] = versions[x]
    BY <1>7, <1>8 DEF EstActif
  <2>4. ASSUME NEW x \in Ids, x # w.id, EstActif(x)', MemeCle(x, w.id)'
        PROVE  w.id \in chevauchees'
    <3>1. EstActif(x) /\ x \notin w.marquees /\ versions[x].source = w.source
          /\ versions[x].trimestre = w.trimestre
      BY <1>9, <2>3, <2>4 DEF MemeCle
    <3>2. x \in Actives(w.source, w.trimestre)
      BY <3>1 DEF EstActif, Actives
    <3>3. r \in croises
      BY <1>1, <1>2, <3>1, <3>2 DEF Lancement, Marquage
    <3>. QED  BY <2>2, <3>3
  <2>5. CASE y = w.id \/ z = w.id
    BY <2>1, <2>4, <2>5 DEF MemeCle
  <2>6. CASE y # w.id /\ z # w.id
    BY <2>1, <2>2, <2>3, <2>6 DEF UnSeulActif, MemeCle
  <2>. QED  BY <2>5, <2>6
<1>. QED  BY <1>14, <1>16, <1>17, <1>18, <1>19, <1>20

(* A COMMIT that gives v the row x, which has at most another type, another   *)
(* statut or the pub and the pointer of the image.                          *)
LEMMA LigneEnregistree ==
  ASSUME Invariant, NEW r \in Requetes, NEW tout \in BOOLEAN, Enregistrer(r, tout)
  PROVE  \E v \in Ids, x \in Versions, op \in Images :
           /\ Existe(v) /\ ~ Marquee(v) /\ op = travaux[r].op
           /\ versions' = [versions EXCEPT ![v] = x] /\ Terminer(r, {v}) /\ UNCHANGED lignes
           /\ x.source = versions[v].source /\ x.trimestre = versions[v].trimestre
           /\ Pointe(v, x) /\ (x.remplacante # Base => Existe(x.remplacante))
           /\ x.pub = "OBSOLETE" => Vieillie(v)
           /\ r \notin croises => Fraiche(op, x, versions[v])
           /\ r \notin croises /\ op \in Globales =>
                ~ (versions[v].pub = "OBSOLETE" /\ versions[v].type = "reforecast")
<1>. USE DEF Invariant
<1>1. travaux[r] \in Avances /\ Transition(r)
  BY Formes DEF Enregistrer, Tenu
<1>2. PICK v \in Ids, op \in Images, image \in Versions :
        v = travaux[r].version /\ op = travaux[r].op /\ image = travaux[r].image
  BY <1>1 DEF Avances
<1>3. Existe(v) /\ versions[v] \in Versions
  BY <1>2, Rangs DEF Enregistrer
<1>4. PICK x : x = Sauvee(r, tout)
  OBVIOUS
<1>5. \/ tout /\ x = image
      \/ ~ tout /\ op = "modifier" /\ x = [versions[v] EXCEPT !.type = image.type]
      \/ ~ tout /\ op # "modifier" /\ x = [versions[v] EXCEPT !.statut = image.statut]
  BY <1>2, <1>4 DEF Sauvee
<1>6. /\ versions' = [versions EXCEPT ![v] = x] /\ Terminer(r, {v}) /\ UNCHANGED lignes
      /\ ~ Marquee(v) /\ (x.remplacante # Base => Existe(x.remplacante))
      /\ ~ tout => r \in croises \/ op \in ParCr
  BY <1>2, <1>4 DEF Enregistrer
<1>7. /\ image.source = versions[v].source /\ image.trimestre = versions[v].trimestre
      /\ Pointe(v, image) /\ (image.pub = "OBSOLETE" => VueObsolete(r, v))
      /\ op \in Globales => ~ (image.pub = "OBSOLETE" /\ image.type = "reforecast")
      /\ r \notin croises => Fraiche(op, image, versions[v])
  BY <1>1, <1>2 DEF Transition, DeCle, VueObsolete
<1>8. Pointe(v, versions[v]) /\ (versions[v].pub = "OBSOLETE" => Vieillie(v))
  BY <1>3 DEF Table, Vieillie
<1>9. CASE tout
  <2>1. x \in Versions /\ x = image
    BY <1>5, <1>9
  <2>2. r \notin croises => Fraiche(op, x, versions[v])
    BY <1>7, <2>1
  <2>3. r \notin croises /\ op \in Globales =>
          ~ (versions[v].pub = "OBSOLETE" /\ versions[v].type = "reforecast")
    BY <1>7, <2>1, <2>2 DEF Fraiche, Globales
  <2>. QED  BY <1>2, <1>3, <1>6, <1>7, <2>1, <2>2, <2>3 DEF Vieillie
<1>10. CASE ~ tout
  <2>1. /\ x \in Versions /\ x.source = versions[v].source /\ x.trimestre = versions[v].trimestre
        /\ x.pub = versions[v].pub /\ x.remplacante = versions[v].remplacante
        /\ op # "modifier" => x.type = versions[v].type /\ x.statut = image.statut
    BY <1>2, <1>3, <1>5, <1>10 DEF Versions
  <2>2. Pointe(v, x)
    BY <1>8, <2>1 DEF Pointe
  <2>3. r \notin croises => op \in ParCr
    BY <1>6, <1>10
  <2>4. op \in ParCr => op # "modifier" /\ op \notin Globales
    BY DEF ParCr, Globales
  <2>5. r \notin croises => Fraiche(op, x, versions[v])
    BY <1>7, <2>1, <2>3, <2>4 DEF Fraiche
  <2>. QED  BY <1>2, <1>3, <1>6, <1>8, <2>1, <2>2, <2>3, <2>4, <2>5
<1>. QED  BY <1>9, <1>10

LEMMA PasEnregistrer ==
  ASSUME Invariant, NEW r \in Requetes, NEW tout \in BOOLEAN, Enregistrer(r, tout)
  PROVE  Invariant'
<1>. USE DEF Invariant
<1>1. PICK v \in Ids, x \in Versions, op \in Images :
        /\ Existe(v) /\ ~ Marquee(v)
        /\ versions' = [versions EXCEPT ![v] = x] /\ Terminer(r, {v}) /\ UNCHANGED lignes
        /\ x.source = versions[v].source /\ x.trimestre = versions[v].trimestre
        /\ Pointe(v, x) /\ (x.remplacante # Base => Existe(x.remplacante))
        /\ x.pub = "OBSOLETE" => Vieillie(v)
        /\ r \notin croises => Fraiche(op, x, versions[v])
  BY LigneEnregistree
<1>2. versions'[v] = x /\ \A y \in Ids \ {v} : versions'[y] = versions[y]
  BY <1>1 DEF TypeOK
<1>3. x.pub \in {"ACTIVE", "OBSOLETE"} /\ Connue(v)
  BY <1>1, Rangs DEF Versions
<1>4. \A y \in Ids : (Existe(y)' <=> Existe(y)) /\ (Connue(y)' <=> Connue(y))
  BY <1>1, <1>2, <1>3 DEF Existe, Connue
<1>5. Continuite
  BY <1>1, <1>2, <1>4 DEF Continuite, Existe
<1>6. TypeOK'
  <2>1. Libre \in Travaux
    BY DEF Travaux
  <2>. QED  BY <1>1, <2>1 DEF Terminer, TypeOK
<1>7. (\A q \in Requetes : Tenu(q)') /\ Exclusifs' /\ ValidesGardes
  <2>1. ASSUME NEW q \in Requetes \ {r}, travaux[q].op = "consolide"
        PROVE  /\ ~ Connue(travaux[q].id)'
               /\ \A y \in travaux[q].marquees : versions'[y].pub = "ACTIVE"
    <3>1. /\ travaux[q].id \in Ids /\ ~ Connue(travaux[q].id)
          /\ \A y \in travaux[q].marquees : y \in Ids /\ versions[y].pub = "ACTIVE"
      BY <2>1, Formes DEF Tenu, Marquage, Lances
    <3>2. v \notin travaux[q].marquees
      BY <1>1, <2>1 DEF Marquee
    <3>3. travaux'[q] = travaux[q]
      BY <1>1 DEF Terminer, TypeOK
    <3>. QED  BY <1>2, <1>4, <3>1, <3>2, <3>3 DEF Connue
  <2>. QED  BY <1>1, <1>5, <1>6, <2>1, PasDeCommit
<1>8. Lignees'
  <2>1. UNCHANGED <<lignes, saisies>>
    BY <1>1 DEF Terminer
  <2>2. \A y \in Ids : versions'[y].trimestre = versions[y].trimestre
    BY <1>1, <1>2
  <2>3. \A y \in Ids : ~ Existe(y)' => lignes[y] = SansLigne
    BY <1>4 DEF Lignees
  <2>. QED  BY <1>7, <2>1, <2>2, <2>3, LignesInchangees
<1>9. Table'
  <2>1. ASSUME NEW y \in Ids, Existe(y)'
        PROVE  Pointe(y, versions[y])'
    <3>1. PICK z \in Versions : z = versions'[y] /\ Pointe(y, z)
      BY <1>1, <1>2, <1>4, <2>1, Rangs DEF Table
    <3>2. Pointe(y, z)'
      BY <1>4, <1>5, <2>1, <3>1, Rangs, PointeDurable
    <3>. QED  BY <3>1, <3>2 DEF Pointe, Connue, MemeCle
  <2>2. ASSUME NEW y \in Ids, versions'[y].pub = "OBSOLETE", versions'[y].remplacante # Base
        PROVE  Existe(versions[y].remplacante)'
    <3>1. versions'[y] \in Versions /\ Existe(versions'[y].remplacante)
      <4>1. CASE y = v
        BY <1>1, <1>2, <2>2, <4>1
      <4>2. CASE y # v
        BY <1>2, <2>2, <4>2, Rangs DEF Table, Existe
      <4>. QED  BY <4>1, <4>2
    <3>2. versions'[y].remplacante \in Ids
      BY <2>2, <3>1 DEF Versions
    <3>. QED  BY <1>4, <3>1, <3>2 DEF Existe
  <2>. QED  BY <1>1, <1>4, <2>1, <2>2 DEF Table, Terminer
<1>10. Relayee'
  <2>1. ASSUME NEW y \in Ids, Vieillie(y)'
        PROVE  Vieillie(y)
    <3>1. ASSUME NEW q \in Requetes, VueObsolete(q, y)' PROVE Vieillie(y)
      BY <1>1, <3>1, ImagesRestantes DEF Vieillie
    <3>. QED  BY <1>1, <1>2, <2>1, <3>1 DEF Vieillie
  <2>. QED  BY <1>5, <1>6, <2>1, RelaisDurable
<1>11. UnSeulActif'
  <2>1. /\ chevauchees \subseteq chevauchees'
        /\ r \in croises => v \in chevauchees'
    BY <1>1 DEF Terminer
  <2>2. EstActif(v)' /\ ~ EstActif(v) => v \in chevauchees'
    BY <1>2, <1>3, <1>1, <2>1 DEF EstActif, Fraiche
  <2>3. \A y \in Ids : EstActif(y)' => EstActif(y) \/ y \in chevauchees'
    BY <1>2, <2>2 DEF EstActif
  <2>4. \A y, z \in Ids : MemeCle(y, z)' => MemeCle(y, z)
    BY <1>1, <1>2 DEF MemeCle
  <2>. QED  BY <2>1, <2>3, <2>4 DEF UnSeulActif
<1>. QED  BY <1>6, <1>7, <1>8, <1>9, <1>10, <1>11

LEMMA PasSupprimer ==
  ASSUME Invariant, NEW r \in Requetes, Supprimer(r)
  PROVE  Invariant'
<1>. USE DEF Invariant
<1>1. PICK v \in Ids : v = travaux[r].version
  BY Formes DEF Supprimer, Simples, Brouillons
<1>2. PICK tombe : tombe = [source |-> versions[v].source, trimestre |-> versions[v].trimestre,
                            statut |-> "supprimee", pub |-> "SUPPRIMEE"]
  OBVIOUS
<1>3. /\ Existe(v) /\ ~ Marquee(v) /\ lignes[v] = SansLigne
      /\ versions' = [w \in Ids |->
              IF w = v THEN tombe
              ELSE IF Existe(w) /\ versions[w].remplacante = v
              THEN [versions[w] EXCEPT !.remplacante = Base]
              ELSE versions[w]]
      /\ Terminer(r, {v}) /\ UNCHANGED lignes
  BY <1>1, <1>2 DEF Supprimer
<1>4. versions[v] \in Versions /\ Connue(v)
  BY <1>3, Rangs
<1>5. versions'[v] = tombe /\ tombe \in Supprimees /\ tombe.pub = "SUPPRIMEE"
      /\ tombe.source = versions[v].source /\ tombe.trimestre = versions[v].trimestre
  BY <1>2, <1>3, <1>4 DEF Versions, Supprimees
<1>6. \A w \in Ids \ {v} :
        \/ versions'[w] = versions[w] /\ (Existe(w) => versions[w].remplacante # v)
        \/ /\ Existe(w) /\ versions[w].remplacante = v
           /\ versions'[w] = [versions[w] EXCEPT !.remplacante = Base]
           /\ versions'[w].remplacante = Base /\ versions'[w].pub = versions[w].pub
           /\ versions'[w].source = versions[w].source /\ versions'[w].trimestre = versions[w].trimestre
           /\ versions'[w].type = versions[w].type /\ versions'[w] \in Versions
  <2>. TAKE w \in Ids \ {v}
  <2>1. CASE Existe(w) /\ versions[w].remplacante = v
    <3>1. versions[w] \in Versions
      BY <2>1, Rangs
    <3>. QED  BY <1>3, <2>1, <3>1 DEF Versions
  <2>2. CASE ~ (Existe(w) /\ versions[w].remplacante = v)
    BY <1>3, <2>2
  <2>. QED  BY <2>1, <2>2
<1>7. \A w \in Ids : versions'[w].pub = IF w = v THEN "SUPPRIMEE" ELSE versions[w].pub
  BY <1>5, <1>6
<1>8. \A w \in Ids : /\ (Connue(w)' <=> Connue(w)) /\ (Existe(w)' <=> Existe(w) /\ w # v)
                     /\ versions'[w].source = versions[w].source
                     /\ versions'[w].trimestre = versions[w].trimestre
                     /\ w # v => (EstActif(w)' <=> EstActif(w))
  BY <1>4, <1>5, <1>6, <1>7 DEF Connue, Existe, EstActif
<1>9. Continuite
  BY <1>7, <1>8 DEF Continuite
<1>10. TypeOK'
  <2>1. Libre \in Travaux
    BY DEF Travaux
  <2>2. \A w \in Ids : versions'[w] \in Versions \cup Supprimees \cup {Absente}
    BY <1>5, <1>6 DEF TypeOK
  <2>3. versions' \in [Ids -> Versions \cup Supprimees \cup {Absente}]
    BY <1>3, <2>2
  <2>. QED  BY <1>1, <1>3, <2>1, <2>3 DEF Terminer, TypeOK
<1>11. (\A q \in Requetes : Tenu(q)') /\ Exclusifs' /\ ValidesGardes
  <2>1. ASSUME NEW q \in Requetes \ {r}, travaux[q].op = "consolide"
        PROVE  /\ ~ Connue(travaux[q].id)'
               /\ \A y \in travaux[q].marquees : versions'[y].pub = "ACTIVE"
    <3>1. /\ travaux[q].id \in Ids /\ ~ Connue(travaux[q].id)
          /\ \A y \in travaux[q].marquees : y \in Ids /\ versions[y].pub = "ACTIVE"
      BY <2>1, Formes DEF Tenu, Marquage, Lances
    <3>2. v \notin travaux[q].marquees
      BY <1>3, <2>1 DEF Marquee
    <3>3. travaux'[q] = travaux[q]
      BY <1>3 DEF Terminer, TypeOK
    <3>. QED  BY <1>7, <1>8, <3>1, <3>2, <3>3 DEF Connue
  <2>. QED  BY <1>1, <1>3, <1>9, <1>10, <2>1, PasDeCommit
<1>12. Lignees'
  <2>1. UNCHANGED <<lignes, saisies>>
    BY <1>3 DEF Terminer
  <2>2. \A y \in Ids : ~ Existe(y)' => lignes[y] = SansLigne
    BY <1>3, <1>8 DEF Lignees
  <2>. QED  BY <1>8, <1>11, <2>1, <2>2, LignesInchangees
<1>13. Table'
  <2>1. ASSUME NEW y \in Ids, Existe(y)'
        PROVE  Pointe(y, versions[y])'
    <3>1. y # v /\ Connue(y) /\ Pointe(y, versions[y]) /\ versions[y] \in Versions
      BY <1>8, <2>1, Rangs DEF Table
    <3>2. CASE versions'[y] = versions[y]
      <4>1. PICK z \in Versions : z = versions'[y] /\ z = versions[y]
        BY <3>1, <3>2
      <4>2. Pointe(y, z)'
        BY <1>9, <3>1, <4>1, PointeDurable
      <4>. QED  BY <4>1, <4>2 DEF Pointe, Connue, MemeCle
    <3>3. CASE versions'[y] # versions[y]
      <4>1. versions[y].remplacante = v /\ versions'[y].remplacante = Base
            /\ versions'[y].pub = versions[y].pub
        BY <1>6, <3>1, <3>3
      <4>2. v # Base
        BY DEF Ids, Base
      <4>3. versions[y].pub = "OBSOLETE" => v > y /\ MemeCle(v, y)
        BY <3>1, <4>1, <4>2 DEF Pointe
      <4>4. versions[y].pub = "OBSOLETE" => MemeCle(v, y)' /\ versions'[v].pub = "SUPPRIMEE"
        BY <1>7, <1>8, <4>3 DEF MemeCle
      <4>. QED  BY <4>1, <4>3, <4>4 DEF Pointe, MemeCle
    <3>. QED  BY <3>2, <3>3
  <2>2. ASSUME NEW y \in Ids, versions'[y].pub = "OBSOLETE", versions'[y].remplacante # Base
        PROVE  Existe(versions[y].remplacante)'
    <3>1. y # v /\ versions'[y] = versions[y] /\ Existe(y) /\ versions[y].remplacante # v
      BY <1>5, <1>6, <1>8, <2>2 DEF Existe
    <3>2. versions[y].remplacante \in Ids /\ Existe(versions[y].remplacante)
      BY <2>2, <3>1, Rangs DEF Table, Versions
    <3>. QED  BY <1>8, <3>1, <3>2 DEF Existe
  <2>. QED  BY <1>3, <1>8, <2>1, <2>2 DEF Table, Terminer
<1>14. Relayee'
  <2>1. ASSUME NEW y \in Ids, Vieillie(y)'
        PROVE  Vieillie(y)
    <3>1. ASSUME NEW q \in Requetes, VueObsolete(q, y)' PROVE Vieillie(y)
      BY <1>3, <3>1, ImagesRestantes DEF Vieillie
    <3>. QED  BY <1>7, <2>1, <3>1 DEF Vieillie
  <2>. QED  BY <1>9, <1>10, <2>1, RelaisDurable
<1>15. UnSeulActif'
  <2>1. chevauchees \subseteq chevauchees' /\ ~ EstActif(v)'
    BY <1>3, <1>7 DEF Terminer, EstActif
  <2>2. \A y, z \in Ids : MemeCle(y, z)' => MemeCle(y, z)
    BY <1>8 DEF MemeCle
  <2>. QED  BY <1>8, <2>1, <2>2 DEF UnSeulActif
<1>. QED  BY <1>10, <1>11, <1>12, <1>13, <1>14, <1>15

LEMMA PasActualiser ==
  ASSUME Invariant, Actualiser
  PROVE  Invariant'
<1>. USE DEF Invariant
<1>1. PICK c \in Cles, e \in Etats : Commit([etat EXCEPT ![c] = e], {})
  BY DEF Actualiser
<1>2. /\ UNCHANGED <<retouchees, versions, lignes, suivies, suivante, travaux, chevauchees, saisies>>
      /\ croises' = {q \in Requetes : travaux[q] # Libre}
  BY <1>1 DEF Actualiser, Commit
<1>3. etat' = [etat EXCEPT ![c] = e] /\ Regulier(etat[c], e)
  BY <1>1, <1>2 DEF Commit, Table, TypeOK
<1>4. ValidesGardes /\ Continuite
  BY <1>2, <1>3 DEF ValidesGardes, Regulier, TypeOK, Continuite, Connue
<1>5. TypeOK'
  BY <1>2, <1>3 DEF TypeOK
<1>6. Table' /\ Lignees'
  <2>1. Table'
    BY <1>2 DEF Table, Existe, Connue, Pointe, MemeCle
  <2>2. \A v \in Ids : ~ Existe(v)' => lignes[v] = SansLigne
    BY <1>2 DEF Lignees, Existe
  <2>. QED  BY <1>2, <1>4, <2>1, <2>2, LignesInchangees
<1>7. ASSUME NEW q \in Requetes
      PROVE  Tenu(q)'
  <2>1. suivante' \in Nat /\ suivante <= suivante'
    BY <1>2, BornesReforecast DEF TypeOK
  <2>2. CASE travaux[q] = Libre
    BY <1>2, <2>2 DEF Tenu, Libre, Images, Globales, ParComite, ParCr
  <2>3. CASE travaux[q] # Libre
    <3>1. travaux[q].op = "consolide" =>
            /\ ~ Connue(travaux[q].id)'
            /\ \A v \in travaux[q].marquees : versions'[v].pub = "ACTIVE"
      BY <1>2 DEF Tenu, Marquage, Connue
    <3>2. q \in croises' /\ travaux'[q] = travaux[q]
      BY <1>2, <2>3
    <3>. QED  BY <1>4, <2>1, <3>1, <3>2, TenuDurable
  <2>. QED  BY <2>2, <2>3
<1>8. Exclusifs' /\ UnSeulActif' /\ Relayee'
  <2>1. Exclusifs' /\ UnSeulActif'
    BY <1>2 DEF Exclusifs, UnSeulActif, EstActif, MemeCle
  <2>2. \A v \in Ids : Vieillie(v)' => Vieillie(v)
    BY <1>2 DEF Vieillie, VueObsolete
  <2>. QED  BY <1>4, <1>5, <2>1, <2>2, RelaisDurable
<1>. QED  BY <1>5, <1>6, <1>7, <1>8

(* Neither a first row of the workflow by CR nor a stutter moves anything.     *)
LEMMA PasImmobile ==
  ASSUME Invariant, suivies' \subseteq Ids,
         UNCHANGED <<etat, retouchees, versions, lignes, suivante, travaux, croises, chevauchees, saisies>>
  PROVE  Invariant'
<1>. USE DEF Invariant
<1>1. TypeOK' /\ Table' /\ Lignees'
  BY DEF TypeOK, Table, Lignees, ConsolideDurable, Existe, Connue, Pointe, MemeCle
<1>2. Exclusifs' /\ UnSeulActif' /\ Relayee'
  BY DEF Exclusifs, UnSeulActif, EstActif, MemeCle, Relayee, Releve, Vieillie, VueObsolete
<1>3. \A r \in Requetes : Tenu(r)'
  <2>. TAKE r \in Requetes
  <2>1. Continuite /\ ValidesGardes /\ suivante' \in Nat /\ suivante <= suivante'
    BY BornesReforecast DEF Continuite, ValidesGardes, Connue, TypeOK
  <2>2. travaux[r].op = "consolide" =>
          /\ ~ Connue(travaux[r].id)'
          /\ \A v \in travaux[r].marquees : versions'[v].pub = "ACTIVE"
    BY DEF Tenu, Marquage, Connue
  <2>. QED  BY <2>1, <2>2, TenuDurable
<1>. QED  BY <1>1, <1>2, <1>3

LEMMA InvariantTenu == Spec => []Invariant
<1>1. ASSUME Invariant, Next
      PROVE  Invariant'
  <2>1. CASE \E v \in Ids : Suivre(v)
    BY <1>1, <2>1, PasImmobile DEF Suivre, Invariant, TypeOK
  <2>2. ASSUME NEW r \in Requetes,
               \/ \E s \in Ids \cup {Base}, t \in 1..4 : Lancer(r, s, t)
               \/ Consolider(r)
               \/ \E methode \in Methodes : Extrapoler(r, methode)
               \/ \E op \in Globales, v \in Ids : LireVersion(r, op, v)
               \/ \E op \in ParComite \cup ParCr, v \in Ids : LireVersionCr(r, op, v)
               \/ \E v \in Ids, type \in Types : LirePourModifier(r, v, type)
        PROVE  Invariant'
    BY <1>1, <2>2, PasLancer, PasConsolider, PasExtrapoler, PasLireVersion, PasLireVersionCr,
       PasLirePourModifier
  <2>3. ASSUME NEW r \in Requetes,
               \/ \E op \in Simples, v \in Ids : LireBrouillon(r, op, v)
               \/ \E tout \in BOOLEAN : Enregistrer(r, tout)
               \/ Supprimer(r)
               \/ \E l \in LignesBudget, m \in MontantsSaisis, suivie \in BOOLEAN : Saisir(r, l, m, suivie)
               \/ \E l \in LignesBudget, suivie \in BOOLEAN : Retirer(r, l, suivie)
               \/ Annuler(r)
        PROVE  Invariant'
    BY <1>1, <2>3, PasLireBrouillon, PasEnregistrer, PasSupprimer, PasSaisir, PasRetirer, PasAnnuler
  <2>. QED  BY <1>1, <2>1, <2>2, <2>3, PasActualiser DEF Next
<1>2. ASSUME Invariant, UNCHANGED vars
      PROVE  Invariant'
  BY <1>2, PasImmobile DEF vars, propres, Invariant, TypeOK
<1>. QED  BY <1>1, <1>2, Initial, PTL DEF Spec

-----------------------------------------------------------------------------
(* Rows, lines, and what the handlers hold are of their types.              *)
THEOREM TypeCorrecte == Spec => []TypeOK
<1>1. Invariant => TypeOK
  BY DEF Invariant
<1>. QED  BY <1>1, InvariantTenu, PTL

(* At most one active reforecast of a source and a quarter, unless one of    *)
(* the two was written by a request that a COMMIT overlapped.               *)
THEOREM ToujoursUnSeulActif == Spec => []UnSeulActif
<1>1. Invariant => UnSeulActif
  BY DEF Invariant
<1>. QED  BY <1>1, InvariantTenu, PTL

(* Whatever overlaps, only a deletion takes its replacement from an OBSOLETE  *)
(* reforecast, and its key has a later one that nothing replaced.           *)
THEOREM RemplacantToujoursVivant == Spec => []RemplacantVivant
<1>1. ASSUME Invariant, NEW v \in Ids, versions[v].pub = "OBSOLETE",
             NEW p, p = versions[v].remplacante
      PROVE  /\ p # Base => p > v /\ Existe(p) /\ MemeCle(p, v)
             /\ p = Base => \E w \in Ids : w > v /\ versions[w].pub = "SUPPRIMEE" /\ MemeCle(w, v)
             /\ \E w \in Ids : w > v /\ versions[w].pub \in {"ACTIVE", "SUPPRIMEE"} /\ MemeCle(w, v)
  <2>1. Pointe(v, versions[v]) /\ (p # Base => Existe(p))
    BY <1>1 DEF Invariant, Table, Existe
  <2>2. \E w \in Ids : Releve(w, v)
    BY <1>1 DEF Invariant, Relayee, Vieillie
  <2>. QED  BY <1>1, <2>1, <2>2 DEF Pointe, Releve
<1>2. Invariant => RemplacantVivant
  BY <1>1 DEF RemplacantVivant
<1>. QED  BY <1>2, InvariantTenu, PTL

(* Whatever overlaps, an amount of a closed month that nobody entered over    *)
(* since the launch is the validated amount of its key.                     *)
THEOREM ConsolideToujoursDurable == Spec => []ConsolideDurable
<1>1. Invariant => ConsolideDurable
  BY DEF Invariant, Lignees
<1>. QED  BY <1>1, InvariantTenu, PTL

(* No overlapped request having written it, an OBSOLETE reforecast does not   *)
(* become ACTIVE again, and only the workflow by CR, a change of type or its  *)
(* deletion opens it a way.                                                *)
THEOREM ObsoleteToujoursFige == Spec => ObsoleteFige
<1>. DEFINE FigeLigne(v) ==
       /\ versions'[v].pub \in {"OBSOLETE", "SUPPRIMEE"}
       /\ \/ versions'[v].statut \in {versions[v].statut, "supprimee"}
          \/ <<versions[v].statut, versions'[v].statut>> \in ParcoursCr
          \/ versions[v].type # "reforecast"
     Fige == \A v \in Ids : versions[v].pub = "OBSOLETE" /\ v \notin chevauchees' => FigeLigne(v)
<1>1. ASSUME Invariant, [Next]_vars
      PROVE  Fige
  <2>1. SUFFICES ASSUME NEW v \in Ids, versions[v].pub = "OBSOLETE", v \notin chevauchees'
                 PROVE  FigeLigne(v)
    OBVIOUS
  <2>2. CASE versions'[v] = versions[v]
    BY <2>1, <2>2
  <2>3. ASSUME NEW r \in Requetes, NEW methode \in Methodes, Extrapoler(r, methode)
        PROVE  versions'[v] = versions[v]
    <3>1. travaux[r].op = "consolide" /\ Marquage(r)
      BY <1>1, <2>3, Formes DEF Invariant, Extrapoler, Tenu
    <3>2. v # travaux[r].id /\ v \notin travaux[r].marquees
      BY <2>1, <3>1 DEF Marquage, Connue
    <3>. QED  BY <2>3, <3>2 DEF Extrapoler, Publication
  <2>4. ASSUME NEW r \in Requetes, NEW tout \in BOOLEAN, Enregistrer(r, tout)
        PROVE  FigeLigne(v)
    <3>1. PICK y \in Ids, x \in Versions, op \in Images :
            /\ versions' = [versions EXCEPT ![y] = x] /\ Terminer(r, {y})
            /\ r \notin croises => Fraiche(op, x, versions[y])
            /\ r \notin croises /\ op \in Globales =>
                 ~ (versions[y].pub = "OBSOLETE" /\ versions[y].type = "reforecast")
      BY <1>1, <2>4, LigneEnregistree
    <3>2. CASE v # y
      BY <1>1, <2>2, <3>1, <3>2 DEF Invariant, TypeOK
    <3>3. CASE v = y
      <4>1. versions'[v] = x /\ r \notin croises
        BY <1>1, <2>1, <3>1, <3>3 DEF Invariant, TypeOK, Terminer
      <4>2. op = "modifier" \/ op \in ParComite \cup ParCr \/ versions[v].type # "reforecast"
        BY <2>1, <3>1, <3>3, <4>1 DEF Images
      <4>. QED  BY <2>1, <3>1, <3>3, <4>1, <4>2 DEF Fraiche
    <3>. QED  BY <3>2, <3>3
  <2>5. ASSUME NEW r \in Requetes, Supprimer(r)
        PROVE  FigeLigne(v)
    <3>1. versions[v] \in Versions
      BY <1>1, <2>1, Rangs DEF Invariant, Existe
    <3>. QED  BY <2>1, <2>5, <3>1 DEF Supprimer, Versions
  <2>6. CASE UNCHANGED versions
    BY <2>2, <2>6
  <2>. QED  BY <1>1, <2>2, <2>3, <2>4, <2>5, <2>6 DEF Next, Actualiser, Suivre, Lancer, Commencer,
              Consolider, LireVersion, LireVersionCr, LirePourAvancer, LirePourModifier, LireBrouillon,
              Saisir, Retirer, Ecrire, Annuler, vars, propres
<1>. QED  BY <1>1, InvariantTenu, PTL DEF Spec, ObsoleteFige
=============================================================================
