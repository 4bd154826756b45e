--------------------------- MODULE DelegationsProofs ---------------------------
(***************************************************************************)
(* Proofs about the delegations, for any users, perimeters, periods and     *)
(* numbers of rows, requests, runs of the jobs and interruptions.           *)
(*                                                                         *)
(* No handler locks what it reads. The argument rests on what cannot change  *)
(* between a read and its save: the columns no handler writes (`Fixe`), the   *)
(* owner and the target of a row of user_perimetres, and the fact that a      *)
(* reminder only holds delegations that were active. What an image says of    *)
(* the other columns is only true while no COMMIT has made it stale           *)
(* (`LecturesConnues`).                                                      *)
(***************************************************************************)
EXTENDS Delegations, FiniteSetTheorems, TLAPS

Porteurs == Requetes \cup Taches
TenuesDe(t) == IF "lues" \in DOMAIN t THEN DOMAIN t.lues ELSE {}

(* The columns of a delegation that are written once.                       *)
Fixe(x) == <<x.delegant, x.delegataire, x.sources, x.debut, x.fin>>

(* A source is a row of the delegator that is no mirror.                     *)
SourceDe(s, u) == s \in Cles \ Miroirs /\ Ligne(s) /\ perimetres[s].user = u
SourcesTenues ==
  /\ \A d \in Ids : Existe(d) =>
       \A s \in delegations[d].sources : SourceDe(s, delegations[d].delegant)
  /\ \A r \in Porteurs : travaux[r].op = "creer" =>
       /\ travaux[r].image.actif
       /\ \A s \in travaux[r].image.sources : SourceDe(s, travaux[r].image.delegant)

MiroirDe(l, x, n) ==
  /\ l.origine = "DELEGATION" /\ l.user = x.delegataire /\ l.debut = x.debut /\ l.fin = x.fin
  /\ <<0, n>> \in x.sources /\ l.cible = perimetres[<<0, n>>].cible
MiroirsConformes ==
  \A d \in Ids, n \in 1..LignesMax :
    Ligne(<<d, n>>) => Existe(d) /\ MiroirDe(perimetres[<<d, n>>], delegations[d], n)

(* What the image x that r holds still says of delegation d.                 *)
Connue(r, d, x) ==
  /\ Existe(d) /\ Fixe(x) = Fixe(delegations[d])
  /\ <<r, d>> \notin perimes => x = delegations[d]
  /\ r \in Rappels => x.actif
LecturesConnues == \A r \in Porteurs : \A d \in Tenues(r) : Connue(r, d, travaux[r].lues[d])

(* The runs that hold the delegation and have not sent its e-mails yet. A    *)
(* delegation that is still one to remind and that no run holds was only      *)
(* reminded by runs that were interrupted, or beside another run.             *)
Attente(d) == {r \in Preneurs(d) : ~ travaux[r].envoye}
RappelsComptes ==
  /\ \A r \in Rappels : \A d, e \in Tenues(r) : d = e
  /\ \A d \in Ids :
       /\ ~ Existe(d) => courriels[d] = 0
       /\ courriels[d] + Cardinality(Attente(d)) <= 1 + pannes + croisements[d]
       /\ Existe(d) /\ ARappeler(d) /\ Preneurs(d) = {} => courriels[d] <= pannes + croisements[d]

Invariant ==
  /\ TypeOK /\ SourcesTenues /\ MiroirsConformes /\ LecturesConnues /\ MiroirsSuivent
  /\ RappelsComptes

USE DEF Libre, Absente

LEMMA Initial == Init => Invariant
<1>. SUFFICES ASSUME Init PROVE Invariant
  OBVIOUS
<1>. USE BornesDelegations
<1>1. TypeOK
  <2>1. perimetres \in [Cles -> Lignes \cup {Absente}]
    BY DEF Init
  <2>2. jour \in Jours /\ pannes \in 0..PannesMax
    BY DEF Init, Jours
  <2>3. \A r \in DOMAIN travaux : EstTravail(r, travaux[r])
    BY DEF Init, EstTravail
  <2>. QED  BY <2>1, <2>2, <2>3 DEF Init, TypeOK, EtatsRow
<1>2. \A r \in Porteurs : Tenues(r) = {} /\ travaux[r].op # "creer"
  BY DEF Init, Tenues, Porteurs
<1>3. \A d \in Ids : ~ Existe(d)
  BY DEF Init, Existe
<1>4. \A d \in Ids, n \in 1..LignesMax : ~ Ligne(<<d, n>>) /\ ~ perimetres[<<d, n>>].actif
  BY DEF Init, Ligne, Cles, Ids
<1>5. SourcesTenues /\ MiroirsConformes /\ LecturesConnues /\ MiroirsSuivent
  BY <1>2, <1>3, <1>4 DEF SourcesTenues, MiroirsConformes, LecturesConnues, MiroirsSuivent
<1>6. RappelsComptes
  <2>1. \A d \in Ids : Preneurs(d) = {} /\ Attente(d) = {}
    BY <1>2 DEF Preneurs, Attente, Porteurs, Taches
  <2>2. \A d \in Ids : courriels[d] = 0 /\ croisements[d] = 0
    BY DEF Init
  <2>3. Cardinality({}) = 0 /\ pannes = 0
    BY FS_EmptySet DEF Init
  <2>4. \A r \in Rappels : Tenues(r) = {}
    BY <1>2 DEF Porteurs, Taches
  <2>5. \A d \in Ids : Cardinality(Attente(d)) = 0
    BY <2>1, <2>3
  <2>. QED  BY <1>3, <2>2, <2>3, <2>4, <2>5 DEF RappelsComptes
<1>. QED  BY <1>1, <1>5, <1>6 DEF Invariant

-----------------------------------------------------------------------------
(* What a request or a job may hold.                                        *)
LEMMA Formes ==
  ASSUME NEW r, NEW t, EstTravail(r, t)
  PROVE  /\ TenuesDe(t) \subseteq Ids
         /\ \A d \in TenuesDe(t) : t.lues[d] \in Delegation
         /\ t.op \in {"creer", "aucun"} => TenuesDe(t) = {}
         /\ t.op \in {"revoquer", "expirer", "rappeler"} => TenuesDe(t) = DOMAIN t.lues
         /\ t.op \in {"creer", "aucun", "revoquer", "expirer", "rappeler"}
         /\ t.op = "creer" => t.image \in Delegation /\ r \in Requetes
         /\ TenuesDe(t) # {} => t.op # "creer" /\ t.op # "aucun"
         /\ t.op = "rappeler" <=> t # Libre /\ r \in Rappels
         /\ t.op = "expirer" <=> t # Libre /\ r \in Expirations
         /\ t.op = "rappeler" => t.envoye \in BOOLEAN /\ t.restent \subseteq Ids
BY BornesDelegations DEF EstTravail, EstLecture, TenuesDe, Taches

LEMMA Porteur ==
  ASSUME TypeOK, NEW r \in Porteurs
  PROVE  EstTravail(r, travaux[r]) /\ Tenues(r) = TenuesDe(travaux[r])
BY DEF TypeOK, Porteurs, Tenues, TenuesDe

-----------------------------------------------------------------------------
(* A holder takes another work item and commits nothing: what the new one     *)
(* holds was just read, or was held already.                                 *)
Changement(r, t) ==
  /\ travaux' = [travaux EXCEPT ![r] = t]
  /\ perimes' = {x \in perimes : x[1] # r} \/ perimes' = perimes
  /\ UNCHANGED <<jour, tables, etats, chevauchees, retires>>

Fidele(r, t) ==
  /\ EstTravail(r, t)
  /\ t.op = "creer" => t.image.actif /\ \A s \in t.image.sources : SourceDe(s, t.image.delegant)
  /\ \A d \in TenuesDe(t) :
       \/ Existe(d) /\ t.lues[d] = delegations[d] /\ (r \in Rappels => delegations[d].actif)
       \/ perimes' = perimes /\ d \in Tenues(r) /\ t.lues[d] = travaux[r].lues[d]

LEMMA PasSansCommit ==
  ASSUME Invariant, NEW r \in Porteurs, NEW t, Changement(r, t), Fidele(r, t),
         courriels' \in [Ids -> Nat], croisements' \in [Ids -> Nat], pannes' \in 0..PannesMax
  PROVE  TypeOK' /\ SourcesTenues' /\ MiroirsConformes' /\ LecturesConnues' /\ MiroirsSuivent'
<1>1. \A q \in Porteurs : travaux'[q] = IF q = r THEN t ELSE travaux[q]
  BY DEF Invariant, TypeOK, Changement, Porteurs
<1>2. TypeOK'
  <2>1. \A q \in Porteurs : EstTravail(q, travaux'[q])
    BY <1>1, Porteur DEF Fidele, Invariant
  <2>2. perimes' \subseteq Porteurs \X Ids
    BY DEF Invariant, TypeOK, Changement, Porteurs
  <2>3. DOMAIN travaux' = Porteurs
    BY DEF Invariant, TypeOK, Changement, Porteurs
  <2>. QED  BY <2>1, <2>2, <2>3 DEF Invariant, TypeOK, Changement, tables, Porteurs
<1>3. delegations' = delegations /\ perimetres' = perimetres
  BY DEF Changement, tables
<1>4. SourcesTenues'
  BY <1>1, <1>3 DEF Invariant, SourcesTenues, SourceDe, Existe, Ligne, Fidele
<1>5. MiroirsConformes'
  BY <1>3 DEF Invariant, MiroirsConformes, MiroirDe, Existe, Ligne
<1>6. LecturesConnues'
  <2>. SUFFICES ASSUME NEW q \in Porteurs, NEW d \in Tenues(q)'
       PROVE  Connue(q, d, travaux[q].lues[d])'
    BY DEF LecturesConnues
  <2>1. Tenues(q)' = TenuesDe(travaux'[q])
    BY DEF Tenues, TenuesDe
  <2>2. CASE q # r
    <3>1. d \in Tenues(q) /\ travaux'[q] = travaux[q]
      BY <1>1, <2>1, <2>2, Porteur DEF Invariant
    <3>2. <<q, d>> \in perimes => <<q, d>> \in perimes'
      BY <2>2 DEF Changement
    <3>. QED  BY <1>3, <3>1, <3>2 DEF Invariant, LecturesConnues, Connue, Existe
  <2>3. CASE q = r
    <3>1. travaux'[q] = t /\ d \in TenuesDe(t)
      BY <1>1, <2>1, <2>3
    <3>2. CASE Existe(d) /\ t.lues[d] = delegations[d] /\ (r \in Rappels => delegations[d].actif)
      BY <1>3, <2>3, <3>1, <3>2 DEF Connue, Existe, Fixe
    <3>3. CASE perimes' = perimes /\ d \in Tenues(r) /\ t.lues[d] = travaux[r].lues[d]
      BY <1>3, <2>3, <3>1, <3>3 DEF Invariant, LecturesConnues, Connue, Existe
    <3>. QED  BY <3>1, <3>2, <3>3 DEF Fidele
  <2>. QED  BY <2>2, <2>3
<1>7. MiroirsSuivent'
  BY <1>3 DEF Invariant, MiroirsSuivent, Changement, Ligne
<1>. QED  BY <1>2, <1>4, <1>5, <1>6, <1>7

(* Sets of runs, and their sizes.                                            *)
LEMMA Tailles ==
  ASSUME NEW S \in SUBSET Rappels
  PROVE  /\ IsFiniteSet(S) /\ Cardinality(S) \in Nat
         /\ \A T \in SUBSET S : Cardinality(T) \in Nat /\ Cardinality(T) <= Cardinality(S)
         /\ \A r \in Rappels \ S : Cardinality(S \cup {r}) = Cardinality(S) + 1
         /\ \A r \in S : Cardinality(S \ {r}) = Cardinality(S) - 1
<1>1. IsFiniteSet(S) /\ Cardinality(S) \in Nat
  BY BornesDelegations, FS_Subset, FS_CardinalityType
<1>2. \A T \in SUBSET S : IsFiniteSet(T) /\ Cardinality(T) <= Cardinality(S)
  BY <1>1, FS_Subset
<1>. QED  BY <1>1, <1>2, FS_AddElement, FS_RemoveElement, FS_CardinalityType

(* The reminders stay counted when no run takes a delegation nor sends an     *)
(* e-mail, when none becomes one to remind, and when a run only gives one up   *)
(* that is still to remind by an interruption.                               *)
LEMMA PasSansRappel ==
  ASSUME Invariant,
         \A r \in Rappels : Tenues(r)' \subseteq Tenues(r),
         \A r \in Rappels : \A d \in Tenues(r)' : travaux'[r].envoye = travaux[r].envoye,
         UNCHANGED envois, pannes' \in Nat, pannes' >= pannes, pannes \in Nat,
         \A d \in Ids : Existe(d) => Existe(d)',
         \A d \in Ids : Existe(d)' /\ ARappeler(d)' =>
           \/ ~ Existe(d)
           \/ /\ ARappeler(d)
              /\ pannes' > pannes \/ \A r \in Rappels : d \in Tenues(r) => d \in Tenues(r)'
  PROVE  RappelsComptes'
<1>1. \A r \in Rappels : \A d, e \in Tenues(r)' : d = e
  BY DEF Invariant, RappelsComptes
<1>2. ASSUME NEW d \in Ids
      PROVE  /\ ~ Existe(d)' => courriels'[d] = 0
             /\ courriels'[d] + Cardinality(Attente(d)') <= 1 + pannes' + croisements'[d]
             /\ Existe(d)' /\ ARappeler(d)' /\ Preneurs(d)' = {} => courriels'[d] <= pannes' + croisements'[d]
  <2>1. courriels'[d] = courriels[d] /\ croisements'[d] = croisements[d]
    BY DEF envois
  <2>2. courriels[d] \in Nat /\ croisements[d] \in Nat
    BY DEF Invariant, TypeOK
  <2>3. Attente(d) \in SUBSET Rappels /\ Attente(d)' \in SUBSET Attente(d)
    BY DEF Attente, Preneurs
  <2>4. PICK n, m \in Nat : n = Cardinality(Attente(d)) /\ m = Cardinality(Attente(d)') /\ m <= n
    BY <2>3, Tailles
  <2>5. courriels[d] + n <= 1 + pannes + croisements[d]
    BY <2>4 DEF Invariant, RappelsComptes
  <2>6. ~ Existe(d)' => courriels[d] = 0
    BY DEF Invariant, RappelsComptes
  <2>7. courriels[d] + m <= 1 + pannes' + croisements[d]
    BY <2>2, <2>4, <2>5
  <2>8. ASSUME Existe(d)', ARappeler(d)', Preneurs(d)' = {} PROVE courriels[d] <= pannes' + croisements[d]
    <3>1. CASE ~ Existe(d)
      <4>1. courriels[d] = 0
        BY <3>1 DEF Invariant, RappelsComptes
      <4>. QED  BY <2>2, <4>1
    <3>2. CASE pannes' > pannes
      BY <2>2, <2>4, <2>5, <3>2
    <3>3. CASE Existe(d) /\ ARappeler(d) /\ \A r \in Rappels : d \in Tenues(r) => d \in Tenues(r)'
      <4>1. Preneurs(d) = {}
        BY <2>8, <3>3 DEF Preneurs
      <4>2. courriels[d] <= pannes + croisements[d]
        BY <3>3, <4>1 DEF Invariant, RappelsComptes
      <4>. QED  BY <2>2, <4>2
    <3>. QED  BY <2>8, <3>1, <3>2, <3>3
  <2>. QED  BY <2>1, <2>4, <2>6, <2>7, <2>8
<1>. QED  BY <1>1, <1>2 DEF RappelsComptes

(* So it is when no reminder goes on, and no delegation becomes one to remind. *)
LEMMA PasHorsRappel ==
  ASSUME Invariant,
         \A r \in Rappels : travaux'[r] = travaux[r],
         UNCHANGED envois, UNCHANGED pannes \/ (pannes' \in Nat /\ pannes' >= pannes),
         \A d \in Ids : Existe(d) => Existe(d)',
         \A d \in Ids : Existe(d)' /\ ARappeler(d)' => ~ Existe(d) \/ ARappeler(d)
  PROVE  RappelsComptes'
<1>1. \A r \in Rappels : Tenues(r)' = Tenues(r)
  BY DEF Tenues
<1>2. pannes \in Nat /\ pannes' \in Nat /\ pannes' >= pannes
  BY DEF Invariant, TypeOK
<1>. QED  BY <1>1, <1>2, PasSansRappel

-----------------------------------------------------------------------------
(* A handler saves d, with its mirrors unless it is the reminder, and goes on *)
(* with part of what it still holds.                                         *)
Sauvegarde(r, d, tout, t) ==
  /\ Enregistrer(r, d, tout)
  /\ IF r \in Rappels THEN UNCHANGED perimetres ELSE FermerMiroirs(d)
  /\ travaux' = [travaux EXCEPT ![r] = t]
  /\ UNCHANGED <<jour, etats, envois, pannes, retires>>

Reduit(r, d, t) ==
  /\ EstTravail(r, t) /\ t.op # "creer" /\ TenuesDe(t) \subseteq Tenues(r) \ {d}
  /\ \A e \in TenuesDe(t) : t.lues[e] = travaux[r].lues[e]

(* The row that is saved.                                                    *)
LEMMA Sauvee ==
  ASSUME Invariant, NEW r \in Porteurs, NEW d \in Tenues(r), NEW tout \in BOOLEAN, NEW t,
         Sauvegarde(r, d, tout, t)
  PROVE  /\ d \in Ids /\ Existe(d)
         /\ delegations' = [delegations EXCEPT ![d] = delegations'[d]]
         /\ delegations'[d] \in Delegation /\ Fixe(delegations'[d]) = Fixe(delegations[d])
         /\ r \notin Rappels => ~ delegations'[d].actif
         /\ r \in Rappels => /\ delegations'[d].rappelee
                             /\ delegations[d].actif => delegations'[d].actif
                             /\ delegations'[d].actif /\ ~ delegations[d].actif => <<r, d>> \in perimes
<1>1. d \in Ids /\ travaux[r].lues[d] \in Delegation /\ travaux[r].op # "creer" /\ travaux[r].op # "aucun"
  BY Porteur, Formes DEF Invariant
<1>2. travaux[r].op \in {"revoquer", "expirer", "rappeler"} /\ (travaux[r].op = "rappeler" <=> r \in Rappels)
  BY <1>1, Porteur, Formes DEF Invariant
<1>3. Connue(r, d, travaux[r].lues[d])
  BY DEF Invariant, LecturesConnues
<1>4. delegations[d] \in Delegation /\ Existe(d)
  BY <1>1, <1>3 DEF Invariant, TypeOK, Connue, Existe
<1>5. PICK x : /\ x = (IF tout THEN travaux[r].lues[d] ELSE delegations[d])
               /\ x \in Delegation /\ Fixe(x) = Fixe(delegations[d])
               /\ x # delegations[d] => <<r, d>> \in perimes
  BY <1>1, <1>3, <1>4 DEF Connue
<1>6. delegations' = [delegations EXCEPT ![d] = Modifiee(travaux[r].op, x)]
  BY <1>5 DEF Sauvegarde, Enregistrer
<1>7. delegations'[d] = Modifiee(travaux[r].op, x)
  BY <1>1, <1>6 DEF Invariant, TypeOK
<1>8. /\ Modifiee(travaux[r].op, x) \in Delegation
      /\ Fixe(Modifiee(travaux[r].op, x)) = Fixe(x)
      /\ r \notin Rappels => ~ Modifiee(travaux[r].op, x).actif
      /\ r \in Rappels => /\ Modifiee(travaux[r].op, x).rappelee
                          /\ Modifiee(travaux[r].op, x).actif = x.actif
  BY <1>2, <1>5 DEF Modifiee, Delegation, Fixe
<1>9. /\ x.actif /\ ~ delegations[d].actif => <<r, d>> \in perimes
      /\ r \in Rappels /\ delegations[d].actif => x.actif
  BY <1>3, <1>5 DEF Connue
<1>. QED  BY <1>1, <1>4, <1>5, <1>6, <1>7, <1>8, <1>9

LEMMA PasDeSauvegarde ==
  ASSUME Invariant, NEW r \in Porteurs, NEW d \in Tenues(r), NEW tout \in BOOLEAN, NEW t,
         Sauvegarde(r, d, tout, t), Reduit(r, d, t)
  PROVE  TypeOK' /\ SourcesTenues' /\ MiroirsConformes' /\ LecturesConnues' /\ MiroirsSuivent'
<1>1. \A q \in Porteurs : travaux'[q] = IF q = r THEN t ELSE travaux[q]
  BY DEF Invariant, TypeOK, Sauvegarde, Porteurs
<1>2. PICK y : y = delegations'[d]
  OBVIOUS
<1>3. /\ d \in Ids /\ Existe(d) /\ y \in Delegation /\ Fixe(y) = Fixe(delegations[d])
      /\ r \notin Rappels => ~ y.actif
      /\ r \in Rappels => (y.actif /\ ~ delegations[d].actif => <<r, d>> \in perimes)
      /\ r \in Rappels => (delegations[d].actif => y.actif)
  BY <1>2, Sauvee
<1>4. /\ delegations' = [delegations EXCEPT ![d] = y]
      /\ \A e \in Ids : delegations'[e] = IF e = d THEN y ELSE delegations[e]
      /\ \A e \in Ids : Existe(e)' <=> Existe(e)
      /\ \A e \in Ids : Existe(e) => Fixe(delegations[e])' = Fixe(delegations[e])
  <2>1. delegations' = [delegations EXCEPT ![d] = y]
    BY <1>2, Sauvee
  <2>2. \A e \in Ids : delegations'[e] = IF e = d THEN y ELSE delegations[e]
    BY <2>1 DEF Invariant, TypeOK
  <2>3. y # Absente
    BY <1>3 DEF Delegation
  <2>. QED  BY <1>3, <2>1, <2>2, <2>3 DEF Existe, Fixe
<1>5. /\ perimetres' \in [Cles -> Lignes \cup {Absente}]
      /\ \A k \in Cles : /\ Ligne(k)' <=> Ligne(k)
                         /\ Ligne(k) => /\ perimetres'[k].user = perimetres[k].user
                                        /\ perimetres'[k].cible = perimetres[k].cible
                                        /\ perimetres'[k].origine = perimetres[k].origine
                                        /\ perimetres'[k].debut = perimetres[k].debut
                                        /\ perimetres'[k].fin = perimetres[k].fin
                         /\ r \in Rappels \/ k[1] # d => perimetres'[k] = perimetres[k]
                         /\ r \notin Rappels /\ k[1] = d => ~ perimetres'[k].actif
  <2>1. CASE r \in Rappels
    BY <2>1 DEF Sauvegarde, Invariant, TypeOK, Ligne
  <2>2. CASE r \notin Rappels
    <3>1. perimetres' = [k \in Cles |-> IF k[1] = d /\ Ligne(k)
                           THEN [perimetres[k] EXCEPT !.actif = FALSE] ELSE perimetres[k]]
      BY <2>2 DEF Sauvegarde, FermerMiroirs
    <3>2. \A k \in Cles : perimetres[k] \in Lignes \cup {Absente}
      BY DEF Invariant, TypeOK
    <3>3. \A k \in Cles : [perimetres[k] EXCEPT !.actif = FALSE] # Absente \/ ~ Ligne(k)
      BY <3>2 DEF Lignes, Ligne
    <3>4. \A k \in Cles : perimetres'[k] = IF k[1] = d /\ Ligne(k)
                           THEN [perimetres[k] EXCEPT !.actif = FALSE] ELSE perimetres[k]
      BY <3>1
    <3>5. perimetres' \in [Cles -> Lignes \cup {Absente}]
      BY <3>1, <3>2 DEF Lignes, Ligne
    <3>6. \A k \in Cles : Ligne(k)' <=> Ligne(k)
      BY <3>3, <3>4 DEF Ligne
    <3>7. \A k \in Cles : ~ Ligne(k) => ~ perimetres[k].actif
      BY DEF Ligne
    <3>8. ASSUME NEW k \in Cles, Ligne(k)
          PROVE  /\ perimetres'[k].user = perimetres[k].user
                 /\ perimetres'[k].cible = perimetres[k].cible
                 /\ perimetres'[k].origine = perimetres[k].origine
                 /\ perimetres'[k].debut = perimetres[k].debut
                 /\ perimetres'[k].fin = perimetres[k].fin
                 /\ k[1] = d => ~ perimetres'[k].actif
      <4>1. perimetres[k] \in Lignes
        BY <3>2, <3>8 DEF Ligne
      <4>. QED  BY <3>4, <3>8, <4>1 DEF Lignes
    <3>. QED  BY <2>2, <3>4, <3>5, <3>6, <3>7, <3>8
  <2>. QED  BY <2>1, <2>2
<1>6. perimes' = {x \in perimes : x # <<r, d>>} \cup {<<s, d>> : s \in {q \in Porteurs : q # r /\ d \in Tenues(q)}}
  BY DEF Sauvegarde, Enregistrer, Porteurs
<1>7. chevauchees' = IF <<r, d>> \in perimes THEN chevauchees \cup {d} ELSE chevauchees
  BY DEF Sauvegarde, Enregistrer
<1>8. TypeOK'
  <2>1. \A q \in Porteurs : EstTravail(q, travaux'[q])
    BY <1>1, Porteur DEF Reduit, Invariant
  <2>2. perimes' \subseteq Porteurs \X Ids
    BY <1>3, <1>6 DEF Invariant, TypeOK, Porteurs
  <2>3. delegations' \in [Ids -> Delegation \cup {Absente}]
    BY <1>3, <1>4 DEF Invariant, TypeOK
  <2>4. DOMAIN travaux' = Porteurs
    BY DEF Invariant, TypeOK, Sauvegarde, Porteurs
  <2>5. chevauchees' \subseteq Ids
    BY <1>3, <1>7 DEF Invariant, TypeOK
  <2>. QED  BY <1>5, <2>1, <2>2, <2>3, <2>4, <2>5 DEF Invariant, TypeOK, Sauvegarde, envois, Porteurs
<1>9. SourcesTenues'
  <2>1. ASSUME NEW s, NEW u, SourceDe(s, u) PROVE SourceDe(s, u)'
    BY <1>5, <2>1 DEF SourceDe, Cles, Miroirs
  <2>2. \A e \in Ids : Existe(e) => delegations'[e].sources = delegations[e].sources
                                    /\ delegations'[e].delegant = delegations[e].delegant
    BY <1>4 DEF Fixe
  <2>3. \A q \in Porteurs : travaux'[q].op = "creer" => travaux'[q] = travaux[q]
    BY <1>1 DEF Reduit
  <2>. QED  BY <1>4, <2>1, <2>2, <2>3 DEF Invariant, SourcesTenues
<1>10. MiroirsConformes'
  <2>. SUFFICES ASSUME NEW e \in Ids, NEW n \in 1..LignesMax, Ligne(<<e, n>>)'
       PROVE  Existe(e)' /\ MiroirDe(perimetres[<<e, n>>], delegations[e], n)'
    BY DEF MiroirsConformes
  <2>1. <<e, n>> \in Cles
    BY DEF Cles, Ids
  <2>2. Existe(e) /\ MiroirDe(perimetres[<<e, n>>], delegations[e], n)
    BY <1>5, <2>1 DEF Invariant, MiroirsConformes
  <2>3. <<0, n>> \in delegations[e].sources /\ Ligne(<<0, n>>) /\ <<0, n>> \in Cles
    BY <2>2 DEF Invariant, SourcesTenues, SourceDe, MiroirDe
  <2>4. Fixe(delegations[e])' = Fixe(delegations[e])
    BY <1>4, <2>2
  <2>5. /\ delegations'[e].delegataire = delegations[e].delegataire
        /\ delegations'[e].debut = delegations[e].debut /\ delegations'[e].fin = delegations[e].fin
        /\ delegations'[e].sources = delegations[e].sources
    BY <2>4 DEF Fixe
  <2>6. Ligne(<<e, n>>)
    BY <1>5, <2>1
  <2>. QED  BY <1>4, <1>5, <2>1, <2>2, <2>3, <2>5, <2>6 DEF MiroirDe
<1>11. LecturesConnues'
  <2>. SUFFICES ASSUME NEW q \in Porteurs, NEW e \in Tenues(q)'
       PROVE  Connue(q, e, travaux[q].lues[e])'
    BY DEF LecturesConnues
  <2>1. /\ e \in Tenues(q) /\ travaux'[q].lues[e] = travaux[q].lues[e]
        /\ q = r => e # d
    BY <1>1, Porteur DEF Invariant, Tenues, TenuesDe, Reduit
  <2>2. PICK x : x = travaux[q].lues[e]
    OBVIOUS
  <2>3. Connue(q, e, x)
    BY <2>1, <2>2 DEF Invariant, LecturesConnues
  <2>4. e \in Ids
    BY <2>1, Porteur, Formes DEF Invariant
  <2>5. <<q, e>> \notin perimes' => e # d /\ <<q, e>> \notin perimes
    BY <1>6, <2>1
  <2>6. Connue(q, e, x)'
    <3>1. Fixe(x) = Fixe(delegations'[e])
      BY <1>4, <2>3, <2>4 DEF Connue, Fixe
    <3>. QED  BY <1>4, <2>3, <2>4, <2>5, <3>1 DEF Connue, Fixe
  <2>. QED  BY <2>1, <2>2, <2>6 DEF Connue, Fixe
<1>12. MiroirsSuivent'
  <2>. SUFFICES ASSUME NEW e \in Ids, NEW n \in 1..LignesMax
       PROVE  /\ perimetres'[<<e, n>>].actif => delegations'[e].actif
              /\ delegations'[e].actif /\ Ligne(<<e, n>>)' /\ e \notin chevauchees'
                   => perimetres'[<<e, n>>].actif \/ <<e, n>> \in retires'
    BY DEF MiroirsSuivent
  <2>1. <<e, n>> \in Cles
    BY DEF Cles, Ids
  <2>2. /\ perimetres[<<e, n>>].actif => delegations[e].actif
        /\ delegations[e].actif /\ Ligne(<<e, n>>) /\ e \notin chevauchees
                   => perimetres[<<e, n>>].actif \/ <<e, n>> \in retires
    BY DEF Invariant, MiroirsSuivent
  <2>3. retires' = retires
    BY DEF Sauvegarde
  <2>. QED  BY <1>3, <1>4, <1>5, <1>7, <2>1, <2>2, <2>3
<1>. QED  BY <1>8, <1>9, <1>10, <1>11, <1>12

-----------------------------------------------------------------------------
(* A creation: the mirrors of a new delegation copy its sources.              *)
LEMMA CleSource ==
  ASSUME NEW s \in Cles \ Miroirs
  PROVE  s[2] \in 1..LignesMax /\ s = <<0, s[2]>>
<1>1. s[1] \in 0..DelegationsMax /\ s[2] \in 1..LignesMax /\ s = <<s[1], s[2]>>
  BY DEF Cles
<1>2. s[1] \notin 1..DelegationsMax
  BY <1>1 DEF Miroirs, Ids
<1>. QED  BY <1>1, <1>2, BornesDelegations

LEMMA PasCreer ==
  ASSUME Invariant, NEW r \in Requetes, Creer(r)
  PROVE  Invariant'
<1>0. PICK d \in Ids :
       LET x == travaux[r].image
       IN  /\ ~ Existe(d)
           /\ delegations' = [delegations EXCEPT ![d] = x]
           /\ perimetres' = [k \in Cles |->
                IF k[1] = d /\ \E s \in x.sources : s[2] = k[2]
                THEN [user |-> x.delegataire, origine |-> "DELEGATION",
                      cible |-> perimetres[CHOOSE s \in x.sources : s[2] = k[2]].cible,
                      debut |-> x.debut, fin |-> x.fin, actif |-> TRUE]
                ELSE perimetres[k]]
  BY DEF Creer
<1>1. PICK x : x = travaux[r].image
  OBVIOUS
<1>2. r \in Porteurs /\ x \in Delegation /\ travaux[r].op = "creer"
  BY <1>1, Porteur, Formes DEF Invariant, Porteurs, Creer
<1>3. \A s \in x.sources : SourceDe(s, x.delegant) /\ s = <<0, s[2]>> /\ s[2] \in 1..LignesMax
                           /\ perimetres[s] \in Lignes /\ s[1] # d
  <2>1. \A s \in x.sources : SourceDe(s, x.delegant)
    BY <1>1, <1>2 DEF Invariant, SourcesTenues
  <2>2. \A s \in x.sources : s = <<0, s[2]>> /\ s[2] \in 1..LignesMax
    BY <2>1, CleSource DEF SourceDe
  <2>3. \A s \in x.sources : perimetres[s] \in Lignes
    BY <2>1 DEF SourceDe, Ligne, Invariant, TypeOK
  <2>. QED  BY <2>1, <2>2, <2>3 DEF Ids
<1>4. \A n \in 1..LignesMax : ~ Ligne(<<d, n>>)
  BY <1>0 DEF Invariant, MiroirsConformes
<1>5. \A e \in Ids : /\ delegations'[e] = IF e = d THEN x ELSE delegations[e]
                     /\ Existe(e)' <=> Existe(e) \/ e = d
  <2>1. \A e \in Ids : delegations'[e] = IF e = d THEN x ELSE delegations[e]
    BY <1>0, <1>1 DEF Invariant, TypeOK
  <2>2. x # Absente
    BY <1>2 DEF Delegation
  <2>. QED  BY <2>1, <2>2 DEF Existe
<1>6. \A k \in Cles : k[1] # d => perimetres'[k] = perimetres[k]
  BY <1>0
<1>7. \A n \in 1..LignesMax :
        \/ ~ Ligne(<<d, n>>)' /\ ~ perimetres'[<<d, n>>].actif
        \/ /\ perimetres'[<<d, n>>] \in Lignes /\ perimetres'[<<d, n>>].actif
           /\ perimetres'[<<d, n>>].origine = "DELEGATION"
           /\ perimetres'[<<d, n>>].user = x.delegataire
           /\ perimetres'[<<d, n>>].debut = x.debut /\ perimetres'[<<d, n>>].fin = x.fin
           /\ <<0, n>> \in x.sources /\ perimetres'[<<d, n>>].cible = perimetres[<<0, n>>].cible
  <2>. SUFFICES ASSUME NEW n \in 1..LignesMax, \E s \in x.sources : s[2] = n
       PROVE  /\ perimetres'[<<d, n>>] \in Lignes /\ perimetres'[<<d, n>>].actif
              /\ perimetres'[<<d, n>>].origine = "DELEGATION"
              /\ perimetres'[<<d, n>>].user = x.delegataire
              /\ perimetres'[<<d, n>>].debut = x.debut /\ perimetres'[<<d, n>>].fin = x.fin
              /\ <<0, n>> \in x.sources /\ perimetres'[<<d, n>>].cible = perimetres[<<0, n>>].cible
    <3>1. ASSUME NEW n \in 1..LignesMax, ~ \E s \in x.sources : s[2] = n
          PROVE  ~ Ligne(<<d, n>>)' /\ ~ perimetres'[<<d, n>>].actif
      <4>1. <<d, n>> \in Cles /\ perimetres[<<d, n>>] = Absente
        BY <1>4 DEF Cles, Ids, Ligne
      <4>2. perimetres'[<<d, n>>] = perimetres[<<d, n>>]
        BY <1>0, <1>1, <3>1, <4>1
      <4>3. perimetres'[<<d, n>>] = Absente
        BY <4>1, <4>2
      <4>. QED  BY <4>3 DEF Ligne
    <3>. QED  BY <3>1
  <2>1. (CHOOSE s \in x.sources : s[2] = n) = <<0, n>> /\ <<0, n>> \in x.sources
    BY <1>3
  <2>2. <<d, n>> \in Cles
    BY DEF Cles, Ids
  <2>3. perimetres'[<<d, n>>] =
          [user |-> x.delegataire, origine |-> "DELEGATION",
           cible |-> perimetres[<<0, n>>].cible,
           debut |-> x.debut, fin |-> x.fin, actif |-> TRUE]
    BY <1>0, <1>1, <2>1, <2>2
  <2>4. perimetres[<<0, n>>].cible \in Cibles
    BY <1>3, <2>1 DEF Lignes
  <2>5. x.delegataire \in Utilisateurs /\ x.debut \in Jours /\ x.fin \in Jours
    BY <1>2 DEF Delegation
  <2>6. x.fin \in Jours \cup {SansFin}
    BY <2>5
  <2>7. perimetres'[<<d, n>>] \in Lignes
    BY <2>3, <2>4, <2>5, <2>6 DEF Lignes
  <2>. QED  BY <2>1, <2>3, <2>7
<1>8. \A k \in Cles : k[1] = d => k = <<d, k[2]>> /\ k[2] \in 1..LignesMax
  BY DEF Cles
<1>9. perimetres' \in [Cles -> Lignes \cup {Absente}]
  <2>1. DOMAIN perimetres' = Cles /\ perimetres' = [k \in Cles |-> perimetres'[k]]
    BY <1>0
  <2>2. \A k \in Cles : perimetres'[k] \in Lignes \cup {Absente}
    <3>. SUFFICES ASSUME NEW k \in Cles, k[1] = d PROVE perimetres'[k] \in Lignes \cup {Absente}
      BY <1>6 DEF Invariant, TypeOK
    <3>1. k = <<d, k[2]>> /\ k[2] \in 1..LignesMax
      BY <1>8
    <3>. QED  BY <1>7, <3>1 DEF Ligne
  <2>. QED  BY <2>1, <2>2
<1>10. \A s \in Cles \ Miroirs : perimetres'[s] = perimetres[s] /\ (Ligne(s)' <=> Ligne(s))
  <2>1. \A s \in Cles \ Miroirs : s[1] # d
    BY DEF Cles, Miroirs, Ids
  <2>. QED  BY <1>6, <2>1 DEF Ligne
<1>11. \A q \in Porteurs : travaux'[q] = IF q = r THEN Libre ELSE travaux[q]
  BY DEF Invariant, TypeOK, Creer, Porteurs
<1>12. TypeOK'
  <2>1. \A q \in Porteurs : EstTravail(q, travaux'[q])
    BY <1>11, Porteur DEF Invariant, EstTravail
  <2>2. DOMAIN travaux' = Porteurs
    BY DEF Invariant, TypeOK, Creer, Porteurs
  <2>3. delegations' \in [Ids -> Delegation \cup {Absente}]
    BY <1>0, <1>1, <1>2 DEF Invariant, TypeOK
  <2>. QED  BY <1>9, <2>1, <2>2, <2>3 DEF Invariant, TypeOK, Creer, envois, histoire, Porteurs
<1>13. SourcesTenues'
  <2>1. ASSUME NEW s, NEW u, SourceDe(s, u) PROVE SourceDe(s, u)'
    BY <1>10, <2>1 DEF SourceDe
  <2>. QED  BY <1>3, <1>5, <1>11, <2>1 DEF Invariant, SourcesTenues
<1>14. MiroirsConformes'
  <2>. SUFFICES ASSUME NEW e \in Ids, NEW n \in 1..LignesMax, Ligne(<<e, n>>)'
       PROVE  Existe(e)' /\ MiroirDe(perimetres[<<e, n>>], delegations[e], n)'
    BY DEF MiroirsConformes
  <2>1. <<e, n>> \in Cles /\ <<0, n>> \in Cles \ Miroirs
    BY BornesDelegations DEF Cles, Ids, Miroirs
  <2>2. CASE e = d
    <3>1. perimetres'[<<0, n>>] = perimetres[<<0, n>>] /\ delegations'[e] = x /\ Existe(e)'
      BY <1>5, <1>10, <2>1, <2>2
    <3>. QED  BY <1>7, <2>2, <3>1 DEF MiroirDe
  <2>3. CASE e # d
    <3>1. perimetres'[<<e, n>>] = perimetres[<<e, n>>]
      BY <1>6, <2>1, <2>3
    <3>2. Existe(e) /\ MiroirDe(perimetres[<<e, n>>], delegations[e], n)
      BY <3>1 DEF Invariant, MiroirsConformes, Ligne
    <3>. QED  BY <1>5, <1>10, <2>1, <2>3, <3>1, <3>2 DEF MiroirDe
  <2>. QED  BY <2>2, <2>3
<1>15. LecturesConnues'
  <2>. SUFFICES ASSUME NEW q \in Porteurs, NEW e \in Tenues(q)'
       PROVE  Connue(q, e, travaux[q].lues[e])'
    BY DEF LecturesConnues
  <2>1. e \in Tenues(q) /\ travaux'[q] = travaux[q]
    BY <1>11 DEF Tenues
  <2>2. Connue(q, e, travaux[q].lues[e]) /\ e \in Ids /\ perimes' = perimes
    BY <2>1, Porteur, Formes DEF Invariant, LecturesConnues, Creer, histoire
  <2>3. e # d
    BY <1>0, <2>2 DEF Connue
  <2>. QED  BY <1>5, <2>1, <2>2, <2>3 DEF Connue, Fixe
<1>16. MiroirsSuivent'
  <2>. SUFFICES ASSUME NEW e \in Ids, NEW n \in 1..LignesMax
       PROVE  /\ perimetres'[<<e, n>>].actif => delegations'[e].actif
              /\ delegations'[e].actif /\ Ligne(<<e, n>>)' /\ e \notin chevauchees'
                   => perimetres'[<<e, n>>].actif \/ <<e, n>> \in retires'
    BY DEF MiroirsSuivent
  <2>1. <<e, n>> \in Cles
    BY DEF Cles, Ids
  <2>2. CASE e = d
    <3>1. x.actif
      BY <1>1, <1>2 DEF Invariant, SourcesTenues
    <3>. QED  BY <1>5, <1>7, <2>2, <3>1
  <2>3. CASE e # d
    BY <1>5, <1>6, <2>1, <2>3 DEF Invariant, MiroirsSuivent, Ligne, Creer, histoire
  <2>. QED  BY <2>2, <2>3
<1>17. RappelsComptes'
  <2>1. \A q \in Rappels : q \in Porteurs /\ q # r
    BY BornesDelegations DEF Porteurs, Taches
  <2>2. \A q \in Rappels : travaux'[q] = travaux[q]
    BY <1>11, <2>1
  <2>3. UNCHANGED envois /\ UNCHANGED pannes
    BY DEF Creer
  <2>4. \A e \in Ids : Existe(e) => Existe(e)' /\ delegations'[e] = delegations[e]
    BY <1>0, <1>5
  <2>. QED  BY <1>5, <2>2, <2>3, <2>4, PasHorsRappel DEF ARappeler
<1>. QED  BY <1>12, <1>13, <1>14, <1>15, <1>16, <1>17 DEF Invariant

-----------------------------------------------------------------------------
(* The rows of user_perimetres: one is added beside the mirrors, or one is    *)
(* taken back.                                                               *)
LEMMA PasPerimetres ==
  ASSUME Invariant, perimetres' \in [Cles -> Lignes \cup {Absente}], retires' \subseteq Cles,
         UNCHANGED <<jour, delegations, etats, travaux, envois, pannes, histoire>>,
         retires \subseteq retires',
         \A k \in Cles : Ligne(k) =>
           /\ Ligne(k)'
           /\ perimetres'[k].user = perimetres[k].user /\ perimetres'[k].cible = perimetres[k].cible
           /\ perimetres'[k].origine = perimetres[k].origine
           /\ perimetres'[k].debut = perimetres[k].debut /\ perimetres'[k].fin = perimetres[k].fin
           /\ perimetres'[k].actif => perimetres[k].actif
           /\ perimetres[k].actif => perimetres'[k].actif \/ k \in retires',
         \A k \in Miroirs : Ligne(k)' => Ligne(k)
  PROVE  Invariant'
<1>1. /\ delegations' = delegations /\ travaux' = travaux /\ perimes' = perimes
      /\ chevauchees' = chevauchees /\ pannes' = pannes /\ courriels' = courriels
      /\ croisements' = croisements
      /\ \A d \in Ids : Existe(d)' <=> Existe(d)
      /\ \A r \in Porteurs : Tenues(r)' = Tenues(r)
  BY DEF histoire, envois, Existe, Tenues
<1>2. TypeOK'
  BY <1>1 DEF Invariant, TypeOK
<1>3. SourcesTenues'
  <2>1. ASSUME NEW s, NEW u, SourceDe(s, u) PROVE SourceDe(s, u)'
    BY <2>1 DEF SourceDe
  <2>. QED  BY <1>1, <2>1 DEF Invariant, SourcesTenues
<1>4. \A d \in Ids, n \in 1..LignesMax : <<d, n>> \in Miroirs /\ <<d, n>> \in Cles
  BY DEF Cles, Ids, Miroirs
<1>5. MiroirsConformes'
  <2>. SUFFICES ASSUME NEW d \in Ids, NEW n \in 1..LignesMax, Ligne(<<d, n>>)'
       PROVE  Existe(d)' /\ MiroirDe(perimetres[<<d, n>>], delegations[d], n)'
    BY DEF MiroirsConformes
  <2>1. Ligne(<<d, n>>) /\ Existe(d) /\ MiroirDe(perimetres[<<d, n>>], delegations[d], n)
    BY <1>4 DEF Invariant, MiroirsConformes
  <2>2. <<0, n>> \in Cles /\ Ligne(<<0, n>>)
    BY <2>1 DEF Invariant, SourcesTenues, SourceDe, MiroirDe
  <2>. QED  BY <1>1, <1>4, <2>1, <2>2 DEF MiroirDe
<1>6. LecturesConnues'
  <2>. SUFFICES ASSUME NEW r \in Porteurs, NEW d \in Tenues(r)
       PROVE  Connue(r, d, travaux[r].lues[d])'
    BY <1>1 DEF LecturesConnues
  <2>1. Connue(r, d, travaux[r].lues[d]) /\ d \in Ids
    BY Porteur, Formes DEF Invariant, LecturesConnues
  <2>. QED  BY <1>1, <2>1 DEF Connue, Fixe
<1>7. MiroirsSuivent'
  <2>. SUFFICES ASSUME NEW d \in Ids, NEW n \in 1..LignesMax
       PROVE  /\ perimetres'[<<d, n>>].actif => delegations'[d].actif
              /\ delegations'[d].actif /\ Ligne(<<d, n>>)' /\ d \notin chevauchees'
                   => perimetres'[<<d, n>>].actif \/ <<d, n>> \in retires'
    BY DEF MiroirsSuivent
  <2>1. CASE Ligne(<<d, n>>)
    BY <1>1, <1>4, <2>1 DEF Invariant, MiroirsSuivent
  <2>2. CASE ~ Ligne(<<d, n>>)
    <3>1. ~ Ligne(<<d, n>>)' /\ perimetres'[<<d, n>>] = Absente
      BY <1>4, <2>2 DEF Ligne
    <3>. QED  BY <3>1
  <2>. QED  BY <2>1, <2>2
<1>8. RappelsComptes'
  <2>1. \A d \in Ids : ARappeler(d)' <=> ARappeler(d)
    BY <1>1 DEF ARappeler
  <2>. QED  BY <1>1, <2>1, PasHorsRappel DEF envois
<1>. QED  BY <1>2, <1>3, <1>5, <1>6, <1>7, <1>8 DEF Invariant

LEMMA PasAffecter ==
  ASSUME Invariant, NEW a \in Attributions, NEW n \in 1..LignesMax, Affecter(a[1], a[2], a[3], n)
  PROVE  Invariant'
<1>1. <<0, n>> \in Cles /\ <<0, n>> \notin Miroirs
  BY BornesDelegations DEF Cles, Ids, Miroirs
<1>2. PICK l : /\ l = [user |-> a[1], cible |-> a[2], origine |-> a[3], debut |-> jour,
                      fin |-> SansFin, actif |-> TRUE]
  OBVIOUS
<1>3. l \in Lignes
  <2>1. a[1] \in Utilisateurs /\ a[2] \in Cibles /\ a[3] \in {"PRINCIPAL", "AFFECTATION", "DELEGATION"}
    BY BornesDelegations
  <2>2. jour \in Jours
    BY DEF Invariant, TypeOK
  <2>. QED  BY <1>2, <2>1, <2>2 DEF Lignes
<1>4. perimetres' = [perimetres EXCEPT ![<<0, n>>] = l] /\ ~ Ligne(<<0, n>>)
  BY <1>2 DEF Affecter
<1>5. perimetres' \in [Cles -> Lignes \cup {Absente}]
  BY <1>1, <1>3, <1>4 DEF Invariant, TypeOK
<1>6. \A k \in Cles : k # <<0, n>> => perimetres'[k] = perimetres[k]
  BY <1>4 DEF Invariant, TypeOK
<1>7. \A k \in Miroirs : Ligne(k)' => Ligne(k)
  <2>1. \A k \in Miroirs : k \in Cles /\ k # <<0, n>>
    BY <1>1 DEF Miroirs, Cles, Ids
  <2>. QED  BY <1>6, <2>1 DEF Ligne
<1>8. \A k \in Cles : Ligne(k) => perimetres'[k] = perimetres[k] /\ Ligne(k)'
  BY <1>4, <1>6 DEF Ligne
<1>9. retires' = retires /\ retires \subseteq Cles
      /\ UNCHANGED <<jour, delegations, etats, travaux, envois, pannes, histoire>>
  BY DEF Affecter, Invariant, TypeOK
<1>. QED  BY <1>5, <1>7, <1>8, <1>9, PasPerimetres

LEMMA PasRetirer ==
  ASSUME Invariant, NEW k \in Retraits, Retirer(k)
  PROVE  Invariant'
<1>0. k \in Cles
  BY BornesDelegations DEF Cles
<1>1. perimetres[k] \in Lignes
  BY <1>0 DEF Retirer, Ligne, Invariant, TypeOK
<1>2. PICK l : l = [perimetres[k] EXCEPT !.actif = FALSE]
  OBVIOUS
<1>3. /\ l \in Lignes /\ ~ l.actif /\ l.user = perimetres[k].user /\ l.cible = perimetres[k].cible
      /\ l.origine = perimetres[k].origine /\ l.debut = perimetres[k].debut /\ l.fin = perimetres[k].fin
      /\ l # Absente
  BY <1>1, <1>2 DEF Lignes
<1>4. /\ perimetres' = [perimetres EXCEPT ![k] = l]
      /\ \A j \in Cles : perimetres'[j] = IF j = k THEN l ELSE perimetres[j]
  BY <1>0, <1>2 DEF Retirer, Invariant, TypeOK
<1>5. perimetres' \in [Cles -> Lignes \cup {Absente}]
  BY <1>0, <1>3, <1>4 DEF Invariant, TypeOK
<1>6. \A j \in Miroirs : Ligne(j)' => Ligne(j)
  <2>1. \A j \in Miroirs : j \in Cles
    BY DEF Miroirs, Cles, Ids
  <2>. QED  BY <1>4, <2>1 DEF Ligne, Retirer
<1>7. \A j \in Cles : Ligne(j) =>
        /\ Ligne(j)'
        /\ perimetres'[j].user = perimetres[j].user /\ perimetres'[j].cible = perimetres[j].cible
        /\ perimetres'[j].origine = perimetres[j].origine
        /\ perimetres'[j].debut = perimetres[j].debut /\ perimetres'[j].fin = perimetres[j].fin
        /\ perimetres'[j].actif => perimetres[j].actif
        /\ perimetres[j].actif => perimetres'[j].actif \/ j = k
  BY <1>3, <1>4 DEF Ligne
<1>8. /\ retires' = retires \cup {k} /\ retires \subseteq Cles
      /\ UNCHANGED <<jour, delegations, etats, travaux, envois, pannes, histoire>>
  BY <1>0 DEF Retirer, Invariant, TypeOK
<1>. QED  BY <1>0, <1>5, <1>6, <1>7, <1>8, PasPerimetres

-----------------------------------------------------------------------------
(* The handlers that read.                                                  *)
LEMMA PasCommencer ==
  ASSUME Invariant, NEW r \in Porteurs, NEW t, Commencer(r, t), Fidele(r, t),
         r \in Rappels => t.envoye = FALSE /\ TenuesDe(t) = {}
  PROVE  Invariant'
<1>1. Changement(r, t) /\ perimes' = perimes
  BY DEF Commencer, Changement, histoire
<1>2. UNCHANGED envois /\ UNCHANGED pannes /\ delegations' = delegations
      /\ courriels' \in [Ids -> Nat] /\ croisements' \in [Ids -> Nat] /\ pannes' \in 0..PannesMax
  BY DEF Commencer, tables, envois, Invariant, TypeOK
<1>3. TypeOK' /\ SourcesTenues' /\ MiroirsConformes' /\ LecturesConnues' /\ MiroirsSuivent'
  BY <1>1, <1>2, PasSansCommit
<1>4. /\ \A q \in Porteurs : travaux'[q] = IF q = r THEN t ELSE travaux[q]
      /\ travaux[r] = Libre /\ \A q \in Rappels : q \in Porteurs
  BY DEF Porteurs, Taches, Commencer, Invariant, TypeOK
<1>5. \A d \in Ids : (Existe(d)' <=> Existe(d)) /\ (ARappeler(d)' <=> ARappeler(d))
  BY <1>2 DEF Existe, ARappeler
<1>6. RappelsComptes'
  <2>1. \A q \in Rappels : Tenues(q)' = Tenues(q) /\ \A d \in Tenues(q)' : travaux'[q] = travaux[q]
    BY <1>4 DEF Tenues, TenuesDe
  <2>2. pannes \in Nat
    BY DEF Invariant, TypeOK
  <2>. QED  BY <1>2, <1>5, <2>1, <2>2, PasSansRappel
<1>. QED  BY <1>3, <1>6 DEF Invariant

LEMMA PasDemanderCreation ==
  ASSUME Invariant, NEW r \in Requetes, NEW u \in Utilisateurs, NEW v \in Utilisateurs,
         NEW S \in SUBSET Cles, NEW p \in Periodes, DemanderCreation(r, u, v, S, p)
  PROVE  Invariant'
<1>1. PICK x : x = [delegant |-> u, delegataire |-> v, sources |-> S, debut |-> p.debut, fin |-> p.fin,
                    actif |-> TRUE, revoquee |-> FALSE, rappelee |-> FALSE]
  OBVIOUS
<1>2. x \in Delegation /\ x.actif /\ x.sources = S /\ x.delegant = u
  <2>1. p.debut \in Jours /\ p.fin \in Jours
    BY BornesDelegations
  <2>. QED  BY <1>1, <2>1 DEF Delegation
<1>3. PICK t : t = [op |-> "creer", image |-> x]
  OBVIOUS
<1>4. r \in Porteurs /\ r \notin Rappels /\ Commencer(r, t)
  BY <1>1, <1>3, BornesDelegations DEF DemanderCreation, Porteurs, Taches
<1>5. EstTravail(r, t) /\ t.op = "creer" /\ t.image = x
  BY <1>2, <1>3 DEF EstTravail
<1>6. \A s \in S : SourceDe(s, u)
  <2>. SUFFICES ASSUME NEW s \in S PROVE SourceDe(s, u)
    OBVIOUS
  <2>1. s \in Cles /\ Ligne(s) /\ perimetres[s].user = u /\ perimetres[s].origine # "DELEGATION"
    BY DEF DemanderCreation, Delegable
  <2>2. s \notin Miroirs
    <3>1. SUFFICES ASSUME s \in Miroirs PROVE FALSE
      OBVIOUS
    <3>2. s[1] \in Ids /\ s[2] \in 1..LignesMax /\ s = <<s[1], s[2]>>
      BY <3>1 DEF Miroirs
    <3>3. MiroirDe(perimetres[s], delegations[s[1]], s[2])
      BY <2>1, <3>2 DEF Invariant, MiroirsConformes
    <3>. QED  BY <2>1, <3>3 DEF MiroirDe
  <2>. QED  BY <2>1, <2>2 DEF SourceDe
<1>7. Fidele(r, t)
  BY <1>2, <1>5, <1>6, Formes DEF Fidele
<1>. QED  BY <1>4, <1>7, PasCommencer

(* What is read of the table is what the table says.                         *)
LEMMA LectureFidele ==
  ASSUME Invariant, NEW r, NEW S \in SUBSET Ids, \A d \in S : Existe(d) /\ delegations[d].actif,
         NEW t, EstTravail(r, t), t.op # "creer", t.lues = [d \in S |-> delegations[d]]
  PROVE  Fidele(r, t)
<1>1. \A d \in TenuesDe(t) : d \in S /\ t.lues[d] = delegations[d]
  BY DEF TenuesDe
<1>. QED  BY <1>1 DEF Fidele

LEMMA LectureTypee ==
  ASSUME Invariant, NEW S \in SUBSET Ids, \A d \in S : Existe(d)
  PROVE  EstLecture([d \in S |-> delegations[d]])
BY DEF EstLecture, Invariant, TypeOK, Existe

LEMMA PasDemanderRevocation ==
  ASSUME Invariant, NEW r \in Requetes, NEW d \in Ids, DemanderRevocation(r, d)
  PROVE  Invariant'
<1>1. PICK f : f = [x \in {d} |-> delegations[x]]
  OBVIOUS
<1>2. PICK t : t = [op |-> "revoquer", lues |-> f]
  OBVIOUS
<1>3. r \in Porteurs /\ r \notin Rappels /\ Commencer(r, t)
  BY <1>1, <1>2, BornesDelegations DEF DemanderRevocation, Porteurs, Taches
<1>4. EstLecture(f)
  BY <1>1, LectureTypee DEF DemanderRevocation
<1>5. EstTravail(r, t) /\ t.op # "creer" /\ t.lues = f
  BY <1>2, <1>4 DEF EstTravail
<1>6. Fidele(r, t)
  BY <1>1, <1>5, LectureFidele DEF DemanderRevocation
<1>. QED  BY <1>3, <1>6, PasCommencer

LEMMA PasLireExpirations ==
  ASSUME Invariant, NEW r \in Taches, LireExpirations(r)
  PROVE  Invariant'
<1>1. PICK f : f = [x \in Echues |-> delegations[x]]
  OBVIOUS
<1>2. PICK t : t = [op |-> "expirer", lues |-> f]
  OBVIOUS
<1>3. r \in Porteurs /\ r \in Expirations /\ r \notin Rappels /\ Commencer(r, t)
  BY <1>1, <1>2, BornesDelegations DEF LireExpirations, Porteurs
<1>4. EstLecture(f)
  BY <1>1, LectureTypee DEF Echues
<1>5. EstTravail(r, t) /\ t.op # "creer" /\ t.lues = f
  BY <1>2, <1>3, <1>4 DEF EstTravail
<1>6. Fidele(r, t)
  BY <1>1, <1>5, LectureFidele DEF Echues
<1>. QED  BY <1>3, <1>6, PasCommencer

(* The reminder that holds nothing: as it reads the ids, or goes on.          *)
LEMMA RappelVide ==
  ASSUME NEW r \in Rappels, NEW S \in SUBSET Ids, NEW t,
         t = Libre \/ t = [op |-> "rappeler", restent |-> S, envoye |-> FALSE, lues |-> [d \in {} |-> Absente]]
  PROVE  EstTravail(r, t) /\ TenuesDe(t) = {} /\ t.op # "creer"
<1>1. CASE t = Libre
  BY <1>1 DEF EstTravail, TenuesDe
<1>2. CASE t # Libre
  <2>1. PICK f : f = [d \in {} |-> Absente]
    OBVIOUS
  <2>2. DOMAIN f = {} /\ f \in [{} -> Delegation]
    BY <2>1
  <2>3. EstLecture(f)
    BY <2>2 DEF EstLecture
  <2>4. t = [op |-> "rappeler", restent |-> S, envoye |-> FALSE, lues |-> f]
    BY <1>2, <2>1
  <2>. QED  BY <2>2, <2>3, <2>4 DEF EstTravail, TenuesDe
<1>. QED  BY <1>1, <1>2

LEMMA PasLireRappels ==
  ASSUME Invariant, NEW r \in Taches, LireRappels(r)
  PROVE  Invariant'
<1>1. PICK S \in SUBSET Ids : Commencer(r, [op |-> "rappeler", restent |-> S, envoye |-> FALSE,
                                            lues |-> [d \in {} |-> Absente]])
  BY DEF LireRappels
<1>2. PICK t : t = [op |-> "rappeler", restent |-> S, envoye |-> FALSE, lues |-> [d \in {} |-> Absente]]
  OBVIOUS
<1>3. r \in Rappels /\ r \in Porteurs
  BY DEF LireRappels, Porteurs
<1>4. Fidele(r, t) /\ TenuesDe(t) = {} /\ t.envoye = FALSE /\ Commencer(r, t)
  BY <1>1, <1>2, <1>3, RappelVide DEF Fidele
<1>. QED  BY <1>3, <1>4, PasCommencer

(* A run that holds nothing takes a delegation: the one more to send is        *)
(* accounted for, by the run being alone or by the crossing.                  *)
LEMMA PasPrendreRappel ==
  ASSUME Invariant, NEW r \in Taches, NEW d \in Ids, PrendreRappel(r, d)
  PROVE  Invariant'
<1>. DEFINE avant == travaux[r]
<1>0. r \in Rappels /\ r \in Porteurs /\ \A q \in Rappels : q \in Porteurs
  BY DEF Porteurs, Taches, PrendreRappel
<1>1. /\ EstTravail(r, avant) /\ avant # Libre /\ avant.op = "rappeler"
      /\ Tenues(r) = {} /\ TenuesDe(avant) = {}
      /\ avant.restent \subseteq Ids /\ d \in avant.restent
  BY <1>0, Porteur, Formes DEF Invariant, PrendreRappel
<1>2. PICK t : /\ travaux' = [travaux EXCEPT ![r] = t]
               /\ t = IF ARappeler(d)
                      THEN [avant EXCEPT !.restent = @ \ {d}, !.lues = [x \in {d} |-> delegations[x]]]
                      ELSE Suite(avant.restent \ {d})
  BY DEF PrendreRappel
<1>3. /\ Changement(r, t) /\ perimes' = perimes
      /\ courriels' = courriels /\ pannes' = pannes /\ delegations' = delegations
  BY <1>2 DEF PrendreRappel, Changement, histoire, tables
<1>4. /\ courriels \in [Ids -> Nat] /\ pannes \in 0..PannesMax /\ croisements \in [Ids -> Nat]
      /\ croisements' \in [Ids -> Nat]
      /\ croisements' = IF ARappeler(d) /\ Preneurs(d) # {}
                         THEN [croisements EXCEPT ![d] = @ + 1] ELSE croisements
  BY DEF Invariant, TypeOK, PrendreRappel
<1>5. \A q \in Rappels : /\ travaux'[q] = IF q = r THEN t ELSE travaux[q]
                         /\ Tenues(q)' = IF q = r THEN TenuesDe(t) ELSE Tenues(q)
  BY <1>0, <1>2 DEF Tenues, TenuesDe, Invariant, TypeOK, Porteurs
<1>8. \A e \in Ids : (Existe(e)' <=> Existe(e)) /\ (ARappeler(e)' <=> ARappeler(e))
  BY <1>3 DEF Existe, ARappeler
<1>6. CASE ~ ARappeler(d)
  <2>1. EstTravail(r, t) /\ TenuesDe(t) = {} /\ t.op # "creer"
    <3>1. PICK S \in SUBSET Ids : S = avant.restent \ {d}
      BY <1>1
    <3>. QED  BY <1>0, <1>2, <1>6, <3>1, RappelVide DEF Suite
  <2>2. Fidele(r, t)
    BY <2>1 DEF Fidele
  <2>3. TypeOK' /\ SourcesTenues' /\ MiroirsConformes' /\ LecturesConnues' /\ MiroirsSuivent'
    BY <1>0, <1>3, <1>4, <2>2, PasSansCommit
  <2>4. RappelsComptes'
    <3>1. /\ \A q \in Rappels : Tenues(q)' = Tenues(q)
          /\ \A q \in Rappels : \A e \in Tenues(q)' : travaux'[q] = travaux[q]
      BY <1>1, <1>5, <2>1
    <3>2. UNCHANGED envois /\ pannes \in Nat
      BY <1>3, <1>4, <1>6 DEF envois
    <3>. QED  BY <1>3, <1>8, <3>1, <3>2, PasSansRappel
  <2>. QED  BY <2>3, <2>4 DEF Invariant
<1>7. CASE ARappeler(d)
  <2>1. Existe(d)
    BY <1>7 DEF ARappeler, Existe
  <2>2. PICK f : f = [x \in {d} |-> delegations[x]]
    OBVIOUS
  <2>3. EstLecture(f)
    BY <2>1, <2>2, LectureTypee
  <2>4. PICK S : S = avant.restent \ {d}
    OBVIOUS
  <2>5. avant = [op |-> "rappeler", restent |-> avant.restent, envoye |-> avant.envoye, lues |-> avant.lues]
    BY <1>1 DEF EstTravail
  <2>6. t = [op |-> "rappeler", restent |-> S, envoye |-> avant.envoye, lues |-> f] /\ avant.envoye \in BOOLEAN
    <3>1. t = [avant EXCEPT !.restent = S, !.lues = f]
      BY <1>2, <1>7, <2>2, <2>4
    <3>. QED  BY <1>1, <2>5, <3>1 DEF EstTravail
  <2>7. EstTravail(r, t) /\ t.op # "creer" /\ t.lues = f /\ TenuesDe(t) = {d}
    BY <1>0, <1>1, <2>2, <2>3, <2>4, <2>6 DEF EstTravail, TenuesDe
  <2>8. Fidele(r, t)
    BY <1>7, <2>1, <2>2, <2>7, LectureFidele DEF ARappeler
  <2>9. TypeOK' /\ SourcesTenues' /\ MiroirsConformes' /\ LecturesConnues' /\ MiroirsSuivent'
    BY <1>0, <1>3, <1>4, <2>8, PasSansCommit
  <2>10. \A q \in Rappels : \A e, g \in Tenues(q)' : e = g
    BY <1>5, <2>7 DEF Invariant, RappelsComptes
  <2>11. ASSUME NEW e \in Ids
         PROVE  /\ ~ Existe(e)' => courriels'[e] = 0
                /\ courriels'[e] + Cardinality(Attente(e)') <= 1 + pannes' + croisements'[e]
                /\ Existe(e)' /\ ARappeler(e)' /\ Preneurs(e)' = {} => courriels'[e] <= pannes' + croisements'[e]
    <3>1. /\ courriels[e] \in Nat /\ croisements[e] \in Nat /\ croisements'[e] \in Nat /\ pannes \in Nat
          /\ courriels'[e] = courriels[e]
      BY <1>3, <1>4
    <3>2. Attente(e) \in SUBSET Rappels
      BY DEF Attente, Preneurs
    <3>3. PICK n \in Nat : n = Cardinality(Attente(e))
      BY <3>2, Tailles
    <3>4. /\ ~ Existe(e) => courriels[e] = 0
          /\ courriels[e] + n <= 1 + pannes + croisements[e]
          /\ Existe(e) /\ ARappeler(e) /\ Preneurs(e) = {} => courriels[e] <= pannes + croisements[e]
      BY <3>3 DEF Invariant, RappelsComptes
    <3>5. CASE e # d
      <4>1. Preneurs(e)' = Preneurs(e)
        BY <1>1, <1>5, <2>7, <3>5 DEF Preneurs
      <4>2. Attente(e)' = Attente(e)
        BY <1>1, <1>5, <3>5, <4>1 DEF Attente, Preneurs
      <4>3. croisements'[e] = croisements[e]
        BY <1>4, <3>5
      <4>. QED  BY <1>3, <1>8, <3>1, <3>3, <3>4, <4>1, <4>2, <4>3
    <3>6. CASE e = d
      <4>1. r \in Preneurs(d)' /\ r \notin Preneurs(d) /\ r \notin Attente(d)
        BY <1>0, <1>1, <1>5, <2>7 DEF Preneurs, Attente
      <4>2. Attente(d)' \in SUBSET (Attente(d) \cup {r})
        BY <1>5 DEF Attente, Preneurs
      <4>3. PICK m \in Nat : m = Cardinality(Attente(d)') /\ m <= n + 1
        <5>1. Cardinality(Attente(d) \cup {r}) = n + 1 /\ Attente(d) \cup {r} \in SUBSET Rappels
          BY <1>0, <3>2, <3>3, <3>6, <4>1, Tailles
        <5>. QED  BY <4>2, <5>1, Tailles
      <4>4. CASE Preneurs(d) = {}
        <5>1. n = 0
          BY <3>3, <3>6, <4>4, FS_EmptySet DEF Attente
        <5>2. courriels[d] <= pannes + croisements[d]
          BY <1>7, <2>1, <3>4, <3>6, <4>4
        <5>3. croisements'[d] = croisements[d]
          BY <1>4, <4>4
        <5>. QED  BY <1>3, <1>8, <2>1, <3>1, <3>6, <4>1, <4>3, <5>1, <5>2, <5>3
      <4>5. CASE Preneurs(d) # {}
        <5>1. croisements'[d] = croisements[d] + 1
          BY <1>4, <1>7, <4>5
        <5>. QED  BY <1>3, <1>8, <2>1, <3>1, <3>4, <3>6, <4>1, <4>3, <5>1
      <4>. QED  BY <4>4, <4>5
    <3>. QED  BY <3>5, <3>6
  <2>12. RappelsComptes'
    BY <2>10, <2>11 DEF RappelsComptes
  <2>. QED  BY <2>9, <2>12 DEF Invariant
<1>. QED  BY <1>6, <1>7

(* The e-mails of a run leave: one more is sent, one less is to be sent.      *)
LEMMA PasEnvoyerRappel ==
  ASSUME Invariant, NEW r \in Taches, NEW d \in Ids, EnvoyerRappel(r, d)
  PROVE  Invariant'
<1>. DEFINE avant == travaux[r]
<1>0. r \in Rappels /\ r \in Porteurs /\ \A q \in Rappels : q \in Porteurs
  BY DEF Porteurs, Taches, EnvoyerRappel
<1>1. /\ EstTravail(r, avant) /\ avant.op = "rappeler" /\ d \in TenuesDe(avant)
      /\ Tenues(r) = TenuesDe(avant) /\ ~ avant.envoye
  <2>1. EstTravail(r, avant) /\ d \in TenuesDe(avant) /\ Tenues(r) = TenuesDe(avant)
    BY <1>0, Porteur DEF Invariant, EnvoyerRappel
  <2>2. TenuesDe(avant) # {}
    BY <2>1
  <2>3. avant # Libre
    BY <2>1, <2>2, Formes
  <2>. QED  BY <1>0, <2>1, <2>3, Formes DEF EnvoyerRappel
<1>2. PICK S, f : avant = [op |-> "rappeler", restent |-> S, envoye |-> FALSE, lues |-> f]
      /\ S \subseteq Ids /\ EstLecture(f)
  BY <1>1 DEF EstTravail
<1>3. PICK t : t = [avant EXCEPT !.envoye = TRUE]
  OBVIOUS
<1>4. /\ t = [op |-> "rappeler", restent |-> S, envoye |-> TRUE, lues |-> f]
      /\ t.lues = avant.lues /\ avant.lues = f
  <2>1. avant \in [op : {"rappeler"}, restent : {S}, envoye : BOOLEAN, lues : {f}]
    BY <1>2
  <2>2. t \in [op : {"rappeler"}, restent : {S}, envoye : BOOLEAN, lues : {f}] /\ t.envoye = TRUE
    BY <1>3, <2>1
  <2>3. t = [op |-> "rappeler", restent |-> S, envoye |-> TRUE, lues |-> f]
    BY <2>2
  <2>. QED  BY <1>2, <2>3
<1>5. EstTravail(r, t) /\ t.op # "creer" /\ TenuesDe(t) = TenuesDe(avant) /\ t.envoye
  BY <1>0, <1>1, <1>2, <1>4 DEF EstTravail, TenuesDe
<1>6. /\ Changement(r, t) /\ perimes' = perimes /\ pannes' = pannes /\ delegations' = delegations
      /\ courriels' = [courriels EXCEPT ![d] = @ + 1] /\ croisements' = croisements
      /\ travaux' = [travaux EXCEPT ![r] = t]
  BY <1>3 DEF EnvoyerRappel, Changement, histoire, tables
<1>7. Fidele(r, t)
  BY <1>1, <1>4, <1>5, <1>6 DEF Fidele
<1>8. /\ courriels \in [Ids -> Nat] /\ courriels' \in [Ids -> Nat] /\ pannes \in 0..PannesMax
      /\ croisements' \in [Ids -> Nat] /\ pannes \in Nat
      /\ \A e \in Ids : /\ courriels'[e] = IF e = d THEN courriels[e] + 1 ELSE courriels[e]
                        /\ courriels[e] \in Nat /\ croisements[e] \in Nat
  <2>1. courriels \in [Ids -> Nat] /\ croisements \in [Ids -> Nat] /\ pannes \in 0..PannesMax
    BY DEF Invariant, TypeOK
  <2>2. courriels' \in [Ids -> Nat] /\ \A e \in Ids : courriels[e] \in Nat /\ croisements[e] \in Nat
    BY <1>6, <2>1
  <2>3. \A e \in Ids : courriels'[e] = IF e = d THEN courriels[e] + 1 ELSE courriels[e]
    BY <1>6, <2>1
  <2>4. pannes \in Nat
    BY <2>1
  <2>. QED  BY <1>6, <2>1, <2>2, <2>3, <2>4
<1>9. TypeOK' /\ SourcesTenues' /\ MiroirsConformes' /\ LecturesConnues' /\ MiroirsSuivent'
  BY <1>0, <1>6, <1>7, <1>8, PasSansCommit
<1>10. RappelsComptes'
  <2>1. \A q \in Rappels : travaux'[q] = IF q = r THEN t ELSE travaux[q]
    BY <1>0, <1>6 DEF Invariant, TypeOK, Porteurs
  <2>2. \A q \in Rappels : Tenues(q)' = Tenues(q)
    BY <1>1, <1>5, <2>1 DEF Tenues, TenuesDe
  <2>3. \A e \in Ids : (Existe(e)' <=> Existe(e)) /\ (ARappeler(e)' <=> ARappeler(e))
    BY <1>6 DEF Existe, ARappeler
  <2>4. \A e \in Tenues(r) : e = d
    BY <1>0, <1>1 DEF Invariant, RappelsComptes
  <2>5. Existe(d)
    BY <1>0, <1>1 DEF Invariant, LecturesConnues, Connue
  <2>6. \A e \in Ids : Preneurs(e)' = Preneurs(e) /\ Attente(e)' = Attente(e) \ {r}
    BY <1>5, <2>1, <2>2 DEF Preneurs, Attente
  <2>7. r \in Attente(d) /\ r \in Preneurs(d) /\ \A e \in Ids : e # d => r \notin Attente(e)
    BY <1>0, <1>1, <2>4 DEF Attente, Preneurs
  <2>8. ASSUME NEW e \in Ids
        PROVE  /\ ~ Existe(e)' => courriels'[e] = 0
               /\ courriels'[e] + Cardinality(Attente(e)') <= 1 + pannes' + croisements'[e]
               /\ Existe(e)' /\ ARappeler(e)' /\ Preneurs(e)' = {} => courriels'[e] <= pannes' + croisements'[e]
    <3>1. Attente(e) \in SUBSET Rappels
      BY DEF Attente, Preneurs
    <3>2. PICK n \in Nat : n = Cardinality(Attente(e))
      BY <3>1, Tailles
    <3>3. /\ ~ Existe(e) => courriels[e] = 0
          /\ courriels[e] + n <= 1 + pannes + croisements[e]
          /\ Existe(e) /\ ARappeler(e) /\ Preneurs(e) = {} => courriels[e] <= pannes + croisements[e]
      BY <3>2 DEF Invariant, RappelsComptes
    <3>4. CASE e = d
      <4>1. Cardinality(Attente(e)') = n - 1
        BY <2>6, <2>7, <3>1, <3>2, <3>4, Tailles
      <4>2. Preneurs(e)' # {} /\ Existe(e)'
        BY <2>3, <2>5, <2>6, <2>7, <3>4
      <4>. QED  BY <1>6, <1>8, <3>3, <3>4, <4>1, <4>2
    <3>5. CASE e # d
      <4>1. Attente(e)' = Attente(e)
        BY <2>6, <2>7, <3>5
      <4>. QED  BY <1>6, <1>8, <2>3, <2>6, <3>2, <3>3, <3>5, <4>1
    <3>. QED  BY <3>4, <3>5
  <2>. QED  BY <2>2, <2>8 DEF Invariant, RappelsComptes
<1>. QED  BY <1>9, <1>10 DEF Invariant

-----------------------------------------------------------------------------
(* The handlers that save.                                                  *)
LEMMA SansReactivation ==
  ASSUME Invariant, NEW r \in Porteurs, NEW d \in Tenues(r), NEW tout \in BOOLEAN, NEW t,
         Sauvegarde(r, d, tout, t)
  PROVE  \A e \in Ids : /\ Existe(e) <=> Existe(e)'
                        /\ e # d => delegations'[e] = delegations[e]
                        /\ ~ ARappeler(d)'
<1>1. PICK y : y = delegations'[d]
  OBVIOUS
<1>2. d \in Ids /\ Existe(d) /\ y \in Delegation /\ delegations' = [delegations EXCEPT ![d] = y]
      /\ (~ y.actif \/ y.rappelee)
  BY <1>1, Sauvee
<1>3. \A e \in Ids : delegations'[e] = IF e = d THEN y ELSE delegations[e]
  BY <1>2 DEF Invariant, TypeOK
<1>4. y # Absente
  BY <1>2 DEF Delegation
<1>. QED  BY <1>2, <1>3, <1>4 DEF Existe, ARappeler

(* A save by another than the reminder.                                      *)
LEMMA PasFermeture ==
  ASSUME Invariant, NEW r \in Porteurs, r \notin Rappels, NEW d \in Tenues(r), NEW tout \in BOOLEAN,
         NEW t, Sauvegarde(r, d, tout, t), Reduit(r, d, t)
  PROVE  Invariant'
<1>1. TypeOK' /\ SourcesTenues' /\ MiroirsConformes' /\ LecturesConnues' /\ MiroirsSuivent'
  BY PasDeSauvegarde
<1>2. \A q \in Rappels : travaux'[q] = travaux[q]
  BY DEF Sauvegarde, Porteurs, Taches, Invariant, TypeOK
<1>3. UNCHANGED envois /\ UNCHANGED pannes
  BY DEF Sauvegarde
<1>4. \A e \in Ids : /\ Existe(e) => Existe(e)'
                     /\ Existe(e)' /\ ARappeler(e)' => ARappeler(e)
  BY SansReactivation DEF ARappeler
<1>5. RappelsComptes'
  BY <1>2, <1>3, <1>4, PasHorsRappel
<1>. QED  BY <1>1, <1>5 DEF Invariant

LEMMA PasRevoquer ==
  ASSUME Invariant, NEW r \in Requetes, NEW d \in Ids, NEW tout \in BOOLEAN, Revoquer(r, d, tout)
  PROVE  Invariant'
<1>1. r \in Porteurs /\ r \notin Rappels /\ d \in Tenues(r)
  BY BornesDelegations DEF Porteurs, Taches, Revoquer
<1>2. Sauvegarde(r, d, tout, Libre)
  BY <1>1 DEF Revoquer, Sauvegarde
<1>3. Reduit(r, d, Libre)
  BY DEF Reduit, EstTravail, TenuesDe
<1>. QED  BY <1>1, <1>2, <1>3, PasFermeture

LEMMA PasExpirer ==
  ASSUME Invariant, NEW r \in Taches, NEW d \in Ids, NEW tout \in BOOLEAN, Expirer(r, d, tout)
  PROVE  Invariant'
<1>. DEFINE avant == travaux[r]
<1>1. r \in Porteurs /\ r \in Expirations /\ r \notin Rappels /\ d \in Tenues(r)
  BY BornesDelegations DEF Porteurs, Taches, Expirer
<1>2. /\ EstTravail(r, avant) /\ Tenues(r) = TenuesDe(avant) /\ avant.op = "expirer"
  <2>1. EstTravail(r, avant) /\ Tenues(r) = TenuesDe(avant)
    BY <1>1, Porteur DEF Invariant
  <2>2. avant # Libre
    BY <1>1, <2>1, Formes
  <2>. QED  BY <1>1, <2>1, <2>2, Formes
<1>3. PICK f : avant = [op |-> "expirer", lues |-> f] /\ EstLecture(f)
  BY <1>2 DEF EstTravail
<1>. DEFINE reste == Tenues(r) \ {d}
<1>4. travaux' = [travaux EXCEPT ![r] =
                    IF reste = {} THEN Libre ELSE [op |-> "expirer", lues |-> [x \in reste |-> avant.lues[x]]]]
  BY DEF Expirer
<1>5. Tenues(r) = DOMAIN f /\ reste \subseteq DOMAIN f
  BY <1>2, <1>3, Formes
<1>6. PICK t : /\ travaux' = [travaux EXCEPT ![r] = t]
               /\ t = IF reste = {} THEN Libre ELSE [op |-> "expirer", lues |-> [x \in reste |-> avant.lues[x]]]
  BY <1>4
<1>7. Sauvegarde(r, d, tout, t)
  BY <1>1, <1>6 DEF Expirer, Sauvegarde
<1>8. Reduit(r, d, t)
  <2>1. CASE reste = {}
    BY <1>6, <2>1 DEF Reduit, EstTravail, TenuesDe
  <2>2. CASE reste # {}
    <3>1. PICK g : g = [x \in reste |-> f[x]]
      OBVIOUS
    <3>2. t = [op |-> "expirer", lues |-> g]
      BY <1>3, <1>6, <2>2, <3>1
    <3>3. EstLecture(g)
      BY <1>3, <1>5, <3>1 DEF EstLecture
    <3>4. EstTravail(r, t)
      BY <1>1, <3>2, <3>3 DEF EstTravail
    <3>5. TenuesDe(t) = reste /\ t.lues = g
      BY <3>1, <3>2 DEF TenuesDe
    <3>. QED  BY <1>3, <3>1, <3>2, <3>4, <3>5 DEF Reduit
  <2>. QED  BY <2>1, <2>2
<1>. QED  BY <1>1, <1>7, <1>8, PasFermeture

LEMMA PasMarquerRappel ==
  ASSUME Invariant, NEW r \in Taches, NEW d \in Ids, NEW tout \in BOOLEAN, MarquerRappel(r, d, tout)
  PROVE  Invariant'
<1>. DEFINE avant == travaux[r]
<1>1. r \in Porteurs /\ r \in Rappels /\ d \in Tenues(r) /\ avant.envoye
  BY DEF Porteurs, Taches, MarquerRappel
<1>2. avant.restent \subseteq Ids
  <2>1. EstTravail(r, avant) /\ Tenues(r) = TenuesDe(avant)
    BY <1>1, Porteur DEF Invariant
  <2>2. avant # Libre
    BY <1>1, <2>1, Formes
  <2>. QED  BY <1>1, <2>1, <2>2, Formes
<1>3. PICK S \in SUBSET Ids : S = avant.restent
  BY <1>2
<1>4. PICK t : t = Suite(S)
  OBVIOUS
<1>5. EstTravail(r, t) /\ TenuesDe(t) = {} /\ t.op # "creer"
  BY <1>1, <1>4, RappelVide DEF Suite
<1>6. Sauvegarde(r, d, tout, t)
  BY <1>1, <1>3, <1>4 DEF MarquerRappel, Sauvegarde
<1>7. Reduit(r, d, t)
  BY <1>5 DEF Reduit
<1>8. TypeOK' /\ SourcesTenues' /\ MiroirsConformes' /\ LecturesConnues' /\ MiroirsSuivent'
  BY <1>1, <1>6, <1>7, PasDeSauvegarde
<1>9. RappelsComptes'
  <2>1. \A q \in Rappels : /\ q \in Porteurs
                           /\ travaux'[q] = IF q = r THEN t ELSE travaux[q]
    BY <1>6 DEF Sauvegarde, Invariant, TypeOK, Porteurs, Taches
  <2>2. /\ \A q \in Rappels : Tenues(q)' = IF q = r THEN {} ELSE Tenues(q)
        /\ \A q \in Rappels : \A e \in Tenues(q)' : travaux'[q] = travaux[q]
    BY <1>5, <2>1 DEF Tenues, TenuesDe
  <2>3. \A e \in Ids : /\ Existe(e) <=> Existe(e)'
                       /\ e # d /\ ARappeler(e)' => ARappeler(e)
                       /\ ~ ARappeler(d)'
    BY <1>1, <1>6, SansReactivation DEF ARappeler
  <2>4. \A e \in Tenues(r) : e = d
    BY <1>1 DEF Invariant, RappelsComptes
  <2>5. UNCHANGED envois /\ pannes' = pannes /\ pannes \in Nat
    BY <1>6 DEF Sauvegarde, Invariant, TypeOK
  <2>6. \A e \in Ids : ARappeler(e)' => \A q \in Rappels : e \in Tenues(q) => e \in Tenues(q)'
    BY <2>2, <2>3, <2>4
  <2>. QED  BY <2>2, <2>3, <2>5, <2>6, PasSansRappel
<1>. QED  BY <1>8, <1>9 DEF Invariant

-----------------------------------------------------------------------------
(* What is given up, and what happens beside.                                *)
LEMMA PasAbandon ==
  ASSUME Invariant, NEW r \in Porteurs, Changement(r, Libre), UNCHANGED envois,
         pannes' \in 0..PannesMax, pannes' >= pannes, r \in Rappels => pannes' > pannes
  PROVE  Invariant'
<1>1. courriels' \in [Ids -> Nat] /\ croisements' \in [Ids -> Nat] /\ pannes \in Nat /\ pannes' \in Nat
  BY DEF envois, Invariant, TypeOK
<1>2. Fidele(r, Libre) /\ TenuesDe(Libre) = {}
  BY DEF Fidele, EstTravail, TenuesDe
<1>3. TypeOK' /\ SourcesTenues' /\ MiroirsConformes' /\ LecturesConnues' /\ MiroirsSuivent'
  BY <1>1, <1>2, PasSansCommit
<1>4. \A q \in Rappels : q \in Porteurs /\ travaux'[q] = IF q = r THEN Libre ELSE travaux[q]
  BY DEF Porteurs, Taches, Changement, Invariant, TypeOK
<1>5. delegations' = delegations
  BY DEF Changement, tables
<1>6. \A d \in Ids : (Existe(d)' <=> Existe(d)) /\ (ARappeler(d)' <=> ARappeler(d))
  BY <1>5 DEF Existe, ARappeler
<1>7. /\ \A q \in Rappels : Tenues(q)' = IF q = r THEN {} ELSE Tenues(q)
      /\ \A q \in Rappels : \A d \in Tenues(q)' : travaux'[q] = travaux[q]
  BY <1>4 DEF Tenues
<1>8. RappelsComptes'
  BY <1>1, <1>6, <1>7, PasSansRappel
<1>. QED  BY <1>3, <1>8 DEF Invariant

LEMMA PasRefuser ==
  ASSUME Invariant, NEW r \in Requetes, Refuser(r)
  PROVE  Invariant'
<1>1. r \in Porteurs /\ r \notin Rappels
  BY BornesDelegations DEF Porteurs, Taches
<1>2. Changement(r, Libre) /\ UNCHANGED envois /\ UNCHANGED pannes
  BY DEF Refuser, Changement, histoire
<1>3. pannes \in 0..PannesMax
  BY DEF Invariant, TypeOK
<1>. QED  BY <1>1, <1>2, <1>3, PasAbandon

LEMMA PasInterrompre ==
  ASSUME Invariant, NEW r \in Porteurs, Interrompre(r)
  PROVE  Invariant'
<1>1. Changement(r, Libre) /\ UNCHANGED envois /\ pannes' = pannes + 1 /\ pannes < PannesMax
  BY DEF Interrompre, Changement
<1>2. pannes \in 0..PannesMax
  BY DEF Invariant, TypeOK
<1>. QED  BY <1>1, <1>2, BornesDelegations, PasAbandon

LEMMA PasMonde ==
  ASSUME Invariant, JourSuivant \/ (\E x \in Evolutions : Evoluer(x[1], x[2])) \/ UNCHANGED vars
  PROVE  Invariant'
<1>1. UNCHANGED <<tables, travaux, envois, pannes, histoire, retires>>
  BY DEF JourSuivant, Evoluer, vars
<1>2. /\ delegations' = delegations /\ perimetres' = perimetres /\ travaux' = travaux
      /\ courriels' = courriels /\ croisements' = croisements /\ pannes' = pannes /\ perimes' = perimes
      /\ chevauchees' = chevauchees /\ retires' = retires
  BY <1>1 DEF tables, histoire, envois
<1>3. jour' \in Jours
  BY BornesDelegations DEF JourSuivant, Evoluer, vars, Jours, Invariant, TypeOK
<1>4. etats' \in [Crs \cup Structures -> EtatsRow]
  <2>1. CASE \E x \in Evolutions : Evoluer(x[1], x[2])
    <3>1. PICK x \in Evolutions : Evoluer(x[1], x[2])
      BY <2>1
    <3>2. x[1] \in Crs \cup Structures /\ x[2] \in EtatsRow
      BY BornesDelegations
    <3>. QED  BY <3>1, <3>2 DEF Evoluer, Invariant, TypeOK
  <2>2. CASE JourSuivant \/ UNCHANGED vars
    BY <2>2 DEF JourSuivant, vars, Invariant, TypeOK
  <2>. QED  BY <2>1, <2>2
<1>5. TypeOK'
  BY <1>2, <1>3, <1>4 DEF Invariant, TypeOK
<1>6. RappelsComptes'
  BY <1>1, <1>2, PasHorsRappel DEF Existe, ARappeler
<1>7. SourcesTenues' /\ MiroirsConformes' /\ LecturesConnues' /\ MiroirsSuivent'
  BY <1>2 DEF Invariant, SourcesTenues, SourceDe, MiroirsConformes, MiroirDe, LecturesConnues, Connue,
     Tenues, MiroirsSuivent, Existe, Ligne
<1>. QED  BY <1>5, <1>6, <1>7 DEF Invariant

LEMMA Inductif == Invariant /\ [Next]_vars => Invariant'
<1>. SUFFICES ASSUME Invariant, [Next]_vars PROVE Invariant'
  OBVIOUS
<1>1. ASSUME NEW r \in Taches, TacheExpiration(r) PROVE Invariant'
  BY <1>1, PasLireExpirations, PasExpirer DEF TacheExpiration
<1>2. ASSUME NEW r \in Taches, TacheRappel(r) PROVE Invariant'
  BY <1>2, PasLireRappels, PasPrendreRappel, PasEnvoyerRappel, PasMarquerRappel DEF TacheRappel
<1>3. CASE JourSuivant \/ (\E x \in Evolutions : Evoluer(x[1], x[2])) \/ UNCHANGED vars
  BY <1>3, PasMonde
<1>4. CASE AdministrerPerimetres
  BY <1>4, PasAffecter, PasRetirer DEF AdministrerPerimetres
<1>5. ASSUME NEW r \in Requetes,
             \/ \E u, v \in Utilisateurs, S \in SUBSET Cles, p \in Periodes :
                  DemanderCreation(r, u, v, S, p)
             \/ Creer(r) \/ Refuser(r)
             \/ \E d \in Ids : DemanderRevocation(r, d) \/ \E tout \in BOOLEAN : Revoquer(r, d, tout)
      PROVE  Invariant'
  BY <1>5, PasDemanderCreation, PasCreer, PasRefuser, PasDemanderRevocation, PasRevoquer
<1>6. ASSUME NEW r \in Porteurs, Interrompre(r) PROVE Invariant'
  BY <1>6, PasInterrompre
<1>. QED  BY <1>1, <1>2, <1>3, <1>4, <1>5, <1>6 DEF Next, Porteurs

LEMMA InvariantVrai == Spec => []Invariant
BY Initial, Inductif, PTL DEF Spec

-----------------------------------------------------------------------------
(* Rows and handlers hold values of their columns (Delegation, UserPerimetre). *)
THEOREM TypeCorrecte == Spec => []TypeOK
BY InvariantVrai, PTL DEF Invariant

(* DelegationsService writes a delegation and its mirrors together: neither   *)
(* outlives the other, unless a handler saves an image that a COMMIT of        *)
(* another has made stale.                                                   *)
THEOREM MiroirsToujoursFideles == Spec => []MiroirsSuivent
BY InvariantVrai, PTL DEF Invariant

(* notifierJ3 sends a reminder once, whatever is saved beside it: another one  *)
(* is due to a run that was interrupted before its mark, or that read the       *)
(* delegation while another run held it.                                       *)
THEOREM ToujoursUnRappel == Spec => []UnRappel
<1>1. Invariant => UnRappel
  <2>. SUFFICES ASSUME Invariant, NEW d \in Ids PROVE courriels[d] <= 1 + pannes + croisements[d]
    BY DEF UnRappel
  <2>1. Cardinality(Attente(d)) \in Nat
    BY Tailles DEF Attente, Preneurs
  <2>2. courriels[d] \in Nat /\ croisements[d] \in Nat /\ pannes \in Nat
    BY DEF Invariant, TypeOK
  <2>. QED  BY <2>1, <2>2 DEF Invariant, RappelsComptes
<1>. QED  BY <1>1, InvariantVrai, PTL

(* PerimetreService and creer: an access is the user's own, or comes from a    *)
(* delegation in force whose source row is no mirror.                         *)
THEOREM AccesToujoursJustifie == Spec => []AccesJustifie
<1>1. ASSUME Invariant, NEW u \in Utilisateurs, NEW c \in Acces(u), c \notin AccesPropre(u)
      PROVE  ParDelegation(u, c)
  <2>. USE <1>1
  <2>1. PICK L, P : L = LignesDe(u, Cles) /\ P = LignesDe(u, Cles \ Miroirs)
    OBVIOUS
  <2>2. /\ c \in CrAutorises({perimetres[k].cible : k \in L}, RolesDe[u], etats)
        /\ c \notin CrAutorises({perimetres[k].cible : k \in P}, RolesDe[u], etats)
    BY <2>1 DEF Acces, AccesPropre, AccesPar
  <2>3. RolesDe[u] # {} /\ P \subseteq L
    BY <2>1, <2>2 DEF CrAutorises, LignesDe
  <2>4. PICK m \in L \ P : c \in CrAutorises({perimetres[m].cible}, RolesDe[u], etats)
    <3>1. L # {}
      <4>1. SUFFICES ASSUME L = {} PROVE FALSE
        OBVIOUS
      <4>2. P = L
        BY <2>3, <4>1
      <4>. QED  BY <2>2, <4>2
    <3>2. CASE \E m \in L : perimetres[m].cible = Global
      <4>1. PICK m \in L : perimetres[m].cible = Global
        BY <3>2
      <4>2. c \in Crs
        BY <2>2, <2>3, <3>1, <4>1 DEF CrAutorises
      <4>3. m \notin P
        BY <2>2, <2>3, <4>1, <4>2 DEF CrAutorises
      <4>. QED  BY <2>3, <4>1, <4>2, <4>3 DEF CrAutorises
    <3>3. CASE ~ \E m \in L : perimetres[m].cible = Global
      <4>1. PICK m \in L : c \in Resoudre(perimetres[m].cible, etats)
        BY <2>2, <2>3, <3>1, <3>3 DEF CrAutorises
      <4>2. m \notin P
        BY <2>2, <2>3, <3>3, <4>1 DEF CrAutorises
      <4>. QED  BY <2>3, <3>3, <4>1, <4>2 DEF CrAutorises
    <3>. QED  BY <3>2, <3>3
  <2>5. m \in Miroirs /\ Ligne(m) /\ perimetres[m].user = u /\ Couvre(m) /\ m \in Cles
    BY <2>1, <2>4 DEF LignesDe
  <2>6. m[1] \in Ids /\ m[2] \in 1..LignesMax /\ m = <<m[1], m[2]>>
    BY <2>5 DEF Miroirs
  <2>7. PICK d, n : d = m[1] /\ n = m[2]
    OBVIOUS
  <2>8. /\ Existe(d) /\ MiroirDe(perimetres[m], delegations[d], n)
        /\ perimetres[m].actif => delegations[d].actif
    BY <2>5, <2>6, <2>7 DEF Invariant, MiroirsConformes, MiroirsSuivent
  <2>9. /\ <<0, n>> \in delegations[d].sources
        /\ SourceDe(<<0, n>>, delegations[d].delegant)
        /\ perimetres[m].cible = perimetres[<<0, n>>].cible
    BY <2>6, <2>7, <2>8 DEF Invariant, SourcesTenues, MiroirDe
  <2>10. EnVigueur(d) /\ delegations[d].delegataire = u
    BY <2>5, <2>8 DEF EnVigueur, Couvre, MiroirDe
  <2>. QED  BY <2>4, <2>6, <2>7, <2>8, <2>9, <2>10 DEF SourceDe, ParDelegation
<1>2. ASSUME Invariant, NEW u \in Utilisateurs, NEW c \in Liste(u)
      PROVE  \E k \in LignesActives(u) :
               /\ c \in Listables(perimetres[k].cible, etats)
               /\ k \in Miroirs => /\ delegations[k[1]].actif /\ delegations[k[1]].delegataire = u
                                  /\ <<0, k[2]>> \in delegations[k[1]].sources
  <2>1. PICK k \in LignesActives(u) : c \in Listables(perimetres[k].cible, etats)
    BY <1>2 DEF Liste, CrListes
  <2>2. SUFFICES ASSUME k \in Miroirs
                 PROVE  /\ delegations[k[1]].actif /\ delegations[k[1]].delegataire = u
                        /\ <<0, k[2]>> \in delegations[k[1]].sources
    BY <2>1
  <2>3. k[1] \in Ids /\ k[2] \in 1..LignesMax /\ k = <<k[1], k[2]>>
    BY <2>2 DEF Miroirs
  <2>4. Ligne(k) /\ perimetres[k].user = u /\ perimetres[k].actif
    BY DEF LignesActives
  <2>5. MiroirDe(perimetres[k], delegations[k[1]], k[2]) /\ delegations[k[1]].actif
    BY <1>2, <2>3, <2>4 DEF Invariant, MiroirsConformes, MiroirsSuivent
  <2>. QED  BY <2>4, <2>5 DEF MiroirDe
<1>3. Invariant => AccesJustifie
  BY <1>1, <1>2 DEF AccesJustifie
<1>. QED  BY <1>3, InvariantVrai, PTL
=============================================================================
