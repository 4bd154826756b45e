------------------------------- MODULE Scd2Proofs -------------------------------
(* For any keys, any number of rows and of days: at most one version of a   *)
(* key is valid on a day, the past does not change, links follow, and every *)
(* cycle of the links is explained.                                        *)
EXTENDS Scd2, FiniteSetTheorems, TLAPS

(* Two versions of a key never overlap: the invariant behind VersionUnique. *)
Disjointes ==
  \A x, y \in Ids :
    Existe(x) /\ Existe(y) /\ x # y /\ lignes[x].dim = lignes[y].dim /\ lignes[x].code = lignes[y].code =>
      \/ lignes[x].fin # Nul /\ lignes[x].fin <= lignes[y].debut
      \/ lignes[y].fin # Nul /\ lignes[y].fin <= lignes[x].debut

InvariantScd2 == TypeOK /\ Disjointes /\ LienVivant

(* What the proofs need of the guards: a row of a dimension gets attributes  *)
(* of that dimension, and a parent it did not have is current; the search    *)
(* for a cycle is made but when an account, a product or a line of business  *)
(* is overwritten.                                                         *)
ParentAdmis(d, p) == p # Nul => ParentCourant(d, p)

Verifiee(i, a) ==
  /\ Reparente(i, a)
  /\ lignes[i].dim = "structure" \/ (lignes[i].dim \in AutoReferences /\ lignes[i].debut # jour)
  => SansCycle(i, a.parent)

Effets ==
  \/ \E d \in Dimensions, c \in Codes : \E a \in AttributsDe[d] :
       ParentAdmis(d, a.parent) /\ Creer(d, c, a)
  \/ \E i \in Ids :
       /\ Courante(i)
       /\ \E a \in AttributsDe[lignes[i].dim], actif \in BOOLEAN :
            /\ Reparente(i, a) => ParentCourant(lignes[i].dim, a.parent)
            /\ Verifiee(i, a)
            /\ Activer(i, a, actif) \/ Ecraser(i, a, actif) \/ Reviser(i, a, actif)
  \/ Fermeture
  \/ NouveauJour

(* The attributes of a dimension are attributes; a CR has a structure.      *)
LEMMA AttributsTypes ==
  ASSUME NEW d \in Dimensions, NEW a \in AttributsDe[d]
  PROVE  a \in Attributs /\ (d = "cr" => a.parent # Nul) /\ (d = "segment" => a.parent = Nul)
  BY DEF AttributsDe

(* The foreign keys of a row that exists.                                  *)
LEMMA LigneExistante ==
  ASSUME TypeOK, NEW i \in Ids, Existe(i)
  PROVE  /\ lignes[i] \in Ligne
         /\ lignes[i].attr \in Attributs
         /\ lignes[i].dim \in Dimensions
         /\ lignes[i].debut \in Nat /\ lignes[i].fin \in Nat
  <1>1. lignes[i] \in Ligne
    BY DEF TypeOK, Existe, Absente
  <1> QED BY <1>1 DEF Ligne

LEMMA AbsenteOuLigne ==
  ASSUME TypeOK, NEW i \in Ids, ~Existe(i)
  PROVE  lignes[i] = Absente
  BY DEF TypeOK, Existe, Ligne, Dimensions, Hierarchies, AutoReferences

(* The row a parent column refers to exists.                               *)
LEMMA ParentExiste ==
  ASSUME TypeOK, NEW i \in Ids, Existe(i), lignes[i].attr.parent # Nul
  PROVE  lignes[i].attr.parent \in Ids /\ Existe(lignes[i].attr.parent)
  <1>1. lignes[i].attr.parent \in Ids
    BY LigneExistante DEF Attributs
  <1>2. lignes[lignes[i].attr.parent].dim = DimensionParent(lignes[i].dim)
    BY DEF TypeOK
  <1>3. lignes[i].dim # "AUCUNE"
    BY DEF Existe
  <1> QED BY <1>1, <1>2, <1>3 DEF DimensionParent, Existe

(* Each handler is one of the effects.                                     *)
LEMMA PasEffets == ASSUME TypeOK, Next PROVE Effets
  <1>1. ASSUME Creation PROVE Effets
    <2>1. PICK c \in Codes :
            \/ \E a \in AttributsDe["structure"] : CreerStructure(c, a)
            \/ \E a \in AttributsDe["cr"] : CreerCr(c, a)
            \/ \E a \in AttributsDe["compte"] : CreerCompte(c, a)
            \/ \E a \in AttributsDe["ligne_metier"] : CreerLigneMetier(c, a)
            \/ \E a \in AttributsDe["produit"] : CreerProduit(c, a)
            \/ \E a \in AttributsDe["segment"] : CreerSegment(c, a)
      BY <1>1 DEF Creation
    <2>2. \E d \in Dimensions : \E a \in AttributsDe[d] : ParentAdmis(d, a.parent) /\ Creer(d, c, a)
      BY <2>1, AttributsTypes, Zenon
         DEF CreerStructure, CreerCr, CreerCompte, CreerLigneMetier, CreerProduit, CreerSegment,
             RattachementCreation, ParentAdmis, Dimensions, Hierarchies, AutoReferences
    <2> QED BY <2>2, Zenon DEF Effets
  <1>2. ASSUME Modification PROVE Effets
    <2>1. PICK i \in Ids : Courante(i) /\ \E a \in AttributsDe[lignes[i].dim], actif \in BOOLEAN :
            \/ ModifierStructure(i, a, actif)
            \/ ModifierCr(i, a, actif)
            \/ ModifierCompte(i, a, actif)
            \/ ModifierLigneMetier(i, a, actif)
            \/ ModifierProduit(i, a, actif)
            \/ ModifierSegment(i, a, actif)
      BY <1>2 DEF Modification
    <2>2. PICK a \in AttributsDe[lignes[i].dim], actif \in BOOLEAN :
            \/ ModifierStructure(i, a, actif)
            \/ ModifierCr(i, a, actif)
            \/ ModifierCompte(i, a, actif)
            \/ ModifierLigneMetier(i, a, actif)
            \/ ModifierProduit(i, a, actif)
            \/ ModifierSegment(i, a, actif)
      BY <2>1
    <2> DEFINE Admise == Reparente(i, a) => ParentCourant(lignes[i].dim, a.parent)
               Ecriture == Activer(i, a, actif) \/ Ecraser(i, a, actif) \/ Reviser(i, a, actif)
    <2>3. /\ Activer(i, a, actif) => ~Reparente(i, a)
          /\ Ecraser(i, a, actif) => lignes[i].debut = jour
          /\ Reparente(i, a) => a.parent # Nul
      BY DEF Activer, Ecraser, Reparente
    <2>4. Admise /\ Verifiee(i, a) /\ Ecriture
      <3>1. CASE ModifierStructure(i, a, actif)
        BY <3>1, <2>3 DEF ModifierStructure, Verifiee
      <3>2. CASE ModifierCr(i, a, actif)
        <4>1. lignes[i].dim = "cr"
          BY <3>2 DEF ModifierCr
        <4>2. Verifiee(i, a)
          BY <4>1 DEF Verifiee, AutoReferences
        <4> QED BY <3>2, <4>2 DEF ModifierCr
      <3>3. CASE ModifierCompte(i, a, actif)
        BY <3>3, <2>3 DEF ModifierCompte, RattachementRevision, Verifiee
      <3>4. CASE ModifierLigneMetier(i, a, actif)
        BY <3>4, <2>3 DEF ModifierLigneMetier, RattachementRevision, Verifiee
      <3>5. CASE ModifierProduit(i, a, actif)
        BY <3>5, <2>3 DEF ModifierProduit, RattachementRevision, Verifiee
      <3>6. CASE ModifierSegment(i, a, actif)
        <4>1. lignes[i].dim = "segment"
          BY <3>6 DEF ModifierSegment
        <4>2. a.parent = Nul
          BY <4>1, AttributsTypes DEF Dimensions
        <4> QED BY <3>6, <4>2 DEF ModifierSegment, Reparente, Verifiee
      <3> QED BY <2>2, <3>1, <3>2, <3>3, <3>4, <3>5, <3>6
    <2> QED BY <2>1, <2>4 DEF Effets
  <1>3. ASSUME Import PROVE Effets
    <2>1. PICK c \in Codes : \E a \in AttributsDe["compte"] : ImporterCompte(c, a)
      BY <1>3 DEF Import
    <2>2. PICK a \in AttributsDe["compte"] : ImporterCompte(c, a)
      BY <2>1
    <2>3. CASE CreerCompte(c, a)
      <3>1. ParentAdmis("compte", a.parent) /\ Creer("compte", c, a) /\ "compte" \in Dimensions
        BY <2>3 DEF CreerCompte, RattachementCreation, ParentAdmis, Dimensions, Hierarchies, AutoReferences
      <3> QED BY <3>1, Zenon DEF Effets
    <2>4. ASSUME NEW i \in Courantes("compte", c),
                 ModifierCompte(i, [a EXCEPT !.parent = IF a.parent = Nul THEN lignes[i].attr.parent ELSE a.parent],
                                lignes[i].actif)
          PROVE  Effets
      <3> DEFINE nomme == IF a.parent = Nul THEN lignes[i].attr.parent ELSE a.parent
                 b == [a EXCEPT !.parent = nomme]
                 actif == lignes[i].actif
      <3>1. i \in Ids /\ Courante(i) /\ Existe(i) /\ lignes[i].dim = "compte"
        BY <2>4 DEF Courantes, Courante, Existe
      <3>2. lignes[i] \in Ligne /\ lignes[i].attr \in Attributs /\ a \in Attributs
        BY <3>1, LigneExistante DEF AttributsDe, Dimensions, Hierarchies, AutoReferences
      <3>3. nomme \in Ids \cup {Nul} /\ actif \in BOOLEAN
        BY <3>2 DEF Attributs, Ligne
      <3>4. b \in Attributs /\ b.niveau = a.niveau /\ b.nature = a.nature /\ b.libelle = a.libelle
        <4> HIDE DEF nomme
        <4> QED BY <3>2, <3>3 DEF Attributs
      <3>5. b \in AttributsDe["compte"]
        <4> HIDE DEF b
        <4> QED BY <3>4 DEF AttributsDe, Dimensions, Hierarchies, AutoReferences
      <3> HIDE DEF b, actif
      <3>6. ModifierCompte(i, b, actif)
        BY <2>4 DEF b, actif
      <3>7. /\ Reparente(i, b) => ParentCourant(lignes[i].dim, b.parent)
            /\ Verifiee(i, b)
            /\ Activer(i, b, actif) \/ Ecraser(i, b, actif) \/ Reviser(i, b, actif)
        <4>1. /\ Activer(i, b, actif) => ~Reparente(i, b)
              /\ Ecraser(i, b, actif) => lignes[i].debut = jour
          BY DEF Activer, Ecraser, Reparente
        <4> QED BY <3>1, <3>6, <4>1 DEF ModifierCompte, RattachementRevision, Verifiee
      <3>8. b \in AttributsDe[lignes[i].dim]
        BY <3>1, <3>5
      <3> QED BY <3>1, <3>3, <3>7, <3>8, Zenon DEF Effets, actif
    <2> QED BY <2>2, <2>3, <2>4 DEF ImporterCompte
  <1> QED BY <1>1, <1>2, <1>3 DEF Next, Effets

(* The current row of a key is the only one.                               *)
LEMMA SeuleCourante ==
  ASSUME TypeOK, Disjointes, NEW i \in Ids, Courante(i)
  PROVE  Courantes(lignes[i].dim, lignes[i].code) = {i}
  <1>1. lignes[i].dim \in Dimensions
    BY LigneExistante DEF Courante
  <1>2. ASSUME NEW k \in Courantes(lignes[i].dim, lignes[i].code) PROVE k = i
    <2>1. k \in Ids /\ lignes[k].dim = lignes[i].dim /\ lignes[k].code = lignes[i].code /\ lignes[k].fin = Nul
      BY <1>2 DEF Courantes
    <2>2. Existe(k) /\ Existe(i)
      BY <2>1 DEF Existe, Courante
    <2> QED BY <2>1, <2>2 DEF Disjointes, Courante
  <1>3. i \in Courantes(lignes[i].dim, lignes[i].code)
    BY DEF Courantes, Courante
  <1> QED BY <1>2, <1>3

-----------------------------------------------------------------------------
(* What every step does to a row: it keeps its key and its first day, may   *)
(* close it today, and rewrites it only if it began today; a new row begins *)
(* today and finds no other current row of its key.                        *)
Conservee(k) ==
  /\ lignes'[k].dim = lignes[k].dim
  /\ lignes'[k].code = lignes[k].code
  /\ lignes'[k].debut = lignes[k].debut
  /\ \/ lignes'[k].fin = lignes[k].fin
     \/ lignes[k].fin = Nul /\ lignes'[k].fin = jour
  /\ \/ /\ lignes'[k].attr.nature = lignes[k].attr.nature
        /\ lignes'[k].attr.niveau = lignes[k].attr.niveau
        /\ lignes'[k].attr.libelle = lignes[k].attr.libelle
     \/ lignes[k].debut = jour

Nouvelle(n) ==
  /\ lignes'[n] \in Ligne
  /\ lignes'[n].debut = jour
  /\ lignes'[n].fin = Nul
  /\ \A k \in Ids : Existe(k) /\ lignes[k].dim = lignes'[n].dim /\ lignes[k].code = lignes'[n].code
                       => lignes'[k].fin # Nul
  /\ \A k \in Ids \ {n} : ~Existe(k) => lignes'[k] = Absente

Evolution ==
  /\ lignes' \in [Ids -> Ligne \cup {Absente}]
  /\ perdues' \in SUBSET Ids
  /\ jour' \in 1..JourMax /\ jour <= jour'
  /\ \A k \in Ids : Existe(k) => Conservee(k)
  /\ \A n \in Ids : ~Existe(n) => lignes'[n] = Absente \/ Nouvelle(n)

(* The part of the invariant that is about links.                          *)
Liens ==
  \A k \in Ids : Existe(k) =>
    /\ lignes[k].dim = "cr" => lignes[k].attr.parent # Nul
    /\ lignes[k].attr.parent # Nul =>
         /\ lignes[lignes[k].attr.parent].dim = DimensionParent(lignes[k].dim)
         /\ Courante(k) /\ lignes[k].dim \in AutoReferences \cup {"cr"} =>
              Courante(lignes[k].attr.parent) \/ lignes[k].attr.parent \in perdues

LEMMA LiensDansInvariant == InvariantScd2 => Liens
  BY DEF InvariantScd2, TypeOK, LienVivant, Liens

(* A step that evolves the rows that way and keeps the links keeps the whole. *)
LEMMA EvolutionSuffit ==
  ASSUME InvariantScd2, Evolution, Liens', corriges' \in SUBSET (Dimensions \X Codes)
  PROVE  InvariantScd2'
  <1> USE DEF InvariantScd2
  <1>1. \A k \in Ids : Existe(k) => Existe(k)' /\ lignes'[k].dim \in Dimensions
    BY LigneExistante DEF Evolution, Conservee, Existe
  <1>2. \A k \in Ids : ~Existe(k) /\ Existe(k)' => Nouvelle(k)
    BY DEF Evolution, Existe, Absente
  <1>3. jour \in Nat /\ jour' \in Nat /\ jour <= jour'
    BY DEF TypeOK, Evolution
  <1>4. ASSUME NEW k \in Ids, Existe(k)'
        PROVE  /\ lignes'[k].debut <= jour' /\ lignes'[k].fin <= jour'
               /\ lignes'[k].fin = Nul \/ lignes'[k].debut <= lignes'[k].fin
    <2>1. CASE Existe(k)
      <3>1. /\ lignes[k].debut <= jour /\ lignes[k].fin <= jour
            /\ lignes[k].fin = Nul \/ lignes[k].debut <= lignes[k].fin
        BY <2>1 DEF TypeOK
      <3>2. Conservee(k)
        BY <2>1 DEF Evolution
      <3>3. lignes[k].debut \in Nat /\ lignes[k].fin \in Nat
        BY <2>1, LigneExistante
      <3> QED BY <3>1, <3>2, <3>3, <1>3 DEF Conservee
    <2>2. CASE ~Existe(k)
      BY <2>2, <1>2, <1>3, <1>4 DEF Nouvelle, Nul
    <2> QED BY <2>1, <2>2
  <1>5. TypeOK'
    <2>1. ASSUME NEW k \in Ids, Existe(k)'
          PROVE  /\ lignes'[k].dim = "cr" => lignes'[k].attr.parent # Nul
                 /\ lignes'[k].attr.parent # Nul =>
                      lignes'[lignes'[k].attr.parent].dim = DimensionParent(lignes'[k].dim)
      BY <2>1 DEF Liens
    <2>2. /\ jour' \in 1..JourMax
          /\ lignes' \in [Ids -> Ligne \cup {Absente}]
          /\ perdues' \in SUBSET Ids
      BY DEF Evolution
    <2> QED BY <1>4, <2>1, <2>2, Zenon DEF TypeOK
  <1>6. Disjointes'
    <2> SUFFICES ASSUME NEW x \in Ids, NEW y \in Ids, Existe(x)', Existe(y)', x # y,
                        lignes'[x].dim = lignes'[y].dim, lignes'[x].code = lignes'[y].code
                 PROVE  \/ lignes'[x].fin # Nul /\ lignes'[x].fin <= lignes'[y].debut
                        \/ lignes'[y].fin # Nul /\ lignes'[y].fin <= lignes'[x].debut
      BY DEF Disjointes
    <2>1. CASE Existe(x) /\ Existe(y)
      <3>1. Conservee(x) /\ Conservee(y)
        BY <2>1 DEF Evolution
      <3>2. \/ lignes[x].fin # Nul /\ lignes[x].fin <= lignes[y].debut
            \/ lignes[y].fin # Nul /\ lignes[y].fin <= lignes[x].debut
        BY <2>1, <3>1 DEF Disjointes, Conservee
      <3> QED BY <3>1, <3>2 DEF Conservee
    <2>2. CASE Existe(x) /\ ~Existe(y)
      <3>1. Nouvelle(y) /\ Conservee(x)
        BY <2>2, <1>2 DEF Evolution
      <3>2. lignes'[x].fin # Nul
        BY <2>2, <3>1 DEF Nouvelle, Conservee
      <3>3. lignes[x].fin <= jour
        BY <2>2 DEF TypeOK
      <3> QED BY <3>1, <3>2, <3>3, <1>3 DEF Nouvelle, Conservee
    <2>3. CASE ~Existe(x) /\ Existe(y)
      <3>1. Nouvelle(x) /\ Conservee(y)
        BY <2>3, <1>2 DEF Evolution
      <3>2. lignes'[y].fin # Nul
        BY <2>3, <3>1 DEF Nouvelle, Conservee
      <3>3. lignes[y].fin <= jour
        BY <2>3 DEF TypeOK
      <3> QED BY <3>1, <3>2, <3>3, <1>3 DEF Nouvelle, Conservee
    <2>4. CASE ~Existe(x) /\ ~Existe(y)
      <3>1. Nouvelle(x)
        BY <2>4, <1>2
      <3>2. lignes'[y] = Absente
        BY <2>4, <3>1 DEF Nouvelle
      <3> QED BY <3>2 DEF Existe, Absente
    <2> QED BY <2>1, <2>2, <2>3, <2>4
  <1>7. LienVivant'
    <2> SUFFICES ASSUME NEW k \in Ids, Courante(k)', lignes'[k].dim \in AutoReferences \cup {"cr"},
                        lignes'[k].attr.parent # Nul
                 PROVE  Courante(lignes[k].attr.parent)' \/ lignes'[k].attr.parent \in perdues'
      BY DEF LienVivant
    <2>1. Existe(k)'
      BY DEF Courante
    <2> QED BY <2>1 DEF Liens
  <1> QED BY <1>5, <1>6, <1>7

(* The past does not change in such a step.                                *)
LEMMA EvolutionFige ==
  ASSUME TypeOK, Evolution, NEW i \in Ids, NEW j \in 1..(jour - 1)
  PROVE  Temoignage(i, j)' = Temoignage(i, j)
  <1>1. jour \in Nat /\ j \in Nat /\ j < jour
    BY DEF TypeOK
  <1>2. CASE Existe(i)
    <2>1. Conservee(i) /\ Existe(i)'
      BY <1>2, LigneExistante DEF Evolution, Conservee, Existe
    <2>2. lignes[i].debut \in Nat /\ lignes[i].fin \in Nat
      BY <1>2, LigneExistante
    <2>3. Valide(i, j)' <=> Valide(i, j)
      BY <2>1, <2>2, <1>1 DEF Conservee, Valide, Nul
    <2>4. Valide(i, j) => lignes[i].debut # jour
      BY <2>2, <1>1 DEF Valide
    <2> QED BY <1>2, <2>1, <2>3, <2>4 DEF Temoignage, Conservee
  <1>3. CASE ~Existe(i)
    <2>1. CASE lignes'[i] = Absente
      BY <1>3, <2>1 DEF Temoignage, Existe, Absente
    <2>2. CASE Nouvelle(i)
      BY <1>1, <1>3, <2>2 DEF Temoignage, Nouvelle, Valide
    <2> QED BY <1>3, <2>1, <2>2 DEF Evolution
  <1> QED BY <1>2, <1>3

-----------------------------------------------------------------------------
(* What each kind of step writes.                                          *)

(* Closing the key of a current row closes that row and nothing else.       *)
LEMMA FermerUneLigne ==
  ASSUME InvariantScd2, NEW i \in Ids, Courante(i), NEW cloture \in BOOLEAN
  PROVE  LET f == Fermees(lignes[i].dim, lignes[i].code, cloture)
         IN  /\ f \in [Ids -> Ligne \cup {Absente}]
             /\ \A k \in Ids : k # i => f[k] = lignes[k]
             /\ f[i] \in Ligne
             /\ f[i].dim = lignes[i].dim /\ f[i].code = lignes[i].code
             /\ f[i].debut = lignes[i].debut /\ f[i].attr = lignes[i].attr
             /\ f[i].fin = jour
  <1> DEFINE f == Fermees(lignes[i].dim, lignes[i].code, cloture)
             fermee == [lignes[i] EXCEPT !.fin = jour, !.actif = @ /\ ~cloture]
  <1>1. Courantes(lignes[i].dim, lignes[i].code) = {i}
    BY SeuleCourante DEF InvariantScd2
  <1>2. lignes[i] \in Ligne /\ jour \in 0..JourMax /\ lignes \in [Ids -> Ligne \cup {Absente}]
    BY LigneExistante DEF InvariantScd2, TypeOK, Courante
  <1> DEFINE l == [lignes[i] EXCEPT !.fin = jour]
             act == lignes[i].actif /\ ~cloture
  <1>3. l \in Ligne /\ l.fin = jour /\ l.attr = lignes[i].attr /\ l.dim = lignes[i].dim
        /\ l.code = lignes[i].code /\ l.debut = lignes[i].debut
    BY <1>2 DEF Ligne
  <1>4. act \in BOOLEAN
    OBVIOUS
  <1>5. fermee = [l EXCEPT !.actif = act]
    BY <1>2 DEF Ligne
  <1> HIDE DEF l, act
  <1>6. fermee \in Ligne /\ fermee.fin = jour /\ fermee.attr = l.attr /\ fermee.dim = l.dim
        /\ fermee.code = l.code /\ fermee.debut = l.debut
    <2>1. [l EXCEPT !.actif = act] \in Ligne
      BY <1>3, <1>4 DEF Ligne
    <2>2. LET m == [l EXCEPT !.actif = act]
          IN  m.fin = jour /\ m.attr = l.attr /\ m.dim = l.dim /\ m.code = l.code /\ m.debut = l.debut
      BY <1>3 DEF Ligne
    <2> QED BY <1>5, <2>1, <2>2, Zenon
  <1>7. f = [k \in Ids |-> IF k = i THEN fermee ELSE lignes[k]]
    BY <1>1 DEF Fermees
  <1> HIDE DEF fermee
  <1> QED BY <1>2, <1>3, <1>6, <1>7

(* Relinking changes nothing but the parent of the dependants of a row.     *)
LEMMA RelierLesDependants ==
  ASSUME NEW d, NEW ancien \in Ids, NEW nouveau \in Ids, NEW table \in [Ids -> Ligne \cup {Absente}]
  PROVE  LET r == Relier(table, d, ancien, nouveau)
         IN  /\ r \in [Ids -> Ligne \cup {Absente}]
             /\ \A k \in Ids :
                  IF table[k] \in Ligne /\ table[k].dim \in Dependants(d) /\ table[k].attr.parent = ancien
                  THEN /\ r[k] \in Ligne
                       /\ r[k].dim = table[k].dim /\ r[k].code = table[k].code
                       /\ r[k].debut = table[k].debut /\ r[k].fin = table[k].fin
                       /\ r[k].attr.nature = table[k].attr.nature
                       /\ r[k].attr.niveau = table[k].attr.niveau
                       /\ r[k].attr.libelle = table[k].attr.libelle
                       /\ r[k].attr.parent = nouveau
                  ELSE r[k] = table[k]
  <1> DEFINE r == Relier(table, d, ancien, nouveau)
  <1>1. ASSUME NEW k \in Ids, table[k] \in Ligne
        PROVE  /\ [table[k] EXCEPT !.attr.parent = nouveau] \in Ligne
               /\ LET m == [table[k] EXCEPT !.attr.parent = nouveau]
                  IN  /\ m.dim = table[k].dim /\ m.code = table[k].code
                      /\ m.debut = table[k].debut /\ m.fin = table[k].fin
                      /\ m.attr.nature = table[k].attr.nature
                      /\ m.attr.niveau = table[k].attr.niveau
                      /\ m.attr.libelle = table[k].attr.libelle
                      /\ m.attr.parent = nouveau
    <2> DEFINE t == table[k]
               b == [t.attr EXCEPT !.parent = nouveau]
    <2>1. t \in Ligne /\ t.attr \in Attributs
      BY <1>1 DEF Ligne
    <2> HIDE DEF t
    <2>2. b \in Attributs /\ b.nature = t.attr.nature /\ b.niveau = t.attr.niveau
          /\ b.libelle = t.attr.libelle /\ b.parent = nouveau
      BY <2>1 DEF Attributs
    <2>3. [t EXCEPT !.attr.parent = nouveau] = [t EXCEPT !.attr = b]
      BY <2>1 DEF Ligne
    <2> HIDE DEF b
    <2> QED BY <2>1, <2>2, <2>3 DEF Ligne, t
  <1>2. ASSUME NEW k \in Ids, table[k] \notin Ligne PROVE table[k].dim \notin Dependants(d)
    BY <1>2 DEF Absente, Dependants, AutoReferences
  <1>3. \A k \in Ids : r[k] = IF table[k].dim \in Dependants(d) /\ table[k].attr.parent = ancien
                              THEN [table[k] EXCEPT !.attr.parent = nouveau] ELSE table[k]
    BY DEF Relier
  <1>4. \A k \in Ids : r[k] \in Ligne \cup {Absente}
    BY <1>1, <1>2, <1>3
  <1>5. r \in [Ids -> Ligne \cup {Absente}]
    BY <1>4 DEF Relier
  <1> QED BY <1>1, <1>2, <1>3, <1>5

(* A creation adds one row and changes no other.                           *)
LEMMA UneLigneCreee ==
  ASSUME InvariantScd2, NEW d \in Dimensions, NEW c \in Codes, NEW a \in AttributsDe[d],
         ParentAdmis(d, a.parent), Creer(d, c, a)
  PROVE  \E n \in Ids :
           /\ ~Existe(n)
           /\ lignes' \in [Ids -> Ligne \cup {Absente}] /\ lignes'[n] \in Ligne
           /\ lignes'[n] = [dim |-> d, code |-> c, debut |-> jour, fin |-> Nul, actif |-> TRUE, attr |-> a]
           /\ \A k \in Ids : k # n => lignes'[k] = lignes[k]
  <1> DEFINE nouvelle == [dim |-> d, code |-> c, debut |-> jour, fin |-> Nul, actif |-> TRUE, attr |-> a]
  <1>1. PICK n \in Ids : ~Existe(n) /\ lignes' = NouvelleVersion(d, c, a, TRUE, n)
    BY DEF Creer, Prochain
  <1>2. TypeOK /\ Courantes(d, c) = {}
    BY DEF InvariantScd2, Creer
  <1>3. Fermees(d, c, FALSE) = lignes
    BY <1>2 DEF Fermees, TypeOK
  <1>4. lignes' = [lignes EXCEPT ![n] = nouvelle]
    BY <1>1, <1>3 DEF NouvelleVersion
  <1>5. nouvelle \in Ligne
    <2>1. a \in Attributs
      BY AttributsTypes
    <2>2. 0 \in 0..JourMax /\ jour \in 1..JourMax
      BY <1>2, BornesScd2 DEF TypeOK
    <2> QED BY <2>1, <2>2 DEF Ligne, Nul
  <1> HIDE DEF nouvelle
  <1>6. /\ lignes' \in [Ids -> Ligne \cup {Absente}]
        /\ lignes'[n] = nouvelle /\ \A k \in Ids : k # n => lignes'[k] = lignes[k]
    BY <1>2, <1>4, <1>5 DEF TypeOK
  <1> QED BY <1>1, <1>5, <1>6 DEF nouvelle

(* A step in place writes one row, whose key and dates it keeps.            *)
LEMMA UneLigneEcrite ==
  ASSUME InvariantScd2, NEW i \in Ids, Courante(i), NEW a \in AttributsDe[lignes[i].dim], NEW actif \in BOOLEAN,
         Activer(i, a, actif) \/ Ecraser(i, a, actif)
  PROVE  /\ lignes' \in [Ids -> Ligne \cup {Absente}]
         /\ lignes'[i] = [dim |-> lignes[i].dim, code |-> lignes[i].code, debut |-> lignes[i].debut,
                          fin |-> lignes[i].fin, actif |-> actif, attr |-> a]
         /\ \A k \in Ids : k # i => lignes'[k] = lignes[k]
         /\ a = lignes[i].attr \/ lignes[i].debut = jour
  <1>1. TypeOK
    BY DEF InvariantScd2
  <1>2. Existe(i) /\ lignes[i] \in Ligne /\ a \in Attributs
    BY <1>1, LigneExistante, AttributsTypes DEF Courante
  <1>3. lignes \in [Ids -> Ligne \cup {Absente}]
    BY <1>1 DEF TypeOK
  <1> DEFINE ecrite == [dim |-> lignes[i].dim, code |-> lignes[i].code, debut |-> lignes[i].debut,
                        fin |-> lignes[i].fin, actif |-> actif, attr |-> a]
  <1>4. ecrite \in Ligne
    BY <1>2 DEF Ligne
  <1>5. lignes' = [lignes EXCEPT ![i] = ecrite] /\ (a = lignes[i].attr \/ lignes[i].debut = jour)
    <2>1. CASE Activer(i, a, actif)
      <3>1. lignes' = [lignes EXCEPT ![i] = [lignes[i] EXCEPT !.actif = actif]] /\ a = lignes[i].attr
        BY <2>1 DEF Activer
      <3>2. [lignes[i] EXCEPT !.actif = actif] = ecrite
        BY <1>2, <3>1 DEF Ligne
      <3> QED BY <3>1, <3>2
    <2>2. CASE Ecraser(i, a, actif)
      <3>1. lignes' = [lignes EXCEPT ![i] = [[lignes[i] EXCEPT !.attr = a] EXCEPT !.actif = actif]]
            /\ lignes[i].debut = jour
        BY <2>2, <1>3 DEF Ecraser
      <3> DEFINE l == [lignes[i] EXCEPT !.attr = a]
      <3>2. l \in Ligne /\ l.attr = a /\ l.dim = lignes[i].dim /\ l.code = lignes[i].code
            /\ l.debut = lignes[i].debut /\ l.fin = lignes[i].fin
        BY <1>2 DEF Ligne
      <3> HIDE DEF l
      <3>3. [l EXCEPT !.actif = actif] = ecrite
        BY <3>2 DEF Ligne
      <3> QED BY <3>1, <3>3 DEF l
    <2> QED BY <2>1, <2>2
  <1> HIDE DEF ecrite
  <1>6. /\ lignes' \in [Ids -> Ligne \cup {Absente}]
        /\ lignes'[i] = ecrite /\ \A k \in Ids : k # i => lignes'[k] = lignes[k]
    BY <1>3, <1>4, <1>5
  <1> QED BY <1>5, <1>6 DEF ecrite

(* The parent of the row k after a revision of i by n: the one it had, or the *)
(* one the request gives to n, moved from i to n where the relinking was done. *)
ParentRevise(k, i, n, a, reliees) ==
  LET p == IF k = n THEN a.parent ELSE lignes[k].attr.parent
      e == IF k = n THEN lignes[i].dim ELSE lignes[k].dim
  IN  IF reliees /\ e \in Dependants(lignes[i].dim) /\ p = i THEN n ELSE p

Revisee(i, n, a, reliees) ==
  /\ ~Existe(n)
  /\ reliees => perdues' = perdues
  /\ ~reliees => Dependants(lignes[i].dim) # {} /\ perdues' = perdues \cup {i}
  /\ lignes' \in [Ids -> Ligne \cup {Absente}]
  /\ lignes'[n] \in Ligne
  /\ lignes'[n].dim = lignes[i].dim /\ lignes'[n].code = lignes[i].code
  /\ lignes'[n].debut = jour /\ lignes'[n].fin = Nul
  /\ lignes'[n].attr.parent = ParentRevise(n, i, n, a, reliees)
  /\ \A k \in Ids : k # n =>
       /\ lignes'[k].dim = lignes[k].dim
       /\ ~Existe(k) => lignes'[k] = Absente
       /\ Existe(k) => /\ lignes'[k].code = lignes[k].code
                       /\ lignes'[k].debut = lignes[k].debut
                       /\ lignes'[k].fin = IF k = i THEN jour ELSE lignes[k].fin
                       /\ lignes'[k].attr.parent = ParentRevise(k, i, n, a, reliees)
                       /\ lignes'[k].attr.nature = lignes[k].attr.nature
                       /\ lignes'[k].attr.niveau = lignes[k].attr.niveau
                       /\ lignes'[k].attr.libelle = lignes[k].attr.libelle

LEMMA UneLigneRevisee ==
  ASSUME InvariantScd2, NEW i \in Ids, Courante(i), NEW a \in AttributsDe[lignes[i].dim], NEW actif \in BOOLEAN,
         Reviser(i, a, actif)
  PROVE  \E n \in Ids, reliees \in BOOLEAN : Revisee(i, n, a, reliees)
  <1> DEFINE d == lignes[i].dim
             c == lignes[i].code
             act == actif \/ ~lignes[i].actif
             nouvelle == [dim |-> d, code |-> c, debut |-> jour, fin |-> Nul, actif |-> act, attr |-> a]
             f == Fermees(d, c, FALSE)
  <1>1. PICK n \in Ids :
          /\ Prochain(n)
          /\ \/ /\ lignes' = Relier(NouvelleVersion(d, c, a, act, n), d, i, n)
                /\ perdues' = perdues
             \/ /\ lignes' = NouvelleVersion(d, c, a, act, n)
                /\ Dependants(d) # {}
                /\ perdues' = perdues \cup {i}
    BY DEF Reviser
  <1>2. TypeOK /\ ~Existe(n) /\ Existe(i) /\ n # i
    BY <1>1 DEF InvariantScd2, Prochain, Courante
  <1>3. /\ jour \in 1..JourMax
        /\ d \in Dimensions /\ a \in Attributs /\ lignes[i] \in Ligne
    BY <1>2, LigneExistante, AttributsTypes DEF TypeOK
  <1>4. /\ f \in [Ids -> Ligne \cup {Absente}]
        /\ \A k \in Ids : k # i => f[k] = lignes[k]
        /\ f[i] \in Ligne /\ f[i].dim = d /\ f[i].code = c
        /\ f[i].debut = lignes[i].debut /\ f[i].attr = lignes[i].attr /\ f[i].fin = jour
    BY FermerUneLigne
  <1>5. nouvelle \in Ligne
    <2>1. 0 \in 0..JourMax /\ act \in BOOLEAN /\ c \in Codes
      BY <1>3, BornesScd2 DEF Ligne
    <2> QED BY <1>3, <2>1 DEF Ligne, Nul
  <1> DEFINE t == NouvelleVersion(d, c, a, act, n)
  <1>6. /\ t \in [Ids -> Ligne \cup {Absente}]
        /\ t[n] = nouvelle
        /\ \A k \in Ids : k # n => t[k] = f[k]
    <2>1. t = [f EXCEPT ![n] = nouvelle]
      BY DEF NouvelleVersion
    <2> HIDE DEF t, f, nouvelle
    <2> QED BY <1>4, <1>5, <2>1
  <1> DEFINE r == Relier(t, d, i, n)
             reliee(k) == t[k] \in Ligne /\ t[k].dim \in Dependants(d) /\ t[k].attr.parent = i
  <1>7. /\ r \in [Ids -> Ligne \cup {Absente}]
        /\ \A k \in Ids :
             IF reliee(k)
             THEN /\ r[k] \in Ligne
                  /\ r[k].dim = t[k].dim /\ r[k].code = t[k].code
                  /\ r[k].debut = t[k].debut /\ r[k].fin = t[k].fin
                  /\ r[k].attr.nature = t[k].attr.nature
                  /\ r[k].attr.niveau = t[k].attr.niveau
                  /\ r[k].attr.libelle = t[k].attr.libelle
                  /\ r[k].attr.parent = n
             ELSE r[k] = t[k]
    <2> HIDE DEF t
    <2> QED BY <1>6, RelierLesDependants
  <1>8. /\ t[n].dim = d /\ t[n].code = c /\ t[n].debut = jour /\ t[n].fin = Nul /\ t[n].attr = a /\ t[n] \in Ligne
        /\ \A k \in Ids : k # n =>
             /\ t[k].dim = lignes[k].dim
             /\ ~Existe(k) => t[k] = Absente /\ t[k] \notin Ligne
             /\ Existe(k) => /\ t[k] \in Ligne
                             /\ t[k].code = lignes[k].code /\ t[k].debut = lignes[k].debut
                             /\ t[k].fin = IF k = i THEN jour ELSE lignes[k].fin
                             /\ t[k].attr = lignes[k].attr
    <2>1. ASSUME NEW k \in Ids, Existe(k) PROVE lignes[k] \in Ligne
      BY <1>2, <2>1, LigneExistante
    <2>2. ASSUME NEW k \in Ids, ~Existe(k) PROVE lignes[k] = Absente
      BY <1>2, <2>2, AbsenteOuLigne
    <2>3. Absente \notin Ligne
      BY DEF Absente, Ligne, Dimensions, Hierarchies, AutoReferences
    <2> HIDE DEF t, f
    <2> QED BY <1>2, <1>3, <1>4, <1>5, <1>6, <2>1, <2>2, <2>3
  <1> HIDE DEF t, f, r, d, c, act
  <1>9. CASE lignes' = t /\ perdues' = perdues \cup {i} /\ Dependants(d) # {}
    <2>1. \A k \in Ids : ParentRevise(k, i, n, a, FALSE) = IF k = n THEN a.parent ELSE lignes[k].attr.parent
      BY DEF ParentRevise
    <2>2. Revisee(i, n, a, FALSE)
      BY <1>2, <1>6, <1>8, <1>9, <2>1 DEF Revisee, d, c
    <2> QED BY <2>2
  <1>10. CASE lignes' = r /\ perdues' = perdues
    <2>1. ASSUME NEW k \in Ids, k = n \/ Existe(k)
          PROVE  /\ r[k].code = t[k].code /\ r[k].debut = t[k].debut /\ r[k].fin = t[k].fin
                 /\ r[k].attr.parent = ParentRevise(k, i, n, a, TRUE)
                 /\ r[k].attr.nature = t[k].attr.nature /\ r[k].attr.niveau = t[k].attr.niveau
                 /\ r[k].attr.libelle = t[k].attr.libelle /\ r[k] \in Ligne
      <3>1. t[k] \in Ligne
        BY <1>8, <2>1
      <3>2. ParentRevise(k, i, n, a, TRUE) = IF reliee(k) THEN n ELSE t[k].attr.parent
        BY <1>8, <2>1, <3>1 DEF ParentRevise, d
      <3>3. CASE reliee(k)
        BY <1>7, <3>2, <3>3
      <3>4. CASE ~reliee(k)
        BY <1>7, <3>1, <3>2, <3>4
      <3> QED BY <3>3, <3>4
    <2>2. \A k \in Ids : r[k].dim = t[k].dim /\ (t[k] \notin Ligne => r[k] = t[k])
      BY <1>7
    <2>3. /\ r \in [Ids -> Ligne \cup {Absente}] /\ r[n] \in Ligne
          /\ r[n].dim = d /\ r[n].code = c /\ r[n].debut = jour /\ r[n].fin = Nul
          /\ r[n].attr.parent = ParentRevise(n, i, n, a, TRUE)
      BY <1>7, <1>8, <2>1, <2>2
    <2>4. ASSUME NEW k \in Ids, k # n
          PROVE  /\ r[k].dim = lignes[k].dim
                 /\ ~Existe(k) => r[k] = Absente
                 /\ Existe(k) => /\ r[k].code = lignes[k].code /\ r[k].debut = lignes[k].debut
                                 /\ r[k].fin = IF k = i THEN jour ELSE lignes[k].fin
                                 /\ r[k].attr.parent = ParentRevise(k, i, n, a, TRUE)
                                 /\ r[k].attr.nature = lignes[k].attr.nature
                                 /\ r[k].attr.niveau = lignes[k].attr.niveau
                                 /\ r[k].attr.libelle = lignes[k].attr.libelle
      BY <1>8, <2>1, <2>2, <2>4
    <2>5. Revisee(i, n, a, TRUE)
      BY <1>2, <1>10, <2>3, <2>4 DEF Revisee, d, c
    <2> QED BY <2>5
  <1> QED BY <1>1, <1>9, <1>10 DEF t, r

(* A closing writes one row, whose links it keeps.                         *)
LEMMA UneLigneFermee ==
  ASSUME InvariantScd2, NEW i \in Ids, Courante(i), DesactiverHierarchie(i) \/ DesactiverSimple(i)
  PROVE  /\ lignes' \in [Ids -> Ligne \cup {Absente}]
         /\ \A k \in Ids : k # i => lignes'[k] = lignes[k]
         /\ lignes'[i].dim = lignes[i].dim /\ lignes'[i].code = lignes[i].code
         /\ lignes'[i].debut = lignes[i].debut /\ lignes'[i].attr = lignes[i].attr
         /\ lignes'[i].fin = jour
         /\ perdues' = perdues \/ perdues' = perdues \cup {i}
         /\ lignes[i].dim = "structure" => i \in perdues'
         /\ corriges' = corriges /\ jour' = jour
         /\ lignes[i].dim \in Hierarchies => Enfants({i}) = {}
  <1> DEFINE f == Fermees(lignes[i].dim, lignes[i].code, TRUE)
  <1>1. /\ lignes' = f
        /\ perdues' = perdues \/ perdues' = perdues \cup {i}
        /\ lignes[i].dim = "structure" => i \in perdues'
        /\ corriges' = corriges /\ jour' = jour
        /\ lignes[i].dim \in Hierarchies => Enfants({i}) = {}
    BY DEF DesactiverHierarchie, DesactiverSimple, Hierarchies, AutoReferences
  <1>2. /\ f \in [Ids -> Ligne \cup {Absente}]
        /\ \A k \in Ids : k # i => f[k] = lignes[k]
        /\ f[i].dim = lignes[i].dim /\ f[i].code = lignes[i].code
        /\ f[i].debut = lignes[i].debut /\ f[i].attr = lignes[i].attr /\ f[i].fin = jour
    BY FermerUneLigne
  <1> HIDE DEF f
  <1> QED BY <1>1, <1>2

-----------------------------------------------------------------------------
(* The effects one by one: they evolve the rows, and keep the links.        *)

LEMMA EffetCreer ==
  ASSUME InvariantScd2, NEW d \in Dimensions, NEW c \in Codes, NEW a \in AttributsDe[d],
         ParentAdmis(d, a.parent), Creer(d, c, a)
  PROVE  Evolution /\ Liens'
  <1>1. PICK n \in Ids :
          /\ ~Existe(n)
          /\ lignes' \in [Ids -> Ligne \cup {Absente}] /\ lignes'[n] \in Ligne
          /\ lignes'[n] = [dim |-> d, code |-> c, debut |-> jour, fin |-> Nul, actif |-> TRUE, attr |-> a]
          /\ \A k \in Ids : k # n => lignes'[k] = lignes[k]
    BY UneLigneCreee
  <1>2. TypeOK /\ Courantes(d, c) = {} /\ jour' = jour /\ perdues' = perdues
    BY DEF InvariantScd2, Creer
  <1>3. jour \in 1..JourMax /\ perdues \in SUBSET Ids /\ jour <= jour'
    BY <1>2 DEF TypeOK
  <1>4. Evolution
    <2>1. ASSUME NEW k \in Ids, Existe(k) PROVE Conservee(k)
      BY <1>1, <2>1 DEF Conservee
    <2>2. Nouvelle(n)
      <3>1. ASSUME NEW k \in Ids, Existe(k), lignes[k].dim = d, lignes[k].code = c PROVE lignes'[k].fin # Nul
        BY <1>1, <1>2, <3>1 DEF Courantes
      <3>2. \A k \in Ids \ {n} : ~Existe(k) => lignes'[k] = Absente
        BY <1>1, <1>2, AbsenteOuLigne
      <3> QED BY <1>1, <3>1, <3>2 DEF Nouvelle
    <2>3. ASSUME NEW k \in Ids, ~Existe(k) PROVE lignes'[k] = Absente \/ Nouvelle(k)
      BY <2>2, <2>3 DEF Nouvelle
    <2> QED BY <1>1, <1>2, <1>3, <2>1, <2>3 DEF Evolution
  <1>5. Liens'
    <2>1. ASSUME NEW p \in Ids, Existe(p) PROVE lignes'[p] = lignes[p]
      BY <1>1, <2>1
    <2> SUFFICES ASSUME NEW k \in Ids, Existe(k)'
                 PROVE  /\ lignes'[k].dim = "cr" => lignes'[k].attr.parent # Nul
                        /\ lignes'[k].attr.parent # Nul =>
                             /\ lignes'[lignes'[k].attr.parent].dim = DimensionParent(lignes'[k].dim)
                             /\ Courante(k)' /\ lignes'[k].dim \in AutoReferences \cup {"cr"} =>
                                  Courante(lignes[k].attr.parent)' \/ lignes'[k].attr.parent \in perdues'
      BY DEF Liens
    <2>2. CASE k = n
      <3>1. lignes'[k].dim = d /\ lignes'[k].attr = a
        BY <2>2, <1>1
      <3>2. d = "cr" => a.parent # Nul
        BY AttributsTypes
      <3>3. ASSUME a.parent # Nul
            PROVE lignes'[a.parent] = lignes[a.parent] /\ Courante(a.parent) /\ lignes[a.parent].dim = DimensionParent(d)
        BY <2>1, <3>3 DEF ParentAdmis, ParentCourant, Courante
      <3> QED BY <3>1, <3>2, <3>3 DEF Courante, Existe
    <2>3. CASE k # n
      <3>1. lignes'[k] = lignes[k] /\ Existe(k)
        BY <2>3, <1>1 DEF Existe
      <3>2. ASSUME lignes[k].attr.parent # Nul
            PROVE lignes'[lignes[k].attr.parent] = lignes[lignes[k].attr.parent]
        BY <2>1, <3>1, <3>2, <1>2, ParentExiste
      <3>3. Courante(k)' => Courante(k)
        BY <3>1 DEF Courante
      <3> QED BY <3>1, <3>2, <3>3, <1>2, LiensDansInvariant DEF Liens, Courante, Existe
    <2> QED BY <2>2, <2>3
  <1> QED BY <1>4, <1>5

(* A step in place: one current row i gets new attributes or another        *)
(* est_actif; the dates do not change.                                     *)
LEMMA EffetEnPlace ==
  ASSUME InvariantScd2, NEW i \in Ids, Courante(i), NEW a \in AttributsDe[lignes[i].dim], NEW actif \in BOOLEAN,
         Reparente(i, a) => ParentCourant(lignes[i].dim, a.parent),
         Activer(i, a, actif) \/ Ecraser(i, a, actif)
  PROVE  Evolution /\ Liens'
  <1>1. TypeOK /\ jour' = jour /\ perdues' = perdues
    BY DEF InvariantScd2, Activer, Ecraser
  <1>2. Existe(i) /\ lignes[i].dim \in Dimensions
    BY <1>1, LigneExistante DEF Courante
  <1>3. jour \in 1..JourMax /\ perdues \in SUBSET Ids /\ jour <= jour'
    BY <1>1 DEF TypeOK
  <1> DEFINE ecrite == [dim |-> lignes[i].dim, code |-> lignes[i].code, debut |-> lignes[i].debut,
                        fin |-> lignes[i].fin, actif |-> actif, attr |-> a]
  <1>4. lignes' \in [Ids -> Ligne \cup {Absente}] /\ (a = lignes[i].attr \/ lignes[i].debut = jour)
    BY UneLigneEcrite
  <1>5. lignes'[i] = ecrite /\ \A k \in Ids : k # i => lignes'[k] = lignes[k]
    BY UneLigneEcrite
  <1>6. Evolution
    <2>1. ASSUME NEW k \in Ids, Existe(k) PROVE Conservee(k)
      <3>1. CASE k = i
        BY <1>4, <1>5, <3>1 DEF Conservee
      <3>2. CASE k # i
        BY <1>5, <3>2 DEF Conservee
      <3> QED BY <3>1, <3>2
    <2>2. ASSUME NEW k \in Ids, ~Existe(k) PROVE lignes'[k] = Absente
      BY <1>1, <1>2, <1>5, <2>2, AbsenteOuLigne
    <2> QED BY <1>1, <1>3, <1>4, <2>1, <2>2 DEF Evolution
  <1>7. Liens'
    <2>1. ASSUME NEW p \in Ids
          PROVE /\ lignes'[p].dim = lignes[p].dim
                /\ Courante(p)' <=> Courante(p)
                /\ Existe(p)' <=> Existe(p)
      <3>1. CASE p = i
        BY <1>5, <3>1 DEF Courante, Existe
      <3>2. CASE p # i
        BY <1>5, <3>2 DEF Courante, Existe
      <3> QED BY <3>1, <3>2
    <2>2. Liens
      BY LiensDansInvariant
    <2> SUFFICES ASSUME NEW k \in Ids, Existe(k)'
                 PROVE  /\ lignes'[k].dim = "cr" => lignes'[k].attr.parent # Nul
                        /\ lignes'[k].attr.parent # Nul =>
                             /\ lignes'[lignes'[k].attr.parent].dim = DimensionParent(lignes'[k].dim)
                             /\ Courante(k)' /\ lignes'[k].dim \in AutoReferences \cup {"cr"} =>
                                  Courante(lignes[k].attr.parent)' \/ lignes'[k].attr.parent \in perdues'
      BY DEF Liens
    <2>3. CASE lignes'[k].attr.parent = lignes[k].attr.parent
      <3>1. ASSUME lignes[k].attr.parent # Nul PROVE lignes[k].attr.parent \in Ids
        BY <1>1, <2>1, <3>1, ParentExiste
      <3> QED BY <1>1, <2>1, <2>2, <2>3, <3>1 DEF Liens
    <2>4. CASE lignes'[k].attr.parent # lignes[k].attr.parent
      <3>1. k = i /\ lignes'[k].attr = a /\ a.parent # lignes[i].attr.parent
        BY <1>5, <2>4
      <3>2. lignes[i].dim = "cr" => a.parent # Nul
        BY <1>2, AttributsTypes
      <3>3. ASSUME a.parent # Nul
            PROVE a.parent \in Ids /\ Courante(a.parent) /\ lignes[a.parent].dim = DimensionParent(lignes[i].dim)
        BY <3>1, <3>3 DEF Reparente, ParentCourant
      <3> QED BY <2>1, <3>1, <3>2, <3>3
    <2> QED BY <2>3, <2>4
  <1> QED BY <1>6, <1>7

LEMMA EffetReviser ==
  ASSUME InvariantScd2, NEW i \in Ids, Courante(i), NEW a \in AttributsDe[lignes[i].dim], NEW actif \in BOOLEAN,
         Reparente(i, a) => ParentCourant(lignes[i].dim, a.parent),
         Reviser(i, a, actif)
  PROVE  Evolution /\ Liens'
  <1> DEFINE d == lignes[i].dim
  <1>1. PICK n \in Ids, reliees \in BOOLEAN : Revisee(i, n, a, reliees)
    BY UneLigneRevisee
  <1>2. /\ TypeOK /\ jour' = jour /\ ~Existe(n) /\ Existe(i) /\ n # i
        /\ jour \in 1..JourMax /\ jour # Nul /\ jour <= jour' /\ perdues \in SUBSET Ids
        /\ d \in Dimensions
    BY <1>1, LigneExistante DEF InvariantScd2, Reviser, Revisee, Courante, TypeOK, Nul
  <1>3. /\ lignes' \in [Ids -> Ligne \cup {Absente}] /\ lignes'[n] \in Ligne
        /\ perdues \subseteq perdues' /\ perdues' \subseteq perdues \cup {i}
        /\ ~reliees => i \in perdues'
    BY <1>1 DEF Revisee
  <1>4. Evolution
    <2>1. ASSUME NEW k \in Ids, Existe(k) PROVE Conservee(k)
      BY <1>1, <1>2, <2>1 DEF Revisee, Conservee, Courante
    <2>2. ASSUME NEW k \in Ids, ~Existe(k), k # n PROVE lignes'[k] = Absente
      BY <1>1, <2>2 DEF Revisee
    <2>3. Nouvelle(n)
      <3>1. ASSUME NEW k \in Ids, Existe(k), lignes[k].dim = d, lignes[k].code = lignes[i].code
            PROVE  lignes'[k].fin # Nul
        <4>1. lignes[k].fin = Nul => k = i
          BY <3>1, SeuleCourante DEF InvariantScd2, Courantes
        <4> QED BY <1>1, <1>2, <3>1, <4>1 DEF Revisee
      <3> QED BY <1>1, <1>3, <2>2, <3>1 DEF Nouvelle, Revisee
    <2> QED BY <1>2, <1>3, <2>1, <2>2, <2>3 DEF Evolution
  <1>5. Liens'
    <2> SUFFICES ASSUME NEW k \in Ids, Existe(k)'
                 PROVE  /\ lignes'[k].dim = "cr" => lignes'[k].attr.parent # Nul
                        /\ lignes'[k].attr.parent # Nul =>
                             /\ lignes'[lignes'[k].attr.parent].dim = DimensionParent(lignes'[k].dim)
                             /\ Courante(k)' /\ lignes'[k].dim \in AutoReferences \cup {"cr"} =>
                                  Courante(lignes[k].attr.parent)' \/ lignes'[k].attr.parent \in perdues'
      BY DEF Liens
    <2> DEFINE p == IF k = n THEN a.parent ELSE lignes[k].attr.parent
               e == lignes'[k].dim
    <2>1. /\ k # n => Existe(k) /\ lignes[k].dim = e
          /\ k = n => e = d
          /\ lignes'[k].attr.parent = IF reliees /\ e \in Dependants(d) /\ p = i THEN n ELSE p
      BY <1>1 DEF Revisee, ParentRevise, Existe
    <2>2. Courante(n)' /\ lignes'[n].dim = d /\ n # Nul
      BY <1>1, <1>2 DEF Revisee, Courante, Existe, Ids, Nul
    <2>3. ASSUME NEW q \in Ids, Existe(q)
          PROVE  lignes'[q].dim = lignes[q].dim /\ (Courante(q) /\ q # i => Courante(q)')
      BY <1>1, <1>2, <2>3 DEF Revisee, Courante, Existe
    <2>4. /\ e = "cr" => p # Nul
          /\ p # Nul => /\ p \in Ids /\ Existe(p) /\ lignes[p].dim = DimensionParent(e)
                        /\ Courante(k)' /\ e \in AutoReferences \cup {"cr"} => Courante(p) \/ p \in perdues
      <3>1. CASE k = n /\ Reparente(i, a)
        BY <1>2, <2>1, <3>1, AttributsTypes DEF ParentCourant, Courante, Reparente
      <3>2. CASE k = n /\ ~Reparente(i, a)
        <4>1. p = a.parent /\ (p # Nul => p = lignes[i].attr.parent) /\ e = d
          BY <2>1, <3>2 DEF Reparente
        <4>2. p # Nul => p \in Ids /\ Existe(p)
          BY <1>2, <4>1, ParentExiste
        <4>3. d = "cr" => a.parent # Nul
          BY <1>2, AttributsTypes
        <4> HIDE DEF p, e
        <4> QED BY <1>2, <4>1, <4>2, <4>3, LiensDansInvariant DEF Liens
      <3>3. CASE k # n
        <4>1. Existe(k) /\ lignes[k].dim = e /\ p = lignes[k].attr.parent
          BY <2>1, <3>3
        <4>2. Courante(k)' => Courante(k)
          BY <1>1, <1>2, <3>3, <4>1 DEF Revisee, Courante
        <4>3. p # Nul => p \in Ids /\ Existe(p)
          BY <1>2, <4>1, ParentExiste
        <4> QED BY <4>1, <4>2, <4>3, LiensDansInvariant DEF Liens
      <3> QED BY <3>1, <3>2, <3>3
    <2>5. e \in Dependants(d) => d = DimensionParent(e)
      BY DEF Dependants, DimensionParent, AutoReferences
    <2>6. CASE reliees /\ e \in Dependants(d) /\ p = i
      <3>1. lignes'[k].attr.parent = n
        BY <2>1, <2>6
      <3> QED BY <2>2, <2>5, <2>6, <3>1
    <2>7. CASE ~(reliees /\ e \in Dependants(d) /\ p = i)
      <3>1. lignes'[k].attr.parent = p
        BY <2>1, <2>7
      <3>2. p = i /\ reliees => e \notin AutoReferences \cup {"cr"}
        <4>1. p = i => d = DimensionParent(e)
          BY <2>4 DEF Ids, Nul
        <4>2. e \in AutoReferences \cup {"cr"} /\ d = DimensionParent(e) => e \in Dependants(d)
          BY DEF Dependants, DimensionParent, AutoReferences
        <4> QED BY <2>7, <4>1, <4>2
      <3> HIDE DEF p
      <3> QED BY <1>3, <2>3, <2>4, <3>1, <3>2
    <2> QED BY <2>6, <2>7
  <1> QED BY <1>4, <1>5

(* Closing one current row i, with perdues' taking note of it where CRs may  *)
(* still point to it.                                                      *)
LEMMA EffetFermer ==
  ASSUME InvariantScd2, NEW i \in Ids, Courante(i), DesactiverHierarchie(i) \/ DesactiverSimple(i)
  PROVE  Evolution /\ Liens'
  <1>1. /\ TypeOK /\ jour' = jour /\ Existe(i)
        /\ perdues \subseteq perdues' /\ perdues' \in SUBSET Ids
        /\ lignes[i].dim = "structure" => i \in perdues'
        /\ lignes[i].dim \in Hierarchies => Enfants({i}) = {}
    BY UneLigneFermee DEF InvariantScd2, Courante, TypeOK
  <1>2. /\ lignes' \in [Ids -> Ligne \cup {Absente}]
        /\ \A k \in Ids : k # i => lignes'[k] = lignes[k]
        /\ lignes'[i].dim = lignes[i].dim /\ lignes'[i].code = lignes[i].code
        /\ lignes'[i].debut = lignes[i].debut /\ lignes'[i].attr = lignes[i].attr /\ lignes'[i].fin = jour
    BY UneLigneFermee
  <1>3. jour \in 1..JourMax /\ jour \in Nat /\ jour # Nul
    BY <1>1 DEF TypeOK, Nul
  <1>4. Evolution
    <2>1. ASSUME NEW k \in Ids, Existe(k) PROVE Conservee(k)
      BY <1>1, <1>2, <2>1 DEF Conservee, Courante
    <2>2. ASSUME NEW k \in Ids, ~Existe(k) PROVE lignes'[k] = Absente
      BY <1>1, <1>2, <2>2, AbsenteOuLigne
    <2>3. jour <= jour' /\ jour' \in 1..JourMax
      BY <1>1, <1>3
    <2> QED BY <1>1, <1>2, <2>1, <2>2, <2>3 DEF Evolution
  <1>5. Liens'
    <2> SUFFICES ASSUME NEW k \in Ids, Existe(k)'
                 PROVE  /\ lignes'[k].dim = "cr" => lignes'[k].attr.parent # Nul
                        /\ lignes'[k].attr.parent # Nul =>
                             /\ lignes'[lignes'[k].attr.parent].dim = DimensionParent(lignes'[k].dim)
                             /\ Courante(k)' /\ lignes'[k].dim \in AutoReferences \cup {"cr"} =>
                                  Courante(lignes[k].attr.parent)' \/ lignes'[k].attr.parent \in perdues'
      BY DEF Liens
    <2> DEFINE p == lignes[k].attr.parent
    <2>1. /\ Existe(k) /\ lignes'[k].dim = lignes[k].dim /\ lignes'[k].attr = lignes[k].attr
          /\ Courante(k)' => k # i /\ Courante(k)
      BY <1>1, <1>2, <1>3 DEF Existe, Courante
    <2>2. ASSUME NEW q \in Ids
          PROVE  lignes'[q].dim = lignes[q].dim /\ (Courante(q) /\ q # i => Courante(q)')
      BY <1>1, <1>2 DEF Courante, Existe
    <2>3. /\ lignes[k].dim = "cr" => p # Nul
          /\ p # Nul => /\ lignes[p].dim = DimensionParent(lignes[k].dim)
                        /\ Courante(k) /\ lignes[k].dim \in AutoReferences \cup {"cr"} =>
                             Courante(p) \/ p \in perdues
      BY <2>1, LiensDansInvariant DEF Liens
    <2>4. p # Nul => p \in Ids
      BY <1>1, <2>1, ParentExiste
    <2>5. Courante(k)' /\ p = i /\ lignes[k].dim \in AutoReferences => FALSE
      <3> SUFFICES ASSUME Courante(k)', p = i, lignes[k].dim \in AutoReferences PROVE FALSE
        OBVIOUS
      <3>1. i # Nul
        BY DEF Ids, Nul
      <3>2. lignes[i].dim = lignes[k].dim
        BY <2>3, <3>1 DEF DimensionParent, AutoReferences
      <3>3. k \in Enfants({i})
        BY <2>1 DEF Enfants, Hierarchies
      <3> QED BY <1>1, <3>2, <3>3 DEF Hierarchies
    <2>6. p = i /\ lignes[k].dim = "cr" => i \in perdues'
      BY <1>1, <2>3 DEF DimensionParent
    <2> QED BY <1>1, <2>1, <2>2, <2>3, <2>4, <2>5, <2>6
  <1> QED BY <1>4, <1>5

LEMMA EffetNouveauJour ==
  ASSUME InvariantScd2, NouveauJour
  PROVE  Evolution /\ Liens'
  <1>1. TypeOK /\ lignes' = lignes /\ perdues' = perdues /\ jour' = jour + 1 /\ jour < JourMax
    BY DEF InvariantScd2, NouveauJour
  <1>2. jour <= jour' /\ jour' \in 1..JourMax
    BY <1>1, BornesScd2 DEF TypeOK
  <1>3. Evolution
    BY <1>1, <1>2, AbsenteOuLigne DEF TypeOK, Evolution, Conservee
  <1>4. Liens'
    BY <1>1, LiensDansInvariant DEF Liens, Courante, Existe
  <1> QED BY <1>3, <1>4

(* The history of the parents only names keys.                             *)
LEMMA HistoireTypee ==
  ASSUME InvariantScd2, Effets
  PROVE  corriges' \in SUBSET (Dimensions \X Codes)
  <1>1. TypeOK /\ corriges \in SUBSET (Dimensions \X Codes)
    BY DEF InvariantScd2, TypeOK
  <1>2. ASSUME NEW i \in Ids, Courante(i), NEW a PROVE Corrige(i, a) \in SUBSET (Dimensions \X Codes)
    <2>1. lignes[i].dim \in Dimensions /\ lignes[i].code \in Codes
      BY <1>1, <1>2, LigneExistante DEF Courante, Ligne
    <2> QED BY <1>1, <2>1 DEF Corrige
  <1>3. ASSUME NEW i \in Ids, Courante(i), NEW a, NEW actif,
               Activer(i, a, actif) \/ Ecraser(i, a, actif) \/ Reviser(i, a, actif)
        PROVE  corriges' \in SUBSET (Dimensions \X Codes)
    BY <1>1, <1>2, <1>3 DEF Activer, Ecraser, Reviser
  <1>4. ASSUME NEW d, NEW c, NEW a, Creer(d, c, a) PROVE corriges' \in SUBSET (Dimensions \X Codes)
    BY <1>1, <1>4 DEF Creer
  <1>5. ASSUME Fermeture \/ NouveauJour PROVE corriges' \in SUBSET (Dimensions \X Codes)
    BY <1>1, <1>5 DEF Fermeture, DesactiverHierarchie, DesactiverSimple, NouveauJour
  <1> QED BY <1>3, <1>4, <1>5 DEF Effets

LEMMA PasEvolution ==
  ASSUME InvariantScd2, Next
  PROVE  Evolution /\ Liens' /\ corriges' \in SUBSET (Dimensions \X Codes)
  <1>1. Effets
    BY PasEffets DEF InvariantScd2
  <1> SUFFICES Evolution /\ Liens'
    BY <1>1, HistoireTypee
  <1>2. CASE \E d \in Dimensions, c \in Codes : \E a \in AttributsDe[d] :
               ParentAdmis(d, a.parent) /\ Creer(d, c, a)
    BY <1>2, EffetCreer
  <1>3. CASE \E i \in Ids :
               /\ Courante(i)
               /\ \E a \in AttributsDe[lignes[i].dim], actif \in BOOLEAN :
                    /\ Reparente(i, a) => ParentCourant(lignes[i].dim, a.parent)
                    /\ Verifiee(i, a)
                    /\ Activer(i, a, actif) \/ Ecraser(i, a, actif) \/ Reviser(i, a, actif)
    BY <1>3, EffetEnPlace, EffetReviser
  <1>4. CASE Fermeture
    BY <1>4, EffetFermer DEF Fermeture
  <1>5. CASE NouveauJour
    BY <1>5, EffetNouveauJour
  <1> QED BY <1>1, <1>2, <1>3, <1>4, <1>5 DEF Effets

-----------------------------------------------------------------------------
(* Cycles. The arrow of a row leads to its parent. A set C of rows is a loop  *)
(* when every arrow of C ends in C and every row of C is the end of one: the *)
(* sets made of whole cycles, and nothing else, as the rows are finitely     *)
(* many. Loops need no induction along paths: what a step adds, moves or     *)
(* closes is in a given loop or is not.                                    *)

Peres == [i \in Ids |-> IF Existe(i) THEN lignes[i].attr.parent ELSE Nul]

BoucleDe(f, C) ==
  /\ C # {}
  /\ \A i \in C : f[i] \in C
  /\ \A i \in C : \E j \in C : f[j] = i

Cle(i) == <<lignes[i].dim, lignes[i].code>>

(* No structure, and, unless a row was closed without its dependants, only   *)
(* current rows, one of which has a key whose last parent closed a cycle.    *)
Expliquee(C) ==
  /\ \A i \in C : lignes[i].dim # "structure"
  /\ C \cap perdues = {} => (\A i \in C : Courante(i)) /\ \E i \in C : Cle(i) \in corriges

BouclesExpliquees == \A C \in SUBSET Ids : BoucleDe(Peres, C) => Expliquee(C)

(* A segment has no parent; a row closed without its dependants stays closed. *)
SegmentsSeuls == \A i \in Ids : Existe(i) /\ lignes[i].dim = "segment" => lignes[i].attr.parent = Nul

PerduesFermees == \A i \in perdues : Existe(i) /\ ~Courante(i)

(* A structure is no older than its parent, and a current one whose parent is *)
(* closed has a parent that lasted at least a day.                         *)
StructuresOrdonnees ==
  \A i, p \in Ids : Existe(i) /\ lignes[i].dim = "structure" /\ lignes[i].attr.parent = p =>
    /\ lignes[p].debut <= lignes[i].debut
    /\ Courante(i) => Courante(p) \/ lignes[p].debut < lignes[p].fin

(* On a finite set, an arrow that ends at each row ends nowhere else.        *)
LEMMA Finitude ==
  ASSUME NEW C, IsFiniteSet(C), NEW f, \A i \in C : \E j \in C : f[j] = i
  PROVE  \A i \in C : f[i] \in C
  <1> DEFINE M == {i \in C : f[i] \in C}
             g == [i \in M |-> f[i]]
  <1>1. M \in SUBSET C
    OBVIOUS
  <1>2. g \in Surjection(M, C)
    BY DEF Surjection
  <1> HIDE DEF g
  <1>3. IsFiniteSet(M) /\ Cardinality(M) <= Cardinality(C) /\ (Cardinality(C) = Cardinality(M) => C = M)
    <2> HIDE DEF M
    <2> QED BY <1>1, FS_Subset
  <1>4. Cardinality(C) <= Cardinality(M)
    <2> HIDE DEF M
    <2> QED BY <1>2, <1>3, FS_Surjection
  <1>5. Cardinality(C) \in Nat /\ Cardinality(M) \in Nat
    <2> HIDE DEF M
    <2> QED BY <1>3, FS_CardinalityType
  <1>6. C = M
    <2> HIDE DEF M
    <2> QED BY <1>3, <1>4, <1>5
  <1> QED BY <1>6

LEMMA IdsFinis == \A C \in SUBSET Ids : IsFiniteSet(C)
  <1>1. IsFiniteSet(Ids)
    BY BornesScd2, FS_Interval DEF Ids
  <1> QED BY <1>1, FS_Subset

(* Removing from a loop a part that no arrow leaves; keeping one that none   *)
(* enters: what is left is a loop.                                         *)
LEMMA BoucleRestante ==
  ASSUME NEW f, NEW C \in SUBSET Ids, BoucleDe(f, C), NEW F \in SUBSET C, \A i \in F : f[i] \in F, C \ F # {}
  PROVE  BoucleDe(f, C \ F)
  <1> DEFINE N == C \ F
  <1>1. \A i \in N : \E j \in N : f[j] = i
    BY DEF BoucleDe
  <1>2. IsFiniteSet(N)
    <2>1. N \in SUBSET Ids
      OBVIOUS
    <2> QED BY <2>1, IdsFinis
  <1>3. \A i \in N : f[i] \in N
    <2> HIDE DEF N
    <2> QED BY <1>1, <1>2, Finitude
  <1> QED BY <1>1, <1>3 DEF BoucleDe

LEMMA BoucleInterieure ==
  ASSUME NEW f, NEW C \in SUBSET Ids, BoucleDe(f, C), NEW G \in SUBSET C, G # {}, \A j \in C : f[j] \in G => j \in G
  PROVE  BoucleDe(f, G)
  <1>1. \A i \in G : \E j \in G : f[j] = i
    BY DEF BoucleDe
  <1>2. IsFiniteSet(G)
    BY IdsFinis
  <1>3. \A i \in G : f[i] \in G
    BY <1>1, <1>2, Finitude
  <1> QED BY <1>1, <1>3 DEF BoucleDe

MembresLies ==
    \A C \in SUBSET Ids : BoucleDe(Peres, C) =>
      \A i \in C : /\ Existe(i) /\ Peres[i] = lignes[i].attr.parent /\ Peres[i] \in C
                   /\ lignes[i].dim \in Hierarchies
                   /\ lignes[Peres[i]].dim = lignes[i].dim

(* The rows of a loop exist, are of the hierarchies, and lead to their like. *)
LEMMA MembresDesBoucles == TypeOK /\ SegmentsSeuls => MembresLies
  <1> SUFFICES ASSUME TypeOK, SegmentsSeuls, NEW C \in SUBSET Ids, BoucleDe(Peres, C), NEW i \in C
               PROVE  /\ Existe(i) /\ Peres[i] = lignes[i].attr.parent /\ Peres[i] \in C
                      /\ lignes[i].dim \in Hierarchies
                      /\ lignes[Peres[i]].dim = lignes[i].dim
    BY DEF MembresLies
  <1>1. ASSUME NEW k \in C
        PROVE  /\ Existe(k) /\ Peres[k] = lignes[k].attr.parent /\ Peres[k] \in C
               /\ lignes[k].attr.parent # Nul
               /\ lignes[Peres[k]].dim = DimensionParent(lignes[k].dim)
    <2>1. Peres[k] \in C /\ Peres[k] # Nul
      BY DEF BoucleDe, Ids, Nul
    <2>2. Existe(k) /\ Peres[k] = lignes[k].attr.parent
      BY <2>1 DEF Peres
    <2> QED BY <2>1, <2>2 DEF TypeOK
  <1>2. PICK j \in C : Peres[j] = i
    BY DEF BoucleDe
  <1>3. lignes[i].dim = DimensionParent(lignes[j].dim)
    BY <1>1, <1>2
  <1>4. lignes[i].dim \in Dimensions
    BY <1>1, LigneExistante
  <1>5. lignes[i].dim \in Hierarchies
    <2>1. lignes[i].dim # "cr"
      BY <1>3 DEF DimensionParent
    <2>2. lignes[i].dim # "segment"
      BY <1>1 DEF SegmentsSeuls
    <2> QED BY <1>4, <2>1, <2>2 DEF Dimensions
  <1>6. DimensionParent(lignes[i].dim) = lignes[i].dim
    BY <1>5 DEF DimensionParent, Hierarchies, AutoReferences
  <1> QED BY <1>1, <1>5, <1>6

(* A set of orders has a least one; what holds of 0 and passes to the next   *)
(* holds of all.                                                           *)
LEMMA PlusPetit ==
  ASSUME NEW T \in SUBSET Nat, T # {}
  PROVE  \E n \in T : \A m \in T : n <= m
<1>. DEFINE Minorants == {k \in Nat : \A t \in T : k <= t}
<1>1. SUFFICES ASSUME T \cap Minorants = {}
               PROVE  FALSE
  OBVIOUS
<1>2. PICK n \in Nat : n \in T
  OBVIOUS
<1>3. IsFiniteSet(Minorants)
  BY <1>2, FS_BoundedSetOfNaturals
<1>. DEFINE suite == [k \in Minorants |-> k + 1]
<1>4. suite \in Injection(Minorants, Minorants)
  <2>1. \A k \in Minorants : k + 1 \in Minorants
    BY <1>1
  <2>. QED  BY <2>1 DEF Injection, IsInjective
<1>5. suite \in Surjection(Minorants, Minorants)
  BY <1>3, <1>4, FS_Injection, FS_CardinalityType
<1>6. 0 \in Minorants
  OBVIOUS
<1>7. PICK k \in Minorants : suite[k] = 0
  <2>. HIDE DEF suite, Minorants
  <2>. QED  BY <1>5, <1>6 DEF Surjection
<1>. QED  BY <1>7

LEMMA Recurrence ==
  ASSUME NEW E, 0 \in E, \A n \in Nat : n \in E => n + 1 \in E
  PROVE  \A n \in Nat : n \in E
<1>. DEFINE T == Nat \ E
<1>1. SUFFICES ASSUME T # {}
               PROVE  FALSE
  OBVIOUS
<1>2. PICK n \in T : \A m \in T : n <= m
  <2>. HIDE DEF T
  <2>1. T \in SUBSET Nat
    BY DEF T
  <2>. QED  BY <1>1, <2>1, PlusPetit
<1>3. n \in Nat /\ n # 0 /\ n - 1 \in Nat /\ ~ (n <= n - 1)
  OBVIOUS
<1>4. n - 1 \in E
  BY <1>2, <1>3
<1>. QED  BY <1>3, <1>4

(* The generations of a row, and its ancestors, are what their equations say. *)
EstGenerations(g, i, N) == g = [n \in 0..N |-> IF n = 0 THEN {i} ELSE Enfants(g[n - 1])]

LEMMA GenerationsDefinies == \A i : EstGenerations(Generations(i), i, TailleMax)
  <1> SUFFICES ASSUME NEW i PROVE EstGenerations(Generations(i), i, TailleMax)
    OBVIOUS
  <1> DEFINE E == {N \in Nat : \E g : EstGenerations(g, i, N)}
  <1>1. 0 \in E
    <2> DEFINE g == [n \in 0..0 |-> {i}]
    <2>1. g = [n \in 0..0 |-> IF n = 0 THEN {i} ELSE Enfants(g[n - 1])]
      OBVIOUS
    <2> QED BY <2>1 DEF EstGenerations
  <1>2. ASSUME NEW N \in Nat, N \in E PROVE N + 1 \in E
    <2>1. PICK g : EstGenerations(g, i, N)
      BY <1>2
    <2> DEFINE h == [n \in 0..(N + 1) |-> IF n = 0 THEN {i} ELSE Enfants(g[n - 1])]
    <2>2. \A n \in 0..N : h[n] = g[n]
      <3>1. \A n \in 0..N : g[n] = IF n = 0 THEN {i} ELSE Enfants(g[n - 1])
        BY <2>1, Zenon DEF EstGenerations
      <3>2. \A n \in 0..N : n \in 0..(N + 1)
        OBVIOUS
      <3> QED BY <3>1, <3>2, Zenon
    <2>3. \A n \in 0..(N + 1) : n # 0 => n - 1 \in 0..N
      OBVIOUS
    <2>4. h = [n \in 0..(N + 1) |-> IF n = 0 THEN {i} ELSE Enfants(h[n - 1])]
      BY <2>2, <2>3
    <2> HIDE DEF h
    <2> QED BY <2>4 DEF EstGenerations
  <1>3. TailleMax \in E
    <2> HIDE DEF E
    <2> QED BY <1>1, <1>2, Recurrence, BornesScd2
  <1>4. PICK g : EstGenerations(g, i, TailleMax)
    BY <1>3
  <1> QED BY <1>4 DEF EstGenerations, Generations

EstAncetres(f, i, N) ==
  f = [n \in 0..N |-> IF n = 0 THEN i ELSE IF f[n - 1] = Nul THEN Nul ELSE lignes[f[n - 1]].attr.parent]

LEMMA AncetresDefinis == \A i : EstAncetres(Ancetre(i), i, TailleMax)
  <1> SUFFICES ASSUME NEW i PROVE EstAncetres(Ancetre(i), i, TailleMax)
    OBVIOUS
  <1> DEFINE pas(x) == IF x = Nul THEN Nul ELSE lignes[x].attr.parent
             E == {N \in Nat : \E f : EstAncetres(f, i, N)}
  <1>1. 0 \in E
    <2> DEFINE f == [n \in 0..0 |-> i]
    <2>1. f = [n \in 0..0 |-> IF n = 0 THEN i ELSE pas(f[n - 1])]
      OBVIOUS
    <2> QED BY <2>1 DEF EstAncetres
  <1>2. ASSUME NEW N \in Nat, N \in E PROVE N + 1 \in E
    <2>1. PICK f : EstAncetres(f, i, N)
      BY <1>2
    <2> DEFINE h == [n \in 0..(N + 1) |-> IF n = 0 THEN i ELSE pas(f[n - 1])]
    <2>2. \A n \in 0..N : h[n] = f[n]
      <3>1. \A n \in 0..N : f[n] = IF n = 0 THEN i ELSE pas(f[n - 1])
        BY <2>1, Zenon DEF EstAncetres
      <3>2. \A n \in 0..N : n \in 0..(N + 1)
        OBVIOUS
      <3> QED BY <3>1, <3>2, Zenon
    <2>3. \A n \in 0..(N + 1) : n # 0 => n - 1 \in 0..N
      OBVIOUS
    <2>4. h = [n \in 0..(N + 1) |-> IF n = 0 THEN i ELSE pas(h[n - 1])]
      BY <2>2, <2>3
    <2> HIDE DEF h
    <2> QED BY <2>4 DEF EstAncetres
  <1>3. TailleMax \in E
    <2> HIDE DEF E
    <2> QED BY <1>1, <1>2, Recurrence, BornesScd2
  <1>4. PICK f : EstAncetres(f, i, TailleMax)
    BY <1>3
  <1> QED BY <1>4 DEF EstAncetres, Ancetre

(* What the search of validateNoCycle shows: a set of rows that holds i and  *)
(* every current row whose parent it holds, but not the new parent p.       *)
LEMMA RechercheComplete ==
  ASSUME NEW i \in Ids, NEW p, SansCycle(i, p)
  PROVE  \E D \in SUBSET Ids :
           /\ i \in D /\ p \notin D
           /\ \A k \in Ids : Courante(k) /\ lignes[k].dim \in Hierarchies /\ lignes[k].attr.parent \in D => k \in D
  <1> DEFINE G == Generations(i)
             D == {k \in Ids : \E n \in 0..TailleMax : k \in G[n]}
  <1>1. EstGenerations(G, i, TailleMax)
    BY GenerationsDefinies
  <1>2. TailleMax \in Nat
    BY BornesScd2
  <1>3. G[TailleMax] = {} /\ p # i /\ \A n \in 1..TailleMax : p \notin G[n]
    BY DEF SansCycle
  <1> HIDE DEF G
  <1>4. G[0] = {i} /\ \A n \in 0..(TailleMax - 1) : G[n + 1] = Enfants(G[n])
    <2>1. \A n \in 0..TailleMax : G[n] = IF n = 0 THEN {i} ELSE Enfants(G[n - 1])
      BY <1>1, Zenon DEF EstGenerations
    <2> HIDE DEF D
    <2>2. ASSUME NEW n \in 0..(TailleMax - 1) PROVE G[n + 1] = Enfants(G[n])
      <3>1. n + 1 \in 0..TailleMax /\ n + 1 # 0 /\ (n + 1) - 1 = n
        BY <1>2
      <3> QED BY <2>1, <3>1
    <2>3. 0 \in 0..TailleMax
      BY <1>2
    <2> QED BY <2>1, <2>2, <2>3
  <1>5. i \in D /\ p \notin D
    BY <1>2, <1>3, <1>4
  <1>6. ASSUME NEW k \in Ids, Courante(k), lignes[k].dim \in Hierarchies, lignes[k].attr.parent \in D
        PROVE  k \in D
    <2>1. PICK n \in 0..TailleMax : lignes[k].attr.parent \in G[n]
      BY <1>6
    <2>2. n \in 0..(TailleMax - 1)
      BY <1>2, <1>3, <2>1
    <2>3. k \in G[n + 1] /\ n + 1 \in 0..TailleMax
      BY <1>2, <1>4, <1>6, <2>1, <2>2 DEF Enfants
    <2> QED BY <2>3
  <1> QED BY <1>5, <1>6

(* The ancestors of a row that is its own ancestor are such a set.          *)
LEMMA AncetresEnBoucle ==
  ASSUME TypeOK, NEW i \in Ids, EnCycle(i)
  PROVE  \E C \in SUBSET Ids :
           /\ i \in C /\ BoucleDe(Peres, C)
           /\ \A k \in C : \E n \in 0..TailleMax : Ancetre(i)[n] = k
  <1> DEFINE A == Ancetre(i)
  <1>1. TailleMax \in Nat
    BY BornesScd2
  <1>2. \A n \in 0..TailleMax :
          A[n] = IF n = 0 THEN i ELSE IF A[n - 1] = Nul THEN Nul ELSE lignes[A[n - 1]].attr.parent
    <2>1. EstAncetres(A, i, TailleMax)
      BY AncetresDefinis
    <2> HIDE DEF A
    <2> QED BY <2>1, Zenon DEF EstAncetres
  <1>3. PICK m \in 1..TailleMax : Existe(i) /\ A[m] = i
    BY DEF EnCycle
  <1> HIDE DEF A
  <1>4. A[0] = i
    BY <1>1, <1>2
  <1>5. ASSUME NEW n \in 0..(TailleMax - 1)
        PROVE  A[n + 1] = IF A[n] = Nul THEN Nul ELSE lignes[A[n]].attr.parent
    <2>1. n + 1 \in 0..TailleMax /\ n + 1 # 0 /\ (n + 1) - 1 = n
      BY <1>1
    <2> QED BY <1>2, <2>1
  <1>6. \A n \in 0..TailleMax : A[n] = Nul \/ (A[n] \in Ids /\ Existe(A[n]))
    <2> DEFINE E == {n \in Nat : n <= TailleMax => A[n] = Nul \/ (A[n] \in Ids /\ Existe(A[n]))}
    <2>1. 0 \in E
      BY <1>3, <1>4
    <2>2. ASSUME NEW n \in Nat, n \in E PROVE n + 1 \in E
      <3>1. ASSUME n + 1 <= TailleMax
            PROVE  A[n + 1] = Nul \/ (A[n + 1] \in Ids /\ Existe(A[n + 1]))
        <4>1. n \in 0..(TailleMax - 1) /\ n <= TailleMax
          BY <1>1, <3>1
        <4>2. A[n] = Nul \/ (A[n] \in Ids /\ Existe(A[n]))
          BY <2>2, <4>1
        <4> QED BY <1>5, <4>1, <4>2, ParentExiste
      <3> QED BY <3>1
    <2>3. \A n \in Nat : n \in E
      <3> HIDE DEF E
      <3> QED BY <2>1, <2>2, Recurrence
    <2> QED BY <1>1, <2>3
  <1>7. \A n \in 0..(m - 1) : A[n] # Nul
    <2> SUFFICES ASSUME NEW z \in 0..(m - 1), A[z] = Nul PROVE FALSE
      OBVIOUS
    <2> DEFINE E == {k \in Nat : z + k <= TailleMax => A[z + k] = Nul}
    <2>1. 0 \in E
      <3>1. z + 0 = z
        OBVIOUS
      <3> QED BY <3>1
    <2>2. ASSUME NEW k \in Nat, k \in E PROVE k + 1 \in E
      <3>1. ASSUME z + (k + 1) <= TailleMax PROVE A[z + (k + 1)] = Nul
        <4>1. z + k \in 0..(TailleMax - 1) /\ z + k <= TailleMax /\ z + (k + 1) = (z + k) + 1
          BY <1>1, <3>1
        <4>2. A[z + k] = Nul
          BY <2>2, <4>1
        <4> QED BY <1>5, <4>1, <4>2
      <3> QED BY <3>1
    <2>3. \A k \in Nat : k \in E
      <3> HIDE DEF E
      <3> QED BY <2>1, <2>2, Recurrence
    <2>4. m - z \in Nat /\ z + (m - z) = m /\ m <= TailleMax
      BY <1>1
    <2>5. A[m] = Nul
      BY <2>3, <2>4
    <2> QED BY <1>3, <2>5 DEF Ids, Nul
  <1>8. \A n \in 0..(m - 1) : n \in 0..(TailleMax - 1) /\ n \in 0..TailleMax
    BY <1>1
  <1>9. ASSUME NEW n \in 0..(m - 1)
        PROVE  A[n] \in Ids /\ Peres[A[n]] = A[n + 1]
    <2>1. A[n] \in Ids /\ Existe(A[n]) /\ A[n] # Nul
      BY <1>6, <1>7, <1>8
    <2> QED BY <1>5, <1>8, <2>1 DEF Peres
  <1> DEFINE C == {k \in Ids : \E n \in 0..(m - 1) : A[n] = k}
  <1>10. ASSUME NEW n \in 0..(m - 1) PROVE A[n] \in C /\ A[n + 1] \in C
    <2>1. A[n] \in C
      BY <1>9
    <2>2. CASE n + 1 \in 0..(m - 1)
      BY <1>9, <2>1, <2>2
    <2>3. CASE n + 1 \notin 0..(m - 1)
      <3>1. n + 1 = m /\ 0 \in 0..(m - 1)
        BY <1>1, <2>3
      <3> QED BY <1>3, <1>4, <2>1, <3>1
    <2> QED BY <2>2, <2>3, <2>1
  <1>11. i \in C /\ 0 \in 0..(m - 1)
    <2>1. 0 \in 0..(m - 1)
      BY <1>1
    <2> QED BY <1>4, <2>1
  <1>12. ASSUME NEW k \in C PROVE Peres[k] \in C
    <2>1. PICK n \in 0..(m - 1) : A[n] = k
      OBVIOUS
    <2> HIDE DEF C
    <2> QED BY <1>9, <1>10, <2>1
  <1>13. ASSUME NEW k \in C PROVE \E j \in C : Peres[j] = k
    <2>1. PICK n \in 0..(m - 1) : A[n] = k
      OBVIOUS
    <2>2. PICK l \in 0..(m - 1) : A[l + 1] = A[n]
      <3>1. CASE n = 0
        <4>1. m - 1 \in 0..(m - 1) /\ (m - 1) + 1 = m
          BY <1>1
        <4> QED BY <1>3, <1>4, <3>1, <4>1
      <3>2. CASE n # 0
        <4>1. n - 1 \in 0..(m - 1) /\ (n - 1) + 1 = n
          BY <1>1, <3>2
        <4> QED BY <4>1
      <3> QED BY <3>1, <3>2
    <2> HIDE DEF C
    <2> QED BY <1>9, <1>10, <2>1, <2>2
  <1>14. BoucleDe(Peres, C)
    <2> HIDE DEF C
    <2> QED BY <1>11, <1>12, <1>13 DEF BoucleDe
  <1>15. \A k \in C : \E n \in 0..TailleMax : A[n] = k
    BY <1>8
  <1> QED BY <1>11, <1>14, <1>15 DEF A

LEMMA CyclesParBoucles == TypeOK /\ BouclesExpliquees => CyclesExpliques
  <1> SUFFICES ASSUME TypeOK, BouclesExpliquees, NEW i \in Ids, EnCycle(i)
               PROVE  /\ lignes[i].dim # "structure"
                      /\ \E n \in 0..TailleMax :
                           \/ <<lignes[Ancetre(i)[n]].dim, lignes[Ancetre(i)[n]].code>> \in corriges
                           \/ Ancetre(i)[n] \in perdues
    BY DEF CyclesExpliques
  <1>1. PICK C \in SUBSET Ids :
          /\ i \in C /\ BoucleDe(Peres, C)
          /\ \A k \in C : \E n \in 0..TailleMax : Ancetre(i)[n] = k
    BY AncetresEnBoucle
  <1>2. Expliquee(C)
    BY <1>1 DEF BouclesExpliquees
  <1>3. \E k \in C : Cle(k) \in corriges \/ k \in perdues
    BY <1>2 DEF Expliquee
  <1> QED BY <1>1, <1>2, <1>3 DEF Expliquee, Cle

-----------------------------------------------------------------------------
(* Each step keeps the three facts above...                                *)

Annexes == SegmentsSeuls /\ PerduesFermees /\ StructuresOrdonnees

(* A step keeps the order of the structures when each parent link is one     *)
(* that a structure j, no younger, already had, or a new one of the day to a *)
(* current row, and when the rows it closes began before or have no current  *)
(* child.                                                                  *)
LienRepris(k, j) ==
  /\ Existe(j) /\ lignes[j].dim = "structure"
  /\ lignes[j].attr.parent = lignes'[k].attr.parent
  /\ lignes[j].debut <= lignes'[k].debut
  /\ Courante(k)' => Courante(j)

LienDuJour(k) ==
  /\ lignes'[k].debut = jour
  /\ lignes'[k].attr.parent \in Ids /\ Courante(lignes'[k].attr.parent)

LEMMA OrdreGarde ==
  ASSUME TypeOK, StructuresOrdonnees, Evolution,
         \A k \in Ids : Existe(k)' /\ lignes'[k].dim = "structure" /\ lignes'[k].attr.parent # Nul =>
           LienDuJour(k) \/ \E j \in Ids : LienRepris(k, j),
         \A p \in Ids : Courante(p) /\ ~Courante(p)' =>
           \/ lignes[p].debut < jour
           \/ \A k \in Ids : ~(Courante(k)' /\ lignes'[k].dim = "structure" /\ lignes'[k].attr.parent = p)
  PROVE  StructuresOrdonnees'
  <1> SUFFICES ASSUME NEW k \in Ids, NEW p \in Ids,
                      Existe(k)', lignes'[k].dim = "structure", lignes'[k].attr.parent = p
               PROVE  /\ lignes'[p].debut <= lignes'[k].debut
                      /\ Courante(k)' => Courante(p)' \/ lignes'[p].debut < lignes'[p].fin
    BY DEF StructuresOrdonnees
  <1>0. p # Nul
    BY DEF Ids, Nul
  <1>1. /\ p \in Ids /\ Existe(p) /\ lignes[p].debut <= lignes'[k].debut
        /\ Courante(k)' => Courante(p) \/ lignes[p].debut < lignes[p].fin
    <2>1. CASE LienDuJour(k)
      <3>1. Courante(p) /\ Existe(p) /\ lignes'[k].debut = jour
        BY <2>1 DEF LienDuJour, Courante
      <3>2. lignes[p].debut <= jour
        BY <3>1 DEF TypeOK
      <3> QED BY <3>1, <3>2
    <2>2. ASSUME NEW j \in Ids, LienRepris(k, j)
          PROVE  /\ p \in Ids /\ Existe(p) /\ lignes[p].debut <= lignes'[k].debut
                 /\ Courante(k)' => Courante(p) \/ lignes[p].debut < lignes[p].fin
      <3>1. Existe(j) /\ lignes[j].dim = "structure" /\ lignes[j].attr.parent = p /\ p # Nul
            /\ lignes[j].debut <= lignes'[k].debut /\ (Courante(k)' => Courante(j))
        BY <1>0, <2>2 DEF LienRepris
      <3>2. p \in Ids /\ Existe(p)
        BY <3>1, ParentExiste
      <3>3. /\ lignes[p].debut <= lignes[j].debut
            /\ Courante(j) => Courante(p) \/ lignes[p].debut < lignes[p].fin
        BY <3>1 DEF StructuresOrdonnees
      <3>4. lignes[p].debut \in Nat /\ lignes[j].debut \in Nat
        BY <3>1, <3>2, LigneExistante
      <3>5. lignes'[k].debut \in Nat
        BY DEF Evolution, Existe, Ligne, Absente
      <3> QED BY <3>1, <3>2, <3>3, <3>4, <3>5
    <2> QED BY <1>0, <2>1, <2>2
  <1>2. Conservee(p)
    BY <1>1 DEF Evolution
  <1>3. lignes[p].debut \in Nat /\ lignes[p].fin \in Nat /\ jour \in Nat
    BY <1>1, LigneExistante DEF TypeOK
  <1>4. Courante(p)' <=> lignes'[p].fin = Nul
    <2>1. lignes[p].dim # "AUCUNE"
      BY <1>1 DEF Existe
    <2> QED BY <1>2, <2>1 DEF Courante, Existe, Conservee
  <1>5. Courante(p) <=> lignes[p].fin = Nul
    BY <1>1 DEF Courante
  <1>6. Courante(p) /\ ~Courante(p)' => lignes[p].debut < jour \/ ~Courante(k)'
    BY <1>0
  <1>7. Courante(k)' => Courante(p)' \/ lignes'[p].debut < lignes'[p].fin
    BY <1>1, <1>2, <1>3, <1>4, <1>5, <1>6 DEF Conservee, Nul
  <1>8. lignes'[p].debut <= lignes'[k].debut
    BY <1>1, <1>2 DEF Conservee
  <1> QED BY <1>7, <1>8

LEMMA AnnexesCreer ==
  ASSUME InvariantScd2, Annexes, NEW d \in Dimensions, NEW c \in Codes, NEW a \in AttributsDe[d],
         ParentAdmis(d, a.parent), Creer(d, c, a)
  PROVE  Annexes'
  <1>1. TypeOK /\ Evolution /\ perdues' = perdues /\ SegmentsSeuls /\ PerduesFermees /\ StructuresOrdonnees
    BY EffetCreer DEF InvariantScd2, Creer, Annexes
  <1>2. PICK n \in Ids :
          /\ ~Existe(n)
          /\ lignes'[n] = [dim |-> d, code |-> c, debut |-> jour, fin |-> Nul, actif |-> TRUE, attr |-> a]
          /\ \A k \in Ids : k # n => lignes'[k] = lignes[k]
    BY UneLigneCreee
  <1>3. lignes'[n].dim = d /\ lignes'[n].attr = a /\ lignes'[n].debut = jour
    BY <1>2
  <1>4. SegmentsSeuls'
    BY <1>1, <1>2, <1>3, AttributsTypes DEF SegmentsSeuls, Existe
  <1>5. PerduesFermees'
    BY <1>1, <1>2 DEF PerduesFermees, Existe, Courante, TypeOK
  <1>6. ASSUME NEW k \in Ids, Existe(k)', lignes'[k].dim = "structure", lignes'[k].attr.parent # Nul
        PROVE  LienDuJour(k) \/ \E j \in Ids : LienRepris(k, j)
    <2>1. CASE k = n
      BY <1>3, <1>6, <2>1 DEF LienDuJour, ParentAdmis, ParentCourant
    <2>2. CASE k # n
      <3>1. lignes'[k] = lignes[k] /\ Existe(k)
        BY <1>2, <1>6, <2>2 DEF Existe
      <3>2. lignes[k].debut <= lignes[k].debut
        BY <1>1, <3>1, LigneExistante
      <3>3. LienRepris(k, k)
        BY <1>6, <3>1, <3>2 DEF LienRepris, Courante
      <3> QED BY <3>3
    <2> QED BY <2>1, <2>2
  <1>7. \A p \in Ids : Courante(p) => Courante(p)'
    BY <1>2 DEF Courante, Existe
  <1>8. StructuresOrdonnees'
    BY <1>1, <1>6, <1>7, OrdreGarde
  <1> QED BY <1>4, <1>5, <1>8 DEF Annexes

LEMMA AnnexesEnPlace ==
  ASSUME InvariantScd2, Annexes, NEW i \in Ids, Courante(i), NEW a \in AttributsDe[lignes[i].dim], NEW actif \in BOOLEAN,
         Reparente(i, a) => ParentCourant(lignes[i].dim, a.parent),
         Activer(i, a, actif) \/ Ecraser(i, a, actif)
  PROVE  Annexes'
  <1>1. TypeOK /\ Evolution /\ perdues' = perdues /\ SegmentsSeuls /\ PerduesFermees /\ StructuresOrdonnees
    BY EffetEnPlace DEF InvariantScd2, Activer, Ecraser, Annexes
  <1>2. /\ lignes'[i] = [dim |-> lignes[i].dim, code |-> lignes[i].code, debut |-> lignes[i].debut,
                         fin |-> lignes[i].fin, actif |-> actif, attr |-> a]
        /\ \A k \in Ids : k # i => lignes'[k] = lignes[k]
        /\ a = lignes[i].attr \/ lignes[i].debut = jour
    BY UneLigneEcrite
  <1>3. /\ lignes'[i].dim = lignes[i].dim /\ lignes'[i].attr = a
        /\ lignes'[i].debut = lignes[i].debut /\ lignes'[i].fin = lignes[i].fin
    BY <1>2
  <1>4. ASSUME NEW k \in Ids
        PROVE  /\ lignes'[k].dim = lignes[k].dim
               /\ Existe(k)' <=> Existe(k)
               /\ Courante(k)' <=> Courante(k)
               /\ lignes'[k].debut = lignes[k].debut
               /\ lignes'[k] = lignes[k] \/ k = i
    BY <1>2, <1>3 DEF Existe, Courante
  <1>5. SegmentsSeuls'
    <2>1. lignes[i].dim = "segment" => a.parent = Nul
      BY AttributsTypes DEF Dimensions
    <2> QED BY <1>1, <1>3, <1>4, <2>1 DEF SegmentsSeuls
  <1>6. PerduesFermees'
    BY <1>1, <1>4 DEF PerduesFermees, TypeOK
  <1>7. ASSUME NEW k \in Ids, Existe(k)', lignes'[k].dim = "structure", lignes'[k].attr.parent # Nul
        PROVE  LienDuJour(k) \/ \E j \in Ids : LienRepris(k, j)
    <2>1. CASE lignes'[k].attr.parent = lignes[k].attr.parent
      <3>1. lignes[k].debut <= lignes'[k].debut
        BY <1>1, <1>4, <1>7, LigneExistante
      <3>2. LienRepris(k, k)
        BY <1>4, <1>7, <2>1, <3>1 DEF LienRepris
      <3> QED BY <3>2
    <2>2. CASE lignes'[k].attr.parent # lignes[k].attr.parent
      <3>1. k = i /\ lignes'[k].attr = a /\ lignes[i].debut = jour
        BY <1>2, <1>3, <1>4, <2>2
      <3>2. ParentCourant(lignes[i].dim, a.parent)
        BY <1>7, <2>2, <3>1 DEF Reparente
      <3> QED BY <1>3, <3>1, <3>2 DEF LienDuJour, ParentCourant
    <2> QED BY <2>1, <2>2
  <1>8. StructuresOrdonnees'
    BY <1>1, <1>4, <1>7, OrdreGarde
  <1> QED BY <1>5, <1>6, <1>8 DEF Annexes

LEMMA AnnexesReviser ==
  ASSUME InvariantScd2, Annexes, NEW i \in Ids, Courante(i), NEW a \in AttributsDe[lignes[i].dim], NEW actif \in BOOLEAN,
         Reparente(i, a) => ParentCourant(lignes[i].dim, a.parent),
         Reviser(i, a, actif), NEW n \in Ids, NEW reliees \in BOOLEAN, Revisee(i, n, a, reliees)
  PROVE  Annexes'
  <1>1. TypeOK /\ Evolution /\ SegmentsSeuls /\ PerduesFermees /\ StructuresOrdonnees
        /\ Existe(i) /\ lignes[i].dim \in Dimensions /\ lignes[i].debut # jour
    BY EffetReviser, LigneExistante DEF InvariantScd2, Reviser, Annexes, Courante
  <1>2. ~Existe(n) /\ n # i /\ perdues' \subseteq perdues \cup {i} /\ jour \in Nat /\ jour # Nul
    BY <1>1 DEF Revisee, TypeOK, Nul
  <1>3. ASSUME NEW k \in Ids, Existe(k), k # n
        PROVE  /\ lignes'[k].dim = lignes[k].dim /\ lignes'[k].debut = lignes[k].debut
               /\ Existe(k)'
               /\ Courante(k)' <=> Courante(k) /\ k # i
               /\ lignes[k].dim \in {"structure", "segment"} => lignes'[k].attr.parent = lignes[k].attr.parent
    <2>1. /\ lignes'[k].dim = lignes[k].dim /\ lignes'[k].debut = lignes[k].debut
          /\ lignes'[k].fin = IF k = i THEN jour ELSE lignes[k].fin
          /\ lignes'[k].attr.parent = ParentRevise(k, i, n, a, reliees)
      BY <1>3 DEF Revisee
    <2>2. lignes[k].dim \in {"structure", "segment"} => lignes[k].dim \notin Dependants(lignes[i].dim)
      BY DEF Dependants, AutoReferences
    <2>3. lignes[k].dim \in {"structure", "segment"} => lignes'[k].attr.parent = lignes[k].attr.parent
      BY <1>3, <2>1, <2>2 DEF ParentRevise
    <2> QED BY <1>2, <1>3, <2>1, <2>3 DEF Existe, Courante
  <1>4. /\ lignes'[n].dim = lignes[i].dim /\ lignes'[n].debut = jour /\ Courante(n)'
        /\ lignes[i].dim \in {"structure", "segment"} => lignes'[n].attr.parent = a.parent
    <2>1. lignes'[n].dim = lignes[i].dim /\ lignes'[n].debut = jour /\ lignes'[n].fin = Nul
          /\ lignes'[n].attr.parent = ParentRevise(n, i, n, a, reliees)
      BY DEF Revisee
    <2>2. lignes[i].dim \in {"structure", "segment"} => lignes[i].dim \notin Dependants(lignes[i].dim)
      BY DEF Dependants, AutoReferences
    <2> QED BY <1>1, <2>1, <2>2 DEF ParentRevise, Existe, Courante
  <1>5. ASSUME NEW k \in Ids, Existe(k)' PROVE k = n \/ Existe(k)
    <2>1. k # n => lignes'[k].dim = lignes[k].dim
      BY DEF Revisee
    <2> QED BY <1>5, <2>1 DEF Existe
  <1>6. SegmentsSeuls'
    <2>1. lignes[i].dim = "segment" => a.parent = Nul
      BY AttributsTypes DEF Dimensions
    <2> QED BY <1>1, <1>2, <1>3, <1>4, <1>5, <2>1 DEF SegmentsSeuls
  <1>7. PerduesFermees'
    <2> SUFFICES ASSUME NEW k \in perdues' PROVE Existe(k)' /\ ~Courante(k)'
      BY DEF PerduesFermees
    <2>1. k \in Ids /\ Existe(k) /\ (k = i \/ ~Courante(k))
      BY <1>1, <1>2 DEF PerduesFermees, TypeOK
    <2> QED BY <1>2, <1>3, <2>1
  <1>8. ASSUME NEW k \in Ids, Existe(k)', lignes'[k].dim = "structure", lignes'[k].attr.parent # Nul
        PROVE  LienDuJour(k) \/ \E j \in Ids : LienRepris(k, j)
    <2>1. CASE k = n /\ a.parent = lignes[i].attr.parent
      <3>1. lignes[i].debut <= jour
        BY <1>1 DEF TypeOK
      <3>2. LienRepris(k, i)
        BY <1>1, <1>4, <1>8, <2>1, <3>1 DEF LienRepris
      <3> QED BY <3>2
    <2>2. CASE k = n /\ a.parent # lignes[i].attr.parent
      <3>1. lignes'[k].attr.parent = a.parent
        BY <1>4, <1>8, <2>2
      <3>2. ParentCourant(lignes[i].dim, a.parent)
        BY <1>8, <2>2, <3>1 DEF Reparente
      <3> QED BY <1>4, <2>2, <3>1, <3>2 DEF LienDuJour, ParentCourant
    <2>3. CASE k # n
      <3>1. Existe(k)
        BY <1>5, <1>8, <2>3
      <3>2. lignes[k].debut <= lignes'[k].debut
        BY <1>1, <1>3, <2>3, <3>1, LigneExistante
      <3>3. LienRepris(k, k)
        BY <1>3, <1>8, <2>3, <3>1, <3>2 DEF LienRepris
      <3> QED BY <3>3
    <2> QED BY <2>1, <2>2, <2>3
  <1>9. ASSUME NEW p \in Ids, Courante(p), ~Courante(p)' PROVE lignes[p].debut < jour
    <2>1. p = i
      BY <1>2, <1>3, <1>9 DEF Courante
    <2>2. lignes[i].debut <= jour /\ lignes[i].debut \in Nat
      BY <1>1, LigneExistante DEF TypeOK
    <2> QED BY <1>1, <1>2, <2>1, <2>2
  <1>10. StructuresOrdonnees'
    BY <1>1, <1>8, <1>9, OrdreGarde
  <1> QED BY <1>6, <1>7, <1>10 DEF Annexes

LEMMA AnnexesFermer ==
  ASSUME InvariantScd2, Annexes, NEW i \in Ids, Courante(i), DesactiverHierarchie(i) \/ DesactiverSimple(i)
  PROVE  Annexes'
  <1>1. TypeOK /\ Evolution /\ SegmentsSeuls /\ PerduesFermees /\ StructuresOrdonnees /\ Existe(i)
    BY EffetFermer DEF InvariantScd2, Annexes, Courante
  <1>2. /\ \A k \in Ids : k # i => lignes'[k] = lignes[k]
        /\ lignes'[i].dim = lignes[i].dim /\ lignes'[i].debut = lignes[i].debut
        /\ lignes'[i].attr = lignes[i].attr /\ lignes'[i].fin = jour
        /\ perdues' \subseteq perdues \cup {i}
        /\ lignes[i].dim \in Hierarchies => Enfants({i}) = {}
    BY UneLigneFermee
  <1>3. jour \in Nat /\ jour # Nul
    BY <1>1 DEF TypeOK, Nul
  <1>4. ASSUME NEW k \in Ids
        PROVE  /\ lignes'[k].dim = lignes[k].dim /\ lignes'[k].debut = lignes[k].debut
               /\ lignes'[k].attr = lignes[k].attr
               /\ Existe(k)' <=> Existe(k)
               /\ Courante(k)' <=> Courante(k) /\ k # i
    BY <1>2, <1>3 DEF Existe, Courante
  <1>5. SegmentsSeuls'
    BY <1>1, <1>4 DEF SegmentsSeuls
  <1>6. PerduesFermees'
    <2> SUFFICES ASSUME NEW k \in perdues' PROVE Existe(k)' /\ ~Courante(k)'
      BY DEF PerduesFermees
    <2>1. k \in Ids /\ Existe(k) /\ (k = i \/ ~Courante(k))
      BY <1>1, <1>2 DEF PerduesFermees, TypeOK
    <2> QED BY <1>4, <2>1
  <1>7. ASSUME NEW k \in Ids, Existe(k)', lignes'[k].dim = "structure" PROVE LienRepris(k, k)
    <2>1. lignes[k].debut <= lignes'[k].debut
      BY <1>1, <1>4, <1>7, LigneExistante
    <2> QED BY <1>4, <1>7, <2>1 DEF LienRepris
  <1>8. ASSUME NEW k \in Ids, Courante(k)', lignes'[k].dim = "structure", lignes'[k].attr.parent = i
        PROVE  FALSE
    <2>1. Courante(k) /\ Existe(k) /\ lignes[k].dim = "structure" /\ lignes[k].attr.parent = i /\ i # Nul
      BY <1>4, <1>8 DEF Courante, Ids, Nul
    <2>2. lignes[i].dim = "structure"
      BY <1>1, <2>1 DEF TypeOK, DimensionParent
    <2>3. k \in Enfants({i})
      BY <2>1 DEF Enfants, Hierarchies
    <2> QED BY <1>2, <2>2, <2>3 DEF Hierarchies
  <1>9. \A p \in Ids : Courante(p) /\ ~Courante(p)' => p = i
    BY <1>4
  <1>10. StructuresOrdonnees'
    BY <1>1, <1>7, <1>8, <1>9, OrdreGarde
  <1> QED BY <1>5, <1>6, <1>10 DEF Annexes

-----------------------------------------------------------------------------
(* ... and explains the loops.                                             *)

(* Loops: two functions that agree on a set, or differ only by an arrow to a  *)
(* row outside of it, have the same ones there.                            *)
LEMMA BoucleSans ==
  ASSUME NEW f, NEW g, NEW N, NEW x, BoucleDe(g, N), x \notin N, \A k \in N : g[k] = f[k] \/ g[k] = x
  PROVE  BoucleDe(f, N)
  <1>1. \A k \in N : g[k] \in N /\ g[k] = f[k]
    BY DEF BoucleDe
  <1> QED BY <1>1 DEF BoucleDe

(* No loop goes through i when a set holds i and, with the end of an arrow,  *)
(* its start, but not the row after i.                                     *)
LEMMA PasDeRetour ==
  ASSUME NEW f, NEW C \in SUBSET Ids, BoucleDe(f, C), NEW i \in C, NEW D, i \in D,
         \A k \in C : k # i /\ f[k] \in D => k \in D, f[i] \notin D
  PROVE  FALSE
  <1> DEFINE G == C \cap D
  <1>1. G \in SUBSET C /\ G # {} /\ \A k \in C : f[k] \in G => k \in G
    OBVIOUS
  <1>2. BoucleDe(f, G)
    <2> HIDE DEF G
    <2> QED BY <1>1, BoucleInterieure
  <1> QED BY <1>2 DEF BoucleDe

(* Of a loop, the structures are one.                                      *)
Structures(C) == {k \in C : lignes[k].dim = "structure"}

StructuresEnBoucle == \A C \in SUBSET Ids : BoucleDe(Peres, C) /\ Structures(C) # {} => BoucleDe(Peres, Structures(C))

LEMMA LesStructures == TypeOK /\ SegmentsSeuls => StructuresEnBoucle
  <1> SUFFICES ASSUME TypeOK, SegmentsSeuls, NEW C \in SUBSET Ids, BoucleDe(Peres, C), Structures(C) # {}
               PROVE  BoucleDe(Peres, Structures(C))
    BY DEF StructuresEnBoucle
  <1>1. \A k \in C : Peres[k] \in C /\ lignes[Peres[k]].dim = lignes[k].dim
    BY MembresDesBoucles DEF MembresLies
  <1>2. Structures(C) \in SUBSET C /\ \A k \in C : Peres[k] \in Structures(C) => k \in Structures(C)
    BY <1>1 DEF Structures
  <1> QED BY <1>2, BoucleInterieure

(* Of a loop with no structure and no row closed without its dependants, the *)
(* rows that are not current are one.                                      *)
Passees(C) == {k \in C : ~Courante(k)}

PasseesEnBoucle ==
  \A C \in SUBSET Ids :
    BoucleDe(Peres, C) /\ Structures(C) = {} /\ C \cap perdues = {} /\ Passees(C) # {} => BoucleDe(Peres, Passees(C))

LEMMA LesPassees == InvariantScd2 /\ SegmentsSeuls => PasseesEnBoucle
  <1> SUFFICES ASSUME InvariantScd2, SegmentsSeuls, NEW C \in SUBSET Ids, BoucleDe(Peres, C),
                      Structures(C) = {}, C \cap perdues = {}, Passees(C) # {}
               PROVE  BoucleDe(Peres, Passees(C))
    BY DEF PasseesEnBoucle
  <1> DEFINE F == {k \in C : Courante(k)}
  <1>1. ASSUME NEW k \in F PROVE Peres[k] \in F
    <2>1. /\ Peres[k] \in C /\ Peres[k] = lignes[k].attr.parent /\ lignes[k].dim \in Hierarchies
          /\ lignes[k].dim # "structure" /\ Courante(k)
      BY MembresDesBoucles DEF MembresLies, InvariantScd2, Structures
    <2>2. Courante(lignes[k].attr.parent)
      BY <2>1 DEF InvariantScd2, LienVivant, Hierarchies, Ids, Nul
    <2> QED BY <2>1, <2>2
  <1>2. F \in SUBSET C /\ C \ F # {} /\ C \ F = Passees(C)
    BY DEF Passees
  <1>3. BoucleDe(Peres, C \ F)
    <2> HIDE DEF F
    <2> QED BY <1>1, <1>2, BoucleRestante
  <1> QED BY <1>2, <1>3

(* Of the structures of a loop, those that began today are one, and their   *)
(* rows that are not current are one.                                      *)
DuJour(C) == {k \in Structures(C) : lignes[k].debut = jour}

DuJourEnBoucle ==
  \A C \in SUBSET Ids : BoucleDe(Peres, C) /\ DuJour(C) # {} =>
    /\ BoucleDe(Peres, DuJour(C))
    /\ Passees(DuJour(C)) # {} => BoucleDe(Peres, Passees(DuJour(C)))

LEMMA LesStructuresDuJour == TypeOK /\ SegmentsSeuls /\ StructuresOrdonnees => DuJourEnBoucle
  <1> SUFFICES ASSUME TypeOK, SegmentsSeuls, StructuresOrdonnees,
                      NEW C \in SUBSET Ids, BoucleDe(Peres, C), DuJour(C) # {}
               PROVE  /\ BoucleDe(Peres, DuJour(C))
                      /\ Passees(DuJour(C)) # {} => BoucleDe(Peres, Passees(DuJour(C)))
    BY DEF DuJourEnBoucle
  <1> DEFINE G == DuJour(C)
             F == {k \in G : Courante(k)}
  <1>1. ASSUME NEW k \in C
        PROVE  /\ Peres[k] \in C /\ Peres[k] \in Ids /\ Peres[k] = lignes[k].attr.parent
               /\ lignes[Peres[k]].dim = lignes[k].dim
               /\ Existe(k) /\ lignes[k].debut <= jour /\ lignes[k].fin <= jour
               /\ lignes[k].debut \in Nat /\ lignes[k].fin \in Nat /\ jour \in Nat
    BY MembresDesBoucles, LigneExistante DEF MembresLies, TypeOK
  <1>2. ASSUME NEW k \in C, lignes[k].dim = "structure"
        PROVE  /\ lignes[Peres[k]].debut <= lignes[k].debut
               /\ Courante(k) => Courante(Peres[k]) \/ lignes[Peres[k]].debut < lignes[Peres[k]].fin
    BY <1>1, <1>2 DEF StructuresOrdonnees
  <1>3. ASSUME NEW k \in C, Peres[k] \in G PROVE k \in G
    BY <1>1, <1>2, <1>3 DEF DuJour, Structures
  <1>4. G \in SUBSET C /\ G # {}
    BY DEF DuJour, Structures
  <1>5. BoucleDe(Peres, G)
    <2> HIDE DEF G
    <2> QED BY <1>3, <1>4, BoucleInterieure
  <1>6. ASSUME NEW k \in F PROVE Peres[k] \in F
    <2>1. Peres[k] \in G /\ k \in C /\ lignes[k].dim = "structure" /\ Courante(k)
      BY <1>5 DEF BoucleDe, DuJour, Structures
    <2>2. Peres[k] \in C /\ lignes[Peres[k]].debut = jour
      BY <2>1 DEF DuJour, Structures
    <2>3. lignes[Peres[k]].fin <= jour /\ lignes[Peres[k]].fin \in Nat /\ jour \in Nat
      BY <1>1, <2>2
    <2>4. Courante(Peres[k])
      BY <1>2, <2>1, <2>2, <2>3
    <2> QED BY <2>1, <2>4
  <1>7. F \in SUBSET G /\ G \ F = Passees(G) /\ G \in SUBSET Ids
    BY <1>4 DEF Passees
  <1>8. Passees(G) # {} => BoucleDe(Peres, Passees(G))
    <2> HIDE DEF F, G
    <2> QED BY <1>5, <1>6, <1>7, BoucleRestante
  <1> QED BY <1>5, <1>8

(* What holds of the loops of every state of the invariants.                *)
Graphe == MembresLies /\ StructuresEnBoucle /\ PasseesEnBoucle /\ DuJourEnBoucle

LEMMA LeGraphe == InvariantScd2 /\ Annexes => Graphe
  BY MembresDesBoucles, LesStructures, LesPassees, LesStructuresDuJour DEF InvariantScd2, Annexes, Graphe

(* The key of a current row has no other current row.                      *)
LEMMA CleUnique ==
  ASSUME InvariantScd2, NEW i \in Ids, Courante(i), NEW k \in Ids, Courante(k), Cle(k) = Cle(i)
  PROVE  k = i
  <1>1. lignes[k].dim = lignes[i].dim /\ lignes[k].code = lignes[i].code
    BY DEF Cle
  <1> QED BY <1>1 DEF InvariantScd2, Disjointes, Courante

(* A loop that was there stays explained when its rows keep their keys, stay  *)
(* current, and stay in the history of the parents.                        *)
LEMMA BoucleConservee ==
  ASSUME BouclesExpliquees, NEW C \in SUBSET Ids, BoucleDe(Peres, C),
         \A k \in C : lignes'[k].dim = lignes[k].dim /\ lignes'[k].code = lignes[k].code,
         C \cap perdues' = {} => C \cap perdues = {},
         C \cap perdues' = {} /\ Structures(C) = {} /\ (\A k \in C : Courante(k)) =>
           \A k \in C : Courante(k)' /\ (Cle(k) \in corriges => Cle(k) \in corriges')
  PROVE  Expliquee(C)'
  <1>1. Expliquee(C)
    BY DEF BouclesExpliquees
  <1>2. \A k \in C : Cle(k)' = Cle(k) /\ lignes'[k].dim # "structure"
    BY <1>1 DEF Expliquee, Cle
  <1>3. Structures(C) = {}
    BY <1>1 DEF Expliquee, Structures
  <1>4. ASSUME C \cap perdues' = {} PROVE (\A k \in C : Courante(k)') /\ \E k \in C : Cle(k)' \in corriges'
    <2>1. (\A k \in C : Courante(k)) /\ \E k \in C : Cle(k) \in corriges
      BY <1>1, <1>4 DEF Expliquee
    <2> QED BY <1>2, <1>3, <1>4, <2>1
  <1> QED BY <1>2, <1>4 DEF Expliquee

(* A closing: the row has no current child, so it is in no loop of current   *)
(* rows.                                                                   *)
LEMMA BouclesFermer ==
  ASSUME InvariantScd2, Annexes, BouclesExpliquees,
         NEW i \in Ids, Courante(i), DesactiverHierarchie(i) \/ DesactiverSimple(i)
  PROVE  BouclesExpliquees'
  <1>1. TypeOK /\ SegmentsSeuls
    BY DEF InvariantScd2, Annexes
  <1>2. /\ \A k \in Ids : k # i => lignes'[k] = lignes[k]
        /\ lignes'[i].dim = lignes[i].dim /\ lignes'[i].code = lignes[i].code /\ lignes'[i].attr = lignes[i].attr
        /\ perdues \subseteq perdues' /\ corriges' = corriges
        /\ lignes[i].dim \in Hierarchies => Enfants({i}) = {}
    BY UneLigneFermee
  <1> SUFFICES ASSUME NEW C \in SUBSET Ids, BoucleDe(Peres', C) PROVE Expliquee(C)'
    BY DEF BouclesExpliquees
  <1>3. \A k \in Ids : Peres'[k] = Peres[k]
    BY <1>2 DEF Peres, Existe
  <1>4. BoucleDe(Peres, C)
    BY <1>3 DEF BoucleDe
  <1>5. ASSUME \A k \in C : Courante(k) PROVE i \notin C
    <2> SUFFICES ASSUME i \in C PROVE FALSE
      OBVIOUS
    <2>1. PICK k \in C : Peres[k] = i
      BY <1>4 DEF BoucleDe
    <2>2. /\ Courante(k) /\ lignes[k].dim \in Hierarchies /\ lignes[k].attr.parent = i
          /\ lignes[i].dim \in Hierarchies
      BY <1>1, <1>4, <1>5, <2>1, MembresDesBoucles DEF MembresLies
    <2>3. k \in Enfants({i})
      BY <2>2 DEF Enfants
    <2> QED BY <1>2, <2>2, <2>3
  <1>6. \A k \in C : k # i /\ Courante(k) => Courante(k)'
    BY <1>2 DEF Courante, Existe
  <1>7. \A k \in C : lignes'[k].dim = lignes[k].dim /\ lignes'[k].code = lignes[k].code
    BY <1>2
  <1> QED BY <1>2, <1>4, <1>5, <1>6, <1>7, BoucleConservee

(* A creation: no arrow leads to the new row.                              *)
LEMMA BouclesCreer ==
  ASSUME InvariantScd2, BouclesExpliquees, NEW d \in Dimensions, NEW c \in Codes, NEW a \in AttributsDe[d],
         ParentAdmis(d, a.parent), Creer(d, c, a)
  PROVE  BouclesExpliquees'
  <1>1. TypeOK /\ perdues' = perdues /\ corriges' = corriges
    BY DEF InvariantScd2, Creer
  <1>2. PICK n \in Ids :
          /\ ~Existe(n)
          /\ lignes'[n] = [dim |-> d, code |-> c, debut |-> jour, fin |-> Nul, actif |-> TRUE, attr |-> a]
          /\ \A k \in Ids : k # n => lignes'[k] = lignes[k]
    BY UneLigneCreee
  <1>3. lignes'[n].attr = a
    BY <1>2
  <1> SUFFICES ASSUME NEW C \in SUBSET Ids, BoucleDe(Peres', C) PROVE Expliquee(C)'
    BY DEF BouclesExpliquees
  <1>4. \A k \in Ids : k # n => Peres'[k] = Peres[k] /\ Peres[k] # n
    <2>1. ASSUME NEW k \in Ids, k # n, Existe(k) PROVE lignes[k].attr.parent # n
      BY <1>1, <1>2, <2>1, ParentExiste DEF Ids, Nul
    <2> QED BY <1>2, <2>1 DEF Peres, Existe, Ids, Nul
  <1>5. Peres'[n] # n
    <2>1. a.parent # n
      BY <1>2 DEF ParentAdmis, ParentCourant, Courante, Ids, Nul
    <2> QED BY <1>2, <1>3, <2>1 DEF Peres, Ids, Nul
  <1>6. n \notin C
    BY <1>4, <1>5 DEF BoucleDe
  <1>7. BoucleDe(Peres, C)
    BY <1>4, <1>6 DEF BoucleDe
  <1>8. \A k \in C : lignes'[k] = lignes[k] /\ (Courante(k) => Courante(k)')
    BY <1>2, <1>6 DEF Courante, Existe
  <1> QED BY <1>1, <1>7, <1>8, BoucleConservee

(* An overwriting that gives i another parent. The other rows of the loop    *)
(* that are not current would be a loop of before, and so would the          *)
(* structures of an earlier day; hence the search went through every row of  *)
(* the loop, and found the parent, unless it was not made.                  *)
LEMMA BouclesEnPlace ==
  ASSUME InvariantScd2, Annexes, BouclesExpliquees, InvariantScd2', Annexes',
         NEW i \in Ids, Courante(i), NEW a \in AttributsDe[lignes[i].dim], NEW actif \in BOOLEAN,
         Reparente(i, a) => ParentCourant(lignes[i].dim, a.parent), Verifiee(i, a),
         Activer(i, a, actif) \/ Ecraser(i, a, actif)
  PROVE  BouclesExpliquees'
  <1>1. TypeOK /\ TypeOK' /\ SegmentsSeuls' /\ StructuresOrdonnees' /\ perdues' = perdues /\ jour' = jour
    BY DEF InvariantScd2, Activer, Ecraser, Annexes
  <1>2. /\ lignes'[i] = [dim |-> lignes[i].dim, code |-> lignes[i].code, debut |-> lignes[i].debut,
                         fin |-> lignes[i].fin, actif |-> actif, attr |-> a]
        /\ \A k \in Ids : k # i => lignes'[k] = lignes[k]
        /\ a = lignes[i].attr \/ lignes[i].debut = jour
    BY UneLigneEcrite
  <1>3. /\ lignes'[i].dim = lignes[i].dim /\ lignes'[i].code = lignes[i].code /\ lignes'[i].attr = a
        /\ lignes'[i].debut = lignes[i].debut /\ lignes'[i].fin = lignes[i].fin
    BY <1>2
  <1>4. ASSUME NEW k \in Ids
        PROVE  /\ lignes'[k].dim = lignes[k].dim /\ lignes'[k].code = lignes[k].code
               /\ lignes'[k].debut = lignes[k].debut
               /\ Courante(k)' <=> Courante(k)
               /\ Cle(k)' = Cle(k)
               /\ k # i => lignes'[k] = lignes[k] /\ Peres'[k] = Peres[k]
    BY <1>2, <1>3 DEF Existe, Courante, Cle, Peres
  <1>5. Peres[i] = lignes[i].attr.parent /\ Peres'[i] = a.parent /\ Existe(i) /\ Courante(i)'
    BY <1>3, <1>4 DEF Peres, Courante, Existe
  <1>6. corriges' = corriges \/ corriges' = Corrige(i, a)
    BY DEF Activer, Ecraser
  <1>7. corriges' = corriges \/ a.parent # lignes[i].attr.parent
    BY <1>6 DEF Corrige
  <1> SUFFICES ASSUME NEW C \in SUBSET Ids, BoucleDe(Peres', C) PROVE Expliquee(C)'
    BY DEF BouclesExpliquees
  <1>8. ASSUME NEW N \in SUBSET Ids, BoucleDe(Peres', N), i \notin N PROVE BoucleDe(Peres, N)
    <2>1. \A k \in N : Peres'[k] = Peres[k]
      BY <1>4, <1>8
    <2> QED BY <1>8, <2>1 DEF BoucleDe
  <1>9. CASE i \notin C
    <2>1. BoucleDe(Peres, C)
      BY <1>8, <1>9
    <2>2. ASSUME \A k \in C : Courante(k), NEW k \in C, Cle(k) \in corriges PROVE Cle(k) \in corriges'
      <3>1. Cle(k) # Cle(i)
        BY <1>9, <2>2, CleUnique
      <3> QED BY <1>6, <2>2, <3>1 DEF Corrige, Cle
    <2> QED BY <1>1, <1>4, <2>1, <2>2, BoucleConservee
  <1>10. Graphe'
    BY LeGraphe, PTL
  <1>11. CASE i \in C /\ a.parent = lignes[i].attr.parent
    <2>1. \A k \in C : Peres'[k] = Peres[k]
      BY <1>4, <1>5, <1>11
    <2>2. BoucleDe(Peres, C)
      BY <2>1 DEF BoucleDe
    <2>3. corriges' = corriges
      BY <1>7, <1>11
    <2> QED BY <1>1, <1>4, <2>2, <2>3, BoucleConservee
  <1>12. CASE i \in C /\ a.parent # lignes[i].attr.parent
    <2>1. /\ a.parent \in C /\ Reparente(i, a) /\ lignes[i].debut = jour
          /\ \A k \in C : lignes[k].dim \in Hierarchies
      <3>1. a.parent \in C
        BY <1>5, <1>12 DEF BoucleDe
      <3>2. \A k \in C : lignes[k].dim \in Hierarchies
        BY <1>4, <1>10 DEF Graphe, MembresLies
      <3> QED BY <1>2, <1>12, <3>1, <3>2 DEF Reparente, Ids, Nul
    <2>2. ASSUME NEW N \in SUBSET C, BoucleDe(Peres', N), i \in N, \A k \in N : Courante(k)', SansCycle(i, a.parent)
          PROVE  FALSE
      <3>1. PICK D \in SUBSET Ids :
              /\ i \in D /\ a.parent \notin D
              /\ \A k \in Ids : Courante(k) /\ lignes[k].dim \in Hierarchies /\ lignes[k].attr.parent \in D => k \in D
        BY <2>2, RechercheComplete
      <3>2. ASSUME NEW k \in N, k # i, Peres'[k] \in D PROVE k \in D
        <4>1. Courante(k) /\ lignes[k].dim \in Hierarchies /\ Peres[k] \in D
          BY <1>4, <2>1, <2>2, <3>2
        <4>2. Peres[k] = lignes[k].attr.parent
          BY <4>1 DEF Peres, Courante
        <4> QED BY <3>1, <4>1, <4>2
      <3> QED BY <1>5, <2>2, <3>1, <3>2, PasDeRetour
    <2>3. Structures(C)' = {}
      <3> SUFFICES ASSUME Structures(C)' # {} PROVE FALSE
        OBVIOUS
      <3> DEFINE S == {k \in C : lignes[k].dim = "structure"}
                 G == {k \in S : lignes[k].debut = jour}
                 P == {k \in G : ~Courante(k)}
      <3>1. Structures(C)' = S /\ DuJour(C)' = G /\ Passees(DuJour(C))' = P
        BY <1>1, <1>4 DEF Structures, DuJour, Passees
      <3>2. BoucleDe(Peres', S)
        BY <1>10, <3>1 DEF Graphe, StructuresEnBoucle
      <3>3. ASSUME NEW N \in SUBSET S, BoucleDe(Peres', N) PROVE i \in N
        <4> SUFFICES ASSUME i \notin N PROVE FALSE
          OBVIOUS
        <4>1. BoucleDe(Peres, N)
          BY <1>8, <3>3
        <4>2. Expliquee(N)
          BY <3>3, <4>1 DEF BouclesExpliquees
        <4>3. PICK k \in N : lignes[k].dim = "structure"
          BY <3>3 DEF BoucleDe
        <4> QED BY <4>2, <4>3 DEF Expliquee
      <3>4. i \in S
        BY <3>2, <3>3
      <3>5. i \in G
        BY <2>1, <3>4
      <3>6. BoucleDe(Peres', G) /\ (P # {} => BoucleDe(Peres', P))
        <4> HIDE DEF G, P
        <4> QED BY <1>10, <3>1, <3>5 DEF Graphe, DuJourEnBoucle
      <3>7. P = {}
        <4>1. P \in SUBSET S /\ i \notin P
          BY <1>4, <1>5
        <4> HIDE DEF P
        <4> QED BY <3>3, <3>6, <4>1
      <3>8. \A k \in G : Courante(k)'
        BY <1>4, <3>7
      <3>9. SansCycle(i, a.parent)
        BY <2>1, <3>4 DEF Verifiee
      <3> QED BY <2>2, <3>5, <3>6, <3>8, <3>9
    <2>4. ASSUME C \cap perdues' = {} PROVE \A k \in C : Courante(k)'
      <3> SUFFICES ASSUME Passees(C)' # {} PROVE FALSE
        BY DEF Passees
      <3>1. BoucleDe(Peres', Passees(C)')
        BY <1>10, <2>3, <2>4 DEF Graphe, PasseesEnBoucle
      <3>2. Passees(C)' \in SUBSET C /\ i \notin Passees(C)' /\ \A k \in Passees(C)' : ~Courante(k)
        BY <1>4, <1>5 DEF Passees
      <3>3. BoucleDe(Peres, Passees(C)')
        BY <1>8, <3>1, <3>2
      <3>4. Expliquee(Passees(C)')
        BY <3>2, <3>3 DEF BouclesExpliquees
      <3> QED BY <1>1, <2>4, <3>2, <3>3, <3>4 DEF Expliquee, BoucleDe
    <2>5. ASSUME C \cap perdues' = {} PROVE \E k \in C : Cle(k)' \in corriges'
      <3>1. ~SansCycle(i, a.parent)
        BY <1>12, <2>2, <2>4, <2>5
      <3>2. ~Activer(i, a, actif)
        BY <1>12 DEF Activer
      <3>3. corriges' = Corrige(i, a)
        BY <3>2 DEF Ecraser
      <3>4. Cle(i) \in corriges'
        BY <1>12, <2>1, <3>1, <3>3 DEF Corrige, Cle
      <3> QED BY <1>4, <1>12, <3>4
    <2> QED BY <2>3, <2>4, <2>5 DEF Expliquee, Structures
  <1> QED BY <1>9, <1>11, <1>12

(* What a revision does to the arrows: the new row n takes the place of i    *)
(* when the dependants of i follow; otherwise nothing points to n.          *)
LEMMA FlechesRevisees ==
  ASSUME InvariantScd2, NEW i \in Ids, Courante(i), NEW a \in AttributsDe[lignes[i].dim],
         Reparente(i, a) => ParentCourant(lignes[i].dim, a.parent),
         NEW n \in Ids, NEW reliees \in BOOLEAN, Revisee(i, n, a, reliees)
  PROVE  /\ a.parent # n
         /\ Peres[i] = lignes[i].attr.parent
         /\ Peres'[n] = IF reliees /\ lignes[i].dim \in AutoReferences /\ a.parent = i THEN n ELSE a.parent
         /\ \A k \in Ids : k # n =>
              /\ Peres[k] # n
              /\ Peres'[k] = IF reliees /\ lignes[k].dim \in Dependants(lignes[i].dim) /\ Peres[k] = i
                             THEN n ELSE Peres[k]
  <1>1. TypeOK /\ Existe(i) /\ ~Existe(n) /\ n # i /\ i # Nul /\ n # Nul /\ lignes[i].dim \in Dimensions
    BY LigneExistante DEF InvariantScd2, Revisee, Courante, Ids, Nul
  <1>2. a.parent # n
    <2>1. CASE Reparente(i, a)
      BY <1>1, <2>1 DEF ParentCourant, Courante
    <2>2. CASE ~Reparente(i, a)
      BY <1>1, <2>2, ParentExiste DEF Reparente
    <2> QED BY <2>1, <2>2
  <1>3. Peres[i] = lignes[i].attr.parent
    BY <1>1 DEF Peres
  <1>4. Peres'[n] = IF reliees /\ lignes[i].dim \in AutoReferences /\ a.parent = i THEN n ELSE a.parent
    <2>1. lignes[i].dim \in Dependants(lignes[i].dim) <=> lignes[i].dim \in AutoReferences
      BY DEF Dependants, AutoReferences
    <2>2. /\ lignes'[n].attr.parent = ParentRevise(n, i, n, a, reliees)
          /\ lignes'[n].dim = lignes[i].dim
      BY DEF Revisee
    <2>3. Existe(n)'
      BY <1>1, <2>2 DEF Existe
    <2> QED BY <2>1, <2>2, <2>3 DEF Peres, ParentRevise
  <1>5. ASSUME NEW k \in Ids, k # n
        PROVE  /\ Peres[k] # n
               /\ Peres'[k] = IF reliees /\ lignes[k].dim \in Dependants(lignes[i].dim) /\ Peres[k] = i
                              THEN n ELSE Peres[k]
    <2>1. lignes'[k].dim = lignes[k].dim
      BY <1>5 DEF Revisee
    <2>2. CASE Existe(k)
      <3>1. Peres[k] = lignes[k].attr.parent /\ Peres'[k] = lignes'[k].attr.parent
        BY <2>1, <2>2 DEF Peres, Existe
      <3>2. lignes'[k].attr.parent = ParentRevise(k, i, n, a, reliees)
        BY <1>5, <2>2 DEF Revisee
      <3>3. lignes[k].attr.parent # n
        BY <1>1, <2>2, ParentExiste
      <3> QED BY <1>5, <3>1, <3>2, <3>3 DEF ParentRevise
    <2>3. CASE ~Existe(k)
      BY <1>1, <2>1, <2>3 DEF Peres, Existe
    <2> QED BY <2>2, <2>3
  <1> QED BY <1>2, <1>3, <1>4, <1>5

(* A revision: a loop without n was there before; one with n comes from a     *)
(* loop with i in its place. When the parent changes there is none with n,   *)
(* or the search would have found the new parent.                          *)
LEMMA BouclesReviser ==
  ASSUME InvariantScd2, Annexes, BouclesExpliquees, InvariantScd2', Annexes',
         NEW i \in Ids, Courante(i), NEW a \in AttributsDe[lignes[i].dim], NEW actif \in BOOLEAN,
         Reparente(i, a) => ParentCourant(lignes[i].dim, a.parent), Verifiee(i, a),
         Reviser(i, a, actif), NEW n \in Ids, NEW reliees \in BOOLEAN, Revisee(i, n, a, reliees)
  PROVE  BouclesExpliquees'
  <1> DEFINE d == lignes[i].dim
  <1>1. /\ TypeOK /\ Existe(i) /\ ~Existe(n) /\ n # i /\ lignes[i].debut # jour
        /\ corriges' = Corrige(i, a)
        /\ i \notin perdues /\ perdues \subseteq perdues'
        /\ reliees => perdues' = perdues
        /\ ~reliees => i \in perdues'
    BY DEF InvariantScd2, Reviser, Revisee, Courante, Annexes, PerduesFermees
  <1>2. /\ a.parent # n
        /\ Peres[i] = lignes[i].attr.parent
        /\ Peres'[n] = IF reliees /\ d \in AutoReferences /\ a.parent = i THEN n ELSE a.parent
        /\ \A k \in Ids : k # n =>
             /\ Peres[k] # n
             /\ Peres'[k] = IF reliees /\ lignes[k].dim \in Dependants(d) /\ Peres[k] = i THEN n ELSE Peres[k]
    BY FlechesRevisees
  <1>3. /\ Cle(n)' = Cle(i) /\ lignes'[n].dim = d /\ Courante(n)'
        /\ \A k \in Ids : k # n => lignes'[k].dim = lignes[k].dim
        /\ \A k \in Ids : Existe(k) => k # n /\ lignes'[k].code = lignes[k].code /\ Cle(k)' = Cle(k)
        /\ \A k \in Ids : Courante(k) /\ k # i => Courante(k)'
        /\ \A k \in Ids : Courante(k)' /\ k # n => Courante(k) /\ k # i
    <2>1. /\ lignes'[n].dim = d /\ lignes'[n].code = lignes[i].code /\ lignes'[n].fin = Nul
          /\ \A k \in Ids : k # n =>
               /\ lignes'[k].dim = lignes[k].dim
               /\ Existe(k) => /\ lignes'[k].code = lignes[k].code
                               /\ lignes'[k].fin = IF k = i THEN jour ELSE lignes[k].fin
      BY DEF Revisee
    <2>2. jour # Nul
      BY <1>1 DEF TypeOK, Nul
    <2> HIDE DEF d
    <2>3. d # "AUCUNE" /\ d = lignes[i].dim
      BY <1>1 DEF Existe, d
    <2>4. Cle(n)' = Cle(i) /\ Courante(n)'
      BY <2>1, <2>3 DEF Cle, Courante, Existe
    <2>5. ASSUME NEW k \in Ids, Existe(k) PROVE k # n /\ lignes'[k].code = lignes[k].code /\ Cle(k)' = Cle(k)
      BY <1>1, <2>1, <2>5 DEF Cle
    <2>6. ASSUME NEW k \in Ids, k # n PROVE Courante(k)' <=> Courante(k) /\ k # i
      BY <2>1, <2>2, <2>6 DEF Courante, Existe
    <2> QED BY <1>1, <2>1, <2>4, <2>5, <2>6 DEF Courante
  <1>4. Graphe'
    BY LeGraphe, PTL
  <1> SUFFICES ASSUME NEW C \in SUBSET Ids, BoucleDe(Peres', C) PROVE Expliquee(C)'
    BY DEF BouclesExpliquees
  <1>5. ASSUME NEW k \in C
        PROVE  /\ Existe(k)' /\ Peres'[k] \in C
               /\ lignes'[k].dim \in Hierarchies /\ lignes'[Peres'[k]].dim = lignes'[k].dim
    BY <1>4 DEF Graphe, MembresLies
  <1>6. \A k \in C : k # n => Existe(k)
    BY <1>3, <1>5 DEF Existe
  <1>7. ASSUME NEW N \in SUBSET C, BoucleDe(Peres', N), n \notin N PROVE BoucleDe(Peres, N)
    <2>1. \A k \in N : Peres'[k] = Peres[k] \/ Peres'[k] = n
      BY <1>2, <1>7
    <2> QED BY <1>7, <2>1, BoucleSans
  <1>8. CASE n \notin C
    <2>1. BoucleDe(Peres, C)
      BY <1>7, <1>8
    <2>2. ASSUME C \cap perdues' = {}, Structures(C) = {} PROVE i \notin C
      <3> SUFFICES ASSUME i \in C PROVE FALSE
        OBVIOUS
      <3>1. PICK k \in C : Peres'[k] = i
        BY DEF BoucleDe
      <3>2. k # n /\ lignes[k].dim = d /\ d \in AutoReferences /\ reliees
        <4>1. k # n /\ lignes'[k].dim = lignes[k].dim /\ lignes'[i].dim = d
          BY <1>1, <1>3, <1>8
        <4>2. lignes[k].dim = d /\ d \in Hierarchies
          BY <1>5, <3>1, <4>1
        <4>3. d # "structure"
          BY <2>2 DEF Structures
        <4> QED BY <1>1, <2>2, <4>1, <4>2, <4>3 DEF Hierarchies
      <3>3. lignes[k].dim \in Dependants(d)
        BY <3>2 DEF Dependants, AutoReferences
      <3> QED BY <1>1, <1>2, <3>1, <3>2, <3>3
    <2>3. ASSUME \A k \in C : Courante(k), i \notin C, NEW k \in C, Cle(k) \in corriges PROVE Cle(k) \in corriges'
      <3>1. Cle(k) # Cle(i)
        BY <2>3, CleUnique
      <3> QED BY <1>1, <2>3, <3>1 DEF Corrige, Cle
    <2>4. \A k \in C : lignes'[k].dim = lignes[k].dim /\ lignes'[k].code = lignes[k].code
      BY <1>3, <1>6, <1>8
    <2>5. C \cap perdues' = {} => C \cap perdues = {}
      BY <1>1
    <2>6. ASSUME C \cap perdues' = {}, Structures(C) = {}, \A k \in C : Courante(k)
          PROVE  \A k \in C : Courante(k)' /\ (Cle(k) \in corriges => Cle(k) \in corriges')
      BY <1>3, <2>2, <2>3, <2>6
    <2> QED BY <2>1, <2>4, <2>5, <2>6, BoucleConservee
  <1>9. CASE n \in C
    <2>1. reliees /\ d \in AutoReferences /\ perdues' = perdues
      <3>1. PICK j \in C : Peres'[j] = n
        BY <1>9 DEF BoucleDe
      <3>2. CASE j = n
        BY <1>1, <1>2, <3>1, <3>2
      <3>3. CASE j # n
        <4>1. reliees /\ lignes[j].dim \in Dependants(d)
          BY <1>2, <3>1, <3>3
        <4>2. lignes[j].dim = d
          BY <1>3, <1>5, <3>1, <3>3
        <4> QED BY <1>1, <4>1, <4>2 DEF Dependants, AutoReferences
      <3> QED BY <3>2, <3>3
    <2>2. ASSUME NEW k \in Ids, Existe(k) PROVE Peres'[k] = IF Peres[k] = i THEN n ELSE Peres[k]
      <3>1. Peres[k] = i => lignes[k].dim \in Dependants(d)
        <4> SUFFICES ASSUME Peres[k] = i PROVE lignes[k].dim \in Dependants(d)
          OBVIOUS
        <4>1. lignes[k].attr.parent = i /\ i # Nul
          BY <2>2 DEF Peres, Ids, Nul
        <4>2. d = DimensionParent(lignes[k].dim)
          BY <1>1, <2>2, <4>1 DEF TypeOK
        <4> QED BY <2>1, <4>2 DEF DimensionParent, Dependants, AutoReferences
      <3> QED BY <1>2, <1>3, <2>1, <2>2, <3>1
    <2>3. Peres'[n] = IF a.parent = i THEN n ELSE a.parent
      BY <1>2, <2>1
    <2>4. i \notin C
      <3>1. ASSUME NEW k \in C PROVE Peres'[k] # i
        <4>1. CASE k = n
          BY <1>1, <2>3, <4>1
        <4>2. CASE k # n
          BY <1>1, <1>6, <2>2, <4>2
        <4> QED BY <4>1, <4>2
      <3> QED BY <3>1 DEF BoucleDe
    <2>5. ASSUME NEW N \in SUBSET C, BoucleDe(Peres', N), n \notin N
          PROVE  Expliquee(N) /\ N # {} /\ \A k \in N : lignes'[k].dim = lignes[k].dim /\ (Courante(k) => Courante(k)')
      <3>1. Expliquee(N)
        BY <1>7, <2>5 DEF BouclesExpliquees
      <3> QED BY <1>3, <2>4, <2>5, <3>1 DEF BoucleDe
    <2>6. Structures(C)' = {}
      <3> SUFFICES ASSUME Structures(C)' # {} PROVE FALSE
        OBVIOUS
      <3>1. BoucleDe(Peres', Structures(C)')
        BY <1>4 DEF Graphe, StructuresEnBoucle
      <3> DEFINE S == {k \in C : lignes'[k].dim = "structure"}
      <3>2. Structures(C)' = S /\ S \in SUBSET C /\ n \notin S
        BY <1>3, <2>1 DEF Structures, AutoReferences
      <3>3. Expliquee(S) /\ S # {} /\ \A k \in S : lignes[k].dim = "structure"
        <4>1. \A k \in S : lignes'[k].dim = "structure"
          OBVIOUS
        <4> HIDE DEF S
        <4> QED BY <2>5, <3>1, <3>2, <4>1
      <3> QED BY <3>3 DEF Expliquee
    <2>7. ASSUME C \cap perdues' = {} PROVE \A k \in C : Courante(k)'
      <3> SUFFICES ASSUME Passees(C)' # {} PROVE FALSE
        BY DEF Passees
      <3> DEFINE P == {k \in C : ~Courante(k)'}
      <3>1. Passees(C)' = P /\ P \in SUBSET C /\ n \notin P
        BY <1>3 DEF Passees
      <3>2. BoucleDe(Peres', P)
        BY <1>4, <2>6, <2>7, <3>1 DEF Graphe, PasseesEnBoucle
      <3>3. \A k \in P : ~Courante(k)'
        OBVIOUS
      <3> HIDE DEF P
      <3>4. Expliquee(P) /\ P # {} /\ \A k \in P : Courante(k) => Courante(k)'
        BY <2>5, <3>1, <3>2
      <3>5. P \cap perdues = {}
        BY <2>1, <2>7, <3>1
      <3> QED BY <3>3, <3>4, <3>5 DEF Expliquee
    <2>8. CASE a.parent = lignes[i].attr.parent
      <3> DEFINE B == (C \ {n}) \cup {i}
      <3>1. B \in SUBSET Ids /\ i \in B /\ B # {}
        OBVIOUS
      <3>2. ASSUME NEW x \in B PROVE \E y \in B : Peres[y] = x
        <4>1. CASE x = i
          <5>1. PICK y \in C : Peres'[y] = n
            BY <1>9 DEF BoucleDe
          <5>2. CASE y = n
            BY <1>2, <2>3, <2>8, <4>1, <5>1, <5>2
          <5>3. CASE y # n
            BY <1>2, <1>6, <2>2, <4>1, <5>1, <5>3
          <5> QED BY <5>2, <5>3
        <4>2. CASE x # i
          <5>1. x \in C /\ x # n
            BY <3>2, <4>2
          <5>2. PICK y \in C : Peres'[y] = x
            BY <5>1 DEF BoucleDe
          <5>3. CASE y = n
            BY <1>2, <2>3, <2>8, <5>1, <5>2, <5>3
          <5>4. CASE y # n
            BY <1>6, <2>2, <5>1, <5>2, <5>4
          <5> QED BY <5>3, <5>4
        <4> QED BY <4>1, <4>2
      <3>3. BoucleDe(Peres, B)
        <4>1. IsFiniteSet(B)
          BY <3>1, IdsFinis
        <4> HIDE DEF B
        <4>2. \A x \in B : Peres[x] \in B
          BY <3>2, <4>1, Finitude
        <4> QED BY <3>1, <3>2, <4>2 DEF BoucleDe
      <3>4. Expliquee(B)
        BY <3>1, <3>3 DEF BouclesExpliquees
      <3>5. ASSUME C \cap perdues' = {} PROVE \E k \in C : Cle(k)' \in corriges'
        <4>1. B \cap perdues = {}
          BY <1>1, <2>1, <3>5
        <4>2. PICK x \in B : Cle(x) \in corriges
          BY <3>4, <4>1 DEF Expliquee
        <4>3. corriges' = corriges
          BY <1>1, <2>8 DEF Corrige
        <4>4. CASE x = i
          BY <1>3, <1>9, <4>2, <4>3, <4>4
        <4>5. CASE x # i
          BY <1>3, <1>6, <4>2, <4>3, <4>5
        <4> QED BY <4>4, <4>5
      <3> QED BY <2>6, <2>7, <3>5 DEF Expliquee, Structures
    <2>9. CASE a.parent # lignes[i].attr.parent
      <3>1. Reparente(i, a) /\ SansCycle(i, a.parent)
        <4>1. a.parent # Nul
          BY <1>5, <1>9, <2>3 DEF Ids, Nul
        <4>2. Reparente(i, a)
          BY <2>9, <4>1 DEF Reparente
        <4> QED BY <1>1, <2>1, <4>2 DEF Verifiee
      <3>2. PICK D \in SUBSET Ids :
              /\ i \in D /\ a.parent \notin D
              /\ \A k \in Ids : Courante(k) /\ lignes[k].dim \in Hierarchies /\ lignes[k].attr.parent \in D => k \in D
        BY <3>1, RechercheComplete
      <3> DEFINE E == (D \ {i}) \cup {n}
      <3>3. ASSUME \A k \in C : Courante(k)' PROVE FALSE
        <4>1. ASSUME NEW k \in C, k # n, Peres'[k] \in E PROVE k \in E
          <5>1. Courante(k) /\ Existe(k) /\ k # i /\ lignes[k].dim \in Hierarchies
            BY <1>3, <1>5, <1>6, <3>3, <4>1
          <5>2. Peres[k] = lignes[k].attr.parent
            BY <5>1 DEF Peres
          <5>3. Peres[k] \in D
            BY <2>2, <3>2, <4>1, <5>1, <1>2
          <5> QED BY <3>2, <5>1, <5>2, <5>3
        <4>2. n \in E /\ Peres'[n] \notin E
          BY <1>2, <2>3, <3>2
        <4> HIDE DEF E
        <4> QED BY <1>9, <4>1, <4>2, PasDeRetour
      <3>4. C \cap perdues' # {}
        BY <2>7, <3>3
      <3> QED BY <2>6, <3>4 DEF Expliquee, Structures
    <2> QED BY <2>8, <2>9
  <1> QED BY <1>8, <1>9

-----------------------------------------------------------------------------
InvariantBoucles == InvariantScd2 /\ Annexes /\ BouclesExpliquees

LEMMA BouclesAuDepart == Init => Annexes /\ BouclesExpliquees
  <1> SUFFICES ASSUME Init PROVE Annexes /\ BouclesExpliquees
    OBVIOUS
  <1>1. (\A i \in Ids : ~Existe(i)) /\ perdues = {}
    BY DEF Init, Existe, Absente
  <1>2. Annexes
    BY <1>1 DEF Annexes, SegmentsSeuls, PerduesFermees, StructuresOrdonnees
  <1>3. \A C \in SUBSET Ids : ~BoucleDe(Peres, C)
    <2>1. \A k \in Ids : Peres[k] = Nul
      BY <1>1 DEF Peres
    <2> SUFFICES ASSUME NEW C \in SUBSET Ids, BoucleDe(Peres, C) PROVE FALSE
      OBVIOUS
    <2>2. PICK k \in C : Peres[k] \in C
      BY DEF BoucleDe
    <2> QED BY <2>1, <2>2 DEF Ids, Nul
  <1> QED BY <1>2, <1>3 DEF BouclesExpliquees

LEMMA PasBoucles ==
  ASSUME InvariantBoucles, Next
  PROVE  InvariantBoucles'
  <1>1. InvariantScd2 /\ Annexes /\ BouclesExpliquees /\ TypeOK
    BY DEF InvariantBoucles, InvariantScd2
  <1>2. InvariantScd2'
    BY <1>1, PasEvolution, EvolutionSuffit
  <1> SUFFICES Annexes' /\ BouclesExpliquees'
    BY <1>2 DEF InvariantBoucles
  <1>3. CASE \E d \in Dimensions, c \in Codes : \E a \in AttributsDe[d] :
               ParentAdmis(d, a.parent) /\ Creer(d, c, a)
    BY <1>1, <1>3, AnnexesCreer, BouclesCreer
  <1>4. ASSUME NEW i \in Ids, Courante(i), NEW a \in AttributsDe[lignes[i].dim], NEW actif \in BOOLEAN,
               Reparente(i, a) => ParentCourant(lignes[i].dim, a.parent), Verifiee(i, a),
               Activer(i, a, actif) \/ Ecraser(i, a, actif)
        PROVE  Annexes' /\ BouclesExpliquees'
    <2>1. Annexes'
      BY <1>1, <1>4, AnnexesEnPlace
    <2> QED BY <1>1, <1>2, <1>4, <2>1, BouclesEnPlace
  <1>5. ASSUME NEW i \in Ids, Courante(i), NEW a \in AttributsDe[lignes[i].dim], NEW actif \in BOOLEAN,
               Reparente(i, a) => ParentCourant(lignes[i].dim, a.parent), Verifiee(i, a),
               Reviser(i, a, actif)
        PROVE  Annexes' /\ BouclesExpliquees'
    <2>1. PICK n \in Ids, reliees \in BOOLEAN : Revisee(i, n, a, reliees)
      BY <1>1, <1>5, UneLigneRevisee
    <2>2. Annexes'
      BY <1>1, <1>5, <2>1, AnnexesReviser
    <2> QED BY <1>1, <1>2, <1>5, <2>1, <2>2, BouclesReviser
  <1>6. CASE Fermeture
    BY <1>1, <1>6, AnnexesFermer, BouclesFermer DEF Fermeture
  <1>7. CASE NouveauJour
    <2>1. lignes' = lignes /\ perdues' = perdues /\ corriges' = corriges
      BY <1>7 DEF NouveauJour
    <2> QED BY <1>1, <2>1 DEF Annexes, SegmentsSeuls, PerduesFermees, StructuresOrdonnees,
              BouclesExpliquees, Expliquee, Peres, Cle, Existe, Courante
  <1>8. Effets
    BY <1>1, PasEffets
  <1> QED BY <1>3, <1>4, <1>5, <1>6, <1>7, <1>8 DEF Effets

-----------------------------------------------------------------------------
(* The theorems.                                                           *)

LEMMA InvariantAuDepart == Init => InvariantScd2
  <1> SUFFICES ASSUME Init PROVE InvariantScd2
    OBVIOUS
  <1>1. \A i \in Ids : ~Existe(i)
    BY DEF Init, Existe, Absente
  <1>2. jour \in 1..JourMax
    BY BornesScd2 DEF Init
  <1>3. TypeOK
    BY <1>1, <1>2 DEF Init, TypeOK
  <1> QED BY <1>1, <1>3 DEF InvariantScd2, Disjointes, LienVivant, Courante

THEOREM InvariantTenu == Spec => []InvariantScd2
  <1>1. InvariantScd2 /\ [Next]_vars => InvariantScd2'
    <2>1. CASE Next
      BY <2>1, PasEvolution, EvolutionSuffit
    <2>2. CASE UNCHANGED vars
      BY <2>2 DEF vars, InvariantScd2, TypeOK, Disjointes, LienVivant, Existe, Courante
    <2> QED BY <2>1, <2>2
  <1> QED BY <1>1, InvariantAuDepart, PTL DEF Spec

(* Types, dates in order, foreign keys to the right table, for any number of *)
(* keys, rows and days.                                                    *)
THEOREM TypeCorrecte == Spec => []TypeOK
  BY InvariantTenu, PTL DEF InvariantScd2

(* A business date resolves to at most one version of a key.               *)
THEOREM VersionToujoursUnique == Spec => []VersionUnique
  <1>1. InvariantScd2 => VersionUnique
    <2> SUFFICES ASSUME InvariantScd2, NEW d \in Dimensions, NEW c \in Codes, NEW j \in 1..jour,
                        NEW x \in ValidesA(d, c, j), NEW y \in ValidesA(d, c, j), x # y
                 PROVE  FALSE
      BY DEF VersionUnique
    <2>1. /\ x \in Ids /\ lignes[x].dim = d /\ lignes[x].code = c /\ Valide(x, j)
          /\ y \in Ids /\ lignes[y].dim = d /\ lignes[y].code = c /\ Valide(y, j)
      BY DEF ValidesA
    <2>2. Existe(x) /\ Existe(y)
      BY <2>1 DEF Existe, Dimensions, Hierarchies, AutoReferences
    <2>3. \/ lignes[x].fin # Nul /\ lignes[x].fin <= lignes[y].debut
          \/ lignes[y].fin # Nul /\ lignes[y].fin <= lignes[x].debut
      BY <2>1, <2>2 DEF InvariantScd2, Disjointes
    <2>4. /\ lignes[x].debut \in Nat /\ lignes[x].fin \in Nat
          /\ lignes[y].debut \in Nat /\ lignes[y].fin \in Nat /\ j \in Int
      BY <2>1, <2>2, LigneExistante DEF InvariantScd2
    <2> QED BY <2>1, <2>3, <2>4 DEF Valide
  <1> QED BY <1>1, InvariantTenu, PTL

(* Parents and structures are current, but for the rows in perdues.         *)
THEOREM LienToujoursVivant == Spec => []LienVivant
  BY InvariantTenu, PTL DEF InvariantScd2

(* No request changes what a past day resolves to.                         *)
THEOREM PasseToujoursFige == Spec => PasseFige
  <1>1. InvariantScd2 /\ [Next]_vars =>
          [\A i \in Ids : \A j \in 1..(jour - 1) : Temoignage(i, j)' = Temoignage(i, j)]_vars
    <2> SUFFICES ASSUME InvariantScd2, Next, NEW i \in Ids, NEW j \in 1..(jour - 1)
                 PROVE  Temoignage(i, j)' = Temoignage(i, j)
      OBVIOUS
    <2>1. TypeOK /\ Evolution
      BY PasEvolution DEF InvariantScd2
    <2> QED BY <2>1, EvolutionFige
  <1> QED BY <1>1, InvariantTenu, PTL DEF Spec, PasseFige

(* No structure is its own ancestor, and every other cycle of the links is   *)
(* explained by an overwriting or by an interrupted relinking, for any       *)
(* number of rows, of keys and of days.                                    *)
THEOREM CyclesToujoursExpliques == Spec => []CyclesExpliques
  <1>1. Init => InvariantBoucles
    BY InvariantAuDepart, BouclesAuDepart DEF InvariantBoucles
  <1>2. InvariantBoucles /\ [Next]_vars => InvariantBoucles'
    <2>1. CASE Next
      BY <2>1, PasBoucles
    <2>2. CASE UNCHANGED vars
      BY <2>2 DEF vars, InvariantBoucles, InvariantScd2, TypeOK, Disjointes, LienVivant, Existe, Courante,
           Annexes, SegmentsSeuls, PerduesFermees, StructuresOrdonnees, BouclesExpliquees, Expliquee, Peres, Cle
    <2> QED BY <2>1, <2>2
  <1>3. InvariantBoucles => CyclesExpliques
    BY CyclesParBoucles DEF InvariantBoucles, InvariantScd2
  <1> QED BY <1>1, <1>2, <1>3, PTL DEF Spec
=============================================================================
