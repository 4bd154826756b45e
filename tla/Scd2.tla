---------------------------------- MODULE Scd2 ----------------------------------
(* The historised dimensions (slowly changing dimensions, type 2): the      *)
(* versions of each business key, and the links between them. One row of   *)
(* one of the six tables is a Ligne; ids are unique over the tables. Each  *)
(* action is a whole handler of one of the six services, on the day `jour`. *)
EXTENDS Integers, FiniteSets

CONSTANTS Codes,      \* business keys
          Libelles,   \* per table, values of the tracked columns nothing tests
          Classes,    \* classes of accounts
          TailleMax,  \* bound: rows in all
          JourMax,    \* bound: days
          NiveauMax,  \* bound: depth of a hierarchy
          Ensembles   \* bound: the sets of tables that hold rows together

ASSUME BornesScd2 == TailleMax \in Nat \ {0} /\ JourMax \in Nat \ {0} /\ NiveauMax \in Nat \ {0}

VARIABLES
  lignes,   \* the rows of the six tables
  jour,     \* today (UTC), as the services compute it
  perdues,  \* history: rows closed without the rows that refer to them being moved
  corriges  \* history: keys whose parent was last set to one that closes a cycle

vars == <<lignes, jour, perdues, corriges>>

Nul == 0
Ids == 1..TailleMax
AutoReferences == {"compte", "ligne_metier", "produit"}
Hierarchies == AutoReferences \cup {"structure"}
Dimensions == Hierarchies \cup {"cr", "segment"}
Types == {"entite_juridique", "direction", "agence"}

(* Columns a request chooses: the parent (fk_structure of a CR), the level, *)
(* what distinguishes the rows of a table (type or class), the rest.       *)
Attributs ==
  [parent : Ids \cup {Nul}, niveau : 1..NiveauMax, nature : Types \cup Classes \cup {"SANS"},
   libelle : UNION {Libelles[d] : d \in Dimensions}]

AttributsDe == [d \in Dimensions |->
  {a \in Attributs :
     /\ a.libelle \in Libelles[d]
     /\ d \notin Hierarchies => a.niveau = 1
     /\ a.nature \in (CASE d = "structure" -> Types [] d = "compte" -> Classes [] OTHER -> {"SANS"})
     /\ d = "cr" => a.parent # Nul
     /\ d = "segment" => a.parent = Nul}]

(* fin = Nul is a NULL date_fin_validite, that is, version_courante.        *)
Ligne ==
  [dim : Dimensions, code : Codes, debut : 1..JourMax, fin : 0..JourMax,
   actif : BOOLEAN, attr : Attributs]

(* An id the sequence has not given yet.                                   *)
Absente == [dim |-> "AUCUNE"]

Init ==
  /\ lignes = [i \in Ids |-> Absente]
  /\ jour = 1
  /\ perdues = {}
  /\ corriges = {}

-----------------------------------------------------------------------------
(* Reading.                                                                *)

Existe(i) == lignes[i].dim # "AUCUNE"
Courante(i) == Existe(i) /\ lignes[i].fin = Nul

(* findCurrent: at most one row.                                           *)
Courantes(d, c) == {i \in Ids : lignes[i].dim = d /\ lignes[i].code = c /\ lignes[i].fin = Nul}

(* Fault: the end of the period is taken as included.                      *)
ValideFinIncluse(i, j) == lignes[i].debut <= j /\ (lignes[i].fin = Nul \/ lignes[i].fin >= j)

(* The period of a row is [debut, fin).                                    *)
Valide(i, j) == lignes[i].debut <= j /\ (lignes[i].fin = Nul \/ lignes[i].fin > j)

(* findValidAt: the rows it can return.                                    *)
ValidesA(d, c, j) ==
  {i \in Ids : lignes[i].dim = d /\ lignes[i].code = c /\ Valide(i, j)}

(* The table a dimension refers to.                                        *)
DimensionParent(d) == IF d = "cr" THEN "structure" ELSE d

(* assertParentExistsAndCurrent, resolveAndAssertStructure.                 *)
ParentCourant(d, p) == p \in Ids /\ Courante(p) /\ lignes[p].dim = DimensionParent(d)

Enfants(S) ==
  {k \in Ids : Courante(k) /\ lignes[k].dim \in Hierarchies /\ lignes[k].attr.parent \in S}

(* findDescendants: the generations it goes through, from the row itself.   *)
Generations(i) ==
  LET g[n \in 0..TailleMax] == IF n = 0 THEN {i} ELSE Enfants(g[n - 1])
  IN  g

(* Fault: only the row itself is refused as its own parent.                 *)
PasSoiMeme(i, p) == p # i

(* validateNoCycle; its search ends only when the generations run out.      *)
SansCycle(i, p) ==
  /\ p # i
  /\ Generations(i)[TailleMax] = {}
  /\ \A n \in 1..TailleMax : p \notin Generations(i)[n]

(* assertTypeNiveauCoherence of the structures.                            *)
TypeNiveauCoherent(a) ==
  /\ a.nature = "entite_juridique" => a.niveau = 1 /\ a.parent = Nul
  /\ a.nature = "agence" => a.niveau >= 2 /\ a.parent # Nul

(* assertParentNiveauCoherence, assertParentClasseCoherence.               *)
NiveauSuitParent(a) == a.niveau = lignes[a.parent].attr.niveau + 1
ClasseDuParent(a) == a.nature = lignes[a.parent].attr.nature

-----------------------------------------------------------------------------
(* Writing.                                                                *)

(* The rows that a relinking moves.                                        *)
Dependants(d) == IF d = "structure" THEN {"cr"} ELSE {d} \cap AutoReferences

(* Closing the current row of a key (createNewVersion, softClose).         *)
Fermees(d, c, cloture) ==
  [i \in Ids |-> IF i \in Courantes(d, c)
                 THEN [lignes[i] EXCEPT !.fin = jour, !.actif = @ /\ ~cloture]
                 ELSE lignes[i]]

(* relinkAfter...Revision: all the versions of the dependants.              *)
Relier(table, d, ancien, nouveau) ==
  [i \in Ids |-> IF table[i].dim \in Dependants(d) /\ table[i].attr.parent = ancien
                 THEN [table[i] EXCEPT !.attr.parent = nouveau]
                 ELSE table[i]]

Prochain(n) == n \in Ids /\ ~Existe(n) /\ \A k \in 1..(n - 1) : Existe(k)

(* createNewVersion: closes the current row if any and inserts the new one; *)
(* the unique key (code, date_debut_validite) refuses two on the same day. *)
NouvelleVersion(d, c, a, actif, n) ==
  [Fermees(d, c, FALSE) EXCEPT
     ![n] = [dim |-> d, code |-> c, debut |-> jour, fin |-> Nul, actif |-> actif, attr |-> a]]

CleLibre(d, c) ==
  \A i \in Ids : ~(lignes[i].dim = d /\ lignes[i].code = c /\ lignes[i].debut = jour)

(* Bound: tables that do not refer to each other need not be mixed.         *)
Melange(d) == \E t \in Ensembles : d \in t /\ \A i \in Ids : Existe(i) => lignes[i].dim \in t

Creer(d, c, a) ==
  /\ Melange(d)
  /\ Courantes(d, c) = {}
  /\ CleLibre(d, c)
  /\ \E n \in Ids : Prochain(n) /\ lignes' = NouvelleVersion(d, c, a, TRUE, n)
  /\ UNCHANGED <<jour, perdues, corriges>>

(* The request names another parent; one that names none changes none.      *)
Reparente(i, a) == a.parent # lignes[i].attr.parent /\ a.parent # Nul

(* PATCH, case 2: only est_actif changes, in place.                        *)
Activer(i, a, actif) ==
  /\ a = lignes[i].attr
  /\ actif # lignes[i].actif
  /\ lignes' = [lignes EXCEPT ![i].actif = actif]
  /\ UNCHANGED <<jour, perdues, corriges>>

(* The keys whose parent was last set to one that validateNoCycle refuses.   *)
Corrige(i, a) ==
  LET cle == <<lignes[i].dim, lignes[i].code>>
  IN  IF a.parent = lignes[i].attr.parent THEN corriges
      ELSE IF Reparente(i, a) /\ ~SansCycle(i, a.parent) THEN corriges \cup {cle}
      ELSE corriges \ {cle}

(* Fault: the overwriting is not limited to the row of the day.            *)
EcraserToujours(i, a, actif) ==
  /\ a # lignes[i].attr
  /\ lignes' = [lignes EXCEPT ![i].attr = a, ![i].actif = actif]
  /\ corriges' = Corrige(i, a)
  /\ UNCHANGED <<jour, perdues>>

(* PATCH, case 3: a row that began today is overwritten.                   *)
Ecraser(i, a, actif) ==
  /\ a # lignes[i].attr
  /\ lignes[i].debut = jour
  /\ lignes' = [lignes EXCEPT ![i].attr = a, ![i].actif = actif]
  /\ corriges' = Corrige(i, a)
  /\ UNCHANGED <<jour, perdues>>

(* Fault: the relinking is forgotten.                                      *)
ReviserSansRelier(i, a, actif) ==
  LET d == lignes[i].dim
      c == lignes[i].code
  IN  /\ a # lignes[i].attr
      /\ lignes[i].debut # jour
      /\ CleLibre(d, c)
      /\ \E n \in Ids :
           Prochain(n) /\ lignes' = NouvelleVersion(d, c, a, actif \/ ~lignes[i].actif, n)
      /\ corriges' = Corrige(i, a)
      /\ UNCHANGED <<jour, perdues>>

(* PATCH, case 4: a new version, then the relinking, after the COMMIT. The *)
(* new row is active unless this request makes it inactive: a request that *)
(* leaves an inactive row alone activates it. The second disjunct: the     *)
(* process stops, or the second UPDATE fails, in between.                  *)
Reviser(i, a, actif) ==
  LET d == lignes[i].dim
      c == lignes[i].code
  IN  /\ a # lignes[i].attr
      /\ lignes[i].debut # jour
      /\ CleLibre(d, c)
      /\ \E n \in Ids :
           LET table == NouvelleVersion(d, c, a, actif \/ ~lignes[i].actif, n)
           IN  /\ Prochain(n)
               /\ \/ /\ lignes' = Relier(table, d, i, n)
                     /\ perdues' = perdues
                  \/ /\ Dependants(d) # {}
                     /\ lignes' = table
                     /\ perdues' = perdues \cup {i}
      /\ corriges' = Corrige(i, a)
      /\ UNCHANGED jour

-----------------------------------------------------------------------------
(* The handlers. In `update`, a parent that is given must be current; one   *)
(* that is not given stays, current or not.                                *)

CreerStructure(c, a) ==
  /\ a.parent # Nul => ParentCourant("structure", a.parent)
  /\ TypeNiveauCoherent(a)
  /\ Creer("structure", c, a)

ModifierStructure(i, a, actif) ==
  /\ lignes[i].dim = "structure"
  /\ \/ Activer(i, a, actif)
     \/ /\ Reparente(i, a) => ParentCourant("structure", a.parent) /\ SansCycle(i, a.parent)
        /\ TypeNiveauCoherent(a)
        /\ Ecraser(i, a, actif)
     \/ /\ a.parent # Nul => ParentCourant("structure", a.parent)
        /\ TypeNiveauCoherent(a)
        /\ Reparente(i, a) => SansCycle(i, a.parent)
        /\ Reviser(i, a, actif)

CreerCr(c, a) == ParentCourant("cr", a.parent) /\ Creer("cr", c, a)

ModifierCr(i, a, actif) ==
  /\ lignes[i].dim = "cr"
  /\ Reparente(i, a) => ParentCourant("cr", a.parent)
  /\ Activer(i, a, actif) \/ Ecraser(i, a, actif) \/ Reviser(i, a, actif)

(* create of the three dimensions that refer to themselves.                *)
RattachementCreation(d, a) ==
  IF a.parent = Nul THEN a.niveau = 1 ELSE ParentCourant(d, a.parent) /\ NiveauSuitParent(a)

(* createNewVersion... of these dimensions.                                *)
RattachementRevision(i, a) ==
  /\ a.parent # Nul => ParentCourant(lignes[i].dim, a.parent) /\ NiveauSuitParent(a)
  /\ Reparente(i, a) => SansCycle(i, a.parent)

CreerCompte(c, a) ==
  /\ RattachementCreation("compte", a)
  /\ a.parent # Nul => ClasseDuParent(a)
  /\ Creer("compte", c, a)

ModifierCompte(i, a, actif) ==
  /\ lignes[i].dim = "compte"
  /\ a.nature = lignes[i].attr.nature
  /\ Reparente(i, a) => ParentCourant("compte", a.parent)
  /\ \/ Activer(i, a, actif)
     \/ Ecraser(i, a, actif)
     \/ /\ RattachementRevision(i, a)
        /\ a.parent # Nul => ClasseDuParent(a)
        /\ Reviser(i, a, actif)

(* A row of the import of the accounts. A parent it names must be current;   *)
(* in upsert mode an account that exists goes through `update`, without      *)
(* est_actif, with a parent only when the row names one, and without the     *)
(* class (the rows of another class do what the rows of its class do).       *)
ImporterCompte(c, a) ==
  /\ a.parent # Nul => ParentCourant("compte", a.parent)
  /\ \/ CreerCompte(c, a)
     \/ \E i \in Courantes("compte", c) :
          LET nomme == IF a.parent = Nul THEN lignes[i].attr.parent ELSE a.parent
          IN  ModifierCompte(i, [a EXCEPT !.parent = nomme], lignes[i].actif)

CreerLigneMetier(c, a) == RattachementCreation("ligne_metier", a) /\ Creer("ligne_metier", c, a)

ModifierLigneMetier(i, a, actif) ==
  /\ lignes[i].dim = "ligne_metier"
  /\ Reparente(i, a) => ParentCourant("ligne_metier", a.parent)
  /\ \/ Activer(i, a, actif)
     \/ Ecraser(i, a, actif)
     \/ RattachementRevision(i, a) /\ Reviser(i, a, actif)

CreerProduit(c, a) == RattachementCreation("produit", a) /\ Creer("produit", c, a)

ModifierProduit(i, a, actif) ==
  /\ lignes[i].dim = "produit"
  /\ Reparente(i, a) => ParentCourant("produit", a.parent)
  /\ \/ Activer(i, a, actif)
     \/ Ecraser(i, a, actif)
     \/ RattachementRevision(i, a) /\ Reviser(i, a, actif)

CreerSegment(c, a) == Creer("segment", c, a)

ModifierSegment(i, a, actif) ==
  /\ lignes[i].dim = "segment"
  /\ Activer(i, a, actif) \/ Ecraser(i, a, actif) \/ Reviser(i, a, actif)

(* desactiver of a hierarchy: refused with current children. A structure    *)
(* does not look at the CRs attached to it.                                *)
DesactiverHierarchie(i) ==
  LET d == lignes[i].dim
  IN  /\ d \in Hierarchies
      /\ Enfants({i}) = {}
      /\ lignes' = Fermees(d, lignes[i].code, TRUE)
      /\ perdues' = IF d = "structure" THEN perdues \cup {i} ELSE perdues
      /\ UNCHANGED <<jour, corriges>>

DesactiverSimple(i) ==
  /\ lignes[i].dim \in {"cr", "segment"}
  /\ lignes' = Fermees(lignes[i].dim, lignes[i].code, TRUE)
  /\ UNCHANGED <<jour, perdues, corriges>>

NouveauJour ==
  /\ jour < JourMax
  /\ jour' = jour + 1
  /\ UNCHANGED <<lignes, perdues, corriges>>

Creation ==
  \E c \in Codes :
    \/ \E a \in AttributsDe["structure"] : CreerStructure(c, a)
    \/ \E a \in AttributsDe["cr"] : CreerCr(c, a)
    \/ \E a \in AttributsDe["compte"] : CreerCompte(c, a)
    \/ \E a \in AttributsDe["ligne_metier"] : CreerLigneMetier(c, a)
    \/ \E a \in AttributsDe["produit"] : CreerProduit(c, a)
    \/ \E a \in AttributsDe["segment"] : CreerSegment(c, a)

Modification ==
  \E i \in Ids :
    /\ Courante(i)
    /\ \E a \in AttributsDe[lignes[i].dim], actif \in BOOLEAN :
         \/ ModifierStructure(i, a, actif)
         \/ ModifierCr(i, a, actif)
         \/ ModifierCompte(i, a, actif)
         \/ ModifierLigneMetier(i, a, actif)
         \/ ModifierProduit(i, a, actif)
         \/ ModifierSegment(i, a, actif)

Fermeture == \E i \in Ids : Courante(i) /\ (DesactiverHierarchie(i) \/ DesactiverSimple(i))

Import == \E c \in Codes : \E a \in AttributsDe["compte"] : ImporterCompte(c, a)

Next == Creation \/ Modification \/ Import \/ Fermeture \/ NouveauJour

Spec == Init /\ [][Next]_vars

-----------------------------------------------------------------------------
(* Properties.                                                             *)

(* Types, dates in order, and foreign keys that lead to the right table.    *)
TypeOK ==
  /\ jour \in 1..JourMax
  /\ lignes \in [Ids -> Ligne \cup {Absente}]
  /\ perdues \in SUBSET Ids
  /\ corriges \in SUBSET (Dimensions \X Codes)
  /\ \A i \in Ids : Existe(i) =>
       LET l == lignes[i]
       IN  /\ l.debut <= jour /\ l.fin <= jour
           /\ l.fin = Nul \/ l.debut <= l.fin
           /\ l.dim = "cr" => l.attr.parent # Nul
           /\ l.attr.parent # Nul => lignes[l.attr.parent].dim = DimensionParent(l.dim)

(* Whatever the creations, revisions and closings of a key, on every day up *)
(* to today at most one of its versions is valid, hence findValidAt, which   *)
(* takes the first row, always resolves a business date to the same id.     *)
VersionUnique ==
  \A d \in Dimensions, c \in Codes : \A j \in 1..jour :
    \A x, y \in ValidesA(d, c, j) : x = y

(* What a row says of a day.                                               *)
Temoignage(i, j) ==
  IF Existe(i) /\ Valide(i, j)
  THEN <<lignes[i].dim, lignes[i].code, lignes[i].attr.nature, lignes[i].attr.niveau, lignes[i].attr.libelle>>
  ELSE <<>>

(* The past does not change: no request changes which versions are valid on *)
(* a day before today, nor their type, level or label, so a business date    *)
(* in the past always resolves to the same row. Links and est_actif may       *)
(* change (relinking, activation in place, closing).                        *)
PasseFige ==
  [][\A i \in Ids : \A j \in 1..(jour - 1) : Temoignage(i, j)' = Temoignage(i, j)]_vars

(* Living links: the parent of a current account, product or line of        *)
(* business and the structure of a current CR are current, unless the row   *)
(* they point to was closed without relinking (an interrupted revision, or  *)
(* the closing of a structure, which does not look at its CRs).            *)
LienVivant ==
  \A i \in Ids : Courante(i) /\ lignes[i].dim \in AutoReferences \cup {"cr"} =>
    \/ lignes[i].attr.parent = Nul
    \/ Courante(lignes[i].attr.parent)
    \/ lignes[i].attr.parent \in perdues

(* The ancestors of a row, level by level.                                 *)
Ancetre(i) ==
  LET f[n \in 0..TailleMax] ==
        IF n = 0 THEN i ELSE IF f[n - 1] = Nul THEN Nul ELSE lignes[f[n - 1]].attr.parent
  IN  f

(* A row that is its own ancestor, through closed versions too.             *)
EnCycle(i) == Existe(i) /\ \E n \in 1..TailleMax : Ancetre(i)[n] = i

(* Cycles explained: no structure is its own ancestor; an account, product or *)
(* line of business is only if, on the way, the row of a key was overwritten *)
(* the day it began, which asks nothing of the parent but to be current, or a *)
(* row was closed by an interrupted relinking. Everywhere else the search of *)
(* validateNoCycle is enough, although it only goes through current rows and *)
(* the relinking then moves the children under the new version.              *)
CyclesExpliques ==
  \A i \in Ids : EnCycle(i) =>
    /\ lignes[i].dim # "structure"
    /\ \E n \in 0..TailleMax :
         LET k == Ancetre(i)[n]
         IN  <<lignes[k].dim, lignes[k].code>> \in corriges \/ k \in perdues
=============================================================================
