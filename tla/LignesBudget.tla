------------------------------ MODULE LignesBudget ------------------------------
(* The lines of fait_budget for one centre, one open version and one         *)
(* scenario, and the three ways to write them: the grid (BudgetSaisieService),*)
(* the import of a file (BudgetImportService) and the unit calls             *)
(* (FaitBudgetService). What a user fills is a cell, an account for a month;  *)
(* what the table holds is a line per grain, and the grain names rows of      *)
(* historised dimensions. Of these the account stands for those a cell names  *)
(* (with the centre and the line of business) and the product for those taken *)
(* by default (with the structure and the segment). When the version may be   *)
(* written is CycleBudget's subject.                                          *)
EXTENDS Integers, FiniteSets, Sequences, FiniteSetsExt, Functions

CONSTANTS
  Comptes,     \* codes of accounts
  Porteurs,    \* those with est_porteur_interets
  Produit,     \* code of the product taken by default
  Devises,     \* currencies
  Pivot,       \* XOF
  Mois,        \* months, as numbers
  Jours,       \* dates of revisions, on the same axis
  MontantsSaisis,  \* amounts a client sends, in ten-thousandths
  Encours,     \* encours x tie / 12 of what a client sends, same unit
  Taux,        \* exchange rates, from ref_taux_change or from the client
  RangsMax,    \* bound: rows of one code
  LignesMax    \* bound: lines in the table

ASSUME Grandeurs ==
  /\ Porteurs \subseteq Comptes /\ Produit \notin Comptes /\ Pivot \in Devises
  /\ Mois \subseteq Nat \ {0} /\ Jours \subseteq Nat \ {0}
  /\ MontantsSaisis \cup Encours \cup Taux \subseteq Nat \ {0}

VARIABLES
  debuts,    \* code -> starts of validity of its rows, the last one current
  archive,   \* the scenario is archived
  lignes,    \* grain -> measures: the table
  cache,     \* defaultsCache of the import: row of the product, 0 when null
  lot,       \* operation of the import under way, between check and write
  libres,    \* history: lines whose amount and conversion came from the client
  saisi,     \* history: cell -> last amount entered by the grid or an import
  exclues    \* history: cells whose lines a revision or a unit call touched

vars == <<debuts, archive, lignes, cache, lot, libres, saisi, exclues>>
donnees == <<debuts, archive>>

Codes == Comptes \cup {Produit}
Rangs == 1..RangsMax
Cellules == [compte : Comptes, mois : Mois]
Grains == [compte : Comptes, rang : Rangs, produit : Rangs, devise : Devises, mois : Mois]
Aucun == [rang |-> 0]

Courant(code) == Len(debuts[code])
(* The row of the code that is valid at a date.                             *)
RangAu(code, date) == Max({n \in 1..Courant(code) : debuts[code][n] <= date})

Cellule(g) == [compte |-> g.compte, mois |-> g.mois]
LignesDe(c) == {g \in DOMAIN lignes : Cellule(g) = c}
Total(c) == SumFunction([g \in LignesDe(c) |-> lignes[g].fcfa])

GrainPar(c, rang, produit) ==
  [compte |-> c.compte, rang |-> rang, produit |-> produit, devise |-> Pivot, mois |-> c.mois]

(* An entry in one mode or the other: an amount (0 empties a grid cell), or  *)
(* an outstanding balance and its rate, only on interest-bearing accounts.   *)
EnMontant(x) == [montant |-> x, fcfa |-> x, taux |-> 1, encours |-> 0]
EnEncours(x) == [montant |-> x, fcfa |-> x, taux |-> 1, encours |-> x]
(* The import rounds to the cent what the services keep to four decimals.   *)
AuCentime(x) == ((x + 50) \div 100) * 100
EnEncoursImporte(x) == [EnMontant(AuCentime(x)) EXCEPT !.encours = x]

Init ==
  /\ debuts = [k \in Codes |-> <<0>>]
  /\ archive = FALSE
  /\ lignes = << >>
  /\ cache = 0 /\ lot = Aucun
  /\ libres = {} /\ exclues = {}
  /\ saisi = [c \in Cellules |-> 0]

Avec(g, m) == [h \in DOMAIN lignes \cup {g} |-> IF h = g THEN m ELSE lignes[h]]
Ecrire(g, m) == lignes' = Avec(g, m)
Ajout(g) == g \in DOMAIN lignes \/ Cardinality(DOMAIN lignes) < LignesMax

(* History: the cell was entered at x, or (aPart) written by other means.    *)
(* A cell that is emptied starts afresh.                                    *)
Suivre(c, x, aPart) ==
  LET vide == \A g \in DOMAIN lignes' : Cellule(g) # c
      exclue == ~ vide /\ (aPart \/ c \in exclues)
  IN  /\ exclues' = IF exclue THEN exclues \cup {c} ELSE exclues \ {c}
      /\ saisi' = [saisi EXCEPT ![c] = IF vide \/ exclue THEN 0 ELSE x]

Inchange(m, n) == m.montant = n.montant /\ m.encours = n.encours

--------------------------------------------------------------------------------
(* The grid: one cell of saveGrilleSaisie. The page names the row of the     *)
(* account it was opened with; the lookup ignores product, structure,        *)
(* segment and currency, and takes any line it finds.                        *)
TrouveesParGrille(c, rang) == {g \in LignesDe(c) : g.rang = rang}
(* Fault: the default product without version_courante.                     *)
FaultGrilleToutProduit(c, rang) == GrainPar(c, rang, 1)
GrainGrille(c, rang) == GrainPar(c, rang, Courant(Produit))

ViderCellule(c, rang) ==
  \/ /\ TrouveesParGrille(c, rang) = {}
     /\ UNCHANGED <<lignes, libres, saisi, exclues>>
  \/ \E g \in TrouveesParGrille(c, rang) :
       /\ lignes' = Restrict(lignes, DOMAIN lignes \ {g})
       /\ libres' = libres \ {g}
       /\ Suivre(c, 0, FALSE)

(* Fault: the line found keeps its rate.                                     *)
FaultGrilleGardeTaux(c, rang, m) ==
  LET trouvees == TrouveesParGrille(c, rang)
      cibles == IF trouvees = {} THEN {GrainGrille(c, rang)} ELSE trouvees
  IN  \E g \in cibles :
        IF g \in DOMAIN lignes /\ Inchange(lignes[g], m)
        THEN UNCHANGED <<lignes, libres, saisi, exclues>>
        ELSE /\ Ajout(g)
             /\ Ecrire(g, [m EXCEPT !.taux = IF g \in DOMAIN lignes THEN lignes[g].taux ELSE 1])
             /\ libres' = libres \ {g}
             /\ Suivre(c, m.montant, rang # Courant(c.compte))

RemplirCellule(c, rang, m) ==
  LET trouvees == TrouveesParGrille(c, rang)
      cibles == IF trouvees = {} THEN {GrainGrille(c, rang)} ELSE trouvees
  IN  \E g \in cibles :
        IF g \in DOMAIN lignes /\ Inchange(lignes[g], m)
        THEN UNCHANGED <<lignes, libres, saisi, exclues>>
        ELSE /\ Ajout(g)
             /\ Ecrire(g, m)
             /\ libres' = libres \ {g}
             /\ Suivre(c, m.montant, rang # Courant(c.compte))

SaisirGrille(c) ==
  /\ ~ archive
  /\ \E rang \in 1..Courant(c.compte) :
       \/ ViderCellule(c, rang)
       \/ \E x \in MontantsSaisis : RemplirCellule(c, rang, EnMontant(x))
       \/ \E x \in Encours : c.compte \in Porteurs /\ RemplirCellule(c, rang, EnEncours(x))
  /\ UNCHANGED <<donnees, cache, lot>>

--------------------------------------------------------------------------------
(* The import: validerLigne resolves the rows, and the defaults only when    *)
(* the service has not kept them from an earlier file; executerUpserts then  *)
(* looks the full grain up in a transaction of its own. Neither the archived *)
(* scenario nor est_porteur_interets is tested.                              *)
DefautImport == IF cache = 0 THEN Courant(Produit) ELSE cache

PreparerImport(c) ==
  /\ lot = Aucun
  /\ \E m \in {EnMontant(x) : x \in MontantsSaisis} \cup {EnEncoursImporte(x) : x \in Encours} :
       lot' = [cellule |-> c, rang |-> Courant(c.compte), produit |-> DefautImport, mesure |-> m]
  /\ cache' = DefautImport
  /\ UNCHANGED <<donnees, lignes, libres, saisi, exclues>>

(* Too many errors in the rest of the file: nothing is written.             *)
AbandonnerImport ==
  /\ lot # Aucun
  /\ lot' = Aucun
  /\ UNCHANGED <<donnees, lignes, cache, libres, saisi, exclues>>

(* An update leaves taux_change_applique as it was.                          *)
UpsertImport(g, m) ==
  IF g \in DOMAIN lignes
  THEN IF Inchange(lignes[g], m) THEN lignes ELSE [lignes EXCEPT ![g] = [m EXCEPT !.taux = lignes[g].taux]]
  ELSE Avec(g, m)

EcrireImport ==
  /\ lot # Aucun
  /\ LET g == GrainPar(lot.cellule, lot.rang, lot.produit)
         perime == lot.rang # Courant(g.compte) \/ lot.produit # Courant(Produit)
     IN  /\ Ajout(g)
         /\ lignes' = UpsertImport(g, lot.mesure)
         /\ libres' = {l \in libres : l # g \/ lignes'[g].taux # 1 \/ lignes' = lignes}
         /\ Suivre(lot.cellule, lot.mesure.montant, perime)
  /\ lot' = Aucun
  /\ UNCHANGED <<donnees, cache>>

--------------------------------------------------------------------------------
(* The unit calls of FaitBudgetService.                                      *)

(* create: the client names every row and sends every measure.              *)
Creer ==
  \E g \in Grains, x \in MontantsSaisis, f \in MontantsSaisis, t \in Taux \cup {1}, e \in Encours \cup {0} :
    /\ g.rang <= Courant(g.compte) /\ g.produit <= Courant(Produit)
    /\ g \notin DOMAIN lignes /\ Ajout(g)
    /\ e # 0 => g.compte \in Porteurs
    /\ Ecrire(g, [montant |-> IF e = 0 THEN x ELSE e, fcfa |-> f, taux |-> t, encours |-> e])
    /\ libres' = libres \cup {g}
    /\ Suivre(Cellule(g), 0, TRUE)
    /\ UNCHANGED <<donnees, cache, lot>>

(* createFromBusinessKeys: the rows valid at the month (option B), the rate  *)
(* in the table or the client's (1 for the pivot), the conversion computed;   *)
(* in ENCOURS_TIE the amount is then replaced, not the conversion.           *)
TauxRetenus(d) == IF d = Pivot THEN {1} ELSE Taux

CreerParCodes(c) ==
  \E d \in Devises, x \in MontantsSaisis, e \in Encours \cup {0} :
    LET g == [GrainPar(c, RangAu(c.compte, c.mois), RangAu(Produit, c.mois)) EXCEPT !.devise = d]
    IN  /\ ~ archive
        /\ g \notin DOMAIN lignes /\ Ajout(g)
        /\ e # 0 => c.compte \in Porteurs
        /\ \E t \in TauxRetenus(d) :
             Ecrire(g, [montant |-> IF e = 0 THEN x ELSE e, fcfa |-> x * t, taux |-> t, encours |-> e])
        /\ libres' = IF e = 0 THEN libres \ {g} ELSE libres \cup {g}
        /\ Suivre(c, 0, TRUE)
        /\ UNCHANGED <<donnees, cache, lot>>

(* update: the mode is resolved again when one of its fields is sent; an     *)
(* amount alone is refused on a line in ENCOURS_TIE. The conversion is        *)
(* whatever the client sends, or stays.                                      *)
(* Fault: an amount alone is accepted on any line.                          *)
FaultMontantSeul(g, x, e) ==
  \/ e \in {0, lignes[g].encours}
  \/ x = e /\ g.compte \in Porteurs

ModeResolu(g, x, e) ==
  \/ e = 0
  \/ e # 0 /\ x = e /\ g.compte \in Porteurs
  \/ e = lignes[g].encours /\ x = lignes[g].montant

Modifier ==
  \E g \in DOMAIN lignes :
    \E x \in MontantsSaisis \cup {lignes[g].montant} \cup Encours, f \in MontantsSaisis \cup {lignes[g].fcfa},
       t \in Taux \cup {lignes[g].taux}, e \in Encours \cup {0} :
      /\ ModeResolu(g, x, e)
      /\ Ecrire(g, [montant |-> x, fcfa |-> f, taux |-> t, encours |-> e])
      /\ libres' = libres \cup {g}
      /\ Suivre(Cellule(g), 0, TRUE)
      /\ UNCHANGED <<donnees, cache, lot>>

Supprimer ==
  \E g \in DOMAIN lignes :
    /\ lignes' = Restrict(lignes, DOMAIN lignes \ {g})
    /\ libres' = libres \ {g}
    /\ Suivre(Cellule(g), 0, TRUE)
    /\ UNCHANGED <<donnees, cache, lot>>

--------------------------------------------------------------------------------
(* What happens around the lines: revisions, the scenario, the process. *)

Reviser(code) ==
  /\ Courant(code) < RangsMax
  /\ \E j \in Jours :
       /\ j > debuts[code][Courant(code)]
       /\ debuts' = [debuts EXCEPT ![code] = Append(@, j)]
  /\ LET touchees == {Cellule(g) : g \in {l \in DOMAIN lignes : code \in {l.compte, Produit}}}
     IN  /\ exclues' = exclues \cup touchees
         /\ saisi' = [c \in Cellules |-> IF c \in touchees THEN 0 ELSE saisi[c]]
  /\ UNCHANGED <<archive, lignes, cache, lot, libres>>

ArchiverScenario ==
  /\ ~ archive
  /\ archive' = TRUE
  /\ UNCHANGED <<debuts, lignes, cache, lot, libres, saisi, exclues>>

(* The process starts again: the import under way is lost, and the cache.    *)
Redemarrer ==
  /\ cache' = 0 /\ lot' = Aucun
  /\ UNCHANGED <<donnees, lignes, libres, saisi, exclues>>

AppelsUnitaires == Creer \/ (\E c \in Cellules : CreerParCodes(c)) \/ Modifier \/ Supprimer
Importer == (\E c \in Cellules : PreparerImport(c)) \/ EcrireImport \/ AbandonnerImport
Contexte == (\E k \in Codes : Reviser(k)) \/ ArchiverScenario \/ Redemarrer

Next == (\E c \in Cellules : SaisirGrille(c)) \/ Importer \/ AppelsUnitaires \/ Contexte

Spec == Init /\ [][Next]_vars
--------------------------------------------------------------------------------
Mesures == [montant : Nat, fcfa : Nat, taux : Nat \ {0}, encours : Encours \cup {0}]

TypeOK ==
  /\ debuts \in [Codes -> Seq(Nat)] /\ \A k \in Codes : Courant(k) \in Rangs
  /\ archive \in BOOLEAN
  /\ DOMAIN lignes \subseteq Grains /\ \A g \in DOMAIN lignes : lignes[g] \in Mesures
  /\ cache \in Rangs \cup {0}
  /\ lot = Aucun \/ lot \in [cellule : Cellules, rang : Rangs, produit : Rangs, mesure : Mesures]
  /\ libres \subseteq DOMAIN lignes /\ exclues \subseteq Cellules
  /\ saisi \in [Cellules -> Nat]

(* What the grid or an import entered last in a cell is what the table adds  *)
(* up to for that cell, whichever of the two wrote it first, as long as no    *)
(* unit call and no revision touched its lines: the two paths look lines up   *)
(* by different keys, and one cell in two lines is counted twice.            *)
SaisieGardee == \A c \in Cellules \ exclues : Total(c) = saisi[c]

(* The amount in francs is the amount in the currency at the rate of the     *)
(* line, whichever path wrote it last over a line in another currency, unless *)
(* the client itself sent the amounts.                                       *)
ConversionSuivie ==
  \A g \in DOMAIN lignes \ libres : lignes[g].fcfa = lignes[g].montant * lignes[g].taux

(* A line in ENCOURS_TIE holds, within half a cent, the monthly interest of   *)
(* its balance, whatever the order of grids, files and unit calls.           *)
EncoursCoherent ==
  \A g \in DOMAIN lignes :
    lignes[g].encours # 0 =>
      lignes[g].montant - lignes[g].encours \in -50..50

(* Only interest-bearing accounts hold lines in ENCOURS_TIE. Not so: the      *)
(* import never reads est_porteur_interets.                                  *)
PorteurSeulement == \A g \in DOMAIN lignes : lignes[g].encours # 0 => g.compte \in Porteurs
=============================================================================
