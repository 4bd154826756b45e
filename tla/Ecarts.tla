--------------------------------- MODULE Ecarts ---------------------------------
(* The budget-versus-actuals dashboard (getBudgetVsRealise): two aggregates at *)
(* a grain coarser than either table, joined by a query driven by the budget   *)
(* and by an anti-join for the actuals without one, then the indicators and   *)
(* the income statement computed row by row. Pure operators of a budget b and  *)
(* of the table of the actuals.                                            *)
EXTENDS Realise, FiniteSetsExt

CONSTANTS LignesBudget,                  \* [cle, axe]: several lines of one grain
          Budgets,                       \* montant_fcfa of these lines, to be compared
          SeuilAttention, SeuilCritique  \* percentages

ASSUME BornesEcarts ==
  /\ Budgets \subseteq [LignesBudget -> Int]
  /\ IsFiniteSet(LignesBudget) /\ Montants \subseteq Int
  /\ SeuilAttention \in Nat /\ SeuilCritique \in Nat

Absolu(n) == IF n < 0 THEN -n ELSE n

(* The grain of the GROUP BY: fk_devise is in the key of an actual, not here. *)
GrainDe(c) == [poste |-> c.poste, mois |-> c.mois]

LignesDeCle(g) == {l \in LignesBudget : l.cle = g}
Postes == {c.poste : c \in Cles \cup {l.cle : l \in LignesBudget}}
Budgetees == {l.cle : l \in LignesBudget}
Validees == {c \in Cles : Etat(c).valide}
Realisees == {GrainDe(c) : c \in Validees}
Realise(c) == Etat(c).montant

-----------------------------------------------------------------------------
(* The two aggregates and the two queries.                                 *)

AgregatBudget(b, g) == SumFunction([l \in LignesDeCle(g) |-> b[l]])

DuGrain(g) == {c \in Validees : GrainDe(c) = g}
SommeDuGrain(g) == SumFunction([c \in DuGrain(g) |-> Realise(c)])

(* Fault: the actuals are joined to the lines, not to their aggregate.      *)
AgregatParLigne(g) == Max({1, Cardinality(LignesDeCle(g))}) * SommeDuGrain(g)

(* SUM(montant): each amount as it was entered, whatever its currency.      *)
AgregatRealise(g) == SommeDuGrain(g)

AvecBudget(b) ==
  {[cle |-> c, budget |-> AgregatBudget(b, c), sansBudget |-> FALSE,
    realise |-> IF c \in Realisees THEN AgregatRealise(c) ELSE 0,
    manquant |-> c \notin Realisees] : c \in Budgetees}

SansBudget ==
  {[cle |-> c, budget |-> 0, sansBudget |-> TRUE, realise |-> AgregatRealise(c),
    manquant |-> FALSE] : c \in Realisees \ Budgetees}

Rangees(b) == AvecBudget(b) \cup SansBudget

-----------------------------------------------------------------------------
(* A row: its gap, whether it is favourable, its level of alert.           *)

Ecart(x) == x.realise - x.budget

Natures == {"CHARGE", "PRODUIT", "BILAN"}

Sens(x, nature) ==
  IF Ecart(x) = 0 \/ nature = "BILAN" THEN "NEUTRE"
  ELSE IF (nature = "PRODUIT") = (Ecart(x) > 0) THEN "FAVORABLE" ELSE "DEFAVORABLE"

Depasse(x, seuil) == x.budget # 0 /\ 100 * Absolu(Ecart(x)) >= seuil * Absolu(x.budget)

(* Without a budget to divide by there is no percentage: NORMAL.           *)
NiveauAlerte(x) ==
  CASE x.sansBudget -> "SANS_BUDGET"
    [] ~ x.sansBudget /\ x.manquant -> "MANQUANT"
    [] OTHER -> IF Depasse(x, SeuilCritique) THEN "CRITIQUE"
                ELSE IF Depasse(x, SeuilAttention) THEN "ATTENTION" ELSE "NORMAL"

-----------------------------------------------------------------------------
(* The indicators and the income statement.                                *)

(* Fault: a missing actual is counted as zero.                              *)
ChiffreesToutes(b) == Rangees(b)

(* `nature` gives the class of the account of each poste.                   *)
Chiffrees(b) == {x \in Rangees(b) : ~ x.manquant}
EcartTotal(b, sens, nature) ==
  SumFunction([x \in {y \in Chiffrees(b) : Sens(y, nature[y.cle.poste]) = sens} |-> Absolu(Ecart(x))])
DeNature(b, n, nature) == {x \in Rangees(b) : nature[x.cle.poste] = n}

(* The budget of the rows of a class whose actuals are missing.             *)
BudgetManquant(b, n, nature) ==
  SumFunction([x \in {y \in DeNature(b, n, nature) : y.manquant} |-> x.budget])

Totaux(b, nature) ==
  [produits |-> SumFunction([x \in DeNature(b, "PRODUIT", nature) |-> Ecart(x)]),
   charges  |-> SumFunction([x \in DeNature(b, "CHARGE", nature) |-> Ecart(x)])]
Solde(b, nature) == Totaux(b, nature).produits - Totaux(b, nature).charges

-----------------------------------------------------------------------------
(* Properties, for every budget. A COMMIT leads to the same table as the      *)
(* state where the other requests give up: those states are enough.         *)

AuRepos == \A r \in Requetes : requetes[r] = Libre

(* The two queries together have one row a grain, and count once every       *)
(* validated amount, as entered and in whatever currency, and every line of  *)
(* the budget, although both tables are finer than the rows.                *)
RienCompteDeuxFois ==
  AuRepos => \A b \in Budgets :
    /\ \A x, y \in Rangees(b) : x.cle = y.cle => x = y
    /\ SumFunction([x \in Rangees(b) |-> x.realise]) = SumFunction([c \in Validees |-> Realise(c)])
    /\ SumFunction([x \in Rangees(b) |-> x.budget]) = SumFunction(b)

(* The indicators and the income statement tell the same story: the gap of   *)
(* the balance is the favourable total less the unfavourable one, less the   *)
(* budget of the rows that have no actuals, which only the statement counts  *)
(* as zero.                                                                *)
SoldeExplique ==
  AuRepos => \A b \in Budgets, nature \in [Postes -> Natures] :
    Solde(b, nature) =
        EcartTotal(b, "FAVORABLE", nature) - EcartTotal(b, "DEFAVORABLE", nature)
      - BudgetManquant(b, "PRODUIT", nature) + BudgetManquant(b, "CHARGE", nature)

(* docs/lot-5/5.2-tableau-bord-budget-vs-realise.md: no budget and a positive  *)
(* actual is CRITIQUE. The code takes a missing percentage for two zeros.    *)
DepassementCritique ==
  AuRepos => \A b \in Budgets : \A x \in AvecBudget(b) :
    x.budget = 0 /\ x.realise > 0 => NiveauAlerte(x) = "CRITIQUE"
=============================================================================
