------------------------------ MODULE Perimetres ------------------------------
(* What a perimeter gives access to (PerimetreService): its target resolved    *)
(* against the current rows of the dimensions, and the rule of priority        *)
(* between the rows of user_perimetres and the perimeters of the roles.        *)
EXTENDS Integers, FiniteSets

CONSTANTS Crs, Structures,  \* rows of dim_centre_responsabilite and dim_structure
          Rattachement,     \* [Crs -> Structures], fk_structure
          Parent            \* [Structures -> Structures or Racine], fk_structure_parent

Racine == "racine"
EtatsRow == {"actif", "desactive", "clos"}  \* version_courante and est_actif

ASSUME BornesPerimetres ==
  /\ IsFiniteSet(Structures)
  /\ Rattachement \in [Crs -> Structures]
  /\ Parent \in [Structures -> Structures \cup {Racine}]

Global == [type |-> "GLOBAL", ids |-> {}]
Cibles == {Global} \cup [type : {"STRUCTURE"}, ids : {{s} : s \in Structures}]
            \cup [type : {"CR"}, ids : {{c} : c \in Crs}]
            \cup [type : {"CR_SET"}, ids : {S \in SUBSET Crs : Cardinality(S) >= 2}]

(* Breadth first, layer by layer: the root must be active, its descendants     *)
(* current only, and a closed structure hides what is below it.                *)
Descendants(s, etats) ==
  LET couche[n \in 0..Cardinality(Structures)] ==
        IF n = 0 THEN {x \in {s} : etats[x] = "actif"}
        ELSE couche[n - 1] \cup
               {x \in Structures : Parent[x] \in couche[n - 1] /\ etats[x] # "clos"}
  IN  couche[Cardinality(Structures)]

CrsSousStructure(s, etats) ==
  {c \in Crs : Rattachement[c] \in Descendants(s, etats) /\ etats[c] = "actif"}

(* A CR named by an affectation is given although it is deactivated.           *)
Resoudre(cible, etats) ==
  CASE cible.type = "GLOBAL"           -> {c \in Crs : etats[c] = "actif"}
    [] cible.type = "STRUCTURE"        -> UNION {CrsSousStructure(s, etats) : s \in cible.ids}
    [] cible.type \in {"CR", "CR_SET"} -> {c \in cible.ids : etats[c] # "clos"}

(* Without a role, nothing; with rows of user_perimetres, these rows alone,    *)
(* even for a global role; otherwise the perimeters of the roles. GLOBAL is    *)
(* no filter at all.                                                           *)
CrAutorises(lignes, roles, etats) ==
  LET cibles == IF lignes # {} THEN lignes ELSE roles
  IN  IF roles = {} THEN {}
      ELSE IF Global \in cibles THEN Crs
      ELSE UNION {Resoudre(c, etats) : c \in cibles}

(* UserPerimetreService.resoudreCrAccessibles, which filters the listing of    *)
(* the CRs: a structure gives the CRs directly under it, a CR is given         *)
(* whatever its row has become.                                                *)
Listables(cible, etats) ==
  CASE cible.type = "GLOBAL"           -> {c \in Crs : etats[c] = "actif"}
    [] cible.type = "STRUCTURE"        -> {c \in Crs : Rattachement[c] \in cible.ids /\ etats[c] # "clos"}
    [] cible.type \in {"CR", "CR_SET"} -> cible.ids

CrListes(lignes, etats) ==
  UNION {Listables(c, etats) : c \in IF Global \in lignes THEN {Global} ELSE lignes}
=============================================================================
