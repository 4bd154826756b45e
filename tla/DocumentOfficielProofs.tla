------------------------ MODULE DocumentOfficielProofs ------------------------
(***************************************************************************)
(* Proofs about DocumentOfficiel, for every Comite, in both modes of visa, *)
(* then about DocumentOfficielConcurrent, for any number of requests.      *)
(*                                                                         *)
(* VisasAvantSignature is not inductive: that the visas of the document    *)
(* cover the mandatory members rests on the launch of the campaign (one    *)
(* mandatory member at least, and a Comite that no longer changes) and on  *)
(* the snapshot taken by the submission.  InvariantCircuit says so, and    *)
(* CircuitOuvert what SansImpasse needs in addition.                       *)
(***************************************************************************)
EXTENDS DocumentOfficielConcurrent, FiniteSetTheorems, TLAPS

(* The snapshot of the Comite, from the launch to the signature. *)
InvariantCircuit ==
  /\ statut # "INEXISTANT" => campagne = "EN_COURS"
  /\ campagne = "EN_COURS" => \E u \in Membres : comite[u].obligatoire
  /\ Viseurs(visas) \subseteq Membres
  /\ statut = "INEXISTANT" => Viseurs(visas) = {}
  /\ statut \in {"SOUMIS_VISA", "VISE", "SIGNE"} =>
       \A u \in Membres : /\ visas[u].statut # "AUCUN"
                          /\ visas[u].obligatoire = comite[u].obligatoire
  /\ statut \in {"VISE", "SIGNE"} => Complet(visas)

(* The actions that leave the visas, the Comite and the campaign alone. *)
LEMMA TexteSeul ==
  ASSUME NEW u \in Users, NEW x \in Textes,
         EditerDocument(u, x) \/ EcrireFichier(u, x) \/ RenseignerDetail(u, x)
  PROVE  /\ UNCHANGED <<campagne, comite, statut, visas, signature>>
         /\ statut = "BROUILLON"
  BY DEF EditerDocument, EcrireFichier, RenseignerDetail

-----------------------------------------------------------------------------
(* Every state of the specification is well-typed. *)
THEOREM TypeCorrecte == Spec => []TypeOK
<1>. USE DEF TypeOK, StatutsDocument, StatutsVisa, Membre, Visa, SansVisa, texteVars
<1>1. Init => TypeOK
  BY TextesAssumption DEF Init
<1>2. ASSUME TypeOK, [Next]_docVars
      PROVE  TypeOK'
  <2>. USE <1>2
  <2>1. CASE Preparation
    BY <2>1 DEF Preparation, AjouterMembre, LancerCampagne
  <2>2. CASE Redaction
    BY <2>2 DEF Redaction, CreerDocument, EditerDocument, EcrireFichier, RenseignerDetail
  <2>3. ASSUME NEW u \in Users, SoumettreVisa(u)
        PROVE  TypeOK'
    BY <2>3 DEF SoumettreVisa
  <2>4. ASSUME NEW u \in Users, Viser(u)
        PROVE  TypeOK'
    BY <2>4 DEF Viser
  <2>5. ASSUME NEW u \in Users, RejeterVisa(u)
        PROVE  TypeOK'
    BY <2>5 DEF RejeterVisa, VisasApresRejet
  <2>6. ASSUME NEW u \in Users, Signer(u)
        PROVE  TypeOK'
    <3>1. HashVisas(visas) \in SUBSET Users
      BY DEF HashVisas
    <3>. QED  BY <2>6, <3>1 DEF Signer, Signature
  <2>7. CASE UNCHANGED docVars
    BY <2>7 DEF docVars
  <2>. QED  BY <2>1, <2>2, <2>3, <2>4, <2>5, <2>6, <2>7 DEF Next, Circuit
<1>. QED  BY <1>1, <1>2, PTL DEF Spec

LEMMA CircuitTenu == Spec => []InvariantCircuit
<1>1. Init => InvariantCircuit
  BY DEF Init, InvariantCircuit, Viseurs, SansVisa, Complet
<1>2. ASSUME TypeOK, InvariantCircuit, [Next]_docVars
      PROVE  InvariantCircuit'
  <2>. USE <1>2 DEF InvariantCircuit, TypeOK, Viseurs, Membres, Complet
  <2>1. CASE Preparation
    <3>1. ASSUME NEW u \in Users, NEW b \in BOOLEAN, AjouterMembre(u, b)
          PROVE  InvariantCircuit'
      BY <3>1 DEF AjouterMembre, Membre
    <3>. QED  BY <2>1, <3>1 DEF Preparation, LancerCampagne
  <2>2. CASE Redaction
    <3>1. ASSUME NEW x \in Textes, CreerDocument(x)
          PROVE  InvariantCircuit'
      BY <3>1 DEF CreerDocument
    <3>. QED  BY <2>2, <3>1, TexteSeul DEF Redaction
  <2>3. ASSUME NEW u \in Users, SoumettreVisa(u)
        PROVE  InvariantCircuit'
    BY <2>3 DEF SoumettreVisa
  <2>4. ASSUME NEW u \in Users, Viser(u)
        PROVE  InvariantCircuit'
    <3>1. \A w \in Users : /\ visas'[w].obligatoire = visas[w].obligatoire
                           /\ visas'[w].statut = "AUCUN" <=> visas[w].statut = "AUCUN"
      BY <2>4 DEF Viser, Visa
    <3>2. UNCHANGED <<campagne, comite>> /\ statut' \in {"VISE", "SOUMIS_VISA"}
          /\ (statut' = "VISE" => Complet(visas'))
      BY <2>4 DEF Viser
    <3>. QED  BY <2>4, <3>1, <3>2 DEF Viser
  <2>5. ASSUME NEW u \in Users, RejeterVisa(u)
        PROVE  InvariantCircuit'
    <3>1. \A w \in Users : visas'[w].statut # "AUCUN" => visas[w].statut # "AUCUN"
      BY <2>5 DEF RejeterVisa, VisasApresRejet, SansVisa, Visa
    <3>. QED  BY <2>5, <3>1 DEF RejeterVisa
  <2>6. ASSUME NEW u \in Users, Signer(u)
        PROVE  InvariantCircuit'
    BY <2>6 DEF Signer
  <2>7. CASE UNCHANGED docVars
    BY <2>7 DEF docVars
  <2>. QED  BY <2>1, <2>2, <2>3, <2>4, <2>5, <2>6, <2>7 DEF Next, Circuit
<1>. QED  BY <1>1, <1>2, TypeCorrecte, PTL DEF Spec

(* A document VISE or SIGNE has the visa of every mandatory member. *)
THEOREM VisasToujoursAvantSignature == Spec => []VisasAvantSignature
<1>1. InvariantCircuit /\ TypeOK => VisasAvantSignature
  BY DEF InvariantCircuit, TypeOK, VisasAvantSignature, Complet, Viseurs, Membres
<1>. QED  BY <1>1, CircuitTenu, TypeCorrecte, PTL

-----------------------------------------------------------------------------
(* What was hashed by the signature is what the document still holds. *)
THEOREM SignatureToujoursIntegre == Spec => []SignatureIntegre
<1>1. Init => SignatureIntegre
  BY DEF Init, SignatureIntegre
<1>2. ASSUME SignatureIntegre, [Next]_docVars
      PROVE  SignatureIntegre'
  <2>. USE <1>2 DEF SignatureIntegre
  <2>1. CASE Preparation
    BY <2>1 DEF Preparation, AjouterMembre, LancerCampagne, texteVars
  <2>2. CASE Redaction
    BY <2>2, TexteSeul DEF Redaction, CreerDocument
  <2>3. ASSUME NEW u \in Users, SoumettreVisa(u) \/ Viser(u) \/ RejeterVisa(u)
        PROVE  SignatureIntegre'
    BY <2>3 DEF SoumettreVisa, Viser, RejeterVisa
  <2>4. ASSUME NEW u \in Users, Signer(u)
        PROVE  SignatureIntegre'
    BY <2>4 DEF Signer, texteVars, HashVisas, Aucune
  <2>5. CASE UNCHANGED docVars
    BY <2>5 DEF docVars, texteVars, HashVisas
  <2>. QED  BY <2>1, <2>2, <2>3, <2>4, <2>5 DEF Next, Circuit
<1>. QED  BY <1>1, <1>2, PTL DEF Spec

(* In sequential mode the visas are apposed in the order of the Comite. *)
THEOREM OrdreToujoursRespecte == Spec => []OrdreRespecte
<1>1. Init => OrdreRespecte
  BY DEF Init, OrdreRespecte, Viseurs, SansVisa
<1>2. ASSUME TypeOK, InvariantCircuit, OrdreRespecte, [Next]_docVars
      PROVE  OrdreRespecte'
  <2>. USE <1>2 DEF TypeOK, OrdreRespecte, Viseurs
  <2>1. CASE Preparation
    BY <2>1 DEF Preparation, AjouterMembre, LancerCampagne
  <2>2. CASE Redaction
    BY <2>2, TexteSeul DEF Redaction, CreerDocument
  <2>3. ASSUME NEW u \in Users, SoumettreVisa(u)
        PROVE  OrdreRespecte'
    BY <2>3 DEF SoumettreVisa, InvariantCircuit
  <2>4. ASSUME NEW u \in Users, Viser(u)
        PROVE  OrdreRespecte'
    BY <2>4 DEF Viser, SonTour, Visa
  <2>5. ASSUME NEW u \in Users, RejeterVisa(u)
        PROVE  OrdreRespecte'
    BY <2>5 DEF RejeterVisa, VisasApresRejet, SansVisa, Visa
  <2>6. ASSUME NEW u \in Users, Signer(u)
        PROVE  OrdreRespecte'
    BY <2>6 DEF Signer
  <2>7. CASE UNCHANGED docVars
    BY <2>7 DEF docVars
  <2>. QED  BY <2>1, <2>2, <2>3, <2>4, <2>5, <2>6, <2>7 DEF Next, Circuit
<1>. QED  BY <1>1, <1>2, TypeCorrecte, CircuitTenu, PTL DEF Spec

(* What the viseurs read is what is signed, and the signature is final. *)
THEOREM ContenuToujoursFige == Spec => ContenuFige
<1>1. ASSUME [Next]_docVars
      PROVE  /\ statut \in {"SOUMIS_VISA", "VISE", "SIGNE"} => UNCHANGED texteVars
             /\ statut = "SIGNE" => UNCHANGED <<statut, visas, signature>>
  <2>. USE <1>1
  <2>1. CASE Preparation
    BY <2>1 DEF Preparation, AjouterMembre, LancerCampagne
  <2>2. CASE Redaction
    BY <2>2, TexteSeul DEF Redaction, CreerDocument
  <2>3. CASE Circuit
    BY <2>3 DEF Circuit, SoumettreVisa, Viser, RejeterVisa, Signer
  <2>4. CASE UNCHANGED docVars
    BY <2>4 DEF docVars, texteVars
  <2>. QED  BY <2>1, <2>2, <2>3, <2>4 DEF Next
<1>. QED  BY <1>1, PTL DEF Spec, ContenuFige

-----------------------------------------------------------------------------
(* A set of orders has a least one.  Otherwise its lower bounds would form  *)
(* a finite set closed by successor, on which the successor, injective,     *)
(* would reach 0.                                                           *)
LEMMA PlusPetit ==
  ASSUME NEW T \in SUBSET Nat, T # {}
  PROVE  \E n \in T : \A m \in T : n <= m
<1>. DEFINE Minorants == {k \in Nat : \A t \in T : k <= t}
<1>1. SUFFICES ASSUME T \cap Minorants = {}
               PROVE  FALSE
  OBVIOUS
<1>2. PICK n \in Nat : n \in T
  OBVIOUS
<1>3. IsFiniteSet(Minorants)
  BY <1>2, FS_BoundedSetOfNaturals
<1>. DEFINE suite == [k \in Minorants |-> k + 1]
<1>4. suite \in Injection(Minorants, Minorants)
  <2>1. \A k \in Minorants : k + 1 \in Minorants
    BY <1>1
  <2>. QED  BY <2>1 DEF Injection, IsInjective
<1>5. suite \in Surjection(Minorants, Minorants)
  BY <1>3, <1>4, FS_Injection, FS_CardinalityType
<1>6. 0 \in Minorants
  OBVIOUS
<1>7. PICK k \in Minorants : suite[k] = 0
  <2>. HIDE DEF suite, Minorants
  <2>. QED  BY <1>5, <1>6 DEF Surjection
<1>. QED  BY <1>7

(* A submitted document has no rejected visa, and a mandatory one to come.  *)
EnAttente == {u \in Users : visas[u].statut = "EN_ATTENTE"}
CircuitOuvert ==
  statut = "SOUMIS_VISA" => ~ Complet(visas) /\ \A u \in Users : visas[u].statut # "REJETE"

LEMMA CircuitToujoursOuvert == Spec => []CircuitOuvert
<1>1. Init => CircuitOuvert
  BY DEF Init, CircuitOuvert
<1>2. ASSUME TypeOK, InvariantCircuit, CircuitOuvert, [Next]_docVars
      PROVE  CircuitOuvert'
  <2>. USE <1>2 DEF CircuitOuvert, TypeOK, Complet, Viseurs
  <2>1. CASE Preparation
    BY <2>1 DEF Preparation, AjouterMembre, LancerCampagne
  <2>2. CASE Redaction
    BY <2>2, TexteSeul DEF Redaction, CreerDocument
  <2>3. ASSUME NEW u \in Users, SoumettreVisa(u)
        PROVE  CircuitOuvert'
    <3>1. PICK w \in Membres : comite[w].obligatoire
      BY <2>3 DEF SoumettreVisa, InvariantCircuit
    <3>2. visas'[w].statut = "EN_ATTENTE" /\ visas'[w].obligatoire
      BY <2>3, <3>1 DEF SoumettreVisa, Membres
    <3>3. \A v \in Users : visas'[v].statut \in {"EN_ATTENTE", "AUCUN"}
      BY <2>3 DEF SoumettreVisa, InvariantCircuit
    <3>. QED  BY <3>2, <3>3 DEF Membres
  <2>4. ASSUME NEW u \in Users, Viser(u)
        PROVE  CircuitOuvert'
    BY <2>4 DEF Viser, Visa
  <2>5. ASSUME NEW u \in Users, RejeterVisa(u) \/ Signer(u)
        PROVE  CircuitOuvert'
    BY <2>5 DEF RejeterVisa, Signer
  <2>6. CASE UNCHANGED docVars
    BY <2>6 DEF docVars
  <2>. QED  BY <2>1, <2>2, <2>3, <2>4, <2>5, <2>6 DEF Next, Circuit
<1>. QED  BY <1>1, <1>2, TypeCorrecte, CircuitTenu, PTL DEF Spec

(* A submitted document is never stuck: among the members whose visa is    *)
(* awaited, the one of the lowest order can decide, in both modes.         *)
THEOREM JamaisDImpasse == Spec => []SansImpasse
<1>1. ASSUME TypeOK, InvariantCircuit, CircuitOuvert, statut = "SOUMIS_VISA"
      PROVE  \E u \in Users : visas[u].statut = "EN_ATTENTE" /\ SonTour(u, visas)
  <2>1. \A u \in Viseurs(visas) : visas[u].statut \in {"EN_ATTENTE", "VISE"}
    BY <1>1 DEF Viseurs, CircuitOuvert, TypeOK, Visa, StatutsVisa
  <2>2. EnAttente # {}
    BY <1>1, <2>1 DEF EnAttente, CircuitOuvert, Complet, Viseurs
  <2>. DEFINE Ordres == {visas[u].ordre : u \in EnAttente}
  <2>3. Ordres \in SUBSET Nat /\ Ordres # {}
    BY <1>1, <2>2 DEF EnAttente, TypeOK, Visa
  <2>4. PICK n \in Ordres : \A m \in Ordres : n <= m
    <3>. HIDE DEF Ordres
    <3>. QED  BY <2>3, PlusPetit
  <2>5. PICK u \in EnAttente : visas[u].ordre = n
    BY <2>4
  <2>6. \A w \in EnAttente : ~ (visas[w].ordre < visas[u].ordre)
    <3>1. \A w \in EnAttente : visas[w].ordre \in Nat /\ n <= visas[w].ordre
      BY <2>3, <2>4
    <3>2. n \in Nat
      BY <2>3
    <3>. QED  BY <2>5, <3>1, <3>2
  <2>7. SonTour(u, visas)
    BY <2>1, <2>6 DEF SonTour, EnAttente, Viseurs
  <2>. QED  BY <2>5, <2>7 DEF EnAttente
<1>2. TypeOK /\ InvariantCircuit /\ CircuitOuvert => SansImpasse
  BY <1>1 DEF SansImpasse
<1>. QED  BY <1>2, TypeCorrecte, CircuitTenu, CircuitToujoursOuvert, PTL

-----------------------------------------------------------------------------
(* With requests side by side: what a request has read stays in the        *)
(* history, which is all that CircuitRespecte speaks of.                   *)
LuDansHistoire(r) ==
  requetes[r].phase # "libre" =>
    /\ requetes[r].demande.op \in {"viser", "rejeter"} =>
         /\ "SOUMIS_VISA" \in statutsVus
         /\ requetes[r].demande.acteur \in Membres
    /\ requetes[r].demande.op = "signer" => "VISE" \in statutsVus
    /\ requetes[r].demande.op = "editer" => requetes[r].statut = "BROUILLON"
    /\ requetes[r].demande.op = "ecrireFichier" => requetes[r].statut = "BROUILLON"

InvariantConcurrent ==
  /\ TypeOKConcurrent
  /\ CircuitRespecte
  /\ statut \in statutsVus
  /\ Viseurs(visas) \subseteq soumissions
  /\ statut = "SIGNE" => signature # Aucune
  /\ \A r \in Requetes : LuDansHistoire(r)

LEMMA DemandeTypee ==
  ASSUME NEW d \in Demandes
  PROVE  /\ d.acteur \in Users
         /\ d.op \in ToutesOperations
         /\ d.op \in OpsTexte => d.texte \in Textes
  BY DEF Demandes, ToutesOperations, OpsTexte

LEMMA RequeteTypee ==
  ASSUME TypeOKConcurrent, NEW r \in Requetes, requetes[r].phase # "libre"
  PROVE  /\ requetes[r] \in EnCours
         /\ requetes[r].demande \in Demandes
         /\ requetes[r].statut \in StatutsDocument
         /\ requetes[r].contenu \in Textes
         /\ requetes[r].visas \in [Users -> Visa]
<1>1. requetes[r] \in {Libre} \cup EnCours
  BY DEF TypeOKConcurrent
<1>2. requetes[r] \in EnCours
  BY <1>1 DEF Libre
<1>. QED  BY <1>2 DEF EnCours

LEMMA LuDurable ==
  ASSUME NEW r \in Requetes, LuDansHistoire(r), requetes'[r] = requetes[r],
         statutsVus \subseteq statutsVus', comite' = comite
  PROVE  LuDansHistoire(r)'
  BY DEF LuDansHistoire, Membres

(* Recevoir, Apposer and Annuler leave the tables alone. *)
LEMMA InvariantAvantFin ==
  ASSUME InvariantConcurrent, NEW r \in Requetes,
         (\E d \in Demandes : Recevoir(r, d)) \/ Apposer(r) \/ Annuler(r)
  PROVE  InvariantConcurrent'
<1>. TypeOKConcurrent /\ requetes \in [Requetes -> {Libre} \cup EnCours]
  BY DEF InvariantConcurrent, TypeOKConcurrent
<1>1. UNCHANGED <<docVars, statutsVus, soumissions>>
  BY DEF Recevoir, Apposer, Annuler
<1>2. requetes' \in [Requetes -> {Libre} \cup EnCours]
  <2>1. ASSUME NEW d \in Demandes, Recevoir(r, d)
        PROVE  requetes' \in [Requetes -> {Libre} \cup EnCours]
    <3>1. [phase |-> "lue", demande |-> d, statut |-> statut, contenu |-> contenu,
           visas |-> visas, complet |-> FALSE] \in EnCours
      BY DEF EnCours, TypeOKConcurrent, TypeOK
    <3>. QED  BY <2>1, <3>1 DEF Recevoir
  <2>2. CASE Apposer(r)
    <3>1. requetes[r] \in EnCours
      BY <2>2, RequeteTypee DEF Apposer
    <3>2. \A b \in BOOLEAN : [requetes[r] EXCEPT !.phase = "apposee", !.complet = b] \in EnCours
      BY <3>1 DEF EnCours
    <3>. QED  BY <2>2, <3>2 DEF Apposer, Complet
  <2>. QED  BY <2>1, <2>2 DEF Annuler
<1>3. ASSUME NEW s \in Requetes
      PROVE  LuDansHistoire(s)'
  <2>. LuDansHistoire(s)
    BY DEF InvariantConcurrent
  <2>1. CASE s # r
    <3>1. requetes'[s] = requetes[s]
      BY <2>1 DEF Recevoir, Apposer, Annuler
    <3>. QED  BY <1>1, <3>1, LuDurable DEF docVars
  <2>2. ASSUME s = r, NEW d \in Demandes, Recevoir(r, d)
        PROVE  LuDansHistoire(s)'
    <3>1. requetes'[r].demande = d /\ requetes'[r].statut = statut
      BY <2>2 DEF Recevoir
    <3>2. d.op \in {"viser", "rejeter"} =>
            statut = "SOUMIS_VISA" /\ d.acteur \in Viseurs(visas)
      BY <2>2, DemandeTypee DEF Recevoir, Garde, Viseurs
    <3>3. /\ d.op = "signer" => statut = "VISE"
          /\ d.op \in OpsTexte => statut = "BROUILLON"
      BY <2>2 DEF Recevoir, Garde
    <3>. QED  BY <1>1, <2>2, <3>1, <3>2, <3>3
         DEF LuDansHistoire, InvariantConcurrent, CircuitRespecte, OpsTexte, Membres, docVars
  <2>3. CASE s = r /\ Apposer(r)
    <3>1. requetes[r] \in EnCours /\ requetes[r].phase # "libre"
      BY <2>3, RequeteTypee DEF Apposer
    <3>2. /\ requetes'[r].demande = requetes[r].demande
          /\ requetes'[r].statut = requetes[r].statut
      BY <2>3, <3>1 DEF Apposer, EnCours
    <3>. QED  BY <1>1, <2>3, <3>1, <3>2 DEF LuDansHistoire, Membres, docVars
  <2>4. CASE s = r /\ Annuler(r)
    BY <2>4 DEF Annuler, LuDansHistoire, Libre
  <2>. QED  BY <2>1, <2>2, <2>3, <2>4
<1>4. doublees' \subseteq Requetes
  BY DEF Recevoir, Apposer, Annuler, TypeOKConcurrent
<1>. QED  BY <1>1, <1>2, <1>3, <1>4
     DEF InvariantConcurrent, TypeOKConcurrent, TypeOK, CircuitRespecte, Viseurs, Membres, docVars

(* What the last step of a handler leaves in the tables. *)
LEMMA EcrituresDeFin ==
  ASSUME InvariantConcurrent, NEW r \in Requetes, Conclure(r)
  PROVE  /\ TypeOK'
         /\ \/ statut' \in {statut, "BROUILLON", "SOUMIS_VISA"}
            \/ statut' = "VISE" /\ "SOUMIS_VISA" \in statutsVus
            \/ statut' = "SIGNE" /\ "VISE" \in statutsVus
         /\ Viseurs(visas') \subseteq Viseurs(visas) \cup Membres
         /\ statut' = "SIGNE" => signature' # Aucune
         /\ signature # Aucune => signature' = signature
<1>1. /\ requetes[r].phase # "libre" /\ TypeOKConcurrent /\ TypeOK
      /\ LuDansHistoire(r) /\ (statut = "SIGNE" => signature # Aucune)
  BY DEF Conclure, InvariantConcurrent, TypeOKConcurrent
<1>2. /\ requetes[r].demande \in Demandes
      /\ requetes[r].contenu \in Textes
      /\ requetes[r].visas \in [Users -> Visa]
      /\ Acteur(r) \in Users
  BY <1>1, RequeteTypee, DemandeTypee DEF Acteur
<1>3. UNCHANGED <<campagne, comite>>
  BY DEF Conclure
<1>. USE DEF StatutsDocument, StatutsVisa, Visa
<1>4. CASE FinTexte(r)
  <2>1. Op(r) \in OpsTexte => requetes[r].demande.texte \in Textes
    BY <1>2, DemandeTypee DEF Op
  <2>2. Op(r) \in {"editer", "ecrireFichier"} => requetes[r].statut = "BROUILLON"
    BY <1>1 DEF LuDansHistoire, Op
  <2>. QED  BY <1>1, <1>2, <1>3, <1>4, <2>1, <2>2
       DEF FinTexte, EcrireDocument, TypeOK, OpsTexte, Viseurs
<1>5. CASE FinSoumettre(r)
  BY <1>1, <1>2, <1>3, <1>5 DEF FinSoumettre, EcrireDocument, TypeOK, Membre, Membres, Viseurs
<1>6. CASE FinViser(r)
  <2>1. Acteur(r) \in Membres /\ "SOUMIS_VISA" \in statutsVus
    BY <1>1, <1>6 DEF FinViser, LuDansHistoire, Op, Acteur
  <2>2. VisaAppose(r) \in [Users -> Visa]
    BY <1>1, <1>2 DEF VisaAppose, TypeOK
  <2>3. Viseurs(visas') \subseteq Viseurs(visas) \cup {Acteur(r)}
    BY <1>1, <1>2, <1>6 DEF FinViser, VisaAppose, Viseurs, TypeOK
  <2>. QED  BY <1>1, <1>2, <1>3, <1>6, <2>1, <2>2, <2>3 DEF FinViser, EcrireDocument, TypeOK
<1>7. CASE FinRejeter(r)
  <2>1. Acteur(r) \in Membres
    BY <1>1, <1>7 DEF FinRejeter, LuDansHistoire, Op, Acteur
  <2>2. visas' \in [Users -> Visa]
    BY <1>1, <1>2, <1>7 DEF FinRejeter, VisasApresRejet, SansVisa, TypeOK
  <2>3. Viseurs(visas') \subseteq Viseurs(visas) \cup {Acteur(r)}
    BY <1>1, <1>2, <1>7 DEF FinRejeter, VisasApresRejet, SansVisa, Viseurs, TypeOK
  <2>. QED  BY <1>1, <1>2, <1>3, <1>7, <2>1, <2>2, <2>3 DEF FinRejeter, EcrireDocument, TypeOK
<1>8. CASE FinSigner(r)
  <2>1. "VISE" \in statutsVus
    BY <1>1, <1>8 DEF FinSigner, LuDansHistoire, Op
  <2>2. signature' \in Signature /\ signature' # Aucune
    BY <1>2, <1>8 DEF FinSigner, Signature, HashVisas, Aucune
  <2>. QED  BY <1>1, <1>2, <1>3, <1>8, <2>1, <2>2 DEF FinSigner, EcrireDocument, TypeOK, Viseurs
<1>. QED  BY <1>4, <1>5, <1>6, <1>7, <1>8 DEF Conclure, Fin

LEMMA InvariantApresFin ==
  ASSUME InvariantConcurrent, NEW r \in Requetes, Conclure(r)
  PROVE  InvariantConcurrent'
<1>1. /\ requetes' = [requetes EXCEPT ![r] = Libre]
      /\ statutsVus' = statutsVus \cup {statut'}
      /\ soumissions' = soumissions \cup Viseurs(visas')
      /\ UNCHANGED <<campagne, comite>>
  BY DEF Conclure
<1>2. /\ TypeOKConcurrent /\ CircuitRespecte /\ statut \in statutsVus
      /\ Viseurs(visas) \subseteq soumissions
      /\ requetes \in [Requetes -> {Libre} \cup EnCours]
  BY DEF InvariantConcurrent, TypeOKConcurrent
<1>3. ASSUME NEW s \in Requetes
      PROVE  LuDansHistoire(s)'
  <2>1. CASE s = r
    BY <1>1, <1>2, <2>1 DEF LuDansHistoire, Libre
  <2>2. CASE s # r
    BY <1>1, <1>2, <2>2, LuDurable DEF InvariantConcurrent
  <2>. QED  BY <2>1, <2>2
<1>4. CircuitRespecte'
  BY <1>1, <1>2, EcrituresDeFin DEF CircuitRespecte, Membres
<1>5. TypeOKConcurrent'
  <2>1. doublees' \subseteq Requetes
    BY DEF Conclure
  <2>. QED  BY <1>1, <1>2, <2>1, EcrituresDeFin DEF TypeOKConcurrent, TypeOK, Viseurs
<1>6. (Viseurs(visas) \subseteq soumissions)'
  BY <1>1 DEF Viseurs
<1>. QED  BY <1>1, <1>3, <1>4, <1>5, <1>6, EcrituresDeFin DEF InvariantConcurrent

LEMMA InvariantTenu == SpecConcurrent => []InvariantConcurrent
<1>1. InitConcurrent => InvariantConcurrent
  BY ComiteAssumption, TextesAssumption
  DEF InitConcurrent, InvariantConcurrent, TypeOKConcurrent, TypeOK, CircuitRespecte,
      LuDansHistoire, Libre, Viseurs, SansVisa, Visa, StatutsVisa, StatutsDocument
<1>2. InvariantConcurrent /\ [NextConcurrent]_concVars => InvariantConcurrent'
  <2>1. CASE UNCHANGED concVars
    BY <2>1 DEF concVars, docVars, InvariantConcurrent, TypeOKConcurrent, TypeOK,
                CircuitRespecte, LuDansHistoire, Viseurs, Membres
  <2>. QED  BY <2>1, InvariantAvantFin, InvariantApresFin DEF NextConcurrent
<1>. QED  BY <1>1, <1>2, PTL DEF SpecConcurrent

(* However many requests interleave, the tables keep their types. *)
THEOREM TypeConcurrentCorrecte == SpecConcurrent => []TypeOKConcurrent
  BY InvariantTenu, PTL DEF InvariantConcurrent

(* However many requests interleave, no document is signed that had not    *)
(* been VISE, nor VISE that had not been submitted, and only members of    *)
(* the Comite get a visa to appose.                                        *)
THEOREM CircuitToujoursRespecte == SpecConcurrent => []CircuitRespecte
  BY InvariantTenu, PTL DEF InvariantConcurrent

(* However many requests interleave, a signature is written once.          *)
THEOREM SignatureToujoursUnique == SpecConcurrent => SignatureUnique
<1>1. ASSUME InvariantConcurrent, [NextConcurrent]_concVars
      PROVE  [/\ signature # Aucune => signature' = signature
              /\ statut' = "SIGNE" => signature' # Aucune]_concVars
  <2>1. CASE UNCHANGED concVars
    BY <2>1
  <2>2. ASSUME NEW r \in Requetes,
               (\E d \in Demandes : Recevoir(r, d)) \/ Apposer(r) \/ Annuler(r)
        PROVE  /\ signature # Aucune => signature' = signature
               /\ statut' = "SIGNE" => signature' # Aucune
    BY <1>1, <2>2 DEF Recevoir, Apposer, Annuler, docVars, InvariantConcurrent
  <2>3. ASSUME NEW r \in Requetes, Conclure(r)
        PROVE  /\ signature # Aucune => signature' = signature
               /\ statut' = "SIGNE" => signature' # Aucune
    BY <1>1, <2>3, EcrituresDeFin
  <2>. QED  BY <1>1, <2>1, <2>2, <2>3 DEF NextConcurrent
<1>. QED  BY <1>1, InvariantTenu, PTL DEF SpecConcurrent, SignatureUnique

-----------------------------------------------------------------------------
(* A request that no COMMIT has overlapped performs its whole handler.     *)

(* What the request r has read, and what it has computed, is still so.     *)
LectureFraiche(r) ==
  LET q == requetes[r] IN
  (r \notin doublees /\ q.phase # "libre") =>
    /\ Garde(q.demande)
    /\ q.statut = statut /\ q.contenu = contenu /\ q.visas = visas
    /\ q.phase = "apposee" =>
         q.complet = Complet([visas EXCEPT ![q.demande.acteur].statut = "VISE"])

(* The invariant behind ImplementeDocument: the campaign is launched.      *)
InvariantLectures ==
  /\ TypeOKConcurrent
  /\ campagne = "EN_COURS" /\ comite = Comite
  /\ \A r \in Requetes : LectureFraiche(r)

LEMMA GardeStable ==
  ASSUME UNCHANGED docVars, NEW d \in Demandes
  PROVE  Garde(d)' <=> Garde(d)
  BY DEF docVars, Garde, SonTour, Viseurs

LEMMA LecturesAvantFin ==
  ASSUME InvariantLectures, TypeOKConcurrent', NEW r \in Requetes,
         (\E d \in Demandes : Recevoir(r, d)) \/ Apposer(r) \/ Annuler(r)
  PROVE  InvariantLectures'
<1>1. /\ UNCHANGED docVars /\ doublees \subseteq doublees' \cup {r}
      /\ requetes \in [Requetes -> {Libre} \cup EnCours] /\ TypeOKConcurrent
  BY DEF Recevoir, Apposer, Annuler, InvariantLectures, TypeOKConcurrent
<1>2. ASSUME NEW s \in Requetes
      PROVE  LectureFraiche(s)'
  <2>0. LectureFraiche(s)
    BY DEF InvariantLectures
  <2>1. CASE s # r
    <3>1. requetes'[s] = requetes[s] /\ (s \notin doublees' => s \notin doublees)
      BY <1>1, <2>1 DEF Recevoir, Apposer, Annuler
    <3>2. CASE requetes[s].phase = "libre"
      BY <3>1, <3>2 DEF LectureFraiche
    <3>3. CASE requetes[s].phase # "libre"
      <4>1. requetes[s].demande \in Demandes
        BY <1>1, <3>3, RequeteTypee
      <4>. QED  BY <1>1, <2>0, <3>1, <3>3, <4>1, GardeStable DEF LectureFraiche, docVars
    <3>. QED  BY <3>2, <3>3
  <2>2. CASE s = r
    <3>1. ASSUME NEW d \in Demandes, Recevoir(r, d)
          PROVE  LectureFraiche(r)'
      <4>1. /\ Garde(d) /\ doublees' = doublees
            /\ requetes'[r] = [phase |-> "lue", demande |-> d, statut |-> statut,
                  contenu |-> contenu, visas |-> visas, complet |-> FALSE]
        BY <1>1, <3>1 DEF Recevoir
      <4>. QED  BY <1>1, <4>1, GardeStable DEF LectureFraiche, docVars
    <3>2. CASE Apposer(r)
      <4>1. /\ requetes[r] \in EnCours /\ requetes[r].phase = "lue" /\ doublees' = doublees
            /\ requetes[r].demande \in Demandes /\ requetes[r].visas \in [Users -> Visa]
            /\ Acteur(r) \in Users
        BY <1>1, <3>2, RequeteTypee, DemandeTypee DEF Apposer, Acteur
      <4>2. requetes'[r] = [requetes[r] EXCEPT !.phase = "apposee",
                                    !.complet = Complet(VisaAppose(r))]
        BY <1>1, <3>2 DEF Apposer
      <4>3. /\ requetes'[r].phase = "apposee"
            /\ requetes'[r].demande = requetes[r].demande
            /\ requetes'[r].statut = requetes[r].statut
            /\ requetes'[r].contenu = requetes[r].contenu
            /\ requetes'[r].visas = requetes[r].visas
            /\ requetes'[r].complet = Complet(VisaAppose(r))
        BY <4>1, <4>2 DEF EnCours
      <4>4. r \notin doublees =>
              VisaAppose(r) = [visas EXCEPT ![requetes[r].demande.acteur].statut = "VISE"]
        BY <2>0, <2>2, <4>1 DEF LectureFraiche, VisaAppose, Acteur
      <4>. QED  BY <1>1, <2>0, <2>2, <4>1, <4>3, <4>4, GardeStable DEF LectureFraiche, docVars
    <3>3. CASE Annuler(r)
      <4>1. requetes'[r].phase = "libre"
        BY <1>1, <3>3 DEF Annuler, Libre
      <4>. QED  BY <2>2, <4>1 DEF LectureFraiche
    <3>. QED  BY <2>2, <3>1, <3>2, <3>3
  <2>. QED  BY <2>1, <2>2
<1>. QED  BY <1>1, <1>2 DEF InvariantLectures, docVars

LEMMA LecturesTenues == SpecConcurrent => []InvariantLectures
<1>1. InitConcurrent /\ TypeOKConcurrent => InvariantLectures
  BY DEF InitConcurrent, InvariantLectures, LectureFraiche, Libre
<1>2. InvariantLectures /\ TypeOKConcurrent' /\ [NextConcurrent]_concVars => InvariantLectures'
  <2>. SUFFICES ASSUME InvariantLectures, TypeOKConcurrent', [NextConcurrent]_concVars
                PROVE  InvariantLectures'
    OBVIOUS
  <2>1. CASE UNCHANGED concVars
    <3>1. ASSUME NEW r \in Requetes
          PROVE  LectureFraiche(r)'
      <4>1. UNCHANGED docVars /\ requetes'[r] = requetes[r] /\ doublees' = doublees
        BY <2>1 DEF concVars
      <4>2. LectureFraiche(r) /\ (requetes[r].phase # "libre" => requetes[r].demande \in Demandes)
        BY RequeteTypee DEF InvariantLectures
      <4>. QED  BY <4>1, <4>2, GardeStable DEF LectureFraiche, docVars
    <3>. QED  BY <2>1, <3>1 DEF InvariantLectures, concVars, docVars
  <2>2. ASSUME NEW r \in Requetes, Conclure(r)
        PROVE  InvariantLectures'
    <3>1. \A s \in Requetes : LectureFraiche(s)'
      BY <2>2 DEF Conclure, LectureFraiche, Libre
    <3>. QED  BY <2>2, <3>1 DEF InvariantLectures, Conclure
  <2>. QED  BY <2>1, <2>2, LecturesAvantFin DEF NextConcurrent
<1>. QED  BY <1>1, <1>2, TypeConcurrentCorrecte, PTL DEF SpecConcurrent

(* The COMMIT of a request that no COMMIT has overlapped is a handler of   *)
(* DocumentOfficiel.                                                       *)
LEMMA FinFraiche ==
  ASSUME InvariantLectures, NEW r \in Requetes, r \notin doublees, Conclure(r)
  PROVE  Next
<1>. DEFINE d == requetes[r].demande
<1>1. /\ requetes[r].phase # "libre" /\ TypeOK
      /\ d \in Demandes /\ d.acteur \in Users /\ (d.op \in OpsTexte => d.texte \in Textes)
  BY RequeteTypee, DemandeTypee DEF Conclure, InvariantLectures, TypeOKConcurrent
<1>2. /\ Garde(d) /\ campagne = "EN_COURS" /\ comite = Comite
      /\ requetes[r].statut = statut /\ requetes[r].contenu = contenu
      /\ requetes[r].visas = visas
      /\ requetes[r].phase = "apposee" =>
           requetes[r].complet = Complet([visas EXCEPT ![d.acteur].statut = "VISE"])
  BY <1>1 DEF InvariantLectures, LectureFraiche
<1>3. /\ UNCHANGED <<campagne, comite>> /\ (d.op = "viser" => requetes[r].phase = "apposee")
  BY DEF Conclure, Op
<1>4. CASE FinTexte(r)
  <2>1. d.op \in OpsTexte
    BY <1>4 DEF FinTexte, Op, OpsTexte
  <2>2. \/ EditerDocument(d.acteur, d.texte) \/ EcrireFichier(d.acteur, d.texte)
        \/ RenseignerDetail(d.acteur, d.texte)
    BY <1>2, <1>3, <1>4, <2>1
    DEF FinTexte, Garde, Op, OpsTexte, EcrireDocument, EditerDocument, EcrireFichier,
        RenseignerDetail
  <2>. QED  BY <1>1, <2>1, <2>2 DEF Next, Redaction
<1>5. CASE FinSoumettre(r)
  <2>1. Membres # {}
    BY <1>2, ComiteAssumption DEF Membres
  <2>2. SoumettreVisa(d.acteur)
    BY <1>2, <1>3, <1>5, <2>1
    DEF FinSoumettre, SoumettreVisa, EcrireDocument, Garde, Op, OpsTexte, texteVars
  <2>. QED  BY <1>1, <2>2 DEF Next, Circuit
<1>6. CASE FinViser(r)
  <2>1. visas' = [visas EXCEPT ![d.acteur].statut = "VISE"]
    BY <1>1, <1>2, <1>6 DEF FinViser, VisaAppose, Acteur, TypeOK
  <2>2. requetes[r].complet = Complet(visas')
    BY <1>2, <1>3, <1>6, <2>1 DEF FinViser, Op
  <2>3. Viser(d.acteur)
    BY <1>2, <1>3, <1>6, <2>1, <2>2
    DEF FinViser, Viser, EcrireDocument, Garde, Op, OpsTexte, texteVars
  <2>. QED  BY <1>1, <2>3 DEF Next, Circuit
<1>7. CASE FinRejeter(r)
  <2>1. [visas EXCEPT ![d.acteur] = requetes[r].visas[d.acteur]] = visas
    BY <1>1, <1>2 DEF TypeOK
  <2>2. visas' = VisasApresRejet(d.acteur, visas)
    BY <1>7, <2>1 DEF FinRejeter, Acteur
  <2>3. RejeterVisa(d.acteur)
    BY <1>2, <1>3, <1>7, <2>2
    DEF FinRejeter, RejeterVisa, EcrireDocument, Garde, Op, OpsTexte, texteVars
  <2>. QED  BY <1>1, <2>3 DEF Next, Circuit
<1>8. CASE FinSigner(r)
  <2>1. Signer(d.acteur)
    BY <1>2, <1>3, <1>8
    DEF FinSigner, Signer, EcrireDocument, Garde, Op, OpsTexte, texteVars
  <2>. QED  BY <1>1, <2>1 DEF Next, Circuit
<1>. QED  BY <1>4, <1>5, <1>6, <1>7, <1>8 DEF Conclure, Fin

(* With any number of requests in progress, the COMMIT of a request that   *)
(* no other COMMIT has overlapped is a whole handler of DocumentOfficiel,  *)
(* and no other access changes the tables.                                 *)
THEOREM RaffinementCorrect == SpecConcurrent => ImplementeDocument
<1>1. InvariantLectures /\ [NextConcurrent]_concVars
        => [\/ [Next]_docVars
            \/ \E r \in doublees : requetes[r] # Libre /\ requetes'[r] = Libre]_concVars
  <2>. SUFFICES ASSUME InvariantLectures, [NextConcurrent]_concVars
                PROVE  \/ [Next]_docVars
                       \/ \E r \in doublees : requetes[r] # Libre /\ requetes'[r] = Libre
    OBVIOUS
  <2>1. CASE UNCHANGED concVars
    BY <2>1 DEF concVars
  <2>2. ASSUME NEW r \in Requetes,
               (\E e \in Demandes : Recevoir(r, e)) \/ Apposer(r) \/ Annuler(r)
        PROVE  UNCHANGED docVars
    BY <2>2 DEF Recevoir, Apposer, Annuler
  <2>3. ASSUME NEW r \in Requetes, Conclure(r), r \in doublees
        PROVE  requetes[r] # Libre /\ requetes'[r] = Libre
    BY <2>3 DEF Conclure, Libre, InvariantLectures, TypeOKConcurrent
  <2>. QED  BY <2>1, <2>2, <2>3, FinFraiche DEF NextConcurrent
<1>. QED  BY <1>1, LecturesTenues, PTL DEF SpecConcurrent, ImplementeDocument
=============================================================================
