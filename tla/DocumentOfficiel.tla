--------------------------- MODULE DocumentOfficiel ---------------------------
(***************************************************************************)
(* The approval of one official document of a campaign, with the requests  *)
(* served one at a time: the preparation of the campaign and its Comite    *)
(* (CampagneService), the content of the document, its detail and its      *)
(* attached file (DocumentWorkflowService, the six *-detail services,      *)
(* DocumentFichierService), the visas of the Comite, and the signature.    *)
(*                                                                         *)
(* Every action is a whole handler; a refused request is not a step.       *)
(***************************************************************************)
EXTENDS Naturals, FiniteSets

CONSTANTS
  Users,         \* the users who can be members of the Comite
  Emetteur,      \* the user who creates the document
  Admins,        \* those for whom ActorContext.isAdmin is true: none, today
  Signataire,    \* fk_user_signataire, chosen at the creation
  ModeVisa,      \* campagne.mode_visa_defaut
  Textes         \* what contenu_html, a detail or a file can be

ASSUME ModeAssumption == ModeVisa \in {"PARALLELE", "SEQUENTIEL"}
ASSUME TextesAssumption == "NULL" \in Textes
ASSUME ActeursAssumption == Emetteur \in Users /\ Signataire \in Users

StatutsDocument == {"INEXISTANT", "BROUILLON", "SOUMIS_VISA", "VISE", "SIGNE"}
StatutsVisa == {"AUCUN", "EN_ATTENTE", "VISE", "REJETE"}
Membre == [ordre : Nat, obligatoire : BOOLEAN]         \* ordre 0: not a member
Visa == [statut : StatutsVisa, ordre : Nat, obligatoire : BOOLEAN]
SansVisa == [statut |-> "AUCUN", ordre |-> 0, obligatoire |-> FALSE]
Aucune == [presente |-> FALSE]
Signature == [presente : {TRUE}, contenu : Textes, visas : SUBSET Users]

VARIABLES
  campagne,     \* campagne_budgetaire.statut
  comite,       \* user -> his row of campagne_comite_membre
  statut,       \* document_officiel.statut
  contenu,      \* document_officiel.contenu_html
  fichier,      \* document_officiel.fichier_contenu
  detail,       \* the row of the detail table of the document's type
  visas,        \* user -> his row of document_visa
  signature     \* the row of document_signature: what was hashed

texteVars == <<contenu, fichier, detail>>
docVars == <<campagne, comite, statut, contenu, fichier, detail, visas, signature>>

Init ==
  /\ campagne = "PARAMETRAGE"
  /\ comite = [u \in Users |-> [ordre |-> 0, obligatoire |-> FALSE]]
  /\ statut = "INEXISTANT"
  /\ contenu = "NULL" /\ fichier = "NULL" /\ detail = "NULL"
  /\ visas = [u \in Users |-> SansVisa]
  /\ signature = Aucune

-----------------------------------------------------------------------------
Membres == {u \in Users : comite[u].ordre > 0}
Viseurs(v) == {u \in Users : v[u].statut # "AUCUN"}

(* hashVisas: the VISE rows; the other ones are left out of the hash. *)
HashVisas(v) == {u \in Users : v[u].statut = "VISE"}

(* Faults: one mandatory visa is enough; the order is not looked at. *)
CompletDesLePremier(v) ==
  \E u \in Viseurs(v) : v[u].obligatoire /\ v[u].statut = "VISE"
TourLibre(u, v) == TRUE

(* tousObligatoiresVises, over the rows of the document. *)
Complet(v) == \A u \in Viseurs(v) : v[u].obligatoire => v[u].statut = "VISE"

(* precedentsNonVises is false, or the mode is not sequential. *)
SonTour(u, v) ==
  ModeVisa = "SEQUENTIEL" =>
    \A w \in Viseurs(v) : v[w].ordre < v[u].ordre => v[w].statut = "VISE"

-----------------------------------------------------------------------------
(* CampagneService.                                                        *)

(* The order is MAX(ordre) + 1. *)
AjouterMembre(u, obligatoire) ==
  /\ campagne = "PARAMETRAGE"
  /\ u \notin Membres
  /\ \E max \in {comite[w].ordre : w \in Users} :
       /\ \A w \in Users : comite[w].ordre <= max
       /\ comite' = [comite EXCEPT ![u] =
                        [ordre |-> max + 1, obligatoire |-> obligatoire]]
  /\ UNCHANGED <<campagne, statut, texteVars, visas, signature>>

LancerCampagne ==
  /\ campagne = "PARAMETRAGE"
  /\ \E u \in Membres : comite[u].obligatoire
  /\ campagne' = "EN_COURS"
  /\ UNCHANGED <<comite, statut, texteVars, visas, signature>>

-----------------------------------------------------------------------------
(* The content of the document.                                            *)

CreerDocument(x) ==
  /\ campagne = "EN_COURS"
  /\ statut = "INEXISTANT"
  /\ statut' = "BROUILLON"
  /\ contenu' = x
  /\ UNCHANGED <<campagne, comite, fichier, detail, visas, signature>>

(* Fault: the statut is not tested. *)
EditerToujours(u, x) ==
  /\ statut # "INEXISTANT"
  /\ u = Emetteur \/ u \in Admins
  /\ contenu' = x
  /\ UNCHANGED <<campagne, comite, statut, fichier, detail, visas, signature>>

EditerDocument(u, x) ==
  /\ statut = "BROUILLON"
  /\ u = Emetteur \/ u \in Admins
  /\ contenu' = x
  /\ UNCHANGED <<campagne, comite, statut, fichier, detail, visas, signature>>

(* uploadFichier, and supprimerFichier when f = "NULL". *)
EcrireFichier(u, f) ==
  /\ statut = "BROUILLON"
  /\ u = Emetteur
  /\ fichier' = f
  /\ UNCHANGED <<campagne, comite, statut, contenu, detail, visas, signature>>

(* Fault: the statut of the document is not tested. *)
RenseignerDetailToujours(u, d) ==
  /\ statut # "INEXISTANT"
  /\ u = Emetteur
  /\ detail' = d
  /\ UNCHANGED <<campagne, comite, statut, contenu, fichier, visas, signature>>

(* creerOuMettreAJour of the service of the document's type. *)
RenseignerDetail(u, d) ==
  /\ statut = "BROUILLON"
  /\ u = Emetteur
  /\ detail' = d
  /\ UNCHANGED <<campagne, comite, statut, contenu, fichier, visas, signature>>

-----------------------------------------------------------------------------
(* The visas and the signature.                                            *)

(* The rows are INSERTed one by one: a member who already has a row meets  *)
(* uq_visa_doc_user and the whole transaction is rolled back.              *)
SoumettreVisa(u) ==
  /\ statut = "BROUILLON"
  /\ u = Emetteur
  /\ campagne = "EN_COURS"
  /\ Membres # {}
  /\ \A w \in Membres : visas[w].statut = "AUCUN"
  /\ statut' = "SOUMIS_VISA"
  /\ visas' = [w \in Users |->
       IF w \in Membres
       THEN [statut |-> "EN_ATTENTE", ordre |-> comite[w].ordre,
             obligatoire |-> comite[w].obligatoire]
       ELSE visas[w]]
  /\ UNCHANGED <<campagne, comite, texteVars, signature>>

Viser(u) ==
  /\ statut = "SOUMIS_VISA"
  /\ visas[u].statut = "EN_ATTENTE"
  /\ SonTour(u, visas)
  /\ visas' = [visas EXCEPT ![u].statut = "VISE"]
  /\ statut' = IF Complet(visas') THEN "VISE" ELSE "SOUMIS_VISA"
  /\ UNCHANGED <<campagne, comite, texteVars, signature>>

(* The REJETE row and the VISE rows stay. *)
VisasApresRejet(u, v) ==
  [w \in Users |-> IF w = u THEN [v[w] EXCEPT !.statut = "REJETE"]
                   ELSE IF v[w].statut = "EN_ATTENTE" THEN SansVisa
                   ELSE v[w]]

(* Fault: the document is left in SOUMIS_VISA. *)
RejeterSansRetour(u) ==
  /\ statut = "SOUMIS_VISA"
  /\ visas[u].statut = "EN_ATTENTE"
  /\ SonTour(u, visas)
  /\ visas' = VisasApresRejet(u, visas)
  /\ UNCHANGED <<campagne, comite, statut, texteVars, signature>>

RejeterVisa(u) ==
  /\ statut = "SOUMIS_VISA"
  /\ visas[u].statut = "EN_ATTENTE"
  /\ SonTour(u, visas)
  /\ visas' = VisasApresRejet(u, visas)
  /\ statut' = "BROUILLON"
  /\ UNCHANGED <<campagne, comite, texteVars, signature>>

(* The password is asked again: a wrong one is a refused request. *)
Signer(u) ==
  /\ statut = "VISE"
  /\ u = Signataire
  /\ signature = Aucune                     \* document_signature UNIQUE fk_document
  /\ signature' = [presente |-> TRUE, contenu |-> contenu, visas |-> HashVisas(visas)]
  /\ statut' = "SIGNE"
  /\ UNCHANGED <<campagne, comite, texteVars, visas>>

-----------------------------------------------------------------------------
Preparation ==
  \/ \E u \in Users, b \in BOOLEAN : AjouterMembre(u, b)
  \/ LancerCampagne

Redaction ==
  \/ \E x \in Textes : CreerDocument(x)
  \/ \E u \in Users, x \in Textes :
       EditerDocument(u, x) \/ EcrireFichier(u, x) \/ RenseignerDetail(u, x)

Circuit == \E u \in Users : SoumettreVisa(u) \/ Viser(u) \/ RejeterVisa(u) \/ Signer(u)

Next == Preparation \/ Redaction \/ Circuit

Spec == Init /\ [][Next]_docVars

-----------------------------------------------------------------------------
(* Properties.                                                             *)

(* Every variable holds a value its column can hold. *)
TypeOK ==
  /\ campagne \in {"PARAMETRAGE", "EN_COURS"}
  /\ comite \in [Users -> Membre]
  /\ statut \in StatutsDocument
  /\ contenu \in Textes /\ fichier \in Textes /\ detail \in Textes
  /\ visas \in [Users -> Visa]
  /\ signature \in {Aucune} \cup Signature

(* A document VISE or SIGNE has the visa of every mandatory member of the  *)
(* Comite of its campaign, and of one at least.                            *)
VisasAvantSignature ==
  statut \in {"VISE", "SIGNE"} =>
    /\ \E u \in Membres : comite[u].obligatoire
    /\ \A u \in Membres : comite[u].obligatoire => visas[u].statut = "VISE"

(* What verifierIntegrite recomputes on a signed document is what was      *)
(* signed.                                                                 *)
SignatureIntegre ==
  statut = "SIGNE" =>
    /\ signature # Aucune
    /\ signature.contenu = contenu
    /\ signature.visas = HashVisas(visas)

(* In sequential mode, nobody has apposed his visa before the members of a *)
(* lower order, rejections and resubmissions included.                     *)
OrdreRespecte ==
  ModeVisa = "SEQUENTIEL" =>
    \A u, w \in Viseurs(visas) :
      visas[u].statut = "VISE" /\ visas[w].ordre < visas[u].ordre => visas[w].statut = "VISE"

(* A submitted document is never stuck: some viseur can still decide.      *)
SansImpasse ==
  statut = "SOUMIS_VISA" =>
    \E u \in Users : visas[u].statut = "EN_ATTENTE" /\ SonTour(u, visas)

(* After the submission, nothing that the viseurs have read changes until  *)
(* a rejection: neither the content, nor the detail, nor the file.  After  *)
(* the signature nothing changes any more.                                 *)
ContenuFige ==
  [][/\ statut \in {"SOUMIS_VISA", "VISE", "SIGNE"} => UNCHANGED texteVars
     /\ statut = "SIGNE" => UNCHANGED <<statut, visas, signature>>]_docVars

(* A document sent back to BROUILLON by a rejection can be submitted again *)
(* once corrected.                                                         *)
ResoumissionPossible ==
  statut = "BROUILLON" /\ campagne = "EN_COURS"
    => \A w \in Membres : visas[w].statut = "AUCUN"
=============================================================================
