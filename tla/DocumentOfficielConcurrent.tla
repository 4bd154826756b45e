---------------------- MODULE DocumentOfficielConcurrent ----------------------
(***************************************************************************)
(* The requests of DocumentOfficiel on a document of a launched campaign,  *)
(* side by side under READ COMMITTED:                                      *)
(*                                                                         *)
(*   Recevoir   the reads and the tests that precede the transaction or    *)
(*              the save: the row of the document, those of its visas      *)
(*   Apposer    (viser) the save of the visa, then the second reading of   *)
(*              all the visas, inside the transaction                      *)
(*   Conclure   the remaining writes and COMMIT                            *)
(*                                                                         *)
(* repo.save(doc) writes the image read by Recevoir with the columns the   *)
(* handler sets (fichier_contenu is not in the image: select false).       *)
(* repo.save(visa) INSERTs the row again when it has been deleted since.   *)
(***************************************************************************)
EXTENDS DocumentOfficiel

CONSTANTS
  Comite,        \* user -> his row of the Comite, fixed once launched
  Requetes,      \* the requests that can be in progress together
  Operations     \* the operations the users call in this instance

OpsTexte == {"editer", "ecrireFichier", "renseignerDetail"}
ToutesOperations == OpsTexte \cup {"soumettre", "viser", "rejeter", "signer"}

ASSUME ComiteAssumption ==
  /\ Comite \in [Users -> Membre]
  /\ \E u \in Users : Comite[u].ordre > 0 /\ Comite[u].obligatoire
ASSUME OperationsAssumption == Operations \subseteq ToutesOperations

Demandes == [op : ToutesOperations \ OpsTexte, acteur : Users]
       \cup [op : OpsTexte, acteur : Users, texte : Textes]

VARIABLES
  requetes,       \* request -> where its handler is and what it has read
  statutsVus,     \* history: every statut the document has had
  soumissions,    \* history: the users who have had a visa to appose
  doublees        \* history: the requests a COMMIT has overlapped

Libre == [phase |-> "libre"]
EnCours ==
  [phase : {"lue", "apposee"}, demande : Demandes,
   statut : StatutsDocument, contenu : Textes,    \* the image of the document
   visas : [Users -> Visa],                       \* the visas as read
   complet : BOOLEAN]                             \* tousObligatoiresVises

concVars == <<docVars, requetes, statutsVus, soumissions, doublees>>

InitConcurrent ==
  /\ campagne = "EN_COURS"
  /\ comite = Comite
  /\ statut = "BROUILLON"
  /\ contenu = "NULL" /\ fichier = "NULL" /\ detail = "NULL"
  /\ visas = [u \in Users |-> SansVisa]
  /\ signature = Aucune
  /\ requetes = [r \in Requetes |-> Libre]
  /\ statutsVus = {"BROUILLON"}
  /\ soumissions = {}
  /\ doublees = {}

-----------------------------------------------------------------------------
Op(r) == requetes[r].demande.op
Acteur(r) == requetes[r].demande.acteur

(* Fault: the signature also accepts a document that awaits visas. *)
GardeSansVisas(d) ==
  /\ d.op \in OpsTexte \cup {"soumettre"} => statut = "BROUILLON"
  /\ d.op = "editer" => d.acteur = Emetteur \/ d.acteur \in Admins
  /\ d.op \in {"ecrireFichier", "renseignerDetail", "soumettre"} => d.acteur = Emetteur
  /\ d.op \in {"viser", "rejeter"} =>
       /\ statut = "SOUMIS_VISA"
       /\ visas[d.acteur].statut = "EN_ATTENTE"
       /\ SonTour(d.acteur, visas)
  /\ d.op = "signer" => statut # "SIGNE" /\ d.acteur = Signataire

(* The tests of the handlers, all made on rows read before they write. *)
Garde(d) ==
  /\ d.op \in OpsTexte \cup {"soumettre"} => statut = "BROUILLON"
  /\ d.op = "editer" => d.acteur = Emetteur \/ d.acteur \in Admins
  /\ d.op \in {"ecrireFichier", "renseignerDetail", "soumettre"} => d.acteur = Emetteur
  /\ d.op \in {"viser", "rejeter"} =>
       /\ statut = "SOUMIS_VISA"
       /\ visas[d.acteur].statut = "EN_ATTENTE"
       /\ SonTour(d.acteur, visas)
  /\ d.op = "signer" => statut = "VISE" /\ d.acteur = Signataire

(* The rows of document_visa written by a transaction still open. *)
Verrouille(u) ==
  \E r \in Requetes : requetes[r].phase = "apposee" /\ Acteur(r) = u

(* save(monVisa): the image read, statut VISE, whatever the row is now. *)
VisaAppose(r) == [visas EXCEPT ![Acteur(r)] =
                    [requetes[r].visas[Acteur(r)] EXCEPT !.statut = "VISE"]]

-----------------------------------------------------------------------------
Recevoir(r, d) ==
  /\ requetes[r].phase = "libre"
  /\ d.op \in Operations
  /\ Garde(d)
  /\ requetes' = [requetes EXCEPT ![r] =
       [phase |-> "lue", demande |-> d, statut |-> statut, contenu |-> contenu,
        visas |-> visas, complet |-> FALSE]]
  /\ UNCHANGED <<docVars, statutsVus, soumissions, doublees>>

(* Fault: the completion is computed on the visas read before. *)
ApposerSansRelire(r) ==
  /\ requetes[r].phase = "lue" /\ Op(r) = "viser"
  /\ ~ Verrouille(Acteur(r))
  /\ requetes' = [requetes EXCEPT ![r].phase = "apposee",
                                  ![r].complet = Complet(requetes[r].visas)]
  /\ UNCHANGED <<docVars, statutsVus, soumissions, doublees>>

Apposer(r) ==
  /\ requetes[r].phase = "lue" /\ Op(r) = "viser"
  /\ ~ Verrouille(Acteur(r))
  /\ requetes' = [requetes EXCEPT ![r].phase = "apposee",
                                  ![r].complet = Complet(VisaAppose(r))]
  /\ UNCHANGED <<docVars, statutsVus, soumissions, doublees>>

(* A constraint refuses a write, or the process dies: ROLLBACK. *)
Annuler(r) ==
  /\ requetes[r].phase # "libre"
  /\ requetes' = [requetes EXCEPT ![r] = Libre]
  /\ doublees' = doublees \ {r}
  /\ UNCHANGED <<docVars, statutsVus, soumissions>>

-----------------------------------------------------------------------------
(* save of the image of the document, with its new statut. *)
EcrireDocument(r, nouveau) ==
  /\ statut' = nouveau
  /\ contenu' = requetes[r].contenu

(* EditerDocument and EcrireFichier save the image, with statut BROUILLON. *)
FinTexte(r) ==
  \/ /\ Op(r) = "editer"
     /\ statut' = requetes[r].statut
     /\ contenu' = requetes[r].demande.texte
     /\ UNCHANGED <<fichier, detail, visas, signature>>
  \/ /\ Op(r) = "ecrireFichier"
     /\ EcrireDocument(r, requetes[r].statut)
     /\ fichier' = requetes[r].demande.texte
     /\ UNCHANGED <<detail, visas, signature>>
  \/ /\ Op(r) = "renseignerDetail"
     /\ detail' = requetes[r].demande.texte
     /\ UNCHANGED <<statut, contenu, fichier, visas, signature>>

FinSoumettre(r) ==
  /\ Op(r) = "soumettre"
  /\ \A u \in Membres : visas[u].statut = "AUCUN" /\ ~ Verrouille(u)
  /\ EcrireDocument(r, "SOUMIS_VISA")
  /\ visas' = [u \in Users |->
       IF u \in Membres
       THEN [statut |-> "EN_ATTENTE", ordre |-> comite[u].ordre,
             obligatoire |-> comite[u].obligatoire]
       ELSE visas[u]]
  /\ UNCHANGED <<fichier, detail, signature>>

(* When the visas are not complete the image still holds SOUMIS_VISA. *)
FinViser(r) ==
  /\ Op(r) = "viser"
  /\ visas' = VisaAppose(r)
  /\ EcrireDocument(r, IF requetes[r].complet THEN "VISE" ELSE "SOUMIS_VISA")
  /\ UNCHANGED <<fichier, detail, signature>>

(* The DELETE of the rows EN_ATTENTE waits for those that are locked. *)
FinRejeter(r) ==
  /\ Op(r) = "rejeter"
  /\ \A u \in Viseurs(visas) : ~ Verrouille(u)
  /\ visas' = VisasApresRejet(Acteur(r),
                [visas EXCEPT ![Acteur(r)] = requetes[r].visas[Acteur(r)]])
  /\ EcrireDocument(r, "BROUILLON")
  /\ UNCHANGED <<fichier, detail, signature>>

FinSigner(r) ==
  /\ Op(r) = "signer"
  /\ signature = Aucune
  /\ signature' = [presente |-> TRUE, contenu |-> requetes[r].contenu,
                   visas |-> HashVisas(requetes[r].visas)]
  /\ EcrireDocument(r, "SIGNE")
  /\ UNCHANGED <<fichier, detail, visas>>

Fin(r) == FinTexte(r) \/ FinSoumettre(r) \/ FinViser(r) \/ FinRejeter(r) \/ FinSigner(r)

Conclure(r) ==
  /\ requetes[r].phase # "libre"
  /\ requetes[r].phase = IF Op(r) = "viser" THEN "apposee" ELSE "lue"
  /\ Fin(r)
  /\ requetes' = [requetes EXCEPT ![r] = Libre]
  /\ statutsVus' = statutsVus \cup {statut'}
  /\ soumissions' = soumissions \cup Viseurs(visas')
  /\ doublees' = {s \in Requetes : requetes'[s] # Libre}
  /\ UNCHANGED <<campagne, comite>>

NextConcurrent ==
  \E r \in Requetes :
    \/ \E d \in Demandes : Recevoir(r, d)
    \/ Apposer(r) \/ Annuler(r) \/ Conclure(r)

SpecConcurrent == InitConcurrent /\ [][NextConcurrent]_concVars

-----------------------------------------------------------------------------
(* Properties.                                                             *)

(* The tables hold values of their columns, each request what it has read. *)
TypeOKConcurrent ==
  /\ TypeOK
  /\ requetes \in [Requetes -> {Libre} \cup EnCours]
  /\ statutsVus \subseteq StatutsDocument
  /\ soumissions \subseteq Users
  /\ doublees \subseteq Requetes

(* However the requests interleave, a document that has been signed had    *)
(* been VISE, a document that has been VISE had been submitted, and only   *)
(* members of the Comite have had a visa to appose.                        *)
CircuitRespecte ==
  /\ "SIGNE" \in statutsVus => "VISE" \in statutsVus
  /\ "VISE" \in statutsVus => "SOUMIS_VISA" \in statutsVus
  /\ soumissions \subseteq Membres

(* However the requests interleave, the signature of a document is written *)
(* once and for all, and a document is only SIGNE when it has one.         *)
SignatureUnique ==
  [][/\ signature # Aucune => signature' = signature
     /\ statut' = "SIGNE" => signature' # Aucune]_concVars

(* With no request in progress, a submitted document can still be decided. *)
SansImpasseAuRepos == (\A r \in Requetes : requetes[r] = Libre) => SansImpasse

(* The accesses of a request that no COMMIT has overlapped amount to its   *)
(* handler in DocumentOfficiel.                                            *)
ImplementeDocument ==
  [][\/ [Next]_docVars
     \/ \E r \in doublees : requetes[r] # Libre /\ requetes'[r] = Libre]_concVars
=============================================================================
