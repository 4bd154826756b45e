----------------------------- MODULE ComptesProofs -----------------------------
(***************************************************************************)
(* Proofs about accounts, sessions, links and roles, for any users, roles     *)
(* and requests.                                                            *)
(*                                                                         *)
(* A handler saves an image nobody locked. The argument: an image that no     *)
(* COMMIT has made stale is still the row; a password, a session and a link    *)
(* are named after one request, so nobody holds them before it ends; and two    *)
(* writers of a row can only both succeed when the second one was stale, which  *)
(* is what the properties excuse.                                           *)
(***************************************************************************)
EXTENDS Comptes, FiniteSetTheorems, TLAPS

DeCompteOps == Operations \cup {"resetLien"}
DeJetonOps == {"rafraichir", "tourner", "emettre"}

(* What a request may hold.                                                 *)
EstTravail(r, t) ==
  \/ t = Neuve \/ t = Finie
  \/ /\ t.op \in Operations
     /\ t = [op |-> t.op, user |-> t.user, image |-> t.image, tient |-> {DeCompte(t.user)}]
     /\ t.user \in Utilisateurs /\ t.image \in Compte
  \/ /\ t.op = "resetLien"
     /\ t = [op |-> "resetLien", user |-> t.user, image |-> t.image, lien |-> t.lien,
             tient |-> {DeLien(t.lien), DeCompte(t.user)}]
     /\ t.user \in Utilisateurs /\ t.image \in Compte /\ t.lien \in Requetes
  \/ /\ t.op = "creer"
     /\ t = [op |-> "creer", user |-> t.user, roles |-> t.roles]
     /\ t.user \in Utilisateurs /\ t.roles \subseteq Roles /\ t.roles # {}
  \/ /\ t.op = "emettre"
     /\ t = [op |-> "emettre", user |-> t.user, session |-> t.session, tient |-> t.tient]
     /\ t.user \in Utilisateurs /\ t.session \in Requetes
     /\ t.tient = {DeCompte(t.user)} \cup IF t.session = r THEN {} ELSE {DeSession(t.session)}
  \/ /\ t.op \in {"rafraichir", "tourner"}
     /\ t = [op |-> t.op, user |-> t.user, jeton |-> t.jeton, session |-> t.session, tient |-> t.tient]
     /\ t.user \in Utilisateurs /\ t.jeton \in Requetes /\ t.session \in Requetes
     /\ t.tient = {DeSession(t.session)} \cup IF t.op = "tourner" THEN {DeCompte(t.user)} ELSE {}
  \/ /\ t.op \in {"rejeu", "demanderLien"}
     /\ t = [op |-> t.op, user |-> t.user]
     /\ t.user \in Utilisateurs
  \/ /\ t.op = "attribuer"
     /\ t = [op |-> "attribuer", cle |-> t.cle, lue |-> t.lue]
     /\ t.cle \in Utilisateurs \X Roles
  \/ /\ t.op = "retirer"
     /\ t = [op |-> "retirer", cle |-> t.cle, tient |-> {DesRoles(t.cle[1])}]
     /\ t.cle \in Utilisateurs \X Roles

TypeOK ==
  /\ comptes \in [Utilisateurs -> Compte \cup {Absent}]
  /\ roles \in [Utilisateurs \X Roles -> EtatsRole]
  /\ jetons \in [Requetes -> Jeton \cup {Absent}]
  /\ liens \in [Requetes -> Lien \cup {Absent}]
  /\ DOMAIN travaux = Requetes /\ \A r \in Requetes : EstTravail(r, travaux[r])
  /\ usages \in [Requetes -> Nat]

(* A password that a request has not given yet is nowhere.                   *)
Choisira(r) == travaux[r].op \in {"neuve", "changerMdp", "resetAdmin", "resetLien", "creer"}
ComptesTenus ==
  /\ \A r \in Requetes :
       /\ travaux[r].op \in DeCompteOps =>
            /\ Existe(travaux[r].user)
            /\ travaux[r].op \in {"connexion", "changerMdp"} => travaux[r].image.actif
            /\ ~ Perime(r, DeCompte(travaux[r].user)) => travaux[r].image = comptes[travaux[r].user]
       /\ travaux[r].op \in {"tourner", "emettre"} /\ ~ Perime(r, DeCompte(travaux[r].user)) =>
            comptes[travaux[r].user].actif
  /\ \A r \in Requetes : Choisira(r) =>
       /\ \A u \in Utilisateurs : (Existe(u) => comptes[u].mdp # r) /\ <<u, r>> \notin remplaces
       /\ \A q \in Requetes : travaux[q].op \in DeCompteOps => travaux[q].image.mdp # r

EnRotation(r, s) ==
  /\ travaux[r].op \in {"rafraichir", "tourner"} /\ travaux[r].session = s
  /\ ~ Perime(r, DeSession(s))
Emettra(r, s) == travaux[r].op = "emettre" /\ travaux[r].session = s /\ ~ Perime(r, DeSession(s))
Faite(r) == travaux[r].op = "finie"

SessionsTenues ==
  /\ \A j \in Requetes : jetons[j] # Absent => Faite(j) /\ Faite(jetons[j].session)
  /\ \A s \in coupees : s \in Requetes /\ Faite(s)
  /\ \A r \in Requetes :
       /\ travaux[r].op \in {"rafraichir", "tourner"} =>
            /\ jetons[travaux[r].jeton] # Absent
            /\ jetons[travaux[r].jeton].session = travaux[r].session
       /\ travaux[r].op = "emettre" /\ travaux[r].session # r => Faite(travaux[r].session)
  /\ \A s \in Requetes : DeSession(s) \notin excuses =>
       /\ \A i, j \in Actifs(s) : i = j
       /\ s \in coupees => Actifs(s) = {}
       /\ \A r \in Requetes : EnRotation(r, s) => travaux[r].jeton \in Actifs(s)
       /\ \A r \in Requetes : Emettra(r, s) =>
            Actifs(s) = {} /\ s \notin coupees /\ \A q \in Requetes : Emettra(q, s) => q = r

LiensTenus ==
  /\ \A l \in Requetes : liens[l] # Absent \/ usages[l] # 0 => Faite(l)
  /\ \A l \in Requetes : liens[l] # Absent => Existe(liens[l].user)
  /\ \A r \in Requetes :
       /\ travaux[r].op = "resetLien" => liens[travaux[r].lien] # Absent
       /\ travaux[r].op = "demanderLien" => Existe(travaux[r].user)
  /\ \A l \in Requetes : DeLien(l) \notin excuses =>
       /\ usages[l] <= 1
       /\ usages[l] # 0 /\ liens[l] # Absent => liens[l].utilise
       /\ \A r \in Requetes :
            travaux[r].op = "resetLien" /\ travaux[r].lien = l /\ ~ Perime(r, DeLien(l)) => usages[l] = 0

RolesTenus ==
  /\ RoleActif
  /\ \A r \in Requetes :
       LET u == travaux[r].cle[1] IN
       travaux[r].op = "retirer" /\ ~ Perime(r, DesRoles(u)) /\ DesRoles(u) \notin excuses =>
         \E ro \in RolesActifs(u) : ro # travaux[r].cle[2]

Invariant == TypeOK /\ ComptesTenus /\ SessionsTenues /\ LiensTenus /\ RolesTenus

TenuesDe(t) == IF "tient" \in DOMAIN t THEN t.tient ELSE {}

-----------------------------------------------------------------------------
LEMMA Presents ==
  /\ \A c \in Compte : c # Absent
  /\ \A j \in Jeton : j # Absent
  /\ \A l \in Lien : l # Absent
BY DEF Compte, Jeton, Lien, Absent

(* What the shape of a work item tells.                                      *)
LEMMA Formes ==
  ASSUME NEW r, NEW t, EstTravail(r, t)
  PROVE  /\ t.op = "neuve" <=> t = Neuve
         /\ t.op = "finie" <=> t = Finie
         /\ t.op \in DeCompteOps => /\ t.user \in Utilisateurs /\ t.image \in Compte
                                    /\ DeCompte(t.user) \in TenuesDe(t)
         /\ t.op = "resetLien" => t.lien \in Requetes /\ DeLien(t.lien) \in TenuesDe(t)
         /\ t.op = "creer" => t.user \in Utilisateurs /\ t.roles \subseteq Roles /\ t.roles # {}
         /\ t.op = "emettre" => /\ t.user \in Utilisateurs /\ t.session \in Requetes
                                /\ DeCompte(t.user) \in TenuesDe(t)
                                /\ t.session # r => DeSession(t.session) \in TenuesDe(t)
         /\ t.op \in {"rafraichir", "tourner"} =>
              /\ t.user \in Utilisateurs /\ t.jeton \in Requetes /\ t.session \in Requetes
              /\ DeSession(t.session) \in TenuesDe(t)
         /\ t.op = "tourner" => /\ DeCompte(t.user) \in TenuesDe(t)
                                /\ t.tient = {DeSession(t.session), DeCompte(t.user)}
         /\ t.op \in {"rejeu", "demanderLien"} => t.user \in Utilisateurs
         /\ t.op \in {"attribuer", "retirer"} => t.cle \in Utilisateurs \X Roles
         /\ t.op = "retirer" => DesRoles(t.cle[1]) \in TenuesDe(t)
         /\ t.op \in DeCompteOps \cup {"neuve", "finie", "creer", "emettre", "rafraichir", "tourner",
                                       "rejeu", "demanderLien", "attribuer", "retirer"}
<1>1. CASE t = Neuve \/ t = Finie
  BY <1>1 DEF Neuve, Finie, DeCompteOps, Operations
<1>2. CASE /\ t.op \in Operations
           /\ t = [op |-> t.op, user |-> t.user, image |-> t.image, tient |-> {DeCompte(t.user)}]
           /\ t.user \in Utilisateurs /\ t.image \in Compte
  <2>1. TenuesDe(t) = {DeCompte(t.user)}
    BY <1>2 DEF TenuesDe
  <2>. QED  BY <1>2, <2>1 DEF Neuve, Finie, DeCompteOps, Operations
<1>3. CASE /\ t.op = "resetLien"
           /\ t = [op |-> "resetLien", user |-> t.user, image |-> t.image, lien |-> t.lien,
                   tient |-> {DeLien(t.lien), DeCompte(t.user)}]
           /\ t.user \in Utilisateurs /\ t.image \in Compte /\ t.lien \in Requetes
  <2>1. TenuesDe(t) = {DeLien(t.lien), DeCompte(t.user)}
    BY <1>3 DEF TenuesDe
  <2>. QED  BY <1>3, <2>1 DEF Neuve, Finie, DeCompteOps, Operations
<1>4. CASE /\ t.op = "creer" /\ t = [op |-> "creer", user |-> t.user, roles |-> t.roles]
           /\ t.user \in Utilisateurs /\ t.roles \subseteq Roles /\ t.roles # {}
  BY <1>4 DEF Neuve, Finie, DeCompteOps, Operations
<1>5. CASE /\ t.op = "emettre"
           /\ t = [op |-> "emettre", user |-> t.user, session |-> t.session, tient |-> t.tient]
           /\ t.user \in Utilisateurs /\ t.session \in Requetes
           /\ t.tient = {DeCompte(t.user)} \cup IF t.session = r THEN {} ELSE {DeSession(t.session)}
  <2>1. TenuesDe(t) = t.tient
    BY <1>5 DEF TenuesDe
  <2>. QED  BY <1>5, <2>1 DEF Neuve, Finie, DeCompteOps, Operations
<1>6. CASE /\ t.op \in {"rafraichir", "tourner"}
           /\ t = [op |-> t.op, user |-> t.user, jeton |-> t.jeton, session |-> t.session, tient |-> t.tient]
           /\ t.user \in Utilisateurs /\ t.jeton \in Requetes /\ t.session \in Requetes
           /\ t.tient = {DeSession(t.session)} \cup IF t.op = "tourner" THEN {DeCompte(t.user)} ELSE {}
  <2>1. TenuesDe(t) = t.tient
    BY <1>6 DEF TenuesDe
  <2>. QED  BY <1>6, <2>1 DEF Neuve, Finie, DeCompteOps, Operations
<1>7. CASE /\ t.op \in {"rejeu", "demanderLien"} /\ t = [op |-> t.op, user |-> t.user]
           /\ t.user \in Utilisateurs
  BY <1>7 DEF Neuve, Finie, DeCompteOps, Operations
<1>8. CASE /\ t.op = "attribuer" /\ t = [op |-> "attribuer", cle |-> t.cle, lue |-> t.lue]
           /\ t.cle \in Utilisateurs \X Roles
  BY <1>8 DEF Neuve, Finie, DeCompteOps, Operations
<1>9. CASE /\ t.op = "retirer" /\ t = [op |-> "retirer", cle |-> t.cle, tient |-> {DesRoles(t.cle[1])}]
           /\ t.cle \in Utilisateurs \X Roles
  <2>1. TenuesDe(t) = {DesRoles(t.cle[1])}
    BY <1>9 DEF TenuesDe
  <2>. QED  BY <1>9, <2>1 DEF Neuve, Finie, DeCompteOps, Operations
<1>. QED  BY <1>1, <1>2, <1>3, <1>4, <1>5, <1>6, <1>7, <1>8, <1>9 DEF EstTravail

LEMMA Travail ==
  ASSUME TypeOK, NEW r \in Requetes
  PROVE  EstTravail(r, travaux[r]) /\ Tenues(r) = TenuesDe(travaux[r])
BY DEF TypeOK, Tenues, TenuesDe

(* The step of a request: nobody else moves, nothing becomes fresh again, and  *)
(* those who hold a row it commits on are stale.                              *)
LEMMA Passage ==
  ASSUME TypeOK, NEW r \in Requetes, NEW t, NEW rows, Passer(r, t, rows)
  PROVE  /\ DOMAIN travaux' = Requetes
         /\ travaux'[r] = t
         /\ \A q \in Requetes : q # r => travaux'[q] = travaux[q]
         /\ \A q \in Requetes : \A x : q # r /\ Perime(q, x) => Perime(q, x)'
         /\ \A q \in Requetes : \A x \in rows : q # r /\ x \in Tenues(q) => Perime(q, x)'
         /\ t # Finie => \A x : Perime(r, x)' <=> Perime(r, x)
<1>1. travaux' = [travaux EXCEPT ![r] = t]
  BY DEF Passer
<1>2. DOMAIN travaux = Requetes
  BY DEF TypeOK
<1>3. perimes' = {p \in perimes : p[1] # r \/ t # Finie} \cup
                   {p \in Requetes \X rows : p[1] # r /\ p[2] \in Tenues(p[1])}
  BY DEF Passer
<1>4. \A q, x : <<q, x>>[1] = q /\ <<q, x>>[2] = x
  OBVIOUS
<1>5. \A q, x : q # r /\ <<q, x>> \in perimes => <<q, x>> \in perimes'
  BY <1>3, <1>4
<1>6. \A q \in Requetes : \A x \in rows : q # r /\ x \in Tenues(q) => <<q, x>> \in perimes'
  BY <1>3, <1>4
<1>7. t # Finie => \A x : <<r, x>> \in perimes' <=> <<r, x>> \in perimes
  BY <1>3, <1>4
<1>. QED  BY <1>1, <1>2, <1>5, <1>6, <1>7 DEF Perime

LEMMA TypeTenu ==
  ASSUME TypeOK, NEW r \in Requetes, NEW t, NEW rows, Passer(r, t, rows), EstTravail(r, t),
         comptes' \in [Utilisateurs -> Compte \cup {Absent}],
         roles' \in [Utilisateurs \X Roles -> EtatsRole],
         jetons' \in [Requetes -> Jeton \cup {Absent}],
         liens' \in [Requetes -> Lien \cup {Absent}],
         usages' \in [Requetes -> Nat]
  PROVE  TypeOK'
<1>1. \A q \in Requetes : EstTravail(q, travaux'[q])
  BY Passage, Travail
<1>. QED  BY <1>1, Passage DEF TypeOK

LEMMA Initial == Init => Invariant
<1>. SUFFICES ASSUME Init PROVE Invariant
  OBVIOUS
<1>. USE BornesComptes
<1>1. \A r \in Requetes : travaux[r] = Neuve /\ travaux[r].op = "neuve"
  BY DEF Init, Neuve
<1>2. \A u \in Utilisateurs : comptes[u] \in Compte \cup {Absent} /\ (Existe(u) => u \in Inscrits /\ comptes[u].mdp = "initial")
  BY DEF Init, Compte, MotsDePasse, Existe
<1>3. TypeOK
  <2>1. \A r \in Requetes : EstTravail(r, travaux[r])
    BY <1>1 DEF EstTravail
  <2>2. comptes \in [Utilisateurs -> Compte \cup {Absent}]
    BY <1>2 DEF Init
  <2>3. roles \in [Utilisateurs \X Roles -> EtatsRole]
    BY DEF Init, EtatsRole
  <2>. QED  BY <2>1, <2>2, <2>3 DEF Init, TypeOK
<1>4. ComptesTenus
  BY <1>1, <1>2 DEF ComptesTenus, Init, DeCompteOps, Operations
<1>5. \A j \in Requetes : jetons[j] = Absent /\ liens[j] = Absent /\ usages[j] = 0
  BY DEF Init
<1>6. \A s \in Requetes : Actifs(s) = {}
  BY <1>5 DEF Actifs
<1>7. SessionsTenues
  BY <1>1, <1>5, <1>6 DEF SessionsTenues, Init, EnRotation, Emettra
<1>8. LiensTenus
  BY <1>1, <1>5 DEF LiensTenus, Init
<1>9. RolesTenus
  <2>1. ASSUME NEW u \in Utilisateurs, Existe(u) PROVE RolesActifs(u) # {}
    BY <1>2, <2>1 DEF RolesActifs, Init
  <2>. QED  BY <1>1, <2>1 DEF RolesTenus, RoleActif
<1>. QED  BY <1>3, <1>4, <1>7, <1>8, <1>9 DEF Invariant

-----------------------------------------------------------------------------
(* Each part of the invariant, when its tables do not change: what the next   *)
(* work item of the request must say of them.                                *)

ChoixDe(t) == t.op \in {"neuve", "changerMdp", "resetAdmin", "resetLien", "creer"}
FideleCompte(r, t) ==
  /\ t.op \in DeCompteOps => /\ Existe(t.user) /\ t.image = comptes[t.user]
                             /\ t.op \in {"connexion", "changerMdp"} => t.image.actif
  /\ t.op \in {"tourner", "emettre"} =>
       \/ comptes[t.user].actif
       \/ travaux[r].op = "tourner" /\ travaux[r].user = t.user
  /\ ChoixDe(t) => travaux[r].op = "neuve"

LEMMA ComptesCalmes ==
  ASSUME TypeOK, ComptesTenus, NEW r \in Requetes, NEW t, NEW rows, Passer(r, t, rows),
         EstTravail(r, t), FideleCompte(r, t), comptes' = comptes, remplaces' = remplaces
  PROVE  ComptesTenus'
<1>1. ASSUME NEW q \in Requetes
      PROVE  /\ travaux'[q].op \in DeCompteOps =>
                  /\ Existe(travaux'[q].user)
                  /\ travaux'[q].op \in {"connexion", "changerMdp"} => travaux'[q].image.actif
                  /\ <<q, DeCompte(travaux'[q].user)>> \notin perimes' => travaux'[q].image = comptes[travaux'[q].user]
             /\ travaux'[q].op \in {"tourner", "emettre"} /\ <<q, DeCompte(travaux'[q].user)>> \notin perimes' =>
                  comptes[travaux'[q].user].actif
  <2>1. CASE q # r
    <3>1. travaux'[q] = travaux[q] /\ \A x : Perime(q, x) => Perime(q, x)'
      BY <2>1, Passage
    <3>. QED  BY <3>1 DEF ComptesTenus, Perime
  <2>2. CASE q = r
    <3>1. travaux'[q] = t
      BY <2>2, Passage
    <3>2. t.op \in {"tourner", "emettre"} => t # Finie
      BY DEF Finie
    <3>3. t.op \in {"tourner", "emettre"} => \A x : Perime(q, x)' <=> Perime(q, x)
      BY <2>2, <3>2, Passage
    <3>. QED  BY <2>2, <3>1, <3>3 DEF ComptesTenus, FideleCompte, Perime
  <2>. QED  BY <2>1, <2>2
<1>2. ASSUME NEW q \in Requetes, ChoixDe(travaux'[q])
      PROVE  Choisira(q)
  <2>1. travaux'[q] = IF q = r THEN t ELSE travaux[q]
    BY Passage
  <2>. QED  BY <1>2, <2>1 DEF FideleCompte, ChoixDe, Choisira
<1>3. ASSUME NEW q \in Requetes, NEW p \in Requetes, ChoixDe(travaux'[q]), travaux'[p].op \in DeCompteOps
      PROVE  travaux'[p].image.mdp # q
  <2>1. Choisira(q)
    BY <1>2, <1>3
  <2>2. CASE p # r
    BY <1>3, <2>1, <2>2, Passage DEF ComptesTenus
  <2>3. CASE p = r
    <3>1. travaux'[p] = t /\ Existe(t.user) /\ t.image = comptes[t.user] /\ t.user \in Utilisateurs
      BY <1>3, <2>3, Passage, Formes DEF FideleCompte
    <3>. QED  BY <2>1, <3>1 DEF ComptesTenus
  <2>. QED  BY <2>2, <2>3
<1>4. \A q \in Requetes : ChoixDe(travaux'[q]) =>
        \A u \in Utilisateurs : (Existe(u) => comptes[u].mdp # q) /\ <<u, q>> \notin remplaces
  BY <1>2 DEF ComptesTenus
<1>. QED  BY <1>1, <1>3, <1>4 DEF ComptesTenus, ChoixDe, Choisira, Existe, Perime

FideleSession(r, t) ==
  /\ t.op \in {"rafraichir", "tourner"} =>
       /\ jetons[t.jeton] # Absent /\ jetons[t.jeton].session = t.session
       /\ \/ t.jeton \in Actifs(t.session)
          \/ /\ travaux[r].op = "rafraichir"
             /\ travaux[r].session = t.session /\ travaux[r].jeton = t.jeton
  /\ t.op = "emettre" => t.session = r
  /\ travaux[r].op # "finie"

LEMMA SessionsCalmes ==
  ASSUME TypeOK, SessionsTenues, NEW r \in Requetes, NEW t, NEW rows, Passer(r, t, rows),
         EstTravail(r, t), FideleSession(r, t), jetons' = jetons, coupees' = coupees,
         excuses \subseteq excuses'
  PROVE  SessionsTenues'
<1>1. \A q \in Requetes : travaux'[q] = IF q = r THEN t ELSE travaux[q]
  BY Passage
<1>2. \A q \in Requetes : Faite(q) => travaux'[q].op = "finie"
  BY <1>1 DEF Faite, FideleSession
<1>3. \A s : Actifs(s)' = Actifs(s)
  BY DEF Actifs
<1>4. \A q \in Requetes : \A x : q # r /\ Perime(q, x) => Perime(q, x)'
  BY Passage
<1>5. ASSUME NEW q \in Requetes
      PROVE  /\ travaux'[q].op \in {"rafraichir", "tourner"} =>
                  /\ jetons[travaux'[q].jeton] # Absent
                  /\ jetons[travaux'[q].jeton].session = travaux'[q].session
             /\ travaux'[q].op = "emettre" /\ travaux'[q].session # q => Faite(travaux'[q].session)
  BY <1>1 DEF SessionsTenues, FideleSession
<1>6. \A q \in Requetes : travaux'[q].op = "emettre" => travaux'[q].session \in Requetes
  BY <1>1, Formes, Travail
<1>7. ASSUME NEW s \in Requetes, DeSession(s) \notin excuses, NEW q \in Requetes, EnRotation(q, s)'
      PROVE  travaux'[q].jeton \in Actifs(s)
  <2>1. CASE q # r
    <3>1. EnRotation(q, s) /\ travaux'[q] = travaux[q]
      BY <1>1, <1>4, <1>7, <2>1 DEF EnRotation
    <3>. QED  BY <1>7, <3>1 DEF SessionsTenues
  <2>2. CASE q = r
    <3>1. /\ travaux'[q] = t /\ t.op \in {"rafraichir", "tourner"} /\ t.session = s
          /\ ~ Perime(r, DeSession(s))'
      BY <1>1, <1>7, <2>2 DEF EnRotation
    <3>2. ~ Perime(r, DeSession(s))
      BY <3>1, Passage DEF Finie
    <3>. QED  BY <1>7, <3>1, <3>2 DEF SessionsTenues, FideleSession, EnRotation
  <2>. QED  BY <2>1, <2>2
<1>8. ASSUME NEW s \in Requetes, DeSession(s) \notin excuses, NEW q \in Requetes, Emettra(q, s)'
      PROVE  /\ Actifs(s) = {} /\ s \notin coupees
             /\ \A p \in Requetes : Emettra(p, s)' => p = q
  <2>1. \A p \in Requetes : Emettra(p, s)' => IF p = r THEN s = r ELSE Emettra(p, s)
    BY <1>1, <1>4 DEF Emettra, FideleSession
  <2>2. \A p \in Requetes : Emettra(p, s) => p = s \/ Faite(s)
    BY DEF Emettra, SessionsTenues
  <2>3. CASE s = r
    <3>1. ~ Faite(s)
      BY <2>3 DEF Faite, FideleSession
    <3>2. Actifs(s) = {} /\ s \notin coupees
      BY <3>1 DEF SessionsTenues, Actifs
    <3>. QED  BY <2>1, <2>2, <2>3, <3>1, <3>2, <1>8
  <2>4. CASE s # r
    BY <1>8, <2>1, <2>4 DEF SessionsTenues
  <2>. QED  BY <2>3, <2>4
<1>9. \A j \in Requetes : jetons[j] # Absent => travaux'[j].op = "finie" /\ travaux'[jetons[j].session].op = "finie"
  <2>1. \A j \in Requetes : jetons[j] # Absent => jetons[j].session \in Requetes
    BY DEF TypeOK, Jeton
  <2>. QED  BY <1>2, <2>1 DEF SessionsTenues
<1>10. \A s \in coupees : s \in Requetes /\ travaux'[s].op = "finie"
  BY <1>2 DEF SessionsTenues
<1>11. \A q \in Requetes : travaux'[q].op = "emettre" /\ travaux'[q].session # q => travaux'[travaux'[q].session].op = "finie"
  BY <1>2, <1>5, <1>6
<1>12. \A s \in Requetes : DeSession(s) \notin excuses =>
         (\A i, j \in Actifs(s) : i = j) /\ (s \in coupees => Actifs(s) = {})
  BY DEF SessionsTenues
<1>. QED
  <2>1. \A s \in Requetes : DeSession(s) \notin excuses' => DeSession(s) \notin excuses
    OBVIOUS
  <2>. QED  BY <1>3, <1>5, <1>7, <1>8, <1>9, <1>10, <1>11, <1>12, <2>1 DEF SessionsTenues, Faite

FideleLien(r, t) ==
  /\ t.op = "demanderLien" => Existe(t.user)
  /\ t.op = "resetLien" => liens[t.lien] # Absent /\ ~ liens[t.lien].utilise
  /\ travaux[r].op # "finie"

LEMMA LiensCalmes ==
  ASSUME TypeOK, LiensTenus, NEW r \in Requetes, NEW t, NEW rows, Passer(r, t, rows),
         EstTravail(r, t), FideleLien(r, t), liens' = liens, usages' = usages,
         \A u \in Utilisateurs : Existe(u) => Existe(u)',
         excuses \subseteq excuses'
  PROVE  LiensTenus'
<1>1. \A q \in Requetes : travaux'[q] = IF q = r THEN t ELSE travaux[q]
  BY Passage
<1>2. \A l \in Requetes : liens[l] # Absent \/ usages[l] # 0 => travaux'[l].op = "finie"
  BY <1>1 DEF LiensTenus, Faite, FideleLien
<1>3. \A q \in Requetes :
        /\ travaux'[q].op = "resetLien" => liens[travaux'[q].lien] # Absent
        /\ travaux'[q].op = "demanderLien" => Existe(travaux'[q].user)
  BY <1>1 DEF LiensTenus, FideleLien
<1>4. ASSUME NEW l \in Requetes, DeLien(l) \notin excuses, NEW q \in Requetes,
             travaux'[q].op = "resetLien", travaux'[q].lien = l, <<q, DeLien(l)>> \notin perimes'
      PROVE  usages[l] = 0
  <2>1. CASE q # r
    <3>1. travaux'[q] = travaux[q] /\ ~ Perime(q, DeLien(l))
      BY <1>4, <2>1, Passage DEF Perime
    <3>. QED  BY <1>4, <3>1 DEF LiensTenus
  <2>2. CASE q = r
    BY <1>1, <1>4, <2>2 DEF LiensTenus, FideleLien
  <2>. QED  BY <2>1, <2>2
<1>5. \A l \in Requetes : DeLien(l) \notin excuses' =>
        usages[l] <= 1 /\ (usages[l] # 0 /\ liens[l] # Absent => liens[l].utilise)
  BY DEF LiensTenus
<1>6. \A l \in Requetes : liens[l] # Absent => Existe(liens[l].user)'
  <2>1. \A l \in Requetes : liens[l] # Absent => liens[l].user \in Utilisateurs
    BY DEF TypeOK, Lien
  <2>. QED  BY <2>1 DEF LiensTenus
<1>7. \A q \in Requetes : travaux'[q].op = "demanderLien" => comptes'[travaux'[q].user] # Absent
  <2>1. \A q \in Requetes : travaux'[q].op = "demanderLien" => travaux'[q].user \in Utilisateurs
    BY <1>1, Formes, Travail
  <2>. QED  BY <1>3, <2>1 DEF Existe
<1>. QED  BY <1>2, <1>3, <1>4, <1>5, <1>6, <1>7 DEF LiensTenus, Faite, Perime, Existe

(* No role goes, and a new account has one.                                  *)
LEMMA RolesAccrus ==
  ASSUME TypeOK, RolesTenus, NEW r \in Requetes, NEW t, NEW rows, Passer(r, t, rows),
         EstTravail(r, t), \A u \in Utilisateurs : RolesActifs(u) \subseteq RolesActifs(u)',
         \A u \in Utilisateurs : Existe(u)' => Existe(u) \/ RolesActifs(u)' # {},
         t.op = "retirer" => \E ro \in RolesActifs(t.cle[1]) : ro # t.cle[2],
         excuses \subseteq excuses'
  PROVE  RolesTenus'
<1>1. \A q \in Requetes : travaux'[q] = IF q = r THEN t ELSE travaux[q]
  BY Passage
<1>2. RoleActif'
  BY DEF RolesTenus, RoleActif
<1>3. ASSUME NEW q \in Requetes, NEW u, u = travaux'[q].cle[1], travaux'[q].op = "retirer",
             <<q, DesRoles(u)>> \notin perimes', DesRoles(u) \notin excuses'
      PROVE  \E ro \in RolesActifs(u)' : ro # travaux'[q].cle[2]
  <2>1. EstTravail(q, travaux'[q])
    BY <1>1, Travail
  <2>2. u \in Utilisateurs
    BY <1>3, <2>1, Formes
  <2>3. \E ro \in RolesActifs(u) : ro # travaux'[q].cle[2]
    <3>1. CASE q # r
      <4>1. travaux'[q] = travaux[q] /\ ~ Perime(q, DesRoles(u))
        BY <1>3, <3>1, Passage DEF Perime
      <4>. QED  BY <1>3, <4>1 DEF RolesTenus
    <3>2. CASE q = r
      BY <1>1, <1>3, <3>2
    <3>. QED  BY <3>1, <3>2
  <2>. QED  BY <2>2, <2>3
<1>. QED  BY <1>2, <1>3 DEF RolesTenus, Perime

LEMMA RolesCalmes ==
  ASSUME TypeOK, RolesTenus, NEW r \in Requetes, NEW t, NEW rows, Passer(r, t, rows),
         EstTravail(r, t), roles' = roles, \A u \in Utilisateurs : Existe(u)' => Existe(u),
         t.op = "retirer" => \E ro \in RolesActifs(t.cle[1]) : ro # t.cle[2],
         excuses \subseteq excuses'
  PROVE  RolesTenus'
<1>1. \A u : RolesActifs(u)' = RolesActifs(u)
  BY DEF RolesActifs
<1>. QED  BY <1>1, RolesAccrus

(* A step that reads, or ends a request, and changes no table.                *)
LEMMA PasSansCommit ==
  ASSUME Invariant, NEW r \in Requetes, NEW t, NEW rows, Passer(r, t, rows), EstTravail(r, t),
         FideleCompte(r, t), FideleSession(r, t), FideleLien(r, t),
         t.op = "retirer" => \E ro \in RolesActifs(t.cle[1]) : ro # t.cle[2],
         UNCHANGED <<tables, remplaces, usages, coupees>>, excuses' = excuses
  PROVE  Invariant'
<1>1. /\ comptes' = comptes /\ roles' = roles /\ jetons' = jetons /\ liens' = liens
      /\ remplaces' = remplaces /\ usages' = usages /\ coupees' = coupees
  BY DEF tables
<1>2. TypeOK'
  BY <1>1, TypeTenu DEF Invariant, TypeOK
<1>3. ComptesTenus'
  BY <1>1, ComptesCalmes DEF Invariant
<1>4. SessionsTenues'
  BY <1>1, SessionsCalmes DEF Invariant
<1>5. LiensTenus'
  BY <1>1, LiensCalmes DEF Invariant, Existe
<1>6. RolesTenus'
  BY <1>1, RolesCalmes DEF Invariant, Existe
<1>. QED  BY <1>2, <1>3, <1>4, <1>5, <1>6 DEF Invariant

(* A request that ends says nothing any more.                                *)
LEMMA Fin ==
  ASSUME NEW r \in Requetes, travaux[r].op # "finie"
  PROVE  /\ EstTravail(r, Finie) /\ Finie.op = "finie"
         /\ FideleCompte(r, Finie) /\ FideleSession(r, Finie) /\ FideleLien(r, Finie)
BY DEF EstTravail, Finie, FideleCompte, FideleSession, FideleLien, DeCompteOps, Operations, ChoixDe

LEMMA Neuf ==
  ASSUME NEW r \in Requetes, travaux[r] = Neuve
  PROVE  travaux[r].op = "neuve"
BY DEF Neuve

-----------------------------------------------------------------------------
(* The actions that read.                                                    *)

LEMMA PasLireCompte ==
  ASSUME Invariant, NEW r \in Requetes, NEW u \in Utilisateurs, NEW op, LireCompte(r, op, u)
  PROVE  Invariant'
<1>1. PICK t : t = [op |-> op, user |-> u, image |-> comptes[u], tient |-> {DeCompte(u)}]
  OBVIOUS
<1>2. Existe(u) /\ op \in Operations /\ Recevable(op, comptes[u]) /\ Commencer(r, t)
  BY <1>1 DEF LireCompte
<1>3. Passer(r, t, {}) /\ travaux[r].op = "neuve"
  BY <1>2, Neuf DEF Commencer
<1>4. comptes[u] \in Compte
  BY <1>2 DEF Invariant, TypeOK, Existe
<1>5. EstTravail(r, t) /\ t.op = op /\ op # "retirer" /\ op # "resetLien"
  BY <1>1, <1>2, <1>4 DEF EstTravail, Operations
<1>6. FideleCompte(r, t)
  BY <1>1, <1>2, <1>3, <1>5 DEF FideleCompte, Recevable, Operations
<1>7. FideleSession(r, t) /\ FideleLien(r, t)
  BY <1>1, <1>2, <1>3 DEF FideleSession, FideleLien, Operations
<1>. QED  BY <1>2, <1>3, <1>5, <1>6, <1>7, PasSansCommit DEF Commencer

LEMMA PasDemanderCreation ==
  ASSUME Invariant, NEW r \in Requetes, NEW u \in Utilisateurs, NEW S \in SUBSET Roles,
         DemanderCreation(r, u, S)
  PROVE  Invariant'
<1>1. PICK t : t = [op |-> "creer", user |-> u, roles |-> S]
  OBVIOUS
<1>2. S # {} /\ Commencer(r, t)
  BY <1>1 DEF DemanderCreation
<1>3. Passer(r, t, {}) /\ travaux[r].op = "neuve"
  BY <1>2, Neuf DEF Commencer
<1>4. EstTravail(r, t) /\ t.op = "creer"
  BY <1>1, <1>2 DEF EstTravail
<1>5. FideleCompte(r, t) /\ FideleSession(r, t) /\ FideleLien(r, t)
  BY <1>3, <1>4 DEF FideleCompte, FideleSession, FideleLien, DeCompteOps, Operations
<1>. QED  BY <1>2, <1>3, <1>4, <1>5, PasSansCommit DEF Commencer

LEMMA PasLireJeton ==
  ASSUME Invariant, NEW r \in Requetes, NEW j \in Requetes, LireJeton(r, j)
  PROVE  Invariant'
<1>1. jetons[j] \in Jeton /\ jetons[j] # Absent
  BY DEF LireJeton, Invariant, TypeOK
<1>2. PICK t : t = IF jetons[j].revoque THEN [op |-> "rejeu", user |-> jetons[j].user]
                   ELSE [op |-> "rafraichir", user |-> jetons[j].user, jeton |-> j,
                         session |-> jetons[j].session, tient |-> {DeSession(jetons[j].session)}]
  OBVIOUS
<1>3. Commencer(r, t)
  BY <1>2 DEF LireJeton
<1>4. Passer(r, t, {}) /\ travaux[r].op = "neuve"
  BY <1>3, Neuf DEF Commencer
<1>5. EstTravail(r, t) /\ t.op \in {"rejeu", "rafraichir"}
  BY <1>1, <1>2 DEF EstTravail, Jeton
<1>6. ~ jetons[j].revoque => j \in Actifs(jetons[j].session)
  BY <1>1 DEF Actifs
<1>7. FideleSession(r, t)
  BY <1>1, <1>2, <1>4, <1>6 DEF FideleSession
<1>8. FideleCompte(r, t) /\ FideleLien(r, t)
  BY <1>4, <1>5 DEF FideleCompte, FideleLien, DeCompteOps, Operations, ChoixDe
<1>. QED  BY <1>3, <1>4, <1>5, <1>7, <1>8, PasSansCommit DEF Commencer

LEMMA PasLireTitulaire ==
  ASSUME Invariant, NEW r \in Requetes, LireTitulaire(r)
  PROVE  Invariant'
<1>1. /\ travaux[r].op = "rafraichir" /\ EstTravail(r, travaux[r])
      /\ UNCHANGED <<tables, remplaces, usages, coupees, excuses>>
  BY Travail DEF LireTitulaire, Invariant
<1>2. CASE ~ comptes[travaux[r].user].actif
  <2>1. Passer(r, Finie, {})
    BY <1>2 DEF LireTitulaire
  <2>. QED  BY <1>1, <2>1, Fin, PasSansCommit
<1>3. CASE comptes[travaux[r].user].actif
  <2>1. PICK t, w : /\ t = [travaux[r] EXCEPT !.op = "tourner", !.tient = @ \cup {DeCompte(travaux[r].user)}]
                    /\ w = travaux[r]
    OBVIOUS
  <2>2. Passer(r, t, {})
    BY <1>3, <2>1 DEF LireTitulaire
  <2>3. travaux[r] = [op |-> "rafraichir", user |-> travaux[r].user, jeton |-> travaux[r].jeton,
                      session |-> travaux[r].session, tient |-> {DeSession(travaux[r].session)}]
        /\ travaux[r].user \in Utilisateurs /\ travaux[r].jeton \in Requetes /\ travaux[r].session \in Requetes
    BY <1>1 DEF EstTravail, Neuve, Finie, Operations
  <2>4. t = [op |-> "tourner", user |-> travaux[r].user, jeton |-> travaux[r].jeton,
             session |-> travaux[r].session,
             tient |-> {DeSession(travaux[r].session)} \cup {DeCompte(travaux[r].user)}]
    <3>1. t = [w EXCEPT !.op = "tourner", !.tient = w.tient \cup {DeCompte(w.user)}]
      BY <2>1
    <3>2. PICK u, j, s : w = [op |-> "rafraichir", user |-> u, jeton |-> j, session |-> s,
                              tient |-> {DeSession(s)}]
      BY <2>1, <2>3
    <3>3. t = [op |-> "tourner", user |-> u, jeton |-> j, session |-> s,
               tient |-> {DeSession(s)} \cup {DeCompte(u)}]
      BY <3>1, <3>2
    <3>4. w.user = u /\ w.jeton = j /\ w.session = s
      BY <3>2
    <3>. QED  BY <2>1, <3>3, <3>4
  <2>5. EstTravail(r, t) /\ t.op = "tourner"
    BY <2>3, <2>4 DEF EstTravail
  <2>6. FideleCompte(r, t) /\ FideleLien(r, t)
    BY <1>1, <1>3, <2>4 DEF FideleCompte, FideleLien, DeCompteOps, Operations, ChoixDe
  <2>7. FideleSession(r, t)
    BY <1>1, <2>4 DEF FideleSession, Invariant, SessionsTenues
  <2>. QED  BY <1>1, <2>2, <2>5, <2>6, <2>7, PasSansCommit
<1>. QED  BY <1>2, <1>3

LEMMA PasDemanderLien ==
  ASSUME Invariant, NEW r \in Requetes, NEW u \in Utilisateurs, DemanderLien(r, u)
  PROVE  Invariant'
<1>1. PICK t : t = [op |-> "demanderLien", user |-> u]
  OBVIOUS
<1>2. Commencer(r, t) /\ Existe(u)
  BY <1>1 DEF DemanderLien
<1>3. Passer(r, t, {}) /\ travaux[r].op = "neuve"
  BY <1>2, Neuf DEF Commencer
<1>4. EstTravail(r, t) /\ t.op = "demanderLien"
  BY <1>1 DEF EstTravail
<1>5. FideleCompte(r, t) /\ FideleSession(r, t) /\ FideleLien(r, t)
  BY <1>1, <1>2, <1>3, <1>4 DEF FideleCompte, FideleSession, FideleLien, DeCompteOps, Operations, ChoixDe
<1>. QED  BY <1>2, <1>3, <1>4, <1>5, PasSansCommit DEF Commencer

(* The account of a link exists: it was asked for an active account.          *)
LEMMA PasLireLien ==
  ASSUME Invariant, NEW r \in Requetes, NEW l \in Requetes, LireLien(r, l)
  PROVE  Invariant'
<1>1. liens[l] \in Lien /\ liens[l] # Absent /\ ~ liens[l].utilise /\ liens[l].user \in Utilisateurs
  BY DEF LireLien, Invariant, TypeOK, Lien
<1>2. Existe(liens[l].user)
  BY <1>1 DEF Invariant, LiensTenus
<1>3. PICK t : t = [op |-> "resetLien", user |-> liens[l].user, image |-> comptes[liens[l].user],
                    lien |-> l, tient |-> {DeLien(l), DeCompte(liens[l].user)}]
  OBVIOUS
<1>4. Commencer(r, t)
  BY <1>3 DEF LireLien
<1>5. Passer(r, t, {}) /\ travaux[r].op = "neuve"
  BY <1>4, Neuf DEF Commencer
<1>6. comptes[liens[l].user] \in Compte
  BY <1>1, <1>2 DEF Invariant, TypeOK, Existe
<1>7. EstTravail(r, t) /\ t.op = "resetLien"
  BY <1>1, <1>3, <1>6 DEF EstTravail
<1>8. FideleCompte(r, t) /\ FideleSession(r, t) /\ FideleLien(r, t)
  BY <1>1, <1>2, <1>3, <1>5 DEF FideleCompte, FideleSession, FideleLien, DeCompteOps, Operations, ChoixDe
<1>. QED  BY <1>4, <1>5, <1>7, <1>8, PasSansCommit DEF Commencer

LEMMA PasLireAttribution ==
  ASSUME Invariant, NEW r \in Requetes, NEW u \in Utilisateurs, NEW ro \in Roles,
         LireAttribution(r, u, ro)
  PROVE  Invariant'
<1>1. PICK t : t = IF roles[<<u, ro>>] = "actif" THEN Finie
                   ELSE [op |-> "attribuer", cle |-> <<u, ro>>, lue |-> roles[<<u, ro>>]]
  OBVIOUS
<1>2. Commencer(r, t)
  BY <1>1 DEF LireAttribution
<1>3. Passer(r, t, {}) /\ travaux[r].op = "neuve"
  BY <1>2, Neuf DEF Commencer
<1>4. CASE t = Finie
  BY <1>2, <1>3, <1>4, Fin, PasSansCommit DEF Commencer
<1>5. CASE t # Finie
  <2>1. EstTravail(r, t) /\ t.op = "attribuer"
    BY <1>1, <1>5 DEF EstTravail
  <2>2. FideleCompte(r, t) /\ FideleSession(r, t) /\ FideleLien(r, t)
    BY <1>3, <2>1 DEF FideleCompte, FideleSession, FideleLien, DeCompteOps, Operations, ChoixDe
  <2>. QED  BY <1>2, <1>3, <2>1, <2>2, PasSansCommit DEF Commencer
<1>. QED  BY <1>4, <1>5

LEMMA PasLireRetrait ==
  ASSUME Invariant, NEW r \in Requetes, NEW u \in Utilisateurs, NEW ro \in Roles,
         LireRetrait(r, u, ro)
  PROVE  Invariant'
<1>1. PICK t : t = [op |-> "retirer", cle |-> <<u, ro>>, tient |-> {DesRoles(u)}]
  OBVIOUS
<1>2. Commencer(r, t) /\ Cardinality(RolesActifs(u)) > 1
  BY <1>1 DEF LireRetrait
<1>3. Passer(r, t, {}) /\ travaux[r].op = "neuve"
  BY <1>2, Neuf DEF Commencer
<1>4. EstTravail(r, t) /\ t.op = "retirer" /\ t.cle = <<u, ro>>
  BY <1>1 DEF EstTravail
<1>5. FideleCompte(r, t) /\ FideleSession(r, t) /\ FideleLien(r, t)
  BY <1>3, <1>4 DEF FideleCompte, FideleSession, FideleLien, DeCompteOps, Operations, ChoixDe
<1>6. \E x \in RolesActifs(u) : x # ro
  <2>. SUFFICES ASSUME RolesActifs(u) \subseteq {ro} PROVE FALSE
    OBVIOUS
  <2>1. Cardinality(RolesActifs(u)) \in {0, 1}
    <3>1. RolesActifs(u) = {} \/ RolesActifs(u) = {ro}
      OBVIOUS
    <3>. QED  BY <3>1, FS_EmptySet, FS_Singleton
  <2>. QED  BY <1>2, <2>1
<1>. QED  BY <1>2, <1>3, <1>4, <1>5, <1>6, PasSansCommit DEF Commencer

LEMMA PasInterrompre ==
  ASSUME Invariant, NEW r \in Requetes, Interrompre(r)
  PROVE  Invariant'
<1>1. Passer(r, Finie, {}) /\ UNCHANGED <<tables, remplaces, usages, coupees, excuses>>
  BY DEF Interrompre
<1>2. travaux[r].op # "finie"
  BY Travail, Formes DEF Interrompre, EnCours, Invariant
<1>. QED  BY <1>1, <1>2, Fin, PasSansCommit

-----------------------------------------------------------------------------
(* The save of an account.                                                   *)

LEMMA ColonnesModifiees ==
  ASSUME NEW r \in Requetes, NEW op \in DeCompteOps, NEW c \in Compte
  PROVE  /\ Modifiee(op, r, c) \in Compte
         /\ \/ Modifiee(op, r, c).mdp = c.mdp
            \/ Modifiee(op, r, c).mdp = r /\ op \in {"changerMdp", "resetAdmin", "resetLien"}
         /\ op \in {"connexion", "changerMdp"} => Modifiee(op, r, c).actif = c.actif
         /\ Modifiee(op, r, c).actif /\ ~ c.actif => op = "reactiver"
<1>1. r \in MotsDePasse /\ c.mdp \in MotsDePasse
  BY DEF MotsDePasse, Compte
<1>2. CASE op \in {"connexion", "modifier"}
  <2>1. Modifiee(op, r, c) = c
    BY <1>2 DEF Modifiee
  <2>. QED  BY <1>2, <2>1
<1>3. CASE op \in {"desactiver", "reactiver", "forcerChangement"}
  <2>1. /\ op = "desactiver" => Modifiee(op, r, c) = [c EXCEPT !.actif = FALSE]
        /\ op = "reactiver" => Modifiee(op, r, c) = [c EXCEPT !.actif = TRUE]
        /\ op = "forcerChangement" => Modifiee(op, r, c) = [c EXCEPT !.doitChanger = TRUE]
    BY DEF Modifiee
  <2>2. CASE op = "desactiver"
    BY <2>1, <2>2 DEF Compte
  <2>3. CASE op = "reactiver"
    BY <2>1, <2>3 DEF Compte
  <2>4. CASE op = "forcerChangement"
    BY <2>1, <2>4 DEF Compte
  <2>. QED  BY <1>3, <2>2, <2>3, <2>4
<1>4. CASE op \in {"resetAdmin", "changerMdp", "resetLien"}
  BY <1>1, <1>4 DEF Modifiee, Compte
<1>. QED  BY <1>2, <1>3, <1>4 DEF DeCompteOps, Operations

(* What is saved comes from c: the image, or the row itself.                  *)
LEMMA Enregistre ==
  ASSUME TypeOK, ComptesTenus, NEW r \in Requetes, NEW tout \in BOOLEAN, NEW u,
         u = travaux[r].user, travaux[r].op \in DeCompteOps, EnregistrerCompte(r, tout)
  PROVE  /\ u \in Utilisateurs /\ Existe(u) /\ comptes[u] \in Compte
         /\ comptes' = [comptes EXCEPT ![u] = comptes'[u]]
         /\ \E c \in Compte :
              /\ comptes'[u] = Modifiee(travaux[r].op, r, c)
              /\ c = travaux[r].image \/ c = comptes[u]
              /\ c # comptes[u] => Perime(r, DeCompte(u))
              /\ c # travaux[r].image => Perime(r, DeCompte(u))
         /\ remplaces \subseteq remplaces'
         /\ remplaces' \subseteq remplaces \cup {<<u, comptes[u].mdp>>}
<1>1. u \in Utilisateurs /\ travaux[r].image \in Compte
  BY Travail, Formes
<1>2. Existe(u) /\ (~ Perime(r, DeCompte(u)) => travaux[r].image = comptes[u])
  BY DEF ComptesTenus
<1>3. comptes[u] \in Compte
  BY <1>1, <1>2 DEF TypeOK, Existe
<1>4. PICK c : c = IF tout THEN travaux[r].image ELSE comptes[u]
  OBVIOUS
<1>5. comptes' = [comptes EXCEPT ![u] = Modifiee(travaux[r].op, r, c)]
  BY <1>4 DEF EnregistrerCompte
<1>6. comptes'[u] = Modifiee(travaux[r].op, r, c)
  BY <1>1, <1>5 DEF TypeOK
<1>7. ~ tout => Perime(r, DeCompte(u))
  BY DEF EnregistrerCompte
<1>8. remplaces \subseteq remplaces' /\ remplaces' \subseteq remplaces \cup {<<u, comptes[u].mdp>>}
  BY DEF EnregistrerCompte
<1>. QED  BY <1>1, <1>2, <1>3, <1>4, <1>5, <1>6, <1>7, <1>8

LEMMA ComptesEnregistres ==
  ASSUME TypeOK, ComptesTenus, NEW r \in Requetes, NEW tout \in BOOLEAN, NEW t, NEW rows,
         travaux[r].op \in DeCompteOps, EnregistrerCompte(r, tout), Passer(r, t, rows),
         DeCompte(travaux[r].user) \in rows, EstTravail(r, t),
         \/ t.op = "finie"
         \/ /\ travaux[r].op \in {"connexion", "changerMdp"}
            /\ t.op = "emettre" /\ t.user = travaux[r].user
  PROVE  /\ comptes' \in [Utilisateurs -> Compte \cup {Absent}]
         /\ ComptesTenus'
         /\ \A v \in Utilisateurs : Existe(v)' <=> Existe(v)
<1>1. PICK u : u = travaux[r].user
  OBVIOUS
<1>2. /\ u \in Utilisateurs /\ Existe(u) /\ comptes[u] \in Compte
      /\ comptes' = [comptes EXCEPT ![u] = comptes'[u]]
      /\ remplaces' \subseteq remplaces \cup {<<u, comptes[u].mdp>>}
  BY <1>1, Enregistre
<1>3. PICK c \in Compte :
         /\ comptes'[u] = Modifiee(travaux[r].op, r, c)
         /\ c = travaux[r].image \/ c = comptes[u]
         /\ c # travaux[r].image => Perime(r, DeCompte(u))
  BY <1>1, Enregistre
<1>4. PICK y : y = comptes'[u]
  OBVIOUS
<1>5. /\ y \in Compte
      /\ y.mdp = c.mdp \/ (y.mdp = r /\ Choisira(r))
      /\ travaux[r].op \in {"connexion", "changerMdp"} => y.actif = c.actif
  BY <1>3, <1>4, ColonnesModifiees DEF Choisira
<1>6. \A v \in Utilisateurs : comptes'[v] = IF v = u THEN y ELSE comptes[v]
  BY <1>2, <1>4 DEF TypeOK
<1>7. comptes' \in [Utilisateurs -> Compte \cup {Absent}]
  BY <1>2, <1>4, <1>5 DEF TypeOK
<1>8. \A v \in Utilisateurs : comptes'[v] # Absent <=> Existe(v)
  BY <1>2, <1>5, <1>6, Presents DEF Existe
<1>9. \A q \in Requetes : travaux'[q] = IF q = r THEN t ELSE travaux[q]
  BY Passage
<1>10. ASSUME NEW q \in Requetes, q # r
       PROVE  /\ travaux[q].op \in DeCompteOps =>
                   /\ comptes'[travaux[q].user] # Absent
                   /\ travaux[q].op \in {"connexion", "changerMdp"} => travaux[q].image.actif
                   /\ <<q, DeCompte(travaux[q].user)>> \notin perimes' => travaux[q].image = comptes'[travaux[q].user]
              /\ travaux[q].op \in {"tourner", "emettre"} /\ <<q, DeCompte(travaux[q].user)>> \notin perimes' =>
                   comptes'[travaux[q].user].actif
  <2>1. PICK v : v = travaux[q].user
    OBVIOUS
  <2>2. CASE travaux[q].op \in DeCompteOps \cup {"tourner", "emettre"}
    <3>1. v \in Utilisateurs /\ DeCompte(v) \in Tenues(q)
      BY <2>1, <2>2, Travail, Formes
    <3>2. CASE v = u
      <4>1. Perime(q, DeCompte(v))'
        BY <1>1, <1>10, <3>1, <3>2, Passage
      <4>. QED  BY <1>8, <2>1, <3>1, <4>1 DEF ComptesTenus, Perime
    <3>3. CASE v # u
      <4>1. comptes'[v] = comptes[v] /\ (Perime(q, DeCompte(v)) => Perime(q, DeCompte(v))')
        BY <1>6, <1>10, <3>1, <3>3, Passage
      <4>. QED  BY <2>1, <4>1 DEF ComptesTenus, Existe, Perime
    <3>. QED  BY <3>2, <3>3
  <2>3. CASE travaux[q].op \notin DeCompteOps \cup {"tourner", "emettre"}
    BY <2>3
  <2>. QED  BY <2>2, <2>3
<1>11. t.op \notin DeCompteOps /\ t.op # "tourner" /\ ~ ChoixDe(t)
  BY DEF DeCompteOps, Operations, ChoixDe
<1>12. ASSUME t.op = "emettre", <<r, DeCompte(t.user)>> \notin perimes'
       PROVE  comptes'[t.user].actif
  <2>1. t # Finie
    BY <1>12 DEF Finie
  <2>2. ~ Perime(r, DeCompte(u)) /\ t.user = u /\ travaux[r].op \in {"connexion", "changerMdp"}
    BY <1>1, <1>12, <2>1, Passage DEF Perime
  <2>3. c = travaux[r].image /\ travaux[r].image.actif
    BY <1>3, <2>2 DEF ComptesTenus
  <2>. QED  BY <1>4, <1>5, <2>2, <2>3
<1>13. ASSUME NEW q \in Requetes, ChoixDe(travaux'[q])
       PROVE  q # r /\ Choisira(q)
  BY <1>9, <1>11, <1>13 DEF Choisira, ChoixDe
<1>14. ASSUME NEW q \in Requetes, ChoixDe(travaux'[q])
       PROVE  /\ \A v \in Utilisateurs : (comptes'[v] # Absent => comptes'[v].mdp # q) /\ <<v, q>> \notin remplaces'
              /\ \A p \in Requetes : travaux'[p].op \in DeCompteOps => travaux'[p].image.mdp # q
  <2>1. q # r /\ Choisira(q)
    BY <1>13, <1>14
  <2>2. comptes[u].mdp # q /\ travaux[r].image.mdp # q
    BY <1>2, <2>1 DEF ComptesTenus
  <2>3. y.mdp # q
    BY <1>3, <1>5, <2>1, <2>2
  <2>4. \A v \in Utilisateurs : comptes'[v] # Absent => comptes'[v].mdp # q
    BY <1>6, <2>1, <2>3 DEF ComptesTenus, Existe
  <2>5. \A v \in Utilisateurs : <<v, q>> \notin remplaces'
    BY <1>2, <2>1, <2>2 DEF ComptesTenus
  <2>6. \A p \in Requetes : travaux'[p].op \in DeCompteOps => travaux'[p].image.mdp # q
    BY <1>9, <1>11, <2>1 DEF ComptesTenus
  <2>. QED  BY <2>4, <2>5, <2>6
<1>15. ComptesTenus'
  <2>1. ASSUME NEW q \in Requetes
        PROVE  /\ travaux'[q].op \in DeCompteOps =>
                    /\ comptes'[travaux'[q].user] # Absent
                    /\ travaux'[q].op \in {"connexion", "changerMdp"} => travaux'[q].image.actif
                    /\ <<q, DeCompte(travaux'[q].user)>> \notin perimes' =>
                         travaux'[q].image = comptes'[travaux'[q].user]
               /\ travaux'[q].op \in {"tourner", "emettre"} /\ <<q, DeCompte(travaux'[q].user)>> \notin perimes' =>
                    comptes'[travaux'[q].user].actif
    <3>1. CASE q = r
      BY <1>9, <1>11, <1>12, <3>1
    <3>2. CASE q # r
      <4>1. travaux'[q] = travaux[q]
        BY <1>9, <3>2
      <4>. QED  BY <1>10, <3>2, <4>1
    <3>. QED  BY <3>1, <3>2
  <2>. QED  BY <1>14, <2>1 DEF ComptesTenus, ChoixDe, Choisira, Existe, Perime
<1>. QED  BY <1>7, <1>8, <1>15 DEF Existe

LEMMA PasSauverCompte ==
  ASSUME Invariant, NEW r \in Requetes, NEW tout \in BOOLEAN, SauverCompte(r, tout)
  PROVE  Invariant'
<1>1. /\ travaux[r].op \in Operations /\ travaux[r].op \in DeCompteOps
      /\ travaux[r].user \in Utilisateurs /\ travaux[r].op # "finie"
  BY Travail, Formes DEF SauverCompte, DeCompteOps, Operations, Invariant
<1>2. PICK t : t = IF travaux[r].op \in {"connexion", "changerMdp"}
                   THEN [op |-> "emettre", user |-> travaux[r].user, session |-> r,
                         tient |-> {DeCompte(travaux[r].user)}]
                   ELSE Finie
  OBVIOUS
<1>3. PICK rows : rows = {DeCompte(travaux[r].user)}
  OBVIOUS
<1>4. /\ Passer(r, t, rows) /\ EnregistrerCompte(r, tout)
      /\ roles' = roles /\ jetons' = jetons /\ liens' = liens /\ usages' = usages
      /\ coupees' = coupees /\ excuses' = excuses
  BY <1>2, <1>3 DEF SauverCompte
<1>5. EstTravail(r, t)
  BY <1>1, <1>2 DEF EstTravail
<1>6. \/ t.op = "finie"
      \/ /\ travaux[r].op \in {"connexion", "changerMdp"}
         /\ t.op = "emettre" /\ t.user = travaux[r].user /\ t.session = r
  BY <1>2 DEF Finie
<1>7. /\ comptes' \in [Utilisateurs -> Compte \cup {Absent}] /\ ComptesTenus'
      /\ \A v \in Utilisateurs : Existe(v)' <=> Existe(v)
  <2>1. DeCompte(travaux[r].user) \in rows
    BY <1>3
  <2>. QED  BY <1>1, <1>4, <1>5, <1>6, <2>1, ComptesEnregistres DEF Invariant
<1>8. TypeOK'
  BY <1>4, <1>5, <1>7, TypeTenu DEF Invariant, TypeOK
<1>9. FideleSession(r, t) /\ FideleLien(r, t) /\ t.op # "retirer"
  BY <1>1, <1>6 DEF FideleSession, FideleLien
<1>10. SessionsTenues'
  BY <1>4, <1>5, <1>9, SessionsCalmes DEF Invariant
<1>11. LiensTenus'
  BY <1>4, <1>5, <1>7, <1>9, LiensCalmes DEF Invariant
<1>12. RolesTenus'
  BY <1>4, <1>5, <1>7, <1>9, RolesCalmes DEF Invariant
<1>. QED  BY <1>7, <1>8, <1>10, <1>11, <1>12 DEF Invariant

(* The second reset by a link finds it stale, and is excused.                 *)
LEMMA PasExecuterReset ==
  ASSUME Invariant, NEW r \in Requetes, NEW tout \in BOOLEAN, ExecuterReset(r, tout)
  PROVE  Invariant'
<1>1. PICK l : l = travaux[r].lien
  OBVIOUS
<1>2. /\ travaux[r].op = "resetLien" /\ travaux[r].op \in DeCompteOps
      /\ travaux[r].user \in Utilisateurs /\ l \in Requetes
      /\ liens[l] # Absent /\ liens[l] \in Lien
  BY <1>1, Travail, Formes DEF ExecuterReset, DeCompteOps, Invariant, LiensTenus, TypeOK
<1>3. PICK rows : rows = {DeLien(l), DeCompte(travaux[r].user)}
  OBVIOUS
<1>4. /\ Passer(r, Finie, rows) /\ EnregistrerCompte(r, tout)
      /\ roles' = roles /\ jetons' = jetons /\ coupees' = coupees
      /\ liens' = [liens EXCEPT ![l].utilise = TRUE]
      /\ usages' = [usages EXCEPT ![l] = @ + 1]
      /\ excuses' = IF Perime(r, DeLien(l)) THEN excuses \cup {DeLien(l)} ELSE excuses
  BY <1>1, <1>3 DEF ExecuterReset, Excuser
<1>5. /\ EstTravail(r, Finie) /\ Finie.op = "finie"
      /\ FideleSession(r, Finie)
  BY <1>2, Fin
<1>6. /\ comptes' \in [Utilisateurs -> Compte \cup {Absent}] /\ ComptesTenus'
      /\ \A v \in Utilisateurs : Existe(v)' <=> Existe(v)
  <2>1. DeCompte(travaux[r].user) \in rows
    BY <1>3
  <2>. QED  BY <1>2, <1>4, <1>5, <2>1, ComptesEnregistres DEF Invariant
<1>7. liens' \in [Requetes -> Lien \cup {Absent}] /\ usages' \in [Requetes -> Nat]
  <2>1. [liens[l] EXCEPT !.utilise = TRUE] \in Lien
    BY <1>2 DEF Lien
  <2>. QED  BY <1>2, <1>4, <2>1 DEF Invariant, TypeOK
<1>8. TypeOK'
  BY <1>4, <1>5, <1>6, <1>7, TypeTenu DEF Invariant, TypeOK
<1>9. SessionsTenues'
  BY <1>4, <1>5, SessionsCalmes DEF Invariant
<1>10. RolesTenus'
  BY <1>4, <1>5, <1>6, RolesCalmes DEF Invariant
<1>11. \A q \in Requetes : travaux'[q] = IF q = r THEN Finie ELSE travaux[q]
  BY <1>4, Passage DEF Invariant
<1>12. /\ liens'[l] # Absent /\ liens'[l].utilise /\ liens'[l].user = liens[l].user
       /\ \A m \in Requetes : m # l => liens'[m] = liens[m] /\ usages'[m] = usages[m]
       /\ usages'[l] = usages[l] + 1 /\ usages[l] \in Nat
  BY <1>2, <1>4, <1>7, Presents DEF Invariant, TypeOK, Lien
<1>13. LiensTenus'
  <2>1. Faite(l)
    BY <1>2 DEF Invariant, LiensTenus
  <2>2. \A m \in Requetes : liens'[m] # Absent \/ usages'[m] # 0 => travaux'[m].op = "finie"
    BY <1>5, <1>11, <1>12, <2>1 DEF Invariant, LiensTenus, Faite
  <2>3. \A m \in Requetes : liens'[m] # Absent => Existe(liens'[m].user) /\ liens'[m].user \in Utilisateurs
    BY <1>2, <1>12 DEF Invariant, LiensTenus, TypeOK, Lien
  <2>4. \A q \in Requetes :
          /\ travaux'[q].op = "resetLien" => liens'[travaux'[q].lien] # Absent
          /\ travaux'[q].op = "demanderLien" => Existe(travaux'[q].user) /\ travaux'[q].user \in Utilisateurs
    <3>1. ASSUME NEW q \in Requetes, q # r
          PROVE  /\ travaux[q].op = "resetLien" => liens'[travaux[q].lien] # Absent
                 /\ travaux[q].op = "demanderLien" => Existe(travaux[q].user) /\ travaux[q].user \in Utilisateurs
      BY <1>12, Travail, Formes DEF Invariant, LiensTenus
    <3>. QED  BY <1>5, <1>11, <3>1
  <2>5. ASSUME NEW m \in Requetes, DeLien(m) \notin excuses'
        PROVE  /\ usages'[m] <= 1
               /\ usages'[m] # 0 /\ liens'[m] # Absent => liens'[m].utilise
               /\ \A q \in Requetes : travaux'[q].op = "resetLien" /\ travaux'[q].lien = m
                    /\ <<q, DeLien(m)>> \notin perimes' => usages'[m] = 0
    <3>1. DeLien(m) \notin excuses
      BY <1>4, <2>5
    <3>2. CASE m # l
      <4>1. ASSUME NEW q \in Requetes, travaux'[q].op = "resetLien", travaux'[q].lien = m,
                   <<q, DeLien(m)>> \notin perimes'
            PROVE  usages[m] = 0
        <5>1. travaux'[q] = travaux[q] /\ ~ Perime(q, DeLien(m))
          BY <1>4, <1>5, <4>1, Passage DEF Invariant, Perime
        <5>. QED  BY <3>1, <4>1, <5>1 DEF Invariant, LiensTenus
      <4>. QED  BY <1>12, <3>1, <3>2, <4>1 DEF Invariant, LiensTenus
    <3>3. CASE m = l
      <4>1. ~ Perime(r, DeLien(l))
        BY <1>4, <2>5, <3>3
      <4>2. usages[l] = 0
        BY <1>1, <1>2, <3>1, <3>3, <4>1 DEF Invariant, LiensTenus
      <4>3. ASSUME NEW q \in Requetes, travaux'[q].op = "resetLien", travaux'[q].lien = m
            PROVE  <<q, DeLien(m)>> \in perimes'
        <5>1. q # r /\ travaux'[q] = travaux[q]
          BY <1>5, <1>11, <4>3
        <5>2. DeLien(m) \in Tenues(q) /\ DeLien(m) \in rows
          BY <1>3, <3>3, <4>3, <5>1, Travail, Formes DEF Invariant
        <5>. QED  BY <1>4, <5>1, <5>2, Passage DEF Invariant, Perime
      <4>. QED  BY <1>12, <3>3, <4>2, <4>3
    <3>. QED  BY <3>2, <3>3
  <2>6. \A v \in Utilisateurs : Existe(v) <=> comptes'[v] # Absent
    BY <1>6 DEF Existe
  <2>. QED  BY <2>2, <2>3, <2>4, <2>5, <2>6 DEF LiensTenus, Faite, Perime, Existe
<1>. QED  BY <1>6, <1>8, <1>9, <1>10, <1>13 DEF Invariant

LEMMA PasCreer ==
  ASSUME Invariant, NEW r \in Requetes, Creer(r)
  PROVE  Invariant'
<1>1. PICK u : u = travaux[r].user
  OBVIOUS
<1>2. /\ travaux[r].op = "creer" /\ travaux[r].op # "finie" /\ Choisira(r)
      /\ u \in Utilisateurs /\ travaux[r].roles \subseteq Roles /\ travaux[r].roles # {}
  BY <1>1, Travail, Formes DEF Creer, Invariant, Choisira
<1>3. PICK y : y = [actif |-> TRUE, mdp |-> r, doitChanger |-> FALSE]
  OBVIOUS
<1>4. y \in Compte /\ y.mdp = r /\ y # Absent
  <2>1. y \in Compte
    BY <1>3 DEF Compte, MotsDePasse
  <2>. QED  BY <1>3, <2>1, Presents
<1>5. /\ ~ Existe(u) /\ comptes' = [comptes EXCEPT ![u] = y] /\ Passer(r, Finie, {})
      /\ jetons' = jetons /\ liens' = liens /\ remplaces' = remplaces /\ usages' = usages
      /\ coupees' = coupees /\ excuses' = excuses
  BY <1>1, <1>3 DEF Creer
<1>6. EstTravail(r, Finie) /\ Finie.op = "finie" /\ FideleSession(r, Finie) /\ FideleLien(r, Finie)
  BY <1>2, Fin
<1>7. \A v \in Utilisateurs : comptes'[v] = IF v = u THEN y ELSE comptes[v]
  BY <1>5 DEF Invariant, TypeOK
<1>8. comptes' \in [Utilisateurs -> Compte \cup {Absent}]
  BY <1>4, <1>5 DEF Invariant, TypeOK
<1>9. \A v \in Utilisateurs : Existe(v)' <=> Existe(v) \/ v = u
  BY <1>4, <1>7 DEF Existe
<1>10. \A x \in Utilisateurs \X Roles :
         roles'[x] = IF x[1] = u /\ x[2] \in travaux[r].roles THEN "actif" ELSE roles[x]
  BY <1>1 DEF Creer
<1>11. roles' \in [Utilisateurs \X Roles -> EtatsRole]
  <2>1. roles' = [x \in Utilisateurs \X Roles |->
                    IF x[1] = u /\ x[2] \in travaux[r].roles THEN "actif" ELSE roles[x]]
    BY <1>1 DEF Creer
  <2>. QED  BY <2>1 DEF Invariant, TypeOK, EtatsRole
<1>12. \A v \in Utilisateurs : RolesActifs(v) \subseteq RolesActifs(v)'
  BY <1>10 DEF RolesActifs
<1>13. RolesActifs(u)' # {}
  <2>1. PICK ro \in Roles : ro \in travaux[r].roles
    BY <1>2
  <2>2. roles'[<<u, ro>>] = "actif"
    BY <1>2, <1>10, <2>1
  <2>. QED  BY <2>1, <2>2 DEF RolesActifs
<1>14. TypeOK'
  BY <1>5, <1>6, <1>8, <1>11, TypeTenu DEF Invariant, TypeOK
<1>15. RolesTenus'
  <2>1. Finie.op # "retirer"
    BY <1>6
  <2>. QED  BY <1>5, <1>6, <1>9, <1>12, <1>13, <2>1, RolesAccrus DEF Invariant
<1>16. SessionsTenues'
  BY <1>5, <1>6, SessionsCalmes DEF Invariant
<1>17. LiensTenus'
  BY <1>5, <1>6, <1>9, LiensCalmes DEF Invariant
<1>18. \A q \in Requetes : travaux'[q] = IF q = r THEN Finie ELSE travaux[q]
  BY <1>5, Passage DEF Invariant
<1>19. ComptesTenus'
  <2>1. ASSUME NEW q \in Requetes, q # r
        PROVE  /\ travaux[q].op \in DeCompteOps =>
                    /\ comptes'[travaux[q].user] # Absent
                    /\ travaux[q].op \in {"connexion", "changerMdp"} => travaux[q].image.actif
                    /\ <<q, DeCompte(travaux[q].user)>> \notin perimes' =>
                         travaux[q].image = comptes'[travaux[q].user]
               /\ travaux[q].op \in {"tourner", "emettre"} /\ <<q, DeCompte(travaux[q].user)>> \notin perimes' =>
                    comptes'[travaux[q].user].actif
    <3>1. \A x : <<q, x>> \notin perimes' => ~ Perime(q, x)
      BY <1>5, <2>1, Passage DEF Invariant, Perime
    <3>2. travaux[q].op \in DeCompteOps => travaux[q].user \in Utilisateurs /\ travaux[q].user # u
      BY <1>5, Travail, Formes DEF Invariant, ComptesTenus
    <3>3. travaux[q].op \in {"tourner", "emettre"} => travaux[q].user \in Utilisateurs
      BY Travail, Formes DEF Invariant
    <3>4. comptes'[u].actif
      BY <1>2, <1>3, <1>7
    <3>. QED  BY <1>7, <3>1, <3>2, <3>3, <3>4 DEF Invariant, ComptesTenus, Existe
  <2>2. Finie.op \notin DeCompteOps \cup {"tourner", "emettre"} /\ ~ ChoixDe(Finie)
    BY <1>6 DEF DeCompteOps, Operations, ChoixDe
  <2>3. ASSUME NEW q \in Requetes, ChoixDe(travaux'[q])
        PROVE  /\ \A v \in Utilisateurs : (comptes'[v] # Absent => comptes'[v].mdp # q) /\ <<v, q>> \notin remplaces'
               /\ \A p \in Requetes : travaux'[p].op \in DeCompteOps => travaux'[p].image.mdp # q
    <3>1. q # r /\ Choisira(q)
      BY <1>18, <2>2, <2>3 DEF Choisira, ChoixDe
    <3>. QED  BY <1>4, <1>5, <1>7, <1>18, <2>2, <3>1 DEF Invariant, ComptesTenus, Existe
  <2>. QED  BY <1>18, <2>1, <2>2, <2>3 DEF ComptesTenus, ChoixDe, Choisira, Existe, Perime
<1>. QED  BY <1>14, <1>15, <1>16, <1>17, <1>19 DEF Invariant

LEMMA PasInsererLien ==
  ASSUME Invariant, NEW r \in Requetes, InsererLien(r)
  PROVE  Invariant'
<1>1. PICK u : u = travaux[r].user
  OBVIOUS
<1>2. /\ travaux[r].op = "demanderLien" /\ travaux[r].op # "finie" /\ u \in Utilisateurs /\ Existe(u)
  BY <1>1, Travail, Formes DEF InsererLien, Invariant, LiensTenus
<1>3. PICK x : x = [user |-> u, utilise |-> FALSE, expire |-> FALSE]
  OBVIOUS
<1>4. x \in Lien /\ x # Absent /\ x.user = u
  <2>1. x \in Lien
    BY <1>2, <1>3 DEF Lien
  <2>. QED  BY <1>3, <2>1, Presents
<1>5. /\ liens' = [liens EXCEPT ![r] = x] /\ Passer(r, Finie, {})
      /\ comptes' = comptes /\ roles' = roles /\ jetons' = jetons /\ remplaces' = remplaces
      /\ usages' = usages /\ coupees' = coupees /\ excuses' = excuses
  BY <1>1, <1>3 DEF InsererLien
<1>6. /\ EstTravail(r, Finie) /\ Finie.op = "finie" /\ FideleCompte(r, Finie)
      /\ FideleSession(r, Finie)
  BY <1>2, Fin
<1>7. liens' \in [Requetes -> Lien \cup {Absent}]
  BY <1>4, <1>5 DEF Invariant, TypeOK
<1>8. TypeOK'
  BY <1>5, <1>6, <1>7, TypeTenu DEF Invariant, TypeOK
<1>9. ComptesTenus'
  BY <1>5, <1>6, ComptesCalmes DEF Invariant
<1>10. SessionsTenues'
  BY <1>5, <1>6, SessionsCalmes DEF Invariant
<1>11. RolesTenus'
  BY <1>5, <1>6, RolesCalmes DEF Invariant, Existe
<1>12. \A q \in Requetes : travaux'[q] = IF q = r THEN Finie ELSE travaux[q]
  BY <1>5, Passage DEF Invariant
<1>13. /\ liens'[r] = x /\ liens[r] = Absent /\ usages[r] = 0
       /\ \A l \in Requetes : l # r => liens'[l] = liens[l]
  BY <1>2, <1>5 DEF Invariant, TypeOK, LiensTenus, Faite
<1>14. LiensTenus'
  <2>1. \A l \in Requetes : liens'[l] # Absent \/ usages[l] # 0 => travaux'[l].op = "finie"
    BY <1>6, <1>12, <1>13 DEF Invariant, LiensTenus, Faite
  <2>2. \A l \in Requetes : liens'[l] # Absent => Existe(liens'[l].user)
    BY <1>2, <1>4, <1>13 DEF Invariant, LiensTenus
  <2>3. \A q \in Requetes :
          /\ travaux'[q].op = "resetLien" =>
               travaux'[q].lien # r /\ liens'[travaux'[q].lien] # Absent
          /\ travaux'[q].op = "demanderLien" => Existe(travaux'[q].user)
    <3>1. ASSUME NEW q \in Requetes, q # r, travaux[q].op = "resetLien"
          PROVE  travaux[q].lien # r /\ liens'[travaux[q].lien] # Absent
      <4>1. travaux[q].lien \in Requetes /\ liens[travaux[q].lien] # Absent
        BY <3>1, Travail, Formes DEF Invariant, LiensTenus
      <4>. QED  BY <1>13, <4>1
    <3>. QED  BY <1>6, <1>12, <3>1 DEF Invariant, LiensTenus
  <2>4. \A l \in Requetes : DeLien(l) \notin excuses =>
          /\ usages[l] <= 1
          /\ usages[l] # 0 /\ liens'[l] # Absent => liens'[l].utilise
    BY <1>13 DEF Invariant, LiensTenus
  <2>5. ASSUME NEW l \in Requetes, DeLien(l) \notin excuses, NEW q \in Requetes,
               travaux'[q].op = "resetLien", travaux'[q].lien = l, <<q, DeLien(l)>> \notin perimes'
        PROVE  usages[l] = 0
    <3>1. q # r /\ travaux'[q] = travaux[q]
      BY <1>6, <1>12, <2>5
    <3>2. ~ Perime(q, DeLien(l))
      BY <1>5, <2>5, <3>1, Passage DEF Invariant, Perime
    <3>. QED  BY <2>5, <3>1, <3>2 DEF Invariant, LiensTenus
  <2>. QED  BY <1>5, <2>1, <2>2, <2>3, <2>4, <2>5 DEF LiensTenus, Faite, Perime, Existe
<1>. QED  BY <1>8, <1>9, <1>10, <1>11, <1>14 DEF Invariant

LEMMA PasAttribuer ==
  ASSUME Invariant, NEW r \in Requetes, Attribuer(r)
  PROVE  Invariant'
<1>1. /\ travaux[r].op = "attribuer" /\ travaux[r].op # "finie"
      /\ travaux[r].cle \in Utilisateurs \X Roles
  BY Travail, Formes DEF Attribuer, Invariant
<1>2. /\ roles' = [roles EXCEPT ![travaux[r].cle] = "actif"] /\ Passer(r, Finie, {})
      /\ comptes' = comptes /\ jetons' = jetons /\ liens' = liens /\ remplaces' = remplaces
      /\ usages' = usages /\ coupees' = coupees /\ excuses' = excuses
  BY DEF Attribuer
<1>3. /\ EstTravail(r, Finie) /\ Finie.op = "finie" /\ FideleCompte(r, Finie)
      /\ FideleSession(r, Finie) /\ FideleLien(r, Finie)
  BY <1>1, Fin
<1>4. roles' \in [Utilisateurs \X Roles -> EtatsRole]
  BY <1>1, <1>2 DEF Invariant, TypeOK, EtatsRole
<1>5. TypeOK'
  BY <1>2, <1>3, <1>4, TypeTenu DEF Invariant, TypeOK
<1>6. ComptesTenus'
  BY <1>2, <1>3, ComptesCalmes DEF Invariant
<1>7. SessionsTenues'
  BY <1>2, <1>3, SessionsCalmes DEF Invariant
<1>8. LiensTenus'
  BY <1>2, <1>3, LiensCalmes DEF Invariant, Existe
<1>9. RolesTenus'
  <2>1. \A v \in Utilisateurs : RolesActifs(v) \subseteq RolesActifs(v)'
    <3>1. \A x \in Utilisateurs \X Roles : roles[x] = "actif" => roles'[x] = "actif"
      BY <1>1, <1>2 DEF Invariant, TypeOK
    <3>. QED  BY <3>1 DEF RolesActifs
  <2>2. Finie.op # "retirer" /\ \A v \in Utilisateurs : Existe(v)' => Existe(v)
    BY <1>2, <1>3 DEF Existe
  <2>. QED  BY <1>2, <1>3, <2>1, <2>2, RolesAccrus DEF Invariant
<1>. QED  BY <1>5, <1>6, <1>7, <1>8, <1>9 DEF Invariant

(* The removal that leaves nothing was stale, and is excused.                 *)
LEMMA PasRetirer ==
  ASSUME Invariant, NEW r \in Requetes, Retirer(r)
  PROVE  Invariant'
<1>1. PICK u, ro : u = travaux[r].cle[1] /\ ro = travaux[r].cle[2]
  OBVIOUS
<1>2. /\ travaux[r].op = "retirer" /\ travaux[r].op # "finie"
      /\ travaux[r].cle = <<u, ro>> /\ u \in Utilisateurs /\ ro \in Roles
  BY <1>1, Travail, Formes DEF Retirer, Invariant
<1>3. PICK rows : rows = {DesRoles(u)}
  OBVIOUS
<1>4. /\ roles' = [roles EXCEPT ![<<u, ro>>] = "inactif"] /\ Passer(r, Finie, rows)
      /\ excuses' = IF Perime(r, DesRoles(u)) THEN excuses \cup {DesRoles(u)} ELSE excuses
      /\ comptes' = comptes /\ jetons' = jetons /\ liens' = liens /\ remplaces' = remplaces
      /\ usages' = usages /\ coupees' = coupees
  BY <1>1, <1>2, <1>3 DEF Retirer, Excuser
<1>5. /\ EstTravail(r, Finie) /\ Finie.op = "finie" /\ FideleCompte(r, Finie)
      /\ FideleSession(r, Finie) /\ FideleLien(r, Finie)
  BY <1>2, Fin
<1>6. roles' \in [Utilisateurs \X Roles -> EtatsRole]
  BY <1>2, <1>4 DEF Invariant, TypeOK, EtatsRole
<1>7. TypeOK'
  BY <1>4, <1>5, <1>6, TypeTenu DEF Invariant, TypeOK
<1>8. ComptesTenus'
  BY <1>4, <1>5, ComptesCalmes DEF Invariant
<1>9. SessionsTenues'
  BY <1>4, <1>5, SessionsCalmes DEF Invariant
<1>10. LiensTenus'
  BY <1>4, <1>5, LiensCalmes DEF Invariant, Existe
<1>11. \A v \in Utilisateurs : RolesActifs(v)' = IF v = u THEN RolesActifs(v) \ {ro} ELSE RolesActifs(v)
  <2>1. \A v \in Utilisateurs : \A x \in Roles :
          roles'[<<v, x>>] = IF v = u /\ x = ro THEN "inactif" ELSE roles[<<v, x>>]
    BY <1>2, <1>4 DEF Invariant, TypeOK
  <2>. QED  BY <2>1 DEF RolesActifs
<1>12. RolesTenus'
  <2>1. ASSUME NEW v \in Utilisateurs, Existe(v), DesRoles(v) \notin excuses'
        PROVE  RolesActifs(v)' # {}
    <3>1. CASE v # u
      BY <1>4, <1>11, <2>1, <3>1 DEF Invariant, RolesTenus, RoleActif
    <3>2. CASE v = u
      <4>1. ~ Perime(r, DesRoles(u)) /\ DesRoles(u) \notin excuses
        BY <1>4, <2>1, <3>2
      <4>2. \E x \in RolesActifs(u) : x # ro
        BY <1>1, <1>2, <4>1 DEF Invariant, RolesTenus
      <4>. QED  BY <1>11, <3>2, <4>2
    <3>. QED  BY <3>1, <3>2
  <2>2. ASSUME NEW q \in Requetes, NEW v, v = travaux'[q].cle[1], travaux'[q].op = "retirer",
               <<q, DesRoles(v)>> \notin perimes', DesRoles(v) \notin excuses'
        PROVE  \E x \in RolesActifs(v)' : x # travaux'[q].cle[2]
    <3>1. q # r /\ travaux'[q] = travaux[q]
      BY <1>4, <1>5, <2>2, Passage DEF Invariant
    <3>2. ~ Perime(q, DesRoles(v)) /\ v \in Utilisateurs /\ DesRoles(v) \in Tenues(q)
      BY <1>4, <2>2, <3>1, Passage, Travail, Formes DEF Invariant, Perime
    <3>3. v # u
      <4>1. DesRoles(v) \in rows => <<q, DesRoles(v)>> \in perimes'
        BY <1>4, <3>1, <3>2, Passage DEF Invariant, Perime
      <4>. QED  BY <1>3, <2>2, <4>1
    <3>4. \E x \in RolesActifs(v) : x # travaux[q].cle[2]
      BY <1>4, <2>2, <3>1, <3>2 DEF Invariant, RolesTenus
    <3>. QED  BY <1>11, <3>1, <3>2, <3>3, <3>4
  <2>. QED  BY <1>4, <2>1, <2>2 DEF RolesTenus, RoleActif, Perime, Existe
<1>. QED  BY <1>7, <1>8, <1>9, <1>10, <1>12 DEF Invariant

(* Time passes: no request moves.                                            *)
LEMMA PasDuTemps ==
  ASSUME Invariant, NEW x \in Requetes, Expirer(x) \/ Nettoyer(x)
  PROVE  Invariant'
<1>1. /\ comptes' = comptes /\ roles' = roles /\ travaux' = travaux /\ perimes' = perimes
      /\ remplaces' = remplaces /\ usages' = usages /\ coupees' = coupees /\ excuses' = excuses
  BY DEF Expirer, Nettoyer, histoire
<1>2. ComptesTenus'
  BY <1>1 DEF Invariant, ComptesTenus, Existe, Choisira, Perime
<1>3. RolesTenus'
  BY <1>1 DEF Invariant, RolesTenus, RoleActif, RolesActifs, Existe, Perime
<1>4. /\ jetons' \in [Requetes -> Jeton \cup {Absent}]
      /\ \A j \in Requetes :
           jetons'[j] = jetons[j] \/
           (/\ jetons[j] \in Jeton /\ jetons'[j] \in Jeton
            /\ jetons'[j].session = jetons[j].session /\ jetons'[j].revoque = jetons[j].revoque)
  <2>1. CASE UNCHANGED jetons
    BY <2>1 DEF Invariant, TypeOK
  <2>2. CASE jetons[x] # Absent /\ jetons' = [jetons EXCEPT ![x].expire = TRUE]
    <3>1. PICK y : y = [jetons[x] EXCEPT !.expire = TRUE]
      OBVIOUS
    <3>2. jetons[x] \in Jeton
      BY <2>2 DEF Invariant, TypeOK
    <3>3. y \in Jeton /\ y.session = jetons[x].session /\ y.revoque = jetons[x].revoque
      BY <3>1, <3>2 DEF Jeton
    <3>4. jetons' = [jetons EXCEPT ![x] = y]
      BY <2>2, <3>1
    <3>5. \A j \in Requetes : jetons'[j] = IF j = x THEN y ELSE jetons[j]
      BY <3>4 DEF Invariant, TypeOK
    <3>6. jetons' \in [Requetes -> Jeton \cup {Absent}]
      BY <3>3, <3>4 DEF Invariant, TypeOK
    <3>. QED  BY <3>2, <3>3, <3>5, <3>6
  <2>. QED  BY <2>1, <2>2 DEF Expirer, Nettoyer
<1>5. /\ liens' \in [Requetes -> Lien \cup {Absent}]
      /\ \A l \in Requetes :
           \/ liens'[l] = liens[l]
           \/ liens'[l] = Absent /\ \A r \in Requetes : DeLien(l) \notin Tenues(r)
           \/ /\ liens[l] \in Lien /\ liens'[l] \in Lien
              /\ liens'[l].user = liens[l].user /\ liens'[l].utilise = liens[l].utilise
  <2>1. CASE UNCHANGED liens
    BY <2>1 DEF Invariant, TypeOK
  <2>2. CASE liens[x] # Absent /\ liens' = [liens EXCEPT ![x].expire = TRUE]
    <3>1. PICK y : y = [liens[x] EXCEPT !.expire = TRUE]
      OBVIOUS
    <3>2. liens[x] \in Lien
      BY <2>2 DEF Invariant, TypeOK
    <3>3. y \in Lien /\ y.user = liens[x].user /\ y.utilise = liens[x].utilise
      BY <3>1, <3>2 DEF Lien
    <3>4. liens' = [liens EXCEPT ![x] = y]
      BY <2>2, <3>1
    <3>5. \A l \in Requetes : liens'[l] = IF l = x THEN y ELSE liens[l]
      BY <3>4 DEF Invariant, TypeOK
    <3>6. liens' \in [Requetes -> Lien \cup {Absent}]
      BY <3>3, <3>4 DEF Invariant, TypeOK
    <3>. QED  BY <3>2, <3>3, <3>5, <3>6
  <2>3. CASE Nettoyer(x)
    <3>1. liens' = [liens EXCEPT ![x] = Absent] /\ \A r \in Requetes : DeLien(x) \notin Tenues(r)
      BY <2>3 DEF Nettoyer
    <3>2. liens' \in [Requetes -> Lien \cup {Absent}]
      BY <3>1 DEF Invariant, TypeOK
    <3>3. \A l \in Requetes : liens'[l] = IF l = x THEN Absent ELSE liens[l]
      BY <3>1 DEF Invariant, TypeOK
    <3>. QED  BY <3>1, <3>2, <3>3
  <2>. QED  BY <2>1, <2>2, <2>3 DEF Expirer
<1>6. TypeOK'
  BY <1>1, <1>4, <1>5 DEF Invariant, TypeOK
<1>7. SessionsTenues'
  <2>1. \A j \in Requetes :
          /\ jetons'[j] # Absent <=> jetons[j] # Absent
          /\ jetons[j] # Absent => /\ jetons'[j].session = jetons[j].session
                                   /\ jetons'[j].revoque <=> jetons[j].revoque
    BY <1>4, Presents
  <2>2. \A s : Actifs(s)' = Actifs(s)
    BY <2>1 DEF Actifs
  <2>3. \A j \in Requetes : jetons'[j] # Absent => Faite(j) /\ Faite(jetons'[j].session)
    BY <2>1 DEF Invariant, SessionsTenues
  <2>4. \A r \in Requetes : travaux[r].op \in {"rafraichir", "tourner"} =>
          /\ jetons'[travaux[r].jeton] # Absent
          /\ jetons'[travaux[r].jeton].session = travaux[r].session
    <3>1. \A r \in Requetes : travaux[r].op \in {"rafraichir", "tourner"} => travaux[r].jeton \in Requetes
      BY Travail, Formes DEF Invariant
    <3>. QED  BY <2>1, <3>1 DEF Invariant, SessionsTenues
  <2>5. \A r, s : (EnRotation(r, s)' <=> EnRotation(r, s)) /\ (Emettra(r, s)' <=> Emettra(r, s))
    BY <1>1 DEF EnRotation, Emettra, Perime
  <2>. QED  BY <1>1, <2>2, <2>3, <2>4, <2>5 DEF Invariant, SessionsTenues, Faite
<1>8. LiensTenus'
  <2>1. \A l \in Requetes : liens'[l] # Absent =>
          liens[l] # Absent /\ liens'[l].user = liens[l].user /\ (liens'[l].utilise <=> liens[l].utilise)
    BY <1>5, Presents
  <2>2. \A r \in Requetes : travaux[r].op = "resetLien" => liens'[travaux[r].lien] # Absent
    <3>1. ASSUME NEW r \in Requetes, travaux[r].op = "resetLien"
          PROVE  liens'[travaux[r].lien] # Absent
      <4>1. /\ travaux[r].lien \in Requetes /\ DeLien(travaux[r].lien) \in Tenues(r)
            /\ liens[travaux[r].lien] # Absent
        BY <3>1, Travail, Formes DEF Invariant, LiensTenus
      <4>. QED  BY <1>5, <4>1, Presents
    <3>. QED  BY <3>1
  <2>3. \A l \in Requetes : liens'[l] # Absent => Existe(liens'[l].user)
    BY <2>1 DEF Invariant, LiensTenus
  <2>4. \A l \in Requetes : DeLien(l) \notin excuses =>
          (usages[l] # 0 /\ liens'[l] # Absent => liens'[l].utilise)
    BY <2>1 DEF Invariant, LiensTenus
  <2>5. \A l \in Requetes : liens'[l] # Absent => Faite(l)
    BY <2>1 DEF Invariant, LiensTenus
  <2>. QED  BY <1>1, <2>2, <2>3, <2>4, <2>5 DEF Invariant, LiensTenus, Faite, Perime, Existe
<1>. QED  BY <1>2, <1>3, <1>6, <1>7, <1>8 DEF Invariant

-----------------------------------------------------------------------------
(* The sessions.                                                             *)

(* Who still reads or rotates a session freshly has not been overtaken.        *)
LEMMA NonDevancee ==
  ASSUME TypeOK, SessionsTenues, NEW r \in Requetes, NEW t, NEW rows, Passer(r, t, rows),
         NEW q \in Requetes, q # r, NEW s \in Requetes
  PROVE  /\ travaux'[q] = travaux[q]
         /\ EnRotation(q, s)' => EnRotation(q, s) /\ DeSession(s) \notin rows
         /\ Emettra(q, s)' => Emettra(q, s) /\ (Faite(s) => DeSession(s) \notin rows)
<1>1. /\ travaux'[q] = travaux[q] /\ \A x : Perime(q, x) => Perime(q, x)'
      /\ \A x \in rows : x \in Tenues(q) => Perime(q, x)'
  BY Passage
<1>2. travaux[q].op \in {"rafraichir", "tourner"} => DeSession(travaux[q].session) \in Tenues(q)
  BY Travail, Formes
<1>3. travaux[q].op = "emettre" /\ travaux[q].session # q => DeSession(travaux[q].session) \in Tenues(q)
  BY Travail, Formes
<1>. QED  BY <1>1, <1>2, <1>3 DEF EnRotation, Emettra, Faite

LEMMA PasEmettre ==
  ASSUME Invariant, NEW r \in Requetes, Emettre(r)
  PROVE  Invariant'
<1>1. PICK u, s : u = travaux[r].user /\ s = travaux[r].session
  OBVIOUS
<1>2. /\ travaux[r].op = "emettre" /\ travaux[r].op # "finie"
      /\ u \in Utilisateurs /\ s \in Requetes
  BY <1>1, Travail, Formes DEF Emettre, Invariant
<1>3. PICK y : y = [user |-> u, session |-> s, revoque |-> FALSE, expire |-> FALSE]
  OBVIOUS
<1>4. y \in Jeton /\ y # Absent /\ y.session = s /\ ~ y.revoque
  <2>1. y \in Jeton
    BY <1>2, <1>3 DEF Jeton
  <2>. QED  BY <1>3, <2>1, Presents
<1>5. /\ jetons' = [jetons EXCEPT ![r] = y] /\ Passer(r, Finie, {})
      /\ excuses' = IF Perime(r, DeSession(s)) THEN excuses \cup {DeSession(s)} ELSE excuses
      /\ comptes' = comptes /\ roles' = roles /\ liens' = liens /\ remplaces' = remplaces
      /\ usages' = usages /\ coupees' = coupees
  BY <1>1, <1>3 DEF Emettre, Excuser
<1>6. /\ EstTravail(r, Finie) /\ Finie.op = "finie" /\ FideleCompte(r, Finie) /\ FideleLien(r, Finie)
  BY <1>2, Fin
<1>7. jetons' \in [Requetes -> Jeton \cup {Absent}]
  BY <1>4, <1>5 DEF Invariant, TypeOK
<1>8. TypeOK'
  BY <1>5, <1>6, <1>7, TypeTenu DEF Invariant, TypeOK
<1>9. ComptesTenus'
  BY <1>5, <1>6, ComptesCalmes DEF Invariant
<1>10. LiensTenus'
  BY <1>5, <1>6, LiensCalmes DEF Invariant, Existe
<1>11. RolesTenus'
  BY <1>5, <1>6, RolesCalmes DEF Invariant, Existe
<1>12. \A q \in Requetes : travaux'[q] = IF q = r THEN Finie ELSE travaux[q]
  BY <1>5, Passage DEF Invariant
<1>13. jetons[r] = Absent /\ \A j \in Requetes : jetons'[j] = IF j = r THEN y ELSE jetons[j]
  BY <1>2, <1>5 DEF Invariant, TypeOK, SessionsTenues, Faite
<1>14. \A q \in Requetes : Faite(q) => travaux'[q].op = "finie"
  BY <1>6, <1>12 DEF Faite
<1>15. \A j \in Requetes : jetons'[j] # Absent => travaux'[j].op = "finie" /\ travaux'[jetons'[j].session].op = "finie"
  <2>1. s = r \/ Faite(s)
    BY <1>1, <1>2 DEF Invariant, SessionsTenues
  <2>2. \A j \in Requetes : jetons[j] # Absent => jetons[j].session \in Requetes
    BY DEF Invariant, TypeOK, Jeton
  <2>. QED  BY <1>2, <1>4, <1>6, <1>12, <1>13, <1>14, <2>1, <2>2 DEF Invariant, SessionsTenues
<1>16. \A q \in Requetes :
         /\ travaux'[q].op \in {"rafraichir", "tourner"} =>
              /\ jetons'[travaux'[q].jeton] # Absent
              /\ jetons'[travaux'[q].jeton].session = travaux'[q].session
         /\ travaux'[q].op = "emettre" /\ travaux'[q].session # q => travaux'[travaux'[q].session].op = "finie"
  <2>1. ASSUME NEW q \in Requetes, q # r
        PROVE  /\ travaux[q].op \in {"rafraichir", "tourner"} =>
                    /\ jetons'[travaux[q].jeton] # Absent
                    /\ jetons'[travaux[q].jeton].session = travaux[q].session
               /\ travaux[q].op = "emettre" /\ travaux[q].session # q => travaux'[travaux[q].session].op = "finie"
    <3>1. /\ travaux[q].op \in {"rafraichir", "tourner"} => travaux[q].jeton \in Requetes
          /\ travaux[q].op = "emettre" => travaux[q].session \in Requetes
      BY Travail, Formes DEF Invariant
    <3>. QED  BY <1>13, <1>14, <3>1 DEF Invariant, SessionsTenues
  <2>. QED  BY <1>6, <1>12, <2>1
<1>17. \A x \in Requetes : Actifs(x)' = IF x = s THEN Actifs(x) \cup {r} ELSE Actifs(x)
  BY <1>4, <1>13 DEF Actifs
<1>18. ASSUME NEW x \in Requetes, DeSession(x) \notin excuses'
       PROVE  /\ \A i, j \in Actifs(x)' : i = j
              /\ x \in coupees => Actifs(x)' = {}
              /\ \A q \in Requetes : EnRotation(q, x)' => travaux'[q].jeton \in Actifs(x)'
              /\ \A q \in Requetes : Emettra(q, x)' =>
                   Actifs(x)' = {} /\ x \notin coupees /\ \A p \in Requetes : Emettra(p, x)' => p = q
  <2>1. DeSession(x) \notin excuses
    BY <1>5, <1>18
  <2>2. ~ EnRotation(r, x)' /\ ~ Emettra(r, x)'
    BY <1>6, <1>12 DEF EnRotation, Emettra
  <2>3. \A q \in Requetes : EnRotation(q, x)' => EnRotation(q, x) /\ travaux'[q] = travaux[q]
    BY <1>5, <2>2, NonDevancee DEF Invariant
  <2>4. \A q \in Requetes : Emettra(q, x)' => Emettra(q, x) /\ q # r
    BY <1>5, <2>2, NonDevancee DEF Invariant
  <2>5. CASE x # s
    <3>1. Actifs(x)' = Actifs(x)
      BY <1>17, <2>5
    <3>. QED  BY <2>1, <2>3, <2>4, <3>1 DEF Invariant, SessionsTenues
  <2>6. CASE x = s
    <3>1. Emettra(r, x)
      BY <1>1, <1>2, <1>5, <1>18, <2>6 DEF Emettra
    <3>2. /\ Actifs(x) = {} /\ x \notin coupees
          /\ \A q \in Requetes : Emettra(q, x) => q = r
      BY <2>1, <3>1 DEF Invariant, SessionsTenues
    <3>3. \A q \in Requetes : ~ EnRotation(q, x)
      BY <2>1, <3>2 DEF Invariant, SessionsTenues
    <3>4. Actifs(x)' = {r}
      BY <1>17, <2>6, <3>2
    <3>. QED  BY <2>3, <2>4, <3>2, <3>3, <3>4
  <2>. QED  BY <2>5, <2>6
<1>19. \A x \in coupees : x \in Requetes /\ travaux'[x].op = "finie"
  BY <1>14 DEF Invariant, SessionsTenues
<1>20. SessionsTenues'
  BY <1>5, <1>15, <1>16, <1>18, <1>19 DEF SessionsTenues, Faite
<1>. QED  BY <1>8, <1>9, <1>10, <1>11, <1>20 DEF Invariant

(* Tokens K are revoked, the sessions C are cut by it, and r ends, or goes on   *)
(* to issue the next token of a session it holds alone.                        *)
LEMMA SessionsRevoquees ==
  ASSUME Invariant, NEW r \in Requetes, NEW t, NEW rows, NEW K \in SUBSET Requetes, NEW C,
         Passer(r, t, rows), EstTravail(r, t), travaux[r].op # "finie",
         \A k \in K : jetons[k] # Absent /\ DeSession(jetons[k].session) \in rows,
         jetons' = [j \in Requetes |-> IF j \in K THEN [jetons[j] EXCEPT !.revoque = TRUE] ELSE jetons[j]],
         coupees' = coupees \cup C,
         \A s \in C : \E k \in K : s = jetons[k].session /\ ~ jetons[k].revoque,
         t.op \in {"finie", "emettre"},
         t.op = "emettre" =>
           /\ Faite(t.session) /\ DeSession(t.session) \in rows /\ C = {}
           /\ \/ Perime(r, DeSession(t.session)) \/ DeSession(t.session) \in excuses
              \/ t.session \notin coupees /\ Actifs(t.session) \subseteq K,
         excuses \subseteq excuses'
  PROVE  SessionsTenues' /\ jetons' \in [Requetes -> Jeton \cup {Absent}]
<1>1. \A q \in Requetes : travaux'[q] = IF q = r THEN t ELSE travaux[q]
  BY Passage DEF Invariant
<1>2. \A q \in Requetes : Faite(q) => travaux'[q].op = "finie"
  BY <1>1 DEF Faite
<1>3. \A j \in Requetes :
        /\ jetons[j] # Absent => jetons[j] \in Jeton
        /\ j \in K => /\ jetons'[j] \in Jeton /\ jetons'[j].session = jetons[j].session
                      /\ jetons'[j].revoque
        /\ j \notin K => jetons'[j] = jetons[j]
  <2>1. \A j \in Requetes : jetons[j] # Absent => jetons[j] \in Jeton
    BY DEF Invariant, TypeOK
  <2>2. ASSUME NEW y \in Jeton
        PROVE  /\ [y EXCEPT !.revoque = TRUE] \in Jeton
               /\ [y EXCEPT !.revoque = TRUE].session = y.session
               /\ [y EXCEPT !.revoque = TRUE].revoque
    BY DEF Jeton
  <2>. QED  BY <2>1, <2>2
<1>4. jetons' \in [Requetes -> Jeton \cup {Absent}]
  BY <1>3 DEF Invariant, TypeOK
<1>5. \A j \in Requetes : jetons'[j] # Absent =>
        jetons[j] # Absent /\ jetons'[j].session = jetons[j].session
  BY <1>3
<1>6. \A j \in Requetes : jetons[j] # Absent =>
        jetons'[j] # Absent /\ jetons'[j].session = jetons[j].session /\ jetons[j].session \in Requetes
  BY <1>3, Presents DEF Jeton
<1>7. \A x : Actifs(x)' = Actifs(x) \ K
  BY <1>3, <1>5, Presents DEF Actifs
<1>8. \A j \in Requetes : jetons'[j] # Absent => travaux'[j].op = "finie" /\ travaux'[jetons'[j].session].op = "finie"
  BY <1>2, <1>5, <1>6 DEF Invariant, SessionsTenues
<1>9. \A x \in coupees' : x \in Requetes /\ travaux'[x].op = "finie"
  BY <1>2, <1>6 DEF Invariant, SessionsTenues
<1>10. \A q \in Requetes :
         /\ travaux'[q].op \in {"rafraichir", "tourner"} =>
              /\ jetons'[travaux'[q].jeton] # Absent
              /\ jetons'[travaux'[q].jeton].session = travaux'[q].session
         /\ travaux'[q].op = "emettre" /\ travaux'[q].session # q => travaux'[travaux'[q].session].op = "finie"
  <2>1. ASSUME NEW q \in Requetes, q # r
        PROVE  /\ travaux[q].op \in {"rafraichir", "tourner"} =>
                    /\ jetons'[travaux[q].jeton] # Absent
                    /\ jetons'[travaux[q].jeton].session = travaux[q].session
               /\ travaux[q].op = "emettre" /\ travaux[q].session # q => travaux'[travaux[q].session].op = "finie"
    <3>1. /\ travaux[q].op \in {"rafraichir", "tourner"} => travaux[q].jeton \in Requetes
          /\ travaux[q].op = "emettre" => travaux[q].session \in Requetes
      BY Travail, Formes DEF Invariant
    <3>. QED  BY <1>2, <1>6, <3>1 DEF Invariant, SessionsTenues
  <2>2. t.op = "emettre" => t.session \in Requetes
    BY Formes
  <2>. QED  BY <1>1, <1>2, <2>1, <2>2
<1>11. ASSUME NEW x \in Requetes, DeSession(x) \notin excuses'
       PROVE  /\ \A i, j \in Actifs(x)' : i = j
              /\ x \in coupees' => Actifs(x)' = {}
              /\ \A q \in Requetes : EnRotation(q, x)' => travaux'[q].jeton \in Actifs(x)'
              /\ \A q \in Requetes : Emettra(q, x)' =>
                   Actifs(x)' = {} /\ x \notin coupees' /\ \A p \in Requetes : Emettra(p, x)' => p = q
  <2>1. DeSession(x) \notin excuses
    BY <1>11
  <2>2. \A i, j \in Actifs(x) : i = j
    BY <2>1 DEF Invariant, SessionsTenues
  <2>3. x \in coupees' => Actifs(x)' = {}
    <3>1. CASE x \in coupees
      BY <1>7, <2>1, <3>1 DEF Invariant, SessionsTenues
    <3>2. CASE x \in C
      <4>1. PICK k \in K : k \in Actifs(x)
        BY <3>2 DEF Actifs
      <4>. QED  BY <1>7, <2>2, <4>1
    <3>. QED  BY <3>1, <3>2
  <2>4. ASSUME NEW q \in Requetes, EnRotation(q, x)'
        PROVE  travaux'[q].jeton \in Actifs(x)'
    <3>1. q # r
      BY <1>1, <2>4 DEF EnRotation
    <3>2. EnRotation(q, x) /\ DeSession(x) \notin rows /\ travaux'[q] = travaux[q]
      BY <2>4, <3>1, NonDevancee DEF Invariant
    <3>3. travaux[q].jeton \in Actifs(x)
      BY <2>1, <3>2 DEF Invariant, SessionsTenues
    <3>4. \A k \in K : jetons[k].session # x
      BY <3>2
    <3>5. travaux[q].jeton \notin K
      BY <3>3, <3>4 DEF Actifs
    <3>. QED  BY <1>7, <3>2, <3>3, <3>5
  <2>5. ASSUME NEW q \in Requetes, q # r, Emettra(q, x)'
        PROVE  /\ Emettra(q, x) /\ Actifs(x)' = {} /\ x \notin coupees'
               /\ Faite(x) => DeSession(x) \notin rows
    <3>1. Emettra(q, x) /\ (Faite(x) => DeSession(x) \notin rows)
      BY <2>5, NonDevancee DEF Invariant
    <3>2. Actifs(x) = {} /\ x \notin coupees
      BY <2>1, <3>1 DEF Invariant, SessionsTenues
    <3>3. x \notin C
      BY <3>2 DEF Actifs
    <3>. QED  BY <1>7, <3>1, <3>2, <3>3
  <2>6. ASSUME Emettra(r, x)'
        PROVE  Actifs(x)' = {} /\ x \notin coupees' /\ Faite(x) /\ DeSession(x) \in rows
    <3>1. t.op = "emettre" /\ t.session = x /\ ~ Perime(r, DeSession(x))'
      BY <1>1, <2>6 DEF Emettra
    <3>2. ~ Perime(r, DeSession(x))
      BY <3>1, Passage DEF Invariant, Finie
    <3>. QED  BY <1>7, <2>1, <3>1, <3>2
  <2>7. ASSUME NEW q \in Requetes, NEW p \in Requetes, Emettra(q, x)', Emettra(p, x)'
        PROVE  p = q
    BY <2>1, <2>5, <2>6, <2>7 DEF Invariant, SessionsTenues
  <2>. QED  BY <1>7, <2>2, <2>3, <2>4, <2>5, <2>6, <2>7
<1>12. SessionsTenues'
  BY <1>8, <1>9, <1>10, <1>11 DEF SessionsTenues, Faite
<1>. QED  BY <1>4, <1>12

(* The rest of a step that only touches the tokens.                           *)
LEMMA PasDeSession ==
  ASSUME Invariant, NEW r \in Requetes, NEW t, NEW rows, Passer(r, t, rows), EstTravail(r, t),
         travaux[r].op # "finie", FideleCompte(r, t), t.op \in {"finie", "emettre"},
         SessionsTenues', jetons' \in [Requetes -> Jeton \cup {Absent}],
         UNCHANGED <<comptes, roles, liens, remplaces, usages>>, excuses \subseteq excuses'
  PROVE  Invariant'
<1>1. FideleLien(r, t) /\ t.op # "retirer"
  BY DEF FideleLien
<1>2. /\ comptes' = comptes /\ roles' = roles /\ liens' = liens
      /\ remplaces' = remplaces /\ usages' = usages
  OBVIOUS
<1>3. TypeOK'
  BY <1>2, TypeTenu DEF Invariant, TypeOK
<1>4. ComptesTenus'
  BY <1>2, ComptesCalmes DEF Invariant
<1>5. LiensTenus'
  BY <1>1, <1>2, LiensCalmes DEF Invariant, Existe
<1>6. RolesTenus'
  BY <1>1, <1>2, RolesCalmes DEF Invariant, Existe
<1>. QED  BY <1>3, <1>4, <1>5, <1>6 DEF Invariant

(* Two rotations of a session: the second was overtaken, and is excused.       *)
LEMMA PasTourner ==
  ASSUME Invariant, NEW r \in Requetes, Tourner(r)
  PROVE  Invariant'
<1>1. PICK j, s, u : j = travaux[r].jeton /\ s = travaux[r].session /\ u = travaux[r].user
  OBVIOUS
<1>2. /\ travaux[r].op = "tourner" /\ travaux[r].op # "finie"
      /\ j \in Requetes /\ s \in Requetes /\ u \in Utilisateurs
      /\ jetons[j] # Absent /\ jetons[j].session = s
  BY <1>1, Travail, Formes DEF Tourner, Invariant, SessionsTenues
<1>3. Faite(s) /\ s # r
  BY <1>2 DEF Invariant, SessionsTenues, Faite
<1>4. PICK t : t = [op |-> "emettre", user |-> u, session |-> s, tient |-> travaux[r].tient]
  OBVIOUS
<1>5. PICK rows : rows = {DeSession(s)}
  OBVIOUS
<1>6. /\ Passer(r, t, rows) /\ jetons' = [jetons EXCEPT ![j].revoque = TRUE]
      /\ excuses \subseteq excuses' /\ coupees' = coupees
      /\ UNCHANGED <<comptes, roles, liens, remplaces, usages>>
  BY <1>1, <1>4, <1>5 DEF Tourner, Excuser
<1>7. EstTravail(r, t) /\ t.op = "emettre"
  <2>1. travaux[r].tient = {DeSession(s)} \cup {DeCompte(u)}
    BY <1>1, <1>2, Travail, Formes DEF Invariant
  <2>. QED  BY <1>2, <1>3, <1>4, <2>1 DEF EstTravail
<1>8. FideleCompte(r, t)
  BY <1>1, <1>2, <1>4 DEF FideleCompte, DeCompteOps, Operations, ChoixDe
<1>9. /\ jetons' = [k \in Requetes |-> IF k \in {j} THEN [jetons[k] EXCEPT !.revoque = TRUE] ELSE jetons[k]]
  <2>1. DOMAIN jetons = Requetes
    BY DEF Invariant, TypeOK
  <2>. QED  BY <1>6, <2>1
<1>10. \/ Perime(r, DeSession(s)) \/ DeSession(s) \in excuses
       \/ s \notin coupees /\ Actifs(s) \subseteq {j}
  <2>. SUFFICES ASSUME ~ Perime(r, DeSession(s)), DeSession(s) \notin excuses
       PROVE  s \notin coupees /\ Actifs(s) \subseteq {j}
    OBVIOUS
  <2>1. EnRotation(r, s)
    BY <1>1, <1>2 DEF EnRotation
  <2>2. j \in Actifs(s)
    BY <1>1, <1>2, <2>1 DEF Invariant, SessionsTenues
  <2>. QED  BY <1>2, <2>2 DEF Invariant, SessionsTenues
<1>11. SessionsTenues' /\ jetons' \in [Requetes -> Jeton \cup {Absent}]
  <2>1. PICK K, C : K = {j} /\ C = {}
    OBVIOUS
  <2>2. t.session = s /\ DeSession(s) \in rows
    BY <1>4, <1>5
  <2>3. /\ K \in SUBSET Requetes /\ coupees' = coupees \cup C
        /\ \A k \in K : jetons[k] # Absent /\ DeSession(jetons[k].session) \in rows
        /\ \A x \in C : \E k \in K : x = jetons[k].session /\ ~ jetons[k].revoque
        /\ jetons' = [k \in Requetes |-> IF k \in K THEN [jetons[k] EXCEPT !.revoque = TRUE] ELSE jetons[k]]
    BY <1>2, <1>6, <1>9, <2>1, <2>2
  <2>4. t.op = "emettre" =>
          /\ Faite(t.session) /\ DeSession(t.session) \in rows /\ C = {}
          /\ \/ Perime(r, DeSession(t.session)) \/ DeSession(t.session) \in excuses
             \/ t.session \notin coupees /\ Actifs(t.session) \subseteq K
    BY <1>3, <1>10, <2>1, <2>2
  <2>5. /\ t.op \in {"finie", "emettre"} /\ travaux[r].op # "finie"
        /\ Passer(r, t, rows) /\ excuses \subseteq excuses'
    BY <1>2, <1>6, <1>7
  <2>. QED  BY <1>7, <2>3, <2>4, <2>5, SessionsRevoquees
<1>. QED  BY <1>2, <1>6, <1>7, <1>8, <1>11, PasDeSession

LEMMA PasDeRevocation ==
  ASSUME Invariant, NEW r \in Requetes, NEW J \in SUBSET Requetes, Revoquer(J),
         Passer(r, Finie, {DeSession(s) : s \in Sessions(J)}), travaux[r].op # "finie",
         UNCHANGED <<comptes, roles, liens, remplaces, usages, excuses>>
  PROVE  Invariant'
<1>1. PICK K : K = {j \in J : jetons[j] # Absent /\ ~ jetons[j].revoque}
  OBVIOUS
<1>2. PICK rows : rows = {DeSession(s) : s \in Sessions(J)}
  OBVIOUS
<1>3. /\ jetons' = [j \in Requetes |-> IF j \in K THEN [jetons[j] EXCEPT !.revoque = TRUE] ELSE jetons[j]]
      /\ coupees' = coupees \cup Sessions(K)
  BY <1>1 DEF Revoquer
<1>4. /\ K \in SUBSET Requetes
      /\ \A k \in K : jetons[k] # Absent /\ DeSession(jetons[k].session) \in rows
      /\ \A s \in Sessions(K) : \E k \in K : s = jetons[k].session /\ ~ jetons[k].revoque
  BY <1>1, <1>2 DEF Sessions
<1>5. /\ EstTravail(r, Finie) /\ Finie.op = "finie" /\ FideleCompte(r, Finie)
      /\ Finie.op \in {"finie", "emettre"} /\ Finie.op # "emettre"
  BY Fin
<1>6. Passer(r, Finie, rows) /\ excuses \subseteq excuses'
  BY <1>2
<1>7. SessionsTenues' /\ jetons' \in [Requetes -> Jeton \cup {Absent}]
  BY <1>3, <1>4, <1>5, <1>6, SessionsRevoquees
<1>. QED  BY <1>5, <1>6, <1>7, PasDeSession

LEMMA PasRejeu ==
  ASSUME Invariant, NEW r \in Requetes, Rejeu(r)
  PROVE  Invariant'
<1>1. travaux[r].op # "finie" /\ Jetons(travaux[r].user) \in SUBSET Requetes
  BY DEF Rejeu, Jetons
<1>. QED  BY <1>1, PasDeRevocation DEF Rejeu

LEMMA PasDeconnecter ==
  ASSUME Invariant, NEW r \in Requetes, NEW J \in SUBSET Requetes, Deconnecter(r, J)
  PROVE  Invariant'
<1>1. travaux[r].op # "finie"
  BY Neuf DEF Deconnecter
<1>. QED  BY <1>1, PasDeRevocation DEF Deconnecter

-----------------------------------------------------------------------------
(* The theorems.                                                             *)

LEMMA Conserve == Invariant /\ [Next]_vars => Invariant'
<1>. SUFFICES ASSUME Invariant, [Next]_vars PROVE Invariant'
  OBVIOUS
<1>1. CASE UNCHANGED vars
  <2>1. /\ comptes' = comptes /\ roles' = roles /\ jetons' = jetons /\ liens' = liens
        /\ travaux' = travaux /\ perimes' = perimes /\ remplaces' = remplaces
        /\ usages' = usages /\ coupees' = coupees /\ excuses' = excuses
    BY <1>1 DEF vars, tables, histoire
  <2>2. TypeOK' /\ ComptesTenus'
    BY <2>1 DEF Invariant, TypeOK, ComptesTenus, Existe, Choisira, Perime
  <2>3. SessionsTenues'
    BY <2>1 DEF Invariant, SessionsTenues, Faite, EnRotation, Emettra, Actifs, Perime
  <2>4. LiensTenus' /\ RolesTenus'
    BY <2>1 DEF Invariant, LiensTenus, RolesTenus, RoleActif, RolesActifs, Faite, Existe, Perime
  <2>. QED  BY <2>2, <2>3, <2>4 DEF Invariant
<1>2. ASSUME NEW r \in Requetes, Authentifier(r) PROVE Invariant'
  <2>1. ASSUME NEW u \in Utilisateurs, NEW op \in {"connexion", "changerMdp"}, LireCompte(r, op, u)
        PROVE  Invariant'
    BY <2>1, PasLireCompte
  <2>2. ASSUME NEW x \in Requetes, LireJeton(r, x) \/ Deconnecter(r, {x}) PROVE Invariant'
    BY <2>2, PasLireJeton, PasDeconnecter
  <2>. QED  BY <1>2, <2>1, <2>2, PasLireTitulaire, PasTourner, PasRejeu, PasEmettre DEF Authentifier
<1>3. ASSUME NEW r \in Requetes, MotDePasseOublie(r) PROVE Invariant'
  BY <1>3, PasDemanderLien, PasLireLien, PasInsererLien, PasExecuterReset, PasDuTemps
  DEF MotDePasseOublie
<1>4. ASSUME NEW r \in Requetes, Administrer(r) PROVE Invariant'
  <2>1. ASSUME NEW u \in Utilisateurs, NEW op \in Operations, LireCompte(r, op, u)
        PROVE  Invariant'
    BY <2>1, PasLireCompte
  <2>2. ASSUME NEW u \in Utilisateurs, NEW S \in SUBSET Roles, DemanderCreation(r, u, S)
        PROVE  Invariant'
    BY <2>2, PasDemanderCreation
  <2>3. ASSUME NEW u \in Utilisateurs, Deconnecter(r, Jetons(u)) PROVE Invariant'
    <3>1. Jetons(u) \in SUBSET Requetes
      BY DEF Jetons
    <3>. QED  BY <2>3, <3>1, PasDeconnecter
  <2>4. ASSUME NEW u \in Utilisateurs, NEW ro \in Roles,
               LireAttribution(r, u, ro) \/ LireRetrait(r, u, ro)
        PROVE  Invariant'
    BY <2>4, PasLireAttribution, PasLireRetrait
  <2>. QED  BY <1>4, <2>1, <2>2, <2>3, <2>4, PasCreer, PasAttribuer, PasRetirer DEF Administrer
<1>. QED  BY <1>1, <1>2, <1>3, <1>4, PasSauverCompte, PasDuTemps, PasInterrompre DEF Next

LEMMA Toujours == Spec => []Invariant
BY Initial, Conserve, PTL DEF Spec

(* Every table and every request keeps its form.                             *)
THEOREM TypeCorrecte == Spec => []TypeOK
<1>1. Invariant => TypeOK
  BY DEF Invariant
<1>. QED  BY <1>1, Toujours, PTL

(* A session has one valid token at most, none once it is cut, and a link      *)
(* carries one reset, unless one of the writers read before another's COMMIT.   *)
THEOREM UsageToujoursUnique == Spec => []UsageUnique
<1>1. Invariant => UsageUnique
  <2>. SUFFICES ASSUME Invariant PROVE UsageUnique
    OBVIOUS
  <2>1. ASSUME NEW s \in Requetes, DeSession(s) \notin excuses
        PROVE  Cardinality(Actifs(s)) <= 1
    <3>1. \A i, j \in Actifs(s) : i = j
      BY <2>1 DEF Invariant, SessionsTenues
    <3>2. Actifs(s) = {} \/ \E j \in Actifs(s) : Actifs(s) = {j}
      BY <3>1
    <3>3. Cardinality(Actifs(s)) \in {0, 1}
      BY <3>2, FS_EmptySet, FS_Singleton
    <3>. QED  BY <3>3
  <2>2. \A s \in Requetes : DeSession(s) \notin excuses => (s \in coupees => Actifs(s) = {})
    BY DEF Invariant, SessionsTenues
  <2>3. \A l \in Requetes : usages[l] <= 1 \/ DeLien(l) \in excuses
    BY DEF Invariant, LiensTenus
  <2>. QED  BY <2>1, <2>2, <2>3 DEF UsageUnique
<1>. QED  BY <1>1, Toujours, PTL

(* An account has an active role, unless two removals overlapped.              *)
THEOREM RoleToujoursActif == Spec => []RoleActif
<1>1. Invariant => RoleActif
  BY DEF Invariant, RolesTenus
<1>. QED  BY <1>1, Toujours, PTL

(* Only Emettre makes a token.                                               *)
LEMMA JetonsEmis ==
  ASSUME Invariant, Next, NEW j \in Requetes, jetons[j] = Absent, jetons'[j] # Absent
  PROVE  Emettre(j)
<1>1. ASSUME NEW r \in Requetes, Emettre(r) PROVE j = r
  <2>1. jetons' = [jetons EXCEPT ![r] =
          [user |-> travaux[r].user, session |-> travaux[r].session, revoque |-> FALSE, expire |-> FALSE]]
    BY <1>1 DEF Emettre
  <2>. QED  BY <2>1 DEF Invariant, TypeOK
<1>2. \A J : ~ Revoquer(J)
  <2>1. ASSUME NEW J, Revoquer(J) PROVE jetons'[j] = jetons[j]
    BY <2>1 DEF Revoquer
  <2>. QED  BY <2>1
<1>3. ASSUME NEW r \in Requetes, Tourner(r) PROVE FALSE
  <2>1. jetons[travaux[r].jeton] # Absent /\ jetons' = [jetons EXCEPT ![travaux[r].jeton].revoque = TRUE]
    BY <1>3 DEF Tourner, Invariant, SessionsTenues
  <2>2. travaux[r].jeton # j
    BY <2>1
  <2>3. jetons'[j] = jetons[j]
    BY <2>1, <2>2 DEF Invariant, TypeOK
  <2>. QED  BY <2>3
<1>4. ASSUME NEW x \in Requetes, Expirer(x) PROVE FALSE
  <2>1. jetons' = jetons \/ (x # j /\ jetons' = [jetons EXCEPT ![x].expire = TRUE])
    BY <1>4 DEF Expirer
  <2>2. jetons'[j] = jetons[j]
    BY <2>1 DEF Invariant, TypeOK
  <2>. QED  BY <2>2
<1>5. jetons' # jetons
  OBVIOUS
<1>6. ASSUME NEW r \in Requetes, Authentifier(r) PROVE Emettre(j)
  BY <1>1, <1>2, <1>3, <1>5, <1>6
  DEF Authentifier, LireCompte, LireJeton, LireTitulaire, Rejeu, Deconnecter, Commencer, tables
<1>7. ASSUME NEW r \in Requetes, MotDePasseOublie(r) PROVE FALSE
  BY <1>5, <1>7
  DEF MotDePasseOublie, DemanderLien, LireLien, InsererLien, ExecuterReset, Nettoyer, Commencer, tables
<1>8. ASSUME NEW r \in Requetes, Administrer(r) PROVE FALSE
  BY <1>2, <1>5, <1>8
  DEF Administrer, LireCompte, DemanderCreation, Deconnecter, LireAttribution, LireRetrait, Creer,
      Attribuer, Retirer, Commencer, tables
<1>9. ASSUME NEW r \in Requetes, Interrompre(r) \/ \E tout \in BOOLEAN : SauverCompte(r, tout) PROVE FALSE
  BY <1>5, <1>9 DEF Interrompre, SauverCompte, tables
<1>. QED  BY <1>4, <1>6, <1>7, <1>8, <1>9 DEF Next

(* A token goes to an active account, or to one deactivated since the request   *)
(* read it.                                                                  *)
THEOREM JetonToujoursLegitime == Spec => JetonLegitime
<1>1. Invariant /\ [Next]_vars =>
        [\A j \in Requetes : jetons[j] = Absent /\ jetons'[j] # Absent =>
           \/ comptes[jetons'[j].user].actif
           \/ Perime(j, DeCompte(jetons'[j].user))]_vars
  <2>. SUFFICES ASSUME Invariant, Next, NEW j \in Requetes, jetons[j] = Absent, jetons'[j] # Absent
       PROVE  \/ comptes[jetons'[j].user].actif
              \/ Perime(j, DeCompte(jetons'[j].user))
    OBVIOUS
  <2>1. Emettre(j)
    BY JetonsEmis
  <2>2. travaux[j].op = "emettre" /\ jetons'[j].user = travaux[j].user
    BY <2>1 DEF Emettre, Invariant, TypeOK
  <2>. QED  BY <2>2 DEF Invariant, ComptesTenus, Perime
<1>. QED  BY <1>1, Toujours, PTL DEF Spec, JetonLegitime

(* Only a save changes an account that exists.                               *)
LEMMA ComptesEcrits ==
  ASSUME Invariant, Next, NEW u \in Utilisateurs, Existe(u), comptes'[u] # comptes[u]
  PROVE  \E r \in Requetes, tout \in BOOLEAN :
           /\ travaux[r].op \in DeCompteOps /\ EnregistrerCompte(r, tout)
           /\ travaux'[r].op \in {"finie", "emettre"}
<1>1. comptes' # comptes
  OBVIOUS
<1>2. ASSUME NEW r \in Requetes, Creer(r) PROVE FALSE
  <2>1. travaux[r].user # u
    BY <1>2 DEF Creer
  <2>2. comptes'[u] = comptes[u]
    BY <1>2, <2>1 DEF Creer, Invariant, TypeOK
  <2>. QED  BY <2>2
<1>3. ASSUME NEW r \in Requetes, NEW tout \in BOOLEAN, SauverCompte(r, tout)
      PROVE  /\ travaux[r].op \in DeCompteOps /\ EnregistrerCompte(r, tout)
             /\ travaux'[r].op \in {"finie", "emettre"}
  <2>1. PICK t, rows : /\ Passer(r, t, rows)
                       /\ t.op \in {"finie", "emettre"}
    BY <1>3 DEF SauverCompte, Finie
  <2>. QED  BY <1>3, <2>1, Passage DEF SauverCompte, DeCompteOps, Invariant
<1>4. ASSUME NEW r \in Requetes, NEW tout \in BOOLEAN, ExecuterReset(r, tout)
      PROVE  /\ travaux[r].op \in DeCompteOps /\ EnregistrerCompte(r, tout)
             /\ travaux'[r].op \in {"finie", "emettre"}
  <2>1. PICK rows : Passer(r, Finie, rows)
    BY <1>4 DEF ExecuterReset
  <2>. QED  BY <1>4, <2>1, Passage DEF ExecuterReset, DeCompteOps, Invariant, Finie
<1>5. ASSUME NEW r \in Requetes, Authentifier(r) PROVE FALSE
  BY <1>1, <1>5
  DEF Authentifier, LireCompte, LireJeton, LireTitulaire, Tourner, Rejeu, Emettre, Deconnecter,
      Commencer, tables
<1>6. ASSUME NEW r \in Requetes, MotDePasseOublie(r) PROVE \E tout \in BOOLEAN : ExecuterReset(r, tout)
  BY <1>1, <1>6
  DEF MotDePasseOublie, DemanderLien, LireLien, InsererLien, Nettoyer, Commencer, tables
<1>7. ASSUME NEW r \in Requetes, Administrer(r) PROVE FALSE
  BY <1>1, <1>2, <1>7
  DEF Administrer, LireCompte, DemanderCreation, Deconnecter, LireAttribution, LireRetrait,
      Attribuer, Retirer, Commencer, tables
<1>8. ASSUME NEW r \in Requetes, Interrompre(r) \/ Expirer(r) PROVE FALSE
  BY <1>1, <1>8 DEF Interrompre, Expirer, tables
<1>. QED  BY <1>3, <1>4, <1>5, <1>6, <1>7, <1>8 DEF Next

(* A former password or a lost activity only comes back by reactiver, or from   *)
(* an image another COMMIT had made stale.                                     *)
THEOREM RienNeRevientJamais == Spec => RienNeRevient
<1>1. ASSUME Invariant, Next, NEW u \in Utilisateurs, Existe(u), comptes'[u] # comptes[u]
      PROVE  \E r \in Requetes :
               /\ travaux'[r] # travaux[r] /\ EnCours(r)
               /\ comptes'[u].mdp # comptes[u].mdp /\ <<u, comptes'[u].mdp>> \in remplaces
                    => Perime(r, DeCompte(u))
               /\ ~ comptes[u].actif /\ comptes'[u].actif
                    => travaux[r].op = "reactiver" \/ Perime(r, DeCompte(u))
  <2>1. PICK r \in Requetes, tout \in BOOLEAN :
          /\ travaux[r].op \in DeCompteOps /\ EnregistrerCompte(r, tout)
          /\ travaux'[r].op \in {"finie", "emettre"}
    BY <1>1, ComptesEcrits
  <2>2. travaux'[r] # travaux[r] /\ EnCours(r)
    BY <2>1 DEF DeCompteOps, Operations, EnCours, Neuve, Finie
  <2>3. PICK v : v = travaux[r].user
    OBVIOUS
  <2>4. /\ v \in Utilisateurs
        /\ comptes' = [comptes EXCEPT ![v] = comptes'[v]]
        /\ \E c \in Compte :
             /\ comptes'[v] = Modifiee(travaux[r].op, r, c)
             /\ c = travaux[r].image \/ c = comptes[v]
             /\ c # comptes[v] => Perime(r, DeCompte(v))
    BY <1>1, <2>1, <2>3, Enregistre DEF Invariant
  <2>5. u = v
    BY <1>1, <2>4 DEF Invariant, TypeOK
  <2>6. PICK c \in Compte : /\ comptes'[u] = Modifiee(travaux[r].op, r, c)
                            /\ c # comptes[u] => Perime(r, DeCompte(u))
    BY <2>4, <2>5
  <2>7. /\ comptes'[u].mdp = c.mdp \/ (comptes'[u].mdp = r /\ Choisira(r))
        /\ comptes'[u].actif /\ ~ c.actif => travaux[r].op = "reactiver"
    BY <2>1, <2>6, ColonnesModifiees DEF Choisira
  <2>8. Choisira(r) => <<u, r>> \notin remplaces
    BY <1>1 DEF Invariant, ComptesTenus
  <2>. QED  BY <2>2, <2>6, <2>7, <2>8
<1>2. Invariant /\ [Next]_vars =>
        [\A u \in Utilisateurs : Existe(u) =>
           LET parUn(ops) == \E r \in Requetes : /\ travaux'[r] # travaux[r] /\ EnCours(r)
                                                 /\ (travaux[r].op \in ops \/ Perime(r, DeCompte(u)))
           IN  /\ comptes'[u].mdp # comptes[u].mdp /\ <<u, comptes'[u].mdp>> \in remplaces
                    => parUn({})
               /\ ~ comptes[u].actif /\ comptes'[u].actif => parUn({"reactiver"})]_vars
  <2>. SUFFICES ASSUME Invariant, Next, NEW u \in Utilisateurs, Existe(u)
       PROVE  /\ comptes'[u].mdp # comptes[u].mdp /\ <<u, comptes'[u].mdp>> \in remplaces =>
                   \E r \in Requetes : /\ travaux'[r] # travaux[r] /\ EnCours(r)
                                       /\ Perime(r, DeCompte(u))
              /\ ~ comptes[u].actif /\ comptes'[u].actif =>
                   \E r \in Requetes :
                     /\ travaux'[r] # travaux[r] /\ EnCours(r)
                     /\ travaux[r].op = "reactiver" \/ Perime(r, DeCompte(u))
    OBVIOUS
  <2>1. CASE comptes'[u] # comptes[u]
    BY <1>1, <2>1
  <2>2. CASE comptes'[u] = comptes[u]
    BY <2>2
  <2>. QED  BY <2>1, <2>2
<1>. QED  BY <1>2, Toujours, PTL DEF Spec, RienNeRevient

=============================================================================
