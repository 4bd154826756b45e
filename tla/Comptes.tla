-------------------------------- MODULE Comptes --------------------------------
(* Accounts, sessions, reset links and roles: AuthService,                     *)
(* PasswordResetService and UsersAdminService. A handler reads, computes a     *)
(* hash (slow), then saves the image it has read: repo.save selects the row    *)
(* again and writes every column in which the image differs. Only the reset by *)
(* a link and the operations on roles write inside a transaction with another  *)
(* row; a refresh is two commits.                                              *)
EXTENDS Integers, FiniteSets

CONSTANTS Utilisateurs,
          Inscrits,         \* accounts that exist at the start
          Administrateurs,  \* bearers of USER.GERER
          Roles,            \* active rows of ref_role
          Requetes          \* bound: the requests ever made, each made once

ASSUME BornesComptes ==
  /\ Inscrits \subseteq Utilisateurs
  /\ Roles # {} /\ IsFiniteSet(Roles)
  /\ "initial" \notin Requetes  \* the password of an account before any request

VARIABLES
  comptes,    \* the table of users: the columns the handlers rely on
  roles,      \* bridge_user_role: <<user, role>> -> state of the row
  jetons,     \* refresh tokens, named after the request that issues them
  liens,      \* reset links, named after the request that asks for them
  travaux,    \* request -> what it holds
  perimes,    \* history: <<request, row>> whose image a COMMIT made stale
  remplaces,  \* history: <<user, password>> the account has left
  usages,     \* history: link -> resets it has carried
  coupees,    \* history: sessions cut by a logout, a replay or an administrator
  excuses     \* history: sessions, links and roles written from a stale image

tables == <<comptes, roles, jetons, liens>>
histoire == <<perimes, remplaces, usages, coupees, excuses>>
vars == <<tables, travaux, histoire>>

Absent == [actif |-> FALSE]
\* A password is named after the request that chose it.
MotsDePasse == Requetes \cup {"initial"}
Compte == [actif : BOOLEAN, mdp : MotsDePasse, doitChanger : BOOLEAN]
Existe(u) == comptes[u] # Absent
\* A session: the tokens that come one from the other by rotation.
Jeton == [user : Utilisateurs, session : Requetes, revoque : BOOLEAN, expire : BOOLEAN]
Lien == [user : Utilisateurs, utilise : BOOLEAN, expire : BOOLEAN]
EtatsRole == {"absent", "actif", "inactif"}  \* est_actif

Neuve == [op |-> "neuve"]
Finie == [op |-> "finie"]
EnCours(r) == travaux[r] \notin {Neuve, Finie}

Operations == {"connexion", "changerMdp", "modifier", "desactiver", "reactiver",
               "resetAdmin", "forcerChangement"}

Init ==
  /\ comptes = [u \in Utilisateurs |->
       IF u \in Inscrits THEN [actif |-> TRUE, mdp |-> "initial", doitChanger |-> FALSE]
       ELSE Absent]
  /\ roles = [x \in Utilisateurs \X Roles |-> IF x[1] \in Inscrits THEN "actif" ELSE "absent"]
  /\ jetons = [r \in Requetes |-> Absent]
  /\ liens = [r \in Requetes |-> Absent]
  /\ travaux = [r \in Requetes |-> Neuve]
  /\ perimes = {} /\ remplaces = {} /\ coupees = {} /\ excuses = {}
  /\ usages = [r \in Requetes |-> 0]

-----------------------------------------------------------------------------
(* The rows a request has read, and the COMMIT of others on them.              *)

DeCompte(u) == <<"compte", u>>
DeSession(s) == <<"session", s>>
DeLien(l) == <<"lien", l>>
DesRoles(u) == <<"roles", u>>

Tenues(r) == IF "tient" \in DOMAIN travaux[r] THEN travaux[r].tient ELSE {}
Perime(r, x) == <<r, x>> \in perimes

(* A request goes on or ends, having committed on these rows.                  *)
Passer(r, travail, rows) ==
  /\ travaux' = [travaux EXCEPT ![r] = travail]
  /\ perimes' = {p \in perimes : p[1] # r \/ travail # Finie} \cup
       {p \in Requetes \X rows : p[1] # r /\ p[2] \in Tenues(p[1])}
Commencer(r, travail) ==
  /\ travaux[r] = Neuve
  /\ Passer(r, travail, {})
  /\ UNCHANGED <<tables, remplaces, usages, coupees, excuses>>
Excuser(r, x) == excuses' = IF Perime(r, x) THEN excuses \cup {x} ELSE excuses

Jetons(u) == {j \in Requetes : jetons[j] # Absent /\ jetons[j].user = u}
Sessions(J) == {jetons[j].session : j \in J}
Actifs(s) == {j \in Requetes : jetons[j] # Absent /\ jetons[j].session = s /\ ~ jetons[j].revoque}

(* UPDATE of the rows not yet revoked; their sessions are cut.                 *)
Revoquer(J) ==
  LET K == {j \in J : jetons[j] # Absent /\ ~ jetons[j].revoque}
  IN  /\ jetons' = [j \in Requetes |-> IF j \in K THEN [jetons[j] EXCEPT !.revoque = TRUE]
                                       ELSE jetons[j]]
      /\ coupees' = coupees \cup Sessions(K)

-----------------------------------------------------------------------------
(* The operations that save an account: what each asks of the row it reads,    *)
(* and what it changes in it.                                                  *)

Recevable(op, c) ==
  CASE op \in {"connexion", "changerMdp", "desactiver"} -> c.actif
    [] op = "reactiver" -> ~ c.actif
    [] OTHER -> TRUE

(* Fault: the edition of an account sends all the columns of its form.         *)
ModifieeEntiere(op, r, c) ==
  CASE op = "connexion" -> c
    [] op \in {"modifier", "reactiver"} -> [c EXCEPT !.actif = TRUE]
    [] op = "desactiver" -> [c EXCEPT !.actif = FALSE]
    [] op = "forcerChangement" -> [c EXCEPT !.doitChanger = TRUE]
    [] op = "resetAdmin" -> [c EXCEPT !.mdp = r, !.doitChanger = TRUE]
    [] op \in {"changerMdp", "resetLien"} -> [c EXCEPT !.mdp = r, !.doitChanger = FALSE]

Modifiee(op, r, c) ==
  CASE op \in {"connexion", "modifier"} -> c
    [] op = "desactiver" -> [c EXCEPT !.actif = FALSE]
    [] op = "reactiver" -> [c EXCEPT !.actif = TRUE]
    [] op = "forcerChangement" -> [c EXCEPT !.doitChanger = TRUE]
    [] op = "resetAdmin" -> [c EXCEPT !.mdp = r, !.doitChanger = TRUE]
    [] op \in {"changerMdp", "resetLien"} -> [c EXCEPT !.mdp = r, !.doitChanger = FALSE]

(* The whole image, or the columns of the operation alone when the COMMIT that *)
(* made it stale came after the SELECT of save.                                *)
EnregistrerCompte(r, tout) ==
  LET t == travaux[r]
  IN  /\ ~ tout => Perime(r, DeCompte(t.user))
      /\ comptes' = [comptes EXCEPT ![t.user] = Modifiee(t.op, r, IF tout THEN t.image ELSE @)]
      /\ remplaces' = remplaces \cup
           {x \in {<<t.user, comptes[t.user].mdp>>} : comptes'[t.user].mdp # x[2]}

(* The right password is given; a wrong one, or an inactive account, leaves an *)
(* audit row alone. The actor of a deactivation is not its target.             *)
LireCompte(r, op, u) ==
  /\ Existe(u) /\ op \in Operations
  /\ Recevable(op, comptes[u])
  /\ op = "desactiver" => \E a \in Administrateurs : a # u
  /\ Commencer(r, [op |-> op, user |-> u, image |-> comptes[u], tient |-> {DeCompte(u)}])

SauverCompte(r, tout) ==
  /\ travaux[r].op \in Operations
  /\ EnregistrerCompte(r, tout)
  /\ Passer(r, IF travaux[r].op \in {"connexion", "changerMdp"}
               THEN [op |-> "emettre", user |-> travaux[r].user, session |-> r,
                     tient |-> {DeCompte(travaux[r].user)}]
               ELSE Finie,
            {DeCompte(travaux[r].user)})
  /\ UNCHANGED <<roles, jetons, liens, usages, coupees, excuses>>

(* UsersAdminService.creer: the account and its roles in one transaction.      *)
DemanderCreation(r, u, S) ==
  /\ ~ Existe(u) /\ S # {}
  /\ Commencer(r, [op |-> "creer", user |-> u, roles |-> S])

Creer(r) ==
  /\ travaux[r].op = "creer" /\ ~ Existe(travaux[r].user)  \* the unique index on the e-mail
  /\ comptes' = [comptes EXCEPT ![travaux[r].user] =
       [actif |-> TRUE, mdp |-> r, doitChanger |-> FALSE]]
  /\ roles' = [x \in Utilisateurs \X Roles |->
       IF x[1] = travaux[r].user /\ x[2] \in travaux[r].roles THEN "actif" ELSE roles[x]]
  /\ Passer(r, Finie, {})
  /\ UNCHANGED <<jetons, liens, remplaces, usages, coupees, excuses>>

-----------------------------------------------------------------------------
(* AuthService: the second commit of a login, the refresh by rotation, which   *)
(* cuts every session of the user when the token was already revoked, logout.  *)

Emettre(r) ==
  LET t == travaux[r]
  IN  /\ t.op = "emettre"
      /\ jetons' = [jetons EXCEPT ![r] =
           [user |-> t.user, session |-> t.session, revoque |-> FALSE, expire |-> FALSE]]
      /\ Excuser(r, DeSession(t.session))
      /\ Passer(r, Finie, {})
      /\ UNCHANGED <<comptes, roles, liens, remplaces, usages, coupees>>

LireJeton(r, j) ==
  LET t == jetons[j]
  IN  /\ t # Absent /\ (t.revoque \/ ~ t.expire)
      /\ Commencer(r,
           IF t.revoque THEN [op |-> "rejeu", user |-> t.user]
           ELSE [op |-> "rafraichir", user |-> t.user, jeton |-> j, session |-> t.session,
                 tient |-> {DeSession(t.session)}])

(* Fault: the state of the account is not asked.                               *)
LireTitulaireToujours(r) ==
  /\ travaux[r].op = "rafraichir"
  /\ Passer(r, [travaux[r] EXCEPT !.op = "tourner", !.tient = @ \cup {DeCompte(travaux[r].user)}], {})
  /\ UNCHANGED <<tables, remplaces, usages, coupees, excuses>>

LireTitulaire(r) ==
  LET t == travaux[r]
  IN  /\ t.op = "rafraichir"
      /\ Passer(r, IF comptes[t.user].actif
                   THEN [t EXCEPT !.op = "tourner", !.tient = @ \cup {DeCompte(t.user)}]
                   ELSE Finie, {})
      /\ UNCHANGED <<tables, remplaces, usages, coupees, excuses>>

(* Fault: the old token is left valid.                                         *)
TournerSansRevoquer(r) ==
  LET t == travaux[r]
  IN  /\ t.op = "tourner"
      /\ Excuser(r, DeSession(t.session))
      /\ Passer(r, [op |-> "emettre", user |-> t.user, session |-> t.session, tient |-> t.tient],
                {DeSession(t.session)})
      /\ UNCHANGED <<tables, remplaces, usages, coupees>>

Tourner(r) ==
  LET t == travaux[r]
  IN  /\ t.op = "tourner"
      /\ jetons' = [jetons EXCEPT ![t.jeton].revoque = TRUE]
      /\ Excuser(r, DeSession(t.session))
      /\ Passer(r, [op |-> "emettre", user |-> t.user, session |-> t.session, tient |-> t.tient],
                {DeSession(t.session)})
      /\ UNCHANGED <<comptes, roles, liens, remplaces, usages, coupees>>

Rejeu(r) ==
  /\ travaux[r].op = "rejeu"
  /\ Revoquer(Jetons(travaux[r].user))
  /\ Passer(r, Finie, {DeSession(s) : s \in Sessions(Jetons(travaux[r].user))})
  /\ UNCHANGED <<comptes, roles, liens, remplaces, usages, excuses>>

(* One token, or all those of the user (logout, forcerDeconnexion).            *)
Deconnecter(r, J) ==
  /\ travaux[r] = Neuve /\ \E j \in J : jetons[j] # Absent
  /\ Revoquer(J)
  /\ Passer(r, Finie, {DeSession(s) : s \in Sessions(J)})
  /\ UNCHANGED <<comptes, roles, liens, remplaces, usages, excuses>>

-----------------------------------------------------------------------------
(* PasswordResetService.                                                       *)

DemanderLien(r, u) ==
  /\ Existe(u) /\ comptes[u].actif
  /\ Commencer(r, [op |-> "demanderLien", user |-> u])

InsererLien(r) ==
  /\ travaux[r].op = "demanderLien"
  /\ liens' = [liens EXCEPT ![r] = [user |-> travaux[r].user, utilise |-> FALSE, expire |-> FALSE]]
  /\ Passer(r, Finie, {})
  /\ UNCHANGED <<comptes, roles, jetons, remplaces, usages, coupees, excuses>>

(* Fault: the link is only asked to be in time.                                *)
LireLienExpire(r, l) ==
  /\ liens[l] # Absent /\ ~ liens[l].expire
  /\ Commencer(r, [op |-> "resetLien", user |-> liens[l].user, image |-> comptes[liens[l].user],
                   lien |-> l, tient |-> {DeLien(l), DeCompte(liens[l].user)}])

LireLien(r, l) ==
  /\ liens[l] # Absent /\ ~ liens[l].utilise /\ ~ liens[l].expire
  /\ Commencer(r, [op |-> "resetLien", user |-> liens[l].user, image |-> comptes[liens[l].user],
                   lien |-> l, tient |-> {DeLien(l), DeCompte(liens[l].user)}])

ExecuterReset(r, tout) ==
  LET t == travaux[r]
  IN  /\ t.op = "resetLien"
      /\ EnregistrerCompte(r, tout)
      /\ liens' = [liens EXCEPT ![t.lien].utilise = TRUE]
      /\ usages' = [usages EXCEPT ![t.lien] = @ + 1]
      /\ Excuser(r, DeLien(t.lien))
      /\ Passer(r, Finie, {DeLien(t.lien), DeCompte(t.user)})
      /\ UNCHANGED <<roles, jetons, coupees>>

(* Time: a row expires; nettoyerTokensExpires deletes a link 30 days later,    *)
(* when no request holds it any more.                                          *)
Expirer(x) ==
  /\ \/ /\ jetons[x] # Absent /\ ~ jetons[x].expire
        /\ jetons' = [jetons EXCEPT ![x].expire = TRUE] /\ UNCHANGED liens
     \/ /\ liens[x] # Absent /\ ~ liens[x].expire
        /\ liens' = [liens EXCEPT ![x].expire = TRUE] /\ UNCHANGED jetons
  /\ UNCHANGED <<comptes, roles, travaux, histoire>>

Nettoyer(l) ==
  /\ liens[l] # Absent /\ liens[l].expire /\ \A r \in Requetes : DeLien(l) \notin Tenues(r)
  /\ liens' = [liens EXCEPT ![l] = Absent]
  /\ UNCHANGED <<comptes, roles, jetons, travaux, histoire>>

-----------------------------------------------------------------------------
(* UsersAdminService.attribuerRole and retirerRole.                            *)

LireAttribution(r, u, ro) ==
  /\ Existe(u)
  /\ Commencer(r, IF roles[<<u, ro>>] = "actif" THEN Finie
                  ELSE [op |-> "attribuer", cle |-> <<u, ro>>, lue |-> roles[<<u, ro>>]])

(* The insertion of a row inserted meanwhile is refused by the unique index.   *)
Attribuer(r) ==
  LET t == travaux[r]
  IN  /\ t.op = "attribuer"
      /\ t.lue = "absent" => roles[t.cle] = "absent"
      /\ roles' = [roles EXCEPT ![t.cle] = "actif"]
      /\ Passer(r, Finie, {})
      /\ UNCHANGED <<comptes, jetons, liens, remplaces, usages, coupees, excuses>>

RolesActifs(u) == {ro \in Roles : roles[<<u, ro>>] = "actif"}

(* Fault: the last role may go.                                                *)
LireRetraitDernier(r, u, ro) ==
  /\ roles[<<u, ro>>] = "actif"
  /\ Commencer(r, [op |-> "retirer", cle |-> <<u, ro>>, tient |-> {DesRoles(u)}])

LireRetrait(r, u, ro) ==
  /\ roles[<<u, ro>>] = "actif" /\ Cardinality(RolesActifs(u)) > 1
  /\ Commencer(r, [op |-> "retirer", cle |-> <<u, ro>>, tient |-> {DesRoles(u)}])

Retirer(r) ==
  LET t == travaux[r]
  IN  /\ t.op = "retirer"
      /\ roles' = [roles EXCEPT ![t.cle] = "inactif"]
      /\ Excuser(r, DesRoles(t.cle[1]))
      /\ Passer(r, Finie, {DesRoles(t.cle[1])})
      /\ UNCHANGED <<comptes, jetons, liens, remplaces, usages, coupees>>

(* A statement is refused or the process dies: what was committed stays.       *)
Interrompre(r) ==
  /\ EnCours(r)
  /\ Passer(r, Finie, {})
  /\ UNCHANGED <<tables, remplaces, usages, coupees, excuses>>

(* AuthController and MePasswordController. *)
Authentifier(r) ==
  \/ \E u \in Utilisateurs, op \in {"connexion", "changerMdp"} : LireCompte(r, op, u)
  \/ \E x \in Requetes : LireJeton(r, x) \/ Deconnecter(r, {x})
  \/ LireTitulaire(r) \/ Tourner(r) \/ Rejeu(r) \/ Emettre(r)

(* ForgotPasswordController, and the job that cleans the links. *)
MotDePasseOublie(r) ==
  \/ \E u \in Utilisateurs : DemanderLien(r, u)
  \/ \E x \in Requetes : LireLien(r, x)
  \/ InsererLien(r) \/ \E tout \in BOOLEAN : ExecuterReset(r, tout)
  \/ Nettoyer(r)

(* UsersAdminController. *)
Administrer(r) ==
  \/ \E u \in Utilisateurs :
       \/ \E op \in Operations \ {"connexion", "changerMdp"} : LireCompte(r, op, u)
       \/ \E S \in SUBSET Roles : DemanderCreation(r, u, S)
       \/ Deconnecter(r, Jetons(u))
       \/ \E ro \in Roles : LireAttribution(r, u, ro) \/ LireRetrait(r, u, ro)
  \/ Creer(r) \/ Attribuer(r) \/ Retirer(r)

Next ==
  \E r \in Requetes :
    \/ Authentifier(r) \/ MotDePasseOublie(r) \/ Administrer(r)
    \/ \E tout \in BOOLEAN : SauverCompte(r, tout)
    \/ Expirer(r) \/ Interrompre(r)

Spec == Init /\ [][Next]_vars
-----------------------------------------------------------------------------
(* Properties.                                                                 *)

(* What serves once serves once: a session has one valid token, and none once  *)
(* it is cut by a logout, by an administrator or by the replay of a revoked    *)
(* token, and a reset link carries one reset. Two refreshes, a refresh and the *)
(* cut, or two resets that overlap are the only exceptions.                    *)
UsageUnique ==
  /\ \A s \in Requetes : DeSession(s) \notin excuses =>
       /\ Cardinality(Actifs(s)) <= 1
       /\ s \in coupees => Actifs(s) = {}
  /\ \A l \in Requetes : usages[l] <= 1 \/ DeLien(l) \in excuses

(* A token is issued to an active account only, or to one deactivated while    *)
(* the request was in progress.                                                *)
JetonLegitime ==
  [][\A j \in Requetes : jetons[j] = Absent /\ jetons'[j] # Absent =>
       \/ comptes[jetons'[j].user].actif
       \/ Perime(j, DeCompte(jetons'[j].user))]_vars

(* What an account has left does not come back: neither a former password nor  *)
(* an activity that was taken away, unless by reactiver or by a handler that   *)
(* had read the account before.                                                *)
RienNeRevient ==
  [][\A u \in Utilisateurs : Existe(u) =>
       LET parUn(ops) == \E r \in Requetes : /\ travaux'[r] # travaux[r] /\ EnCours(r)
                                             /\ (travaux[r].op \in ops \/ Perime(r, DeCompte(u)))
       IN  /\ comptes'[u].mdp # comptes[u].mdp /\ <<u, comptes'[u].mdp>> \in remplaces
                => parUn({})
           /\ ~ comptes[u].actif /\ comptes'[u].actif => parUn({"reactiver"})]_vars

(* users-admin.service.ts: "un user doit toujours avoir >= 1 role actif",      *)
(* unless two removals overlap.                                                *)
RoleActif ==
  \A u \in Utilisateurs : Existe(u) /\ DesRoles(u) \notin excuses => RolesActifs(u) # {}
=============================================================================
