# Verification of budget-backend

TLA+ models of the parts of this NestJS / TypeORM / PostgreSQL backend where
several people, requests or processes move the same rows: the approval of a
budget version and the lines it rests on, the approval of an official document,
the actuals and the reforecasts made of them, delegations and perimeters,
accounts and sessions, the queue of e-mails, and the historised dimensions
everything else refers to.
The modules are translated from `src/src/` (paths below are relative to it).
TLC checks small instances; TLAPS proves the main safety properties for every
value of the constants. `PROJECT.json` lists components, runs, mutants, theorems,
hazards and, for every definition, the lines it stands for.

## 1. The system

A bank prepares its yearly budget by *centre de responsabilité* (CR). All the
state is in PostgreSQL, apart from a BullMQ queue in Redis and a few in-memory
caches. HTTP requests are served concurrently by one or several Node processes;
transactions run at the default READ COMMITTED level, no handler takes
`SELECT ... FOR UPDATE` and no entity has a version column. TypeORM's
`repo.save(entity)` selects the row again and writes each column in which the
image held by the handler differs from it: an image read earlier overwrites what
another request has committed since, and a row deleted since is inserted again
(except in `dim_version`, whose identifiers are GENERATED ALWAYS: the INSERT fails).

| Component | State | Operations | What makes it correct |
|---|---|---|---|
| Version cycle (`budget/cr-workflow`, `referentiels/version`) | `dim_version.statut`, `fait_budget_cr_statut`, `dim_version_cr_attendu` | by CR: submit, validate, reject, reopen, Comité revision; snapshot of expected CRs: initialise, remove, put back; by version: submit, validate, reject, publish, submit to the Comité, approve, update, delete | the version advances when, and only when, its expected CRs are validated; each statut follows the one it must; a published version never changes |
| Writers of lines (`budget/services`, `faits/budget`) | `fait_budget`, the cache of defaults of the import | grid, file import, single-line create / update / delete | a submitted or validated CR keeps the lines that were submitted; what was entered in a cell is counted once; conversions follow amounts |
| Official documents (`documents-officiels`) | campaign, Comité, document, detail, file, visas, signature | prepare and launch a campaign; write, submit, visa, reject, sign | no visa skipped or out of order, a submitted document can be decided, what is signed is what was read |
| E-mails (`notifications`) | `email_log`, BullMQ jobs | create, publish, work, retry, replay | each row ends with a true outcome; duplicates only come from faults or early replays |
| Reference dimensions (`common/services/scd2.service.ts`, `referentiels`) | versions of each business key | create, revise, patch, close, relink children | a business date resolves to one version for ever, children follow the revisions of their parent, no cycle |
| Actuals (`realise`) | `fait_realise`, the mode of entry | create, edit, delete, validate in lots, import | a validation accepts the amount that is shown; what is validated stays |
| Reforecast (`reforecast`) | versions of type reforecast and their lines | launch (copy, extrapolate, replace); then whatever may happen to a version: both workflows, edition, deletion, entry of lines | one active reforecast per key; only a deletion takes the replacement of a replaced one away; a closed month shows the validated amount unless somebody entered another; a replaced one stays so |
| Dashboard (`tableau-de-bord`) | none | aggregate, compare | each amount counted once; the totals explain the balance |
| Delegations and perimeters (`delegations`, `users/services/user-perimetre.service.ts`, `budget/services/perimetre.service.ts`) | `delegation`, mirrored `user_perimetres` | create, revoke, expire and remind (each at every start and every day, without a lock); give and take back a perimeter; list the CRs | the mirrors live as long as the delegation; no chain; one reminder; an overdue delegation is closed |
| Accounts (`auth`, `users`, `roles`) | users, refresh and reset tokens, role links | login, refresh, logout, reset; administration | a token serves once; a user keeps a role; a revoked session stays so |
| Configuration (`configuration-banque`) | one row, two in-memory caches | update, read | a cache does not outlive an update |
| Rest: reporting, indicators, AI analysis, audit log, secondary references, seeds | none of their own, or append-only | read and render | outside the models, see section 7 |

Interactions: the version cycle decides whether the writers of lines may write;
the perimeters (and the delegations that extend them) decide who may act on a
CR; all workflows create e-mail rows; reforecasts read validated actuals and
budget lines; every dimension is referred to by the facts.

What is hard: interleavings of two requests on the same rows (a guard tested on
a row that another request changes before the write; two counts that miss each
other's commit), stale images written back, two workflows moving the same
column, effects outside the transaction (queue, SMTP), crashes between two of
them, and long sequences of legal calls (reject, revise, reopen, resubmit).
`PROJECT.json` "hazards" lists them with their lines.

## 2. Modules

| Module | Models | Built on |
|---|---|---|
| `CycleBudget` | version cycle, snapshot, when lines may be written; one handler = one action | |
| `CycleBudgetConcurrent` | the same handlers as sequences of database accesses | extends `CycleBudget`, implements it when no COMMIT overlaps a request |
| `LignesBudget` | which line the grid, the import and the unit calls write, and what they put in it | |
| `DocumentOfficiel` | campaign, content, visas, signature; one handler = one action | |
| `DocumentOfficielConcurrent` | the same handlers as sequences of accesses, on a launched campaign | extends `DocumentOfficiel`, implements it when no COMMIT overlaps a request |
| `RegistreRealise` | what the actuals promise to their readers | |
| `Realise` | the handlers of the actuals, statement by statement | implements `RegistreRealise` |
| `Ecarts` | the dashboard, pure operators over a budget and the table of actuals | extends `Realise` |
| `Reforecast` | the launch of a reforecast, and all that the other services do to the version it inserts | extends `RegistreRealise` |
| `Perimetres` | what a perimeter gives access to | |
| `Delegations` | delegations, mirrors, the runs of the two jobs, the administrator | extends `Perimetres` |
| `Comptes` | accounts, sessions, reset links, roles | |
| `FileEmails` | rows, jobs, requests, workers, SMTP and their faults | |
| `Scd2` | the six historised tables and the links between them; one handler = one action | |
| `MC*` | instances for TLC | one per module above that has a run |
| `*Proofs` | theorems and lemmas | extend the module they are about (`FaitsProofs`: `Ecarts` and `LignesBudget`) |

Names follow the source (French). A definition preceded by "Fault" is not used by
the specification: it is the mutated form of the next definition, which shows that
a property would notice that bug.

Two granularities appear. Where the code reads, tests and writes in one go, or where the
question is what a long sequence of requests leads to, a handler is one action. Where
requests overlap, a handler is cut at every place another COMMIT can fall, and it
keeps what it has read. History variables (`depassees`, `croises`, `perimes`, `doublees`)
then record which requests a COMMIT has overlapped, and `chevauchees`, `retouchees`,
`excuses` which rows such a request has written: a property excuses these rows and no
other, which says exactly what the code guarantees without any lock.

### CycleBudget

`version` is `dim_version.statut`; `statutCr` and `validateur` are the row of
`fait_budget_cr_statut` of each CR ("ABSENT" without a row); `snapshot` is the row
of `dim_version_cr_attendu` (no row, active, inactive); `contenu` abstracts the
`fait_budget` rows of a CR to one of a few values or `Vide`. Three history variables
record what the properties relate: what a locked CR should hold (`contenuSoumis`: the
lines of its last submission, or those `FaitBudgetService` has written since, which tests
no lock: `ReecritSoumis`), the workflow that approved the version (`voie`), and the CRs
added to the snapshot after the version left 'ouvert' (`tardifs`). The perimeter of a user is the constant
`Perimetre`, which `Perimetres` computes.

Each action is a handler of `CrWorkflowService`, `VersionWorkflowService`,
`BudgetSaisieService`, `BudgetImportService` or `FaitBudgetService`, with all its
guards and writes; `Bascule` is the automatic passage to 'pre_valide' that
`valider` and `retirerCrSnapshot` end with. `Supprimer` is `VersionService.softDelete`, a
DELETE of the row: the foreign keys of the lines, of the workflow by CR and of the snapshot
refuse it while anything refers to the version (`SansReference`), and nothing happens to a
version that is "supprimee". A refused request is not a step.

### CycleBudgetConcurrent

Each of up to |`Requetes`| requests goes through `Recevoir` (reads and tests before
the transaction), `Lire` (reads and tests inside it), `Compter` (for `valider` and
`retirer`: own write, then the count of the snapshot, which sees committed rows
and its own; the row stays locked) and `Conclure` (remaining writes and COMMIT).
`Annuler` is a rollback at any point. `absents`, `auteur`, `version` and `complet`
are what the handler keeps of its reads. Unique keys make the last step
impossible (only `Annuler` is left), a locked row makes it wait. Once the version is
deleted, handlers that had read it can only be rolled back: what they write refers to it.

### LignesBudget

One centre, one scenario and one open version. A *cell* is what a user fills (an account for
a month); a *grain* is the unique key of `fait_budget`, which names rows of the historised
dimensions: the row of the account, which stands for the dimensions a cell names, and
the row of the product, which stands for those taken by default. `debuts` holds the
starts of validity of the rows of each code, `Contexte` revises them, archives the
scenario, or restarts the process. The three writers do not find a line in the same way:
the grid looks it up without product, structure, segment or currency, the import by the
whole grain, the unit calls by the identifier. `cache` is `defaultsCache` of the import, which is
an attribute of the service: a restart empties it, nothing else does (the comment of
`budget-import.service.ts` says it lasts for the import). `lot` is the file between its
check and its write. Amounts are integers in ten-thousandths: the import rounds to the
cent, the other two keep four decimals. `libres` records the lines whose amount and
conversion the client sent (a PATCH that changes the amount recomputes nothing), `exclues`
the cells that a revision or a unit call has touched.

### DocumentOfficiel, DocumentOfficielConcurrent

`comite` and `visas` map each user to his row; ordre 0 and "AUCUN" mean no row.
`signature` holds what was hashed (`contenu` and the VISE rows) instead of the hash.
`ContenuFige` also covers the detail and the file, which the hash does not.
`isAdmin` is FALSE in every call of the controllers, hence `Admins = {}` in every
configuration. `supprimerFichier` exists in the service and is called by no route; it
is `EcrireFichier` with "NULL". The concurrent module fixes the Comité, whose
campaign is launched, and lets `Apposer` (the save of a visa and the re-reading of the
others) and the COMMIT of two transactions interleave. `doublees` records the requests
that another COMMIT has overlapped since they read: those alone are excused from
performing a whole handler of the serial module.

### RegistreRealise, Realise, Ecarts

`RegistreRealise` is what a reader may rely on: for each key nothing, an amount, or a
validated amount, and what one COMMIT may change of it. `Realise` is the code: `realise`
is the table by identifier, each request first reads and tests (`Recevoir...`), then writes
(`Conclure`); an import reads and writes its rows one after the other in one transaction.
`RealiseService.modifier` and `valider` save an image whose statut they have tested before, so a
request that a COMMIT has overlapped may undo a validation: `retouchees` names the keys
where that happened, and the refinement mapping (`etat <- [c \in Cles |-> Etat(c)]`) gives
them to the register, which excuses them. `Ecarts` adds the dashboard: the two aggregates,
the query driven by the budget, the anti-join, the indicators and the income statement, for
every budget of a set. Its rows are *grains* (`GrainDe`), coarser than both tables: a budget has
several lines in one (product, segment), the actuals a row per currency, and the code adds up
the amounts of these as they were entered, without conversion.

### Reforecast

`versions` holds the reforecasts by identifier (0 is the published budget when it is a source,
NULL when it is a `remplacante`), `lignes` their rows of `fait_budget`, `suivies` those that have
a row of the workflow by CR or of its snapshot. `lancer` is three steps: the guards and the
reading of the active reforecasts of the key; the INSERT, the marking of the former ones (which
locks them) and the copy of the validated actuals; the extrapolation and the COMMIT. What it
inserts is a version like any other, and every service that writes versions or lines reaches it:

- `LireVersion` is the global workflow, the only one to ask whether the reforecast is OBSOLETE;
- `LireVersionCr` is the workflow by CR (`basculerVersionSiTousValides`, `rouvrir`,
  `demanderRevision`, `soumettreComite`, `approuverComite`), which tests the statut only; what its CRs
  must have done, which `CycleBudget` models, is left free;
- `LirePourModifier` is `VersionService.update`, which may give another type, never this one;
- `Enregistrer` ends the four above: the whole image (`repo.save`) or the columns that differ
  only; the moves made by an UPDATE (`ParCr`) write the statut alone;
- `LireBrouillon` and `Supprimer` are `softDelete`: refused while a line, the workflow by CR or a
  reforecast made of this one refers to the row, but `fk_version_remplacante` is ON DELETE SET NULL.
  What is left ("SUPPRIMEE") is a history of the key, which the properties use;
- `Saisir` and `Retirer` are the writers of lines (grid, import, `FaitBudgetService`), one line at
  a time: they test the statut before their transaction, so one may end after it has changed.

The actuals are those of `RegistreRealise`: `Actualiser` is any of its regular commits, so what is
shown of reforecasts rests on the promise that `Realise` is shown to keep, not on its
details. `croises` and `chevauchees` record the requests that a COMMIT on versions or actuals
has overlapped and the reforecasts they wrote; `saisies` the lines entered since the launch.

### Perimetres, Delegations

`Perimetres` resolves a target (global, structure, CR, set of CRs) against the current rows and
applies the priority of the rows of `user_perimetres` over the roles. In `Delegations`,
`perimetres` is that table, keyed by the delegation that made the row (0 for none) and a number:
a row with a delegation is a *mirror*. A delegation is created, revoked and expired with its
mirrors in one transaction, but each handler saves the image of the delegation it has read.
`travaux` holds what the requests and the runs of the two jobs have read. `Expirations` and
`Rappels` are sets of runs: a start of the application and a cron each begin one, in any process
and without a lock, so runs overlap. A run of the reminder reads the identifiers, then takes each
delegation again (`PrendreRappel`), sends, and marks it outside any transaction;
`croisements` counts the times a run took a delegation that another one held.
`Evoluer` revises or deactivates a row of a dimension, `AdministrerPerimetres` gives and
takes back rows (`Retraits` bounds the latter), `Interrompre` stops a handler anywhere. `retires` and
`chevauchees` record the mirrors an administrator took back and the delegations saved from a stale
image. Access is read in two ways: `Acces` is `getCrAutorisesPourUser`, which decides; `Liste` is
`UserPerimetreService.resoudreCrAccessibles`, which fills the list of CRs from the active rows,
without testing their dates and without the roles.

### Comptes

`comptes`, `roles`, `jetons` and `liens` are the tables of users, role links, refresh tokens
and reset links. A password, a token or a link is named after the request that makes it, so
that "the same password comes back" and "the token of that session" can be said; a
session is the set of tokens that come one from the other by rotation. A handler reads, computes
a hash (slow), saves: any other request may commit in between. `EnregistrerCompte` writes the
whole image, or only the columns of the operation when the COMMIT that made it stale came
after the SELECT that `repo.save` does. `perimes` says which rows held by whom are stale,
`excuses` which sessions, links and sets of roles were written from a stale image.

### FileEmails

`statut` is `email_log.statut`; a job carries the row it names, whether it holds the
secret (temporary password or link, never stored in the row), its attempts and its
restarts. A worker is at one step of `EmailWorker.process` / `traiterJob`: taken,
marked EN_COURS, mail accepted or refused, outcome to write again, exception raised,
last attempt recorded, finished. `Incidents` says which faults may strike: the
publication fails ("redis"), a process stops ("arret"), a save fails ("base"), SMTP
accepts and answers too late ("delai"). `perdus` and `doublables` record the rows that a
fault has touched, so that the properties say exactly what holds without and what a
fault may cost.

### Scd2

`lignes` holds the rows of the six tables (`dim_structure`, `dim_centre_responsabilite`,
`dim_compte`, `dim_ligne_metier`, `dim_produit`, `dim_segment`); ids are unique over the
tables, 0 stands for NULL (no end date: current version; no parent). Each service has one
action for `create` and one for `update`, whose disjuncts are the cases of the PATCH: only
`est_actif`, in place; a row that began today, overwritten; an older one, closed and
replaced by a new version. After that last one, and after its COMMIT, the children of the
row (the CRs of a structure) are relinked; the second disjunct of `Reviser` is the
interruption in between. `ImporterCompte` is one row of the file of accounts, which goes
through the same service. The tests differ by service as in the code: the structures look
for cycles in both cases, the accounts, lines of business and products only in the last
one. `perdues` records the rows closed without relinking (interrupted revisions and closed
structures), `corriges` the keys whose parent was last set to one that the search for cycles
would refuse. `jour` is today, which `NouveauJour` advances.

## 3. Properties and runs

Each passing run, its instance and what it shows:

- `cycle_sequentiel` — two CRs, two users (one in charge of both, one of one),
  two contents, every operation. `ApprobationComplete`: what the Comité examines
  and approves rests on validated CRs, late additions apart. `LignesFigees`: a
  locked CR holds the submitted lines, direct writes apart. `GeleImmuable`:
  publication is final. `BasculeFaite`: the request that completes the expected
  CRs moves the version.
- `cycle_concurrent` — two requests, one CR, every operation: `CheminDApprobation` and
  `ValidationTracee`, what survives any interleaving, and `ImplementeCycleBudget`: as long
  as no COMMIT has overlapped the readings of a request, its steps are an action of
  `CycleBudget` or change nothing. So the properties of the first run hold of the split
  handlers too when nothing overlaps.
- `lignes_budget` — one cell, two rows of its account and of the default product:
  `SaisieGardee` (what was entered last is what the table adds up to, as long as no
  revision and no unit call touched the cell: the two writers look a line up by different
  keys, and one cell in two lines is counted twice), `ConversionSuivie` (the amount in
  francs follows the amount and the rate, unless the client sent them),
  `EncoursCoherent` (a line in ENCOURS_TIE holds the interest of its balance).
- `document_sequentiel` — a Comité of up to three members chosen by TLC, visas in
  order: `VisasAvantSignature`, `OrdreRespecte`, `SansImpasse`, `SignatureIntegre`,
  `ContenuFige`.
- `document_concurrent` — two requests, visas in any order, two mandatory members and one
  who is not: `CircuitRespecte`, and `ImplementeDocument`, the same refinement for
  `DocumentOfficiel`.
- `realise_ecarts` — three keys, two of them the two currencies of one grain, two requests:
  `ImplementeRegistre` (the table keeps the promise of the register), and over the tables reached
  `RienCompteDeuxFois` (the dashboard has one row a grain, and counts each validated amount,
  as entered, and each budget line once, although both tables are finer) and `SoldeExplique` (the indicators and the income statement tell the same story).
- `reforecast` — two requests among all the handlers above, beside the actuals, on a
  reforecast and the one that replaces it. `UnSeulActif`: two active ones of a key only where
  requests overlapped. `RemplacantVivant`, whatever overlaps: what is replaced points to a later
  reforecast of its key, unless that one was deleted, and its key has a later one that nothing
  replaced. `ConsolideDurable`: an amount of a closed month that nobody has entered over since the
  launch is still the validated amount of its key, whatever the actuals and the neighbouring
  lines become. `ObsoleteFige`: a replaced reforecast does not become active again and, as long
  as it keeps its type, is neither submitted, rejected nor published.
- `delegations` — two users, one request, the administrator, a run of the expiration and two of
  the reminder over three days:
  `MiroirsSuivent`, `AccesJustifie` (an access comes from the user's own rows and roles or from
  a delegation in force of a perimeter somebody held without delegation; the list of CRs shows
  nothing by a closed delegation), `UnRappel` (another reminder is due to an interrupted run or to
  two runs that held the delegation together), and the liveness property `EcheanceTenue`: an overdue delegation is closed, mirrors included.
- `comptes` — four requests, each made once, on two accounts and two roles:
  `UsageUnique` (one valid token in a session and none once it is cut; one reset per link),
  `JetonLegitime`, `RienNeRevient` (neither a former password nor an activity that was taken
  away comes back), `RoleActif`; each excuses the requests that overlapped on the
  same row, and nothing else.
- `file_emails` — an ordinary row that is replayed and one with a secret, two jobs, two
  workers, all faults: `IssueConnue`, `EnvoyeSincere`, `SansDoublon`, and the liveness
  property `Aboutit`.
- `dimensions_historisees` — two keys, three rows, two days, every operation of the six
  services: `VersionUnique` and `PasseFige` (a business date resolves to one version, for
  ever), `LienVivant` (the parent of a current row is current, interruptions and closed
  structures apart), `CyclesExpliques` (structures form a forest; an account, product or line
  of business is its own ancestor only behind a same-day correction, which asks
  nothing of the parent but to be current).

One run shows a disagreement between the code and what it says of itself:

- `document_resoumission` — a rejection leaves the REJETE and VISE rows; the next
  submission inserts a row per member, meets the unique key and always fails, although the
  comment of the rejection announces a clean reset.

Six configurations are kept beside the runs: TLC finds in each a state that contradicts a
document or a natural expectation. They take no part in the runs, whose properties name
these cases as exceptions.

- `BasculeConcurrente.cfg` (`MCCycleBudgetConcurrent`): two overlapping validations each count
  the other CR as not validated; both commit, the version stays 'ouvert' with everything
  validated, and only a reopening can move it again.
- `GeleConcurrent.cfg` (same module): a second approval of the Comité, which read
  'soumis_comite' before the first one committed, writes 'valide' over a publication.
- `VisasSimultanes.cfg` (`MCDocumentOfficielConcurrent`): the last two mandatory visas, committed
  together, each see the other one EN_ATTENTE: the document stays SOUMIS_VISA with nobody
  left to decide.
- `FileSecret.cfg` (`MCFileEmails`): replaying a password mail publishes a job without the secret;
  the mail leaves without password or link and the row says ENVOYE.
- `LignesPorteur.cfg` (`MCLignesBudget`): an import puts a line in ENCOURS_TIE on an account that
  bears no interest (`fait-budget.entity.ts` and `docs/modele-donnees.md` §4.1 reserve the mode).
- `EcartBudgetNul.cfg` (`MCEcarts`): an actual on a budgeted row of zero is NORMAL where
  `docs/lot-5/5.2-tableau-bord-budget-vs-realise.md` says CRITIQUE.

`FileAvecPannes.cfg` is a larger passing instance of the queue (three jobs, two replays) with
`EnvoisBornes`, for whoever changes the worker.

Other limits of the code that the properties name, at the lines the hazards give:

- Version cycle: `initialiserSnapshot` has no guard on the version, so it can add CRs to an
  approved one (`tardifs`); `FaitBudgetService` does not test the lock of the CR (`ReecritSoumis`); a
  grid whose lock was tested before a submission commits still writes (`LignesFigees` is a
  property of `CycleBudget` only). The same holds of an edition or a detail of a document
  (`ContenuFige`), and of a visa saved after a rejection deleted its row (`VisasAvantSignature`).
- Lines: the defaults of the import outlive the import, until the process restarts; an import
  over a line in another currency keeps its rate; the import tests neither
  `est_porteur_interets` nor an archived scenario; a PATCH of the amount recomputes nothing;
  `createFromBusinessKeys` in ENCOURS_TIE converts the amount the client sent, not the interest.
- Actuals: an edition may save an image it read before a validation (`retouchees`).
- Dashboard: the actuals of a grain are added up whatever their currency, beside a budget in
  francs; `docs/lot-5/README.md` says that only XOF is entered for now.
- Reforecast: nothing in the database refuses a second active reforecast of a key. A draft that
  replaced another may be deleted: the quarter is left without an active reforecast, and the
  pointer of the replaced one is empty. `docs/RECETTE-MVP.md` and `docs/lot-5/recette.md` say that no
  transition of an OBSOLETE reforecast is possible; the workflow by CR asks nothing, and one that is
  'ouvert' may be given another type, after which neither its publication nor the search for the active
  ones holds it back. `getComparaison` labels as REALISE every closed month, those entered over
  included. The run states what is left of the claims (`ObsoleteFige`, `ConsolideDurable`).
- Delegations: a reminder that overlaps a revocation saves an active delegation again
  (`chevauchees`), without its mirrors; two runs of the reminder that overlap both send
  (`croisements`), although the comment of `notifierJ3` says that a restart on the same day does not;
  the list of CRs still shows a perimeter before its first day and after its last; a mirror lives on when the row it copies is taken back; a mirror
  restricts a user whose role is global, since rows go before roles; the unique index ignores
  the dates, so an overlapping delegation is refused where `docs/lot-4/4.2-delegations.md`
  (rule 7) only warns; a revised CR or structure is not repointed in `user_perimetres`.
- Accounts: two removals may leave a user without a role, two refreshes may leave two valid
  tokens, an edition in progress may put back what a reset or a deactivation wrote.
- Dimensions: the child structures of a revised structure keep pointing to the closed row, and
  the closing of a structure does not look at its CRs; after a cycle of accounts
  `findDescendants` does not end (its guard in `SansCycle` is that the generations run out).

## 4. Bounds

- Version cycle: two CRs are the least with an expected CR left while another is validated, and
  two users the least with a validator other than the one who asks. The snapshot
  starts empty, so every composition is reached through the operations. Two contents (plus
  `Vide`) distinguish submitted lines from other ones. `cycle_concurrent` has one CR, because
  its properties concern one row of each table.
- Two requests in progress: each race found needs two, and each handler has at most three
  accesses. The theorems of section 6 are for any number.
- Documents: three users in the Comité, two mandatory ones for an order and a missing visa,
  one who is optional.
- Lines: one account, one month (2) and one date of revision (3), so that the rows valid at the
  month and the current rows differ; two rows of a code, two lines in the table (one cell in
  two lines is the case that matters); one amount, one balance whose interest is not a whole
  number of cents (180 ten-thousandths), one rate other than 1.
- Actuals: three keys (two currencies of a grain, and another grain) and two amounts, files of one
  and two keys, two rows ever inserted. Three budgets, one of zeros, two lines for one grain,
  and a grain without actuals.
- Reforecast: one line of a closed month; two reforecasts ever inserted give a replacement, or a
  source that is itself a reforecast. `Interventions` says which reforecast each of the other
  services reaches: the first is given another type and taken through the workflow by CR, the second,
  which may replace it, is deleted; both are entered over. The theorems are for any lines,
  any number of reforecasts, all interventions and closed months without actuals; the average is an integer division. The
  months to come are in the model and the proofs, and take no part in the properties.
- Delegations: two runs of the reminder and one of the expiration, which a second would only
  repeat; the row that is delegated may be taken back (the proofs are for any row); two delegations, days 0 to 2, a notice of one day instead of three (the only
  relation that counts is that the reminder comes before the end), one interrupted
  handler, one period asked for.
- Accounts: `Requetes` names the requests ever made, each made once: four are enough for a login,
  two overlapping refreshes and a replay, or a request for a link, two resets and a change.
- E-mails: two jobs allow the row to be replayed while its first job is alive; two attempts
  distinguish a retry from the last attempt; one restart is BullMQ's default
  `maxStalledCount`. `Place` refuses a request when no job is left.
- Dimensions: three rows give a parent, its child and its next version, or three versions'
  worth of creations, closings and re-creations; two days separate the same-day correction from
  the revision. `Ensembles` keeps tables that do not refer to each other from being mixed;
  the labels vary only where the type and the level do not. A cycle behind an interrupted
  relinking needs five rows: the exemption for `perdues` is not reached at this bound.
- `CHECK_DEADLOCK FALSE` stands where the system really may stop: a deleted version, a signed document or
  one that cannot be submitted again, a queue whose rows all have an outcome, requests all made,
  the last day.
- Requests, jobs, workers, keys and labels are interchangeable where nothing names them:
  symmetry is used in runs without liveness properties only.

## 5. Fairness

- `FileEmails` (`Equite`): a request that has begun and a worker that has a job go on (WF: their
  next access returns or fails), a waiting job is taken in the end (SF: the worker of one job at
  a time frees itself again and again, and Redis hands jobs in order), and BullMQ's check of
  stalled jobs runs periodically (WF). Nothing is assumed of the arrival of requests, of the
  answers of SMTP, or of the faults.
- `Delegations`: WF of `TacheExpiration` for each run, which `delegations-cron.service.ts` starts every night and
  at every start of the process. The reminder, the requests and the administrator have
  none: a delegation may be closed by none of them.
- The other modules contain only human decisions, for which the code justifies no fairness.

## 6. Proofs

The eight `*Proofs` modules prove the theorems that `PROJECT.json` lists, for every value of the
constants that satisfies the ASSUMEs of the modules: any number of CRs, users, requests,
days, rows. No other assumption is made. Each invariant below is inductive, and the
property follows from it; each action has its own lemma or step.

- `CycleBudgetProofs`. The four properties of the serial module are inductive with
  the type invariant (`LignesFigees` speaks of all the locked CRs at once, so it needs nothing
  else). `ReouvertureToujoursCorrigeable` says that a CR reopened may be corrected.
  For the interleaved module, `Acquis` says what a handler may still rely on when other requests
  have changed what it read: the statut it required was seen in the past (`HistoireFidele`) and
  its user keeps his rights. The invariant of `RaffinementCorrect` (`InvariantLectures`) is
  that a request that no COMMIT has overlapped would read again what it has read; each of its
  COMMITs is then the action of `CycleBudget`.
- `DocumentOfficielProofs`. `InvariantCircuit`: the Comité has a mandatory member and a
  submission gives every member a row, so "all the mandatory visas are VISE" is never
  vacuous. `JamaisDImpasse` needs no induction: the orders awaited have a least one (`PlusPetit`,
  from the finiteness of its lower bounds). The interleaved module follows the plan of the previous one; there the signature
  remains unique and the circuit is respected even when requests overlap.
- `FaitsProofs`, about `Realise`, `Ecarts` and `LignesBudget`. It begins with what the sums of the
  last two need: induction over the numbers, from the least element of a set, and over the
  finite sets (`Recurrence`, `RecurrenceFinie`; the induction is on a *set* that each use defines by
  its formula, since the provers cannot instantiate a predicate), and the lemmas `Somme...`, down to
  the existence of the recursive function behind `SumFunction` of the community modules.
  - Actuals: the code takes no lock; `Fraiche` is what an optimistic one would check: a
    request outside `depassees` still finds its rows as it read them. Then each COMMIT is a
    regular change of the table (`EffetRegulier`) or touches rows recorded in `retouchees`, which is
    the refinement of `RegistreRealise` (`RegistreTenu`).
  - Dashboard: its rows are the grains of the budget and of the actuals, once each
    (`RangeesParClef`), so a sum over rows is one over grains, then one over the lines, or the keys of
    the actuals, grouped by grain (`SommeGroupee`); the balance is explained row by row (`UneRangee`), then summed.
  - Lines: the converted amount follows the amount only if the rate does not
    change under it: `Convertie` adds that a line in the pivot currency has rate 1, since the import
    finds lines of the pivot only and leaves their rate alone. `Gardee` says that a cell nobody
    excluded has at most one line, the one that the grid and the import both find.
- `ReforecastProofs`. The rows are written from what open transactions and stale images hold, so
  `Tenu` says, for each kind of request, what it shares with the table: the actives a launch
  is about to mark are those of its key unless it was overlapped (`croises`), two open
  transactions never mark the same row (the lock of the UPDATE), what was copied is validated
  and stays so. An image is a row of the past: its key is that of the row, its pointer
  leads to a later row of the key or to one deleted since (`Pointe`), and it is the row itself if no
  COMMIT has overlapped the request (`Fraiche`). The hard part of `RemplacantVivant` is that a stale
  image may put back OBSOLETE on a row: `Relayee` says that a row that is OBSOLETE in the table or in
  an image (`Vieillie`) always has a later row of its key of which neither is true.
- `DelegationsProofs`. The columns `Fixe` of a delegation are written once, so a stale image
  only lies about its last three columns, and not at all if the request is not in `perimes`;
  mirrors copy a row that its delegator holds without delegation (`SourcesTenues`), so access
  comes from somewhere; `RappelsComptes` counts the e-mails of a
  reminder, and the runs that hold the delegation, by the interruptions and overlaps so far.
- `ComptesProofs`. An image that no COMMIT has made stale is the row. A password, a session or a
  link is named by the request that makes it, so it cannot come back from before; the
  second writer of a row was stale, hence excused.
- `FileEmailsProofs`. Each row not yet final is carried by a request that will publish
  it or a job that will treat it (`LignesSuivies`), by one of them only unless a fault or a
  replay says otherwise (`Seul`), and what SMTP accepted is written or about to be (`UneFois`).
- `Scd2Proofs`. The tables are disjoint, and links lead to current rows; `PasEffets` reduces
  the twelve handlers and the import to what they do to rows: one inserted, one changed in place,
  one closed and replaced, one closed. `Evolution` is what these four have in common.
  - Cycles of any length, without paths: a *loop* is a finite set of rows in which every
    arrow (row to parent) ends in the set and every row is the end of one. `BouclesExpliquees` says that
    a loop has no structure and, unless it holds a row in `perdues`, only current rows, one of whose
    keys is in `corriges`. It is inductive with `Annexes` (segments have no parent,
    `PerduesFermees`, `StructuresOrdonnees`): the rows not current of a new loop would be a loop of
    before, so all are current, and the search of `validateNoCycle`, which follows the chain to its end
    (`RechercheComplete`), has met the row that was to close it.
  - `AncetresEnBoucle` then finds a loop among the ancestors of any row that is its own ancestor.
  - For a structure the proof needs that search when a row of the day is changed in place. A revision
    leaves the children on the closed version, so the new one has no child and closes nothing.

Only model-checked: liveness (`Aboutit`, `EcheanceTenue`), which the prover does not handle under
fairness. Every safety property of a passing run is stated by a theorem.

## 7. Not modelled

- Migrations, entities, DTOs, modules, templates, controllers and seeds are about 37,000 of the
  62,000 lines of the implementation. They declare or forward; what they decide (unique keys, checks,
  permissions of a route) is part of the guards of the actions that meet them.
- Parsing of the files, comments and reports of lines; the contents, addressees, templates and
  preferences of e-mails; PDF and Excel files; read-only queries, indicators and the
  refresh of the materialised view: no decision of the models rests on them.
- The filters, perimeter and presentation of the dashboard.
- The audit log: append-only, and no guard reads it. Guards and strategies of `auth`: stateless.
- Secondary references: each operation tests and writes one row under a unique key. The matrix
  of permissions: recomputed for each request as a union of sets, written row by row by one screen.
- The limiter of logins (one in-memory map), the configuration of the bank (two caches of labels),
  the opening of a campaign (one event), the AI analysis (an answer stored for display).
- Overlap of two requests in `Scd2`: its handlers are served one at a time, interruptions apart.

## 8. Plan

1. `Scd2Concurrent`: two revisions of one key, or the closing of a parent and the attachment of a
   child, cut at their reads. The partial unique index on current rows should save
   `VersionUnique`; `LienVivant` needs the exemption of the requests that overlapped.
2. The matrix of permissions beside `Perimetres`, if the administration of roles gets caches.
3. The caches of `configuration-banque`, and the monthly alerts of the dashboard.
