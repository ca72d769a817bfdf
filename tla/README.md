# MyOriShop in TLA+

MyOriShop keeps the stock, the sales and the cash of a small trading business.
It is one FastAPI program over SQLAlchemy that runs in two roles: on every
seller's Windows PC with a SQLite database of its own, and on a central server
with PostgreSQL. The PCs work offline and synchronise over HTTP or by a file
that somebody carries; a launcher updates an installed copy in place; scripts
fill the dictionary and the price history from a console.

This directory holds TLA+ modules of that program, configurations for TLC, and
proofs checked by TLAPS. Paths below are relative to `src/`.

* [1. Inventory](#1-inventory)
* [2. Modules](#2-modules)
* [3. Runs](#3-runs)
* [4. Bounds](#4-bounds)
* [5. Fairness](#5-fairness)
* [6. Proofs](#6-proofs)
* [7. Where the code and its docs disagree](#7-where-the-code-and-its-docs-disagree)
* [8. Not modelled](#8-not-modelled)
* [9. Plan](#9-plan)

How to repeat everything, in this directory:

    tlc -workers 2 -config push_all.cfg MCPush.tla       # a run of section 3
    tlc -workers 2 -config sheet_all.cfg Sheet.tla       # five modules need no MC module
    tlapm PushProofs.tla                                 # the proofs of one module

A configuration belongs to the module whose name it begins with: `push_*.cfg` to
`MCPush`; `credentials_*`, `import_*`, `sheet_*`, `transport_*` and `update_*` belong
to `Credentials`, `Import`, `Sheet`, `Transport` and `Update` themselves.

## 1. Inventory

| Component | State | Operations | Interacts with | Hard part | Correct when |
|---|---|---|---|---|---|
| Push (`services/sync_client.py`, `services/merge.py`, `routes/sync.py`) | unsynced ledger rows (`synced_at`), the server's copy, schema revisions | collect the closure, POST, merge in one transaction, stamp | server database, network, upgrades, restores | lost answers, late requests, rows written meanwhile, version skew | a row is stamped only if stored; no column, parent or row is lost |
| Pull (`services/sync.py`, `services/sync_client.py`) | composite cursor, reference rows | collect a page, apply a page | product cards, stock recomputation | the server changes between pages, equal timestamps, unique codes | the client ends up with the server's rows |
| Automatic loop and button (`main.py`, `services/sync_client.py`, `routes/sync.py`) | run lock, switch, interval, last status | tick, click, record the result | push, pull, settings, restarts | a shared lock, an exception inside it, back-off after a refusal | one run at a time; the loop never stops for good |
| Offline upload (`services/offline.py`, `routes/offline.py`) | exported file, time-limited token | export, log in, upload | merge, accounts | repeated and late uploads, exact schema gate | the same guarantees as a push |
| Stock ledger (`services/ledger.py`, `services/batches.py`) | append-only `operations`, cached quantities of products and batches | `record_operation`, `recompute_derived`, seeding of legacy batches | every stock request, merge | concurrent increments, recomputation, rows older than batches | cached quantity = sum of the ledger |
| Stock requests (`services/receipts.py`, `sales.py`, `returns.py`, `transfers.py`, `writeoffs.py`, `corrections.py`) | none of their own | validate, then write in one transaction | ledger, cash, cards, warehouses | what was read when checking is stale when writing | no oversell without confirmation, no return beyond the sale |
| Finance and reports (`services/finance.py`, `finance_reports.py`, `reports.py`, `dashboard.py`, `operations.py`, `export.py`) | cash movements | deposit, withdraw, the cash of a sale or return; every sum over both ledgers | stock requests, currencies of warehouses, midnight | two ledgers, two calendars (local day, UTC stamp), frozen costs | every view shows the same figures; a closed day stays closed |
| Product cards (`services/catalog.py`) | code, soft deletion, prices | create, edit, delete, restore | pull, push, stock | uniqueness of codes holds per database only | active codes unique; collisions resolved |
| Warehouses, locations | currency, soft deletion | create, rename, delete | stock, finance, access | delete guard against stock; relabelled currency | no stock in a deleted warehouse |
| Pages (`routes/*.py`, `templates/`) | the fields of the open page | the steps of every form and wizard | all services | nothing is kept on the server; back, warnings, other clerks | what is stored is what was entered |
| Update (`services/update.py`, `launcher/`) | `app`, `app.prev`, `staged`, `app.failed`, marker, database, processes | unpack, back up, mark; stop, swap, migrate, start, check, undo | operating system, database | every step may fail; power cuts; a second click | code and database fit each other; a working release survives |
| Users and access (`services/users.py`, `security.py`, `routes/auth.py`) | role, warehouses, active flag, sessions | first start, sign in, (de)activate, assign, the guard | every route | what the guard read is stale when the handler commits | a request stays inside its user's role and warehouses |
| Passwords and tokens (`services/auth.py`, `devices.py`, `offline.py`) | hashes, device tokens, offline tokens | log in, rehash, reset, mint, revoke, touch | accounts, push, upload | a slow login or sync commits after a decision | decisions stand |
| Import scripts (`scripts/import_*.py`), dictionary (`services/dictionary.py`) | price history, accumulated file, dictionary, snapshots | four imports with their switches, export | users who type names, other consoles, kills | each reads first and writes last | nothing known is lost; typed names stay |
| Inventory sheet (`scripts/import_inventory_receipt.py`) | rows, cards, batches | dry run, booking, stop, repeat | receipts | the dry run has to remember what it would have made | the dry run predicts the booking |
| Backups (`services/backup.py`) | copies | create, prune, restore | update, push | restore of an old copy | a copy is consistent |
| Customers, catalogues, settings, rate limit, signatures, deployment | plain rows or none | look-ups and forms | | little | |

`PROJECT.json` lists the same components with their sources and what is left out
of each, and under `hazards` every place where one of these hard parts bites.

## 2. Modules

| Module | Models | Checked through | Proofs |
|---|---|---|---|
| `Delivery` | what a transport of rows promises: written once, stored once and unchanged, acknowledged only when stored | refined by `Push` and by `Transport` | |
| `Push` | the driver, the connection, the server's merge, upgrades, backups and restores | `MCPush` | `PushProofs` |
| `Transport` | what starts the driver: loop, button, lock, settings, restarts; and the exported file | itself | `TransportProofs` |
| `Catalogue` | product cards and codes on several databases, push with renames, paged pull | `MCCatalogue` | `CatalogueProofs` |
| `Stock` | ledger, cached quantities, every stock request, merges | `MCStock` | `StockProofs` |
| `Money` | prices, currencies, days and cash of the same requests; every report | `MCMoney` | `MoneyProofs` |
| `Wizard` | the forms of the desktop and the wizards of the phone | `MCWizard` | `AccountProofs` |
| `Update` | the app's half and the launcher's half of an update | itself | `UpdateProofs` |
| `Access` | accounts, roles, the guard, the warehouses of an operator | `MCAccess` | `AccountProofs` |
| `Credentials` | passwords, sessions, offline tokens, device tokens | itself | `AccountProofs` |
| `Import` | price history, dictionary, accumulated file, and the scripts that fill them | itself | `CatalogueProofs` |
| `Sheet` | the dry run and the booking of an inventory sheet | itself | `CatalogueProofs` |

`AccountProofs` has the proofs of `Access`, `Credentials` and `Wizard`, `CatalogueProofs`
those of `Catalogue`, `Import` and `Sheet`. `Sums` holds lemmas only: what `StockProofs` and
`MoneyProofs` need about sums over finite sets.

The modules share no variables. They are cut where the code hands over a value
that only one side may change: `Push` promises that rows and their parents
arrive, and `Catalogue` and `Stock` (its merges) begin with rows that have
arrived; `Transport` takes `PushMerged` and `Stamp` as the two outcomes of
`Push`'s request and composes them with a second way to the same server; both are
shown to implement one `Delivery`. `Stock` and `Money` are two views of the same
requests: `Stock` has the quantities, the batches and the races for them, `Money`
the prices, the currencies and the days. `Access` decides who may send such a
request, `Wizard` what it contains.

Definitions keep the names of the source where they translate a function
(`register_sale`, `cash_flow_report`). A definition commented `Mutant:` is a
wrong version of the one below it, used to show that a property notices.

### Push

A ledger row is its UUID; all its columns but `synced_at` are immutable, so they
are functions of the UUID (`Home`, `Parents`, `Enforced`, and from its writing on
`born`, `seq`). `db[d]` is a client's database: ledger, stamped rows, reference
rows, Alembic revision. `call`, `answer`, `late` are the request the driver waits
for, what became of it, and requests on the wire whose sender gave up.

| Action | Code |
|---|---|
| `Record` | `record_operation`, `record_cash_movement` with the rows they point to |
| `StartPush`, `Stamp`, `Refused`, `GiveUp` | `run_sync_once`: collect and POST; a 2xx; any other status; timeout or crash |
| `PullPage`, `PullEnds` | `_pull_all` (which rows arrive: see `Catalogue`) |
| `MergeCall`, `MergeLate`, `RefuseCall`, `DropLate` | `sync_push`: schema gate and `apply_merge`, for a request someone or nobody waits for |
| `CreateOnServer` | the server's own web users |
| `UpgradeClient`, `UpgradeServer` | migrations at start-up |
| `TakeBackup`, `Restore` | `create_backup`, `restore.bat` |

`Enforced` is smaller than `Parents` because migrations 0004 and 0008 add
`operations.sale_id` and `operations.batch_id` without a constraint: a missing
parent there would go unnoticed, and `ServerClosed` says that none is missing.

### Transport

`run[t]` is what the loop's tick or a click is doing inside the driver, `loop` the
coroutine `_auto_sync_loop` (read the settings, call the tick, look at the status
it left, sleep), `held` the run lock. `ReadConfig`, `CallTick`, `Pause` and
`GoToSleep` are `_auto_sync_iteration`; `ClickRun` is `POST /sync/run`;
`RecordLost` is a failed commit of the result, `LoopError` the broad guard of the
loop, `Restart` the end of the process anywhere. `OfflineExport` writes a file of
the unsynced rows, `OfflineUpload` merges it if the schemas are equal; an upload
stamps nothing on the client, so its rows are pushed once more later.

### Catalogue

The rows of the server and of each client with code, deletion mark and, on the
server, `updated_at` in seconds. `Creates`, `Edits`, `Deletes`, `Restores`,
`Receives` say what a write may leave in a database (with the partial unique index
`uq_products_code_active` as `Taken`), and the `Server...` and `Client...` actions
apply them to one; a deletion writes no operation, so it is not pushed. `Push` is
collect, merge with `_resolve_code_collisions`, recompute and stamp in one step
(module `Push` has the steps between). `PullPage` is one page after the composite
cursor (`Past`, `UpTo`): new rows are inserted before existing ones are updated,
kind by kind (`Precedes`), and a page that breaks the index or a foreign key
(`Applies`) is rolled back and ends the run as `partial`. Pushed rows keep the
`updated_at` of their client, any second up to now: the model assumes that no
client's clock is ahead. `reused` remembers whether anybody has typed a code that
some database still held; `Converges` is a promise only for as long as nobody has.

### Stock

The routes run in a threadpool. A request reads and validates first and then
writes in one transaction, so it is two steps: a `Check...` leaves a plan in
`request[t]`, `Commit`, `Delete` or `MergeCommits` carries it out, `Fail` rolls it
back. The ledger is a bag of operations, because nothing reads the identity of a
row written here; pushed rows keep theirs. A merge reads what it will recompute
in `MergeReads` and writes it in `MergeCommits`. `MergeLocks` says whether other
writers wait meanwhile: `TRUE` is SQLite, which has one writer, so that a merge keeps
the others out from its first insert to its commit (`db.py` sets WAL, foreign keys and
`busy_timeout`, nothing about transactions); `FALSE` is READ COMMITTED on PostgreSQL. Every merge modelled brings at least one new row.
`confirm` is the operator's answer to a warning. What `CheckReturn` does with
goods sold before batches is `_resolve_or_create_return_batch_id`; `Seeded` is
migration 0008. The pushed rows of the instances are a receipt and a sale of
another device; a return made on another device for a sale of this one is left
out, and would break `ReturnsWithinSold` as two requests at a time do.

### Money

`ledger` and `cash` are sequences of rows in the order of writing, each with its
business day (`day`, `None` for rows of old clients), the local day and the UTC
day of its entry. Whatever the operator dates, he may date back (`OpDate`). The
requests (`register_sale`, `register_return`,
`register_receipt`, `register_transfer`, `record_manual_movement` and others)
plan their rows, `Commit` writes them, and `Change` are the edits of prices, batch
costs and currencies that may come between; so may `Midnight`, also between two
rows of one commit. The reports are operators over the two sequences under the
names of the functions they translate: revenue, expense and profit, the balance
and its history by pages, the exported file, the best sellers, the value of the
stock, the filter for rows entered afterwards. A page of the history and the
exported file are sets of movements: the order of the history decides which page a
movement is on (`place`), and nothing else is said about order. Goods sold before
batches return to the legacy batch of their product, which is made for them if
there is none (`ReturnBatch`).

### Wizard

`page` is what the open page holds and what its buttons send; `intent` is what the
clerk has entered and not taken back; `stored` is the document in the end. Each
handler is an operator on the page: the fields it echoes survive, the others are
gone. Sale, receipt, write-off, correction and transfer are there for desktop
(one page) and phone (steps, back, basket, warning, confirmation), with the
customer header in both. `Elsewhere` is what other clerks do: batches empty or
fill, cards are deleted. `intent.lost` names the parts that a button is known not
to send (section 7); the properties are about all others.

### Update

`dir` is what the four directories hold: a release number, `Partial` (some of its
files) or `Nothing`. A release's number is also the schema it migrates to; `Good`
releases migrate and answer, and no other release serves a click. `request` is the
app's half (`update.apply` as `ApplyUnpacks`, `ApplyBacksUp`, `ApplyMarks`),
`launcher` the other half, one action per step of `apply_update`, each of which may
fail, and one per step of its undo. `orphan` is a process whose handle the launcher has lost: a
`wait` that raises drops it (`finally` in `AppProcess.stop`), a `terminate` that raises
keeps it until the undo starts a new process over it (`StartsOver`); the comment in
`apply_update` has it dropped in both cases. `Kinds` are the faults allowed on top of failing
steps: a power cut before any step (`"cut"`), an undo step that fails, or the rename
that puts a marker aside (`"undo"`), a second click (`"click"`); `faults` counts them. A migration that is interrupted
leaves some revision in between; a copy that is interrupted leaves a broken file.
That a bad release serves no click is an assumption: a release that fails its
health check but serves after a power cut would let the next update clear
`app.prev`, the last working copy.

### Access

A request is admitted by the guard, which reads the account and its warehouses
once (`Ask`), and commits later (`CreateUser`, `DeactivateUser`,
`SetUserWarehouses`, `CloseWarehouse`, `Move`, `Transfer`, ...). `taken[t]` are the
warehouses the user has lost since. `AskSetup` and `Setup` are the page of the
first start. The form with the warehouses of an operator is three steps: the guard,
`DeleteUserWarehouses` and `SetUserWarehouses` (the INSERTs and the commit). On SQLite
the one who has deleted keeps all other writers waiting (`WritesAlone`); on the
central server (`ReadCommitted`) another form may commit in between. The `DELETE`
removes only the rows it has seen, so `Kept` are those inserted since, a row inserted
twice breaks the primary key and the form fails, and `given[t]` records what others
gave the operator after the `DELETE` of form `t`.

### Credentials

One account and one device. `AskLogin` reads the row, `Login` is what follows
Argon2 (comparison, rehash, session or offline token), `AskUpload` and `Upload`,
`AskSync` and `Sync` frame a request with a token. Decisions of the administrator
fall between. Passwords are numbers in the order they were set; an age counts the
life of a token, and time stands still while a request is under way.

### Import and Sheet

`Import` has two machines, each with a price history, the server's dictionary, the
accumulated file and the overrides kept with it, and the snapshots. A script is a
job on a console: it reads, and then commits or renames once, unless it is
`Killed`. `AddEntry` and `UpdateEntry` are users who type. What is known of a
price is a set of fields, a name is where it came from. `apply_master_import`
refuses only when the count of entries would shrink and `--force` is not given; it
does not notice one added and one removed. That the accumulated file is exported by one
console at a time is an assumption on the operators (`Export`): the script takes no
lock, and `atomic_write` uses one name for its temporary file. `ApplyShades` changes names in the dictionary; the names on product
cards, which it changes too, are left out.

`Sheet` walks a sheet twice: `DryRow` decides and remembers (`pending`),
`ResolveRow` and `Register` decide and book, with web pages in between
(`WebCard`, `WebReceipt`). A date of expiry is its month: the order by day of
`_month_batches` and the day that `_apply_topup_notes` rewrites are left out, so of two
batches of one month `--apply` may top up another one than a warning of the dry run
named, and `Predicted` is about what the summary counts: a new batch or a top-up, a
new card or none. A dry run does not predict that a row will be refused,
and a second run may top up a marked batch of an earlier run with unmarked goods:
`RulesKept` speaks of the batches of one run, as the code does.

## 3. Runs

| Run | Shows |
|---|---|
| `push_all` | one client whose connection loses, delays and repeats requests, whose database may be put back to a backup once, while both sides are upgraded: the inductive invariant of the proofs (`IndInv`), no push breaks a constraint as long as nothing is restored (`AlwaysMergeable`), the protocol implements `Delivery` (`Delivers`), and without a restore every row is stored and stamped in the end (`Arrives`) |
| `transport_all` | loop, button and file: at most one run (`OneRun`), together they implement `Delivery` (`Delivers`), a refused loop tries once per longest interval (`BackOff`), and once the switch stays on every row is stamped, whatever clicks, errors and restarts came before (`Arrives`) |
| `catalogue_all` | a client and the server change cards while runs push, page and fail between pages: no push meets a duplicate code (`PushesMerge`), no push changes a row of the server and a pull that ends with ok missed nothing (`ServerDecides`), and with codes that are new everywhere the client converges to the server (`Converges`) |
| `stock_single` | one request at a time with merges between: the caches follow the ledger, it can be recomputed, and returns stay within sales (`LedgerSound`), unconfirmed removals keep stock at zero or above (`UnconfirmedKeepsStock`), and a count is what the batch then holds (`CountMeansCount`) |
| `stock_threads` | two requests at a time: caches and ledger agree whatever stale check let a request through (`LedgerHolds`) |
| `money_all` | two requests at a time over midnight and over edits: cash follows goods day by day (`SaleCash`), every page and file shows the same figures, and the pages of the cash history leave out no movement and show none twice (`ReportsAgree`), the figures of a past day stay (`DayIsClosed`), the value of the stock follows the goods (`ValueFollowsGoods`), nobody overdraws unwarned (`OverdrawnKnowingly`) |
| `wizard_all` | every form and wizard, back and forth, with other clerks about: what is stored is what was entered (`EnteredStored`), from batches of its own products and below zero only after a warning (`BatchesRespected`) |
| `update_all` | an update fails at any step and up to two faults come on top: code and database match at the watch (`MatchedPair`, without faults), a working release survives (`CodeSurvives`, with power cuts), the undo tears no database and costs no row it need not cost (`UndoSparesRows`), success means the marker's release (`SuccessServes`), a marker does not stay (`MarkerConsumed`) |
| `access_all` | two requests at a time on the central server, from the first start on: requests stay inside role and warehouses (`Confined`, `OwnGoods`), nobody locks himself out (`NoSelfLockout`), a form gives an operator all its warehouses and leaves no others than those another form gave him between its `DELETE` and its commit (`OneForm`) |
| `credentials_all` | logins, uploads and syncs race an administrator's decisions: an account that is off lets no file in beyond the life of one token (`CutOff`), and no late write takes a decision back, but for the rehash of an old hash (`DecisionsStand`) |
| `import_all` | the scripts run one after another on two machines, are killed anywhere, and users type meanwhile: a replaced dictionary can be restored (`WayBack`), the history loses nothing (`HistoryKept`), the file only grows (`FileGrows`), typed names give way only to what is authoritative (`HandKept`) |
| `sheet_all` | a sheet is tried, booked, stopped, killed and booked again: the dry run predicts the booking (`Predicted`), marked goods and card prices stay apart (`RulesKept`) |

Every module's type invariant is checked by its run as a conjunct of one of these
properties. Every property has a mutant of a mapped definition
(listed in `PROJECT.json`) that TLC finds to violate it. The further
configurations in this directory are demonstrations: `push_pair` and
`catalogue_pair` pass with two clients, `access_writer` passes on SQLite, where an
operator has the warehouses of exactly one form (`OneForm`); all others end with a
counterexample and are explained in section 7.

## 4. Bounds

| Bound | Value | Why it is enough |
|---|---|---|
| `MaxSchema` | 2 | version skew needs one side ahead of the other, either way round |
| `Push`: `MaxSeq`, rows, clients | 2, 2, 1 (2, 3, 2 in `push_pair`) | two rows of one device and one of another: a clash of numbers, a row that arrives while a request is under way; the proofs are about any number |
| `Push`: `MaxLate`, `MaxRestores` | 1, 1 | one request overtaken by any number of later ones; one restore brings back an old counter |
| `Transport`: rows, clicks, files | 1 each | the properties are about one row; one click is enough to hold the lock against the loop |
| `Transport`: `Intervals`, `MaxInterval` | 1 and 2, 3 | the order of the code's pauses |
| `Transport`: `MaxFaults` | 1 | a restart or a database error at any point |
| `Catalogue`: `PageSize`, `MaxChanges` | 1, 5 | every row boundary is a page boundary; two cards and a batch made, and two changes of them, or a code that moves |
| `Catalogue`: codes | 1 (2 in `catalogue_reuse`) | one code is enough for a collision, a renamed card and a code given back; the second lets a code move |
| `Stock`: `MaxQty`, `MaxLines` | 2, 2 (1, 1 with two threads) | two lines that fit alone and not together |
| `Stock`: `MaxRows` | 6 | four old rows, then a sale, a return and a merge |
| `Money`: baskets, hauls, deliveries | 2, 2, 1 | two lines at different prices and one at a warehouse of the other currency; a move inside a currency and one across |
| `Money`: `MaxDay`, `MaxServed`, `MaxEdits` | 2, 2, 1 | one midnight, two requests that race, one edit between check and commit; a sale of before the start can be returned |
| `Wizard`: codes, batches, `MaxLines` | 2, 2, 2 | a code with two batches in two warehouses and one without; a basket that can lose a line |
| `Wizard`: `MaxHeld`, `MaxShort` | 1, 1 | a batch that others fill or empty, and one piece beyond it |
| `Update`: `MaxVersion`, `MaxRows` | 3, 1 | an installed release, a good and a bad one, two updates in a row; a row written before or after the backup |
| `Update`: `MaxFaults` | 2 | a cut during the update and a second in what follows, or two faults of different kinds |
| `Access`: users, warehouses, threads | 2 administrators and an operator, 2, 2 | two forms for one operator at once |
| `Credentials`: passwords, token life, renewals | 3, 2, 2 | a reset after a reset; a token that outlives a decision; a rehash of a rehash |
| `Import`: codes, catalogues, consoles | one of each kind, 2, one a machine | a listed, an unlisted and a typed code; an older and a later price |
| `Sheet`: `MaxRows`, `MaxLots`, `MaxRuns` | 3, 4, 2 | two rows that fall together and one between; a second booking |

The clocks of `Catalogue` and `Money` may stay in one unit over several changes, so
equal timestamps occur. Symmetry is used where all properties of a run are safety
properties (`access_all`, `money_all`, `access_writer`, `catalogue_pair`).
Deadlock checking is off where people may stop working or a bound is used up and
nothing is left to do; `push_all`, `transport_all`, `credentials_all` and
`import_all` check for it.

## 5. Fairness

* `Push!Fairness`. `_auto_sync_loop` starts a run again and again, whatever the
  last one ended with (WF of `StartPush`, `Refused`, `PullEnds`). `MergeCall` and
  `Stamp` are strongly fair: over a connection that is tried for ever not every
  request and not every answer is lost. `UpgradeServer` is weakly fair because a
  client that is ahead of its server waits for just that; if the server is never
  deployed, the rows stay on the client by design. This is an assumption on people.
* `Transport!Fairness`. The same, but the loop is not assumed to run: it is one
  process whose steps (`LoopStep`), runs and clock (`Pass`) go on, and that it
  comes back to the driver is part of what `Arrives` shows. Clicks, uploads and
  settings are not fair; errors and restarts are bounded by `MaxFaults`, since a
  program that is restarted for ever need not get anywhere.
* `Update!FairSpec`. Weak fairness of the launcher's steps (`Cycle`): its loop goes
  on as long as the process runs. Nothing is assumed of the operator, nor that any
  step of an update succeeds.
* `Catalogue!FairSpec`. As for Push; of the requests for the page behind a given
  row not all fail, although the connection may break before any of them.

People are never fair, apart from the deployment of the server named above.

## 6. Proofs

Each theorem holds for every value of the constants that satisfies the module's
`ASSUME`s, which TLC evaluates in the runs. All go the same way: an inductive
invariant (`IInv`, in `Push` `IndInv`; `Money` has two, `IInv` and `VInv`), one lemma
per action, and the theorem from it. None of the properties is inductive alone.

| Theorem | Property | Needs in addition |
|---|---|---|
| `PushProofs!Invariance`, `Typed`, `NothingStampedTooEarly`, `SchemaGateSuffices`, `ParentsArrive` | `IndInv` and its parts | |
| `PushProofs!PushDelivers` | `Delivers` | |
| `PushProofs!PushNeverBreaksConstraints` | `AlwaysMergeable` | |
| `TransportProofs!OneRunAtATime`, `LoopBacksOff`, `TransportDelivers` | `OneRun`, `BackOff`, `Delivers` | |
| `CatalogueProofs!NoPushMeetsADuplicate`, `TheServerDecides` | `PushesMerge`, `ServerDecides` | |
| `UpdateProofs!CodeAndDatabaseMatch`, `WorkingReleaseKept`, `UndoIsCareful`, `SuccessIsTheMarkers` | `MatchedPair`, `CodeSurvives`, `UndoSparesRows`, `SuccessServes` | |
| `AccountProofs!EveryRequestConfined`, `GoodsLeaveOwnWarehouses`, `NobodyLocksHimselfOut` | `Confined`, `OwnGoods`, `NoSelfLockout` | |
| `AccountProofs!WarehousesOfOneForm` | `OneForm` | |
| `AccountProofs!UploadsAreCutOff`, `DecisionsOfTheAdministrator` | `CutOff`, `DecisionsStand` | |
| `AccountProofs!EnteredIsStored`, `BatchesAreRespected` | `EnteredStored`, `BatchesRespected` | |
| `CatalogueProofs!FileOnlyGrows`, `TypedNamesKept` | `FileGrows`, `HandKept` | |
| `CatalogueProofs!ReplacementHasWayBack`, `HistoryOnlyGrows` | `WayBack`, `HistoryKept` | `OnePerMachine` |
| `StockProofs!LedgerAgrees` | `LedgerHolds` | `MergeLocks` or `OneAtATime`; `NobodyOversold`, `PushesNameBatches` |
| `StockProofs!OneAtATimeIsSound` | `LedgerSound` | `OneAtATime`, `NobodyOversold`, `PushesNameBatches`, `ReturnsStayHome` |
| `StockProofs!RemovalsAreCovered`, `CountsAreKept` | `UnconfirmedKeepsStock`, `CountMeansCount` | `OneAtATime`, `NobodyOversold`, `PushesNameBatches` |
| `CatalogueProofs!DryRunPredicts`, `SheetRulesKept` | `Predicted`, `RulesKept` | |
| `MoneyProofs!BooksAgree` | `IInv` | `OldBooksAgree` |
| `MoneyProofs!SaleCashHolds`, `ReportsAgreeAlways` | `SaleCash`, `ReportsAgree` | `OldBooksAgree` |
| `MoneyProofs!OverdrawnKnowinglyAlways`, `DayIsClosedAlways`, `ValueFollowsGoodsAlways` | `OverdrawnKnowingly`, `DayIsClosed`, `ValueFollowsGoods` | |

**Push.** A stamped row is stored because the request that was answered with ok
held it and is stored; that needs an invariant of requests and answers
(`RequestsInv`). A stored row has all its columns because the request's schema is
at least that of each of its rows, which needs that a database never holds a row
newer than itself, also right after a restore (`DatabaseOK` of the database and of
the saved copy, `CopiesInv`). The server is closed because each request is
(`RequestOK`), which follows from a client's database being closed when the request
was collected. `AlwaysMergeable` needs `NumbersInv`: until a database is restored,
every row that was written is in the ledger of its author, so `max(seq) + 1` is
free; `push_restore_live` shows what follows afterwards. The refinement maps
`written` to `born`, `stored` to itself and `acked` to the stamped rows: `Record`
is a `Write`, a merge a `Store`, `Stamp` an `Ack`, `Restore` a `Forget`, and
everything else stutters. `ForeignKeys` is the shape of the keys of `models.py`: a
chain of at most two references.

**Transport.** `LockInv`: the lock is held by the one runner inside the driver, and
the loop waits exactly for its own tick. `RowsInv`: what a request or a file
carries was written, under a schema no newer than its header. `QuietInv`: after a
refusal of a tick the loop's pause is what is missing to the longest interval.
`Delivery` is implemented by both ways: a file is a `Store` without an `Ack`.

**Catalogue.** That no push meets a duplicate code needs that the codes of the
server are unique and that a card carries a code somebody typed or its own
`Suffixed` one (`OwnCodes`): a suffixed code then belongs to one card, so
`_resolve_code_collisions` cannot run into a second collision. It rests on the
assumption `Typed`, that nobody types a code the server has made. That a complete
pull has missed nothing needs `Paged`: while a run pages, every row behind its
cursor that did not change since has arrived; and `ClientRows`, that what is sent
is there to be sent.

**Update.** The invariant is layered by the faults that have happened. Always:
types, how far an undo knows the update came (`DidInv`), which processes may run at
which step (`ProcInv`), that an order names a release and a whole copy
(`OrderInv`), what is healthy (`HealthInv`). Without a second click: what a marker
names lies whole in `staged` (`ClickInv`). Without a failed undo step: what runs is
what lies in `app` (`CodeRuns`). Without either, power cuts included: where the
working release is at every step (`GoodInv`). Without any fault: which copy of the
database belongs to which code (`PairInv`). `CodeSurvives` is `GoodInv`'s,
`MatchedPair` is `PairInv`'s, the two step properties follow from the first layer.

**Access.** `RequestOK`: what a thread carries was admitted, and its scope lies in
what its user holds or has lost since. `OneForm` rests on `FormOK`:
what an operator has and the `DELETE` of a form did not find, others gave him since
(`given`); on SQLite nobody did, because at most one form is between its `DELETE` and
its commit.

**Credentials.** `AgeInv` relates the age of the latest token to the time since the
account was switched off.

**Import.** `JobOK`: what a script under way has read, and what may have become of
it since; `OneExport`: one export at a time. `WayBack` and `HistoryKept` need
`OnePerMachine`, one console a machine: with two, a script writes what it read
before the other one wrote (`import_two`).

**Sheet.** The two walks are compared without a record of the shop as the dry run
found it: `Ahead(n)` says that what was predicted of each row behind the first `n` is
what would be said of it now, if the rows between were booked. A dry run establishes
`Ahead(0)`, because `pending` stands for the rows before (`DryInv`); a row that is booked
turns `Ahead(line)` into `Ahead(line + 1)`, because afterwards exactly the rows like it
find a batch that found none before (`FilledGrows`). `MarkedInv`: a run remembers
every batch it made for marked goods, and has put nothing else into it; with
`DecisionInv` (what was decided of the next row stays true of its batch and its card,
whatever the pages do) that is `RulesKept`.

**Stock.** Every quantity is a sum over rows, so the proof begins with sums over
finite sets (module `Sums`: `SumFunctionOnSet` of the community modules, unfolded): adding an
element, two disjoint sets, two values per element, and `SumSplit`, summing by
groups. Their induction goes over a set of subsets, from the least element of a set
of numbers (`SetInduction`), because the library's induction theorems take an
operator. On top of them, `TotalPlus` and `SumsPlus`: what a sum over the ledger
gains when rows are appended is the sum over those rows, so the increments of
`record_operation` follow it. `KeepsBalance` is the assertion of
`recompute_derived` across a transaction, new batches included.

The invariant `IInv` is `LedgerHolds` and what it leaves out. The plans of the
requests under way still fit the ledger and the batches as they have become
(`PlansFit`): their rows name batches of the right product, what they create is new
and claimed by one request only, a legacy batch is created only for a product whose
rows older than batches add up to nothing, and a merge writes what a recomputation would
compute now. And a product whose rows older than batches add up to something has
its legacy batch from migration 0008 (`SeedsStay`), or a return would create one that absorbs old rows
without having counted them. `PlanStaysFit` is the heart of the concurrent case:
what others write leaves a plan fitting, however stale the check behind it is.

With one request at a time a plan is also still right: covered, counted from the
quantity that is there, within what was sold (`AloneInv`).
Together they give the two action properties, and with `ReturnsWithinSold` itself
(`SoundInv`) they give `LedgerSound`.

What the theorems need in addition holds in `stock_single` (all) and in
`stock_threads` (all but `OneAtATime`), and is needed:

* `MergeLocks` or `OneAtATime`: on PostgreSQL a merge overwrites what was committed
  meanwhile (`stock_read_committed`).
* `OneAtATime`, no two requests at once: two returns go beyond the sale together
  (`stock_returns`), two removals below zero.
* `NobodyOversold`, no product below zero when migration 0008 ran: it makes no
  legacy batch then, and two returns at a time make two (`stock_legacy_twice`).
* `PushesNameBatches`, pushed rows are younger than batches: an old row arrives
  without its legacy batch, because the closure follows `batch_id`
  (`stock_old_rows`).
* `ReturnsStayHome`, other devices push no returns (and sell positive quantities):
  `returnable_qty` counts the rows that are here, so each of two devices may return
  the same pieces.

**Money.** Every figure is a `Tally`, the sum of a weight over the rows of a ledger
that lie in a set, and the lemmas about it say what it is of an appended ledger, of
two disjoint sets, and of two ledgers that a set cannot tell apart. `IInv` is
`Books`, what the two ledgers say together, and `Base`, what is true of the plans of
requests under way. `Books`: goods and cash weigh the same by sale and day
(`BySale`), by period (`ByPeriod`), and, until something was edited, by period and
currency (`ByCurrency`); only sales and returns name a sale (`Linked`), and what was
returned was sold before in that sale at that price (`Brought`). `Base` (`GoodPlan`):
what a plan will book as goods it will book as cash, in one sale, on one day, and in
one currency as long as nothing was edited; every other plan books no goods. So a
commit adds equal amounts to both sides, and an edit between check and commit spoils
no more than the currencies, as in the code. A return pays for each line what that
line was sold for, which is why `Brought` looks at the price; that the revenue of a
day is its cash (`ReportsAgree`) is `ByPeriod` and `ByCurrency` of that day.

`OldBooksAgree` says of the rows a database starts with what the invariant says of
all later ones: they were booked as the code books them. TLC has found it, `IInv`
and `VInv` true on every state of the instance of `money_all`.

That the pages of the history are a partition is a fact about division (`PageOf`,
`OnOnePage`): a movement's rank lies in one interval of `LIST_PAGE_SIZE` numbers;
that the four filters add up to the balance is `FiltersSplit`. `DayIsClosed` needs
of the invariant that the ledgers only grow and that a batch stays in its warehouse:
the figures of a day are then sums over the same rows as before. `ValueFollowsGoods`
rests on `VInv`: a plan names batches that exist, and costs its rows as their batch
or card does, for as long as nothing was edited (`Valued`); a commit then changes
the value of the stock by what its pieces are worth (`CommitGains`), new batches
included.

**Wizard.** The server keeps nothing, so the invariant is about the page: it is
`Faithful` to what the clerk has entered. Where a part may be sent from, the page
holds it, or a button is on record as having dropped it (`HoldsLines`, `HoldsRest`):
on the desktop all rows and what the header of the customer means, on the phone the
basket of a sale at every step, and of the other flows the one line from the step on
at which it can be chosen, but only while the page still has a batch: a pick that
another clerk has spoilt leaves the clerk's intention behind, and is refused when it
is sent (`OneLine`). `FieldsOK` adds which steps have a batch and that only a sale
has a basket, without which the single line a desktop transfer sends would not be all of
it. Each action that only shows a page has a lemma that the new page is faithful
(`Shown` does the rest); all that save go through `Submitted`, which needs of
the action only that what it sends is what was entered, unless it is refused. A batch
that falls below zero had a line, that line was `Short`, and so the button was the
one that comes with the warning. TLC has found `WizardInv` true on every state of
`wizard_all`.

Of the constants the proof uses only that an empty field is no batch and no product,
and that a batch yet to be created is neither empty nor one of those there are
(`Fields`).

Only model-checked: the liveness properties `Arrives`, `Converges` and
`MarkerConsumed`, which are out of the prover's reach.

## 7. Where the code and its docs disagree

Each is a configuration kept beside the runs that TLC ends with a counterexample.

* `push_restore_live`: after a client is restored from a backup, `next_seq`
  (`services/ledger.py`) hands out numbers the server already has for this device;
  each retry of the push is refused, while the client says that it will be retried.
* `catalogue_reuse`: two sides give one code to two cards; the server renames the
  client's, and every later pull inserts the server's card before it updates the
  client's own, breaks the unique index and ends as `partial`
  (`_apply_pull_page`: "EXISTING rows are UPDATED with the server's values").
* `stock_legacy_twice`: two returns at a time create two legacy batches of one
  product; from then on `recompute_derived` raises at every merge.
* `stock_old_rows`: a row of before batches is pushed without the legacy batch that
  its own device has for it; a return of such goods then creates a legacy batch with
  quantity 0 (`_resolve_or_create_return_batch_id`), whose cached quantity misses the
  pushed row until the next merge recomputes it.
* `stock_returns`: two returns at a time are both within the cap that each has
  read before, and together beyond it.
* `stock_read_committed`: on PostgreSQL a merge overwrites the increment of a
  request that commits between its reading and its writing.
* `money_marked`: the history page marks a row as entered afterwards by its local
  day, its filter compares UTC days; a row entered just after midnight with
  the date of the day before is marked and not found (`is_backdated`: "No MARKED row is ever lost").
* `wizard_back_basket`: the button Back of the third step of the sale wizard sends
  no basket (`sale_step_qty_price.html`), although `sale_step_product.html` says
  that it rides along on every step.
* `wizard_customer`: the mobile sale has no guard for a customer who is typed but
  not added, although `sale_customer.html` says that it guards as the desktop does.
* `update_twice`: a second click empties `staged` while the launcher is about to
  swap it in.
* `update_unbootable`: a power cut between the two renames leaves no `app`; `boot`
  does not look at `app.prev`.
* `access_setup`: two forms of the first start with different logins both succeed
  (`setup_submit`: "exactly once").
* `access_lockout`: two administrators switch each other off at the same time.
* `credentials_reset`: a login that rehashes puts the old password back after an
  administrator has reset it.
* `import_two`: two imports into one price history; the second writes the whole
  row it has read and takes away a field of the first.
* `import_thin`: an export from a machine that lacks the bonus points replaces a
  fuller entry of the file (`merge_price_export`: "can never impoverish the
  accumulated file").
* `sheet_prices`: a card made on a web page while its row is being resolved loses
  its own prices to the catalogue's (rule 4 of the script).

Three more losses in the wizards are recorded as `intent.lost` in `Wizard` and left
out of `EnteredStored`: Back of the transfer's last step overrides a typed date
(`transfers_step_dest.html`), the button that adds a product drops a chosen
customer (`sale_basket.html`), and Back to the first step of a mobile receipt
resets its warehouse.

## 8. Not modelled

* Cryptography (release signatures, password and token digests), HTML, form
  parsing, formatting, spreadsheets: pure functions or libraries.
* The network and the operating system, except for what they may do to a request
  or to a file operation.
* That two forms for one operator leave him, on the central server, with the
  warehouses of both is in `Access`, and `OneForm` admits it: `given` says which of them
  came from the other form. "Replace an operator's warehouses (one commit)"
  (`services/users.py`) holds on SQLite.
* What a deleted product or warehouse may hold: `soft_delete_product` deletes a card
  with its stock, returns and merges put goods into what is deleted, so no property
  speaks of it. `Stock` has the deletions, their checks and what they refuse.
* The append-only triggers of `operations`: assumed, no action changes a row.
* The rate limit of the push route: a capped number under one lock that no other
  state depends on.
* In `Catalogue`: the dictionary, which a pull matches by code, and the other four
  reference kinds, whose rows have no unique columns; clocks that run ahead.
* In `Stock`: money, users, and the fields of cards and batches no guard reads. In
  `Money`: how much of a batch is there, and the deletion of cards. In `Wizard`:
  quantities other than one, prices and notes.
* In `Update`: fetching a release and checking its signature (the choice of a newer
  release), the name under which a marker is put aside, retention of backups.
* In `Access` and `Credentials`: the preferences of a user's page; a second account
  or device with a token.
* In `Import`: the names on product cards, the active catalogue, `reset_business_data`
  and `seed_demo_data`, which run alone on an empty shop.
* A restore of the server from a dump older than rows that clients have stamped:
  no client sends them again, and no code detects it.
* `splitlines()` in `_pull_all`, which also splits at U+2028 inside a JSON string:
  a property of Python's text handling.
* Dashboard tables, customers' statistics, search and paging of lists other than
  the cash history: read-only queries without a rule of their own.

## 9. Plan

1. A server restore in `Push`, and retention of backups with `Update`.
2. The dictionary's merge by code in `Catalogue`, with `Import`'s dictionary on the
   server's side.
3. Two rows and two clicks in `Transport`, and its composition with `Credentials`
   (a token that expires while a file waits).
