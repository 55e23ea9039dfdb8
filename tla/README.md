# A verification model of vcf-services

TLA+ modules, TLC configurations and TLAPS proofs kept beside the code of
`vcf-services`: a self-hosted appliance that mirrors the VCF binary depot on a
schedule and is run from a web console. Line numbers refer to the files of the
repository; `PROJECT.json` maps every modelled definition to the lines it
stands for.

## 1. The system

The appliance is a handful of containers that share volumes and a Redis
instance. Nothing is a library call between them: they meet in files, in
advisory locks (`flock`) on files, and in three Redis keys.

| Component | State it keeps | Operations | Talks to |
|---|---|---|---|
| **Bootstrap** `ui/bootstrap.py` | the config volume: settings, schema and release markers, block record, backups; the secrets volume | set up, migrate, accept or refuse the volume; write missing secrets | every service at start, through files |
| **Sync scheduler** `sync/entrypoint.sh` | fd 8 and fd 9 on `sync.lock`; `armed`; `state.json` (housekeeping writes) | boot: reap catalog workspaces, reconcile an open attempt, rewrite `state.json`, publish; loop: refresh `armed`, dispatch on cron, `BRPOP` a request and dispatch | starts sync runs and hands them the lock; Redis; console through files |
| **Sync run** `sync/sync.sh` | fd 9 (depot), fd 6 (settings snapshot), fd 7 (tool); `state.json`; `catalog*.json`; ownership manifest; the depot tree | lock check, catalog attempt, snapshot of `settings.env`, tool lock, early exits, targets, promotion of the tool, EXIT/INT/TERM traps | the download tool as a child that inherits its descriptors |
| **Admin console** `ui/app.py`, several gunicorn workers with several threads | the locks its threads hold; everything below that it serves | status, sync request, and the operations of the components below | files, locks, Redis |
| **Job and status bus** (`docs/redis-contract.md`) | `sync:status`, `sync:requests`, `sync:log` | SET, LPUSH/BRPOP; loses everything on restart | scheduler, runs, console |
| **Catalog** | `catalog.json`, `catalog-attempt.json`, `catalog-build.*` | open, build, publish, close, reconcile, report | run, scheduler, console |
| **Depot protection** | ownership manifest, the trees below `PROD/COMP` | inventory, upload, delete, protect, release; for every target: guard, listing, check afterwards, adoption, record of new trees | run, console, and operators directly on the volume |
| **Settings** | `settings.env`, the pending marker, the patched endpoints of the tool | save, against runs that start, read and end | console, run |
| **Tool store** | `current`, `previous`, `releases/`, `.update.lock` | install, retain, roll back, promote | console, run |
| **Registration** | the tool's identity file, the saved Software Depot ID, the adoption record, the metadata of each release, the activation code | adopt, install with two probes, verify on request and at every start, roll back, save the code | console, its worker processes, the tool |
| **API access** | `api-tokens.json`, `service-accounts.json`, `.api-tokens.lock` | issue, revoke, refresh or revoke at sign-in, create, enable, disable and delete accounts; the check of every call | console workers |
| **Owner password** | `auth.json`, `sftp-password`, `.credentials.lock`; in every worker process a cache of passwords found right | claim, change, sign-in | console, SFTP service |
| **SFTP service** `sftp/entrypoint.sh` | the running sshd and what it was started with | follow settings and password | console through files |

### What makes it hard

* **One lock, many kinds of owner.** `sync.lock` is taken by the scheduler's
  housekeeping, by every run, and by console pages, always without waiting. A
  flock belongs to an open file *description*: the scheduler opens it, the run
  inherits it, the download tool inherits it from the run, and the last one to
  close it releases the lock. A run may be killed while its tool lives on, and
  an operator may start a run by hand.
* **Two copies of the truth.** `state.json` and the Redis key; two links of the
  tool; a tree and its manifest entry; tokens and accounts; console and SFTP
  password; schema and release marker. Always written one after the other.
* **Read before lock, use after.** The `armed` refresh, the settings save, the
  sync request, the need for a verification and the claim all look at something
  before they hold anything.
* **Stops in the middle.** Every multi-step change can be cut anywhere, and what
  is left is the next start's input, maybe of another release.
* **A tool that is not ours.** It may write what it did not list, fail, live on,
  or change the registration that it is only asked to read.
* **Several processes do the same.** Every console worker starts a verification
  thread, serves any request and reads files that another is replacing.
* **Whole-second clocks** compared across files.

### What correctness means, per component

* Depot lock: a single writer; no listing while someone writes; the lock
  survives the hand-off and is released in the end.
* Scheduler: boots repair stale status; requests are taken; housekeeping never
  disturbs a run.
* Status: running is shown when and only when a run is at work.
* Catalog: what was published survives failures; a live attempt is not called
  interrupted; a dead one is resolved.
* Depot protection: no target is run against what the operator protects, a write
  against it is reported, product trees do not become protected by themselves,
  and only the operator ends a protection.
* Settings: what a save reports is what the runs use; the endpoints a tool reads
  do not move under it.
* Tool store: links name existing releases; a run keeps the release it has.
* Registration: a registered identity survives every install; the tool is
  launched once a start, and it is when that is needed.
* API access: no update of a store is lost; disabled means disabled.
* Bootstrap: what is served is ready, what is changed was copied, and what is
  from a later release is left alone; one Redis password.
* Owner password: console and SFTP take the same one; only a claim sets it and
  only one who knows it changes it.

## 2. Modules

| Module | Models | Uses |
|---|---|---|
| `DepotAccess` | what `sync.lock` promises: one writer or any number of readers | |
| `SyncRun` | scheduler loop, runs, console guards, `sync.lock` with inherited descriptors, `state.json`, the bus, failures | refines `DepotAccess` |
| `SyncCatalog` | catalog attempts, workspaces, publication, reconciliation, what the console reports | extends every step of `SyncRun` |
| `SettingsSnapshot` | `POST /api/settings` against starting, reading and ending runs | |
| `ReleasePair` | what the tool store promises: an active release and one to fall back to | |
| `ToolStore` | install, rollback, promotion, stops | refines `ReleasePair` |
| `DepotProtection` | manifest, uploads, deletions, protection switch, targets of a run | |
| `Registration` | identity, its records, probes, verification threads | |
| `ConsoleAccess` | token and account stores, calls | |
| `ConfigVolume` | the bootstrap on the config and secrets volumes, releases, crashes | |
| `OwnerPassword` | claim and change of the password | extends every step of `ConfigVolume` |
| `*Proofs` | theorems about the module of that name; `OwnerPasswordProofs` covers `ConfigVolume` as well | TLAPS |
| `MC*` | the constants of the TLC runs | |

An operator whose comment begins with "As if" is a variation of the definition
after it; no specification uses it. It shows what a property is sensitive to.

### SyncRun

`sched` is the scheduler's program counter: `stopped`, the boot (`reap` ..
`bootSet`), `loop`, housekeeping (`refresh` .. `refreshPublish`), `cron`,
`pop`, and a launch (`fork`, `handoff`). Every place where another process can
get in between is a step of its own: reading the code file and taking the lock
are two steps, preparing the new `state.json`, renaming it, and publishing it
are three. The publish at the end of the boot is two more, reading the file
(`BootRead`) and setting the key: it is the only one without the lock, so only
there can somebody write and publish in between.

`Runs` are slots of concurrently live `sync.sh` processes, reused when nothing
of an earlier run is left in them. `pc[r]` goes `launched` -> `admitted` ->
(`refusing` | `announced` -> `working` <-> `downloading` -> `finished`) ->
`exiting` -> `idle`. `holders[r]` are the processes that have the run's
description of `sync.lock` open (`sched`, `run`, `tool`), `lock[d]` the mode in
which a description holds the lock. `Close` is the one place where a lock is
released: when the last holder goes.

`CanLock(d)` says *every other* description holds nothing: a run that inherited
a locked description takes it again at no cost, which is what makes the hand-off
work (`entrypoint.sh:99-127`, `sync.sh:813-847`).

Failures are a constant: `crash` (the sync container stops), `kill` (one run is
killed, its tool survives), `write` (a `state.json` rename fails and is
swallowed), `publish` (a Redis command fails), `redis` (Redis restarts empty),
`lock` (`sync.lock` cannot be opened). Every run names the ones it allows.

### SyncCatalog

Extends `SyncRun` and conjoins each of its actions with the effect on the
catalog; the module adds the steps of `refresh_catalog` and the EXIT trap
between them. `attempt` and `catalog` stand for the two JSON files; attempt ids
are abstracted to "the live run that wrote it" and to `matches`, whether the two
files carry one id. `phase` is the position of a run in `refresh_catalog`;
counting what the new and the previous catalog list (`CountItems`) and renaming the
new one (`PublishCatalog`) are two steps, and the second looks at nothing but the
outcome of the first: a stop, a boot or another run may come between. The fault
`catalog` is a catalog file that cannot be written, `count` a count that fails and
is taken for 0. `Reported` is what `_catalog` answers, given a `finishedAt` read earlier
(`seen`).

### SettingsSnapshot

One run at a time (that is what `SyncRun` shows), numbered; two console threads.
A save has one step per read, lock, write and answer. `taken` is the guard's
verdict, `shared` the threads that really hold the snapshot lock: the difference
between the two is where the interesting interleavings are (`Bare`). `overtaken`
is not in the code: it remembers that the last run started while a save that had
met the one before was still under way. Settings are two
fields, one the tool reads live and one a run reads at its start.

### ToolStore

The two links, the release directories and the owner of `.update.lock`. Every
rename is a step. A release id is random in the code; an id is used again in the
model only when nothing is left of it, so four ids behave like any number.

`ReleasePair` is the promise: the release that is active and the one to fall back
to exist, an install or a rollback is one step that never falls into a run, and a
run keeps the release it began with. In the mapping (`Pair`) the old release is
active until the second rename, or until it is known that there will be none.

### DepotProtection

The depot lock is `owner`, one of `nobody`, `console` and `run` (what `SyncRun`
proves of it). `depot[t]` says whose files a tree has, `library` which trees look
like content libraries, `manifest` is the ownership file, and `Inventoried` the
scan that every request and every run begins with. An upload or a deletion is one
step per tree (`Publish`, `Remove`) and one for the manifest (`RecordUpload`,
`ForgetTrees`), so that a console stop or a failing write falls in between. A run
goes through its targets: `BeginTarget` reads the protected trees and chooses
what the target lists, `Decide` is the comparison and its failures, `ToolWrites`
is one tree written, listed or (fault `tool`) not, then `Verify`, `Adopt` and
`RecordNew`, which may also record some of the new trees and end the run
(`RecordFails`, fault `record`). `Kill` leaves an `orphan` tool that keeps the lock.
Operators put trees on the volume (`PlaceTree`), under any name that has no tree,
and volumes get lost (`LoseTree`).

Two variables are not in the code. `word` remembers who had the last word on a
tree: the operator with `protect` (an upload, a content library put there, or the
switch, whatever the manifest makes of it) or `release`, nobody, or a run cut short
(`left`). The properties compare the manifest with it. `outlived` are the names
whose open entry has stood without a tree since it was written; the code neither
removes nor reconsiders such an entry, so that a tree which comes later under the
name has its protection decided by an earlier one. `Outlives` keeps it with every
step.

### Registration

A release is what its metadata says of the identity: whether it was probed, with
which ID, and whether since this start (`recent`, for the comparison of
`machineIdProbedAt` with the start of the appliance). `lock` and `step` are the
holder of `.update.lock` and its position; `ToolReads` is what any launch of the
tool may do to the identity file (make up an ID where none is), `CandidateReads`
what a tool that was just uploaded may do (anything). `Written(k)` is the number
of records, out of k in a row, that get written. `Needed` and `Details` are the
two decisions the console makes from all this.

### ConsoleAccess

Both stores are read and written under one lock (`Read` .. `Finish`) and read
without it by calls, first the tokens (`Call`) and then the account
(`CheckAccount`). `ended` and `off` are what answers have said.

### ConfigVolume and OwnerPassword

`release` is the release that was started last and `phase` its position in
`prepare_config` and `main`; every write of the bootstrap is a step, and a crash
may come before any of them or (`torn`) within one that is done in place.
Settings are the keys of `settings.env`; release r completes the keys 1..r. A
volume may come from before the markers, from nothing, or from a later schema.
`OwnerPassword` adds the two password files and the requests; a boot or a crash
takes every request with it. A check of a password is three steps, as in
`_verify_credentials`: it reads the document (`BeginCheck`; `right` are the threads
whose document has the password they were given), compares the stamp of the file with
the one of the cache (`CheckStamp`; `fresh` are the workers whose cache has the
current stamp) and looks into the cache or at the hash it read (`Compare`). A change
does this under the lock, a sign-in without it. `WorkerOf` says which threads share
a process. The fault `read` is an `auth.json` that cannot be read, which
`_auth_doc` makes "no document": a claim goes on with it. `overtaken` and `blind` are
not in the code: the passwords that a check still had to accept when the last change
replaced them, and the threads whose claim could not read the file.

## 3. Runs

Twelve runs; the ten that pass explore their whole state space.

| Run | Properties | Instance | States |
|---|---|---|---|
| `sync_safety` | `TypeOK`, `SingleWriter`, `ReadersWriter`, `HandedOffRunIsAdmitted` | 2 run slots, 1 console thread, runs by hand, every fault, 2 clock values, symmetric runs | 1,150,313 |
| `sync_live` | `RunsEnd`, `LocksAreReleased`, `RequestsAreTaken`, `ArmedConverges` | 2 run slots, 1 console thread; kills, container stops, Redis restarts | 75,592 |
| `catalog_safety` | `CatalogTypeOK`, `LiveAttemptIsNotInterrupted`, `LiveWorkspaceIsKept`, `NonEmptyCatalogSurvives` | 2 run slots, runs by hand, 2 clock values; stops, kills, catalog files that cannot be written or counted; symmetric runs | 1,574,161 |
| `catalog_live` | `RunningMeansRun`, `DownloadIsAnnounced`, `BusFollowsFile`, `OpenAttemptResolves` | 2 run slots, 1 console thread; container stops, Redis restarts | 129,898 |
| `settings_saves` | `SnapshotTypeOK`, `SavedIsUsed`, `EndpointsStay` | 2 threads, 2 runs one after the other | 2,313,668 |
| `tool_stops` | `ToolTypeOK`, `LinksResolve`, `KeepsPair` | 4 releases, 2 threads | 2,464 |
| `depot_stops` | `ProtectionTypeOK`, `TargetSparesProtectedTrees`, `ProtectedWritesAreReported`, `ProductTreesAreOpen`, `ProtectionEndsByWord` | 2 symmetric trees, every fault | 2,247,098 |
| `registration_starts` | `RegistrationTypeOK`, `OnceAStart`, `RegistrationSurvivesInstall`, `NeedIsMet` | 1 identity, 2 workers, 2 starts | 185,621 |
| `access_tokens` | `AccessTypeOK`, `LiveTokensFollowAnswers`, `AccountAnswersHold` | 1 person, 2 service accounts, 2 tokens, 2 threads, symmetric | 543,189 |
| `config_boots` | `ServedVolumeIsReady`, `SecretsAgree`, `OwnerTypeOK`, `OnePassword`, `ChangesAreSafe`, `ClaimedOnce` | 2 releases and a later one, 2 secrets, 2 passwords, 2 threads in one process, symmetric; every fault | 1,426,460 |
| `tool_rollback` | `PromotionRemovesPrevious` | as `tool_stops`, and a rollback may be cut short | violated |
| `depot_upload` | `UploadsAreProtected` | as `depot_stops`, but nothing fails except that the console may stop | violated |

* `sync_safety`: only one party ever works on the depot, the console's pages
  exclude writers and the reverse, the descriptors refine the abstract lock, and
  a launched run that has the lock cannot lose it or skip itself. All failures.
* `sync_live`: runs end and give back locks, queued requests are taken, and a
  saved activation code becomes visible.
* `catalog_safety`: what a run decides on from its count of the previous catalog is
  still true when it renames its own, whatever stops, is killed or is started by
  hand in between, so that a catalog that lists something is emptied only by a run
  whose count of it failed (with a lock that admits two runs TLC empties one); the boot
  never removes the workspace of a live run, not even of one started by hand;
  the console's comparison of times never calls a live attempt interrupted.
* `catalog_live`: from the scheduler's first publish on, "running" is shown only
  with a live run, is shown during every download, and file and bus agree
  whenever nobody is between the two writes; an attempt a stop left open is
  resolved by the next boot. Kills and failing writes are left out: with them
  the code makes no such promise (a killed run leaves `running:true` until the
  next boot or run).
* `settings_saves`: the answers are true and endpoints do not move under a
  tool. The answers are not claimed for a run that was `overtaken`, see below.
* `tool_stops`: no stop of the sync side, no console stop during an install and
  no failing rename leaves a dangling link or takes the release away from a run,
  and to a run each install and rollback is one step: the store implements
  `ReleasePair`, which contains `RunKeepsItsRelease`.
  A console stop during a rollback does; that is `tool_rollback`.
* `depot_stops`: see "What correctness means". The cases that make it hard are
  all in the instance: a content library that the product downloads looks like
  one of the operator's; an upload is rolled back; a deletion is cut; a tool
  writes beside its listing; a run that is killed, or cannot record, leaves trees
  nobody recorded; a tree is uploaded or placed under a name with an entry of an
  earlier tree. Uploads, placed libraries and the switch all count as the operator's
  word. For an entry that is open and has outlived a tree the promise is not kept
  by the code, and the properties except exactly those names.
* `registration_starts`: two workers, one restart, candidates that change the
  identity at either launch, probes and records that fail, runs and requests
  that hold the lock. A verification that is needed is carried out as long as
  the console's threads go on.
* `access_tokens`: no update of the stores is lost, and what an answer said of
  an account holds between the two writes of a deletion and after a failure.
* `config_boots`: two releases started in any order on a new, an unmarked or a
  later volume and cut short at every write, with two requests on the appliance
  that results: claims, changes and sign-ins, whose checks share a cache. The
  password is changed only by a request that gives it; TLC needs both exceptions of
  `ClaimedOnce`, and finds a trace without either.

### Disagreements found

Two are runs in which TLC produces the trace.

| Run | What the code does |
|---|---|
| `tool_rollback` | A console stop between the two renames of a rollback (`app.py:1915`) leaves both links on one release; the next fully successful sync removes "the previous release" (`sync.sh:1166`) and with it the current one. |
| `depot_upload` | `_record_operator_trees` (`app.py:484`) keeps an entry that exists, and an entry can outlive its tree (`app.py:3519-3523`). A tree uploaded later under that name is not protected, although "Newly uploaded top-level trees are recorded as operator-provided and protected automatically" (`README.md:167-168`). |

Without the failures named there neither can happen: `PromotionRemovesOlder` and
`UploadsProtect` below.

Others were seen while modelling and are noted here only; each is a behaviour of
the modules above.

* `sync.sh:838`: a run that meets a console page on the lock logs "another sync
  already holds the depot lock, skipping this trigger"; there is no other sync,
  and nothing repeats the trigger. `redis-contract.md:43-46` speaks of "another
  run".
* `sync.sh:786`: a termination between the rename of `catalog.json` and the
  record of its result marks an attempt failed that did replace the catalog;
  "A failed or interrupted attempt never replaces the last successful catalog"
  (`redis-contract.md:117-118`).
* `sync.sh:777`: a previous catalog that cannot be counted counts as 0, and an
  inventory that lists nothing then replaces it, recorded as `empty`; "an inventory
  that parses but lists nothing is recorded as `empty` without replacing a catalog
  that did list components" (`redis-contract.md:118-120`). This is why
  `NonEmptyCatalogSurvives` excepts a run whose count failed.
* `app.py:351-358`: a scan leaves alone an entry that exists, so that a content
  library which an operator places under a name with an open entry of an earlier
  tree stays open; "A tree containing both `items.json` and `lib.json` is detected
  as a vSphere content library, recorded as operator-provided, and protected by
  default" (`README.md:157-160`). It is the case of `depot_upload` without an
  upload, and why the properties of targets except `outlived` names.
* `app.py:589-609`: a check reads `auth.json`, then its stamp, then the cache. When
  the password is changed between the first two, a sign-in with the old password puts
  it into the cache under the new stamp, and the worker takes it for up to 300
  seconds, for another change as well (`app.py:4049`); "A password change in the
  console updates all three" (`README.md:273-274`).
* `app.py:562-569`: an `auth.json` that cannot be read is no document, and a claim
  then goes on (`app.py:2643`) although the appliance is claimed. Both are the
  exceptions of `ClaimedOnce`.
* `app.py:2172`: a save that meets a run holds no lock while it writes. It can
  land after the *next* run has read the file, and is still reported as applying
  to that run; `sync.sh:868-870` says "either lands before this run reads the
  file ... or lands after and is reported as applying to the next run". This is
  why `SavedIsUsed` excepts a run that was `overtaken`. Such a late save also
  puts its marker in the place of one that another save left for the next run.
* `entrypoint.sh:335`: the boot publishes without the lock, and `redis-cli` reads
  the file before it sets the key. A run started by hand that ends in between
  stays "running" on the bus until the next housekeeping that changes something
  or the next run; a boot that rewrites the file
  (`entrypoint.sh:262-268`) under such a run hides it. The status properties
  are therefore checked and proved for runs that the scheduler starts.
* `app.py:3882`: a save of an unrelated field writes the whole, earlier read
  document and so can take back an endpoint during a run without patching the
  tool; `README.md:97-99` says that saving one waits.
* `app.py:1921-1924`: the outcome of a probe goes into the release metadata and
  then into the adoption record. When only the first is written, this start
  takes the verification for done and the adoption stays pending until the next
  start or the operator's **Verify with the tool**; `README.md:64-77` has the
  background check cover an ID "still waiting to confirm".
* The download tool of a killed run keeps the lock (`holders` has `tool` without
  `run`), so the lock does not live "exactly as long as the run"
  (`entrypoint.sh:105`); `tests/test_scheduler_lock.sh:222` says "once its
  download stops". `SingleWriter` counts that tool as a writer, and it is the
  reason why the next run cannot write next to it.
* A protected entry whose tree has vanished from the volume blocks uploads of
  that name, and the protection switch answers 404 for it.

### Bounds, and why they are enough

* **2 run slots**: the hand-off, a run by hand and an orphaned tool need two;
  a third run only meets the same lock. The proofs are for any number.
* **1 console thread** with the depot lock, two where threads meet each other
  (settings, tool, tokens, password). Proved for any number as well.
* **`MaxQueue` 1**: the queue matters as empty or not; a request that finds it
  full is dropped, which Redis would not do, but the next one is the same
  request.
* **`MaxClock`** 0 or 1: two readings of a whole-second clock can be equal or
  ordered, which is all that is compared.
* **`MaxRuns` 2**: a save can span the end of one run and the start of the
  next; the third is again a next one.
* **4 releases** in `ToolStore`: current, previous, the one being installed and
  one being forgotten.
* **2 trees**: a request or a target that is half way through its trees, with
  one protected and one not. The proofs are for any set of trees.
* **1 identity** beside "none": changed, lost, newly made up and restored all
  occur; `mismatch` occurs with an ID that is not recognized. The safety
  properties are proved for any set of IDs.
* **2 workers, 1 restart** (`MaxStarts`): two threads race for the launch, and a
  start follows a start in which anything may have been recorded.
* **2 accounts, 2 tokens, 1 person**: a token of the account in question and
  another holder's; proved for any number.
* **2 releases** in `ConfigVolume`, and a later one that may have marked the
  volume: upgrade, downgrade and a refused volume.
* **`state.json` is always written** in `catalog_safety`: a run that cannot write its
  status is in `sync_safety`, and the three properties of the catalog are proved
  with any failures. Together with the failures of the catalog files it would make
  the instance twice as large.
* **`MaxCopies` 1**: requests are made only on a volume with at most one backup
  below `migration-backups`, which are there only to check `ChangesAreSafe`. A
  request never looks at them, and a volume with one is what an upgrade leaves; the
  proofs have no such limit on anything that they say.
* **One process** for the two threads (`OneWorker`): they share a cache, which is
  the harder case, as a cache that is not shared only knows less. Proved for any
  `WorkerOf`.
* **`DirectRuns`**: whether an operator starts `sync.sh` inside the container.

### Fairness

`FairSpec` of `SyncRun` asks for what the environment gives: the restart policy
boots a stopped container and the scheduler loops (`WF(SchedNext)`), a process
runs on (`WF` of a run's own steps), console handlers answer. That the download
tool ends is an assumption about the tool. A run has a finite list of targets, so
it finishes instead of starting one more download for ever: as the list is not in
the model, this is strong fairness of `RunFinishes`, and of `CatalogStep` in
`FairCatalogSpec`. Nothing is assumed of failures, of cron, of operators or of
the clock. `RequestsAreTaken` and `OpenAttemptResolves` are conditional on the
container eventually staying up, `ArmedConverges` on housekeeping getting the
lock again and again, which nothing in the code guarantees against a console
that always holds it.

`FairSpec` of `Registration` has `NeedIsMet`. Whoever holds the update lock goes
on, since every launch of the tool has a timeout of 90 seconds
(`app.py:1465-1506`), and a run ends (`WF`). A verification thread that is
deferred sleeps and comes back for as long as it takes (`app.py:3750-3773`). That
it does not always come back while somebody holds the lock, and is not always
beaten to it after its check, is strong fairness of `CheckNeed` with a free lock
and of `Launch`: the lock is held for minutes and asked for by people, while the
thread comes every quarter hour. Nothing is assumed of requests, restarts or the
identity file.

## 4. Proofs

All for any values of the constants, from the named assumptions of the modules.

`SyncRunProofs`, for any `Runs`, `Workers`, any set of `Faults` and any bounds:

* `TypeCorrect`: `Spec => []TypeOK`. `TypeOK` is not inductive alone, since a
  launch uses `job`; `TypeInv` adds `JobIsRun`.
* `WritersExclude`: `Spec => []SingleWriter`. Who works is a matter of program
  counters and live tools, that only one does a matter of the lock table; the
  inductive invariant `IInv` connects them: an exclusive lock is alone, whoever
  works (`RunsHold`, `ToolsHold`, `HousekeepingHolds`, `ConsoleHolds`) holds the
  lock, and a held description is open somewhere (`OpenWhileHeld`). The last
  part is what carries the proof across `Close`: closing can only release a lock
  none of whose holders remains. `CloseKeepsInv` and `IdleKeepsInv` do this once
  for all actions.
* `HandOffAdmits`: `Spec => HandedOffRunIsAdmitted`. Needs two more inductive
  facts: the slot under launch is idle and open in the scheduler alone
  (`JobIdle`), and a launched run keeps its own descriptor (`LaunchedHolds`), so
  the scheduler's close is never the last.
* `ImplementsDepotAccess`: `Spec => ReadersWriter`, the refinement: every step
  leaves writers and readers alone or is one actor starting or stopping
  (`SchedAccess`, `RunAccess`, `ConsoleAccess`, `FailureAccess`).

The status properties, for any `Runs` and `Workers`, runs started by the
scheduler only (`~DirectRuns`) and the faults each of them names. All rest on two
facts: the boot, which rewrites and publishes without the lock, is alone
(`BootIsAlone`: a launch is a step of the looping scheduler, and a stop of the
container takes every run along), and past the boot one party is past the lock
(`OnePastLock`, from `IInv`). `StatusCases` sorts every step by what it does to
the two copies, so that each proof treats the quiet steps once.

* `BusAgrees`: `Spec => []BusFollowsFile`, without `kill` and `publish`; a failing
  write leaves both copies as they were. What the boot is about to set is the file
  (`BootIsRead`), and outside of the scheduler's and the runs' own publishes the
  bus is empty or the file (`BusIsFile`).
* `DownloadsAreVisible`: `Spec => []DownloadIsAnnounced`, without `write` and
  `publish`, but with killed runs: a run writes that it is running before it works
  (`AnnouncedIsWritten`), only the lock's owner rewrites that, and every later
  publish carries it (`DownloadIsPublished`).
* `RunningIsARun`: `Spec => []RunningMeansRun`, without `kill`, `write` and
  `publish`. What the scheduler writes never says running: housekeeping reads under
  the lock, where no run is announced (`DraftIsQuiet`, `BootIsQuiet`), so a file
  that says it is of an announced run (`FileIsOfARun`), and a bus that says it of
  one that is announced or about to publish its end (`BusIsOfARun`).

The hypotheses are what the code promises and no more: with a killed run
`running:true` stays until the next boot or run, with a failing write a run goes
on unannounced (`sync.sh:607`), a lost publish leaves the bus behind, and a run
by hand can meet the boot.

`SyncCatalogProofs`:

* `CatalogExtendsRun`: `CatalogSpec => Spec`, so everything above holds in the
  catalog model.
* `WorkspacesAreKept`: `CatalogSpec => []LiveWorkspaceIsKept`. The reaper holds
  the depot lock (`IInv`), a run with a phase is past its own lock check
  (`BuildersArePastLock`), and the lock is exclusive.
* `CatalogSurvives`: `CatalogSpec => NonEmptyCatalogSurvives`. A run that counted both
  catalogs as empty (`vacant`) renames without looking again; the invariant is that
  the catalog it has yet to replace still lists nothing (`VacantIsEmpty`). It is
  inductive because only a run that is past its own lock check replaces the catalog,
  and by `IInv` there is one (`OneBuilds`): the count and the rename are held together
  by the depot lock, also against runs by hand, stops and boots.
* `CatalogTypeCorrect`, and `LiveAttemptIsShown`:
  `CatalogSpec => []LiveAttemptIsNotInterrupted`. No copy of the status, and
  nothing the console has read of one, names an end later than the opening of a
  live attempt (`AttemptIsNewest`). It stays so because a run that writes an end
  is past its own lock check with its attempt closed (`FinishedRunIsTrapped`),
  and the lock is exclusive, so it is not there while the attempt is live
  (`LiveAttemptHoldsOff`); and because the clock does not go back (`ClockRuns`,
  `TimesArePast`).

`SettingsSnapshotProofs`:

* `SnapshotTypeCorrect`, `EndpointsDoNotMove` (nobody patches while a run has the
  tool: `PatchersExclude`).
* `SavedFieldsAreUsed`: `Spec => []SavedIsUsed`, without any hypothesis. A save
  either holds the snapshot lock, and then no run has it, or met a run and holds
  nothing (`Bare`). As long as the run was not overtaken, the identity such a save
  read is the current one and the marker names its fields; a run that starts
  under such a save counts as overtaken, and the next one that does not has only
  saves to deal with that began after it.

`ToolStoreProofs`, for any releases and threads and no rollback cut short:

* `ToolTypeCorrect`, `LinksAlwaysResolve` and `RunKeepsTool`. `ToolInv` says what
  the owner of the lock remembers at each step, that it is alone, and that the
  links differ outside of a swap (`LinksDiffer`): the fact an interrupted
  rollback destroys.
* `ImplementsReleasePair`: `Spec => KeepsPair`, the refinement. The install takes
  effect when the previous link is replaced, or given up on, and the rollback at
  its second rename (`InstallIsAbstract`, `RollbackIsAbstract`); the first rename of
  either is a stutter, which `ToolInv` shows by what the owner remembers in `old`.
  A run begins with its lock and ends with it (`SyncIsAbstract`).
* `PromotionRemovesOlder`: the promise that `tool_rollback` finds broken holds
  unless a rollback is cut short, whatever else fails: that is its only cause.

`DepotProtectionProofs`, for any trees and any failures. `ProtectionInv` says of
every tree what its manifest entry can be, given the last word on it:

* `TargetsSpare`, `WritesAreReported`: what a run compares with *is* the
  protection in the manifest for as long as it runs (`GuardIsProtection`, since
  everyone who changes it needs the depot lock), it contains what the operator
  has the last word on except names in `outlived` (`KeptIsRecorded`), and a target
  that runs avoids it (`ScopeSpares`). That an open entry in the way of an upload or
  a placed library is one of those is `RequestSpares` and `OutlivedIsStale`: an open
  entry has its tree, or is about to be forgotten with it, or has outlived it.
* `ProductStaysOpen`: every tree is listed before a target begins and those it
  makes no later than after the next one (`KnownIsListed`), so a scan finds only
  trees of the operator, or of a run that was killed or could not record them,
  unlisted (`ProductTrees`).
* `ProtectionEnds`: a request in progress has no protected tree
  (`RequestSpares`).
* `UploadsProtect`: the promise that `depot_upload` finds broken holds, with every
  other failure, unless a deletion is not recorded, the console stops in one or the
  volume is lost. Then every entry stands for a tree that exists, but for those a
  deletion has just removed (`EntriesHaveTrees`), and an upload of new trees meets
  no entry. This needs that a target which reports success has its trees. TLC finds
  the promise broken with each of the three failures alone.

`RegistrationProofs`, for any identities, workers, starts and failures:

* `InstallKeepsRegistration`: a candidate that is about to be linked has left a
  registered identity alone (`CandidateIsClean`), which the second comparison
  after the authentication establishes; every earlier way out restores it.
* `LaunchedOnce`: after the one launch of a start the current release counts as
  verified, unless a rollback, whose own probe is still to come, has just put
  another one in its place (`LaunchCounts`).

`ConsoleAccessProofs`, for any people, accounts, tokens and threads:

* `TokenStoreLosesNothing`: what a thread has read under the lock is what the
  stores hold (`CopiesAreCurrent`), so a replacement changes its own token only.
* `AccountsStayOff`: an account called off is off in its store (`OffIsStored`),
  whatever happened to its tokens.

`OwnerPasswordProofs`, for any releases, passwords, threads and failures:

* `VolumeIsReady`, `VolumeIsCopied`, `SecretsAreOne`: `VolumeInv` has what is
  established at each phase (`PhaseKnows`), that a marker is only written behind
  complete settings (`MarkerFollowsSettings`), and that existing secrets are
  copies of the first (`SecretsFollow`).
* `OwnerExtendsVolume`: `Spec => VolumeSpec`, a request changes nothing of the
  volumes.
* `PasswordsAreOne`: a request past its check under the lock knows both files
  (`HolderKnows`).
* `OwnerStays`: what a check that is under way can still accept, by the document it
  read or by a cache with the current stamp, is the stored password or one of
  `overtaken` (`ChecksKnow`); a change compares with a cache of the current stamp,
  since nobody replaces the file while it has the lock. So what the holder of the lock
  has given is the password or one of the two exceptions (`HolderKnows`).

Each of these modules also proves its type invariant.

Only model-checked: liveness (`RunsEnd`, `LocksAreReleased`, `RequestsAreTaken`,
`ArmedConverges`, `OpenAttemptResolves`, `NeedIsMet`), which is out of the prover's
reach. Every other property of a passing run is a theorem.

## 5. Abstractions and what is left out

* A read-modify-write of `state.json` by a run (`jq` and rename in
  `write_state`) is one step. The run holds the lock and the only writer without
  it is the boot of the scheduler, whose read and rename are two steps.
* Of `state.json` the model has `running`, `armed` and `finishedAt`; last
  result, current target and progress are shown and never acted on.
* Cron may or may not match at any pass.
* A failed launch (`lock` fault) leaves a run without an inherited descriptor.
* `RunRefuses` stands for all exits before the announcement that leave
  `state.json` alone: ownership not recordable, CEIP not set, a signal.
* Settings: field validation, service fields and a tool without `current` are
  left out; so are a snapshot lock that cannot be opened and a run identity that
  cannot be written, both of which the code logs as a warning about exactly the
  property.
* Killed runs with an orphaned tool are in `SyncRun` and `DepotProtection`, not
  in `SettingsSnapshot` and `ToolStore`.
* Releases that a failed removal leaves behind are not looked after by the code
  and not by the model.
* The scheduler's blocked mode after a version mismatch is not modelled.
* `DepotProtection`: fingerprints say whether a tree was written (that they
  cannot be read is a failure of the step); a manifest that cannot be parsed
  refuses everything and is left out. A tree put on the volume by hand comes as
  a whole and while nobody is at work: one that a scan meets half copied, before
  it looks like a library, is listed as unknown and stays open; one that comes
  during a run is recorded as the product's. Trees of a run that is killed or
  cannot record them are `left`: the next scan may protect them. The scan of a
  request or a run records all trees or fails as a whole; what a failing scan of a
  run would have recorded the next one does. An upload at or above `COMP` is tree by
  tree, and meets no check of single trees only while there is none
  (`_protected_trees_for_path` without descendants, `app.py:3431`).
* `Registration`: the releases themselves are in `ToolStore`; the rollback here
  is uninterrupted in its links. A restart does not meet a running probe of the
  old container. The registration directory is the identity file in it.
* `ConsoleAccess`: labels, roles and names have no effect on the properties; the
  provider's settings are constant. Passwords, sessions (signed cookies) and the
  exchange with the provider are local to a request.
* `ConfigVolume`: releases are numbers in their order; a development build and a
  release name that cannot be parsed are not among them. Of the secrets the
  Redis password in its four files is modelled; the session key and the empty
  activation code file are single files written once. The record of the last
  migration is shown and not acted on. A crash within an atomic write leaves a
  temporary file, which only makes the volume count as not empty.
* `OwnerPassword`: the write of the owner's name into the settings is left out. An
  entry of the cache of verified passwords does not expire and the cache is not
  cleared at its limit: either only makes a check go to the hash, which accepts no
  more. A stamp that cannot be read only empties the cache and is left out; two
  versions of `auth.json` have different stamps (nanoseconds and size).

Not modelled, and not to be: the schedule matcher (a pure parser of five fields,
which unit tests reach; `SyncRun` lets it match or not), the SFTP service (it
polls files and restarts sshd, and writes nothing another part reads), web
pages, deployment, release and install scripts (sequential, no state of the
running system).

## 6. Plan

The components planned first are all there. What would come next, in order:

1. An atomic settings register that `SettingsSnapshot` implements for runs that
   were not overtaken.
2. The composition of `Registration` with the links of `ToolStore`.
