------------------------------ MODULE SyncRun ------------------------------
(***************************************************************************)
(* The scheduler (sync/entrypoint.sh), the sync runs it launches           *)
(* (sync/sync.sh), the depot lock they share with the admin console        *)
(* (ui/app.py), and the run status they publish in state.json and on the   *)
(* Redis bus.                                                              *)
(*                                                                         *)
(* A flock belongs to an open file description and lives until its last    *)
(* descriptor is closed.  Run r's description is opened by the scheduler   *)
(* on fd 9 and inherited by the run and by the download tool the run       *)
(* starts, or opened by a run that was invoked directly; holders[r] is     *)
(* the set of processes that have it open.  The scheduler's fd 8 and the   *)
(* console's descriptors have one process each.                            *)
(***************************************************************************)
EXTENDS Naturals

CONSTANTS Runs,        \* slots of concurrently live sync.sh processes
          Workers,     \* admin console request threads
          Scheduler,   \* names the scheduler's own descriptor, fd 8
          NoStatus,    \* the bus key is absent
          NoRun,       \* no run is being launched
          Faults,      \* which failures may happen, see Failures
          DirectRuns,  \* may an operator start sync.sh without the scheduler
          MaxQueue,    \* bound on queued requests
          MaxClock     \* bound on the whole-second clock

Failures == {"crash",    \* the sync container stops
             "kill",     \* a run is killed outright, its tool survives
             "write",    \* state.json cannot be replaced
             "publish",  \* a Redis command fails
             "redis",    \* Redis restarts without its data
             "lock",     \* sync.lock cannot be opened
             "catalog",  \* a file of the catalog cannot be written
             "count"}    \* the components of one cannot be counted

Descriptors == Runs \cup Workers \cup {Scheduler}

\* The fields of state.json that more than one component acts on.
Documents == [running : BOOLEAN, armed : BOOLEAN, finishedAt : Nat]

ASSUME ActorsDiffer ==
  /\ Runs \cap Workers = {}
  /\ Scheduler \notin Runs \cup Workers
  /\ NoRun \notin Runs

ASSUME StatusDiffers == NoStatus \notin Documents

ASSUME BoundsAreNumbers == /\ MaxQueue \in Nat /\ MaxClock \in Nat
                           /\ DirectRuns \in BOOLEAN /\ Faults \subseteq Failures

VARIABLES
  sched,    \* where the scheduler is
  job,      \* the run the scheduler is launching
  back,     \* where it continues after the launch
  armed,    \* its reading of the activation code file
  draft,    \* the temporary file it is about to rename to state.json
  pc,       \* where each run is
  holders,  \* processes with run r's description of sync.lock open
  lock,     \* mode in which each description holds sync.lock
  state,    \* state.json
  bus,      \* vcf-services:sync:status
  queue,    \* length of vcf-services:sync:requests
  auth,     \* the activation code file is not empty
  console,  \* what each console thread is doing
  clock     \* date -u in whole seconds

schedVars == <<sched, job, back, armed, draft>>
runVars == <<pc, holders>>
fileVars == <<state, bus, queue, auth>>
vars == <<schedVars, runVars, lock, fileVars, console, clock>>

SchedPc == {"stopped", "reap", "reaping", "init", "initWrite", "bootPublish", "bootSet",
            "loop", "refresh", "refreshing", "refreshWrite", "refreshPublish",
            "cron", "pop", "fork", "handoff"}
RunPc == {"idle", "launched", "admitted", "refusing", "announced", "working",
          "downloading", "finished", "exiting"}
ConsolePc == {"idle", "publish", "browse", "mutate"}

\* The scheduler has not published yet.
Booting == {"stopped", "reap", "reaping", "init", "initWrite", "bootPublish", "bootSet"}
\* Housekeeping holds fd 8 locked.
Housekeeping == {"reaping", "refreshing", "refreshWrite", "refreshPublish"}
\* A run past its own lock check.
PastLock == RunPc \ {"idle", "launched"}

TypeOK ==
  /\ sched \in SchedPc
  /\ job \in Runs \cup {NoRun}
  /\ back \in {"loop", "pop"}
  /\ armed \in BOOLEAN
  /\ draft \in Documents
  /\ pc \in [Runs -> RunPc]
  /\ holders \in [Runs -> SUBSET {"sched", "run", "tool"}]
  /\ lock \in [Descriptors -> {"none", "shared", "exclusive"}]
  /\ state \in Documents
  /\ bus \in Documents \cup {NoStatus}
  /\ queue \in 0..MaxQueue
  /\ auth \in BOOLEAN
  /\ console \in [Workers -> ConsolePc]
  /\ clock \in 0..MaxClock

Init ==
  /\ sched = "stopped" /\ job = NoRun /\ back = "loop" /\ armed = FALSE
  /\ state = [running |-> FALSE, armed |-> FALSE, finishedAt |-> 0]
  /\ draft = state
  /\ pc = [r \in Runs |-> "idle"]
  /\ holders = [r \in Runs |-> {}]
  /\ lock = [d \in Descriptors |-> "none"]
  /\ bus = NoStatus /\ queue = 0
  /\ auth \in BOOLEAN
  /\ console = [w \in Workers |-> "idle"]
  /\ clock = 0

-----------------------------------------------------------------------------
\* As if every flock call were made by a new description.
CanLockAsNew(d) == \A e \in Descriptors : lock[e] = "none"

\* flock on sync.lock.  A description that already holds the lock may take it again.
CanLock(d) == \A e \in Descriptors \ {d} : lock[e] = "none"
CanShare == \A e \in Descriptors : lock[e] # "exclusive"

\* flock -n: the lock when it is free, and nothing otherwise.
TryLock(d) == IF CanLock(d) THEN [lock EXCEPT ![d] = "exclusive"] ELSE lock

\* Processes ps drop run r's description; the last one out releases the lock.
Close(r, ps) ==
  /\ holders' = [holders EXCEPT ![r] = @ \ ps]
  /\ lock' = IF holders[r] \subseteq ps THEN [lock EXCEPT ![r] = "none"] ELSE lock

\* redis_cmd -x SET "$STATUS_KEY" < state.json || true
SetStatus(doc) == bus' \in {doc} \cup (IF "publish" \in Faults THEN {bus} ELSE {})
PublishStatus == SetStatus(state)

\* A slot no process of an earlier run still uses.
Fresh(r) == pc[r] = "idle" /\ holders[r] = {}

-----------------------------------------------------------------------------
(* The scheduler: init_state, then the loop of main.                       *)

SchedBoot ==
  /\ sched = "stopped"
  /\ sched' = "reap" /\ armed' = auth
  /\ UNCHANGED <<job, back, draft, runVars, lock, fileVars, console, clock>>

\* As if the exit code of flock were ignored.
TakeDepotLockIgnored(held, refused) == lock' = TryLock(Scheduler) /\ sched' = held

\* take_depot_lock on fd 8: held, contended, or not obtainable at all.
TakeDepotLock(held, refused) ==
  \/ /\ CanLock(Scheduler)
     /\ lock' = TryLock(Scheduler)
     /\ sched' = held
  \/ /\ ~CanLock(Scheduler) \/ "lock" \in Faults
     /\ sched' = refused
     /\ UNCHANGED lock

\* As if the workspaces were reaped without the lock.
ReapWithoutLock ==
  /\ sched = "reap"
  /\ sched' = "reaping"
  /\ UNCHANGED <<job, back, armed, draft, runVars, lock, fileVars, console, clock>>

ReapLock ==
  /\ sched = "reap"
  /\ TakeDepotLock("reaping", "init")
  /\ UNCHANGED <<job, back, armed, draft, runVars, fileVars, console, clock>>

\* The workspaces are removed and fd 8 is closed.
ReapCatalogWorkspaces ==
  /\ sched = "reaping"
  /\ sched' = "init"
  /\ lock' = [lock EXCEPT ![Scheduler] = "none"]
  /\ UNCHANGED <<job, back, armed, draft, runVars, fileVars, console, clock>>

\* As if running were carried over from before the boot.
InitReadKeepsRunning ==
  /\ sched = "init"
  /\ draft' = [state EXCEPT !.armed = armed]
  /\ sched' = "initWrite"
  /\ UNCHANGED <<job, back, armed, runVars, lock, fileVars, console, clock>>

\* init_state rewrites state.json without the depot lock.
InitRead ==
  /\ sched = "init"
  /\ draft' = [state EXCEPT !.running = FALSE, !.armed = armed]
  /\ sched' = "initWrite"
  /\ UNCHANGED <<job, back, armed, runVars, lock, fileVars, console, clock>>

InitWrite ==
  /\ sched = "initWrite"
  /\ state' = draft
  /\ sched' = "bootPublish"
  /\ UNCHANGED <<job, back, armed, draft, runVars, lock, bus, queue, auth, console, clock>>

\* The boot publishes without the lock, too: a run started by hand may write and
\* publish between the reading of the file and the SET.
BootRead ==
  /\ sched = "bootPublish"
  /\ draft' = state
  /\ sched' = "bootSet"
  /\ UNCHANGED <<job, back, armed, runVars, lock, fileVars, console, clock>>

BootPublish ==
  /\ sched = "bootSet"
  /\ SetStatus(draft)
  /\ sched' = "loop"
  /\ UNCHANGED <<job, back, armed, draft, runVars, lock, state, queue, auth, console, clock>>

\* As if the code file were read at boot only.
RefreshReadStale ==
  /\ sched = "loop"
  /\ sched' = "refresh"
  /\ UNCHANGED <<job, back, armed, draft, runVars, lock, fileVars, console, clock>>

\* refresh_armed_state reads the code file before it takes the lock.
RefreshRead ==
  /\ sched = "loop"
  /\ armed' = auth
  /\ sched' = "refresh"
  /\ UNCHANGED <<job, back, draft, runVars, lock, fileVars, console, clock>>

\* As if state.json were rewritten without the lock.
RefreshWithoutLock ==
  /\ sched = "refresh"
  /\ sched' = "refreshing"
  /\ UNCHANGED <<job, back, armed, draft, runVars, lock, fileVars, console, clock>>

RefreshLock ==
  /\ sched = "refresh"
  /\ TakeDepotLock("refreshing", "cron")
  /\ UNCHANGED <<job, back, armed, draft, runVars, fileVars, console, clock>>

RefreshSame ==
  /\ sched = "refreshing" /\ state.armed = armed
  /\ sched' = "cron"
  /\ lock' = [lock EXCEPT ![Scheduler] = "none"]
  /\ UNCHANGED <<job, back, armed, draft, runVars, fileVars, console, clock>>

RefreshDraft ==
  /\ sched = "refreshing" /\ state.armed # armed
  /\ draft' = [state EXCEPT !.armed = armed]
  /\ sched' = "refreshWrite"
  /\ UNCHANGED <<job, back, armed, runVars, lock, fileVars, console, clock>>

RefreshWrite ==
  /\ sched = "refreshWrite"
  /\ state' = draft
  /\ sched' = "refreshPublish"
  /\ UNCHANGED <<job, back, armed, draft, runVars, lock, bus, queue, auth, console, clock>>

\* As if the changed status were not published.
RefreshSilently ==
  /\ sched = "refreshPublish"
  /\ sched' = "cron"
  /\ lock' = [lock EXCEPT ![Scheduler] = "none"]
  /\ UNCHANGED <<job, back, armed, draft, runVars, state, bus, queue, auth, console, clock>>

RefreshPublish ==
  /\ sched = "refreshPublish"
  /\ PublishStatus
  /\ sched' = "cron"
  /\ lock' = [lock EXCEPT ![Scheduler] = "none"]
  /\ UNCHANGED <<job, back, armed, draft, runVars, state, queue, auth, console, clock>>

\* dispatch_sync opens sync.lock on fd 9 and takes it when it is free.  Whatever
\* comes of that, the run is launched with the descriptor, or without one when
\* the file could not be opened.
OpenForDispatch(r, next) ==
  /\ Fresh(r)
  /\ job' = r /\ back' = next /\ sched' = "fork"
  /\ \/ holders' = [holders EXCEPT ![r] = {"sched"}] /\ lock' = TryLock(r)
     \/ "lock" \in Faults /\ UNCHANGED <<holders, lock>>

\* As if a cron dispatch started the loop over.
CronDispatchRestarts(r) ==
  /\ sched = "cron"
  /\ OpenForDispatch(r, "loop")
  /\ UNCHANGED <<armed, draft, pc, fileVars, console, clock>>

CronDispatch(r) ==
  /\ sched = "cron"
  /\ OpenForDispatch(r, "pop")
  /\ UNCHANGED <<armed, draft, pc, fileVars, console, clock>>

CronNoMatch ==
  /\ sched = "cron"
  /\ sched' = "pop"
  /\ UNCHANGED <<job, back, armed, draft, runVars, lock, fileVars, console, clock>>

\* As if an empty reply were a request.
PopDispatchAlways(r) ==
  /\ sched = "pop"
  /\ queue' = queue - 1
  /\ OpenForDispatch(r, "loop")
  /\ UNCHANGED <<armed, draft, pc, state, bus, auth, console, clock>>

\* BRPOP removes the request before the run exists.
PopDispatch(r) ==
  /\ sched = "pop" /\ queue > 0
  /\ queue' = queue - 1
  /\ OpenForDispatch(r, "loop")
  /\ UNCHANGED <<armed, draft, pc, state, bus, auth, console, clock>>

PopTimeout ==
  /\ sched = "pop" /\ (queue = 0 \/ "publish" \in Faults)
  /\ sched' = "loop"
  /\ UNCHANGED <<job, back, armed, draft, runVars, lock, fileVars, console, clock>>

Fork ==
  /\ sched = "fork"
  /\ sched' = "handoff"
  /\ pc' = [pc EXCEPT ![job] = "launched"]
  /\ holders' = [holders EXCEPT ![job] = IF "sched" \in @ THEN @ \cup {"run"} ELSE @]
  /\ UNCHANGED <<job, back, armed, draft, lock, fileVars, console, clock>>

\* As if the scheduler kept its copy of fd 9.
HandOffKeepsCopy ==
  /\ sched = "handoff"
  /\ sched' = back /\ job' = NoRun
  /\ UNCHANGED <<back, armed, draft, runVars, lock, fileVars, console, clock>>

HandOff ==
  /\ sched = "handoff"
  /\ Close(job, {"sched"})
  /\ sched' = back /\ job' = NoRun
  /\ UNCHANGED <<back, armed, draft, pc, fileVars, console, clock>>

SchedNext ==
  \/ SchedBoot \/ ReapLock \/ ReapCatalogWorkspaces \/ InitRead \/ InitWrite
  \/ BootRead \/ BootPublish
  \/ RefreshRead \/ RefreshLock \/ RefreshSame \/ RefreshDraft \/ RefreshWrite \/ RefreshPublish
  \/ CronNoMatch \/ PopTimeout \/ Fork \/ HandOff
  \/ \E r \in Runs : CronDispatch(r) \/ PopDispatch(r)

-----------------------------------------------------------------------------
(* One run of sync.sh.                                                     *)

\* An operator runs sync.sh inside the container.
LaunchDirectly(r) ==
  /\ DirectRuns /\ sched # "stopped" /\ Fresh(r) /\ job # r
  /\ pc' = [pc EXCEPT ![r] = "launched"]
  /\ UNCHANGED <<schedVars, holders, lock, fileVars, console, clock>>

\* As if the exit code of flock were ignored.
RunAdmittedAnyway(r) ==
  /\ pc[r] = "launched"
  /\ pc' = [pc EXCEPT ![r] = "admitted"]
  /\ holders' = [holders EXCEPT ![r] = @ \cup {"run"}]
  /\ lock' = TryLock(r)
  /\ UNCHANGED <<schedVars, fileVars, console, clock>>

\* An inherited fd 9 is kept, any other run opens the file; then flock -n 9.
RunAdmitted(r) ==
  /\ pc[r] = "launched" /\ CanLock(r)
  /\ pc' = [pc EXCEPT ![r] = "admitted"]
  /\ holders' = [holders EXCEPT ![r] = @ \cup {"run"}]
  /\ lock' = TryLock(r)
  /\ UNCHANGED <<schedVars, fileVars, console, clock>>

\* As if flock were called without -n.
RunWaits(r) == pc[r] = "launched" /\ ~CanLock(r) /\ UNCHANGED vars

\* "another sync already holds the depot lock, skipping this trigger"
RunSkips(r) ==
  /\ pc[r] = "launched" /\ ~CanLock(r)
  /\ pc' = [pc EXCEPT ![r] = "idle"]
  /\ Close(r, {"run"})
  /\ UNCHANGED <<schedVars, fileVars, console, clock>>

RunCannotLock(r) ==
  /\ pc[r] = "launched" /\ "lock" \in Faults
  /\ pc' = [pc EXCEPT ![r] = "idle"]
  /\ Close(r, {"run"})
  /\ UNCHANGED <<schedVars, fileVars, console, clock>>

\* write_state: jq into a temporary file and rename; a failure is swallowed and
\* then nothing is published either.
WriteState(r, doc, written, failed) ==
  /\ \/ state' = doc /\ pc' = [pc EXCEPT ![r] = written]
     \/ "write" \in Faults /\ UNCHANGED state /\ pc' = [pc EXCEPT ![r] = failed]
  /\ UNCHANGED <<schedVars, holders, lock, bus, queue, auth, console, clock>>

\* Exits before running:true is announced that leave state.json alone: depot
\* ownership not recordable, CEIP not set, the tool binary missing, a signal.
RunRefuses(r) ==
  /\ pc[r] = "admitted"
  /\ pc' = [pc EXCEPT ![r] = "exiting"]
  /\ UNCHANGED <<schedVars, holders, lock, fileVars, console, clock>>

\* The tool store is missing or incomplete.
RunToolMissing(r) ==
  /\ pc[r] = "admitted"
  /\ WriteState(r, [state EXCEPT !.running = FALSE], "refusing", "exiting")

RunNotArmed(r) ==
  /\ pc[r] = "admitted" /\ ~auth
  /\ WriteState(r, [state EXCEPT !.running = FALSE, !.armed = FALSE], "refusing", "exiting")

RunAnnounces(r) ==
  /\ pc[r] = "admitted" /\ auth
  /\ WriteState(r, [state EXCEPT !.running = TRUE, !.armed = TRUE], "announced", "working")

\* publish_status after a write_state that replaced the file.
RunPublishes(r) ==
  /\ pc[r] \in {"refusing", "announced", "finished"}
  /\ PublishStatus
  /\ pc' = [pc EXCEPT ![r] = IF @ = "announced" THEN "working" ELSE "exiting"]
  /\ UNCHANGED <<schedVars, holders, lock, state, queue, auth, console, clock>>

\* The next target, or a catalog listing: progress is published and the tool is
\* started with every descriptor of the run.
RunStartsTool(r) ==
  /\ pc[r] = "working"
  /\ PublishStatus
  /\ pc' = [pc EXCEPT ![r] = "downloading"]
  /\ holders' = [holders EXCEPT ![r] = @ \cup {"tool"}]
  /\ UNCHANGED <<schedVars, lock, state, queue, auth, console, clock>>

\* The tool ends.  Its run, if it is still alive, waited for it.
ToolEnds(r) ==
  /\ "tool" \in holders[r]
  /\ Close(r, {"tool"})
  /\ pc' = [pc EXCEPT ![r] = IF @ = "downloading" THEN "working" ELSE @]
  /\ UNCHANGED <<schedVars, fileVars, console, clock>>

\* finish_state, the EXIT trap of an announced run.
RunFinishes(r) ==
  /\ pc[r] = "working"
  /\ WriteState(r, [state EXCEPT !.running = FALSE, !.finishedAt = clock],
                "finished", "exiting")

\* The process ends and the kernel closes fd 9.
RunExits(r) ==
  /\ pc[r] = "exiting"
  /\ pc' = [pc EXCEPT ![r] = "idle"]
  /\ Close(r, {"run"})
  /\ UNCHANGED <<schedVars, fileVars, console, clock>>

RunNext(r) ==
  \/ RunAdmitted(r) \/ RunSkips(r) \/ RunCannotLock(r) \/ RunRefuses(r)
  \/ RunToolMissing(r) \/ RunNotArmed(r) \/ RunAnnounces(r) \/ RunPublishes(r)
  \/ RunStartsTool(r) \/ ToolEnds(r) \/ RunFinishes(r) \/ RunExits(r)

-----------------------------------------------------------------------------
(* The admin console.                                                      *)

\* _state: the bus first, then the file.
ConsoleState == IF bus = NoStatus THEN state ELSE bus

\* POST /api/sync checks the status it reads and publishes in a later step.
SyncRequested(w) ==
  /\ console[w] = "idle" /\ auth /\ ~ConsoleState.running
  /\ console' = [console EXCEPT ![w] = "publish"]
  /\ UNCHANGED <<schedVars, runVars, lock, fileVars, clock>>

PublishRequest(w) ==
  /\ console[w] = "publish"
  /\ \/ queue < MaxQueue /\ queue' = queue + 1
     \/ (queue = MaxQueue \/ "publish" \in Faults) /\ UNCHANGED queue
  /\ console' = [console EXCEPT ![w] = "idle"]
  /\ UNCHANGED <<schedVars, runVars, lock, state, bus, auth, clock>>

\* _depot_discovery_guard: the depot tree and ownership pages.
BeginBrowse(w) ==
  /\ console[w] = "idle" /\ CanShare
  /\ lock' = [lock EXCEPT ![w] = "shared"]
  /\ console' = [console EXCEPT ![w] = "browse"]
  /\ UNCHANGED <<schedVars, runVars, fileVars, clock>>

\* _depot_mutation_guard: upload, delete, protect, adopt.
BeginMutation(w) ==
  /\ console[w] = "idle" /\ CanLock(w)
  /\ lock' = TryLock(w)
  /\ console' = [console EXCEPT ![w] = "mutate"]
  /\ UNCHANGED <<schedVars, runVars, fileVars, clock>>

EndGuard(w) ==
  /\ console[w] \in {"browse", "mutate"}
  /\ lock' = [lock EXCEPT ![w] = "none"]
  /\ console' = [console EXCEPT ![w] = "idle"]
  /\ UNCHANGED <<schedVars, runVars, fileVars, clock>>

\* POST /api/registration; nothing removes the activation code again.
SaveRegistration(w) ==
  /\ console[w] = "idle" /\ ~ConsoleState.running
  /\ auth' = TRUE
  /\ UNCHANGED <<schedVars, runVars, lock, state, bus, queue, console, clock>>

ConsoleNext(w) == \/ SyncRequested(w) \/ PublishRequest(w) \/ BeginBrowse(w)
                  \/ BeginMutation(w) \/ EndGuard(w) \/ SaveRegistration(w)

-----------------------------------------------------------------------------
(* Failures and time.                                                      *)

\* The sync container stops: scheduler, runs and tools all die.
Crash ==
  /\ "crash" \in Faults /\ sched # "stopped"
  /\ sched' = "stopped" /\ job' = NoRun
  /\ pc' = [r \in Runs |-> "idle"]
  /\ holders' = [r \in Runs |-> {}]
  /\ lock' = [d \in Descriptors |-> IF d \in Workers THEN lock[d] ELSE "none"]
  /\ UNCHANGED <<back, armed, draft, fileVars, console, clock>>

\* SIGKILL of one run: no trap runs, the tool keeps the inherited descriptors.
Kill(r) ==
  /\ "kill" \in Faults /\ pc[r] # "idle"
  /\ pc' = [pc EXCEPT ![r] = "idle"]
  /\ Close(r, {"run"})
  /\ UNCHANGED <<schedVars, fileVars, console, clock>>

RedisRestart ==
  /\ "redis" \in Faults
  /\ bus' = NoStatus /\ queue' = 0
  /\ UNCHANGED <<schedVars, runVars, lock, state, auth, console, clock>>

Tick ==
  /\ clock < MaxClock
  /\ clock' = clock + 1
  /\ UNCHANGED <<schedVars, runVars, lock, fileVars, console>>

Next ==
  \/ SchedNext
  \/ \E r \in Runs : RunNext(r) \/ LaunchDirectly(r) \/ Kill(r)
  \/ \E w \in Workers : ConsoleNext(w)
  \/ Crash \/ RedisRestart \/ Tick

Spec == Init /\ [][Next]_vars

(***************************************************************************)
(* Fairness.  Every process runs on: the restart policy boots a stopped    *)
(* container, the scheduler loops, a run and the console request handlers  *)
(* carry on.  That the download tool ends is assumed of the tool.  Nothing *)
(* is assumed of failures, the schedule, operators or the clock.           *)
(***************************************************************************)
RunProgress(r) == \/ RunAdmitted(r) \/ RunSkips(r) \/ RunPublishes(r) \/ RunExits(r)
                  \/ RunRefuses(r) \/ RunToolMissing(r) \/ RunNotArmed(r)
                  \/ RunAnnounces(r)

Fairness ==
  /\ WF_vars(SchedNext)
  /\ \A r \in Runs : /\ WF_vars(RunProgress(r)) /\ WF_vars(ToolEnds(r))
                     /\ SF_vars(RunFinishes(r))
  /\ \A w \in Workers : WF_vars(PublishRequest(w)) /\ WF_vars(EndGuard(w))

FairSpec == Spec /\ Fairness

-----------------------------------------------------------------------------
(* Properties.                                                             *)

\* A run that may change the depot or state.json: it is past its lock check, or
\* it was killed and the tool it started is still downloading.
Writing(r) == pc[r] \in PastLock \/ "tool" \in holders[r]

\* Everyone who may change the depot volume or the files next to it, and everyone
\* who reads them under the discovery guard.
DepotWriters == {r \in Runs : Writing(r)}
                \cup (IF sched \in Housekeeping THEN {Scheduler} ELSE {})
                \cup {w \in Workers : console[w] = "mutate"}
DepotReaders == {w \in Workers : console[w] = "browse"}

\* Single writer: no two runs (nor a run and the orphaned download of a killed
\* one), no run and a console upload or delete, no run and the scheduler's
\* housekeeping work at the same time, and nobody writes while the console
\* lists the depot (sync.sh:832, entrypoint.sh:74, app.py:507-526).
SingleWriter ==
  /\ \A a, b \in DepotWriters : a = b
  /\ DepotWriters # {} => DepotReaders = {}

\* The same as a refinement: taking, inheriting, handing over and dropping
\* descriptors of sync.lock implements an abstract readers-writer lock.
Access == INSTANCE DepotAccess WITH
            Actors <- Descriptors, writers <- DepotWriters, readers <- DepotReaders
ReadersWriter == Access!Spec

\* A run launched with the depot lock is never skipped, and no hand-off, tool,
\* housekeeping or console page takes the lock from it before it looks at the
\* lock itself (entrypoint.sh:99-108).
HandedOffRunIsAdmitted ==
  [][\A r \in Runs :
       pc[r] = "launched" /\ lock[r] = "exclusive" =>
         /\ ~RunSkips(r)
         /\ pc'[r] = "launched" => lock'[r] = "exclusive"]_vars

\* Without a killed run, a failing write or a run by hand during the boot (see
\* BootRead), a status that says running means that a run is alive, from the
\* scheduler's first publish on: in the file, and in what the console reads from the
\* bus (sync.sh:976-987, entrypoint.sh:260).
RunningMeansRun ==
  sched \notin Booting =>
    /\ state.running => \E r \in Runs : pc[r] \in PastLock
    /\ ConsoleState.running => \E r \in Runs : pc[r] \in PastLock

\* A run that downloads is visible as running, whatever the scheduler wrote to
\* state.json in between (sync.sh:973, entrypoint.sh:292-301): the console relies
\* on it to refuse a second sync, a settings change or a tool update.  Without a
\* failing write or a run by hand during the boot.
DownloadIsAnnounced ==
  \A r \in Runs : pc[r] \in {"working", "downloading"} =>
    state.running /\ ConsoleState.running

\* Between two writes the bus carries exactly the file, or nothing: a lost Redis
\* key falls back to the same answer (redis-contract.md, app.py:2461).  Without a
\* killed run or a run by hand during the boot.
BusFollowsFile ==
  /\ sched \notin Booting \cup {"refreshPublish"}
  /\ \A r \in Runs : pc[r] \notin {"refusing", "announced", "finished"}
  => ConsoleState = state

\* Every run ends and gives up its slot, and every lock a run or its tool holds
\* is released, also after kills and container stops.
RunsEnd == \A r \in Runs : pc[r] # "idle" ~> pc[r] = "idle"
LocksAreReleased == \A d \in Descriptors : lock[d] # "none" ~> lock[d] = "none"

\* While the container stays up, a queued request is taken from the queue: cron
\* dispatches, lock contention and housekeeping never keep the scheduler from it.
RequestsAreTaken == <>[](sched # "stopped") => (queue > 0 ~> queue = 0)

\* Once the activation code is saved and housekeeping gets the lock again and
\* again, state.json ends up armed for good, although the scheduler reads the
\* code file before it takes the lock and may write a stale answer once.
ArmedConverges ==
  (<>auth /\ []<>(sched = "refreshing")) => <>[]state.armed
=============================================================================
