---------------------------- MODULE SyncCatalog ----------------------------
(***************************************************************************)
(* The catalog of available components: every admitted run opens an        *)
(* attempt (catalog-attempt.json), queries the tool in a workspace on the  *)
(* state volume, replaces catalog.json, and closes the attempt.  A booting *)
(* scheduler reaps workspaces and reconciles an attempt left open; the     *)
(* console derives what it reports from both files and the sync status.    *)
(*                                                                         *)
(* The steps of SyncRun are extended, never replaced: each action below is *)
(* an action of SyncRun with its effect on the catalog, or a step of the   *)
(* catalog alone.                                                          *)
(***************************************************************************)
EXTENDS SyncRun

VARIABLES
  attempt,    \* catalog-attempt.json; run is the live run whose id it carries
  catalog,    \* catalog.json; items: it lists components; run as above
  matches,    \* both files carry the same attempt id
  phase,      \* how far each live run is with its own attempt
  open,       \* live runs whose catalog_attempt_open is true
  started,    \* catalog_attempt_started of each live run
  workspaces, \* live runs that have their catalog-build directory
  seen        \* finishedAt of the status a console thread read last

catalogVars == <<attempt, catalog, matches, phase, open, started, workspaces, seen>>
allVars == <<vars, catalogVars>>

Statuses == {"none", "running", "success", "empty", "failed", "interrupted"}
\* "open": before refresh_catalog; "filled": the new catalog is counted and lists
\* something; "vacant": it lists nothing, and neither does the previous one;
\* "unread": the same, by a count of the previous one that failed; "moved",
\* "emptied": catalog.json is replaced by one that counted as filled or not, and
\* the attempt is not yet closed; "done": refresh_catalog is over; "trapped":
\* finish_catalog_on_exit of the EXIT trap is over.
Counted == {"filled", "vacant", "unread"}
Renamed == {"moved", "emptied"}
Building == {"building"} \cup Counted \cup Renamed
Phases == {"none", "open", "done", "trapped"} \cup Building

CatalogTypeOK ==
  /\ attempt \in [status : Statuses, run : Runs \cup {NoRun}, startedAt : 0..MaxClock]
  /\ catalog \in [items : BOOLEAN, run : Runs \cup {NoRun}]
  /\ matches \in BOOLEAN
  /\ phase \in [Runs -> Phases]
  /\ open \subseteq Runs
  /\ started \in [Runs -> 0..MaxClock]
  /\ workspaces \subseteq Runs
  /\ seen \in 0..MaxClock

CatalogInit ==
  /\ Init
  /\ attempt = [status |-> "none", run |-> NoRun, startedAt |-> 0]
  /\ catalog = [items |-> FALSE, run |-> NoRun]
  /\ matches = FALSE
  /\ phase = [r \in Runs |-> "none"]
  /\ open = {} /\ workspaces = {}
  /\ started = [r \in Runs |-> 0]
  /\ seen = 0

-----------------------------------------------------------------------------
\* write_catalog_attempt with a final status: the whole document, or a warning.
WriteAttempt(r, status) ==
  \/ /\ attempt' = [status |-> status, run |-> r, startedAt |-> started[r]]
     /\ matches' = (catalog.run = r)
     /\ open' = open \ {r}
  \/ "catalog" \in Faults /\ UNCHANGED <<attempt, matches, open>>

\* fail_catalog_attempt: an attempt that is closed stays as it is.
FailAttempt(r) == IF r \in open THEN WriteAttempt(r, "failed")
                                ELSE UNCHANGED <<attempt, matches, open>>

\* A step of run r's refresh_catalog, or of its EXIT trap, that ends with the
\* workspace removed.
EndBuild(r, from, next) ==
  /\ pc[r] \in {"working", "exiting"} /\ phase[r] \in from
  /\ phase' = [phase EXCEPT ![r] = next]
  /\ workspaces' = workspaces \ {r}
  /\ UNCHANGED <<vars, catalog, started, seen>>

\* The lock is taken and begin_catalog_attempt follows.
OpenAttempt(r) ==
  /\ RunAdmitted(r)
  /\ phase' = [phase EXCEPT ![r] = "open"]
  /\ open' = open \cup {r}
  /\ started' = [started EXCEPT ![r] = clock]
  /\ \/ attempt' = [status |-> "running", run |-> r, startedAt |-> clock] /\ matches' = FALSE
     \/ "catalog" \in Faults /\ UNCHANGED <<attempt, matches>>
  /\ UNCHANGED <<catalog, workspaces, seen>>

BeginBuild(r) ==
  /\ pc[r] = "working" /\ phase[r] = "open"
  /\ phase' = [phase EXCEPT ![r] = "building"]
  /\ workspaces' = workspaces \cup {r}
  /\ UNCHANGED <<vars, attempt, catalog, matches, open, started, seen>>

\* The workspace, a query, its parsing or the publication failed: the previous
\* catalog stays.
BuildFails(r) ==
  /\ pc[r] = "working" /\ EndBuild(r, {"open", "building"} \cup Counted, "done")
  /\ phase[r] # "building" => "catalog" \in Faults
  /\ FailAttempt(r)

\* What the new and the previous catalog list, counted before the rename.  A count
\* that fails is 0, that of the previous catalog as well as that of the new one.
CountItems(r) ==
  /\ pc[r] = "working" /\ phase[r] = "building"
  /\ \E counted \in Counted :
       /\ counted = "vacant" => ~catalog.items
       /\ counted = "unread" => "count" \in Faults
       /\ phase' = [phase EXCEPT ![r] = counted]
  /\ UNCHANGED <<vars, attempt, catalog, matches, open, started, workspaces, seen>>

\* The new catalog counts as empty and the previous one lists something: keep it.
KeepsPrevious(r) ==
  /\ pc[r] = "working" /\ catalog.items
  /\ EndBuild(r, {"building"}, "done")
  /\ WriteAttempt(r, "empty")

\* catalog.json is renamed into place, whatever it is by now.  What counted as
\* empty lists something only if its count failed.
PublishCatalog(r) ==
  /\ pc[r] = "working" /\ phase[r] \in Counted
  /\ \E items \in BOOLEAN :
       /\ phase[r] = "filled" => items
       /\ phase[r] # "filled" /\ items => "count" \in Faults
       /\ catalog' = [items |-> items, run |-> r]
  /\ matches' = (attempt.run = r)
  /\ phase' = [phase EXCEPT ![r] = IF @ = "filled" THEN "moved" ELSE "emptied"]
  /\ UNCHANGED <<vars, attempt, open, started, workspaces, seen>>

\* As if the attempt were closed with a status the console does not know.
RecordResultAsPublished(r) ==
  /\ pc[r] = "working" /\ EndBuild(r, Renamed, "done")
  /\ WriteAttempt(r, "published")

RecordResult(r) ==
  /\ pc[r] = "working" /\ EndBuild(r, Renamed, "done")
  /\ WriteAttempt(r, IF phase[r] = "moved" THEN "success" ELSE "empty")

\* finish_catalog_on_exit, first in every EXIT trap.  INT and TERM reach it from
\* any point of an announced run.
CloseOnExit(r) ==
  /\ EndBuild(r, Phases \ {"trapped"}, "trapped")
  /\ FailAttempt(r)

CatalogStep(r) == \/ BeginBuild(r) \/ BuildFails(r) \/ CountItems(r) \/ KeepsPrevious(r)
                  \/ PublishCatalog(r) \/ RecordResult(r) \/ CloseOnExit(r)

\* The other steps of a run, which leave the catalog alone.
RunContinues(r) ==
  /\ \/ RunSkips(r) \/ RunCannotLock(r) \/ RunRefuses(r) \/ RunToolMissing(r)
     \/ RunNotArmed(r) \/ RunAnnounces(r) \/ RunPublishes(r) \/ ToolEnds(r)
     \/ phase[r] \in {"open", "building"} /\ RunStartsTool(r)
     \/ phase[r] = "trapped" /\ RunFinishes(r)
  /\ UNCHANGED catalogVars

\* The runs in gone have ended: what they left in the files is nobody's.
Abandon(gone) ==
  /\ attempt' = [attempt EXCEPT !.run = IF @ \in gone THEN NoRun ELSE @]
  /\ catalog' = [catalog EXCEPT !.run = IF @ \in gone THEN NoRun ELSE @]
  /\ phase' = [r \in Runs |-> IF r \in gone THEN "none" ELSE phase[r]]
  /\ started' = [r \in Runs |-> IF r \in gone THEN 0 ELSE started[r]]
  /\ open' = open \ gone
  /\ workspaces' = workspaces \ gone
  /\ UNCHANGED <<matches, seen>>

EndAttempt(r) == phase[r] = "trapped" /\ RunExits(r) /\ Abandon({r})
KillAttempt(r) == Kill(r) /\ Abandon({r})
CrashAttempts == Crash /\ Abandon(Runs)

\* Every directory named catalog-build.* goes, whoever made it.
ReapWorkspaces ==
  /\ ReapCatalogWorkspaces
  /\ workspaces' = {}
  /\ UNCHANGED <<attempt, catalog, matches, phase, open, started, seen>>

\* As if the boot did not look at the attempt.
ReconcileNothing == InitRead /\ UNCHANGED catalogVars

\* reconcile_catalog_attempt, after which init_state reads state.json.
Reconcile ==
  /\ InitRead
  /\ attempt' = IF attempt.status = "running" /\ ~matches
                THEN [attempt EXCEPT !.status = "interrupted"] ELSE attempt
  /\ UNCHANGED <<catalog, matches, phase, open, started, workspaces, seen>>

SchedContinues ==
  /\ \/ SchedBoot \/ ReapLock \/ InitWrite \/ BootRead \/ BootPublish \/ RefreshRead
     \/ RefreshLock \/ RefreshSame \/ RefreshDraft \/ RefreshWrite \/ RefreshPublish
     \/ CronNoMatch \/ PopTimeout \/ Fork \/ HandOff
     \/ \E r \in Runs : CronDispatch(r) \/ PopDispatch(r)
  /\ UNCHANGED catalogVars

\* GET /api/status reads the sync status before the catalog files.
ReadStatus ==
  /\ seen' = ConsoleState.finishedAt
  /\ UNCHANGED <<vars, attempt, catalog, matches, phase, open, started, workspaces>>

\* As if a finish in the same second counted.
ReportedLoosely ==
  IF attempt.status # "running" THEN attempt.status
  ELSE IF matches THEN "success"
  ELSE IF seen >= attempt.startedAt THEN "interrupted"
  ELSE "running"

\* _catalog: the attempt status of GET /api/status, from a sync status read earlier.
Reported ==
  IF attempt.status # "running" THEN attempt.status
  ELSE IF matches THEN "success"
  ELSE IF seen > attempt.startedAt THEN "interrupted"
  ELSE "running"

OthersContinue ==
  /\ \/ \E r \in Runs : LaunchDirectly(r)
     \/ \E w \in Workers : ConsoleNext(w)
     \/ RedisRestart \/ Tick
  /\ UNCHANGED catalogVars

CatalogNext ==
  \/ SchedContinues \/ ReapWorkspaces \/ Reconcile
  \/ \E r \in Runs : \/ OpenAttempt(r) \/ CatalogStep(r) \/ RunContinues(r)
                     \/ EndAttempt(r) \/ KillAttempt(r)
  \/ CrashAttempts \/ OthersContinue \/ ReadStatus

CatalogSpec == CatalogInit /\ [][CatalogNext]_allVars

\* As in SyncRun: the scheduler and the runs carry on, the tool ends.  A run has
\* a finite list of targets and three listings, so it does not start the tool
\* for ever instead of going on with its catalog.
CatalogFairness ==
  /\ WF_allVars(SchedContinues \/ ReapWorkspaces \/ Reconcile)
  /\ \A r \in Runs :
       /\ WF_allVars(OpenAttempt(r) \/ EndAttempt(r) \/ (RunContinues(r) /\ ~RunStartsTool(r)))
       /\ SF_allVars(CatalogStep(r))
  /\ \A w \in Workers : WF_allVars(EndGuard(w) /\ UNCHANGED catalogVars)

FairCatalogSpec == CatalogSpec /\ CatalogFairness

-----------------------------------------------------------------------------
(* Properties.                                                             *)

\* The update of a live run is never reported as interrupted by the console's
\* comparison of whole-second times of two files, however old the status it
\* compares with (app.py:2489-2500).
LiveAttemptIsNotInterrupted ==
  \A r \in Runs :
    attempt.status = "running" /\ attempt.run = r /\ phase[r] # "trapped" =>
      Reported # "interrupted"

\* A live run that builds the catalog keeps its workspace, although a booting
\* scheduler removes every directory of that name and a run may have been
\* started without the scheduler (entrypoint.sh:228-247).
LiveWorkspaceIsKept == \A r \in Runs : phase[r] \in Building => r \in workspaces

\* What a run decides on from its count of the previous catalog is still true when
\* it renames its own, although a container stop, the end of an earlier run or a run
\* started by hand may fall in between (sync.sh:774-782): a catalog that lists
\* components becomes empty only by a run whose count of it failed.  That one takes
\* it for empty (sync.sh:777), against redis-contract.md:118-120, "without replacing
\* a catalog that did list components".
NonEmptyCatalogSurvives ==
  [][catalog.items /\ ~catalog'.items => \E r \in Runs : phase[r] = "unread"]_allVars

\* While the container stays up an open attempt is resolved: by its run, or after
\* a stop by the boot, or because the published catalog turns out to be its own.
\* For Faults without "kill": the attempt of a killed run waits for the next run.
OpenAttemptResolves ==
  <>[](sched # "stopped") => (attempt.status = "running" ~> Reported # "running")
=============================================================================
