-------------------------- MODULE SettingsSnapshot --------------------------
(***************************************************************************)
(* Saving settings in the console (POST /api/settings in ui/app.py) while  *)
(* sync runs start, read settings.env and end (sync/sync.sh).              *)
(*                                                                         *)
(* A run names itself in settings-snapshot.run, takes                      *)
(* settings-snapshot.lock exclusively, reads settings.env, and then takes  *)
(* the tool's .update.lock shared until it exits.  A save holds the first  *)
(* lock shared when it is free, holds the second exclusively when it       *)
(* changes what the tool reads, and leaves a marker for a run in flight.   *)
(* Runs follow each other, as SyncRun shows, and are numbered.             *)
(***************************************************************************)
EXTENDS Naturals

CONSTANTS Workers,     \* console request threads
          Values,      \* values of a setting
          MaxRuns,     \* bound on the runs that are started
          Crashes      \* may the sync container stop during a run

ASSUME SnapshotBounds == MaxRuns \in Nat /\ Crashes \in BOOLEAN /\ Values # {}

\* "live": endpoints that the tool itself reads (LIVE_TOOL_FIELDS); "deferred":
\* everything a run reads from settings.env.
Fields == {"deferred", "live"}
Documents == [Fields -> Values]

VARIABLES
  settings,   \* settings.env
  endpoints,  \* the live fields as patched into the current tool
  identity,   \* settings-snapshot.run, 0 when absent
  pending,    \* the marker: fields saved during run number run
  running,    \* running in the published status
  run,        \* where the current run is
  number,     \* its number
  snapshot,   \* the settings it read
  save,       \* where each console thread is in its save
  form,       \* the document it is going to write
  changed,    \* the fields it found changed
  taken,      \* a run held the snapshot when it looked
  target,     \* the run it identified
  shared,     \* threads that hold settings-snapshot.lock shared
  overtaken   \* the last run started during a save that had met another one (history)

runVars == <<run, number, snapshot, identity, overtaken>>
saveVars == <<save, form, changed, taken, target, shared>>
fileVars == <<settings, endpoints, pending>>
vars == <<runVars, running, saveVars, fileVars>>

RunPc == {"idle", "named", "locked", "loaded", "tooled", "announced", "finished", "dead"}
SavePc == {"idle", "compare", "guard", "identify", "tool", "write", "record", "answer"}

\* The run holds settings-snapshot.lock, or .update.lock.
HoldsSnapshot == run \in {"locked", "loaded", "tooled", "announced", "finished"}
HoldsTool == run \in {"tooled", "announced", "finished"}
HasLoaded == HoldsSnapshot /\ run # "locked"
\* Threads that hold .update.lock exclusively.
Patchers == {w \in Workers : save[w] = "write" /\ "live" \in changed[w]}

SnapshotTypeOK ==
  /\ settings \in Documents /\ snapshot \in Documents /\ endpoints \in Values
  /\ identity \in 0..MaxRuns /\ number \in 0..MaxRuns
  /\ pending \in [run : 0..MaxRuns, fields : SUBSET Fields]
  /\ running \in BOOLEAN
  /\ run \in RunPc
  /\ save \in [Workers -> SavePc]
  /\ form \in [Workers -> Documents]
  /\ changed \in [Workers -> SUBSET Fields]
  /\ taken \in [Workers -> BOOLEAN]
  /\ target \in [Workers -> 0..MaxRuns]
  /\ shared \subseteq Workers /\ overtaken \in BOOLEAN

Init ==
  /\ \E v \in Values : /\ settings = [f \in Fields |-> v] /\ endpoints = v
                       /\ snapshot = settings
                       /\ form = [w \in Workers |-> settings]
  /\ identity = 0 /\ number = 0 /\ run = "idle" /\ running = FALSE
  /\ pending = [run |-> 0, fields |-> {}]
  /\ save = [w \in Workers |-> "idle"]
  /\ changed = [w \in Workers |-> {}]
  /\ taken = [w \in Workers |-> FALSE]
  /\ target = [w \in Workers |-> 0]
  /\ shared = {} /\ overtaken = FALSE

-----------------------------------------------------------------------------
(* A sync run, after it was admitted by the depot lock.                    *)

\* Saves that met a run and hold no lock.
Bare == {w \in Workers : taken[w] /\ w \notin shared}

RunNames ==
  /\ run = "idle" /\ number < MaxRuns
  /\ number' = number + 1 /\ identity' = number' /\ run' = "named"
  /\ overtaken' = (Bare # {})
  /\ UNCHANGED <<snapshot, running, saveVars, fileVars>>

\* As if flock were called with -s.
RunSharesSnapshot ==
  /\ run = "named"
  /\ run' = "locked"
  /\ UNCHANGED <<number, identity, overtaken, snapshot, running, saveVars, fileVars>>

\* flock -x 6 waits for the saves that hold the lock shared.
RunLocksSnapshot ==
  /\ run = "named" /\ shared = {}
  /\ run' = "locked"
  /\ UNCHANGED <<number, identity, overtaken, snapshot, running, saveVars, fileVars>>

LoadSettings ==
  /\ run = "locked"
  /\ snapshot' = settings /\ run' = "loaded"
  /\ UNCHANGED <<number, identity, overtaken, running, saveVars, fileVars>>

\* flock -s 7 waits for a save or a tool replacement.
RunLocksTool ==
  /\ run = "loaded" /\ Patchers = {}
  /\ run' = "tooled"
  /\ UNCHANGED <<number, identity, overtaken, snapshot, running, saveVars, fileVars>>

RunAnnounces ==
  /\ run = "tooled"
  /\ running' = TRUE /\ run' = "announced"
  /\ UNCHANGED <<number, identity, overtaken, snapshot, saveVars, fileVars>>

RunFinishes ==
  /\ run = "announced"
  /\ running' = FALSE /\ run' = "finished"
  /\ UNCHANGED <<number, identity, overtaken, snapshot, saveVars, fileVars>>

\* The end of the run, or an early exit, releases both locks.
RunExits ==
  /\ run \in {"named", "locked", "loaded", "tooled", "finished"}
  /\ run' = "idle"
  /\ UNCHANGED <<number, identity, overtaken, snapshot, running, saveVars, fileVars>>

\* The container stops during a run; the scheduler's boot clears running.
RunCrashes ==
  /\ Crashes /\ run \notin {"idle", "dead"}
  /\ run' = "dead"
  /\ UNCHANGED <<number, identity, overtaken, snapshot, running, saveVars, fileVars>>

SchedulerBoots ==
  /\ run = "dead"
  /\ running' = FALSE /\ run' = "idle"
  /\ UNCHANGED <<number, identity, overtaken, snapshot, saveVars, fileVars>>

RunNext == \/ RunNames \/ RunLocksSnapshot \/ LoadSettings \/ RunLocksTool \/ RunAnnounces
           \/ RunFinishes \/ RunExits \/ RunCrashes \/ SchedulerBoots

-----------------------------------------------------------------------------
(* update_settings.                                                        *)

Goes(w, pc) == save' = [save EXCEPT ![w] = pc]

\* The answer, successful or 409: every lock is released.
Answers(w) ==
  /\ Goes(w, "idle")
  /\ shared' = shared \ {w}
  /\ taken' = [taken EXCEPT ![w] = FALSE]
  /\ changed' = [changed EXCEPT ![w] = {}]
  /\ target' = [target EXCEPT ![w] = 0]
  /\ UNCHANGED form

\* The posted fields are laid over the document as it reads now.
BeginSave(w, f, v) ==
  /\ save[w] = "idle"
  /\ form' = [form EXCEPT ![w] = [settings EXCEPT ![f] = v]]
  /\ Goes(w, "compare")
  /\ UNCHANGED <<runVars, running, fileVars, changed, taken, target, shared>>

\* settings.env is read once more to find what changes.
Compare(w) ==
  /\ save[w] = "compare"
  /\ changed' = [changed EXCEPT ![w] = {f \in Fields : form[w][f] # settings[f]}]
  /\ Goes(w, "guard")
  /\ UNCHANGED <<runVars, running, fileVars, form, taken, target, shared>>

\* _settings_snapshot_guard and the first refusal: a run that has the lock, or a
\* status that says running, means the save is for the next run.
Guard(w) ==
  /\ save[w] = "guard"
  /\ LET met == HoldsSnapshot \/ running IN
       IF met /\ "live" \in changed[w]
       THEN Answers(w)
       ELSE /\ taken' = [taken EXCEPT ![w] = met]
            /\ shared' = IF HoldsSnapshot THEN shared ELSE shared \cup {w}
            /\ Goes(w, "identify")
            /\ UNCHANGED <<form, changed, target>>
  /\ UNCHANGED <<runVars, running, fileVars>>

\* As if a save were tagged with the run that follows.
IdentifyNextRun(w) ==
  /\ save[w] = "identify"
  /\ target' = [target EXCEPT ![w] = IF taken[w] THEN identity + 1 ELSE 0]
  /\ Goes(w, IF "live" \in changed[w] THEN "tool" ELSE "write")
  /\ UNCHANGED <<runVars, running, fileVars, form, changed, taken, shared>>

\* _snapshot_run_id.
IdentifyRun(w) ==
  /\ save[w] = "identify"
  /\ target' = [target EXCEPT ![w] = IF taken[w] THEN identity ELSE 0]
  /\ Goes(w, IF "live" \in changed[w] THEN "tool" ELSE "write")
  /\ UNCHANGED <<runVars, running, fileVars, form, changed, taken, shared>>

\* _tool_update_lock does not wait, and a run may have started since.
LockTool(w) ==
  /\ save[w] = "tool"
  /\ IF Patchers # {} \/ HoldsTool \/ HoldsSnapshot \/ running
     THEN Answers(w)
     ELSE Goes(w, "write") /\ UNCHANGED <<form, changed, taken, target, shared>>
  /\ UNCHANGED <<runVars, running, fileVars>>

\* As if every save patched the tool.
WriteAndPatch(w) ==
  /\ save[w] = "write"
  /\ settings' = form[w] /\ endpoints' = form[w]["live"]
  /\ Goes(w, "record")
  /\ UNCHANGED <<runVars, running, pending, form, changed, taken, target, shared>>

\* The whole document is written; changed endpoints are patched into the tool.
WriteSettings(w) ==
  /\ save[w] = "write"
  /\ settings' = form[w]
  /\ endpoints' = IF "live" \in changed[w] THEN form[w]["live"] ELSE endpoints
  /\ Goes(w, "record")
  /\ UNCHANGED <<runVars, running, pending, form, changed, taken, target, shared>>

\* _clear_pending_settings, or _record_pending_settings, which keeps what an
\* earlier save of the same run left.
RecordPending(w) ==
  /\ save[w] = "record"
  /\ pending' =
       IF ~taken[w] THEN [run |-> 0, fields |-> {}]
       ELSE IF changed[w] = {} THEN pending
       ELSE [run |-> target[w],
             fields |-> changed[w] \cup (IF pending.run = target[w] THEN pending.fields ELSE {})]
  /\ Goes(w, "answer")
  /\ UNCHANGED <<runVars, running, settings, endpoints, form, changed, taken, target, shared>>

\* _pending_settings: the fields shown as applying to the next run.
Shown(inFlight) == IF inFlight /\ pending.run = identity THEN pending.fields ELSE {}

Answer(w) ==
  /\ save[w] = "answer"
  /\ Answers(w)
  /\ UNCHANGED <<runVars, running, fileVars>>

SaveNext(w) ==
  \/ \E f \in Fields, v \in Values : BeginSave(w, f, v)
  \/ Compare(w) \/ Guard(w) \/ IdentifyRun(w) \/ LockTool(w) \/ WriteSettings(w)
  \/ RecordPending(w) \/ Answer(w)

Next == RunNext \/ \E w \in Workers : SaveNext(w)

Spec == Init /\ [][Next]_vars

-----------------------------------------------------------------------------
(* Properties.                                                             *)

\* A save whose answer says that a field is in use now tells the truth: no run in
\* flight goes on with another value of it, whichever way saves of other threads
\* and the run's start, reading and end fall in between (app.py:3986-4016).  Except
\* for a run that started during a save which had met the one before: that save holds
\* no lock (app.py:2169-2173), so it may write after the run has read the file, and
\* put its marker in the place of another save's.
SavedIsUsed ==
  ~overtaken =>
    \A w \in Workers : save[w] = "answer" =>
      \A f \in changed[w] \ Shown(taken[w]) : HasLoaded => snapshot[f] = form[w][f]

\* The endpoints the mounted tool reads stay as they are from the moment a run
\* has the tool until it ends (app.py:3994-4002, sync.sh:909).
EndpointsStay == [][HoldsTool => endpoints' = endpoints]_vars
=============================================================================
