----------------------------- MODULE ToolStore -----------------------------
(***************************************************************************)
(* The releases of the download tool on the tool volume: the console       *)
(* installs and rolls back (_install_tool_archive, _replace_tool and       *)
(* _rollback_tool in ui/app.py), a sync run downloads with the current     *)
(* release and removes the previous one when everything succeeded          *)
(* (sync/sync.sh).  Both sides lock .update.lock: a run shared and waiting *)
(* for it, the console exclusively and without waiting.                    *)
(*                                                                         *)
(* A release is named by a random id, so a name is used again only when    *)
(* nothing is left of it.                                                  *)
(***************************************************************************)
EXTENDS Naturals

CONSTANTS Releases,    \* release ids
          NoRelease,   \* a link that does not exist, or no release
          Workers,     \* console request threads
          NoWorker,
          Faults       \* which failures may happen, see Failures

Failures == {"install",  \* the console container stops during an install
             "rollback", \* the console container stops during a rollback
             "sync",     \* the sync container stops
             "replace"}  \* the previous link cannot be replaced

ASSUME ToolFaults == Faults \subseteq Failures /\ NoRelease \notin Releases /\ NoWorker \notin Workers

VARIABLES
  current,   \* the link /vcfdt/current
  previous,  \* the link /vcfdt/previous
  releases,  \* directories below /vcfdt/releases
  owner,     \* the thread that holds .update.lock exclusively
  step,      \* where the owner is
  new,       \* the release it installs or rolls back to
  old,       \* the release that was current when it began
  doomed,    \* the release that is to be removed
  run,       \* where the sync run is
  using,     \* the release the run downloads with
  running    \* running in the published status

linkVars == <<current, previous, releases>>
consoleVars == <<owner, step, new, old, doomed>>
runVars == <<run, using, running>>
vars == <<linkVars, consoleVars, runVars>>

Links == Releases \cup {NoRelease}

ToolTypeOK ==
  /\ current \in Links /\ previous \in Links /\ releases \subseteq Releases
  /\ owner \in Workers \cup {NoWorker}
  /\ step \in {"none", "staged", "switched", "linked", "rollback", "half", "restore"}
  /\ new \in Links /\ old \in Links /\ doomed \in Links
  /\ run \in {"none", "locked", "announced", "promoting", "ended", "dead"}
  /\ using \in Links /\ running \in BOOLEAN
  /\ run \notin {"none", "dead"} => using # NoRelease

Init ==
  /\ current = NoRelease /\ previous = NoRelease /\ releases = {}
  /\ owner = NoWorker /\ step = "none"
  /\ new = NoRelease /\ old = NoRelease /\ doomed = NoRelease
  /\ run = "none" /\ using = NoRelease /\ running = FALSE

HoldsTool == run \in {"locked", "announced", "promoting", "ended"}

-----------------------------------------------------------------------------
(* The console.                                                            *)

\* The lock is given back and the answer is sent.
Done == /\ owner' = NoWorker /\ step' = "none"
        /\ new' = NoRelease /\ old' = NoRelease /\ doomed' = NoRelease

\* As if the console relied on the published status.
MayLockByStatus == owner = NoWorker /\ ~running

\* _tool_update_lock and the check of the published status; a refusal changes
\* nothing.
MayLock == owner = NoWorker /\ ~HoldsTool /\ ~running
LockTool(w) == MayLock /\ owner' = w

\* An archive that is not valid, or changes the Software Depot ID, leaves nothing.
InstallFails == MayLock /\ UNCHANGED vars

\* The archive is extracted, validated and moved to releases/<id>.
StageRelease(w, r) ==
  /\ LockTool(w)
  /\ r \notin releases \cup {current, previous}
  /\ releases' = releases \cup {r}
  /\ new' = r /\ old' = current /\ step' = "staged"
  /\ UNCHANGED <<current, previous, doomed, runVars>>

\* The current link is replaced; what was previous is looked up after it.
SwitchCurrent ==
  /\ step = "staged"
  /\ current' = new /\ doomed' = previous /\ step' = "switched"
  /\ UNCHANGED <<previous, releases, owner, new, old, runVars>>

\* The previous link is replaced, or removed when nothing was installed before.
\* When that fails the answer is an error and the new release stays current.
LinkPrevious ==
  /\ step = "switched"
  /\ \/ previous' = old /\ step' = "linked" /\ UNCHANGED <<owner, new, old, doomed>>
     \/ "replace" \in Faults /\ Done /\ UNCHANGED previous
  /\ UNCHANGED <<current, releases, runVars>>

\* _replace_tool forgets the release before the previous one.
RemoveOlder ==
  /\ step = "linked"
  /\ releases' = IF doomed = old THEN releases ELSE releases \ {doomed}
  /\ Done
  /\ UNCHANGED <<current, previous, runVars>>

BeginRollback(w) ==
  /\ current # NoRelease /\ previous # NoRelease
  /\ LockTool(w)
  /\ new' = previous /\ old' = current /\ step' = "rollback"
  /\ UNCHANGED <<linkVars, doomed, runVars>>

SwapCurrent ==
  /\ step = "rollback"
  /\ current' = new /\ step' = "half"
  /\ UNCHANGED <<previous, releases, owner, new, old, doomed, runVars>>

\* The second rename, or its failure, after which the current link is put back.
SwapPrevious ==
  /\ step = "half"
  /\ \/ previous' = old /\ Done
     \/ /\ "replace" \in Faults
        /\ step' = "restore"
        /\ UNCHANGED <<previous, owner, new, old, doomed>>
  /\ UNCHANGED <<current, releases, runVars>>

\* As if a failed rollback left the current link alone.
RestoreNothing == step = "restore" /\ Done /\ UNCHANGED <<linkVars, runVars>>

RestoreCurrent ==
  /\ step = "restore"
  /\ current' = old
  /\ Done
  /\ UNCHANGED <<previous, releases, runVars>>

\* The console stops between two steps.
ConsoleStops ==
  /\ \/ "install" \in Faults /\ step \in {"staged", "switched", "linked"}
     \/ "rollback" \in Faults /\ step \in {"rollback", "half", "restore"}
  /\ Done
  /\ UNCHANGED <<linkVars, runVars>>

ConsoleNext ==
  \/ \E w \in Workers : BeginRollback(w) \/ \E r \in Releases : StageRelease(w, r)
  \/ InstallFails
  \/ SwitchCurrent \/ LinkPrevious \/ RemoveOlder
  \/ SwapCurrent \/ SwapPrevious \/ RestoreCurrent
  \/ ConsoleStops

-----------------------------------------------------------------------------
(* A sync run.                                                             *)

\* As if the run did not look for the tool first.
RunLocksToolBlindly ==
  /\ run = "none" /\ owner = NoWorker
  /\ run' = "locked" /\ using' = current
  /\ UNCHANGED <<linkVars, consoleVars, running>>

\* The tool is executable; flock -s 7, after which the metadata of the current release is read.
RunLocksTool ==
  /\ run = "none" /\ owner = NoWorker /\ current \in releases
  /\ run' = "locked" /\ using' = current
  /\ UNCHANGED <<linkVars, consoleVars, running>>

RunAnnounces ==
  /\ run = "locked"
  /\ run' = "announced" /\ running' = TRUE
  /\ UNCHANGED <<linkVars, consoleVars, using>>

\* Every target succeeded and one of them was a download: the previous link goes
\* first, then the release it named.
Promote ==
  /\ run = "announced" /\ previous # NoRelease
  /\ run' = "promoting" /\ previous' = NoRelease /\ doomed' = previous
  /\ UNCHANGED <<current, releases, owner, step, new, old, using, running>>

RemovePrevious ==
  /\ run = "promoting"
  /\ releases' = releases \ {doomed} /\ doomed' = NoRelease
  /\ run' = "announced"
  /\ UNCHANGED <<current, previous, owner, step, new, old, using, running>>

\* finish_state, then the lock is released with the process.
RunFinishes ==
  /\ run = "announced"
  /\ run' = "ended" /\ running' = FALSE
  /\ UNCHANGED <<linkVars, consoleVars, using>>

RunExits ==
  /\ run \in {"locked", "ended"}
  /\ run' = "none" /\ using' = NoRelease
  /\ UNCHANGED <<linkVars, consoleVars, running>>

SyncStops ==
  /\ "sync" \in Faults /\ run \notin {"none", "dead"}
  /\ run' = "dead" /\ using' = NoRelease /\ doomed' = NoRelease
  /\ UNCHANGED <<linkVars, owner, step, new, old, running>>

SchedulerBoots ==
  /\ run = "dead"
  /\ run' = "none" /\ running' = FALSE
  /\ UNCHANGED <<linkVars, consoleVars, using>>

SyncNext == \/ RunLocksTool \/ RunAnnounces \/ Promote \/ RemovePrevious
            \/ RunFinishes \/ RunExits \/ SyncStops \/ SchedulerBoots

Next == ConsoleNext \/ SyncNext

Spec == Init /\ [][Next]_vars

-----------------------------------------------------------------------------
(* Properties.                                                             *)

\* Neither link ever names a release that is gone: an install, a rollback, a
\* promotion, and an install or a promotion cut short leave a tool to run and, if
\* one is offered, a release to go back to (app.py:1860-1942, sync.sh:1158-1171).
\* Without "rollback" in Faults; see PromotionRemovesPrevious.
LinksResolve == {current, previous} \ {NoRelease} \subseteq releases

\* A run downloads with one release from the moment it has the tool until it
\* ends: the link stays and the directory stays (app.py:1863, sync.sh:908).
RunKeepsItsRelease == HoldsTool => current = using /\ using \in releases

\* Both in one promise, and that the renames of an install and of a rollback are one
\* step to everybody else: the store implements an active and a fallback release.
\* Until the second rename, or what is done when it fails, the old one is active.
\* Without "rollback" in Faults.
Pair == INSTANCE ReleasePair WITH
          active <- IF step \in {"switched", "half", "restore"} THEN old ELSE current,
          fallback <- previous,
          stored <- releases,
          inUse <- IF HoldsTool THEN using ELSE NoRelease
KeepsPair == Pair!Spec

-----------------------------------------------------------------------------
(* What the repository says and the code does not do.                      *)

\* "promoted tool ... and removed the previous release" (sync.sh:1166): a rollback
\* cut short between its two renames leaves both links on one release, and the
\* next successful sync removes the release it has just promoted.
PromotionRemovesPrevious == [][RemovePrevious => doomed # current]_vars
=============================================================================
