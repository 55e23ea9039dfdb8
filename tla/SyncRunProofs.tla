--------------------------- MODULE SyncRunProofs ---------------------------
(***************************************************************************)
(* Machine-checked proofs about SyncRun, for any number of runs and        *)
(* console threads and any set of failures.                                *)
(***************************************************************************)
EXTENDS SyncRun, TLAPS

\* Every step of the scheduler, as one disjunct per action.
LEMMA NextCases ==
  ASSUME [Next]_vars
  PROVE  \/ SchedNext
         \/ \E r \in Runs : RunNext(r) \/ LaunchDirectly(r) \/ Kill(r)
         \/ \E w \in Workers : ConsoleNext(w)
         \/ Crash \/ RedisRestart \/ Tick
         \/ UNCHANGED vars
BY DEF Next

\* Closing a description keeps the two tables well typed.
LEMMA CloseType ==
  ASSUME TypeOK, NEW r \in Runs, NEW ps, Close(r, ps)
  PROVE  /\ holders' \in [Runs -> SUBSET {"sched", "run", "tool"}]
         /\ lock' \in [Descriptors -> {"none", "shared", "exclusive"}]
BY DEF TypeOK, Close, Descriptors

LEMMA TryLockType ==
  ASSUME TypeOK, NEW d \in Descriptors
  PROVE  TryLock(d) \in [Descriptors -> {"none", "shared", "exclusive"}]
BY DEF TypeOK, TryLock

LEMMA PublishType ==
  ASSUME TypeOK, PublishStatus \/ SetStatus(draft)
  PROVE  bus' \in Documents \cup {NoStatus}
BY DEF TypeOK, PublishStatus, SetStatus

\* A launch in progress names its run.
JobIsRun == sched \in {"fork", "handoff"} => job \in Runs
TypeInv == TypeOK /\ JobIsRun

LEMMA TypeInit == Init => TypeInv
<1> SUFFICES ASSUME Init PROVE TypeInv
  OBVIOUS
<1> USE BoundsAreNumbers DEF Init
<1>1. sched \in SchedPc /\ job \in Runs \cup {NoRun} /\ back \in {"loop", "pop"} /\ JobIsRun
  BY DEF SchedPc, JobIsRun
<1>2. state \in Documents /\ draft \in Documents /\ bus \in Documents \cup {NoStatus}
  BY DEF Documents
<1>3. /\ pc \in [Runs -> RunPc]
      /\ holders \in [Runs -> SUBSET {"sched", "run", "tool"}]
      /\ lock \in [Descriptors -> {"none", "shared", "exclusive"}]
      /\ console \in [Workers -> ConsolePc]
  BY DEF RunPc, ConsolePc
<1>4. armed \in BOOLEAN /\ auth \in BOOLEAN
  BY Zenon
<1>5. queue \in 0..MaxQueue /\ clock \in 0..MaxClock
  BY SMT
<1> QED BY <1>1, <1>2, <1>3, <1>4, <1>5 DEF TypeInv, TypeOK

LEMMA SchedType ==
  ASSUME TypeInv, SchedNext
  PROVE  TypeInv'
<1> USE BoundsAreNumbers
    DEF TypeInv, JobIsRun, SchedPc, runVars, fileVars
<1>d. Scheduler \in Descriptors /\ Runs \subseteq Descriptors
  BY DEF Descriptors
<1>1. CASE SchedBoot
  BY <1>1 DEF SchedBoot, TypeOK
<1>2. ASSUME NEW h \in SchedPc \ {"fork", "handoff"}, NEW n \in SchedPc \ {"fork", "handoff"},
             TakeDepotLock(h, n)
      PROVE  /\ sched' \in SchedPc \ {"fork", "handoff"}
             /\ lock' \in [Descriptors -> {"none", "shared", "exclusive"}]
  BY <1>2, <1>d, TryLockType DEF TakeDepotLock, TypeOK
<1>3. CASE ReapLock
  BY <1>2, <1>3 DEF ReapLock, TypeOK
<1>4. CASE ReapCatalogWorkspaces
  BY <1>4 DEF ReapCatalogWorkspaces, TypeOK
<1>5. CASE InitRead
  BY <1>5 DEF InitRead, TypeOK, Documents
<1>6. CASE InitWrite
  BY <1>6 DEF InitWrite, TypeOK
<1>7. CASE BootRead \/ BootPublish
  BY <1>7, PublishType DEF BootRead, BootPublish, TypeOK
<1>8. CASE RefreshRead
  BY <1>8 DEF RefreshRead, TypeOK
<1>9. CASE RefreshLock
  BY <1>2, <1>9 DEF RefreshLock, TypeOK
<1>10. CASE RefreshSame
  BY <1>10 DEF RefreshSame, TypeOK
<1>11. CASE RefreshDraft
  BY <1>11 DEF RefreshDraft, TypeOK, Documents
<1>12. CASE RefreshWrite
  BY <1>12 DEF RefreshWrite, TypeOK
<1>13. CASE RefreshPublish
  BY <1>13, PublishType DEF RefreshPublish, TypeOK
<1>14. CASE CronNoMatch
  BY <1>14 DEF CronNoMatch, TypeOK
<1>15. CASE PopTimeout
  BY <1>15 DEF PopTimeout, TypeOK
<1>16. CASE Fork
  BY <1>16 DEF Fork, TypeOK, RunPc
<1>17. CASE HandOff
  <2>1. job \in Runs
    BY <1>17 DEF HandOff
  <2>2. /\ holders' \in [Runs -> SUBSET {"sched", "run", "tool"}]
        /\ lock' \in [Descriptors -> {"none", "shared", "exclusive"}]
    BY <1>17, <2>1, CloseType DEF HandOff
  <2> QED BY <1>17, <2>2 DEF HandOff, TypeOK
<1>18. ASSUME NEW r \in Runs, NEW n \in {"loop", "pop"}, OpenForDispatch(r, n)
       PROVE  /\ job' \in Runs /\ back' \in {"loop", "pop"} /\ sched' = "fork"
              /\ holders' \in [Runs -> SUBSET {"sched", "run", "tool"}]
              /\ lock' \in [Descriptors -> {"none", "shared", "exclusive"}]
  BY <1>18, <1>d, TryLockType DEF OpenForDispatch, TypeOK
<1>19. ASSUME NEW r \in Runs, CronDispatch(r)
       PROVE  TypeInv'
  BY <1>18, <1>19 DEF CronDispatch, TypeOK
<1>20. ASSUME NEW r \in Runs, PopDispatch(r)
       PROVE  TypeInv'
  BY <1>18, <1>20 DEF PopDispatch, TypeOK
<1> QED
  BY <1>1, <1>3, <1>4, <1>5, <1>6, <1>7, <1>8, <1>9, <1>10, <1>11, <1>12, <1>13, <1>14,
     <1>15, <1>16, <1>17, <1>19, <1>20 DEF SchedNext

LEMMA RunType ==
  ASSUME TypeInv, NEW r \in Runs, RunNext(r) \/ LaunchDirectly(r) \/ Kill(r)
  PROVE  TypeInv'
<1> USE BoundsAreNumbers DEF TypeInv, JobIsRun, RunPc, schedVars, runVars, fileVars
<1>d. r \in Descriptors
  BY DEF Descriptors
<1>1. CASE RunAdmitted(r)
  BY <1>1, <1>d, TryLockType DEF RunAdmitted, TypeOK
<1>2. CASE RunSkips(r)
  BY <1>2, CloseType DEF RunSkips, TypeOK
<1>3. CASE RunCannotLock(r)
  BY <1>3, CloseType DEF RunCannotLock, TypeOK
<1>4. CASE RunRefuses(r)
  BY <1>4 DEF RunRefuses, TypeOK
<1>5. ASSUME NEW doc \in Documents, NEW a \in RunPc, NEW b \in RunPc, WriteState(r, doc, a, b)
      PROVE  TypeInv'
  BY <1>5 DEF WriteState, TypeOK
<1>6. CASE RunToolMissing(r)
  BY <1>5, <1>6 DEF RunToolMissing, TypeOK, Documents
<1>7. CASE RunNotArmed(r)
  BY <1>5, <1>7 DEF RunNotArmed, TypeOK, Documents
<1>8. CASE RunAnnounces(r)
  BY <1>5, <1>8 DEF RunAnnounces, TypeOK, Documents
<1>9. CASE RunPublishes(r)
  BY <1>9, PublishType DEF RunPublishes, TypeOK
<1>10. CASE RunStartsTool(r)
  BY <1>10, PublishType DEF RunStartsTool, TypeOK
<1>11. CASE ToolEnds(r)
  <2>1. pc' \in [Runs -> RunPc]
    BY <1>11 DEF ToolEnds, TypeOK
  <2> QED BY <1>11, <2>1, CloseType DEF ToolEnds, TypeOK
<1>12. CASE RunFinishes(r)
  <2>1. clock \in Nat /\ state \in Documents
    BY DEF TypeOK
  <2>2. [state EXCEPT !.running = FALSE, !.finishedAt = clock] \in Documents
    BY <2>1, Zenon DEF Documents
  <2> QED BY <1>5, <1>12, <2>2 DEF RunFinishes
<1>13. CASE RunExits(r)
  BY <1>13, CloseType DEF RunExits, TypeOK
<1>14. CASE LaunchDirectly(r)
  BY <1>14 DEF LaunchDirectly, TypeOK
<1>15. CASE Kill(r)
  BY <1>15, CloseType DEF Kill, TypeOK
<1> QED
  BY <1>1, <1>2, <1>3, <1>4, <1>6, <1>7, <1>8, <1>9, <1>10, <1>11, <1>12, <1>13, <1>14, <1>15
     DEF RunNext

LEMMA ConsoleType ==
  ASSUME TypeInv, NEW w \in Workers, ConsoleNext(w)
  PROVE  TypeInv'
<1> USE BoundsAreNumbers DEF TypeInv, JobIsRun, ConsolePc, schedVars, runVars, fileVars
<1>d. w \in Descriptors
  BY DEF Descriptors
<1>1. CASE SyncRequested(w)
  BY <1>1 DEF SyncRequested, TypeOK
<1>2. CASE PublishRequest(w)
  BY <1>2 DEF PublishRequest, TypeOK
<1>3. CASE BeginBrowse(w)
  BY <1>3, <1>d DEF BeginBrowse, TypeOK
<1>4. CASE BeginMutation(w)
  BY <1>4, <1>d, TryLockType DEF BeginMutation, TypeOK
<1>5. CASE EndGuard(w)
  BY <1>5, <1>d DEF EndGuard, TypeOK
<1>6. CASE SaveRegistration(w)
  BY <1>6 DEF SaveRegistration, TypeOK
<1> QED BY <1>1, <1>2, <1>3, <1>4, <1>5, <1>6 DEF ConsoleNext

LEMMA FailureType ==
  ASSUME TypeInv, Crash \/ RedisRestart \/ Tick \/ UNCHANGED vars
  PROVE  TypeInv'
<1> USE BoundsAreNumbers
    DEF TypeInv, JobIsRun, TypeOK, SchedPc, RunPc, vars, schedVars, runVars, fileVars
<1>1. CASE Crash
  BY <1>1 DEF Crash
<1>2. CASE RedisRestart
  BY <1>2 DEF RedisRestart
<1>3. CASE Tick
  BY <1>3 DEF Tick
<1>4. CASE UNCHANGED vars
  BY <1>4
<1> QED BY <1>1, <1>2, <1>3, <1>4

\* Type correctness: descriptors, lock modes, program counters and the fields of
\* state.json stay in their ranges, and a launch always names its run.
THEOREM TypeCorrect == Spec => []TypeOK
<1>1. TypeInv /\ [Next]_vars => TypeInv'
  BY NextCases, SchedType, RunType, ConsoleType, FailureType
<1>2. TypeInv => TypeOK
  BY DEF TypeInv
<1> QED BY TypeInit, <1>1, <1>2, PTL DEF Spec

-----------------------------------------------------------------------------
(***************************************************************************)
(* The inductive invariant behind SingleWriter.  Who works on the depot is *)
(* a matter of program counters and of live tools; that only one does is a *)
(* matter of the lock table.  The invariant ties the two together: whoever *)
(* works holds the lock through a description that is still open.          *)
(***************************************************************************)
Exclusive == \A d, e \in Descriptors : lock[d] = "exclusive" /\ d # e => lock[e] = "none"
OnlyConsoleShares == \A d \in Descriptors \ Workers : lock[d] # "shared"
RunsHold == \A r \in Runs : pc[r] \in PastLock => lock[r] = "exclusive" /\ "run" \in holders[r]
ToolsHold == \A r \in Runs : "tool" \in holders[r] => lock[r] = "exclusive"
OpenWhileHeld == \A r \in Runs : lock[r] # "none" => holders[r] # {}
HousekeepingHolds == sched \in Housekeeping => lock[Scheduler] = "exclusive"
ConsoleHolds == \A w \in Workers : /\ console[w] = "mutate" => lock[w] = "exclusive"
                                   /\ console[w] = "browse" => lock[w] = "shared"

LockInv == /\ Exclusive /\ OnlyConsoleShares /\ RunsHold /\ ToolsHold
           /\ OpenWhileHeld /\ HousekeepingHolds /\ ConsoleHolds
IInv == TypeInv /\ LockInv

LEMMA DescriptorsDiffer ==
  /\ Runs \subseteq Descriptors /\ Workers \subseteq Descriptors /\ Scheduler \in Descriptors
  /\ \A r \in Runs : r # Scheduler /\ r \notin Workers
  /\ \A w \in Workers : w # Scheduler
  /\ Scheduler \notin Workers
BY ActorsDiffer DEF Descriptors

\* What closing run r's description does to the lock table.
LEMMA CloseEffect ==
  ASSUME TypeOK, NEW r \in Runs, NEW ps, Close(r, ps)
  PROVE  /\ \A d \in Descriptors : d # r => lock'[d] = lock[d]
         /\ holders[r] \subseteq ps => lock'[r] = "none"
         /\ ~(holders[r] \subseteq ps) => lock'[r] = lock[r]
         /\ \A q \in Runs : q # r => holders'[q] = holders[q]
         /\ holders'[r] = holders[r] \ ps
BY DescriptorsDiffer DEF TypeOK, Close

\* Closing can only release locks, so whoever still works keeps the lock it had,
\* provided r's own process and tool are not among those that went away.
LEMMA CloseKeepsInv ==
  ASSUME IInv, NEW r \in Runs, NEW ps, Close(r, ps), TypeInv',
         pc' \in [Runs -> RunPc],
         \A q \in Runs : q # r => pc'[q] = pc[q] \/ pc[q] \in PastLock,
         pc'[r] \in PastLock => pc[r] \in PastLock /\ "run" \notin ps,
         sched' \in Housekeeping => sched \in Housekeeping,
         UNCHANGED console
  PROVE  IInv'
<1> USE DescriptorsDiffer, CloseEffect DEF IInv, LockInv, TypeInv
<1>1. Exclusive' /\ OnlyConsoleShares'
  BY DEF Exclusive, OnlyConsoleShares
<1>2. RunsHold'
  BY DEF RunsHold
<1>3. ToolsHold'
  BY DEF ToolsHold
<1>4. OpenWhileHeld'
  BY DEF OpenWhileHeld
<1>5. HousekeepingHolds'
  BY DEF HousekeepingHolds
<1>6. ConsoleHolds'
  BY DEF ConsoleHolds
<1> QED BY <1>1, <1>2, <1>3, <1>4, <1>5, <1>6

\* Taking the lock for d is only possible when nobody else holds it.
LEMMA TryLockEffect ==
  ASSUME TypeOK, NEW d \in Descriptors
  PROVE  /\ \A e \in Descriptors : e # d => TryLock(d)[e] = lock[e]
         /\ CanLock(d) => TryLock(d)[d] = "exclusive"
         /\ ~CanLock(d) => TryLock(d) = lock
BY DEF TypeOK, TryLock

LEMMA InvInit == Init => IInv
<1> SUFFICES ASSUME Init PROVE IInv
  OBVIOUS
<1>1. TypeInv
  BY TypeInit
<1>2. /\ \A d \in Descriptors : lock[d] = "none"
      /\ \A r \in Runs : pc[r] = "idle" /\ holders[r] = {}
      /\ \A w \in Workers : console[w] = "idle"
      /\ sched = "stopped"
  BY DEF Init
<1> QED
  BY <1>1, <1>2, DescriptorsDiffer
     DEF IInv, LockInv, Exclusive, OnlyConsoleShares, RunsHold, ToolsHold, OpenWhileHeld,
         HousekeepingHolds, ConsoleHolds, PastLock, Housekeeping

\* Steps that leave descriptors and the lock table alone keep the invariant when
\* they start no work.
LEMMA IdleKeepsInv ==
  ASSUME IInv, TypeInv', UNCHANGED <<lock, holders>>,
         \A r \in Runs : pc'[r] \in PastLock => pc[r] \in PastLock,
         sched' \in Housekeeping => sched \in Housekeeping,
         \A w \in Workers : console'[w] \in {"browse", "mutate"} => console'[w] = console[w]
  PROVE  IInv'
BY DEF IInv, LockInv, Exclusive, OnlyConsoleShares, RunsHold, ToolsHold, OpenWhileHeld,
       HousekeepingHolds, ConsoleHolds

\* Housekeeping closes fd 8.
LEMMA ReleaseKeepsInv ==
  ASSUME IInv, TypeInv', UNCHANGED <<pc, holders, console>>,
         lock' = [lock EXCEPT ![Scheduler] = "none"], sched' \notin Housekeeping
  PROVE  IInv'
BY DescriptorsDiffer
   DEF IInv, LockInv, TypeInv, TypeOK, Exclusive, OnlyConsoleShares, RunsHold, ToolsHold,
       OpenWhileHeld, HousekeepingHolds, ConsoleHolds

LEMMA TakeKeepsInv ==
  ASSUME IInv, TypeInv', UNCHANGED <<pc, holders, console>>,
         NEW h, NEW n, n \notin Housekeeping, sched \notin Housekeeping, TakeDepotLock(h, n)
  PROVE  IInv'
<1> USE DescriptorsDiffer
    DEF IInv, LockInv, TypeInv, Exclusive, OnlyConsoleShares, RunsHold, ToolsHold,
        OpenWhileHeld, HousekeepingHolds, ConsoleHolds
<1>1. CASE CanLock(Scheduler) /\ lock' = TryLock(Scheduler)
  BY <1>1, TryLockEffect DEF CanLock
<1>2. CASE UNCHANGED lock /\ sched' = n
  BY <1>2
<1> QED BY <1>1, <1>2 DEF TakeDepotLock

LEMMA SchedKeepsInv ==
  ASSUME IInv, TypeInv', SchedNext
  PROVE  IInv'
<1> USE DEF Housekeeping, runVars, fileVars
<1>1. CASE SchedBoot \/ InitRead \/ InitWrite \/ BootRead \/ BootPublish \/ RefreshRead
           \/ CronNoMatch \/ PopTimeout
  BY <1>1, IdleKeepsInv
     DEF SchedBoot, InitRead, InitWrite, BootRead, BootPublish, RefreshRead, CronNoMatch, PopTimeout
<1>2. CASE RefreshDraft \/ RefreshWrite
  BY <1>2, IdleKeepsInv DEF RefreshDraft, RefreshWrite
<1>3. CASE ReapLock \/ RefreshLock
  BY <1>3, TakeKeepsInv DEF ReapLock, RefreshLock
<1>4. CASE ReapCatalogWorkspaces \/ RefreshSame \/ RefreshPublish
  BY <1>4, ReleaseKeepsInv DEF ReapCatalogWorkspaces, RefreshSame, RefreshPublish
<1>5. ASSUME NEW r \in Runs, NEW n, OpenForDispatch(r, n), UNCHANGED <<pc, console>>
      PROVE  IInv'
  <2> USE DescriptorsDiffer
      DEF IInv, LockInv, TypeInv, Exclusive, OnlyConsoleShares, RunsHold, ToolsHold,
          OpenWhileHeld, HousekeepingHolds, ConsoleHolds
  <2>1. lock[r] = "none" /\ pc[r] = "idle" /\ holders[r] = {} /\ sched' = "fork"
    BY <1>5 DEF OpenForDispatch, Fresh
  <2>2. CASE UNCHANGED <<holders, lock>>
    BY <1>5, <2>1, <2>2
  <2>3. CASE holders' = [holders EXCEPT ![r] = {"sched"}] /\ lock' = TryLock(r)
    <3>1. \A d \in Descriptors : d # r => lock'[d] = lock[d]
      BY <2>3, TryLockEffect
    <3>2. lock'[r] = "none" \/ (lock'[r] = "exclusive" /\ CanLock(r))
      BY <2>1, <2>3, TryLockEffect
    <3>3. \A q \in Runs : q # r => holders'[q] = holders[q]
      BY <2>3 DEF TypeOK
    <3>4. holders'[r] = {"sched"}
      BY <2>3 DEF TypeOK
    <3>5. pc[r] \notin PastLock
      BY <2>1 DEF PastLock
    <3>6. Exclusive' /\ OnlyConsoleShares'
      BY <3>1, <3>2 DEF CanLock
    <3>7. RunsHold' /\ ToolsHold' /\ OpenWhileHeld'
      BY <1>5, <3>1, <3>3, <3>4, <3>5
    <3>8. HousekeepingHolds' /\ ConsoleHolds'
      BY <1>5, <2>1, <3>1
    <3> QED BY <3>6, <3>7, <3>8
  <2> QED BY <1>5, <2>2, <2>3 DEF OpenForDispatch
<1>6. ASSUME NEW r \in Runs, CronDispatch(r) \/ PopDispatch(r)
      PROVE  IInv'
  BY <1>5, <1>6 DEF CronDispatch, PopDispatch
<1>7. CASE Fork
  <2>1. job \in Runs
    BY <1>7 DEF Fork, IInv, TypeInv, JobIsRun
  <2>2. \A q \in Runs : pc'[q] \in PastLock => pc[q] \in PastLock
    BY <1>7, <2>1 DEF Fork, IInv, TypeInv, TypeOK, PastLock
  <2>3. \A q \in Runs : /\ "run" \in holders[q] => "run" \in holders'[q]
                        /\ "tool" \in holders'[q] => "tool" \in holders[q]
                        /\ holders[q] # {} => holders'[q] # {}
    BY <1>7, <2>1 DEF Fork, IInv, TypeInv, TypeOK
  <2>4. UNCHANGED <<lock, console>> /\ sched' \notin Housekeeping
    BY <1>7 DEF Fork
  <2> QED
    BY <2>2, <2>3, <2>4
       DEF IInv, LockInv, Exclusive, OnlyConsoleShares, RunsHold, ToolsHold, OpenWhileHeld,
           HousekeepingHolds, ConsoleHolds
<1>8. CASE HandOff
  <2>1. job \in Runs
    BY <1>8 DEF HandOff, IInv, TypeInv, JobIsRun
  <2>2. Close(job, {"sched"}) /\ UNCHANGED <<pc, console>> /\ sched' = back
    BY <1>8 DEF HandOff
  <2>3. pc' \in [Runs -> RunPc] /\ sched' \notin Housekeeping
    BY <2>2 DEF IInv, TypeInv, TypeOK
  <2>4. \A q \in Runs : pc[q] \in PastLock => "run" \notin {"sched"}
    OBVIOUS
  <2> QED BY <2>1, <2>2, <2>3, <2>4, CloseKeepsInv
<1> QED
  BY <1>1, <1>2, <1>3, <1>4, <1>6, <1>7, <1>8 DEF SchedNext

LEMMA RunKeepsInv ==
  ASSUME IInv, TypeInv', NEW r \in Runs, RunNext(r) \/ LaunchDirectly(r) \/ Kill(r)
  PROVE  IInv'
<1> USE DEF schedVars, runVars, fileVars
<1>t. pc \in [Runs -> RunPc] /\ pc' \in [Runs -> RunPc]
  BY DEF IInv, TypeInv, TypeOK
<1>1. CASE RunAdmitted(r)
  <2> USE DescriptorsDiffer
      DEF IInv, LockInv, TypeInv, Exclusive, OnlyConsoleShares, RunsHold, ToolsHold,
          OpenWhileHeld, HousekeepingHolds, ConsoleHolds
  <2>1. CanLock(r) /\ UNCHANGED <<sched, console>>
    BY <1>1 DEF RunAdmitted
  <2>2. lock'[r] = "exclusive" /\ \A d \in Descriptors : d # r => lock'[d] = lock[d]
    BY <1>1, TryLockEffect DEF RunAdmitted
  <2>3. /\ \A q \in Runs : q # r => holders'[q] = holders[q] /\ pc'[q] = pc[q]
        /\ holders'[r] = holders[r] \cup {"run"}
    BY <1>1 DEF RunAdmitted, TypeOK
  <2>4. Exclusive' /\ OnlyConsoleShares'
    BY <2>1, <2>2 DEF CanLock
  <2>5. RunsHold' /\ ToolsHold' /\ OpenWhileHeld'
    BY <2>2, <2>3
  <2>6. HousekeepingHolds' /\ ConsoleHolds'
    BY <2>1, <2>2
  <2> QED BY <2>4, <2>5, <2>6
<1>2. CASE RunSkips(r) \/ RunCannotLock(r) \/ RunExits(r) \/ Kill(r)
  <2>1. Close(r, {"run"}) /\ UNCHANGED <<sched, console>>
    BY <1>2 DEF RunSkips, RunCannotLock, RunExits, Kill
  <2>2. pc'[r] \notin PastLock /\ \A q \in Runs : q # r => pc'[q] = pc[q]
    BY <1>2, <1>t DEF RunSkips, RunCannotLock, RunExits, Kill, PastLock
  <2> QED BY <1>t, <2>1, <2>2, CloseKeepsInv
<1>3. CASE ToolEnds(r)
  <2>1. Close(r, {"tool"}) /\ UNCHANGED <<sched, console>>
    BY <1>3 DEF ToolEnds
  <2>2. /\ pc'[r] \in PastLock => pc[r] \in PastLock
        /\ \A q \in Runs : q # r => pc'[q] = pc[q]
    BY <1>3, <1>t DEF ToolEnds, PastLock, RunPc
  <2> QED BY <1>t, <2>1, <2>2, CloseKeepsInv
<1>4. CASE RunStartsTool(r)
  <2>1. UNCHANGED <<sched, lock, console>> /\ lock[r] = "exclusive"
    BY <1>4 DEF RunStartsTool, IInv, LockInv, RunsHold, PastLock, RunPc
  <2>2. /\ \A q \in Runs : q # r => pc'[q] = pc[q] /\ holders'[q] = holders[q]
        /\ holders'[r] = holders[r] \cup {"tool"} /\ pc[r] \in PastLock
    BY <1>4, <1>t DEF RunStartsTool, IInv, TypeInv, TypeOK, PastLock, RunPc
  <2> QED
    BY <2>1, <2>2
       DEF IInv, LockInv, Exclusive, OnlyConsoleShares, RunsHold, ToolsHold, OpenWhileHeld,
           HousekeepingHolds, ConsoleHolds
<1>5. CASE LaunchDirectly(r)
  <2>1. \A q \in Runs : pc'[q] \in PastLock => pc[q] \in PastLock
    BY <1>5, <1>t DEF LaunchDirectly, PastLock
  <2> QED BY <1>5, <2>1, IdleKeepsInv DEF LaunchDirectly
<1>6. ASSUME pc[r] \in PastLock, UNCHANGED <<sched, holders, lock, console>>,
             \A q \in Runs : q # r => pc'[q] = pc[q]
      PROVE  IInv'
  BY <1>6, IdleKeepsInv
<1>7. ASSUME NEW doc, NEW a, NEW b, WriteState(r, doc, a, b)
      PROVE  /\ UNCHANGED <<sched, holders, lock, console>>
             /\ \A q \in Runs : q # r => pc'[q] = pc[q]
  BY <1>7, <1>t DEF WriteState
<1>8. CASE RunToolMissing(r) \/ RunNotArmed(r) \/ RunAnnounces(r) \/ RunFinishes(r)
  BY <1>6, <1>7, <1>8
     DEF RunToolMissing, RunNotArmed, RunAnnounces, RunFinishes, PastLock, RunPc
<1>9. CASE RunRefuses(r) \/ RunPublishes(r)
  BY <1>6, <1>9, <1>t DEF RunRefuses, RunPublishes, PastLock, RunPc
<1> QED BY <1>1, <1>2, <1>3, <1>4, <1>5, <1>8, <1>9 DEF RunNext

LEMMA ConsoleKeepsInv ==
  ASSUME IInv, TypeInv', NEW w \in Workers, ConsoleNext(w)
  PROVE  IInv'
<1> USE DEF schedVars, runVars, fileVars
<1>t. console \in [Workers -> ConsolePc] /\ lock \in [Descriptors -> {"none", "shared", "exclusive"}]
  BY DEF IInv, TypeInv, TypeOK
<1>1. CASE SyncRequested(w) \/ PublishRequest(w) \/ SaveRegistration(w)
  BY <1>1, <1>t, IdleKeepsInv DEF SyncRequested, PublishRequest, SaveRegistration
<1>2. CASE BeginBrowse(w) \/ BeginMutation(w) \/ EndGuard(w)
  <2>1. UNCHANGED <<sched, pc, holders>>
    BY <1>2 DEF BeginBrowse, BeginMutation, EndGuard
  <2>2. /\ \A d \in Descriptors : d # w => lock'[d] = lock[d]
        /\ \A v \in Workers : v # w => console'[v] = console[v]
    BY <1>2, <1>t, TryLockEffect, DescriptorsDiffer
       DEF BeginBrowse, BeginMutation, EndGuard, IInv, TypeInv
  <2>3. \/ lock'[w] = "shared" /\ console'[w] = "browse" /\ CanShare
        \/ lock'[w] = "exclusive" /\ console'[w] = "mutate" /\ CanLock(w)
        \/ lock'[w] = "none" /\ console'[w] = "idle"
    BY <1>2, <1>t, TryLockEffect, DescriptorsDiffer
       DEF BeginBrowse, BeginMutation, EndGuard, IInv, TypeInv
  <2> QED
    BY <2>1, <2>2, <2>3, DescriptorsDiffer
       DEF CanShare, CanLock, IInv, LockInv, Exclusive, OnlyConsoleShares, RunsHold, ToolsHold,
           OpenWhileHeld, HousekeepingHolds, ConsoleHolds
<1> QED BY <1>1, <1>2 DEF ConsoleNext

LEMMA FailureKeepsInv ==
  ASSUME IInv, TypeInv', Crash \/ RedisRestart \/ Tick \/ UNCHANGED vars
  PROVE  IInv'
<1>1. CASE Crash
  <2>1. /\ \A r \in Runs : pc'[r] = "idle" /\ holders'[r] = {} /\ lock'[r] = "none"
        /\ lock'[Scheduler] = "none" /\ \A w \in Workers : lock'[w] = lock[w]
        /\ sched' = "stopped" /\ UNCHANGED console
    BY <1>1, DescriptorsDiffer DEF Crash
  <2> QED
    BY <2>1 DEF Descriptors, IInv, LockInv, Exclusive, OnlyConsoleShares, RunsHold, ToolsHold,
                OpenWhileHeld, HousekeepingHolds, ConsoleHolds, PastLock, Housekeeping
<1>2. CASE RedisRestart \/ Tick \/ UNCHANGED vars
  BY <1>2, IdleKeepsInv DEF RedisRestart, Tick, vars, schedVars, runVars, fileVars
<1> QED BY <1>1, <1>2

LEMMA Invariant == Spec => []IInv
<1>1. TypeInv /\ [Next]_vars => TypeInv'
  BY NextCases, SchedType, RunType, ConsoleType, FailureType
<1>2. IInv /\ [Next]_vars => IInv'
  <2> SUFFICES ASSUME IInv, [Next]_vars PROVE IInv'
    OBVIOUS
  <2>1. TypeInv'
    BY <1>1 DEF IInv
  <2> QED
    BY <2>1, NextCases, SchedKeepsInv, RunKeepsInv, ConsoleKeepsInv, FailureKeepsInv
<1> QED BY InvInit, <1>2, PTL DEF Spec

\* Single writer, for every number of runs and console threads and under every
\* combination of kills, container stops, lock failures and Redis failures.
THEOREM WritersExclude == Spec => []SingleWriter
<1>1. IInv => SingleWriter
  <2> SUFFICES ASSUME IInv PROVE SingleWriter
    OBVIOUS
  <2>1. \A a \in DepotWriters : a \in Descriptors /\ lock[a] = "exclusive"
    BY DescriptorsDiffer
       DEF DepotWriters, Writing, IInv, LockInv, RunsHold, ToolsHold, HousekeepingHolds, ConsoleHolds
  <2>2. \A a \in DepotReaders : a \in Descriptors /\ lock[a] = "shared"
    BY DescriptorsDiffer DEF DepotReaders, IInv, LockInv, ConsoleHolds
  <2> QED
    BY <2>1, <2>2 DEF SingleWriter, IInv, LockInv, Exclusive
<1> QED BY Invariant, <1>1, PTL

\* The slot being launched is not in use yet: the scheduler alone has it open.
JobIdle == sched = "fork" => pc[job] = "idle" /\ holders[job] \subseteq {"sched"}

LEMMA JobIdleStep ==
  ASSUME TypeInv, JobIdle, [Next]_vars
  PROVE  JobIdle'
<1> USE DEF schedVars, runVars
<1>t. /\ pc \in [Runs -> RunPc] /\ (sched = "fork" => job \in Runs)
      /\ holders \in [Runs -> SUBSET {"sched", "run", "tool"}] /\ TypeOK
  BY DEF TypeInv, TypeOK, JobIsRun
<1>1. CASE SchedNext
  <2>1. ASSUME NEW r \in Runs, CronDispatch(r) \/ PopDispatch(r)
        PROVE  JobIdle'
    BY <2>1, <1>t DEF CronDispatch, PopDispatch, OpenForDispatch, Fresh, JobIdle
  <2>2. CASE HandOff
    BY <2>2 DEF HandOff, TypeInv, TypeOK, JobIdle
  <2>3. CASE SchedBoot \/ ReapLock \/ ReapCatalogWorkspaces \/ InitRead \/ InitWrite \/ BootRead \/ BootPublish
             \/ RefreshRead \/ RefreshLock \/ RefreshSame \/ RefreshDraft \/ RefreshWrite
             \/ RefreshPublish \/ CronNoMatch \/ PopTimeout \/ Fork
    BY <2>3
       DEF SchedBoot, ReapLock, ReapCatalogWorkspaces, InitRead, InitWrite, BootRead, BootPublish,
           RefreshRead, RefreshLock, RefreshSame, RefreshDraft, RefreshWrite, RefreshPublish,
           CronNoMatch, PopTimeout, Fork, TakeDepotLock, JobIdle
  <2> QED BY <1>1, <2>1, <2>2, <2>3 DEF SchedNext
<1>2. ASSUME NEW r \in Runs, RunNext(r) \/ LaunchDirectly(r) \/ Kill(r)
      PROVE  JobIdle'
  <2>1. UNCHANGED <<sched, job>>
    BY <1>2
       DEF RunNext, LaunchDirectly, Kill, RunAdmitted, RunSkips, RunCannotLock, RunRefuses,
           RunToolMissing, RunNotArmed, RunAnnounces, RunPublishes, RunStartsTool, ToolEnds,
           RunFinishes, RunExits, WriteState
  <2>2. CASE sched # "fork"
    BY <2>1, <2>2 DEF JobIdle
  <2>3. CASE sched = "fork" /\ r # job
    <3>1. pc'[job] = pc[job] /\ holders'[job] = holders[job]
      BY <1>2, <2>3, <1>t, CloseEffect
         DEF RunNext, LaunchDirectly, Kill, RunAdmitted, RunSkips, RunCannotLock, RunRefuses,
             RunToolMissing, RunNotArmed, RunAnnounces, RunPublishes, RunStartsTool, ToolEnds,
             RunFinishes, RunExits, WriteState
    <3> QED BY <2>1, <2>3, <3>1 DEF JobIdle
  <2>4. CASE sched = "fork" /\ r = job
    <3>1. ToolEnds(r)
      BY <1>2, <2>4
         DEF RunNext, LaunchDirectly, Kill, RunAdmitted, RunSkips, RunCannotLock, RunRefuses,
             RunToolMissing, RunNotArmed, RunAnnounces, RunPublishes, RunStartsTool,
             RunFinishes, RunExits, JobIdle
    <3> QED BY <2>1, <2>4, <3>1, <1>t, CloseEffect DEF ToolEnds, JobIdle
  <2> QED BY <2>2, <2>3, <2>4
<1>3. CASE \E w \in Workers : ConsoleNext(w)
  BY <1>3 DEF ConsoleNext, SyncRequested, PublishRequest, BeginBrowse, BeginMutation,
              EndGuard, SaveRegistration, JobIdle
<1>4. CASE Crash \/ RedisRestart \/ Tick \/ UNCHANGED vars
  BY <1>4 DEF Crash, RedisRestart, Tick, vars, JobIdle
<1> QED BY <1>1, <1>2, <1>3, <1>4, NextCases
\* A launched run keeps the description it was launched with open, whoever else
\* closes it.
LaunchedHolds == \A r \in Runs : pc[r] = "launched" /\ lock[r] # "none" => "run" \in holders[r]

\* Slots a step leaves alone, and a run that is not launched in the next state,
\* have nothing to show.
LEMMA LaunchedElsewhere ==
  ASSUME TypeInv, LaunchedHolds, NEW r \in Runs,
         \A q \in Runs \ {r} : /\ pc'[q] = pc[q] /\ holders'[q] = holders[q]
                               /\ lock'[q] = lock[q],
         pc'[r] = "launched" /\ lock'[r] # "none" => "run" \in holders'[r]
  PROVE  LaunchedHolds'
BY DEF LaunchedHolds

LEMMA LaunchedHoldsStep ==
  ASSUME IInv, JobIdle, LaunchedHolds, [Next]_vars
  PROVE  LaunchedHolds'
<1> USE DescriptorsDiffer DEF schedVars, runVars, fileVars
<1>t. /\ TypeInv /\ TypeOK
      /\ pc \in [Runs -> RunPc]
      /\ holders \in [Runs -> SUBSET {"sched", "run", "tool"}]
      /\ lock \in [Descriptors -> {"none", "shared", "exclusive"}]
  BY DEF IInv, TypeInv, TypeOK
<1>o. \A q \in Runs : holders[q] = {} => lock[q] = "none"
  BY DEF IInv, LockInv, OpenWhileHeld
<1>s. ASSUME UNCHANGED <<pc, holders>>, \A q \in Runs : lock'[q] = lock[q]
      PROVE  LaunchedHolds'
  BY <1>s DEF LaunchedHolds
<1>1. CASE SchedNext
  <2>1. ASSUME NEW r \in Runs, CronDispatch(r) \/ PopDispatch(r)
        PROVE  LaunchedHolds'
    <3>1. /\ pc[r] = "idle" /\ UNCHANGED pc
          /\ \A q \in Runs \ {r} : holders'[q] = holders[q] /\ lock'[q] = lock[q]
      BY <2>1, <1>t, TryLockEffect DEF CronDispatch, PopDispatch, OpenForDispatch, Fresh
    <3> QED BY <3>1, <1>t, LaunchedElsewhere
  <2>2. CASE Fork
    <3>1. job \in Runs
      BY <2>2, <1>t DEF Fork, TypeInv, JobIsRun
    <3>2. /\ \A q \in Runs \ {job} : pc'[q] = pc[q] /\ holders'[q] = holders[q]
          /\ UNCHANGED lock
      BY <2>2, <3>1, <1>t DEF Fork
    <3>3. lock[job] # "none" => "run" \in holders'[job]
      BY <2>2, <3>1, <1>t, <1>o DEF Fork, JobIdle
    <3> QED BY <3>1, <3>2, <3>3, <1>t, LaunchedElsewhere
  <2>3. CASE HandOff
    <3>1. job \in Runs
      BY <2>3, <1>t DEF HandOff, TypeInv, JobIsRun
    <3>2. /\ \A q \in Runs \ {job} : holders'[q] = holders[q] /\ lock'[q] = lock[q]
          /\ holders'[job] = holders[job] \ {"sched"}
          /\ lock'[job] # "none" => lock[job] # "none"
          /\ UNCHANGED pc
      BY <2>3, <3>1, <1>t, CloseEffect DEF HandOff
    <3>3. pc'[job] = "launched" /\ lock'[job] # "none" => "run" \in holders'[job]
      BY <3>1, <3>2 DEF LaunchedHolds
    <3> QED BY <3>1, <3>2, <3>3, <1>t, LaunchedElsewhere
  <2>4. CASE ReapLock \/ RefreshLock
    <3>1. \A q \in Runs : lock'[q] = lock[q]
      BY <2>4, <1>t, TryLockEffect DEF ReapLock, RefreshLock, TakeDepotLock
    <3> QED BY <2>4, <3>1, <1>s DEF ReapLock, RefreshLock
  <2>5. CASE SchedBoot \/ ReapCatalogWorkspaces \/ InitRead \/ InitWrite \/ BootRead \/ BootPublish
             \/ RefreshRead \/ RefreshSame \/ RefreshDraft \/ RefreshWrite
             \/ RefreshPublish \/ CronNoMatch \/ PopTimeout
    BY <2>5, <1>t, <1>s
       DEF SchedBoot, ReapCatalogWorkspaces, InitRead, InitWrite, BootRead, BootPublish, RefreshRead,
           RefreshSame, RefreshDraft, RefreshWrite, RefreshPublish, CronNoMatch, PopTimeout
  <2> QED BY <1>1, <2>1, <2>2, <2>3, <2>4, <2>5 DEF SchedNext
<1>2. ASSUME NEW r \in Runs, RunNext(r) \/ LaunchDirectly(r) \/ Kill(r)
      PROVE  LaunchedHolds'
  <2>1. \A q \in Runs \ {r} : /\ pc'[q] = pc[q] /\ holders'[q] = holders[q]
                              /\ lock'[q] = lock[q]
    BY <1>2, <1>t, CloseEffect, TryLockEffect
       DEF RunNext, LaunchDirectly, Kill, RunAdmitted, RunSkips, RunCannotLock, RunRefuses,
           RunToolMissing, RunNotArmed, RunAnnounces, RunPublishes, RunStartsTool, ToolEnds,
           RunFinishes, RunExits, WriteState
  <2>2. CASE LaunchDirectly(r)
    <3>1. lock'[r] = "none"
      BY <2>2, <1>o DEF LaunchDirectly, Fresh
    <3> QED BY <2>1, <3>1, <1>t, LaunchedElsewhere
  <2>3. CASE ToolEnds(r)
    <3>1. /\ pc'[r] = "launched" => pc[r] = "launched"
          /\ holders'[r] = holders[r] \ {"tool"}
          /\ lock'[r] # "none" => lock[r] # "none"
      BY <2>3, <1>t, CloseEffect DEF ToolEnds
    <3>2. pc'[r] = "launched" /\ lock'[r] # "none" => "run" \in holders'[r]
      BY <3>1 DEF LaunchedHolds
    <3> QED BY <2>1, <3>2, <1>t, LaunchedElsewhere
  <2>4. CASE ~LaunchDirectly(r) /\ ~ToolEnds(r)
    <3>1. pc'[r] # "launched"
      BY <1>2, <2>4, <1>t
         DEF RunNext, Kill, RunAdmitted, RunSkips, RunCannotLock, RunRefuses,
             RunToolMissing, RunNotArmed, RunAnnounces, RunPublishes, RunStartsTool,
             RunFinishes, RunExits, WriteState
    <3> QED BY <2>1, <3>1, <1>t, LaunchedElsewhere
  <2> QED BY <2>2, <2>3, <2>4
<1>3. ASSUME NEW w \in Workers, ConsoleNext(w)
      PROVE  LaunchedHolds'
  <2>1. \A q \in Runs : lock'[q] = lock[q]
    BY <1>3, <1>t, TryLockEffect
       DEF ConsoleNext, SyncRequested, PublishRequest, BeginBrowse, BeginMutation, EndGuard,
           SaveRegistration
  <2> QED
    BY <1>3, <2>1, <1>s DEF ConsoleNext, SyncRequested, PublishRequest, BeginBrowse,
                            BeginMutation, EndGuard, SaveRegistration
<1>4. CASE Crash \/ RedisRestart \/ Tick \/ UNCHANGED vars
  BY <1>4, <1>s DEF Crash, RedisRestart, Tick, vars, LaunchedHolds
<1> QED BY <1>1, <1>2, <1>3, <1>4, NextCases

\* Hand-off: a run launched with the lock never skips itself, and keeps the lock
\* while it has not looked at it, although the scheduler closes its copy and the
\* housekeeping, the console and other runs go on in between.
THEOREM HandOffAdmits == Spec => HandedOffRunIsAdmitted
<1>1. ASSUME IInv, LaunchedHolds, [Next]_vars, NEW r \in Runs,
             pc[r] = "launched", lock[r] = "exclusive"
      PROVE  /\ ~RunSkips(r)
             /\ pc'[r] = "launched" => lock'[r] = "exclusive"
  <2> USE DescriptorsDiffer DEF schedVars, runVars, fileVars
  <2>t. /\ TypeOK
        /\ pc \in [Runs -> RunPc]
        /\ lock \in [Descriptors -> {"none", "shared", "exclusive"}]
    BY <1>1 DEF IInv, TypeInv, TypeOK
  <2>c. CanLock(r)
    BY <1>1 DEF CanLock, IInv, LockInv, Exclusive
  <2>n. \A d \in Descriptors \ {r} : ~CanLock(d)
    BY <1>1 DEF CanLock
  <2>1. ~RunSkips(r)
    BY <2>c DEF RunSkips
  <2>h. "run" \in holders[r]
    BY <1>1 DEF LaunchedHolds
  <2>2. ASSUME pc'[r] = "launched" PROVE lock'[r] = "exclusive"
    <3>1. CASE SchedNext
      <4>1. ASSUME NEW q \in Runs, CronDispatch(q) \/ PopDispatch(q)
            PROVE  lock'[r] = lock[r]
        <5>1. q # r
          BY <1>1, <4>1 DEF CronDispatch, PopDispatch, OpenForDispatch, Fresh
        <5> QED BY <4>1, <5>1, <2>t, TryLockEffect DEF CronDispatch, PopDispatch, OpenForDispatch
      <4>2. CASE HandOff
        <5>1. job \in Runs
          BY <1>1, <4>2 DEF HandOff, IInv, TypeInv, JobIsRun
        <5> QED BY <1>1, <4>2, <5>1, <2>t, <2>h, CloseEffect DEF HandOff
      <4>3. CASE ReapLock \/ RefreshLock
        BY <1>1, <4>3, <2>t, TryLockEffect DEF ReapLock, RefreshLock, TakeDepotLock
      <4>4. CASE SchedBoot \/ ReapCatalogWorkspaces \/ InitRead \/ InitWrite \/ BootRead \/ BootPublish
                 \/ RefreshRead \/ RefreshSame \/ RefreshDraft \/ RefreshWrite
                 \/ RefreshPublish \/ CronNoMatch \/ PopTimeout \/ Fork
        BY <1>1, <4>4, <2>t
           DEF SchedBoot, ReapCatalogWorkspaces, InitRead, InitWrite, BootRead, BootPublish, RefreshRead,
               RefreshSame, RefreshDraft, RefreshWrite, RefreshPublish, CronNoMatch, PopTimeout,
               Fork
      <4> QED BY <1>1, <3>1, <4>1, <4>2, <4>3, <4>4 DEF SchedNext
    <3>2. ASSUME NEW q \in Runs, RunNext(q) \/ LaunchDirectly(q) \/ Kill(q)
          PROVE  lock'[r] = "exclusive"
      <4>1. CASE q # r
        <5>1. lock'[r] = lock[r]
          BY <3>2, <4>1, <2>t, CloseEffect, TryLockEffect
             DEF RunNext, LaunchDirectly, Kill, RunAdmitted, RunSkips, RunCannotLock, RunRefuses,
                 RunToolMissing, RunNotArmed, RunAnnounces, RunPublishes, RunStartsTool, ToolEnds,
                 RunFinishes, RunExits, WriteState
        <5> QED BY <1>1, <5>1
      <4>2. CASE q = r
        <5>1. ToolEnds(r)
          BY <1>1, <2>2, <3>2, <4>2, <2>t
             DEF RunNext, LaunchDirectly, Kill, RunAdmitted, RunSkips, RunCannotLock, RunRefuses,
                 RunToolMissing, RunNotArmed, RunAnnounces, RunPublishes, RunStartsTool,
                 RunFinishes, RunExits, WriteState, Fresh
        <5> QED BY <1>1, <5>1, <2>t, <2>h, CloseEffect DEF ToolEnds
      <4> QED BY <4>1, <4>2
    <3>3. ASSUME NEW w \in Workers, ConsoleNext(w)
          PROVE  lock'[r] = "exclusive"
      BY <1>1, <3>3, <2>t, TryLockEffect
         DEF ConsoleNext, SyncRequested, PublishRequest, BeginBrowse, BeginMutation, EndGuard,
             SaveRegistration
    <3>4. CASE Crash \/ RedisRestart \/ Tick \/ UNCHANGED vars
      BY <1>1, <2>2, <3>4 DEF Crash, RedisRestart, Tick, vars
    <3> QED BY <1>1, <3>1, <3>2, <3>3, <3>4, NextCases
  <2> QED BY <2>1, <2>2
<1>2. Init => JobIdle /\ LaunchedHolds
  BY DEF Init, JobIdle, LaunchedHolds
<1>3. IInv /\ JobIdle /\ LaunchedHolds /\ [Next]_vars => JobIdle' /\ LaunchedHolds'
  BY JobIdleStep, LaunchedHoldsStep DEF IInv
<1>4. IInv /\ LaunchedHolds /\ [Next]_vars =>
        [\A r \in Runs :
           pc[r] = "launched" /\ lock[r] = "exclusive" =>
             /\ ~RunSkips(r)
             /\ pc'[r] = "launched" => lock'[r] = "exclusive"]_vars
  BY <1>1
<1> QED BY Invariant, <1>2, <1>3, <1>4, PTL DEF Spec, HandedOffRunIsAdmitted

-----------------------------------------------------------------------------
(***************************************************************************)
(* SyncRun implements the abstract readers-writer lock.  Every step either *)
(* leaves the sets of writers and readers alone or is one step of          *)
(* DepotAccess for one actor.                                              *)
(***************************************************************************)
SameAccess == DepotWriters' = DepotWriters /\ DepotReaders' = DepotReaders

\* Working takes the lock, so a lock nobody else holds means nobody else works.
LEMMA WorkersHoldLock ==
  ASSUME IInv
  PROVE  /\ \A a \in DepotWriters : a \in Descriptors /\ lock[a] = "exclusive"
         /\ \A a \in DepotReaders : a \in Descriptors /\ lock[a] = "shared"
         /\ \A a, b \in DepotWriters : a = b
BY DescriptorsDiffer
   DEF DepotWriters, DepotReaders, Writing, IInv, LockInv, RunsHold, ToolsHold,
       HousekeepingHolds, ConsoleHolds, Exclusive

LEMMA FreeLockNoAccess ==
  ASSUME IInv, NEW d \in Descriptors, CanLock(d), d \notin DepotWriters, d \notin DepotReaders
  PROVE  DepotWriters = {} /\ DepotReaders = {}
BY WorkersHoldLock DEF CanLock

LEMMA SchedAccess ==
  ASSUME IInv, IInv', JobIdle, SchedNext
  PROVE  \/ SameAccess \/ Access!StartWrite(Scheduler) \/ Access!StopWrite(Scheduler)
<1> USE DescriptorsDiffer DEF Housekeeping, runVars, fileVars
<1>t. /\ pc \in [Runs -> RunPc]
      /\ holders \in [Runs -> SUBSET {"sched", "run", "tool"}]
  BY DEF IInv, TypeInv, TypeOK
<1>1. ASSUME UNCHANGED <<pc, holders, console>>,
             sched \in Housekeeping <=> sched' \in Housekeeping
      PROVE  SameAccess
  BY <1>1 DEF SameAccess, DepotWriters, DepotReaders, Writing
<1>2. CASE SchedBoot \/ InitRead \/ InitWrite \/ BootRead \/ BootPublish \/ RefreshRead
           \/ CronNoMatch \/ PopTimeout \/ RefreshDraft \/ RefreshWrite
  BY <1>1, <1>2
     DEF SchedBoot, InitRead, InitWrite, BootRead, BootPublish, RefreshRead, CronNoMatch, PopTimeout,
         RefreshDraft, RefreshWrite
<1>3. ASSUME NEW h \in Housekeeping, NEW n, n \notin Housekeeping, sched \notin Housekeeping,
             TakeDepotLock(h, n), UNCHANGED <<pc, holders, console>>
      PROVE  SameAccess \/ Access!StartWrite(Scheduler)
  <2>1. CASE sched' = n
    BY <1>1, <1>3, <2>1
  <2>2. CASE CanLock(Scheduler) /\ sched' = h
    <3>1. Scheduler \notin DepotWriters /\ Scheduler \notin DepotReaders
      BY <1>3 DEF DepotWriters, DepotReaders
    <3>2. DepotWriters = {} /\ DepotReaders = {}
      BY <2>2, <3>1, FreeLockNoAccess
    <3>3. DepotWriters' = {Scheduler} /\ DepotReaders' = {}
      BY <1>3, <2>2, <3>2 DEF DepotWriters, DepotReaders, Writing
    <3> QED BY <3>2, <3>3 DEF Access!StartWrite
  <2> QED BY <1>3, <2>1, <2>2 DEF TakeDepotLock
<1>4. CASE ReapLock \/ RefreshLock
  BY <1>3, <1>4 DEF ReapLock, RefreshLock
<1>5. CASE ReapCatalogWorkspaces \/ RefreshSame \/ RefreshPublish
  <2>1. sched \in Housekeeping /\ sched' \notin Housekeeping /\ UNCHANGED <<pc, holders, console>>
    BY <1>5 DEF ReapCatalogWorkspaces, RefreshSame, RefreshPublish
  <2>2. Scheduler \in DepotWriters /\ DepotReaders' = DepotReaders
    BY <2>1 DEF DepotWriters, DepotReaders
  <2>3. DepotWriters' = DepotWriters \ {Scheduler}
    BY <2>1 DEF DepotWriters, Writing
  <2> QED BY <2>2, <2>3 DEF Access!StopWrite
<1>6. ASSUME \A q \in Runs : Writing(q)' <=> Writing(q), UNCHANGED console,
             sched \notin Housekeeping, sched' \notin Housekeeping
      PROVE  SameAccess
  BY <1>6 DEF SameAccess, DepotWriters, DepotReaders
<1>7. ASSUME NEW r \in Runs, CronDispatch(r) \/ PopDispatch(r)
      PROVE  SameAccess
  <2>1. \A q \in Runs : "tool" \in holders'[q] <=> "tool" \in holders[q]
    BY <1>7, <1>t DEF CronDispatch, PopDispatch, OpenForDispatch, Fresh
  <2> QED BY <1>6, <1>7, <2>1 DEF CronDispatch, PopDispatch, OpenForDispatch, Writing
<1>8. CASE Fork
  <2>1. job \in Runs
    BY <1>8 DEF Fork, IInv, TypeInv, JobIsRun
  <2>2. pc[job] \notin PastLock /\ pc'[job] \notin PastLock
    BY <1>8, <1>t, <2>1 DEF Fork, JobIdle, PastLock
  <2>3. \A q \in Runs : pc'[q] \in PastLock <=> pc[q] \in PastLock
    BY <1>8, <1>t, <2>1, <2>2 DEF Fork
  <2>4. \A q \in Runs : "tool" \in holders'[q] <=> "tool" \in holders[q]
    BY <1>8, <1>t, <2>1 DEF Fork
  <2>5. \A q \in Runs : Writing(q)' <=> Writing(q)
    BY <2>3, <2>4 DEF Writing
  <2> QED BY <1>6, <1>8, <2>5 DEF Fork
<1>9. CASE HandOff
  <2>1. job \in Runs
    BY <1>9 DEF HandOff, IInv, TypeInv, JobIsRun
  <2>2. \A q \in Runs : "tool" \in holders'[q] <=> "tool" \in holders[q]
    BY <1>9, <1>t, <2>1 DEF HandOff, Close
  <2>3. sched' \notin Housekeeping /\ UNCHANGED <<pc, console>>
    BY <1>9 DEF HandOff, IInv, TypeInv, TypeOK
  <2> QED BY <1>6, <1>9, <2>2, <2>3 DEF HandOff, Writing
<1> QED
  BY <1>2, <1>4, <1>5, <1>7, <1>8, <1>9 DEF SchedNext

LEMMA RunAccess ==
  ASSUME IInv, IInv', NEW r \in Runs, RunNext(r) \/ LaunchDirectly(r) \/ Kill(r)
  PROVE  SameAccess \/ Access!StartWrite(r) \/ Access!StopWrite(r)
<1> USE DescriptorsDiffer DEF schedVars, runVars, fileVars
<1>t. /\ pc \in [Runs -> RunPc] /\ pc' \in [Runs -> RunPc]
      /\ holders \in [Runs -> SUBSET {"sched", "run", "tool"}]
  BY DEF IInv, TypeInv, TypeOK
<1>1. UNCHANGED <<sched, console>>
  BY DEF RunNext, LaunchDirectly, Kill, RunAdmitted, RunSkips, RunCannotLock, RunRefuses,
         RunToolMissing, RunNotArmed, RunAnnounces, RunPublishes, RunStartsTool, ToolEnds,
         RunFinishes, RunExits, WriteState
<1>2. \A q \in Runs : q # r => (Writing(q)' <=> Writing(q))
  <2> SUFFICES ASSUME NEW q \in Runs, q # r
               PROVE  pc'[q] = pc[q] /\ holders'[q] = holders[q]
    BY DEF Writing
  <2> QED
    BY <1>t
       DEF RunNext, LaunchDirectly, Kill, RunAdmitted, RunSkips, RunCannotLock, RunRefuses,
           RunToolMissing, RunNotArmed, RunAnnounces, RunPublishes, RunStartsTool, ToolEnds,
           RunFinishes, RunExits, WriteState, Close
<1>3. CASE Writing(r)' <=> Writing(r)
  BY <1>1, <1>2, <1>3 DEF SameAccess, DepotWriters, DepotReaders
<1>4. CASE Writing(r) /\ ~Writing(r)'
  <2>1. r \in DepotWriters /\ DepotWriters' = DepotWriters \ {r} /\ DepotReaders' = DepotReaders
    BY <1>1, <1>2, <1>4 DEF DepotWriters, DepotReaders
  <2> QED BY <2>1 DEF Access!StopWrite
<1>5. CASE ~Writing(r) /\ Writing(r)'
  <2>1. RunAdmitted(r)
    BY <1>5, <1>t
       DEF RunNext, LaunchDirectly, Kill, RunSkips, RunCannotLock, RunRefuses,
           RunToolMissing, RunNotArmed, RunAnnounces, RunPublishes, RunStartsTool, ToolEnds,
           RunFinishes, RunExits, WriteState, Close, Writing, PastLock, RunPc
  <2>2. r \notin DepotWriters /\ r \notin DepotReaders
    BY <1>5 DEF DepotWriters, DepotReaders
  <2>3. DepotWriters = {} /\ DepotReaders = {}
    BY <2>1, <2>2, FreeLockNoAccess DEF RunAdmitted
  <2>4. DepotWriters' = {r} /\ DepotReaders' = {}
    BY <1>1, <1>2, <1>5, <2>3 DEF DepotWriters, DepotReaders
  <2> QED BY <2>3, <2>4 DEF Access!StartWrite
<1> QED BY <1>3, <1>4, <1>5 DEF Writing

LEMMA ConsoleAccess ==
  ASSUME IInv, IInv', NEW w \in Workers, ConsoleNext(w)
  PROVE  \/ SameAccess \/ Access!StartWrite(w) \/ Access!StopWrite(w)
         \/ Access!StartRead(w) \/ Access!StopRead(w)
<1> USE DescriptorsDiffer DEF schedVars, runVars, fileVars
<1>t. console \in [Workers -> ConsolePc]
  BY DEF IInv, TypeInv, TypeOK
<1>1. /\ UNCHANGED <<sched, pc, holders>>
      /\ \A v \in Workers : v # w => console'[v] = console[v]
  BY <1>t DEF ConsoleNext, SyncRequested, PublishRequest, BeginBrowse, BeginMutation, EndGuard,
              SaveRegistration
<1>2. CASE SyncRequested(w) \/ PublishRequest(w) \/ SaveRegistration(w)
  <2>1. /\ console[w] \notin {"browse", "mutate"} /\ console'[w] \notin {"browse", "mutate"}
    BY <1>2, <1>t DEF SyncRequested, PublishRequest, SaveRegistration
  <2> QED BY <1>1, <2>1 DEF SameAccess, DepotWriters, DepotReaders, Writing
<1>3. CASE BeginBrowse(w)
  <2>1. DepotWriters = {}
    BY <1>3, WorkersHoldLock DEF BeginBrowse, CanShare
  <2>2. console[w] = "idle" /\ console'[w] = "browse"
    BY <1>3, <1>t DEF BeginBrowse
  <2>3. DepotWriters' = DepotWriters /\ DepotReaders' = DepotReaders \cup {w}
    BY <1>1, <2>2 DEF DepotWriters, DepotReaders, Writing
  <2> QED BY <2>1, <2>3 DEF Access!StartRead
<1>4. CASE BeginMutation(w)
  <2>1. console[w] = "idle" /\ console'[w] = "mutate" /\ CanLock(w)
    BY <1>4, <1>t DEF BeginMutation
  <2>2. DepotWriters = {} /\ DepotReaders = {}
    BY <2>1, FreeLockNoAccess DEF DepotWriters, DepotReaders
  <2>3. DepotWriters' = {w} /\ DepotReaders' = {}
    BY <1>1, <2>1, <2>2 DEF DepotWriters, DepotReaders, Writing
  <2> QED BY <2>2, <2>3 DEF Access!StartWrite
<1>5. CASE EndGuard(w)
  <2>1. console'[w] = "idle" /\ console[w] \in {"browse", "mutate"}
    BY <1>5, <1>t DEF EndGuard
  <2>2. CASE console[w] = "browse"
    <3>1. /\ w \in DepotReaders /\ DepotReaders' = DepotReaders \ {w}
          /\ DepotWriters' = DepotWriters
      BY <1>1, <2>1, <2>2 DEF DepotWriters, DepotReaders, Writing
    <3> QED BY <3>1 DEF Access!StopRead
  <2>3. CASE console[w] = "mutate"
    <3>1. /\ w \in DepotWriters /\ DepotWriters' = DepotWriters \ {w}
          /\ DepotReaders' = DepotReaders
      BY <1>1, <2>1, <2>3 DEF DepotWriters, DepotReaders, Writing
    <3> QED BY <3>1 DEF Access!StopWrite
  <2> QED BY <2>1, <2>2, <2>3
<1> QED BY <1>2, <1>3, <1>4, <1>5 DEF ConsoleNext

LEMMA FailureAccess ==
  ASSUME IInv, IInv', Crash \/ RedisRestart \/ Tick \/ UNCHANGED vars
  PROVE  SameAccess \/ \E a \in Descriptors : Access!StopWrite(a)
<1>1. CASE RedisRestart \/ Tick \/ UNCHANGED vars
  BY <1>1 DEF RedisRestart, Tick, vars, schedVars, runVars, SameAccess, DepotWriters, DepotReaders,
              Writing
<1>2. CASE Crash
  <2>1. /\ DepotReaders' = DepotReaders
        /\ DepotWriters' = {w \in Workers : console[w] = "mutate"}
    BY <1>2, DescriptorsDiffer
       DEF Crash, DepotWriters, DepotReaders, Writing, Housekeeping, PastLock
  <2>2. DepotWriters' \subseteq DepotWriters
    BY <2>1 DEF DepotWriters
  <2>3. CASE DepotWriters' = DepotWriters
    BY <2>1, <2>3 DEF SameAccess
  <2>4. CASE DepotWriters' # DepotWriters
    <3>1. PICK a \in DepotWriters : a \notin DepotWriters'
      BY <2>2, <2>4
    <3>2. DepotWriters' = DepotWriters \ {a} /\ a \in Descriptors
      BY <2>2, <3>1, WorkersHoldLock
    <3> QED BY <2>1, <3>1, <3>2 DEF Access!StopWrite
  <2> QED BY <2>3, <2>4
<1> QED BY <1>1, <1>2

\* The scheduler, the runs, their tools and the console together implement the
\* abstract readers-writer lock: every change of who works on the depot is one
\* actor starting or stopping, and starting only when it is allowed.
THEOREM ImplementsDepotAccess == Spec => ReadersWriter
<1>1. Init => Access!Init
  BY DEF Init, Access!Init, DepotWriters, DepotReaders, Writing, PastLock, Housekeeping
<1>2. Init => JobIdle
  BY DEF Init, JobIdle
<1>3. IInv /\ JobIdle /\ [Next]_vars => JobIdle'
  BY JobIdleStep DEF IInv
<1>4. IInv /\ IInv' /\ JobIdle /\ [Next]_vars => [Access!Next]_(Access!vars)
  <2> SUFFICES ASSUME IInv, IInv', JobIdle, [Next]_vars
               PROVE  SameAccess \/ Access!Next
    BY DEF SameAccess, Access!vars
  <2> USE DescriptorsDiffer DEF Access!Next
  <2>1. CASE SchedNext
    BY <2>1, SchedAccess
  <2>2. CASE \E r \in Runs : RunNext(r) \/ LaunchDirectly(r) \/ Kill(r)
    BY <2>2, RunAccess
  <2>3. CASE \E w \in Workers : ConsoleNext(w)
    BY <2>3, ConsoleAccess
  <2>4. CASE Crash \/ RedisRestart \/ Tick \/ UNCHANGED vars
    BY <2>4, FailureAccess
  <2> QED BY <2>1, <2>2, <2>3, <2>4, NextCases
<1> QED BY Invariant, <1>1, <1>2, <1>3, <1>4, PTL DEF Spec, ReadersWriter, Access!Spec

-----------------------------------------------------------------------------
(***************************************************************************)
(* The published status.  state.json and its copy on the bus are written   *)
(* one after the other, by the scheduler and by the run that has the lock. *)
(***************************************************************************)
\* A run between writing state.json and publishing it.
Publishing == {"refusing", "announced", "finished"}

\* Steps that leave both copies alone.
QuietSched == \/ SchedBoot \/ ReapLock \/ ReapCatalogWorkspaces \/ RefreshRead \/ RefreshLock
              \/ RefreshSame \/ CronNoMatch \/ PopTimeout \/ Fork \/ HandOff
              \/ \E r \in Runs : CronDispatch(r) \/ PopDispatch(r)
QuietRun(r) == \/ RunAdmitted(r) \/ RunSkips(r) \/ RunCannotLock(r) \/ RunRefuses(r) \/ ToolEnds(r)
               \/ RunExits(r) \/ LaunchDirectly(r)

\* The scheduler between writing state.json, or reading it, and publishing it.
Rewriting == {"initWrite", "bootPublish", "bootSet", "refreshWrite", "refreshPublish"}

\* Such a step of the scheduler neither begins nor ends a boot or a rewriting, and
\* can only launch a run.
LEMMA QuietSchedEffect ==
  ASSUME TypeInv, JobIdle, QuietSched
  PROVE  /\ UNCHANGED <<state, bus, draft>>
         /\ sched \notin Rewriting /\ sched' \notin Rewriting
         /\ sched' \in Booting <=> sched \in Booting
         /\ \A r \in Runs :
              \/ pc'[r] = pc[r]
              \/ pc[r] = "idle" /\ pc'[r] = "launched" /\ sched = "fork"
<1> USE DEF Booting, Rewriting, schedVars, runVars, fileVars
<1>1. CASE Fork
  <2>1. job \in Runs /\ pc[job] = "idle" /\ pc \in [Runs -> RunPc]
    BY <1>1 DEF Fork, TypeInv, TypeOK, JobIsRun, JobIdle
  <2> QED BY <1>1, <2>1 DEF Fork
<1>2. CASE HandOff
  BY <1>2 DEF HandOff, TypeInv, TypeOK
<1>3. CASE \E r \in Runs : CronDispatch(r) \/ PopDispatch(r)
  BY <1>3 DEF CronDispatch, PopDispatch, OpenForDispatch
<1>4. CASE ReapLock \/ RefreshLock
  BY <1>4 DEF ReapLock, RefreshLock, TakeDepotLock
<1>5. CASE SchedBoot \/ ReapCatalogWorkspaces \/ RefreshRead \/ RefreshSame \/ CronNoMatch
           \/ PopTimeout
  BY <1>5 DEF SchedBoot, ReapCatalogWorkspaces, RefreshRead, RefreshSame, CronNoMatch, PopTimeout
<1> QED BY <1>1, <1>2, <1>3, <1>4, <1>5 DEF QuietSched

LEMMA QuietRunEffect ==
  ASSUME TypeInv, NEW r \in Runs, QuietRun(r)
  PROVE  /\ UNCHANGED <<state, bus, draft, sched>>
         /\ \A q \in Runs \ {r} : pc'[q] = pc[q]
         /\ <<pc[r], pc'[r]>> \in {<<"launched", "admitted">>, <<"launched", "idle">>,
              <<"admitted", "exiting">>, <<"downloading", "working">>, <<"exiting", "idle">>,
              <<"idle", "launched">>} \/ pc'[r] = pc[r]
         /\ pc[r] = "idle" /\ pc'[r] = "launched" => DirectRuns /\ sched # "stopped"
BY DEF QuietRun, RunAdmitted, RunSkips, RunCannotLock, RunRefuses, ToolEnds, RunExits,
       LaunchDirectly, Fresh, schedVars, runVars, fileVars, TypeInv, TypeOK

\* Every step, by what it does to the two copies.
LEMMA StatusCases ==
  ASSUME [Next]_vars
  PROVE  \/ QuietSched
         \/ InitRead \/ InitWrite \/ BootRead \/ BootPublish
         \/ RefreshDraft \/ RefreshWrite \/ RefreshPublish
         \/ \E r \in Runs : \/ QuietRun(r) \/ RunToolMissing(r) \/ RunNotArmed(r) \/ RunAnnounces(r)
                            \/ RunPublishes(r) \/ RunStartsTool(r) \/ RunFinishes(r) \/ Kill(r)
         \/ Crash \/ RedisRestart
         \/ UNCHANGED <<sched, pc, state, bus, draft>>
<1>1. CASE \E w \in Workers : ConsoleNext(w)
  BY <1>1 DEF ConsoleNext, SyncRequested, PublishRequest, BeginBrowse, BeginMutation, EndGuard,
              SaveRegistration, schedVars, runVars, fileVars
<1>2. CASE Tick \/ UNCHANGED vars
  BY <1>2 DEF Tick, vars, schedVars, runVars, fileVars
<1> QED BY <1>1, <1>2 DEF Next, SchedNext, RunNext, QuietSched, QuietRun

\* What a run's own writing of state.json does, when it may fail and when not.
LEMMA WriteEffect ==
  ASSUME TypeInv, NEW r \in Runs, NEW doc, NEW written \in RunPc, NEW failed \in RunPc,
         WriteState(r, doc, written, failed)
  PROVE  /\ UNCHANGED <<bus, draft, sched>>
         /\ \A q \in Runs \ {r} : pc'[q] = pc[q]
         /\ \/ state' = doc /\ pc'[r] = written
            \/ "write" \in Faults /\ UNCHANGED state /\ pc'[r] = failed
BY DEF WriteState, schedVars, TypeInv, TypeOK

-----------------------------------------------------------------------------
\* The scheduler boots before anybody else can start a run.
BootIsAlone == sched \in Booting => \A r \in Runs : pc[r] = "idle"

LEMMA BootIsAloneStep ==
  ASSUME TypeInv, JobIdle, BootIsAlone, [Next]_vars, ~DirectRuns
  PROVE  BootIsAlone'
<1> USE DEF BootIsAlone, schedVars, runVars
<1>1. CASE QuietSched
  BY <1>1, QuietSchedEffect DEF Booting
<1>2. CASE InitRead \/ InitWrite \/ BootRead \/ BootPublish
           \/ RefreshDraft \/ RefreshWrite \/ RefreshPublish
  BY <1>2 DEF InitRead, InitWrite, BootRead, BootPublish, RefreshDraft, RefreshWrite,
              RefreshPublish, Booting
<1>3. ASSUME NEW r \in Runs, QuietRun(r)
      PROVE  BootIsAlone'
  BY <1>3, QuietRunEffect
<1>4. ASSUME NEW r \in Runs,
             \/ RunToolMissing(r) \/ RunNotArmed(r) \/ RunAnnounces(r) \/ RunFinishes(r)
             \/ RunPublishes(r) \/ RunStartsTool(r) \/ Kill(r)
      PROVE  pc[r] # "idle" /\ UNCHANGED sched
  BY <1>4 DEF RunToolMissing, RunNotArmed, RunAnnounces, RunFinishes, RunPublishes, RunStartsTool,
              Kill, WriteState
<1>5. CASE Crash \/ RedisRestart \/ UNCHANGED <<sched, pc, state, bus, draft>>
  BY <1>5 DEF Crash, RedisRestart
<1> QED BY <1>1, <1>2, <1>3, <1>4, <1>5, StatusCases

LEMMA JobIdleAlways == Spec => [](IInv /\ JobIdle)
<1>1. Init => JobIdle
  BY DEF Init, JobIdle
<1>2. IInv /\ JobIdle /\ [Next]_vars => JobIdle'
  BY JobIdleStep DEF IInv
<1> QED BY Invariant, <1>1, <1>2, PTL DEF Spec

LEMMA BootIsAloneAlways ==
  ASSUME ~DirectRuns
  PROVE  Spec => [](IInv /\ JobIdle /\ BootIsAlone)
<1>1. Init => BootIsAlone
  BY DEF Init, BootIsAlone
<1>2. IInv /\ JobIdle /\ BootIsAlone /\ [Next]_vars => BootIsAlone'
  BY BootIsAloneStep DEF IInv
<1> QED BY JobIdleAlways, <1>1, <1>2, PTL DEF Spec

-----------------------------------------------------------------------------
\* The bus carries the file or nothing, except while somebody is between the two,
\* and what the boot is about to publish is the file.
BusIsFile ==
  /\ sched \notin Booting \cup {"refreshPublish"}
  /\ \A r \in Runs : pc[r] \notin Publishing
  => bus \in {NoStatus, state}
BootIsRead == sched = "bootSet" => draft = state

LEMMA BootIsReadStep ==
  ASSUME TypeInv, JobIdle, BootIsAlone, BootIsRead, [Next]_vars
  PROVE  BootIsRead'
<1> USE DEF BootIsRead, schedVars, fileVars
<1>1. CASE QuietSched
  BY <1>1, QuietSchedEffect DEF Rewriting
<1>2. CASE InitRead \/ InitWrite \/ BootRead \/ BootPublish \/ RefreshDraft \/ RefreshWrite
           \/ RefreshPublish \/ Crash \/ RedisRestart
           \/ UNCHANGED <<sched, pc, state, bus, draft>>
  BY <1>2 DEF InitRead, InitWrite, BootRead, BootPublish, RefreshDraft, RefreshWrite,
              RefreshPublish, Crash, RedisRestart
<1>3. ASSUME NEW r \in Runs, QuietRun(r)
      PROVE  UNCHANGED <<sched, state, draft>>
  BY <1>3, QuietRunEffect
<1>4. ASSUME NEW r \in Runs,
             RunToolMissing(r) \/ RunNotArmed(r) \/ RunAnnounces(r) \/ RunFinishes(r)
      PROVE  pc[r] # "idle" /\ UNCHANGED sched
  BY <1>4 DEF RunToolMissing, RunNotArmed, RunAnnounces, RunFinishes, WriteState
<1>5. ASSUME NEW r \in Runs, RunPublishes(r) \/ RunStartsTool(r) \/ Kill(r)
      PROVE  UNCHANGED <<sched, state, draft>>
  BY <1>5 DEF RunPublishes, RunStartsTool, Kill
<1> QED BY <1>1, <1>2, <1>3, <1>4, <1>5, StatusCases DEF BootIsAlone, Booting

LEMMA BusIsFileStep ==
  ASSUME TypeInv, JobIdle, BootIsRead, BusIsFile, [Next]_vars, Faults \cap {"kill", "publish"} = {}
  PROVE  BusIsFile'
<1> USE DEF BusIsFile, Publishing, RunPc, schedVars, runVars
<1>t. pc \in [Runs -> RunPc]
  BY DEF TypeInv, TypeOK
<1>1. CASE QuietSched
  BY <1>1, QuietSchedEffect DEF Rewriting
<1>2. CASE InitRead \/ InitWrite \/ BootRead \/ Crash
  BY <1>2 DEF InitRead, InitWrite, BootRead, Crash, Booting
<1>3. CASE BootPublish \/ RefreshPublish
  BY <1>3 DEF BootPublish, RefreshPublish, PublishStatus, SetStatus, BootIsRead
<1>4. CASE RefreshDraft \/ RefreshWrite
  BY <1>4 DEF RefreshDraft, RefreshWrite, Booting, fileVars
<1>5. ASSUME NEW r \in Runs, QuietRun(r)
      PROVE  BusIsFile'
  BY <1>5, QuietRunEffect
<1>6. ASSUME NEW r \in Runs,
             RunToolMissing(r) \/ RunNotArmed(r) \/ RunAnnounces(r) \/ RunFinishes(r)
      PROVE  BusIsFile'
  <2>1. ASSUME NEW doc, NEW written \in Publishing, NEW failed \in RunPc,
               pc[r] \in {"admitted", "working"}, WriteState(r, doc, written, failed)
        PROVE  BusIsFile'
    BY <1>t, <2>1, WriteEffect
  <2> QED BY <1>6, <2>1 DEF RunToolMissing, RunNotArmed, RunAnnounces, RunFinishes
<1>7. ASSUME NEW r \in Runs, RunPublishes(r) \/ RunStartsTool(r)
      PROVE  BusIsFile'
  BY <1>7 DEF RunPublishes, RunStartsTool, PublishStatus, SetStatus
<1>8. CASE \E r \in Runs : Kill(r)
  BY <1>8 DEF Kill
<1>9. CASE RedisRestart \/ UNCHANGED <<sched, pc, state, bus, draft>>
  BY <1>9 DEF RedisRestart
<1> QED BY <1>1, <1>2, <1>3, <1>4, <1>5, <1>6, <1>7, <1>8, <1>9, StatusCases

\* Between two writes the bus carries exactly the file, or nothing, whatever write to
\* state.json fails, as long as only the scheduler starts runs, none is killed
\* outright and no Redis command fails.
THEOREM BusAgrees ==
  ASSUME ~DirectRuns, Faults \cap {"kill", "publish"} = {}
  PROVE  Spec => []BusFollowsFile
<1>1. Init => BusIsFile /\ BootIsRead
  BY DEF Init, BusIsFile, BootIsRead
<1>2. IInv /\ JobIdle /\ BootIsAlone /\ BusIsFile /\ BootIsRead /\ [Next]_vars
      => (BusIsFile /\ BootIsRead)'
  BY BusIsFileStep, BootIsReadStep DEF IInv
<1>3. BusIsFile => BusFollowsFile
  BY DEF BusIsFile, BusFollowsFile, Booting, Publishing, ConsoleState
<1> QED BY BootIsAloneAlways, <1>1, <1>2, <1>3, PTL DEF Spec

-----------------------------------------------------------------------------
(***************************************************************************)
(* A run that downloads is visible.  The scheduler's boot rewrites         *)
(* state.json without the lock, but before anybody can start a run; every  *)
(* other rewriting is under the lock, so it meets no run past its check.   *)
(***************************************************************************)
Announced == {"announced", "working", "downloading"}
AnnouncedIsWritten == \A r \in Runs : pc[r] \in Announced => state.running
DownloadIsPublished ==
  \A r \in Runs : pc[r] \in {"working", "downloading"} => bus = NoStatus \/ bus.running
AnnounceInv == AnnouncedIsWritten /\ DownloadIsPublished

\* The lock tells the runs past their check apart from each other and from
\* housekeeping.
LEMMA OnePastLock ==
  ASSUME IInv, NEW r \in Runs, pc[r] \in PastLock
  PROVE  /\ \A q \in Runs : pc[q] \in PastLock => q = r
         /\ sched \notin Housekeeping
BY DescriptorsDiffer DEF IInv, LockInv, RunsHold, HousekeepingHolds, Exclusive

LEMMA AnnouncedIsWrittenStep ==
  ASSUME IInv, JobIdle, BootIsAlone, AnnouncedIsWritten, [Next]_vars, "write" \notin Faults
  PROVE  AnnouncedIsWritten'
<1> USE DEF AnnouncedIsWritten, Announced, schedVars, runVars, fileVars
<1>t. TypeInv /\ pc \in [Runs -> RunPc] /\ state \in Documents
  BY DEF IInv, TypeInv, TypeOK
<1>1. CASE QuietSched
  BY <1>1, <1>t, QuietSchedEffect
<1>2. CASE InitRead \/ BootRead \/ BootPublish \/ RefreshDraft \/ RefreshPublish
           \/ RedisRestart \/ UNCHANGED <<sched, pc, state, bus, draft>>
  BY <1>2 DEF InitRead, BootRead, BootPublish, RefreshDraft, RefreshPublish, RedisRestart
<1>3. CASE InitWrite
  BY <1>3 DEF InitWrite, BootIsAlone, Booting
<1>4. CASE RefreshWrite
  BY <1>4, OnePastLock DEF RefreshWrite, Housekeeping, PastLock, RunPc
<1>5. ASSUME NEW r \in Runs, QuietRun(r)
      PROVE  AnnouncedIsWritten'
  BY <1>5, <1>t, QuietRunEffect
<1>6. ASSUME NEW r \in Runs, NEW doc, NEW written \in RunPc, NEW failed \in RunPc,
             pc[r] \in PastLock, WriteState(r, doc, written, failed),
             doc.running \/ written \notin Announced
      PROVE  AnnouncedIsWritten'
  <2>1. \A q \in Runs \ {r} : pc[q] \notin Announced
    BY <1>6, OnePastLock DEF PastLock, RunPc
  <2> QED BY <1>6, <1>t, <2>1, WriteEffect
<1>7. ASSUME NEW r \in Runs, RunToolMissing(r) \/ RunNotArmed(r) \/ RunFinishes(r)
      PROVE  AnnouncedIsWritten'
  BY <1>6, <1>7 DEF RunToolMissing, RunNotArmed, RunFinishes, PastLock, RunPc
<1>8. ASSUME NEW r \in Runs, RunAnnounces(r)
      PROVE  AnnouncedIsWritten'
  <2>1. [state EXCEPT !.running = TRUE, !.armed = TRUE].running
    BY <1>t DEF Documents
  <2> QED BY <1>6, <1>8, <2>1 DEF RunAnnounces, PastLock, RunPc
<1>9. ASSUME NEW r \in Runs, RunPublishes(r) \/ RunStartsTool(r) \/ Kill(r)
      PROVE  AnnouncedIsWritten'
  BY <1>9, <1>t DEF RunPublishes, RunStartsTool, Kill
<1>10. CASE Crash
  BY <1>10 DEF Crash
<1> QED BY <1>1, <1>2, <1>3, <1>4, <1>5, <1>7, <1>8, <1>9, <1>10, StatusCases

LEMMA DownloadIsPublishedStep ==
  ASSUME IInv, JobIdle, BootIsAlone, AnnouncedIsWritten, DownloadIsPublished, [Next]_vars,
         Faults \cap {"write", "publish"} = {}
  PROVE  DownloadIsPublished'
<1> USE DEF DownloadIsPublished, schedVars, runVars, fileVars
<1>t. TypeInv /\ pc \in [Runs -> RunPc]
  BY DEF IInv, TypeInv, TypeOK
<1>1. CASE QuietSched
  BY <1>1, <1>t, QuietSchedEffect
<1>2. CASE InitRead \/ InitWrite \/ BootRead \/ RefreshDraft \/ RefreshWrite
           \/ UNCHANGED <<sched, pc, state, bus, draft>>
  BY <1>2 DEF InitRead, InitWrite, BootRead, RefreshDraft, RefreshWrite
<1>3. CASE BootPublish
  BY <1>3 DEF BootPublish, BootIsAlone, Booting
<1>9. CASE RefreshPublish
  BY <1>9 DEF RefreshPublish, PublishStatus, SetStatus, AnnouncedIsWritten, Announced
<1>4. ASSUME NEW r \in Runs, QuietRun(r)
      PROVE  DownloadIsPublished'
  BY <1>4, <1>t, QuietRunEffect
<1>5. ASSUME NEW r \in Runs, NEW doc, NEW written \in RunPc \ {"working", "downloading"},
             NEW failed \in RunPc, WriteState(r, doc, written, failed)
      PROVE  DownloadIsPublished'
  BY <1>5, <1>t, WriteEffect
<1>6. ASSUME NEW r \in Runs,
             RunToolMissing(r) \/ RunNotArmed(r) \/ RunFinishes(r) \/ RunAnnounces(r)
      PROVE  DownloadIsPublished'
  BY <1>5, <1>6 DEF RunToolMissing, RunNotArmed, RunFinishes, RunAnnounces, RunPc
<1>7. ASSUME NEW r \in Runs, RunPublishes(r) \/ RunStartsTool(r)
      PROVE  DownloadIsPublished'
  BY <1>7, <1>t DEF RunPublishes, RunStartsTool, PublishStatus, SetStatus, AnnouncedIsWritten, Announced
<1>8. CASE Crash \/ RedisRestart \/ \E r \in Runs : Kill(r)
  BY <1>8, <1>t DEF Crash, RedisRestart, Kill
<1> QED BY <1>1, <1>2, <1>3, <1>4, <1>6, <1>7, <1>8, <1>9, StatusCases

LEMMA AnnounceInvariant ==
  ASSUME ~DirectRuns, Faults \cap {"write", "publish"} = {}
  PROVE  Spec => []AnnounceInv
<1>1. Init => AnnounceInv
  BY DEF Init, AnnounceInv, AnnouncedIsWritten, DownloadIsPublished, Announced
<1>2. IInv /\ JobIdle /\ BootIsAlone /\ AnnounceInv /\ [Next]_vars => AnnounceInv'
  BY AnnouncedIsWrittenStep, DownloadIsPublishedStep DEF AnnounceInv
<1> QED BY BootIsAloneAlways, <1>1, <1>2, PTL DEF Spec

\* Every download is visible as running in the file and to the console, for any
\* number of runs, also of killed ones, as long as only the scheduler starts runs,
\* state.json can be written and no Redis command fails.
THEOREM DownloadsAreVisible ==
  ASSUME ~DirectRuns, Faults \cap {"write", "publish"} = {}
  PROVE  Spec => []DownloadIsAnnounced
<1>1. AnnounceInv => DownloadIsAnnounced
  BY DEF AnnounceInv, AnnouncedIsWritten, DownloadIsPublished, Announced, DownloadIsAnnounced,
         ConsoleState
<1> QED BY AnnounceInvariant, <1>1, PTL

-----------------------------------------------------------------------------
(***************************************************************************)
(* The reverse: a status that says running is that of a live run.  What    *)
(* the scheduler is about to write never says it, and the run that wrote   *)
(* it takes it back, and publishes that, before it ends.                   *)
(***************************************************************************)
DraftIsQuiet == sched \in {"initWrite", "bootSet", "refreshWrite"} => ~draft.running
BootIsQuiet == sched \in {"bootPublish", "bootSet"} => ~state.running
FileIsOfARun ==
  sched \notin Booting => (state.running => \E r \in Runs : pc[r] \in Announced)
BusIsOfARun ==
  sched \notin Booting =>
    (bus # NoStatus /\ bus.running => \E r \in Runs : pc[r] \in Announced \cup {"finished"})
RunningInv == DraftIsQuiet /\ BootIsQuiet /\ FileIsOfARun /\ BusIsOfARun

LEMMA DraftIsQuietStep ==
  ASSUME IInv, JobIdle, DraftIsQuiet, BootIsQuiet, FileIsOfARun, [Next]_vars
  PROVE  DraftIsQuiet'
<1> USE DEF DraftIsQuiet, schedVars
<1>t. TypeInv /\ state \in Documents
  BY DEF IInv, TypeInv, TypeOK
<1>1. CASE QuietSched
  BY <1>1, <1>t, QuietSchedEffect DEF Rewriting
<1>2. CASE InitRead \/ BootRead
  BY <1>2, <1>t DEF InitRead, BootRead, BootIsQuiet, Documents
<1>3. CASE RefreshDraft
  <2>1. ~ \E r \in Runs : pc[r] \in Announced
    BY <1>3, OnePastLock DEF RefreshDraft, Housekeeping, Announced, PastLock, RunPc
  <2>2. ~state.running
    BY <1>3, <2>1 DEF FileIsOfARun, RefreshDraft, Booting
  <2> QED BY <1>3, <1>t, <2>2 DEF RefreshDraft, Documents
<1>4. CASE InitWrite \/ BootPublish \/ RefreshWrite \/ RefreshPublish \/ Crash \/ RedisRestart
           \/ UNCHANGED <<sched, pc, state, bus, draft>>
  BY <1>4 DEF InitWrite, BootPublish, RefreshWrite, RefreshPublish, Crash, RedisRestart
<1>5. ASSUME NEW r \in Runs, QuietRun(r)
      PROVE  UNCHANGED <<sched, draft>>
  BY <1>5, <1>t, QuietRunEffect
<1>6. ASSUME NEW r \in Runs,
             \/ RunToolMissing(r) \/ RunNotArmed(r) \/ RunAnnounces(r) \/ RunFinishes(r)
             \/ RunPublishes(r) \/ RunStartsTool(r) \/ Kill(r)
      PROVE  UNCHANGED <<sched, draft>>
  BY <1>6 DEF RunToolMissing, RunNotArmed, RunAnnounces, RunFinishes, RunPublishes, RunStartsTool,
              Kill, WriteState
<1> QED BY <1>1, <1>2, <1>3, <1>4, <1>5, <1>6, StatusCases

LEMMA BootIsQuietStep ==
  ASSUME TypeInv, JobIdle, BootIsAlone, DraftIsQuiet, BootIsQuiet, [Next]_vars
  PROVE  BootIsQuiet'
<1> USE DEF BootIsQuiet, schedVars, fileVars
<1>1. CASE QuietSched
  BY <1>1, QuietSchedEffect DEF Rewriting
<1>2. CASE InitWrite
  BY <1>2 DEF InitWrite, DraftIsQuiet
<1>3. CASE InitRead \/ BootRead \/ BootPublish \/ RefreshDraft \/ RefreshWrite
           \/ RefreshPublish \/ Crash \/ RedisRestart
           \/ UNCHANGED <<sched, pc, state, bus, draft>>
  BY <1>3 DEF InitRead, BootRead, BootPublish, RefreshDraft, RefreshWrite, RefreshPublish, Crash,
              RedisRestart
<1>4. ASSUME NEW r \in Runs, QuietRun(r)
      PROVE  UNCHANGED <<sched, state>>
  BY <1>4, QuietRunEffect
<1>5. ASSUME NEW r \in Runs,
             RunToolMissing(r) \/ RunNotArmed(r) \/ RunAnnounces(r) \/ RunFinishes(r)
      PROVE  pc[r] # "idle" /\ UNCHANGED sched
  BY <1>5 DEF RunToolMissing, RunNotArmed, RunAnnounces, RunFinishes, WriteState
<1>6. ASSUME NEW r \in Runs, RunPublishes(r) \/ RunStartsTool(r) \/ Kill(r)
      PROVE  UNCHANGED <<sched, state>>
  BY <1>6 DEF RunPublishes, RunStartsTool, Kill
<1> QED BY <1>1, <1>2, <1>3, <1>4, <1>5, <1>6, StatusCases DEF BootIsAlone, Booting

LEMMA FileIsOfARunStep ==
  ASSUME TypeInv, JobIdle, DraftIsQuiet, BootIsQuiet, FileIsOfARun, [Next]_vars,
         Faults \cap {"kill", "write"} = {}
  PROVE  FileIsOfARun'
<1> USE DEF FileIsOfARun, Announced, schedVars, runVars, fileVars
<1>t. pc \in [Runs -> RunPc] /\ state \in Documents
  BY DEF TypeInv, TypeOK
<1>1. CASE QuietSched
  BY <1>1, QuietSchedEffect
<1>2. CASE InitRead \/ InitWrite \/ BootRead \/ Crash
  BY <1>2 DEF InitRead, InitWrite, BootRead, Crash, Booting
<1>3. CASE BootPublish
  BY <1>3 DEF BootPublish, BootIsQuiet
<1>4. CASE RefreshWrite
  BY <1>4 DEF RefreshWrite, DraftIsQuiet
<1>5. CASE RefreshDraft \/ RefreshPublish \/ RedisRestart
           \/ UNCHANGED <<sched, pc, state, bus, draft>>
  BY <1>5 DEF RefreshDraft, RefreshPublish, RedisRestart, Booting
<1>6. ASSUME NEW r \in Runs, QuietRun(r)
      PROVE  FileIsOfARun'
  BY <1>6, <1>t, QuietRunEffect
<1>7. ASSUME NEW r \in Runs, NEW doc, NEW written \in RunPc, NEW failed \in RunPc,
             WriteState(r, doc, written, failed), ~doc.running \/ written \in Announced
      PROVE  FileIsOfARun'
  BY <1>7, WriteEffect
<1>8. ASSUME NEW r \in Runs, RunToolMissing(r) \/ RunNotArmed(r) \/ RunFinishes(r)
      PROVE  FileIsOfARun'
  <2>1. /\ ~[state EXCEPT !.running = FALSE].running
        /\ ~[state EXCEPT !.running = FALSE, !.armed = FALSE].running
        /\ ~[state EXCEPT !.running = FALSE, !.finishedAt = clock].running
    BY <1>t DEF Documents
  <2> QED
    <3>1. CASE RunToolMissing(r)
      BY <1>7, <2>1, <3>1 DEF RunToolMissing, RunPc
    <3>2. CASE RunNotArmed(r)
      BY <1>7, <2>1, <3>2 DEF RunNotArmed, RunPc
    <3>3. CASE RunFinishes(r)
      BY <1>7, <2>1, <3>3 DEF RunFinishes, RunPc
    <3> QED BY <1>8, <3>1, <3>2, <3>3
<1>9. ASSUME NEW r \in Runs, RunAnnounces(r)
      PROVE  FileIsOfARun'
  BY <1>7, <1>9 DEF RunAnnounces, RunPc
<1>10. ASSUME NEW r \in Runs, RunPublishes(r) \/ RunStartsTool(r) \/ Kill(r)
      PROVE  FileIsOfARun'
  BY <1>10, <1>t DEF RunPublishes, RunStartsTool, Kill
<1> QED BY <1>1, <1>2, <1>3, <1>4, <1>5, <1>6, <1>8, <1>9, <1>10, StatusCases

LEMMA BusIsOfARunStep ==
  ASSUME TypeInv, JobIdle, DraftIsQuiet, FileIsOfARun, BusIsOfARun, [Next]_vars,
         Faults \cap {"kill", "write", "publish"} = {}
  PROVE  BusIsOfARun'
<1> USE DEF BusIsOfARun, Announced, schedVars, runVars, fileVars
<1>t. pc \in [Runs -> RunPc]
  BY DEF TypeInv, TypeOK
<1>1. CASE QuietSched
  BY <1>1, QuietSchedEffect
<1>2. CASE InitRead \/ InitWrite \/ BootRead \/ Crash
  BY <1>2 DEF InitRead, InitWrite, BootRead, Crash, Booting
<1>3. CASE BootPublish
  BY <1>3 DEF BootPublish, SetStatus, DraftIsQuiet
<1>4. CASE RefreshPublish
  BY <1>4 DEF RefreshPublish, PublishStatus, SetStatus, FileIsOfARun, Booting
<1>5. CASE RefreshDraft \/ RefreshWrite \/ RedisRestart
           \/ UNCHANGED <<sched, pc, state, bus, draft>>
  BY <1>5 DEF RefreshDraft, RefreshWrite, RedisRestart, Booting
<1>6. ASSUME NEW r \in Runs, QuietRun(r)
      PROVE  BusIsOfARun'
  BY <1>6, <1>t, QuietRunEffect
<1>7. ASSUME NEW r \in Runs, NEW doc, NEW written \in RunPc, NEW failed \in RunPc,
             WriteState(r, doc, written, failed),
             pc[r] = "admitted" \/ written = "finished"
      PROVE  BusIsOfARun'
  BY <1>7, <1>t, WriteEffect
<1>8. ASSUME NEW r \in Runs,
             RunToolMissing(r) \/ RunNotArmed(r) \/ RunAnnounces(r) \/ RunFinishes(r)
      PROVE  BusIsOfARun'
  BY <1>7, <1>8 DEF RunToolMissing, RunNotArmed, RunAnnounces, RunFinishes, RunPc
<1>9. ASSUME NEW r \in Runs, RunPublishes(r) \/ RunStartsTool(r)
      PROVE  BusIsOfARun'
  <2>1. bus' = state /\ UNCHANGED <<sched, state>>
    BY <1>9 DEF RunPublishes, RunStartsTool, PublishStatus, SetStatus
  <2>2. \A q \in Runs : pc[q] \in Announced => pc'[q] \in Announced
    BY <1>9, <1>t DEF RunPublishes, RunStartsTool
  <2> QED BY <2>1, <2>2 DEF FileIsOfARun
<1>10. CASE \E r \in Runs : Kill(r)
  BY <1>10 DEF Kill
<1> QED BY <1>1, <1>2, <1>3, <1>4, <1>5, <1>6, <1>8, <1>9, <1>10, StatusCases

\* A status that says running, in the file or as the console reads it, is that of a
\* live run past its lock check, for any number of runs, as long as only the
\* scheduler starts runs, none is killed outright, state.json can be written and no
\* Redis command fails; the container, and Redis with its data, may stop at any time.
THEOREM RunningIsARun ==
  ASSUME ~DirectRuns, Faults \cap {"kill", "write", "publish"} = {}
  PROVE  Spec => []RunningMeansRun
<1>1. Init => RunningInv
  BY DEF Init, RunningInv, DraftIsQuiet, BootIsQuiet, FileIsOfARun, BusIsOfARun, Booting
<1>2. IInv /\ JobIdle /\ BootIsAlone /\ RunningInv /\ [Next]_vars => RunningInv'
  BY DraftIsQuietStep, BootIsQuietStep, FileIsOfARunStep, BusIsOfARunStep
     DEF RunningInv, IInv
<1>3. RunningInv => RunningMeansRun
  BY DEF RunningInv, FileIsOfARun, BusIsOfARun, Announced, Booting, PastLock, RunPc,
         RunningMeansRun, ConsoleState
<1> QED BY BootIsAloneAlways, <1>1, <1>2, <1>3, PTL DEF Spec
=============================================================================
