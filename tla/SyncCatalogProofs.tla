------------------------- MODULE SyncCatalogProofs -------------------------
(***************************************************************************)
(* Machine-checked proofs about SyncCatalog.  Its steps are steps of       *)
(* SyncRun, so what is proved of the locks carries over, and with it the   *)
(* safety of the catalog workspaces.                                       *)
(***************************************************************************)
EXTENDS SyncCatalog, SyncRunProofs

\* A step of the catalog is a step of the scheduler, a run or the console, or
\* leaves all of them alone.
LEMMA CatalogStepIsStep ==
  ASSUME [CatalogNext]_allVars
  PROVE  [Next]_vars
<1> USE DEF Next
<1>1. CASE SchedContinues \/ ReapWorkspaces \/ Reconcile
  BY <1>1 DEF SchedContinues, ReapWorkspaces, Reconcile, SchedNext
<1>2. ASSUME NEW r \in Runs,
             OpenAttempt(r) \/ RunContinues(r) \/ EndAttempt(r) \/ KillAttempt(r)
      PROVE  Next
  BY <1>2 DEF OpenAttempt, RunContinues, EndAttempt, KillAttempt, RunNext
<1>3. ASSUME NEW r \in Runs, CatalogStep(r)
      PROVE  UNCHANGED vars
  BY <1>3 DEF CatalogStep, BeginBuild, BuildFails, CountItems, KeepsPrevious, PublishCatalog, RecordResult,
              CloseOnExit, EndBuild
<1>4. CASE CrashAttempts \/ OthersContinue
  BY <1>4 DEF CrashAttempts, OthersContinue
<1>5. CASE ReadStatus \/ UNCHANGED allVars
  BY <1>5 DEF ReadStatus, allVars
<1> QED BY <1>1, <1>2, <1>3, <1>4, <1>5 DEF CatalogNext

\* SyncCatalog adds the catalog to SyncRun and takes nothing away: its behaviours
\* are behaviours of SyncRun.
THEOREM CatalogExtendsRun == CatalogSpec => Spec
<1>1. CatalogInit => Init
  BY DEF CatalogInit
<1> QED BY <1>1, CatalogStepIsStep, PTL DEF CatalogSpec, Spec

-----------------------------------------------------------------------------
\* A run builds its catalog past its own lock check, and has its workspace as
\* long as it does.
BuildersArePastLock == \A r \in Runs : phase[r] # "none" => pc[r] \in PastLock
CatalogInv == /\ phase \in [Runs -> Phases]
              /\ LiveWorkspaceIsKept
              /\ BuildersArePastLock

LEMMA CatalogInvInit == CatalogInit => CatalogInv
BY DEF CatalogInit, CatalogInv, LiveWorkspaceIsKept, BuildersArePastLock, Phases, Building,
       Counted, Renamed

\* The runs in gone take their phases with them.
LEMMA AbandonKeepsInv ==
  ASSUME CatalogInv, NEW gone \in SUBSET Runs, Abandon(gone),
         \A q \in Runs \ gone : pc'[q] = pc[q]
  PROVE  CatalogInv'
BY DEF Abandon, CatalogInv, LiveWorkspaceIsKept, BuildersArePastLock, Phases, Building, Counted,
       Renamed

\* Every step of SyncRun that does not end a run.
GoesOn(q) ==
  \/ RunAdmitted(q) \/ RunSkips(q) \/ RunCannotLock(q) \/ RunRefuses(q) \/ RunToolMissing(q)
  \/ RunNotArmed(q) \/ RunAnnounces(q) \/ RunPublishes(q) \/ RunStartsTool(q) \/ ToolEnds(q)
  \/ RunFinishes(q) \/ LaunchDirectly(q)
EndsNoRun ==
  \/ SchedNext \/ \E q \in Runs : GoesOn(q)
  \/ \E w \in Workers : ConsoleNext(w)
  \/ RedisRestart \/ Tick \/ UNCHANGED vars

\* Such a step leaves a run that is past its lock check there.
LEMMA PastLockStays ==
  ASSUME TypeInv, JobIdle, NEW r \in Runs, pc[r] \in PastLock, EndsNoRun
  PROVE  pc'[r] \in PastLock
<1> USE DEF schedVars, runVars, PastLock, RunPc
<1>t. pc \in [Runs -> RunPc] /\ (sched = "fork" => job \in Runs)
  BY DEF TypeInv, TypeOK, JobIsRun
<1>1. CASE SchedNext
  <2>1. CASE Fork
    BY <1>t, <2>1 DEF Fork, JobIdle
  <2>2. UNCHANGED pc \/ Fork
    BY <1>1 DEF SchedNext, SchedBoot, ReapLock, ReapCatalogWorkspaces, InitRead, InitWrite,
                BootRead, BootPublish, RefreshRead, RefreshLock, RefreshSame, RefreshDraft, RefreshWrite,
                RefreshPublish, CronDispatch, CronNoMatch, PopDispatch, PopTimeout, HandOff
  <2> QED BY <2>1, <2>2
<1>2. ASSUME NEW q \in Runs, GoesOn(q)
      PROVE  pc'[r] \in PastLock
  BY <1>2, <1>t
     DEF GoesOn, LaunchDirectly, RunAdmitted, RunSkips, RunCannotLock, RunRefuses, RunToolMissing,
         RunNotArmed, RunAnnounces, RunPublishes, RunStartsTool, ToolEnds, RunFinishes, WriteState,
         Fresh
<1>3. CASE \E w \in Workers : ConsoleNext(w)
  BY <1>3 DEF ConsoleNext, SyncRequested, PublishRequest, BeginBrowse, BeginMutation,
              EndGuard, SaveRegistration
<1>4. CASE RedisRestart \/ Tick \/ UNCHANGED vars
  BY <1>4 DEF RedisRestart, Tick, vars
<1> QED BY <1>1, <1>2, <1>3, <1>4 DEF EndsNoRun

\* While the scheduler reaps, it has the lock and no run is past its own check.
LEMMA NobodyBuildsWhileReaping ==
  ASSUME IInv, CatalogInv, sched = "reaping"
  PROVE  \A r \in Runs : phase[r] = "none"
BY DescriptorsDiffer
   DEF IInv, LockInv, HousekeepingHolds, Housekeeping, Exclusive, RunsHold, CatalogInv,
       BuildersArePastLock

LEMMA CatalogInvStep ==
  ASSUME IInv, JobIdle, CatalogInv, [CatalogNext]_allVars
  PROVE  CatalogInv'
<1> USE DEF catalogVars, Building, Counted, Renamed
<1>t. /\ phase \in [Runs -> Phases] /\ TypeInv
      /\ pc \in [Runs -> RunPc]
  BY DEF CatalogInv, IInv, TypeInv, TypeOK
<1>1. ASSUME EndsNoRun, UNCHANGED <<phase, workspaces>>
      PROVE  CatalogInv'
  BY <1>1, <1>t, PastLockStays DEF CatalogInv, LiveWorkspaceIsKept, BuildersArePastLock
<1>2. CASE SchedContinues \/ Reconcile \/ OthersContinue \/ ReadStatus \/ UNCHANGED allVars
  <2>1. EndsNoRun
    BY <1>2 DEF SchedContinues, Reconcile, OthersContinue, ReadStatus, allVars, EndsNoRun,
                SchedNext, GoesOn
  <2> QED BY <1>1, <1>2, <2>1 DEF SchedContinues, Reconcile, OthersContinue, ReadStatus, allVars
<1>3. CASE ReapWorkspaces
  <2>1. \A r \in Runs : phase[r] = "none"
    BY <1>3, NobodyBuildsWhileReaping DEF ReapWorkspaces, ReapCatalogWorkspaces
  <2> QED BY <1>3, <2>1, <1>t
             DEF ReapWorkspaces, CatalogInv, LiveWorkspaceIsKept, BuildersArePastLock
<1>4. ASSUME NEW r \in Runs, RunContinues(r)
      PROVE  CatalogInv'
  BY <1>1, <1>4 DEF RunContinues, EndsNoRun, GoesOn
<1>5. ASSUME NEW r \in Runs, OpenAttempt(r)
      PROVE  CatalogInv'
  <2>1. /\ phase' = [phase EXCEPT ![r] = "open"] /\ UNCHANGED workspaces
        /\ pc' = [pc EXCEPT ![r] = "admitted"]
    BY <1>5 DEF OpenAttempt, RunAdmitted
  <2> QED BY <2>1, <1>t
             DEF CatalogInv, LiveWorkspaceIsKept, BuildersArePastLock, PastLock, RunPc, Phases
<1>6. ASSUME NEW r \in Runs, CatalogStep(r)
      PROVE  CatalogInv'
  <2>1. UNCHANGED pc /\ pc[r] \in PastLock
    BY <1>6, <1>t
       DEF CatalogStep, BeginBuild, BuildFails, CountItems, KeepsPrevious, PublishCatalog, RecordResult,
           CloseOnExit, EndBuild, vars, runVars, PastLock, RunPc
  <2>2. CASE BeginBuild(r)
    BY <1>t, <2>1, <2>2
       DEF BeginBuild, CatalogInv, LiveWorkspaceIsKept, BuildersArePastLock, Phases
  <2>3. CASE CountItems(r) \/ PublishCatalog(r)
    <3>1. /\ phase[r] \in Building /\ UNCHANGED workspaces
          /\ \E next \in Building : phase' = [phase EXCEPT ![r] = next]
      BY <2>3 DEF CountItems, PublishCatalog
    <3> QED BY <1>t, <2>1, <3>1 DEF CatalogInv, LiveWorkspaceIsKept, BuildersArePastLock, Phases
  <2>4. CASE BuildFails(r) \/ KeepsPrevious(r) \/ RecordResult(r) \/ CloseOnExit(r)
    <3>1. /\ workspaces' = workspaces \ {r}
          /\ \E next \in {"done", "trapped"} : phase' = [phase EXCEPT ![r] = next]
      BY <2>4 DEF BuildFails, KeepsPrevious, RecordResult, CloseOnExit, EndBuild
    <3> QED BY <1>t, <2>1, <3>1
               DEF CatalogInv, LiveWorkspaceIsKept, BuildersArePastLock, Phases
  <2> QED BY <1>6, <2>2, <2>3, <2>4 DEF CatalogStep
<1>7. ASSUME NEW r \in Runs, EndAttempt(r) \/ KillAttempt(r)
      PROVE  CatalogInv'
  <2>1. \A q \in Runs \ {r} : pc'[q] = pc[q]
    BY <1>7, <1>t DEF EndAttempt, KillAttempt, RunExits, Kill
  <2> QED BY <1>7, <2>1, AbandonKeepsInv DEF EndAttempt, KillAttempt
<1>8. CASE CrashAttempts
  BY <1>8, AbandonKeepsInv DEF CrashAttempts
<1> QED BY <1>2, <1>3, <1>4, <1>5, <1>6, <1>7, <1>8 DEF CatalogNext

\* What is proved of the locks and of the workspaces holds together.
LEMMA CatalogInvariant == CatalogSpec => [](IInv /\ CatalogInv)
<1>1. CatalogInit => JobIdle /\ CatalogInv
  BY CatalogInvInit DEF CatalogInit, Init, JobIdle
<1>2. IInv /\ JobIdle /\ CatalogInv /\ [CatalogNext]_allVars => JobIdle' /\ CatalogInv'
  BY CatalogInvStep, JobIdleStep, CatalogStepIsStep DEF IInv
<1>3. CatalogSpec => []IInv
  BY CatalogExtendsRun, Invariant, PTL
<1> QED BY <1>1, <1>2, <1>3, PTL DEF CatalogSpec

\* A booting scheduler never removes the workspace of a live run, for any number
\* of runs, whoever started them, and under every combination of failures.
THEOREM WorkspacesAreKept == CatalogSpec => []LiveWorkspaceIsKept
<1>1. CatalogInv => LiveWorkspaceIsKept
  BY DEF CatalogInv
<1> QED BY <1>1, CatalogInvariant, PTL

-----------------------------------------------------------------------------
\* Two runs are never past the lock check together.
LEMMA OneBuilds ==
  ASSUME IInv, CatalogInv, NEW r \in Runs, NEW q \in Runs, phase[r] # "none", phase[q] # "none"
  PROVE  r = q
BY DescriptorsDiffer DEF IInv, LockInv, RunsHold, Exclusive, CatalogInv, BuildersArePastLock

\* What a run has counted as empty stays empty until it renames its own catalog.
VacantIsEmpty == \A r \in Runs : phase[r] = "vacant" => ~catalog.items
ItemsInv == /\ catalog \in [items : BOOLEAN, run : Runs \cup {NoRun}]
            /\ VacantIsEmpty

LEMMA ItemsStep ==
  ASSUME IInv, CatalogInv, ItemsInv, [CatalogNext]_allVars
  PROVE  /\ ItemsInv'
         /\ catalog.items /\ ~catalog'.items => \E r \in Runs : phase[r] = "unread"
<1> DEFINE Kept == /\ ItemsInv'
                   /\ catalog.items /\ ~catalog'.items => \E r \in Runs : phase[r] = "unread"
<1> SUFFICES Kept
  OBVIOUS
<1> USE DEF ItemsInv, VacantIsEmpty, catalogVars, Building, Counted, Renamed
<1>t. phase \in [Runs -> Phases]
  BY DEF CatalogInv
<1>1. ASSUME UNCHANGED catalog, \A r \in Runs : phase'[r] = "vacant" => phase[r] = "vacant"
      PROVE  Kept
  BY <1>1
<1>2. CASE SchedContinues \/ ReapWorkspaces \/ Reconcile \/ OthersContinue \/ ReadStatus
           \/ UNCHANGED allVars \/ \E r \in Runs : RunContinues(r)
  BY <1>1, <1>2 DEF SchedContinues, ReapWorkspaces, Reconcile, OthersContinue, ReadStatus, allVars,
                    RunContinues
<1>3. ASSUME NEW r \in Runs,
             OpenAttempt(r) \/ BeginBuild(r) \/ BuildFails(r) \/ KeepsPrevious(r) \/ RecordResult(r)
               \/ CloseOnExit(r)
      PROVE  Kept
  <2>1. /\ UNCHANGED catalog
        /\ \E next \in {"open", "building", "done", "trapped"} : phase' = [phase EXCEPT ![r] = next]
    BY <1>3 DEF OpenAttempt, BeginBuild, BuildFails, KeepsPrevious, RecordResult, CloseOnExit, EndBuild
  <2> QED BY <1>1, <1>t, <2>1
<1>4. ASSUME NEW r \in Runs, CountItems(r)
      PROVE  Kept
  BY <1>4, <1>t DEF CountItems
<1>5. ASSUME NEW r \in Runs, PublishCatalog(r)
      PROVE  Kept
  <2>1. phase[r] \in Counted /\ catalog' \in [items : BOOLEAN, run : Runs \cup {NoRun}]
    BY <1>5 DEF PublishCatalog
  <2>2. phase[r] = "filled" => catalog'.items
    BY <1>5 DEF PublishCatalog
  <2>3. \A q \in Runs : phase'[q] # "vacant"
    <3>1. \A q \in Runs \ {r} : phase[q] = "none"
      BY <2>1, OneBuilds
    <3>2. phase'[r] # "vacant" /\ \A q \in Runs \ {r} : phase'[q] = phase[q]
      BY <1>5, <1>t DEF PublishCatalog
    <3> QED BY <3>1, <3>2
  <2> QED BY <2>1, <2>2, <2>3
<1>6. ASSUME NEW gone \in SUBSET Runs, Abandon(gone)
      PROVE  Kept
  <2>1. /\ catalog' \in [items : BOOLEAN, run : Runs \cup {NoRun}]
        /\ catalog'.items = catalog.items
        /\ \A r \in Runs : phase'[r] = "vacant" => phase[r] = "vacant"
    BY <1>6 DEF Abandon
  <2> QED BY <2>1
<1>7. CASE CrashAttempts \/ \E r \in Runs : EndAttempt(r) \/ KillAttempt(r)
  BY <1>6, <1>7 DEF CrashAttempts, EndAttempt, KillAttempt
<1> HIDE DEF Kept
<1> QED BY <1>2, <1>3, <1>4, <1>5, <1>6, <1>7 DEF CatalogNext, CatalogStep

\* A catalog that lists components becomes empty only by a run whose count of it
\* failed, whatever stops or is killed between the counts and the rename, and for any
\* number of runs, whoever started them.
THEOREM CatalogSurvives == CatalogSpec => NonEmptyCatalogSurvives
<1>1. CatalogInit => ItemsInv
  BY DEF CatalogInit, ItemsInv, VacantIsEmpty
<1>2. IInv /\ CatalogInv /\ ItemsInv /\ [CatalogNext]_allVars =>
        ItemsInv' /\ (catalog.items /\ ~catalog'.items => \E r \in Runs : phase[r] = "unread")
  BY ItemsStep
<1>3. IInv /\ CatalogInv /\ ItemsInv /\ [CatalogNext]_allVars =>
        [catalog.items /\ ~catalog'.items => \E r \in Runs : phase[r] = "unread"]_allVars
  BY <1>2
<1> QED BY <1>1, <1>2, <1>3, CatalogInvariant, PTL DEF CatalogSpec, NonEmptyCatalogSurvives
-----------------------------------------------------------------------------
(***************************************************************************)
(* The times that the console compares.  What it reads as the end of the   *)
(* last run was written before the attempt of a live run was opened, since *)
(* only the holder of the depot lock writes it and that run holds it.      *)
(***************************************************************************)

\* No copy of the status, nor one about to be written, names an end after t.
FinishedBy(t) == /\ state.finishedAt <= t /\ draft.finishedAt <= t
                 /\ bus # NoStatus => bus.finishedAt <= t

LEMMA StatusesAreDated ==
  ASSUME TypeOK
  PROVE  /\ state.finishedAt \in Nat /\ draft.finishedAt \in Nat
         /\ bus # NoStatus => bus.finishedAt \in Nat
         /\ clock \in Nat
BY BoundsAreNumbers DEF TypeOK, Documents

LEMMA FinishedByStep ==
  ASSUME TypeOK, NEW t \in Nat, FinishedBy(t), [Next]_vars,
         (\E r \in Runs : RunFinishes(r)) => clock <= t
  PROVE  FinishedBy(t)'
<1> USE StatusesAreDated, StatusDiffers DEF FinishedBy
<1>1. CASE UNCHANGED <<state, draft, bus>>
  BY <1>1
<1>2. CASE (PublishStatus \/ SetStatus(draft)) /\ UNCHANGED <<state, draft>>
  BY <1>2 DEF PublishStatus, SetStatus
<1>3. CASE SchedNext
  <2> USE DEF schedVars, runVars, fileVars
  <2>1. CASE SchedBoot \/ ReapLock \/ ReapCatalogWorkspaces \/ RefreshRead \/ RefreshLock \/ RefreshSame
             \/ CronNoMatch \/ PopTimeout \/ Fork \/ HandOff
             \/ \E r \in Runs : CronDispatch(r) \/ PopDispatch(r)
    BY <1>1, <2>1
       DEF SchedBoot, ReapLock, ReapCatalogWorkspaces, RefreshRead, RefreshLock, RefreshSame,
           CronNoMatch, PopTimeout, Fork, HandOff, CronDispatch, PopDispatch
  <2>2. CASE InitRead \/ BootRead \/ RefreshDraft
    <3>1. draft'.finishedAt = state.finishedAt /\ UNCHANGED <<state, bus>>
      BY <2>2 DEF InitRead, BootRead, RefreshDraft, TypeOK, Documents
    <3> QED BY <3>1
  <2>3. CASE InitWrite \/ RefreshWrite
    BY <2>3 DEF InitWrite, RefreshWrite
  <2>4. CASE BootPublish \/ RefreshPublish
    BY <1>2, <2>4 DEF BootPublish, RefreshPublish
  <2> QED BY <1>3, <2>1, <2>2, <2>3, <2>4 DEF SchedNext
<1>4. ASSUME NEW r \in Runs, RunNext(r) \/ LaunchDirectly(r) \/ Kill(r)
      PROVE  FinishedBy(t)'
  <2> USE DEF schedVars, fileVars
  <2>1. CASE RunAdmitted(r) \/ RunSkips(r) \/ RunCannotLock(r) \/ RunRefuses(r) \/ RunStartsTool(r)
             \/ ToolEnds(r) \/ RunExits(r) \/ LaunchDirectly(r) \/ Kill(r)
    BY <1>1, <1>2, <2>1 DEF RunAdmitted, RunSkips, RunCannotLock, RunRefuses, RunStartsTool, ToolEnds,
                      RunExits, LaunchDirectly, Kill
  <2>2. CASE RunToolMissing(r) \/ RunNotArmed(r) \/ RunAnnounces(r)
    <3>1. state'.finishedAt = state.finishedAt /\ UNCHANGED <<draft, bus>>
      BY <2>2 DEF RunToolMissing, RunNotArmed, RunAnnounces, WriteState, TypeOK, Documents
    <3> QED BY <3>1
  <2>3. CASE RunFinishes(r)
    <3>1. (state'.finishedAt = clock \/ UNCHANGED state) /\ UNCHANGED <<draft, bus>>
      BY <2>3 DEF RunFinishes, WriteState, TypeOK, Documents
    <3> QED BY <2>3, <3>1
  <2>4. CASE RunPublishes(r)
    BY <1>2, <2>4 DEF RunPublishes
  <2> QED BY <1>4, <2>1, <2>2, <2>3, <2>4 DEF RunNext
<1>5. CASE \E w \in Workers : ConsoleNext(w)
  BY <1>1, <1>5 DEF ConsoleNext, SyncRequested, PublishRequest, BeginBrowse, BeginMutation, EndGuard,
              SaveRegistration, schedVars, fileVars
<1>6. CASE Crash \/ RedisRestart \/ Tick \/ UNCHANGED vars
  BY <1>6 DEF Crash, RedisRestart, Tick, vars, schedVars, fileVars
<1> QED BY <1>3, <1>4, <1>5, <1>6 DEF Next

\* The clock does not go back.
LEMMA ClockRuns ==
  ASSUME TypeOK, [Next]_vars
  PROVE  clock <= clock'
<1> USE StatusesAreDated
<1>1. ASSUME NEW r \in Runs, RunNext(r) \/ LaunchDirectly(r) \/ Kill(r)
      PROVE  UNCHANGED clock
  BY <1>1 DEF RunNext, RunAdmitted, RunSkips, RunCannotLock, RunRefuses, RunToolMissing, RunNotArmed,
              RunAnnounces, RunPublishes, RunStartsTool, ToolEnds, RunFinishes, RunExits, WriteState,
              LaunchDirectly, Kill
<1>2. CASE SchedNext
  BY <1>2 DEF SchedNext, SchedBoot, ReapLock, ReapCatalogWorkspaces, InitRead, InitWrite,
              BootRead, BootPublish, RefreshRead, RefreshLock, RefreshSame, RefreshDraft, RefreshWrite,
              RefreshPublish, CronDispatch, CronNoMatch, PopDispatch, PopTimeout, Fork, HandOff
<1>3. CASE \E w \in Workers : ConsoleNext(w)
  BY <1>3 DEF ConsoleNext, SyncRequested, PublishRequest, BeginBrowse, BeginMutation, EndGuard,
              SaveRegistration
<1>4. CASE Crash \/ RedisRestart \/ Tick \/ UNCHANGED vars
  BY <1>4 DEF Crash, RedisRestart, Tick, vars
<1> QED BY <1>1, <1>2, <1>3, <1>4 DEF Next

\* Every time that was written is one the clock has shown.
TimesArePast == FinishedBy(clock) /\ seen <= clock

\* The attempt of a live run is that of a run which has the depot lock, and is newer
\* than every end that the console can have read or can still read.
AttemptIsLive == attempt.run \in Runs => phase[attempt.run] # "none"
AttemptIsNewest ==
  attempt.status = "running" /\ attempt.run \in Runs /\ phase[attempt.run] # "trapped" =>
    FinishedBy(attempt.startedAt) /\ seen <= attempt.startedAt

AttemptInv == /\ CatalogTypeOK /\ TimesArePast
              /\ AttemptIsLive /\ AttemptIsNewest

LEMMA AttemptInvInit == CatalogInit => AttemptInv
<1> SUFFICES ASSUME CatalogInit PROVE AttemptInv
  OBVIOUS
<1>1. CatalogTypeOK
  <2>1. 0 \in 0..MaxClock
    BY BoundsAreNumbers
  <2>2. attempt \in [status : Statuses, run : Runs \cup {NoRun}, startedAt : 0..MaxClock]
    BY <2>1 DEF CatalogInit, Statuses
  <2> QED BY <2>1, <2>2 DEF CatalogInit, CatalogTypeOK, Phases, Building, Counted, Renamed
<1>2. FinishedBy(clock) /\ clock = 0
  BY DEF CatalogInit, Init, FinishedBy
<1> QED BY <1>1, <1>2, ActorsDiffer
           DEF CatalogInit, AttemptInv, TimesArePast, AttemptIsLive, AttemptIsNewest

\* What the console reads is one of the copies.
LEMMA SeenStep ==
  ASSUME TypeOK, CatalogTypeOK, NEW t \in Nat, FinishedBy(t), seen <= t, [CatalogNext]_allVars
  PROVE  seen' <= t /\ seen' \in Nat
<1>t. seen \in Nat
  BY BoundsAreNumbers DEF CatalogTypeOK
<1> USE <1>t
<1>1. CASE ReadStatus
  BY <1>1, StatusesAreDated DEF ReadStatus, ConsoleState, FinishedBy
<1>2. CASE UNCHANGED seen
  BY <1>2
<1>3. CASE UNCHANGED catalogVars
  BY <1>2, <1>3 DEF catalogVars
<1>4. CASE SchedContinues \/ ReapWorkspaces \/ Reconcile \/ OthersContinue
  BY <1>2, <1>4 DEF SchedContinues, ReapWorkspaces, Reconcile, OthersContinue, catalogVars
<1>5. ASSUME NEW r \in Runs, OpenAttempt(r) \/ CatalogStep(r) \/ RunContinues(r)
      PROVE  UNCHANGED seen
  BY <1>5 DEF OpenAttempt, CatalogStep, BeginBuild, BuildFails, CountItems, KeepsPrevious, PublishCatalog,
              RecordResult, CloseOnExit, EndBuild, RunContinues, catalogVars
<1>6. CASE CrashAttempts \/ \E r \in Runs : EndAttempt(r) \/ KillAttempt(r)
  BY <1>2, <1>6 DEF CrashAttempts, EndAttempt, KillAttempt, Abandon
<1> QED BY <1>1, <1>2, <1>3, <1>4, <1>5, <1>6 DEF CatalogNext, allVars

\* A run finishes behind its own attempt.
LEMMA FinishedRunIsTrapped ==
  ASSUME TypeOK, [CatalogNext]_allVars, NEW q \in Runs, RunFinishes(q)
  PROVE  phase[q] = "trapped"
<1>1. pc \in [Runs -> RunPc] /\ pc[q] = "working" /\ pc'[q] \in {"finished", "exiting"}
  BY DEF RunFinishes, WriteState, TypeOK
<1>2. CASE UNCHANGED pc
  BY <1>1, <1>2
<1>3. CASE SchedContinues \/ ReapWorkspaces \/ Reconcile
  <2>1. CASE Fork
    BY <1>1, <2>1 DEF Fork
  <2>2. UNCHANGED pc \/ Fork
    BY <1>3 DEF SchedContinues, ReapWorkspaces, Reconcile, SchedBoot, ReapLock,
                ReapCatalogWorkspaces, InitRead, InitWrite, BootRead, BootPublish, RefreshRead, RefreshLock,
                RefreshSame, RefreshDraft, RefreshWrite, RefreshPublish, CronDispatch,
                CronNoMatch, PopDispatch, PopTimeout, HandOff, runVars
  <2> QED BY <1>2, <2>1, <2>2
<1>4. ASSUME NEW r \in Runs, OpenAttempt(r) \/ EndAttempt(r) \/ KillAttempt(r) \/ LaunchDirectly(r)
      PROVE  FALSE
  BY <1>1, <1>4 DEF OpenAttempt, EndAttempt, KillAttempt, RunAdmitted, RunExits, Kill,
                    LaunchDirectly, Fresh
<1>5. ASSUME NEW r \in Runs, RunContinues(r)
      PROVE  phase[q] = "trapped"
  <2>1. CASE phase[r] = "trapped" /\ RunFinishes(r)
    BY <1>1, <2>1 DEF RunFinishes, WriteState
  <2>2. CASE RunSkips(r) \/ RunCannotLock(r) \/ RunRefuses(r) \/ RunToolMissing(r)
             \/ RunNotArmed(r) \/ RunAnnounces(r)
    BY <1>1, <2>2 DEF RunSkips, RunCannotLock, RunRefuses, RunToolMissing, RunNotArmed,
                      RunAnnounces, WriteState
  <2>3. CASE RunPublishes(r) \/ ToolEnds(r) \/ RunStartsTool(r)
    BY <1>1, <2>3 DEF RunPublishes, ToolEnds, RunStartsTool
  <2> QED BY <1>5, <2>1, <2>2, <2>3 DEF RunContinues
<1>6. ASSUME NEW r \in Runs, CatalogStep(r)
      PROVE  UNCHANGED pc
  BY <1>6 DEF CatalogStep, BeginBuild, BuildFails, CountItems, KeepsPrevious, PublishCatalog, RecordResult,
              CloseOnExit, EndBuild, vars, runVars
<1>7. CASE CrashAttempts
  BY <1>1, <1>7 DEF CrashAttempts, Crash
<1>8. CASE OthersContinue
  BY <1>2, <1>4, <1>8 DEF OthersContinue, ConsoleNext, SyncRequested, PublishRequest, BeginBrowse,
                    BeginMutation, EndGuard, SaveRegistration, RedisRestart, Tick, runVars
<1>9. CASE ReadStatus \/ UNCHANGED allVars
  BY <1>2, <1>9 DEF ReadStatus, allVars, vars, runVars
<1> QED BY <1>2, <1>3, <1>4, <1>5, <1>6, <1>7, <1>8, <1>9 DEF CatalogNext

\* As long as an attempt is live and not closed on exit, no run finishes: its own
\* is not that far, and no other one has the lock.
LEMMA LiveAttemptHoldsOff ==
  ASSUME IInv, CatalogInv, AttemptIsLive, attempt.run \in Runs, phase[attempt.run] # "trapped",
         [CatalogNext]_allVars
  PROVE  ~ \E q \in Runs : RunFinishes(q)
<1> SUFFICES ASSUME NEW q \in Runs, RunFinishes(q) PROVE FALSE
  OBVIOUS
<1>1. phase[q] = "trapped"
  BY FinishedRunIsTrapped DEF IInv, TypeInv
<1>2. pc[q] \in PastLock /\ pc[attempt.run] \in PastLock
  BY <1>1 DEF CatalogInv, BuildersArePastLock, AttemptIsLive
<1> QED BY <1>1, <1>2, DescriptorsDiffer DEF IInv, LockInv, RunsHold, Exclusive

\* The attempt after a step is the live one from before or has just been opened.
Renewed ==
  attempt'.status = "running" /\ attempt'.run \in Runs /\ phase'[attempt'.run] # "trapped" =>
    \/ /\ attempt'.startedAt = attempt.startedAt /\ attempt'.run = attempt.run
       /\ attempt.status = "running" /\ phase[attempt.run] # "trapped"
    \/ attempt'.startedAt = clock

AttemptGoesOn ==
  /\ attempt' \in [status : Statuses, run : Runs \cup {NoRun}, startedAt : 0..MaxClock]
  /\ catalog' \in [items : BOOLEAN, run : Runs \cup {NoRun}]
  /\ matches' \in BOOLEAN /\ phase' \in [Runs -> Phases]
  /\ open' \subseteq Runs /\ started' \in [Runs -> 0..MaxClock] /\ workspaces' \subseteq Runs
  /\ AttemptIsLive' /\ Renewed

LEMMA AttemptStep ==
  ASSUME TypeOK, CatalogInv, CatalogTypeOK, AttemptIsLive, [CatalogNext]_allVars
  PROVE  AttemptGoesOn
<1> USE ActorsDiffer DEF CatalogTypeOK, AttemptIsLive, AttemptGoesOn, Renewed, catalogVars
<1>1. CASE SchedContinues \/ ReapWorkspaces \/ OthersContinue \/ ReadStatus \/ UNCHANGED allVars
           \/ \E r \in Runs : RunContinues(r)
  BY <1>1 DEF SchedContinues, ReapWorkspaces, OthersContinue, ReadStatus, RunContinues, allVars
<1>2. CASE Reconcile
  BY <1>2 DEF Reconcile, Statuses
<1>3. ASSUME NEW r \in Runs, OpenAttempt(r)
      PROVE  AttemptGoesOn
  <2>1. attempt.run # r /\ clock \in 0..MaxClock
    BY <1>3 DEF OpenAttempt, RunAdmitted, CatalogInv, BuildersArePastLock, PastLock, TypeOK
  <2>2. /\ attempt' = [status |-> "running", run |-> r, startedAt |-> clock] /\ matches' = FALSE
        \/ UNCHANGED <<attempt, matches>>
    BY <1>3 DEF OpenAttempt
  <2>3. /\ phase' = [phase EXCEPT ![r] = "open"] /\ started' = [started EXCEPT ![r] = clock]
        /\ open' = open \cup {r} /\ UNCHANGED <<catalog, workspaces>>
    BY <1>3 DEF OpenAttempt
  <2>4. /\ phase' \in [Runs -> Phases] /\ started' \in [Runs -> 0..MaxClock] /\ open' \subseteq Runs
        /\ matches' \in BOOLEAN
    BY <2>1, <2>2, <2>3 DEF Phases
  <2>5. attempt' \in [status : Statuses, run : Runs \cup {NoRun}, startedAt : 0..MaxClock]
    BY <2>1, <2>2 DEF Statuses
  <2>6. AttemptIsLive'
    BY <2>1, <2>2, <2>3
  <2>7. Renewed
    <3>1. CASE UNCHANGED attempt
      BY <2>1, <2>3, <3>1
    <3>2. CASE attempt' = [status |-> "running", run |-> r, startedAt |-> clock]
      BY <3>2
    <3> QED BY <2>2, <3>1, <3>2
  <2> QED BY <2>3, <2>4, <2>5, <2>6, <2>7
<1>4. ASSUME NEW r \in Runs, CatalogStep(r)
      PROVE  AttemptGoesOn
  <2> USE DEF Phases, Building, Counted, Renamed, Statuses
  <2>1. CASE BeginBuild(r)
    BY <2>1 DEF BeginBuild
  <2>2. CASE PublishCatalog(r)
    BY <2>2 DEF PublishCatalog
  <2>c. CASE CountItems(r)
    BY <2>c DEF CountItems
  <2>3. CASE BuildFails(r) \/ KeepsPrevious(r) \/ RecordResult(r) \/ CloseOnExit(r)
    <3>1. /\ workspaces' = workspaces \ {r} /\ UNCHANGED <<catalog, started>>
          /\ \E next \in {"done", "trapped"} : phase' = [phase EXCEPT ![r] = next]
      BY <2>3 DEF BuildFails, KeepsPrevious, RecordResult, CloseOnExit, EndBuild
    <3>2. phase[r] # "trapped"
      BY <2>3 DEF BuildFails, KeepsPrevious, RecordResult, CloseOnExit, EndBuild
    <3>3. \/ /\ \E status \in Statuses \ {"running"} :
                  attempt' = [status |-> status, run |-> r, startedAt |-> started[r]]
             /\ matches' \in BOOLEAN /\ open' = open \ {r}
          \/ UNCHANGED <<attempt, matches, open>>
      BY <2>3 DEF BuildFails, KeepsPrevious, RecordResult, CloseOnExit, FailAttempt, WriteAttempt
    <3> QED BY <3>1, <3>2, <3>3
  <2> QED BY <1>4, <2>1, <2>2, <2>3, <2>c DEF CatalogStep
<1>5. ASSUME NEW gone \in SUBSET Runs, Abandon(gone)
      PROVE  AttemptGoesOn
  <2>1. 0 \in 0..MaxClock
    BY BoundsAreNumbers
  <2> QED BY <1>5, <2>1 DEF Abandon, Phases
<1>6. CASE CrashAttempts \/ \E r \in Runs : EndAttempt(r) \/ KillAttempt(r)
  BY <1>5, <1>6 DEF CrashAttempts, EndAttempt, KillAttempt
<1> QED BY <1>1, <1>2, <1>3, <1>4, <1>6 DEF CatalogNext

LEMMA AttemptInvStep ==
  ASSUME IInv, IInv', CatalogInv, AttemptInv, [CatalogNext]_allVars
  PROVE  AttemptInv'
<1>t. /\ TypeOK /\ TypeOK' /\ CatalogTypeOK
      /\ clock \in 0..MaxClock /\ clock' \in 0..MaxClock /\ 0..MaxClock \subseteq Nat
  BY BoundsAreNumbers DEF IInv, TypeInv, AttemptInv, TypeOK
<1>1. [Next]_vars
  BY CatalogStepIsStep
<1>2. clock <= clock'
  BY <1>t, <1>1, ClockRuns
<1>3. AttemptGoesOn
  BY <1>t, AttemptStep DEF AttemptInv
<1>4. /\ state'.finishedAt <= clock /\ draft'.finishedAt <= clock
      /\ bus' # NoStatus => bus'.finishedAt <= clock
      /\ seen' <= clock /\ seen' \in Nat
  BY <1>t, <1>1, FinishedByStep, SeenStep DEF AttemptInv, TimesArePast, FinishedBy
<1>5. ASSUME attempt.status = "running", attempt.run \in Runs, phase[attempt.run] # "trapped"
      PROVE  /\ state'.finishedAt <= attempt.startedAt /\ draft'.finishedAt <= attempt.startedAt
             /\ bus' # NoStatus => bus'.finishedAt <= attempt.startedAt
             /\ seen' <= attempt.startedAt
  <2>1. /\ FinishedBy(attempt.startedAt) /\ seen <= attempt.startedAt
        /\ attempt.startedAt \in Nat
    BY <1>t, <1>5 DEF AttemptInv, AttemptIsNewest, CatalogTypeOK
  <2>2. ~ \E q \in Runs : RunFinishes(q)
    BY <1>5, LiveAttemptHoldsOff DEF AttemptInv
  <2> QED BY <1>t, <1>1, <2>1, <2>2, FinishedByStep, SeenStep DEF FinishedBy
<1>6. AttemptIsNewest'
  BY <1>3, <1>4, <1>5 DEF AttemptIsNewest, AttemptGoesOn, Renewed, FinishedBy
<1>7. FinishedBy(clock)' /\ seen' <= clock' /\ seen' \in 0..MaxClock
  <2>1. /\ state'.finishedAt \in Nat /\ draft'.finishedAt \in Nat
        /\ bus' # NoStatus => bus'.finishedAt \in Nat
    BY <1>t DEF TypeOK, Documents
  <2>2. clock \in Nat /\ clock' \in Nat /\ clock' <= MaxClock /\ MaxClock \in Nat
    BY <1>t, BoundsAreNumbers
  <2>3. seen' <= clock' /\ seen' \in 0..MaxClock
    BY <1>2, <1>4, <2>2
  <2>4. FinishedBy(clock)'
    BY <1>2, <1>4, <2>1, <2>2 DEF FinishedBy
  <2> QED BY <2>3, <2>4
<1> QED BY <1>3, <1>6, <1>7 DEF AttemptInv, AttemptGoesOn, TimesArePast, CatalogTypeOK

LEMMA AttemptInvariant == CatalogSpec => []AttemptInv
<1>1. CatalogInit => AttemptInv
  BY AttemptInvInit
<1>2. IInv /\ IInv' /\ CatalogInv /\ AttemptInv /\ [CatalogNext]_allVars => AttemptInv'
  BY AttemptInvStep
<1> QED BY <1>1, <1>2, CatalogInvariant, PTL DEF CatalogSpec

\* The attempt, the catalog and the phases keep their shapes, and the times they
\* name stay within the clock's range.
THEOREM CatalogTypeCorrect == CatalogSpec => []CatalogTypeOK
<1>1. AttemptInv => CatalogTypeOK
  BY DEF AttemptInv
<1> QED BY <1>1, AttemptInvariant, PTL

\* The console never calls the update of a live run interrupted, for any number of
\* runs and any clock, however old the sync status that it compares with.
THEOREM LiveAttemptIsShown == CatalogSpec => []LiveAttemptIsNotInterrupted
<1>1. AttemptInv => LiveAttemptIsNotInterrupted
  <2> SUFFICES ASSUME AttemptInv, NEW r \in Runs, attempt.status = "running", attempt.run = r,
                      phase[r] # "trapped"
               PROVE  Reported # "interrupted"
    BY DEF LiveAttemptIsNotInterrupted
  <2>1. seen <= attempt.startedAt /\ seen \in Nat /\ attempt.startedAt \in Nat
    BY BoundsAreNumbers DEF AttemptInv, AttemptIsNewest, CatalogTypeOK
  <2>2. ~ (seen > attempt.startedAt)
    BY <2>1
  <2> QED BY <2>2 DEF Reported
<1> QED BY <1>1, AttemptInvariant, PTL
=============================================================================
