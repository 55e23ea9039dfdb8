----------------------- MODULE SettingsSnapshotProofs -----------------------
(***************************************************************************)
(* Machine-checked proofs about SettingsSnapshot, for any number of        *)
(* console threads, values and runs.                                       *)
(***************************************************************************)
EXTENDS SettingsSnapshot, TLAPS

LEMMA SnapshotTypeInit == Init => SnapshotTypeOK
<1> SUFFICES ASSUME Init PROVE SnapshotTypeOK
  OBVIOUS
<1>1. MaxRuns \in Nat
  BY SnapshotBounds
<1>2. PICK v \in Values : /\ settings = [f \in Fields |-> v] /\ endpoints = v
                            /\ snapshot = settings /\ form = [w \in Workers |-> settings]
  BY DEF Init
<1>3. /\ settings \in Documents /\ snapshot \in Documents /\ endpoints \in Values
      /\ form \in [Workers -> Documents]
  BY <1>2 DEF Documents
<1>4. /\ identity \in 0..MaxRuns /\ number \in 0..MaxRuns /\ target \in [Workers -> 0..MaxRuns]
      /\ pending \in [run : 0..MaxRuns, fields : SUBSET Fields]
  BY <1>1 DEF Init
<1>5. /\ running \in BOOLEAN /\ run \in RunPc /\ save \in [Workers -> SavePc]
      /\ changed \in [Workers -> SUBSET Fields] /\ taken \in [Workers -> BOOLEAN]
      /\ shared \subseteq Workers /\ overtaken \in BOOLEAN
  BY DEF Init, RunPc, SavePc
<1> QED BY <1>3, <1>4, <1>5 DEF SnapshotTypeOK

LEMMA RunKeepsType ==
  ASSUME SnapshotTypeOK, RunNext
  PROVE  SnapshotTypeOK'
<1> USE SnapshotBounds DEF SnapshotTypeOK, RunPc, saveVars, fileVars
<1>1. CASE RunNames
  BY <1>1 DEF RunNames
<1>2. CASE RunLocksSnapshot \/ LoadSettings \/ RunLocksTool \/ RunAnnounces \/ RunFinishes
           \/ RunExits \/ RunCrashes \/ SchedulerBoots
  BY <1>2 DEF RunLocksSnapshot, LoadSettings, RunLocksTool, RunAnnounces, RunFinishes, RunExits,
              RunCrashes, SchedulerBoots
<1> QED BY <1>1, <1>2 DEF RunNext

LEMMA AnswersType ==
  ASSUME SnapshotTypeOK, NEW w \in Workers, Answers(w)
  PROVE  /\ save' \in [Workers -> SavePc] /\ form' \in [Workers -> Documents]
         /\ changed' \in [Workers -> SUBSET Fields] /\ taken' \in [Workers -> BOOLEAN]
         /\ target' \in [Workers -> 0..MaxRuns] /\ shared' \subseteq Workers
BY SnapshotBounds DEF SnapshotTypeOK, Answers, Goes, SavePc

LEMMA SaveKeepsType ==
  ASSUME SnapshotTypeOK, NEW w \in Workers, SaveNext(w)
  PROVE  SnapshotTypeOK'
<1> USE SnapshotBounds DEF SnapshotTypeOK, SavePc, Goes, runVars, fileVars
<1>1. ASSUME NEW f \in Fields, NEW v \in Values, BeginSave(w, f, v)
      PROVE  SnapshotTypeOK'
  BY <1>1 DEF BeginSave, Documents
<1>2. CASE Compare(w)
  BY <1>2 DEF Compare
<1>3. CASE Guard(w)
  <2>1. CASE Answers(w)
    BY <1>3, <2>1, AnswersType DEF Guard
  <2>2. CASE ~Answers(w)
    <3>1. taken' = [taken EXCEPT ![w] = HoldsSnapshot \/ running]
      BY <1>3, <2>2 DEF Guard
    <3>2. HoldsSnapshot \/ running \in BOOLEAN
      BY DEF HoldsSnapshot
    <3> QED BY <1>3, <2>2, <3>1, <3>2 DEF Guard
  <2> QED BY <2>1, <2>2
<1>4. CASE IdentifyRun(w)
  BY <1>4 DEF IdentifyRun
<1>5. CASE LockTool(w)
  <2>1. CASE Answers(w)
    BY <1>5, <2>1, AnswersType DEF LockTool
  <2>2. CASE ~Answers(w)
    BY <1>5, <2>2 DEF LockTool
  <2> QED BY <2>1, <2>2
<1>6. CASE WriteSettings(w)
  BY <1>6 DEF WriteSettings, Documents, Fields
<1>7. CASE RecordPending(w)
  BY <1>7 DEF RecordPending
<1>8. CASE Answer(w)
  BY <1>8, AnswersType DEF Answer
<1> QED BY <1>1, <1>2, <1>3, <1>4, <1>5, <1>6, <1>7, <1>8 DEF SaveNext

\* Type correctness of runs and saves.
THEOREM SnapshotTypeCorrect == Spec => []SnapshotTypeOK
<1>1. SnapshotTypeOK /\ UNCHANGED vars => SnapshotTypeOK'
  BY DEF SnapshotTypeOK, vars, runVars, saveVars, fileVars
<1>2. SnapshotTypeOK /\ [Next]_vars => SnapshotTypeOK'
  BY <1>1, RunKeepsType, SaveKeepsType DEF Next
<1> QED BY SnapshotTypeInit, <1>2, PTL DEF Spec

-----------------------------------------------------------------------------
(***************************************************************************)
(* What a save knows.  A save that holds the snapshot lock keeps runs away *)
(* from it.  A save that met a run holds nothing: it knows the identity    *)
(* that run has, and that the marker it left names its fields, for as long *)
(* as no other run starts.  When one does, the last run is overtaken, and  *)
(* nothing is claimed until a run starts that meets no such save.          *)
(***************************************************************************)
LocksExclude == HoldsSnapshot => shared = {}

Classified == {"identify", "tool", "write", "record", "answer"}
UntakenHolds == \A w \in Workers : save[w] \in Classified /\ ~taken[w] => w \in shared
OnlySaversTake == \A w \in Workers : save[w] \notin Classified => ~taken[w] /\ w \notin shared
MetRunIsTheLast == ~overtaken /\ Bare # {} => run # "named"
TargetIsCurrent ==
  ~overtaken => \A w \in Bare : save[w] # "identify" => target[w] = identity
MarkerNamesSave ==
  ~overtaken /\ HoldsSnapshot =>
    \A w \in Bare : save[w] = "answer" /\ changed[w] # {} =>
      pending.run = identity /\ changed[w] \subseteq pending.fields
RunningWasAnnounced == running => run \in {"announced", "dead"}

SaveInv == /\ LocksExclude /\ UntakenHolds /\ OnlySaversTake /\ MetRunIsTheLast
           /\ TargetIsCurrent /\ MarkerNamesSave /\ RunningWasAnnounced
SettingsInv == SnapshotTypeOK /\ SaveInv

LEMMA SaveInvInit == Init => SaveInv
BY DEF Init, SaveInv, LocksExclude, UntakenHolds, OnlySaversTake, MetRunIsTheLast,
       TargetIsCurrent, MarkerNamesSave, RunningWasAnnounced, HoldsSnapshot, Classified, Bare

LEMMA RunKeepsSaveInv ==
  ASSUME SettingsInv, RunNext
  PROVE  SaveInv'
<1> USE DEF SettingsInv, SnapshotTypeOK, SaveInv, LocksExclude, UntakenHolds, OnlySaversTake,
            MetRunIsTheLast, TargetIsCurrent, MarkerNamesSave, RunningWasAnnounced, HoldsSnapshot,
            Classified, Bare, saveVars, fileVars
<1>1. CASE RunNames
  BY <1>1 DEF RunNames
<1>2. CASE RunLocksSnapshot
  BY <1>2 DEF RunLocksSnapshot
<1>3. CASE LoadSettings \/ RunLocksTool \/ RunAnnounces \/ RunFinishes
  BY <1>3 DEF LoadSettings, RunLocksTool, RunAnnounces, RunFinishes
<1>4. CASE RunExits \/ RunCrashes \/ SchedulerBoots
  BY <1>4 DEF RunExits, RunCrashes, SchedulerBoots
<1> QED BY <1>1, <1>2, <1>3, <1>4 DEF RunNext

\* An answered save has nothing left to know.
LEMMA AnswersKeepSaveInv ==
  ASSUME SettingsInv, NEW w \in Workers, Answers(w), UNCHANGED <<runVars, running, fileVars>>
  PROVE  SaveInv'
BY DEF Answers, Goes, SettingsInv, SnapshotTypeOK, SaveInv, LocksExclude, UntakenHolds,
       OnlySaversTake, MetRunIsTheLast, TargetIsCurrent, MarkerNamesSave, RunningWasAnnounced,
       HoldsSnapshot, Classified, Bare, runVars, fileVars

LEMMA SaveKeepsSaveInv ==
  ASSUME SettingsInv, NEW w \in Workers, SaveNext(w)
  PROVE  SaveInv'
<1> USE DEF SettingsInv, SnapshotTypeOK, SaveInv, LocksExclude, UntakenHolds, OnlySaversTake,
            MetRunIsTheLast, TargetIsCurrent, MarkerNamesSave, RunningWasAnnounced, HoldsSnapshot,
            Classified, Bare, Goes, runVars, fileVars
<1>1. ASSUME NEW f \in Fields, NEW v \in Values, BeginSave(w, f, v)
      PROVE  SaveInv'
  BY <1>1 DEF BeginSave
<1>2. CASE Compare(w)
  BY <1>2 DEF Compare
<1>3. CASE Guard(w)
  <2>1. CASE Answers(w)
    BY <1>3, <2>1, AnswersKeepSaveInv DEF Guard
  <2>2. CASE ~Answers(w)
    <3>1. /\ save' = [save EXCEPT ![w] = "identify"]
          /\ taken' = [taken EXCEPT ![w] = HoldsSnapshot \/ running]
          /\ shared' = IF HoldsSnapshot THEN shared ELSE shared \cup {w}
          /\ UNCHANGED <<form, changed, target, runVars, running, fileVars>>
      BY <1>3, <2>2 DEF Guard
    <3>2. \A v \in Workers \ {w} : /\ save'[v] = save[v] /\ taken'[v] = taken[v]
                                 /\ v \in shared' <=> v \in shared
      BY <3>1
    <3>3. save'[w] = "identify" /\ (taken'[w] <=> HoldsSnapshot \/ running)
      BY <3>1
    <3>4. LocksExclude' /\ RunningWasAnnounced'
      BY <3>1
    <3>5. UntakenHolds' /\ OnlySaversTake'
      BY <3>1, <3>2, <3>3
    <3>6. MetRunIsTheLast' /\ TargetIsCurrent' /\ MarkerNamesSave'
      BY <3>1, <3>2, <3>3
    <3> QED BY <3>4, <3>5, <3>6
  <2> QED BY <2>1, <2>2
<1>4. CASE IdentifyRun(w)
  BY <1>4 DEF IdentifyRun
<1>5. CASE LockTool(w)
  <2>1. CASE Answers(w)
    BY <1>5, <2>1, AnswersKeepSaveInv DEF LockTool
  <2>2. CASE ~Answers(w)
    BY <1>5, <2>2 DEF LockTool
  <2> QED BY <2>1, <2>2
<1>6. CASE WriteSettings(w)
  BY <1>6 DEF WriteSettings
<1>7. CASE RecordPending(w)
  BY <1>7 DEF RecordPending
<1>8. CASE Answer(w)
  BY <1>8, AnswersKeepSaveInv DEF Answer
<1> QED BY <1>1, <1>2, <1>3, <1>4, <1>5, <1>6, <1>7, <1>8 DEF SaveNext

\* A save whose answer says that a field is in use now tells the truth, for any
\* number of threads and runs, for every run that did not start during a save which
\* had met the one before.
THEOREM SavedFieldsAreUsed == Spec => []SavedIsUsed
<1>1. SettingsInv /\ UNCHANGED vars => SaveInv'
  BY DEF SettingsInv, SaveInv, LocksExclude, UntakenHolds, OnlySaversTake, MetRunIsTheLast,
         TargetIsCurrent, MarkerNamesSave, RunningWasAnnounced, HoldsSnapshot, Bare,
         vars, runVars, saveVars, fileVars
<1>2. SettingsInv /\ [Next]_vars => SaveInv'
  BY <1>1, RunKeepsSaveInv, SaveKeepsSaveInv DEF Next
<1>3. SettingsInv => SavedIsUsed
  BY DEF SettingsInv, SnapshotTypeOK, SaveInv, LocksExclude, UntakenHolds, MarkerNamesSave,
         HasLoaded, Classified, Bare, SavedIsUsed, Shown
<1> QED BY SaveInvInit, SnapshotTypeCorrect, <1>2, <1>3, PTL DEF SettingsInv, Spec

-----------------------------------------------------------------------------
\* Nobody patches the tool while a run has it.
PatchersExclude == HoldsTool => Patchers = {}

LEMMA PatchersStep ==
  ASSUME SnapshotTypeOK, PatchersExclude, [Next]_vars
  PROVE  PatchersExclude' /\ (HoldsTool => endpoints' = endpoints)
<1> USE DEF PatchersExclude, Patchers, HoldsTool, SnapshotTypeOK, Goes, runVars, saveVars, fileVars
<1>1. CASE RunLocksTool
  BY <1>1 DEF RunLocksTool
<1>2. CASE RunNames \/ RunLocksSnapshot \/ LoadSettings \/ RunAnnounces \/ RunFinishes \/ RunExits
           \/ RunCrashes \/ SchedulerBoots
  BY <1>2 DEF RunNames, RunLocksSnapshot, LoadSettings, RunAnnounces, RunFinishes, RunExits,
              RunCrashes, SchedulerBoots
<1>3. ASSUME NEW w \in Workers, SaveNext(w)
      PROVE  PatchersExclude' /\ (HoldsTool => endpoints' = endpoints)
  <2>a. ASSUME Answers(w), UNCHANGED <<runVars, running, fileVars>>
        PROVE  PatchersExclude'
    BY <2>a DEF Answers
  <2>1. ASSUME NEW f \in Fields, NEW v \in Values, BeginSave(w, f, v)
        PROVE  PatchersExclude' /\ endpoints' = endpoints
    BY <2>1 DEF BeginSave
  <2>2. CASE Compare(w) \/ IdentifyRun(w) \/ RecordPending(w)
    BY <2>2 DEF Compare, IdentifyRun, RecordPending
  <2>3. CASE Guard(w) \/ LockTool(w) \/ Answer(w)
    <3>1. CASE Answers(w)
      BY <2>3, <2>a, <3>1 DEF Guard, LockTool, Answer
    <3>2. CASE Guard(w) /\ ~Answers(w)
      <4>1. save' = [save EXCEPT ![w] = "identify"] /\ UNCHANGED <<changed, runVars, fileVars>>
        BY <3>2 DEF Guard
      <4> QED BY <4>1
    <3>3. CASE LockTool(w) /\ ~Answers(w)
      BY <3>3 DEF LockTool
    <3> QED BY <2>3, <3>1, <3>2, <3>3 DEF Answer
  <2>4. CASE WriteSettings(w)
    BY <2>4 DEF WriteSettings
  <2> QED BY <1>3, <2>1, <2>2, <2>3, <2>4 DEF SaveNext
<1>4. CASE UNCHANGED vars
  BY <1>4 DEF vars
<1> QED BY <1>1, <1>2, <1>3, <1>4 DEF Next, RunNext

\* The endpoints the mounted tool reads stay as they are from the moment a run
\* has the tool until it ends, whatever is saved meanwhile.
THEOREM EndpointsDoNotMove == Spec => EndpointsStay
<1>1. Init => PatchersExclude
  BY DEF Init, PatchersExclude, HoldsTool
<1>2. SnapshotTypeOK /\ PatchersExclude /\ [Next]_vars => PatchersExclude'
  BY PatchersStep
<1>3. SnapshotTypeOK /\ PatchersExclude /\ [Next]_vars =>
        [HoldsTool => endpoints' = endpoints]_vars
  BY PatchersStep
<1> QED BY SnapshotTypeCorrect, <1>1, <1>2, <1>3, PTL DEF Spec, EndpointsStay
=============================================================================
