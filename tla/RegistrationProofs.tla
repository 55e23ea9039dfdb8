------------------------- MODULE RegistrationProofs -------------------------
(***************************************************************************)
(* Machine-checked proofs about Registration, for any identities, workers, *)
(* starts and failures: an install leaves a registered identity alone, and *)
(* the tool is not launched again and again by a start of the console.     *)
(***************************************************************************)
EXTENDS Registration, TLAPS

\* Where the holder of the lock can be.
HolderIsPlaced ==
  /\ lock = "install" => step \in {"probe", "judge", "auth", "switch", "link"}
  /\ lock \in {"rollback", "verify"} \cup Workers => step \in {"probe", "record"} /\ Installed
  /\ step = "link" => Installed

\* A candidate that is about to be linked has left the registered identity alone.
CandidateIsClean ==
  lock = "install" /\ registered /\ step \in {"switch", "link"} => idfile = before

\* After the one launch of this start the current release counts as verified, unless
\* a rollback has just put another one in its place.
LaunchCounts ==
  launched > 0 /\ ~unrecorded =>
    \/ lock \in Workers /\ launched = 1
    \/ launched = 1 /\ lock \notin Workers
       /\ (lock = "rollback" \/ (Installed /\ current.probed /\ current.recent))

RegistrationInv == /\ RegistrationTypeOK /\ HolderIsPlaced /\ CandidateIsClean /\ LaunchCounts

LEMMA ProbedIsMetadata ==
  ASSUME NEW id \in Known
  PROVE  /\ Probed(id) \in Metadata /\ Probed(id) # NoRelease
         /\ Probed(id).probed /\ Probed(id).recent
<1>1. Probed(id) \in Metadata /\ Probed(id).probed /\ Probed(id).recent
  BY DEF Probed, Metadata
<1> QED BY <1>1, RecordsDiffer

LEMMA ReconcileKeepsTypes ==
  ASSUME RegistrationTypeOK, NEW id \in Known, NEW n \in Nat, Reconcile(id, n)
  PROVE  saved' \in Known /\ adoption' \in Adoptions \cup {NoAdoption}
<1>1. saved' \in Known
  BY DEF Reconcile, RegistrationTypeOK
<1>2. ASSUME adoption # NoAdoption
      PROVE  [status |-> IF id = adoption.adopted THEN "confirmed" ELSE "mismatch",
              adopted |-> adoption.adopted, reported |-> id] \in Adoptions
  BY <1>2 DEF RegistrationTypeOK, Adoptions
<1> QED BY <1>1, <1>2 DEF Reconcile, RegistrationTypeOK

LEMMA WrittenIsCount ==
  ASSUME NEW k \in Nat, NEW n \in Written(k)
  PROVE  n \in 0..k
BY DEF Written

LEMMA RegistrationInvInit == Init => RegistrationInv
<1> SUFFICES ASSUME Init PROVE RegistrationInv
  OBVIOUS
<1>1. [probed |-> FALSE, id |-> NoId, recent |-> FALSE] \in Metadata
  BY DEF Metadata, Known
<1>2. RegistrationTypeOK
  <2>1. starts \in 0..MaxStarts /\ launched \in Nat
    BY RegistrationFaults DEF Init
  <2>2. /\ current \in Metadata \cup {NoRelease} /\ previous = NoRelease /\ old = NoRelease
        /\ verifier \in [Workers -> {"waiting", "trying", "done"}]
    BY <1>1 DEF Init
  <2> QED BY <2>1, <2>2 DEF Init, RegistrationTypeOK, Known
<1>3. HolderIsPlaced /\ CandidateIsClean /\ LaunchCounts
  BY WorkersDiffer DEF Init, HolderIsPlaced, CandidateIsClean, LaunchCounts
<1> QED BY <1>2, <1>3 DEF RegistrationInv

-----------------------------------------------------------------------------
(* The steps of an install.                                                *)

LEMMA InstallKeepsInv ==
  ASSUME RegistrationInv, BeginInstall \/ ProbeCandidate \/ AuthenticateCandidate \/ AcceptCandidate
  PROVE  RegistrationInv' /\ lock' = "install"
<1> USE DEF BeginInstall, Lock, ProbeCandidate, AuthenticateCandidate, AcceptCandidate, KeepsIdentity,
            recordVars, startVars, RegistrationInv
<1>1. /\ lock \in {"free", "install"} /\ lock' = "install"
      /\ step' \in {"probe", "judge", "auth", "switch"}
      /\ UNCHANGED <<saved, adoption, code, current, previous, old, startVars>>
  BY WorkersDiffer DEF RegistrationTypeOK, HolderIsPlaced, Requests
<1>2. idfile' \in Known /\ result' \in Known /\ before' \in Known /\ registered' \in BOOLEAN
  BY DEF RegistrationTypeOK, CandidateReads, ToolReads, Known
<1>3. RegistrationTypeOK'
  BY <1>1, <1>2, WorkersDiffer DEF RegistrationTypeOK, Requests
<1>4. HolderIsPlaced'
  BY <1>1, WorkersDiffer DEF HolderIsPlaced, Requests
<1>5. CandidateIsClean'
  BY WorkersDiffer DEF CandidateIsClean, RegistrationTypeOK, HolderIsPlaced, Requests
<1>6. LaunchCounts'
  BY <1>1, WorkersDiffer DEF LaunchCounts, Installed, Requests
<1> QED BY <1>1, <1>3, <1>4, <1>5, <1>6

LEMMA SwitchKeepsInv ==
  ASSUME RegistrationInv, SwitchTool
  PROVE  RegistrationInv' /\ lock' = "install"
<1> USE DEF SwitchTool, startVars, RegistrationInv
<1>1. lock = "install"
  BY WorkersDiffer DEF HolderIsPlaced, RegistrationTypeOK, Requests
<1>2. current' = Probed(result) /\ Probed(result) \in Metadata /\ Probed(result) # NoRelease
      /\ Probed(result).probed /\ Probed(result).recent
  BY ProbedIsMetadata DEF RegistrationTypeOK
<1>3. RegistrationTypeOK'
  BY <1>1, <1>2 DEF RegistrationTypeOK
<1>4. HolderIsPlaced'
  BY <1>1, <1>2, WorkersDiffer DEF HolderIsPlaced, Installed, Requests
<1>5. CandidateIsClean'
  BY <1>1 DEF CandidateIsClean
<1>6. LaunchCounts'
  BY <1>1, <1>2, WorkersDiffer DEF LaunchCounts, Installed, Requests
<1> QED BY <1>1, <1>3, <1>4, <1>5, <1>6

\* The two ways an install ends.
LEMMA InstallEndsKeepInv ==
  ASSUME RegistrationInv, RefuseCandidate \/ FinishInstall
  PROVE  /\ RegistrationInv' /\ lock = "install"
         /\ registered => idfile' = before
<1> USE DEF RefuseCandidate, FinishInstall, Unlock, startVars, RegistrationInv
<1>1. /\ lock = "install" /\ lock' = "free" /\ step' = "none" /\ result' = NoId
      /\ before' = NoId /\ old' = NoRelease /\ registered' = FALSE
      /\ UNCHANGED <<code, current, startVars>>
  BY WorkersDiffer DEF HolderIsPlaced, RegistrationTypeOK, Requests
<1>2. /\ saved' \in Known /\ adoption' \in Adoptions \cup {NoAdoption}
      /\ previous' \in {previous, old}
      /\ previous' # NoRelease => Installed
  <2>1. CASE RefuseCandidate
    BY <2>1 DEF RegistrationTypeOK, Installed
  <2>2. CASE FinishInstall
    <3>1. PICK n \in Written(2) : Reconcile(result, n) /\ previous' = IF n = 2 THEN old ELSE previous
      BY <2>2
    <3>2. n \in Nat
      BY WrittenIsCount
    <3> QED BY <2>2, <3>1, <3>2, ReconcileKeepsTypes DEF RegistrationTypeOK, HolderIsPlaced
  <2> QED BY <2>1, <2>2
<1>3. idfile' \in Known /\ (registered => idfile' = before)
  BY <1>1 DEF RegistrationTypeOK, CandidateIsClean
<1>4. RegistrationTypeOK'
  BY <1>1, <1>2, <1>3 DEF RegistrationTypeOK, Known, Installed
<1>5. HolderIsPlaced' /\ CandidateIsClean' /\ LaunchCounts'
  BY <1>1, WorkersDiffer DEF HolderIsPlaced, CandidateIsClean, LaunchCounts, Installed, Requests
<1> QED BY <1>1, <1>3, <1>4, <1>5

-----------------------------------------------------------------------------
(* The steps of a rollback and of the verifications.                       *)

LEMMA BeginProbeKeepsInv ==
  ASSUME RegistrationInv, Rollback \/ BeginVerify
  PROVE  RegistrationInv' /\ lock = "free"
<1> USE DEF Rollback, BeginVerify, Lock, recordVars, startVars, RegistrationInv
<1>1. /\ lock = "free" /\ lock' \in {"rollback", "verify"} /\ step' = "probe"
      /\ UNCHANGED <<idfile, saved, adoption, code, result, before, old, registered, startVars>>
      /\ \/ current' = previous /\ previous' = current /\ previous # NoRelease /\ lock' = "rollback"
         \/ UNCHANGED <<current, previous>> /\ Installed
  BY DEF RegistrationTypeOK
<1>2. RegistrationTypeOK'
  BY <1>1, WorkersDiffer DEF RegistrationTypeOK, Requests, Installed
<1>3. HolderIsPlaced' /\ CandidateIsClean' /\ LaunchCounts'
  BY <1>1, WorkersDiffer DEF HolderIsPlaced, CandidateIsClean, LaunchCounts, Installed, Requests,
     RegistrationTypeOK
<1> QED BY <1>1, <1>2, <1>3

LEMMA ProbeCurrentKeepsInv ==
  ASSUME RegistrationInv, ProbeCurrent
  PROVE  RegistrationInv' /\ lock # "install"
<1> USE DEF ProbeCurrent, startVars, RegistrationInv
<1>1. /\ lock' = lock /\ lock # "install" /\ step = "probe" /\ step' = "record"
      /\ UNCHANGED <<saved, adoption, code, current, previous, before, old, registered, startVars>>
  OBVIOUS
<1>2. idfile' \in Known /\ result' \in Known
  BY DEF RegistrationTypeOK, ToolReads, Known
<1>3. RegistrationTypeOK'
  BY <1>1, <1>2, WorkersDiffer DEF RegistrationTypeOK, Requests
<1>4. HolderIsPlaced' /\ CandidateIsClean' /\ LaunchCounts'
  BY <1>1, WorkersDiffer DEF HolderIsPlaced, CandidateIsClean, LaunchCounts, Installed, Requests,
     RegistrationTypeOK
<1> QED BY <1>1, <1>3, <1>4

LEMMA RecordProbeKeepsInv ==
  ASSUME RegistrationInv, RecordProbe
  PROVE  RegistrationInv' /\ lock # "install"
<1> USE DEF RecordProbe, Unlock, RegistrationInv
<1>1. /\ lock \in {"rollback", "verify"} \cup Workers /\ Installed /\ lock # "install"
  BY WorkersDiffer DEF HolderIsPlaced, RegistrationTypeOK, Requests
<1>2. PICK n \in Written(3) :
        /\ current' = IF n > 0 THEN Probed(result) ELSE current
        /\ Reconcile(result, IF n = 0 THEN 0 ELSE n - 1)
        /\ unrecorded' = (unrecorded \/ n = 0)
  OBVIOUS
<1>3. n \in Nat /\ (IF n = 0 THEN 0 ELSE n - 1) \in Nat
  BY WrittenIsCount
<1>4. saved' \in Known /\ adoption' \in Adoptions \cup {NoAdoption}
  BY <1>2, <1>3, ReconcileKeepsTypes DEF RegistrationTypeOK
<1>5. /\ Probed(result) \in Metadata /\ Probed(result) # NoRelease
      /\ Probed(result).probed /\ Probed(result).recent
  BY ProbedIsMetadata DEF RegistrationTypeOK
<1>6. current' \in Metadata /\ current' # NoRelease
  BY <1>1, <1>2, <1>5 DEF Installed, RegistrationTypeOK
<1>7. /\ lock' = "free" /\ step' = "none" /\ result' = NoId
      /\ before' = NoId /\ old' = NoRelease /\ registered' = FALSE
      /\ UNCHANGED <<idfile, code, previous, starts, launched>>
  OBVIOUS
<1>8. unrecorded' \in BOOLEAN
  BY <1>2 DEF RegistrationTypeOK
<1>9. verifier' \in [Workers -> {"waiting", "trying", "done"}]
  BY DEF RegistrationTypeOK
<1>10. RegistrationTypeOK'
  BY <1>4, <1>6, <1>7, <1>8, <1>9 DEF RegistrationTypeOK, Known
<1>11. HolderIsPlaced' /\ CandidateIsClean'
  BY <1>6, <1>7, WorkersDiffer DEF HolderIsPlaced, CandidateIsClean, Installed
<1>12. LaunchCounts'
  <2> SUFFICES ASSUME launched > 0, ~unrecorded'
               PROVE  launched = 1 /\ current'.probed /\ current'.recent
    BY <1>6, <1>7, WorkersDiffer DEF LaunchCounts, Installed
  <2>1. n # 0 /\ ~unrecorded
    BY <1>2, Zenon
  <2> n > 0
    BY <2>1, <1>3
  <2>2. launched = 1
    BY <2>1 DEF LaunchCounts
  <2> QED BY <2>1, <2>2, <1>2, <1>5
<1> QED BY <1>1, <1>10, <1>11, <1>12

-----------------------------------------------------------------------------
(* The other steps.                                                        *)

\* Requests without the lock, the runs, and what changes the identity file from
\* outside; none of them touches a release.
LEMMA OthersKeepInv ==
  ASSUME RegistrationInv,
         SaveCode \/ SyncBegins \/ SyncEnds \/ IdentityMoves \/ \E id \in Ids : Adopt(id)
  PROVE  RegistrationInv' /\ ~(lock = "install" /\ lock' = "free")
<1> USE DEF SaveCode, SyncBegins, SyncEnds, IdentityMoves, Adopt, recordVars, holderVars, startVars,
            RegistrationInv
<1>1. /\ UNCHANGED <<current, previous, step, result, before, old, registered, startVars>>
      /\ \/ lock' = lock /\ idfile' = idfile
         \/ lock \in {"free", "sync"} /\ lock' \in {"free", "sync"}
      /\ lock = "install" => lock' = "install"
  BY DEF RegistrationTypeOK
<1>2. idfile' \in Known
  BY DEF RegistrationTypeOK, ToolReads, Known
<1>3. saved' \in Known /\ code' \in BOOLEAN
  BY DEF RegistrationTypeOK, Known
<1>4. adoption' \in Adoptions \cup {NoAdoption}
  <2>1. \A id \in Ids : [status |-> "adopted", adopted |-> id, reported |-> NoId] \in Adoptions
    BY DEF Adoptions, Known
  <2> QED BY <2>1 DEF RegistrationTypeOK
<1>5. RegistrationTypeOK'
  BY <1>1, <1>2, <1>3, <1>4 DEF RegistrationTypeOK
<1>6. HolderIsPlaced' /\ CandidateIsClean' /\ LaunchCounts'
  BY <1>1, WorkersDiffer DEF HolderIsPlaced, CandidateIsClean, LaunchCounts, Installed, Requests,
     RegistrationTypeOK
<1> QED BY <1>1, <1>5, <1>6

\* The verification threads.
LEMMA VerifierKeepsInv ==
  ASSUME RegistrationInv, NEW w \in Workers, CheckNeed(w) \/ Deferred(w) \/ Launch(w)
  PROVE  RegistrationInv' /\ ~(lock = "install" /\ lock' = "free")
<1> USE DEF CheckNeed, Deferred, Launch, Lock, recordVars, holderVars, RegistrationInv
<1>1. /\ UNCHANGED <<recordVars, result, before, old, registered, starts, unrecorded>>
      /\ verifier' \in [Workers -> {"waiting", "trying", "done"}]
      /\ \/ UNCHANGED <<lock, step, launched>>
         \/ Needed /\ lock = "free" /\ lock' = w /\ step' = "probe" /\ launched' = launched + 1
  BY DEF RegistrationTypeOK
<1>2. RegistrationTypeOK'
  BY <1>1, WorkersDiffer DEF RegistrationTypeOK, Requests
<1>3. HolderIsPlaced' /\ CandidateIsClean'
  BY <1>1, WorkersDiffer DEF HolderIsPlaced, CandidateIsClean, Installed, Requests, Needed,
     RegistrationTypeOK
<1>4. LaunchCounts'
  BY <1>1, WorkersDiffer DEF LaunchCounts, Installed, Needed, RegistrationTypeOK
<1> QED BY <1>1, <1>2, <1>3, <1>4, WorkersDiffer DEF Requests

LEMMA RestartKeepsInv ==
  ASSUME RegistrationInv, ConsoleRestarts
  PROVE  RegistrationInv'
<1> USE DEF ConsoleRestarts, Unlock, holderVars, RegistrationInv
<1>1. /\ UNCHANGED <<idfile, saved, adoption, code>> /\ launched' = 0 /\ unrecorded' = FALSE
      /\ verifier' \in [Workers -> {"waiting", "trying", "done"}]
      /\ \/ lock' = lock /\ lock = "sync" /\ UNCHANGED holderVars
         \/ lock' = "free" /\ step' = "none" /\ result' = NoId /\ before' = NoId
            /\ old' = NoRelease /\ registered' = FALSE
  OBVIOUS
<1>2. starts' \in 0..MaxStarts
  BY RegistrationFaults DEF RegistrationTypeOK
<1>3. ASSUME NEW m \in Metadata \cup {NoRelease}
      PROVE  /\ NotRecent(m) \in Metadata \cup {NoRelease}
             /\ NotRecent(m) = NoRelease <=> m = NoRelease
  BY RecordsDiffer DEF NotRecent, Metadata
<1>4. /\ current' \in Metadata \cup {NoRelease} /\ previous' \in Metadata \cup {NoRelease}
      /\ previous' # NoRelease => current' # NoRelease
  BY <1>3 DEF RegistrationTypeOK
<1>5. /\ result' \in Known /\ before' \in Known /\ registered' \in BOOLEAN
      /\ old' \in Metadata \cup {NoRelease} /\ lock' \in {"free", "sync"} /\ step' = "none"
  BY <1>1 DEF RegistrationTypeOK, Known
<1> HIDE DEF ConsoleRestarts
<1>6. RegistrationTypeOK'
  BY <1>1, <1>2, <1>4, <1>5 DEF RegistrationTypeOK
<1>7. HolderIsPlaced' /\ CandidateIsClean' /\ LaunchCounts'
  BY <1>1, <1>5, WorkersDiffer DEF HolderIsPlaced, CandidateIsClean, LaunchCounts, Requests
<1> QED BY <1>6, <1>7

-----------------------------------------------------------------------------
(* The theorems.                                                           *)

LEMMA RegistrationStep ==
  ASSUME RegistrationInv, [Next]_vars
  PROVE  /\ RegistrationInv'
         /\ lock = "install" /\ registered /\ lock' = "free" => idfile' = before \/ ConsoleRestarts
<1>1. CASE HolderStep
  BY <1>1, InstallKeepsInv, SwitchKeepsInv, InstallEndsKeepInv, ProbeCurrentKeepsInv,
     RecordProbeKeepsInv DEF HolderStep
<1>2. CASE BeginInstall \/ Rollback \/ BeginVerify
  BY <1>2, InstallKeepsInv, BeginProbeKeepsInv DEF BeginInstall, Lock
<1>3. CASE SaveCode \/ SyncBegins \/ SyncEnds \/ IdentityMoves \/ \E id \in Ids : Adopt(id)
  BY <1>3, OthersKeepInv
<1>4. CASE \E w \in Workers : CheckNeed(w) \/ Deferred(w) \/ Launch(w)
  BY <1>4, VerifierKeepsInv
<1>5. CASE ConsoleRestarts
  BY <1>5, RestartKeepsInv
<1>6. CASE UNCHANGED vars
  BY <1>6 DEF vars, recordVars, holderVars, startVars, RegistrationInv, RegistrationTypeOK,
     HolderIsPlaced, CandidateIsClean, LaunchCounts, Installed
<1> QED BY <1>1, <1>2, <1>3, <1>4, <1>5, <1>6 DEF Next

LEMMA RegistrationInvariant == Spec => []RegistrationInv
<1>1. RegistrationInv /\ [Next]_vars => RegistrationInv'
  BY RegistrationStep
<1> QED BY RegistrationInvInit, <1>1, PTL DEF Spec

\* The records, the holder of the update lock and the threads have their types.
THEOREM RegistrationTypeCorrect == Spec => []RegistrationTypeOK
<1>1. RegistrationInv => RegistrationTypeOK
  BY DEF RegistrationInv
<1> QED BY RegistrationInvariant, <1>1, PTL

\* With any number of workers and any interleaving with installs, rollbacks and runs,
\* a start of the console launches the tool once for its verification.
THEOREM LaunchedOnce == Spec => []OnceAStart
<1>1. RegistrationInv => OnceAStart
  BY DEF RegistrationInv, LaunchCounts, OnceAStart, RegistrationTypeOK
<1> QED BY RegistrationInvariant, <1>1, PTL

\* Whatever a candidate does to the identity, a registered appliance has its own when
\* the install has ended.
THEOREM InstallKeepsRegistration == Spec => RegistrationSurvivesInstall
<1>1. RegistrationInv /\ [Next]_vars =>
        [lock = "install" /\ registered /\ lock' = "free" => idfile' = before \/ ConsoleRestarts]_vars
  BY RegistrationStep
<1> QED BY RegistrationInvariant, <1>1, PTL DEF Spec, RegistrationSurvivesInstall
=============================================================================
