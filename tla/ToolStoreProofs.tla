-------------------------- MODULE ToolStoreProofs --------------------------
(***************************************************************************)
(* Machine-checked proofs about ToolStore, for any releases and any number *)
(* of console threads: as long as no rollback is cut short, the links name *)
(* releases that exist, a run keeps the release it has, and the store      *)
(* implements ReleasePair.                                                 *)
(***************************************************************************)
EXTENDS ToolStore, TLAPS

\* A rename that leaves both links on one release is always under way.
Swapping == step \in {"half", "restore"}

\* One thread is at work, and only without a run.
OwnerWorks == owner = NoWorker <=> step = "none"
RunsAlone == HoldsTool => step = "none"

\* The two links differ outside of a swap.
LinksDiffer == current # NoRelease /\ ~Swapping => current # previous

\* What the owner remembers, at each of its steps.
InstallRemembers ==
  /\ step = "staged" => /\ new \in releases /\ new \notin {current, previous}
                        /\ old = current
  /\ step = "switched" => /\ current = new /\ new # old /\ new # NoRelease
                          /\ doomed = previous /\ {old} \ {NoRelease} \subseteq releases
  /\ step = "linked" => /\ current = new /\ previous = old /\ new # old /\ new # NoRelease
                        /\ doomed # new
RollbackRemembers ==
  /\ step = "rollback" => new = previous /\ old = current /\ new # old
  /\ Swapping => current = new /\ previous = new /\ new # old
  /\ step = "rollback" \/ Swapping => new \in releases /\ old \in releases

\* What a promotion is about to remove.
PromotionSpares == run = "promoting" => previous = NoRelease /\ doomed # current

ToolInv == /\ ToolTypeOK /\ LinksResolve /\ RunKeepsItsRelease
           /\ OwnerWorks /\ RunsAlone /\ LinksDiffer
           /\ InstallRemembers /\ RollbackRemembers /\ PromotionSpares

LEMMA ToolInvInit == Init => ToolInv
BY DEF Init, ToolInv, ToolTypeOK, LinksResolve, RunKeepsItsRelease, OwnerWorks, RunsAlone,
       LinksDiffer, InstallRemembers, RollbackRemembers, PromotionSpares, Swapping, HoldsTool,
       Links

LEMMA InstallKeepsInv ==
  ASSUME ToolInv,
         \/ \E w \in Workers, r \in Releases : StageRelease(w, r)
         \/ SwitchCurrent \/ LinkPrevious \/ RemoveOlder
  PROVE  ToolInv'
<1> USE ToolFaults
    DEF ToolInv, ToolTypeOK, LinksResolve, RunKeepsItsRelease, OwnerWorks, RunsAlone, LinksDiffer,
        InstallRemembers, RollbackRemembers, PromotionSpares, Swapping, HoldsTool, Links, runVars
<1>1. ASSUME NEW w \in Workers, NEW r \in Releases, StageRelease(w, r)
      PROVE  ToolInv'
  BY <1>1 DEF StageRelease, LockTool, MayLock
<1>2. CASE SwitchCurrent
  BY <1>2 DEF SwitchCurrent
<1>3. CASE LinkPrevious
  BY <1>3 DEF LinkPrevious, Done
<1>4. CASE RemoveOlder
  BY <1>4 DEF RemoveOlder, Done
<1> QED BY <1>1, <1>2, <1>3, <1>4

LEMMA RollbackKeepsInv ==
  ASSUME ToolInv,
         \/ \E w \in Workers : BeginRollback(w)
         \/ SwapCurrent \/ SwapPrevious \/ RestoreCurrent
  PROVE  ToolInv'
<1> USE ToolFaults
    DEF ToolInv, ToolTypeOK, LinksResolve, RunKeepsItsRelease, OwnerWorks, RunsAlone, LinksDiffer,
        InstallRemembers, RollbackRemembers, PromotionSpares, Swapping, HoldsTool, Links, runVars
<1>1. ASSUME NEW w \in Workers, BeginRollback(w)
      PROVE  ToolInv'
  BY <1>1 DEF BeginRollback, LockTool, MayLock, linkVars
<1>2. CASE SwapCurrent
  BY <1>2 DEF SwapCurrent
<1>3. CASE SwapPrevious
  BY <1>3 DEF SwapPrevious, Done
<1>4. CASE RestoreCurrent
  BY <1>4 DEF RestoreCurrent, Done
<1> QED BY <1>1, <1>2, <1>3, <1>4

LEMMA SyncKeepsInv ==
  ASSUME ToolInv, SyncNext
  PROVE  ToolInv'
<1> USE ToolFaults
    DEF ToolInv, ToolTypeOK, LinksResolve, RunKeepsItsRelease, OwnerWorks, RunsAlone, LinksDiffer,
        InstallRemembers, RollbackRemembers, PromotionSpares, Swapping, HoldsTool, Links,
        linkVars, consoleVars
<1>1. CASE RunLocksTool
  BY <1>1 DEF RunLocksTool
<1>2. CASE RunAnnounces
  BY <1>2 DEF RunAnnounces
<1>3. CASE Promote
  BY <1>3 DEF Promote
<1>4. CASE RemovePrevious
  BY <1>4 DEF RemovePrevious
<1>5. CASE RunFinishes
  BY <1>5 DEF RunFinishes
<1>6. CASE RunExits
  BY <1>6 DEF RunExits
<1>7. CASE SyncStops
  BY <1>7 DEF SyncStops
<1>8. CASE SchedulerBoots
  BY <1>8 DEF SchedulerBoots
<1> QED BY <1>1, <1>2, <1>3, <1>4, <1>5, <1>6, <1>7, <1>8 DEF SyncNext

\* A console that stops during an install leaves usable links behind.
LEMMA StopKeepsInv ==
  ASSUME ToolInv, "rollback" \notin Faults, ConsoleStops
  PROVE  ToolInv'
BY ToolFaults
   DEF ConsoleStops, Done, ToolInv, ToolTypeOK, LinksResolve, RunKeepsItsRelease, OwnerWorks,
       RunsAlone, LinksDiffer, InstallRemembers, RollbackRemembers, PromotionSpares, Swapping,
       HoldsTool, Links, linkVars, runVars

LEMMA IdleKeepsInv ==
  ASSUME ToolInv, UNCHANGED vars
  PROVE  ToolInv'
BY DEF vars, linkVars, consoleVars, runVars, ToolInv, ToolTypeOK, LinksResolve,
       RunKeepsItsRelease, OwnerWorks, RunsAlone, LinksDiffer, InstallRemembers,
       RollbackRemembers, PromotionSpares, Swapping, HoldsTool, Links

LEMMA ToolInvariant ==
  ASSUME "rollback" \notin Faults
  PROVE  Spec => []ToolInv
<1>1. ToolInv /\ [Next]_vars => ToolInv'
  BY InstallKeepsInv, RollbackKeepsInv, SyncKeepsInv, StopKeepsInv, IdleKeepsInv
     DEF Next, ConsoleNext, InstallFails
<1> QED BY ToolInvInit, <1>1, PTL DEF Spec

\* The links, the install under way and the run keep their shapes, and a run past its
\* lock check has a release.
THEOREM ToolTypeCorrect ==
  ASSUME "rollback" \notin Faults
  PROVE  Spec => []ToolTypeOK
<1>1. ToolInv => ToolTypeOK
  BY DEF ToolInv
<1> QED BY ToolInvariant, <1>1, PTL

\* Installs, rollbacks with a failing rename and promotions, and an install or a
\* promotion cut short, never leave a link without its release.
THEOREM LinksAlwaysResolve ==
  ASSUME "rollback" \notin Faults
  PROVE  Spec => []LinksResolve
<1>1. ToolInv => LinksResolve
  BY DEF ToolInv
<1> QED BY ToolInvariant, <1>1, PTL

\* A run downloads with one release from the moment it has the tool until it ends.
THEOREM RunKeepsTool ==
  ASSUME "rollback" \notin Faults
  PROVE  Spec => []RunKeepsItsRelease
<1>1. ToolInv => RunKeepsItsRelease
  BY DEF ToolInv
<1> QED BY ToolInvariant, <1>1, PTL

\* A sync removes the release before the one it has promoted, as sync.sh:1166 says;
\* only a rollback cut short between its renames makes it remove the promoted one.
THEOREM PromotionRemovesOlder ==
  ASSUME "rollback" \notin Faults
  PROVE  Spec => PromotionRemovesPrevious
<1>1. ToolInv /\ [Next]_vars => [RemovePrevious => doomed # current]_vars
  BY DEF ToolInv, PromotionSpares, RemovePrevious
<1> QED BY ToolInvariant, <1>1, PTL DEF Spec, PromotionRemovesPrevious

-----------------------------------------------------------------------------
(* The store implements ReleasePair.                                       *)

LEMMA PairInit == Init => Pair!Init
BY DEF Init, Pair!Init, HoldsTool

\* An install happens when the previous link is replaced, or when the console gives up
\* on it; releases come and go at its first and last steps.
LEMMA InstallIsAbstract ==
  ASSUME ToolInv, ToolInv',
         \/ \E w \in Workers, r \in Releases : StageRelease(w, r)
         \/ SwitchCurrent \/ LinkPrevious \/ RemoveOlder
         \/ ConsoleStops /\ "rollback" \notin Faults
  PROVE  [Pair!Next]_Pair!vars
<1> USE ToolFaults
    DEF ToolInv, ToolTypeOK, LinksResolve, OwnerWorks, RunsAlone, LinksDiffer, InstallRemembers,
        Swapping, HoldsTool, Links, runVars, Pair!Next, Pair!vars
<1>1. ASSUME NEW w \in Workers, NEW r \in Releases, StageRelease(w, r)
      PROVE  Pair!Store
  <2>1. step = "none" /\ step' = "staged" /\ ~HoldsTool /\ ~HoldsTool'
    BY <1>1 DEF StageRelease, LockTool, MayLock
  <2>2. current' = current /\ previous' = previous /\ releases' \subseteq Releases
    BY <1>1 DEF StageRelease
  <2> QED BY <2>1, <2>2 DEF Pair!Store, Pair!Kept
<1>2. CASE SwitchCurrent
  BY <1>2 DEF SwitchCurrent
<1>3. CASE LinkPrevious
  <2>1. new \in Releases /\ Pair!Install(new)
    BY <1>3 DEF LinkPrevious, Done, Pair!Install
  <2> QED BY <2>1
<1>4. CASE RemoveOlder
  <2>1. Pair!Store
    BY <1>4 DEF RemoveOlder, Done, Pair!Store, Pair!Kept
  <2> QED BY <2>1
<1>5. CASE ConsoleStops /\ "rollback" \notin Faults /\ step = "switched"
  <2>1. new \in Releases /\ Pair!Install(new)
    BY <1>5 DEF ConsoleStops, Done, linkVars, Pair!Install
  <2> QED BY <2>1
<1>6. CASE ConsoleStops /\ "rollback" \notin Faults /\ step # "switched"
  BY <1>6 DEF ConsoleStops, Done, linkVars
<1> QED BY <1>1, <1>2, <1>3, <1>4, <1>5, <1>6

\* A rollback happens at its second rename, and not at all when that fails.
LEMMA RollbackIsAbstract ==
  ASSUME ToolInv, ToolInv',
         \/ \E w \in Workers : BeginRollback(w)
         \/ SwapCurrent \/ SwapPrevious \/ RestoreCurrent
  PROVE  [Pair!Next]_Pair!vars
<1> USE ToolFaults
    DEF ToolInv, ToolTypeOK, LinksResolve, OwnerWorks, RunsAlone, LinksDiffer, RollbackRemembers,
        Swapping, HoldsTool, Links, runVars, Pair!Next, Pair!vars
<1>1. ASSUME NEW w \in Workers, BeginRollback(w)
      PROVE  UNCHANGED Pair!vars
  BY <1>1 DEF BeginRollback, LockTool, MayLock, linkVars
<1>2. CASE SwapCurrent
  BY <1>2 DEF SwapCurrent
<1>3. CASE SwapPrevious
  <2>1. Pair!Rollback \/ UNCHANGED Pair!vars
    BY <1>3 DEF SwapPrevious, Done, Pair!Rollback
  <2> QED BY <2>1
<1>4. CASE RestoreCurrent
  BY <1>4 DEF RestoreCurrent, Done
<1> QED BY <1>1, <1>2, <1>3, <1>4

\* A run begins with its lock and ends when the lock is released, however that happens.
LEMMA SyncIsAbstract ==
  ASSUME ToolInv, ToolInv', SyncNext
  PROVE  [Pair!Next]_Pair!vars
<1> USE ToolFaults
    DEF ToolInv, ToolTypeOK, LinksResolve, RunKeepsItsRelease, OwnerWorks, RunsAlone,
        PromotionSpares, HoldsTool, Links, linkVars, consoleVars, Pair!Next, Pair!vars
<1>1. CASE RunLocksTool
  <2>1. Pair!Begin
    BY <1>1 DEF RunLocksTool, Pair!Begin
  <2> QED BY <2>1
<1>2. CASE RunAnnounces
  BY <1>2 DEF RunAnnounces
<1>3. CASE Promote
  <2>1. Pair!Promote
    BY <1>3 DEF Promote, Pair!Promote
  <2> QED BY <2>1
<1>4. CASE RemovePrevious
  <2>1. Pair!Store
    BY <1>4 DEF RemovePrevious, Pair!Store, Pair!Kept
  <2> QED BY <2>1
<1>5. CASE RunFinishes
  BY <1>5 DEF RunFinishes
<1>6. CASE RunExits
  <2>1. Pair!End
    BY <1>6 DEF RunExits, Pair!End
  <2> QED BY <2>1
<1>7. CASE SyncStops
  <2>1. Pair!End
    BY <1>7 DEF SyncStops, Pair!End
  <2> QED BY <2>1
<1>8. CASE SchedulerBoots
  BY <1>8 DEF SchedulerBoots
<1> QED BY <1>1, <1>2, <1>3, <1>4, <1>5, <1>6, <1>7, <1>8 DEF SyncNext

LEMMA PairStep ==
  ASSUME ToolInv, ToolInv', "rollback" \notin Faults, [Next]_vars
  PROVE  [Pair!Next]_Pair!vars
<1>1. CASE UNCHANGED vars
  BY <1>1 DEF vars, linkVars, consoleVars, runVars, HoldsTool, Pair!vars
<1>2. CASE InstallFails
  BY <1>2 DEF InstallFails, vars, linkVars, consoleVars, runVars, HoldsTool, Pair!vars
<1> QED BY InstallIsAbstract, RollbackIsAbstract, SyncIsAbstract, <1>1, <1>2
        DEF Next, ConsoleNext

\* Installs and rollbacks are atomic to a sync run, what is active or to fall back to is
\* on the volume, and a run keeps the release it began with.
THEOREM ImplementsReleasePair ==
  ASSUME "rollback" \notin Faults
  PROVE  Spec => KeepsPair
<1>1. ToolInv /\ ToolInv' /\ [Next]_vars => [Pair!Next]_Pair!vars
  BY PairStep
<1> QED BY ToolInvariant, PairInit, <1>1, PTL DEF Spec, KeepsPair, Pair!Spec
=============================================================================
