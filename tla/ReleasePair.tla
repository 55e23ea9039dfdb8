---------------------------- MODULE ReleasePair ----------------------------
(***************************************************************************)
(* What the tool store promises.  There is an active release and one to    *)
(* fall back to, and whichever exists is on the volume.  An install and a  *)
(* rollback happen at once and never during a sync run; a run keeps the    *)
(* release it began with.                                                  *)
(***************************************************************************)
CONSTANTS Releases, NoRelease

VARIABLES active, fallback,
          stored,  \* releases on the volume
          inUse    \* the release a sync run downloads with

vars == <<active, fallback, stored, inUse>>

Init == active = NoRelease /\ fallback = NoRelease /\ stored = {} /\ inUse = NoRelease

\* Other releases come and go, these stay.
Kept == {active, fallback} \ {NoRelease} \subseteq stored

\* What was active becomes the fallback; when that cannot be noted, the fallback
\* stays what it was.
Install(r) ==
  /\ inUse = NoRelease /\ r \in stored \ {active, fallback}
  /\ active' = r /\ fallback' \in {active, fallback}
  /\ UNCHANGED <<stored, inUse>>

Rollback ==
  /\ inUse = NoRelease /\ NoRelease \notin {active, fallback}
  /\ active' = fallback /\ fallback' = active
  /\ UNCHANGED <<stored, inUse>>

\* A sync that proved the active release gives up the fallback.
Promote ==
  /\ inUse # NoRelease /\ fallback' = NoRelease
  /\ UNCHANGED <<active, stored, inUse>>

Begin ==
  /\ inUse = NoRelease /\ active # NoRelease /\ inUse' = active
  /\ UNCHANGED <<active, fallback, stored>>

End == inUse' = NoRelease /\ UNCHANGED <<active, fallback, stored>>

\* Releases that are neither are unpacked and removed.
Store ==
  /\ stored' \subseteq Releases /\ Kept'
  /\ UNCHANGED <<active, fallback, inUse>>

Next == \/ \E r \in Releases : Install(r)
        \/ Rollback \/ Promote \/ Begin \/ End \/ Store

Spec == Init /\ [][Next]_vars
=============================================================================
