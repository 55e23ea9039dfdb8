---------------------------- MODULE DepotAccess ----------------------------
(***************************************************************************)
(* What sync.lock promises to everything that touches the depot volume and *)
(* the published sync state: many readers or a single writer.  Actors are  *)
(* sync runs (with the download tool they started), the scheduler's        *)
(* housekeeping, and requests of the admin console.  SyncRun implements    *)
(* this specification.                                                     *)
(***************************************************************************)
EXTENDS FiniteSets

CONSTANT Actors

VARIABLES writers, readers

vars == <<writers, readers>>

Init == writers = {} /\ readers = {}

StartWrite(a) == /\ writers = {} /\ readers = {}
                 /\ writers' = {a}
                 /\ UNCHANGED readers

StopWrite(a) == /\ a \in writers
                /\ writers' = writers \ {a}
                /\ UNCHANGED readers

StartRead(a) == /\ writers = {}
                /\ readers' = readers \cup {a}
                /\ UNCHANGED writers

StopRead(a) == /\ a \in readers
               /\ readers' = readers \ {a}
               /\ UNCHANGED writers

Next == \E a \in Actors : StartWrite(a) \/ StopWrite(a) \/ StartRead(a) \/ StopRead(a)

Spec == Init /\ [][Next]_vars
=============================================================================
