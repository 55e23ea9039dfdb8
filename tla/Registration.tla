---------------------------- MODULE Registration ----------------------------
(***************************************************************************)
(* The Software Depot ID: the identity file that the tool reads and        *)
(* writes, what the console recorded of it (with each release, as the      *)
(* saved ID and in the adoption record), the activation code that is bound *)
(* to it, and the actions that launch the tool to read it: an install, a   *)
(* rollback, the operator's verification and the one that every worker     *)
(* starts with the appliance (ui/app.py, ui/gunicorn.conf.py).             *)
(*                                                                         *)
(* The releases and their links are the module ToolStore; here a release   *)
(* is what its metadata says of the identity.                              *)
(***************************************************************************)
EXTENDS Naturals

CONSTANTS Ids,        \* Software Depot IDs
          NoId,       \* none, or none that can be recognized
          NoRelease,  \* a link without a release
          NoAdoption,
          Workers,    \* gunicorn workers, each with one verification thread
          MaxStarts,  \* bound: starts of the console container
          Faults      \* which failures may happen, see Failures

Failures == {"probe",    \* the tool fails to report an ID
             "tool",     \* a candidate tool changes the identity
             "identity", \* the identity file changes outside the console
             "write",    \* a record cannot be written
             "stop"}     \* the console container stops

ASSUME RegistrationFaults == Faults \subseteq Failures /\ NoId \notin Ids /\ MaxStarts \in Nat

Requests == {"install", "rollback", "verify"}

ASSUME WorkersDiffer == Workers \cap (Requests \cup {"free", "sync"}) = {}

Known == Ids \cup {NoId}
Metadata == [probed : BOOLEAN, id : Known, recent : BOOLEAN]
Adoptions == [status : {"adopted", "confirmed", "mismatch"}, adopted : Ids, reported : Known]

ASSUME RecordsDiffer == NoRelease \notin Metadata /\ NoAdoption \notin Adoptions

VARIABLES
  idfile,     \* the identity file of the tool
  saved,      \* software-depot-id
  adoption,   \* the adoption record
  code,       \* an activation code is saved
  current,    \* metadata of the current release, "recent" since this start
  previous,   \* and of the previous one
  lock,       \* who holds .update.lock
  step,       \* where the holder is
  result,     \* the ID its probe returned
  before,     \* the identity file when an install began
  old,        \* the release that an install has replaced
  registered, \* an activation code was saved then
  verifier,   \* the verification thread of each worker
  starts,     \* starts of the console so far
  launched,   \* probes of the threads since this start; not in the code
  unrecorded  \* a probe since this start was not recorded; not in the code

recordVars == <<idfile, saved, adoption, code, current, previous>>
holderVars == <<lock, step, result, before, old, registered>>
startVars == <<verifier, starts, launched, unrecorded>>
vars == <<recordVars, holderVars, startVars>>

RegistrationTypeOK ==
  /\ idfile \in Known /\ saved \in Known /\ adoption \in Adoptions \cup {NoAdoption}
  /\ code \in BOOLEAN
  /\ current \in Metadata \cup {NoRelease} /\ previous \in Metadata \cup {NoRelease}
  /\ lock \in {"free", "sync"} \cup Requests \cup Workers
  /\ step \in {"none", "probe", "judge", "auth", "switch", "link", "record"}
  /\ result \in Known /\ before \in Known /\ registered \in BOOLEAN
  /\ old \in Metadata \cup {NoRelease}
  /\ verifier \in [Workers -> {"waiting", "trying", "done"}]
  /\ starts \in 0..MaxStarts /\ launched \in Nat /\ unrecorded \in BOOLEAN
  /\ lock \in {"free", "sync"} <=> step = "none"
  /\ previous # NoRelease => current # NoRelease

-----------------------------------------------------------------------------
(* What the records say.                                                   *)

Installed == current # NoRelease
IdentityChanged(id) == idfile # id

\* _identity_verification_needed.
Needed ==
  /\ Installed
  /\ ~(current.probed /\ current.recent)
  /\ \/ current.id # NoId /\ IdentityChanged(current.id)
     \/ adoption # NoAdoption /\ adoption.status = "adopted"
     \/ ~current.probed \/ current.id = NoId

\* _registration_details: the status and the ID that the console shows.
Details ==
  LET changed == Installed /\ current.id # NoId /\ IdentityChanged(current.id)
      Shown(s, i) == [status |-> s, id |-> i]
  IN IF adoption # NoAdoption
     THEN IF ~Installed \/ adoption.status = "adopted" THEN Shown("adopted", adoption.adopted)
          ELSE IF changed THEN Shown("unverified", adoption.adopted)
          ELSE IF adoption.status = "confirmed" THEN Shown("confirmed", adoption.adopted)
          ELSE Shown("mismatch", adoption.reported)
     ELSE IF ~Installed THEN Shown("none", saved)
     ELSE IF ~current.probed THEN Shown("unverified", saved)
     ELSE IF current.id = NoId THEN Shown("failed", saved)
     ELSE Shown(IF changed THEN "unverified" ELSE "confirmed", current.id)

Probed(id) == [probed |-> TRUE, id |-> id, recent |-> TRUE]

\* _reconcile_machine_id_adoption: n of its two records are written.
Reconcile(id, n) ==
  /\ saved' = IF id # NoId /\ n > 0 THEN id ELSE saved
  /\ adoption' = IF adoption # NoAdoption /\ n > 1
                 THEN [status |-> IF id = adoption.adopted THEN "confirmed" ELSE "mismatch",
                       adopted |-> adoption.adopted, reported |-> id]
                 ELSE adoption

\* How many of k records are written: all, or less when one fails.
Written(k) == IF "write" \in Faults THEN 0..k ELSE {k}

Init ==
  /\ idfile \in Known /\ saved = NoId /\ adoption = NoAdoption /\ code = FALSE
  /\ current \in {NoRelease, [probed |-> FALSE, id |-> NoId, recent |-> FALSE]}
  /\ previous = NoRelease
  /\ lock = "free" /\ step = "none" /\ result = NoId /\ before = NoId
  /\ old = NoRelease /\ registered = FALSE
  /\ verifier = [w \in Workers |-> "waiting"]
  /\ starts = 0 /\ launched = 0 /\ unrecorded = FALSE

-----------------------------------------------------------------------------
(* The tool.                                                               *)

\* The tool reads its identity, or makes one up where there is none.
ToolReads(reported, left) ==
  /\ left \in IF idfile = NoId THEN Known ELSE {idfile}
  /\ reported \in {left} \cup (IF "probe" \in Faults THEN {NoId} ELSE {})

\* A candidate may do anything to it.
CandidateReads(reported, left) ==
  \/ ToolReads(reported, left)
  \/ "tool" \in Faults /\ reported \in {idfile, left, NoId}

Unlock == lock' = "free" /\ step' = "none" /\ result' = NoId
          /\ before' = NoId /\ old' = NoRelease /\ registered' = FALSE

\* The update lock is taken; a published run refuses the request.
Lock(who, s) == lock = "free" /\ lock' = who /\ step' = s

-----------------------------------------------------------------------------
(* Requests.                                                               *)

\* adopt_registration writes the identity file, the saved ID and the record.
Adopt(id) ==
  /\ lock = "free" /\ ~Installed
  /\ \E n \in Written(3) :
       /\ idfile' = IF n > 0 THEN id ELSE idfile
       /\ saved' = IF n > 1 THEN id ELSE saved
       /\ adoption' = IF n > 2 THEN [status |-> "adopted", adopted |-> id, reported |-> NoId]
                               ELSE adoption
  /\ UNCHANGED <<code, current, previous, holderVars, startVars>>

\* save_registration: the code is for the ID that the console shows as confirmed.
\* Only a run that has announced itself refuses it, and no lock is taken.
SaveCode ==
  /\ Details.status = "confirmed"
  /\ code' = TRUE
  /\ UNCHANGED <<idfile, saved, adoption, current, previous, holderVars, startVars>>

\* _install_tool_archive: the archive is extracted, its tool is to be tried.
BeginInstall ==
  /\ Lock("install", "probe")
  /\ before' = idfile /\ registered' = code
  /\ UNCHANGED <<recordVars, result, old, startVars>>

ProbeCandidate ==
  /\ lock = "install" /\ step = "probe"
  /\ \E left \in Known : /\ CandidateReads(result', left) /\ idfile' = left
  /\ step' = IF registered THEN "judge" ELSE "switch"
  /\ UNCHANGED <<saved, adoption, code, current, previous, lock, before, old, registered, startVars>>

KeepsIdentity == before # NoId /\ result = before /\ idfile = before

\* The candidate queries the depot with the identity and the activation code.
AuthenticateCandidate ==
  /\ lock = "install" /\ step = "judge" /\ KeepsIdentity
  /\ \E reported, left \in Known : CandidateReads(reported, left) /\ idfile' = left
  /\ step' = "auth"
  /\ UNCHANGED <<saved, adoption, code, current, previous, lock, result, before, old, registered, startVars>>

\* As if the query could not change anything.
AcceptUnseen ==
  /\ step = "auth" /\ step' = "switch"
  /\ UNCHANGED <<recordVars, lock, result, before, old, registered, startVars>>

\* The identity is compared again after the query.
AcceptCandidate ==
  /\ step = "auth" /\ idfile = before
  /\ step' = "switch"
  /\ UNCHANGED <<recordVars, lock, result, before, old, registered, startVars>>

\* Anything fails before the link is switched: with an activation code the
\* registration state is restored.
RefuseCandidate ==
  /\ lock = "install" /\ step # "link"
  /\ idfile' = IF registered THEN before ELSE idfile
  /\ Unlock
  /\ UNCHANGED <<saved, adoption, code, current, previous, startVars>>

\* The metadata is in the release before it becomes current.
SwitchTool ==
  /\ step = "switch"
  /\ current' = Probed(result) /\ old' = current
  /\ step' = "link"
  /\ UNCHANGED <<idfile, saved, adoption, code, previous, lock, result, before, registered, startVars>>

\* _replace_tool reconciles and then links the previous release; when a record
\* fails the new release stays current and the older one previous.
FinishInstall ==
  /\ step = "link"
  /\ \E n \in Written(2) : /\ Reconcile(result, n)
                           /\ previous' = IF n = 2 THEN old ELSE previous
  /\ Unlock
  /\ UNCHANGED <<idfile, code, current, startVars>>

\* As if a rollback needed no release to go back to.
RollbackBlindly ==
  /\ Lock("rollback", "probe")
  /\ current' = previous /\ previous' = current
  /\ UNCHANGED <<idfile, saved, adoption, code, result, before, old, registered, startVars>>

\* _rollback_tool swaps the links before it probes.
Rollback ==
  /\ previous # NoRelease /\ Lock("rollback", "probe")
  /\ current' = previous /\ previous' = current
  /\ UNCHANGED <<idfile, saved, adoption, code, result, before, old, registered, startVars>>

BeginVerify ==
  /\ Installed /\ Lock("verify", "probe")
  /\ UNCHANGED <<recordVars, result, before, old, registered, startVars>>

-----------------------------------------------------------------------------
(* The verification that starts with the console.                          *)

\* After the delay.  A run that has announced itself makes the thread wait on.
CheckNeed(w) ==
  /\ verifier[w] = "waiting"
  /\ \/ ~Needed /\ verifier' = [verifier EXCEPT ![w] = "done"]
     \/ Needed /\ verifier' = [verifier EXCEPT ![w] = "trying"]
  /\ UNCHANGED <<recordVars, holderVars, starts, launched, unrecorded>>

\* As if a lock that is held ended the thread.
GiveUpWhenDeferred(w) ==
  /\ verifier[w] = "trying" /\ lock # "free"
  /\ verifier' = [verifier EXCEPT ![w] = "done"]
  /\ UNCHANGED <<recordVars, holderVars, starts, launched, unrecorded>>

\* The lock is held: try again after the next delay.
Deferred(w) ==
  /\ verifier[w] = "trying" /\ lock # "free"
  /\ verifier' = [verifier EXCEPT ![w] = "waiting"]
  /\ UNCHANGED <<recordVars, holderVars, starts, launched, unrecorded>>

\* As if the first look were enough.
LaunchAnyway(w) ==
  /\ verifier[w] = "trying"
  /\ Lock(w, "probe") /\ launched' = launched + 1 /\ UNCHANGED verifier
  /\ UNCHANGED <<recordVars, result, before, old, registered, starts, unrecorded>>

\* Under the lock the need is looked at again.
Launch(w) ==
  /\ verifier[w] = "trying"
  /\ \/ /\ Needed /\ Lock(w, "probe") /\ launched' = launched + 1 /\ UNCHANGED verifier
     \/ /\ ~Needed /\ lock = "free" /\ verifier' = [verifier EXCEPT ![w] = "done"]
        /\ UNCHANGED <<lock, step, launched>>
  /\ UNCHANGED <<recordVars, result, before, old, registered, starts, unrecorded>>

-----------------------------------------------------------------------------
(* Shared by rollback and both verifications.                              *)

ProbeCurrent ==
  /\ lock # "install" /\ step = "probe"
  /\ \E left \in Known : ToolReads(result', left) /\ idfile' = left
  /\ step' = "record"
  /\ UNCHANGED <<saved, adoption, code, current, previous, lock, before, old, registered, startVars>>

\* The metadata of the release, then the reconciliation.
RecordProbe ==
  /\ step = "record"
  /\ \E n \in Written(3) :
       /\ current' = IF n > 0 THEN Probed(result) ELSE current
       /\ Reconcile(result, IF n = 0 THEN 0 ELSE n - 1)
       /\ unrecorded' = (unrecorded \/ n = 0)
  /\ verifier' = [w \in Workers |-> IF lock = w THEN "done" ELSE verifier[w]]
  /\ Unlock
  /\ UNCHANGED <<idfile, code, previous, starts, launched>>

-----------------------------------------------------------------------------
(* Around the console.                                                     *)

\* A run needs the code and the tool; its tool keeps the identity.
SyncBegins ==
  /\ lock = "free" /\ Installed /\ code
  /\ lock' = "sync" /\ \E reported \in Known : ToolReads(reported, idfile')
  /\ UNCHANGED <<saved, adoption, code, current, previous, step, result, before, old, registered, startVars>>

SyncEnds ==
  /\ lock = "sync" /\ lock' = "free"
  /\ UNCHANGED <<recordVars, step, result, before, old, registered, startVars>>

\* A volume restore, or a cleanup.
IdentityMoves ==
  /\ "identity" \in Faults /\ lock = "free"
  /\ idfile' \in Known \ {idfile}
  /\ UNCHANGED <<saved, adoption, code, current, previous, holderVars, startVars>>

NotRecent(m) == IF m = NoRelease THEN m ELSE [m EXCEPT !.recent = FALSE]

\* The container stops wherever it is, and starts; a running sync goes on.
ConsoleRestarts ==
  /\ "stop" \in Faults /\ starts < MaxStarts
  /\ starts' = starts + 1 /\ launched' = 0 /\ unrecorded' = FALSE
  /\ verifier' = [w \in Workers |-> "waiting"]
  /\ current' = NotRecent(current) /\ previous' = NotRecent(previous)
  /\ IF lock = "sync" THEN UNCHANGED holderVars ELSE Unlock
  /\ UNCHANGED <<idfile, saved, adoption, code>>

HolderStep ==
  \/ ProbeCandidate \/ AuthenticateCandidate \/ AcceptCandidate \/ RefuseCandidate
  \/ SwitchTool \/ FinishInstall \/ ProbeCurrent \/ RecordProbe

Next ==
  \/ HolderStep
  \/ SaveCode \/ BeginInstall \/ Rollback \/ BeginVerify
  \/ SyncBegins \/ SyncEnds \/ IdentityMoves \/ ConsoleRestarts
  \/ \E id \in Ids : Adopt(id)
  \/ \E w \in Workers : CheckNeed(w) \/ Deferred(w) \/ Launch(w)

Spec == Init /\ [][Next]_vars

\* Requests are answered and runs end.  A thread comes back after every delay for
\* as long as it is deferred, so it does not always come while the lock is held
\* if that is free again and again, nor always lose the race for it.
Fairness ==
  /\ WF_vars(HolderStep) /\ WF_vars(SyncEnds)
  /\ \A w \in Workers : SF_vars(lock = "free" /\ CheckNeed(w)) /\ WF_vars(Deferred(w)) /\ SF_vars(Launch(w))

FairSpec == Spec /\ Fairness

-----------------------------------------------------------------------------
(* Properties.                                                             *)

\* However many workers there are, the tool is launched at most once for a start,
\* unless a probe could not be recorded (app.py:3725-3787, README.md:64-73).
OnceAStart == launched <= 1 \/ unrecorded

\* With an activation code saved, an install ends with the identity it began with,
\* whether the candidate is accepted or refused and whatever it did to the
\* identity file at either of its launches; only a restart of the console within the
\* install may keep what the candidate left (app.py:1679-1743, README.md:112-115).
RegistrationSurvivesInstall ==
  [][lock = "install" /\ registered /\ lock' = "free" => idfile' = before \/ ConsoleRestarts]_vars

\* A verification that is needed when the console starts is carried out, or is no
\* longer needed, whatever defers it (app.py:3733-3787, README.md:66-77).
NeedIsMet ==
  \A w \in Workers : verifier[w] # "done" /\ Needed ~> launched > 0 \/ ~Needed
=============================================================================
