---------------------------- MODULE OwnerPassword ----------------------------
(***************************************************************************)
(* The owner's password on the appliance that ConfigVolume starts: the     *)
(* claim of a new appliance, the change of the password and the check of   *)
(* one, by concurrent requests (ui/app.py).  The console reads it, hashed, *)
(* from auth.json and the SFTP account from sftp-password; the two files   *)
(* are replaced one after the other, under a lock that requests wait for.  *)
(* A password that was found right is kept by the worker process for a     *)
(* while, together with the stamp of auth.json.                            *)
(***************************************************************************)
EXTENDS ConfigVolume, FiniteSets

CONSTANTS Passwords, NoPassword, Threads, NoThread,
          WorkerOf,  \* the worker process of each thread
          MaxCopies  \* bound: requests come while the volume holds so many copies at most

ASSUME PasswordNames == NoPassword \notin Passwords /\ NoThread \notin Threads

VARIABLES
  auth,     \* the password of auth.json
  sftp,     \* sftp-password
  lock,     \* the thread that holds .credentials.lock
  at,       \* where each thread is
  old,      \* the current password the request gives; NoPassword in a claim
  new,      \* the password it asks for
  prior,    \* sftp-password before its write
  right,    \* threads whose check has read a document with the password it was given
  verified, \* _verified_cache of each worker: the passwords
  fresh,    \* workers whose cache has the stamp of auth.json
  apart,    \* the two files were left apart; not in the code
  overtaken, \* passwords a check had yet to accept at the last change; not in the code
  blind      \* threads whose claim could not read auth.json; not in the code

threadVars == <<lock, at, old, new, prior>>
checkVars == <<right, verified, fresh>>
historyVars == <<apart, overtaken, blind>>
ownerVars == <<auth, sftp, threadVars, checkVars, historyVars>>
vars == <<volumeVars, ownerVars>>

Stored == Passwords \cup {NoPassword}
Workers == {WorkerOf[w] : w \in Threads}

OwnerTypeOK ==
  /\ VolumeTypeOK
  /\ auth \in Stored /\ sftp \in Stored /\ lock \in Threads \cup {NoThread}
  /\ at \in [Threads -> {"idle", "asked", "stamp", "compare", "first", "second", "undo"}]
  /\ old \in [Threads -> Stored] /\ new \in [Threads -> Stored] /\ prior \in [Threads -> Stored]
  /\ right \subseteq {w \in Threads : at[w] \in {"stamp", "compare"}}
  /\ verified \in [Workers -> SUBSET Passwords] /\ fresh \subseteq Workers
  /\ apart \in BOOLEAN /\ overtaken \subseteq Passwords /\ blind \subseteq Threads
  /\ \A w \in Threads : at[w] \in {"first", "second", "undo"} => lock = w

Serving == ConsoleRuns /\ Cardinality(backups) <= MaxCopies

Nothing == [w \in Threads |-> NoPassword]
NothingCached == [k \in Workers |-> {}]

Init ==
  /\ VolumeInit
  /\ auth = NoPassword /\ sftp = NoPassword /\ apart = FALSE
  /\ at = [w \in Threads |-> "idle"] /\ lock = NoThread
  /\ old = Nothing /\ new = Nothing /\ prior = Nothing
  /\ right = {} /\ verified = NothingCached /\ fresh = {}
  /\ overtaken = {} /\ blind = {}

\* A claim (without a current password) or a change; a version problem refuses both.
Ask(w, o, n) ==
  /\ Serving /\ ~VersionProblem /\ at[w] = "idle"
  /\ at' = [at EXCEPT ![w] = "asked"]
  /\ old' = [old EXCEPT ![w] = o] /\ new' = [new EXCEPT ![w] = n]
  /\ UNCHANGED <<volumeVars, auth, sftp, lock, prior, checkVars, historyVars>>

\* The answer; the lock goes back.
Finish(w) ==
  /\ at' = [at EXCEPT ![w] = "idle"]
  /\ old' = [old EXCEPT ![w] = NoPassword] /\ new' = [new EXCEPT ![w] = NoPassword]
  /\ prior' = [prior EXCEPT ![w] = NoPassword]
  /\ lock' = IF lock = w THEN NoThread ELSE lock
  /\ right' = right \ {w} /\ blind' = blind \ {w}

\* A check has read auth.json, from which it will later take the hash.
BeginCheck(w, given) ==
  /\ at' = [at EXCEPT ![w] = "stamp"]
  /\ right' = IF given = auth THEN right \cup {w} ELSE right

\* A request has read auth.json: a claim goes on to the files, a change to the check of
\* its password.  A document that cannot be read counts as none.
Admit(w, fits) ==
  /\ \/ /\ fits /\ lock' = w /\ UNCHANGED <<old, new, prior, blind>>
        /\ IF old[w] = NoPassword THEN at' = [at EXCEPT ![w] = "first"] /\ UNCHANGED right
                                  ELSE BeginCheck(w, old[w])
     \/ /\ "read" \in Faults /\ auth # NoPassword /\ old[w] = NoPassword
        /\ lock' = w /\ at' = [at EXCEPT ![w] = "first"] /\ blind' = blind \cup {w}
        /\ UNCHANGED <<old, new, prior, right>>
     \/ /\ ~fits \/ ("read" \in Faults /\ old[w] # NoPassword)
        /\ Finish(w)
  /\ UNCHANGED <<volumeVars, auth, sftp, verified, fresh, apart, overtaken>>

\* As if claims were checked when they come in and not again.
EnterUnchecked(w) ==
  at[w] = "asked" /\ lock = NoThread /\ Admit(w, old[w] = NoPassword \/ auth # NoPassword)

\* As if every worker process had a lock of its own.
EnterUnlocked(w) ==
  at[w] = "asked" /\ Admit(w, old[w] = NoPassword <=> auth = NoPassword)

\* Under the lock: a claim needs an unclaimed appliance, a change a claimed one.
Enter(w) ==
  at[w] = "asked" /\ lock = NoThread /\ Admit(w, old[w] = NoPassword <=> auth = NoPassword)

\* A sign-in checks a password without the lock.
SignIn(w, p) ==
  /\ Serving /\ at[w] = "idle" /\ auth # NoPassword
  /\ BeginCheck(w, p) /\ old' = [old EXCEPT ![w] = p]
  /\ UNCHANGED <<volumeVars, auth, sftp, lock, new, prior, verified, fresh, historyVars>>

\* A new stamp empties the worker's cache.
CheckStamp(w) ==
  /\ at[w] = "stamp" /\ at' = [at EXCEPT ![w] = "compare"]
  /\ LET k == WorkerOf[w] IN
     \/ k \in fresh /\ UNCHANGED <<verified, fresh>>
     \/ k \notin fresh /\ verified' = [verified EXCEPT ![k] = {}] /\ fresh' = fresh \cup {k}
  /\ UNCHANGED <<volumeVars, auth, sftp, lock, old, new, prior, right, historyVars>>

\* A cached password is right until it expires; otherwise the hash decides, and a
\* right password is cached.
Compare(w) ==
  /\ at[w] = "compare"
  /\ LET k == WorkerOf[w] IN
     \/ /\ w \in right \/ old[w] \in verified[k]
        /\ verified' = IF w \in right THEN [verified EXCEPT ![k] = @ \cup {old[w]}] ELSE verified
        /\ IF lock = w THEN /\ at' = [at EXCEPT ![w] = "first"] /\ right' = right \ {w}
                            /\ UNCHANGED <<lock, old, new, prior, blind>>
                       ELSE Finish(w)
     \/ w \notin right /\ Finish(w) /\ UNCHANGED verified
  /\ UNCHANGED <<volumeVars, auth, sftp, fresh, apart, overtaken>>

\* _replace_shared_credentials; nothing is to be undone before the first file.
ReplaceSftp(w) ==
  /\ at[w] = "first"
  /\ \/ /\ sftp' = new[w] /\ prior' = [prior EXCEPT ![w] = sftp]
        /\ at' = [at EXCEPT ![w] = "second"] /\ UNCHANGED <<lock, old, new, right, blind>>
     \/ "write" \in Faults /\ Finish(w) /\ UNCHANGED sftp
  /\ UNCHANGED <<volumeVars, auth, verified, fresh, apart, overtaken>>

\* The document has another stamp now; checks that have read it go on with the old one.
ReplaceAuth(w) ==
  /\ at[w] = "second"
  /\ \/ /\ auth' = new[w] /\ apart' = FALSE /\ fresh' = {} /\ Finish(w)
        /\ overtaken' = {old[v] : v \in right} \ {new[w]}
     \/ /\ "write" \in Faults /\ at' = [at EXCEPT ![w] = "undo"]
        /\ UNCHANGED <<auth, apart, fresh, overtaken, lock, old, new, prior, right, blind>>
  /\ UNCHANGED <<volumeVars, sftp, verified>>

\* As if a failure were only answered.
UndoNothing(w) ==
  /\ at[w] = "undo"
  /\ Finish(w) /\ UNCHANGED <<volumeVars, auth, sftp, verified, fresh, apart, overtaken>>

\* sftp-password gets its earlier text, or is removed again.
Undo(w) ==
  /\ at[w] = "undo"
  /\ \/ sftp' = prior[w] /\ UNCHANGED apart
     \/ "write" \in Faults /\ apart' = TRUE /\ UNCHANGED sftp
  /\ Finish(w) /\ UNCHANGED <<volumeVars, auth, verified, fresh, overtaken>>

\* The appliance goes down: every thread is gone, the lock and the caches with them.
GoDown ==
  /\ at' = [w \in Threads |-> "idle"] /\ lock' = NoThread
  /\ old' = Nothing /\ new' = Nothing /\ prior' = Nothing
  /\ right' = {} /\ verified' = NothingCached /\ fresh' = {}
  /\ overtaken' = {} /\ blind' = {}
  /\ apart' = (apart \/ \E w \in Threads : at[w] \in {"second", "undo"})
  /\ UNCHANGED <<auth, sftp>>

Request(w) ==
  Enter(w) \/ CheckStamp(w) \/ Compare(w) \/ ReplaceSftp(w) \/ ReplaceAuth(w) \/ Undo(w)

Next ==
  \/ Bootstrap /\ UNCHANGED ownerVars
  \/ Crash /\ GoDown
  \/ \E r \in Releases : Boot(r) /\ GoDown
  \/ \E w \in Threads : \/ Request(w)
                        \/ \E p \in Passwords : SignIn(w, p) \/ \E o \in Stored : Ask(w, o, p)

Spec == Init /\ [][Next]_vars

-----------------------------------------------------------------------------
(* Properties.                                                             *)

\* The console and the SFTP account take one password whenever no request is on its
\* way, unless the appliance stopped between the two files or the first could not
\* be put back (app.py:644-661, README.md:272-274).
OnePassword == lock = NoThread /\ ~apart => sftp = auth

\* An owner stays the owner: once claimed, the password changes only by a request
\* that gives the current one, however many claims, changes and sign-ins are under way
\* (app.py:589-609, 2642-2655, 4047-4059).  Two requests more may change it in the
\* code.  A check that was under way when the password last changed may put the one
\* it replaced back into the cache, under the new stamp, and a change that gives
\* that one is accepted.  A claim that cannot read auth.json takes the appliance
\* for unclaimed (app.py:562-569).
ClaimedOnce ==
  [][auth # NoPassword /\ auth' # auth =>
       \E w \in Threads : /\ at[w] = "second"
                          /\ old[w] = auth \/ old[w] \in overtaken \/ w \in blind]_vars
=============================================================================
