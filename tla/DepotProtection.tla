-------------------------- MODULE DepotProtection --------------------------
(***************************************************************************)
(* Who may change which tree below PROD/COMP of the depot: the ownership   *)
(* manifest, the console's uploads, deletions and protection switch        *)
(* (ui/app.py), and the targets of a sync run, which skip protected trees, *)
(* check them afterwards and record what they created (sync/sync.sh).      *)
(*                                                                         *)
(* Console mutations and runs exclude one another by the depot lock (the   *)
(* modules DepotAccess and SyncRun), so one owner is all there is of it    *)
(* here.  The manifest is read and replaced under a lock of its own, in    *)
(* one step.                                                               *)
(***************************************************************************)
EXTENDS Naturals, FiniteSets

CONSTANTS Trees,    \* names of trees below PROD/COMP
          NoEntry,  \* a tree that the manifest does not list
          Faults    \* which failures may happen, see Failures

Failures == {"manifest",    \* an upload, or its entry in the manifest, fails half way
             "forget",      \* a deletion cannot be completed or recorded
             "console",     \* the console stops during an upload or a deletion
             "volume",      \* trees vanish with the depot volume
             "tool",        \* the tool writes trees that it did not list
             "fingerprint", \* a protected tree cannot be read again after the download
             "record",      \* a run cannot record a tree in the manifest
             "kill"}        \* the run is killed, its tool lives on

ASSUME ProtectionFaults == Faults \subseteq Failures

Contents == SUBSET {"operator", "product"}
Entries == [ownership : {"product-managed", "operator-provided", "unknown"},
            protected : BOOLEAN]

ASSUME EntryDiffers == NoEntry \notin Entries

VARIABLES
  depot,     \* who wrote each tree; {} for a tree that does not exist
  library,   \* trees that hold items.json and lib.json
  manifest,  \* depot-ownership.json
  owner,     \* who holds the depot lock: "nobody", "console" or "run"
  step,      \* what the console does with it
  chosen,    \* the trees it was asked for
  moved,     \* those it has renamed into the depot, or removed
  run,       \* where the run is
  known,     \* known_depot_trees of the run
  guard,     \* the protected trees that the run read before the target
  scope,     \* the trees the target is listed to write
  adopts,    \* an artifact target: it adopts its tree
  wrote,     \* the trees its tool wrote
  status,    \* last_status of the target
  word,      \* the last word on each tree, "left" by a run cut short; not in the code
  outlived   \* names whose open entry has stood without a tree; not in the code

depotVars == <<depot, library>>
consoleVars == <<step, chosen, moved>>
targetVars == <<guard, scope, adopts, wrote, status>>
runVars == <<run, known, targetVars>>
vars == <<depotVars, manifest, owner, consoleVars, runVars, word, outlived>>

Results == {"none", "OK", "FAILED", "SKIPPED", "UNVERIFIED", "CHANGED", "OWNERSHIP"}

ProtectionTypeOK ==
  /\ depot \in [Trees -> Contents] /\ library \subseteq Trees
  /\ manifest \in [Trees -> Entries \cup {NoEntry}]
  /\ owner \in {"nobody", "console", "run"}
  /\ step \in {"none", "upload", "delete"} /\ chosen \subseteq Trees /\ moved \subseteq chosen
  /\ run \in {"idle", "targets", "scoping", "download", "verify", "adopt", "record", "orphan"}
  /\ known \subseteq Trees /\ guard \subseteq Trees /\ scope \subseteq Trees
  /\ adopts \in BOOLEAN /\ wrote \subseteq Trees /\ status \in Results
  /\ word \in [Trees -> {"none", "protect", "release", "left"}] /\ outlived \subseteq Trees
  /\ owner = "console" <=> step # "none"
  /\ owner = "run" <=> run # "idle"

Init ==
  /\ depot = [t \in Trees |-> {}] /\ library = {}
  /\ manifest = [t \in Trees |-> NoEntry]
  /\ owner = "nobody" /\ step = "none" /\ chosen = {} /\ moved = {}
  /\ run = "idle" /\ known = {}
  /\ guard = {} /\ scope = {} /\ adopts = FALSE /\ wrote = {} /\ status = "none"
  /\ word = [t \in Trees |-> "none"] /\ outlived = {}

-----------------------------------------------------------------------------
(* The ownership manifest.                                                 *)

Entry(o, p) == [ownership |-> o, protected |-> p]
Present == {t \in Trees : depot[t] # {}}
Protected(m) == {t \in Trees : m[t] # NoEntry /\ m[t].protected}
Open(m) == {t \in Trees : m[t] # NoEntry /\ ~m[t].protected}

\* A tree that looks like a content library is the operator's.
Detected ==
  [t \in Trees |-> IF t \in library THEN Entry("operator-provided", TRUE) ELSE Entry("unknown", FALSE)]

\* The manifest after entries for S, none of which replaces an earlier one.
RecordedIfAbsent(S, new) ==
  [t \in Trees |-> IF t \in S /\ manifest[t] = NoEntry THEN new[t] ELSE manifest[t]]

\* As if a scan took the word of the tree over that of the manifest.
InventoriedAgain == [t \in Trees |-> IF t \in Present THEN Detected[t] ELSE manifest[t]]

\* Every console request on the depot and every run begins with this scan.
Inventoried == RecordedIfAbsent(Present, Detected)

-----------------------------------------------------------------------------
(* The console.                                                            *)

Done == owner' = "nobody" /\ step' = "none" /\ chosen' = {} /\ moved' = {}

\* The ownership table and the explorer, and every request that is refused
\* after its checks.
Inventory ==
  /\ owner = "nobody"
  /\ manifest' = Inventoried
  /\ UNCHANGED <<depotVars, owner, consoleVars, runVars, word>>

\* A request that will change the trees S has passed its checks.
Begin(s, S) ==
  /\ owner = "nobody" /\ S # {}
  /\ manifest' = Inventoried
  /\ owner' = "console" /\ step' = s /\ chosen' = S /\ moved' = {}
  /\ UNCHANGED <<depotVars, runVars, word>>

\* No entry of the archive exists or is in a protected tree.  While there is no tree
\* it may hold PROD or COMP itself, for which no entry below is looked at.
BeginUpload(S) ==
  /\ S \cap Present = {}
  /\ Present # {} => S \cap Protected(Inventoried) = {}
  /\ Begin("upload", S)

\* One entry of the archive is renamed into place; PROD or COMP tree by tree here.
Publish(t) ==
  /\ step = "upload" /\ t \in chosen \ moved
  /\ depot' = [depot EXCEPT ![t] = {"operator"}]
  /\ library' \in {library, library \cup {t}}
  /\ moved' = moved \cup {t}
  /\ UNCHANGED <<manifest, owner, step, chosen, runVars, word>>

\* What was renamed goes back to the staging directory.
FailUpload ==
  /\ "manifest" \in Faults /\ step = "upload"
  /\ depot' = [t \in Trees |-> IF t \in moved THEN {} ELSE depot[t]]
  /\ library' = library \ moved
  /\ Done /\ UNCHANGED <<manifest, runVars, word>>

\* _record_operator_trees, and the answer: the operator has had the last word,
\* whatever the manifest says of the tree.
RecordUpload ==
  /\ step = "upload" /\ moved = chosen
  /\ manifest' = RecordedIfAbsent(chosen, [t \in Trees |-> Entry("operator-provided", TRUE)])
  /\ word' = [t \in Trees |-> IF t \in chosen THEN "protect" ELSE word[t]]
  /\ Done /\ UNCHANGED <<depotVars, runVars>>

\* An upload below a tree that exists and is not protected adds no tree.
UploadInside(t) ==
  /\ owner = "nobody" /\ t \in Present \ Protected(Inventoried)
  /\ manifest' = Inventoried
  /\ depot' = [depot EXCEPT ![t] = @ \cup {"operator"}]
  /\ library' \in {library, library \cup {t}}
  /\ UNCHANGED <<owner, consoleVars, runVars, word>>

\* A tree, or with an ancestor all of them; stale entries count as well.
BeginDelete(S) ==
  S \cap Present # {} /\ S \cap Protected(Inventoried) = {} /\ Begin("delete", S)

Remove(t) ==
  /\ step = "delete" /\ t \in chosen \ moved
  /\ depot' = [depot EXCEPT ![t] = {}] /\ library' = library \ {t}
  /\ moved' = moved \cup {t}
  /\ UNCHANGED <<manifest, owner, step, chosen, runVars, word>>

\* _forget_deleted_trees; when the removal or this fails the entries stay.
ForgetTrees ==
  /\ step = "delete"
  /\ \/ /\ moved = chosen
        /\ manifest' = [t \in Trees |-> IF t \in chosen THEN NoEntry ELSE manifest[t]]
        /\ word' = [t \in Trees |-> IF t \in chosen THEN "none" ELSE word[t]]
     \/ "forget" \in Faults /\ UNCHANGED <<manifest, word>>
  /\ Done /\ UNCHANGED <<depotVars, runVars>>

\* Below a tree nothing is forgotten; the tree may stop to look like a library.
DeleteInside(t) ==
  /\ owner = "nobody" /\ t \in Present \ Protected(Inventoried)
  /\ manifest' = Inventoried /\ library' = library \ {t}
  /\ UNCHANGED <<depot, owner, consoleVars, runVars, word>>

SetProtection(t, p) ==
  /\ owner = "nobody" /\ t \in Present
  /\ manifest' = [Inventoried EXCEPT ![t].protected = p]
  /\ word' = [word EXCEPT ![t] = IF p THEN "protect" ELSE "release"]
  /\ UNCHANGED <<depotVars, owner, consoleVars, runVars>>

ConsoleStops ==
  /\ "console" \in Faults /\ step # "none"
  /\ Done /\ UNCHANGED <<depotVars, manifest, runVars, word>>

ConsoleNext ==
  \/ Inventory \/ RecordUpload \/ FailUpload \/ ForgetTrees \/ ConsoleStops
  \/ \E S \in SUBSET Trees : BeginUpload(S)
  \/ \E S \in {{t} : t \in Trees} \cup {Trees} : BeginDelete(S)
  \/ \E t \in Trees : \/ Publish(t) \/ Remove(t) \/ UploadInside(t) \/ DeleteInside(t)
                      \/ \E p \in BOOLEAN : SetProtection(t, p)

-----------------------------------------------------------------------------
(* The operator on the volume.                                             *)

\* A tree is put below PROD/COMP by hand, as a whole and while no sync runs.  The
\* manifest may list an earlier one of that name.
PlaceTree(t) ==
  /\ depot[t] = {} /\ run = "idle" /\ step = "none"
  /\ depot' = [depot EXCEPT ![t] = {"operator"}]
  /\ \/ library' = library \cup {t} /\ word' = [word EXCEPT ![t] = "protect"]
     \/ UNCHANGED <<library, word>>
  /\ UNCHANGED <<manifest, owner, consoleVars, runVars>>

\* The depot volume is replaced, or a tree removed on it; protection stays with
\* the name.
LoseTree(t) ==
  /\ "volume" \in Faults /\ t \in Present
  /\ depot' = [depot EXCEPT ![t] = {}] /\ library' = library \ {t}
  /\ word' = [word EXCEPT ![t] = IF manifest[t] = NoEntry THEN "none"
                              ELSE IF manifest[t].protected THEN "protect" ELSE @]
  /\ UNCHANGED <<manifest, owner, consoleVars, runVars>>

-----------------------------------------------------------------------------
(* The run.                                                                *)

RunBegins ==
  /\ owner = "nobody"
  /\ owner' = "run" /\ run' = "targets"
  /\ manifest' = Inventoried /\ known' = Present
  /\ UNCHANGED <<depotVars, consoleVars, targetVars, word>>

\* run_target reads the protected trees; a target has its trees from a list of
\* fixed ones, or from what the tool lists.
BeginTarget(S) ==
  /\ run = "targets"
  /\ guard' = Protected(manifest) /\ scope' = S
  /\ adopts' \in {FALSE, Cardinality(S) = 1}
  /\ wrote' = {} /\ status' = "none"
  /\ run' = IF guard' = {} THEN "download" ELSE "scoping"
  /\ UNCHANGED <<depotVars, manifest, owner, consoleVars, known, word>>

\* As if only trees that exist could be in the way.
ConflictsPresent == guard \cap scope \cap known \cap library

Conflicts == guard \cap scope

\* A conflict skips the target; without a listing or without fingerprints it is
\* not run either.
Decide ==
  /\ run = "scoping"
  /\ \/ Conflicts = {} /\ run' = "download" /\ UNCHANGED status
     \/ Conflicts # {} /\ run' = "adopt" /\ status' = "SKIPPED"
     \/ run' = "adopt" /\ status' \in {"FAILED", "UNVERIFIED"}
  /\ UNCHANGED <<depotVars, manifest, owner, consoleVars, known, guard, scope, adopts, wrote, word>>

\* Trees of a run cut short that nobody has a word on.
LeftBehind(S) == [t \in Trees |-> IF t \in S /\ word[t] = "none" THEN "left" ELSE word[t]]

\* The tool writes a tree, in the end perhaps a content library.
ToolWrites(t) ==
  /\ run \in {"download", "orphan"}
  /\ t \in scope \/ "tool" \in Faults
  /\ depot' = [depot EXCEPT ![t] = @ \cup {"product"}]
  /\ library' \in {library, library \cup {t}}
  /\ wrote' = wrote \cup {t}
  /\ word' = IF run = "orphan" THEN LeftBehind({t}) ELSE word
  /\ UNCHANGED <<manifest, owner, consoleVars, run, known, guard, scope, adopts, status>>

\* A tool that reports success has the trees it was asked for.
ToolEnds ==
  /\ run = "download"
  /\ status' \in {"FAILED"} \cup (IF scope \subseteq Present THEN {"OK"} ELSE {})
  /\ run' = "verify"
  /\ UNCHANGED <<depotVars, manifest, owner, consoleVars, known, guard, scope, adopts, wrote, word>>

\* As if only a target that failed needed the check.
VerifyFailedOnly ==
  /\ run = "verify" /\ run' = "adopt"
  /\ status' = IF status = "FAILED" /\ guard \cap wrote # {} THEN "CHANGED" ELSE status
  /\ UNCHANGED <<depotVars, manifest, owner, consoleVars, known, guard, scope, adopts, wrote, word>>

\* The fingerprints are compared, on success and on failure.
Verify ==
  /\ run = "verify" /\ run' = "adopt"
  /\ \/ status' = IF guard \cap wrote # {} THEN "CHANGED" ELSE status
     \/ /\ "fingerprint" \in Faults /\ guard # {}
        /\ status' = IF status = "OK" THEN "UNVERIFIED" ELSE status
  /\ UNCHANGED <<depotVars, manifest, owner, consoleVars, known, guard, scope, adopts, wrote, word>>

\* A successful artifact target replaces the entry of its tree, unless protected; a
\* failure to record it is a result of the target.
Adopt ==
  /\ run = "adopt" /\ run' = "record"
  /\ IF status = "OK" /\ adopts
     THEN \/ /\ scope \cap Protected(manifest) = {} /\ UNCHANGED status
             /\ manifest' = [t \in Trees |-> IF t \in scope THEN Entry("product-managed", FALSE)
                                                            ELSE manifest[t]]
          \/ /\ scope \cap Protected(manifest) # {} \/ "record" \in Faults
             /\ status' = "OWNERSHIP" /\ UNCHANGED manifest
     ELSE UNCHANGED <<manifest, status>>
  /\ UNCHANGED <<depotVars, owner, consoleVars, known, guard, scope, adopts, wrote, word>>

\* As if trees were recorded for successful targets only.
RecordNewOnSuccess ==
  /\ run = "record" /\ run' = "targets"
  /\ manifest' = IF status = "OK"
                 THEN RecordedIfAbsent(Present \ known, [t \in Trees |-> Entry("product-managed", FALSE)])
                 ELSE manifest
  /\ known' = Present
  /\ UNCHANGED <<depotVars, owner, consoleVars, targetVars, word>>

\* record_new_product_trees after every target, whatever its result.
RecordNew ==
  /\ run = "record" /\ run' = "targets"
  /\ manifest' = RecordedIfAbsent(Present \ known, [t \in Trees |-> Entry("product-managed", FALSE)])
  /\ known' = Present
  /\ UNCHANGED <<depotVars, owner, consoleVars, targetVars, word>>

\* The lock is gone with the run, and with the tool that it may have left.
Leave == /\ owner' = "nobody" /\ run' = "idle" /\ known' = {}
         /\ guard' = {} /\ scope' = {} /\ adopts' = FALSE /\ wrote' = {} /\ status' = "none"
         /\ UNCHANGED <<depotVars, consoleVars>>

\* Some of the new trees are recorded, the next one cannot be, and the run exits.
RecordFails ==
  /\ "record" \in Faults /\ run = "record"
  /\ \E S \in SUBSET (Present \ known) :
       /\ S # Present \ known
       /\ manifest' = RecordedIfAbsent(S, [t \in Trees |-> Entry("product-managed", FALSE)])
       /\ word' = LeftBehind(Present \ (known \cup S))
  /\ Leave

RunEnds == run = "targets" /\ Leave /\ UNCHANGED <<manifest, word>>

\* As if the tool did not inherit the lock of the run that started it.
KillFreesLock ==
  /\ "kill" \in Faults /\ run \notin {"idle", "orphan"}
  /\ word' = LeftBehind(wrote)
  /\ IF run = "download"
     THEN /\ run' = "orphan" /\ owner' = "nobody"
          /\ UNCHANGED <<depotVars, consoleVars, known, targetVars>>
     ELSE Leave
  /\ UNCHANGED manifest

\* A run is killed; while a target is downloaded its tool keeps the lock.
Kill ==
  /\ "kill" \in Faults /\ run \notin {"idle", "orphan"}
  /\ word' = LeftBehind(wrote)
  /\ IF run = "download"
     THEN run' = "orphan" /\ UNCHANGED <<depotVars, owner, consoleVars, known, targetVars>>
     ELSE Leave
  /\ UNCHANGED manifest

OrphanEnds == run = "orphan" /\ Leave /\ UNCHANGED <<manifest, word>>

RunNext ==
  \/ RunBegins \/ Decide \/ ToolEnds \/ Verify \/ Adopt \/ RecordNew \/ RecordFails \/ RunEnds
  \/ Kill \/ OrphanEnds
  \/ \E S \in SUBSET Trees : BeginTarget(S)
  \/ \E t \in Trees : ToolWrites(t)

Step == ConsoleNext \/ RunNext \/ \E t \in Trees : PlaceTree(t) \/ LoseTree(t)

\* Kept with every step: an open entry that stands without its tree, outside of the
\* deletion that is about to forget it, has outlived it for as long as it is open.
Outlives ==
  outlived' = {t \in Open(manifest') :
                 \/ t \in outlived
                 \/ depot'[t] = {} /\ ~(step' = "delete" /\ t \in moved')}

Next == Step /\ Outlives

Spec == Init /\ [][Next]_vars

-----------------------------------------------------------------------------
(* Properties.                                                             *)

Kept == {t \in Trees : word[t] = "protect"}

\* A target is never run when it is listed to write a tree that the operator put
\* there as a library, uploaded or protected, and did not release since: not
\* through an upload that was rolled back, a deletion, an adoption or an
\* inventory in between (sync.sh:1004-1019, app.py:341-361, 474-488).  It may be run
\* against a library or an upload whose name has an open entry left of an earlier
\* tree (outlived): the code leaves that entry as it is (app.py:351-358, 484), while
\* README.md:159-160 and 167-168 say that such trees are protected.
TargetSparesProtectedTrees ==
  run \in {"download", "orphan"} => (Kept \ outlived) \cap scope = {}

\* A tool that writes a protected tree against its listing is not reported as
\* successful, whether it failed or not (sync.sh:1035-1064); the names excepted
\* above are here as well.
ProtectedWritesAreReported ==
  run \in {"adopt", "record"} /\ status = "OK" => (Kept \ outlived) \cap wrote = {}

\* A tree that only the product wrote is not protected unless the operator said
\* so or the run that wrote it was killed or could not record it, although a
\* downloaded content library looks like the operator's (sync.sh:570-580).
ProductTreesAreOpen ==
  \A t \in Protected(manifest) : depot[t] = {"product"} => word[t] \in {"protect", "left"}

\* Protection is given up only by the operator's switch: never by a failing
\* upload or deletion, a scan or an adoption (app.py:3540-3583, sync.sh:305-311).
ProtectionEndsByWord ==
  [][\A t \in Protected(manifest) \ Protected(manifest') : word'[t] = "release"]_vars

-----------------------------------------------------------------------------
(* What the repository says and the code does not do.                      *)

\* "Newly uploaded top-level trees are recorded as operator-provided and protected
\* automatically" (README.md:167-168).  An entry of a tree that is gone decides
\* instead; one stays behind with "console", "forget" or "volume" in Faults.
UploadsAreProtected ==
  [][RecordUpload => chosen \subseteq Protected(manifest')]_vars
=============================================================================
