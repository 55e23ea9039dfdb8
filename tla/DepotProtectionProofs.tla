------------------------ MODULE DepotProtectionProofs ------------------------
(***************************************************************************)
(* Machine-checked proofs about DepotProtection, for any trees and any     *)
(* failures: what the operator protects stays protected until the operator *)
(* says otherwise, no target is run against it, and no tree of the product *)
(* becomes protected by itself.                                            *)
(***************************************************************************)
EXTENDS DepotProtection, TLAPS

Manifests == [Trees -> Entries \cup {NoEntry}]

\* A tree the operator has the last word on is protected in the manifest, or about
\* to be: while nobody is at work it may be a library that no scan has seen yet,
\* or one whose name has an open entry that stood there before it.
KeptIsRecorded ==
  \A t \in Trees : word[t] = "protect" =>
    \/ t \in Protected(manifest)
    \/ t \in outlived
    \/ owner = "nobody" /\ manifest[t] = NoEntry /\ t \in library /\ depot[t] # {}

\* A deletion leaves protected trees alone, and has removed what it counts as removed.
\* Where an upload meets an entry, that is one of an earlier tree.
RequestSpares ==
  /\ step = "none" => chosen = {}
  /\ step = "delete" => /\ chosen \cap Protected(manifest) = {}
                        /\ \A t \in moved : depot[t] = {}
  /\ step = "upload" => \A t \in chosen :
       /\ t \in Open(manifest) => t \in outlived
       /\ t \in Protected(manifest) => word[t] \in {"protect", "left"}

\* outlived names open entries, and every one without a tree that is not about to be
\* forgotten.
OutlivedIsStale ==
  /\ outlived \subseteq Open(manifest)
  /\ \A t \in Open(manifest) :
       depot[t] = {} => t \in outlived \/ (step = "delete" /\ t \in moved)

\* What a run compares with is the protection in the manifest, all the time.
GuardIsProtection ==
  run \in {"scoping", "download", "verify", "adopt", "record", "orphan"} =>
    guard = Protected(manifest)
ScopeSpares == run \in {"download", "verify", "orphan"} => guard \cap scope = {}
ResultIsHonest == run \in {"adopt", "record"} /\ status = "OK" => guard \cap wrote = {}

\* Every tree is listed before a target begins, and no later than after the next one.
KnownIsListed ==
  /\ run # "idle" => \A t \in known : manifest[t] # NoEntry
  /\ run = "targets" => \A t \in Present : manifest[t] # NoEntry

\* Trees without content of the operator: a protected one is protected by word or
\* was left by a killed run; one that is not listed was left, or is being written.
ProductTrees ==
  \A t \in Trees :
    /\ manifest[t] = NoEntry => word[t] # "release"
    /\ "operator" \notin depot[t] =>
         /\ t \in Protected(manifest) => word[t] \in {"protect", "left"}
         /\ manifest[t] = NoEntry /\ depot[t] # {} =>
              \/ word[t] \in {"protect", "left"}
              \/ run \notin {"idle", "targets", "orphan"} /\ t \in wrote

ProtectionInv == /\ ProtectionTypeOK /\ KeptIsRecorded /\ RequestSpares /\ GuardIsProtection
                 /\ ScopeSpares /\ ResultIsHonest /\ KnownIsListed /\ ProductTrees
                 /\ OutlivedIsStale

-----------------------------------------------------------------------------
(* The history variable.                                                   *)

LEMMA OutlivedFollows ==
  ASSUME Outlives
  PROVE  outlived' \subseteq Trees /\ OutlivedIsStale'
BY DEF Outlives, OutlivedIsStale, Open

\* An entry that has outlived its tree does so until it is forgotten or protected.
LEMMA OutlivedStays ==
  ASSUME ProtectionInv, Outlives
  PROVE  /\ \A t \in outlived :
              manifest'[t] # NoEntry => t \in Protected(manifest') \/ t \in outlived'
         /\ manifest' = manifest => outlived \subseteq outlived'
BY DEF ProtectionInv, Outlives, OutlivedIsStale, Open, Protected

-----------------------------------------------------------------------------
(* The scan of the depot.                                                  *)

LEMMA EntryIsListed ==
  ASSUME NEW o \in {"product-managed", "operator-provided", "unknown"}, NEW p \in BOOLEAN
  PROVE  /\ Entry(o, p) \in Entries
         /\ Entry(o, p) # NoEntry
         /\ Entry(o, p).protected = p
<1>1. Entry(o, p) \in Entries
  BY DEF Entry, Entries
<1>2. Entry(o, p).protected = p
  BY DEF Entry
<1> QED BY <1>1, <1>2, EntryDiffers

\* A scan keeps every entry and lists what exists.
LEMMA ScanKeepsEntries ==
  ASSUME ProtectionTypeOK
  PROVE  /\ Inventoried \in Manifests
         /\ \A t \in Trees :
              Inventoried[t] = IF t \in Present /\ manifest[t] = NoEntry THEN Detected[t]
                                                                         ELSE manifest[t]
BY DEF Inventoried, RecordedIfAbsent, Detected, Entry, Manifests, Entries, ProtectionTypeOK

\* It protects libraries that were not listed, and nothing else.
LEMMA ScanProtects ==
  ASSUME ProtectionTypeOK, NEW t \in Trees
  PROVE  /\ t \in Protected(manifest) => t \in Protected(Inventoried)
         /\ t \in Protected(Inventoried) =>
              t \in Protected(manifest) \/ (manifest[t] = NoEntry /\ t \in Present /\ t \in library)
         /\ manifest[t] = NoEntry /\ t \in Present /\ t \in library => t \in Protected(Inventoried)
         /\ t \in Present => Inventoried[t] # NoEntry
         /\ manifest[t] # NoEntry => Inventoried[t] # NoEntry
         /\ Inventoried[t] = NoEntry => manifest[t] = NoEntry
<1>1. Inventoried[t] = IF t \in Present /\ manifest[t] = NoEntry THEN Detected[t] ELSE manifest[t]
  BY ScanKeepsEntries
<1>2. Detected[t] # NoEntry /\ (Detected[t].protected <=> t \in library)
  BY EntryIsListed DEF Detected
<1> QED BY <1>1, <1>2 DEF Protected

LEMMA ProtectionInvInit == Init => ProtectionInv
<1>1. Init => OutlivedIsStale
  BY DEF Init, OutlivedIsStale, Open
<1> QED BY <1>1, EntryDiffers
   DEF Init, ProtectionInv, ProtectionTypeOK, KeptIsRecorded, RequestSpares, GuardIsProtection,
       ScopeSpares, ResultIsHonest, KnownIsListed, ProductTrees, Protected, Present, Contents,
       Entries, Results

\* The parts about the run.
RunParts == GuardIsProtection /\ ScopeSpares /\ ResultIsHonest /\ KnownIsListed

LEMMA NoRunNoParts == (run = "idle" => RunParts)'
BY DEF RunParts, GuardIsProtection, ScopeSpares, ResultIsHonest, KnownIsListed

\* What a scan by the console does to the parts, whatever it is the first step of.
LEMMA ScanKeepsParts ==
  ASSUME ProtectionInv, Outlives, owner = "nobody", manifest' = Inventoried
  PROVE  /\ run = "idle" /\ step = "none" /\ chosen = {}
         /\ manifest' \in Manifests
         /\ \A t \in Trees : word[t] = "protect" => t \in Protected(manifest') \/ t \in outlived'
         /\ \A t \in Trees : manifest'[t] = NoEntry => word[t] # "release" /\ depot[t] = {}
         /\ \A t \in Trees : t \in Protected(manifest') /\ "operator" \notin depot[t] =>
              word[t] \in {"protect", "left"}
<1> USE DEF ProtectionInv
<1>1. run = "idle" /\ step = "none" /\ chosen = {}
  BY DEF ProtectionTypeOK, RequestSpares
<1>2. manifest' \in Manifests
  BY ScanKeepsEntries
<1>3. ASSUME NEW t \in Trees
      PROVE  /\ word[t] = "protect" => t \in Protected(manifest') \/ t \in outlived'
             /\ manifest'[t] = NoEntry => word[t] # "release" /\ depot[t] = {}
             /\ t \in Protected(manifest') /\ "operator" \notin depot[t] =>
                  word[t] \in {"protect", "left"}
  <2>1. t \in outlived => t \in Protected(manifest') \/ t \in outlived'
    BY ScanProtects, OutlivedStays DEF OutlivedIsStale, Open
  <2> QED BY <1>1, <2>1, ScanProtects DEF KeptIsRecorded, ProductTrees, Present
<1> QED BY <1>1, <1>2, <1>3

LEMMA InventoryKeepsInv ==
  ASSUME ProtectionInv, Outlives, Inventory
  PROVE  ProtectionInv'
<1> USE DEF Inventory, depotVars, consoleVars, runVars, targetVars
<1>1. ProtectionTypeOK'
  BY OutlivedFollows, ScanKeepsParts DEF ProtectionTypeOK, Manifests, ProtectionInv
<1>2. KeptIsRecorded' /\ RequestSpares' /\ ProductTrees'
  BY ScanKeepsParts DEF KeptIsRecorded, RequestSpares, ProductTrees
<1>3. RunParts'
  BY ScanKeepsParts, NoRunNoParts
<1> QED BY OutlivedFollows, <1>1, <1>2, <1>3 DEF ProtectionInv, RunParts

LEMMA BeginKeepsInv ==
  ASSUME ProtectionInv, Outlives, NEW S \in SUBSET Trees, BeginUpload(S) \/ BeginDelete(S)
  PROVE  ProtectionInv'
<1> USE DEF BeginUpload, BeginDelete, Begin, depotVars, runVars, targetVars
<1>1. ProtectionTypeOK'
  BY OutlivedFollows, ScanKeepsParts DEF ProtectionTypeOK, Manifests, ProtectionInv
<1>2. KeptIsRecorded' /\ ProductTrees'
  BY ScanKeepsParts DEF KeptIsRecorded, ProductTrees
<1>3. RequestSpares'
  <2>1. CASE BeginDelete(S)
    BY <2>1 DEF RequestSpares, Protected
  <2>2. ASSUME BeginUpload(S), NEW t \in S
        PROVE  /\ t \in Open(manifest') => t \in outlived'
               /\ t \in Protected(manifest') => word'[t] \in {"protect", "left"}
    <3>1. depot[t] = {} /\ "operator" \notin depot[t] /\ step = "none"
      BY <2>2, ScanKeepsParts DEF Present
    <3>2. manifest'[t] = manifest[t]
      BY <3>1, ScanKeepsEntries DEF Present, ProtectionInv
    <3>3. t \in Open(manifest') => t \in outlived'
      BY <3>1, <3>2, OutlivedStays DEF OutlivedIsStale, ProtectionInv, Open, Protected
    <3> QED BY <3>1, <3>2, <3>3, ScanKeepsParts
  <2>3. ASSUME BeginUpload(S) PROVE step' = "upload" /\ chosen' = S
    BY <2>3
  <2> QED BY <2>1, <2>2, <2>3 DEF RequestSpares
<1>4. RunParts'
  BY ScanKeepsParts, NoRunNoParts
<1> QED BY OutlivedFollows, <1>1, <1>2, <1>3, <1>4 DEF ProtectionInv, RunParts

LEMMA InsideKeepsInv ==
  ASSUME ProtectionInv, Outlives, NEW t \in Trees, UploadInside(t) \/ DeleteInside(t)
  PROVE  ProtectionInv'
<1> USE DEF UploadInside, DeleteInside, consoleVars, runVars, targetVars
<1>1. ProtectionTypeOK'
  BY OutlivedFollows, ScanKeepsParts DEF ProtectionTypeOK, Manifests, ProtectionInv, Contents
<1>2. KeptIsRecorded' /\ RequestSpares'
  BY ScanKeepsParts DEF KeptIsRecorded, RequestSpares
<1>3. ProductTrees'
  <2>1. \A x \in Trees : depot'[x] = {} <=> depot[x] = {}
    BY DEF ProtectionInv, ProtectionTypeOK, Present
  <2>2. \A x \in Trees : "operator" \notin depot'[x] => "operator" \notin depot[x]
    BY DEF ProtectionInv, ProtectionTypeOK
  <2> QED BY <2>1, <2>2, ScanKeepsParts DEF ProductTrees
<1>4. RunParts'
  BY ScanKeepsParts, NoRunNoParts
<1> QED BY OutlivedFollows, <1>1, <1>2, <1>3, <1>4 DEF ProtectionInv, RunParts

\* While the console holds the lock no run is under way, and what the operator
\* protects is recorded.
LEMMA ConsoleAtWork ==
  ASSUME ProtectionInv, step # "none"
  PROVE  /\ run = "idle" /\ owner = "console"
         /\ \A t \in Trees : word[t] = "protect" => t \in Protected(manifest) \/ t \in outlived
         /\ \A t \in Trees : manifest[t] = NoEntry => word[t] # "release"
BY DEF ProtectionInv, ProtectionTypeOK, KeptIsRecorded, ProductTrees

LEMMA PublishKeepsInv ==
  ASSUME ProtectionInv, Outlives, NEW t \in Trees, Publish(t) \/ Remove(t)
  PROVE  ProtectionInv'
<1> USE DEF Publish, Remove, runVars, targetVars
<1>1. ProtectionTypeOK'
  BY OutlivedFollows DEF ProtectionTypeOK, Manifests, ProtectionInv, Contents
<1>2. KeptIsRecorded'
  BY ConsoleAtWork, OutlivedStays DEF KeptIsRecorded, Protected
<1>3. RequestSpares'
  <2>1. \A x \in moved' : step = "delete" => depot'[x] = {}
    BY DEF RequestSpares, ProtectionInv, ProtectionTypeOK
  <2> QED BY <2>1, OutlivedStays DEF RequestSpares, ProtectionInv, ProtectionTypeOK, Open, Protected
<1>4. ProductTrees'
  <2>1. \A x \in Trees : depot'[x] # {} /\ "operator" \notin depot'[x] => depot'[x] = depot[x]
    BY DEF ProtectionInv, ProtectionTypeOK
  <2>2. \A x \in Trees : x \in Protected(manifest) /\ "operator" \notin depot'[x] => depot'[x] = depot[x]
    BY DEF ProtectionInv, ProtectionTypeOK, RequestSpares, Protected
  <2> QED BY <2>1, <2>2, ConsoleAtWork DEF ProductTrees, ProtectionInv
<1>5. RunParts'
  BY ConsoleAtWork, NoRunNoParts
<1> QED BY OutlivedFollows, <1>1, <1>2, <1>3, <1>4, <1>5 DEF ProtectionInv, RunParts

LEMMA FailUploadKeepsInv ==
  ASSUME ProtectionInv, Outlives, FailUpload \/ ConsoleStops
  PROVE  ProtectionInv'
<1> USE DEF FailUpload, ConsoleStops, Done, depotVars, runVars, targetVars
<1>1. ProtectionTypeOK'
  BY OutlivedFollows, ConsoleAtWork DEF ProtectionTypeOK, Manifests, ProtectionInv, Contents
<1>2. KeptIsRecorded' /\ RequestSpares'
  BY ConsoleAtWork, OutlivedStays DEF KeptIsRecorded, RequestSpares, Protected
<1>4. ProductTrees'
  <2>1. \A x \in Trees : depot'[x] # {} /\ "operator" \notin depot'[x] => depot'[x] = depot[x]
    BY DEF ProtectionInv, ProtectionTypeOK
  <2>2. \A x \in Trees : x \in Protected(manifest) /\ "operator" \notin depot'[x] =>
                         depot'[x] = depot[x] \/ word[x] \in {"protect", "left"}
    BY DEF ProtectionInv, ProtectionTypeOK, RequestSpares, Protected
  <2> QED BY <2>1, <2>2, ConsoleAtWork DEF ProductTrees, ProtectionInv
<1>5. RunParts'
  BY ConsoleAtWork, NoRunNoParts
<1> QED BY OutlivedFollows, <1>1, <1>2, <1>4, <1>5 DEF ProtectionInv, RunParts

LEMMA RecordUploadKeepsInv ==
  ASSUME ProtectionInv, Outlives, RecordUpload
  PROVE  ProtectionInv' /\ Protected(manifest) \subseteq Protected(manifest')
<1> USE DEF RecordUpload, Done, depotVars, runVars, targetVars
<1> DEFINE E == Entry("operator-provided", TRUE)
<1>1. E \in Entries /\ E # NoEntry /\ E.protected
  BY EntryIsListed
<1>2. /\ manifest' \in Manifests
      /\ \A t \in Trees : manifest'[t] = IF t \in chosen /\ manifest[t] = NoEntry THEN E ELSE manifest[t]
  BY <1>1 DEF RecordedIfAbsent, ProtectionInv, ProtectionTypeOK, Manifests
<1> HIDE DEF E
<1>3. Protected(manifest) \subseteq Protected(manifest')
  BY <1>2 DEF Protected
<1>4. ASSUME NEW t \in Trees
      PROVE  /\ t \in Protected(manifest') => t \in Protected(manifest) \/ t \in chosen
             /\ word'[t] = IF t \in chosen THEN "protect" ELSE word[t]
             /\ manifest'[t] = NoEntry => manifest[t] = NoEntry /\ t \notin chosen
  BY <1>1, <1>2 DEF Protected
<1>5. ProtectionTypeOK'
  BY OutlivedFollows, <1>2, ConsoleAtWork DEF ProtectionTypeOK, Manifests, ProtectionInv
<1>6. KeptIsRecorded' /\ RequestSpares'
  <2>1. RequestSpares'
    BY DEF RequestSpares
  <2> SUFFICES ASSUME NEW t \in Trees, word'[t] = "protect"
               PROVE  t \in Protected(manifest') \/ t \in outlived'
    BY <2>1 DEF KeptIsRecorded
  <2>2. t \in chosen => t \in Protected(manifest') \/ t \in outlived
    BY <1>1, <1>2 DEF RequestSpares, ProtectionInv, Open, Protected
  <2>3. t \in outlived => t \in Protected(manifest') \/ t \in outlived'
    BY <1>4, OutlivedStays DEF OutlivedIsStale, ProtectionInv, Open
  <2> QED BY <1>3, <1>4, <2>2, <2>3, ConsoleAtWork
<1>7. ProductTrees'
  BY <1>3, <1>4, ConsoleAtWork DEF ProductTrees, ProtectionInv
<1>8. RunParts'
  BY ConsoleAtWork, NoRunNoParts
<1> QED BY OutlivedFollows, <1>3, <1>5, <1>6, <1>7, <1>8 DEF ProtectionInv, RunParts

LEMMA ForgetTreesKeepsInv ==
  ASSUME ProtectionInv, Outlives, ForgetTrees
  PROVE  ProtectionInv' /\ Protected(manifest) \subseteq Protected(manifest')
<1> USE DEF ForgetTrees, Done, depotVars, runVars, targetVars
<1>1. ProtectionTypeOK'
  BY OutlivedFollows, ConsoleAtWork DEF ProtectionTypeOK, ProtectionInv
<1>2. Protected(manifest') = Protected(manifest)
  BY DEF Protected, RequestSpares, ProtectionInv, ProtectionTypeOK
<1>3. KeptIsRecorded' /\ RequestSpares'
  <2>1. RequestSpares'
    BY DEF RequestSpares
  <2> SUFFICES ASSUME NEW t \in Trees, word'[t] = "protect"
               PROVE  t \in Protected(manifest') \/ t \in outlived'
    BY <2>1 DEF KeptIsRecorded
  <2>2. word[t] = "protect" /\ manifest'[t] = manifest[t]
    BY DEF ProtectionInv, ProtectionTypeOK
  <2>3. t \in outlived => manifest[t] # NoEntry
    BY DEF OutlivedIsStale, ProtectionInv, Open
  <2> QED BY <1>2, <2>2, <2>3, ConsoleAtWork, OutlivedStays
<1>4. ProductTrees'
  BY <1>2, ConsoleAtWork DEF ProductTrees, RequestSpares, ProtectionInv, ProtectionTypeOK
<1>5. RunParts'
  BY ConsoleAtWork, NoRunNoParts
<1> QED BY OutlivedFollows, <1>1, <1>2, <1>3, <1>4, <1>5 DEF ProtectionInv, RunParts

LEMMA SetProtectionKeepsInv ==
  ASSUME ProtectionInv, Outlives, NEW t \in Trees, NEW p \in BOOLEAN, SetProtection(t, p)
  PROVE  /\ ProtectionInv'
         /\ \A x \in Protected(manifest) \ Protected(manifest') : word'[x] = "release"
<1> USE DEF SetProtection, depotVars, consoleVars, runVars, targetVars
<1>1. Inventoried \in Manifests /\ Inventoried[t] \in Entries
  BY ScanKeepsEntries, ScanProtects DEF ProtectionInv, Manifests
<1>2. /\ manifest' \in Manifests
      /\ manifest'[t] \in Entries /\ manifest'[t].protected = p
      /\ \A x \in Trees \ {t} : manifest'[x] = Inventoried[x]
  BY <1>1 DEF Manifests, Entries
<1>3. \A x \in Trees : x \in Protected(manifest') <=> IF x = t THEN p ELSE x \in Protected(Inventoried)
  BY <1>2, EntryDiffers DEF Protected
<1>4. \A x \in Trees : manifest'[x] = NoEntry <=> x # t /\ Inventoried[x] = NoEntry
  BY <1>2, EntryDiffers
<1>5. run = "idle" /\ step = "none" /\ chosen = {}
  BY DEF ProtectionInv, ProtectionTypeOK, RequestSpares
<1>6. ProtectionTypeOK'
  BY OutlivedFollows, <1>2, <1>5 DEF ProtectionTypeOK, Manifests, ProtectionInv
<1>7. ASSUME NEW x \in Trees
      PROVE  /\ word[x] = "protect" => x \in Protected(Inventoried) \/ x \in outlived
             /\ Inventoried[x] = NoEntry => word[x] # "release" /\ depot[x] = {}
             /\ x \in Protected(Inventoried) /\ "operator" \notin depot[x] =>
                  word[x] \in {"protect", "left"}
             /\ x \in Protected(manifest) => x \in Protected(Inventoried)
  BY <1>5, ScanProtects DEF KeptIsRecorded, ProductTrees, Present, ProtectionInv
<1>8. \A x \in Trees : word'[x] = IF x = t THEN IF p THEN "protect" ELSE "release" ELSE word[x]
  BY DEF ProtectionInv, ProtectionTypeOK
<1>9. KeptIsRecorded' /\ RequestSpares' /\ ProductTrees'
  <2>1. KeptIsRecorded'
    <3> SUFFICES ASSUME NEW x \in Trees, word'[x] = "protect"
                 PROVE  x \in Protected(manifest') \/ x \in outlived'
      BY DEF KeptIsRecorded
    <3>1. IF x = t THEN p ELSE word[x] = "protect"
      BY <1>8
    <3>2. x \in outlived => manifest'[x] # NoEntry
      BY <1>4, ScanProtects DEF OutlivedIsStale, ProtectionInv, Open
    <3> QED BY <3>1, <3>2, <1>3, <1>7, OutlivedStays
  <2>2. RequestSpares'
    BY <1>5 DEF RequestSpares
  <2>3. ProductTrees'
    <3> SUFFICES ASSUME NEW x \in Trees PROVE ProductTrees!(x)'
      BY DEF ProductTrees
    <3>1. CASE x = t
      BY <3>1, <1>3, <1>4, <1>8 DEF ProductTrees
    <3>2. CASE x # t
      BY <3>2, <1>3, <1>4, <1>7, <1>8 DEF ProductTrees
    <3> QED BY <3>1, <3>2
  <2> QED BY <2>1, <2>2, <2>3
<1>10. RunParts'
  BY <1>5, NoRunNoParts
<1>11. \A x \in Protected(manifest) \ Protected(manifest') : word'[x] = "release"
  BY <1>3, <1>7, <1>8 DEF Protected
<1> QED BY OutlivedFollows, <1>6, <1>9, <1>10, <1>11 DEF ProtectionInv, RunParts

LEMMA PlaceTreeKeepsInv ==
  ASSUME ProtectionInv, Outlives, NEW t \in Trees, PlaceTree(t)
  PROVE  ProtectionInv'
<1> USE DEF PlaceTree, consoleVars, runVars, targetVars
<1>1. owner = "nobody"
  BY DEF ProtectionInv, ProtectionTypeOK
<1>2. ProtectionTypeOK'
  BY OutlivedFollows DEF ProtectionTypeOK, ProtectionInv, Contents
<1>3. \A x \in Trees : depot'[x] = IF x = t THEN {"operator"} ELSE depot[x]
  BY DEF ProtectionInv, ProtectionTypeOK
<1>4. ASSUME NEW x \in Trees, x # t PROVE word'[x] = word[x] /\ (x \in library' <=> x \in library)
  BY <1>4 DEF ProtectionInv, ProtectionTypeOK
<1>5. word'[t] = "protect" =>
        \/ t \in Protected(manifest) \/ t \in outlived
        \/ manifest[t] = NoEntry /\ t \in library'
  BY DEF ProtectionInv, ProtectionTypeOK, KeptIsRecorded, OutlivedIsStale, Open, Protected
<1>6. KeptIsRecorded' /\ RequestSpares'
  <2>1. KeptIsRecorded'
    BY <1>1, <1>3, <1>4, <1>5, OutlivedStays DEF KeptIsRecorded, ProtectionInv, Protected
  <2> QED BY <2>1 DEF RequestSpares, ProtectionInv
<1>7. ProductTrees'
  <2>1. word'[t] \in {word[t], "protect"}
    BY DEF ProtectionInv, ProtectionTypeOK
  <2> QED BY <1>3, <1>4, <2>1 DEF ProductTrees, ProtectionInv, ProtectionTypeOK
<1>8. RunParts'
  BY NoRunNoParts
<1> QED BY OutlivedFollows, <1>2, <1>6, <1>7, <1>8 DEF ProtectionInv, RunParts

LEMMA LoseTreeKeepsInv ==
  ASSUME ProtectionInv, Outlives, NEW t \in Trees, LoseTree(t)
  PROVE  ProtectionInv'
<1> USE DEF LoseTree, consoleVars, runVars, targetVars
<1>1. ProtectionTypeOK'
  BY OutlivedFollows DEF ProtectionTypeOK, ProtectionInv, Contents
<1>2. \A x \in Trees : depot'[x] = IF x = t THEN {} ELSE depot[x]
  BY DEF ProtectionInv, ProtectionTypeOK
<1>3. \A x \in Trees \ {t} : word'[x] = word[x] /\ (x \in library' <=> x \in library)
  BY DEF ProtectionInv, ProtectionTypeOK
<1>4. /\ manifest[t] = NoEntry => word'[t] = "none"
      /\ t \in Protected(manifest) => word'[t] = "protect"
      /\ manifest[t] # NoEntry /\ t \notin Protected(manifest) => word'[t] = word[t]
  BY DEF ProtectionInv, ProtectionTypeOK, Protected
<1>5. KeptIsRecorded'
  BY <1>2, <1>3, <1>4, OutlivedStays DEF KeptIsRecorded, ProtectionInv, Protected
<1>6. RequestSpares'
  <2>1. \A x \in Trees : word[x] \in {"protect", "left"} /\ x \in Protected(manifest) =>
                         word'[x] \in {"protect", "left"}
    BY <1>3, <1>4
  <2> QED BY <1>2, <2>1, OutlivedStays
          DEF RequestSpares, ProtectionInv, ProtectionTypeOK, Protected, Open
<1>7. ProductTrees'
  BY <1>2, <1>3, <1>4 DEF ProductTrees, ProtectionInv
<1>8. RunParts'
  BY <1>2 DEF RunParts, GuardIsProtection, ScopeSpares, ResultIsHonest, KnownIsListed, Present, ProtectionInv, Protected
<1> QED BY OutlivedFollows, <1>1, <1>5, <1>6, <1>7, <1>8 DEF ProtectionInv, RunParts

-----------------------------------------------------------------------------
(* The steps of a run.                                                     *)

\* During a run what the operator protects is recorded, and the console is idle.
LEMMA RunAtWork ==
  ASSUME ProtectionInv, run # "idle"
  PROVE  /\ owner = "run" /\ step = "none" /\ chosen = {}
         /\ \A t \in Trees : word[t] = "protect" => t \in Protected(manifest) \/ t \in outlived
BY DEF ProtectionInv, ProtectionTypeOK, KeptIsRecorded, RequestSpares

LEMMA RunBeginsKeepsInv ==
  ASSUME ProtectionInv, Outlives, RunBegins
  PROVE  ProtectionInv'
<1> USE DEF RunBegins, depotVars, consoleVars, targetVars
<1>1. ProtectionTypeOK'
  BY OutlivedFollows, ScanKeepsParts DEF ProtectionTypeOK, ProtectionInv, Manifests, Present
<1>2. KeptIsRecorded' /\ RequestSpares' /\ ProductTrees'
  BY ScanKeepsParts DEF KeptIsRecorded, RequestSpares, ProductTrees
<1>3. RunParts'
  BY ScanKeepsParts
     DEF RunParts, GuardIsProtection, ScopeSpares, ResultIsHonest, KnownIsListed, Present
<1> QED BY OutlivedFollows, <1>1, <1>2, <1>3 DEF ProtectionInv, RunParts

\* A run keeps what the operator protects recorded: it takes no protection and no
\* entry away.
LEMMA RunKeepsKept ==
  ASSUME ProtectionInv, Outlives, run # "idle", UNCHANGED consoleVars,
         Protected(manifest') = Protected(manifest),
         \A t \in Trees : manifest'[t] = NoEntry => manifest[t] = NoEntry,
         \A t \in Trees : word'[t] = "protect" => word[t] = "protect"
  PROVE  KeptIsRecorded' /\ RequestSpares'
<1>1. RequestSpares'
  BY RunAtWork DEF RequestSpares, consoleVars
<1>2. \A t \in outlived : t \in Trees /\ manifest[t] # NoEntry
  BY DEF OutlivedIsStale, ProtectionInv, Open
<1>3. \A t \in outlived : t \in Protected(manifest') \/ t \in outlived'
  BY <1>2, OutlivedStays
<1> QED BY <1>1, <1>3, RunAtWork DEF KeptIsRecorded

LEMMA BeginTargetKeepsInv ==
  ASSUME ProtectionInv, Outlives, NEW S \in SUBSET Trees, BeginTarget(S)
  PROVE  ProtectionInv'
<1> USE DEF BeginTarget, depotVars, consoleVars, ProtectionInv
<1>1. ProtectionTypeOK'
  BY OutlivedFollows DEF ProtectionTypeOK, Protected, Results
<1>2. KeptIsRecorded' /\ RequestSpares'
  BY RunKeepsKept DEF Protected
<1>3. ProductTrees'
  BY DEF ProductTrees, Protected
<1>4. RunParts'
  BY DEF RunParts, GuardIsProtection, ScopeSpares, ResultIsHonest, KnownIsListed, Protected, Present
<1> QED BY OutlivedFollows, <1>1, <1>2, <1>3, <1>4 DEF RunParts

\* The steps that only move on and set a status.
LEMMA MoveOnKeepsInv ==
  ASSUME ProtectionInv, Outlives, Decide \/ ToolEnds \/ Verify
  PROVE  ProtectionInv'
<1> USE DEF Decide, ToolEnds, Verify, Conflicts, depotVars, consoleVars, ProtectionInv
<1>1. ProtectionTypeOK'
  BY OutlivedFollows DEF ProtectionTypeOK, Results
<1>2. KeptIsRecorded' /\ RequestSpares'
  BY RunKeepsKept DEF Protected
<1>3. ProductTrees'
  BY DEF ProductTrees, Protected
<1>4. RunParts'
  BY DEF RunParts, GuardIsProtection, ScopeSpares, ResultIsHonest, KnownIsListed, Protected, Present
<1> QED BY OutlivedFollows, <1>1, <1>2, <1>3, <1>4 DEF RunParts

LEMMA ToolWritesKeepsInv ==
  ASSUME ProtectionInv, Outlives, NEW t \in Trees, ToolWrites(t)
  PROVE  ProtectionInv'
<1> USE DEF ToolWrites, consoleVars
<1>1. ProtectionTypeOK'
  BY OutlivedFollows DEF ProtectionTypeOK, LeftBehind, Contents, ProtectionInv
<1>2. /\ \A x \in Trees : depot'[x] = IF x = t THEN depot[x] \cup {"product"} ELSE depot[x]
      /\ \A x \in Trees : word'[x] = IF run = "orphan" /\ x = t /\ word[x] = "none" THEN "left" ELSE word[x]
  BY DEF ProtectionInv, ProtectionTypeOK, LeftBehind
<1>3. KeptIsRecorded' /\ RequestSpares'
  BY <1>2, RunKeepsKept DEF Protected
<1>4. ProductTrees'
  <2> SUFFICES ASSUME NEW x \in Trees PROVE ProductTrees!(x)'
    BY DEF ProductTrees
  <2> word[x] \in {"none", "protect", "release", "left"}
    BY DEF ProtectionInv, ProtectionTypeOK
  <2>1. /\ ProductTrees!(x)
        /\ manifest' = manifest /\ run' = run /\ wrote' = wrote \cup {t}
        /\ run \in {"download", "orphan"}
    BY DEF ProductTrees, ProtectionInv
  <2> QED BY <1>2, <2>1 DEF Protected
<1>5. RunParts'
  BY DEF RunParts, GuardIsProtection, ScopeSpares, ResultIsHonest, KnownIsListed, Protected, Present, ProtectionInv
<1> QED BY OutlivedFollows, <1>1, <1>3, <1>4, <1>5 DEF RunParts, ProtectionInv

\* An update of entries that adds no protection and unlists nothing.
LEMMA NewEntriesKeepProtection ==
  ASSUME ProtectionInv, NEW S \in SUBSET Trees, S \cap Protected(manifest) = {},
         manifest' = [t \in Trees |-> IF t \in S THEN Entry("product-managed", FALSE) ELSE manifest[t]]
  PROVE  /\ manifest' \in Manifests
         /\ Protected(manifest') = Protected(manifest)
         /\ \A t \in Trees : manifest'[t] = NoEntry <=> t \notin S /\ manifest[t] = NoEntry
<1> DEFINE E == Entry("product-managed", FALSE)
<1>1. E \in Entries /\ E # NoEntry /\ ~ E.protected
  BY EntryIsListed
<1> HIDE DEF E
<1>2. \A t \in Trees : manifest'[t] = IF t \in S THEN E ELSE manifest[t]
  BY DEF E
<1> QED BY <1>1, <1>2 DEF Manifests, Protected, ProtectionInv, ProtectionTypeOK, E

LEMMA AdoptKeepsInv ==
  ASSUME ProtectionInv, Outlives, Adopt
  PROVE  ProtectionInv' /\ Protected(manifest') = Protected(manifest)
<1> USE DEF Adopt, depotVars, consoleVars
<1>1. /\ manifest' \in Manifests
      /\ Protected(manifest') = Protected(manifest)
      /\ \A t \in Trees : manifest'[t] = NoEntry => manifest[t] = NoEntry
  BY NewEntriesKeepProtection DEF ProtectionInv, ProtectionTypeOK, Manifests
<1>2. status' \in {status, "OWNERSHIP"}
  OBVIOUS
<1>3. ProtectionTypeOK'
  BY OutlivedFollows, <1>1, <1>2 DEF ProtectionTypeOK, Results, Manifests, ProtectionInv
<1>4. KeptIsRecorded' /\ RequestSpares'
  BY <1>1, RunKeepsKept
<1>5. ProductTrees'
  BY <1>1 DEF ProductTrees, ProtectionInv
<1>6. RunParts'
  BY <1>1, <1>2 DEF RunParts, GuardIsProtection, ScopeSpares, ResultIsHonest, KnownIsListed,
       ProtectionInv, ProtectionTypeOK
<1> QED BY OutlivedFollows, <1>1, <1>3, <1>4, <1>5, <1>6 DEF RunParts, ProtectionInv

LEMMA RecordNewKeepsInv ==
  ASSUME ProtectionInv, Outlives, RecordNew
  PROVE  ProtectionInv' /\ Protected(manifest') = Protected(manifest)
<1> USE DEF RecordNew, depotVars, consoleVars, targetVars
<1> DEFINE S == {t \in Present \ known : manifest[t] = NoEntry}
<1>1. /\ manifest' = [t \in Trees |-> IF t \in S THEN Entry("product-managed", FALSE) ELSE manifest[t]]
      /\ S \in SUBSET Trees /\ S \cap Protected(manifest) = {}
  BY DEF RecordedIfAbsent, Present, Protected
<1>2. /\ manifest' \in Manifests
      /\ Protected(manifest') = Protected(manifest)
      /\ \A t \in Trees : manifest'[t] = NoEntry => manifest[t] = NoEntry /\ t \notin S
  BY <1>1, NewEntriesKeepProtection
<1>3. \A t \in Present : manifest'[t] # NoEntry
  BY <1>2 DEF KnownIsListed, ProtectionInv, Present
<1>4. ProtectionTypeOK'
  BY OutlivedFollows, <1>2 DEF ProtectionTypeOK, Manifests, ProtectionInv, Present
<1>5. KeptIsRecorded' /\ RequestSpares'
  BY <1>2, RunKeepsKept
<1>6. ProductTrees'
  BY <1>2, <1>3 DEF ProductTrees, ProtectionInv, Present
<1>7. RunParts'
  BY <1>2, <1>3 DEF RunParts, GuardIsProtection, ScopeSpares, ResultIsHonest, KnownIsListed, Present
<1> QED BY OutlivedFollows, <1>2, <1>4, <1>5, <1>6, <1>7 DEF RunParts, ProtectionInv

\* A run that cannot record a tree leaves it to the next scan.
LEMMA RecordFailsKeepsInv ==
  ASSUME ProtectionInv, Outlives, RecordFails
  PROVE  ProtectionInv' /\ Protected(manifest') = Protected(manifest)
<1> USE DEF RecordFails, Leave, depotVars, consoleVars
<1>1. PICK S \in SUBSET (Present \ known) :
        /\ manifest' = RecordedIfAbsent(S, [t \in Trees |-> Entry("product-managed", FALSE)])
        /\ word' = LeftBehind(Present \ (known \cup S))
  OBVIOUS
<1> DEFINE N == {t \in S : manifest[t] = NoEntry}
<1>2. /\ manifest' = [t \in Trees |-> IF t \in N THEN Entry("product-managed", FALSE) ELSE manifest[t]]
      /\ N \in SUBSET Trees /\ N \cap Protected(manifest) = {}
  BY <1>1 DEF RecordedIfAbsent, Present, Protected
<1>3. /\ manifest' \in Manifests
      /\ Protected(manifest') = Protected(manifest)
      /\ \A t \in Trees : manifest'[t] = NoEntry <=> t \notin N /\ manifest[t] = NoEntry
  BY <1>2, NewEntriesKeepProtection
<1>4. \A t \in Trees : word'[t] = IF t \in Present \ (known \cup S) /\ word[t] = "none"
                                  THEN "left" ELSE word[t]
  BY <1>1 DEF LeftBehind
<1>5. ProtectionTypeOK'
  <2>1. word' \in [Trees -> {"none", "protect", "release", "left"}]
    BY <1>1 DEF LeftBehind, ProtectionInv, ProtectionTypeOK
  <2> QED BY OutlivedFollows, RunAtWork, <1>3, <2>1
          DEF ProtectionTypeOK, Manifests, ProtectionInv, Results
<1>6. KeptIsRecorded' /\ RequestSpares'
  BY <1>3, <1>4, RunKeepsKept
<1>7. ProductTrees'
  <2> SUFFICES ASSUME NEW x \in Trees PROVE ProductTrees!(x)'
    BY DEF ProductTrees
  <2>1. ProductTrees!(x) /\ word[x] \in {"none", "protect", "release", "left"}
    BY DEF ProductTrees, ProtectionInv, ProtectionTypeOK
  <2>2. word'[x] = word[x] \/ (word[x] = "none" /\ word'[x] = "left")
    BY <1>4
  <2>3. manifest'[x] = NoEntry /\ depot[x] # {} => x \in Present \ (known \cup S)
    BY <1>3 DEF KnownIsListed, ProtectionInv, Present
  <2>4. manifest'[x] = NoEntry => manifest[x] = NoEntry
    BY <1>3
  <2>5. x \in Protected(manifest') <=> x \in Protected(manifest)
    BY <1>3
  <2>6. x \in Present \ (known \cup S) /\ word[x] = "none" => word'[x] = "left"
    BY <1>4
  <2> HIDE DEF RecordFails, Leave
  <2>7. depot' = depot
    BY DEF RecordFails, Leave
  <2> QED BY <2>1, <2>2, <2>3, <2>4, <2>5, <2>6, <2>7
<1>8. RunParts'
  BY NoRunNoParts
<1> QED BY OutlivedFollows, <1>3, <1>5, <1>6, <1>7, <1>8 DEF RunParts, ProtectionInv

\* The ways a run ends: after its targets, or killed with or without a tool.
LEMMA LeavingKeepsInv ==
  ASSUME ProtectionInv, Outlives, RunEnds \/ Kill \/ OrphanEnds
  PROVE  ProtectionInv' /\ manifest' = manifest
<1> USE DEF RunEnds, Kill, OrphanEnds, Leave, depotVars, consoleVars, targetVars
<1>1. /\ manifest' = manifest /\ depot' = depot /\ library' = library
      /\ run # "idle" /\ step' = step /\ chosen' = chosen /\ moved' = moved
      /\ \/ owner' = "nobody" /\ run' = "idle"
         \/ owner' = owner /\ run = "download" /\ run' = "orphan" /\ UNCHANGED <<known, targetVars>>
  OBVIOUS
<1>2. \/ word' = word /\ run \in {"targets", "orphan"}
      \/ word' = LeftBehind(wrote)
  OBVIOUS
<1>3. ProtectionTypeOK'
  <2>1. word' \in [Trees -> {"none", "protect", "release", "left"}]
    BY <1>2 DEF LeftBehind, ProtectionInv, ProtectionTypeOK
  <2>2. owner = "run" /\ step = "none"
    BY <1>1, RunAtWork
  <2>3. /\ known' \subseteq Trees /\ guard' \subseteq Trees /\ scope' \subseteq Trees
        /\ adopts' \in BOOLEAN /\ wrote' \subseteq Trees /\ status' \in Results
    BY DEF ProtectionTypeOK, ProtectionInv, Results
  <2>4. outlived' \subseteq Trees
    BY OutlivedFollows
  <2> QED BY <1>1, <2>1, <2>2, <2>3, <2>4 DEF ProtectionTypeOK, ProtectionInv
<1>4. \A t \in Trees : word'[t] = word[t] \/ (word[t] = "none" /\ word'[t] = "left" /\ t \in wrote)
  <2> SUFFICES ASSUME NEW t \in Trees
               PROVE  word'[t] = word[t] \/ (word[t] = "none" /\ word'[t] = "left" /\ t \in wrote)
    OBVIOUS
  <2>1. LeftBehind(wrote)[t] = IF t \in wrote /\ word[t] = "none" THEN "left" ELSE word[t]
    BY DEF LeftBehind
  <2>2. word' = word \/ word' = LeftBehind(wrote)
    BY <1>2
  <2> QED BY <2>1, <2>2
<1>5. KeptIsRecorded' /\ RequestSpares'
  BY <1>1, <1>4, RunKeepsKept DEF Protected
<1>6. ProductTrees'
  <2> SUFFICES ASSUME NEW x \in Trees PROVE ProductTrees!(x)'
    BY DEF ProductTrees
  <2>1. ProductTrees!(x) /\ word[x] \in {"none", "protect", "release", "left"}
    BY DEF ProductTrees, ProtectionInv, ProtectionTypeOK
  <2>2. run \notin {"idle", "targets", "orphan"} /\ x \in wrote /\ word[x] = "none" => word'[x] = "left"
    BY <1>2 DEF LeftBehind
  <2> QED BY <1>1, <1>4, <2>1, <2>2
<1>7. RunParts'
  BY <1>1 DEF RunParts, GuardIsProtection, ScopeSpares, ResultIsHonest, KnownIsListed, ProtectionInv
<1> QED BY OutlivedFollows, <1>1, <1>3, <1>5, <1>6, <1>7 DEF RunParts, ProtectionInv

-----------------------------------------------------------------------------
(* The theorems.                                                           *)

\* Every step keeps the invariant, and takes protection away by word only.
LEMMA ProtectionStep ==
  ASSUME ProtectionInv, [Next]_vars
  PROVE  /\ ProtectionInv'
         /\ \A t \in Protected(manifest) \ Protected(manifest') : word'[t] = "release"
<1> SUFFICES ASSUME Next \/ UNCHANGED vars
             PROVE  /\ ProtectionInv'
                    /\ \A t \in Protected(manifest) \ Protected(manifest') : word'[t] = "release"
  OBVIOUS
<1> DEFINE ByWord == \A t \in Protected(manifest) \ Protected(manifest') : word'[t] = "release"
<1>1. ASSUME Protected(manifest) \subseteq Protected(manifest') PROVE ByWord
  BY <1>1
<1>2. ASSUME manifest' = manifest PROVE ByWord
  BY <1>2 DEF Protected
<1>3. ASSUME manifest' = Inventoried PROVE ByWord
  BY <1>3, ScanProtects DEF ProtectionInv, Protected
<1> HIDE DEF ByWord
<1> SUFFICES ProtectionInv' /\ ByWord
  BY DEF ByWord
<1>4. ASSUME Outlives, Inventory PROVE ProtectionInv' /\ ByWord
  BY <1>4, <1>3, InventoryKeepsInv DEF Inventory
<1>5. ASSUME Outlives, RecordUpload \/ ForgetTrees PROVE ProtectionInv' /\ ByWord
  BY <1>5, <1>1, RecordUploadKeepsInv, ForgetTreesKeepsInv
<1>6. ASSUME Outlives, FailUpload \/ ConsoleStops PROVE ProtectionInv' /\ ByWord
  BY <1>6, <1>2, FailUploadKeepsInv DEF FailUpload, ConsoleStops
<1>7. ASSUME Outlives, NEW S \in SUBSET Trees, BeginUpload(S) \/ BeginDelete(S) PROVE ProtectionInv' /\ ByWord
  BY <1>7, <1>3, BeginKeepsInv DEF BeginUpload, BeginDelete, Begin
<1>8. ASSUME Outlives, NEW t \in Trees, Publish(t) \/ Remove(t) PROVE ProtectionInv' /\ ByWord
  BY <1>8, <1>2, PublishKeepsInv DEF Publish, Remove
<1>9. ASSUME Outlives, NEW t \in Trees, UploadInside(t) \/ DeleteInside(t) PROVE ProtectionInv' /\ ByWord
  BY <1>9, <1>3, InsideKeepsInv DEF UploadInside, DeleteInside
<1>10. ASSUME Outlives, NEW t \in Trees, NEW p \in BOOLEAN, SetProtection(t, p) PROVE ProtectionInv' /\ ByWord
  BY <1>10, SetProtectionKeepsInv DEF ByWord
<1>11. ASSUME Outlives, ConsoleNext PROVE ProtectionInv' /\ ByWord
  BY <1>11, <1>4, <1>5, <1>6, <1>7, <1>8, <1>9, <1>10 DEF ConsoleNext
<1>12. ASSUME Outlives, RunBegins PROVE ProtectionInv' /\ ByWord
  BY <1>12, <1>3, RunBeginsKeepsInv DEF RunBegins
<1>13. ASSUME Outlives, Decide \/ ToolEnds \/ Verify PROVE ProtectionInv' /\ ByWord
  BY <1>13, <1>2, MoveOnKeepsInv DEF Decide, ToolEnds, Verify
<1>14. ASSUME Outlives, Adopt \/ RecordNew \/ RecordFails PROVE ProtectionInv' /\ ByWord
  BY <1>14, <1>1, AdoptKeepsInv, RecordNewKeepsInv, RecordFailsKeepsInv
<1>15. ASSUME Outlives, RunEnds \/ Kill \/ OrphanEnds PROVE ProtectionInv' /\ ByWord
  BY <1>15, <1>2, LeavingKeepsInv
<1>16. ASSUME Outlives, NEW S \in SUBSET Trees, BeginTarget(S) PROVE ProtectionInv' /\ ByWord
  BY <1>16, <1>2, BeginTargetKeepsInv DEF BeginTarget
<1>17. ASSUME Outlives, NEW t \in Trees, ToolWrites(t) PROVE ProtectionInv' /\ ByWord
  BY <1>17, <1>2, ToolWritesKeepsInv DEF ToolWrites
<1>18. ASSUME Outlives, RunNext PROVE ProtectionInv' /\ ByWord
  BY <1>18, <1>12, <1>13, <1>14, <1>15, <1>16, <1>17 DEF RunNext
<1>19. ASSUME Outlives, NEW t \in Trees, PlaceTree(t) \/ LoseTree(t) PROVE ProtectionInv' /\ ByWord
  BY <1>19, <1>2, PlaceTreeKeepsInv, LoseTreeKeepsInv DEF PlaceTree, LoseTree
<1>20. CASE UNCHANGED vars
  <2> USE <1>20 DEF vars, depotVars, consoleVars, runVars, targetVars
  <2>1. ProtectionInv'
    BY DEF ProtectionInv, ProtectionTypeOK, KeptIsRecorded, RequestSpares, GuardIsProtection,
           ScopeSpares, ResultIsHonest, KnownIsListed, ProductTrees, OutlivedIsStale, Protected,
           Present, Open
  <2> QED BY <2>1, <1>2
<1> QED BY <1>11, <1>18, <1>19, <1>20 DEF Next, Step

LEMMA ProtectionInvariant == Spec => []ProtectionInv
<1>1. ProtectionInv /\ [Next]_vars => ProtectionInv'
  BY ProtectionStep
<1> QED BY ProtectionInvInit, <1>1, PTL DEF Spec

\* The manifest, the requests and the run have their types, and the lock is held by
\* whoever is at work, in every behaviour with any failures.
THEOREM ProtectionTypeCorrect == Spec => []ProtectionTypeOK
<1>1. ProtectionInv => ProtectionTypeOK
  BY DEF ProtectionInv
<1> QED BY ProtectionInvariant, <1>1, PTL

\* No target is run while it is listed to write a tree that the operator protects, be
\* it by an upload, a library or the switch, but for names whose open entry has
\* outlived an earlier tree.
THEOREM TargetsSpare == Spec => []TargetSparesProtectedTrees
<1>1. ProtectionInv => TargetSparesProtectedTrees
  <2> SUFFICES ASSUME ProtectionInv, run \in {"download", "orphan"}, NEW t \in Trees,
                      word[t] = "protect", t \notin outlived, t \in scope
               PROVE  FALSE
    BY DEF TargetSparesProtectedTrees, Kept
  <2>1. t \in Protected(manifest)
    BY RunAtWork
  <2> QED BY <2>1 DEF ProtectionInv, GuardIsProtection, ScopeSpares
<1> QED BY ProtectionInvariant, <1>1, PTL

\* No target is reported as successful when its tool wrote a tree that the operator
\* protects, but for the same names.
THEOREM WritesAreReported == Spec => []ProtectedWritesAreReported
<1>1. ProtectionInv => ProtectedWritesAreReported
  <2> SUFFICES ASSUME ProtectionInv, run \in {"adopt", "record"}, status = "OK", NEW t \in Trees,
                      word[t] = "protect", t \notin outlived, t \in wrote
               PROVE  FALSE
    BY DEF ProtectedWritesAreReported, Kept
  <2>1. t \in Protected(manifest)
    BY RunAtWork
  <2> QED BY <2>1 DEF ProtectionInv, GuardIsProtection, ResultIsHonest
<1> QED BY ProtectionInvariant, <1>1, PTL

\* What only the product wrote is open to the next run, unless the operator said
\* otherwise or the run that wrote it was killed or could not record it.
THEOREM ProductStaysOpen == Spec => []ProductTreesAreOpen
<1>1. ProtectionInv => ProductTreesAreOpen
  BY DEF ProtectionInv, ProductTrees, ProductTreesAreOpen, Protected
<1> QED BY ProtectionInvariant, <1>1, PTL

\* Nothing but the operator's switch ends a protection.
THEOREM ProtectionEnds == Spec => ProtectionEndsByWord
<1>1. ProtectionInv /\ [Next]_vars =>
        [\A t \in Protected(manifest) \ Protected(manifest') : word'[t] = "release"]_vars
  BY ProtectionStep
<1> QED BY ProtectionInvariant, <1>1, PTL DEF Spec, ProtectionEndsByWord

-----------------------------------------------------------------------------
(* What an upload records.                                                 *)

\* An entry stands for a tree that exists, but for the trees a deletion has just
\* removed.  A lost volume, a deletion that is not recorded and a console that stops
\* in one leave entries behind.
EntriesHaveTrees ==
  /\ \A t \in Trees :
       manifest[t] # NoEntry => depot[t] # {} \/ (step = "delete" /\ t \in moved)
  /\ step = "upload" => /\ \A t \in chosen : manifest[t] = NoEntry
                        /\ \A t \in moved : depot[t] # {}
  /\ run \in {"verify", "adopt"} /\ status = "OK" => scope \subseteq Present

NoStaleEntries == Faults \cap {"forget", "console", "volume"} = {}

LEMMA EntriesInit == Init => EntriesHaveTrees
BY DEF Init, EntriesHaveTrees

\* While nobody is at work a scan lists what exists and nothing else.
LEMMA ScanListsPresent ==
  ASSUME ProtectionInv, EntriesHaveTrees, owner = "nobody"
  PROVE  /\ step = "none" /\ run = "idle"
         /\ \A t \in Trees : Inventoried[t] # NoEntry <=> t \in Present
<1>1. step = "none" /\ run = "idle"
  BY DEF ProtectionInv, ProtectionTypeOK
<1>2. \A t \in Trees : manifest[t] # NoEntry => t \in Present
  BY <1>1 DEF EntriesHaveTrees, Present
<1> QED BY <1>1, <1>2, ScanKeepsEntries, ScanProtects DEF ProtectionInv

LEMMA ScanKeepsTrees ==
  ASSUME ProtectionInv, EntriesHaveTrees,
         \/ Inventory \/ RunBegins
         \/ \E S \in SUBSET Trees : BeginUpload(S) \/ BeginDelete(S)
         \/ \E t \in Trees : UploadInside(t) \/ DeleteInside(t)
  PROVE  EntriesHaveTrees'
<1> USE DEF BeginUpload, BeginDelete
<1>1. owner = "nobody" /\ manifest' = Inventoried
  BY DEF Inventory, RunBegins, Begin, UploadInside, DeleteInside
<1>2. \A t \in Trees : manifest'[t] # NoEntry <=> depot[t] # {}
  BY <1>1, ScanListsPresent DEF Present
<1>3. \A t \in Trees : depot[t] # {} => depot'[t] # {}
  BY DEF Inventory, RunBegins, Begin, UploadInside, DeleteInside, depotVars, ProtectionInv,
         ProtectionTypeOK
<1>4. run' \in {"idle", "targets"}
  BY <1>1, ScanListsPresent DEF Inventory, RunBegins, Begin, UploadInside, DeleteInside, runVars
<1>5. step' = "upload" => moved' = {} /\ chosen' \cap Present = {}
  BY <1>1, ScanListsPresent
     DEF Inventory, RunBegins, Begin, UploadInside, DeleteInside, consoleVars
<1>6. chosen' \subseteq Trees
  BY DEF Inventory, RunBegins, Begin, UploadInside, DeleteInside, consoleVars, ProtectionInv,
         ProtectionTypeOK
<1> QED BY <1>2, <1>3, <1>4, <1>5, <1>6 DEF EntriesHaveTrees, Present

LEMMA SwitchKeepsTrees ==
  ASSUME ProtectionInv, EntriesHaveTrees, NEW t \in Trees, NEW p \in BOOLEAN, SetProtection(t, p)
  PROVE  EntriesHaveTrees'
<1> USE DEF SetProtection, depotVars, consoleVars, runVars, targetVars
<1>1. \A x \in Trees \ {t} : manifest'[x] = Inventoried[x]
  BY ScanKeepsEntries DEF ProtectionInv, Manifests
<1>2. \A x \in Trees : manifest'[x] # NoEntry => depot[x] # {}
  BY <1>1, ScanListsPresent DEF Present
<1> QED BY <1>2, ScanListsPresent DEF EntriesHaveTrees

LEMMA ChangeKeepsTrees ==
  ASSUME ProtectionInv, EntriesHaveTrees, NEW t \in Trees,
         Publish(t) \/ Remove(t) \/ PlaceTree(t)
  PROVE  EntriesHaveTrees'
<1> USE DEF Publish, Remove, PlaceTree, consoleVars, runVars, targetVars
<1>1. run = "idle"
  BY ConsoleAtWork
<1>2. \A x \in Trees \ {t} : depot'[x] = depot[x]
  BY DEF ProtectionInv, ProtectionTypeOK
<1>3. IF step = "delete" THEN t \in moved' ELSE depot'[t] # {}
  BY DEF ProtectionInv, ProtectionTypeOK
<1>4. moved \subseteq Trees
  BY DEF ProtectionInv, ProtectionTypeOK
<1> QED BY <1>1, <1>2, <1>3, <1>4 DEF EntriesHaveTrees

\* The last steps of the console: what they list exists.
LEMMA AnswerKeepsTrees ==
  ASSUME ProtectionInv, EntriesHaveTrees, NoStaleEntries, RecordUpload \/ FailUpload \/ ForgetTrees
  PROVE  EntriesHaveTrees'
<1> USE DEF RecordUpload, FailUpload, ForgetTrees, Done, depotVars, runVars, targetVars
<1>1. run = "idle" /\ run' = run /\ step' = "none"
  BY ConsoleAtWork
<1>2. chosen \subseteq Trees /\ moved \subseteq chosen
  BY DEF ProtectionInv, ProtectionTypeOK
<1>3. \A t \in Trees : manifest'[t] # NoEntry => depot'[t] # {}
  BY <1>2 DEF EntriesHaveTrees, NoStaleEntries, RecordedIfAbsent
<1> QED BY <1>1, <1>3 DEF EntriesHaveTrees

\* A run writes and lists trees; it removes none.
LEMMA RunKeepsTrees ==
  ASSUME ProtectionInv, EntriesHaveTrees, run # "idle",
         depot' = depot \/ \E t \in Trees : ToolWrites(t),
         UNCHANGED consoleVars,
         \A t \in Trees : manifest'[t] # NoEntry => manifest[t] # NoEntry \/ t \in Present,
         run' \in {"verify", "adopt"} /\ status' = "OK" => scope' \subseteq Present
  PROVE  EntriesHaveTrees'
<1>1. step = "none" /\ step' = "none"
  BY RunAtWork DEF consoleVars
<1>2. \A t \in Trees : depot[t] # {} => depot'[t] # {}
  BY DEF ToolWrites, ProtectionInv, ProtectionTypeOK
<1> QED BY <1>1, <1>2 DEF EntriesHaveTrees, Present

LEMMA RunStepKeepsTrees ==
  ASSUME ProtectionInv, EntriesHaveTrees, RunNext, ~ RunBegins
  PROVE  EntriesHaveTrees'
<1> USE DEF RunNext, Decide, ToolEnds, Verify, RunEnds, Kill, OrphanEnds, Leave, BeginTarget,
            ToolWrites, consoleVars, depotVars, targetVars
<1>1. CASE RunNext /\ ~ Adopt /\ ~ RecordNew /\ ~ RecordFails
  <2>1. run # "idle" /\ UNCHANGED <<consoleVars, manifest>>
    BY <1>1
  <2>2. depot' = depot \/ \E t \in Trees : ToolWrites(t)
    BY <1>1
  <2>3. run' \in {"verify", "adopt"} /\ status' = "OK" => scope' \subseteq Present
    BY <1>1 DEF EntriesHaveTrees
  <2> QED BY <2>1, <2>2, <2>3, RunKeepsTrees DEF consoleVars
<1>2. CASE Adopt
  <2>1. run # "idle" /\ run' = "record" /\ depot' = depot /\ UNCHANGED consoleVars
    BY <1>2 DEF Adopt
  <2>2. \A t \in Trees : manifest'[t] # NoEntry => manifest[t] # NoEntry \/ t \in Present
    BY <1>2 DEF Adopt, EntriesHaveTrees
  <2> QED BY <2>1, <2>2, RunKeepsTrees DEF consoleVars
<1>3. CASE RecordNew
  <2>1. run # "idle" /\ run' = "targets" /\ depot' = depot /\ UNCHANGED consoleVars
    BY <1>3 DEF RecordNew
  <2>2. \A t \in Trees : manifest'[t] # NoEntry => manifest[t] # NoEntry \/ t \in Present
    BY <1>3 DEF RecordNew, RecordedIfAbsent
  <2> QED BY <2>1, <2>2, RunKeepsTrees DEF consoleVars
<1>4. CASE RecordFails
  <2>1. run # "idle" /\ run' = "idle" /\ depot' = depot /\ UNCHANGED consoleVars
    BY <1>4 DEF RecordFails
  <2>2. \A t \in Trees : manifest'[t] # NoEntry => manifest[t] # NoEntry \/ t \in Present
    BY <1>4 DEF RecordFails, RecordedIfAbsent
  <2> QED BY <2>1, <2>2, RunKeepsTrees DEF consoleVars
<1> QED BY <1>1, <1>2, <1>3, <1>4

LEMMA StepKeepsTrees ==
  ASSUME ProtectionInv, EntriesHaveTrees, NoStaleEntries, [Next]_vars
  PROVE  EntriesHaveTrees'
<1>1. CASE ConsoleNext
  <2>1. ~ ConsoleStops
    BY DEF ConsoleStops, NoStaleEntries
  <2>2. ASSUME NEW S \in SUBSET Trees, BeginUpload(S) \/ BeginDelete(S) PROVE EntriesHaveTrees'
    BY <2>2, ScanKeepsTrees
  <2> QED BY <1>1, <2>1, <2>2, ScanKeepsTrees, AnswerKeepsTrees, ChangeKeepsTrees, SwitchKeepsTrees
          DEF ConsoleNext
<1>2. CASE RunNext
  BY <1>2, RunStepKeepsTrees, ScanKeepsTrees
<1>3. ASSUME NEW t \in Trees, PlaceTree(t) \/ LoseTree(t) PROVE EntriesHaveTrees'
  BY <1>3, ChangeKeepsTrees DEF LoseTree, NoStaleEntries
<1>4. CASE UNCHANGED vars
  BY <1>4 DEF vars, depotVars, consoleVars, runVars, targetVars, EntriesHaveTrees, Present
<1> QED BY <1>1, <1>2, <1>3, <1>4 DEF Next, Step

\* An upload protects every tree it adds, as README.md:167-168 says, whatever else
\* fails, unless a deletion is not recorded, the console stops in one or the depot
\* volume is lost: these three, each alone, leave the entries that make it untrue.
THEOREM UploadsProtect ==
  ASSUME Faults \cap {"forget", "console", "volume"} = {}
  PROVE  Spec => UploadsAreProtected
<1>1. ProtectionInv /\ EntriesHaveTrees /\ [Next]_vars => (ProtectionInv /\ EntriesHaveTrees)'
  BY ProtectionStep, StepKeepsTrees DEF NoStaleEntries
<1>2. ProtectionInv /\ EntriesHaveTrees /\ RecordUpload => chosen \subseteq Protected(manifest')
  <2> SUFFICES ASSUME ProtectionInv, EntriesHaveTrees, RecordUpload, NEW t \in chosen
               PROVE  t \in Protected(manifest')
    OBVIOUS
  <2>1. t \in Trees /\ manifest[t] = NoEntry
    BY DEF RecordUpload, EntriesHaveTrees, ProtectionInv, ProtectionTypeOK
  <2>2. manifest'[t] = Entry("operator-provided", TRUE)
    BY <2>1 DEF RecordUpload, RecordedIfAbsent
  <2> QED BY <2>1, <2>2, EntryIsListed DEF Protected
<1>3. ProtectionInv /\ EntriesHaveTrees /\ [Next]_vars =>
        [RecordUpload => chosen \subseteq Protected(manifest')]_vars
  BY <1>2
<1> QED BY ProtectionInvInit, EntriesInit, <1>1, <1>3, PTL DEF Spec, UploadsAreProtected
=============================================================================
