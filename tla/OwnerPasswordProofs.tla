------------------------ MODULE OwnerPasswordProofs ------------------------
(***************************************************************************)
(* Machine-checked proofs about ConfigVolume and OwnerPassword, for any    *)
(* releases, passwords, threads and failures: a volume is served only when *)
(* it is ready, its settings are changed only behind a copy, the secrets   *)
(* agree, and the owner's password is one and stays the owner's.           *)
(***************************************************************************)
EXTENDS OwnerPassword, TLAPS

-----------------------------------------------------------------------------
(* The config volume.                                                      *)

\* A release marks a volume only when the settings are complete.
MarkerFollowsSettings == Keys(marker) \subseteq settings

\* What has been established at each phase of the bootstrap.
PhaseKnows ==
  /\ phase = "begin" => found = Held
  /\ phase \in {"freshSchema", "freshMarker"} =>
       found = NewVolume /\ marker = NoMarker /\ Keys(release) \subseteq settings
  /\ phase = "freshMarker" => schema = CurrentSchema
  /\ phase \in {"backup", "migrate", "markSchema", "markRelease"} =>
       marker <= release /\ schema \in {NoMarker, CurrentSchema}
  /\ phase = "backup" => found = Held
  /\ phase \in {"migrate", "markSchema", "markRelease"} => found \in backups
  /\ phase \in {"markSchema", "markRelease"} => Keys(release) \subseteq settings
  /\ phase = "markRelease" => schema = CurrentSchema
  /\ phase \in {"accept", "secrets", "up"} => marker = release /\ schema = CurrentSchema
  /\ phase \in {"secrets", "up"} => ~status
  /\ phase = "blocked" => status

\* Secrets that exist are copies of the first, unless a crash left one empty.
SecretsFollow ==
  /\ ~torn => \A k \in Positions : secrets[k] \in {"absent", secrets[1]} \ {"empty"}
  /\ \A k \in Positions : k < next => secrets[k] # "absent"
  /\ phase = "up" => \A k \in Positions : secrets[k] # "absent"

VolumeInv == VolumeTypeOK /\ MarkerFollowsSettings /\ PhaseKnows /\ SecretsFollow

LEMMA VolumeInvInit == VolumeInit => VolumeInv
<1> SUFFICES ASSUME VolumeInit PROVE VolumeInv
  OBVIOUS
<1> USE DEF VolumeInit
<1> USE VolumeBounds
<1>1. PICK c \in {NewVolume,
               [settings |-> {1}, schema |-> NoMarker, marker |-> NoMarker],
               [settings |-> 1..Future, schema |-> 2, marker |-> Future]} :
       /\ settings = c.settings /\ schema = c.schema /\ marker = c.marker
       /\ found = c
  OBVIOUS
<1>2. /\ settings \subseteq 1..Future /\ schema \in {NoMarker, 1, 2} /\ marker \in {NoMarker, Future}
      /\ marker = Future => settings = 1..Future
      /\ found = Held
  BY <1>1 DEF NewVolume, NoMarker, Future, Held
<1>3. Held \in Config
  BY <1>2 DEF Held, Config, NoMarker, Future
<1>4. VolumeTypeOK
  <2>1. secrets \in [Positions -> Contents]
    BY DEF Contents
  <2>2. release \in Releases /\ next \in 1..5
    BY DEF Releases
  <2>3. phase = "off" /\ status \in BOOLEAN /\ backups \subseteq Config /\ torn \in BOOLEAN
    OBVIOUS
  <2>4. next > 1 => phase = "secrets"
    OBVIOUS
  <2>5. found \in Config
    BY <1>2, <1>3
  <2> HIDE DEF VolumeInit
  <2> QED BY <1>3, <2>1, <2>2, <2>3, <2>4, <2>5 DEF VolumeTypeOK
<1>5. MarkerFollowsSettings
  BY <1>2 DEF MarkerFollowsSettings, Keys, NoMarker, Future
<1>6. PhaseKnows /\ SecretsFollow
  BY DEF PhaseKnows, SecretsFollow, Positions
<1> QED BY <1>4, <1>5, <1>6 DEF VolumeInv

\* The steps that leave the volume alone.
LEMMA MovesKeepVolumeInv ==
  ASSUME VolumeInv, Crash \/ Ready \/ \E r \in Releases : Boot(r)
  PROVE  VolumeInv' /\ Held' = Held
<1> USE DEF Crash, Ready, Boot, configVars, VolumeInv
<1>1. /\ UNCHANGED <<settings, schema, marker, status, backups, secrets, torn>>
      /\ next' = 1
      /\ \/ phase' = "off" /\ UNCHANGED <<release, found>>
         \/ phase = "secrets" /\ next = 5 /\ phase' = "up" /\ UNCHANGED <<release, found>>
         \/ release' \in Releases /\ phase' = "begin" /\ found' = Held
  BY DEF VolumeTypeOK
<1>2. Held' = Held
  BY <1>1 DEF Held
<1>3. VolumeTypeOK'
  BY <1>1, <1>2 DEF VolumeTypeOK
<1>4. MarkerFollowsSettings' /\ PhaseKnows'
  BY <1>1, <1>2 DEF MarkerFollowsSettings, PhaseKnows
<1>5. SecretsFollow'
  BY <1>1 DEF SecretsFollow, Positions
<1> QED BY <1>2, <1>3, <1>4, <1>5

\* The settings change: of a new volume, or behind a copy.
Behind == marker <= release /\ (found \in backups \/ found = NewVolume)

\* A step of prepare_config keeps the type of what it writes.
LEMMA HeldIsTyped ==
  ASSUME VolumeTypeOK
  PROVE  /\ settings \subseteq 1..Future /\ schema \in {NoMarker, 1, 2, Unreadable}
         /\ marker \in {NoMarker} \cup 1..Future
         /\ release \in Nat \ {0} /\ release <= MaxRelease /\ Keys(release) \subseteq 1..Future
         /\ marker \in Nat
<1>1. /\ settings \subseteq 1..Future /\ schema \in {NoMarker, 1, 2, Unreadable}
      /\ marker \in {NoMarker} \cup 1..Future
  BY DEF VolumeTypeOK, Held, Config
<1>2. release \in Nat \ {0} /\ release <= MaxRelease
  BY VolumeBounds DEF VolumeTypeOK, Releases
<1>3. Keys(release) \subseteq 1..Future /\ marker \in Nat
  BY <1>1, <1>2, VolumeBounds DEF Keys, Future, NoMarker
<1> QED BY <1>1, <1>2, <1>3

LEMMA TypedIsHeld ==
  ASSUME NEW s \in SUBSET (1..Future), NEW c \in {NoMarker, 1, 2, Unreadable},
         NEW m \in {NoMarker} \cup 1..Future
  PROVE  [settings |-> s, schema |-> c, marker |-> m] \in Config
BY DEF Config

LEMMA FreshKeepsVolumeInv ==
  ASSUME VolumeInv, FreshSettings \/ FreshSchema \/ FreshMarker
  PROVE  VolumeInv' /\ Behind
<1> USE DEF FreshSettings, FreshSchema, FreshMarker, Torn, VolumeInv
<1>1. /\ phase \in {"begin", "freshSchema", "freshMarker"}
      /\ found = NewVolume /\ marker = NoMarker
      /\ UNCHANGED <<release, status, backups, secrets, next, found>>
  BY DEF PhaseKnows, EmptyVolume, Held, NewVolume, VolumeTypeOK
<1>2. Behind
  BY <1>1, HeldIsTyped DEF Behind, NoMarker
<1>3. /\ settings' \in {settings, Keys(release)} /\ schema' \in {schema, CurrentSchema, Unreadable}
      /\ marker' \in {marker, release} /\ torn' \in BOOLEAN
      /\ phase' \in {"freshSchema", "freshMarker", "accept", "off"}
  BY DEF VolumeTypeOK
<1>4. Held' \in Config
  <2>1. settings' \subseteq 1..Future /\ schema' \in {NoMarker, 1, 2, Unreadable}
        /\ marker' \in {NoMarker} \cup 1..Future
    BY <1>3, HeldIsTyped, VolumeBounds DEF CurrentSchema, Future
  <2> QED BY <2>1, TypedIsHeld DEF Held
<1>5. next = 1
  BY <1>1 DEF VolumeTypeOK
<1>6. VolumeTypeOK'
  BY <1>1, <1>3, <1>4, <1>5 DEF VolumeTypeOK
<1>7. MarkerFollowsSettings'
  <2>1. CASE marker' = NoMarker
    BY <2>1 DEF MarkerFollowsSettings, Keys, NoMarker
  <2>2. CASE marker' # NoMarker
    BY <2>2, <1>1 DEF MarkerFollowsSettings, PhaseKnows
  <2> QED BY <2>1, <2>2
<1>8. PhaseKnows'
  BY <1>1 DEF PhaseKnows, EmptyVolume, Held, NewVolume
<1>9. SecretsFollow'
  BY <1>1, <1>3, <1>5 DEF SecretsFollow, Positions
<1> QED BY <1>2, <1>6, <1>7, <1>8, <1>9

LEMMA MigrationKeepsVolumeInv ==
  ASSUME VolumeInv, Judge \/ BackUp \/ Migrate \/ MarkSchema \/ MarkRelease \/ MigrationFails
  PROVE  VolumeInv' /\ (Held' # Held => Behind)
<1> USE DEF Judge, BackUp, Migrate, MarkSchema, MarkRelease, MigrationFails, Block, VolumeInv
<1>1. /\ phase \in {"begin", "backup", "migrate", "markSchema", "markRelease"}
      /\ UNCHANGED <<release, secrets, next, found, torn>>
      /\ settings' \in {settings, settings \cup Keys(release)} /\ schema' \in {schema, CurrentSchema}
      /\ marker' \in {marker, release} /\ status' \in BOOLEAN
      /\ backups' \in {backups, backups \cup {Held}}
      /\ phase' \in {"blocked", "backup", "accept", "migrate", "markSchema", "markRelease"}
  BY DEF VolumeTypeOK
<1>2. Held' # Held => Behind
  BY DEF Held, Behind, PhaseKnows
<1>3. Held' \in Config
  <2>1. settings' \subseteq 1..Future /\ schema' \in {NoMarker, 1, 2, Unreadable}
        /\ marker' \in {NoMarker} \cup 1..Future
    BY <1>1, HeldIsTyped, VolumeBounds DEF CurrentSchema, Future
  <2> QED BY <2>1, TypedIsHeld DEF Held
<1>4. next = 1
  BY <1>1 DEF VolumeTypeOK
<1>5. VolumeTypeOK'
  BY <1>1, <1>3, <1>4 DEF VolumeTypeOK
<1>6. MarkerFollowsSettings'
  BY <1>1 DEF MarkerFollowsSettings, PhaseKnows
<1>7. PhaseKnows'
  BY HeldIsTyped DEF PhaseKnows, Incompatible, Outdated, Held
<1>8. SecretsFollow'
  BY <1>1, <1>4 DEF SecretsFollow, Positions
<1> QED BY <1>2, <1>5, <1>6, <1>7, <1>8

\* An accepted volume has its settings, so that they are not changed again.
LEMMA AcceptKeepsVolumeInv ==
  ASSUME VolumeInv, Accept
  PROVE  VolumeInv' /\ Held' = Held
<1> USE DEF Accept, VolumeInv
<1>1. settings' = settings
  BY DEF PhaseKnows, MarkerFollowsSettings
<1>2. Held' = Held
  BY <1>1 DEF Held
<1>3. VolumeTypeOK'
  BY <1>2 DEF VolumeTypeOK
<1>4. MarkerFollowsSettings' /\ PhaseKnows'
  BY <1>1 DEF MarkerFollowsSettings, PhaseKnows
<1>5. SecretsFollow'
  BY DEF SecretsFollow
<1> QED BY <1>2, <1>3, <1>4, <1>5

LEMMA WriteSecretKeepsVolumeInv ==
  ASSUME VolumeInv, WriteSecret
  PROVE  VolumeInv' /\ Held' = Held
<1> USE DEF WriteSecret, Torn, configVars, VolumeInv
<1>1. /\ UNCHANGED <<settings, schema, marker, status, backups, release, found>>
      /\ phase = "secrets" /\ phase' \in {"secrets", "off"}
      /\ torn' \in BOOLEAN
      /\ \/ phase' = phase /\ next' = next + 1 /\ torn' = torn
         \/ phase' = "off" /\ next' = 1 /\ torn'
  BY DEF VolumeTypeOK
<1>2. Held' = Held
  BY <1>1 DEF Held
<1>3. \A k \in Positions : secrets[k] # "absent" => secrets'[k] = secrets[k]
  BY DEF VolumeTypeOK
<1>4. secrets' \in [Positions -> Contents]
  BY DEF VolumeTypeOK, Text, Contents, Positions
<1>5. VolumeTypeOK'
  BY <1>1, <1>2, <1>4 DEF VolumeTypeOK, Positions
<1>6. MarkerFollowsSettings' /\ PhaseKnows'
  BY <1>1, <1>2 DEF MarkerFollowsSettings, PhaseKnows
<1>7. SecretsFollow'
  <2>1. ASSUME ~torn', NEW k \in Positions
        PROVE  secrets'[k] \in {"absent", secrets'[1]} \ {"empty"}
    BY <2>1, VolumeBounds DEF VolumeTypeOK, SecretsFollow, Text, Positions
  <2>2. ASSUME NEW k \in Positions, k < next'
        PROVE  secrets'[k] # "absent"
    BY <2>2, <1>1, <1>3, VolumeBounds DEF VolumeTypeOK, SecretsFollow, Text, Positions
  <2> QED BY <1>1, <2>1, <2>2 DEF SecretsFollow
<1> QED BY <1>2, <1>5, <1>6, <1>7

LEMMA VolumeStep ==
  ASSUME VolumeInv, VolumeNext
  PROVE  VolumeInv' /\ (Held' # Held => Behind)
BY MovesKeepVolumeInv, FreshKeepsVolumeInv, MigrationKeepsVolumeInv, AcceptKeepsVolumeInv,
   WriteSecretKeepsVolumeInv DEF VolumeNext, Bootstrap

LEMMA VolumeStutters ==
  ASSUME VolumeInv, UNCHANGED volumeVars
  PROVE  VolumeInv' /\ Held' = Held
<1> USE DEF volumeVars, configVars, VolumeInv
<1>1. Held' = Held
  BY DEF Held
<1>2. VolumeTypeOK'
  BY <1>1 DEF VolumeTypeOK
<1>3. MarkerFollowsSettings' /\ PhaseKnows'
  BY <1>1 DEF MarkerFollowsSettings, PhaseKnows
<1>4. SecretsFollow'
  BY DEF SecretsFollow
<1> QED BY <1>1, <1>2, <1>3, <1>4

-----------------------------------------------------------------------------
(* The owner's password.                                                   *)

Checking == {"stamp", "compare"}
Writing == {"first", "second", "undo"}

\* The thread that holds the lock knows what it has to put back, and once it writes it
\* has given the password that is stored, or one of the two excuses.
HolderKnows ==
  /\ lock \in Threads => at[lock] \in Checking \cup Writing
  /\ \A w \in Threads :
       /\ at[w] \in Writing =>
            lock = w /\ (old[w] = auth \/ old[w] \in overtaken \/ w \in blind)
       /\ lock = w /\ at[w] \in Checking \cup {"first"} /\ ~apart => sftp = auth
       /\ at[w] \in {"second", "undo"} => sftp = new[w]
       /\ at[w] \in {"second", "undo"} /\ ~apart => prior[w] = auth

\* What a check may still accept, by its document or by a cache with the stamp of the
\* stored one, is the password or was overtaken; a change compares with such a cache.
ChecksKnow ==
  /\ \A w \in right : old[w] \in Passwords /\ (old[w] = auth \/ old[w] \in overtaken)
  /\ \A k \in fresh : verified[k] \subseteq {auth} \cup overtaken
  /\ \A w \in Threads : lock = w /\ at[w] = "compare" => WorkerOf[w] \in fresh

OwnerInv == VolumeInv /\ OwnerTypeOK /\ HolderKnows /\ ChecksKnow /\ OnePassword

LEMMA OwnerInvInit == Init => OwnerInv
<1> SUFFICES ASSUME Init PROVE OwnerInv
  OBVIOUS
<1>1. VolumeInv
  BY VolumeInvInit DEF Init
<1>2. OwnerTypeOK
  BY <1>1 DEF Init, OwnerTypeOK, VolumeInv, Stored, Nothing, NothingCached
<1>3. HolderKnows /\ ChecksKnow /\ OnePassword
  BY PasswordNames DEF Init, HolderKnows, ChecksKnow, OnePassword, Checking, Writing
<1> QED BY <1>1, <1>2, <1>3 DEF OwnerInv

\* What an answer changes.
LEMMA Finished ==
  ASSUME OwnerTypeOK, NEW w \in Threads, Finish(w)
  PROVE  /\ at' \in [Threads -> {"idle", "asked", "stamp", "compare", "first", "second", "undo"}]
         /\ old' \in [Threads -> Stored] /\ new' \in [Threads -> Stored]
         /\ prior' \in [Threads -> Stored] /\ lock' \in Threads \cup {NoThread}
         /\ right' \subseteq {v \in Threads : at'[v] \in Checking} /\ blind' \subseteq Threads
         /\ at'[w] = "idle" /\ right' = right \ {w} /\ lock' # w
         /\ lock' = IF lock = w THEN NoThread ELSE lock
         /\ \A v \in Threads \ {w} :
              /\ at'[v] = at[v] /\ old'[v] = old[v] /\ new'[v] = new[v] /\ prior'[v] = prior[v]
              /\ v \in blind' <=> v \in blind
BY PasswordNames DEF Finish, OwnerTypeOK, Stored, Checking

LEMMA AskKeepsInv ==
  ASSUME OwnerInv, NEW w \in Threads, NEW o \in Stored, NEW n \in Passwords, Ask(w, o, n)
  PROVE  OwnerInv' /\ auth' = auth
<1> USE DEF Ask, OwnerInv, checkVars, historyVars
<1>1. VolumeInv'
  BY VolumeStutters
<1>2. OwnerTypeOK'
  BY <1>1 DEF OwnerTypeOK, VolumeInv, Stored
<1>3. HolderKnows'
  BY DEF HolderKnows, OwnerTypeOK, Checking, Writing
<1>4. ChecksKnow'
  BY DEF ChecksKnow, OwnerTypeOK
<1>5. OnePassword'
  BY DEF OnePassword
<1> QED BY <1>1, <1>2, <1>3, <1>4, <1>5

LEMMA EnterKeepsInv ==
  ASSUME OwnerInv, NEW w \in Threads, Enter(w)
  PROVE  OwnerInv' /\ auth' = auth
<1> USE DEF Enter, Admit, OwnerInv
<1> DEFINE Fits == old[w] = NoPassword <=> auth = NoPassword
<1>1. VolumeInv'
  BY VolumeStutters
<1>2. CASE Finish(w)
  <2>1. OwnerTypeOK'
    BY <1>1, <1>2, Finished DEF OwnerTypeOK, VolumeInv, Checking
  <2>2. HolderKnows'
    BY <1>2, Finished, PasswordNames DEF HolderKnows, OwnerTypeOK, Checking, Writing
  <2>3. ChecksKnow'
    BY <1>2, Finished DEF ChecksKnow, OwnerTypeOK
  <2>4. OnePassword'
    BY <1>2, Finished DEF OnePassword
  <2> QED BY <1>1, <2>1, <2>2, <2>3, <2>4
<1>3. ASSUME lock' = w, UNCHANGED <<old, new, prior>>,
             at' = [at EXCEPT ![w] = "first"], UNCHANGED right,
             blind' \in {blind, blind \cup {w}}, old[w] = auth \/ w \in blind'
      PROVE  OwnerInv'
  <2>1. OwnerTypeOK'
    <3>1. right \subseteq {v \in Threads : at'[v] \in {"stamp", "compare"}}
      BY <1>3 DEF OwnerTypeOK
    <3>2. \A v \in Threads : at'[v] \in {"first", "second", "undo"} => v = w
      BY <1>3, PasswordNames DEF OwnerTypeOK
    <3> QED BY <1>1, <1>3, <3>1, <3>2 DEF OwnerTypeOK, VolumeInv
  <2>2. HolderKnows'
    BY <1>3, PasswordNames DEF HolderKnows, OnePassword, OwnerTypeOK, Checking, Writing
  <2>3. ChecksKnow'
    BY <1>3 DEF ChecksKnow, OwnerTypeOK
  <2>4. OnePassword'
    BY <1>3, PasswordNames DEF OnePassword
  <2> QED BY <1>1, <2>1, <2>2, <2>3, <2>4
<1>4. ASSUME lock' = w, UNCHANGED <<old, new, prior, blind>>, BeginCheck(w, old[w]),
             old[w] # NoPassword
      PROVE  OwnerInv'
  <2> USE DEF BeginCheck
  <2>1. OwnerTypeOK'
    <3>1. right' \subseteq {v \in Threads : at'[v] \in {"stamp", "compare"}}
      BY <1>4 DEF OwnerTypeOK
    <3>2. \A v \in Threads : at'[v] \notin {"first", "second", "undo"}
      BY <1>4, PasswordNames DEF OwnerTypeOK
    <3> QED BY <1>1, <1>4, <3>1, <3>2 DEF OwnerTypeOK, VolumeInv
  <2>2. HolderKnows'
    BY <1>4, PasswordNames DEF HolderKnows, OnePassword, OwnerTypeOK, Checking, Writing
  <2>3. ChecksKnow'
    <3>1. old[w] \in Passwords
      BY <1>4 DEF OwnerTypeOK, Stored
    <3> QED BY <1>4, <3>1 DEF ChecksKnow, OwnerTypeOK
  <2>4. OnePassword'
    BY <1>4, PasswordNames DEF OnePassword
  <2> QED BY <1>1, <2>1, <2>2, <2>3, <2>4
<1> QED BY <1>2, <1>3, <1>4

LEMMA SignInKeepsInv ==
  ASSUME OwnerInv, NEW w \in Threads, NEW p \in Passwords, SignIn(w, p)
  PROVE  OwnerInv' /\ auth' = auth
<1> USE DEF SignIn, BeginCheck, OwnerInv, historyVars
<1>1. VolumeInv'
  BY VolumeStutters
<1>2. OwnerTypeOK'
  BY <1>1 DEF OwnerTypeOK, VolumeInv, Stored
<1>3. HolderKnows'
  BY DEF HolderKnows, OwnerTypeOK, Checking, Writing
<1>4. ChecksKnow'
  BY DEF ChecksKnow, HolderKnows, OwnerTypeOK, Checking, Writing
<1>5. OnePassword'
  BY DEF OnePassword
<1> QED BY <1>1, <1>2, <1>3, <1>4, <1>5

LEMMA CheckStampKeepsInv ==
  ASSUME OwnerInv, NEW w \in Threads, CheckStamp(w)
  PROVE  OwnerInv' /\ auth' = auth
<1> USE DEF CheckStamp, OwnerInv, historyVars
<1>1. VolumeInv'
  BY VolumeStutters
<1>2. WorkerOf[w] \in Workers
  BY DEF Workers
<1>3. OwnerTypeOK'
  BY <1>1, <1>2 DEF OwnerTypeOK, VolumeInv
<1>4. HolderKnows'
  BY DEF HolderKnows, OwnerTypeOK, Checking, Writing
<1>5. ChecksKnow'
  BY <1>2 DEF ChecksKnow, OwnerTypeOK
<1>6. OnePassword'
  BY DEF OnePassword
<1> QED BY <1>1, <1>3, <1>4, <1>5, <1>6

LEMMA CompareKeepsInv ==
  ASSUME OwnerInv, NEW w \in Threads, Compare(w)
  PROVE  OwnerInv' /\ auth' = auth
<1> USE DEF Compare, OwnerInv
<1>1. VolumeInv'
  BY VolumeStutters
<1>2. WorkerOf[w] \in Workers /\ right \subseteq Threads
  BY DEF Workers, OwnerTypeOK
<1>3. /\ verified' \in [Workers -> SUBSET Passwords]
      /\ \A k \in fresh : verified'[k] \subseteq {auth} \cup overtaken
  <2>1. w \in right => old[w] \in Passwords
    BY DEF ChecksKnow
  <2> QED BY <1>2, <2>1 DEF ChecksKnow, OwnerTypeOK
<1>4. CASE Finish(w)
  <2>1. OwnerTypeOK'
    BY <1>1, <1>3, <1>4, Finished DEF OwnerTypeOK, VolumeInv, Checking
  <2>2. HolderKnows'
    BY <1>4, Finished, PasswordNames DEF HolderKnows, OwnerTypeOK, Checking, Writing
  <2>3. ChecksKnow'
    <3>1. \A v \in right' : old'[v] \in Passwords /\ (old'[v] = auth \/ old'[v] \in overtaken)
      BY <1>2, <1>4, Finished DEF ChecksKnow
    <3>2. \A v \in Threads : lock' = v /\ at'[v] = "compare" => WorkerOf[v] \in fresh
      BY <1>4, Finished, PasswordNames DEF ChecksKnow
    <3> QED BY <1>3, <3>1, <3>2 DEF ChecksKnow
  <2>4. OnePassword'
    <3>1. lock' = NoThread /\ ~apart => lock = NoThread \/ (lock = w /\ at[w] \in Checking)
      BY <1>4, Finished DEF Checking
    <3> QED BY <3>1 DEF OnePassword, HolderKnows
  <2> QED BY <1>1, <2>1, <2>2, <2>3, <2>4
<1>5. CASE ~ Finish(w)
  <2>1. /\ lock = w /\ at' = [at EXCEPT ![w] = "first"] /\ right' = right \ {w}
        /\ UNCHANGED <<lock, old, new, prior, blind>>
        /\ w \in right \/ old[w] \in verified[WorkerOf[w]]
    BY <1>5
  <2>2. old[w] = auth \/ old[w] \in overtaken
    BY <2>1 DEF ChecksKnow
  <2>3. OwnerTypeOK'
    BY <1>1, <1>3, <2>1 DEF OwnerTypeOK, VolumeInv
  <2>4. HolderKnows'
    BY <2>1, <2>2 DEF HolderKnows, OwnerTypeOK, Checking, Writing
  <2>5. ChecksKnow'
    BY <1>3, <2>1 DEF ChecksKnow, OwnerTypeOK
  <2>6. OnePassword'
    BY <2>1, PasswordNames DEF OnePassword
  <2> QED BY <1>1, <2>3, <2>4, <2>5, <2>6
<1> QED BY <1>4, <1>5

LEMMA ReplaceSftpKeepsInv ==
  ASSUME OwnerInv, NEW w \in Threads, ReplaceSftp(w)
  PROVE  OwnerInv' /\ auth' = auth
<1> USE DEF ReplaceSftp, OwnerInv
<1>1. VolumeInv'
  BY VolumeStutters
<1>2. lock = w /\ (~apart => sftp = auth)
  BY DEF HolderKnows, Writing, Checking
<1>3. CASE Finish(w)
  <2>1. OwnerTypeOK'
    BY <1>1, <1>3, Finished DEF OwnerTypeOK, VolumeInv, Checking, Stored
  <2>2. HolderKnows'
    BY <1>2, <1>3, Finished, PasswordNames DEF HolderKnows, OwnerTypeOK, Checking, Writing
  <2>3. ChecksKnow'
    <3>1. \A v \in right' : old'[v] \in Passwords /\ (old'[v] = auth \/ old'[v] \in overtaken)
      BY <1>3, Finished DEF ChecksKnow, OwnerTypeOK
    <3>2. \A v \in Threads : lock' # v
      BY <1>2, <1>3, Finished, PasswordNames
    <3> QED BY <3>1, <3>2 DEF ChecksKnow
  <2>4. OnePassword'
    <3>1. sftp' = sftp
      BY <1>3, Finished DEF OwnerTypeOK
    <3> QED BY <1>2, <3>1 DEF OnePassword
  <2> QED BY <1>1, <2>1, <2>2, <2>3, <2>4
<1>4. CASE ~ Finish(w)
  <2>1. OwnerTypeOK'
    BY <1>1, <1>4 DEF OwnerTypeOK, VolumeInv
  <2>2. HolderKnows'
    BY <1>2, <1>4, PasswordNames DEF HolderKnows, OwnerTypeOK, Checking, Writing
  <2>3. ChecksKnow'
    BY <1>4 DEF ChecksKnow, OwnerTypeOK
  <2>4. OnePassword'
    BY <1>2, <1>4, PasswordNames DEF OnePassword
  <2> QED BY <1>1, <2>1, <2>2, <2>3, <2>4
<1> QED BY <1>3, <1>4

LEMMA ReplaceAuthKeepsInv ==
  ASSUME OwnerInv, NEW w \in Threads, ReplaceAuth(w)
  PROVE  /\ OwnerInv'
         /\ auth' # auth =>
              at[w] = "second" /\ (old[w] = auth \/ old[w] \in overtaken \/ w \in blind)
<1> USE DEF ReplaceAuth, OwnerInv
<1>1. VolumeInv'
  BY VolumeStutters
<1>2. /\ lock = w /\ sftp = new[w]
      /\ old[w] = auth \/ old[w] \in overtaken \/ w \in blind
  BY DEF HolderKnows, Writing
<1>3. CASE auth' = new[w] /\ apart' = FALSE /\ fresh' = {} /\ Finish(w)
           /\ overtaken' = {old[v] : v \in right} \ {new[w]}
  <2>1. OwnerTypeOK'
    <3>1. overtaken' \subseteq Passwords
      BY <1>3 DEF ChecksKnow
    <3> QED BY <1>1, <1>3, <3>1, Finished DEF OwnerTypeOK, VolumeInv, Checking
  <2>2. HolderKnows'
    BY <1>2, <1>3, Finished, PasswordNames DEF HolderKnows, OwnerTypeOK, Checking, Writing
  <2>3. ChecksKnow'
    BY <1>2, <1>3, Finished, PasswordNames DEF ChecksKnow, OwnerTypeOK
  <2>4. OnePassword'
    BY <1>2, <1>3 DEF OnePassword
  <2> QED BY <1>1, <1>2, <2>1, <2>2, <2>3, <2>4
<1>4. CASE /\ at' = [at EXCEPT ![w] = "undo"]
           /\ UNCHANGED <<auth, apart, fresh, overtaken, lock, old, new, prior, right, blind>>
  <2>1. OwnerTypeOK'
    BY <1>1, <1>4 DEF OwnerTypeOK, VolumeInv
  <2>2. HolderKnows'
    BY <1>2, <1>4 DEF HolderKnows, OwnerTypeOK, Checking, Writing
  <2>3. ChecksKnow'
    BY <1>4 DEF ChecksKnow, OwnerTypeOK
  <2>4. OnePassword'
    BY <1>2, <1>4, PasswordNames DEF OnePassword
  <2> QED BY <1>1, <1>4, <2>1, <2>2, <2>3, <2>4
<1> QED BY <1>3, <1>4

LEMMA UndoKeepsInv ==
  ASSUME OwnerInv, NEW w \in Threads, Undo(w)
  PROVE  OwnerInv' /\ auth' = auth
<1> USE DEF Undo, OwnerInv
<1>1. VolumeInv'
  BY VolumeStutters
<1>2. lock = w /\ (~apart => prior[w] = auth)
  BY DEF HolderKnows, Writing
<1>3. OwnerTypeOK'
  <2>1. sftp' \in Stored /\ apart' \in BOOLEAN
    BY DEF OwnerTypeOK
  <2>2. Finish(w)
    OBVIOUS
  <2> HIDE DEF Undo
  <2>3. UNCHANGED <<auth, verified, fresh, overtaken>>
    BY DEF Undo
  <2> QED BY <1>1, <2>1, <2>2, <2>3, Finished DEF OwnerTypeOK, VolumeInv, Checking
<1>4. HolderKnows'
  BY <1>2, Finished, PasswordNames DEF HolderKnows, OwnerTypeOK, Checking, Writing
<1>5. ChecksKnow'
  <2>1. \A v \in right' : old'[v] \in Passwords /\ (old'[v] = auth \/ old'[v] \in overtaken)
    BY Finished DEF ChecksKnow, OwnerTypeOK
  <2>2. \A v \in Threads : lock' # v
    BY <1>2, Finished, PasswordNames
  <2> QED BY <2>1, <2>2 DEF ChecksKnow
<1>6. OnePassword'
  BY <1>2 DEF OnePassword, OwnerTypeOK
<1> QED BY <1>1, <1>3, <1>4, <1>5, <1>6

LEMMA GoDownKeepsParts ==
  ASSUME OwnerInv, VolumeInv', GoDown
  PROVE  OwnerInv' /\ auth' = auth
<1> USE DEF GoDown, OwnerInv
<1>1. OwnerTypeOK'
  BY DEF OwnerTypeOK, VolumeInv, Stored, Nothing, NothingCached
<1>2. HolderKnows' /\ ChecksKnow'
  BY PasswordNames DEF HolderKnows, ChecksKnow, Checking, Writing
<1>3. ~apart' => sftp = auth
  <2> SUFFICES ASSUME ~apart' PROVE sftp = auth
    OBVIOUS
  <2>1. ~apart /\ \A w \in Threads : at[w] \notin {"second", "undo"}
    BY Zenon
  <2> QED BY <2>1 DEF OnePassword, HolderKnows, OwnerTypeOK, Checking, Writing
<1>4. OnePassword'
  BY <1>3 DEF OnePassword
<1> QED BY <1>1, <1>2, <1>4

-----------------------------------------------------------------------------
(* The theorems.                                                           *)

ByTheOwner ==
  auth # NoPassword /\ auth' # auth =>
    \E w \in Threads : /\ at[w] = "second"
                       /\ old[w] = auth \/ old[w] \in overtaken \/ w \in blind

LEMMA OwnerStep ==
  ASSUME OwnerInv, [Next]_vars
  PROVE  OwnerInv' /\ ByTheOwner /\ (Held' # Held => Behind)
<1>1. VolumeInv
  BY DEF OwnerInv
<1>2. CASE Bootstrap /\ UNCHANGED ownerVars
  <2>1. VolumeInv' /\ (Held' # Held => Behind)
    BY <1>1, <1>2, VolumeStep DEF VolumeNext
  <2>2. (OwnerTypeOK /\ HolderKnows /\ ChecksKnow /\ OnePassword)' /\ auth' = auth
    BY <1>2, <2>1 DEF OwnerInv, ownerVars, threadVars, checkVars, historyVars, OwnerTypeOK, VolumeInv,
                        HolderKnows, ChecksKnow, OnePassword
  <2> QED BY <2>1, <2>2 DEF OwnerInv, ByTheOwner
<1>3. CASE (Crash \/ \E r \in Releases : Boot(r)) /\ GoDown
  BY <1>1, <1>3, MovesKeepVolumeInv, GoDownKeepsParts DEF ByTheOwner
<1>4. ASSUME NEW w \in Threads,
             \/ Request(w)
             \/ \E p \in Passwords : SignIn(w, p) \/ \E o \in Stored : Ask(w, o, p)
      PROVE  OwnerInv' /\ ByTheOwner /\ (Held' # Held => Behind)
  <2>1. UNCHANGED volumeVars
    BY <1>4 DEF Request, Ask, SignIn, Enter, Admit, CheckStamp, Compare, ReplaceSftp, ReplaceAuth, Undo
  <2>2. Held' = Held
    BY <1>1, <2>1, VolumeStutters
  <2>3. CASE ReplaceAuth(w)
    BY <2>2, <2>3, ReplaceAuthKeepsInv DEF ByTheOwner
  <2>4. CASE ~ ReplaceAuth(w)
    <3>1. OwnerInv' /\ auth' = auth
      BY <1>4, <2>4, AskKeepsInv, SignInKeepsInv, EnterKeepsInv, CheckStampKeepsInv,
         CompareKeepsInv, ReplaceSftpKeepsInv, UndoKeepsInv DEF Request
    <3> QED BY <2>2, <3>1 DEF ByTheOwner
  <2> QED BY <2>3, <2>4
<1>5. CASE UNCHANGED vars
  <2>1. VolumeInv' /\ Held' = Held
    BY <1>1, <1>5, VolumeStutters DEF vars
  <2>2. (OwnerTypeOK /\ HolderKnows /\ ChecksKnow /\ OnePassword)' /\ auth' = auth
    BY <1>5, <2>1 DEF vars, OwnerInv, ownerVars, threadVars, checkVars, historyVars, OwnerTypeOK,
                        VolumeInv, HolderKnows, ChecksKnow, OnePassword
  <2> QED BY <2>1, <2>2 DEF OwnerInv, ByTheOwner
<1> QED BY <1>2, <1>3, <1>4, <1>5 DEF Next

LEMMA OwnerInvariant == Spec => []OwnerInv
<1>1. OwnerInv /\ [Next]_vars => OwnerInv'
  BY OwnerStep
<1> QED BY OwnerInvInit, <1>1, PTL DEF Spec

\* The requests leave the bootstrap alone: whatever holds of the volumes on their own
\* holds of the appliance that serves its owner.
THEOREM OwnerExtendsVolume == Spec => VolumeSpec
<1>1. Init => VolumeInit
  BY DEF Init
<1>2. [Next]_vars => [VolumeNext]_volumeVars
  BY DEF Next, VolumeNext, Request, Ask, SignIn, Enter, Admit, CheckStamp, Compare, ReplaceSftp,
         ReplaceAuth, Undo, vars
<1> QED BY <1>1, <1>2, PTL DEF Spec, VolumeSpec

\* The volumes, the bootstrap and the requests have their types.
THEOREM OwnerTypeCorrect == Spec => []OwnerTypeOK
<1>1. OwnerInv => OwnerTypeOK
  BY DEF OwnerInv
<1> QED BY OwnerInvariant, <1>1, PTL

\* With any number of releases, started in any order and cut short at any write, the
\* console serves only a volume that is complete and of its own release.
THEOREM VolumeIsReady == Spec => []ServedVolumeIsReady
<1>1. OwnerInv => ServedVolumeIsReady
  BY DEF OwnerInv, VolumeInv, PhaseKnows, MarkerFollowsSettings, ServedVolumeIsReady, ConsoleRuns,
         VersionProblem
<1> QED BY OwnerInvariant, <1>1, PTL

\* Redis and its clients are started with one password.
THEOREM SecretsAreOne == Spec => []SecretsAgree
<1>1. OwnerInv => SecretsAgree
  <2> SUFFICES ASSUME OwnerInv, phase = "up", ~torn, NEW k \in Positions
               PROVE  secrets[k] = secrets[1] /\ secrets[k] \in Secrets
    BY DEF SecretsAgree
  <2>1. secrets[k] \in {"absent", secrets[1]} \ {"empty"} /\ secrets[k] # "absent"
    BY DEF OwnerInv, VolumeInv, SecretsFollow
  <2>2. secrets[k] \in Contents
    BY DEF OwnerInv, VolumeInv, VolumeTypeOK
  <2> QED BY <2>1, <2>2 DEF Contents
<1> QED BY OwnerInvariant, <1>1, PTL

\* The console and SFTP have one password between the requests.
THEOREM PasswordsAreOne == Spec => []OnePassword
<1>1. OwnerInv => OnePassword
  BY DEF OwnerInv
<1> QED BY OwnerInvariant, <1>1, PTL

\* Nothing found on the volume is changed before it is copied.
THEOREM VolumeIsCopied == Spec => ChangesAreSafe
<1>1. OwnerInv /\ [Next]_vars =>
        [Held # Held' => /\ marker <= release
                         /\ found \in backups \/ found = NewVolume]_volumeVars
  BY OwnerStep DEF Behind
<1> QED BY OwnerInvariant, <1>1, PTL DEF Spec, ChangesAreSafe

\* However many claims, changes and sign-ins race, the password is changed by a request
\* that gives it, but for the two kinds that the property names.
THEOREM OwnerStays == Spec => ClaimedOnce
<1>1. OwnerInv /\ [Next]_vars => [ByTheOwner]_vars
  BY OwnerStep
<1> QED BY OwnerInvariant, <1>1, PTL DEF Spec, ClaimedOnce, ByTheOwner
=============================================================================
