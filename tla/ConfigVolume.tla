---------------------------- MODULE ConfigVolume ----------------------------
(***************************************************************************)
(* The start of the appliance on its config and secrets volumes            *)
(* (ui/bootstrap.py): the markers of the release and of the schema decide  *)
(* whether the volume is set up, migrated, accepted or refused, and the    *)
(* private files are written where they are missing.  The host may crash   *)
(* after every write, and another release may be started then.             *)
(*                                                                         *)
(* Settings are the keys that settings.env holds; a release knows the keys *)
(* up to its own number.  A file that is written in place may be left      *)
(* empty by a crash, one that is replaced may not.                         *)
(***************************************************************************)
EXTENDS Naturals

CONSTANTS MaxRelease, \* releases are numbered from 1
          Secrets,    \* values of the Redis password
          Faults      \* which failures may happen, see VolumeFailures

VolumeFailures == {"crash",  \* the host stops between two writes
                   "torn",   \* and within one that is done in place
                   "write",  \* a write of the migration, or of the password, fails
                   "read"}   \* the owner's document cannot be read, see OwnerPassword

ASSUME VolumeBounds == MaxRelease \in Nat \ {0} /\ Secrets \cap {"absent", "empty"} = {}

Releases == 1..MaxRelease
Future == MaxRelease + 1   \* a release with a later schema wrote the volume
Keys(r) == 1..r
CurrentSchema == 1
Unreadable == 99           \* a schema marker that is empty
NoMarker == 0              \* neither a release nor a schema marker

\* In the order in which they are written; the last one is redis.conf.
Files == <<"redis", "sync", "ui", "conf">>
Positions == 1..4
Contents == Secrets \cup {"absent", "empty"}

VARIABLES
  release,  \* the release that was started last
  phase,    \* where its bootstrap is
  settings, \* keys of settings.env, {} without the file
  schema,   \* the schema marker
  marker,   \* the release marker
  status,   \* the block record exists
  backups,  \* complete copies below migration-backups
  secrets,  \* the Redis password in its four files
  next,     \* the file whose turn it is
  found,    \* what the config volume held when the bootstrap began; not in the code
  torn      \* a file was left empty; not in the code

configVars == <<settings, schema, marker, status, backups>>
volumeVars == <<release, phase, configVars, secrets, next, found, torn>>

Config == [settings : SUBSET (1..Future), schema : {NoMarker, 1, 2, Unreadable},
           marker : {NoMarker} \cup 1..Future]
Held == [settings |-> settings, schema |-> schema, marker |-> marker]
NewVolume == [settings |-> {}, schema |-> NoMarker, marker |-> NoMarker]

VolumeTypeOK ==
  /\ release \in Releases
  /\ phase \in {"off", "begin", "freshSchema", "freshMarker", "backup", "migrate", "markSchema",
                "markRelease", "accept", "secrets", "up", "blocked"}
  /\ Held \in Config /\ status \in BOOLEAN /\ backups \subseteq Config
  /\ secrets \in [Positions -> Contents] /\ next \in 1..5
  /\ found \in Config /\ torn \in BOOLEAN
  /\ next > 1 => phase = "secrets"

\* A new volume, one from before the markers, or one from a later schema.
VolumeInit ==
  /\ release = 1 /\ phase = "off"
  /\ \E c \in {NewVolume,
               [settings |-> {1}, schema |-> NoMarker, marker |-> NoMarker],
               [settings |-> 1..Future, schema |-> 2, marker |-> Future]} :
       /\ settings = c.settings /\ schema = c.schema /\ marker = c.marker
       /\ found = c
  /\ status = FALSE /\ backups = {}
  /\ secrets = [k \in Positions |-> "absent"] /\ next = 1 /\ torn = FALSE

-----------------------------------------------------------------------------
(* prepare_config.                                                         *)

\* A release is started, by an installation, an upgrade or a downgrade.
Boot(r) ==
  /\ phase \in {"off", "up", "blocked"}
  /\ release' = r /\ phase' = "begin" /\ found' = Held
  /\ UNCHANGED <<configVars, secrets, next, torn>>

EmptyVolume == Held = NewVolume /\ ~status /\ backups = {}

\* As if the schema alone decided.
IncompatibleSchema == schema \notin {NoMarker, CurrentSchema}

\* Written by a later release, or with a schema this release does not know.
Incompatible == marker > release \/ schema \notin {NoMarker, CurrentSchema}

Outdated == schema = NoMarker \/ marker # release

\* The first three steps of a new volume.
FreshSettings ==
  /\ phase = "begin" /\ EmptyVolume
  /\ settings' = Keys(release) /\ phase' = "freshSchema"
  /\ UNCHANGED <<release, schema, marker, status, backups, secrets, next, found, torn>>

\* write_once creates the file and fills it: a crash between leaves it empty.
Torn == "torn" \in Faults /\ torn' = TRUE /\ phase' = "off"

FreshSchema ==
  /\ phase = "freshSchema"
  /\ \/ schema' = CurrentSchema /\ phase' = "freshMarker" /\ UNCHANGED torn
     \/ schema' = Unreadable /\ Torn
  /\ UNCHANGED <<release, settings, marker, status, backups, secrets, next, found>>

\* An empty release marker reads as none.
FreshMarker ==
  /\ phase = "freshMarker"
  /\ \/ marker' = release /\ phase' = "accept" /\ UNCHANGED torn
     \/ UNCHANGED marker /\ Torn
  /\ UNCHANGED <<release, settings, schema, status, backups, secrets, next, found>>

\* The block record; nothing else is changed, and the console explains it.
Block == status' = TRUE /\ phase' = "blocked"

Judge ==
  /\ phase = "begin" /\ ~EmptyVolume
  /\ IF Incompatible THEN Block
     ELSE phase' = (IF Outdated THEN "backup" ELSE "accept") /\ UNCHANGED status
  /\ UNCHANGED <<release, settings, schema, marker, backups, secrets, next, found, torn>>

\* As if the copies were made once the settings are complete.
BackUpLate ==
  /\ phase = "backup"
  /\ settings' = settings \cup Keys(release)
  /\ backups' = backups \cup {[Held EXCEPT !.settings = settings']}
  /\ phase' = "migrate"
  /\ UNCHANGED <<release, schema, marker, status, secrets, next, found, torn>>

\* The top-level files are copied.
BackUp ==
  /\ phase = "backup"
  /\ backups' = backups \cup {Held} /\ phase' = "migrate"
  /\ UNCHANGED <<release, settings, schema, marker, status, secrets, next, found, torn>>

\* Missing keys get their defaults, in the migration and after it.
Migrate ==
  /\ phase = "migrate"
  /\ settings' = settings \cup Keys(release)
  /\ phase' = IF schema = NoMarker THEN "markSchema" ELSE "markRelease"
  /\ UNCHANGED <<release, schema, marker, status, backups, secrets, next, found, torn>>

MarkSchema ==
  /\ phase = "markSchema"
  /\ schema' = CurrentSchema /\ phase' = "markRelease"
  /\ UNCHANGED <<release, settings, marker, status, backups, secrets, next, found, torn>>

MarkRelease ==
  /\ phase = "markRelease"
  /\ marker' = release /\ phase' = "accept"
  /\ UNCHANGED <<release, settings, schema, status, backups, secrets, next, found, torn>>

MigrationFails ==
  /\ "write" \in Faults /\ phase \in {"migrate", "markSchema", "markRelease"}
  /\ Block
  /\ UNCHANGED <<release, settings, schema, marker, backups, secrets, next, found, torn>>

-----------------------------------------------------------------------------
(* main after prepare_config.                                              *)

\* As if an accepted volume kept the record of an earlier block.
AcceptSilently ==
  /\ phase = "accept"
  /\ settings' = settings \cup Keys(release) /\ phase' = "secrets"
  /\ UNCHANGED <<release, schema, marker, status, backups, secrets, next, found, torn>>

\* The block record goes, and the settings are completed once more.
Accept ==
  /\ phase = "accept"
  /\ status' = FALSE /\ settings' = settings \cup Keys(release)
  /\ phase' = "secrets"
  /\ UNCHANGED <<release, schema, marker, backups, secrets, next, found, torn>>

Text(k) == IF k = 1 THEN Secrets ELSE {secrets[1]}

\* As if every consumer got a password of its own making.
WriteSecretAnew ==
  /\ phase = "secrets" /\ next \in Positions
  /\ \E v \in Secrets :
       secrets' = [secrets EXCEPT ![next] = IF @ = "absent" THEN v ELSE @]
  /\ next' = next + 1 /\ UNCHANGED <<phase, torn, release, configVars, found>>

\* A file that exists is kept whatever it holds; the copies are made of the first.
WriteSecret ==
  /\ phase = "secrets" /\ next \in Positions
  /\ \/ /\ secrets[next] # "absent" /\ next' = next + 1
        /\ UNCHANGED <<secrets, phase, torn>>
     \/ /\ secrets[next] = "absent"
        /\ \/ /\ \E v \in Text(next) : secrets' = [secrets EXCEPT ![next] = v]
              /\ next' = next + 1 /\ UNCHANGED <<phase, torn>>
           \/ secrets' = [secrets EXCEPT ![next] = "empty"] /\ next' = 1 /\ Torn
  /\ UNCHANGED <<release, configVars, found>>

\* The bootstrap has ended, the services start.
Ready ==
  /\ phase = "secrets" /\ next = 5
  /\ phase' = "up" /\ next' = 1
  /\ UNCHANGED <<release, configVars, secrets, found, torn>>

Crash ==
  /\ "crash" \in Faults /\ phase # "off"
  /\ phase' = "off" /\ next' = 1
  /\ UNCHANGED <<release, configVars, secrets, found, torn>>

Bootstrap ==
  \/ FreshSettings \/ FreshSchema \/ FreshMarker \/ Judge \/ BackUp \/ Migrate \/ MarkSchema
  \/ MarkRelease \/ MigrationFails \/ Accept \/ WriteSecret \/ Ready

VolumeNext == Bootstrap \/ Crash \/ \E r \in Releases : Boot(r)

VolumeSpec == VolumeInit /\ [][VolumeNext]_volumeVars

-----------------------------------------------------------------------------
(* The running appliance.                                                  *)

\* _version_problem: the block record, or a marker of another release.
VersionProblem == status \/ marker # release

\* The console runs also where the bootstrap refused the volume.
ConsoleRuns == phase \in {"up", "blocked"}

-----------------------------------------------------------------------------
(* Properties.                                                             *)

\* The console reports a version problem exactly on a volume that the bootstrap
\* refused; what it serves has the schema and the settings of its own release,
\* whatever was started, cut short or refused before (bootstrap.py:159-283,
\* app.py:1239-1263).
ServedVolumeIsReady ==
  ConsoleRuns =>
    /\ VersionProblem <=> phase = "blocked"
    /\ phase = "up" => schema = CurrentSchema /\ Keys(release) \subseteq settings

\* Redis and its clients hold one password once the bootstrap has ended, also when
\* earlier ones were cut short between two files (bootstrap.py:96-104, 267-280).
SecretsAgree ==
  phase = "up" /\ ~torn => \A k \in Positions : secrets[k] = secrets[1] /\ secrets[k] \in Secrets

\* What a bootstrap finds on the volume is changed only once a complete copy of it
\* exists, and never when a later release has marked the volume: "Downgrades never
\* rewrite newer state" (README.md:267, bootstrap.py:137-147, 179-219).
ChangesAreSafe ==
  [][Held # Held' =>
       /\ marker <= release
       /\ found \in backups \/ found = NewVolume]_volumeVars
=============================================================================
