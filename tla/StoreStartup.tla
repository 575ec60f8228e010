---------------------------- MODULE StoreStartup ----------------------------
(***************************************************************************)
(* What the program does to its database before anything else runs         *)
(* (init_at_path_internal in src-tauri/src/db.rs): a backup and the        *)
(* migration of an old schema, the import of the stores of older versions, *)
(* the repair of lost rows from the backups, and in portable mode the      *)
(* removal of transfer secrets.  It may stop between any two of its        *)
(* writes, and starts from the beginning next time.                        *)
(*                                                                         *)
(* Each legacy store has one backup, each schema backup the rows of the    *)
(* moment.  Sessions between two starts add, remove and lose rows.         *)
(* Bounds: MaxStarts starts, MaxChanges changes by the sessions.  Left     *)
(* out: settings, queues, the shutdown journal (ExitBarrier), and what the *)
(* pairing token becomes after the import.                                 *)
(***************************************************************************)
EXTENDS Naturals, Sequences, FiniteSets, SequencesExt

CONSTANTS
  Stored,            \* ids of downloads
  Sources,           \* the legacy stores, in their order: 1 .. n
  MaxStarts, MaxChanges

Phases == {"closed", "backup", "migrate", "copy", "merge", "token", "cleanCopy",
           "cleanSource", "mark", "recover", "sanitize", "ready", "blocked"}

VARIABLES
  portable,          \* the data is beside the executable
  phase, source,     \* the start, and the legacy store it is at
  schema,            \* the version of the database: old or current
  row,               \* each row: none, broken, live, or one restored from a backup
  before,            \* the rows at the beginning of the start (history)
  secrets,           \* some row holds transfer secrets
  owned,             \* ids with a record of ownership
  job,               \* their removal jobs
  marker,            \* what is recorded of the recovery
  backups,           \* the schema backups, newest first: the rows of each, or a torn file
  legacy,            \* the rows of each legacy store, whether it holds secrets and the
                     \* pairing token, its copy, and whether its import is recorded
  token,             \* the database holds the pairing token of a legacy store
  starts, changes

svars == <<portable, phase, source, schema, row, before, secrets, owned, job, marker, backups,
           legacy, token, starts, changes>>

RowStates == {"none", "broken", "live", "restored"}
Torn == [i \in Stored |-> "torn"]
Copies == {"none", "torn", "raw", "clean"}
Stores == [rows : SUBSET Stored, raw : BOOLEAN, copy : Copies, done : BOOLEAN]

\* Every variable keeps its type.
TypeOK ==
  /\ portable \in BOOLEAN /\ phase \in Phases /\ source \in Sources
  /\ schema \in {"old", "current"}
  /\ row \in [Stored -> RowStates] /\ before \in [Stored -> RowStates]
  /\ secrets \in BOOLEAN /\ owned \subseteq Stored
  /\ job \in [Stored -> {"none", "open", "done"}]
  /\ marker \in {"none", "skipped", "complete"}
  /\ \A b \in ToSet(backups) : b \in [Stored -> RowStates] \cup {Torn}
  /\ legacy \in [Sources -> Stores] /\ token \in BOOLEAN
  /\ starts \in 0 .. MaxStarts /\ changes \in 0 .. MaxChanges

\* The user comes from a version whose schema is old, or from one that had legacy stores.
Init ==
  /\ portable \in BOOLEAN /\ phase = "closed" /\ source = 1
  /\ \E had \in SUBSET Stored :
       /\ row = [i \in Stored |-> IF i \in had THEN "live" ELSE "none"]
       /\ owned = had /\ secrets = (had # {})
       /\ schema = IF had = {} THEN "current" ELSE "old"
       /\ legacy \in [Sources -> {s \in Stores : /\ s.raw /\ s.copy = "none" /\ ~s.done
                                                 /\ s.rows \in {{}, Stored}}]
  /\ before = row
  /\ job = [i \in Stored |-> "none"] /\ marker = "none" /\ backups = <<>> /\ token = FALSE
  /\ starts = 0 /\ changes = 0

-----------------------------------------------------------------------------
(* Opening and migrating                                                   *)

Open ==
  /\ phase = "closed" /\ starts < MaxStarts
  /\ starts' = starts + 1
  /\ phase' = IF schema = "old" /\ ~portable THEN "backup" ELSE "migrate"
  /\ source' = 1 /\ before' = row
  /\ UNCHANGED <<portable, schema, row, secrets, owned, job, marker, backups, legacy, token,
                 changes>>

\* VACUUM INTO a new file; a stop in the middle leaves one without tables.
BackUp ==
  /\ phase = "backup"
  /\ \/ backups' = <<row>> \o backups /\ phase' = "migrate"
     \/ backups' = <<Torn>> \o backups /\ phase' = "closed"
  /\ UNCHANGED <<portable, source, schema, row, before, secrets, owned, job, marker, legacy,
                 token, starts, changes>>

\* One transaction.
Migrate ==
  /\ phase = "migrate"
  /\ schema' = "current" /\ phase' = "copy"
  /\ UNCHANGED <<portable, source, row, before, secrets, owned, job, marker, backups, legacy,
                 token, starts, changes>>

-----------------------------------------------------------------------------
(* import_legacy_data, for one store after the other                       *)

Beyond == IF source < Cardinality(Sources) THEN "copy" ELSE "recover"
Advance == phase' = Beyond /\ source' = IF source < Cardinality(Sources) THEN source + 1 ELSE 1
Alter(field) == legacy' = [legacy EXCEPT ![source] = field]
Store == legacy[source]

\* One that is imported is only cleaned once more.
Imported ==
  /\ phase = "copy" /\ Store.done
  /\ Alter([Store EXCEPT !.raw = FALSE])
  /\ Advance
  /\ UNCHANGED <<portable, schema, row, before, secrets, owned, job, marker, backups, token,
                 starts, changes>>

\* backup_file: a file of an earlier start is taken for the backup as it is; a stop in the
\* middle of the copy leaves a torn one.
CopySource ==
  /\ phase = "copy" /\ ~Store.done
  /\ \/ /\ portable \/ Store.copy # "none"
        /\ phase' = "merge" /\ UNCHANGED legacy
     \/ /\ ~portable /\ Store.copy = "none"
        /\ \/ Alter([Store EXCEPT !.copy = IF Store.raw THEN "raw" ELSE "clean"]) /\ phase' = "merge"
           \/ Alter([Store EXCEPT !.copy = "torn"]) /\ phase' = "closed"
  /\ UNCHANGED <<portable, source, schema, row, before, secrets, owned, job, marker, backups,
                 token, starts, changes>>

\* remove_persisted_transfer_secrets, in portable mode; the row is then not resumed.
Strip(raw) == raw /\ ~portable

Count == Cardinality({i \in Stored : row[i] # "none"})

CleanFirst == phase' = "cleanCopy"                 \* mutant: the token is not kept before
KeepFirst == phase' = "token"

\* merge_legacy_data: the rows go into an empty table only, ids with a removal job never;
\* in portable mode they have been sanitized.
Merge ==
  /\ phase = "merge"
  /\ IF Count = 0
     THEN /\ row' = [i \in Stored |-> IF i \in Store.rows /\ job[i] = "none" THEN "live"
                                      ELSE row[i]]
          /\ secrets' = Strip(Store.raw /\ Store.rows # {})
     ELSE UNCHANGED <<row, secrets>>
  /\ owned' = owned \cup Store.rows
  /\ KeepFirst
  /\ UNCHANGED <<portable, source, schema, before, job, marker, backups, legacy, token, starts,
                 changes>>

\* The token of the first store that has one is kept for the user's consent.
SaveToken ==
  /\ phase = "token"
  /\ phase' = "cleanCopy"
  /\ token' = (token \/ (Store.raw /\ ~portable))
  /\ UNCHANGED <<portable, source, schema, row, before, secrets, owned, job, marker, backups,
                 legacy, starts, changes>>

\* A torn backup cannot be decoded: the start fails, and so does every later one.
CleanCopy ==
  /\ phase = "cleanCopy"
  /\ IF Store.copy = "torn"
     THEN phase' = "blocked" /\ UNCHANGED legacy
     ELSE /\ phase' = "cleanSource"
          /\ Alter([Store EXCEPT !.copy = IF portable THEN @ ELSE "clean"])
  /\ UNCHANGED <<portable, source, schema, row, before, secrets, owned, job, marker, backups,
                 token, starts, changes>>

CleanSource ==
  /\ phase = "cleanSource"
  /\ Alter([Store EXCEPT !.raw = FALSE]) /\ phase' = "mark"
  /\ UNCHANGED <<portable, source, schema, row, before, secrets, owned, job, marker, backups,
                 token, starts, changes>>

MarkImport ==
  /\ phase = "mark"
  /\ Alter([Store EXCEPT !.done = TRUE])
  /\ Advance
  /\ UNCHANGED <<portable, schema, row, before, secrets, owned, job, marker, backups, token,
                 starts, changes>>

-----------------------------------------------------------------------------
(* recover_downloads_from_migration_backup                                 *)

Broken == {i \in Stored : row[i] = "broken"}
Tombstones == {i \in Stored : job[i] = "done"}
OpenJobs == {i \in Stored : job[i] = "open"}

\* Anything that shows that the table has been in use limits the repair to single rows.
Narrow == Count > 0 \/ marker # "none" \/ owned # {} \/ OpenJobs # {}

OrphansOfOwners == {i \in owned : row[i] = "none"}
Revived ==                                         \* mutant: removed rows too
  {i \in Stored : row[i] = "none"} \cup Broken
\* Rows with evidence that they ought to be there: an owner, a broken row, a removal that
\* is not finished.  A finished removal outranks them.
Orphans == ((OrphansOfOwners \cup Broken) \ Tombstones)
           \cup {i \in OpenJobs : row[i] = "none"}

\* The rows a backup can give; portable mode takes none from a backup with a broken one.
Readable(b) == b # Torn /\ (\E i \in Stored : b[i] \in {"live", "restored"})
               /\ (portable => \A i \in Stored : b[i] # "broken")
Rows(b) == {i \in Stored : b[i] \in {"live", "restored"}}
Candidates == SelectSeq(backups, Readable)

\* The newest backup that has it gives each row; without evidence the newest gives all.
Restorable ==
  IF Narrow THEN Orphans \cap UNION {Rows(b) : b \in ToSet(Candidates)}
  ELSE IF Candidates = <<>> THEN {} ELSE Rows(Candidates[1]) \ Tombstones

Recover ==
  /\ phase = "recover"
  /\ row' = [i \in Stored |-> IF i \in Restorable THEN "restored" ELSE row[i]]
  /\ secrets' = (secrets \/ Strip(Restorable # {}))
  /\ owned' = owned \cup Restorable
  /\ marker' = IF Narrow
               THEN IF Orphans = {} THEN (IF Count > 0 /\ marker = "none" THEN "skipped" ELSE marker)
                    ELSE IF Orphans \subseteq Restorable THEN "complete" ELSE marker
               ELSE IF Candidates # <<>> THEN "complete" ELSE marker
  /\ phase' = "sanitize"
  /\ UNCHANGED <<portable, source, schema, before, job, backups, legacy, token, starts, changes>>

\* sanitize_persisted_downloads, in portable mode: a row that cannot be decoded stops it.
Sanitize ==
  /\ phase = "sanitize"
  /\ IF portable /\ Broken # {} THEN phase' = "blocked" /\ UNCHANGED secrets
     ELSE phase' = "ready" /\ secrets' = Strip(secrets)
  /\ UNCHANGED <<portable, source, schema, row, before, owned, job, marker, backups, legacy,
                 token, starts, changes>>

-----------------------------------------------------------------------------
(* Sessions, and the end of the process                                    *)

Change == changes < MaxChanges /\ changes' = changes + 1 /\ phase = "ready"
Rest == UNCHANGED <<portable, source, schema, marker, backups, legacy, token, starts, phase>>

Add(i) ==
  /\ Change /\ job[i] = "none" /\ row[i] \in {"none", "restored"} /\ i \notin owned
  /\ row' = [row EXCEPT ![i] = "live"] /\ owned' = owned \cup {i}
  /\ secrets' = (secrets \/ Strip(TRUE))
  /\ UNCHANGED <<before, job>> /\ Rest

Ask(i) ==
  /\ Change /\ row[i] \in {"live", "restored"} /\ job[i] = "none"
  /\ job' = [job EXCEPT ![i] = "open"]
  /\ UNCHANGED <<row, before, owned, secrets>> /\ Rest

\* The removal commits: the row and the record go, the job stays as a tombstone.
Removed(i) ==
  /\ phase = "ready" /\ job[i] = "open"
  /\ job' = [job EXCEPT ![i] = "done"]
  /\ row' = [row EXCEPT ![i] = "none"] /\ owned' = owned \ {i}
  /\ UNCHANGED <<before, secrets, changes>> /\ Rest

\* "a stale renderer snapshot can still remove rows", or the document of a row is damaged.
Damage(i) ==
  /\ Change /\ row[i] \in {"live", "restored"}
  /\ \E state \in {"none", "broken"} :
       /\ state = "none" => job[i] = "none"
       /\ row' = [row EXCEPT ![i] = state]
  /\ UNCHANGED <<before, owned, secrets, job>> /\ Rest

\* The process ends, wherever it is.
Stop ==
  /\ phase \notin {"closed", "blocked"}
  /\ phase' = "closed"
  /\ UNCHANGED <<portable, source, schema, row, before, secrets, owned, job, marker, backups,
                 legacy, token, starts, changes>>

Next ==
  \/ Open \/ BackUp \/ Migrate \/ Imported \/ CopySource \/ Merge \/ SaveToken \/ CleanCopy
  \/ CleanSource \/ MarkImport \/ Recover \/ Sanitize \/ Stop
  \/ \E i \in Stored : Add(i) \/ Ask(i) \/ Removed(i) \/ Damage(i)

Spec == Init /\ [][Next]_svars

-----------------------------------------------------------------------------
(* Properties                                                              *)

\* "Completed jobs are the durable deletion tombstone": neither a backup nor a legacy
\* store brings the row of a removed download back.
TombstonesHold == \A i \in Tombstones : row[i] = "none"

\* No start replaces a row that can be read by an older one, or loses it.
IntactRowsStay ==
  phase \notin {"closed", "ready"} =>
    \A i \in Stored : before[i] = "live" => row[i] = "live"

\* "the ownership registry was deliberately retained": when the program is up, a row with
\* an owner is missing only if no backup has it.
OwnedRowsAreBack ==
  phase = "sanitize" =>
    \A i \in owned \ Tombstones :
      row[i] \in {"none", "broken"} => i \notin UNION {Rows(b) : b \in ToSet(Candidates)}

\* Portable mode leaves no transfer secret beside the executable, and the pairing token of
\* a legacy store is not lost, wherever a start is cut short.
SecretsGoTheTokenStays ==
  /\ portable /\ phase = "ready" => ~secrets /\ \A s \in Sources : ~legacy[s].raw
  /\ ~portable => token \/ \A s \in Sources : legacy[s].raw
  /\ \A s \in Sources : legacy[s].done => ~legacy[s].raw /\ legacy[s].copy \notin {"raw", "torn"}

\* A start fails for ever only over a torn backup of a legacy store, or in portable mode
\* over a row that no backup can repair.
StartsSucceed ==
  phase = "blocked" => \/ Store.copy = "torn"
                       \/ portable /\ Broken # {}
=============================================================================
