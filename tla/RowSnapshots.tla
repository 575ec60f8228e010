---------------------------- MODULE RowSnapshots ----------------------------
(***************************************************************************)
(* Two writers of one row (src-tauri/src/lib.rs and db.rs): the renderer   *)
(* saves snapshots of all its rows, one save at a time and never a row it  *)
(* has already saved, while native commands change single fields.  A field *)
(* that a native command has committed carries a marker until a snapshot   *)
(* comes back with the same value (merge_durable_torrent_telemetry).       *)
(*                                                                         *)
(* One torrent.  Each move goes to a folder of its own, so folders are     *)
(* numbers.  Web seeds use the same kind of marker as the folder and are   *)
(* left out.  Bounds: MaxMoves moves, MaxUploads steps of the uploaded     *)
(* total, MaxVerifications, MaxStops stops of the process.                 *)
(***************************************************************************)
EXTENDS Naturals, FiniteSetsExt

CONSTANTS MaxMoves, MaxUploads, MaxVerifications, MaxStops

VARIABLES
  rec,          \* the row in the database
  marks,        \* its native markers: folder (0 for none) and verification
  shown,        \* the renderer's row
  snapshot,     \* the save under way
  committed,    \* the row of the last save that landed
  moved,        \* the folder the data is in
  uploaded,     \* the uploaded total of the poller
  news,         \* native events the renderer has not handled
  verifier,     \* verify_torrent_data and the run it starts
  acking,       \* the renderer acknowledges the end of a verification
  verifications, rowStops

svars == <<rec, marks, shown, snapshot, committed, moved, uploaded, news, verifier, acking,
           verifications, rowStops>>

Rows == [folder : 0 .. MaxMoves, verify : BOOLEAN, up : 0 .. MaxUploads]
NoRow == [folder |-> 0, verify |-> FALSE, up |-> MaxUploads + 1]
Larger(a, b) == Max({a, b})

\* Every variable keeps its type.
TypeOK ==
  /\ rec \in Rows /\ shown \in Rows
  /\ marks \in [folder : 0 .. MaxMoves, verify : BOOLEAN]
  /\ snapshot \in Rows \cup {NoRow} /\ committed \in Rows \cup {NoRow}
  /\ moved \in 0 .. MaxMoves /\ uploaded \in 0 .. MaxUploads
  /\ news \subseteq {"moved", "refused", "ended"}
  /\ verifier \in {"idle", "asked", "enqueue", "rollback", "run"}
  /\ acking \in {"no", "queue", "wait"}
  /\ verifications \in 0 .. MaxVerifications /\ rowStops \in 0 .. MaxStops

Init ==
  /\ rec = [folder |-> 0, verify |-> FALSE, up |-> 0] /\ shown = rec
  /\ marks = [folder |-> 0, verify |-> FALSE]
  /\ snapshot = NoRow /\ committed = NoRow
  /\ moved = 0 /\ uploaded = 0
  /\ news = {}
  /\ verifier = "idle" /\ acking = "no"
  /\ verifications = 0 /\ rowStops = 0

-----------------------------------------------------------------------------
(* The renderer's saves: processPersistenceSave, db_commit_download_state  *)

Send ==
  /\ snapshot = NoRow
  /\ shown # committed
  /\ snapshot' = shown
  /\ acking' = IF acking = "queue" THEN "wait" ELSE acking
  /\ UNCHANGED <<rec, marks, shown, committed, moved, uploaded, news, verifier,
                 verifications, rowStops>>

Unmarked(s) == s.folder                            \* mutant: the snapshot's folder wins
\* A native folder outranks the snapshot until a snapshot has the same one.
Folder(s) == IF marks.folder # 0 THEN marks.folder ELSE s.folder
Uploaded(s) == Larger(s.up, rec.up)

Acknowledged(s) == marks.verify /\ s.verify

\* merge_durable_torrent_telemetry and replace_downloads_tx, under one database lock
Land ==
  /\ snapshot # NoRow
  /\ rec' = [folder |-> Folder(snapshot), verify |-> snapshot.verify \/ marks.verify,
             up |-> Uploaded(snapshot)]
  /\ marks' = [folder |-> IF snapshot.folder = marks.folder THEN 0 ELSE marks.folder,
               verify |-> marks.verify /\ ~Acknowledged(snapshot)]
  /\ committed' = snapshot
  /\ snapshot' = NoRow
  /\ UNCHANGED <<shown, moved, uploaded, news, verifier, acking, verifications, rowStops>>

-----------------------------------------------------------------------------
(* Native commits                                                          *)

\* persist_torrent_destination, once the data is in the new folder
Move ==
  /\ moved < MaxMoves /\ verifier = "idle" /\ "moved" \notin news
  /\ moved' = moved + 1
  /\ rec' = [rec EXCEPT !.folder = moved + 1]
  /\ marks' = [marks EXCEPT !.folder = moved + 1]
  /\ news' = news \cup {"moved"}
  /\ UNCHANGED <<shown, snapshot, committed, uploaded, verifier, acking, verifications,
                 rowStops>>

\* persist_torrent_telemetry
Checkpoint ==
  /\ uploaded < MaxUploads
  /\ uploaded' = uploaded + 1
  /\ rec' = [rec EXCEPT !.up = uploaded + 1]
  /\ UNCHANGED <<marks, shown, snapshot, committed, moved, news, verifier, acking,
                 verifications, rowStops>>

\* verify_torrent_data
CommitVerify ==
  /\ verifier = "asked"
  /\ rec' = [rec EXCEPT !.verify = TRUE]
  /\ marks' = [marks EXCEPT !.verify = TRUE]
  /\ verifier' = "enqueue"
  /\ UNCHANGED <<shown, snapshot, committed, moved, uploaded, news, acking, verifications,
                 rowStops>>

Enqueue ==
  /\ verifier = "enqueue"
  /\ verifier' \in {"run", "rollback"}
  /\ UNCHANGED <<rec, marks, shown, snapshot, committed, moved, uploaded, news, acking,
                 verifications, rowStops>>

\* The rollback takes the marker of this verification only.
Rollback ==
  /\ verifier = "rollback"
  /\ rec' = [rec EXCEPT !.verify = FALSE]
  /\ marks' = IF rec.verify THEN [marks EXCEPT !.verify = FALSE] ELSE marks
  /\ verifier' = "idle"
  /\ news' = news \cup {"refused"}
  /\ UNCHANGED <<shown, snapshot, committed, moved, uploaded, acking, verifications, rowStops>>

RunEnds ==
  /\ verifier = "run"
  /\ verifier' = "idle"
  /\ news' = news \cup {"ended"}
  /\ UNCHANGED <<rec, marks, shown, snapshot, committed, moved, uploaded, acking,
                 verifications, rowStops>>

-----------------------------------------------------------------------------
(* What the renderer shows                                                 *)

ShowMove ==
  /\ "moved" \in news
  /\ news' = news \ {"moved"}
  /\ shown' = [shown EXCEPT !.folder = moved]
  /\ UNCHANGED <<rec, marks, snapshot, committed, moved, uploaded, verifier, acking,
                 verifications, rowStops>>

ShowUploaded ==
  /\ shown.up < uploaded
  /\ shown' = [shown EXCEPT !.up = uploaded]
  /\ UNCHANGED <<rec, marks, snapshot, committed, moved, uploaded, news, verifier, acking,
                 verifications, rowStops>>

\* The Properties window asks; the renderer marks its row first.
AskVerify ==
  /\ verifier = "idle" /\ acking = "no" /\ news \cap {"refused", "ended"} = {}
  /\ verifications < MaxVerifications
  /\ verifications' = verifications + 1
  /\ shown' = [shown EXCEPT !.verify = TRUE]
  /\ verifier' = "asked"
  /\ UNCHANGED <<rec, marks, snapshot, committed, moved, uploaded, news, acking, rowStops>>

ShowRefusal ==
  /\ "refused" \in news
  /\ news' = news \ {"refused"}
  /\ shown' = [shown EXCEPT !.verify = FALSE]
  /\ UNCHANGED <<rec, marks, snapshot, committed, moved, uploaded, verifier, acking,
                 verifications, rowStops>>

ClearAtOnce == acking' = "wait"                    \* mutant: both updates in one snapshot
\* The marker is "acknowledged in a separate durable snapshot" first; the run has changed
\* other fields of the row, so there is something to save.
Acknowledge == acking' = "queue"

ShowEnd ==
  /\ "ended" \in news
  /\ news' = news \ {"ended"}
  /\ Acknowledge
  /\ committed' = NoRow
  /\ UNCHANGED <<rec, marks, shown, snapshot, moved, uploaded, verifier, verifications,
                 rowStops>>

ClearVerify ==
  /\ acking = "wait" /\ snapshot = NoRow
  /\ shown' = [shown EXCEPT !.verify = FALSE]
  /\ acking' = "no"
  /\ UNCHANGED <<rec, marks, snapshot, committed, moved, uploaded, news, verifier,
                 verifications, rowStops>>

\* The process stops; the renderer starts with the rows of the database.
StopProcess ==
  /\ rowStops < MaxStops
  /\ rowStops' = rowStops + 1
  /\ shown' = rec
  /\ snapshot' = NoRow /\ committed' = NoRow
  /\ news' = {} /\ verifier' = "idle" /\ acking' = "no"
  /\ uploaded' = rec.up
  /\ UNCHANGED <<rec, marks, moved, verifications>>

Next ==
  \/ Send \/ Land
  \/ Move \/ Checkpoint \/ CommitVerify \/ Enqueue \/ Rollback \/ RunEnds
  \/ ShowMove \/ ShowUploaded \/ AskVerify \/ ShowRefusal \/ ShowEnd \/ ClearVerify
  \/ StopProcess

Spec == Init /\ [][Next]_svars

-----------------------------------------------------------------------------
(* Properties                                                              *)

\* The comment on the merge: an older snapshot "cannot lower native lifetime totals or
\* roll back a just-committed relocation": at every moment, whatever is in flight and
\* wherever the process stops, the row has the folder of the data and the total, and it
\* names the verification that runs, which a restart has to take up.
NativeCommitsAreKept ==
  /\ rec.folder = moved /\ rec.up = uploaded
  /\ verifier \in {"enqueue", "run"} => rec.verify

\* A marker does not outlive what it protects: when nothing is in flight any more, the row
\* is the one the user sees, and no verification is left in it that nobody runs.
SnapshotsConverge ==
  shown = committed /\ snapshot = NoRow /\ news = {} /\ verifier = "idle" /\ acking = "no"
    => rec.verify = shown.verify /\ rec.folder = shown.folder
=============================================================================
