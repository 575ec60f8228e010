---------------------------- MODULE TorrentMove ----------------------------
(***************************************************************************)
(* Moving the data of a torrent to another folder (move_torrent_data and   *)
(* recover_torrent_move_journals in src-tauri/src/lib.rs): the files are   *)
(* copied to a staging folder, verified, renamed, the row is pointed at    *)
(* the new folder, and only then the old files go.  A journal names the    *)
(* phase; the process may stop between any two steps.                      *)
(*                                                                         *)
(* There are two folders and the torrent moves between them.  The journal  *)
(* is written with camelCase keys and read into a struct without a rename  *)
(* rule, so the program's reader is "snake_case" and decodes no journal;   *)
(* "camelCase" is the reader the writer calls for, which shows what the    *)
(* recovery behind the decoder does.  Bounds: MaxMoves moves, MaxStops     *)
(* stops of the process, MaxFaults failing steps.                          *)
(***************************************************************************)
EXTENDS Naturals

CONSTANTS
  Files,        \* the managed files of the torrent
  Readers,      \* the key conventions of the recovery's decoder to look at
  MaxMoves, MaxStops, MaxFaults

Folders == {"a", "b"}
Other(f) == CHOOSE g \in Folders : g # f
Steps == {"idle", "begin", "journal", "stage", "own", "copy", "publish", "unstage", "copied",
          "commit", "committed", "clean", "forget", "cleanup", "disown", "recover"}

VARIABLES
  at,           \* the complete files in each folder
  staged,       \* the files in the staging folder: absent, partial or whole
  stagingRoot,  \* whether the staging folder exists
  dest,         \* the folder of the row in the database
  owned,        \* the folder the ownership record names
  move,         \* the journal: a phase and the folder moved to
  moving,       \* torrent_moves has the id, which keeps system actions away
  cancelMove,   \* torrent_move_cancellations has the id
  mover,        \* the command, or the recovery at start
  reader,       \* the key convention of the recovery's decoder
  moves, moveStops, moveFaults

vars == <<at, staged, stagingRoot, dest, owned, move, moving, cancelMove, mover, reader,
          moves, moveStops, moveFaults>>
disk == <<at, staged, stagingRoot>>
database == <<dest, owned>>
bounds == <<reader, moves, moveStops>>

NoJournal == [phase |-> "none", to |-> "a"]
Journals == {NoJournal} \cup
  [phase : {"reserved", "copied", "databaseCommitted", "sourceCleanupPending"}, to : Folders]

\* Every variable keeps its type.
TypeOK ==
  /\ at \in [Folders -> SUBSET Files]
  /\ staged \in [Files -> {"absent", "partial", "whole"}]
  /\ stagingRoot \in BOOLEAN
  /\ dest \in Folders /\ owned \in Folders
  /\ move \in Journals
  /\ moving \in BOOLEAN /\ cancelMove \in BOOLEAN
  /\ mover \in Steps
  /\ reader \in Readers
  /\ moves \in 0 .. MaxMoves /\ moveStops \in 0 .. MaxStops /\ moveFaults \in 0 .. MaxFaults

Init ==
  /\ at = [f \in Folders |-> IF f = "a" THEN Files ELSE {}]
  /\ staged = [f \in Files |-> "absent"]
  /\ stagingRoot = FALSE
  /\ dest = "a" /\ owned = "a"
  /\ move = NoJournal
  /\ moving = FALSE /\ cancelMove = FALSE
  /\ mover = "idle"
  /\ reader \in Readers
  /\ moves = 0 /\ moveStops = 0 /\ moveFaults = 0

-----------------------------------------------------------------------------
(* move_torrent_data                                                       *)

from == Other(move.to)
NothingStaged == \A f \in Files : staged[f] = "absent"

Fault == moveFaults < MaxFaults /\ moveFaults' = moveFaults + 1
Write(phase) == move' = [move EXCEPT !.phase = phase]

\* The checks before the reservation: files in the old folder, none in the new one, no
\* staging folder.
StartMove ==
  /\ mover = "idle"
  /\ moves < MaxMoves
  /\ Files \subseteq at[owned] /\ owned = dest
  /\ at[Other(dest)] = {}
  /\ ~stagingRoot
  /\ mover' = "begin"
  /\ moves' = moves + 1
  /\ UNCHANGED <<disk, database, move, moving, cancelMove, reader, moveStops, moveFaults>>

\* begin_torrent_move forgets a cancellation that came before it.
BeginMove ==
  /\ mover = "begin"
  /\ moving' = TRUE /\ cancelMove' = FALSE
  /\ mover' = "journal"
  /\ UNCHANGED <<disk, database, move, bounds, moveFaults>>

\* finish_torrent_move
Finish == moving' = FALSE /\ cancelMove' = FALSE /\ mover' = "idle"

WriteJournal ==
  /\ mover = "journal"
  /\ \/ /\ move' = [phase |-> "reserved", to |-> Other(dest)]
        /\ mover' = "stage"
        /\ UNCHANGED <<moving, cancelMove, moveFaults>>
     \/ Fault /\ Finish /\ UNCHANGED move
  /\ UNCHANGED <<disk, database, bounds>>

MakeStaging ==
  /\ mover = "stage"
  /\ \/ /\ stagingRoot' = TRUE /\ mover' = "own"
        /\ UNCHANGED <<move, moving, cancelMove, moveFaults>>
     \/ Fault /\ Finish /\ move' = NoJournal /\ UNCHANGED stagingRoot
  /\ UNCHANGED <<at, staged, database, bounds>>

\* The record names the new paths before the data is there.  A refusal drops the
\* journal and leaves the empty staging folder.
OwnNew ==
  /\ mover = "own"
  /\ \/ /\ owned' = move.to /\ mover' = "copy"
        /\ UNCHANGED <<move, moving, cancelMove, moveFaults>>
     \/ Fault /\ Finish /\ move' = NoJournal /\ UNCHANGED owned
  /\ UNCHANGED <<disk, dest, bounds>>

\* A failure or a cancellation on the way undoes the move.
GiveUp == mover' = "cleanup"

\* One file after another; the copy is verified by size and digest before the next.
CopyFile(f) ==
  /\ mover = "copy"
  /\ ~cancelMove
  /\ f \in at[from]
  /\ \/ staged[f] = "absent" /\ staged' = [staged EXCEPT ![f] = "partial"]
        /\ UNCHANGED <<mover, moveFaults>>
     \/ staged[f] = "partial" /\ staged' = [staged EXCEPT ![f] = "whole"]
        /\ UNCHANGED <<mover, moveFaults>>
     \/ staged[f] = "partial" /\ Fault /\ GiveUp /\ UNCHANGED staged
  /\ \A g \in Files : g = f \/ staged[g] # "partial"
  /\ UNCHANGED <<at, stagingRoot, database, move, moving, cancelMove, bounds>>

\* The flag is read between two files and once more after the last.
MoveCancelled ==
  /\ mover = "copy"
  /\ cancelMove
  /\ \A f \in Files : staged[f] # "partial"
  /\ GiveUp
  /\ UNCHANGED <<disk, database, move, moving, cancelMove, bounds, moveFaults>>

AllCopied ==
  /\ mover = "copy"
  /\ ~cancelMove
  /\ \A f \in Files : staged[f] = "whole"
  /\ mover' = "publish"
  /\ UNCHANGED <<disk, database, move, moving, cancelMove, bounds, moveFaults>>

Publish(f) ==
  /\ mover = "publish"
  /\ staged[f] = "whole"
  /\ \/ /\ staged' = [staged EXCEPT ![f] = "absent"]
        /\ at' = [at EXCEPT ![move.to] = @ \cup {f}]
        /\ mover' = IF \A g \in Files \ {f} : staged[g] = "absent" THEN "unstage" ELSE mover
        /\ UNCHANGED moveFaults
     \/ Fault /\ GiveUp /\ UNCHANGED <<at, staged>>
  /\ UNCHANGED <<stagingRoot, database, move, moving, cancelMove, bounds>>

Unstage ==
  /\ mover = "unstage"
  /\ \/ stagingRoot' = FALSE /\ mover' = "copied" /\ UNCHANGED moveFaults
     \/ Fault /\ GiveUp /\ UNCHANGED stagingRoot
  /\ UNCHANGED <<at, staged, database, move, moving, cancelMove, bounds>>

NoteCopied ==
  /\ mover = "copied"
  /\ \/ Write("copied") /\ mover' = "commit" /\ UNCHANGED moveFaults
     \/ Fault /\ GiveUp /\ UNCHANGED move
  /\ UNCHANGED <<disk, database, moving, cancelMove, bounds>>

\* persist_torrent_destination
CommitMove ==
  /\ mover = "commit"
  /\ \/ dest' = move.to /\ mover' = "committed" /\ UNCHANGED moveFaults
     \/ Fault /\ GiveUp /\ UNCHANGED dest
  /\ UNCHANGED <<disk, owned, move, moving, cancelMove, bounds>>

\* From here on the database is authoritative: a failed write keeps the prior journal.
NoteCommitted ==
  /\ mover = "committed"
  /\ \/ /\ Write("databaseCommitted") /\ mover' = "clean"
        /\ UNCHANGED <<moving, cancelMove, moveFaults>>
     \/ Fault /\ Finish /\ UNCHANGED move
  /\ UNCHANGED <<disk, database, bounds>>

CleanSource(f) ==
  /\ mover = "clean"
  /\ f \in at[from]
  /\ at' = [at EXCEPT ![from] = @ \ {f}]
  /\ UNCHANGED <<staged, stagingRoot, database, move, moving, cancelMove, mover, bounds,
                 moveFaults>>

SourceStays ==
  /\ mover = "clean"
  /\ at[from] # {}
  /\ Fault /\ Finish
  /\ Write("sourceCleanupPending")
  /\ UNCHANGED <<disk, database, bounds>>

SourceClean ==
  /\ mover = "clean"
  /\ at[from] = {}
  /\ move' = NoJournal
  /\ Finish
  /\ UNCHANGED <<disk, database, bounds, moveFaults>>

\* cleanup_torrent_move_outputs, whose failures are ignored
CleanOutputs ==
  /\ mover = "cleanup"
  /\ \/ /\ at' = [at EXCEPT ![move.to] = {}]
        /\ staged' = [f \in Files |-> "absent"]
        /\ stagingRoot' = FALSE
        /\ UNCHANGED moveFaults
     \/ Fault /\ UNCHANGED disk
  /\ mover' = "disown"
  /\ UNCHANGED <<database, move, moving, cancelMove, bounds>>

RestoreNothing == UNCHANGED owned                       \* mutant: the record stays
RestoreOwnership == owned' = from

\* restore_download_ownership, whose failure is ignored; then the journal goes.
OwnOld ==
  /\ mover = "disown"
  /\ \/ RestoreOwnership /\ UNCHANGED moveFaults
     \/ Fault /\ UNCHANGED owned
  /\ mover' = "forget"
  /\ UNCHANGED <<disk, dest, move, moving, cancelMove, bounds>>

ForgetMove ==
  /\ mover = "forget"
  /\ move' = NoJournal
  /\ Finish
  /\ UNCHANGED <<disk, database, bounds, moveFaults>>

\* cancel_torrent_move_data takes no lock and asks nothing.
CancelMove ==
  /\ moves > 0
  /\ ~cancelMove
  /\ cancelMove' = TRUE
  /\ UNCHANGED <<disk, database, move, moving, mover, bounds, moveFaults>>

-----------------------------------------------------------------------------
(* The process stops; recover_torrent_move_journals.                       *)

StopMove ==
  /\ moveStops < MaxStops
  /\ moveStops' = moveStops + 1
  /\ moving' = FALSE /\ cancelMove' = FALSE
  /\ mover' = IF move.phase = "none" THEN "idle" ELSE "recover"
  /\ UNCHANGED <<disk, database, move, reader, moves, moveFaults>>

\* Keys other than the reader's are unknown fields, and its own are missing.
Decodes == reader = "camelCase"

CopiedCounts == move.phase # "reserved"                 \* mutant: copied is taken for moved
Committed == dest = move.to \/ move.phase \in {"databaseCommitted", "sourceCleanupPending"}

\* A malformed journal is left for manual recovery.
LeaveJournal ==
  /\ mover = "recover"
  /\ ~Decodes
  /\ mover' = "idle"
  /\ UNCHANGED <<disk, database, move, moving, cancelMove, bounds, moveFaults>>

\* One file or folder at a time: of a committed move the old files, of an unfinished one
\* the new files, then what is staged.
Leftovers == IF Committed THEN from ELSE move.to

RecoverFile(f) ==
  /\ mover = "recover"
  /\ Decodes
  /\ \/ /\ f \in at[Leftovers]
        /\ at' = [at EXCEPT ![Leftovers] = @ \ {f}]
        /\ UNCHANGED staged
     \/ /\ at[Leftovers] = {} /\ staged[f] # "absent"
        /\ staged' = [staged EXCEPT ![f] = "absent"]
        /\ UNCHANGED at
  /\ UNCHANGED <<stagingRoot, database, move, moving, cancelMove, mover, bounds, moveFaults>>

RecoveryFails ==
  /\ mover = "recover"
  /\ Decodes
  /\ Fault
  /\ mover' = "idle"
  /\ UNCHANGED <<disk, database, move, moving, cancelMove, bounds>>

RecoverStaging ==
  /\ mover = "recover"
  /\ Decodes
  /\ at[Leftovers] = {} /\ NothingStaged
  /\ stagingRoot' = FALSE
  /\ owned' = IF Committed THEN owned ELSE from
  /\ mover' = "forget"
  /\ UNCHANGED <<at, staged, dest, move, moving, cancelMove, bounds, moveFaults>>

-----------------------------------------------------------------------------
Next ==
  \/ StartMove \/ BeginMove \/ WriteJournal \/ MakeStaging \/ OwnNew
  \/ \E f \in Files : CopyFile(f) \/ Publish(f) \/ CleanSource(f) \/ RecoverFile(f)
  \/ MoveCancelled \/ AllCopied \/ Unstage \/ NoteCopied \/ CommitMove \/ NoteCommitted
  \/ SourceStays \/ SourceClean \/ CleanOutputs \/ OwnOld \/ ForgetMove \/ CancelMove
  \/ StopMove \/ LeaveJournal \/ RecoveryFails \/ RecoverStaging

Spec == Init /\ [][Next]_vars

-----------------------------------------------------------------------------
(* Properties.                                                             *)

\* Wherever a move fails, is cancelled or is cut short, and whatever a later start makes
\* of the journal, the folder of the row has all the data.
RowHasTheData == Files \subseteq at[dest]

\* Without a journal and without a command the ownership record names the folder of the
\* row, so that a removal deletes the torrent's files and no others.
OwnershipFollowsData ==
  mover = "idle" /\ move.phase = "none" /\ moveFaults = 0 => owned = dest

\* The comment after the commit: "let startup recovery finish old-source cleanup from the
\* committed destination", if nothing fails.
CommittedMoveIsFinished ==
  mover = "idle" /\ moveFaults = 0 /\ move.phase # "none" /\ dest = move.to => at[from] = {}
=============================================================================
