----------------------------- MODULE FileProofs -----------------------------
(***************************************************************************)
(* Proofs about the operations that write, move and remove the user's      *)
(* files: the move of a torrent's data (TorrentMove), the replacement of   *)
(* an existing file (DownloadReplacement), the durable removal of a        *)
(* download (RemovalJob) and the transfers that write them (Aria2Control), *)
(* for any set of files and of downloads, and any number of moves, stops,  *)
(* failing steps, adds and commands.  Each is a state machine of its own,  *)
(* with variables of its own.                                              *)
(*                                                                         *)
(* That a complete payload is not removed for good is no part of them: it  *)
(* holds for a single fault only.                                          *)
(***************************************************************************)
EXTENDS Naturals, TLAPS

CONSTANTS
  Files, Readers, MaxMoves, MaxFaults,       \* TorrentMove
  Ids, Nobody, Supersedes,                   \* DownloadReplacement
  MaxStops,                                  \* both
  LateEvents, RemovalStops, MaxJobFaults,    \* RemovalJob
  MaxAdds, MaxCommands, MaxReports           \* Aria2Control

VARIABLES
  at, staged, stagingRoot, dest, owned, move, moving, cancelMove, mover, reader, moves,
  moveStops, moveFaults,
  target, quarantine, journal, owner, cmd, registered, superseded, accepted, admitted,
  touched, stops,
  kind, claim, deleteAssets, row, job, manifest, asset, gone, transfer, complete, outcome,
  event, view, saving, request, remover, permanent, jobStops, jobFaults,
  magnet, gids, wire, bound, adopted, epoch, revision, ignored, buffered, carried, cancelled,
  retrying, inflight, backoffs, adding, stale, resumers, handlers, shows, adds, commands,
  reports

Move == INSTANCE TorrentMove
Replacement == INSTANCE DownloadReplacement
Removal == INSTANCE RemovalJob WITH MaxStops <- RemovalStops
Control == INSTANCE Aria2Control

-----------------------------------------------------------------------------
(* The move of a torrent.                                                  *)

MoveShapes ==
  /\ at \in [Move!Folders -> SUBSET Files]
  /\ staged \in [Files -> {"absent", "partial", "whole"}]
  /\ dest \in Move!Folders /\ owned \in Move!Folders
  /\ move \in [phase : {"none", "reserved", "copied", "databaseCommitted",
                        "sourceCleanupPending"}, to : Move!Folders]
  /\ mover \in Move!Steps
  /\ moveFaults \in Nat

\* Between the staging folder and the end of its clean-up a move has its journal, and the row
\* stays where the data comes from until the database is told.
JournalAccompanies ==
  /\ mover \in {"stage", "own", "copy", "publish", "unstage", "copied", "commit", "cleanup",
                "disown"} => dest # move.to
  /\ mover \in {"committed", "clean"} => dest = move.to
  /\ mover \in Move!Steps \ {"idle", "begin", "journal", "forget"} => move.phase # "none"
  /\ move.phase \in {"databaseCommitted", "sourceCleanupPending"} => dest = move.to

\* What has been published is in the new folder, and before the database is told that is
\* everything.
PublishedIsThere ==
  /\ mover = "publish" => \A f \in Files : staged[f] = "whole" \/ f \in at[move.to]
  /\ mover \in {"unstage", "copied", "commit"} => Files \subseteq at[move.to]

\* As long as nothing has failed, the record names the folder the move goes to from the time
\* the data is copied, and is put back with it.
RecordFollows ==
  /\ mover \in {"begin", "journal"} => owned = dest
  /\ moveFaults = 0 =>
       /\ mover = "idle" /\ move.phase = "none" => owned = dest
       /\ mover \in {"stage", "own", "forget"} => owned = dest
       /\ mover \in {"copy", "publish", "unstage", "copied", "commit"} => owned = move.to
       /\ move.phase # "none" /\ dest = move.to => owned = dest

MoveInvariant ==
  /\ MoveShapes /\ JournalAccompanies /\ PublishedIsThere /\ RecordFollows
  /\ Move!RowHasTheData

\* There are two folders.
LEMMA TwoFolders ==
  ASSUME NEW f \in Move!Folders
  PROVE  /\ Move!Other(f) \in Move!Folders /\ Move!Other(f) # f
         /\ \A g \in Move!Folders : g = f \/ g = Move!Other(f)
BY DEF Move!Other, Move!Folders

\* The command up to its commit, after it, and its way back.
Forth ==
  \/ Move!StartMove \/ Move!BeginMove \/ Move!WriteJournal \/ Move!MakeStaging \/ Move!OwnNew
Copies == \E f \in Files : Move!CopyFile(f) \/ Move!Publish(f)
CleansUp == \E f \in Files : Move!CleanSource(f) \/ Move!RecoverFile(f)
Commits ==
  \/ Move!MoveCancelled \/ Move!AllCopied \/ Move!Unstage \/ Move!NoteCopied
  \/ Move!CommitMove \/ Move!NoteCommitted
Ends ==
  \/ Move!SourceStays \/ Move!SourceClean \/ Move!CleanOutputs \/ Move!OwnOld \/ Move!ForgetMove
Around ==
  \/ Move!CancelMove \/ Move!StopMove \/ Move!LeaveJournal \/ Move!RecoveryFails
  \/ Move!RecoverStaging

\* Every step of the move is one of these.
LEMMA MoveSteps ==
  [Move!Next]_(Move!vars)
    => Forth \/ Copies \/ CleansUp \/ Commits \/ Ends \/ Around \/ UNCHANGED Move!vars
BY DEF Move!Next, Forth, Copies, CleansUp, Commits, Ends, Around

\* Each part of the invariant is kept by every step: the types.
LEMMA NextMoveShapes ==
  ASSUME MoveShapes, [Move!Next]_(Move!vars)
  PROVE  MoveShapes'
<1> USE DEF MoveShapes, Move!disk, Move!database, Move!bounds, Move!Fault, Move!Finish,
        Move!Write, Move!GiveUp, Move!NoJournal, Move!Steps
<1>a. Move!Other(move.to) \in Move!Folders /\ Move!Other(dest) \in Move!Folders
      /\ "a" \in Move!Folders
  BY TwoFolders DEF Move!Folders
<1>1. CASE Forth
  BY <1>a, <1>1 DEF Forth, Move!StartMove, Move!BeginMove, Move!WriteJournal,
     Move!MakeStaging, Move!OwnNew
<1>2. CASE Copies
  BY <1>2 DEF Copies, Move!CopyFile, Move!Publish
<1>3. CASE CleansUp
  BY <1>3, <1>a DEF CleansUp, Move!CleanSource, Move!RecoverFile, Move!from, Move!Leftovers
<1>4. CASE Commits
  BY <1>4 DEF Commits, Move!MoveCancelled, Move!AllCopied, Move!Unstage, Move!NoteCopied,
     Move!CommitMove, Move!NoteCommitted
<1>5. CASE Ends
  BY <1>5, <1>a DEF Ends, Move!SourceStays, Move!SourceClean, Move!CleanOutputs, Move!OwnOld,
     Move!RestoreOwnership, Move!ForgetMove, Move!from
<1>6. CASE Around
  BY <1>6, <1>a DEF Around, Move!CancelMove, Move!StopMove, Move!LeaveJournal,
     Move!RecoveryFails, Move!RecoverStaging, Move!from
<1>7. CASE UNCHANGED Move!vars
  BY <1>7 DEF Move!vars
<1> QED
  BY <1>1, <1>2, <1>3, <1>4, <1>5, <1>6, <1>7, MoveSteps

\* The phase of the command, the journal and the row go together.
LEMMA NextJournalAccompanies ==
  ASSUME MoveInvariant, [Move!Next]_(Move!vars)
  PROVE  JournalAccompanies'
<1> USE DEF MoveInvariant, JournalAccompanies, Move!disk, Move!database, Move!bounds,
        Move!Fault, Move!Finish, Move!Write, Move!GiveUp, Move!NoJournal, Move!Steps
<1>a. Move!Other(dest) # dest
  BY TwoFolders DEF MoveShapes
<1>1. CASE Forth
  BY <1>a, <1>1 DEF Forth, Move!StartMove, Move!BeginMove, Move!WriteJournal,
     Move!MakeStaging, Move!OwnNew
<1>2. CASE Copies
  BY <1>2 DEF Copies, Move!CopyFile, Move!Publish
<1>3. CASE CleansUp
  BY <1>3 DEF CleansUp, Move!CleanSource, Move!RecoverFile
<1>4. CASE Commits
  BY <1>4 DEF Commits, Move!MoveCancelled, Move!AllCopied, Move!Unstage, Move!NoteCopied,
     Move!CommitMove, Move!NoteCommitted, MoveShapes
<1>5. CASE Ends
  BY <1>5 DEF Ends, Move!SourceStays, Move!SourceClean, Move!CleanOutputs, Move!OwnOld,
     Move!ForgetMove, MoveShapes
<1>6. CASE Around
  BY <1>6 DEF Around, Move!CancelMove, Move!StopMove, Move!LeaveJournal,
     Move!RecoveryFails, Move!RecoverStaging
<1>7. CASE UNCHANGED Move!vars
  BY <1>7 DEF Move!vars
<1> QED
  BY <1>1, <1>2, <1>3, <1>4, <1>5, <1>6, <1>7, MoveSteps

\* What was published stays in the new folder until the database is told.
LEMMA NextPublishedIsThere ==
  ASSUME MoveInvariant, [Move!Next]_(Move!vars)
  PROVE  PublishedIsThere'
<1> USE DEF MoveInvariant, PublishedIsThere, Move!disk, Move!database, Move!bounds,
        Move!Fault, Move!Finish, Move!Write, Move!GiveUp, Move!NoJournal, Move!Steps
<1>1. CASE Forth
  BY <1>1 DEF Forth, Move!StartMove, Move!BeginMove, Move!WriteJournal,
     Move!MakeStaging, Move!OwnNew
<1>2. CASE Copies
  BY <1>2 DEF Copies, Move!CopyFile, Move!Publish, MoveShapes
<1>3. CASE CleansUp
  BY <1>3 DEF CleansUp, Move!CleanSource, Move!RecoverFile
<1>4. CASE Commits
  BY <1>4 DEF Commits, Move!MoveCancelled, Move!AllCopied, Move!Unstage, Move!NoteCopied,
     Move!CommitMove, Move!NoteCommitted, MoveShapes
<1>5. CASE Ends
  BY <1>5 DEF Ends, Move!SourceStays, Move!SourceClean, Move!CleanOutputs, Move!OwnOld,
     Move!ForgetMove
<1>6. CASE Around
  BY <1>6 DEF Around, Move!CancelMove, Move!StopMove, Move!LeaveJournal,
     Move!RecoveryFails, Move!RecoverStaging
<1>7. CASE UNCHANGED Move!vars
  BY <1>7 DEF Move!vars
<1> QED
  BY <1>1, <1>2, <1>3, <1>4, <1>5, <1>6, <1>7, MoveSteps

\* The record follows the data unless a step has failed.
LEMMA NextRecordFollows ==
  ASSUME MoveInvariant, [Move!Next]_(Move!vars)
  PROVE  RecordFollows'
<1> USE DEF MoveInvariant, RecordFollows, JournalAccompanies, Move!disk, Move!database,
        Move!bounds, Move!Fault, Move!Finish, Move!Write, Move!GiveUp, Move!NoJournal,
        Move!Steps
<1>a. Move!Other(dest) # dest /\ (dest # move.to => dest = Move!Other(move.to))
  BY TwoFolders DEF MoveShapes
<1>b. moveFaults \in Nat
  BY DEF MoveShapes
<1>1. CASE Forth
  BY <1>a, <1>b, <1>1 DEF Forth, Move!StartMove, Move!BeginMove, Move!WriteJournal,
     Move!MakeStaging, Move!OwnNew
<1>2. CASE Copies
  BY <1>b, <1>2 DEF Copies, Move!CopyFile, Move!Publish
<1>3. CASE CleansUp
  BY <1>3 DEF CleansUp, Move!CleanSource, Move!RecoverFile
<1>4. CASE Commits
  BY <1>b, <1>4 DEF Commits, Move!MoveCancelled, Move!AllCopied, Move!Unstage,
     Move!NoteCopied, Move!CommitMove, Move!NoteCommitted, MoveShapes
<1>5. CASE Ends
  BY <1>a, <1>b, <1>5 DEF Ends, Move!SourceStays, Move!SourceClean, Move!CleanOutputs,
     Move!OwnOld, Move!RestoreOwnership, Move!ForgetMove, Move!from, MoveShapes
<1>6. CASE Around
  <2>0. mover \in Move!Steps
    BY DEF MoveShapes
  <2>1. CASE Move!CancelMove \/ Move!LeaveJournal \/ Move!RecoveryFails
    BY <1>b, <2>1 DEF Move!CancelMove, Move!LeaveJournal, Move!RecoveryFails
  <2>2. CASE Move!StopMove
    BY <2>0, <2>2 DEF Move!StopMove
  <2>3. CASE Move!RecoverStaging
    BY <1>a, <2>3 DEF Move!RecoverStaging, Move!Committed, Move!from
  <2> QED
    BY <1>6, <2>1, <2>2, <2>3 DEF Around
<1>7. CASE UNCHANGED Move!vars
  BY <1>7 DEF Move!vars
<1> QED
  BY <1>1, <1>2, <1>3, <1>4, <1>5, <1>6, <1>7, MoveSteps

\* No step takes a file from the folder of the row, and the row goes where all of them are.
LEMMA NextRowHasTheData ==
  ASSUME MoveInvariant, [Move!Next]_(Move!vars)
  PROVE  Move!RowHasTheData'
<1> USE DEF MoveInvariant, Move!RowHasTheData, Move!disk, Move!database, Move!bounds
<1>a. (dest # move.to => dest = Move!Other(move.to)) /\ Move!Other(move.to) # move.to
  BY TwoFolders DEF MoveShapes
<1>1. CASE Forth
  BY <1>1 DEF Forth, Move!StartMove, Move!BeginMove, Move!WriteJournal,
     Move!MakeStaging, Move!OwnNew
<1>2. CASE Copies
  BY <1>2 DEF Copies, Move!CopyFile, Move!Publish, MoveShapes
<1>3. CASE CleansUp
  <2>1. PICK f \in Move!Folders :
          f # dest /\ \E g \in Files : at' \in {at, [at EXCEPT ![f] = @ \ {g}]}
    <3>1. CASE \E g \in Files : Move!CleanSource(g)
      <4>1. Move!from \in Move!Folders \ {dest}
        BY <3>1, <1>a, TwoFolders DEF Move!CleanSource, JournalAccompanies, Move!from, MoveShapes
      <4> QED
        BY <3>1, <4>1 DEF Move!CleanSource
    <3>2. CASE \E g \in Files : Move!RecoverFile(g)
      <4>1. Move!Leftovers \in Move!Folders \ {dest}
        BY <3>2, <1>a, TwoFolders DEF Move!RecoverFile, Move!Leftovers, Move!Committed,
           JournalAccompanies, Move!from, MoveShapes
      <4> QED
        BY <3>2, <4>1 DEF Move!RecoverFile
    <3> QED
      BY <1>3, <3>1, <3>2 DEF CleansUp
  <2>2. dest' = dest
    BY <1>3 DEF CleansUp, Move!CleanSource, Move!RecoverFile
  <2>3. at'[dest] = at[dest]
    BY <2>1 DEF MoveShapes
  <2> QED
    BY <2>2, <2>3
<1>4. CASE Commits
  BY <1>4 DEF Commits, Move!MoveCancelled, Move!AllCopied, Move!Unstage, Move!NoteCopied,
     Move!CommitMove, Move!NoteCommitted, PublishedIsThere
<1>5. CASE Ends
  BY <1>5 DEF Ends, Move!SourceStays, Move!SourceClean, Move!CleanOutputs, Move!OwnOld,
     Move!ForgetMove, JournalAccompanies, MoveShapes
<1>6. CASE Around
  BY <1>6 DEF Around, Move!CancelMove, Move!StopMove, Move!LeaveJournal,
     Move!RecoveryFails, Move!RecoverStaging
<1>7. CASE UNCHANGED Move!vars
  BY <1>7 DEF Move!vars
<1> QED
  BY <1>1, <1>2, <1>3, <1>4, <1>5, <1>6, <1>7, MoveSteps

\* The invariant of the move is inductive and implies what is promised of it.
LEMMA InitMove == Move!Init => MoveInvariant
<1> SUFFICES ASSUME Move!Init PROVE MoveInvariant
  OBVIOUS
<1>1. MoveShapes
  BY DEF Move!Init, MoveShapes, Move!Folders, Move!Steps, Move!NoJournal
<1>2. Move!RowHasTheData
  BY DEF Move!Init, Move!RowHasTheData, Move!Folders
<1> QED
  BY <1>1, <1>2 DEF Move!Init, MoveInvariant, JournalAccompanies, PublishedIsThere,
     RecordFollows, Move!NoJournal

LEMMA NextMove == MoveInvariant /\ [Move!Next]_(Move!vars) => MoveInvariant'
  BY NextMoveShapes, NextJournalAccompanies, NextPublishedIsThere, NextRecordFollows,
     NextRowHasTheData DEF MoveInvariant

LEMMA MoveSafety == MoveInvariant => Move!RowHasTheData /\ Move!OwnershipFollowsData
  BY DEF MoveInvariant, RecordFollows, Move!OwnershipFollowsData

-----------------------------------------------------------------------------
(* The replacement of a file.                                              *)

Commands == {"stage", "verify", "register", "commit", "decide", "finalize", "link", "unlink",
             "clear", "disown"}
Recoveries == {"recover", "relink", "reunlink", "redisown"}

\* The command of the id has the target path (a recovery forgets journals too).
Busy(id) == cmd[id] \in Commands \/ (cmd[id] = "forget" /\ stops = 0)

ReplacementShapes ==
  /\ target \in Replacement!Contents
  /\ quarantine \in [Ids -> Replacement!Contents]
  /\ journal \in [Ids -> Replacement!Phases]
  /\ cmd \in [Ids -> Replacement!Pcs]
  /\ registered \in [Ids -> BOOLEAN]
  /\ touched \in {"no", "written", "changed", "removed"}
  /\ stops \in Nat

\* One command at a time has the target path, and nobody owns the path but its download; a
\* recovery is of a later process.
OneCommand ==
  /\ \A i, j \in Ids : i # j /\ Busy(i) => cmd[j] \in {"idle", "done"}
  /\ \A i \in Ids : Busy(i) => owner \in {Nobody, i}
  /\ \A i \in Ids : cmd[i] \in Recoveries => stops # 0

\* What was put aside is in the journal until it is back, and is given up only for a
\* replacement whose journal has said that it was admitted.
JournalCovers ==
  \A i \in Ids :
    /\ cmd[i] \in {"idle", "stage"} => quarantine[i] = "absent"
    /\ cmd[i] \in {"stage", "verify"} => journal[i] # "none"
    /\ cmd[i] \in {"register", "commit"} /\ quarantine[i] # "absent" => journal[i] # "none"
    /\ cmd[i] \in {"decide", "finalize"} /\ quarantine[i] # "absent" => admitted # {}
    /\ journal[i] = "admitted" => admitted # {}

\* Before the quarantine goes, its file is at the target path again, unless somebody else has
\* changed or removed it there; only the user's original is put back by a recovery.
LinkedFirst ==
  \A i \in Ids :
    /\ cmd[i] = "unlink" =>
         /\ quarantine[i] # "absent"
         /\ \/ target = quarantine[i]
            \/ quarantine[i] = "original" /\ touched \in {"changed", "removed"}
    /\ cmd[i] = "relink" => quarantine[i] \in {"absent", "original"}
    /\ cmd[i] = "reunlink" =>
         /\ quarantine[i] = "original"
         /\ target = "original" \/ touched \in {"changed", "removed"}

\* Somebody else's file is there only if somebody else has touched the path.
ForeignIsTouched ==
  /\ target = "foreign" => touched # "no"
  /\ \A i \in Ids : quarantine[i] = "foreign" => touched # "no"

\* Until the process stops: while the original is put aside it is not at the path, and who
\* owns the path has registered for it and finds something else there in the end.
OwnersRegister ==
  stops = 0 =>
    \A i \in Ids :
      /\ cmd[i] \in {"verify", "register", "commit", "decide", "finalize", "forget"}
           => target # "original"
      /\ owner = i => registered[i] /\ cmd[i] \notin {"idle", "stage", "verify", "register"}
      /\ owner = i /\ cmd[i] = "done" => target # "original"

ReplacementInvariant ==
  /\ ReplacementShapes /\ OneCommand /\ JournalCovers /\ LinkedFirst /\ ForeignIsTouched
  /\ OwnersRegister
  /\ Replacement!OriginalSurvives /\ Replacement!ForeignFileSurvives
\* The steps of a download's command, of its undoing and of its recovery.
Replaces(id) ==
  \/ Replacement!Prepare(id) \/ Replacement!Stage(id) \/ Replacement!Verify(id)
  \/ Replacement!Register(id)
Admits(id) ==
  \/ Replacement!Commit(id) \/ Replacement!CommitRefused(id) \/ Replacement!Decide(id)
  \/ Replacement!Finalize(id) \/ Replacement!Forget(id)
Undoes(id) ==
  \/ Replacement!Link(id) \/ Replacement!Unlink(id) \/ Replacement!Clear(id)
  \/ Replacement!Disown(id)
Recovers(id) ==
  \/ Replacement!Recover(id) \/ Replacement!Relink(id) \/ Replacement!Reunlink(id)
  \/ Replacement!Redisown(id)
Outside(id) ==
  \/ Replacement!Supersede(id) \/ Replacement!Output(id)

\* Every step of the replacement is one of these, or somebody else's.
LEMMA ReplacementSteps ==
  [Replacement!Next]_(Replacement!vars)
    => \/ \E id \in Ids : Replaces(id) \/ Admits(id) \/ Undoes(id) \/ Recovers(id) \/ Outside(id)
       \/ Replacement!Touch \/ Replacement!Stop \/ UNCHANGED Replacement!vars
BY DEF Replacement!Next, Replacement!Step, Replaces, Admits, Undoes, Recovers, Outside

\* Each part of the invariant is kept by every step: the types.
LEMMA NextReplacementShapes ==
  ASSUME ReplacementShapes, [Replacement!Next]_(Replacement!vars)
  PROVE  ReplacementShapes'
<1> USE DEF ReplacementShapes, Replacement!Contents, Replacement!Phases, Replacement!Pcs,
        Replacement!GoTo, Replacement!SetJournal, Replacement!SetQuarantine, Replacement!files
<1>1. CASE \E id \in Ids : Replaces(id)
  BY ZenonT(60), <1>1 DEF Replaces, Replacement!Prepare, Replacement!Stage, Replacement!Verify,
     Replacement!Register, Replacement!TargetFree
<1>2. CASE \E id \in Ids : Admits(id)
  BY <1>2 DEF Admits, Replacement!Commit, Replacement!CommitRefused, Replacement!Decide,
     Replacement!Finalize, Replacement!Forget
<1>3. CASE \E id \in Ids : Undoes(id)
  BY <1>3 DEF Undoes, Replacement!Link, Replacement!Unlink, Replacement!Clear,
     Replacement!Disown, Replacement!CanLink, Replacement!AfterRestore,
     Replacement!DropOwnership
<1>4. CASE \E id \in Ids : Recovers(id)
  BY <1>4 DEF Recovers, Replacement!Recover, Replacement!Relink, Replacement!Reunlink,
     Replacement!Redisown, Replacement!Committed, Replacement!OwnedByIt, Replacement!Discards,
     Replacement!Restores, Replacement!Empty, Replacement!CanLink, Replacement!DropOwnership
<1>5. CASE \E id \in Ids : Outside(id)
  BY <1>5 DEF Outside, Replacement!Supersede, Replacement!Output
<1>6. CASE Replacement!Touch
  BY <1>6 DEF Replacement!Touch
<1>7. CASE Replacement!Stop
  BY <1>7 DEF Replacement!Stop
<1>8. CASE UNCHANGED Replacement!vars
  BY <1>8 DEF Replacement!vars
<1> QED
  BY <1>1, <1>2, <1>3, <1>4, <1>5, <1>6, <1>7, <1>8, ReplacementSteps

\* The lock of the target and the ownership of the path keep the commands apart.
LEMMA NextOneCommand ==
  ASSUME ReplacementInvariant, [Replacement!Next]_(Replacement!vars)
  PROVE  OneCommand'
<1> USE DEF ReplacementInvariant, ReplacementShapes, OneCommand, Busy, Commands, Recoveries,
        Replacement!GoTo, Replacement!SetJournal, Replacement!SetQuarantine, Replacement!files
<1>1. CASE \E id \in Ids : Replaces(id)
  BY <1>1 DEF Replaces, Replacement!Prepare, Replacement!Stage, Replacement!Verify,
     Replacement!Register, Replacement!TargetFree
<1>2. CASE \E id \in Ids : Admits(id)
  BY <1>2 DEF Admits, Replacement!Commit, Replacement!CommitRefused, Replacement!Decide,
     Replacement!Finalize, Replacement!Forget
<1>3. CASE \E id \in Ids : Undoes(id)
  BY <1>3 DEF Undoes, Replacement!Link, Replacement!Unlink, Replacement!Clear,
     Replacement!Disown, Replacement!CanLink, Replacement!AfterRestore,
     Replacement!DropOwnership
<1>4. CASE \E id \in Ids : Recovers(id)
  BY <1>4 DEF Recovers, Replacement!Recover, Replacement!Relink, Replacement!Reunlink,
     Replacement!Redisown, Replacement!Committed, Replacement!OwnedByIt, Replacement!Discards,
     Replacement!Restores, Replacement!Empty, Replacement!CanLink, Replacement!DropOwnership
<1>5. CASE \E id \in Ids : Outside(id)
  BY <1>5 DEF Outside, Replacement!Supersede, Replacement!Output
<1>6. CASE Replacement!Touch
  BY <1>6 DEF Replacement!Touch
<1>7. CASE Replacement!Stop
  BY <1>7 DEF Replacement!Stop
<1>8. CASE UNCHANGED Replacement!vars
  BY <1>8 DEF Replacement!vars
<1> QED
  BY <1>1, <1>2, <1>3, <1>4, <1>5, <1>6, <1>7, <1>8, ReplacementSteps

\* The journal goes only when the quarantine is empty or its replacement was admitted.
LEMMA NextJournalCovers ==
  ASSUME ReplacementInvariant, [Replacement!Next]_(Replacement!vars)
  PROVE  JournalCovers'
<1> USE DEF ReplacementInvariant, ReplacementShapes, JournalCovers, Replacement!GoTo,
        Replacement!SetJournal, Replacement!SetQuarantine, Replacement!files
<1>1. CASE \E id \in Ids : Replaces(id)
  BY <1>1 DEF Replaces, Replacement!Prepare, Replacement!Stage, Replacement!Verify,
     Replacement!Register, Replacement!TargetFree, OneCommand, Busy, Commands, Recoveries
<1>2. CASE \E id \in Ids : Admits(id)
  BY <1>2 DEF Admits, Replacement!Commit, Replacement!CommitRefused, Replacement!Decide,
     Replacement!Finalize, Replacement!Forget, OneCommand, Busy, Commands, Recoveries
<1>3. CASE \E id \in Ids : Undoes(id)
  BY <1>3 DEF Undoes, Replacement!Link, Replacement!Unlink, Replacement!Clear,
     Replacement!Disown, Replacement!CanLink, Replacement!AfterRestore,
     Replacement!DropOwnership, OneCommand, Busy, Commands, Recoveries
<1>4. CASE \E id \in Ids : Recovers(id)
  BY <1>4 DEF Recovers, Replacement!Recover, Replacement!Relink, Replacement!Reunlink,
     Replacement!Redisown, Replacement!Committed, Replacement!OwnedByIt, Replacement!Discards,
     Replacement!Restores, Replacement!Empty, Replacement!CanLink, Replacement!DropOwnership,
     OneCommand, Busy, Commands, Recoveries
<1>5. CASE \E id \in Ids : Outside(id)
  BY <1>5 DEF Outside, Replacement!Supersede, Replacement!Output, OneCommand, Busy, Commands,
     Recoveries
<1>6. CASE Replacement!Touch
  BY <1>6 DEF Replacement!Touch, OneCommand, Busy, Commands, Recoveries
<1>7. CASE Replacement!Stop
  BY <1>7 DEF Replacement!Stop, OneCommand, Busy, Commands, Recoveries
<1>8. CASE UNCHANGED Replacement!vars
  BY <1>8 DEF Replacement!vars, OneCommand, Busy, Commands, Recoveries
<1> QED
  BY <1>1, <1>2, <1>3, <1>4, <1>5, <1>6, <1>7, <1>8, ReplacementSteps

\* A quarantine is removed only after its file is back at the path.
LEMMA NextLinkedFirst ==
  ASSUME ReplacementInvariant, [Replacement!Next]_(Replacement!vars)
  PROVE  LinkedFirst'
<1> USE DEF ReplacementInvariant, ReplacementShapes, LinkedFirst, Replacement!GoTo,
        Replacement!SetJournal, Replacement!SetQuarantine, Replacement!files
<1>1. CASE \E id \in Ids : Replaces(id)
  BY <1>1 DEF Replaces, Replacement!Prepare, Replacement!Stage, Replacement!Verify,
     Replacement!Register, Replacement!TargetFree, OneCommand, Busy, Commands, Recoveries,
     JournalCovers, ForeignIsTouched
<1>2. CASE \E id \in Ids : Admits(id)
  BY <1>2 DEF Admits, Replacement!Commit, Replacement!CommitRefused, Replacement!Decide,
     Replacement!Finalize, Replacement!Forget, OneCommand, Busy, Commands, Recoveries,
     JournalCovers, ForeignIsTouched
<1>3. CASE \E id \in Ids : Undoes(id)
  BY <1>3 DEF Undoes, Replacement!Link, Replacement!Unlink, Replacement!Clear,
     Replacement!Disown, Replacement!CanLink, Replacement!AfterRestore,
     Replacement!DropOwnership, OneCommand, Busy, Commands, Recoveries, JournalCovers,
     ForeignIsTouched
<1>4. CASE \E id \in Ids : Recovers(id)
  BY <1>4 DEF Recovers, Replacement!Recover, Replacement!Relink, Replacement!Reunlink,
     Replacement!Redisown, Replacement!Committed, Replacement!OwnedByIt, Replacement!Discards,
     Replacement!Restores, Replacement!Empty, Replacement!CanLink, Replacement!DropOwnership,
     OneCommand, Busy, Commands, Recoveries, JournalCovers,
     ForeignIsTouched
<1>5. CASE \E id \in Ids : Outside(id)
  BY <1>5 DEF Outside, Replacement!Supersede, Replacement!Output, OneCommand, Busy, Commands,
     Recoveries, JournalCovers,
     ForeignIsTouched
<1>6. CASE Replacement!Touch
  BY <1>6 DEF Replacement!Touch, OneCommand, Busy, Commands, Recoveries, JournalCovers,
     ForeignIsTouched
<1>7. CASE Replacement!Stop
  BY <1>7 DEF Replacement!Stop, OneCommand, Busy, Commands, Recoveries, JournalCovers,
     ForeignIsTouched
<1>8. CASE UNCHANGED Replacement!vars
  BY <1>8 DEF Replacement!vars, OneCommand, Busy, Commands, Recoveries, JournalCovers,
     ForeignIsTouched
<1> QED
  BY <1>1, <1>2, <1>3, <1>4, <1>5, <1>6, <1>7, <1>8, ReplacementSteps

\* Nothing else writes somebody else's file.
LEMMA NextForeignIsTouched ==
  ASSUME ReplacementInvariant, [Replacement!Next]_(Replacement!vars)
  PROVE  ForeignIsTouched'
<1> USE DEF ReplacementInvariant, ReplacementShapes, ForeignIsTouched, Replacement!GoTo,
        Replacement!SetJournal, Replacement!SetQuarantine, Replacement!files
<1>1. CASE \E id \in Ids : Replaces(id)
  BY <1>1 DEF Replaces, Replacement!Prepare, Replacement!Stage, Replacement!Verify,
     Replacement!Register, Replacement!TargetFree
<1>2. CASE \E id \in Ids : Admits(id)
  BY <1>2 DEF Admits, Replacement!Commit, Replacement!CommitRefused, Replacement!Decide,
     Replacement!Finalize, Replacement!Forget
<1>3. CASE \E id \in Ids : Undoes(id)
  BY <1>3 DEF Undoes, Replacement!Link, Replacement!Unlink, Replacement!Clear,
     Replacement!Disown, Replacement!CanLink, Replacement!AfterRestore,
     Replacement!DropOwnership
<1>4. CASE \E id \in Ids : Recovers(id)
  BY <1>4 DEF Recovers, Replacement!Recover, Replacement!Relink, Replacement!Reunlink,
     Replacement!Redisown, Replacement!Committed, Replacement!OwnedByIt, Replacement!Discards,
     Replacement!Restores, Replacement!Empty, Replacement!CanLink, Replacement!DropOwnership
<1>5. CASE \E id \in Ids : Outside(id)
  BY <1>5 DEF Outside, Replacement!Supersede, Replacement!Output
<1>6. CASE Replacement!Touch
  BY <1>6 DEF Replacement!Touch
<1>7. CASE Replacement!Stop
  BY <1>7 DEF Replacement!Stop
<1>8. CASE UNCHANGED Replacement!vars
  BY <1>8 DEF Replacement!vars
<1> QED
  BY <1>1, <1>2, <1>3, <1>4, <1>5, <1>6, <1>7, <1>8, ReplacementSteps

\* Here a path that nobody owns must not look like one that a download owns.
LEMMA NextOwnersRegister ==
  ASSUME Nobody \notin Ids, ReplacementInvariant, [Replacement!Next]_(Replacement!vars)
  PROVE  OwnersRegister'
<1> USE DEF ReplacementInvariant, ReplacementShapes, OwnersRegister, OneCommand, Busy,
        Commands, Recoveries, Replacement!GoTo, Replacement!SetJournal, Replacement!SetQuarantine,
        Replacement!files
<1>1. CASE \E id \in Ids : Replaces(id)
  BY <1>1 DEF Replaces, Replacement!Prepare, Replacement!Stage, Replacement!Verify,
     Replacement!Register, Replacement!TargetFree, LinkedFirst, JournalCovers
<1>2. CASE \E id \in Ids : Admits(id)
  BY <1>2 DEF Admits, Replacement!Commit, Replacement!CommitRefused, Replacement!Decide,
     Replacement!Finalize, Replacement!Forget, LinkedFirst, JournalCovers
<1>3. CASE \E id \in Ids : Undoes(id)
  BY <1>3 DEF Undoes, Replacement!Link, Replacement!Unlink, Replacement!Clear,
     Replacement!Disown, Replacement!CanLink, Replacement!AfterRestore,
     Replacement!DropOwnership, LinkedFirst, JournalCovers
<1>4. CASE \E id \in Ids : Recovers(id)
  BY <1>4 DEF Recovers, Replacement!Recover, Replacement!Relink, Replacement!Reunlink,
     Replacement!Redisown, Replacement!Committed, Replacement!OwnedByIt, Replacement!Discards,
     Replacement!Restores, Replacement!Empty, Replacement!CanLink, Replacement!DropOwnership,
     LinkedFirst, JournalCovers
<1>5. CASE \E id \in Ids : Outside(id)
  BY <1>5 DEF Outside, Replacement!Supersede, Replacement!Output, LinkedFirst, JournalCovers
<1>6. CASE Replacement!Touch
  BY <1>6 DEF Replacement!Touch, LinkedFirst, JournalCovers
<1>7. CASE Replacement!Stop
  BY <1>7 DEF Replacement!Stop, LinkedFirst, JournalCovers
<1>8. CASE UNCHANGED Replacement!vars
  BY <1>8 DEF Replacement!vars, LinkedFirst, JournalCovers
<1> QED
  BY <1>1, <1>2, <1>3, <1>4, <1>5, <1>6, <1>7, <1>8, ReplacementSteps

\* No step loses the original or somebody else's file.
LEMMA NextFilesSurvive ==
  ASSUME ReplacementInvariant, [Replacement!Next]_(Replacement!vars)
  PROVE  Replacement!OriginalSurvives' /\ Replacement!ForeignFileSurvives'
<1> USE DEF ReplacementInvariant, ReplacementShapes, Replacement!OriginalSurvives,
        Replacement!ForeignFileSurvives, Replacement!Somewhere, Replacement!GoTo,
        Replacement!SetJournal, Replacement!SetQuarantine, Replacement!files
<1>1. CASE \E id \in Ids : Replaces(id)
  BY <1>1 DEF Replaces, Replacement!Prepare, Replacement!Stage, Replacement!Verify,
     Replacement!Register, Replacement!TargetFree, LinkedFirst, JournalCovers
<1>2. CASE \E id \in Ids : Admits(id)
  BY <1>2 DEF Admits, Replacement!Commit, Replacement!CommitRefused, Replacement!Decide,
     Replacement!Finalize, Replacement!Forget, LinkedFirst, JournalCovers
<1>3. CASE \E id \in Ids : Undoes(id)
  BY <1>3 DEF Undoes, Replacement!Link, Replacement!Unlink, Replacement!Clear,
     Replacement!Disown, Replacement!CanLink, Replacement!AfterRestore,
     Replacement!DropOwnership, LinkedFirst, JournalCovers
<1>4. CASE \E id \in Ids : Recovers(id)
  BY <1>4 DEF Recovers, Replacement!Recover, Replacement!Relink, Replacement!Reunlink,
     Replacement!Redisown, Replacement!Committed, Replacement!OwnedByIt, Replacement!Discards,
     Replacement!Restores, Replacement!Empty, Replacement!CanLink, Replacement!DropOwnership,
     LinkedFirst, JournalCovers
<1>5. CASE \E id \in Ids : Outside(id)
  BY <1>5 DEF Outside, Replacement!Supersede, Replacement!Output, LinkedFirst, JournalCovers
<1>6. CASE Replacement!Touch
  BY <1>6 DEF Replacement!Touch, LinkedFirst, JournalCovers
<1>7. CASE Replacement!Stop
  BY <1>7 DEF Replacement!Stop, LinkedFirst, JournalCovers
<1>8. CASE UNCHANGED Replacement!vars
  BY <1>8 DEF Replacement!vars, LinkedFirst, JournalCovers
<1> QED
  BY <1>1, <1>2, <1>3, <1>4, <1>5, <1>6, <1>7, <1>8, ReplacementSteps

\* The invariant of the replacement is inductive and implies what is promised of it.
LEMMA InitReplacement ==
  ASSUME Nobody \notin Ids
  PROVE  Replacement!Init => ReplacementInvariant
BY DEF Replacement!Init, ReplacementInvariant, ReplacementShapes, OneCommand, Busy, Commands,
   Recoveries, JournalCovers, LinkedFirst, ForeignIsTouched, OwnersRegister,
   Replacement!Contents, Replacement!Phases, Replacement!Pcs, Replacement!OriginalSurvives,
   Replacement!ForeignFileSurvives, Replacement!Somewhere

LEMMA NextReplacement ==
  ASSUME Nobody \notin Ids
  PROVE  ReplacementInvariant /\ [Replacement!Next]_(Replacement!vars) => ReplacementInvariant'
<1> SUFFICES ASSUME ReplacementInvariant, [Replacement!Next]_(Replacement!vars)
             PROVE  ReplacementInvariant'
  OBVIOUS
<1>1. ReplacementShapes'
  BY NextReplacementShapes DEF ReplacementInvariant
<1> QED
  BY <1>1, NextOneCommand, NextJournalCovers, NextLinkedFirst, NextForeignIsTouched,
     NextOwnersRegister, NextFilesSurvive DEF ReplacementInvariant

LEMMA ReplacementSafety ==
  ReplacementInvariant =>
    /\ Replacement!OriginalSurvives /\ Replacement!ForeignFileSurvives
    /\ Replacement!OwnsOnlyItsOutput
BY DEF ReplacementInvariant, OwnersRegister, Replacement!OwnsOnlyItsOutput

-----------------------------------------------------------------------------
(* The theorems.                                                           *)

\* The folder of a torrent's row has all of its data, wherever a move fails, is cancelled or is cut
\* short and whatever the recovery makes of its journal (RowHasTheData).
THEOREM RowsHaveTheirData == Move!Spec => []Move!RowHasTheData
<1>1. MoveInvariant => Move!RowHasTheData
  BY MoveSafety
<1> QED
  BY InitMove, NextMove, <1>1, PTL DEF Move!Spec

\* Once a move is over and nothing has failed, the ownership record, by which a removal deletes
\* files, names the folder of the row (OwnershipFollowsData).
THEOREM RecordsFollowTheData == Move!Spec => []Move!OwnershipFollowsData
<1>1. MoveInvariant => Move!OwnershipFollowsData
  BY MoveSafety
<1> QED
  BY InitMove, NextMove, <1>1, PTL DEF Move!Spec

\* The user's file survives until a replacement of it is durably admitted, a file that somebody else
\* has written is neither overwritten nor deleted, and no download that was refused is left as the
\* owner of the user's file.
THEOREM ReplacedFilesSurvive ==
  ASSUME Nobody \notin Ids
  PROVE  Replacement!Spec =>
           [](/\ Replacement!OriginalSurvives /\ Replacement!ForeignFileSurvives
              /\ Replacement!OwnsOnlyItsOutput)
<1>1. Replacement!Init => ReplacementInvariant
  BY InitReplacement
<1>2. ReplacementInvariant /\ [Replacement!Next]_(Replacement!vars) => ReplacementInvariant'
  BY NextReplacement
<1> QED
  BY <1>1, <1>2, ReplacementSafety, PTL DEF Replacement!Spec

-----------------------------------------------------------------------------
(* The removal of a download.                                               *)

Written == manifest.written

\* Nobody else's file is at an owned path before the first cleanup has taken its manifest, so
\* that no manifest names one.
PathsAreOurs ==
  /\ asset["folder"] # "foreign"
  /\ asset["sidecar"] = "foreign" => Written
  /\ claim = "own" /\ asset["payload"] = "foreign" => Written
  /\ manifest.was["sidecar"] # "foreign"
  /\ claim = "own" => manifest.was["payload"] # "foreign"

\* A download without a claim has nothing on the disk, and a removal that takes files gets
\* past the question of who owns them only with a claim or where there is nothing to take.
ClaimIsAsked ==
  /\ claim = "none" => asset["payload"] # "own" /\ asset["sidecar"] # "own"
  /\ deleteAssets /\ remover = "fence" => claim # "other"

\* What a cleanup is about to remove is what its manifest found.
CleanupIsFenced ==
  /\ remover = "payload" => asset["payload"] # "foreign"
  /\ remover \in {"payload", "sidecar"} => asset["sidecar"] # "foreign"

\* What it has removed stays removed, from one step to the next and after the last.
PayloadIsGone == remover = "sidecar" => asset["payload"] # "own"
FilesAreGone ==
  remover = "folder" \/ (deleteAssets /\ (remover = "commit" \/ row = "none"))
    => asset["payload"] # "own" /\ asset["sidecar"] # "own"

\* The worker has ended the transfer before it asks for the owner, and no transfer outlives a
\* completed job: what it would report could bring the row back.
TransferIsOver ==
  remover \in {"own", "fence", "payload", "sidecar", "folder", "commit"} \/ job = "completed"
    => transfer \notin {"running", "finished"}

Tombstone == job = "completed" => row = "none"

RemovalInvariant ==
  /\ Removal!Shapes /\ PathsAreOurs /\ ClaimIsAsked /\ CleanupIsFenced /\ PayloadIsGone
  /\ FilesAreGone /\ TransferIsOver /\ Tombstone /\ Removal!ForeignFilesSurvive

-----------------------------------------------------------------------------
(* The steps, by what they leave alone                                      *)

\* These leave the files and the manifest alone.
Quiet ==
  \/ Removal!Transfer \/ Removal!Renderer
  \/ Removal!Pick \/ Removal!Classify \/ Removal!StopAria2 \/ Removal!CancelMedia
  \/ Removal!MediaDrained \/ Removal!NothingToStop
  \/ Removal!CheckOwner \/ Removal!NotOwner \/ Removal!NotAuthorised \/ Removal!Broken
  \/ Removal!KeepFolder \/ Removal!Commit \/ Removal!CommitFails
  \/ Removal!StopProcess
Removes == Removal!RemovePayload \/ Removal!RemoveSidecars \/ Removal!RemoveFolder
Writes == \E a \in Removal!Assets : Removal!Write(a)

\* The steps that leave the files alone do so.
LEMMA QuietFiles ==
  ASSUME Quiet
  PROVE  UNCHANGED <<Removal!files, Removal!chosen>>
BY DEF Quiet, Removal!Transfer, Removal!Renderer, Removal!Finish, Removal!RecordOutcome,
     Removal!Settle, Removal!MediaCancelled, Removal!Deliver, Removal!Save,
   Removal!Land, Removal!Ask, Removal!Flushed, Removal!Submit, Removal!Retry, Removal!Pick,
   Removal!Classify, Removal!StopAria2, Removal!CancelMedia, Removal!MediaDrained,
   Removal!NothingToStop, Removal!CheckOwner, Removal!NotOwner, Removal!NotAuthorised,
   Removal!Broken, Removal!FailAt, Removal!KeepFolder, Removal!Commit,
   Removal!CommitFails, Removal!StopProcess, Removal!chosen, Removal!files

\* A quiet step brings the worker to no removal, and to the commit only from the kept folder.
LEMMA QuietWorker ==
  ASSUME Quiet
  PROVE  /\ remover' \in {"payload", "sidecar", "folder"} => remover' = remover
         /\ remover' = "commit" => remover \in {"folder", "commit"}
BY DEF Quiet, Removal!Transfer, Removal!Renderer, Removal!Finish, Removal!RecordOutcome,
     Removal!Settle, Removal!MediaCancelled, Removal!Deliver, Removal!Save,
   Removal!Land, Removal!Ask, Removal!Flushed, Removal!Submit, Removal!Retry, Removal!Pick,
   Removal!Classify, Removal!StopAria2, Removal!CancelMedia, Removal!MediaDrained,
   Removal!NothingToStop, Removal!CheckOwner, Removal!NotOwner, Removal!NotAuthorised,
   Removal!Broken, Removal!FailAt, Removal!KeepFolder, Removal!Commit,
   Removal!CommitFails, Removal!StopProcess, Removal!chosen, Removal!files

\* Every step is quiet about the files, the fence, a removal of one or a write of one.
LEMMA StepKinds ==
  ASSUME [Removal!Next]_(Removal!rvars)
  PROVE  Quiet \/ Removal!Fence \/ Removes \/ Writes \/ UNCHANGED Removal!rvars
BY DEF Removal!Next, Removal!Worker, Quiet, Removes, Writes

\* The types of the files, and of the rest.
FileShapes ==
  /\ manifest \in [written : BOOLEAN, was : [Removal!Assets -> Removal!Contents]]
  /\ asset \in [Removal!Assets -> Removal!Contents]
  /\ gone \subseteq {"trashed", "deleted", "foreign"}
PhaseShapes ==
  /\ kind \in {"aria2", "media"} /\ claim \in {"own", "none", "other"}
  /\ deleteAssets \in BOOLEAN
  /\ row \in Removal!Statuses \cup {"none"}
  /\ job \in {"none", "pending", "running", "failed", "completed"}
  /\ transfer \in {"running", "finished", "recorded", "settled", "stopped"}
  /\ complete \in BOOLEAN /\ outcome \in BOOLEAN
  /\ event \in BOOLEAN
  /\ view \in Removal!Statuses /\ saving \in Removal!Statuses \cup {"none"}
  /\ request \in {"none", "flushing", "flushed", "submitted"}
  /\ remover \in Removal!WorkerSteps /\ permanent \in BOOLEAN

\* The types in two parts, which the steps keep for different reasons.
LEMMA ShapesSplit == Removal!Shapes <=> FileShapes /\ PhaseShapes
BY DEF Removal!Shapes, FileShapes, PhaseShapes

LEMMA NextFileShapes ==
  ASSUME FileShapes, [Removal!Next]_(Removal!rvars)
  PROVE  FileShapes'
<1> USE DEF FileShapes
<1>1. CASE Quiet
  BY <1>1, QuietFiles DEF Removal!files
<1>2. CASE Removal!Fence
  BY <1>2 DEF Removal!Fence
<1>3. CASE Removes
  BY <1>3 DEF Removes, Removal!RemovePayload, Removal!RemoveSidecars, Removal!RemoveFolder,
       Removal!Remove, Removal!How, Removal!Contents
<1>4. CASE Writes
  BY <1>4 DEF Writes, Removal!Write, Removal!Contents
<1>5. CASE UNCHANGED Removal!rvars
  BY <1>5 DEF Removal!rvars
<1> QED
  BY <1>1, <1>2, <1>3, <1>4, <1>5, StepKinds

LEMMA NextPhaseShapes ==
  ASSUME PhaseShapes, [Removal!Next]_(Removal!rvars)
  PROVE  PhaseShapes'
<1> USE DEF PhaseShapes, Removal!chosen, Removal!native, Removal!renderer, Removal!Statuses,
     Removal!WorkerSteps
<1>1. CASE Removal!Transfer
  BY <1>1 DEF Removal!Transfer, Removal!Finish, Removal!RecordOutcome, Removal!Settle,
       Removal!MediaCancelled
<1>2. CASE Removal!Renderer
  BY <1>2 DEF Removal!Renderer, Removal!Deliver, Removal!Save, Removal!Land, Removal!Ask,
       Removal!Flushed, Removal!Submit, Removal!Retry
<1>3. CASE Removal!Pick \/ Removal!Classify \/ Removal!StopAria2 \/ Removal!CancelMedia
           \/ Removal!MediaDrained \/ Removal!NothingToStop
  BY <1>3 DEF Removal!Pick, Removal!Classify, Removal!StopAria2, Removal!CancelMedia,
       Removal!MediaDrained, Removal!NothingToStop
<1>4. CASE Removal!CheckOwner \/ Removal!NotOwner \/ Removal!NotAuthorised \/ Removal!Broken
           \/ Removal!KeepFolder \/ Removal!Commit
           \/ Removal!CommitFails
  BY <1>4 DEF Removal!CheckOwner, Removal!NotOwner, Removal!NotAuthorised, Removal!Broken,
       Removal!FailAt, Removal!KeepFolder, Removal!Commit,
     Removal!CommitFails
<1>5. CASE Removal!Fence
  BY <1>5 DEF Removal!Fence
<1>6. CASE Removes
  BY <1>6 DEF Removes, Removal!RemovePayload, Removal!RemoveSidecars, Removal!RemoveFolder,
       Removal!Remove
<1>7. CASE Writes
  BY <1>7 DEF Writes, Removal!Write
<1>8. CASE Removal!StopProcess
  BY <1>8 DEF Removal!StopProcess
<1>9. CASE UNCHANGED Removal!rvars
  BY <1>9 DEF Removal!rvars
<1> QED
  BY <1>1, <1>2, <1>3, <1>4, <1>5, <1>6, <1>7, <1>8, <1>9 DEF Removal!Next, Removal!Worker,
       Removes, Writes

-----------------------------------------------------------------------------
(* The parts of the invariant                                               *)

\* Each part of the invariant is kept by every step; here it is the manifest that fences
\* the paths.
LEMMA NextPathsAreOurs ==
  ASSUME RemovalInvariant, [Removal!Next]_(Removal!rvars)
  PROVE  PathsAreOurs'
<1> USE DEF RemovalInvariant, PathsAreOurs, Written
<1>a. FileShapes
  BY ShapesSplit
<1>1. CASE Quiet
  BY <1>1, QuietFiles DEF Removal!files, Removal!chosen
<1>2. CASE Removal!Fence
  BY <1>2, <1>a DEF Removal!Fence, FileShapes, Removal!chosen, Removal!Cleans
<1>3. CASE Removes
  BY <1>3, <1>a DEF Removes, Removal!RemovePayload, Removal!RemoveSidecars,
       Removal!RemoveFolder, Removal!Remove, FileShapes,
     Removal!Assets, Removal!chosen
<1>4. CASE Writes
  BY <1>4, <1>a DEF Writes, Removal!Write, FileShapes, Removal!Assets, Removal!chosen
<1>5. CASE UNCHANGED Removal!rvars
  BY <1>5 DEF Removal!rvars
<1> QED
  BY <1>1, <1>2, <1>3, <1>4, <1>5, StepKinds

LEMMA NextClaimIsAsked ==
  ASSUME RemovalInvariant, [Removal!Next]_(Removal!rvars)
  PROVE  ClaimIsAsked'
<1> USE DEF RemovalInvariant, ClaimIsAsked
<1>a. FileShapes
  BY ShapesSplit
<1>b. \/ UNCHANGED Removal!chosen /\ remover' # "fence"
      \/ UNCHANGED <<Removal!chosen, remover>>
      \/ Removal!CheckOwner
  BY DEF Removal!Next, Removal!Transfer, Removal!Renderer, Removal!Worker, Removal!Finish,
       Removal!RecordOutcome, Removal!Settle, Removal!MediaCancelled,
     Removal!Deliver, Removal!Save, Removal!Land, Removal!Ask, Removal!Flushed, Removal!Submit,
     Removal!Retry, Removal!Pick, Removal!Classify, Removal!StopAria2, Removal!CancelMedia,
     Removal!MediaDrained, Removal!NothingToStop, Removal!NotOwner, Removal!Fence,
     Removal!NotAuthorised, Removal!Broken, Removal!FailAt,
     Removal!RemovePayload, Removal!RemoveSidecars, Removal!RemoveFolder, Removal!Remove,
     Removal!KeepFolder, Removal!Commit, Removal!CommitFails,
     Removal!Write, Removal!StopProcess, Removal!chosen, Removal!rvars
<1>c. claim' = claim
  BY <1>b DEF Removal!chosen, Removal!CheckOwner
<1>1. claim = "none" => asset'["payload"] # "own" /\ asset'["sidecar"] # "own"
  <2>1. CASE Quiet
    BY <2>1, QuietFiles DEF Removal!files
  <2>2. CASE Removal!Fence \/ UNCHANGED Removal!rvars
    BY <2>2 DEF Removal!Fence, Removal!rvars
  <2>3. CASE Removes
    BY <2>3, <1>a DEF Removes, Removal!RemovePayload, Removal!RemoveSidecars,
         Removal!RemoveFolder, Removal!Remove, FileShapes,
       Removal!Assets
  <2>4. CASE Writes
    BY <2>4, <1>a DEF Writes, Removal!Write, FileShapes, Removal!Assets
  <2> QED
    BY <2>1, <2>2, <2>3, <2>4, StepKinds
<1>2. deleteAssets' /\ remover' = "fence" => claim' # "other"
  BY <1>b DEF Removal!CheckOwner, Removal!chosen
<1> QED
  BY <1>1, <1>2, <1>c

LEMMA NextCleanupIsFenced ==
  ASSUME RemovalInvariant, [Removal!Next]_(Removal!rvars)
  PROVE  CleanupIsFenced'
<1> USE DEF RemovalInvariant, CleanupIsFenced
<1>a. FileShapes
  BY ShapesSplit
<1>1. CASE Quiet
  BY <1>1, QuietFiles, QuietWorker DEF Removal!files
<1>2. CASE Removal!Fence
  <2>1. CASE Removal!Cleans
    <3>1. asset["payload"] # "foreign" /\ asset["sidecar"] # "foreign"
      BY <1>2, <2>1 DEF Removal!Fence, Removal!Cleans, Removal!Authorised, PathsAreOurs,
           Written, Removal!Assets
    <3> QED
      BY <1>2, <3>1 DEF Removal!Fence
  <2>2. CASE ~Removal!Cleans
    BY <1>2, <2>2 DEF Removal!Fence
  <2> QED
    BY <2>1, <2>2
<1>3. CASE Removes
  BY <1>3, <1>a DEF Removes, Removal!RemovePayload, Removal!RemoveSidecars,
       Removal!RemoveFolder, Removal!Remove, FileShapes,
     Removal!Assets
<1>4. CASE Writes
  BY <1>4, <1>a DEF Writes, Removal!Write, FileShapes, Removal!Assets
<1>5. CASE UNCHANGED Removal!rvars
  BY <1>5 DEF Removal!rvars
<1> QED
  BY <1>1, <1>2, <1>3, <1>4, <1>5, StepKinds

LEMMA NextPayloadIsGone ==
  ASSUME RemovalInvariant, [Removal!Next]_(Removal!rvars)
  PROVE  PayloadIsGone'
<1> USE DEF RemovalInvariant, PayloadIsGone
<1>a. FileShapes
  BY ShapesSplit
<1>1. CASE Quiet
  BY <1>1, QuietFiles, QuietWorker DEF Removal!files
<1>2. CASE Removal!Fence \/ UNCHANGED Removal!rvars
  BY <1>2 DEF Removal!Fence, Removal!rvars
<1>3. CASE Removes
  BY <1>3, <1>a DEF Removes, Removal!RemovePayload, Removal!RemoveSidecars,
       Removal!RemoveFolder, Removal!Remove, FileShapes,
     Removal!Assets
<1>4. CASE Writes
  BY <1>4, <1>a DEF Writes, Removal!Write, FileShapes, Removal!Assets
<1> QED
  BY <1>1, <1>2, <1>3, <1>4, StepKinds

\* Only the commit drops the row.
LEMMA RowIsDropped ==
  ASSUME PhaseShapes, [Removal!Next]_(Removal!rvars), row' = "none"
  PROVE  row = "none" \/ Removal!Commit
BY DEF Removal!Next, Removal!Transfer, Removal!Renderer, Removal!Worker, Removal!Finish,
     Removal!RecordOutcome, Removal!Settle, Removal!MediaCancelled,
   Removal!Deliver, Removal!Save, Removal!Land, Removal!Ask, Removal!Flushed, Removal!Submit,
   Removal!Retry, Removal!Pick, Removal!Classify, Removal!StopAria2, Removal!CancelMedia,
   Removal!MediaDrained, Removal!NothingToStop, Removal!CheckOwner, Removal!NotOwner,
   Removal!Fence, Removal!NotAuthorised, Removal!Broken, Removal!FailAt,
   Removal!RemovePayload, Removal!RemoveSidecars, Removal!RemoveFolder, Removal!Remove,
   Removal!KeepFolder, Removal!Commit, Removal!CommitFails,
   Removal!Write, Removal!StopProcess, Removal!rvars, PhaseShapes, Removal!Statuses

LEMMA NextFilesAreGone ==
  ASSUME RemovalInvariant, [Removal!Next]_(Removal!rvars)
  PROVE  FilesAreGone'
<1> USE DEF RemovalInvariant, FilesAreGone
<1>a. FileShapes /\ PhaseShapes
  BY ShapesSplit
<1>0. row' = "none" => row = "none" \/ Removal!Commit
  BY <1>a, RowIsDropped
<1>1. CASE Quiet
  <2>1. UNCHANGED <<asset, deleteAssets>>
    BY <1>1, QuietFiles DEF Removal!files, Removal!chosen
  <2>2. Removal!Commit => remover = "commit" /\ remover' = "idle"
    BY DEF Removal!Commit
  <2> QED
    BY <1>0, <1>1, <2>1, <2>2, QuietWorker
<1>2. CASE Removal!Fence
  <2>1. CASE Removal!Cleans
    BY <1>2, <2>1, <1>0 DEF Removal!Fence, Removal!Cleans, Removal!chosen
  <2>2. CASE ~Removal!Cleans
    <3>1. deleteAssets => asset["payload"] # "own" /\ asset["sidecar"] # "own"
      BY <1>2, <2>2, <1>a DEF Removal!Fence, Removal!Cleans, ClaimIsAsked, PhaseShapes
    <3> QED
      BY <1>2, <2>2, <3>1 DEF Removal!Fence, Removal!chosen
  <2> QED
    BY <2>1, <2>2
<1>3. CASE Removes
  BY <1>3, <1>a DEF Removes, Removal!RemovePayload, Removal!RemoveSidecars,
       Removal!RemoveFolder, Removal!Remove, FileShapes,
     Removal!Assets, Removal!chosen, PayloadIsGone
<1>4. CASE Writes
  BY <1>4, <1>a DEF Writes, Removal!Write, FileShapes, Removal!Assets, Removal!chosen
<1>5. CASE UNCHANGED Removal!rvars
  BY <1>5 DEF Removal!rvars
<1> QED
  BY <1>1, <1>2, <1>3, <1>4, <1>5, StepKinds

LEMMA NextTransferIsOver ==
  ASSUME RemovalInvariant, [Removal!Next]_(Removal!rvars)
  PROVE  TransferIsOver'
<1> USE DEF RemovalInvariant, TransferIsOver, Removal!chosen, Removal!native, Removal!renderer
<1>a. PhaseShapes
  BY ShapesSplit
<1>1. CASE Removal!Transfer
  BY <1>1 DEF Removal!Transfer, Removal!Finish, Removal!RecordOutcome, Removal!Settle,
       Removal!MediaCancelled
<1>2. CASE Removal!Renderer
  BY <1>2 DEF Removal!Renderer, Removal!Deliver, Removal!Save, Removal!Land, Removal!Ask,
       Removal!Flushed, Removal!Submit, Removal!Retry
<1>3. CASE Removal!Pick \/ Removal!Classify \/ Removal!StopAria2 \/ Removal!CancelMedia
           \/ Removal!MediaDrained \/ Removal!NothingToStop
  BY <1>a, <1>3 DEF Removal!Pick, Removal!Classify, Removal!StopAria2, Removal!CancelMedia,
       Removal!MediaDrained, Removal!NothingToStop,
     Removal!GidMapped, Removal!MediaActive, PhaseShapes
<1>4. CASE Removal!CheckOwner \/ Removal!NotOwner \/ Removal!NotAuthorised \/ Removal!Broken
           \/ Removal!KeepFolder \/ Removal!Commit
           \/ Removal!CommitFails
  BY <1>4 DEF Removal!CheckOwner, Removal!NotOwner, Removal!NotAuthorised, Removal!Broken,
       Removal!FailAt, Removal!KeepFolder, Removal!Commit,
     Removal!CommitFails
<1>5. CASE Removal!Fence \/ Removes \/ Writes \/ UNCHANGED Removal!rvars
  BY <1>5 DEF Removal!Fence, Removes, Removal!RemovePayload, Removal!RemoveSidecars,
       Removal!RemoveFolder, Removal!Remove, Writes,
     Removal!Write, Removal!rvars
<1>6. CASE Removal!StopProcess
  BY <1>6 DEF Removal!StopProcess
<1> QED
  BY <1>1, <1>2, <1>3, <1>4, <1>5, <1>6 DEF Removal!Next, Removal!Worker, Removes, Writes

LEMMA NextTombstone ==
  ASSUME RemovalInvariant, [Removal!Next]_(Removal!rvars)
  PROVE  Tombstone'
<1> USE DEF RemovalInvariant, Tombstone, Removal!chosen, Removal!native, Removal!renderer
<1>a. PhaseShapes
  BY ShapesSplit
<1>1. CASE Removal!Transfer
  BY <1>1 DEF Removal!Transfer, Removal!Finish, Removal!RecordOutcome, Removal!Settle,
       Removal!MediaCancelled, TransferIsOver
<1>2. CASE Removal!Renderer
  BY <1>2 DEF Removal!Renderer, Removal!Deliver, Removal!Save, Removal!Land, Removal!Saves,
       Removal!Ask, Removal!Flushed, Removal!Submit, Removal!Retry
<1>3. CASE Removal!Pick \/ Removal!Classify \/ Removal!StopAria2 \/ Removal!CancelMedia
           \/ Removal!MediaDrained \/ Removal!NothingToStop
  BY <1>3 DEF Removal!Pick, Removal!Classify, Removal!StopAria2, Removal!CancelMedia,
       Removal!MediaDrained, Removal!NothingToStop, Removal!GidMapped,
     TransferIsOver
<1>4. CASE Removal!CheckOwner \/ Removal!NotOwner \/ Removal!NotAuthorised \/ Removal!Broken
           \/ Removal!KeepFolder \/ Removal!Commit
           \/ Removal!CommitFails
  BY <1>4 DEF Removal!CheckOwner, Removal!NotOwner, Removal!NotAuthorised, Removal!Broken,
       Removal!FailAt, Removal!KeepFolder, Removal!Commit,
     Removal!CommitFails
<1>5. CASE Removal!Fence \/ Removes \/ Writes \/ UNCHANGED Removal!rvars
  BY <1>5 DEF Removal!Fence, Removes, Removal!RemovePayload, Removal!RemoveSidecars,
       Removal!RemoveFolder, Removal!Remove, Writes,
     Removal!Write, Removal!rvars
<1>6. CASE Removal!StopProcess
  BY <1>6 DEF Removal!StopProcess
<1> QED
  BY <1>1, <1>2, <1>3, <1>4, <1>5, <1>6 DEF Removal!Next, Removal!Worker, Removes, Writes

LEMMA NextForeignFilesSurvive ==
  ASSUME RemovalInvariant, [Removal!Next]_(Removal!rvars)
  PROVE  Removal!ForeignFilesSurvive'
<1> USE DEF RemovalInvariant, Removal!ForeignFilesSurvive
<1>a. FileShapes
  BY ShapesSplit
<1>1. CASE Quiet
  BY <1>1, QuietFiles DEF Removal!files
<1>2. CASE Removal!Fence \/ Writes \/ UNCHANGED Removal!rvars
  BY <1>2 DEF Removal!Fence, Writes, Removal!Write, Removal!rvars
<1>3. CASE Removes
  <2>1. PICK a \in {"payload", "sidecar",
  "folder"} : gone' = gone \cup Removal!How(a) /\ remover = a
    BY <1>3 DEF Removes, Removal!RemovePayload, Removal!RemoveSidecars, Removal!RemoveFolder,
         Removal!Remove
  <2>2. asset[a] # "foreign"
    BY <2>1 DEF CleanupIsFenced, PathsAreOurs
  <2> QED
    BY <2>1, <2>2 DEF Removal!How
<1> QED
  BY <1>1, <1>2, <1>3, StepKinds

-----------------------------------------------------------------------------
(* The theorems                                                             *)

\* The invariant is inductive and implies what is promised of a removal.
LEMMA InitRemoval == Removal!Init => RemovalInvariant
<1> SUFFICES ASSUME Removal!Init PROVE RemovalInvariant
  OBVIOUS
<1>1. FileShapes
  BY DEF Removal!Init, FileShapes, Removal!Assets, Removal!Contents
<1>2. PhaseShapes
  BY DEF Removal!Init, PhaseShapes, Removal!Statuses, Removal!WorkerSteps
<1>3. PathsAreOurs
  BY <1>1 DEF Removal!Init, PathsAreOurs, Removal!Assets, FileShapes
<1>4. ClaimIsAsked
  BY DEF Removal!Init, ClaimIsAsked, Removal!Assets
<1> QED
  BY <1>1, <1>2, <1>3, <1>4, ShapesSplit DEF Removal!Init, RemovalInvariant, CleanupIsFenced,
     PayloadIsGone, FilesAreGone, TransferIsOver, Tombstone, Removal!ForeignFilesSurvive

LEMMA NextRemoval == RemovalInvariant /\ [Removal!Next]_(Removal!rvars) => RemovalInvariant'
<1> SUFFICES ASSUME RemovalInvariant, [Removal!Next]_(Removal!rvars) PROVE RemovalInvariant'
  OBVIOUS
<1>1. FileShapes /\ PhaseShapes
  BY ShapesSplit DEF RemovalInvariant
<1>2. FileShapes' /\ PhaseShapes'
  BY <1>1, NextFileShapes, NextPhaseShapes
<1>3. Removal!Shapes'
  BY <1>2 DEF Removal!Shapes, FileShapes, PhaseShapes
<1> QED
  BY <1>3, NextPathsAreOurs, NextClaimIsAsked, NextCleanupIsFenced, NextPayloadIsGone,
     NextFilesAreGone, NextTransferIsOver, NextTombstone, NextForeignFilesSurvive
  DEF RemovalInvariant

LEMMA RemovalSafety ==
  RemovalInvariant => Removal!ForeignFilesSurvive /\ Removal!RemovedStaysRemoved
BY DEF RemovalInvariant, Removal!RemovedStaysRemoved, Tombstone, FilesAreGone, Removal!Cleans

\* The inductive invariant holds of every behaviour.
THEOREM RemovalIsCorrect == Removal!Spec => []RemovalInvariant
  BY InitRemoval, NextRemoval, PTL DEF Removal!Spec

\* A removal takes no file that its first cleanup did not find at the paths of the download
\* (ForeignFilesSurvive).
THEOREM ForeignFilesAreSpared == Removal!Spec => []Removal!ForeignFilesSurvive
<1>1. RemovalInvariant => Removal!ForeignFilesSurvive
  BY RemovalSafety
<1> QED
  BY <1>1, RemovalIsCorrect, PTL

\* A completed removal is a tombstone: the row never comes back, and it goes only when nothing of
\* the download is left on the disk (RemovedStaysRemoved).
THEOREM RemovalsAreFinal == Removal!Spec => []Removal!RemovedStaysRemoved
<1>1. RemovalInvariant => Removal!RemovedStaysRemoved
  BY RemovalSafety
<1> QED
  BY <1>1, RemovalIsCorrect, PTL

-----------------------------------------------------------------------------
(* The transfers of a download.                                            *)

\* The bound on the adds gives the GIDs; everything else may be any number.
ControlBounds == MaxAdds \in Nat

Transfer == [gid : Control!Gids \cup {0}, epoch : Nat, revision : Nat]
Added == [who : {"dispatch", "retry", "recovery"}, epoch : Nat,
          old : Control!Gids \cup {0}, gid : Nat]

ControlShapes ==
  /\ magnet \in BOOLEAN /\ adopted \in BOOLEAN /\ carried \in BOOLEAN /\ cancelled \in BOOLEAN
  /\ gids \in [Control!Gids -> {"absent", "active", "paused"} \cup Control!Ended]
  /\ bound \in Transfer /\ resumers \subseteq Transfer
  /\ \A worker \in resumers : worker.gid # 0
  /\ epoch \in Nat /\ revision \in Nat /\ adds \in Nat
  /\ backoffs \subseteq [gid : Control!Gids, epoch : Nat]
  /\ adding \subseteq Added /\ stale \subseteq Added

\* An observation is one of a GID.
GidsAreSeen == \A seen \in handlers : seen.gid # 0

\* Somebody who has not answered for the GID yet has added it.
Given(g) == \E add \in adding \cup stale : add.gid = g

\* GIDs are given out once, in order, and to one add each.
NewGidsAreAbsent == \A g \in Control!Gids : g > 2 * adds => gids[g] = "absent"
BoundIsKnown == bound.gid <= 2 * adds /\ (bound.gid # 0 => gids[bound.gid] # "absent")
AddedAreKnown ==
  \A add \in adding \cup stale : add.gid \in Control!Gids =>
    Control!Parent(add.gid) /\ add.gid <= 2 * adds /\ gids[add.gid] # "absent"
AddedDiffer ==
  /\ \A one, other \in adding \cup stale :
       one.gid = other.gid /\ one.gid \in Control!Gids => one = other
  /\ \A add \in adding : add.gid \in Control!Gids => add \notin stale

\* A child follows complete metadata, and the mapping knows a child from a parent.
ChildHasMetadata ==
  \A g \in Control!Gids : ~Control!Parent(g) /\ gids[g] # "absent" =>
    magnet /\ gids[g - 1] = "complete"
AdoptedIsChild ==
  /\ adopted => magnet /\ bound.gid # 0 /\ ~Control!Parent(bound.gid)
  /\ bound.gid # 0 /\ ~adopted => Control!Parent(bound.gid)

\* Each GID the daemon knows has its place: it is the mapped one, its child, added and not
\* mapped yet, or ignored and ended.
EveryGidHasItsPlace ==
  \A g \in Control!Gids : gids[g] # "absent" =>
    \/ g = bound.gid
    \/ bound.gid # 0 /\ g = bound.gid + 1 /\ ~adopted
    \/ Given(g)
    \/ g \in ignored /\ gids[g] \in Control!Ended
PausedIsBound == \A g \in Control!Gids : gids[g] = "paused" => g = bound.gid
GivenIsUnbound ==
  \A g \in Control!Gids : Given(g) => g # bound.gid /\ (magnet => gids[g] # "complete")

\* An add of the current epoch finds what it left: a dispatch no GID, the others the ended GID
\* they replace, under the lock.
BoundIsCarried == bound.gid # 0 => carried
AddsAreOfNow == \A add \in adding : add.epoch <= epoch
DispatchIsAlone ==
  \A add \in adding :
    add.who = "dispatch" /\ add.epoch = epoch => carried /\ ~cancelled /\ bound.gid = 0
DispatchesDiffer ==
  \A one, other \in adding :
    one.who = "dispatch" /\ other.who = "dispatch" /\ one.epoch = other.epoch => one = other
ReplacersFindTheOld ==
  \A add \in adding : add.who # "dispatch" =>
    /\ add.epoch = epoch /\ carried /\ ~cancelled
    /\ bound.gid = add.old /\ add.old # 0 /\ gids[add.old] \in {"error", "removed"}
    /\ \A other \in adding : other.who # "dispatch" => other = add
StaleWereDispatched == \A add \in stale : add.who = "dispatch" /\ add.gid \in Control!Gids
BackoffsFollowEnds == \A worker \in backoffs : gids[worker.gid] \in {"error", "removed"}

\* A worker whose epoch and revision are current finds its GID paused.
WorkersAreOfNow ==
  /\ bound.epoch <= epoch
  /\ \A worker \in resumers : worker.epoch <= epoch /\ worker.revision <= revision
WorkersDiffer == \A one, other \in resumers : one.epoch = other.epoch => one = other
CurrentFindsPaused ==
  \A worker \in resumers : worker.epoch = epoch /\ worker.revision = revision =>
    /\ bound.gid = worker.gid /\ bound.epoch # epoch /\ ~cancelled
    /\ gids[worker.gid] = "paused"

\* What the row shows of an end.
RowShowsTheEnd ==
  /\ shows \in {"paused", "done", "failed"} => cancelled
  /\ shows \in {"done", "failed"} => bound.gid = 0
  /\ shows = "paused" /\ bound.gid # 0 => gids[bound.gid] # "active"

\* A GID with a complete payload, and not one that is about to be taken back.
Good(g) == gids[g] = "complete" /\ (magnet => ~Control!Parent(g)) /\ ~Given(g)
Metadata(g) == magnet /\ Control!Parent(g) /\ gids[g] = "complete"

\* There is a last good GID, metadata come before what was mapped after them, and what is done
\* has a good GID after all metadata.
GoodHasALast ==
  \E last \in Control!Gids \cup {0} :
    (last # 0 => Good(last)) /\ \A g \in Control!Gids : Good(g) => g <= last
MetadataComeFirst ==
  \A g \in Control!Gids : Metadata(g) =>
    /\ bound.gid # 0 => g <= bound.gid
    /\ \A add \in adding : add.epoch = epoch /\ add.gid \in Control!Gids => g < add.gid
DoneEndsWithGood ==
  shows = "done" =>
    \E good \in Control!Gids :
      Good(good) /\ \A g \in Control!Gids : Metadata(g) => g <= good

\* The inductive invariant of the transfers.
ControlInvariant ==
  /\ ControlShapes /\ GidsAreSeen
  /\ NewGidsAreAbsent /\ BoundIsKnown /\ AddedAreKnown /\ AddedDiffer
  /\ ChildHasMetadata /\ AdoptedIsChild
  /\ EveryGidHasItsPlace /\ PausedIsBound /\ GivenIsUnbound
  /\ BoundIsCarried /\ AddsAreOfNow /\ DispatchIsAlone /\ DispatchesDiffer
  /\ ReplacersFindTheOld /\ StaleWereDispatched /\ BackoffsFollowEnds
  /\ WorkersAreOfNow /\ WorkersDiffer /\ CurrentFindsPaused
  /\ RowShowsTheEnd
  /\ GoodHasALast /\ MetadataComeFirst /\ DoneEndsWithGood

\* GIDs alternate between parents and children.
LEMMA Parity ==
  ASSUME ControlBounds
  PROVE  /\ \A k \in Nat : Control!Parent(2 * k + 1)
         /\ \A g \in Nat : Control!Parent(g) => ~Control!Parent(g + 1)
         /\ \A g \in Nat : ~Control!Parent(g) => Control!Parent(g + 1)
         /\ \A g \in Control!Gids : ~Control!Parent(g) =>
              g - 1 \in Control!Gids /\ Control!Parent(g - 1)
         /\ \A g \in Control!Gids : Control!Parent(g) => g + 1 \in Control!Gids
BY DEF Control!Parent, Control!Gids, ControlBounds

-----------------------------------------------------------------------------
(* The steps, as far as they matter to the transfers.                      *)

\* What a step leaves alone.
GidsStay == UNCHANGED <<gids, adds>>
MappingStays == UNCHANGED <<bound, adopted, ignored>>
LifecycleStays == UNCHANGED <<epoch, revision, carried, cancelled>>
LifecycleMoves == epoch' = epoch + 1 /\ revision' = revision + 1
AddsStay == UNCHANGED <<adding, stale>>
WorkersStay == UNCHANGED <<backoffs, resumers>>

\* The daemon: a GID ends, or the child of complete metadata begins.
GidEnds ==
  /\ \E g \in Control!Gids, result \in {"complete", "error"} :
       /\ gids[g] = "active"
       /\ result = "complete" /\ magnet /\ Control!Parent(g) => g = bound.gid
       /\ gids' = [gids EXCEPT ![g] = result]
  /\ UNCHANGED <<magnet, adds, shows>>
  /\ MappingStays /\ LifecycleStays /\ AddsStay /\ WorkersStay
ChildBegins ==
  /\ \E g \in Control!Gids :
       /\ magnet /\ Control!Parent(g) /\ g = bound.gid
       /\ gids[g] = "complete" /\ gids[g + 1] = "absent"
       /\ gids' = [gids EXCEPT ![g + 1] = "active"]
  /\ UNCHANGED <<magnet, adds, shows>>
  /\ MappingStays /\ LifecycleStays /\ AddsStay /\ WorkersStay

\* An observation: nothing follows, the lifecycle is over, the child is adopted, or a retry waits.
NothingFollows ==
  /\ UNCHANGED <<magnet, shows>>
  /\ GidsStay /\ MappingStays /\ LifecycleStays /\ AddsStay /\ WorkersStay
LifecycleEnds ==
  /\ bound.gid # 0 =>
       /\ gids[bound.gid] \in Control!Ended
       /\ magnet /\ ~adopted /\ gids[bound.gid] = "complete" => gids[bound.gid + 1] = "absent"
  /\ shows' \in {"paused", "done", "failed"}
  /\ shows' = "done" =>
       bound.gid # 0 /\ gids[bound.gid] = "complete" /\ (magnet => adopted)
  /\ cancelled' = TRUE /\ carried' = FALSE
  /\ bound' = [gid |-> 0, epoch |-> 0, revision |-> 0] /\ adopted' = FALSE
  /\ ignored' = ignored \cup ({bound.gid} \ {0})
  /\ \/ adding' = adding
     \/ \E add \in adding : adding' = adding \ {add} /\ add.gid \notin Control!Gids
  /\ \A add \in adding' : add.who = "dispatch"
  /\ UNCHANGED <<magnet, stale>> /\ LifecycleMoves /\ GidsStay /\ WorkersStay
ChildAdopted ==
  /\ bound.gid # 0 /\ bound.epoch = epoch /\ gids[bound.gid] = "complete" /\ magnet /\ ~adopted
  /\ gids[bound.gid + 1] # "absent"
  /\ bound' = [bound EXCEPT !.gid = bound.gid + 1] /\ adopted' = TRUE
  /\ ignored' = (ignored \ {bound.gid + 1}) \cup {bound.gid}
  /\ \A add \in adding : add.who = "dispatch"
  /\ shows' = "live" /\ UNCHANGED magnet
  /\ GidsStay /\ LifecycleStays /\ AddsStay /\ WorkersStay
RetryWaits ==
  /\ bound.gid # 0 /\ gids[bound.gid] \in {"error", "removed"}
  /\ backoffs' = backoffs \cup {[gid |-> bound.gid, epoch |-> epoch]}
  /\ shows' = "retrying" /\ UNCHANGED <<magnet, resumers>>
  /\ GidsStay /\ MappingStays /\ LifecycleStays /\ AddsStay

\* An add: it is answered or refused, mapped, outdated, dropped, or taken back.
AddAnswered ==
  /\ \E add \in adding :
       /\ add.gid = 0
       /\ adding' = (adding \ {add}) \cup {[add EXCEPT !.gid = 2 * adds + 1]}
  /\ gids' = [gids EXCEPT ![2 * adds + 1] = "active"]
  /\ adds' = adds + 1
  /\ UNCHANGED <<magnet, stale, shows>> /\ MappingStays /\ LifecycleStays /\ WorkersStay
AddFails ==
  /\ \E add \in adding :
       /\ add.gid = 0
       /\ adding' = (adding \ {add}) \cup {[add EXCEPT !.gid = Control!Refused]}
  /\ adds' = adds + 1
  /\ UNCHANGED <<magnet, gids, stale, shows>> /\ MappingStays /\ LifecycleStays /\ WorkersStay
AddIsMapped ==
  /\ \E add \in adding :
       /\ add.gid \in Control!Gids /\ add.epoch = epoch
       /\ add.who # "dispatch" => bound.gid = add.old
       /\ adding' = adding \ {add}
       /\ bound' = [gid |-> add.gid, epoch |-> epoch, revision |-> revision + 1]
       /\ ignored' = (ignored \ {add.gid}) \cup ({bound.gid} \ {0, add.gid})
  /\ carried /\ ~cancelled
  /\ adopted' = FALSE /\ revision' = revision + 1 /\ shows' \in {shows, "live"}
  /\ UNCHANGED <<magnet, epoch, carried, cancelled, stale>> /\ GidsStay /\ WorkersStay
AddIsOutdated ==
  /\ \E add \in adding :
       /\ add.gid \in Control!Gids /\ add.who = "dispatch" /\ add.epoch # epoch
       /\ adding' = adding \ {add} /\ stale' = stale \cup {add}
  /\ UNCHANGED <<magnet, shows>>
  /\ GidsStay /\ MappingStays /\ LifecycleStays /\ WorkersStay
AddIsDropped ==
  /\ \E add \in adding : add.gid \notin Control!Gids /\ adding' = adding \ {add}
  /\ UNCHANGED <<magnet, stale, shows>>
  /\ GidsStay /\ MappingStays /\ LifecycleStays /\ WorkersStay
AddIsTakenBack ==
  /\ \E add \in stale :
       /\ stale' = stale \ {add}
       /\ gids' = [gids EXCEPT ![add.gid] = IF @ = "active" THEN "removed" ELSE @]
       /\ ignored' = ignored \cup {add.gid}
  /\ UNCHANGED <<magnet, adds, bound, adopted, adding, shows>> /\ LifecycleStays /\ WorkersStay

\* A retry worker gives up or adds, and a recovery adds.
RetryGivesUp ==
  /\ backoffs' \subseteq backoffs
  /\ UNCHANGED <<magnet, resumers, shows>>
  /\ GidsStay /\ MappingStays /\ LifecycleStays /\ AddsStay
RetryAdds ==
  /\ \E worker \in backoffs : bound.gid = worker.gid
  /\ carried /\ ~cancelled /\ \A add \in adding : add.who = "dispatch"
  /\ adding' = adding \cup {[who |-> "retry", epoch |-> epoch, old |-> bound.gid, gid |-> 0]}
  /\ backoffs' \subseteq backoffs
  /\ UNCHANGED <<magnet, stale, resumers, shows>> /\ GidsStay /\ MappingStays /\ LifecycleStays
RecoveryAdds ==
  /\ ~magnet /\ bound.gid # 0 /\ gids[bound.gid] = "active"
  /\ carried /\ ~cancelled /\ \A add \in adding : add.who = "dispatch"
  /\ gids' = [gids EXCEPT ![bound.gid] = "removed"]
  /\ adding' = adding \cup {[who |-> "recovery", epoch |-> epoch, old |-> bound.gid, gid |-> 0]}
  /\ UNCHANGED <<magnet, adds, stale, shows>> /\ MappingStays /\ LifecycleStays /\ WorkersStay

\* A resume worker leaves, unpauses its GID, or finds that it stays paused.
WorkerLeaves ==
  /\ resumers' \subseteq resumers
  /\ UNCHANGED <<magnet, backoffs, shows>>
  /\ GidsStay /\ MappingStays /\ LifecycleStays /\ AddsStay
WorkerUnpauses ==
  /\ \E worker \in resumers :
       /\ ~cancelled /\ worker.epoch = epoch /\ worker.revision = revision
       /\ worker.gid = bound.gid
       /\ resumers' = resumers \ {worker} /\ bound' = worker
  /\ gids' = [gids EXCEPT ![bound.gid] = "active"] /\ shows' = "live"
  /\ UNCHANGED <<magnet, adds, adopted, ignored, backoffs>> /\ LifecycleStays /\ AddsStay
WorkerFails ==
  /\ \E worker \in resumers :
       /\ ~cancelled /\ worker.epoch = epoch /\ worker.revision = revision
       /\ worker.gid = bound.gid
       /\ resumers' = resumers \ {worker} /\ bound' = worker
  /\ cancelled' = TRUE /\ shows' = "paused" /\ \A add \in adding : add.who = "dispatch"
  /\ UNCHANGED <<magnet, adopted, ignored, carried, backoffs>>
  /\ LifecycleMoves /\ GidsStay /\ AddsStay

\* A dispatch, and the commands.
DispatchBegins ==
  /\ ~carried /\ \A add \in adding : add.who = "dispatch"
  /\ carried' = TRUE /\ cancelled' = FALSE
  /\ adding' = adding \cup {[who |-> "dispatch", epoch |-> epoch + 1, old |-> 0, gid |-> 0]}
  /\ shows' = "queued"
  /\ UNCHANGED <<magnet, stale>> /\ LifecycleMoves /\ GidsStay /\ MappingStays /\ WorkersStay
PauseTakes ==
  /\ bound.gid # 0 /\ gids[bound.gid] \in {"active", "paused"}
  /\ \A add \in adding : add.who = "dispatch"
  /\ gids' = [gids EXCEPT ![bound.gid] = "paused"] /\ cancelled' = TRUE /\ shows' = "paused"
  /\ UNCHANGED <<magnet, adds, carried>>
  /\ LifecycleMoves /\ MappingStays /\ AddsStay /\ WorkersStay
UnmappedMoves ==
  /\ bound.gid = 0 /\ \A add \in adding : add.who = "dispatch"
  /\ cancelled' = TRUE /\ carried' = FALSE /\ shows' \in {"paused", "ready"}
  /\ UNCHANGED magnet
  /\ LifecycleMoves /\ GidsStay /\ MappingStays /\ AddsStay /\ WorkersStay
ResumeBegins ==
  /\ bound.gid # 0 /\ gids[bound.gid] = "paused" /\ \A add \in adding : add.who = "dispatch"
  /\ cancelled' = FALSE /\ shows' = "queued"
  /\ resumers' = resumers \cup {[gid |-> bound.gid, epoch |-> epoch + 1,
                                 revision |-> revision + 1]}
  /\ UNCHANGED <<magnet, carried, backoffs>>
  /\ LifecycleMoves /\ GidsStay /\ MappingStays /\ AddsStay

\* One of these.
ControlStep ==
  \/ GidEnds \/ ChildBegins \/ NothingFollows \/ LifecycleEnds \/ ChildAdopted \/ RetryWaits
  \/ AddAnswered \/ AddFails \/ AddIsMapped \/ AddIsOutdated \/ AddIsDropped \/ AddIsTakenBack
  \/ RetryGivesUp \/ RetryAdds \/ RecoveryAdds \/ WorkerLeaves \/ WorkerUnpauses \/ WorkerFails
  \/ DispatchBegins \/ PauseTakes \/ UnmappedMoves \/ ResumeBegins

-----------------------------------------------------------------------------
(* The invariant of the transfers is inductive                             *)

\* An add that is refused ends its lifecycle, or is dropped.
LEMMA RefusedStep ==
  ASSUME ControlBounds, ControlInvariant, NEW a \in adding, Control!AddRefused(a)
  PROVE  ControlStep
<1>1. /\ a.gid = Control!Refused /\ (a.who = "dispatch" => Control!Unlocked)
      /\ adding' = adding \ {a} /\ UNCHANGED <<magnet, gids, adds, stale, backoffs, resumers>>
  BY DEF Control!AddRefused, Control!Dispatched, Control!daemonSide, Control!limits
<1>2. a.gid \notin Control!Gids
  BY <1>1 DEF Control!Refused, Control!Gids, ControlBounds
<1>3. CASE Control!Current(a)
  <2>1. /\ shows' \in {"paused", "failed"} /\ cancelled' = TRUE /\ carried' = FALSE
        /\ bound' = [gid |-> 0, epoch |-> 0, revision |-> 0] /\ adopted' = FALSE
        /\ epoch' = epoch + 1 /\ revision' = revision + 1
        /\ ignored' = IF bound.gid = 0 THEN ignored ELSE ignored \cup {bound.gid}
    BY <1>3 DEF Control!AddRefused, Control!Settle, Control!Forget, Control!NextEpoch,
      Control!NoGid, Control!Unbound
  <2>2. \A other \in adding' : other.who = "dispatch"
    <3>1. CASE a.who = "dispatch"
      BY <1>1, <3>1 DEF Control!Unlocked
    <3>2. CASE a.who # "dispatch"
      BY <1>1, <3>2 DEF ControlInvariant, ReplacersFindTheOld
    <3> QED
      BY <3>1, <3>2
  <2>3. bound.gid # 0 => gids[bound.gid] \in {"error", "removed"}
    <3>1. CASE a.who = "dispatch"
      BY <1>3, <3>1 DEF ControlInvariant, DispatchIsAlone, Control!Current
    <3>2. CASE a.who # "dispatch"
      BY <3>2 DEF ControlInvariant, ReplacersFindTheOld
    <3> QED
      BY <3>1, <3>2
  <2>4. LifecycleEnds
    BY <1>1, <1>2, <2>1, <2>2, <2>3
      DEF LifecycleEnds, LifecycleMoves, GidsStay, WorkersStay, Control!Ended
  <2> QED
    BY <2>4 DEF ControlStep
<1>4. CASE ~Control!Current(a)
  <2>1. UNCHANGED <<bound, adopted, ignored, epoch, revision, carried, cancelled, shows>>
    BY <1>4 DEF Control!AddRefused, Control!mapping, Control!clocks
  <2>2. AddIsDropped
    BY <1>1, <1>2, <2>1
      DEF AddIsDropped, GidsStay, MappingStays, LifecycleStays, WorkersStay
  <2> QED
    BY <2>2 DEF ControlStep
<1> QED
  BY <1>3, <1>4

\* Every step is one of these.
LEMMA StepIsKnown ==
  ASSUME ControlBounds, ControlInvariant, Control!Next
  PROVE  ControlStep
<1> USE DEF ControlInvariant, ControlShapes, Transfer, ControlBounds
<1>1. CASE \E g \in Control!Gids : Control!End(g)
  BY <1>1 DEF Control!End, Control!mapping, Control!clocks, Control!retryState, Control!limits,
    GidEnds, MappingStays, LifecycleStays, AddsStay, WorkersStay, ControlStep
<1>2. CASE \E g \in Control!Gids : Control!FollowedBy(g)
  BY <1>2 DEF Control!FollowedBy, Control!mapping, Control!clocks, Control!retryState,
    Control!limits, ChildBegins, MappingStays, LifecycleStays, AddsStay, WorkersStay,
      ControlStep
<1>3. CASE \E g \in Control!Gids : Control!Hear(g)
  BY <1>3 DEF Control!Hear, Control!Observe, Control!clocks, Control!retryState, Control!limits,
    NothingFollows, GidsStay, MappingStays, LifecycleStays, AddsStay, WorkersStay, ControlStep
<1>4. CASE \E h \in handlers : Control!HandleStale(h)
  BY <1>4 DEF Control!HandleStale, Control!Taken, Control!StillOwner, Control!daemonSide,
    Control!mapping, Control!clocks, Control!retryState, Control!limits, Control!Unlocked,
    NothingFollows, GidsStay, MappingStays, LifecycleStays, AddsStay, WorkersStay, ControlStep
<1>5. CASE \E h \in handlers : Control!HandleComplete(h)
  BY <1>5 DEF Control!HandleComplete, Control!Taken, Control!StillOwner, Control!NeedsChild,
    Control!Settle, Control!daemonSide, Control!retryState, Control!limits, Control!Unlocked,
    Control!NextEpoch, Control!Forget, Control!Unbound, Control!NoGid, AdoptedIsChild,
      GidsAreSeen,
    LifecycleEnds, GidsStay, LifecycleMoves, WorkersStay, ControlStep
<1>6. CASE \E h \in handlers : Control!AdoptChild(h)
  BY <1>6 DEF Control!AdoptChild, Control!Unlocked, Control!StillOwner, Control!NeedsChild,
    Control!daemonSide, Control!clocks, Control!retryState, Control!limits, AdoptedIsChild,
    GidsAreSeen, ChildAdopted, GidsStay, LifecycleStays, AddsStay, WorkersStay, ControlStep
<1>7. CASE \E h \in handlers : Control!AwaitChild(h)
  BY <1>7 DEF Control!AwaitChild, Control!Taken, Control!StillOwner, Control!NeedsChild,
    Control!mapping, Control!clocks, Control!Settle, Control!daemonSide, Control!retryState,
    Control!limits, Control!Unlocked, Control!NextEpoch, Control!Forget, Control!Unbound,
    Control!NoGid, AdoptedIsChild, GidsAreSeen, NothingFollows, LifecycleEnds, GidsStay,
    MappingStays, LifecycleStays, AddsStay, WorkersStay, LifecycleMoves, ControlStep
<1>8. CASE \E h \in handlers : Control!HandleError(h)
  BY <1>8 DEF Control!HandleError, Control!Taken, Control!StillOwner, Control!NoEpoch,
    Control!mapping, Control!clocks, Control!retryState, Control!Settle, Control!daemonSide,
    Control!limits, Control!Unlocked, Control!NextEpoch, Control!Forget, Control!Unbound,
    Control!NoGid, AdoptedIsChild, ChildHasMetadata, GidsAreSeen, NothingFollows, LifecycleEnds,
    RetryWaits, GidsStay, MappingStays, LifecycleStays, AddsStay, WorkersStay, LifecycleMoves,
    ControlStep
<1>9. CASE \E a \in adding : Control!AddUri(a)
  BY <1>9
    DEF Control!AddUri, Control!NoGid, Control!mapping, Control!clocks, Control!retryState,
    AddAnswered, AddFails, MappingStays, LifecycleStays, WorkersStay, ControlStep
<1>10. CASE \E a \in adding : Control!AddMapped(a)
  BY <1>10 DEF Control!AddMapped, Control!Dispatched, Control!Current, Control!Remember,
    Control!Rest, Control!daemonSide, Control!limits, Control!Unlocked, Control!NoGid,
    Control!Finished, Control!NoEpoch, DispatchIsAlone, AddsAreOfNow, ReplacersFindTheOld,
    AddIsMapped, GidsStay, WorkersStay, ControlStep
<1>11. CASE \E a \in adding : Control!AddStale(a)
  BY <1>11 DEF Control!AddStale, Control!Dispatched, Control!Current, Control!Rest,
    Control!daemonSide, Control!clocks, Control!limits, Control!Unlocked, Control!Finished,
    Control!NoEpoch, ReplacersFindTheOld, DispatchIsAlone, AddsAreOfNow, AddIsOutdated,
      GidsStay,
    MappingStays, LifecycleStays, WorkersStay, ControlStep
<1>12. CASE \E a \in adding : Control!AddRefused(a)
  BY <1>12, RefusedStep
<1>13. CASE \E a \in stale : Control!RemoveStale(a)
  BY <1>13 DEF Control!RemoveStale, Control!clocks, Control!retryState, Control!limits,
    StaleWereDispatched, AddIsTakenBack, LifecycleStays, WorkersStay, ControlStep
<1>14. CASE \E w \in backoffs : Control!BackoffEnds(w)
  BY <1>14 DEF Control!BackoffEnds, Control!Unlocked, Control!RetryIsCurrent, Control!Finished,
    Control!NoGid, Control!daemonSide, Control!mapping, Control!clocks, Control!limits,
    Control!NoEpoch, RetryGivesUp, RetryAdds, GidsStay, MappingStays, LifecycleStays, AddsStay,
    ControlStep
<1>15. CASE \E w \in resumers : Control!Unpause(w)
  BY <1>15 DEF Control!Unpause, Control!Unlocked, Control!clocks, Control!NextEpoch,
    Control!retryState, Control!limits, WorkerLeaves, WorkerUnpauses, WorkerFails, GidsStay,
    MappingStays, LifecycleStays, AddsStay, LifecycleMoves, ControlStep
<1>16. CASE Control!Poll
  BY <1>16 DEF Control!Poll, Control!NoGid, Control!Observe, Control!clocks, Control!retryState,
    Control!limits, NothingFollows, GidsStay, MappingStays, LifecycleStays, AddsStay,
      WorkersStay,
    ControlStep
<1>17. CASE Control!Dispatch
  BY <1>17
    DEF Control!Dispatch, Control!Unlocked, Control!NextEpoch, Control!Begin, Control!NoGid,
    Control!daemonSide, Control!mapping, Control!retryState, Control!limits, DispatchBegins,
    GidsStay, MappingStays, LifecycleMoves, WorkersStay, ControlStep
<1>18. CASE Control!Recover
  BY <1>18 DEF Control!Recover, Control!Unlocked, Control!NoGid, Control!clocks, Control!Begin,
    Control!mapping, Control!retryState, Control!limits, RecoveryAdds, MappingStays,
      LifecycleStays,
    WorkersStay, ControlStep
<1>19. CASE Control!Pause
  BY <1>19
    DEF Control!Pause, Control!Command, Control!NoGid, Control!NextEpoch, Control!mapping,
    Control!retryState, Control!Unlocked, PauseTakes, MappingStays, LifecycleMoves, AddsStay,
    WorkersStay, ControlStep
<1>20. CASE Control!PauseEnded
  BY <1>20 DEF Control!PauseEnded, Control!Command, Control!NoGid, Control!NeedsChild,
    Control!Settle, Control!daemonSide, Control!retryState, Control!Unlocked, Control!NextEpoch,
    Control!Forget, Control!Unbound, AdoptedIsChild, ChildHasMetadata, LifecycleEnds, GidsStay,
    LifecycleMoves, WorkersStay, ControlStep
<1>21. CASE Control!PauseUnmapped
  BY <1>21 DEF Control!PauseUnmapped, Control!Command, Control!NoGid, Control!NextEpoch,
    Control!daemonSide, Control!mapping, Control!retryState, Control!Unlocked, UnmappedMoves,
    GidsStay, MappingStays, LifecycleMoves, AddsStay, WorkersStay, ControlStep
<1>22. CASE Control!Resume
  BY <1>22 DEF Control!Resume, Control!Command, Control!NoGid, Control!NextEpoch,
    Control!daemonSide, Control!mapping, Control!retryState, Control!Unlocked, ResumeBegins,
    GidsStay, MappingStays, LifecycleMoves, AddsStay, ControlStep
<1>23. CASE Control!ResumeUnmapped
  BY <1>23 DEF Control!ResumeUnmapped, Control!Command, Control!NoGid, Control!NextEpoch,
    Control!daemonSide, Control!mapping, Control!retryState, Control!Unlocked, UnmappedMoves,
    GidsStay, MappingStays, LifecycleMoves, AddsStay, WorkersStay, ControlStep
<1> QED
  BY <1>1, <1>2, <1>3, <1>4, <1>5, <1>6, <1>7, <1>8, <1>9, <1>10, <1>11, <1>12, <1>13, <1>14,
    <1>15,
    <1>16, <1>17, <1>18, <1>19, <1>20, <1>21, <1>22, <1>23 DEF Control!Next

\* An observation is recorded of what is mapped.
LEMMA NextGidsAreSeen ==
  ASSUME ControlBounds, ControlInvariant, [Control!Next]_(Control!cvars)
  PROVE  GidsAreSeen'
<1> USE DEF ControlInvariant, GidsAreSeen
<1>1. CASE \E g \in Control!Gids : Control!End(g) \/ Control!FollowedBy(g)
  BY <1>1 DEF Control!End, Control!FollowedBy
<1>2. CASE \E g \in Control!Gids : Control!Hear(g)
  BY <1>2 DEF Control!Hear, Control!Observe, Control!Gids
<1>3. CASE \E h \in handlers : Control!AdoptChild(h)
  <2>1. PICK h \in handlers : Control!AdoptChild(h)
    BY <1>3
  <2>2. bound = h /\ bound'.gid = bound.gid + 1 /\ h.gid # 0
    BY <2>1 DEF Control!AdoptChild, Control!StillOwner, ControlShapes, Transfer
  <2>3. bound'.gid # 0
    BY <2>2 DEF ControlShapes, Transfer, Control!Gids
  <2>4. handlers' \subseteq handlers \cup {bound'}
    BY <2>1 DEF Control!AdoptChild
  <2> QED
    BY <2>3, <2>4
<1>4. CASE \E h \in handlers : \/ Control!HandleStale(h) \/ Control!HandleComplete(h)
                               \/ Control!AwaitChild(h) \/ Control!HandleError(h)
  BY <1>4 DEF Control!HandleStale, Control!HandleComplete, Control!AwaitChild,
    Control!HandleError, Control!Taken
<1>5. CASE \E a \in adding : Control!AddMapped(a)
  BY <1>5 DEF Control!AddMapped, Control!Remember, Control!Gids
<1>6. CASE \E a \in adding : Control!AddUri(a) \/ Control!AddStale(a) \/ Control!AddRefused(a)
  BY <1>6 DEF Control!AddUri, Control!AddStale, Control!AddRefused
<1>7. CASE \/ \E a \in stale : Control!RemoveStale(a)
           \/ \E w \in backoffs : Control!BackoffEnds(w)
           \/ \E w \in resumers : Control!Unpause(w)
  BY <1>7 DEF Control!RemoveStale, Control!BackoffEnds, Control!Unpause
<1>8. CASE Control!Poll
  BY <1>8 DEF Control!Poll, Control!Observe, Control!NoGid
<1>9. CASE \/ Control!Dispatch \/ Control!Recover \/ Control!Pause \/ Control!PauseEnded
           \/ Control!PauseUnmapped \/ Control!Resume \/ Control!ResumeUnmapped
  BY <1>9 DEF Control!Dispatch, Control!Recover, Control!Pause, Control!PauseEnded,
    Control!PauseUnmapped, Control!Resume, Control!ResumeUnmapped
<1>10. CASE UNCHANGED Control!cvars
  BY <1>10 DEF Control!cvars
<1> QED
  BY <1>1, <1>2, <1>3, <1>4, <1>5, <1>6, <1>7, <1>8, <1>9, <1>10 DEF Control!Next

\* The types are kept.
LEMMA NextControlShapes ==
  ASSUME ControlBounds, ControlInvariant, ControlStep
  PROVE  ControlShapes'
<1>1. CASE GidEnds \/ ChildBegins \/ NothingFollows
  BY <1>1
    DEF ControlInvariant, ControlShapes, Transfer, Control!Ended, Control!Gids, Control!Refused,
      GidEnds, ChildBegins, NothingFollows, MappingStays, LifecycleStays, AddsStay, WorkersStay,
      GidsStay
<1>2. CASE LifecycleEnds
  <2> USE <1>2
  <2>1. UNCHANGED <<magnet, stale, gids, adds, backoffs, resumers>>
    BY DEF LifecycleEnds, GidsStay, WorkersStay
  <2>2. adding' \subseteq adding
    BY DEF LifecycleEnds
  <2>3. epoch' \in Nat /\ revision' \in Nat /\ bound' \in Transfer /\ adopted' = FALSE
    BY DEF LifecycleEnds, LifecycleMoves, ControlInvariant, ControlShapes, Transfer
  <2>4. carried' = FALSE /\ cancelled' = TRUE
    BY DEF LifecycleEnds
  <2> QED
    BY <2>1, <2>2, <2>3, <2>4 DEF ControlInvariant, ControlShapes
<1>3. CASE ChildAdopted
  BY <1>3, Parity
    DEF ControlInvariant, ControlShapes, Transfer, Control!Refused, NewGidsAreAbsent,
      AdoptedIsChild, Control!Gids, ChildAdopted, GidsStay, LifecycleStays, AddsStay,
      WorkersStay
<1>4. CASE RetryWaits \/ AddIsOutdated
  BY <1>4
    DEF ControlInvariant, ControlShapes, Transfer, Control!Gids, Control!Refused, RetryWaits,
      AddIsOutdated, GidsStay, MappingStays, LifecycleStays, AddsStay, WorkersStay
<1>5. CASE AddAnswered
  <2> USE <1>5
  <2>1. UNCHANGED <<magnet, stale, bound, adopted, epoch, revision, carried, cancelled,
    backoffs,
                    resumers>>
    BY DEF AddAnswered, MappingStays, LifecycleStays, WorkersStay
  <2>2. adds' \in Nat /\ gids' \in [Control!Gids -> {"absent", "active", "paused"} \cup
    Control!Ended]
    <3>1. gids' = [gids EXCEPT ![2 * adds + 1] = "active"] /\ adds' = adds + 1
      BY DEF AddAnswered
    <3>2. gids \in [Control!Gids -> {"absent", "active", "paused"} \cup Control!Ended]
      BY DEF ControlInvariant, ControlShapes
    <3>3. adds \in Nat
      BY DEF ControlInvariant, ControlShapes
    <3> DEFINE new == 2 * adds + 1
    <3>4. gids' = [gids EXCEPT ![new] = "active"]
      BY <3>1
    <3> HIDE DEF new
    <3>5. gids' \in [Control!Gids -> {"absent", "active", "paused"} \cup Control!Ended]
      BY <3>2, <3>4
    <3> QED
      BY <3>1, <3>3, <3>5
  <2>3. adding' \subseteq Added
    BY DEF AddAnswered, ControlInvariant, ControlShapes, Added
  <2> QED
    BY <2>1, <2>2, <2>3 DEF ControlInvariant, ControlShapes
<1>6. CASE AddFails
  <2> USE <1>6
  <2>1. UNCHANGED <<magnet, gids, stale, bound, adopted, epoch, revision, carried, cancelled,
                    backoffs, resumers>>
    BY DEF AddFails, MappingStays, LifecycleStays, WorkersStay
  <2>2. adds' \in Nat /\ Control!Refused \in Nat
    BY DEF AddFails, ControlInvariant, ControlShapes, ControlBounds, Control!Refused
  <2>3. adding' \subseteq Added
    BY <2>2 DEF AddFails, ControlInvariant, ControlShapes, Added
  <2> QED
    BY <2>1, <2>2, <2>3 DEF ControlInvariant, ControlShapes
<1>7. CASE AddIsMapped
  <2> USE <1>7
  <2>1. UNCHANGED <<magnet, stale, gids, adds, epoch, carried, cancelled, backoffs, resumers>>
    BY DEF AddIsMapped, GidsStay, WorkersStay
  <2>2. adding' \subseteq adding /\ adopted' = FALSE
    BY DEF AddIsMapped
  <2>3. bound' \in Transfer /\ revision' \in Nat
    BY DEF AddIsMapped, ControlInvariant, ControlShapes, Transfer
  <2> QED
    BY <2>1, <2>2, <2>3 DEF ControlInvariant, ControlShapes
<1>8. CASE AddIsDropped \/ AddIsTakenBack
  BY <1>8
    DEF ControlInvariant, ControlShapes, Transfer, Control!Ended, Control!Gids, Control!Refused,
      AddIsDropped, AddIsTakenBack, GidsStay, MappingStays, LifecycleStays, WorkersStay
<1>9. CASE RetryGivesUp \/ RetryAdds \/ RecoveryAdds
  BY <1>9
    DEF ControlInvariant, ControlShapes, Transfer, Added, ControlBounds, Control!Ended,
      Control!Gids, Control!Refused, RetryGivesUp, RetryAdds, RecoveryAdds, GidsStay,
      MappingStays, LifecycleStays, AddsStay, WorkersStay
<1>10. CASE WorkerLeaves \/ WorkerUnpauses
  BY <1>10
    DEF ControlInvariant, ControlShapes, Control!Gids, Control!Refused, WorkerLeaves,
      WorkerUnpauses, GidsStay, MappingStays, LifecycleStays, AddsStay
<1>11. CASE WorkerFails
  BY <1>11
    DEF ControlInvariant, ControlShapes, Control!Gids, Control!Refused, WorkerFails, GidsStay,
      LifecycleMoves, AddsStay
<1>12. CASE DispatchBegins
  <2> USE <1>12
  <2>1. UNCHANGED <<magnet, stale, gids, adds, bound, adopted, backoffs, resumers>>
    BY DEF DispatchBegins, GidsStay, MappingStays, WorkersStay
  <2>2. epoch' \in Nat /\ revision' \in Nat /\ carried' = TRUE /\ cancelled' = FALSE
    BY DEF DispatchBegins, LifecycleMoves, ControlInvariant, ControlShapes
  <2>3. adding' \subseteq Added
    BY DEF DispatchBegins, ControlInvariant, ControlShapes, Added
  <2> QED
    BY <2>1, <2>2, <2>3 DEF ControlInvariant, ControlShapes
<1>13. CASE PauseTakes
  BY <1>13
    DEF ControlInvariant, ControlShapes, Transfer, Control!Gids, Control!Refused, PauseTakes,
      MappingStays, LifecycleMoves, AddsStay, WorkersStay
<1>14. CASE UnmappedMoves
  <2> USE <1>14
  <2>1. UNCHANGED <<magnet, adding, stale, gids, adds, bound, adopted, backoffs, resumers>>
    BY DEF UnmappedMoves, GidsStay, MappingStays, AddsStay, WorkersStay
  <2>2. epoch' \in Nat /\ revision' \in Nat /\ carried' = FALSE /\ cancelled' = TRUE
    BY DEF UnmappedMoves, LifecycleMoves, ControlInvariant, ControlShapes
  <2> QED
    BY <2>1, <2>2 DEF ControlInvariant, ControlShapes
<1>15. CASE ResumeBegins
  <2> USE <1>15
  <2>1. UNCHANGED <<magnet, adding, stale, gids, adds, bound, adopted, carried, backoffs>>
    BY DEF ResumeBegins, GidsStay, MappingStays, AddsStay
  <2>2. epoch' \in Nat /\ revision' \in Nat /\ cancelled' = FALSE
    BY DEF ResumeBegins, LifecycleMoves, ControlInvariant, ControlShapes
  <2>3. resumers' \subseteq Transfer /\ \A worker \in resumers' : worker.gid # 0
    BY DEF ResumeBegins, ControlInvariant, ControlShapes, Transfer
  <2> QED
    BY <2>1, <2>2, <2>3 DEF ControlInvariant, ControlShapes
<1> QED
  BY <1>1, <1>2, <1>3, <1>4, <1>5, <1>6, <1>7, <1>8, <1>9, <1>10, <1>11, <1>12, <1>13, <1>14,
    <1>15
    DEF ControlStep

\* Only an add makes a new GID known, and the child of a known one.
LEMMA NextNewGidsAreAbsent ==
  ASSUME ControlBounds, ControlInvariant, ControlStep
  PROVE  NewGidsAreAbsent'
<1>1. CASE GidEnds \/ NothingFollows \/ LifecycleEnds \/ ChildAdopted \/ RetryWaits
          \/ AddIsMapped
  BY <1>1
    DEF ControlInvariant, NewGidsAreAbsent, ControlShapes, GidEnds, NothingFollows,
      LifecycleEnds, ChildAdopted, RetryWaits, AddIsMapped, GidsStay
<1>2. CASE ChildBegins
  BY <1>2
    DEF ControlInvariant, NewGidsAreAbsent, ControlShapes, AddedAreKnown, BoundIsKnown,
      StaleWereDispatched, Control!Gids, Control!Parent, ChildBegins
<1>3. CASE AddAnswered \/ AddFails
  BY <1>3
    DEF ControlInvariant, NewGidsAreAbsent, ControlShapes, Added, ControlBounds, AddedAreKnown,
      BoundIsKnown, StaleWereDispatched, Control!Gids, Control!Parent, AddAnswered, AddFails
<1>4. CASE AddIsOutdated \/ AddIsDropped \/ AddIsTakenBack \/ RetryGivesUp \/ RetryAdds
          \/ RecoveryAdds
  BY <1>4
    DEF ControlInvariant, NewGidsAreAbsent, ControlShapes, AddIsOutdated, AddIsDropped,
      AddIsTakenBack, RetryGivesUp, RetryAdds, RecoveryAdds, GidsStay
<1>5. CASE WorkerLeaves \/ WorkerFails \/ DispatchBegins \/ PauseTakes \/ UnmappedMoves
          \/ ResumeBegins
  BY <1>5
    DEF ControlInvariant, NewGidsAreAbsent, ControlShapes, WorkerLeaves, WorkerFails,
      DispatchBegins, PauseTakes, UnmappedMoves, ResumeBegins, GidsStay
<1>6. CASE WorkerUnpauses
  BY <1>6
    DEF ControlInvariant, NewGidsAreAbsent, ControlShapes, AddedAreKnown, BoundIsKnown,
      StaleWereDispatched, WorkerUnpauses
<1> QED
  BY <1>1, <1>2, <1>3, <1>4, <1>5, <1>6 DEF ControlStep

\* What is mapped has been added, or followed what was.
LEMMA NextBoundIsKnown ==
  ASSUME ControlBounds, ControlInvariant, ControlStep
  PROVE  BoundIsKnown'
<1>1. CASE GidEnds \/ ChildBegins \/ NothingFollows \/ LifecycleEnds \/ RetryWaits
          \/ AddIsOutdated
  BY <1>1
    DEF ControlInvariant, BoundIsKnown, ControlShapes, Transfer, GidEnds, ChildBegins,
      NothingFollows, LifecycleEnds, RetryWaits, AddIsOutdated, MappingStays, GidsStay
<1>2. CASE ChildAdopted
  BY <1>2, Parity
    DEF ControlInvariant, BoundIsKnown, ControlShapes, Transfer, AddedAreKnown,
      NewGidsAreAbsent, AdoptedIsChild, StaleWereDispatched, Control!Gids, ChildAdopted,
      GidsStay
<1>3. CASE AddAnswered
  <2> USE <1>3
  <2>1. bound.gid # 0 => bound.gid \in Control!Gids
    BY DEF ControlInvariant, ControlShapes, Transfer
  <2>2. bound.gid # 2 * adds + 1
    BY DEF ControlInvariant, ControlShapes, BoundIsKnown, Transfer, Control!Gids, ControlBounds
  <2>3. bound.gid # 0 => gids'[bound.gid] = gids[bound.gid]
    BY <2>1, <2>2 DEF AddAnswered, ControlInvariant, ControlShapes
  <2>4. bound.gid <= 2 * (adds + 1)
    BY DEF ControlInvariant, ControlShapes, BoundIsKnown, Transfer, Control!Gids, ControlBounds
  <2> QED
    BY <2>3, <2>4 DEF ControlInvariant, BoundIsKnown, AddAnswered, MappingStays
<1>4. CASE AddFails
  <2> USE <1>4
  <2>1. bound.gid <= 2 * (adds + 1)
    BY DEF ControlInvariant, ControlShapes, BoundIsKnown, Transfer, Control!Gids, ControlBounds
  <2> QED
    BY <2>1 DEF ControlInvariant, BoundIsKnown, AddFails, MappingStays
<1>5. CASE AddIsMapped
  BY <1>5
    DEF ControlInvariant, BoundIsKnown, AddedAreKnown, NewGidsAreAbsent, AddIsMapped, GidsStay
<1>6. CASE AddIsDropped \/ AddIsTakenBack \/ RetryGivesUp \/ RetryAdds \/ RecoveryAdds
          \/ WorkerLeaves
  BY <1>6
    DEF ControlInvariant, BoundIsKnown, ControlShapes, Transfer, AddIsDropped, AddIsTakenBack,
      RetryGivesUp, RetryAdds, RecoveryAdds, WorkerLeaves, GidsStay, MappingStays
<1>7. CASE WorkerUnpauses \/ WorkerFails \/ DispatchBegins \/ PauseTakes \/ UnmappedMoves
          \/ ResumeBegins
  BY <1>7
    DEF ControlInvariant, BoundIsKnown, ControlShapes, WorkerUnpauses, WorkerFails,
      DispatchBegins, PauseTakes, UnmappedMoves, ResumeBegins, GidsStay, MappingStays
<1> QED
  BY <1>1, <1>2, <1>3, <1>4, <1>5, <1>6, <1>7 DEF ControlStep

\* What an add is answered with is a parent.
LEMMA NextAddedAreKnown ==
  ASSUME ControlBounds, ControlInvariant, ControlStep
  PROVE  AddedAreKnown'
<1>1. CASE GidEnds \/ ChildBegins \/ NothingFollows \/ LifecycleEnds \/ ChildAdopted
          \/ RetryWaits
  BY <1>1
    DEF ControlInvariant, AddedAreKnown, ControlShapes, GidEnds, ChildBegins, NothingFollows,
      LifecycleEnds, ChildAdopted, RetryWaits, AddsStay, GidsStay
<1>2. CASE AddAnswered
  BY <1>2, Parity
    DEF ControlInvariant, AddedAreKnown, ControlShapes, Added, BoundIsKnown,
      StaleWereDispatched, AddAnswered
<1>3. CASE AddFails
  <2> USE <1>3
  <2>1. PICK add \in adding :
          adding' = (adding \ {add}) \cup {[add EXCEPT !.gid = Control!Refused]}
    BY DEF AddFails
  <2>2. [add EXCEPT !.gid = Control!Refused].gid = Control!Refused
    BY DEF ControlInvariant, ControlShapes, Added
  <2>3. Control!Refused \notin Control!Gids
    BY DEF Control!Refused, Control!Gids, ControlBounds
  <2>4. adds' = adds + 1 /\ adds \in Nat /\ gids' = gids /\ stale' = stale
    BY DEF ControlInvariant, ControlShapes, AddFails
  <2>5. \A g \in Control!Gids : g <= 2 * adds => g <= 2 * (adds + 1)
    BY <2>4 DEF Control!Gids, ControlBounds
  <2>6. \A one \in adding' \cup stale' : one.gid \in Control!Gids => one \in adding \cup stale
    BY <2>1, <2>2, <2>3, <2>4
  <2> QED
    BY <2>4, <2>5, <2>6 DEF ControlInvariant, AddedAreKnown
<1>4. CASE AddIsMapped \/ AddIsOutdated \/ AddIsDropped \/ AddIsTakenBack \/ RetryGivesUp
          \/ WorkerLeaves
  BY <1>4
    DEF ControlInvariant, AddedAreKnown, ControlShapes, AddIsMapped, AddIsOutdated,
      AddIsDropped, AddIsTakenBack, RetryGivesUp, WorkerLeaves, GidsStay, AddsStay
<1>5. CASE RetryAdds
  BY <1>5, Parity DEF ControlInvariant, AddedAreKnown, Control!Gids, RetryAdds, GidsStay
<1>6. CASE RecoveryAdds
  BY <1>6, Parity DEF ControlInvariant, AddedAreKnown, Control!Gids, RecoveryAdds
<1>7. CASE WorkerUnpauses \/ WorkerFails \/ PauseTakes \/ UnmappedMoves \/ ResumeBegins
  BY <1>7
    DEF ControlInvariant, AddedAreKnown, ControlShapes, WorkerUnpauses, WorkerFails, PauseTakes,
      UnmappedMoves, ResumeBegins, AddsStay, GidsStay
<1>8. CASE DispatchBegins
  BY <1>8, Parity DEF ControlInvariant, AddedAreKnown, Control!Gids, DispatchBegins, GidsStay
<1> QED
  BY <1>1, <1>2, <1>3, <1>4, <1>5, <1>6, <1>7, <1>8 DEF ControlStep

\* No two adds are answered with the same GID.
LEMMA NextAddedDiffer ==
  ASSUME ControlBounds, ControlInvariant, ControlStep
  PROVE  AddedDiffer'
<1>1. CASE GidEnds \/ ChildBegins \/ NothingFollows \/ LifecycleEnds \/ ChildAdopted
          \/ RetryWaits
  BY <1>1
    DEF ControlInvariant, AddedDiffer, GidEnds, ChildBegins, NothingFollows, LifecycleEnds,
      ChildAdopted, RetryWaits, AddsStay
<1>2. CASE AddAnswered
  BY <1>2 DEF ControlInvariant, AddedDiffer, ControlShapes, Added, AddedAreKnown, AddAnswered
<1>3. CASE AddFails
  BY <1>3
    DEF ControlInvariant, AddedDiffer, ControlShapes, Added, ControlBounds, AddedAreKnown,
      Control!Refused, Control!Gids, AddFails
<1>4. CASE AddIsMapped \/ AddIsOutdated \/ AddIsDropped \/ AddIsTakenBack \/ RetryGivesUp
          \/ WorkerLeaves
  BY <1>4
    DEF ControlInvariant, AddedDiffer, AddIsMapped, AddIsOutdated, AddIsDropped, AddIsTakenBack,
      RetryGivesUp, WorkerLeaves, AddsStay
<1>5. CASE RetryAdds \/ RecoveryAdds \/ DispatchBegins
  BY <1>5
    DEF ControlInvariant, AddedDiffer, AddedAreKnown, Control!Gids, RetryAdds, RecoveryAdds,
      DispatchBegins
<1>6. CASE WorkerUnpauses \/ WorkerFails \/ PauseTakes \/ UnmappedMoves \/ ResumeBegins
  BY <1>6
    DEF ControlInvariant, AddedDiffer, WorkerUnpauses, WorkerFails, PauseTakes, UnmappedMoves,
      ResumeBegins, AddsStay
<1> QED
  BY <1>1, <1>2, <1>3, <1>4, <1>5, <1>6 DEF ControlStep

\* Complete metadata stay complete, and a child begins after its own.
LEMMA NextChildHasMetadata ==
  ASSUME ControlBounds, ControlInvariant, ControlStep
  PROVE  ChildHasMetadata'
<1>1. CASE GidEnds
  BY <1>1 DEF ControlInvariant, ChildHasMetadata, GidEnds
<1>2. CASE ChildBegins
  <2> USE <1>2
  <2>1. PICK g \in Control!Gids :
          /\ magnet /\ Control!Parent(g) /\ gids[g] = "complete" /\ gids[g + 1] = "absent"
          /\ gids' = [gids EXCEPT ![g + 1] = "active"]
    BY DEF ChildBegins
  <2>2. g + 1 \in Control!Gids /\ g + 1 - 1 = g
    BY <2>1, Parity DEF Control!Gids, ControlBounds
  <2> SUFFICES ASSUME NEW h \in Control!Gids, ~Control!Parent(h), gids'[h] # "absent"
               PROVE  magnet' /\ gids'[h - 1] = "complete"
    BY DEF ChildHasMetadata
  <2>3. h - 1 \in Control!Gids /\ Control!Parent(h - 1)
    BY Parity
  <2>4. h - 1 # g + 1
    BY <2>1, <2>3, Parity DEF Control!Gids, ControlBounds
  <2>5. gids'[h - 1] = gids[h - 1]
    BY <2>1, <2>2, <2>3, <2>4 DEF ControlInvariant, ControlShapes
  <2>6. magnet' = magnet
    BY DEF ChildBegins
  <2>7. CASE h = g + 1
    BY <2>1, <2>2, <2>5, <2>6, <2>7
  <2>8. CASE h # g + 1
    BY <2>1, <2>2, <2>5, <2>6, <2>8 DEF ControlInvariant, ControlShapes, ChildHasMetadata
  <2> QED
    BY <2>7, <2>8
<1>3. CASE NothingFollows \/ LifecycleEnds
  BY <1>3 DEF ControlInvariant, ChildHasMetadata, NothingFollows, LifecycleEnds, GidsStay
<1>4. CASE ChildAdopted \/ RetryWaits \/ AddFails \/ AddIsMapped
  BY <1>4
    DEF ControlInvariant, ChildHasMetadata, ChildAdopted, RetryWaits, AddFails, AddIsMapped,
      GidsStay
<1>5. CASE AddAnswered
  <2> USE <1>5
  <2> SUFFICES ASSUME NEW h \in Control!Gids, ~Control!Parent(h), gids'[h] # "absent"
               PROVE  magnet' /\ gids'[h - 1] = "complete"
    BY DEF ChildHasMetadata
  <2>1. h - 1 \in Control!Gids /\ Control!Parent(h - 1)
    BY Parity
  <2>2. h # 2 * adds + 1
    BY Parity DEF ControlInvariant, ControlShapes
  <2>3. gids[h] # "absent"
    BY <2>2 DEF AddAnswered, ControlInvariant, ControlShapes
  <2>4. magnet /\ gids[h - 1] = "complete"
    BY <2>3 DEF ControlInvariant, ChildHasMetadata
  <2>5. h - 1 # 2 * adds + 1
    BY <2>1, <2>4
      DEF ControlInvariant, ControlShapes, NewGidsAreAbsent, Control!Gids, ControlBounds
  <2> QED
    BY <2>1, <2>4, <2>5 DEF AddAnswered, ControlInvariant, ControlShapes
<1>6. CASE AddIsOutdated
  BY <1>6 DEF ControlInvariant, ChildHasMetadata, AddIsOutdated, GidsStay
<1>7. CASE AddIsDropped
  BY <1>7 DEF ControlInvariant, ChildHasMetadata, AddIsDropped, GidsStay
<1>8. CASE AddIsTakenBack
  BY <1>8 DEF ControlInvariant, ChildHasMetadata, AddIsTakenBack
<1>9. CASE RetryGivesUp \/ RetryAdds \/ RecoveryAdds \/ WorkerLeaves
  BY <1>9
    DEF ControlInvariant, ChildHasMetadata, ControlShapes, RetryGivesUp, RetryAdds,
      RecoveryAdds, WorkerLeaves, GidsStay
<1>10. CASE WorkerUnpauses
  <2> USE <1>10
  <2>1. bound.gid \in Control!Gids /\ gids[bound.gid] = "paused"
    BY DEF WorkerUnpauses, ControlInvariant, ControlShapes, Transfer, CurrentFindsPaused
  <2>2. gids' = [gids EXCEPT ![bound.gid] = "active"] /\ magnet' = magnet
    BY DEF WorkerUnpauses
  <2> SUFFICES ASSUME NEW h \in Control!Gids, ~Control!Parent(h), gids'[h] # "absent"
               PROVE  magnet' /\ gids'[h - 1] = "complete"
    BY DEF ChildHasMetadata
  <2>3. h - 1 \in Control!Gids
    BY Parity
  <2>4. gids[h] # "absent"
    BY <2>1, <2>2 DEF ControlInvariant, ControlShapes
  <2>5. magnet /\ gids[h - 1] = "complete"
    BY <2>4 DEF ControlInvariant, ChildHasMetadata
  <2>6. h - 1 # bound.gid
    BY <2>1, <2>5
  <2> QED
    BY <2>1, <2>2, <2>3, <2>5, <2>6 DEF ControlInvariant, ControlShapes
<1>11. CASE WorkerFails \/ DispatchBegins
  BY <1>11 DEF ControlInvariant, ChildHasMetadata, WorkerFails, DispatchBegins, GidsStay
<1>12. CASE PauseTakes
  BY <1>12 DEF ControlInvariant, ChildHasMetadata, PauseTakes
<1>13. CASE UnmappedMoves \/ ResumeBegins
  BY <1>13 DEF ControlInvariant, ChildHasMetadata, UnmappedMoves, ResumeBegins, GidsStay
<1> QED
  BY <1>1, <1>2, <1>3, <1>4, <1>5, <1>6, <1>7, <1>8, <1>9, <1>10, <1>11, <1>12, <1>13
    DEF ControlStep

\* Only the child of the mapped parent is adopted.
LEMMA NextAdoptedIsChild ==
  ASSUME ControlBounds, ControlInvariant, ControlStep
  PROVE  AdoptedIsChild'
<1>1. CASE GidEnds \/ ChildBegins \/ NothingFollows \/ LifecycleEnds \/ RetryWaits
          \/ AddAnswered \/ AddFails
  BY <1>1
    DEF ControlInvariant, AdoptedIsChild, GidEnds, ChildBegins, NothingFollows, LifecycleEnds,
      RetryWaits, AddAnswered, AddFails, MappingStays
<1>2. CASE ChildAdopted
  <2> USE <1>2
  <2>1. bound.gid \in Control!Gids /\ Control!Parent(bound.gid)
    BY DEF ChildAdopted, ControlInvariant, ControlShapes, Transfer, AdoptedIsChild
  <2>2. bound'.gid = bound.gid + 1 /\ magnet' = magnet /\ magnet /\ adopted'
    BY DEF ChildAdopted, ControlInvariant, ControlShapes, Transfer
  <2>3. bound.gid + 1 # 0 /\ ~Control!Parent(bound.gid + 1)
    BY <2>1, Parity DEF Control!Gids
  <2> QED
    BY <2>2, <2>3 DEF AdoptedIsChild
<1>3. CASE AddIsMapped
  BY <1>3 DEF ControlInvariant, AdoptedIsChild, AddedAreKnown, AddIsMapped
<1>4. CASE AddIsOutdated \/ AddIsDropped \/ AddIsTakenBack \/ RetryGivesUp \/ RetryAdds
          \/ RecoveryAdds \/ WorkerLeaves
  BY <1>4
    DEF ControlInvariant, AdoptedIsChild, AddIsOutdated, AddIsDropped, AddIsTakenBack,
      RetryGivesUp, RetryAdds, RecoveryAdds, WorkerLeaves, MappingStays
<1>5. CASE WorkerUnpauses \/ WorkerFails \/ DispatchBegins \/ PauseTakes \/ UnmappedMoves
          \/ ResumeBegins
  BY <1>5
    DEF ControlInvariant, AdoptedIsChild, WorkerUnpauses, WorkerFails, DispatchBegins,
      PauseTakes, UnmappedMoves, ResumeBegins, MappingStays
<1> QED
  BY <1>1, <1>2, <1>3, <1>4, <1>5 DEF ControlStep

\* A paused GID is unpaused or ends before the mapping leaves it.
LEMMA NextPausedIsBound ==
  ASSUME ControlBounds, ControlInvariant, ControlStep
  PROVE  PausedIsBound'
<1>1. CASE GidEnds \/ ChildBegins \/ NothingFollows \/ LifecycleEnds \/ ChildAdopted
          \/ RetryWaits \/ AddAnswered
  BY <1>1
    DEF ControlInvariant, PausedIsBound, ControlShapes, Transfer, Control!Ended, GidEnds,
      ChildBegins, NothingFollows, LifecycleEnds, ChildAdopted, RetryWaits, AddAnswered,
      MappingStays, GidsStay
<1>2. CASE AddFails \/ AddIsOutdated \/ AddIsDropped \/ AddIsTakenBack \/ RetryGivesUp
          \/ RetryAdds \/ RecoveryAdds
  BY <1>2
    DEF ControlInvariant, PausedIsBound, ControlShapes, AddFails, AddIsOutdated, AddIsDropped,
      AddIsTakenBack, RetryGivesUp, RetryAdds, RecoveryAdds, MappingStays, GidsStay
<1>3. CASE AddIsMapped
  <2> USE <1>3
  <2>1. gids' = gids /\ carried /\ ~cancelled
    BY DEF AddIsMapped, GidsStay
  <2>2. PICK add \in adding :
          /\ add.gid \in Control!Gids /\ add.epoch = epoch
          /\ add.who # "dispatch" => bound.gid = add.old
    BY DEF AddIsMapped
  <2> SUFFICES ASSUME NEW g \in Control!Gids, gids[g] = "paused" PROVE FALSE
    BY <2>1 DEF PausedIsBound
  <2>3. g = bound.gid
    BY DEF ControlInvariant, PausedIsBound
  <2>4. CASE add.who = "dispatch"
    <3>1. bound.gid = 0
      BY <2>2, <2>4 DEF ControlInvariant, DispatchIsAlone
    <3> QED
      BY <3>1, <2>3 DEF Control!Gids
  <2>5. CASE add.who # "dispatch"
    BY <2>2, <2>3, <2>5 DEF ControlInvariant, ReplacersFindTheOld
  <2> QED
    BY <2>4, <2>5
<1>4. CASE WorkerLeaves \/ WorkerUnpauses \/ WorkerFails \/ DispatchBegins \/ PauseTakes
          \/ UnmappedMoves \/ ResumeBegins
  BY <1>4
    DEF ControlInvariant, PausedIsBound, ControlShapes, WorkerLeaves, WorkerUnpauses,
      WorkerFails, DispatchBegins, PauseTakes, UnmappedMoves, ResumeBegins, GidsStay,
      MappingStays
<1> QED
  BY <1>1, <1>2, <1>3, <1>4 DEF ControlStep

\* What is mapped has been taken from its add.
LEMMA NextGivenIsUnbound ==
  ASSUME ControlBounds, ControlInvariant, ControlStep
  PROVE  GivenIsUnbound'
<1>1. CASE GidEnds \/ AddIsMapped
  BY <1>1
    DEF ControlInvariant, GivenIsUnbound, ControlShapes, Given, AddedAreKnown, AddedDiffer,
      StaleWereDispatched, GidEnds, AddIsMapped, MappingStays, AddsStay, GidsStay
<1>2. CASE ChildBegins \/ NothingFollows \/ RetryWaits \/ AddIsOutdated \/ AddIsDropped
          \/ AddIsTakenBack \/ RetryGivesUp
  BY <1>2
    DEF ControlInvariant, GivenIsUnbound, ControlShapes, Given, ChildBegins, NothingFollows,
      RetryWaits, AddIsOutdated, AddIsDropped, AddIsTakenBack, RetryGivesUp, MappingStays,
      AddsStay, GidsStay
<1>3. CASE LifecycleEnds
  BY <1>3
    DEF ControlInvariant, GivenIsUnbound, Given, BoundIsKnown, Control!Gids, LifecycleEnds,
      GidsStay
<1>4. CASE ChildAdopted
  <2> USE <1>4
  <2>1. bound.gid \in Control!Gids /\ Control!Parent(bound.gid)
    BY DEF ChildAdopted, ControlInvariant, ControlShapes, Transfer, AdoptedIsChild
  <2>2. bound'.gid = bound.gid + 1 /\ UNCHANGED <<magnet, gids, adding, stale>>
    BY DEF ChildAdopted, ControlInvariant, ControlShapes, Transfer, GidsStay, AddsStay
  <2>3. ~Control!Parent(bound.gid + 1)
    BY <2>1, Parity DEF Control!Gids
  <2>4. ASSUME NEW g \in Control!Gids, Given(g) PROVE Control!Parent(g)
    BY <2>4 DEF ControlInvariant, AddedAreKnown, Given
  <2> QED
    BY <2>2, <2>3, <2>4 DEF ControlInvariant, GivenIsUnbound, Given
<1>5. CASE AddAnswered
  BY <1>5
    DEF ControlInvariant, GivenIsUnbound, ControlShapes, Added, Given, BoundIsKnown,
      Control!Gids, AddAnswered, MappingStays
<1>6. CASE AddFails
  BY <1>6
    DEF ControlInvariant, GivenIsUnbound, ControlShapes, Added, ControlBounds, Given,
      Control!Gids, Control!Refused, AddFails, MappingStays
<1>7. CASE RetryAdds \/ DispatchBegins
  BY <1>7
    DEF ControlInvariant, GivenIsUnbound, Given, BoundIsKnown, Control!Gids, RetryAdds,
      DispatchBegins, GidsStay, MappingStays
<1>8. CASE RecoveryAdds \/ WorkerLeaves \/ WorkerUnpauses \/ WorkerFails \/ PauseTakes
          \/ UnmappedMoves \/ ResumeBegins
  BY <1>8
    DEF ControlInvariant, GivenIsUnbound, ControlShapes, Given, RecoveryAdds, WorkerLeaves,
      WorkerUnpauses, WorkerFails, PauseTakes, UnmappedMoves, ResumeBegins, MappingStays,
      GidsStay, AddsStay
<1> QED
  BY <1>1, <1>2, <1>3, <1>4, <1>5, <1>6, <1>7, <1>8 DEF ControlStep

\* A GID goes from its add to the mapping, and from there to what is ignored.
LEMMA NextEveryGidHasItsPlace ==
  ASSUME ControlBounds, ControlInvariant, ControlStep
  PROVE  EveryGidHasItsPlace'
<1>1. CASE GidEnds \/ NothingFollows \/ ChildAdopted \/ RetryWaits \/ AddIsOutdated
          \/ AddIsDropped \/ RetryGivesUp \/ RetryAdds
  BY <1>1
    DEF ControlInvariant, EveryGidHasItsPlace, ControlShapes, Transfer, Control!Ended, Given,
      GidEnds, NothingFollows, ChildAdopted, RetryWaits, AddIsOutdated, AddIsDropped,
      RetryGivesUp, RetryAdds, MappingStays, AddsStay, GidsStay
<1>2. CASE ChildBegins
  <2> USE <1>2
  <2>1. PICK g \in Control!Gids :
          /\ magnet /\ Control!Parent(g) /\ g = bound.gid
          /\ gids' = [gids EXCEPT ![g + 1] = "active"]
    BY DEF ChildBegins
  <2>2. ~adopted /\ bound.gid # 0
    BY <2>1 DEF ControlInvariant, AdoptedIsChild, Control!Gids
  <2>3. \A h \in Control!Gids : h # g + 1 => gids'[h] = gids[h]
    BY <2>1 DEF ControlInvariant, ControlShapes
  <2>4. UNCHANGED <<bound, adopted, ignored, adding, stale>>
    BY DEF ChildBegins, MappingStays, AddsStay
  <2> QED
    BY <2>1, <2>2, <2>3, <2>4 DEF ControlInvariant, EveryGidHasItsPlace, Given
<1>3. CASE LifecycleEnds
  <2> USE <1>3
  <2>1. gids' = gids /\ stale' = stale /\ bound'.gid = 0
    BY DEF LifecycleEnds, GidsStay
  <2>2. ignored' = ignored \cup ({bound.gid} \ {0})
    BY DEF LifecycleEnds
  <2>3. \A g \in Control!Gids : Given(g) => Given(g)'
    BY <2>1 DEF LifecycleEnds, Given
  <2> SUFFICES ASSUME NEW g \in Control!Gids, gids[g] # "absent", ~Given(g)
               PROVE  g \in ignored' /\ gids[g] \in Control!Ended
    BY <2>1, <2>3 DEF EveryGidHasItsPlace
  <2>4. CASE g = bound.gid
    BY <2>2, <2>4 DEF LifecycleEnds, Control!Gids
  <2>5. CASE bound.gid # 0 /\ g = bound.gid + 1 /\ ~adopted
    <3>1. ~Control!Parent(g) /\ bound.gid \in Control!Gids
      BY <2>5, Parity
        DEF ControlInvariant, AdoptedIsChild, ControlShapes, Transfer, Control!Gids
    <3>2. magnet /\ gids[bound.gid] = "complete"
      BY <3>1, <2>5 DEF ControlInvariant, ChildHasMetadata, Control!Gids
    <3> QED
      BY <3>2, <2>5 DEF LifecycleEnds
  <2>6. CASE g \in ignored /\ gids[g] \in Control!Ended
    BY <2>2, <2>6
  <2> QED
    BY <2>4, <2>5, <2>6 DEF ControlInvariant, EveryGidHasItsPlace
<1>4. CASE AddAnswered
  <2> USE <1>4
  <2>1. PICK add \in adding :
          add.gid = 0 /\ adding' = (adding \ {add}) \cup {[add EXCEPT !.gid = 2 * adds + 1]}
    BY DEF AddAnswered
  <2>2. [add EXCEPT !.gid = 2 * adds + 1].gid = 2 * adds + 1
    BY DEF ControlInvariant, ControlShapes, Added
  <2>3. UNCHANGED <<bound, adopted, ignored, stale>>
    BY DEF AddAnswered, MappingStays
  <2>4. \A g \in Control!Gids : g # 2 * adds + 1 => gids'[g] = gids[g]
    BY DEF AddAnswered, ControlInvariant, ControlShapes
  <2>5. \A g \in Control!Gids : g = 2 * adds + 1 => Given(g)'
    <3>1. [add EXCEPT !.gid = 2 * adds + 1] \in adding' \cup stale'
      BY <2>1
    <3> QED
      BY <3>1, <2>2 DEF Given
  <2>6. \A g \in Control!Gids : Given(g) => Given(g)'
    BY <2>1, <2>3 DEF Given, Control!Gids
  <2> QED
    BY <2>3, <2>4, <2>5, <2>6 DEF ControlInvariant, EveryGidHasItsPlace
<1>5. CASE AddFails
  BY <1>5
    DEF ControlInvariant, EveryGidHasItsPlace, Given, AddedAreKnown, BoundIsKnown, Control!Gids,
      PausedIsBound, AddFails, MappingStays
<1>6. CASE AddIsMapped
  <2> USE <1>6
  <2>1. PICK add \in adding :
          /\ add.gid \in Control!Gids /\ add.epoch = epoch
          /\ add.who # "dispatch" => bound.gid = add.old
          /\ adding' = adding \ {add}
          /\ bound'.gid = add.gid
          /\ ignored' = (ignored \ {add.gid}) \cup ({bound.gid} \ {0, add.gid})
    BY DEF AddIsMapped
  <2>2. gids' = gids /\ stale' = stale
    BY DEF AddIsMapped, GidsStay
  <2>3. bound.gid # 0 => bound.gid \in Control!Gids /\ gids[bound.gid] \in {"error", "removed"}
    <3>1. CASE add.who = "dispatch"
      BY <2>1, <3>1 DEF ControlInvariant, DispatchIsAlone
    <3>2. CASE add.who # "dispatch"
      <4>1. bound.gid = add.old /\ add.old # 0 /\ gids[add.old] \in {"error", "removed"}
        BY <2>1, <3>2 DEF ControlInvariant, ReplacersFindTheOld
      <4> QED
        BY <4>1 DEF ControlInvariant, ControlShapes, Transfer
    <3> QED
      BY <3>1, <3>2
  <2> SUFFICES ASSUME NEW g \in Control!Gids, gids[g] # "absent", g # add.gid
               PROVE  Given(g)' \/ (g \in ignored' /\ gids[g] \in Control!Ended)
    BY <2>1, <2>2 DEF EveryGidHasItsPlace
  <2>4. CASE g = bound.gid
    BY <2>1, <2>3, <2>4 DEF Control!Gids, Control!Ended
  <2>5. CASE bound.gid # 0 /\ g = bound.gid + 1 /\ ~adopted
    <3>1. ~Control!Parent(g)
      BY <2>3, <2>5, Parity DEF ControlInvariant, AdoptedIsChild, Control!Gids
    <3>2. gids[bound.gid] = "complete"
      BY <3>1, <2>3, <2>5 DEF ControlInvariant, ChildHasMetadata, Control!Gids
    <3> QED
      BY <3>2, <2>3, <2>5
  <2>6. CASE Given(g)
    <3>1. PICK other \in adding \cup stale : other.gid = g
      BY <2>6 DEF Given
    <3>2. other \in adding' \cup stale'
      BY <2>1, <2>2, <3>1
    <3> QED
      BY <3>1, <3>2 DEF Given
  <2>7. CASE g \in ignored /\ gids[g] \in Control!Ended
    BY <2>1, <2>7
  <2> QED
    BY <2>4, <2>5, <2>6, <2>7 DEF ControlInvariant, EveryGidHasItsPlace
<1>7. CASE AddIsTakenBack
  BY <1>7
    DEF ControlInvariant, EveryGidHasItsPlace, ControlShapes, Transfer, Control!Ended, Given,
      StaleWereDispatched, PausedIsBound, AddIsTakenBack
<1>8. CASE RecoveryAdds \/ WorkerLeaves \/ WorkerUnpauses \/ WorkerFails \/ DispatchBegins
          \/ PauseTakes \/ UnmappedMoves \/ ResumeBegins
  BY <1>8
    DEF ControlInvariant, EveryGidHasItsPlace, ControlShapes, Given, RecoveryAdds, WorkerLeaves,
      WorkerUnpauses, WorkerFails, DispatchBegins, PauseTakes, UnmappedMoves, ResumeBegins,
      MappingStays, GidsStay, AddsStay
<1> QED
  BY <1>1, <1>2, <1>3, <1>4, <1>5, <1>6, <1>7, <1>8 DEF ControlStep

\* The permit goes back only with the mapping.
LEMMA NextBoundIsCarried ==
  ASSUME ControlBounds, ControlInvariant, ControlStep
  PROVE  BoundIsCarried'
<1>1. CASE GidEnds \/ ChildBegins \/ NothingFollows \/ LifecycleEnds \/ ChildAdopted
          \/ RetryWaits \/ AddAnswered \/ AddFails
  BY <1>1
    DEF ControlInvariant, BoundIsCarried, GidEnds, ChildBegins, NothingFollows, LifecycleEnds,
      ChildAdopted, RetryWaits, AddAnswered, AddFails, MappingStays, LifecycleStays
<1>2. CASE AddIsMapped \/ AddIsOutdated \/ AddIsDropped \/ AddIsTakenBack \/ RetryGivesUp
          \/ RetryAdds \/ RecoveryAdds \/ WorkerLeaves
  BY <1>2
    DEF ControlInvariant, BoundIsCarried, AddIsMapped, AddIsOutdated, AddIsDropped,
      AddIsTakenBack, RetryGivesUp, RetryAdds, RecoveryAdds, WorkerLeaves, MappingStays,
      LifecycleStays
<1>3. CASE WorkerUnpauses \/ WorkerFails \/ DispatchBegins \/ PauseTakes \/ UnmappedMoves
          \/ ResumeBegins
  BY <1>3
    DEF ControlInvariant, BoundIsCarried, WorkerUnpauses, WorkerFails, DispatchBegins,
      PauseTakes, UnmappedMoves, ResumeBegins, LifecycleStays, MappingStays
<1> QED
  BY <1>1, <1>2, <1>3 DEF ControlStep

\* No add is of an epoch to come.
LEMMA NextAddsAreOfNow ==
  ASSUME ControlBounds, ControlInvariant, ControlStep
  PROVE  AddsAreOfNow'
<1>1. CASE GidEnds \/ ChildBegins \/ NothingFollows \/ LifecycleEnds \/ ChildAdopted
          \/ RetryWaits \/ AddAnswered \/ AddFails
  BY <1>1
    DEF ControlInvariant, AddsAreOfNow, ControlShapes, Added, GidEnds, ChildBegins,
      NothingFollows, LifecycleEnds, ChildAdopted, RetryWaits, AddAnswered, AddFails,
      LifecycleStays, AddsStay, LifecycleMoves
<1>2. CASE AddIsMapped \/ AddIsOutdated \/ AddIsDropped \/ AddIsTakenBack \/ RetryGivesUp
          \/ RetryAdds \/ RecoveryAdds \/ WorkerLeaves
  BY <1>2
    DEF ControlInvariant, AddsAreOfNow, ControlShapes, AddIsMapped, AddIsOutdated, AddIsDropped,
      AddIsTakenBack, RetryGivesUp, RetryAdds, RecoveryAdds, WorkerLeaves, LifecycleStays,
      AddsStay
<1>3. CASE WorkerUnpauses \/ WorkerFails \/ DispatchBegins \/ PauseTakes \/ UnmappedMoves
          \/ ResumeBegins
  BY <1>3
    DEF ControlInvariant, AddsAreOfNow, ControlShapes, Added, WorkerUnpauses, WorkerFails,
      DispatchBegins, PauseTakes, UnmappedMoves, ResumeBegins, LifecycleStays, AddsStay,
      LifecycleMoves
<1> QED
  BY <1>1, <1>2, <1>3 DEF ControlStep

\* What maps or cancels the download leaves the epoch of its dispatch.
LEMMA NextDispatchIsAlone ==
  ASSUME ControlBounds, ControlInvariant, ControlStep
  PROVE  DispatchIsAlone'
<1>1. CASE GidEnds \/ ChildBegins \/ NothingFollows \/ ChildAdopted \/ RetryWaits
          \/ AddAnswered \/ AddFails \/ AddIsOutdated
  BY <1>1
    DEF ControlInvariant, DispatchIsAlone, ControlShapes, Added, GidEnds, ChildBegins,
      NothingFollows, ChildAdopted, RetryWaits, AddAnswered, AddFails, AddIsOutdated,
      MappingStays, LifecycleStays, AddsStay
<1>2. CASE LifecycleEnds \/ WorkerFails \/ DispatchBegins \/ PauseTakes \/ UnmappedMoves
          \/ ResumeBegins
  BY <1>2
    DEF ControlInvariant, DispatchIsAlone, ControlShapes, BoundIsCarried, AddsAreOfNow,
      DispatchesDiffer, LifecycleEnds, WorkerFails, DispatchBegins, PauseTakes, UnmappedMoves,
      ResumeBegins, LifecycleMoves, AddsStay, MappingStays
<1>3. CASE AddIsMapped
  BY <1>3
    DEF ControlInvariant, DispatchIsAlone, AddedDiffer, DispatchesDiffer, ReplacersFindTheOld,
      AddsAreOfNow, AddIsMapped
<1>4. CASE AddIsDropped \/ AddIsTakenBack \/ RetryGivesUp \/ RetryAdds \/ RecoveryAdds
          \/ WorkerLeaves \/ WorkerUnpauses
  BY <1>4
    DEF ControlInvariant, DispatchIsAlone, AddIsDropped, AddIsTakenBack, RetryGivesUp,
      RetryAdds, RecoveryAdds, WorkerLeaves, WorkerUnpauses, MappingStays, LifecycleStays,
      AddsStay
<1> QED
  BY <1>1, <1>2, <1>3, <1>4 DEF ControlStep

\* Each dispatch begins an epoch of its own.
LEMMA NextDispatchesDiffer ==
  ASSUME ControlBounds, ControlInvariant, ControlStep
  PROVE  DispatchesDiffer'
<1>1. CASE GidEnds \/ ChildBegins \/ NothingFollows \/ LifecycleEnds \/ ChildAdopted
          \/ RetryWaits \/ AddAnswered
  BY <1>1
    DEF ControlInvariant, DispatchesDiffer, ControlShapes, Added, GidEnds, ChildBegins,
      NothingFollows, LifecycleEnds, ChildAdopted, RetryWaits, AddAnswered, LifecycleStays,
      AddsStay, LifecycleMoves
<1>2. CASE AddFails \/ AddIsMapped \/ AddIsOutdated \/ AddIsDropped \/ AddIsTakenBack
          \/ RetryGivesUp \/ RetryAdds
  BY <1>2
    DEF ControlInvariant, DispatchesDiffer, ControlShapes, Added, AddFails, AddIsMapped,
      AddIsOutdated, AddIsDropped, AddIsTakenBack, RetryGivesUp, RetryAdds, LifecycleStays,
      AddsStay
<1>3. CASE RecoveryAdds \/ WorkerLeaves \/ WorkerUnpauses \/ WorkerFails \/ PauseTakes
          \/ UnmappedMoves \/ ResumeBegins
  BY <1>3
    DEF ControlInvariant, DispatchesDiffer, RecoveryAdds, WorkerLeaves, WorkerUnpauses,
      WorkerFails, PauseTakes, UnmappedMoves, ResumeBegins, LifecycleStays, AddsStay,
      LifecycleMoves
<1>4. CASE DispatchBegins
  BY <1>4
    DEF ControlInvariant, DispatchesDiffer, ControlShapes, AddsAreOfNow, DispatchBegins,
      LifecycleMoves
<1> QED
  BY <1>1, <1>2, <1>3, <1>4 DEF ControlStep

\* The lock keeps the old GID mapped, and in its epoch, until the new one is.
LEMMA NextReplacersFindTheOld ==
  ASSUME ControlBounds, ControlInvariant, ControlStep
  PROVE  ReplacersFindTheOld'
<1>1. CASE GidEnds \/ ChildBegins \/ NothingFollows \/ LifecycleEnds \/ ChildAdopted
          \/ RetryWaits
  BY <1>1
    DEF ControlInvariant, ReplacersFindTheOld, ControlShapes, Transfer, GidEnds, ChildBegins,
      NothingFollows, LifecycleEnds, ChildAdopted, RetryWaits, MappingStays, LifecycleStays,
      AddsStay, GidsStay, LifecycleMoves
<1>2. CASE AddAnswered
  BY <1>2
    DEF ControlInvariant, ReplacersFindTheOld, ControlShapes, Added, AddedAreKnown,
      StaleWereDispatched, BoundIsKnown, AddAnswered, MappingStays, LifecycleStays
<1>3. CASE AddFails \/ AddIsOutdated \/ AddIsDropped \/ AddIsTakenBack \/ RetryGivesUp
          \/ RecoveryAdds
  BY <1>3
    DEF ControlInvariant, ReplacersFindTheOld, ControlShapes, Transfer, Added, AddFails,
      AddIsOutdated, AddIsDropped, AddIsTakenBack, RetryGivesUp, RecoveryAdds, MappingStays,
      LifecycleStays, GidsStay, AddsStay
<1>4. CASE AddIsMapped
  BY <1>4
    DEF ControlInvariant, ReplacersFindTheOld, DispatchIsAlone, AddsAreOfNow, AddIsMapped,
      GidsStay
<1>5. CASE RetryAdds
  <2> USE <1>5
  <2> DEFINE new == [who |-> "retry", epoch |-> epoch, old |-> bound.gid, gid |-> 0]
  <2>1. bound.gid # 0 /\ gids[bound.gid] \in {"error", "removed"}
    BY DEF RetryAdds, ControlInvariant, ControlShapes, BackoffsFollowEnds, Control!Gids
  <2>2. new.who = "retry" /\ new.epoch = epoch /\ new.old = bound.gid
    OBVIOUS
  <2>3. adding' = adding \cup {new} /\ UNCHANGED <<epoch, carried, cancelled, bound, gids>>
    BY DEF RetryAdds, GidsStay, MappingStays, LifecycleStays
  <2>4. carried /\ ~cancelled /\ \A add \in adding : add.who = "dispatch"
    BY DEF RetryAdds
  <2> HIDE DEF new
  <2> QED
    BY <2>1, <2>2, <2>3, <2>4 DEF ReplacersFindTheOld
<1>6. CASE WorkerLeaves \/ WorkerFails \/ DispatchBegins \/ PauseTakes \/ UnmappedMoves
          \/ ResumeBegins
  BY <1>6
    DEF ControlInvariant, ReplacersFindTheOld, WorkerLeaves, WorkerFails, DispatchBegins,
      PauseTakes, UnmappedMoves, ResumeBegins, GidsStay, MappingStays, LifecycleStays, AddsStay,
      LifecycleMoves
<1>7. CASE WorkerUnpauses
  BY <1>7
    DEF ControlInvariant, ReplacersFindTheOld, DispatchIsAlone, CurrentFindsPaused,
      WorkerUnpauses, LifecycleStays, AddsStay
<1> QED
  BY <1>1, <1>2, <1>3, <1>4, <1>5, <1>6, <1>7 DEF ControlStep

\* Only a dispatch is outdated: the others have the lock.
LEMMA NextStaleWereDispatched ==
  ASSUME ControlBounds, ControlInvariant, ControlStep
  PROVE  StaleWereDispatched'
<1>1. CASE GidEnds \/ ChildBegins \/ NothingFollows \/ LifecycleEnds \/ ChildAdopted
          \/ RetryWaits \/ AddAnswered \/ AddFails
  BY <1>1
    DEF ControlInvariant, StaleWereDispatched, GidEnds, ChildBegins, NothingFollows,
      LifecycleEnds, ChildAdopted, RetryWaits, AddAnswered, AddFails, AddsStay
<1>2. CASE AddIsMapped \/ AddIsOutdated \/ AddIsDropped \/ AddIsTakenBack \/ RetryGivesUp
          \/ RetryAdds \/ RecoveryAdds \/ WorkerLeaves
  BY <1>2
    DEF ControlInvariant, StaleWereDispatched, AddIsMapped, AddIsOutdated, AddIsDropped,
      AddIsTakenBack, RetryGivesUp, RetryAdds, RecoveryAdds, WorkerLeaves, AddsStay
<1>3. CASE WorkerUnpauses \/ WorkerFails \/ DispatchBegins \/ PauseTakes \/ UnmappedMoves
          \/ ResumeBegins
  BY <1>3
    DEF ControlInvariant, StaleWereDispatched, WorkerUnpauses, WorkerFails, DispatchBegins,
      PauseTakes, UnmappedMoves, ResumeBegins, AddsStay
<1> QED
  BY <1>1, <1>2, <1>3 DEF ControlStep

\* A retry waits for a GID that has failed, and it stays so.
LEMMA NextBackoffsFollowEnds ==
  ASSUME ControlBounds, ControlInvariant, ControlStep
  PROVE  BackoffsFollowEnds'
<1>1. CASE GidEnds \/ ChildBegins \/ NothingFollows \/ LifecycleEnds \/ ChildAdopted
          \/ RetryWaits \/ AddFails
  BY <1>1
    DEF ControlInvariant, BackoffsFollowEnds, ControlShapes, GidEnds, ChildBegins,
      NothingFollows, LifecycleEnds, ChildAdopted, RetryWaits, AddFails, WorkersStay, GidsStay
<1>2. CASE AddAnswered
  BY <1>2
    DEF ControlInvariant, BackoffsFollowEnds, ControlShapes, NewGidsAreAbsent, Control!Gids,
      AddAnswered, WorkersStay
<1>3. CASE AddIsMapped \/ AddIsOutdated \/ AddIsDropped \/ AddIsTakenBack \/ RetryGivesUp
          \/ RetryAdds \/ RecoveryAdds
  BY <1>3
    DEF ControlInvariant, BackoffsFollowEnds, ControlShapes, AddIsMapped, AddIsOutdated,
      AddIsDropped, AddIsTakenBack, RetryGivesUp, RetryAdds, RecoveryAdds, GidsStay, WorkersStay
<1>4. CASE WorkerLeaves \/ WorkerFails \/ DispatchBegins \/ PauseTakes \/ UnmappedMoves
          \/ ResumeBegins
  BY <1>4
    DEF ControlInvariant, BackoffsFollowEnds, ControlShapes, WorkerLeaves, WorkerFails,
      DispatchBegins, PauseTakes, UnmappedMoves, ResumeBegins, GidsStay, WorkersStay
<1>5. CASE WorkerUnpauses
  BY <1>5 DEF ControlInvariant, BackoffsFollowEnds, CurrentFindsPaused, WorkerUnpauses
<1> QED
  BY <1>1, <1>2, <1>3, <1>4, <1>5 DEF ControlStep

\* No worker is of an epoch to come.
LEMMA NextWorkersAreOfNow ==
  ASSUME ControlBounds, ControlInvariant, ControlStep
  PROVE  WorkersAreOfNow'
<1>1. CASE GidEnds \/ ChildBegins \/ NothingFollows \/ LifecycleEnds \/ ChildAdopted
          \/ RetryWaits \/ AddAnswered \/ AddFails
  BY <1>1
    DEF ControlInvariant, WorkersAreOfNow, ControlShapes, Transfer, GidEnds, ChildBegins,
      NothingFollows, LifecycleEnds, ChildAdopted, RetryWaits, AddAnswered, AddFails,
      MappingStays, LifecycleStays, WorkersStay, LifecycleMoves
<1>2. CASE AddIsMapped \/ AddIsOutdated \/ AddIsDropped \/ AddIsTakenBack \/ RetryGivesUp
          \/ RetryAdds \/ RecoveryAdds \/ WorkerLeaves
  BY <1>2
    DEF ControlInvariant, WorkersAreOfNow, ControlShapes, Transfer, AddIsMapped, AddIsOutdated,
      AddIsDropped, AddIsTakenBack, RetryGivesUp, RetryAdds, RecoveryAdds, WorkerLeaves,
      WorkersStay, MappingStays, LifecycleStays
<1>3. CASE WorkerUnpauses \/ WorkerFails \/ DispatchBegins \/ PauseTakes \/ UnmappedMoves
          \/ ResumeBegins
  BY <1>3
    DEF ControlInvariant, WorkersAreOfNow, ControlShapes, Transfer, WorkerUnpauses, WorkerFails,
      DispatchBegins, PauseTakes, UnmappedMoves, ResumeBegins, LifecycleStays, LifecycleMoves,
      MappingStays, WorkersStay
<1> QED
  BY <1>1, <1>2, <1>3 DEF ControlStep

\* Each resume begins an epoch of its own.
LEMMA NextWorkersDiffer ==
  ASSUME ControlBounds, ControlInvariant, ControlStep
  PROVE  WorkersDiffer'
<1>1. CASE GidEnds \/ ChildBegins \/ NothingFollows \/ LifecycleEnds \/ ChildAdopted
          \/ RetryWaits \/ AddAnswered
  BY <1>1
    DEF ControlInvariant, WorkersDiffer, GidEnds, ChildBegins, NothingFollows, LifecycleEnds,
      ChildAdopted, RetryWaits, AddAnswered, LifecycleStays, WorkersStay, LifecycleMoves
<1>2. CASE AddFails \/ AddIsMapped \/ AddIsOutdated \/ AddIsDropped \/ AddIsTakenBack
          \/ RetryGivesUp \/ RetryAdds
  BY <1>2
    DEF ControlInvariant, WorkersDiffer, AddFails, AddIsMapped, AddIsOutdated, AddIsDropped,
      AddIsTakenBack, RetryGivesUp, RetryAdds, LifecycleStays, WorkersStay
<1>3. CASE RecoveryAdds \/ WorkerLeaves \/ WorkerUnpauses \/ WorkerFails \/ DispatchBegins
          \/ PauseTakes \/ UnmappedMoves
  BY <1>3
    DEF ControlInvariant, WorkersDiffer, RecoveryAdds, WorkerLeaves, WorkerUnpauses,
      WorkerFails, DispatchBegins, PauseTakes, UnmappedMoves, LifecycleStays, WorkersStay,
      LifecycleMoves
<1>4. CASE ResumeBegins
  BY <1>4
    DEF ControlInvariant, WorkersDiffer, ControlShapes, WorkersAreOfNow, ResumeBegins,
      LifecycleMoves
<1> QED
  BY <1>1, <1>2, <1>3, <1>4 DEF ControlStep

\* A GID is unpaused, removed or mapped anew only in another epoch than that of the worker.
LEMMA NextCurrentFindsPaused ==
  ASSUME ControlBounds, ControlInvariant, ControlStep
  PROVE  CurrentFindsPaused'
<1>1. CASE GidEnds \/ ChildBegins \/ NothingFollows \/ ChildAdopted \/ RetryWaits \/ AddFails
          \/ AddIsOutdated
  BY <1>1
    DEF ControlInvariant, CurrentFindsPaused, ControlShapes, Transfer, GidEnds, ChildBegins,
      NothingFollows, ChildAdopted, RetryWaits, AddFails, AddIsOutdated, MappingStays,
      LifecycleStays, WorkersStay, GidsStay
<1>2. CASE LifecycleEnds \/ AddIsMapped \/ WorkerFails \/ DispatchBegins \/ PauseTakes
          \/ UnmappedMoves \/ ResumeBegins
  BY <1>2
    DEF ControlInvariant, CurrentFindsPaused, ControlShapes, WorkersAreOfNow, LifecycleEnds,
      AddIsMapped, WorkerFails, DispatchBegins, PauseTakes, UnmappedMoves, ResumeBegins,
      GidsStay, LifecycleMoves, WorkersStay, MappingStays
<1>3. CASE AddAnswered
  <2> USE <1>3
  <2>1. \A g \in Control!Gids : gids[g] = "paused" => gids'[g] = "paused"
    <3> SUFFICES ASSUME NEW g \in Control!Gids, gids[g] = "paused" PROVE gids'[g] = "paused"
      OBVIOUS
    <3>1. g # 2 * adds + 1
      BY DEF ControlInvariant, ControlShapes, NewGidsAreAbsent, Control!Gids
    <3> QED
      BY <3>1 DEF AddAnswered, ControlInvariant, ControlShapes
  <2>2. \A worker \in resumers : worker.gid \in Control!Gids
    BY DEF ControlInvariant, ControlShapes, Transfer
  <2> QED
    BY <2>1, <2>2
      DEF ControlInvariant, CurrentFindsPaused, AddAnswered, MappingStays, LifecycleStays,
        WorkersStay
<1>4. CASE AddIsDropped \/ AddIsTakenBack \/ RetryGivesUp \/ RetryAdds \/ RecoveryAdds
          \/ WorkerLeaves \/ WorkerUnpauses
  BY <1>4
    DEF ControlInvariant, CurrentFindsPaused, ControlShapes, Transfer, AddIsDropped,
      AddIsTakenBack, RetryGivesUp, RetryAdds, RecoveryAdds, WorkerLeaves, WorkerUnpauses,
      GidsStay, MappingStays, LifecycleStays, WorkersStay
<1> QED
  BY <1>1, <1>2, <1>3, <1>4 DEF ControlStep

\* The row shows an end only together with it.
LEMMA NextRowShowsTheEnd ==
  ASSUME ControlBounds, ControlInvariant, ControlStep
  PROVE  RowShowsTheEnd'
<1>1. CASE GidEnds \/ ChildBegins \/ NothingFollows \/ LifecycleEnds \/ ChildAdopted
          \/ RetryWaits \/ AddFails
  BY <1>1
    DEF ControlInvariant, RowShowsTheEnd, ControlShapes, Transfer, GidEnds, ChildBegins,
      NothingFollows, LifecycleEnds, ChildAdopted, RetryWaits, AddFails, MappingStays,
      LifecycleStays, GidsStay
<1>2. CASE AddAnswered
  BY <1>2
    DEF ControlInvariant, RowShowsTheEnd, ControlShapes, GivenIsUnbound, Given,
      StaleWereDispatched, BoundIsKnown, AddAnswered, MappingStays, LifecycleStays
<1>3. CASE AddIsMapped \/ AddIsOutdated \/ AddIsDropped \/ AddIsTakenBack \/ RetryGivesUp
          \/ RetryAdds \/ RecoveryAdds
  BY <1>3
    DEF ControlInvariant, RowShowsTheEnd, ControlShapes, Transfer, AddIsMapped, AddIsOutdated,
      AddIsDropped, AddIsTakenBack, RetryGivesUp, RetryAdds, RecoveryAdds, GidsStay,
      MappingStays, LifecycleStays
<1>4. CASE WorkerLeaves \/ WorkerUnpauses \/ DispatchBegins \/ PauseTakes \/ UnmappedMoves
          \/ ResumeBegins
  BY <1>4
    DEF ControlInvariant, RowShowsTheEnd, ControlShapes, Transfer, WorkerLeaves, WorkerUnpauses,
      DispatchBegins, PauseTakes, UnmappedMoves, ResumeBegins, GidsStay, MappingStays,
      LifecycleStays
<1>5. CASE WorkerFails
  BY <1>5
    DEF ControlInvariant, RowShowsTheEnd, DispatchIsAlone, ReplacersFindTheOld,
      CurrentFindsPaused, WorkerFails, GidsStay
<1> QED
  BY <1>1, <1>2, <1>3, <1>4, <1>5 DEF ControlStep

\* A good GID stays good.
LEMMA GoodStays ==
  ASSUME ControlBounds, ControlInvariant, ControlStep
  PROVE  \A g \in Control!Gids : Good(g) => Good(g)'
<1>1. CASE GidEnds \/ ChildBegins \/ NothingFollows \/ LifecycleEnds \/ ChildAdopted
          \/ RetryWaits \/ AddIsMapped \/ AddIsOutdated
  BY <1>1
    DEF ControlInvariant, ControlShapes, Good, Given, GidEnds, ChildBegins, NothingFollows,
      LifecycleEnds, ChildAdopted, RetryWaits, AddIsMapped, AddIsOutdated, AddsStay, GidsStay
<1>2. CASE AddAnswered
  <2> USE <1>2
  <2> SUFFICES ASSUME NEW g \in Control!Gids, Good(g) PROVE Good(g)'
    OBVIOUS
  <2>1. PICK add \in adding :
          add.gid = 0 /\ adding' = (adding \ {add}) \cup {[add EXCEPT !.gid = 2 * adds + 1]}
    BY DEF AddAnswered
  <2>2. [add EXCEPT !.gid = 2 * adds + 1].gid = 2 * adds + 1
    BY DEF ControlInvariant, ControlShapes, Added
  <2>3. magnet' = magnet /\ stale' = stale
    BY DEF AddAnswered
  <2>4. g # 2 * adds + 1
    BY DEF ControlInvariant, NewGidsAreAbsent, Good, ControlShapes, Control!Gids
  <2>5. gids'[g] = gids[g]
    BY <2>4 DEF AddAnswered, ControlInvariant, ControlShapes
  <2>6. \A one \in adding' \cup stale' : one.gid = g => one \in adding \cup stale
    BY <2>1, <2>2, <2>3, <2>4
  <2>7. ~Given(g)'
    BY <2>6 DEF Given, Good
  <2> QED
    BY <2>3, <2>5, <2>7 DEF Good
<1>3. CASE AddFails
  <2> USE <1>3
  <2> SUFFICES ASSUME NEW g \in Control!Gids, Good(g) PROVE Good(g)'
    OBVIOUS
  <2>1. PICK add \in adding :
          adding' = (adding \ {add}) \cup {[add EXCEPT !.gid = Control!Refused]}
    BY DEF AddFails
  <2>2. [add EXCEPT !.gid = Control!Refused].gid = Control!Refused
    BY DEF ControlInvariant, ControlShapes, Added
  <2>3. UNCHANGED <<magnet, gids, stale>>
    BY DEF AddFails
  <2>4. g # Control!Refused
    BY DEF Control!Refused, Control!Gids, ControlBounds
  <2>5. \A one \in adding' \cup stale' : one.gid = g => one \in adding \cup stale
    BY <2>1, <2>2, <2>3, <2>4
  <2>6. ~Given(g)'
    BY <2>5 DEF Given, Good
  <2> QED
    BY <2>3, <2>6 DEF Good
<1>4. CASE AddIsDropped \/ AddIsTakenBack \/ RetryGivesUp \/ WorkerLeaves \/ WorkerFails
          \/ PauseTakes \/ UnmappedMoves \/ ResumeBegins
  BY <1>4
    DEF ControlInvariant, ControlShapes, Good, Given, AddIsDropped, AddIsTakenBack,
      RetryGivesUp, WorkerLeaves, WorkerFails, PauseTakes, UnmappedMoves, ResumeBegins,
      GidsStay, AddsStay
<1>5. CASE RetryAdds \/ RecoveryAdds \/ DispatchBegins
  BY <1>5
    DEF ControlInvariant, ControlShapes, Added, ControlBounds, Good, Given, NewGidsAreAbsent,
      Control!Gids, RetryAdds, RecoveryAdds, DispatchBegins, GidsStay
<1>6. CASE WorkerUnpauses
  BY <1>6 DEF ControlInvariant, Good, Given, CurrentFindsPaused, WorkerUnpauses, AddsStay
<1> QED
  BY <1>1, <1>2, <1>3, <1>4, <1>5, <1>6 DEF ControlStep

\* One step makes one GID good at most.
LEMMA OneGetsGood ==
  ASSUME ControlBounds, ControlInvariant, ControlStep
  PROVE  \E one \in Control!Gids \cup {0} :
            \A g \in Control!Gids : Good(g)' /\ ~Good(g) => g = one
<1>1. CASE GidEnds \/ ChildBegins \/ NothingFollows \/ LifecycleEnds \/ ChildAdopted
          \/ RetryWaits \/ AddAnswered \/ AddFails
  BY <1>1
    DEF ControlInvariant, ControlShapes, Good, Given, GidEnds, ChildBegins, NothingFollows,
      LifecycleEnds, ChildAdopted, RetryWaits, AddAnswered, AddFails, AddsStay, GidsStay
<1>2. CASE AddIsMapped \/ AddIsOutdated \/ AddIsDropped \/ AddIsTakenBack \/ RetryGivesUp
          \/ RetryAdds \/ RecoveryAdds \/ WorkerLeaves
  BY <1>2
    DEF ControlInvariant, ControlShapes, Good, Given, AddIsMapped, AddIsOutdated, AddIsDropped,
      AddIsTakenBack, RetryGivesUp, RetryAdds, RecoveryAdds, WorkerLeaves, GidsStay, AddsStay
<1>3. CASE WorkerUnpauses \/ WorkerFails \/ DispatchBegins \/ PauseTakes \/ UnmappedMoves
          \/ ResumeBegins
  BY <1>3
    DEF ControlInvariant, ControlShapes, Good, Given, WorkerUnpauses, WorkerFails,
      DispatchBegins, PauseTakes, UnmappedMoves, ResumeBegins, AddsStay, GidsStay
<1> QED
  BY <1>1, <1>2, <1>3 DEF ControlStep

\* Metadata come of the mapped parent while it runs.
LEMMA MetadataAreBound ==
  ASSUME ControlBounds, ControlInvariant, ControlStep
  PROVE  \A g \in Control!Gids : Metadata(g)' /\ ~Metadata(g) =>
            /\ magnet /\ g = bound.gid /\ gids[g] = "active"
            /\ UNCHANGED <<bound, adding, epoch, shows>>
<1>1. CASE GidEnds \/ ChildBegins \/ NothingFollows \/ LifecycleEnds \/ ChildAdopted
          \/ RetryWaits \/ AddAnswered \/ AddFails
  BY <1>1
    DEF ControlInvariant, ControlShapes, Metadata, GidEnds, ChildBegins, NothingFollows,
      LifecycleEnds, ChildAdopted, RetryWaits, AddAnswered, AddFails, MappingStays,
      LifecycleStays, AddsStay, GidsStay, LifecycleMoves
<1>2. CASE AddIsMapped \/ AddIsOutdated \/ AddIsDropped \/ AddIsTakenBack \/ RetryGivesUp
          \/ RetryAdds \/ RecoveryAdds \/ WorkerLeaves
  BY <1>2
    DEF ControlInvariant, ControlShapes, Metadata, AddIsMapped, AddIsOutdated, AddIsDropped,
      AddIsTakenBack, RetryGivesUp, RetryAdds, RecoveryAdds, WorkerLeaves, GidsStay,
      MappingStays, LifecycleStays, AddsStay
<1>3. CASE WorkerUnpauses \/ WorkerFails \/ DispatchBegins \/ PauseTakes \/ UnmappedMoves
          \/ ResumeBegins
  BY <1>3
    DEF ControlInvariant, ControlShapes, Metadata, WorkerUnpauses, WorkerFails, DispatchBegins,
      PauseTakes, UnmappedMoves, ResumeBegins, LifecycleStays, AddsStay, GidsStay,
      LifecycleMoves, MappingStays
<1> QED
  BY <1>1, <1>2, <1>3 DEF ControlStep

\* What is mapped or added after metadata has a later GID.
LEMMA NextMetadataComeFirst ==
  ASSUME ControlBounds, ControlInvariant, ControlStep
  PROVE  MetadataComeFirst'
<1>1. CASE GidEnds
  <2> USE <1>1
  <2>1. UNCHANGED <<bound, adding, epoch>>
    BY DEF GidEnds, MappingStays, AddsStay, LifecycleStays
  <2>2. PICK h \in Control!Gids, result \in {"complete", "error"} :
          /\ gids[h] = "active" /\ (result = "complete" /\ magnet /\ Control!Parent(h) => h =
            bound.gid)
          /\ gids' = [gids EXCEPT ![h] = result]
    BY DEF GidEnds
  <2>3. magnet' = magnet
    BY DEF GidEnds
  <2> SUFFICES ASSUME NEW g \in Control!Gids, Metadata(g)'
               PROVE  /\ bound.gid # 0 => g <= bound.gid
                      /\ \A add \in adding : add.epoch = epoch /\ add.gid \in Control!Gids =>
                           g < add.gid
    BY <2>1 DEF MetadataComeFirst
  <2>4. CASE Metadata(g)
    BY <2>4 DEF ControlInvariant, MetadataComeFirst
  <2>5. CASE ~Metadata(g)
    <3>1. g = bound.gid /\ gids[bound.gid] = "active"
      BY <2>2, <2>3, <2>5 DEF Metadata, ControlInvariant, ControlShapes
    <3>2. ASSUME NEW add \in adding, add.epoch = epoch PROVE FALSE
      <4>1. CASE add.who = "dispatch"
        <5>1. bound.gid = 0
          BY <3>2, <4>1 DEF ControlInvariant, DispatchIsAlone
        <5> QED
          BY <3>1, <5>1 DEF Control!Gids
      <4>2. CASE add.who # "dispatch"
        BY <3>1, <4>2 DEF ControlInvariant, ReplacersFindTheOld
      <4> QED
        BY <4>1, <4>2
    <3>3. g <= bound.gid
      BY <3>1 DEF Control!Gids
    <3> QED
      BY <3>2, <3>3
  <2> QED
    BY <2>4, <2>5
<1>2. CASE ChildBegins \/ NothingFollows \/ RetryWaits \/ AddIsOutdated \/ AddIsDropped
  BY <1>2
    DEF ControlInvariant, MetadataComeFirst, ControlShapes, Metadata, ChildBegins,
      NothingFollows, RetryWaits, AddIsOutdated, AddIsDropped, MappingStays, LifecycleStays,
      AddsStay, GidsStay
<1>3. CASE LifecycleEnds
  BY <1>3
    DEF ControlInvariant, MetadataComeFirst, ControlShapes, Metadata, AddsAreOfNow,
      LifecycleEnds, GidsStay, LifecycleMoves
<1>4. CASE ChildAdopted
  BY <1>4
    DEF ControlInvariant, MetadataComeFirst, ControlShapes, Transfer, Metadata, Control!Gids,
      AddsAreOfNow, ChildAdopted, GidsStay, LifecycleStays, AddsStay
<1>5. CASE AddAnswered
  <2> USE <1>5
  <2>1. PICK add \in adding :
          add.gid = 0 /\ adding' = (adding \ {add}) \cup {[add EXCEPT !.gid = 2 * adds + 1]}
    BY DEF AddAnswered
  <2>2. [add EXCEPT !.gid = 2 * adds + 1].gid = 2 * adds + 1
    BY DEF ControlInvariant, ControlShapes, Added
  <2>3. UNCHANGED <<magnet, bound, epoch>>
    BY DEF AddAnswered, MappingStays, LifecycleStays
  <2> SUFFICES ASSUME NEW g \in Control!Gids, Metadata(g)'
               PROVE  /\ bound.gid # 0 => g <= bound.gid
                      /\ \A one \in adding' : one.epoch = epoch /\ one.gid \in Control!Gids =>
                           g < one.gid
    BY <2>3 DEF MetadataComeFirst
  <2>4. Metadata(g)
    BY <2>3 DEF Metadata, AddAnswered, ControlInvariant, ControlShapes
  <2>5. g < 2 * adds + 1
    BY <2>4 DEF Metadata, ControlInvariant, ControlShapes, NewGidsAreAbsent, Control!Gids
  <2>6. \A one \in adding' : one \in adding \/ one.gid = 2 * adds + 1
    BY <2>1, <2>2
  <2> QED
    BY <2>4, <2>5, <2>6 DEF ControlInvariant, MetadataComeFirst
<1>6. CASE AddFails
  BY <1>6
    DEF ControlInvariant, MetadataComeFirst, ControlShapes, Added, ControlBounds, Metadata,
      Control!Refused, Control!Gids, AddFails, MappingStays, LifecycleStays
<1>7. CASE AddIsMapped
  BY <1>7
    DEF ControlInvariant, MetadataComeFirst, Metadata, Control!Gids, AddsAreOfNow, AddIsMapped,
      GidsStay
<1>8. CASE AddIsTakenBack \/ RetryGivesUp \/ RecoveryAdds \/ WorkerLeaves \/ WorkerUnpauses
  BY <1>8
    DEF ControlInvariant, MetadataComeFirst, ControlShapes, Metadata, AddIsTakenBack,
      RetryGivesUp, RecoveryAdds, WorkerLeaves, WorkerUnpauses, LifecycleStays, GidsStay,
      MappingStays, AddsStay
<1>9. CASE RetryAdds
  BY <1>9
    DEF ControlInvariant, MetadataComeFirst, Metadata, Control!Gids, AddsAreOfNow, RetryAdds,
      GidsStay, MappingStays, LifecycleStays
<1>10. CASE WorkerFails
  BY <1>10
    DEF ControlInvariant, MetadataComeFirst, ControlShapes, Metadata, AddsAreOfNow, WorkerFails,
      GidsStay, LifecycleMoves, AddsStay
<1>11. CASE DispatchBegins
  BY <1>11
    DEF ControlInvariant, MetadataComeFirst, ControlShapes, Metadata, Control!Gids,
      AddsAreOfNow, DispatchBegins, GidsStay, MappingStays, LifecycleMoves
<1>12. CASE PauseTakes
  BY <1>12
    DEF ControlInvariant, MetadataComeFirst, ControlShapes, Metadata, AddsAreOfNow, PauseTakes,
      MappingStays, LifecycleMoves, AddsStay
<1>13. CASE UnmappedMoves
  BY <1>13
    DEF ControlInvariant, MetadataComeFirst, ControlShapes, Metadata, AddsAreOfNow,
      UnmappedMoves, GidsStay, MappingStays, LifecycleMoves, AddsStay
<1>14. CASE ResumeBegins
  BY <1>14
    DEF ControlInvariant, MetadataComeFirst, ControlShapes, Metadata, AddsAreOfNow,
      ResumeBegins, GidsStay, MappingStays, LifecycleMoves, AddsStay
<1> QED
  BY <1>1, <1>2, <1>3, <1>4, <1>5, <1>6, <1>7, <1>8, <1>9, <1>10, <1>11, <1>12, <1>13, <1>14
    DEF ControlStep

\* The last good GID is the last one still, or the one that has become good.
LEMMA NextGoodHasALast ==
  ASSUME ControlBounds, ControlInvariant, ControlStep
  PROVE  GoodHasALast'
<1>1. PICK last \in Control!Gids \cup {0} :
        (last # 0 => Good(last)) /\ \A g \in Control!Gids : Good(g) => g <= last
  BY DEF ControlInvariant, GoodHasALast
<1>2. PICK one \in Control!Gids \cup {0} :
        \A g \in Control!Gids : Good(g)' /\ ~Good(g) => g = one
  BY OneGetsGood
<1>3. last \in Nat /\ one \in Nat /\ \A g \in Control!Gids : g \in Nat /\ g # 0
  BY DEF Control!Gids, ControlBounds
<1>4. \A g \in Control!Gids : Good(g) => Good(g)'
  BY GoodStays
<1>5. CASE one # 0 /\ Good(one)' /\ one > last
  <2>1. \A g \in Control!Gids : Good(g)' => g <= one
    BY <1>1, <1>2, <1>3, <1>5
  <2> QED
    BY <1>2, <1>5, <2>1 DEF GoodHasALast
<1>6. CASE ~(one # 0 /\ Good(one)' /\ one > last)
  <2>1. \A g \in Control!Gids : Good(g)' => g <= last
    BY <1>1, <1>2, <1>3, <1>6
  <2> QED
    BY <1>1, <1>4, <2>1 DEF GoodHasALast
<1> QED
  BY <1>5, <1>6

\* A row is done with the mapped GID, and that one is good and after all metadata.
LEMMA NextDoneEndsWithGood ==
  ASSUME ControlBounds, ControlInvariant, ControlStep
  PROVE  DoneEndsWithGood'
<1> SUFFICES ASSUME shows' = "done"
             PROVE  \E good \in Control!Gids :
                      Good(good)' /\ \A g \in Control!Gids : Metadata(g)' => g <= good
  BY DEF DoneEndsWithGood
<1>1. CASE shows = "done"
  <2>1. PICK good \in Control!Gids :
          Good(good) /\ \A g \in Control!Gids : Metadata(g) => g <= good
    BY <1>1 DEF ControlInvariant, DoneEndsWithGood
  <2>2. bound.gid = 0
    BY <1>1 DEF ControlInvariant, RowShowsTheEnd
  <2>3. \A g \in Control!Gids : Metadata(g)' => Metadata(g)
    BY <2>2, MetadataAreBound DEF Control!Gids
  <2> QED
    BY <2>1, <2>3, GoodStays
<1>2. CASE shows # "done"
  <2>1. LifecycleEnds
    BY <1>2 DEF ControlStep, GidEnds, ChildBegins, NothingFollows, ChildAdopted, RetryWaits,
      AddAnswered, AddFails, AddIsMapped, AddIsOutdated, AddIsDropped, AddIsTakenBack,
      RetryGivesUp, RetryAdds, RecoveryAdds, WorkerLeaves, WorkerUnpauses, WorkerFails,
      DispatchBegins, PauseTakes, UnmappedMoves, ResumeBegins
  <2>2. bound.gid \in Control!Gids /\ gids[bound.gid] = "complete" /\ (magnet => adopted)
    BY <2>1 DEF LifecycleEnds, ControlInvariant, ControlShapes, Transfer
  <2>3. magnet => ~Control!Parent(bound.gid)
    BY <2>2 DEF ControlInvariant, AdoptedIsChild
  <2>4. Good(bound.gid)
    BY <2>2, <2>3 DEF Good, ControlInvariant, GivenIsUnbound
  <2>5. \A g \in Control!Gids : Metadata(g) => g <= bound.gid
    BY <2>2 DEF ControlInvariant, MetadataComeFirst, Control!Gids
  <2>6. \A g \in Control!Gids : Metadata(g)' => Metadata(g)
    BY <1>2, MetadataAreBound
  <2> DEFINE good == bound.gid
  <2>7. good \in Control!Gids /\ Good(good)
    BY <2>2, <2>4
  <2>8. \A g \in Control!Gids : Metadata(g)' => g <= good
    BY <2>5, <2>6
  <2> QED
    BY <2>7, <2>8, GoodStays
<1> QED
  BY <1>1, <1>2

\* At the start there is nothing.
LEMMA InitControl ==
  ASSUME ControlBounds, Control!Init
  PROVE  ControlInvariant
<1> USE DEF Control!Init
<1>1. adding = {} /\ stale = {} /\ resumers = {} /\ backoffs = {} /\ handlers = {}
  OBVIOUS
<1>2. \A g \in Control!Gids : gids[g] = "absent" /\ ~Given(g) /\ ~Good(g) /\ ~Metadata(g)
  BY DEF Given, Good, Metadata
<1>3. bound = [gid |-> 0, epoch |-> 0, revision |-> 0] /\ ~adopted /\ shows = "ready"
  BY DEF Control!Unbound, Control!NoGid
<1>4. ControlShapes
  <2>1. gids \in [Control!Gids -> {"absent", "active", "paused"} \cup Control!Ended]
    OBVIOUS
  <2>2. bound \in Transfer
    BY <1>3 DEF Transfer
  <2> QED
    BY <1>1, <2>1, <2>2 DEF ControlShapes
<1>5. GidsAreSeen /\ NewGidsAreAbsent /\ BoundIsKnown /\ AddedAreKnown /\ AddedDiffer
  BY <1>1, <1>2, <1>3
    DEF GidsAreSeen, NewGidsAreAbsent, BoundIsKnown, AddedAreKnown, AddedDiffer
<1>6. ChildHasMetadata /\ AdoptedIsChild /\ EveryGidHasItsPlace /\ PausedIsBound /\
  GivenIsUnbound
  BY <1>2, <1>3
    DEF ChildHasMetadata, AdoptedIsChild, EveryGidHasItsPlace, PausedIsBound, GivenIsUnbound
<1>7. /\ BoundIsCarried /\ AddsAreOfNow /\ DispatchIsAlone /\ DispatchesDiffer
      /\ ReplacersFindTheOld /\ StaleWereDispatched /\ BackoffsFollowEnds
  BY <1>1, <1>3 DEF BoundIsCarried, AddsAreOfNow, DispatchIsAlone, DispatchesDiffer,
    ReplacersFindTheOld, StaleWereDispatched, BackoffsFollowEnds
<1>8. WorkersAreOfNow /\ WorkersDiffer /\ CurrentFindsPaused /\ RowShowsTheEnd
  BY <1>1, <1>3 DEF WorkersAreOfNow, WorkersDiffer, CurrentFindsPaused, RowShowsTheEnd
<1>9. GoodHasALast /\ MetadataComeFirst /\ DoneEndsWithGood
  BY <1>2, <1>3 DEF GoodHasALast, MetadataComeFirst, DoneEndsWithGood
<1> QED
  BY <1>4, <1>5, <1>6, <1>7, <1>8, <1>9 DEF ControlInvariant

\* The invariant stays as it is when nothing changes.
LEMMA ControlStutters ==
  ASSUME ControlInvariant, UNCHANGED Control!cvars
  PROVE  ControlInvariant'
<1> USE DEF Control!cvars
<1>1. \A g : (Given(g)' <=> Given(g)) /\ (Good(g)' <=> Good(g)) /\ (Metadata(g)' <=>
  Metadata(g))
  BY DEF Given, Good, Metadata
<1>2. /\ ControlShapes' /\ GidsAreSeen'
      /\ NewGidsAreAbsent' /\ BoundIsKnown' /\ AddedAreKnown' /\ AddedDiffer'
      /\ ChildHasMetadata' /\ AdoptedIsChild'
  BY DEF ControlInvariant, ControlShapes, GidsAreSeen, NewGidsAreAbsent, BoundIsKnown,
    AddedAreKnown, AddedDiffer, ChildHasMetadata, AdoptedIsChild
<1>3. EveryGidHasItsPlace' /\ PausedIsBound' /\ GivenIsUnbound'
  BY <1>1 DEF ControlInvariant, EveryGidHasItsPlace, PausedIsBound, GivenIsUnbound
<1>4. /\ BoundIsCarried' /\ AddsAreOfNow' /\ DispatchIsAlone' /\ DispatchesDiffer'
      /\ ReplacersFindTheOld' /\ StaleWereDispatched' /\ BackoffsFollowEnds'
  BY DEF ControlInvariant, BoundIsCarried, AddsAreOfNow, DispatchIsAlone, DispatchesDiffer,
    ReplacersFindTheOld, StaleWereDispatched, BackoffsFollowEnds
<1>5. WorkersAreOfNow' /\ WorkersDiffer' /\ CurrentFindsPaused' /\ RowShowsTheEnd'
  BY DEF ControlInvariant, WorkersAreOfNow, WorkersDiffer, CurrentFindsPaused, RowShowsTheEnd
<1>6. GoodHasALast' /\ MetadataComeFirst' /\ DoneEndsWithGood'
  BY <1>1 DEF ControlInvariant, GoodHasALast, MetadataComeFirst, DoneEndsWithGood
<1> QED
  BY <1>2, <1>3, <1>4, <1>5, <1>6 DEF ControlInvariant

LEMMA NextControl ==
  ASSUME ControlBounds, ControlInvariant, [Control!Next]_(Control!cvars)
  PROVE  ControlInvariant'
<1>1. CASE Control!Next
  <2>1. ControlStep
    BY <1>1, StepIsKnown
  <2> QED
    BY <2>1, NextGidsAreSeen, NextControlShapes, NextNewGidsAreAbsent, NextBoundIsKnown,
      NextAddedAreKnown, NextAddedDiffer, NextChildHasMetadata,
      NextAdoptedIsChild, NextPausedIsBound, NextGivenIsUnbound,
      NextEveryGidHasItsPlace, NextBoundIsCarried, NextAddsAreOfNow,
      NextDispatchIsAlone, NextDispatchesDiffer, NextReplacersFindTheOld,
      NextStaleWereDispatched, NextBackoffsFollowEnds, NextWorkersAreOfNow,
      NextWorkersDiffer, NextCurrentFindsPaused, NextRowShowsTheEnd,
      NextMetadataComeFirst,
      NextGoodHasALast, NextDoneEndsWithGood
      DEF ControlInvariant
<1>2. CASE UNCHANGED Control!cvars
  BY <1>2, ControlStutters
<1> QED
  BY <1>1, <1>2

\* What is promised of the transfers.
LEMMA ControlSafety ==
  ASSUME ControlBounds, ControlInvariant
  PROVE  Control!EveryTransferIsOwned /\ Control!DoneIsPayload
<1>1. ASSUME NEW g \in Control!Gids, gids[g] = "active"
      PROVE  \/ g = bound.gid
             \/ g - 1 = bound.gid
             \/ g \in {add.gid : add \in adding \cup stale}
  <2>1. \/ g = bound.gid \/ g = bound.gid + 1 \/ Given(g)
    BY <1>1 DEF ControlInvariant, EveryGidHasItsPlace, Control!Ended
  <2>2. bound.gid \in Nat
    BY DEF ControlInvariant, ControlShapes, Transfer, Control!Gids
  <2> QED
    BY <2>1, <2>2 DEF Given, Control!Gids
<1>2. shows \in {"paused", "done", "failed"} =>
        ~\E g \in Control!Gids : g = bound.gid /\ gids[g] = "active"
  BY DEF ControlInvariant, RowShowsTheEnd, Control!Gids
<1>3. Control!EveryTransferIsOwned
  BY <1>1, <1>2 DEF Control!EveryTransferIsOwned
<1>4. ASSUME shows = "done"
      PROVE  \E g \in ignored :
               /\ gids[g] = "complete"
               /\ magnet => ~Control!Parent(g)
               /\ \A later \in Control!Gids : later > g /\ gids[later] # "absent" =>
                    \/ later \in {add.gid : add \in adding \cup stale}
                    \/ gids[later] \in {"removed", "error"}
  <2>1. bound.gid = 0
    BY <1>4 DEF ControlInvariant, RowShowsTheEnd
  <2>2. PICK good \in Control!Gids :
          Good(good) /\ \A g \in Control!Gids : Metadata(g) => g <= good
    BY <1>4 DEF ControlInvariant, DoneEndsWithGood
  <2>3. PICK last \in Control!Gids \cup {0} :
          (last # 0 => Good(last)) /\ \A g \in Control!Gids : Good(g) => g <= last
    BY DEF ControlInvariant, GoodHasALast
  <2>4. last \in Control!Gids /\ Good(last) /\ good <= last
    BY <2>2, <2>3 DEF Control!Gids
  <2>5. last \in ignored
    BY <2>1, <2>4 DEF ControlInvariant, EveryGidHasItsPlace, Good, Control!Gids
  <2>6. ASSUME NEW later \in Control!Gids, later > last, gids[later] # "absent", ~Given(later)
        PROVE  gids[later] \in {"removed", "error"}
    <3>1. gids[later] \in Control!Ended
      BY <2>1, <2>6 DEF ControlInvariant, EveryGidHasItsPlace, Control!Gids
    <3>2. ~Good(later) /\ ~Metadata(later)
      BY <2>2, <2>3, <2>4, <2>6 DEF Control!Gids
    <3> QED
      BY <2>6, <3>1, <3>2 DEF Good, Metadata, Control!Ended
  <2>7. \A later \in Control!Gids : Given(later) => later \in {add.gid : add \in adding \cup
    stale}
    BY DEF Given
  <2> QED
    BY <2>4, <2>5, <2>6, <2>7 DEF Good
<1>5. Control!DoneIsPayload
  BY <1>4 DEF Control!DoneIsPayload
<1> QED
  BY <1>3, <1>5

\* Whatever is retried, recovered, paused or resumed, no transfer runs that nobody watches, none
\* runs while the row shows that it does not, and a row is completed only with its payload and
\* the last one it had (EveryTransferIsOwned, DoneIsPayload).
THEOREM TransfersStayOwned ==
  ASSUME ControlBounds
  PROVE  Control!Spec => [](Control!EveryTransferIsOwned /\ Control!DoneIsPayload)
<1>1. Control!Init => ControlInvariant
  BY InitControl
<1>2. ControlInvariant /\ [Control!Next]_(Control!cvars) => ControlInvariant'
  BY NextControl
<1>3. ControlInvariant => Control!EveryTransferIsOwned /\ Control!DoneIsPayload
  BY ControlSafety
<1> QED
  BY <1>1, <1>2, <1>3, PTL DEF Control!Spec
=============================================================================
