------------------------------ MODULE RowProofs ------------------------------
(***************************************************************************)
(* Proofs about the four components in which a row, what the native side   *)
(* has committed of it, and what aria2 has of it are kept together: the    *)
(* fields of a torrent's row (RowSnapshots), the progress of a media       *)
(* download (MediaProgress), the options of a torrent that lives           *)
(* (LiveOptions), and the transfer that the poller heals                   *)
(* (ConnectionRecovery), for any bound on what may happen to them.  Each   *)
(* is a state machine of its own, with variables of its own; the healed    *)
(* transfer's row, payload and epoch have other names here.                *)
(***************************************************************************)
EXTENDS Naturals, Sequences, FiniteSets, FiniteSetTheorems, TLAPS

CONSTANTS
  MaxMoves, MaxUploads, MaxVerifications,    \* RowSnapshots
  MaxRuns, MaxFrames,                        \* MediaProgress
  MaxStops,                                  \* both
  MaxEdits, MaxTransfers,                    \* LiveOptions
  MaxGids, MaxLost, MaxPauses, MaxTries,     \* ConnectionRecovery
  Delay, Cooldown, HealthySamples, RecoveryLimit

VARIABLES
  rec, marks, shown, snapshot, committed, moved, uploaded, news, verifier, acking,
  verifications, rowStops,
  checkpoint, part, parts, run, frames, item, held, upload, crossed, runs, mediaStops,
  mode, payload, asked, uris, caps, alive, row, saved, owned, command, install, answer, session,
  drift, missed, late, orphaned, edits, transfers,
  torrent, healedPayload, gids, used, mapped, healedEpoch, carried, healedRow, obs, sample, step,
  target, adding, spree, stranded, lost, pauses

Rows == INSTANCE RowSnapshots
Media == INSTANCE MediaProgress
Options == INSTANCE LiveOptions
Recovery == INSTANCE ConnectionRecovery WITH
  row <- healedRow, payload <- healedPayload,
  epoch <- healedEpoch

-----------------------------------------------------------------------------
(* The row of a torrent.                                                   *)

AnyRows == [folder : Nat, verify : BOOLEAN, up : Nat]

RowShapes ==
  /\ rec \in AnyRows /\ shown \in AnyRows
  /\ snapshot \in AnyRows \cup {Rows!NoRow} /\ committed \in AnyRows \cup {Rows!NoRow}
  /\ marks \in [folder : Nat, verify : BOOLEAN]
  /\ moved \in Nat /\ uploaded \in Nat
  /\ news \subseteq {"moved", "refused", "ended"}
  /\ verifier \in {"idle", "asked", "enqueue", "rollback", "run"}
  /\ acking \in {"no", "queue", "wait"}

Saving == snapshot # Rows!NoRow

\* No snapshot is ahead of the native side.  Where the marker of the folder is gone, the
\* renderer and its save have seen the move; once it has heard of the move, it shows it.
FoldersFollow ==
  /\ marks.folder \in {0, moved}
  /\ shown.folder <= moved
  /\ Saving => snapshot.folder <= moved
  /\ marks.folder = 0 => shown.folder = moved /\ (Saving => snapshot.folder = moved)
  /\ Saving /\ snapshot.folder = moved => shown.folder = moved
  /\ "moved" \notin news => shown.folder = moved
TotalsFollow ==
  /\ uploaded <= MaxUploads
  /\ shown.up <= uploaded
  /\ Saving => snapshot.up <= uploaded

\* The renderer shows a verification from before its commit until after its end, and the
\* marker goes only with a save that shows it.
VerificationIsShown ==
  /\ verifier # "idle" => shown.verify /\ acking = "no" /\ news \cap {"refused", "ended"} = {}
  /\ verifier \in {"enqueue", "run"} => marks.verify \/ (Saving => snapshot.verify)
  /\ marks.verify => rec.verify /\ shown.verify
  /\ "refused" \in news => ~marks.verify
  /\ acking = "wait" /\ marks.verify => Saving /\ snapshot.verify

\* The last save explains the row, but for a refusal the renderer has yet to handle.
SavesExplain ==
  committed # Rows!NoRow =>
    /\ rec.verify => committed.verify \/ marks.verify
    /\ committed.verify /\ ~rec.verify
         => "refused" \in news \/ ~shown.verify \/ verifier = "asked"

RowInvariant ==
  /\ RowShapes /\ FoldersFollow /\ TotalsFollow /\ VerificationIsShown /\ SavesExplain
  /\ Rows!NativeCommitsAreKept

\* Of two totals the larger one is one of them.
LEMMA LargerIsOne ==
  ASSUME NEW a \in Nat, NEW b \in Nat
  PROVE  Rows!Larger(a, b) = IF a >= b THEN a ELSE b
<1>1. \E x \in {a, b} : \A y \in {a, b} : x >= y
  OBVIOUS
<1> QED
  BY <1>1 DEF Rows!Larger, Rows!Max

\* Each part of the invariant is kept by every step: the types.
LEMMA NextRowShapes ==
  ASSUME RowInvariant, [Rows!Next]_(Rows!svars)
  PROVE  RowShapes'
<1> USE DEF RowInvariant, RowShapes, Saving
<1>1. CASE Rows!Send
  BY <1>1 DEF Rows!Send
<1>2. CASE Rows!Land
  <2>1. snapshot \in AnyRows
    BY <1>2 DEF Rows!Land
  <2>2. Rows!Uploaded(snapshot) \in Nat
    BY <2>1, LargerIsOne DEF Rows!Uploaded, AnyRows
  <2>3. rec' \in AnyRows
    <3>1. Rows!Folder(snapshot) \in Nat
      BY <2>1 DEF Rows!Folder, AnyRows
    <3>2. snapshot.verify \/ marks.verify \in BOOLEAN
      OBVIOUS
    <3> QED
      BY <1>2, <2>2, <3>1, <3>2 DEF Rows!Land, AnyRows
  <2>4. marks' \in [folder : Nat, verify : BOOLEAN]
    <3>1. \A b : (marks.verify /\ b) \in BOOLEAN
      OBVIOUS
    <3> QED
      BY <1>2 DEF Rows!Land
  <2> QED
    BY <1>2, <2>1, <2>3, <2>4 DEF Rows!Land
<1>3. CASE Rows!Move \/ Rows!Checkpoint
  <2>1. rec' \in AnyRows /\ marks' \in [folder : Nat, verify : BOOLEAN]
    BY <1>3 DEF Rows!Move, Rows!Checkpoint, AnyRows
  <2> QED
    BY <1>3, <2>1 DEF Rows!Move, Rows!Checkpoint
<1>4. CASE Rows!CommitVerify \/ Rows!Enqueue \/ Rows!Rollback \/ Rows!RunEnds
  BY <1>4 DEF Rows!CommitVerify, Rows!Enqueue, Rows!Rollback, Rows!RunEnds, AnyRows
<1>5. CASE \/ Rows!ShowMove \/ Rows!ShowUploaded \/ Rows!AskVerify \/ Rows!ShowRefusal
           \/ Rows!ShowEnd \/ Rows!ClearVerify
  BY <1>5 DEF Rows!ShowMove, Rows!ShowUploaded, Rows!AskVerify, Rows!ShowRefusal,
     Rows!ShowEnd, Rows!ClearVerify, Rows!Acknowledge, AnyRows
<1>6. CASE Rows!StopProcess
  BY <1>6 DEF Rows!StopProcess, AnyRows
<1>7. CASE UNCHANGED Rows!svars
  BY <1>7 DEF Rows!svars
<1> QED
  BY <1>1, <1>2, <1>3, <1>4, <1>5, <1>6, <1>7 DEF Rows!Next

\* A save with the folder of the data is sent after the renderer has seen the move.
LEMMA NextFoldersFollow ==
  ASSUME RowInvariant, [Rows!Next]_(Rows!svars)
  PROVE  FoldersFollow'
<1> USE DEF RowInvariant, RowShapes, FoldersFollow, AnyRows, Saving
<1>1. CASE Rows!Send \/ Rows!Land
  BY <1>1 DEF Rows!Send, Rows!Land, Rows!Folder, Rows!Acknowledged, Rows!NativeCommitsAreKept
<1>2. CASE \/ Rows!Move \/ Rows!Checkpoint \/ Rows!CommitVerify \/ Rows!Enqueue
           \/ Rows!Rollback \/ Rows!RunEnds
  BY <1>2 DEF Rows!Move, Rows!Checkpoint, Rows!CommitVerify, Rows!Enqueue, Rows!Rollback,
     Rows!RunEnds, Rows!NativeCommitsAreKept
<1>3. CASE \/ Rows!ShowMove \/ Rows!ShowUploaded \/ Rows!AskVerify \/ Rows!ShowRefusal
           \/ Rows!ShowEnd \/ Rows!ClearVerify
  BY <1>3 DEF Rows!ShowMove, Rows!ShowUploaded, Rows!AskVerify, Rows!ShowRefusal, Rows!ShowEnd,
     Rows!ClearVerify, Rows!Acknowledge, Rows!NativeCommitsAreKept
<1>4. CASE Rows!StopProcess
  BY <1>4 DEF Rows!StopProcess, Rows!NativeCommitsAreKept
<1>5. CASE UNCHANGED Rows!svars
  BY <1>5 DEF Rows!svars, Rows!NativeCommitsAreKept
<1> QED
  BY <1>1, <1>2, <1>3, <1>4, <1>5 DEF Rows!Next

\* The total only grows, and the renderer learns it from the poller or the row.
LEMMA NextTotalsFollow ==
  ASSUME MaxUploads \in Nat, RowInvariant, [Rows!Next]_(Rows!svars)
  PROVE  TotalsFollow'
<1> USE DEF RowInvariant, RowShapes, TotalsFollow, AnyRows, Saving
<1>1. CASE Rows!Send \/ Rows!Land
  BY <1>1 DEF Rows!Send, Rows!Land, Rows!Folder, Rows!Acknowledged, Rows!NativeCommitsAreKept
<1>2. CASE \/ Rows!Move \/ Rows!Checkpoint \/ Rows!CommitVerify \/ Rows!Enqueue
           \/ Rows!Rollback \/ Rows!RunEnds
  BY <1>2 DEF Rows!Move, Rows!Checkpoint, Rows!CommitVerify, Rows!Enqueue, Rows!Rollback,
     Rows!RunEnds, Rows!NativeCommitsAreKept
<1>3. CASE \/ Rows!ShowMove \/ Rows!ShowUploaded \/ Rows!AskVerify \/ Rows!ShowRefusal
           \/ Rows!ShowEnd \/ Rows!ClearVerify
  BY <1>3 DEF Rows!ShowMove, Rows!ShowUploaded, Rows!AskVerify, Rows!ShowRefusal, Rows!ShowEnd,
     Rows!ClearVerify, Rows!Acknowledge, Rows!NativeCommitsAreKept
<1>4. CASE Rows!StopProcess
  BY <1>4 DEF Rows!StopProcess, Rows!NativeCommitsAreKept
<1>5. CASE UNCHANGED Rows!svars
  BY <1>5 DEF Rows!svars, Rows!NativeCommitsAreKept
<1> QED
  BY <1>1, <1>2, <1>3, <1>4, <1>5 DEF Rows!Next

\* One verification at a time, whose marker falls only to a save that shows it.
LEMMA NextVerificationIsShown ==
  ASSUME RowInvariant, [Rows!Next]_(Rows!svars)
  PROVE  VerificationIsShown'
<1> USE DEF RowInvariant, RowShapes, VerificationIsShown, AnyRows, Saving
<1>1. CASE Rows!Send \/ Rows!Land
  <2>1. CASE Rows!Send
    BY <2>1 DEF Rows!Send, Rows!NoRow
  <2>2. CASE Rows!Land
    BY <2>2 DEF Rows!Land, Rows!Acknowledged
  <2> QED
    BY <1>1, <2>1, <2>2
<1>2. CASE \/ Rows!Move \/ Rows!Checkpoint \/ Rows!CommitVerify \/ Rows!Enqueue
           \/ Rows!Rollback \/ Rows!RunEnds
  BY <1>2 DEF Rows!Move, Rows!Checkpoint, Rows!CommitVerify, Rows!Enqueue, Rows!Rollback,
     Rows!RunEnds
<1>3. CASE \/ Rows!ShowMove \/ Rows!ShowUploaded \/ Rows!AskVerify \/ Rows!ShowRefusal
           \/ Rows!ShowEnd \/ Rows!ClearVerify
  BY <1>3 DEF Rows!ShowMove, Rows!ShowUploaded, Rows!AskVerify, Rows!ShowRefusal, Rows!ShowEnd,
     Rows!ClearVerify, Rows!Acknowledge
<1>4. CASE Rows!StopProcess
  BY <1>4 DEF Rows!StopProcess
<1>5. CASE UNCHANGED Rows!svars
  BY <1>5 DEF Rows!svars
<1> QED
  BY <1>1, <1>2, <1>3, <1>4, <1>5 DEF Rows!Next

\* Between two saves only a commit or its rollback changes the mark.
LEMMA NextSavesExplain ==
  ASSUME RowInvariant, [Rows!Next]_(Rows!svars)
  PROVE  SavesExplain'
<1> USE DEF RowInvariant, RowShapes, SavesExplain, AnyRows, Saving
<1>1. CASE Rows!Send \/ Rows!Land
  BY <1>1 DEF Rows!Send, Rows!Land, Rows!Folder, Rows!Acknowledged, VerificationIsShown
<1>2. CASE \/ Rows!Move \/ Rows!Checkpoint \/ Rows!CommitVerify \/ Rows!Enqueue
           \/ Rows!Rollback \/ Rows!RunEnds
  BY <1>2 DEF Rows!Move, Rows!Checkpoint, Rows!CommitVerify, Rows!Enqueue, Rows!Rollback,
     Rows!RunEnds, VerificationIsShown
<1>3. CASE \/ Rows!ShowMove \/ Rows!ShowUploaded \/ Rows!AskVerify \/ Rows!ShowRefusal
           \/ Rows!ShowEnd \/ Rows!ClearVerify
  BY <1>3 DEF Rows!ShowMove, Rows!ShowUploaded, Rows!AskVerify, Rows!ShowRefusal, Rows!ShowEnd,
     Rows!ClearVerify, Rows!Acknowledge, VerificationIsShown
<1>4. CASE Rows!StopProcess
  BY <1>4 DEF Rows!StopProcess, VerificationIsShown
<1>5. CASE UNCHANGED Rows!svars
  BY <1>5 DEF Rows!svars, VerificationIsShown
<1> QED
  BY <1>1, <1>2, <1>3, <1>4, <1>5 DEF Rows!Next

\* No save takes back what has been committed.
LEMMA NextNativeCommitsAreKept ==
  ASSUME RowInvariant, [Rows!Next]_(Rows!svars)
  PROVE  Rows!NativeCommitsAreKept'
<1> USE DEF RowInvariant, RowShapes, Rows!NativeCommitsAreKept, AnyRows, Saving
<1>a. Saving => Rows!Uploaded(snapshot) = IF snapshot.up >= rec.up THEN snapshot.up ELSE rec.up
  BY LargerIsOne DEF Rows!Uploaded
<1>1. CASE Rows!Send \/ Rows!Land
  BY <1>a, <1>1 DEF Rows!Send, Rows!Land, Rows!Folder, Rows!Acknowledged, FoldersFollow,
     TotalsFollow, VerificationIsShown
<1>2. CASE \/ Rows!Move \/ Rows!Checkpoint \/ Rows!CommitVerify \/ Rows!Enqueue
           \/ Rows!Rollback \/ Rows!RunEnds
  BY <1>2 DEF Rows!Move, Rows!Checkpoint, Rows!CommitVerify, Rows!Enqueue, Rows!Rollback,
     Rows!RunEnds, FoldersFollow, TotalsFollow, VerificationIsShown
<1>3. CASE \/ Rows!ShowMove \/ Rows!ShowUploaded \/ Rows!AskVerify \/ Rows!ShowRefusal
           \/ Rows!ShowEnd \/ Rows!ClearVerify
  BY <1>3 DEF Rows!ShowMove, Rows!ShowUploaded, Rows!AskVerify, Rows!ShowRefusal, Rows!ShowEnd,
     Rows!ClearVerify, Rows!Acknowledge, FoldersFollow, TotalsFollow, VerificationIsShown
<1>4. CASE Rows!StopProcess
  BY <1>4 DEF Rows!StopProcess, FoldersFollow, TotalsFollow, VerificationIsShown
<1>5. CASE UNCHANGED Rows!svars
  BY <1>5 DEF Rows!svars, FoldersFollow, TotalsFollow, VerificationIsShown
<1> QED
  BY <1>1, <1>2, <1>3, <1>4, <1>5 DEF Rows!Next

\* The invariant of the row is inductive and implies what is promised of it.
LEMMA InitRows ==
  ASSUME MaxUploads \in Nat
  PROVE  Rows!Init => RowInvariant
BY DEF Rows!Init, RowInvariant, RowShapes, AnyRows, FoldersFollow, TotalsFollow,
   VerificationIsShown, SavesExplain, Saving, Rows!NativeCommitsAreKept

LEMMA NextRows ==
  ASSUME MaxUploads \in Nat
  PROVE  RowInvariant /\ [Rows!Next]_(Rows!svars) => RowInvariant'
BY NextRowShapes, NextFoldersFollow, NextTotalsFollow, NextVerificationIsShown,
   NextSavesExplain, NextNativeCommitsAreKept DEF RowInvariant

LEMMA RowSafety ==
  ASSUME MaxUploads \in Nat
  PROVE  RowInvariant => Rows!NativeCommitsAreKept /\ Rows!SnapshotsConverge
<1> SUFFICES ASSUME RowInvariant PROVE Rows!SnapshotsConverge
  BY DEF RowInvariant
<1>1. shown # Rows!NoRow
  BY DEF RowInvariant, RowShapes, AnyRows, TotalsFollow, Rows!NoRow
<1> QED
  BY <1>1 DEF RowInvariant, RowShapes, AnyRows, FoldersFollow, VerificationIsShown,
     SavesExplain, Rows!NativeCommitsAreKept, Rows!SnapshotsConverge

-----------------------------------------------------------------------------
(* The progress of a media download.                                       *)

AnyEvents == [kind : {"frame", "invalidated", "failed"}, gen : Nat, epoch : Nat, progress : Nat]
AnyCheckpoints == [epoch : Nat, progress : Nat]

MediaShapes ==
  /\ checkpoint \in AnyCheckpoints
  /\ part \in Nat /\ parts \in Nat
  /\ run \in [gen : Nat, epoch : Nat, step : Media!Steps]
  /\ frames \in Seq(AnyEvents)
  /\ item \in [epoch : Nat, progress : Nat, gen : Nat, active : BOOLEAN]
  /\ held \in Nat
  /\ upload \in AnyCheckpoints \cup {Media!NoUpload}

Uploading == upload # Media!NoUpload

\* A progress of the epoch in the database is that of the files there are, and while those are
\* being deleted there is none.  An older epoch counts for nothing.
Fits(epoch, progress) ==
  /\ epoch <= checkpoint.epoch
  /\ epoch = checkpoint.epoch /\ progress # 0 => progress = part /\ run.step # "deleting"

EveryProgressFits ==
  /\ Fits(checkpoint.epoch, checkpoint.progress)
  /\ run.epoch <= checkpoint.epoch
  /\ run.step = "deleting" => run.epoch < checkpoint.epoch
  /\ \A i \in 1 .. Len(frames) : Fits(frames[i].epoch, frames[i].progress)
  /\ Fits(item.epoch, item.progress)
  /\ Fits(item.epoch, held)
  /\ Uploading => Fits(upload.epoch, upload.progress)

\* Once the renderer has held a frame back over a change of the epoch, nothing is promised.
MediaInvariant == MediaShapes /\ (crossed \/ EveryProgressFits)

\* What an emitted event does to the events under way, and what taking one off does.
LEMMA EventEmitted ==
  ASSUME MediaShapes, NEW kind \in {"frame", "invalidated", "failed"}, NEW epoch \in Nat,
         NEW progress \in Nat, Media!Emit(kind, epoch, progress)
  PROVE  /\ frames' \in Seq(AnyEvents)
         /\ \A i \in 1 .. Len(frames') :
              \/ i \in 1 .. Len(frames) /\ frames'[i] = frames[i]
              \/ frames'[i].epoch = epoch /\ frames'[i].progress = progress
<1> DEFINE e == [kind |-> kind, gen |-> run.gen, epoch |-> epoch, progress |-> progress]
<1>1. e \in AnyEvents
  BY DEF MediaShapes, AnyEvents
<1>2. frames' = Append(frames, e)
  BY DEF Media!Emit
<1>3. frames \in Seq(AnyEvents)
  BY DEF MediaShapes
<1>4. e.epoch = epoch /\ e.progress = progress
  OBVIOUS
<1> HIDE DEF e
<1> QED
  BY <1>1, <1>2, <1>3, <1>4

LEMMA EventTaken ==
  ASSUME MediaShapes, frames # <<>>
  PROVE  /\ Tail(frames) \in Seq(AnyEvents)
         /\ Media!Arrived \in AnyEvents
         /\ Len(frames) \in Nat /\ 1 \in 1 .. Len(frames) /\ Media!Arrived = frames[1]
         /\ \A i \in 1 .. Len(Tail(frames)) :
              i + 1 \in 1 .. Len(frames) /\ Tail(frames)[i] = frames[i + 1]
<1>1. frames \in Seq(AnyEvents)
  BY DEF MediaShapes
<1> QED
  BY <1>1 DEF Media!Arrived

\* Each part of the invariant is kept by every step: the types.
LEMMA NextMediaShapes ==
  ASSUME MediaShapes, [Media!Next]_(Media!pvars)
  PROVE  MediaShapes'
<1> USE DEF MediaShapes, AnyCheckpoints
<1>1. CASE Media!StartRun \/ Media!Pause
  <2>1. item' \in [epoch : Nat, progress : Nat, gen : Nat, active : BOOLEAN]
    <3>1. PICK b \in BOOLEAN : item' = [item EXCEPT !.gen = @ + 1, !.active = b]
      BY <1>1 DEF Media!StartRun, Media!Pause
    <3>2. item' = [epoch |-> item.epoch, progress |-> item.progress, gen |-> item.gen + 1,
                   active |-> b]
      BY <3>1
    <3> QED
      BY <3>2
  <2>2. run' \in [gen : Nat, epoch : Nat, step : Media!Steps]
    BY <1>1 DEF Media!StartRun, Media!Pause, Media!Steps
  <2> QED
    BY <1>1, <2>1, <2>2 DEF Media!StartRun, Media!Pause
<1>2. CASE Media!CancelEnds \/ Media!Fail
  BY <1>2 DEF Media!CancelEnds, Media!Fail, Media!Steps
<1>3. CASE Media!Fetch
  <2>1. part' \in Nat /\ parts' \in Nat
    BY <1>3 DEF Media!Fetch
  <2>2. frames' \in Seq(AnyEvents)
    BY <1>3, <2>1, EventEmitted DEF Media!Fetch
  <2> QED
    BY <1>3, <2>1, <2>2 DEF Media!Fetch
<1>4. CASE Media!Invalidate
  <2>1. frames' \in Seq(AnyEvents)
    <3>1. checkpoint.epoch + 1 \in Nat /\ run.epoch \in Nat
      OBVIOUS
    <3> QED
      BY <1>4, <3>1, EventEmitted DEF Media!Invalidate, Media!EndRun
  <2>2. run' \in [gen : Nat, epoch : Nat, step : Media!Steps]
    BY <1>4 DEF Media!Invalidate, Media!EndRun, Media!Steps
  <2> QED
    BY SMTT(30), <1>4, <2>1, <2>2 DEF Media!Invalidate, Media!Cleared
<1>5. CASE Media!Delete
  <2>1. frames' \in Seq(AnyEvents)
    BY <1>5, EventEmitted DEF Media!Delete, Media!EndRun
  <2> QED
    BY <1>5, <2>1 DEF Media!Delete, Media!EndRun, Media!Steps
<1>6. CASE Media!Drop
  BY <1>6, EventTaken DEF Media!Drop
<1>7. CASE Media!ShowProgress \/ Media!ShowInvalidated \/ Media!ShowFailed
  <2>1. frames' \in Seq(AnyEvents) /\ Media!Arrived \in AnyEvents
    BY <1>7, EventTaken DEF Media!ShowProgress, Media!ShowInvalidated, Media!ShowFailed
  <2>2. Media!Arrived.epoch \in Nat /\ Media!Arrived.progress \in Nat
    BY <2>1 DEF AnyEvents
  <2>3. item' \in [epoch : Nat, progress : Nat, gen : Nat, active : BOOLEAN] /\ held' \in Nat
    <3>1. CASE Media!ShowProgress
      BY <2>2, <3>1 DEF Media!ShowProgress
    <3>2. CASE Media!ShowInvalidated
      BY <2>2, <3>2 DEF Media!ShowInvalidated
    <3>3. CASE Media!ShowFailed
      BY <3>3 DEF Media!ShowFailed
    <3> QED
      BY <1>7, <3>1, <3>2, <3>3
  <2> QED
    BY <1>7, <2>1, <2>3
    DEF Media!ShowProgress, Media!ShowInvalidated, Media!ShowFailed
<1>8. CASE Media!Upload
  BY <1>8 DEF Media!Upload
<1>9. CASE Media!Store
  <2>1. Media!Fenced(upload) \in AnyCheckpoints
    BY <1>9 DEF Media!Store, Media!Fenced
  <2> QED
    BY <1>9, <2>1 DEF Media!Store
<1>10. CASE Media!StopMedia
  <2>1. frames' \in Seq(AnyEvents)
    BY <1>10 DEF Media!StopMedia
  <2> QED
    BY SMTT(30), <1>10, <2>1 DEF Media!StopMedia, Media!Steps
<1>11. CASE UNCHANGED Media!pvars
  BY <1>11 DEF Media!pvars
<1> QED
  BY <1>1, <1>2, <1>3, <1>4, <1>5, <1>6, <1>7, <1>8, <1>9, <1>10, <1>11 DEF Media!Next

\* Every progress under way fits the files, unless a frame was held back.
LEMMA NextEveryProgressFits ==
  ASSUME MediaShapes, EveryProgressFits, ~crossed', [Media!Next]_(Media!pvars)
  PROVE  EveryProgressFits'
<1> USE DEF MediaShapes, AnyCheckpoints, EveryProgressFits, Fits, Uploading
<1>1. CASE Media!StartRun
  BY <1>1 DEF Media!StartRun
<1>2. CASE Media!Pause
  BY <1>2 DEF Media!Pause
<1>3. CASE Media!CancelEnds \/ Media!Fail
  BY <1>3 DEF Media!CancelEnds, Media!Fail
<1>4. CASE Media!Fetch
  <2>1. part' \in Nat /\ (part # 0 => part' = part)
    BY <1>4 DEF Media!Fetch
  <2>2. /\ UNCHANGED <<checkpoint, run, item, held, upload>>
        /\ run.step # "deleting"
    BY <1>4 DEF Media!Fetch
  <2>3. \A i \in 1 .. Len(frames') :
          \/ i \in 1 .. Len(frames) /\ frames'[i] = frames[i]
          \/ frames'[i].epoch = run.epoch /\ frames'[i].progress = part'
    BY SMTT(30), <1>4, <2>1, EventEmitted DEF Media!Fetch
  <2> QED
    BY <2>1, <2>2, <2>3
<1>5. CASE Media!Invalidate
  <2>1. CASE checkpoint' = Media!Cleared /\ Media!Emit("invalidated", checkpoint.epoch + 1, 0)
             /\ run' = [run EXCEPT !.step = "deleting"]
    <3>1. \A i \in 1 .. Len(frames') :
            \/ i \in 1 .. Len(frames) /\ frames'[i] = frames[i]
            \/ frames'[i].epoch = checkpoint.epoch + 1 /\ frames'[i].progress = 0
      <4>1. checkpoint.epoch + 1 \in Nat
        OBVIOUS
      <4> QED
        BY SMTT(30), <2>1, <4>1, EventEmitted
    <3>2. checkpoint'.epoch = checkpoint.epoch + 1 /\ checkpoint'.progress = 0
      BY <2>1 DEF Media!Cleared
    <3>3. UNCHANGED <<part, item, held, upload>> /\ run'.epoch = run.epoch
      BY <1>5, <2>1 DEF Media!Invalidate
    <3>4. \A i \in 1 .. Len(frames) : frames[i].epoch \in Nat
      <4>1. \A i \in 1 .. Len(frames) : frames[i] \in AnyEvents
        OBVIOUS
      <4> QED
        BY <4>1 DEF AnyEvents
    <3> QED
      BY SMTT(30), <3>1, <3>2, <3>3, <3>4
  <2>2. CASE Media!EndRun /\ UNCHANGED checkpoint
    <3>1. \A i \in 1 .. Len(frames') :
            \/ i \in 1 .. Len(frames) /\ frames'[i] = frames[i]
            \/ frames'[i].epoch = run.epoch /\ frames'[i].progress = 0
      BY SMTT(30), <2>2, EventEmitted DEF Media!EndRun
    <3> QED
      BY <1>5, <2>2, <3>1 DEF Media!Invalidate, Media!EndRun
  <2> QED
    BY <1>5, <2>1, <2>2 DEF Media!Invalidate
<1>6. CASE Media!Delete
  <2>1. \A i \in 1 .. Len(frames') :
          \/ i \in 1 .. Len(frames) /\ frames'[i] = frames[i]
          \/ frames'[i].epoch = run.epoch /\ frames'[i].progress = 0
    BY <1>6, EventEmitted DEF Media!Delete, Media!EndRun
  <2>2. /\ UNCHANGED <<checkpoint, item, held, upload>>
        /\ run.step = "deleting" /\ run'.step = "none" /\ run'.epoch = run.epoch
    BY <1>6 DEF Media!Delete, Media!EndRun
  <2> QED
    BY <2>1, <2>2
<1>7. CASE Media!Drop
  BY <1>7, EventTaken DEF Media!Drop
<1>8. CASE Media!ShowProgress \/ Media!ShowInvalidated \/ Media!ShowFailed
  <2>1. /\ Media!Arrived \in AnyEvents
        /\ Fits(Media!Arrived.epoch, Media!Arrived.progress)
        /\ \A i \in 1 .. Len(frames') : Fits(frames'[i].epoch, frames'[i].progress)
    <3>1. frames # <<>> /\ frames' = Tail(frames) /\ UNCHANGED <<checkpoint, part, run>>
      BY <1>8 DEF Media!ShowProgress, Media!ShowInvalidated, Media!ShowFailed
    <3>2. /\ Media!Arrived \in AnyEvents /\ Media!Arrived = frames[1] /\ 1 \in 1 .. Len(frames)
          /\ \A i \in 1 .. Len(Tail(frames)) :
               i + 1 \in 1 .. Len(frames) /\ Tail(frames)[i] = frames[i + 1]
      BY <3>1, EventTaken
    <3> QED
      BY <3>1, <3>2
  <2>2. UNCHANGED <<checkpoint, part, run, upload>>
    BY <1>8 DEF Media!ShowProgress, Media!ShowInvalidated, Media!ShowFailed
  <2>3. Fits(item'.epoch, item'.progress) /\ Fits(item'.epoch, held')
    <3>1. CASE Media!ShowProgress
      BY <3>1, <2>1 DEF Media!ShowProgress
    <3>2. CASE Media!ShowInvalidated
      BY <3>2, <2>1 DEF Media!ShowInvalidated
    <3>3. CASE Media!ShowFailed
      BY <3>3 DEF Media!ShowFailed
    <3> QED
      BY <1>8, <3>1, <3>2, <3>3
  <2> QED
    BY <2>1, <2>2, <2>3
<1>9. CASE Media!Upload
  BY <1>9 DEF Media!Upload
<1>10. CASE Media!Store
  BY <1>10 DEF Media!Store, Media!Fenced
<1>11. CASE Media!StopMedia
  <2>1. Len(frames') = 0
    BY <1>11 DEF Media!StopMedia
  <2> QED
    BY <1>11, <2>1 DEF Media!StopMedia
<1>12. CASE UNCHANGED Media!pvars
  BY <1>12 DEF Media!pvars
<1> QED
  BY <1>1, <1>2, <1>3, <1>4, <1>5, <1>6, <1>7, <1>8, <1>9, <1>10, <1>11, <1>12
  DEF Media!Next

\* The invariant of the progress is inductive and implies what is promised of it.
LEMMA InitMedia == Media!Init => MediaInvariant
<1> SUFFICES ASSUME Media!Init PROVE MediaInvariant
  OBVIOUS
<1>1. MediaShapes
  BY DEF Media!Init, MediaShapes, AnyCheckpoints, Media!Steps
<1>2. EveryProgressFits
  BY DEF Media!Init, EveryProgressFits, Fits, Uploading
<1> QED
  BY <1>1, <1>2 DEF MediaInvariant

LEMMA NextMedia == MediaInvariant /\ [Media!Next]_(Media!pvars) => MediaInvariant'
<1> SUFFICES ASSUME MediaInvariant, [Media!Next]_(Media!pvars) PROVE MediaInvariant'
  OBVIOUS
<1>1. crossed => crossed'
  BY DEF Media!Next, Media!pvars, Media!StartRun, Media!Fetch, Media!Pause, Media!CancelEnds,
     Media!Fail, Media!Invalidate, Media!Delete, Media!Drop, Media!ShowProgress,
     Media!ShowInvalidated, Media!ShowFailed, Media!Upload, Media!Store, Media!StopMedia
<1> QED
  BY <1>1, NextMediaShapes, NextEveryProgressFits DEF MediaInvariant

LEMMA MediaSafety == MediaInvariant => Media!ProgressIsOfTheseBytes
BY DEF MediaInvariant, EveryProgressFits, Fits, Media!ProgressIsOfTheseBytes

-----------------------------------------------------------------------------
(* The options of a torrent while it lives.                                *)

\* The steps at which a command changes the web seeds in the daemon, and what a user may choose.
Changes == {"change", "undo", "unsave"}
Chosen == [seeds : SUBSET Options!Seeds, caps : SUBSET Options!Caps, sel : Nat]

\* The types: of what is chosen, of the torrent and of the command that holds its lock.
ChoiceShapes ==
  /\ payload \in Chosen /\ asked \in Chosen /\ row \in Chosen
  /\ saved \in [seeds : SUBSET Options!Seeds, sel : Nat]

TorrentShapes ==
  /\ mode \in {"idle", "queued", "taken", "adding", "live", "paused"}
  /\ uris \subseteq Options!Seeds /\ caps \subseteq Options!Caps
  /\ install \in [step : {"no", "due", "retire"}, fresh : BOOLEAN]
  /\ edits \in Nat /\ owned \in Nat /\ answer \in Nat

CommandShapes ==
  command \in
    [kind : {"none", "seeds", "install", "select"},
     step : {"none", "read", "change", "undo", "unsave", "own", "save", "restore"},
     want : SUBSET Options!Seeds, sel : Nat, own : Nat, before : SUBSET Options!Seeds,
     old : SUBSET Options!Seeds, was : SUBSET Options!Seeds, aim : SUBSET Options!Seeds,
     left : SUBSET SUBSET Options!Seeds, tried : SUBSET SUBSET Options!Seeds]

OptionShapes == ChoiceShapes /\ TorrentShapes /\ CommandShapes

\* Which step a command can be at, and where the torrent is meanwhile.
CommandHoldsLock ==
  /\ command.kind = "none" <=> command.step = "none"
  /\ command.kind = "seeds" => /\ command.step \in Changes \cup {"read"}
                               /\ mode \in {"adding", "live"}
  /\ command.kind = "install" => command.step \in {"change", "undo"} /\ install.step = "no"
  /\ command.kind = "select" => /\ command.step \in {"own", "save", "restore"}
                                /\ mode \in {"idle", "taken"}
  /\ command.step \in Changes => mode = "live"

\* The limits are the same in the row and in the payload, and in a daemon nobody lost touch with.
LimitsFollow ==
  /\ asked # Options!NoOptions => mode = "idle" /\ asked.caps = row.caps
  /\ mode # "idle" => payload.caps = row.caps
  /\ mode \in {"live", "paused"} /\ ~drift => caps = payload.caps

\* The web seeds of the metadata are never taken away.
MetadataStays ==
  /\ mode \in {"live", "paused"} => Options!Metadata \subseteq uris
  /\ command.step \in Changes => Options!Metadata \subseteq command.was

\* What a change of the web seeds starts from, where it goes, and what an undo leads back to.
ChangeCanBeUndone ==
  command.step \in Changes =>
    /\ command.kind = "seeds" =>
         /\ command.was = Options!Metadata \cup command.before
         /\ command.aim = Options!Metadata \cup command.want
         /\ payload.seeds = command.want
    /\ command.kind = "install" =>
         /\ command.aim = command.was \cup payload.seeds
         /\ ~drift => command.was \subseteq Options!Metadata \cup payload.seeds
    /\ command.step # "unsave" =>
         \A seed \in Options!Seeds :
           (\A file \in command.tried : seed \notin file) =>
             (seed \in uris <=> seed \in command.was)

\* Between changes the daemon has the payload's web seeds, or has yet to get the first ones.
UrisFollow ==
  (mode \in {"live", "paused"} /\ alive /\ ~drift /\ command.step \notin Changes) =>
    /\ install.step = "no" => uris = Options!Metadata \cup payload.seeds
    /\ install.step = "due" => uris \subseteq Options!Metadata \cup payload.seeds

\* The seeds of the row are those of the database, and the payload's are too, unless they
\* were saved where no transfer could take them; a command can lead back to both.
SeedsFollow ==
  /\ command.kind = "seeds" => saved.seeds = command.want /\ row.seeds = command.old
  /\ command.kind # "seeds" => row.seeds = saved.seeds
  /\ command.step = "read" => payload.seeds = command.before
  /\ (~missed /\ ~late /\ mode # "idle" /\ (mode \in {"live", "paused"} => ~drift)) =>
       /\ command.kind = "seeds" => command.before = command.old
       /\ command.kind # "seeds" => payload.seeds = saved.seeds

\* The selection in the registry, the payload, the database and the row.
SelectionFollows ==
  /\ command.kind = "select" => command.sel # 0
  /\ command.step = "own" => command.own = owned
  /\ command.step = "save" => owned = command.sel
  /\ command.step = "restore" => saved.sel = command.sel
  /\ answer # 0 => answer = saved.sel /\ command.kind # "select"
  /\ (command.step # "restore" /\ answer = 0 /\ ~orphaned) => row.sel = saved.sel
  /\ ~late => /\ command.step = "save" => command.own = saved.sel
              /\ command.step # "save" => owned = saved.sel
              /\ mode # "idle" /\ command.step # "restore" => payload.sel = saved.sel

\* The inductive invariant of the options.
OptionInvariant ==
  /\ OptionShapes /\ CommandHoldsLock /\ LimitsFollow /\ MetadataStays /\ ChangeCanBeUndone
  /\ UrisFollow /\ SeedsFollow /\ SelectionFollows
\* A change of a limit reaches the row with the payload, and the daemon unless its answer is lost.
LEMMA LimitChanges ==
  ASSUME OptionShapes, NEW cap \in Options!Caps, Options!SetLimit(cap)
  PROVE  /\ mode = "live" /\ command.kind = "none"
         /\ payload' \in Chosen /\ payload'.seeds = payload.seeds /\ payload'.sel = payload.sel
         /\ row' \in Chosen /\ row'.seeds = row.seeds /\ row'.sel = row.sel
         /\ payload.caps = row.caps => payload'.caps = row'.caps
         /\ caps' \subseteq Options!Caps /\ edits' = edits + 1
         /\ ~drift' => ~drift /\ (caps = payload.caps => caps' = payload'.caps)
         /\ UNCHANGED <<mode, asked, uris, alive, saved, owned, command, install, answer,
                        session, orphaned, missed, late, transfers>>
<1> USE DEF OptionShapes, ChoiceShapes, TorrentShapes, Chosen
<1> PICK done \in BOOLEAN, heard \in BOOLEAN : Options!Limit(cap, done, heard)
  BY DEF Options!SetLimit
<1>1. /\ mode = "live" /\ command.kind = "none" /\ edits' = edits + 1
      /\ UNCHANGED <<mode, asked, uris, alive, saved, owned, command, install, answer, session,
                     orphaned, missed, late, transfers>>
  BY DEF Options!SetLimit, Options!Free, Options!window
<1>2. \A set \in SUBSET Options!Caps : Options!Toggle(set, cap) \in SUBSET Options!Caps
  BY DEF Options!Toggle
<1>3. CASE done /\ heard
  <2>1. caps' = Options!Toggle(caps, cap) /\ (~drift' => ~drift)
    BY <1>3 DEF Options!Limit
  <2>2. /\ payload' = [payload EXCEPT !.caps = Options!Toggle(payload.caps, cap)]
        /\ row' = [row EXCEPT !.caps = Options!Toggle(row.caps, cap)]
    BY <1>3 DEF Options!Limit
  <2>3. /\ payload'.caps = Options!Toggle(payload.caps, cap) /\ payload' \in Chosen
        /\ payload'.seeds = payload.seeds /\ payload'.sel = payload.sel
    BY <1>2, <2>2
  <2>4. /\ row'.caps = Options!Toggle(row.caps, cap) /\ row' \in Chosen
        /\ row'.seeds = row.seeds /\ row'.sel = row.sel
    BY <1>2, <2>2
  <2> QED
    BY <1>1, <1>2, <2>1, <2>3, <2>4
<1>4. CASE ~(done /\ heard)
  <2>1. payload' = payload /\ row' = row
    BY <1>4 DEF Options!Limit
  <2>2. caps' \subseteq Options!Caps
    BY <1>2, <1>4 DEF Options!Limit
  <2>3. ~drift' => ~drift /\ caps' = caps
    BY <1>4 DEF Options!Limit
  <2> QED
    BY <1>1, <2>1, <2>2, <2>3
<1> QED
  BY <1>3, <1>4

\* A change of the web seeds that is to reach the daemon begins with a read; any other is only
\* shown.
LEMMA SeedsAreAsked ==
  ASSUME ChoiceShapes, Options!SetWebSeeds
  PROVE  /\ UNCHANGED <<mode, payload, asked, uris, caps, owned, install, answer, session, late,
                       orphaned>>
         /\ saved'.sel = saved.sel
         /\ \/ Options!Active /\ command'.kind = "seeds" /\ command'.step = "read" /\ row' = row
            \/ command' = command /\ row'.sel = row.sel
<1>1. PICK want \in SUBSET Options!Seeds :
        /\ saved' = [saved EXCEPT !.seeds = want]
        /\ IF Options!Active
             THEN /\ command' = [Options!NoCommand EXCEPT !.kind = "seeds", !.step = "read",
                                   !.want = want, !.before = payload.seeds, !.old = saved.seeds]
                  /\ row' = row
             ELSE command' = command /\ row' = [row EXCEPT !.seeds = want]
  BY DEF Options!SetWebSeeds
<1>2. saved'.sel = saved.sel /\ (~Options!Active => row'.sel = row.sel)
  BY <1>1 DEF ChoiceShapes, Chosen
<1>3. ASSUME NEW before, NEW old,
             command' = [Options!NoCommand EXCEPT !.kind = "seeds", !.step = "read",
                           !.want = want, !.before = before, !.old = old]
      PROVE  command'.kind = "seeds" /\ command'.step = "read"
  BY <1>3 DEF Options!NoCommand
<1>4. Options!Active => command'.kind = "seeds" /\ command'.step = "read"
  BY <1>1, <1>3
<1>5. UNCHANGED <<mode, payload, asked, uris, caps, owned, install, answer, session, late,
                  orphaned>>
  BY DEF Options!SetWebSeeds, Options!transfer, Options!window
<1> QED
  BY <1>1, <1>2, <1>4, <1>5

\* What may be left out of the seeds or added to them.
LEMMA SeedsArePlanned ==
  ASSUME OptionShapes, Options!PlanSeeds
  PROVE  /\ command.kind = "seeds" /\ command.step = "read"
         /\ UNCHANGED <<mode, asked, uris, caps, alive, row, owned, install, answer, session,
                        orphaned, drift, missed, late, edits, transfers>>
         /\ \/ /\ Options!GiveUpSeeds /\ payload' = payload
            \/ /\ mode = "live" /\ alive /\ Options!Known /\ saved' = saved
               /\ payload' \in Chosen /\ payload'.seeds = command.want
               /\ payload'.caps = payload.caps /\ payload'.sel = payload.sel
               /\ CommandShapes' /\ command'.kind = "seeds" /\ command'.step = "change"
               /\ command'.want = command.want /\ command'.before = command.before
               /\ command'.old = command.old /\ command'.was = uris
               /\ command'.aim = Options!Planned
<1> USE DEF OptionShapes, ChoiceShapes, TorrentShapes, Chosen
<1>1. /\ command.kind = "seeds" /\ command.step = "read"
      /\ UNCHANGED <<mode, asked, uris, caps, alive, row, owned, install, answer, session,
                     orphaned, drift, missed, late, edits, transfers>>
  BY DEF Options!PlanSeeds, Options!transfer, Options!window
<1>2. CASE Options!GiveUpSeeds /\ payload' = payload
  BY <1>1, <1>2
<1>3. CASE ~(Options!GiveUpSeeds /\ payload' = payload)
  <2> DEFINE files == {file \in Options!FileSeeds : Options!Planned \cap file # uris \cap file}
  <2>1. /\ mode = "live" /\ alive /\ Options!Known /\ saved' = saved
        /\ payload' = [payload EXCEPT !.seeds = command.want]
        /\ command' = [command EXCEPT !.step = "change", !.was = uris, !.aim = Options!Planned,
                         !.left = files]
    BY <1>3 DEF Options!PlanSeeds
  <2>2. Options!Planned \in SUBSET Options!Seeds /\ files \in SUBSET SUBSET Options!Seeds
    <3>1. command.want \in SUBSET Options!Seeds
      BY DEF CommandShapes
    <3>2. Options!Planned \in SUBSET Options!Seeds
      BY <3>1 DEF Options!Planned
    <3>3. Options!FileSeeds \in SUBSET SUBSET Options!Seeds
      BY DEF Options!FileSeeds, Options!Seeds
    <3> QED
      BY <3>2, <3>3
  <2> HIDE DEF files
  <2>3. /\ payload' \in Chosen /\ payload'.seeds = command.want
        /\ payload'.caps = payload.caps /\ payload'.sel = payload.sel
    BY <2>1 DEF CommandShapes
  <2>4. CommandShapes'
    BY <2>1, <2>2 DEF CommandShapes
  <2>5. /\ command'.kind = "seeds" /\ command'.step = "change"
        /\ command'.want = command.want /\ command'.before = command.before
        /\ command'.old = command.old /\ command'.was = uris
        /\ command'.aim = Options!Planned
    BY <1>1, <2>1 DEF CommandShapes
  <2> QED
    BY <1>1, <2>1, <2>3, <2>4, <2>5
<1> QED
  BY <1>2, <1>3

\* The first web seeds are attached on top of what the daemon has.
LEMMA SeedsAreInstalled ==
  ASSUME OptionShapes, Options!Install
  PROVE  /\ install.step = "due" /\ command.kind = "none"
         /\ UNCHANGED <<mode, payload, asked, uris, caps, alive, row, saved, owned, answer,
                        session, orphaned, drift, missed, late, edits, transfers>>
         /\ \/ /\ command' = command
               /\ install' = [step |-> "retire", fresh |-> install.fresh]
            \/ /\ mode = "live" /\ alive
               /\ install' = [step |-> "no", fresh |-> install.fresh]
               /\ CommandShapes' /\ command'.kind = "install" /\ command'.step = "change"
               /\ command'.was = uris /\ command'.aim = uris \cup payload.seeds
<1> USE DEF OptionShapes, ChoiceShapes, TorrentShapes, Chosen
<1>1. /\ install.step = "due" /\ command.kind = "none"
      /\ UNCHANGED <<mode, payload, asked, uris, caps, alive, row, saved, owned, answer,
                     session, orphaned, drift, missed, late, edits, transfers>>
  BY DEF Options!Install, Options!transfer, Options!window, Options!Free
<1>2. CASE mode = "live" /\ alive
  <2> DEFINE files == {{s} : s \in payload.seeds \ uris}
  <2>1. /\ command' = [Options!NoCommand EXCEPT !.kind = "install", !.step = "change",
                         !.was = uris, !.aim = uris \cup payload.seeds, !.left = files]
        /\ install' = [install EXCEPT !.step = "no"]
    BY <1>2 DEF Options!Install
  <2>2. files \in SUBSET SUBSET Options!Seeds /\ uris \cup payload.seeds \subseteq Options!Seeds
    OBVIOUS
  <2> HIDE DEF files
  <2>3. CommandShapes'
    BY <2>1, <2>2 DEF CommandShapes, Options!NoCommand
  <2>4. /\ command'.kind = "install" /\ command'.step = "change"
        /\ command'.was = uris /\ command'.aim = uris \cup payload.seeds
    BY <2>1 DEF Options!NoCommand
  <2> QED
    BY <1>1, <1>2, <2>1, <2>3, <2>4
<1>3. CASE ~(mode = "live" /\ alive)
  BY <1>1, <1>3 DEF Options!Install
<1> QED
  BY <1>2, <1>3

\* A new list of seeds is saved before the transfer is touched.
LEMMA SeedsAreRequested ==
  ASSUME OptionShapes, Options!SetWebSeeds
  PROVE  \E want \in SUBSET Options!Seeds :
           /\ command.kind = "none" /\ asked = Options!NoOptions /\ edits' = edits + 1
           /\ saved' = [saved EXCEPT !.seeds = want]
           /\ UNCHANGED <<mode, payload, asked, uris, caps, alive, owned, install, answer,
                          session, orphaned, drift, late, transfers>>
           /\ \/ /\ mode \in {"adding", "live"} /\ row' = row /\ missed' = missed
                 /\ CommandShapes' /\ command'.kind = "seeds" /\ command'.step = "read"
                 /\ command'.want = want /\ command'.before = payload.seeds
                 /\ command'.old = saved.seeds
              \/ /\ mode \notin {"adding", "live"} /\ row' = [row EXCEPT !.seeds = want]
                 /\ command' = command /\ (mode # "idle" => missed')
<1> USE DEF OptionShapes, ChoiceShapes, TorrentShapes, Chosen
<1>1. /\ command.kind = "none" /\ asked = Options!NoOptions /\ edits' = edits + 1
      /\ UNCHANGED <<mode, payload, asked, uris, caps, alive, owned, install, answer, session,
                     orphaned, drift, late, transfers>>
  BY DEF Options!SetWebSeeds, Options!transfer, Options!window, Options!Free
<1> PICK want \in SUBSET Options!Seeds :
      /\ saved' = [saved EXCEPT !.seeds = want]
      /\ IF Options!Active
         THEN /\ command' = [Options!NoCommand EXCEPT !.kind = "seeds", !.step = "read",
                               !.want = want, !.before = payload.seeds, !.old = saved.seeds]
              /\ UNCHANGED <<row, missed>>
         ELSE /\ row' = [row EXCEPT !.seeds = want]
              /\ missed' = (mode # "idle")
              /\ UNCHANGED command
  BY DEF Options!SetWebSeeds
<1>2. CASE Options!Active
  <2>1. /\ command' = [Options!NoCommand EXCEPT !.kind = "seeds", !.step = "read",
                         !.want = want, !.before = payload.seeds, !.old = saved.seeds]
        /\ row' = row /\ missed' = missed /\ mode \in {"adding", "live"}
    BY <1>2 DEF Options!Active
  <2>2. CommandShapes'
    BY <2>1 DEF CommandShapes, Options!NoCommand
  <2>3. /\ command'.kind = "seeds" /\ command'.step = "read" /\ command'.want = want
        /\ command'.before = payload.seeds /\ command'.old = saved.seeds
    BY <2>1 DEF Options!NoCommand
  <2> QED
    BY <1>1, <2>1, <2>2, <2>3
<1>3. CASE ~Options!Active
  BY <1>1, <1>3 DEF Options!Active
<1> QED
  BY <1>2, <1>3

\* One file's seeds are changed, or may have been; the file is on the list of what to undo.
LEMMA FilesAreChanged ==
  ASSUME OptionShapes, Options!ChangeUris
  PROVE  \E file \in command.left :
           /\ command.step = "change"
           /\ UNCHANGED <<mode, payload, asked, caps, alive, row, saved, owned, install, answer,
                          session, orphaned, drift, missed, late, edits, transfers>>
           /\ uris' = (uris \ file) \cup (command.aim \cap file) \/ uris' = uris
           /\ uris' \subseteq Options!Seeds
           /\ CommandShapes' /\ command'.kind = command.kind
           /\ command'.step \in {"change", "undo"}
           /\ command'.want = command.want /\ command'.before = command.before
           /\ command'.old = command.old /\ command'.was = command.was
           /\ command'.aim = command.aim /\ command'.tried = command.tried \cup {file}
<1> USE DEF OptionShapes, TorrentShapes
<1>0. PICK file \in command.left, done \in BOOLEAN, heard \in BOOLEAN :
      /\ uris' = IF done THEN (uris \ file) \cup (command.aim \cap file) ELSE uris
      /\ command' = [command EXCEPT !.left = command.left \ {file},
                       !.tried = Options!Listed(file, done /\ heard),
                       !.step = IF done /\ heard THEN "change" ELSE "undo"]
  BY DEF Options!ChangeUris
<1>1. /\ command.step = "change"
      /\ UNCHANGED <<mode, payload, asked, caps, alive, row, saved, owned, install, answer,
                     session, orphaned, drift, missed, late, edits, transfers>>
  BY DEF Options!ChangeUris, Options!window
<1>2. PICK next \in {"change", "undo"} :
        command' = [command EXCEPT !.left = command.left \ {file},
                      !.tried = command.tried \cup {file}, !.step = next]
  BY <1>0 DEF Options!Listed
<1>3. /\ command.left \in SUBSET SUBSET Options!Seeds /\ command.aim \subseteq Options!Seeds
      /\ command.tried \in SUBSET SUBSET Options!Seeds
  BY DEF CommandShapes
<1>4. CommandShapes'
  <2> DEFINE rest == command.left \ {file}
             seen == command.tried \cup {file}
  <2>1. rest \in SUBSET SUBSET Options!Seeds /\ seen \in SUBSET SUBSET Options!Seeds
    BY <1>3
  <2>2. command' = [command EXCEPT !.left = rest, !.tried = seen, !.step = next]
    BY <1>2
  <2> HIDE DEF rest, seen
  <2> QED
    BY <2>1, <2>2 DEF CommandShapes
<1>5. /\ command'.kind = command.kind /\ command'.step \in {"change", "undo"}
      /\ command'.want = command.want /\ command'.before = command.before
      /\ command'.old = command.old /\ command'.was = command.was
      /\ command'.aim = command.aim /\ command'.tried = command.tried \cup {file}
  BY <1>2 DEF CommandShapes
<1>6. /\ uris' = (uris \ file) \cup (command.aim \cap file) \/ uris' = uris
      /\ uris' \subseteq Options!Seeds
  BY <1>0, <1>3
<1> QED
  BY <1>1, <1>4, <1>5, <1>6

\* A selection starts with what the ownership registry has.
LEMMA SelectionStarts ==
  ASSUME OptionShapes, Options!SelectFiles
  PROVE  /\ mode \in {"idle", "queued", "paused"} /\ command.kind = "none" /\ answer = 0
         /\ edits' = edits + 1
         /\ UNCHANGED <<payload, asked, uris, caps, alive, row, saved, owned, install, answer,
                        orphaned, drift, missed, late, transfers>>
         /\ \/ mode' = mode /\ command' = command
            \/ /\ mode = "queued" => payload.sel = saved.sel
               /\ mode' = IF mode = "queued" THEN "taken" ELSE "idle"
               /\ CommandShapes' /\ command'.kind = "select" /\ command'.step = "own"
               /\ command'.own = owned /\ command'.sel # 0
<1> USE DEF OptionShapes, TorrentShapes
<1>1. /\ mode \in {"idle", "queued", "paused"} /\ command.kind = "none" /\ answer = 0
      /\ edits' = edits + 1
      /\ UNCHANGED <<payload, asked, uris, caps, alive, row, saved, owned, install, answer,
                     orphaned, drift, missed, late, transfers>>
  BY DEF Options!SelectFiles, Options!transfer, Options!Free
<1>2. CASE mode' = mode /\ command' = command
  BY <1>1, <1>2
<1>3. CASE ~(mode' = mode /\ command' = command)
  <2>1. /\ mode = "queued" => payload.sel = saved.sel
        /\ mode' = IF mode = "queued" THEN "taken" ELSE "idle"
        /\ command' = [Options!NoCommand EXCEPT !.kind = "select", !.step = "own",
                         !.sel = edits + 2, !.own = owned]
    BY <1>3 DEF Options!SelectFiles
  <2>2. edits + 2 \in Nat \ {0}
    OBVIOUS
  <2>3. CommandShapes'
    BY <2>1, <2>2 DEF CommandShapes, Options!NoCommand
  <2>4. /\ command'.kind = "select" /\ command'.step = "own" /\ command'.own = owned
        /\ command'.sel # 0
    BY <2>1, <2>2 DEF Options!NoCommand
  <2> QED
    BY <1>1, <2>1, <2>3, <2>4
<1> QED
  BY <1>2, <1>3

\* The choices keep their types.
LEMMA NextChoiceShapes ==
  ASSUME OptionInvariant, [Options!Next]_(Options!ovars)
  PROVE  ChoiceShapes'
<1> USE DEF OptionInvariant, OptionShapes, ChoiceShapes, TorrentShapes, CommandShapes, Chosen,
   Options!transfer, Options!window, Options!Free
<1>1. CASE Options!Ask
  BY <1>1 DEF Options!Ask
<1>2. CASE Options!Enqueue
  <2>1. payload' = asked /\ row' = row /\ saved' = saved /\ asked' = Options!NoOptions
    BY <1>2 DEF Options!Enqueue
  <2>2. Options!NoOptions \in Chosen
    BY DEF Options!NoOptions
  <2> QED
    BY <2>1, <2>2
<1>3. CASE Options!Dispatch \/ Options!End \/ Options!Resume
  BY <1>3 DEF Options!Dispatch, Options!End, Options!Resume
<1>4. CASE Options!Map
  BY <1>4 DEF Options!Map
<1>5. CASE Options!Settle \/ Options!Pause
  BY <1>5 DEF Options!Settle, Options!Pause
<1>6. CASE Options!SetSpeedLimit \/ Options!SetUploadLimit \/ Options!SetPeerOptions
  <2>1. PICK cap \in Options!Caps : Options!SetLimit(cap)
    BY <1>6 DEF Options!SetSpeedLimit, Options!SetUploadLimit, Options!SetPeerOptions,
         Options!Caps
  <2> QED
    BY <2>1, LimitChanges
<1>7. CASE Options!SetWebSeeds
  BY <1>7 DEF Options!SetWebSeeds, Options!Active, Options!NoCommand, Options!Free
<1>8. CASE Options!PlanSeeds
  BY <1>8 DEF Options!PlanSeeds, Options!GiveUpSeeds, Options!Known, Options!Planned,
     Options!NoCommand, Options!Free
<1>9. CASE Options!ChangeUris
  BY <1>9 DEF Options!ChangeUris, Options!Listed, Options!Free
<1>10. CASE Options!ReadBack
  BY <1>10 DEF Options!ReadBack, Options!NoCommand, Options!Free
<1>11. CASE Options!Undo
  BY <1>11 DEF Options!Undo, Options!Undone, Options!GiveUpSeeds, Options!NoCommand, Options!Free
<1>12. CASE Options!Unsave
  BY <1>12 DEF Options!Unsave, Options!GiveUpSeeds, Options!NoCommand, Options!Free
<1>13. CASE Options!Install
  BY <1>13 DEF Options!Install, Options!NoCommand, Options!Free
<1>14. CASE Options!Retire
  BY <1>14 DEF Options!Retire, Options!Current, Options!Free
<1>15. CASE Options!SelectFiles
  BY <1>15 DEF Options!SelectFiles, Options!NoCommand, Options!Free
<1>16. CASE Options!OwnSelection
  BY <1>16 DEF Options!OwnSelection, Options!PutBack, Options!NoCommand, Options!Free
<1>17. CASE Options!SaveSelection
  BY <1>17 DEF Options!SaveSelection, Options!PutBack, Options!Disown, Options!NoCommand,
     Options!Free
<1>18. CASE Options!RestoreTask
  BY <1>18 DEF Options!RestoreTask, Options!PutBack, Options!NoCommand, Options!Free
<1>19. CASE Options!ShowSelection \/ Options!CloseWindow
  BY <1>19 DEF Options!ShowSelection, Options!CloseWindow
<1>20. CASE UNCHANGED Options!ovars
  BY <1>20 DEF Options!ovars
<1> QED
  BY <1>1, <1>2, <1>3, <1>4, <1>5, <1>6, <1>7, <1>8, <1>9, <1>10, <1>11, <1>12, <1>13, <1>14,
     <1>15, <1>16, <1>17, <1>18, <1>19, <1>20 DEF Options!Next

\* So does the torrent.
LEMMA NextTorrentShapes ==
  ASSUME OptionInvariant, [Options!Next]_(Options!ovars)
  PROVE  TorrentShapes'
<1> USE DEF OptionInvariant, OptionShapes, ChoiceShapes, TorrentShapes, CommandShapes, Chosen,
   Options!transfer, Options!window, Options!Free
<1>1. CASE Options!Ask
  BY <1>1 DEF Options!Ask
<1>2. CASE Options!Enqueue
  BY <1>2 DEF Options!Enqueue
<1>3. CASE Options!Dispatch \/ Options!End \/ Options!Resume
  BY <1>3 DEF Options!Dispatch, Options!End, Options!Resume
<1>4. CASE Options!Map
  <2>1. /\ mode' = "live" /\ uris' = {3} /\ caps' = payload.caps
        /\ UNCHANGED <<edits, owned, answer>>
    BY <1>4 DEF Options!Map, Options!Metadata
  <2>2. install' = [step |-> "due", fresh |-> TRUE] \/ install' = install
    BY <1>4 DEF Options!Map
  <2>3. 3 \in Options!Seeds
    BY DEF Options!Seeds
  <2>4. install' \in [step : {"no", "due", "retire"}, fresh : BOOLEAN]
    <3>1. CASE install' = install
      BY <3>1
    <3>2. CASE install' = [step |-> "due", fresh |-> TRUE]
      BY <3>2
    <3> QED
      BY <2>2, <3>1, <3>2
  <2>5. caps' \subseteq Options!Caps
    BY <2>1
  <2> QED
    BY <2>1, <2>3, <2>4, <2>5
<1>5. CASE Options!Settle \/ Options!Pause
  BY <1>5 DEF Options!Settle, Options!Pause
<1>6. CASE Options!SetSpeedLimit \/ Options!SetUploadLimit \/ Options!SetPeerOptions
  <2>1. PICK cap \in Options!Caps : Options!SetLimit(cap)
    BY <1>6 DEF Options!SetSpeedLimit, Options!SetUploadLimit, Options!SetPeerOptions,
         Options!Caps
  <2> QED
    BY <2>1, LimitChanges
<1>7. CASE Options!SetWebSeeds
  BY <1>7 DEF Options!SetWebSeeds, Options!Active, Options!NoCommand, Options!Free
<1>8. CASE Options!PlanSeeds
  BY <1>8 DEF Options!PlanSeeds, Options!GiveUpSeeds, Options!Known, Options!Planned,
     Options!NoCommand, Options!Free
<1>9. CASE Options!ChangeUris
  BY <1>9 DEF Options!ChangeUris, Options!Listed, Options!Free
<1>10. CASE Options!ReadBack
  BY <1>10 DEF Options!ReadBack, Options!NoCommand, Options!Free
<1>11. CASE Options!Undo
  BY <1>11 DEF Options!Undo, Options!Undone, Options!GiveUpSeeds, Options!NoCommand, Options!Free
<1>12. CASE Options!Unsave
  BY <1>12 DEF Options!Unsave, Options!GiveUpSeeds, Options!NoCommand, Options!Free
<1>13. CASE Options!Install
  BY <1>13 DEF Options!Install, Options!NoCommand, Options!Free
<1>14. CASE Options!Retire
  BY <1>14 DEF Options!Retire, Options!Current, Options!Free
<1>15. CASE Options!SelectFiles
  BY <1>15 DEF Options!SelectFiles, Options!NoCommand, Options!Free
<1>16. CASE Options!OwnSelection
  BY <1>16 DEF Options!OwnSelection, Options!PutBack, Options!NoCommand, Options!Free
<1>17. CASE Options!SaveSelection
  BY <1>17 DEF Options!SaveSelection, Options!PutBack, Options!Disown, Options!NoCommand,
     Options!Free
<1>18. CASE Options!RestoreTask
  BY <1>18 DEF Options!RestoreTask, Options!PutBack, Options!NoCommand, Options!Free
<1>19. CASE Options!ShowSelection \/ Options!CloseWindow
  BY <1>19 DEF Options!ShowSelection, Options!CloseWindow
<1>20. CASE UNCHANGED Options!ovars
  BY <1>20 DEF Options!ovars
<1> QED
  BY <1>1, <1>2, <1>3, <1>4, <1>5, <1>6, <1>7, <1>8, <1>9, <1>10, <1>11, <1>12, <1>13, <1>14,
     <1>15, <1>16, <1>17, <1>18, <1>19, <1>20 DEF Options!Next

\* So does the command.
LEMMA NextCommandShapes ==
  ASSUME OptionInvariant, [Options!Next]_(Options!ovars)
  PROVE  CommandShapes'
<1> USE DEF OptionInvariant, OptionShapes, ChoiceShapes, TorrentShapes, CommandShapes, Chosen,
   Options!transfer, Options!window, Options!Free
<1>1. CASE Options!Ask
  BY <1>1 DEF Options!Ask
<1>2. CASE Options!Enqueue
  BY <1>2 DEF Options!Enqueue
<1>3. CASE Options!Dispatch \/ Options!End \/ Options!Resume
  BY <1>3 DEF Options!Dispatch, Options!End, Options!Resume
<1>4. CASE Options!Map
  BY <1>4 DEF Options!Map
<1>5. CASE Options!Settle \/ Options!Pause
  BY <1>5 DEF Options!Settle, Options!Pause
<1>6. CASE Options!SetSpeedLimit \/ Options!SetUploadLimit \/ Options!SetPeerOptions
  BY <1>6 DEF Options!SetSpeedLimit, Options!SetLimit, Options!Limit, Options!Toggle,
     Options!Free, Options!SetUploadLimit, Options!SetPeerOptions
<1>7. CASE Options!SetWebSeeds
  BY <1>7, SeedsAreRequested
<1>8. CASE Options!PlanSeeds
  <2> HIDE DEF OptionShapes, Options!Known
  <2>1. CASE Options!GiveUpSeeds /\ payload' = payload
    BY <1>8, <2>1, SeedsArePlanned DEF Options!GiveUpSeeds, Options!NoCommand, OptionShapes
  <2>2. CASE ~(Options!GiveUpSeeds /\ payload' = payload)
    BY <1>8, <2>2, SeedsArePlanned DEF Options!Known, Options!Planned, OptionShapes
  <2> QED
    BY <2>1, <2>2
<1>9. CASE Options!ChangeUris
  BY <1>9, FilesAreChanged
<1>10. CASE Options!ReadBack
  BY <1>10 DEF Options!ReadBack, Options!NoCommand, Options!Free
<1>11. CASE Options!Undo
  BY <1>11 DEF Options!Undo, Options!Undone, Options!GiveUpSeeds, Options!NoCommand, Options!Free
<1>12. CASE Options!Unsave
  BY <1>12 DEF Options!Unsave, Options!GiveUpSeeds, Options!NoCommand, Options!Free
<1>13. CASE Options!Install
  BY <1>13, SeedsAreInstalled
<1>14. CASE Options!Retire
  BY <1>14 DEF Options!Retire, Options!Current, Options!Free
<1>15. CASE Options!SelectFiles
  BY <1>15, SelectionStarts
<1>16. CASE Options!OwnSelection
  BY <1>16 DEF Options!OwnSelection, Options!PutBack, Options!NoCommand, Options!Free
<1>17. CASE Options!SaveSelection
  BY <1>17 DEF Options!SaveSelection, Options!PutBack, Options!Disown, Options!NoCommand,
     Options!Free
<1>18. CASE Options!RestoreTask
  BY <1>18 DEF Options!RestoreTask, Options!PutBack, Options!NoCommand, Options!Free
<1>19. CASE Options!ShowSelection \/ Options!CloseWindow
  BY <1>19 DEF Options!ShowSelection, Options!CloseWindow
<1>20. CASE UNCHANGED Options!ovars
  BY <1>20 DEF Options!ovars
<1> QED
  BY <1>1, <1>2, <1>3, <1>4, <1>5, <1>6, <1>7, <1>8, <1>9, <1>10, <1>11, <1>12, <1>13, <1>14,
     <1>15, <1>16, <1>17, <1>18, <1>19, <1>20 DEF Options!Next

\* While a command holds the lock the torrent stays in the mode the command needs.
LEMMA NextCommandHoldsLock ==
  ASSUME OptionInvariant, [Options!Next]_(Options!ovars)
  PROVE  CommandHoldsLock'
<1> USE DEF OptionInvariant, OptionShapes, ChoiceShapes, TorrentShapes, CommandShapes,
   CommandHoldsLock, Changes, Options!transfer, Options!window, Options!Free
<1>1. CASE Options!Ask
  BY <1>1 DEF Options!Ask
<1>2. CASE Options!Enqueue
  BY <1>2 DEF Options!Enqueue
<1>3. CASE Options!Dispatch \/ Options!End \/ Options!Resume
  BY <1>3 DEF Options!Dispatch, Options!End, Options!Resume
<1>4. CASE Options!Map
  BY <1>4 DEF Options!Map
<1>5. CASE Options!Settle \/ Options!Pause
  BY <1>5 DEF Options!Settle, Options!Pause
<1>6. CASE Options!SetSpeedLimit \/ Options!SetUploadLimit \/ Options!SetPeerOptions
  BY <1>6 DEF Options!SetSpeedLimit, Options!SetLimit, Options!Limit, Options!Toggle,
     Options!Free, Options!SetUploadLimit, Options!SetPeerOptions
<1>7. CASE Options!SetWebSeeds
  BY <1>7, SeedsAreAsked DEF Options!Active
<1>8. CASE Options!PlanSeeds
  <2> HIDE DEF OptionShapes, Options!Known
  <2>1. CASE Options!GiveUpSeeds /\ payload' = payload
    BY <1>8, <2>1, SeedsArePlanned DEF Options!GiveUpSeeds, Options!NoCommand, OptionShapes
  <2>2. CASE ~(Options!GiveUpSeeds /\ payload' = payload)
    BY <1>8, <2>2, SeedsArePlanned DEF Options!Known, Options!Planned, OptionShapes
  <2> QED
    BY <2>1, <2>2
<1>9. CASE Options!ChangeUris
  BY <1>9 DEF Options!ChangeUris, Options!Listed, Options!Free
<1>10. CASE Options!ReadBack
  BY <1>10 DEF Options!ReadBack, Options!NoCommand, Options!Free
<1>11. CASE Options!Undo
  BY <1>11 DEF Options!Undo, Options!Undone, Options!GiveUpSeeds, Options!NoCommand, Options!Free
<1>12. CASE Options!Unsave
  BY <1>12 DEF Options!Unsave, Options!GiveUpSeeds, Options!NoCommand, Options!Free
<1>13. CASE Options!Install
  BY ZenonT(60), <1>13 DEF Options!Install, Options!NoCommand, Options!Free
<1>14. CASE Options!Retire
  BY <1>14 DEF Options!Retire, Options!Current, Options!Free
<1>15. CASE Options!SelectFiles
  BY ZenonT(60), <1>15 DEF Options!SelectFiles, Options!NoCommand, Options!Free
<1>16. CASE Options!OwnSelection
  BY <1>16 DEF Options!OwnSelection, Options!PutBack, Options!NoCommand, Options!Free
<1>17. CASE Options!SaveSelection
  BY <1>17 DEF Options!SaveSelection, Options!PutBack, Options!Disown, Options!NoCommand,
     Options!Free
<1>18. CASE Options!RestoreTask
  BY <1>18 DEF Options!RestoreTask, Options!PutBack, Options!NoCommand, Options!Free
<1>19. CASE Options!ShowSelection \/ Options!CloseWindow
  BY <1>19 DEF Options!ShowSelection, Options!CloseWindow
<1>20. CASE UNCHANGED Options!ovars
  BY <1>20 DEF Options!ovars
<1> QED
  BY <1>1, <1>2, <1>3, <1>4, <1>5, <1>6, <1>7, <1>8, <1>9, <1>10, <1>11, <1>12, <1>13, <1>14,
     <1>15, <1>16, <1>17, <1>18, <1>19, <1>20 DEF Options!Next

\* The limits are written to the row and the payload together, and to the daemon at once.
LEMMA NextLimitsFollow ==
  ASSUME OptionInvariant, [Options!Next]_(Options!ovars)
  PROVE  LimitsFollow'
<1> USE DEF OptionInvariant, OptionShapes, ChoiceShapes, TorrentShapes, CommandShapes,
   CommandHoldsLock, LimitsFollow, Chosen, Options!transfer, Options!window, Options!Free
<1>1. CASE Options!Ask
  BY <1>1 DEF Options!Ask
<1>2. CASE Options!Enqueue
  BY <1>2 DEF Options!Enqueue
<1>3. CASE Options!Dispatch \/ Options!End \/ Options!Resume
  BY <1>3 DEF Options!Dispatch, Options!End, Options!Resume
<1>4. CASE Options!Map
  BY <1>4 DEF Options!Map
<1>5. CASE Options!Settle \/ Options!Pause
  BY <1>5 DEF Options!Settle, Options!Pause
<1>6. CASE Options!SetSpeedLimit \/ Options!SetUploadLimit \/ Options!SetPeerOptions
  <2>1. PICK cap \in Options!Caps : Options!SetLimit(cap)
    BY <1>6 DEF Options!SetSpeedLimit, Options!SetUploadLimit, Options!SetPeerOptions,
         Options!Caps
  <2> QED
    BY <2>1, LimitChanges
<1>7. CASE Options!SetWebSeeds
  BY <1>7 DEF Options!SetWebSeeds, Options!Active, Options!NoCommand, Options!Free
<1>8. CASE Options!PlanSeeds
  BY <1>8 DEF Options!PlanSeeds, Options!GiveUpSeeds, Options!Known, Options!Planned,
     Options!NoCommand, Options!Free
<1>9. CASE Options!ChangeUris
  BY <1>9 DEF Options!ChangeUris, Options!Listed, Options!Free
<1>10. CASE Options!ReadBack
  BY <1>10 DEF Options!ReadBack, Options!NoCommand, Options!Free
<1>11. CASE Options!Undo
  BY <1>11 DEF Options!Undo, Options!Undone, Options!GiveUpSeeds, Options!NoCommand, Options!Free
<1>12. CASE Options!Unsave
  BY <1>12 DEF Options!Unsave, Options!GiveUpSeeds, Options!NoCommand, Options!Free
<1>13. CASE Options!Install
  BY <1>13 DEF Options!Install, Options!NoCommand, Options!Free
<1>14. CASE Options!Retire
  BY <1>14 DEF Options!Retire, Options!Current, Options!Free
<1>15. CASE Options!SelectFiles
  BY <1>15 DEF Options!SelectFiles, Options!NoCommand, Options!Free
<1>16. CASE Options!OwnSelection
  BY <1>16 DEF Options!OwnSelection, Options!PutBack, Options!NoCommand, Options!Free
<1>17. CASE Options!SaveSelection
  BY <1>17 DEF Options!SaveSelection, Options!PutBack, Options!Disown, Options!NoCommand,
     Options!Free
<1>18. CASE Options!RestoreTask
  BY <1>18 DEF Options!RestoreTask, Options!PutBack, Options!NoCommand, Options!Free
<1>19. CASE Options!ShowSelection \/ Options!CloseWindow
  BY <1>19 DEF Options!ShowSelection, Options!CloseWindow
<1>20. CASE UNCHANGED Options!ovars
  BY <1>20 DEF Options!ovars
<1> QED
  BY <1>1, <1>2, <1>3, <1>4, <1>5, <1>6, <1>7, <1>8, <1>9, <1>10, <1>11, <1>12, <1>13, <1>14,
     <1>15, <1>16, <1>17, <1>18, <1>19, <1>20 DEF Options!Next

\* Nothing takes away what the metadata named.
LEMMA NextMetadataStays ==
  ASSUME OptionInvariant, [Options!Next]_(Options!ovars)
  PROVE  MetadataStays'
<1> USE DEF OptionInvariant, OptionShapes, ChoiceShapes, TorrentShapes, CommandShapes,
   CommandHoldsLock, MetadataStays, Changes, ChangeCanBeUndone, Options!transfer, Options!window,
   Options!Free
<1>1. CASE Options!Ask
  BY <1>1 DEF Options!Ask
<1>2. CASE Options!Enqueue
  BY <1>2 DEF Options!Enqueue
<1>3. CASE Options!Dispatch \/ Options!End \/ Options!Resume
  BY <1>3 DEF Options!Dispatch, Options!End, Options!Resume
<1>4. CASE Options!Map
  BY <1>4 DEF Options!Map
<1>5. CASE Options!Settle \/ Options!Pause
  BY <1>5 DEF Options!Settle, Options!Pause
<1>6. CASE Options!SetSpeedLimit \/ Options!SetUploadLimit \/ Options!SetPeerOptions
  BY <1>6 DEF Options!SetSpeedLimit, Options!SetLimit, Options!Limit, Options!Toggle,
     Options!Free, Options!SetUploadLimit, Options!SetPeerOptions
<1>7. CASE Options!SetWebSeeds
  BY ZenonT(60), <1>7 DEF Options!SetWebSeeds, Options!Active, Options!NoCommand, Options!Free
<1>8. CASE Options!PlanSeeds
  <2> HIDE DEF OptionShapes, Options!Known
  <2>1. CASE Options!GiveUpSeeds /\ payload' = payload
    BY <1>8, <2>1, SeedsArePlanned DEF Options!GiveUpSeeds, Options!NoCommand, OptionShapes
  <2>2. CASE ~(Options!GiveUpSeeds /\ payload' = payload)
    BY <1>8, <2>2, SeedsArePlanned DEF Options!Known, Options!Planned, OptionShapes
  <2> QED
    BY <2>1, <2>2
<1>9. CASE Options!ChangeUris
  BY <1>9 DEF Options!ChangeUris, Options!Listed, Options!Free
<1>10. CASE Options!ReadBack
  BY <1>10 DEF Options!ReadBack, Options!NoCommand, Options!Free
<1>11. CASE Options!Undo
  BY <1>11 DEF Options!Undo, Options!Undone, Options!GiveUpSeeds, Options!NoCommand, Options!Free
<1>12. CASE Options!Unsave
  BY <1>12 DEF Options!Unsave, Options!GiveUpSeeds, Options!NoCommand, Options!Free
<1>13. CASE Options!Install
  BY <1>13, SeedsAreInstalled
<1>14. CASE Options!Retire
  BY <1>14 DEF Options!Retire, Options!Current, Options!Free
<1>15. CASE Options!SelectFiles
  BY <1>15 DEF Options!SelectFiles, Options!NoCommand, Options!Free
<1>16. CASE Options!OwnSelection
  BY <1>16 DEF Options!OwnSelection, Options!PutBack, Options!NoCommand, Options!Free
<1>17. CASE Options!SaveSelection
  BY <1>17 DEF Options!SaveSelection, Options!PutBack, Options!Disown, Options!NoCommand,
     Options!Free
<1>18. CASE Options!RestoreTask
  BY <1>18 DEF Options!RestoreTask, Options!PutBack, Options!NoCommand, Options!Free
<1>19. CASE Options!ShowSelection \/ Options!CloseWindow
  BY <1>19 DEF Options!ShowSelection, Options!CloseWindow
<1>20. CASE UNCHANGED Options!ovars
  BY <1>20 DEF Options!ovars
<1> QED
  BY <1>1, <1>2, <1>3, <1>4, <1>5, <1>6, <1>7, <1>8, <1>9, <1>10, <1>11, <1>12, <1>13, <1>14,
     <1>15, <1>16, <1>17, <1>18, <1>19, <1>20 DEF Options!Next

\* A change keeps what it started from until it is saved or undone.
LEMMA NextChangeCanBeUndone ==
  ASSUME OptionInvariant, [Options!Next]_(Options!ovars)
  PROVE  ChangeCanBeUndone'
<1> USE DEF OptionInvariant, OptionShapes, ChoiceShapes, TorrentShapes, CommandShapes,
   CommandHoldsLock, MetadataStays, Changes, ChangeCanBeUndone, UrisFollow, Chosen,
   Options!transfer, Options!window, Options!Free
<1>1. CASE Options!Ask
  BY <1>1 DEF Options!Ask
<1>2. CASE Options!Enqueue
  BY <1>2 DEF Options!Enqueue
<1>3. CASE Options!Dispatch \/ Options!End \/ Options!Resume
  BY <1>3 DEF Options!Dispatch, Options!End, Options!Resume
<1>4. CASE Options!Map
  BY <1>4 DEF Options!Map
<1>5. CASE Options!Settle \/ Options!Pause
  BY <1>5 DEF Options!Settle, Options!Pause
<1>6. CASE Options!SetSpeedLimit \/ Options!SetUploadLimit \/ Options!SetPeerOptions
  BY <1>6 DEF Options!SetSpeedLimit, Options!SetLimit, Options!Limit, Options!Toggle,
     Options!Free, Options!SetUploadLimit, Options!SetPeerOptions
<1>7. CASE Options!SetWebSeeds
  BY <1>7, SeedsAreRequested
<1>8. CASE Options!PlanSeeds
  <2> HIDE DEF OptionShapes, Options!Known
  <2>1. CASE Options!GiveUpSeeds /\ payload' = payload
    BY <1>8, <2>1, SeedsArePlanned DEF Options!GiveUpSeeds, Options!NoCommand, OptionShapes
  <2>2. CASE ~(Options!GiveUpSeeds /\ payload' = payload)
    BY <1>8, <2>2, SeedsArePlanned DEF Options!Known, Options!Planned, OptionShapes
  <2> QED
    BY <2>1, <2>2
<1>9. CASE Options!ChangeUris
  BY <1>9 DEF Options!ChangeUris, Options!Listed, Options!Free
<1>10. CASE Options!ReadBack
  BY <1>10 DEF Options!ReadBack, Options!NoCommand, Options!Free
<1>11. CASE Options!Undo
  BY <1>11 DEF Options!Undo, Options!Undone, Options!GiveUpSeeds, Options!NoCommand, Options!Free
<1>12. CASE Options!Unsave
  BY <1>12 DEF Options!Unsave, Options!GiveUpSeeds, Options!NoCommand, Options!Free
<1>13. CASE Options!Install
  BY <1>13, SeedsAreInstalled
<1>14. CASE Options!Retire
  BY <1>14 DEF Options!Retire, Options!Current, Options!Free
<1>15. CASE Options!SelectFiles
  BY <1>15, SelectionStarts
<1>16. CASE Options!OwnSelection
  BY <1>16 DEF Options!OwnSelection, Options!PutBack, Options!NoCommand, Options!Free
<1>17. CASE Options!SaveSelection
  BY <1>17 DEF Options!SaveSelection, Options!PutBack, Options!Disown, Options!NoCommand,
     Options!Free
<1>18. CASE Options!RestoreTask
  BY <1>18 DEF Options!RestoreTask, Options!PutBack, Options!NoCommand, Options!Free
<1>19. CASE Options!ShowSelection \/ Options!CloseWindow
  BY <1>19 DEF Options!ShowSelection, Options!CloseWindow
<1>20. CASE UNCHANGED Options!ovars
  BY <1>20 DEF Options!ovars
<1> QED
  BY <1>1, <1>2, <1>3, <1>4, <1>5, <1>6, <1>7, <1>8, <1>9, <1>10, <1>11, <1>12, <1>13, <1>14,
     <1>15, <1>16, <1>17, <1>18, <1>19, <1>20 DEF Options!Next

\* The daemon's web seeds change with a command only, and come to what the payload asks for.
LEMMA NextUrisFollow ==
  ASSUME OptionInvariant, [Options!Next]_(Options!ovars)
  PROVE  UrisFollow'
<1> USE DEF OptionInvariant, OptionShapes, ChoiceShapes, TorrentShapes, CommandShapes,
   CommandHoldsLock, MetadataStays, Changes, ChangeCanBeUndone, UrisFollow, Chosen,
   Options!transfer, Options!window, Options!Free
<1>1. CASE Options!Ask
  BY <1>1 DEF Options!Ask
<1>2. CASE Options!Enqueue
  BY <1>2 DEF Options!Enqueue
<1>3. CASE Options!Dispatch \/ Options!End \/ Options!Resume
  BY <1>3 DEF Options!Dispatch, Options!End, Options!Resume
<1>4. CASE Options!Map
  BY <1>4 DEF Options!Map
<1>5. CASE Options!Settle \/ Options!Pause
  BY <1>5 DEF Options!Settle, Options!Pause
<1>6. CASE Options!SetSpeedLimit \/ Options!SetUploadLimit \/ Options!SetPeerOptions
  BY ZenonT(60), <1>6 DEF Options!SetSpeedLimit, Options!SetLimit, Options!Limit, Options!Toggle,
     Options!Free, Options!SetUploadLimit, Options!SetPeerOptions
<1>7. CASE Options!SetWebSeeds
  BY <1>7 DEF Options!SetWebSeeds, Options!Active, Options!NoCommand, Options!Free
<1>8. CASE Options!PlanSeeds
  BY <1>8 DEF Options!PlanSeeds, Options!GiveUpSeeds, Options!Known, Options!Planned,
     Options!NoCommand, Options!Free
<1>9. CASE Options!ChangeUris
  BY <1>9 DEF Options!ChangeUris, Options!Listed, Options!Free
<1>10. CASE Options!ReadBack
  BY <1>10 DEF Options!ReadBack, Options!NoCommand, Options!Free
<1>11. CASE Options!Undo
  <2>1. PICK files \in SUBSET command.tried :
          uris' = Options!Undone(files) /\ drift' = (drift \/ files # command.tried)
    BY <1>11 DEF Options!Undo
  <2>2. command.step = "undo" /\ UNCHANGED <<mode, alive>>
    BY <1>11 DEF Options!Undo
  <2>3. ~drift' => uris' = command.was
    <3> SUFFICES ASSUME ~drift' PROVE uris' = command.was
      OBVIOUS
    <3>1. files = command.tried
      BY <2>1
    <3>2. \A seed \in Options!Seeds :
            (\A file \in command.tried : seed \notin file) =>
              (seed \in uris <=> seed \in command.was)
      BY <2>2
    <3>3. command.was \subseteq Options!Seeds
      OBVIOUS
    <3> QED
      BY <2>1, <3>1, <3>2, <3>3 DEF Options!Undone
  <2>4. CASE command.kind = "seeds"
    <3>1. payload' = [payload EXCEPT !.seeds = command.before]
      BY <1>11, <2>4 DEF Options!Undo
    <3> QED
      BY <2>2, <2>3, <2>4, <3>1
  <2>5. CASE command.kind # "seeds"
    BY <1>11, <2>2, <2>5 DEF Options!Undo
  <2> QED
    BY <2>4, <2>5
<1>12. CASE Options!Unsave
  BY <1>12 DEF Options!Unsave, Options!GiveUpSeeds, Options!NoCommand, Options!Free
<1>13. CASE Options!Install
  BY <1>13 DEF Options!Install, Options!NoCommand, Options!Free
<1>14. CASE Options!Retire
  BY <1>14 DEF Options!Retire, Options!Current, Options!Free
<1>15. CASE Options!SelectFiles
  BY <1>15 DEF Options!SelectFiles, Options!NoCommand, Options!Free
<1>16. CASE Options!OwnSelection
  BY <1>16 DEF Options!OwnSelection, Options!PutBack, Options!NoCommand, Options!Free
<1>17. CASE Options!SaveSelection
  BY <1>17 DEF Options!SaveSelection, Options!PutBack, Options!Disown, Options!NoCommand,
     Options!Free
<1>18. CASE Options!RestoreTask
  BY <1>18 DEF Options!RestoreTask, Options!PutBack, Options!NoCommand, Options!Free
<1>19. CASE Options!ShowSelection \/ Options!CloseWindow
  BY <1>19 DEF Options!ShowSelection, Options!CloseWindow
<1>20. CASE UNCHANGED Options!ovars
  BY <1>20 DEF Options!ovars
<1> QED
  BY <1>1, <1>2, <1>3, <1>4, <1>5, <1>6, <1>7, <1>8, <1>9, <1>10, <1>11, <1>12, <1>13, <1>14,
     <1>15, <1>16, <1>17, <1>18, <1>19, <1>20 DEF Options!Next

\* The web seeds are saved before the payload has them, or taken back.
LEMMA NextSeedsFollow ==
  ASSUME OptionInvariant, [Options!Next]_(Options!ovars)
  PROVE  SeedsFollow'
<1> USE DEF OptionInvariant, OptionShapes, ChoiceShapes, TorrentShapes, CommandShapes,
   CommandHoldsLock, Changes, ChangeCanBeUndone, SeedsFollow, Chosen, Options!transfer,
   Options!window, Options!Free
<1>1. CASE Options!Ask
  BY <1>1 DEF Options!Ask
<1>2. CASE Options!Enqueue
  BY <1>2 DEF Options!Enqueue
<1>3. CASE Options!Dispatch \/ Options!End \/ Options!Resume
  BY <1>3 DEF Options!Dispatch, Options!End, Options!Resume
<1>4. CASE Options!Map
  BY <1>4 DEF Options!Map
<1>5. CASE Options!Settle \/ Options!Pause
  BY <1>5 DEF Options!Settle, Options!Pause
<1>6. CASE Options!SetSpeedLimit \/ Options!SetUploadLimit \/ Options!SetPeerOptions
  <2>1. PICK cap \in Options!Caps : Options!SetLimit(cap)
    BY <1>6 DEF Options!SetSpeedLimit, Options!SetUploadLimit, Options!SetPeerOptions,
         Options!Caps
  <2> QED
    BY <2>1, LimitChanges
<1>7. CASE Options!SetWebSeeds
  BY <1>7, SeedsAreRequested
<1>8. CASE Options!PlanSeeds
  <2> HIDE DEF OptionShapes, Options!Known
  <2>1. CASE Options!GiveUpSeeds /\ payload' = payload
    BY <1>8, <2>1, SeedsArePlanned DEF Options!GiveUpSeeds, Options!NoCommand, OptionShapes
  <2>2. CASE ~(Options!GiveUpSeeds /\ payload' = payload)
    BY <1>8, <2>2, SeedsArePlanned DEF Options!Known, Options!Planned, OptionShapes
  <2> QED
    BY <2>1, <2>2
<1>9. CASE Options!ChangeUris
  BY <1>9 DEF Options!ChangeUris, Options!Listed, Options!Free
<1>10. CASE Options!ReadBack
  BY <1>10 DEF Options!ReadBack, Options!NoCommand, Options!Free
<1>11. CASE Options!Undo
  <2>1. /\ UNCHANGED <<mode, row, missed, late>> /\ command' = Options!NoCommand
        /\ command.step = "undo"
    BY <1>11 DEF Options!Undo, Options!GiveUpSeeds
  <2>2. ~drift' => ~drift
    BY <1>11 DEF Options!Undo
  <2>3. CASE command.kind = "seeds"
    <3>1. /\ payload' = [payload EXCEPT !.seeds = command.before]
          /\ saved' = [saved EXCEPT !.seeds = command.old]
      BY <1>11, <2>3 DEF Options!Undo, Options!GiveUpSeeds
    <3> QED
      BY <2>1, <2>2, <2>3, <3>1 DEF Options!NoCommand
  <2>4. CASE command.kind # "seeds"
    <3>1. UNCHANGED <<payload, saved>>
      BY <1>11, <2>4 DEF Options!Undo
    <3> QED
      BY <2>1, <2>2, <2>4, <3>1 DEF Options!NoCommand
  <2> QED
    BY <2>3, <2>4
<1>12. CASE Options!Unsave
  BY <1>12 DEF Options!Unsave, Options!GiveUpSeeds, Options!NoCommand, Options!Free
<1>13. CASE Options!Install
  BY <1>13 DEF Options!Install, Options!NoCommand, Options!Free
<1>14. CASE Options!Retire
  BY <1>14 DEF Options!Retire, Options!Current, Options!Free
<1>15. CASE Options!SelectFiles
  BY <1>15 DEF Options!SelectFiles, Options!NoCommand, Options!Free
<1>16. CASE Options!OwnSelection
  BY <1>16 DEF Options!OwnSelection, Options!PutBack, Options!NoCommand, Options!Free
<1>17. CASE Options!SaveSelection
  BY <1>17 DEF Options!SaveSelection, Options!PutBack, Options!Disown, Options!NoCommand,
     Options!Free
<1>18. CASE Options!RestoreTask
  BY <1>18 DEF Options!RestoreTask, Options!PutBack, Options!NoCommand, Options!Free
<1>19. CASE Options!ShowSelection \/ Options!CloseWindow
  BY <1>19 DEF Options!ShowSelection, Options!CloseWindow
<1>20. CASE UNCHANGED Options!ovars
  BY <1>20 DEF Options!ovars
<1> QED
  BY <1>1, <1>2, <1>3, <1>4, <1>5, <1>6, <1>7, <1>8, <1>9, <1>10, <1>11, <1>12, <1>13, <1>14,
     <1>15, <1>16, <1>17, <1>18, <1>19, <1>20 DEF Options!Next

\* The selection of files is owned before it is saved, and taken back when the save fails.
LEMMA NextSelectionFollows ==
  ASSUME OptionInvariant, [Options!Next]_(Options!ovars)
  PROVE  SelectionFollows'
<1> USE DEF OptionInvariant, OptionShapes, ChoiceShapes, TorrentShapes, CommandShapes,
   CommandHoldsLock, Changes, SelectionFollows, Chosen, Options!transfer, Options!window,
   Options!Free
<1>1. CASE Options!Ask
  BY <1>1 DEF Options!Ask
<1>2. CASE Options!Enqueue
  BY <1>2 DEF Options!Enqueue
<1>3. CASE Options!Dispatch \/ Options!End \/ Options!Resume
  BY <1>3 DEF Options!Dispatch, Options!End, Options!Resume
<1>4. CASE Options!Map
  BY <1>4 DEF Options!Map
<1>5. CASE Options!Settle \/ Options!Pause
  BY <1>5 DEF Options!Settle, Options!Pause
<1>6. CASE Options!SetSpeedLimit \/ Options!SetUploadLimit \/ Options!SetPeerOptions
  BY <1>6 DEF Options!SetSpeedLimit, Options!SetLimit, Options!Limit, Options!Toggle,
     Options!Free, Options!SetUploadLimit, Options!SetPeerOptions
<1>7. CASE Options!SetWebSeeds
  BY <1>7, SeedsAreAsked DEF Options!Active
<1>8. CASE Options!PlanSeeds
  <2> HIDE DEF OptionShapes, Options!Known
  <2>1. CASE Options!GiveUpSeeds /\ payload' = payload
    BY <1>8, <2>1, SeedsArePlanned DEF Options!GiveUpSeeds, Options!NoCommand, OptionShapes
  <2>2. CASE ~(Options!GiveUpSeeds /\ payload' = payload)
    BY <1>8, <2>2, SeedsArePlanned DEF Options!Known, Options!Planned, OptionShapes
  <2> QED
    BY <2>1, <2>2
<1>9. CASE Options!ChangeUris
  BY <1>9 DEF Options!ChangeUris, Options!Listed, Options!Free
<1>10. CASE Options!ReadBack
  BY <1>10 DEF Options!ReadBack, Options!NoCommand, Options!Free
<1>11. CASE Options!Undo
  BY <1>11 DEF Options!Undo, Options!Undone, Options!GiveUpSeeds, Options!NoCommand, Options!Free
<1>12. CASE Options!Unsave
  BY <1>12 DEF Options!Unsave, Options!GiveUpSeeds, Options!NoCommand, Options!Free
<1>13. CASE Options!Install
  BY ZenonT(60), <1>13 DEF Options!Install, Options!NoCommand, Options!Free
<1>14. CASE Options!Retire
  BY <1>14 DEF Options!Retire, Options!Current, Options!Free
<1>15. CASE Options!SelectFiles
  BY <1>15, SelectionStarts
<1>16. CASE Options!OwnSelection
  BY <1>16 DEF Options!OwnSelection, Options!PutBack, Options!NoCommand, Options!Free
<1>17. CASE Options!SaveSelection
  BY <1>17 DEF Options!SaveSelection, Options!PutBack, Options!Disown, Options!NoCommand,
     Options!Free
<1>18. CASE Options!RestoreTask
  <2>1. /\ command.step = "restore" /\ answer' = command.sel /\ command' = Options!NoCommand
        /\ UNCHANGED <<row, saved, owned, orphaned, late>>
    BY <1>18 DEF Options!RestoreTask
  <2>2. mode' # "idle" => payload'.sel = command.sel
    BY <1>18 DEF Options!RestoreTask, Options!PutBack
  <2> QED
    BY <2>1, <2>2 DEF Options!NoCommand
<1>19. CASE Options!ShowSelection \/ Options!CloseWindow
  BY ZenonT(60), <1>19 DEF Options!ShowSelection, Options!CloseWindow
<1>20. CASE UNCHANGED Options!ovars
  BY <1>20 DEF Options!ovars
<1> QED
  BY <1>1, <1>2, <1>3, <1>4, <1>5, <1>6, <1>7, <1>8, <1>9, <1>10, <1>11, <1>12, <1>13, <1>14,
     <1>15, <1>16, <1>17, <1>18, <1>19, <1>20 DEF Options!Next

\* It holds before the torrent is started.
LEMMA InitOptions ==
  ASSUME Options!Init
  PROVE  OptionInvariant
<1> USE DEF Options!Init, Options!NoOptions, Options!NoCommand
<1>1. OptionShapes
  BY DEF OptionShapes, ChoiceShapes, TorrentShapes, CommandShapes, Chosen, Options!Seeds,
     Options!Caps
<1>2. CommandHoldsLock /\ LimitsFollow /\ MetadataStays /\ ChangeCanBeUndone /\ UrisFollow
  BY DEF CommandHoldsLock, LimitsFollow, MetadataStays, ChangeCanBeUndone, UrisFollow, Changes
<1>3. SeedsFollow /\ SelectionFollows
  BY DEF SeedsFollow, SelectionFollows
<1> QED
  BY <1>1, <1>2, <1>3 DEF OptionInvariant

\* Every step keeps it.
LEMMA NextOptions ==
  ASSUME OptionInvariant, [Options!Next]_(Options!ovars)
  PROVE  OptionInvariant'
BY NextChoiceShapes, NextTorrentShapes, NextCommandShapes, NextCommandHoldsLock,
   NextLimitsFollow, NextMetadataStays, NextChangeCanBeUndone, NextUrisFollow, NextSeedsFollow,
   NextSelectionFollows
   DEF OptionInvariant, OptionShapes

\* What the invariant says of the properties of the component.
LEMMA OptionSafety ==
  ASSUME OptionInvariant
  PROVE  Options!DaemonHasThePayload /\ Options!SeedsAreSaved /\ Options!SelectionIsWhole
<1> USE DEF OptionInvariant, CommandHoldsLock, Options!Free
<1>1. Options!DaemonHasThePayload
  BY DEF Options!DaemonHasThePayload, LimitsFollow, UrisFollow, Changes
<1>2. Options!SeedsAreSaved
  BY DEF Options!SeedsAreSaved, SeedsFollow, Options!Active
<1>3. Options!SelectionIsWhole
  BY DEF Options!SelectionIsWhole, SelectionFollows
<1> QED
  BY <1>1, <1>2, <1>3

-----------------------------------------------------------------------------
(* How the poller heals a transfer.                                        *)

\* The types: of the transfer and its GIDs, of the flags, of the add, of the counts and of what
\* the poller remembers.
TransferShapes ==
  /\ gids \in [Recovery!Gids -> Recovery!Known \cup {"none", "gone"}]
  /\ used \in 0 .. MaxGids /\ mapped \in 0 .. MaxGids
  /\ healedRow \in {"live", "paused", "done", "failed"}
  /\ step \in {"idle", "sampled", "outside"} \cup Recovery!Recovering

FlagShapes ==
  torrent \in BOOLEAN /\ healedPayload \in BOOLEAN /\ carried \in BOOLEAN /\ stranded \in BOOLEAN

AddShapes ==
  adding \in [gid : 0 .. MaxGids, ambiguous : BOOLEAN, statusOnly : BOOLEAN, tries : Nat]

CountShapes == healedEpoch \in Nat /\ spree \in Nat

\* What the poller remembers of a GID, and its last sample.
Memories ==
  [gid : Nat, epoch : Nat, attempts : Nat, stall : Nat, cool : Nat, healthy : Nat]
ObservationShapes ==
  /\ obs \in Memories
  /\ sample \in [gid : Nat, epoch : Nat, saw : Recovery!Samples \cup {"none"}]

\* All of them.
RecoveryShapes ==
  /\ TransferShapes /\ FlagShapes /\ AddShapes /\ CountShapes
  /\ ObservationShapes

\* Who holds a permit is shown as downloading and has a GID; a recovery is of such a one.
OwnerIsKnown ==
  /\ carried <=> healedRow = "live"
  /\ healedRow = "live" => mapped # 0
  /\ step \in Recovery!Recovering => carried /\ target = mapped

\* An add has the GID it will keep, and before it a GID is free.
AddIsPrepared ==
  /\ step = "addStatus" => adding.gid # 0
  /\ adding.gid # 0 => step \in {"add", "addStatus"} /\ gids[adding.gid] # "paused"
  /\ step \in {"status", "pause", "pauseCheck", "remove", "removeCheck", "add"} /\ adding.gid = 0
       =>
       used < MaxGids

\* The one GID that may live in the daemon.
Holder == IF step \in {"add", "addStatus"} THEN adding.gid ELSE mapped

\* No other GID is in the daemon alive.
OnlyTheHolderLives ==
  \A g \in Recovery!Gids : gids[g] \in Recovery!Live => g = Holder

\* Each recovery that is not forgiven was paid for with an attempt.
RecoveriesArePaid ==
  /\ spree <= obs.attempts /\ obs.attempts <= RecoveryLimit
  /\ torrent => spree = 0

\* The inductive invariant of the recoveries, and the bounds it needs.
RecoveryInvariant ==
  /\ RecoveryShapes /\ OwnerIsKnown /\ AddIsPrepared /\ OnlyTheHolderLives
  /\ Recovery!RowIsTrue /\ RecoveriesArePaid

\* What the numbers of the component may be: there is a GID, and the rest is any number.
RecoveryBounds ==
  /\ MaxGids \in Nat \ {0} /\ Delay \in Nat /\ Cooldown \in Nat /\ HealthySamples \in Nat
  /\ RecoveryLimit \in Nat

\* What the poller remembers after a sample keeps the attempts of the epoch, or forgives them.
LEMMA JudgementKeepsAttempts ==
  ASSUME RecoveryBounds, ObservationShapes
  PROVE  /\ Recovery!Observed \in Memories /\ Recovery!Judged \in Memories
         /\ Recovery!Observed.attempts = IF obs.epoch = sample.epoch THEN obs.attempts ELSE 0
         /\ Recovery!Judged.attempts \in {0, Recovery!Observed.attempts}
<1> USE DEF RecoveryBounds, ObservationShapes, Memories
<1> DEFINE o == Recovery!Observed
<1>1. o \in Memories
  BY DEF Recovery!Observed, Recovery!NoObs, Recovery!Kept
<1>2. o.attempts = IF obs.epoch = sample.epoch THEN obs.attempts ELSE 0
  BY DEF Recovery!Observed, Recovery!NoObs, Recovery!Kept
<1> DEFINE stall == IF sample.saw = "stalled"
                    THEN IF o.stall > Delay THEN o.stall ELSE o.stall + 1 ELSE 0
           well == IF o.attempts > 0 /\ sample.saw = "healthy" THEN o.healthy + 1 ELSE 0
           cool == IF o.cool > 0 THEN o.cool - 1 ELSE 0
           healthy == IF well = HealthySamples THEN 0 ELSE well
           attempts == IF well = HealthySamples THEN 0 ELSE o.attempts
<1>3. stall \in Nat /\ cool \in Nat
  BY <1>1
<1>4. well \in Nat /\ healthy \in Nat /\ attempts \in {0, o.attempts}
  BY <1>1
<1>5. Recovery!Judged = [o EXCEPT !.stall = stall, !.cool = cool, !.healthy = healthy,
                                  !.attempts = attempts]
  BY DEF Recovery!Judged
<1>6. attempts \in Nat
  BY <1>1, <1>4
<1> HIDE DEF o, stall, well, cool, healthy, attempts
<1>7. Recovery!Judged \in Memories
  BY <1>1, <1>3, <1>4, <1>5, <1>6
<1>8. Recovery!Judged.attempts = attempts
  BY <1>1, <1>5
<1> QED
  BY <1>1, <1>2, <1>4, <1>7, <1>8 DEF o

\* An add gives up, or takes the GID that all its attempts will carry.
LEMMA AddTakesGid ==
  ASSUME RecoveryBounds, TransferShapes, AddShapes, AddIsPrepared, Recovery!Prepare
  PROVE  /\ step = "add" /\ adding.gid = 0
         /\ UNCHANGED <<torrent, healedPayload, gids, obs, sample, spree, target>>
         /\ \/ /\ used' = used /\ mapped' = 0 /\ carried' = FALSE /\ healedRow' = "paused"
               /\ step' = "idle" /\ adding' = Recovery!NoAdd /\ UNCHANGED stranded
            \/ /\ used' = used + 1 /\ used' \in Recovery!Gids /\ AddShapes' /\ adding'.gid = used'
               /\ UNCHANGED <<mapped, carried, healedRow, step, stranded>>
<1> USE DEF RecoveryBounds, TransferShapes, AddShapes, AddIsPrepared
<1>1. /\ step = "add" /\ adding.gid = 0 /\ used < MaxGids
      /\ UNCHANGED <<torrent, healedPayload, gids, obs, sample, spree, target>>
  BY DEF Recovery!Prepare, Recovery!kind, Recovery!poller
<1>2. CASE Recovery!Unavailable /\ UNCHANGED used
  BY <1>1, <1>2 DEF Recovery!Unavailable, Recovery!Settle
<1>3. CASE ~(Recovery!Unavailable /\ UNCHANGED used)
  <2>1. /\ used' = used + 1 /\ adding' = [adding EXCEPT !.gid = used + 1]
        /\ UNCHANGED <<mapped, carried, healedRow, step, stranded>>
    BY <1>3 DEF Recovery!Prepare, Recovery!lifecycle
  <2>2. used + 1 \in 1 .. MaxGids
    BY <1>1
  <2>3. AddShapes' /\ adding'.gid = used'
    BY <2>1, <2>2
  <2> QED
    BY <1>1, <2>1, <2>2, <2>3 DEF Recovery!Gids
<1> QED
  BY <1>2, <1>3

\* The transfer keeps its types.
LEMMA NextTransferShapes ==
  ASSUME RecoveryBounds, RecoveryInvariant, [Recovery!Next]_(Recovery!cvars)
  PROVE  TransferShapes'
<1> USE DEF RecoveryInvariant, RecoveryShapes, TransferShapes, AddShapes, OwnerIsKnown,
   AddIsPrepared, Recovery!Known, Recovery!Live, Recovery!Stopped, Recovery!Recovering,
   Recovery!Gids, Recovery!kind, Recovery!lifecycle, Recovery!poller, Recovery!counts,
   RecoveryBounds
<1>1. CASE Recovery!Ends
  BY <1>1 DEF Recovery!Ends, Recovery!Loses
<1>2. CASE Recovery!Sample \/ Recovery!LookAway
  BY <1>2 DEF Recovery!Sample, Recovery!Status, Recovery!LookAway
<1>3. CASE Recovery!Look
  BY <1>3 DEF Recovery!Look, Recovery!Begins, Recovery!Begin, Recovery!NoSample
<1>4. CASE Recovery!Outside
  BY <1>4 DEF Recovery!Outside, Recovery!Settle, Recovery!Begin, Recovery!Loses, Recovery!Status
<1>5. CASE Recovery!AskStatus \/ Recovery!PauseCheck
  BY <1>5 DEF Recovery!AskStatus, Recovery!State, Recovery!Goes, Recovery!Fails,
     Recovery!Completes, Recovery!Asks, Recovery!Settle, Recovery!Frame, Recovery!Loses,
     Recovery!PauseCheck
<1>6. CASE Recovery!RemoveCheck
  BY <1>6 DEF Recovery!RemoveCheck, Recovery!State, Recovery!Goes, Recovery!Fails,
     Recovery!Completes, Recovery!Asks, Recovery!Settle, Recovery!Frame, Recovery!Loses
<1>7. CASE Recovery!RefreshCheck
  BY <1>7 DEF Recovery!RefreshCheck, Recovery!State, Recovery!Goes, Recovery!Fails,
     Recovery!Completes, Recovery!Asks, Recovery!Settle, Recovery!Frame, Recovery!Loses
<1>8. CASE Recovery!UnpauseCheck
  BY <1>8 DEF Recovery!UnpauseCheck, Recovery!State, Recovery!Goes, Recovery!Fails,
     Recovery!Completes, Recovery!Asks, Recovery!Settle, Recovery!Frame, Recovery!Loses,
     Recovery!StaysPaused
<1>9. CASE Recovery!ForcePause \/ Recovery!Refresh
  BY <1>9 DEF Recovery!ForcePause, Recovery!State, Recovery!Goes, Recovery!Calls, Recovery!Frame,
     Recovery!Refresh
<1>10. CASE Recovery!ForceRemove
  BY <1>10 DEF Recovery!ForceRemove, Recovery!State, Recovery!Goes, Recovery!Calls,
     Recovery!Frame, Recovery!Loses
<1>11. CASE Recovery!Unpause
  BY <1>11 DEF Recovery!Unpause, Recovery!State, Recovery!Goes, Recovery!Calls, Recovery!Frame
<1>12. CASE Recovery!Prepare
  <2>1. used' \in 0 .. MaxGids /\ mapped' \in 0 .. MaxGids
    BY <1>12, AddTakesGid
  <2>2. gids' = gids /\ healedRow' \in {healedRow, "paused"} /\ step' \in {step, "idle"}
    BY <1>12, AddTakesGid
  <2> QED
    BY <2>1, <2>2
<1>13. CASE Recovery!Add
  <2>1. adding.gid \in 1 .. MaxGids /\ used' = used
    BY <1>13 DEF Recovery!Add
  <2>2. gids' = gids \/ gids' = [gids EXCEPT ![adding.gid] = "active"]
    BY <1>13 DEF Recovery!Add
  <2>3. /\ mapped' \in {mapped, 0, adding.gid} /\ healedRow' \in {healedRow, "live", "paused"}
        /\ step' \in {"idle", "addStatus"}
    BY <1>13 DEF Recovery!Add, Recovery!Remember, Recovery!Unsure, Recovery!Unavailable,
              Recovery!Settle
  <2> QED
    BY <2>1, <2>2, <2>3
<1>14. CASE Recovery!AddStatus
  BY <1>14 DEF Recovery!AddStatus, Recovery!Last, Recovery!HandsOver, Recovery!Remember,
     Recovery!Loses
<1>15. CASE Recovery!PauseIt
  BY <1>15 DEF Recovery!PauseIt, Recovery!Unlocked, Recovery!Status
<1>16. CASE Recovery!ResumeIt
  BY <1>16 DEF Recovery!ResumeIt, Recovery!Unlocked, Recovery!Status
<1>17. CASE UNCHANGED Recovery!cvars
  BY <1>17 DEF Recovery!cvars
<1> QED
  BY <1>1, <1>2, <1>3, <1>4, <1>5, <1>6, <1>7, <1>8, <1>9, <1>10, <1>11, <1>12, <1>13, <1>14,
     <1>15, <1>16, <1>17 DEF Recovery!Next

\* So do the flags.
LEMMA NextFlagShapes ==
  ASSUME RecoveryBounds, RecoveryInvariant, [Recovery!Next]_(Recovery!cvars)
  PROVE  FlagShapes'
<1> USE DEF RecoveryInvariant, RecoveryShapes, TransferShapes, FlagShapes, Recovery!kind,
   Recovery!lifecycle, Recovery!poller, Recovery!counts, RecoveryBounds
<1>1. CASE Recovery!Ends
  BY <1>1 DEF Recovery!Ends, Recovery!Loses
<1>2. CASE Recovery!Sample \/ Recovery!LookAway
  BY <1>2 DEF Recovery!Sample, Recovery!Status, Recovery!LookAway
<1>3. CASE Recovery!Look
  BY <1>3 DEF Recovery!Look, Recovery!Begins, Recovery!Begin, Recovery!NoSample
<1>4. CASE Recovery!Outside
  BY <1>4 DEF Recovery!Outside, Recovery!Settle, Recovery!Begin, Recovery!Loses, Recovery!Status
<1>5. CASE Recovery!AskStatus \/ Recovery!PauseCheck
  BY <1>5 DEF Recovery!AskStatus, Recovery!State, Recovery!Goes, Recovery!Fails,
     Recovery!Completes, Recovery!Asks, Recovery!Settle, Recovery!Frame, Recovery!Loses,
     Recovery!PauseCheck
<1>6. CASE Recovery!RemoveCheck
  BY <1>6 DEF Recovery!RemoveCheck, Recovery!State, Recovery!Goes, Recovery!Fails,
     Recovery!Completes, Recovery!Asks, Recovery!Settle, Recovery!Frame, Recovery!Loses
<1>7. CASE Recovery!RefreshCheck
  BY <1>7 DEF Recovery!RefreshCheck, Recovery!State, Recovery!Goes, Recovery!Fails,
     Recovery!Completes, Recovery!Asks, Recovery!Settle, Recovery!Frame, Recovery!Loses
<1>8. CASE Recovery!UnpauseCheck
  BY <1>8 DEF Recovery!UnpauseCheck, Recovery!State, Recovery!Goes, Recovery!Fails,
     Recovery!Completes, Recovery!Asks, Recovery!Settle, Recovery!Frame, Recovery!Loses,
     Recovery!StaysPaused
<1>9. CASE Recovery!ForcePause \/ Recovery!Refresh
  BY <1>9 DEF Recovery!ForcePause, Recovery!State, Recovery!Goes, Recovery!Calls, Recovery!Frame,
     Recovery!Refresh
<1>10. CASE Recovery!ForceRemove
  BY <1>10 DEF Recovery!ForceRemove, Recovery!State, Recovery!Goes, Recovery!Calls,
     Recovery!Frame, Recovery!Loses
<1>11. CASE Recovery!Unpause
  BY <1>11 DEF Recovery!Unpause, Recovery!State, Recovery!Goes, Recovery!Calls, Recovery!Frame
<1>12. CASE Recovery!Prepare
  BY <1>12 DEF Recovery!Prepare, Recovery!Unavailable, Recovery!Settle, Recovery!Loses
<1>13. CASE Recovery!Add
  BY <1>13 DEF Recovery!Add, Recovery!Remember, Recovery!Unsure, Recovery!Unavailable,
     Recovery!Settle, Recovery!Loses
<1>14. CASE Recovery!AddStatus
  BY <1>14 DEF Recovery!AddStatus, Recovery!Last, Recovery!HandsOver, Recovery!Remember,
     Recovery!Loses
<1>15. CASE Recovery!PauseIt
  BY <1>15 DEF Recovery!PauseIt, Recovery!Unlocked, Recovery!Status
<1>16. CASE Recovery!ResumeIt
  BY <1>16 DEF Recovery!ResumeIt, Recovery!Unlocked, Recovery!Status
<1>17. CASE UNCHANGED Recovery!cvars
  BY <1>17 DEF Recovery!cvars
<1> QED
  BY <1>1, <1>2, <1>3, <1>4, <1>5, <1>6, <1>7, <1>8, <1>9, <1>10, <1>11, <1>12, <1>13, <1>14,
     <1>15, <1>16, <1>17 DEF Recovery!Next

\* So does the add.
LEMMA NextAddShapes ==
  ASSUME RecoveryBounds, RecoveryInvariant, [Recovery!Next]_(Recovery!cvars)
  PROVE  AddShapes'
<1> USE DEF RecoveryInvariant, RecoveryShapes, AddShapes, TransferShapes, AddIsPrepared,
   Recovery!NoAdd, Recovery!kind, Recovery!lifecycle, Recovery!poller, Recovery!counts,
   RecoveryBounds
<1>1. CASE Recovery!Ends
  BY <1>1 DEF Recovery!Ends, Recovery!Loses
<1>2. CASE Recovery!Sample \/ Recovery!LookAway
  BY <1>2 DEF Recovery!Sample, Recovery!Status, Recovery!LookAway
<1>3. CASE Recovery!Look
  BY <1>3 DEF Recovery!Look, Recovery!Begins, Recovery!Begin, Recovery!NoSample
<1>4. CASE Recovery!Outside
  BY <1>4 DEF Recovery!Outside, Recovery!Settle, Recovery!Begin, Recovery!Loses, Recovery!Status
<1>5. CASE Recovery!AskStatus \/ Recovery!PauseCheck
  <2>1. adding' = adding \/ adding' = Recovery!NoAdd
    BY <1>5 DEF Recovery!State, Recovery!Goes, Recovery!Fails, Recovery!Completes, Recovery!Asks,
       Recovery!Settle, Recovery!AskStatus, Recovery!PauseCheck, Recovery!RemoveCheck,
       Recovery!RefreshCheck, Recovery!UnpauseCheck, Recovery!StaysPaused
  <2>2. CASE adding' = adding
    BY <2>2
  <2>3. CASE adding' = Recovery!NoAdd
    BY <2>3
  <2> QED
    BY <2>1, <2>2, <2>3
<1>6. CASE Recovery!RemoveCheck
  <2>1. adding' = adding \/ adding' = Recovery!NoAdd
    BY <1>6 DEF Recovery!State, Recovery!Goes, Recovery!Fails, Recovery!Completes, Recovery!Asks,
       Recovery!Settle, Recovery!AskStatus, Recovery!PauseCheck, Recovery!RemoveCheck,
       Recovery!RefreshCheck, Recovery!UnpauseCheck, Recovery!StaysPaused
  <2>2. CASE adding' = adding
    BY <2>2
  <2>3. CASE adding' = Recovery!NoAdd
    BY <2>3
  <2> QED
    BY <2>1, <2>2, <2>3
<1>7. CASE Recovery!RefreshCheck
  <2>1. adding' = adding \/ adding' = Recovery!NoAdd
    BY <1>7 DEF Recovery!State, Recovery!Goes, Recovery!Fails, Recovery!Completes, Recovery!Asks,
       Recovery!Settle, Recovery!AskStatus, Recovery!PauseCheck, Recovery!RemoveCheck,
       Recovery!RefreshCheck, Recovery!UnpauseCheck, Recovery!StaysPaused
  <2>2. CASE adding' = adding
    BY <2>2
  <2>3. CASE adding' = Recovery!NoAdd
    BY <2>3
  <2> QED
    BY <2>1, <2>2, <2>3
<1>8. CASE Recovery!UnpauseCheck
  <2>1. adding' = adding \/ adding' = Recovery!NoAdd
    BY <1>8 DEF Recovery!State, Recovery!Goes, Recovery!Fails, Recovery!Completes, Recovery!Asks,
       Recovery!Settle, Recovery!AskStatus, Recovery!PauseCheck, Recovery!RemoveCheck,
       Recovery!RefreshCheck, Recovery!UnpauseCheck, Recovery!StaysPaused
  <2>2. CASE adding' = adding
    BY <2>2
  <2>3. CASE adding' = Recovery!NoAdd
    BY <2>3
  <2> QED
    BY <2>1, <2>2, <2>3
<1>9. CASE Recovery!ForcePause \/ Recovery!Refresh
  BY <1>9 DEF Recovery!ForcePause, Recovery!State, Recovery!Goes, Recovery!Calls, Recovery!Frame,
     Recovery!Refresh
<1>10. CASE Recovery!ForceRemove
  BY <1>10 DEF Recovery!ForceRemove, Recovery!State, Recovery!Goes, Recovery!Calls,
     Recovery!Frame, Recovery!Loses
<1>11. CASE Recovery!Unpause
  BY <1>11 DEF Recovery!Unpause, Recovery!State, Recovery!Goes, Recovery!Calls, Recovery!Frame
<1>12. CASE Recovery!Prepare
  <2>1. CASE adding' = Recovery!NoAdd
    BY <2>1
  <2>2. CASE adding' # Recovery!NoAdd
    <3>1. adding' = [adding EXCEPT !.gid = used + 1]
      BY <1>12, <2>2 DEF Recovery!Prepare, Recovery!Unavailable
    <3>2. used + 1 \in 0 .. MaxGids
      BY <1>12 DEF Recovery!Prepare
    <3> QED
      BY <3>1, <3>2
  <2> QED
    BY <2>1, <2>2
<1>13. CASE Recovery!Add
  <2>1. CASE adding' = Recovery!NoAdd
    BY <2>1
  <2>2. CASE adding' # Recovery!NoAdd
    <3>1. PICK again \in BOOLEAN :
            adding' = [adding EXCEPT !.ambiguous = TRUE, !.statusOnly = again]
      BY <1>13, <2>2 DEF Recovery!Add, Recovery!Unavailable, Recovery!Remember, Recovery!Unsure
    <3> QED
      BY <3>1
  <2> QED
    BY <2>1, <2>2
<1>14. CASE Recovery!AddStatus
  <2>1. CASE adding' = Recovery!NoAdd
    BY <2>1
  <2>2. CASE adding' # Recovery!NoAdd
    <3>1. adding' = [adding EXCEPT !.tries = adding.tries + 1]
      BY <1>14, <2>2 DEF Recovery!AddStatus, Recovery!HandsOver, Recovery!Remember
    <3>2. adding.tries + 1 \in Nat
      OBVIOUS
    <3> QED
      BY <3>1, <3>2
  <2> QED
    BY <2>1, <2>2
<1>15. CASE Recovery!PauseIt
  BY <1>15 DEF Recovery!PauseIt, Recovery!Unlocked, Recovery!Status
<1>16. CASE Recovery!ResumeIt
  BY <1>16 DEF Recovery!ResumeIt, Recovery!Unlocked, Recovery!Status
<1>17. CASE UNCHANGED Recovery!cvars
  BY <1>17 DEF Recovery!cvars
<1> QED
  BY <1>1, <1>2, <1>3, <1>4, <1>5, <1>6, <1>7, <1>8, <1>9, <1>10, <1>11, <1>12, <1>13, <1>14,
     <1>15, <1>16, <1>17 DEF Recovery!Next

\* So do the counts.
LEMMA NextCountShapes ==
  ASSUME RecoveryBounds, RecoveryInvariant, [Recovery!Next]_(Recovery!cvars)
  PROVE  CountShapes'
<1> USE DEF RecoveryInvariant, RecoveryShapes, CountShapes, Recovery!kind, Recovery!lifecycle,
   Recovery!poller, Recovery!counts, RecoveryBounds
<1>1. CASE Recovery!Ends
  BY <1>1 DEF Recovery!Ends, Recovery!Loses
<1>2. CASE Recovery!Sample \/ Recovery!LookAway
  BY <1>2 DEF Recovery!Sample, Recovery!Status, Recovery!LookAway
<1>3. CASE Recovery!Look
  <2>1. healedEpoch' = healedEpoch /\ spree' \in {spree, 0, 1, spree + 1}
    BY <1>3 DEF Recovery!Look, Recovery!Unforgiven
  <2> QED
    BY <2>1
<1>4. CASE Recovery!Outside
  BY <1>4 DEF Recovery!Outside, Recovery!Settle, Recovery!Begin, Recovery!Loses, Recovery!Status
<1>5. CASE Recovery!AskStatus \/ Recovery!PauseCheck
  BY <1>5 DEF Recovery!AskStatus, Recovery!State, Recovery!Goes, Recovery!Fails,
     Recovery!Completes, Recovery!Asks, Recovery!Settle, Recovery!Frame, Recovery!Loses,
     Recovery!PauseCheck
<1>6. CASE Recovery!RemoveCheck
  BY <1>6 DEF Recovery!RemoveCheck, Recovery!State, Recovery!Goes, Recovery!Fails,
     Recovery!Completes, Recovery!Asks, Recovery!Settle, Recovery!Frame, Recovery!Loses
<1>7. CASE Recovery!RefreshCheck
  BY <1>7 DEF Recovery!RefreshCheck, Recovery!State, Recovery!Goes, Recovery!Fails,
     Recovery!Completes, Recovery!Asks, Recovery!Settle, Recovery!Frame, Recovery!Loses
<1>8. CASE Recovery!UnpauseCheck
  BY <1>8 DEF Recovery!UnpauseCheck, Recovery!State, Recovery!Goes, Recovery!Fails,
     Recovery!Completes, Recovery!Asks, Recovery!Settle, Recovery!Frame, Recovery!Loses,
     Recovery!StaysPaused
<1>9. CASE Recovery!ForcePause \/ Recovery!Refresh
  BY <1>9 DEF Recovery!ForcePause, Recovery!State, Recovery!Goes, Recovery!Calls, Recovery!Frame,
     Recovery!Refresh
<1>10. CASE Recovery!ForceRemove
  BY <1>10 DEF Recovery!ForceRemove, Recovery!State, Recovery!Goes, Recovery!Calls,
     Recovery!Frame, Recovery!Loses
<1>11. CASE Recovery!Unpause
  BY <1>11 DEF Recovery!Unpause, Recovery!State, Recovery!Goes, Recovery!Calls, Recovery!Frame
<1>12. CASE Recovery!Prepare
  BY <1>12 DEF Recovery!Prepare, Recovery!Unavailable, Recovery!Settle, Recovery!Loses
<1>13. CASE Recovery!Add
  BY <1>13 DEF Recovery!Add, Recovery!Remember, Recovery!Unsure, Recovery!Unavailable,
     Recovery!Settle, Recovery!Loses
<1>14. CASE Recovery!AddStatus
  BY <1>14 DEF Recovery!AddStatus, Recovery!Last, Recovery!HandsOver, Recovery!Remember,
     Recovery!Loses
<1>15. CASE Recovery!PauseIt
  BY <1>15 DEF Recovery!PauseIt, Recovery!Unlocked, Recovery!Status
<1>16. CASE Recovery!ResumeIt
  BY <1>16 DEF Recovery!ResumeIt, Recovery!Unlocked, Recovery!Status
<1>17. CASE UNCHANGED Recovery!cvars
  BY <1>17 DEF Recovery!cvars
<1> QED
  BY <1>1, <1>2, <1>3, <1>4, <1>5, <1>6, <1>7, <1>8, <1>9, <1>10, <1>11, <1>12, <1>13, <1>14,
     <1>15, <1>16, <1>17 DEF Recovery!Next

\* So does what the poller remembers.
LEMMA NextObservationShapes ==
  ASSUME RecoveryBounds, RecoveryInvariant, [Recovery!Next]_(Recovery!cvars)
  PROVE  ObservationShapes'
<1> USE DEF RecoveryInvariant, RecoveryShapes, ObservationShapes, TransferShapes, CountShapes,
   Recovery!kind, Recovery!lifecycle, Recovery!poller, Recovery!counts, RecoveryBounds
<1>1. CASE Recovery!Ends
  BY <1>1 DEF Recovery!Ends, Recovery!Loses
<1>2. CASE Recovery!Sample \/ Recovery!LookAway
  <2>1. CASE Recovery!Sample
    <3>1. obs' = obs
      BY <2>1 DEF Recovery!Sample
    <3>2. CASE sample' = Recovery!NoSample
      BY <3>1, <3>2 DEF Recovery!NoSample
    <3>3. CASE sample' # Recovery!NoSample
      <4>1. PICK saw \in Recovery!Samples :
              sample' = [gid |-> mapped, epoch |-> healedEpoch, saw |-> saw]
        BY <2>1, <3>3 DEF Recovery!Sample
      <4>2. mapped \in Nat /\ healedEpoch \in Nat
        OBVIOUS
      <4> QED
        BY <3>1, <4>1, <4>2
    <3> QED
      BY <3>2, <3>3
  <2>2. CASE Recovery!LookAway
    BY <2>2 DEF Recovery!LookAway, Recovery!NoObs, Memories
  <2> QED
    BY <1>2, <2>1, <2>2
<1>3. CASE Recovery!Look
  <2>1. Recovery!Observed \in Memories /\ Recovery!Judged \in Memories
    BY JudgementKeepsAttempts
  <2>2. sample' = sample
    BY <1>3 DEF Recovery!Look
  <2>3. \/ obs' = obs
        \/ obs' = [Recovery!Observed EXCEPT !.attempts = 0, !.stall = 0, !.cool = 0,
                                                   !.healthy = 0]
        \/ obs' = Recovery!Judged
        \/ obs' = Recovery!Spent(Recovery!Judged)
    BY <1>3 DEF Recovery!Look
  <2>4. CASE obs' = obs \/ obs' = Recovery!Judged
    BY <2>1, <2>2, <2>4
  <2>5. CASE obs' = [Recovery!Observed EXCEPT !.attempts = 0, !.stall = 0, !.cool = 0,
                                              !.healthy = 0]
    BY <2>1, <2>2, <2>5 DEF Memories
  <2>6. CASE obs' = Recovery!Spent(Recovery!Judged)
    <3>1. Recovery!Judged.attempts + 1 \in Nat
      BY <2>1 DEF Memories
    <3> DEFINE judged == Recovery!Judged
               spent == judged.attempts + 1
    <3>2. obs' = [judged EXCEPT !.attempts = spent, !.cool = Cooldown, !.healthy = 0, !.stall = 1]
      BY <2>6 DEF Recovery!Spent
    <3>3. judged \in Memories /\ spent \in Nat
      BY <2>1, <3>1
    <3> HIDE DEF judged, spent
    <3> QED
      BY <2>2, <3>2, <3>3 DEF Memories
  <2> QED
    BY <2>3, <2>4, <2>5, <2>6
<1>4. CASE Recovery!Outside
  BY <1>4 DEF Recovery!Outside, Recovery!Settle, Recovery!Begin, Recovery!Loses, Recovery!Status
<1>5. CASE Recovery!AskStatus \/ Recovery!PauseCheck
  BY <1>5 DEF Recovery!AskStatus, Recovery!State, Recovery!Goes, Recovery!Fails,
     Recovery!Completes, Recovery!Asks, Recovery!Settle, Recovery!Frame, Recovery!Loses,
     Recovery!PauseCheck
<1>6. CASE Recovery!RemoveCheck
  BY <1>6 DEF Recovery!RemoveCheck, Recovery!State, Recovery!Goes, Recovery!Fails,
     Recovery!Completes, Recovery!Asks, Recovery!Settle, Recovery!Frame, Recovery!Loses
<1>7. CASE Recovery!RefreshCheck
  BY <1>7 DEF Recovery!RefreshCheck, Recovery!State, Recovery!Goes, Recovery!Fails,
     Recovery!Completes, Recovery!Asks, Recovery!Settle, Recovery!Frame, Recovery!Loses
<1>8. CASE Recovery!UnpauseCheck
  BY <1>8 DEF Recovery!UnpauseCheck, Recovery!State, Recovery!Goes, Recovery!Fails,
     Recovery!Completes, Recovery!Asks, Recovery!Settle, Recovery!Frame, Recovery!Loses,
     Recovery!StaysPaused
<1>9. CASE Recovery!ForcePause \/ Recovery!Refresh
  BY <1>9 DEF Recovery!ForcePause, Recovery!State, Recovery!Goes, Recovery!Calls, Recovery!Frame,
     Recovery!Refresh
<1>10. CASE Recovery!ForceRemove
  BY <1>10 DEF Recovery!ForceRemove, Recovery!State, Recovery!Goes, Recovery!Calls,
     Recovery!Frame, Recovery!Loses
<1>11. CASE Recovery!Unpause
  BY <1>11 DEF Recovery!Unpause, Recovery!State, Recovery!Goes, Recovery!Calls, Recovery!Frame
<1>12. CASE Recovery!Prepare
  BY <1>12 DEF Recovery!Prepare, Recovery!Unavailable, Recovery!Settle, Recovery!Loses
<1>13. CASE Recovery!Add
  BY <1>13 DEF Recovery!Add, Recovery!Remember, Recovery!Unsure, Recovery!Unavailable,
     Recovery!Settle, Recovery!Loses
<1>14. CASE Recovery!AddStatus
  BY <1>14 DEF Recovery!AddStatus, Recovery!Last, Recovery!HandsOver, Recovery!Remember,
     Recovery!Loses
<1>15. CASE Recovery!PauseIt
  BY <1>15 DEF Recovery!PauseIt, Recovery!Unlocked, Recovery!Status
<1>16. CASE Recovery!ResumeIt
  BY <1>16 DEF Recovery!ResumeIt, Recovery!Unlocked, Recovery!Status
<1>17. CASE UNCHANGED Recovery!cvars
  BY <1>17 DEF Recovery!cvars
<1> QED
  BY <1>1, <1>2, <1>3, <1>4, <1>5, <1>6, <1>7, <1>8, <1>9, <1>10, <1>11, <1>12, <1>13, <1>14,
     <1>15, <1>16, <1>17 DEF Recovery!Next

\* The permit, the row and the mapped GID change together, and a recovery keeps all three.
LEMMA NextOwnerIsKnown ==
  ASSUME RecoveryBounds, RecoveryInvariant, [Recovery!Next]_(Recovery!cvars)
  PROVE  OwnerIsKnown'
<1> USE DEF RecoveryInvariant, RecoveryShapes, TransferShapes, FlagShapes, AddShapes,
   OwnerIsKnown, AddIsPrepared, Recovery!Known, Recovery!Live, Recovery!Stopped,
   Recovery!Recovering, Recovery!Gids, Recovery!kind, Recovery!lifecycle, Recovery!poller,
   Recovery!counts, RecoveryBounds
<1>1. CASE Recovery!Ends
  BY <1>1 DEF Recovery!Ends, Recovery!Loses
<1>2. CASE Recovery!Sample \/ Recovery!LookAway
  BY <1>2 DEF Recovery!Sample, Recovery!Status, Recovery!LookAway
<1>3. CASE Recovery!Look
  BY <1>3 DEF Recovery!Look, Recovery!Begins, Recovery!Begin, Recovery!NoSample
<1>4. CASE Recovery!Outside
  BY <1>4 DEF Recovery!Outside, Recovery!Settle, Recovery!Begin, Recovery!Loses, Recovery!Status
<1>5. CASE Recovery!AskStatus \/ Recovery!PauseCheck
  BY <1>5 DEF Recovery!AskStatus, Recovery!State, Recovery!Goes, Recovery!Fails,
     Recovery!Completes, Recovery!Asks, Recovery!Settle, Recovery!Frame, Recovery!Loses,
     Recovery!PauseCheck
<1>6. CASE Recovery!RemoveCheck
  BY <1>6 DEF Recovery!RemoveCheck, Recovery!State, Recovery!Goes, Recovery!Fails,
     Recovery!Completes, Recovery!Asks, Recovery!Settle, Recovery!Frame, Recovery!Loses
<1>7. CASE Recovery!RefreshCheck
  BY <1>7 DEF Recovery!RefreshCheck, Recovery!State, Recovery!Goes, Recovery!Fails,
     Recovery!Completes, Recovery!Asks, Recovery!Settle, Recovery!Frame, Recovery!Loses
<1>8. CASE Recovery!UnpauseCheck
  BY <1>8 DEF Recovery!UnpauseCheck, Recovery!State, Recovery!Goes, Recovery!Fails,
     Recovery!Completes, Recovery!Asks, Recovery!Settle, Recovery!Frame, Recovery!Loses,
     Recovery!StaysPaused
<1>9. CASE Recovery!ForcePause \/ Recovery!Refresh
  BY <1>9 DEF Recovery!ForcePause, Recovery!State, Recovery!Goes, Recovery!Calls, Recovery!Frame,
     Recovery!Refresh
<1>10. CASE Recovery!ForceRemove
  BY <1>10 DEF Recovery!ForceRemove, Recovery!State, Recovery!Goes, Recovery!Calls,
     Recovery!Frame, Recovery!Loses
<1>11. CASE Recovery!Unpause
  BY <1>11 DEF Recovery!Unpause, Recovery!State, Recovery!Goes, Recovery!Calls, Recovery!Frame
<1>12. CASE Recovery!Prepare
  BY <1>12 DEF Recovery!Prepare, Recovery!Unavailable, Recovery!Settle, Recovery!Loses
<1>13. CASE Recovery!Add
  BY <1>13 DEF Recovery!Add, Recovery!Remember, Recovery!Unsure, Recovery!Unavailable,
     Recovery!Settle, Recovery!Loses
<1>14. CASE Recovery!AddStatus
  BY <1>14 DEF Recovery!AddStatus, Recovery!Last, Recovery!HandsOver, Recovery!Remember,
     Recovery!Loses
<1>15. CASE Recovery!PauseIt
  BY <1>15 DEF Recovery!PauseIt, Recovery!Unlocked, Recovery!Status
<1>16. CASE Recovery!ResumeIt
  BY <1>16 DEF Recovery!ResumeIt, Recovery!Unlocked, Recovery!Status
<1>17. CASE UNCHANGED Recovery!cvars
  BY <1>17 DEF Recovery!cvars
<1> QED
  BY <1>1, <1>2, <1>3, <1>4, <1>5, <1>6, <1>7, <1>8, <1>9, <1>10, <1>11, <1>12, <1>13, <1>14,
     <1>15, <1>16, <1>17 DEF Recovery!Next

\* An add takes a GID that is free, and keeps it while its answer is in doubt.
LEMMA NextAddIsPrepared ==
  ASSUME RecoveryBounds, RecoveryInvariant, [Recovery!Next]_(Recovery!cvars)
  PROVE  AddIsPrepared'
<1> USE DEF RecoveryInvariant, RecoveryShapes, TransferShapes, AddShapes, OwnerIsKnown,
   AddIsPrepared, OnlyTheHolderLives, Holder, Recovery!NoAdd, Recovery!Known, Recovery!Live,
   Recovery!Stopped, Recovery!Recovering, Recovery!Gids, Recovery!kind, Recovery!lifecycle,
   Recovery!poller, Recovery!counts, RecoveryBounds
<1>1. CASE Recovery!Ends
  BY <1>1 DEF Recovery!Ends, Recovery!Loses
<1>2. CASE Recovery!Sample \/ Recovery!LookAway
  BY <1>2 DEF Recovery!Sample, Recovery!Status, Recovery!LookAway
<1>3. CASE Recovery!Look
  BY <1>3 DEF Recovery!Look, Recovery!Begins, Recovery!Begin, Recovery!NoSample
<1>4. CASE Recovery!Outside
  BY <1>4 DEF Recovery!Outside, Recovery!Settle, Recovery!Begin, Recovery!Loses, Recovery!Status
<1>5. CASE Recovery!AskStatus \/ Recovery!PauseCheck
  BY <1>5 DEF Recovery!AskStatus, Recovery!State, Recovery!Goes, Recovery!Fails,
     Recovery!Completes, Recovery!Asks, Recovery!Settle, Recovery!Frame, Recovery!Loses,
     Recovery!PauseCheck
<1>6. CASE Recovery!RemoveCheck
  <2>1. /\ gids' = gids /\ used' = used /\ step' \in {"idle", "add"}
        /\ adding' = adding \/ adding' = Recovery!NoAdd
    BY <1>6 DEF Recovery!State, Recovery!Goes, Recovery!Fails, Recovery!Completes, Recovery!Asks,
              Recovery!Settle, Recovery!Frame, Recovery!RemoveCheck
  <2>2. adding.gid = 0 /\ used < MaxGids
    BY <1>6 DEF Recovery!RemoveCheck
  <2> QED
    BY <2>1, <2>2
<1>7. CASE Recovery!RefreshCheck
  <2>1. /\ gids' = gids /\ used' = used /\ step' \in {"idle", "remove", "pause", "unpause"}
        /\ adding' = adding \/ adding' = Recovery!NoAdd
    BY <1>7 DEF Recovery!State, Recovery!Goes, Recovery!Fails, Recovery!Completes, Recovery!Asks,
              Recovery!Settle, Recovery!Frame, Recovery!RefreshCheck
  <2>2. adding.gid = 0
    BY <1>7 DEF Recovery!State, Recovery!Goes, Recovery!Fails, Recovery!Completes, Recovery!Asks,
              Recovery!Settle, Recovery!Frame, Recovery!RefreshCheck
  <2>3. step' \in {"remove", "pause"} => step \in {"status", "pauseCheck"}
    BY <1>7 DEF Recovery!State, Recovery!Goes, Recovery!Fails, Recovery!Completes, Recovery!Asks,
              Recovery!Settle, Recovery!Frame, Recovery!RefreshCheck
  <2> QED
    BY <2>1, <2>2, <2>3
<1>8. CASE Recovery!UnpauseCheck
  <2>1. /\ gids' = gids /\ used' = used /\ step' \in {"idle", "remove", "pause", "unpause"}
        /\ adding' = adding \/ adding' = Recovery!NoAdd
    BY <1>8 DEF Recovery!State, Recovery!Goes, Recovery!Fails, Recovery!Completes, Recovery!Asks,
              Recovery!Settle, Recovery!Frame, Recovery!UnpauseCheck, Recovery!StaysPaused
  <2>2. adding.gid = 0
    BY <1>8 DEF Recovery!State, Recovery!Goes, Recovery!Fails, Recovery!Completes, Recovery!Asks,
              Recovery!Settle, Recovery!Frame, Recovery!UnpauseCheck, Recovery!StaysPaused
  <2>3. step' \in {"remove", "pause"} => step \in {"status", "pauseCheck"}
    BY <1>8 DEF Recovery!State, Recovery!Goes, Recovery!Fails, Recovery!Completes, Recovery!Asks,
              Recovery!Settle, Recovery!Frame, Recovery!UnpauseCheck, Recovery!StaysPaused
  <2> QED
    BY <2>1, <2>2, <2>3
<1>9. CASE Recovery!ForcePause \/ Recovery!Refresh
  BY <1>9 DEF Recovery!ForcePause, Recovery!State, Recovery!Goes, Recovery!Calls, Recovery!Frame,
     Recovery!Refresh
<1>10. CASE Recovery!ForceRemove
  BY <1>10 DEF Recovery!ForceRemove, Recovery!State, Recovery!Goes, Recovery!Calls,
     Recovery!Frame, Recovery!Loses
<1>11. CASE Recovery!Unpause
  BY <1>11 DEF Recovery!Unpause, Recovery!State, Recovery!Goes, Recovery!Calls, Recovery!Frame
<1>12. CASE Recovery!Prepare
  <2>1. CASE adding' = Recovery!NoAdd
    <3>1. adding'.gid = 0
      BY <2>1
    <3>2. step' = "idle" \/ adding'.gid \in Recovery!Gids
      BY <1>12, AddTakesGid, Zenon
    <3> QED
      BY <3>1, <3>2
  <2>2. CASE adding' # Recovery!NoAdd
    <3>1. /\ step = "add" /\ step' = "add" /\ adding.gid = 0 /\ adding'.gid \in Recovery!Gids
          /\ gids' = gids
      BY <1>12, <2>2, AddTakesGid
    <3> QED
      BY <3>1
  <2> QED
    BY <2>1, <2>2
<1>13. CASE Recovery!Add
  <2>1. adding.gid \in Recovery!Gids /\ gids[adding.gid] # "paused"
    BY <1>13 DEF Recovery!Add
  <2>2. gids' = gids \/ gids' = [gids EXCEPT ![adding.gid] = "active"]
    BY <1>13 DEF Recovery!Add
  <2>3. gids'[adding.gid] # "paused"
    BY <2>1, <2>2
  <2>4. \/ adding' = Recovery!NoAdd /\ step' = "idle"
        \/ adding'.gid = adding.gid /\ step' = "addStatus"
    BY <1>13 DEF Recovery!Add, Recovery!Remember, Recovery!Unsure, Recovery!Unavailable
  <2> QED
    BY <2>1, <2>3, <2>4
<1>14. CASE Recovery!AddStatus
  <2>1. adding.gid # 0 /\ gids' = gids
    BY <1>14 DEF Recovery!AddStatus
  <2>2. \/ adding' = Recovery!NoAdd /\ step' = "idle"
        \/ adding'.gid = adding.gid /\ step' \in {"add", "addStatus"}
    BY <1>14 DEF Recovery!AddStatus, Recovery!HandsOver, Recovery!Remember
  <2> QED
    BY <2>1, <2>2
<1>15. CASE Recovery!PauseIt
  BY <1>15 DEF Recovery!PauseIt, Recovery!Unlocked, Recovery!Status
<1>16. CASE Recovery!ResumeIt
  BY <1>16 DEF Recovery!ResumeIt, Recovery!Unlocked, Recovery!Status
<1>17. CASE UNCHANGED Recovery!cvars
  BY <1>17 DEF Recovery!cvars
<1> QED
  BY <1>1, <1>2, <1>3, <1>4, <1>5, <1>6, <1>7, <1>8, <1>9, <1>10, <1>11, <1>12, <1>13, <1>14,
     <1>15, <1>16, <1>17 DEF Recovery!Next

\* The add comes after the old GID was seen stopped, and the new one is mapped with its answer.
LEMMA NextOnlyTheHolderLives ==
  ASSUME RecoveryBounds, RecoveryInvariant, [Recovery!Next]_(Recovery!cvars)
  PROVE  OnlyTheHolderLives'
<1> USE DEF RecoveryInvariant, RecoveryShapes, TransferShapes, AddShapes, OwnerIsKnown,
   AddIsPrepared, OnlyTheHolderLives, Holder, Recovery!NoAdd, Recovery!Known, Recovery!Live,
   Recovery!Stopped, Recovery!Recovering, Recovery!Gids, Recovery!kind, Recovery!lifecycle,
   Recovery!poller, Recovery!counts, RecoveryBounds
<1>1. CASE Recovery!Ends
  BY <1>1 DEF Recovery!Ends, Recovery!Loses
<1>2. CASE Recovery!Sample \/ Recovery!LookAway
  BY <1>2 DEF Recovery!Sample, Recovery!Status, Recovery!LookAway
<1>3. CASE Recovery!Look
  BY <1>3 DEF Recovery!Look, Recovery!Begins, Recovery!Begin, Recovery!NoSample
<1>4. CASE Recovery!Outside
  BY <1>4 DEF Recovery!Outside, Recovery!Settle, Recovery!Begin, Recovery!Loses, Recovery!Status
<1>5. CASE Recovery!AskStatus \/ Recovery!PauseCheck
  BY <1>5 DEF Recovery!AskStatus, Recovery!State, Recovery!Goes, Recovery!Fails,
     Recovery!Completes, Recovery!Asks, Recovery!Settle, Recovery!Frame, Recovery!Loses,
     Recovery!PauseCheck
<1>6. CASE Recovery!RemoveCheck
  BY <1>6 DEF Recovery!RemoveCheck, Recovery!State, Recovery!Goes, Recovery!Fails,
     Recovery!Completes, Recovery!Asks, Recovery!Settle, Recovery!Frame, Recovery!Loses
<1>7. CASE Recovery!RefreshCheck
  BY <1>7 DEF Recovery!RefreshCheck, Recovery!State, Recovery!Goes, Recovery!Fails,
     Recovery!Completes, Recovery!Asks, Recovery!Settle, Recovery!Frame, Recovery!Loses
<1>8. CASE Recovery!UnpauseCheck
  BY <1>8 DEF Recovery!UnpauseCheck, Recovery!State, Recovery!Goes, Recovery!Fails,
     Recovery!Completes, Recovery!Asks, Recovery!Settle, Recovery!Frame, Recovery!Loses,
     Recovery!StaysPaused
<1>9. CASE Recovery!ForcePause \/ Recovery!Refresh
  BY <1>9 DEF Recovery!ForcePause, Recovery!State, Recovery!Goes, Recovery!Calls, Recovery!Frame,
     Recovery!Refresh
<1>10. CASE Recovery!ForceRemove
  BY <1>10 DEF Recovery!ForceRemove, Recovery!State, Recovery!Goes, Recovery!Calls,
     Recovery!Frame, Recovery!Loses
<1>11. CASE Recovery!Unpause
  BY <1>11 DEF Recovery!Unpause, Recovery!State, Recovery!Goes, Recovery!Calls, Recovery!Frame
<1>12. CASE Recovery!Prepare
  BY <1>12 DEF Recovery!Prepare, Recovery!Unavailable, Recovery!Settle, Recovery!Loses
<1>13. CASE Recovery!Add
  BY <1>13 DEF Recovery!Add, Recovery!Remember, Recovery!Unsure, Recovery!Unavailable,
     Recovery!Settle, Recovery!Loses
<1>14. CASE Recovery!AddStatus
  BY <1>14 DEF Recovery!AddStatus, Recovery!Last, Recovery!HandsOver, Recovery!Remember,
     Recovery!Loses
<1>15. CASE Recovery!PauseIt
  BY <1>15 DEF Recovery!PauseIt, Recovery!Unlocked, Recovery!Status
<1>16. CASE Recovery!ResumeIt
  BY <1>16 DEF Recovery!ResumeIt, Recovery!Unlocked, Recovery!Status
<1>17. CASE UNCHANGED Recovery!cvars
  BY <1>17 DEF Recovery!cvars
<1> QED
  BY <1>1, <1>2, <1>3, <1>4, <1>5, <1>6, <1>7, <1>8, <1>9, <1>10, <1>11, <1>12, <1>13, <1>14,
     <1>15, <1>16, <1>17 DEF Recovery!Next

\* The row says what became of the transfer.
LEMMA RowStaysTrue ==
  ASSUME RecoveryBounds, RecoveryInvariant, [Recovery!Next]_(Recovery!cvars)
  PROVE  Recovery!RowIsTrue'
<1> USE DEF RecoveryInvariant, RecoveryShapes, TransferShapes, FlagShapes, AddShapes,
   OwnerIsKnown, AddIsPrepared, OnlyTheHolderLives, Holder, Recovery!NoAdd, Recovery!RowIsTrue,
   Recovery!Unlocked, Recovery!Status, Recovery!Known, Recovery!Live, Recovery!Stopped,
   Recovery!Recovering, Recovery!Gids, Recovery!kind, Recovery!lifecycle, Recovery!poller,
   Recovery!counts, RecoveryBounds
<1>1. CASE Recovery!Ends
  BY <1>1 DEF Recovery!Ends, Recovery!Loses
<1>2. CASE Recovery!Sample \/ Recovery!LookAway
  BY <1>2 DEF Recovery!Sample, Recovery!Status, Recovery!LookAway
<1>3. CASE Recovery!Look
  BY <1>3 DEF Recovery!Look, Recovery!Begins, Recovery!Begin, Recovery!NoSample
<1>4. CASE Recovery!Outside
  BY <1>4 DEF Recovery!Outside, Recovery!Settle, Recovery!Begin, Recovery!Loses, Recovery!Status
<1>5. CASE Recovery!AskStatus \/ Recovery!PauseCheck
  BY <1>5 DEF Recovery!AskStatus, Recovery!State, Recovery!Goes, Recovery!Fails,
     Recovery!Completes, Recovery!Asks, Recovery!Settle, Recovery!Frame, Recovery!Loses,
     Recovery!PauseCheck
<1>6. CASE Recovery!RemoveCheck
  BY <1>6 DEF Recovery!RemoveCheck, Recovery!State, Recovery!Goes, Recovery!Fails,
     Recovery!Completes, Recovery!Asks, Recovery!Settle, Recovery!Frame, Recovery!Loses
<1>7. CASE Recovery!RefreshCheck
  BY <1>7 DEF Recovery!RefreshCheck, Recovery!State, Recovery!Goes, Recovery!Fails,
     Recovery!Completes, Recovery!Asks, Recovery!Settle, Recovery!Frame, Recovery!Loses
<1>8. CASE Recovery!UnpauseCheck
  BY <1>8 DEF Recovery!UnpauseCheck, Recovery!State, Recovery!Goes, Recovery!Fails,
     Recovery!Completes, Recovery!Asks, Recovery!Settle, Recovery!Frame, Recovery!Loses,
     Recovery!StaysPaused
<1>9. CASE Recovery!ForcePause \/ Recovery!Refresh
  BY <1>9 DEF Recovery!ForcePause, Recovery!State, Recovery!Goes, Recovery!Calls, Recovery!Frame,
     Recovery!Refresh
<1>10. CASE Recovery!ForceRemove
  BY <1>10 DEF Recovery!ForceRemove, Recovery!State, Recovery!Goes, Recovery!Calls,
     Recovery!Frame, Recovery!Loses
<1>11. CASE Recovery!Unpause
  <2>1. /\ UNCHANGED <<healedRow, mapped, stranded>> /\ target = mapped
        /\ healedRow = "live" /\ mapped # 0
    BY <1>11 DEF Recovery!Unpause, Recovery!Calls, Recovery!Goes
  <2>2. step' \in Recovery!Recovering \/ gids' = [gids EXCEPT ![target] = "active"]
    BY <1>11 DEF Recovery!Unpause, Recovery!Calls, Recovery!Goes, Recovery!State
  <2> QED
    BY <2>1, <2>2
<1>12. CASE Recovery!Prepare
  <2>1. CASE step' = "idle"
    <3>1. step = "add" /\ adding.gid = 0 /\ gids' = gids /\ healedRow' = "paused"
      BY <1>12, <2>1, AddTakesGid
    <3> QED
      BY <2>1, <3>1
  <2>2. CASE step' # "idle"
    BY <1>12, <2>2, AddTakesGid
  <2> QED
    BY <2>1, <2>2
<1>13. CASE Recovery!Add
  BY ZenonT(60), <1>13 DEF Recovery!Add, Recovery!Remember, Recovery!Unsure, Recovery!Unavailable,
     Recovery!Settle, Recovery!Loses
<1>14. CASE Recovery!AddStatus
  BY <1>14 DEF Recovery!AddStatus, Recovery!Last, Recovery!HandsOver, Recovery!Remember,
     Recovery!Loses
<1>15. CASE Recovery!PauseIt
  BY <1>15 DEF Recovery!PauseIt, Recovery!Unlocked, Recovery!Status
<1>16. CASE Recovery!ResumeIt
  BY <1>16 DEF Recovery!ResumeIt, Recovery!Unlocked, Recovery!Status
<1>17. CASE UNCHANGED Recovery!cvars
  BY <1>17 DEF Recovery!cvars
<1> QED
  BY <1>1, <1>2, <1>3, <1>4, <1>5, <1>6, <1>7, <1>8, <1>9, <1>10, <1>11, <1>12, <1>13, <1>14,
     <1>15, <1>16, <1>17 DEF Recovery!Next

\* A recovery is begun with an attempt, and attempts are forgiven by good samples only.
LEMMA NextRecoveriesArePaid ==
  ASSUME RecoveryBounds, RecoveryInvariant, [Recovery!Next]_(Recovery!cvars)
  PROVE  RecoveriesArePaid'
<1> USE DEF RecoveryInvariant, RecoveryShapes, CountShapes, ObservationShapes, RecoveriesArePaid,
   Recovery!kind, Recovery!lifecycle, Recovery!poller, Recovery!counts, RecoveryBounds
<1>1. CASE Recovery!Ends
  BY <1>1 DEF Recovery!Ends, Recovery!Loses
<1>2. CASE Recovery!Sample \/ Recovery!LookAway
  <2>1. CASE Recovery!Sample
    BY <2>1 DEF Recovery!Sample
  <2>2. CASE Recovery!LookAway
    BY <2>2 DEF Recovery!LookAway, Recovery!NoObs
  <2> QED
    BY <1>2, <2>1, <2>2
<1>3. CASE Recovery!Look
  <2>1. /\ Recovery!Observed \in Memories /\ Recovery!Judged \in Memories
        /\ Recovery!Observed.attempts = IF obs.epoch = sample.epoch THEN obs.attempts ELSE 0
        /\ Recovery!Judged.attempts \in {0, Recovery!Observed.attempts}
    BY JudgementKeepsAttempts
  <2>2. Recovery!Unforgiven \in Nat /\ Recovery!Unforgiven <= Recovery!Judged.attempts
    BY <2>1 DEF Recovery!Unforgiven, Memories
  <2>3. torrent' = torrent
    BY <1>3 DEF Recovery!Look
  <2>4. CASE torrent
    <3>1. spree' = spree /\ spree = 0
      BY <1>3, <2>4 DEF Recovery!Look
    <3>2. \/ obs' = obs
          \/ obs' = [Recovery!Observed EXCEPT !.attempts = 0, !.stall = 0, !.cool = 0,
                                               !.healthy = 0]
      BY <1>3, <2>4 DEF Recovery!Look
    <3>3. obs'.attempts \in {0, obs.attempts}
      BY <2>1, <3>2 DEF Memories
    <3>4. obs.attempts \in Nat
      BY DEF Memories
    <3> QED
      BY <2>3, <3>1, <3>3, <3>4
  <2>5. CASE ~torrent
    <3>1. \/ obs' = obs /\ spree' = spree
          \/ obs' = Recovery!Judged /\ spree' = Recovery!Unforgiven
          \/ /\ Recovery!Judged.attempts < RecoveryLimit /\ obs' = Recovery!Spent(Recovery!Judged)
             /\ spree' = Recovery!Unforgiven + 1
      BY <1>3, <2>5 DEF Recovery!Look, Recovery!Allowed
    <3>2. Recovery!Spent(Recovery!Judged).attempts = Recovery!Judged.attempts + 1
      BY <2>1 DEF Recovery!Spent, Memories
    <3>3. Recovery!Judged.attempts \in Nat /\ Recovery!Judged.attempts <= RecoveryLimit
      BY <2>1 DEF Memories
    <3>4. CASE obs' = obs /\ spree' = spree
      BY <2>3, <2>5, <3>4
    <3>5. CASE obs' = Recovery!Judged /\ spree' = Recovery!Unforgiven
      BY <2>2, <2>3, <2>5, <3>3, <3>5
    <3>6. CASE /\ Recovery!Judged.attempts < RecoveryLimit
               /\ obs' = Recovery!Spent(Recovery!Judged)
               /\ spree' = Recovery!Unforgiven + 1
      <4>1. obs'.attempts = Recovery!Judged.attempts + 1
        BY <3>2, <3>6
      <4> HIDE DEF Memories
      <4> QED
        BY <2>2, <2>3, <2>5, <3>3, <3>6, <4>1
    <3> QED
      BY <3>1, <3>4, <3>5, <3>6
  <2> QED
    BY <2>4, <2>5
<1>4. CASE Recovery!Outside
  BY <1>4 DEF Recovery!Outside, Recovery!Settle, Recovery!Begin, Recovery!Loses, Recovery!Status
<1>5. CASE Recovery!AskStatus \/ Recovery!PauseCheck
  BY <1>5 DEF Recovery!AskStatus, Recovery!State, Recovery!Goes, Recovery!Fails,
     Recovery!Completes, Recovery!Asks, Recovery!Settle, Recovery!Frame, Recovery!Loses,
     Recovery!PauseCheck
<1>6. CASE Recovery!RemoveCheck
  BY <1>6 DEF Recovery!RemoveCheck, Recovery!State, Recovery!Goes, Recovery!Fails,
     Recovery!Completes, Recovery!Asks, Recovery!Settle, Recovery!Frame, Recovery!Loses
<1>7. CASE Recovery!RefreshCheck
  BY <1>7 DEF Recovery!RefreshCheck, Recovery!State, Recovery!Goes, Recovery!Fails,
     Recovery!Completes, Recovery!Asks, Recovery!Settle, Recovery!Frame, Recovery!Loses
<1>8. CASE Recovery!UnpauseCheck
  BY <1>8 DEF Recovery!UnpauseCheck, Recovery!State, Recovery!Goes, Recovery!Fails,
     Recovery!Completes, Recovery!Asks, Recovery!Settle, Recovery!Frame, Recovery!Loses,
     Recovery!StaysPaused
<1>9. CASE Recovery!ForcePause \/ Recovery!Refresh
  BY <1>9 DEF Recovery!ForcePause, Recovery!State, Recovery!Goes, Recovery!Calls, Recovery!Frame,
     Recovery!Refresh
<1>10. CASE Recovery!ForceRemove
  BY <1>10 DEF Recovery!ForceRemove, Recovery!State, Recovery!Goes, Recovery!Calls,
     Recovery!Frame, Recovery!Loses
<1>11. CASE Recovery!Unpause
  BY <1>11 DEF Recovery!Unpause, Recovery!State, Recovery!Goes, Recovery!Calls, Recovery!Frame
<1>12. CASE Recovery!Prepare
  BY <1>12 DEF Recovery!Prepare, Recovery!Unavailable, Recovery!Settle, Recovery!Loses
<1>13. CASE Recovery!Add
  BY <1>13 DEF Recovery!Add, Recovery!Remember, Recovery!Unsure, Recovery!Unavailable,
     Recovery!Settle, Recovery!Loses
<1>14. CASE Recovery!AddStatus
  BY <1>14 DEF Recovery!AddStatus, Recovery!Last, Recovery!HandsOver, Recovery!Remember,
     Recovery!Loses
<1>15. CASE Recovery!PauseIt
  BY <1>15 DEF Recovery!PauseIt, Recovery!Unlocked, Recovery!Status
<1>16. CASE Recovery!ResumeIt
  BY <1>16 DEF Recovery!ResumeIt, Recovery!Unlocked, Recovery!Status
<1>17. CASE UNCHANGED Recovery!cvars
  BY <1>17 DEF Recovery!cvars
<1> QED
  BY <1>1, <1>2, <1>3, <1>4, <1>5, <1>6, <1>7, <1>8, <1>9, <1>10, <1>11, <1>12, <1>13, <1>14,
     <1>15, <1>16, <1>17 DEF Recovery!Next

\* It holds when the transfer starts.
LEMMA InitRecovery ==
  ASSUME RecoveryBounds, Recovery!Init
  PROVE  RecoveryInvariant
<1> USE DEF RecoveryBounds, Recovery!Init, Recovery!NoAdd, Recovery!NoObs, Recovery!NoSample,
   Recovery!Known, Recovery!Live, Recovery!Stopped, Recovery!Gids
<1>1. TransferShapes /\ FlagShapes
  <2>1. gids \in [Recovery!Gids -> Recovery!Known \cup {"none", "gone"}]
    OBVIOUS
  <2>2. used \in 0 .. MaxGids /\ mapped \in 0 .. MaxGids
    OBVIOUS
  <2> QED
    BY <2>1, <2>2 DEF TransferShapes, FlagShapes
<1>2. AddShapes /\ CountShapes /\ ObservationShapes
  BY DEF AddShapes, CountShapes, Memories, Recovery!Samples, ObservationShapes
<1>3. OwnerIsKnown /\ AddIsPrepared /\ OnlyTheHolderLives
  BY DEF OwnerIsKnown, AddIsPrepared, OnlyTheHolderLives, Holder, Recovery!Recovering
<1>4. Recovery!RowIsTrue /\ RecoveriesArePaid
  BY DEF Recovery!RowIsTrue, Recovery!Status, RecoveriesArePaid
<1> QED
  BY <1>1, <1>2, <1>3, <1>4 DEF RecoveryInvariant, RecoveryShapes

\* Every step keeps it.
LEMMA NextRecovery ==
  ASSUME RecoveryBounds, RecoveryInvariant, [Recovery!Next]_(Recovery!cvars)
  PROVE  RecoveryInvariant'
BY NextTransferShapes, NextFlagShapes, NextAddShapes, NextCountShapes, NextObservationShapes,
   NextOwnerIsKnown, NextAddIsPrepared, NextOnlyTheHolderLives, RowStaysTrue,
   NextRecoveriesArePaid DEF RecoveryInvariant, RecoveryShapes

\* What the invariant says of the properties of the component.
LEMMA RecoverySafety ==
  ASSUME RecoveryBounds, RecoveryInvariant
  PROVE  /\ Recovery!OneTransfer /\ Recovery!NothingIsOrphaned /\ Recovery!RowIsTrue
         /\ Recovery!RecoveriesAreBounded
<1> USE DEF RecoveryInvariant, OnlyTheHolderLives
<1>1. Recovery!OneTransfer
  <2> DEFINE living == {g \in Recovery!Gids : gids[g] \in Recovery!Live}
  <2>1. living \in SUBSET {Holder}
    OBVIOUS
  <2>2. IsFiniteSet({Holder}) /\ Cardinality({Holder}) = 1
    BY FS_Singleton
  <2>3. IsFiniteSet(living) /\ Cardinality(living) <= 1
    BY <2>1, <2>2, FS_Subset
  <2>4. Recovery!Cardinality(living) = Cardinality(living)
    BY DEF Recovery!Cardinality, Cardinality
  <2> QED
    BY <2>3, <2>4 DEF Recovery!OneTransfer
<1>2. Recovery!NothingIsOrphaned
  BY DEF Recovery!NothingIsOrphaned, Recovery!Unlocked, Recovery!Recovering, Holder
<1>3. Recovery!RecoveriesAreBounded
  BY DEF Recovery!RecoveriesAreBounded, RecoveriesArePaid, RecoveryShapes, CountShapes,
       ObservationShapes, Memories, RecoveryBounds
<1> QED
  BY <1>1, <1>2, <1>3

-----------------------------------------------------------------------------
(* The theorems.                                                           *)

\* No snapshot of the renderer undoes what the native side has committed, and the markers that
\* protect a commit go when they have done so (NativeCommitsAreKept, SnapshotsConverge).
THEOREM CommitsAreKept ==
  ASSUME MaxUploads \in Nat
  PROVE  Rows!Spec => [](Rows!NativeCommitsAreKept /\ Rows!SnapshotsConverge)
<1>1. Rows!Init => RowInvariant
  BY InitRows
<1>2. RowInvariant /\ [Rows!Next]_(Rows!svars) => RowInvariant'
  BY NextRows
<1>3. RowInvariant => Rows!NativeCommitsAreKept /\ Rows!SnapshotsConverge
  BY RowSafety
<1> QED
  BY <1>1, <1>2, <1>3, PTL DEF Rows!Spec

\* The progress in the database is that of the partial files there are, never of files a cleanup
\* has deleted, unless the renderer held a frame back when the epoch changed
\* (ProgressIsOfTheseBytes).
THEOREM ProgressIsTrue == Media!Spec => []Media!ProgressIsOfTheseBytes
  BY InitMedia, NextMedia, MediaSafety, PTL DEF Media!Spec

\* Whatever is changed while a torrent lives, and whichever call fails, the daemon has what the
\* payload asks for unless contact was lost, the web seeds are saved, and the selection of files
\* is owned as it is saved (DaemonHasThePayload, SeedsAreSaved, SelectionIsWhole).
THEOREM OptionsStayInAgreement ==
  Options!Spec =>
    [](Options!DaemonHasThePayload /\ Options!SeedsAreSaved /\ Options!SelectionIsWhole)
<1>1. Options!Init => OptionInvariant
  BY InitOptions
<1>2. OptionInvariant /\ [Options!Next]_(Options!ovars) => OptionInvariant'
  BY NextOptions
<1> QED
  BY <1>1, <1>2, OptionSafety, PTL DEF Options!Spec

\* Whatever answers are lost while the poller heals a transfer, one GID of it lives at most, none
\* is left behind, its row tells the truth, and it is healed no more often than the limit allows
\* (OneTransfer, NothingIsOrphaned, RowIsTrue, RecoveriesAreBounded).
THEOREM RecoveriesHealOneTransfer ==
  ASSUME RecoveryBounds
  PROVE  Recovery!Spec => [](/\ Recovery!OneTransfer /\ Recovery!NothingIsOrphaned
                             /\ Recovery!RowIsTrue /\ Recovery!RecoveriesAreBounded)
<1>1. Recovery!Init => RecoveryInvariant
  BY InitRecovery
<1>2. RecoveryInvariant /\ [Recovery!Next]_(Recovery!cvars) => RecoveryInvariant'
  BY NextRecovery
<1> QED
  BY <1>1, <1>2, RecoverySafety, PTL DEF Recovery!Spec
=============================================================================
