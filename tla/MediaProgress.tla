---------------------------- MODULE MediaProgress ----------------------------
(***************************************************************************)
(* The progress of a media download (emit_media_progress and the cleanup   *)
(* of yt-dlp's partial files in lib.rs, the checkpoint epoch in db.rs, the *)
(* listeners of downloadStore.ts and the checkpoints of                    *)
(* useDownloadStore.ts).  The row says how much of the partial files there *)
(* is.  The native side may delete those files; it first clears the row    *)
(* and raises its epoch in one transaction, and a snapshot or a frame of   *)
(* an older epoch counts for nothing.                                      *)
(*                                                                         *)
(* One download.  Partial files are numbered: 0 is "no files", and files   *)
(* that start over have a new number; a progress value is the number of    *)
(* the files it was measured on.  Left out: post-processing, which shows   *)
(* no progress and only decides if a cancelled run cleans up.  Bounds:     *)
(* MaxRuns runs, MaxFrames events under way, MaxStops stops.               *)
(***************************************************************************)
EXTENDS Naturals, Sequences

CONSTANTS MaxRuns, MaxFrames, MaxStops

VARIABLES
  checkpoint,   \* epoch and progress of the row in the database
  part, parts,  \* the partial files, and how many there have been
  run,          \* the yt-dlp run: its generation, epoch and step
  frames,       \* events under way to the renderer, in order
  item,         \* the renderer's row: epoch, progress, generation, status
  held,         \* durableProgressCheckpoints: the progress a snapshot saves
  upload,       \* the snapshot under way
  crossed,      \* history: progress was held back over a change of the epoch
  runs, mediaStops

pvars == <<checkpoint, part, parts, run, frames, item, held, upload, crossed, runs, mediaStops>>

Progress == 0 .. MaxRuns
Epochs == 0 .. MaxRuns
Generations == 0 .. 2 * MaxRuns + MaxStops
Checkpoints == [epoch : Epochs, progress : Progress]
NoUpload == [epoch |-> 0, progress |-> MaxRuns + 1]
Steps == {"none", "running", "cancelled", "cleanup", "deleting"}
Events == [kind : {"frame", "invalidated", "failed"}, gen : Generations, epoch : Epochs,
           progress : Progress]

\* Every variable keeps its type.
TypeOK ==
  /\ checkpoint \in Checkpoints
  /\ part \in Progress /\ parts \in Progress
  /\ run \in [gen : Generations, epoch : Epochs, step : Steps]
  /\ frames \in Seq(Events) /\ Len(frames) <= MaxFrames + 2 * MaxRuns
  /\ item \in [epoch : Epochs, progress : Progress, gen : Generations, active : BOOLEAN]
  /\ held \in Progress
  /\ upload \in Checkpoints \cup {NoUpload}
  /\ crossed \in BOOLEAN
  /\ runs \in 0 .. MaxRuns /\ mediaStops \in 0 .. MaxStops

Init ==
  /\ checkpoint = [epoch |-> 0, progress |-> 0]
  /\ part = 0 /\ parts = 0
  /\ run = [gen |-> 0, epoch |-> 0, step |-> "none"]
  /\ frames = <<>>
  /\ item = [epoch |-> 0, progress |-> 0, gen |-> 0, active |-> FALSE]
  /\ held = 0 /\ upload = NoUpload /\ crossed = FALSE
  /\ runs = 0 /\ mediaStops = 0

Emit(kind, epoch, progress) ==
  frames' = Append(frames, [kind |-> kind, gen |-> run.gen, epoch |-> epoch,
                            progress |-> progress])

-----------------------------------------------------------------------------
(* The run                                                                 *)

\* The row's epoch is read once, when the run is admitted.
StartRun ==
  /\ ~item.active /\ run.step = "none" /\ runs < MaxRuns
  /\ runs' = runs + 1
  /\ item' = [item EXCEPT !.gen = @ + 1, !.active = TRUE]
  /\ run' = [gen |-> item.gen + 1, epoch |-> checkpoint.epoch, step |-> "running"]
  /\ UNCHANGED <<checkpoint, part, parts, frames, held, upload, crossed, mediaStops>>

\* yt-dlp goes on with the files there are, or begins new ones; a cancelled process may
\* still flush a line.
Fetch ==
  /\ run.step \in {"running", "cancelled"}
  /\ Len(frames) < MaxFrames
  /\ IF part = 0 /\ run.step = "running"
     THEN parts' = parts + 1 /\ part' = parts + 1
     ELSE part # 0 /\ UNCHANGED <<part, parts>>
  /\ Emit("frame", run.epoch, part')
  /\ UNCHANGED <<checkpoint, run, item, held, upload, crossed, runs, mediaStops>>

\* pause_download: a new generation, and the progress at hand is what the row keeps.
Pause ==
  /\ item.active
  /\ item' = [item EXCEPT !.gen = @ + 1, !.active = FALSE]
  /\ held' = item.progress
  /\ run' = IF run.step = "running" THEN [run EXCEPT !.step = "cancelled"] ELSE run
  /\ UNCHANGED <<checkpoint, part, parts, frames, upload, crossed, runs, mediaStops>>

\* A cancelled run keeps its files unless it was post-processing them.
CancelEnds ==
  /\ run.step = "cancelled"
  /\ run' \in {[run EXCEPT !.step = "none"], [run EXCEPT !.step = "cleanup"]}
  /\ UNCHANGED <<checkpoint, part, parts, frames, item, held, upload, crossed, runs, mediaStops>>

\* should_cleanup_media_artifacts_after_failure: the error that ends a run cleans up.
Fail ==
  /\ run.step = "running"
  /\ run' = [run EXCEPT !.step = "cleanup"]
  /\ UNCHANGED <<checkpoint, part, parts, frames, item, held, upload, crossed, runs, mediaStops>>

EndRun ==
  /\ run' = [run EXCEPT !.step = "none"]
  /\ Emit("failed", run.epoch, 0)

ClearedOnly == [checkpoint EXCEPT !.progress = 0]  \* mutant: the epoch stays
Cleared == [epoch |-> checkpoint.epoch + 1, progress |-> 0]

\* invalidate_media_progress_before_cleanup; a write that fails refuses the cleanup.
Invalidate ==
  /\ run.step = "cleanup"
  /\ IF part = 0
     THEN EndRun /\ UNCHANGED checkpoint
     ELSE \/ /\ checkpoint' = Cleared
             /\ Emit("invalidated", checkpoint.epoch + 1, 0)
             /\ run' = [run EXCEPT !.step = "deleting"]
          \/ EndRun /\ UNCHANGED checkpoint
  /\ UNCHANGED <<part, parts, item, held, upload, crossed, runs, mediaStops>>

\* cleanup_media_artifacts_locked; a file that cannot be removed stays.
Delete ==
  /\ run.step = "deleting"
  /\ part' \in {0, part}
  /\ EndRun
  /\ UNCHANGED <<checkpoint, parts, item, held, upload, crossed, runs, mediaStops>>

-----------------------------------------------------------------------------
(* The renderer                                                            *)

Arrived == Head(frames)
Current(event) == event.gen = item.gen
PriorPause(event) == ~item.active /\ event.gen + 1 = item.gen

Ignore ==
  \/ Arrived.kind = "frame"
     /\ (~item.active \/ ~Current(Arrived) \/ Arrived.epoch < item.epoch)
  \/ Arrived.kind = "invalidated"
     /\ (Arrived.epoch < item.epoch \/ ~(Current(Arrived) \/ PriorPause(Arrived)))
  \/ Arrived.kind = "failed" /\ ~Current(Arrived)

Drop ==
  /\ frames # <<>> /\ Ignore
  /\ frames' = Tail(frames)
  /\ UNCHANGED <<checkpoint, part, parts, run, item, held, upload, crossed, runs, mediaStops>>

\* stageProgressCheckpoint holds a frame back when the last one is not two seconds old.
ShowProgress ==
  /\ frames # <<>> /\ Arrived.kind = "frame" /\ ~Ignore
  /\ frames' = Tail(frames)
  /\ item' = [item EXCEPT !.progress = Arrived.progress, !.epoch = Arrived.epoch]
  /\ held' \in {Arrived.progress} \cup {h \in {held} : h # 0}
  /\ crossed' = (crossed \/ (held' # Arrived.progress /\ Arrived.epoch # item.epoch))
  /\ UNCHANGED <<checkpoint, part, parts, run, upload, runs, mediaStops>>

ShowInvalidated ==
  /\ frames # <<>> /\ Arrived.kind = "invalidated" /\ ~Ignore
  /\ frames' = Tail(frames)
  /\ item' = [item EXCEPT !.progress = 0, !.epoch = Arrived.epoch]
  /\ held' = 0
  /\ UNCHANGED <<checkpoint, part, parts, run, upload, crossed, runs, mediaStops>>

ShowFailed ==
  /\ frames # <<>> /\ Arrived.kind = "failed" /\ ~Ignore
  /\ frames' = Tail(frames)
  /\ item' = [item EXCEPT !.active = FALSE]
  /\ held' = item.progress
  /\ UNCHANGED <<checkpoint, part, parts, run, upload, crossed, runs, mediaStops>>

\* persistenceSnapshotForState
Upload ==
  /\ upload = NoUpload
  /\ upload' = [epoch |-> item.epoch, progress |-> IF held # 0 THEN held ELSE item.progress]
  /\ UNCHANGED <<checkpoint, part, parts, run, frames, item, held, crossed, runs, mediaStops>>

\* replace_downloads_tx: of a snapshot with another epoch only the other fields count.
Fenced(snapshot) ==
  IF snapshot.epoch = checkpoint.epoch THEN snapshot
  ELSE [epoch |-> checkpoint.epoch, progress |-> 0]

Store ==
  /\ upload # NoUpload
  /\ checkpoint' = Fenced(upload)
  /\ upload' = NoUpload
  /\ UNCHANGED <<part, parts, run, frames, item, held, crossed, runs, mediaStops>>

\* The process stops; the next one shows the row of the database.
StopMedia ==
  /\ mediaStops < MaxStops
  /\ mediaStops' = mediaStops + 1
  /\ item' = [epoch |-> checkpoint.epoch, progress |-> checkpoint.progress,
              gen |-> item.gen + 1, active |-> FALSE]
  /\ held' = checkpoint.progress
  /\ run' = [run EXCEPT !.step = "none"]
  /\ frames' = <<>> /\ upload' = NoUpload
  /\ UNCHANGED <<checkpoint, part, parts, crossed, runs>>

Next ==
  \/ StartRun \/ Fetch \/ Pause \/ CancelEnds \/ Fail \/ Invalidate \/ Delete
  \/ Drop \/ ShowProgress \/ ShowInvalidated \/ ShowFailed
  \/ Upload \/ Store \/ StopMedia

Spec == Init /\ [][Next]_pvars

-----------------------------------------------------------------------------
(* Properties                                                              *)

\* "This closes the crash window between filesystem removal and renderer save": whenever
\* the process may stop, the progress in the database is that of the partial files there
\* are, never of files a cleanup has deleted, unless the renderer held a frame back when the
\* epoch changed.
ProgressIsOfTheseBytes == checkpoint.progress # 0 => checkpoint.progress = part \/ crossed
=============================================================================
