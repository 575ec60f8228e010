----------------------------- MODULE RemovalJob -----------------------------
(***************************************************************************)
(* The durable removal of a download (src-tauri/src/removal_jobs.rs and    *)
(* remove_download_inner in lib.rs): the renderer saves its rows and       *)
(* submits a job; a worker decides whether the payload was complete, stops *)
(* the transfer, fences the files with a manifest, removes them and drops  *)
(* the row.  The job, the manifest and the row survive a stop of the       *)
(* process, and a failed job is retried.                                   *)
(*                                                                         *)
(* One download.  An unfinished payload is removed for good, a complete    *)
(* one goes to the Trash.  Bounds: MaxStops stops of the process,          *)
(* MaxJobFaults failing steps.  Left out: a file that somebody else puts   *)
(* at an owned path in the middle of a cleanup, after the manifest was     *)
(* compared.                                                               *)
(***************************************************************************)
EXTENDS Naturals

CONSTANTS
  LateEvents,    \* a completion may be on its way to the renderer when it submits
  MaxStops, MaxJobFaults

Assets == {"payload", "sidecar", "folder", "stray"}   \* stray: another file in the folder
Contents == {"absent", "own", "foreign"}
WorkerSteps == {"idle", "classify", "stop", "drain", "own", "fence", "payload", "sidecar",
                "folder", "commit"}

VARIABLES
  kind,          \* who transfers: aria2 or the media runner
  claim,         \* whom the ownership registry names for the paths
  deleteAssets,  \* the user asked for the files too
  row,           \* the row in the database
  job,           \* the phase of the job in the database
  manifest,      \* the files the first cleanup found, and whether it has been written
  asset,         \* what is on the disk
  gone,          \* what the cleanup has removed, and how (history)
  transfer, complete, outcome,   \* the native side, and whether it is known to aria2, to
                                 \* the runner or to the row that every byte is there
  event, view, saving, request,  \* the renderer: event on its way, row, snapshot, dialog
  remover, permanent,            \* the worker
  jobStops, jobFaults

rvars == <<kind, claim, deleteAssets, row, job, manifest, asset, gone, transfer, complete,
           outcome, event, view, saving, request, remover, permanent, jobStops,
           jobFaults>>
chosen == <<kind, claim, deleteAssets>>
renderer == <<event, view, saving, request>>
native == <<transfer, complete, outcome>>
files == <<manifest, asset, gone>>

Statuses == {"unfinished", "completed"}

\* The types of all but the bounds.
Shapes ==
  /\ kind \in {"aria2", "media"} /\ claim \in {"own", "none", "other"}
  /\ deleteAssets \in BOOLEAN
  /\ row \in Statuses \cup {"none"}
  /\ job \in {"none", "pending", "running", "failed", "completed"}
  /\ manifest \in [written : BOOLEAN, was : [Assets -> Contents]]
  /\ asset \in [Assets -> Contents]
  /\ gone \subseteq {"trashed", "deleted", "foreign"}
  /\ transfer \in {"running", "finished", "recorded", "settled", "stopped"}
  /\ complete \in BOOLEAN /\ outcome \in BOOLEAN
  /\ event \in BOOLEAN
  /\ view \in Statuses /\ saving \in Statuses \cup {"none"}
  /\ request \in {"none", "flushing", "flushed", "submitted"}
  /\ remover \in WorkerSteps /\ permanent \in BOOLEAN

\* Every variable keeps its type.
TypeOK == Shapes /\ jobStops \in 0 .. MaxStops /\ jobFaults \in 0 .. MaxJobFaults

\* A download without an ownership record was never dispatched.
Init ==
  /\ kind \in {"aria2", "media"} /\ claim \in {"own", "none", "other"}
  /\ deleteAssets \in BOOLEAN
  /\ row = "unfinished" /\ view = "unfinished"
  /\ job = "none"
  /\ \/ claim = "own" /\ transfer = "running"
        /\ asset = [a \in Assets |-> IF a = "stray" THEN "absent" ELSE "own"]
     \/ claim # "own" /\ transfer = "stopped"
        /\ \E c \in {"absent", "foreign"} :
             asset = [a \in Assets |-> IF a = "payload" THEN c ELSE "absent"]
  /\ manifest = [written |-> FALSE, was |-> asset]
  /\ gone = {}
  /\ complete = FALSE /\ outcome = FALSE
  /\ event = FALSE /\ saving = "none" /\ request = "none"
  /\ remover = "idle" /\ permanent = FALSE
  /\ jobStops = 0 /\ jobFaults = 0

-----------------------------------------------------------------------------
(* The transfer                                                            *)

\* The worker holds the control lock of the id but while a media runner drains.
ControlFree == remover \in {"idle", "drain"}
RemovalRequested == job # "none"

Fault == jobFaults < MaxJobFaults /\ jobFaults' = jobFaults + 1

\* The last byte is written: tellStatus knows, the program does not yet.
Finish ==
  /\ transfer = "running"
  /\ transfer' = "finished" /\ complete' = TRUE
  /\ UNCHANGED <<chosen, row, job, files, outcome, renderer, remover, permanent,
                 jobStops, jobFaults>>

\* run_media publishes its outcome before the coordinator acknowledges, and makes the
\* completion durable when a removal waits; a failed write is only logged.
RecordOutcome ==
  /\ kind = "media" /\ transfer = "finished" /\ ControlFree
  /\ transfer' = "recorded" /\ outcome' = TRUE
  /\ IF RemovalRequested
     THEN \/ row' = "completed" /\ UNCHANGED jobFaults
          \/ Fault /\ UNCHANGED row
     ELSE UNCHANGED <<row, jobFaults>>
  /\ UNCHANGED <<chosen, job, files, complete, renderer, remover, permanent, jobStops>>

\* The completion is applied: the GID or the registration goes and the renderer is told.
\* For aria2 a failed write leaves everything as it was.
Settle ==
  /\ transfer = IF kind = "media" THEN "recorded" ELSE "finished"
  /\ ControlFree
  /\ transfer' = "settled" /\ event' = TRUE
  /\ row' = IF RemovalRequested /\ row # "none" THEN "completed" ELSE row
  /\ UNCHANGED <<chosen, job, files, complete, outcome, view, saving, request, remover,
                 permanent, jobStops, jobFaults>>

-----------------------------------------------------------------------------
(* The renderer                                                            *)

Deliver ==
  /\ event
  /\ event' = FALSE /\ view' = "completed"
  /\ UNCHANGED <<chosen, row, job, files, native, saving, request, remover, permanent,
                 jobStops, jobFaults>>

Save ==
  /\ saving = "none" /\ view # row
  /\ saving' = view
  /\ UNCHANGED <<chosen, row, job, files, native, event, view, request, remover, permanent,
                 jobStops, jobFaults>>

Resurrects == TRUE                                 \* mutant: snapshots outrank the job
\* replace_downloads_tx neither deletes nor inserts the row of an id with a job.
Saves == job = "none"

Land ==
  /\ saving # "none"
  /\ row' = IF Saves THEN saving ELSE row
  /\ saving' = "none"
  /\ UNCHANGED <<chosen, job, files, native, event, view, request, remover, permanent,
                 jobStops, jobFaults>>

Ask ==
  /\ request = "none" /\ job = "none"
  /\ request' = "flushing"
  /\ UNCHANGED <<chosen, row, job, files, native, event, view, saving, remover, permanent,
                 jobStops, jobFaults>>

\* flushDownloadPersistence returns when the rows it shows are the committed ones.
Flushed ==
  /\ request = "flushing" /\ saving = "none" /\ view = row
  /\ request' = "flushed"
  /\ UNCHANGED <<chosen, row, job, files, native, event, view, saving, remover, permanent,
                 jobStops, jobFaults>>

\* submit_download_removals
Submit ==
  /\ request = "flushed" /\ ControlFree
  /\ LateEvents \/ transfer \notin {"recorded", "settled"} \/ row = "completed"
  /\ request' = "submitted"
  /\ job' = "pending"
  /\ UNCHANGED <<chosen, row, files, native, event, view, saving, remover, permanent,
                 jobStops, jobFaults>>

\* retry_download_removal
Retry ==
  /\ job = "failed"
  /\ job' = "pending"
  /\ UNCHANGED <<chosen, row, files, native, renderer, remover, permanent, jobStops,
                 jobFaults>>

-----------------------------------------------------------------------------
(* The worker: run and remove_download_inner                               *)

Pick ==
  /\ remover = "idle" /\ ControlFree
  /\ job \in {"pending", "running"}
  /\ job' = "running" /\ remover' = "classify"
  /\ UNCHANGED <<chosen, row, files, native, renderer, permanent, jobStops, jobFaults>>

\* A step that fails leaves the row and the ownership, for a retry.
FailAt(step) ==
  /\ remover = step
  /\ job' = "failed" /\ remover' = "idle"
  /\ UNCHANGED <<chosen, row, files, native, renderer, permanent, jobStops>>

Broken ==
  /\ Fault
  /\ \E step \in WorkerSteps \ {"idle", "drain", "own", "commit"} : FailAt(step)

GidMapped == kind = "aria2" /\ transfer \in {"running", "finished"}

\* The decision is taken from the durable row and, while there is a GID, from aria2.
Classify ==
  /\ remover = "classify"
  /\ row' = IF deleteAssets /\ GidMapped /\ complete THEN "completed" ELSE row
  /\ permanent' = (deleteAssets /\ row = "unfinished" /\ ~(GidMapped /\ complete))
  /\ remover' = "stop"
  /\ UNCHANGED <<chosen, job, files, native, renderer, jobStops, jobFaults>>

BytesUnasked == FALSE                              \* mutant: no second question
\* removal_payload_completed after aria2 has stopped; a purged result counts as complete.
BytesComplete == complete

StopAria2 ==
  /\ remover = "stop" /\ GidMapped
  /\ \E done \in {BytesComplete, TRUE} :
       /\ permanent' = (permanent /\ ~done)
       /\ row' = IF permanent /\ done THEN "completed" ELSE row
  /\ transfer' = "stopped"
  /\ remover' = "own"
  /\ UNCHANGED <<chosen, job, files, complete, outcome, renderer, jobStops, jobFaults>>

MediaActive == kind = "media" /\ transfer \in {"running", "finished", "recorded"}

\* cancel_media_and_wait_for_finish gives the lock up.
CancelMedia ==
  /\ remover = "stop" /\ MediaActive
  /\ remover' = "drain"
  /\ UNCHANGED <<chosen, row, job, files, native, renderer, permanent, jobStops, jobFaults>>

MediaCancelled ==
  /\ remover = "drain" /\ transfer = "running"
  /\ transfer' = "stopped"
  /\ UNCHANGED <<chosen, row, job, files, complete, outcome, renderer, remover,
                 permanent, jobStops, jobFaults>>

\* The outcome of the run that was cancelled decides once more; its registration goes, so
\* that a late finish_runner is stale.
MediaDrained ==
  /\ remover = "drain" /\ transfer \in {"stopped", "recorded", "settled"}
  /\ permanent' = (permanent /\ ~outcome)
  /\ transfer' = IF transfer = "recorded" THEN "stopped" ELSE transfer
  /\ remover' = "own"
  /\ UNCHANGED <<chosen, row, job, files, complete, outcome, renderer, jobStops,
                 jobFaults>>

NothingToStop ==
  /\ remover = "stop" /\ ~GidMapped /\ ~MediaActive
  /\ remover' = "own"
  /\ UNCHANGED <<chosen, row, job, files, native, renderer, permanent, jobStops, jobFaults>>

Nothing == \A a \in Assets : asset[a] = "absent"

\* Files without a record stay: the removal is a no-op where nothing is there, and fails
\* otherwise, as it does for the files of another download.
CheckOwner ==
  /\ remover = "own"
  /\ ~deleteAssets \/ claim = "own" \/ (claim = "none" /\ Nothing)
  /\ remover' = "fence"
  /\ UNCHANGED <<chosen, row, job, files, native, renderer, permanent, jobStops, jobFaults>>

NotOwner ==
  /\ deleteAssets /\ (claim = "other" \/ (claim = "none" /\ ~Nothing))
  /\ FailAt("own")
  /\ UNCHANGED jobFaults

Cleans == deleteAssets /\ claim = "own"

Refenced == TRUE                                   \* mutant: a retry takes a new manifest
\* Missing entries are expected after an interrupted cleanup, others are not.
Authorised ==
  ~manifest.written \/ \A a \in Assets : asset[a] \in {"absent", manifest.was[a]}

\* fence_assets
Fence ==
  /\ remover = "fence"
  /\ ~Cleans \/ Authorised
  /\ manifest' = IF manifest.written \/ ~Cleans THEN manifest
                 ELSE [written |-> TRUE, was |-> asset]
  /\ remover' = IF Cleans THEN "payload" ELSE "commit"
  /\ UNCHANGED <<chosen, row, job, asset, gone, native, renderer, permanent, jobStops,
                 jobFaults>>

NotAuthorised == Cleans /\ ~Authorised /\ FailAt("fence") /\ UNCHANGED jobFaults

How(a) ==
  IF asset[a] = "foreign" THEN {"foreign"}
  ELSE IF a = "payload" /\ asset[a] = "own"
       THEN {IF permanent THEN "deleted" ELSE "trashed"} ELSE {}

Remove(a, next) ==
  /\ remover = a
  /\ asset' = [asset EXCEPT ![a] = "absent"]
  /\ gone' = gone \cup How(a)
  /\ remover' = next
  /\ UNCHANGED <<chosen, row, job, manifest, native, renderer, permanent, jobStops, jobFaults>>

RemovePayload == Remove("payload", "sidecar")
RemoveSidecars == Remove("sidecar", "folder")
RemoveFolder == asset["stray"] = "absent" /\ Remove("folder", "commit")
\* A torrent's folder with other files in it is kept, and that is a success.
KeepFolder ==
  /\ remover = "folder" /\ asset["stray"] # "absent"
  /\ remover' = "commit"
  /\ UNCHANGED <<chosen, row, job, files, native, renderer, permanent, jobStops, jobFaults>>

Commit ==
  /\ remover = "commit"
  /\ row' = "none" /\ job' = "completed"
  /\ remover' = "idle"
  /\ UNCHANGED <<chosen, files, native, renderer, permanent, jobStops, jobFaults>>

\* The transaction fails: the worker stops and the job is found running later.
CommitFails ==
  /\ remover = "commit" /\ Fault
  /\ remover' = "idle"
  /\ UNCHANGED <<chosen, row, job, files, native, renderer, permanent, jobStops>>

-----------------------------------------------------------------------------
(* The world around                                                        *)

\* Somebody writes to a path the cleanup has freed, or into the folder.
Write(a) ==
  /\ manifest.written
  /\ remover \notin {"payload", "sidecar", "folder"} \/ a = "stray"
  /\ asset[a] # "foreign" /\ a # "folder"
  /\ asset' = [asset EXCEPT ![a] = "foreign"]
  /\ UNCHANGED <<chosen, row, job, manifest, gone, native, renderer, remover, permanent,
                 jobStops, jobFaults>>

\* The process stops; the renderer loads the rows at the next start, and the transfer of
\* an id with a job is not resumed.  A completion that only the process knew is forgotten.
StopProcess ==
  /\ jobStops < MaxStops /\ job # "none"
  /\ jobStops' = jobStops + 1
  /\ transfer' = "stopped" /\ outcome' = FALSE
  /\ complete' = (complete /\ row = "completed")
  /\ event' = FALSE /\ saving' = "none"
  /\ view' = IF row = "none" THEN view ELSE row
  /\ remover' = "idle"
  /\ UNCHANGED <<chosen, row, job, files, request, permanent, jobFaults>>

Transfer == Finish \/ RecordOutcome \/ Settle \/ MediaCancelled
Renderer == Deliver \/ Save \/ Land \/ Ask \/ Flushed \/ Submit \/ Retry
Worker ==
  \/ Pick \/ Classify \/ StopAria2 \/ CancelMedia \/ MediaDrained \/ NothingToStop
  \/ CheckOwner \/ NotOwner \/ Fence \/ NotAuthorised \/ Broken
  \/ RemovePayload \/ RemoveSidecars \/ RemoveFolder \/ KeepFolder \/ Commit \/ CommitFails

Next == Transfer \/ Renderer \/ Worker \/ (\E a \in Assets : Write(a)) \/ StopProcess

Spec == Init /\ [][Next]_rvars

-----------------------------------------------------------------------------
(* Properties                                                              *)

\* The comment on the classification: it is taken under the lock so that no "completed/
\* unfinished decision" races "a terminal transition".  A payload that is known to be
\* complete is not removed for good, whichever step its last byte arrived between.
CompletedPayloadIsKept == "deleted" \in gone => ~complete

\* The comment on the manifest: "Newly created or replaced entries never inherit
\* authorization from the old path owner", over failures, retries and stops.
ForeignFilesSurvive == "foreign" \notin gone

\* A completed job is a tombstone: no snapshot of the renderer brings the row back, and the
\* row goes only when nothing of the download is left on the disk.
RemovedStaysRemoved ==
  /\ job = "completed" => row = "none"
  /\ row = "none" /\ Cleans => asset["payload"] # "own" /\ asset["sidecar"] # "own"
=============================================================================
