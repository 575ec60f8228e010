------------------------------- MODULE MediaRun -------------------------------
(***************************************************************************)
(* One media download from its registration to its terminal state (lib.rs, *)
(* queue.rs, retry.rs): the yt-dlp process, the stream of its events, the  *)
(* fallbacks of its cookies, the retries, the pause that ends it and the   *)
(* files that are cleaned up after it.  What a runner must never do is let *)
(* go of the download while its process may still write.                   *)
(*                                                                         *)
(* yt-dlp and the shell plugin that watches it are external: the process   *)
(* exits by itself, its exit is reported later, and the stream of events   *)
(* may break, with or without the report to follow.  Reasons of failures   *)
(* are classes.  Bounds: MaxStrikes retries of a run, MaxResumes runs,     *)
(* MaxBreaks broken streams, refused kills and other faults.  Left out:    *)
(* progress (MediaProgress), shutdown (ExitBarrier), removal (RemovalJob)  *)
(* and admission (DownloadQueue).                                          *)
(***************************************************************************)
EXTENDS Naturals

CONSTANTS MaxStrikes, MaxResumes, MaxBreaks

VARIABLES
  setup,       \* the cookies the download is configured with
  step,        \* where the runner is
  strike,      \* retries so far
  cookies,     \* what this attempt uses, and the fallbacks taken
  processing,  \* this attempt has begun to merge
  reason,      \* why the attempt failed
  result,      \* what the runner returns
  proc,        \* the process of this attempt
  event,       \* what its stream has to say
  mute,        \* the exit will not be reported
  stray,       \* a process was dropped while it lived
  cancel,      \* the coordinator's signal to the runner
  pausing,     \* the command that waits for the acknowledgement
  owned,       \* the lifecycle is registered and its permit taken
  outcome,     \* the terminal outcome the runner recorded
  row,         \* what the renderer shows
  output,      \* the output file
  parts,       \* files named like artifacts of the output, ours and another download's
  attempts, runs, breaks,
  broken,      \* this run's stream broke
  unseen,      \* the process was gone and its report not yet there
  torn         \* a cleanup under a living process, or of a file that is not ours

mvars == <<setup, step, strike, cookies, processing, reason, result, proc, event, mute, stray,
           cancel, pausing, owned, outcome, row, output, parts, attempts, runs, breaks,
           broken, unseen, torn>>
attempt == <<strike, cookies, reason>>
child == <<proc, event, mute, stray>>
control == <<cancel, pausing, owned, outcome, row>>
files == <<output, parts, torn>>
counts == <<attempts, runs, breaks>>

Reasons == {"transient", "permanent", "browser", "file"}
\* Files of the directory whose names look like artifacts of the output.
Named == {"own", "foreign"}
Results == {"none", "ok", "cancelled", "failed"}

\* Every variable keeps its type.
TypeOK ==
  /\ setup \in [browser : BOOLEAN, file : BOOLEAN]
  /\ step \in {"idle", "ready", "watch", "grace", "kill", "drain", "unconfirmed", "decide",
               "clean", "wipe", "backoff", "publish", "finish", "reconcile"}
  /\ strike \in 0 .. MaxStrikes
  /\ cookies \in [use : {"browser", "file", "none"}, fell : BOOLEAN, fileFell : BOOLEAN]
  /\ processing \in BOOLEAN /\ reason \in Reasons \cup {"none", "spawn"} /\ result \in Results
  /\ proc \in {"none", "live", "zero", "nonzero", "killed"}
  /\ event \in {"none", "zero", "nonzero", "error"} /\ mute \in BOOLEAN /\ stray \in BOOLEAN
  /\ cancel \in BOOLEAN /\ pausing \in {"no", "waiting", "acked"} /\ owned \in BOOLEAN
  /\ outcome \in Results /\ row \in {"active", "retrying", "processing", "paused", "completed", "failed"}
  /\ output \in {"none", "growing", "whole"} /\ parts \subseteq Named
  /\ broken \in BOOLEAN /\ unseen \in BOOLEAN /\ torn \in BOOLEAN

\* The browser's cookies come first, and a file is then only their fallback.
FirstCookies == [use |-> IF setup.browser THEN "browser" ELSE IF setup.file THEN "file" ELSE "none",
                 fell |-> FALSE, fileFell |-> FALSE]

Init ==
  /\ setup \in [browser : BOOLEAN, file : BOOLEAN]
  /\ step = "idle" /\ strike = 0 /\ cookies = FirstCookies /\ processing = FALSE
  /\ reason = "none" /\ result = "none"
  /\ proc = "none" /\ event = "none" /\ mute = FALSE /\ stray = FALSE
  /\ cancel = FALSE /\ pausing = "no" /\ owned = FALSE /\ outcome = "none" /\ row = "paused"
  /\ output = "none" /\ parts \in {{}, {"foreign"}}
  /\ attempts = 0 /\ runs = 0 /\ breaks = 0
  /\ broken = FALSE /\ unseen = FALSE /\ torn = FALSE

-----------------------------------------------------------------------------
(* The process and the stream of its events (external)                     *)

\* It writes partial files, and merges them when it has them all.
Write ==
  /\ proc = "live"
  /\ \/ "own" \notin parts /\ output = "none"
        /\ parts' = parts \cup {"own"} /\ UNCHANGED <<output, processing, row>>
     \/ "own" \in parts /\ output = "none"
        /\ output' = "growing"
        \* The runner reads its line and shows it, unless it already drains the stream.
        /\ processing' = (processing \/ step = "watch")
        /\ row' = (IF step = "watch" THEN "processing" ELSE row)
        /\ UNCHANGED parts
  /\ UNCHANGED <<setup, step, attempt, result, child, cancel, pausing, owned, outcome, counts,
                 broken, unseen, torn>>

\* It ends, with its output or without.
Exit ==
  /\ proc = "live"
  /\ \/ output # "none"
        /\ proc' = "zero" /\ output' = "whole" /\ parts' = parts \ {"own"}
     \/ proc' = "nonzero" /\ UNCHANGED <<output, parts>>
  /\ UNCHANGED <<setup, step, attempt, processing, result, event, mute, stray, control, counts,
                 broken, unseen, torn>>

\* The monitor reports the exit once both pipes are drained.
Report ==
  /\ proc \in {"zero", "nonzero", "killed"} /\ event = "none" /\ ~mute /\ step # "idle"
  /\ event' = IF proc = "zero" THEN "zero" ELSE "nonzero"
  /\ mute' = TRUE
  /\ UNCHANGED <<setup, step, attempt, processing, result, proc, stray, control, files, counts,
                 broken, unseen>>

\* A pipe cannot be read, or the process cannot be waited for.
Break ==
  /\ breaks < MaxBreaks /\ event = "none" /\ ~mute /\ proc # "none" /\ step # "idle"
  /\ event' = "error" /\ mute' \in BOOLEAN /\ broken' = TRUE /\ breaks' = breaks + 1
  /\ UNCHANGED <<setup, step, attempt, processing, result, proc, stray, control, files, attempts,
                 runs, unseen>>

\* A dropped process is killed, and nobody waits for that.
StrayDies ==
  /\ stray
  /\ stray' = FALSE
  /\ UNCHANGED <<setup, step, attempt, processing, result, proc, event, mute, control, files,
                 counts, broken, unseen>>

-----------------------------------------------------------------------------
(* The runner                                                              *)

Fresh ==
  /\ strike' = 0 /\ cookies' = FirstCookies /\ reason' = "none" /\ result' = "none"
  /\ processing' = FALSE /\ attempts' = 0
  /\ event' = "none" /\ mute' = FALSE

Start ==
  /\ step = "idle" /\ runs < MaxResumes /\ row \in {"paused", "failed"} /\ pausing = "no"
  /\ step' = "ready" /\ runs' = runs + 1
  /\ Fresh
  /\ proc' = "none" /\ UNCHANGED stray
  /\ owned' = TRUE /\ outcome' = "none" /\ row' = "active" /\ cancel' = FALSE
  /\ broken' = stray /\ unseen' = FALSE
  /\ UNCHANGED <<setup, pausing, files, breaks>>

Return(r) == result' = r /\ step' = "publish"

Attempt ==
  /\ step = "ready"
  /\ \/ /\ cancel
        /\ Return("cancelled")
        /\ UNCHANGED <<attempt, processing, child, row, attempts, breaks>>
     \/ /\ ~cancel
        /\ step' = "watch" /\ UNCHANGED <<result, reason>>
        /\ processing' = FALSE /\ attempts' = attempts + 1
        /\ proc' = "live" /\ event' = "none" /\ mute' = FALSE
        /\ row' = IF strike > 0 THEN "active" ELSE row
        /\ UNCHANGED <<strike, cookies, stray, breaks>>
     \/ /\ ~cancel /\ breaks < MaxBreaks
        /\ Return("failed") /\ reason' = "spawn" /\ breaks' = breaks + 1
        /\ UNCHANGED <<strike, cookies, processing, child, row, attempts>>
  /\ UNCHANGED <<setup, cancel, pausing, owned, outcome, files, runs, broken, unseen>>

\* What the attempt's standard error says when it ends.
Failures == {"transient", "permanent"} \cup (IF cookies.use = "none" THEN {} ELSE {cookies.use})

\* The select takes an event of the process or the cancellation, whichever it finds.
Watch ==
  /\ step = "watch"
  /\ \/ cancel /\ step' = "grace" /\ UNCHANGED <<reason, result, event>>
     \/ event = "zero" /\ Return("ok") /\ UNCHANGED <<reason, event>>
     \/ event \in {"nonzero", "error"} /\ reason' \in Failures
        /\ step' = "decide" /\ event' = "none" /\ UNCHANGED result
  /\ UNCHANGED <<setup, strike, cookies, processing, proc, mute, stray, control, files, counts,
                 broken, unseen>>

\* A cancelled attempt that has begun to merge takes its files with it.
Stopped == IF processing THEN step' = "wipe" /\ UNCHANGED result ELSE Return("cancelled")

\* A process that is about to end gets a second to report it.
Grace ==
  /\ step = "grace"
  /\ \/ event = "zero" /\ Return("ok") /\ UNCHANGED event
     \/ event = "nonzero" /\ Stopped /\ UNCHANGED event
     \/ event \in {"error", "none"} /\ step' = "kill" /\ event' = "none" /\ UNCHANGED result
  /\ UNCHANGED <<setup, attempt, processing, proc, mute, stray, control, files, counts, broken,
                 unseen>>

\* The kill waits for the process group, so its success is evidence; its failure is none.
Kill ==
  /\ step = "kill"
  /\ \/ proc' = (IF proc = "live" THEN "killed" ELSE proc) /\ step' = "drain" /\ UNCHANGED breaks
     \/ breaks < MaxBreaks /\ breaks' = breaks + 1
        /\ step' = "unconfirmed" /\ UNCHANGED proc
  /\ UNCHANGED <<setup, attempt, processing, result, event, mute, stray, control, files, attempts,
                 runs, broken, unseen>>

\* A quarter of a second for a completion that raced the kill.
Drain ==
  /\ step = "drain"
  /\ \/ event = "zero" /\ Return("ok") /\ UNCHANGED unseen
     \/ event # "zero" /\ Stopped /\ unseen' = (unseen \/ event # "nonzero")
  /\ UNCHANGED <<setup, attempt, processing, child, control, files, counts, broken>>

\* mutant: a kill that failed is taken for one that worked
KillTrusted ==
  /\ step = "unconfirmed"
  /\ \/ event = "zero" /\ Return("ok") /\ UNCHANGED event
     \/ event # "zero" /\ Stopped /\ UNCHANGED event
  /\ UNCHANGED <<setup, attempt, processing, proc, mute, stray, control, files, counts, broken,
                 unseen>>

\* Nothing but the report of the exit ends the wait after a kill that failed.
Unconfirmed ==
  /\ step = "unconfirmed"
  /\ \/ event = "zero" /\ Return("ok") /\ UNCHANGED event
     \/ event = "nonzero" /\ Stopped /\ UNCHANGED event
     \/ event = "error" /\ event' = "none" /\ UNCHANGED <<step, result>>
  /\ UNCHANGED <<setup, attempt, processing, proc, mute, stray, control, files, counts, broken,
                 unseen>>

\* The child goes out of scope: what still lives is killed in the background.
Drop == stray' = (stray \/ proc = "live") /\ proc' = "none" /\ event' = "none" /\ mute' = FALSE

BrowserFallback == ~cookies.fell /\ cookies.use = "browser" /\ reason = "browser"
FileFallback == cookies.fileFell /\ reason = "file"
Retriable == reason = "transient" /\ strike < MaxStrikes

\* The configured file, if it can still be used, else none.
FallbackCookies ==
  {[use |-> IF usable THEN "file" ELSE "none", fell |-> TRUE, fileFell |-> usable] :
     usable \in IF setup.file THEN BOOLEAN ELSE {FALSE}}

\* Cookies that cannot be read cost no strike.
Decide ==
  /\ step = "decide"
  /\ \/ /\ BrowserFallback
        /\ cookies' \in FallbackCookies
        /\ step' = "ready" /\ Drop /\ UNCHANGED row
     \/ /\ ~BrowserFallback /\ FileFallback
        /\ cookies' = [cookies EXCEPT !.use = "none", !.fileFell = FALSE]
        /\ step' = "ready" /\ Drop /\ UNCHANGED row
     \/ /\ ~BrowserFallback /\ ~FileFallback
        /\ step' = IF Retriable THEN "backoff" ELSE "clean"
        /\ row' = IF Retriable THEN "retrying" ELSE row
        /\ UNCHANGED <<cookies, child>>
  /\ UNCHANGED <<setup, strike, processing, reason, result, cancel, pausing, owned, outcome,
                 files, counts, broken, unseen>>

\* The wait before a retry ends with its time or with the cancellation.
Waited == strike' = strike + 1 /\ step' = "ready" /\ UNCHANGED result
Aborted == cancel /\ Return("cancelled") /\ UNCHANGED strike

Backoff ==
  /\ step = "backoff"
  /\ Waited \/ Aborted
  /\ Drop
  /\ UNCHANGED <<setup, cookies, processing, reason, control, files, counts, broken, unseen>>

AllOurs == "foreign" \notin parts

\* Nothing goes unless every file that would go is ours; then the output, if it goes too,
\* and the partial files, each as far as the system lets it.
Delete(primary) ==
  /\ \/ ~AllOurs /\ UNCHANGED <<output, parts, breaks>>
     \/ /\ AllOurs
        /\ output' = IF primary THEN "none" ELSE output
        /\ parts' = {} /\ UNCHANGED breaks
     \/ /\ AllOurs /\ breaks < MaxBreaks /\ breaks' = breaks + 1
        /\ \/ output' = (IF primary THEN "none" ELSE output) /\ UNCHANGED parts
           \/ parts' = {} /\ UNCHANGED output
  /\ torn' = (torn \/ (proc = "live" /\ ~broken) \/ "foreign" \in parts \ parts')

\* After a failure for good: the partial files only.
Clean ==
  /\ step = "clean"
  /\ Delete(FALSE)
  /\ Return("failed") /\ Drop
  /\ UNCHANGED <<setup, attempt, processing, control, attempts, runs, broken, unseen>>

\* After a cancelled merge: the output too.
Wipe ==
  /\ step = "wipe"
  /\ Delete(TRUE)
  /\ Return("cancelled")
  /\ UNCHANGED <<setup, attempt, processing, child, control, attempts, runs, broken, unseen>>

\* The outcome is recorded under the control lock, before the coordinator hears of the end.
Publish ==
  /\ step = "publish"
  /\ outcome' = IF owned THEN result ELSE outcome
  /\ step' = "finish"
  /\ UNCHANGED <<setup, attempt, processing, result, child, cancel, pausing, owned, row, files,
                 counts, broken, unseen>>

Finish ==
  /\ step = "finish"
  /\ step' = "reconcile"
  /\ pausing' = IF pausing = "waiting" THEN "acked" ELSE pausing
  /\ UNCHANGED <<setup, attempt, processing, result, child, cancel, owned, outcome, row, files,
                 counts, broken, unseen>>

\* The terminal state is shown unless the lifecycle was released by a pause; what the runner
\* knew is gone with it.
Reconcile ==
  /\ step = "reconcile"
  /\ row' = IF ~owned \/ result = "cancelled" THEN row
            ELSE IF result = "ok" THEN "completed" ELSE "failed"
  /\ owned' = FALSE
  /\ step' = "idle" /\ Fresh /\ UNCHANGED <<proc, stray>>
  /\ cancel' = FALSE
  /\ UNCHANGED <<setup, pausing, outcome, files, runs, breaks, broken, unseen>>

-----------------------------------------------------------------------------
(* The pause                                                               *)

\* A runner the coordinator has is cancelled and waited for; none is left to wait for once
\* it has finished.
Pause ==
  /\ owned /\ pausing = "no"
  /\ \/ step # "reconcile" /\ cancel' = TRUE /\ pausing' = "waiting"
     \/ step = "reconcile" /\ pausing' = "acked" /\ UNCHANGED cancel
  /\ UNCHANGED <<setup, step, attempt, processing, result, child, owned, outcome, row, files,
                 counts, broken, unseen>>

\* With the control lock again: a terminal result stands, a cancelled run is paused.
FinishPause ==
  /\ pausing = "acked"
  /\ pausing' = "no"
  /\ row' = IF outcome = "cancelled" THEN "paused" ELSE row
  /\ owned' = (owned /\ outcome \in {"ok", "failed"})
  /\ UNCHANGED <<setup, step, attempt, processing, result, child, cancel, outcome, files, counts,
                 broken, unseen>>

Next ==
  \/ Write \/ Exit \/ Report \/ Break \/ StrayDies
  \/ Start \/ Attempt \/ Watch \/ Grace \/ Kill \/ Drain \/ Unconfirmed
  \/ Decide \/ Backoff \/ Clean \/ Wipe \/ Publish \/ Finish \/ Reconcile
  \/ Pause \/ FinishPause

Spec == Init /\ [][Next]_mvars

-----------------------------------------------------------------------------
(* Properties                                                              *)

\* A process lives only while its download is owned and its runner at work, and none is left
\* to a kill nobody waits for unless the stream of its events broke
\* (terminate_and_wait_for_media_after_cancel).
ProcessIsWatched ==
  /\ proc = "live" => owned /\ step \notin {"idle", "ready", "publish", "finish", "reconcile"}
  /\ stray => broken

\* A download whose process ended well is completed with its whole output, even if it was
\* cancelled meanwhile, unless the report came too late or the stream broke
\* (start_media_download_internal).
SuccessIsKept ==
  step = "idle" =>
    /\ row = "completed" => output = "whole"
    /\ (proc = "zero" /\ ~unseen /\ ~broken) => row = "completed"

\* A download fails for good only over what a retry cannot mend or when no retry is left,
\* and it is tried no more often than its retries and its two fallbacks allow
\* (retry.rs: a brief network drop never fails a download at once).
RetriesAreSpent ==
  /\ (result = "failed" /\ reason = "transient") => strike = MaxStrikes
  /\ (result = "failed" /\ reason = "browser") => cookies.fell
  /\ attempts <= MaxStrikes + 3

\* Nothing of the download is deleted under its process, unless the stream broke, and nothing
\* of another download at all
\* (cleanup_media_artifacts_locked).
CleanupIsSafe == ~torn

\* When nobody runs the download and no pause is under way it shows a state that says so
\* (pause_download, finish_runner).
PauseIsShown == (step = "idle" /\ pausing = "no" /\ runs > 0) => row \in {"paused", "completed", "failed"}
=============================================================================
