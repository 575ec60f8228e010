----------------------------- MODULE ExitBarrier -----------------------------
(***************************************************************************)
(* How the application leaves (the ExitRequested handler,                  *)
(* Aria2DaemonGuard, FrontendExitFlush and ShutdownTerminalBarrier in      *)
(* lib.rs, the media registration in download.rs and the shutdown journal  *)
(* in db.rs): flush the renderer, drain the handoffs, stop the media       *)
(* runners, stop the daemon, seal the barrier, flush again, and only then  *)
(* leave.  Any of these may fail, and the exit is then taken back step by  *)
(* step.                                                                   *)
(*                                                                         *)
(* One download, of aria2 or of the media runner.  Bounds: MaxAttempts     *)
(* exit requests, MaxExitFaults failed writes, MaxAgain new downloads of   *)
(* the same row, MaxStops stops of the process.  Left out: the two reads   *)
(* of try_begin_aria2_handoff are one step.                                *)
(***************************************************************************)
EXTENDS Naturals

CONSTANTS MaxAttempts, MaxExitFaults, MaxAgain, MaxStops

ExitSteps == {"none", "flush", "handoffs", "media", "drainMedia", "daemon", "seal", "drain",
              "final", "decide", "allow", "reject", "reopen", "exited"}

VARIABLES
  guard,          \* Aria2DaemonGuard.shutdown_state
  exitAt, waking, \* the task of the exit, and the last step of a rejection
  recovery,       \* what is put right in the background after a rejection
  handoffsOpen, sealed, exiting, late, leases,   \* the handoff gate and the barrier
  daemon, carrier, bytes,                        \* aria2, who transfers, the transfer
  socket, command, runner,                       \* who may apply the completion
  registrationClosed, interrupted, redoing,      \* the coordinator; a new download saved
  observed, settled,                             \* the completion: seen in time, applied
  exitJournal, journalFailed, stored,            \* the journal, its failure mark, the row
  uiRow, uiNews, uiExit, finalFlush,             \* the renderer
  attempts, exitFaults, again, exitStops

xvars == <<guard, exitAt, waking, recovery, handoffsOpen, sealed, exiting, late, leases,
           daemon, carrier, bytes, socket, command, runner, registrationClosed, interrupted,
           redoing, observed, settled, exitJournal, journalFailed, stored, uiRow, uiNews, uiExit,
           finalFlush, attempts, exitFaults, again, exitStops>>
fences == <<guard, exitAt, waking, recovery, handoffsOpen>>
barrier == <<sealed, exiting, late, leases>>
engines == <<daemon, carrier, bytes>>
media == <<runner, registrationClosed, interrupted>>
completion == <<redoing, observed, settled, exitJournal, journalFailed>>
renderer == <<uiRow, uiNews, uiExit, finalFlush>>
bounds == <<attempts, exitFaults, again, exitStops>>

\* The types of all but the bounds.
Shapes ==
  /\ guard \in {"open", "closing", "allowed", "recovering"} /\ exitAt \in ExitSteps
  /\ waking \in {"no", "rejected", "recovered"} /\ recovery \in {"none", "media", "daemon"}
  /\ handoffsOpen \in BOOLEAN /\ sealed \in BOOLEAN /\ exiting \in BOOLEAN /\ late \in BOOLEAN
  /\ leases \subseteq {"socket", "runner"}
  /\ daemon \in BOOLEAN /\ carrier \in {"aria2", "media"} /\ bytes \in {"running", "done"}
  /\ socket \in {"away", "connecting", "listening", "applying"}
  /\ command \in {"none", "found", "applying"}
  /\ runner \in {"none", "starting", "running", "cancelled", "rejected", "recorded", "finished"}
  /\ registrationClosed \in BOOLEAN
  /\ interrupted \in {"no", "marked", "carried", "told"}
  /\ observed \in BOOLEAN /\ settled \in BOOLEAN /\ redoing \in BOOLEAN
  /\ exitJournal \in BOOLEAN /\ journalFailed \in BOOLEAN
  /\ stored \in {"active", "completed"} /\ uiRow \in {"active", "completed"}
  /\ uiNews \in BOOLEAN /\ uiExit \in {"none", "preparing", "acked", "refused"}
  /\ finalFlush \in {"none", "asked", "ok", "failed"}

\* Every variable keeps its type.
TypeOK ==
  /\ Shapes
  /\ attempts \in 0 .. MaxAttempts /\ exitFaults \in 0 .. MaxExitFaults
  /\ again \in 0 .. MaxAgain /\ exitStops \in 0 .. MaxStops

Init ==
  /\ guard = "open" /\ exitAt = "none" /\ waking = "no" /\ recovery = "none"
  /\ handoffsOpen = TRUE /\ sealed = FALSE /\ exiting = FALSE /\ late = FALSE
  /\ leases = {} /\ daemon = TRUE /\ socket = "away" /\ command = "none"
  /\ runner = "none" /\ registrationClosed = FALSE /\ redoing = FALSE
  /\ journalFailed = FALSE /\ uiNews = FALSE /\ uiExit = "none" /\ finalFlush = "none"
  /\ carrier \in {"aria2", "media"} /\ bytes = "running"
  /\ interrupted = IF carrier = "media" THEN "told" ELSE "no"
  /\ observed = FALSE /\ settled = FALSE /\ exitJournal = FALSE
  /\ stored = "active" /\ uiRow = "active"
  /\ attempts = 0 /\ exitFaults = 0 /\ again = 0 /\ exitStops = 0

-----------------------------------------------------------------------------
(* The completion                                                          *)

Running == exitAt # "exited"
ShuttingDown == guard # "open"
Fault == exitFaults < MaxExitFaults /\ exitFaults' = exitFaults + 1

\* A media process that was cancelled does not finish.
Finish ==
  /\ Running /\ bytes = "running" /\ ~settled /\ ~redoing
  /\ IF carrier = "aria2" THEN daemon ELSE runner = "running"
  /\ bytes' = "done"
  /\ UNCHANGED <<fences, barrier, daemon, carrier, socket, command, media, completion,
                 stored, renderer, bounds>>

\* persist_shutdown_completion_journal; a failed write leaves a mark.
Journal ==
  IF ShuttingDown
  THEN /\ observed' = TRUE
       /\ \/ exitJournal' = TRUE /\ UNCHANGED <<journalFailed, exitFaults>>
          \/ Fault /\ journalFailed' = TRUE /\ UNCHANGED exitJournal
  ELSE UNCHANGED <<observed, exitJournal, journalFailed, exitFaults>>

\* ShutdownTerminalBarrier::enter.
MayEnter == ~exiting /\ ~sealed
Refused == sealed /\ ~exiting

\* The socket's lease covers the connection and the messages still in its buffer.
ReaderConnects ==
  /\ Running /\ socket = "away" /\ daemon
  /\ socket' = "connecting"
  /\ UNCHANGED <<fences, barrier, engines, command, media, completion, stored, renderer,
                 bounds>>

ReaderEnters ==
  /\ Running /\ socket = "connecting"
  /\ \/ MayEnter /\ leases' = leases \cup {"socket"} /\ socket' = "listening"
        /\ UNCHANGED late
     \/ Refused /\ ~late /\ late' = TRUE /\ UNCHANGED <<leases, socket>>
  /\ UNCHANGED <<fences, sealed, exiting, engines, command, media, completion, stored,
                 renderer, bounds>>

\* The event finds its GID and takes the control lock.
ReaderTakes ==
  /\ Running /\ socket = "listening" /\ carrier = "aria2"
  /\ bytes = "done" /\ ~settled /\ command = "none"
  /\ socket' = "applying" /\ Journal
  /\ UNCHANGED <<fences, barrier, engines, command, media, redoing, settled, stored, renderer,
                 attempts, again, exitStops>>

ReaderLeaves ==
  /\ Running /\ socket = "listening" /\ ~daemon
  /\ socket' = "away" /\ leases' = leases \ {"socket"}
  /\ UNCHANGED <<fences, sealed, exiting, late, engines, command, media, completion,
                 stored, renderer, bounds>>

\* A pause that finds the GID complete applies the completion under its handoff.
CanBeginHandoff == ~ShuttingDown /\ handoffsOpen

CommandFinds ==
  /\ Running /\ command = "none" /\ CanBeginHandoff
  /\ carrier = "aria2" /\ daemon /\ bytes = "done" /\ ~settled /\ socket # "applying"
  /\ command' = "found"
  /\ UNCHANGED <<fences, barrier, engines, socket, media, completion, stored, renderer,
                 bounds>>

\* Its lease of the barrier is dropped before the completion is applied.  The gate is
\* drained before the barrier is sealed: this never meets a sealed one.
CommandTakes ==
  /\ Running /\ command = "found" /\ MayEnter
  /\ command' = "applying" /\ Journal
  /\ UNCHANGED <<fences, barrier, engines, socket, media, redoing, settled, stored,
                 renderer, attempts, again, exitStops>>

\* The GID and the registration go, and the renderer is told.
Settle ==
  /\ Running
  /\ \/ socket = "applying" /\ socket' = "listening" /\ UNCHANGED command
     \/ command = "applying" /\ command' = "none" /\ UNCHANGED socket
  /\ settled' = TRUE /\ uiNews' = TRUE
  /\ UNCHANGED <<fences, barrier, engines, media, redoing, observed, exitJournal, journalFailed,
                 stored, uiRow, uiExit, finalFlush, bounds>>

\* A media download is dispatched under a handoff, and its runner takes a lease.
StartRunner ==
  /\ Running /\ carrier = "media" /\ runner = "none" /\ interrupted = "told"
  /\ uiExit = "none" /\ CanBeginHandoff /\ MayEnter
  /\ runner' = "starting" /\ interrupted' = "no"
  /\ leases' = leases \cup {"runner"}
  /\ UNCHANGED <<fences, sealed, exiting, late, engines, socket, command,
                 registrationClosed, completion, stored, renderer, bounds>>

\* A registration refused by the shutdown is remembered.
RegisterRunner ==
  /\ Running /\ runner = "starting"
  /\ IF registrationClosed
     THEN runner' = "rejected" /\ interrupted' = "marked"
     ELSE runner' = "running" /\ UNCHANGED interrupted
  /\ UNCHANGED <<fences, barrier, engines, socket, command, registrationClosed, completion,
                 stored, renderer, bounds>>

\* The outcome is journalled before the coordinator hears of it.
RecordOutcome ==
  /\ Running /\ runner = "running" /\ bytes = "done"
  /\ runner' = "recorded" /\ Journal
  /\ UNCHANGED <<fences, barrier, engines, socket, command, registrationClosed, interrupted,
                 redoing, settled, stored, renderer, attempts, again, exitStops>>

\* The shutdown cancels what was registered when it closed the registration.
RunnerCancelled ==
  /\ Running /\ runner = "running" /\ registrationClosed /\ bytes = "running"
  /\ runner' = "cancelled"
  /\ UNCHANGED <<fences, barrier, engines, socket, command, registrationClosed, interrupted,
                 completion, stored, renderer, bounds>>

MarkForgotten(wasCancelled) ==
  IF interrupted \in {"carried", "told"} THEN interrupted ELSE "no"

\* finish_media_with_shutdown_outcome: a runner that finished in good order loses the
\* mark that the shutdown gave it.
MarkAfter(wasCancelled) ==
  IF interrupted \in {"carried", "told"} THEN interrupted
  ELSE IF wasCancelled /\ registrationClosed THEN "marked" ELSE "no"

RunnerAcknowledged ==
  /\ Running /\ runner \in {"cancelled", "rejected", "recorded"}
  /\ IF runner = "recorded"
     THEN runner' = "finished" /\ interrupted' = MarkAfter(FALSE) /\ UNCHANGED leases
     ELSE runner' = "none" /\ interrupted' = MarkAfter(TRUE) /\ leases' = leases \ {"runner"}
  /\ UNCHANGED <<fences, sealed, exiting, late, engines, socket, command,
                 registrationClosed, completion, stored, renderer, bounds>>

FinishRunner ==
  /\ Running /\ runner = "finished"
  /\ runner' = "none" /\ leases' = leases \ {"runner"} /\ Journal
  /\ settled' = TRUE /\ uiNews' = TRUE
  /\ UNCHANGED <<fences, sealed, exiting, late, engines, socket, command,
                 registrationClosed, interrupted, redoing, stored, uiRow, uiExit, finalFlush,
                 attempts, again, exitStops>>

-----------------------------------------------------------------------------
(* The renderer                                                            *)

Deliver ==
  /\ Running /\ uiNews /\ uiNews' = FALSE /\ uiRow' = "completed"
  /\ UNCHANGED <<fences, barrier, engines, socket, command, media, completion, stored,
                 uiExit, finalFlush, bounds>>

\* Persistence ends with the final flush.
Save ==
  /\ Running /\ finalFlush # "ok" /\ stored # uiRow
  /\ stored' = uiRow
  /\ UNCHANGED <<fences, barrier, engines, socket, command, media, completion, renderer,
                 bounds>>

\* A new download of the same row: the file goes and the row is saved before the enqueue,
\* whose commit retires the journal of the row's last lifecycle.
Redownload ==
  /\ Running /\ again < MaxAgain /\ again' = again + 1
  /\ settled /\ ~uiNews /\ uiExit = "none" /\ CanBeginHandoff
  /\ redoing' = TRUE /\ observed' = FALSE
  /\ bytes' = "running" /\ uiRow' = "active" /\ stored' = "active"
  /\ UNCHANGED <<fences, barrier, daemon, carrier, socket, command, media, settled,
                 exitJournal, journalFailed, uiNews, uiExit, finalFlush, attempts,
                 exitFaults, exitStops>>

\* clear_shutdown_completion_journal.
RetireNothing == UNCHANGED <<exitJournal, journalFailed>>
Retire == exitJournal' = FALSE /\ journalFailed' = FALSE

CommitRedownload ==
  /\ Running /\ redoing /\ ~ShuttingDown
  /\ redoing' = FALSE /\ Retire
  /\ settled' = FALSE
  /\ interrupted' = IF carrier = "media" THEN "told" ELSE "no"
  /\ UNCHANGED <<fences, barrier, engines, socket, command, runner, registrationClosed,
                 observed, stored, renderer, bounds>>

\* The first flush writes the row and is acknowledged, or is refused.
UiFlush ==
  /\ Running /\ uiExit = "preparing" /\ ~redoing
  /\ \/ stored' = uiRow /\ uiExit' = "acked" /\ UNCHANGED exitFaults
     \/ Fault /\ uiExit' = "refused" /\ UNCHANGED stored
  /\ UNCHANGED <<fences, barrier, engines, socket, command, media, completion, uiRow,
                 uiNews, finalFlush, attempts, again, exitStops>>

\* The events before the request for the final flush are delivered before it.
UiFinalFlush ==
  /\ Running /\ finalFlush = "asked" /\ ~uiNews
  /\ \/ stored' = uiRow /\ finalFlush' = "ok" /\ UNCHANGED exitFaults
     \/ Fault /\ finalFlush' = "failed" /\ UNCHANGED stored
  /\ UNCHANGED <<fences, barrier, engines, socket, command, media, completion, uiRow,
                 uiNews, uiExit, attempts, again, exitStops>>

-----------------------------------------------------------------------------
(* The exit                                                                *)

GoTo(step) == exitAt' = step

\* The renderer ignores a request that overtakes the end of an earlier one.
ExitRequested ==
  /\ guard = "open" /\ exitAt = "none" /\ attempts < MaxAttempts
  /\ attempts' = attempts + 1
  /\ guard' = "closing" /\ handoffsOpen' = FALSE /\ GoTo("flush")
  /\ uiExit' = IF uiExit = "none" THEN "preparing" ELSE uiExit
  /\ UNCHANGED <<waking, recovery, barrier, engines, socket, command, media, completion,
                 stored, uiRow, uiNews, finalFlush, exitFaults, again, exitStops>>

\* An acknowledgement of an earlier request is stale.
Flushed == uiExit = "acked" /\ waking # "rejected"

\* wait_for_aria2_handoffs: the mutations that were let in before the gate closed.
HandoffsUncounted == TRUE
HandoffsDrained == command = "none"

\* What the coordinator still has to see finished.
MediaStopped == runner \notin {"running", "cancelled", "recorded"}

ExitAdvances ==
  /\ \/ exitAt = "flush" /\ Flushed /\ GoTo("handoffs")
     \/ exitAt = "handoffs" /\ HandoffsDrained /\ GoTo("media")
     \/ exitAt = "drainMedia" /\ MediaStopped /\ GoTo("daemon")
     \/ exitAt = "final" /\ finalFlush \in {"ok", "failed"} /\ GoTo("decide")
  /\ UNCHANGED <<guard, waking, recovery, handoffsOpen, barrier, engines, socket, command,
                 media, completion, stored, renderer, bounds>>

\* cancel_active_media_for_shutdown.
CloseMedia ==
  /\ exitAt = "media" /\ GoTo("drainMedia")
  /\ registrationClosed' = TRUE
  /\ interrupted' = IF runner \in {"running", "recorded"} THEN "marked" ELSE interrupted
  /\ UNCHANGED <<guard, waking, recovery, handoffsOpen, barrier, engines, socket, command,
                 runner, completion, stored, renderer, bounds>>

StopDaemon ==
  /\ exitAt = "daemon" /\ GoTo("seal")
  /\ daemon' = FALSE
  /\ UNCHANGED <<guard, waking, recovery, handoffsOpen, barrier, carrier, bytes, socket,
                 command, media, completion, stored, renderer, bounds>>

Seal ==
  /\ exitAt = "seal" /\ GoTo("drain")
  /\ sealed' = TRUE
  /\ UNCHANGED <<guard, waking, recovery, handoffsOpen, exiting, late, leases, engines,
                 socket, command, media, completion, stored, renderer, bounds>>

TerminalDrained == leases = {}

AskFinalFlush ==
  /\ exitAt = "drain" /\ TerminalDrained /\ GoTo("final")
  /\ finalFlush' = "asked"
  /\ UNCHANGED <<guard, waking, recovery, handoffsOpen, barrier, engines, socket, command,
                 media, completion, stored, uiRow, uiNews, uiExit, bounds>>

\* A journal write that failed needs the row itself to be durable.
JournalSettled == journalFailed => finalFlush = "ok" /\ stored = "completed"

\* try_finalize.
FinalizationAllowed == JournalSettled /\ sealed /\ leases = {} /\ ~late

Finalize ==
  /\ exitAt = "decide" /\ FinalizationAllowed /\ GoTo("allow")
  /\ exiting' = TRUE
  /\ journalFailed' = (journalFailed /\ finalFlush # "ok")
  /\ UNCHANGED <<guard, waking, recovery, handoffsOpen, sealed, late, leases, engines, socket,
                 command, media, redoing, observed, settled, exitJournal, stored, renderer,
                 bounds>>

Leave ==
  /\ exitAt = "allow" /\ guard = "closing"
  /\ guard' = "allowed" /\ GoTo("exited")
  /\ UNCHANGED <<waking, recovery, handoffsOpen, barrier, engines, socket, command, media,
                 completion, stored, renderer, bounds>>

\* The deadline, a refusal or a failure; a stopped daemon is then started again.
Refuse ==
  /\ exitAt \in {"flush", "handoffs", "daemon", "drain", "final", "decide"}
  /\ GoTo("reject")
  /\ recovery' = IF exitAt \in {"flush", "handoffs"} THEN recovery ELSE "daemon"
  /\ UNCHANGED <<guard, waking, handoffsOpen, barrier, engines, socket, command, media,
                 completion, stored, renderer, bounds>>

ReopenBarrier == sealed' = FALSE /\ exiting' = FALSE /\ late' = FALSE

\* reopen_media_registration hands over everything it has interrupted.
ReopenMedia ==
  /\ registrationClosed' = FALSE
  /\ interrupted' = IF interrupted = "marked" THEN "carried" ELSE interrupted

Reject ==
  /\ exitAt = "reject" /\ guard = "closing" /\ GoTo("reopen")
  /\ guard' = "recovering" /\ waking' = "rejected"
  /\ ReopenMedia /\ ReopenBarrier
  /\ UNCHANGED <<recovery, handoffsOpen, leases, engines, socket, command, runner,
                 completion, stored, renderer, bounds>>

\* Without a confirmed stop the registration and the gate stay closed, and the window
\* comes back.
MediaTimesOut ==
  /\ exitAt = "drainMedia" /\ GoTo("none")
  /\ recovery' = "media" /\ ReopenBarrier /\ uiExit' = "none"
  /\ UNCHANGED <<guard, waking, handoffsOpen, leases, engines, socket, command, media,
                 completion, stored, uiRow, uiNews, finalFlush, bounds>>

RecoverMedia ==
  /\ Running /\ recovery = "media" /\ MediaStopped /\ guard = "closing"
  /\ recovery' = "none" /\ GoTo("reopen")
  /\ guard' = "recovering" /\ waking' = "recovered" /\ ReopenMedia
  /\ UNCHANGED <<handoffsOpen, barrier, engines, socket, command, runner, completion, stored,
                 renderer, bounds>>

Reopen ==
  /\ exitAt = "reopen" /\ GoTo("none")
  /\ guard' = "open"
  /\ UNCHANGED <<waking, recovery, handoffsOpen, barrier, engines, socket, command, media,
                 completion, stored, renderer, bounds>>

\* wake_after_exit_rejected, then the event: a new request may have come in between.
Wake ==
  /\ waking # "no" /\ exitAt # "reopen" /\ Running
  /\ waking' = "no" /\ handoffsOpen' = TRUE
  /\ interrupted' = IF interrupted = "carried" THEN "told" ELSE interrupted
  /\ IF waking = "rejected" THEN uiExit' = "none" /\ finalFlush' = "none"
     ELSE UNCHANGED <<uiExit, finalFlush>>
  /\ UNCHANGED <<guard, exitAt, recovery, barrier, engines, socket, command, runner,
                 registrationClosed, completion, stored, uiRow, uiNews, bounds>>

\* The daemon is stopped for good and started; a newer request supersedes this.
RecoverDaemon ==
  /\ Running /\ recovery = "daemon" /\ exitAt \in {"none", "flush"}
  /\ recovery' = "none"
  /\ daemon' = (daemon \/ guard = "open")
  /\ UNCHANGED <<guard, exitAt, waking, handoffsOpen, barrier, carrier, bytes, socket,
                 command, media, completion, stored, renderer, bounds>>

\* The process ends, by its own exit or by a crash, and starts again:
\* recover_shutdown_terminal_journal.
Restart ==
  /\ exitStops < MaxStops /\ exitStops' = exitStops + 1
  /\ guard' = "open" /\ exitAt' = "none" /\ waking' = "no" /\ recovery' = "none"
  /\ handoffsOpen' = TRUE /\ sealed' = FALSE /\ exiting' = FALSE /\ late' = FALSE
  /\ leases' = {} /\ daemon' = TRUE /\ socket' = "away" /\ command' = "none"
  /\ runner' = "none" /\ registrationClosed' = FALSE /\ redoing' = FALSE
  /\ journalFailed' = FALSE /\ uiNews' = FALSE /\ uiExit' = "none" /\ finalFlush' = "none"
  /\ stored' = IF exitJournal THEN "completed" ELSE stored
  /\ exitJournal' = FALSE
  /\ uiRow' = stored' /\ settled' = (stored' = "completed")
  /\ observed' = (observed /\ settled /\ settled')
  /\ bytes' = IF settled' THEN bytes ELSE "running"
  /\ interrupted' = IF carrier = "media" /\ ~settled' THEN "told" ELSE "no"
  /\ UNCHANGED <<carrier, attempts, exitFaults, again>>

-----------------------------------------------------------------------------
Next ==
  \/ Finish \/ ReaderConnects \/ ReaderEnters \/ ReaderTakes \/ ReaderLeaves
  \/ CommandFinds \/ CommandTakes \/ Settle
  \/ StartRunner \/ RegisterRunner \/ RunnerCancelled \/ RecordOutcome
  \/ RunnerAcknowledged \/ FinishRunner
  \/ Deliver \/ Save \/ Redownload \/ CommitRedownload \/ UiFlush \/ UiFinalFlush
  \/ ExitRequested \/ ExitAdvances \/ CloseMedia \/ StopDaemon \/ Seal \/ AskFinalFlush
  \/ Finalize \/ Leave \/ Refuse \/ Reject \/ MediaTimesOut \/ RecoverMedia \/ Reopen
  \/ Wake \/ RecoverDaemon \/ Restart

Spec == Init /\ [][Next]_xvars

-----------------------------------------------------------------------------
(* Properties                                                              *)

\* What ExitPromise calls busy, owed and kept.
Busy == socket = "applying" \/ command = "applying" \/ runner \in {"recorded", "finished"}
Owed == observed /\ settled
Kept == exitJournal \/ stored = "completed"

Promise == INSTANCE ExitPromise WITH
  alive <- Running, busy <- Busy, owed <- Owed, kept <- Kept

\* The exit keeps its promise: the process leaves only when nobody applies a completion
\* and one that was seen during the shutdown is durable, in the journal or in the row.
ExitKeepsItsPromise == Promise!Spec

\* The journal never speaks of a lifecycle that has not finished: a start would mark the
\* new download of a row complete.
JournalIsOfThisLifecycle == exitJournal /\ ~redoing => bytes = "done"

\* When the application is open again, a media download that the exit has interrupted is
\* transferred, or the renderer is told or will be told to resume it.
InterruptedIsResumed ==
  guard = "open" /\ carrier = "media" /\ runner = "none" /\ ~settled
    => interrupted \in {"carried", "told"}
==============================================================================
