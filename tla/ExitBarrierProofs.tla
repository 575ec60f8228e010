-------------------------- MODULE ExitBarrierProofs --------------------------
(***************************************************************************)
(* ExitBarrier, for any number of exit requests, failed writes, new        *)
(* downloads and stops of the process: it implements ExitPromise, its      *)
(* journal speaks of no other lifecycle, and a media download that it      *)
(* interrupted is resumed.                                                 *)
(*                                                                         *)
(* None of these is inductive.  That the process leaves with every seen    *)
(* completion on the disk rests on the order of the exit (who may still    *)
(* apply a completion in which step), on who holds a lease, and on what    *)
(* the disk, the journal and its failure mark say together.  ExitInvariant *)
(* states that in seven parts.  Each part has one lemma, and its proof     *)
(* takes the steps of the download, the renderer and the exit in turn.     *)
(*                                                                         *)
(* DaemonSupervision, for any number of processes, exits, options and      *)
(* troubles, is proved about at the end.  That one daemon runs rests on    *)
(* where its handle is while a stop or a restart has the lock, that it is  *)
(* brought back on who is left to do so, and its option on the three       *)
(* places that a change writes: DaemonInvariant states these in ten parts. *)
(* What each step does to whoever takes part is stated first.              *)
(***************************************************************************)
EXTENDS ExitBarrier, FiniteSets, FiniteSetTheorems, TLAPS

CONSTANTS MaxProcs, MaxExits, MaxOptions, MaxTroubles   \* DaemonSupervision

VARIABLES
  procs, loads, child, spec, port, failed, holder, starter, listener, recovering, exits, exit,
  hold, carried, at, chosen, doubt, superseded, dropped, unseen, troubles

Daemon == INSTANCE DaemonSupervision

\* Only aria2's events and the commands apply a completion of an aria2 download; only a
\* media download has a runner, its lease and an interruption to be told of.
CarrierApplies ==
  /\ carrier = "aria2" => runner = "none" /\ "runner" \notin leases /\ interrupted = "no"
  /\ carrier = "media" => socket # "applying" /\ command = "none"

\* A completion is applied once: by the socket or by a command, of a transfer that is done
\* and not settled; a runner works on a transfer that is not settled.
OneApplies ==
  /\ socket = "applying" \/ command # "none" => ~settled /\ bytes = "done"
  /\ ~(socket = "applying" /\ command # "none")
  /\ runner \in {"starting", "running", "recorded", "finished"} => ~settled

\* The socket and the runner hold a lease of the barrier for as long as they work.
LeasesAreHeld ==
  /\ socket \in {"listening", "applying"} => "socket" \in leases
  /\ runner # "none" => "runner" \in leases

\* What the journal and the runner's state say of the transfer; nothing works on a row
\* that is being downloaded anew.
BytesAreTrue ==
  /\ redoing => settled /\ bytes = "running" /\ ~observed /\ runner = "none"
  /\ exitJournal /\ ~redoing => bytes = "done"
  /\ runner \in {"starting", "rejected", "cancelled"} => bytes = "running"
  /\ runner \in {"recorded", "finished"} => bytes = "done"

\* An interruption is marked as long as the registration is closed, and then handed to the
\* renderer; an unfinished media download without a runner is on its way there.
MarksAreCarried ==
  /\ interrupted # "no" => ~settled /\ (bytes = "running" \/ runner \in {"running", "recorded"})
  /\ interrupted = "marked" => registrationClosed
  /\ carrier = "media" /\ runner = "none" /\ ~settled => interrupted # "no"
  /\ runner \in {"starting", "finished"} => interrupted = "no"
  /\ runner \in {"running", "recorded"} => interrupted \in {"no", "marked"}
  /\ runner = "running" /\ registrationClosed => interrupted = "marked"
  /\ runner \in {"rejected", "cancelled"} => interrupted # "no"

AfterHandoffs == {"media", "drainMedia", "daemon", "seal", "drain", "final", "decide", "allow"}

\* What each step of the exit has left behind: no command is in flight after the handoffs,
\* no runner that could still record an outcome after the media, and nobody holds a lease
\* after the barrier has drained.
ExitIsOrdered ==
  /\ guard = "open" => exitAt = "none" /\ ~registrationClosed
  /\ exitAt \in {"flush", "handoffs", "reopen"} => ~registrationClosed
  /\ exitAt \in {"drainMedia", "daemon", "seal"} => registrationClosed
  /\ exitAt \in AfterHandoffs => command = "none"
  /\ exitAt \in AfterHandoffs \cup {"reject"} => recovery # "media"
  /\ recovery = "media" => registrationClosed /\ ~sealed
  /\ exitAt \in {"drain", "final", "decide", "allow"} => sealed
  /\ sealed => registrationClosed
  /\ sealed \/ exitAt \in {"daemon", "seal"} => runner \notin {"running", "recorded"}
  /\ exitAt = "reject" /\ registrationClosed => runner \notin {"running", "recorded"}
  /\ exitAt \in {"final", "decide", "allow"} => leases = {}

\* A completion seen during the shutdown is in the journal, in the row, or its journal
\* write is known to have failed, and with such a failure the exit is not allowed; the
\* row is never ahead of the renderer.
DiskIsTold ==
  /\ stored = "completed" => uiRow = "completed"
  /\ observed => exitJournal \/ journalFailed \/ stored = "completed"
  /\ exitAt = "allow" => ~journalFailed

\* The inductive invariant.
ExitInvariant ==
  /\ Shapes
  /\ CarrierApplies /\ OneApplies /\ LeasesAreHeld /\ BytesAreTrue
  /\ MarksAreCarried /\ ExitIsOrdered /\ DiskIsTold

-----------------------------------------------------------------------------
\* The steps that bring the completion of the download.
TransferStep ==
  \/ Finish \/ ReaderConnects \/ ReaderEnters \/ ReaderTakes \/ ReaderLeaves
  \/ CommandFinds \/ CommandTakes \/ Settle
RunnerStep ==
  \/ StartRunner \/ RegisterRunner \/ RunnerCancelled \/ RecordOutcome
  \/ RunnerAcknowledged \/ FinishRunner

\* The steps of the renderer.
RendererStep ==
  Deliver \/ Save \/ Redownload \/ CommitRedownload \/ UiFlush \/ UiFinalFlush

\* The steps that lead to the exit, and those that take it back.
LeaveStep ==
  \/ ExitRequested \/ ExitAdvances \/ CloseMedia \/ StopDaemon \/ Seal \/ AskFinalFlush
  \/ Finalize \/ Leave
TakeBackStep ==
  \/ Refuse \/ Reject \/ MediaTimesOut \/ RecoverMedia \/ Reopen \/ Wake \/ RecoverDaemon

\* Next, by who takes the step.
LEMMA ExitSteppers ==
  [Next]_xvars => \/ TransferStep \/ RunnerStep \/ RendererStep \/ LeaveStep \/ TakeBackStep
                  \/ Restart \/ UNCHANGED xvars
  BY DEF Next, TransferStep, RunnerStep, RendererStep, LeaveStep, TakeBackStep

\* Every step keeps the types.
LEMMA NextShapes ==
  ASSUME ExitInvariant, [Next]_xvars PROVE Shapes'
<1> USE DEF ExitInvariant, Shapes, fences, barrier, engines, media, completion, renderer, bounds
<1>0. ASSUME Journal
      PROVE  observed' \in BOOLEAN /\ exitJournal' \in BOOLEAN /\ journalFailed' \in BOOLEAN
  BY <1>0 DEF Journal
<1>1. CASE TransferStep
  <2>1. CASE Finish
    BY <2>1 DEF Finish
  <2>2. CASE ReaderConnects
    BY <2>2 DEF ReaderConnects
  <2>3. CASE ReaderEnters
    <3>1. /\ socket' \in {"connecting", "listening"} /\ late' \in BOOLEAN
          /\ leases' \subseteq {"socket", "runner"}
      BY <2>3 DEF ReaderEnters
    <3> QED
      BY <2>3, <3>1 DEF ReaderEnters
  <2>4. CASE ReaderTakes
    BY <1>0, <2>4 DEF ReaderTakes
  <2>5. CASE ReaderLeaves
    BY <2>5 DEF ReaderLeaves
  <2>6. CASE CommandFinds
    BY <2>6 DEF CommandFinds
  <2>7. CASE CommandTakes
    BY <1>0, <2>7 DEF CommandTakes
  <2>8. CASE Settle
    BY <2>8 DEF Settle
  <2> QED
    BY <1>1, <2>1, <2>2, <2>3, <2>4, <2>5, <2>6, <2>7, <2>8 DEF TransferStep
<1>2. CASE RunnerStep
  <2>1. CASE StartRunner
    BY <2>1 DEF StartRunner
  <2>2. CASE RegisterRunner
    BY <2>2 DEF RegisterRunner
  <2>3. CASE RunnerCancelled
    BY <2>3 DEF RunnerCancelled
  <2>4. CASE RecordOutcome
    BY <1>0, <2>4 DEF RecordOutcome
  <2>5. CASE RunnerAcknowledged
    <3>1. /\ runner' \in {"none", "finished"} /\ leases' \subseteq {"socket", "runner"}
          /\ interrupted' \in {"no", "marked", "carried", "told"}
      BY <2>5 DEF RunnerAcknowledged, MarkAfter
    <3> QED
      BY <2>5, <3>1 DEF RunnerAcknowledged
  <2>6. CASE FinishRunner
    BY <1>0, <2>6 DEF FinishRunner
  <2> QED
    BY <1>2, <2>1, <2>2, <2>3, <2>4, <2>5, <2>6 DEF RunnerStep
<1>3. CASE RendererStep
  BY <1>3 DEF RendererStep, Deliver, Save, Redownload, CommitRedownload, UiFlush, UiFinalFlush,
     Retire, Fault, Running, ShuttingDown, CanBeginHandoff, ExitSteps
<1>4. CASE LeaveStep
  <2>1. CASE ExitRequested \/ ExitAdvances
    BY <2>1 DEF ExitRequested, ExitAdvances, GoTo, ExitSteps
  <2>2. CASE CloseMedia \/ StopDaemon \/ Seal
    BY <2>2 DEF CloseMedia, StopDaemon, Seal, GoTo, ExitSteps
  <2>3. CASE AskFinalFlush \/ Finalize \/ Leave
    BY <2>3 DEF AskFinalFlush, Finalize, Leave, GoTo, ExitSteps
  <2> QED
    BY <1>4, <2>1, <2>2, <2>3 DEF LeaveStep
<1>5. CASE TakeBackStep
  BY <1>5 DEF TakeBackStep, Refuse, Reject, MediaTimesOut, RecoverMedia, Reopen, Wake,
     RecoverDaemon, GoTo, ReopenMedia, ReopenBarrier, MediaStopped, Running, ExitSteps
<1>6. CASE Restart
  BY <1>6 DEF Restart, ExitSteps
<1>7. CASE UNCHANGED xvars
  BY <1>7 DEF xvars
<1> QED
  BY <1>1, <1>2, <1>3, <1>4, <1>5, <1>6, <1>7, ExitSteppers

\* Who applies a completion stays with who transfers.
LEMMA NextCarrierApplies ==
  ASSUME ExitInvariant, [Next]_xvars PROVE CarrierApplies'
<1> USE DEF ExitInvariant, Shapes, fences, barrier, engines, media, completion, renderer, bounds
<1>1. CASE TransferStep
  BY <1>1 DEF TransferStep, Finish, ReaderConnects, ReaderEnters, ReaderTakes, ReaderLeaves,
     CommandFinds, CommandTakes, Settle, Journal, Fault, Running, ShuttingDown, MayEnter,
     Refused, CanBeginHandoff, CarrierApplies, MarksAreCarried
<1>2. CASE RunnerStep
  BY <1>2 DEF RunnerStep, StartRunner, RegisterRunner, RunnerCancelled, RecordOutcome,
     RunnerAcknowledged, FinishRunner, Journal, Fault, Running, ShuttingDown, MayEnter,
     CanBeginHandoff, MarkAfter, CarrierApplies, MarksAreCarried
<1>3. CASE RendererStep
  BY <1>3 DEF RendererStep, Deliver, Save, Redownload, CommitRedownload, UiFlush, UiFinalFlush,
     Retire, Fault, Running, ShuttingDown, CanBeginHandoff, CarrierApplies, MarksAreCarried
<1>4. CASE LeaveStep
  BY <1>4 DEF LeaveStep, ExitRequested, ExitAdvances, CloseMedia, StopDaemon, Seal,
     AskFinalFlush, Finalize, Leave, GoTo, Flushed, HandoffsDrained, MediaStopped,
     TerminalDrained, FinalizationAllowed, JournalSettled, CarrierApplies, MarksAreCarried
<1>5. CASE TakeBackStep
  BY <1>5 DEF TakeBackStep, Refuse, Reject, MediaTimesOut, RecoverMedia, Reopen, Wake,
     RecoverDaemon, GoTo, ReopenMedia, ReopenBarrier, MediaStopped, Running, CarrierApplies,
     MarksAreCarried
<1>6. CASE Restart
  BY <1>6 DEF Restart, CarrierApplies, MarksAreCarried
<1>7. CASE UNCHANGED xvars
  BY <1>7 DEF xvars, CarrierApplies, MarksAreCarried
<1> QED
  BY <1>1, <1>2, <1>3, <1>4, <1>5, <1>6, <1>7, ExitSteppers

\* A completion is applied once.
LEMMA NextOneApplies ==
  ASSUME ExitInvariant, [Next]_xvars PROVE OneApplies'
<1> USE DEF ExitInvariant, fences, barrier, engines, media, completion, renderer, bounds
<1>1. CASE TransferStep
  <2>1. CASE Finish \/ ReaderConnects \/ ReaderEnters \/ ReaderLeaves
    BY <2>1 DEF Finish, ReaderConnects, ReaderEnters, ReaderLeaves, OneApplies
  <2>2. CASE ReaderTakes
    BY <2>2 DEF ReaderTakes, OneApplies
  <2>3. CASE CommandFinds \/ CommandTakes
    BY <2>3 DEF CommandFinds, CommandTakes, OneApplies
  <2>4. CASE Settle
    BY <2>4 DEF Settle, OneApplies, CarrierApplies, Shapes
  <2> QED
    BY <1>1, <2>1, <2>2, <2>3, <2>4 DEF TransferStep
<1>2. CASE RunnerStep
  <2>1. CASE StartRunner \/ RegisterRunner \/ RunnerCancelled \/ RecordOutcome
    BY <2>1 DEF StartRunner, RegisterRunner, RunnerCancelled, RecordOutcome, MarksAreCarried,
       OneApplies
  <2>2. CASE RunnerAcknowledged
    BY <2>2 DEF RunnerAcknowledged, OneApplies
  <2>3. CASE FinishRunner
    <3>1. carrier = "media"
      BY <2>3 DEF FinishRunner, CarrierApplies, Shapes
    <3> QED
      BY <2>3, <3>1 DEF FinishRunner, OneApplies, CarrierApplies
  <2> QED
    BY <1>2, <2>1, <2>2, <2>3 DEF RunnerStep
<1>3. CASE RendererStep
  BY <1>3 DEF RendererStep, Deliver, Save, Redownload, CommitRedownload, UiFlush, UiFinalFlush,
     Retire, Fault, Running, ShuttingDown, CanBeginHandoff, OneApplies, CarrierApplies,
     BytesAreTrue
<1>4. CASE LeaveStep
  BY <1>4 DEF LeaveStep, ExitRequested, ExitAdvances, CloseMedia, StopDaemon, Seal,
     AskFinalFlush, Finalize, Leave, GoTo, Flushed, HandoffsDrained, MediaStopped,
     TerminalDrained, FinalizationAllowed, JournalSettled, OneApplies, CarrierApplies,
     BytesAreTrue
<1>5. CASE TakeBackStep
  BY <1>5 DEF TakeBackStep, Refuse, Reject, MediaTimesOut, RecoverMedia, Reopen, Wake,
     RecoverDaemon, GoTo, ReopenMedia, ReopenBarrier, MediaStopped, Running, OneApplies,
     CarrierApplies, BytesAreTrue
<1>6. CASE Restart
  BY <1>6 DEF Restart, OneApplies, CarrierApplies, BytesAreTrue
<1>7. CASE UNCHANGED xvars
  BY <1>7 DEF xvars, OneApplies, CarrierApplies, BytesAreTrue
<1> QED
  BY <1>1, <1>2, <1>3, <1>4, <1>5, <1>6, <1>7, ExitSteppers

\* Leases are given up last.
LEMMA NextLeasesAreHeld ==
  ASSUME ExitInvariant, [Next]_xvars PROVE LeasesAreHeld'
<1> USE DEF ExitInvariant, Shapes, fences, barrier, engines, media, completion, renderer, bounds
<1>1. CASE TransferStep
  BY <1>1 DEF TransferStep, Finish, ReaderConnects, ReaderEnters, ReaderTakes, ReaderLeaves,
     CommandFinds, CommandTakes, Settle, Journal, Fault, Running, ShuttingDown, MayEnter,
     Refused, CanBeginHandoff, LeasesAreHeld, CarrierApplies
<1>2. CASE RunnerStep
  BY <1>2 DEF RunnerStep, StartRunner, RegisterRunner, RunnerCancelled, RecordOutcome,
     RunnerAcknowledged, FinishRunner, Journal, Fault, Running, ShuttingDown, MayEnter,
     CanBeginHandoff, MarkAfter, LeasesAreHeld, CarrierApplies
<1>3. CASE RendererStep
  BY <1>3 DEF RendererStep, Deliver, Save, Redownload, CommitRedownload, UiFlush, UiFinalFlush,
     Retire, Fault, Running, ShuttingDown, CanBeginHandoff, LeasesAreHeld, CarrierApplies
<1>4. CASE LeaveStep
  BY <1>4 DEF LeaveStep, ExitRequested, ExitAdvances, CloseMedia, StopDaemon, Seal,
     AskFinalFlush, Finalize, Leave, GoTo, Flushed, HandoffsDrained, MediaStopped,
     TerminalDrained, FinalizationAllowed, JournalSettled, LeasesAreHeld, CarrierApplies
<1>5. CASE TakeBackStep
  BY <1>5 DEF TakeBackStep, Refuse, Reject, MediaTimesOut, RecoverMedia, Reopen, Wake,
     RecoverDaemon, GoTo, ReopenMedia, ReopenBarrier, MediaStopped, Running, LeasesAreHeld,
     CarrierApplies
<1>6. CASE Restart
  BY <1>6 DEF Restart, LeasesAreHeld, CarrierApplies
<1>7. CASE UNCHANGED xvars
  BY <1>7 DEF xvars, LeasesAreHeld, CarrierApplies
<1> QED
  BY <1>1, <1>2, <1>3, <1>4, <1>5, <1>6, <1>7, ExitSteppers

\* The journal and the runner stay true to the transfer.
LEMMA NextBytesAreTrue ==
  ASSUME ExitInvariant, [Next]_xvars PROVE BytesAreTrue'
<1> USE DEF ExitInvariant, Shapes, fences, barrier, engines, media, completion, renderer, bounds
<1>1. CASE TransferStep
  BY <1>1 DEF TransferStep, Finish, ReaderConnects, ReaderEnters, ReaderTakes, ReaderLeaves,
     CommandFinds, CommandTakes, Settle, Journal, Fault, Running, ShuttingDown, MayEnter,
     Refused, CanBeginHandoff, BytesAreTrue, OneApplies, CarrierApplies, MarksAreCarried
<1>2. CASE RunnerStep
  BY <1>2 DEF RunnerStep, StartRunner, RegisterRunner, RunnerCancelled, RecordOutcome,
     RunnerAcknowledged, FinishRunner, Journal, Fault, Running, ShuttingDown, MayEnter,
     CanBeginHandoff, MarkAfter, BytesAreTrue, OneApplies, CarrierApplies, MarksAreCarried
<1>3. CASE RendererStep
  BY <1>3 DEF RendererStep, Deliver, Save, Redownload, CommitRedownload, UiFlush, UiFinalFlush,
     Retire, Fault, Running, ShuttingDown, CanBeginHandoff, BytesAreTrue, OneApplies,
     CarrierApplies, MarksAreCarried
<1>4. CASE LeaveStep
  BY <1>4 DEF LeaveStep, ExitRequested, ExitAdvances, CloseMedia, StopDaemon, Seal,
     AskFinalFlush, Finalize, Leave, GoTo, Flushed, HandoffsDrained, MediaStopped,
     TerminalDrained, FinalizationAllowed, JournalSettled, BytesAreTrue, OneApplies,
     CarrierApplies, MarksAreCarried
<1>5. CASE TakeBackStep
  BY <1>5 DEF TakeBackStep, Refuse, Reject, MediaTimesOut, RecoverMedia, Reopen, Wake,
     RecoverDaemon, GoTo, ReopenMedia, ReopenBarrier, MediaStopped, Running, BytesAreTrue,
     OneApplies, CarrierApplies, MarksAreCarried
<1>6. CASE Restart
  BY <1>6 DEF Restart, BytesAreTrue, OneApplies, CarrierApplies, MarksAreCarried
<1>7. CASE UNCHANGED xvars
  BY <1>7 DEF xvars, BytesAreTrue, OneApplies, CarrierApplies, MarksAreCarried
<1> QED
  BY <1>1, <1>2, <1>3, <1>4, <1>5, <1>6, <1>7, ExitSteppers

\* An interruption is carried on until the renderer is told.
LEMMA NextMarksAreCarried ==
  ASSUME ExitInvariant, [Next]_xvars PROVE MarksAreCarried'
<1> USE DEF ExitInvariant, Shapes, fences, barrier, engines, media, completion, renderer, bounds
<1>1. CASE TransferStep
  BY <1>1 DEF TransferStep, Finish, ReaderConnects, ReaderEnters, ReaderTakes, ReaderLeaves,
     CommandFinds, CommandTakes, Settle, Journal, Fault, Running, ShuttingDown, MayEnter,
     Refused, CanBeginHandoff, MarksAreCarried, OneApplies, CarrierApplies, BytesAreTrue,
     ExitIsOrdered, AfterHandoffs
<1>2. CASE RunnerStep
  BY <1>2 DEF RunnerStep, StartRunner, RegisterRunner, RunnerCancelled, RecordOutcome,
     RunnerAcknowledged, FinishRunner, Journal, Fault, Running, ShuttingDown, MayEnter,
     CanBeginHandoff, MarkAfter, MarksAreCarried, OneApplies, CarrierApplies, BytesAreTrue,
     ExitIsOrdered, AfterHandoffs
<1>3. CASE RendererStep
  BY <1>3 DEF RendererStep, Deliver, Save, Redownload, CommitRedownload, UiFlush, UiFinalFlush,
     Retire, Fault, Running, ShuttingDown, CanBeginHandoff, MarksAreCarried, OneApplies,
     CarrierApplies, BytesAreTrue, ExitIsOrdered, AfterHandoffs
<1>4. CASE LeaveStep
  BY <1>4 DEF LeaveStep, ExitRequested, ExitAdvances, CloseMedia, StopDaemon, Seal,
     AskFinalFlush, Finalize, Leave, GoTo, Flushed, HandoffsDrained, MediaStopped,
     TerminalDrained, FinalizationAllowed, JournalSettled, MarksAreCarried, OneApplies,
     CarrierApplies, BytesAreTrue, ExitIsOrdered, AfterHandoffs
<1>5. CASE TakeBackStep
  BY <1>5 DEF TakeBackStep, Refuse, Reject, MediaTimesOut, RecoverMedia, Reopen, Wake,
     RecoverDaemon, GoTo, ReopenMedia, ReopenBarrier, MediaStopped, Running, MarksAreCarried,
     OneApplies, CarrierApplies, BytesAreTrue, ExitIsOrdered, AfterHandoffs
<1>6. CASE Restart
  BY <1>6 DEF Restart, MarksAreCarried, OneApplies, CarrierApplies, BytesAreTrue, ExitIsOrdered,
     AfterHandoffs
<1>7. CASE UNCHANGED xvars
  BY <1>7 DEF xvars, MarksAreCarried, OneApplies, CarrierApplies, BytesAreTrue, ExitIsOrdered,
     AfterHandoffs
<1> QED
  BY <1>1, <1>2, <1>3, <1>4, <1>5, <1>6, <1>7, ExitSteppers

\* What a step of the exit has left behind stays behind.
LEMMA NextExitIsOrdered ==
  ASSUME ExitInvariant, [Next]_xvars PROVE ExitIsOrdered'
<1> USE DEF ExitInvariant, fences, barrier, engines, media, completion, renderer, bounds
<1>1. CASE UNCHANGED <<fences, barrier, runner, registrationClosed, command>>
  BY <1>1 DEF ExitIsOrdered
<1>2. CASE Finish \/ ReaderConnects \/ ReaderTakes \/ Settle \/ RendererStep \/ UNCHANGED xvars
  <2>1. \/ UNCHANGED <<fences, barrier, runner, registrationClosed, command>>
        \/ UNCHANGED <<fences, barrier, runner, registrationClosed>> /\ command' = "none"
    BY <1>2 DEF Finish, ReaderConnects, ReaderTakes, Settle, RendererStep, Deliver, Save,
       Redownload, CommitRedownload, UiFlush, UiFinalFlush, xvars
  <2> QED
    BY <1>1, <2>1 DEF ExitIsOrdered
<1>3. CASE ReaderEnters
  BY <1>3 DEF ReaderEnters, MayEnter, Refused, ExitIsOrdered
<1>4. CASE ReaderLeaves
  BY <1>4 DEF ReaderLeaves, ExitIsOrdered, LeasesAreHeld
<1>5. CASE CommandFinds \/ CommandTakes
  BY <1>5 DEF CommandFinds, CommandTakes, CanBeginHandoff, ShuttingDown, ExitIsOrdered,
     AfterHandoffs
<1>6. CASE StartRunner
  BY <1>6 DEF StartRunner, CanBeginHandoff, ShuttingDown, MayEnter, ExitIsOrdered
<1>7. CASE RegisterRunner \/ RunnerCancelled \/ RecordOutcome
  BY <1>7 DEF RegisterRunner, RunnerCancelled, RecordOutcome, ExitIsOrdered, LeasesAreHeld
<1>8. CASE RunnerAcknowledged \/ FinishRunner
  <2>1. /\ runner' \in {"none", "finished"} /\ leases' \subseteq leases
        /\ UNCHANGED <<fences, sealed, command, registrationClosed>>
    BY <1>8 DEF RunnerAcknowledged, FinishRunner
  <2>2. leases = {} => leases' = {}
    BY <2>1
  <2> QED
    BY <2>1, <2>2 DEF ExitIsOrdered
<1>9. CASE ExitRequested \/ ExitAdvances
  BY <1>9 DEF ExitRequested, ExitAdvances, GoTo, Flushed, HandoffsDrained, MediaStopped,
     ExitIsOrdered, AfterHandoffs
<1>10. CASE CloseMedia \/ StopDaemon \/ Seal
  BY <1>10 DEF CloseMedia, StopDaemon, Seal, GoTo, ExitIsOrdered, AfterHandoffs
<1>11. CASE AskFinalFlush \/ Finalize \/ Leave
  BY <1>11 DEF AskFinalFlush, Finalize, Leave, GoTo, TerminalDrained, ExitIsOrdered,
     AfterHandoffs
<1>12. CASE TakeBackStep
  BY <1>12 DEF TakeBackStep, Refuse, Reject, MediaTimesOut, RecoverMedia, Reopen, Wake,
     RecoverDaemon, GoTo, ReopenMedia, ReopenBarrier, MediaStopped, Running, ExitIsOrdered,
     LeasesAreHeld, AfterHandoffs
<1>13. CASE Restart
  BY <1>13 DEF Restart, ExitIsOrdered, AfterHandoffs
<1> QED
  BY <1>2, <1>3, <1>4, <1>5, <1>6, <1>7, <1>8, <1>9, <1>10, <1>11, <1>12, <1>13, ExitSteppers
     DEF TransferStep, RunnerStep, LeaveStep

\* The disk is told of what was seen.
LEMMA NextDiskIsTold ==
  ASSUME ExitInvariant, [Next]_xvars PROVE DiskIsTold'
<1> USE DEF ExitInvariant, Shapes, fences, barrier, engines, media, completion, renderer, bounds
<1>1. ASSUME UNCHANGED <<exitAt, stored, uiRow>>, exitAt # "allow",
             UNCHANGED <<observed, exitJournal, journalFailed>> \/ Journal
      PROVE  DiskIsTold'
  BY <1>1 DEF Journal, Fault, DiskIsTold
<1>2. CASE UNCHANGED <<exitAt, stored, uiRow, observed, exitJournal, journalFailed>>
  BY <1>2 DEF DiskIsTold
<1>3. CASE TransferStep
  <2>1. UNCHANGED <<exitAt, stored, uiRow>>
    BY <1>3 DEF TransferStep, Finish, ReaderConnects, ReaderEnters, ReaderTakes, ReaderLeaves,
       CommandFinds, CommandTakes, Settle
  <2>2. \/ UNCHANGED <<observed, exitJournal, journalFailed>>
        \/ Journal /\ exitAt # "allow"
    BY <1>3 DEF TransferStep, Finish, ReaderConnects, ReaderEnters, ReaderTakes, ReaderLeaves,
       CommandFinds, CommandTakes, Settle, ExitIsOrdered, LeasesAreHeld, AfterHandoffs
  <2> QED
    BY <1>1, <1>2, <2>1, <2>2
<1>4. CASE RunnerStep
  <2>1. UNCHANGED <<exitAt, stored, uiRow>>
    BY <1>4 DEF RunnerStep, StartRunner, RegisterRunner, RunnerCancelled, RecordOutcome,
       RunnerAcknowledged, FinishRunner
  <2>2. \/ UNCHANGED <<observed, exitJournal, journalFailed>>
        \/ Journal /\ exitAt # "allow"
    BY <1>4 DEF RunnerStep, StartRunner, RegisterRunner, RunnerCancelled, RecordOutcome,
       RunnerAcknowledged, FinishRunner, ExitIsOrdered, LeasesAreHeld
  <2> QED
    BY <1>1, <1>2, <2>1, <2>2
<1>5. CASE Deliver \/ Save \/ UiFlush \/ UiFinalFlush
  BY <1>5 DEF Deliver, Save, UiFlush, UiFinalFlush, Fault, DiskIsTold
<1>6. CASE Redownload \/ CommitRedownload
  BY <1>6 DEF Redownload, CommitRedownload, Retire, DiskIsTold, BytesAreTrue
<1>7. CASE LeaveStep
  BY <1>7 DEF LeaveStep, ExitRequested, ExitAdvances, CloseMedia, StopDaemon, Seal,
     AskFinalFlush, Finalize, Leave, GoTo, FinalizationAllowed, JournalSettled, DiskIsTold
<1>8. CASE TakeBackStep
  BY <1>8 DEF TakeBackStep, Refuse, Reject, MediaTimesOut, RecoverMedia, Reopen, Wake,
     RecoverDaemon, GoTo, DiskIsTold
<1>9. CASE Restart
  BY <1>9 DEF Restart, DiskIsTold
<1>10. CASE UNCHANGED xvars
  BY <1>10 DEF xvars, DiskIsTold
<1> QED
  BY <1>3, <1>4, <1>5, <1>6, <1>7, <1>8, <1>9, <1>10, ExitSteppers DEF RendererStep

\* The initial states.
LEMMA InitExit == Init => ExitInvariant
  BY DEF Init, ExitInvariant, Shapes, ExitSteps, CarrierApplies, OneApplies, LeasesAreHeld,
     BytesAreTrue, MarksAreCarried, ExitIsOrdered, AfterHandoffs, DiskIsTold

\* Every step keeps the seven parts.
LEMMA NextExit ==
  ASSUME ExitInvariant, [Next]_xvars PROVE ExitInvariant'
  BY NextShapes, NextCarrierApplies, NextOneApplies, NextLeasesAreHeld, NextBytesAreTrue,
     NextMarksAreCarried, NextExitIsOrdered, NextDiskIsTold DEF ExitInvariant

\* In every state: who may apply a completion, what each step of the exit has left behind
\* and what the disk has been told agree.
THEOREM ExitIsCorrect == Spec => []ExitInvariant
  BY InitExit, NextExit, PTL DEF Spec

\* The two invariants are parts of it.
LEMMA ExitInvariantImplies ==
  ExitInvariant => JournalIsOfThisLifecycle /\ InterruptedIsResumed
<1>1. ExitInvariant => JournalIsOfThisLifecycle
  BY DEF ExitInvariant, Shapes, BytesAreTrue, JournalIsOfThisLifecycle
<1>2. ExitInvariant => InterruptedIsResumed
  BY DEF ExitInvariant, Shapes, MarksAreCarried, ExitIsOrdered, InterruptedIsResumed
<1> QED
  BY <1>1, <1>2

\* The shutdown journal never speaks of a lifecycle that has not finished, except while a
\* new download of the row is being saved.
THEOREM JournalIsExact == Spec => []JournalIsOfThisLifecycle
  BY ExitIsCorrect, ExitInvariantImplies, PTL

\* However often an exit begins and is taken back: when the application is open again, a
\* media download without a runner is settled, or the renderer is told to resume it.
THEOREM InterruptionsAreResumed == Spec => []InterruptedIsResumed
  BY ExitIsCorrect, ExitInvariantImplies, PTL

\* The counters, with the bounds of the model.
LEMMA CountersKeepTypes ==
  ASSUME MaxAttempts \in Nat, MaxExitFaults \in Nat, MaxAgain \in Nat, MaxStops \in Nat,
         TypeOK, [Next]_xvars
  PROVE  /\ attempts' \in 0 .. MaxAttempts /\ exitFaults' \in 0 .. MaxExitFaults
         /\ again' \in 0 .. MaxAgain /\ exitStops' \in 0 .. MaxStops
<1> USE DEF TypeOK, bounds
<1>1. ASSUME UNCHANGED <<attempts, again, exitStops>>,
             UNCHANGED exitFaults \/ Journal \/ Fault
      PROVE  /\ attempts' \in 0 .. MaxAttempts /\ exitFaults' \in 0 .. MaxExitFaults
             /\ again' \in 0 .. MaxAgain /\ exitStops' \in 0 .. MaxStops
  BY <1>1 DEF Journal, Fault
<1>2. CASE TransferStep \/ RunnerStep
  <2>1. UNCHANGED <<attempts, again, exitStops>> /\ (UNCHANGED exitFaults \/ Journal)
    BY <1>2 DEF TransferStep, Finish, ReaderConnects, ReaderEnters, ReaderTakes, ReaderLeaves,
       CommandFinds, CommandTakes, Settle, RunnerStep, StartRunner, RegisterRunner,
       RunnerCancelled, RecordOutcome, RunnerAcknowledged, FinishRunner
  <2> QED
    BY <1>1, <2>1
<1>3. CASE Deliver \/ Save \/ CommitRedownload \/ UiFlush \/ UiFinalFlush
  BY <1>1, <1>3 DEF Deliver, Save, CommitRedownload, UiFlush, UiFinalFlush
<1>4. CASE Redownload
  BY <1>4 DEF Redownload
<1>5. CASE LeaveStep
  BY <1>5 DEF LeaveStep, ExitRequested, ExitAdvances, CloseMedia, StopDaemon, Seal,
     AskFinalFlush, Finalize, Leave
<1>6. CASE TakeBackStep
  BY <1>1, <1>6 DEF TakeBackStep, Refuse, Reject, MediaTimesOut, RecoverMedia, Reopen, Wake,
     RecoverDaemon
<1>7. CASE Restart \/ UNCHANGED xvars
  BY <1>7 DEF Restart, xvars
<1> QED
  BY <1>2, <1>3, <1>4, <1>5, <1>6, <1>7, ExitSteppers DEF RendererStep

\* Every variable keeps its type, whatever the bounds of the model.
THEOREM ExitTypes ==
  ASSUME MaxAttempts \in Nat, MaxExitFaults \in Nat, MaxAgain \in Nat, MaxStops \in Nat
  PROVE  Spec => []TypeOK
<1>1. Init => TypeOK
  BY InitExit DEF Init, ExitInvariant, TypeOK
<1>2. ExitInvariant /\ TypeOK /\ [Next]_xvars => TypeOK'
  BY NextShapes, CountersKeepTypes DEF TypeOK
<1> QED
  BY <1>1, <1>2, ExitIsCorrect, PTL DEF Spec

-----------------------------------------------------------------------------
(* The refinement of ExitPromise.                                          *)

\* The steps of the transfer take up a completion and apply it.
LEMMA TransferRefines ==
  ASSUME ExitInvariant, TransferStep PROVE Promise!Apply
<1> USE DEF ExitInvariant, fences, barrier, engines, media, completion, renderer, bounds
<1>1. CASE Finish \/ ReaderConnects \/ ReaderEnters \/ ReaderLeaves \/ CommandFinds
  BY <1>1 DEF Finish, ReaderConnects, ReaderEnters, ReaderLeaves, CommandFinds,
     Promise!Apply, Running, Busy, Owed, Kept
<1>2. CASE ReaderTakes \/ CommandTakes
  BY <1>2 DEF ReaderTakes, CommandTakes, Journal, Fault, OneApplies,
     Promise!Apply, Running, Busy, Owed, Kept
<1>3. CASE Settle
  BY <1>3 DEF Settle, Promise!Apply, Running, Busy, Owed, Kept
<1> QED
  BY <1>1, <1>2, <1>3 DEF TransferStep

\* So do the steps of the runner.
LEMMA RunnerRefines ==
  ASSUME ExitInvariant, RunnerStep PROVE Promise!Apply
<1> USE DEF ExitInvariant, fences, barrier, engines, media, completion, renderer, bounds
<1>1. CASE StartRunner \/ RegisterRunner \/ RunnerCancelled
  BY <1>1 DEF StartRunner, RegisterRunner, RunnerCancelled,
     Promise!Apply, Running, Busy, Owed, Kept
<1>2. CASE RecordOutcome \/ FinishRunner
  BY <1>2 DEF RecordOutcome, FinishRunner, Journal, Fault, OneApplies,
     Promise!Apply, Running, Busy, Owed, Kept
<1>3. CASE RunnerAcknowledged
  BY <1>3 DEF RunnerAcknowledged, Promise!Apply, Running, Busy, Owed, Kept
<1> QED
  BY <1>1, <1>2, <1>3 DEF RunnerStep

\* The renderer writes what is durable; a new download is the promise's Again, for nobody
\* applies a completion of a settled download that may be downloaded anew.
LEMMA RendererRefines ==
  ASSUME ExitInvariant, RendererStep PROVE Promise!Apply \/ Promise!Again
<1> USE DEF ExitInvariant, fences, barrier, engines, media, completion, renderer, bounds
<1>1. CASE Deliver \/ Save \/ UiFlush \/ UiFinalFlush
  BY <1>1 DEF Deliver, Save, UiFlush, UiFinalFlush, Fault, Shapes, DiskIsTold,
     Promise!Apply, Running, Busy, Owed, Kept
<1>2. CASE Redownload
  BY <1>2 DEF Redownload, CanBeginHandoff, ShuttingDown, Shapes, OneApplies,
     Promise!Again, Promise!Apply, Running, Busy, Owed, Kept
<1>3. CASE CommitRedownload
  BY <1>3 DEF CommitRedownload, Retire, BytesAreTrue,
     Promise!Apply, Running, Busy, Owed, Kept
<1> QED
  BY <1>1, <1>2, <1>3 DEF RendererStep

\* Until the process leaves, the exit changes nothing that is promised.
LEMMA ExitRefines ==
  ASSUME ExitInvariant, LeaveStep \/ TakeBackStep, ~Leave PROVE Promise!Apply
<1> USE DEF fences, barrier, engines, media, completion, renderer, bounds
<1>1. UNCHANGED <<Busy, Owed, Kept>>
  BY DEF LeaveStep, ExitRequested, ExitAdvances, CloseMedia, StopDaemon, Seal, AskFinalFlush,
     Finalize, TakeBackStep, Refuse, Reject, MediaTimesOut, RecoverMedia, Reopen, Wake,
     RecoverDaemon, ReopenMedia, Busy, Owed, Kept
<1>2. Running /\ Running'
  BY DEF LeaveStep, ExitRequested, ExitAdvances, CloseMedia, StopDaemon, Seal, AskFinalFlush,
     Finalize, TakeBackStep, Refuse, Reject, MediaTimesOut, RecoverMedia, Reopen, Wake,
     RecoverDaemon, GoTo, Running
<1> QED
  BY <1>1, <1>2 DEF Promise!Apply, ExitInvariant, Shapes, Running, Busy, Owed, Kept

\* The process leaves when nobody holds a lease and no journal write is known to have
\* failed: nobody applies a completion, and each that is owed is on the disk.
LEMMA LeaveRefines ==
  ASSUME ExitInvariant, Leave PROVE Promise!Exit
<1> USE DEF ExitInvariant, fences, barrier, engines, media, completion, renderer, bounds
<1>1. Running /\ ~Running' /\ UNCHANGED <<Busy, Owed, Kept>>
  BY DEF Leave, GoTo, Running, Busy, Owed, Kept
<1>2. ~Busy
  BY DEF Leave, ExitIsOrdered, AfterHandoffs, LeasesAreHeld, Busy
<1>3. Owed => Kept
  BY DEF Leave, DiskIsTold, Owed, Kept
<1> QED
  BY <1>1, <1>2, <1>3 DEF Promise!Exit, Running, Busy, Owed, Kept

\* The next process knows what the disk says.
LEMMA RestartRefines ==
  ASSUME ExitInvariant, Restart PROVE Promise!Start
  BY DEF ExitInvariant, Shapes, Restart, Promise!Start, Running, Busy, Owed, Kept

\* Every step of the exit is a step of the promise or leaves it alone.
LEMMA NextRefines ==
  ASSUME ExitInvariant, [Next]_xvars PROVE [Promise!Next]_(Promise!pvars)
<1>1. CASE UNCHANGED xvars
  BY <1>1 DEF xvars, Promise!pvars, Running, Busy, Owed, Kept
<1>2. CASE Leave
  BY <1>2, LeaveRefines DEF Promise!Next
<1>3. CASE ~Leave
  BY <1>1, <1>3, TransferRefines, RunnerRefines, RendererRefines, ExitRefines, RestartRefines,
     ExitSteppers DEF Promise!Next
<1> QED
  BY <1>2, <1>3

\* ExitBarrier implements ExitPromise: the process leaves in good order only when no
\* completion is being applied and each that was seen while it was shutting down is on the
\* disk, whatever fails on the way, however often the exit is taken back.
THEOREM ExitRefinesPromise == Spec => ExitKeepsItsPromise
<1>1. Init => Promise!Init
  BY DEF Init, Promise!Init, Promise!pvars, Running, Busy, Owed, Kept
<1> QED
  BY <1>1, ExitIsCorrect, NextRefines, PTL DEF Spec, ExitKeepsItsPromise, Promise!Spec

-----------------------------------------------------------------------------
(* The aria2 process.                                                      *)

\* The types: of the processes and of who refers to them, of the four that act on them, and of
\* the rest.
ProcessShapes ==
  /\ procs \in [Daemon!Procs -> {"none", "up", "hung", "stopping", "dead"}]
  /\ loads \in [Daemon!Procs -> Nat]

\* Who holds the lock, the socket, the start and the exit, as far as each is.
Holders ==
  [by : {"nobody", "starter", "exit", "recovery", "listener", "setter"}, gen : Nat, proc : Nat,
   step : {"none", "ask", "take", "wait", "spawn", "settle", "ready", "tell", "note"}]
Listeners ==
  [step : {"none", "loop", "restart", "reconcile", "read", "leave", "probe", "check", "ended"},
   proc : Nat, pending : BOOLEAN]
Starters == [step : {"spawn", "settle", "ready", "cleanup", "done"}, proc : Nat]
ExitStates ==
  [step : {"none", "drain", "media", "stop", "seal", "final", "gone"}, held : BOOLEAN]
ActorShapes ==
  /\ holder \in Holders /\ listener \in Listeners /\ starter \in Starters
  /\ recovering \in [Daemon!Exits -> {"none", "check", "stop", "again", "restart"}]
  /\ exits \in 0 .. MaxExits
  /\ exit \in ExitStates
FlagShapes ==
  /\ failed \in {"none", "start", "socket"} /\ spec \in Nat /\ chosen \in Nat
  /\ hold \in BOOLEAN /\ carried \in BOOLEAN /\ doubt \in BOOLEAN
  /\ superseded \in BOOLEAN /\ dropped \in BOOLEAN /\ unseen \in BOOLEAN

\* All of them.
DaemonShapes == ProcessShapes /\ ActorShapes /\ FlagShapes

\* Nobody refers to a process that was not launched.
Known(p) == p # 0 => p \in Daemon!Procs /\ procs[p] # "none"
EveryoneIsLaunched ==
  /\ Known(child) /\ Known(port) /\ Known(at)
  /\ Known(starter.proc) /\ Known(listener.proc) /\ Known(holder.proc)

\* Steps of a stop, and of a restart.
Stopping == {"ask", "take", "wait"}
Starting == {"spawn", "settle", "ready"}

\* Who holds the lock is where the lock is asked for, and an exit or a recovery is one of a kind.
HolderIsKnown ==
  /\ holder.by = "nobody" => holder = Daemon!Unheld
  /\ holder.by = "setter" => holder.step \in {"tell", "note"}
  /\ holder.by = "starter" => holder.step \in Stopping /\ starter.step = "cleanup"
  /\ holder.by = "exit" => holder.step \in Stopping /\ exit.step = "stop"
  /\ holder.by = "listener" => holder.step \in Starting /\ listener.step = "restart"
  /\ holder.by = "recovery" =>
       /\ holder.gen \in Daemon!Exits
       /\ \/ holder.step \in Stopping /\ recovering[holder.gen] = "stop"
          \/ holder.step \in Starting /\ recovering[holder.gen] = "restart"
  /\ exit.step # "none" => exits # 0 /\ recovering[exits] = "none"
  /\ \A g \in Daemon!Exits : g > exits => recovering[g] = "none"

\* Before the start of the application is over nobody else stops or starts anything.
StartComesFirst ==
  /\ starter.step # "done" =>
       /\ exits = 0 /\ port = 0 /\ listener.step = "none" /\ chosen = 1
       /\ holder.by \in {"nobody", "setter", "starter"} /\ holder.step # "note"
  /\ starter.step \in {"spawn", "settle"} => child = 0 /\ spec = 0
  /\ starter.step = "settle" => starter.proc # 0 /\ loads[starter.proc] = 1
  /\ starter.step = "ready" => child = starter.proc /\ child # 0 /\ loads[child] = 1
  /\ starter.step = "ready" \/ listener.step # "none" => spec # 0

\* What a stop or a restart has in hand.
LockIsWorth ==
  /\ holder.step = "wait" => child = 0 /\ holder.proc # 0 /\ port \in {0, holder.proc}
  /\ holder.step \in Starting => port = 0 /\ spec # 0
  /\ holder.step \in {"settle", "ready"} => holder.proc # 0 /\ holder.proc # listener.proc
  /\ holder.step = "ready" => child = holder.proc
  /\ port # 0 => port = child \/ (holder.step = "wait" /\ holder.proc = port)

\* A published daemon that was stopped, or that a recovery found stopped, is out of the guard.
Quiet == port # 0 \/ holder.step = "ready" \/ (child = 0 /\ holder.step # "wait")
Found ==
  \/ listener.step # "none"
  \/ \E g \in Daemon!Exits : recovering[g] \in {"again", "restart"}
DaemonIsAlone ==
  \/ unseen
  \/ /\ Found => Quiet
     /\ holder.step \in {"spawn", "settle"} => child = 0
     /\ \A p \in Daemon!Procs : Daemon!Lives(p) =>
          \/ p = child
          \/ holder.step \in {"wait", "settle"} /\ p = holder.proc
          \/ starter.step = "settle" /\ p = starter.proc

\* A transfer lives in the published daemon, or not at all; after the last stop it does not.
TransferIsPublished ==
  /\ ~dropped
  /\ Daemon!Lives(at) => at = port
  /\ exit.step \in {"seal", "final", "gone"} => ~Daemon!Lives(at)

\* Where the port is gone somebody brings the daemon back; where the queue is held although the
\* listener is connected, somebody is about to replace the daemon.
SomebodyRestarts ==
  listener.step \notin {"none", "ended"} /\ port = 0 =>
    \/ failed # "none" \/ superseded \/ Daemon!Recovers
    \/ exit.step \in {"stop", "seal", "final", "gone"}
HoldIsLifted ==
  /\ listener.step \in {"reconcile", "read"} => listener.proc # 0
  /\ /\ hold /\ listener.step \in {"reconcile", "read"} /\ listener.proc = port
     /\ listener.step = "reconcile" => ~listener.pending
     => \/ superseded \/ \E g \in Daemon!Exits : recovering[g] \in {"check", "stop"}
        \/ exit.step = "media" /\ ~exit.held

\* The next launch and the published daemon have the option that was accepted.
LaunchesAgree ==
  /\ spec \in {0, chosen}
  /\ holder.step \in {"settle", "ready"} => loads[holder.proc] = chosen
  /\ holder.step = "note" => port # 0 /\ loads[port] = chosen + 1
  /\ port # 0 /\ holder.step # "note" /\ ~doubt => loads[port] = chosen

\* The inductive invariant of the daemon, and the bound it needs.
DaemonBounds == MaxExits \in Nat
DaemonInvariant ==
  /\ DaemonShapes /\ EveryoneIsLaunched /\ HolderIsKnown /\ StartComesFirst /\ LockIsWorth
  /\ DaemonIsAlone /\ TransferIsPublished /\ SomebodyRestarts /\ HoldIsLifted
  /\ LaunchesAgree

\* A launch is of a process that was not launched before.
Launches(p, option) ==
  /\ p \in Daemon!Procs /\ procs[p] = "none"
  /\ loads' = [loads EXCEPT ![p] = option]
  /\ procs' \in {[procs EXCEPT ![p] = "up"], [procs EXCEPT ![p] = "hung"]}

\* The fresh process of a launch is one.
LEMMA LaunchIsNew ==
  ASSUME NEW option, Daemon!Launched(option)
  PROVE  Launches(Daemon!Fresh, option)
BY DEF Daemon!Launched, Daemon!MayLaunch, Daemon!Fresh, Launches

\* Nothing but that process changes.
LEMMA LaunchChanges ==
  ASSUME ProcessShapes, NEW option \in Nat, NEW p \in Daemon!Procs, Launches(p, option)
  PROVE  /\ procs' \in [Daemon!Procs -> {"none", "up", "hung", "stopping", "dead"}]
         /\ loads' \in [Daemon!Procs -> Nat] /\ procs[p] = "none"
         /\ procs'[p] \in {"up", "hung"} /\ loads'[p] = option
         /\ \A q \in Daemon!Procs : q # p => procs'[q] = procs[q] /\ loads'[q] = loads[q]
BY DEF Launches, ProcessShapes

\* How a stop ends for who asked for it, and a restart.
Frees ==
  /\ holder' = Daemon!Unheld /\ holder' \in Holders
  /\ holder'.by = "nobody" /\ holder'.step = "none" /\ holder'.proc = 0 /\ holder'.gen = 0
Blocks ==
  /\ hold' = TRUE /\ exit'.step = "none" /\ exit'.held = exit.held /\ exit' \in ExitStates
  /\ recovering' = [recovering EXCEPT ![exits] = "check"]
  /\ UNCHANGED <<starter, carried, at>>
StopEnds(ok) ==
  /\ Frees
  /\ \/ /\ holder.by = "starter" /\ starter'.step = "done" /\ starter'.proc = starter.proc
        /\ starter' \in Starters
        /\ UNCHANGED <<recovering, exit, hold, carried, at>>
     \/ /\ holder.by = "recovery"
        /\ recovering' = [recovering EXCEPT ![holder.gen] = IF ok THEN "again" ELSE "check"]
        /\ UNCHANGED <<starter, exit, hold, carried, at>>
     \/ /\ holder.by = "exit" /\ ok /\ exit'.step = "seal" /\ exit'.held = exit.held
        /\ exit' \in ExitStates
        /\ UNCHANGED <<starter, recovering, hold, carried, at>>
     \/ holder.by = "exit" /\ ~ok /\ Blocks
StartEnds(ok) ==
  /\ Frees
  /\ \/ /\ holder.by = "listener" /\ listener'.step = "loop" /\ listener'.proc = listener.proc
        /\ listener' \in Listeners /\ UNCHANGED <<recovering, superseded>>
     \/ /\ holder.by = "recovery"
        /\ recovering' = [recovering EXCEPT ![holder.gen] = IF ok THEN "none" ELSE "check"]
        /\ superseded' \in BOOLEAN /\ (superseded' => superseded)
        /\ (superseded /\ ~ok => superseded') /\ UNCHANGED listener
HolderGoes(step, proc) ==
  /\ holder' \in Holders
  /\ holder'.by = holder.by /\ holder'.gen = holder.gen
  /\ holder'.step = step /\ holder'.proc = proc

\* So it ends.
LEMMA StopOutcome ==
  ASSUME ActorShapes, NEW ok \in BOOLEAN, Daemon!Stopped(ok)
  PROVE  StopEnds(ok)
<1> USE DEF ActorShapes
<1>1. Daemon!Unheld \in Holders /\ Frees
  BY DEF Daemon!Stopped, Daemon!Unheld, Frees, Holders
<1>2. [starter EXCEPT !.step = "done"] \in Starters
  BY DEF Starters
<1>3. \A step \in {"none", "seal"} : [exit EXCEPT !.step = step] \in ExitStates
  BY DEF ExitStates
<1>4. holder.by = "exit" /\ Daemon!Blocked => Blocks
  BY <1>3 DEF Daemon!Blocked, Blocks, ExitStates
<1> QED
  BY <1>1, <1>2, <1>3, <1>4
  DEF Daemon!Stopped, Daemon!Starter, Daemon!work, StopEnds, Starters, ExitStates

\* So does a restart.
LEMMA StartOutcome ==
  ASSUME ActorShapes, FlagShapes, NEW ok \in BOOLEAN, Daemon!Started(ok)
  PROVE  StartEnds(ok)
<1> USE DEF ActorShapes, FlagShapes
<1>1. Frees
  BY DEF Daemon!Started, Daemon!Unheld, Frees, Holders
<1>2. [listener EXCEPT !.step = "loop"] \in Listeners
  BY DEF Listeners
<1> QED
  BY <1>1, <1>2 DEF Daemon!Started, StartEnds, Listeners

\* What taking the handle does.
StopTakes ==
  /\ UNCHANGED <<procs, loads, spec, port, failed, listener, exits, chosen, doubt, superseded,
                 dropped, unseen>>
  /\ holder.step = "take" /\ child' = 0
  /\ \/ child # 0 /\ HolderGoes("wait", child)
        /\ UNCHANGED <<starter, recovering, exit, hold, carried, at>>
     \/ child = 0 /\ StopEnds(port = 0)

\* StopTake is such a step.
LEMMA StopTakeDoes ==
  ASSUME DaemonShapes, EveryoneIsLaunched, Daemon!StopTake
  PROVE  StopTakes
<1> USE DEF StopTakes
<1>1. /\ UNCHANGED <<procs, loads, spec, port, failed, listener, exits, chosen, doubt,
                        superseded, dropped, unseen>>
      /\ holder.step = "take" /\ child' = 0
  BY DEF Daemon!StopTake, Daemon!processes, Daemon!options, Daemon!ghosts
<1>2. CASE child = 0 /\ Daemon!Stopped(port = 0)
  BY <1>1, <1>2, StopOutcome DEF DaemonShapes
<1>3. CASE child # 0
  <2>1. holder' = [holder EXCEPT !.step = "wait", !.proc = child]
    BY <1>3 DEF Daemon!StopTake
  <2>2. child \in Nat
    BY <1>3 DEF EveryoneIsLaunched, Known, Daemon!Procs
  <2>3. HolderGoes("wait", child)
    BY <2>1, <2>2 DEF HolderGoes, DaemonShapes, ActorShapes, Holders
  <2> QED
    BY <1>1, <1>3, <2>3 DEF Daemon!StopTake, Daemon!work
<1> QED
  BY <1>2, <1>3 DEF Daemon!StopTake

\* What waiting for the process does: it is gone, it is killed, or the deadline passes.
StopConfirms ==
  /\ ~Daemon!Lives(holder.proc) /\ port' = 0 /\ UNCHANGED <<procs, child>>
  /\ \E ok \in BOOLEAN : StopEnds(ok)
StopKills ==
  /\ Daemon!Lives(holder.proc) /\ procs' = [procs EXCEPT ![holder.proc] = "dead"]
  /\ UNCHANGED <<child, port, holder, starter, recovering, exit, hold, carried, at>>
StopFails ==
  /\ Daemon!Lives(holder.proc) /\ child' = holder.proc /\ StopEnds(FALSE)
  /\ UNCHANGED <<procs, port>>
StopWaits ==
  /\ UNCHANGED <<loads, spec, failed, listener, exits, chosen, doubt, superseded, dropped,
                 unseen>>
  /\ holder.step = "wait"
  /\ StopConfirms \/ StopKills \/ StopFails

\* StopWait is such a step.
LEMMA StopWaitDoes ==
  ASSUME DaemonShapes, Daemon!StopWait
  PROVE  StopWaits
<1> USE DEF StopWaits, StopConfirms, StopKills, StopFails
<1>1. /\ UNCHANGED <<loads, spec, failed, listener, exits, chosen, doubt, superseded, dropped,
                        unseen>>
      /\ holder.step = "wait"
  BY DEF Daemon!StopWait, Daemon!options, Daemon!ghosts
<1>2. \A ok \in BOOLEAN : Daemon!Stopped(ok) => StopEnds(ok)
  BY StopOutcome DEF DaemonShapes
<1> QED
  BY <1>1, <1>2 DEF Daemon!StopWait, Daemon!work

\* What a restart does: it launches or fails, and then it answers or is killed.
StartSpawns ==
  /\ UNCHANGED <<child, port, spec, starter, exits, exit, hold, carried, at, chosen, doubt,
                 dropped, unseen>>
  /\ holder.step = "spawn"
  /\ \/ /\ \E p \in Daemon!Procs : Launches(p, spec) /\ HolderGoes("settle", p)
        /\ UNCHANGED <<failed, listener, recovering, superseded>>
     \/ failed' = "start" /\ StartEnds(FALSE) /\ UNCHANGED <<procs, loads>>

\* StartSpawn is such a step.
LEMMA StartSpawnDoes ==
  ASSUME DaemonShapes, Daemon!StartSpawn
  PROVE  StartSpawns
<1> USE DEF StartSpawns
<1>1. /\ UNCHANGED <<child, port, spec, starter, exits, exit, hold, carried, at, chosen, doubt,
                     dropped, unseen>>
      /\ holder.step = "spawn"
  BY DEF Daemon!StartSpawn, Daemon!StartFrame, Daemon!work, Daemon!options
<1>2. CASE /\ Daemon!Launched(spec)
           /\ holder' = [holder EXCEPT !.step = "settle", !.proc = Daemon!Fresh]
           /\ UNCHANGED <<failed, listener, recovering, superseded>>
  <2>1. Launches(Daemon!Fresh, spec)
    BY <1>2, LaunchIsNew
  <2>3. Daemon!Fresh \in Daemon!Procs /\ Daemon!Fresh \in Nat
    BY <2>1 DEF Launches, Daemon!Procs
  <2>2. HolderGoes("settle", Daemon!Fresh)
    BY <1>2, <2>3 DEF HolderGoes, DaemonShapes, ActorShapes, Holders
  <2> QED
    BY <1>1, <1>2, <2>1, <2>2, <2>3
<1>3. CASE failed' = "start" /\ Daemon!Started(FALSE) /\ UNCHANGED Daemon!processes
  BY <1>1, <1>3, StartOutcome DEF DaemonShapes, Daemon!processes
<1> QED
  BY <1>2, <1>3 DEF Daemon!StartSpawn

StartAnswers ==
  /\ Daemon!Answers(holder.proc) /\ port' = holder.proc /\ failed' = "none"
  /\ StartEnds(TRUE) /\ UNCHANGED <<procs, child>>
StartIsKilled ==
  /\ procs' \in [Daemon!Procs -> {"none", "up", "hung", "stopping", "dead"}]
  /\ \A p \in Daemon!Procs : procs'[p] = IF p = child THEN "dead" ELSE procs[p]
  /\ child' = 0
  /\ \/ /\ HolderGoes("spawn", holder.proc)
        /\ UNCHANGED <<port, failed, listener, recovering, superseded>>
     \/ port' = 0 /\ failed' = "start" /\ StartEnds(FALSE)
StartReadies ==
  /\ UNCHANGED <<loads, spec, starter, exits, exit, hold, carried, at, chosen, doubt, dropped,
                 unseen>>
  /\ holder.step = "ready"
  /\ StartAnswers \/ StartIsKilled

\* StartReady is such a step.
LEMMA StartReadyDoes ==
  ASSUME DaemonShapes, Daemon!StartReady
  PROVE  StartReadies
<1> USE DEF StartReadies, StartAnswers, StartIsKilled
<1>1. /\ UNCHANGED <<loads, spec, starter, exits, exit, hold, carried, at, chosen, doubt,
                     dropped, unseen>>
      /\ holder.step = "ready"
  BY DEF Daemon!StartReady, Daemon!StartFrame, Daemon!work, Daemon!options
<1>2. \A ok \in BOOLEAN : Daemon!Started(ok) => StartEnds(ok)
  BY StartOutcome DEF DaemonShapes
<1>3. CASE Daemon!Answers(holder.proc)
  BY <1>1, <1>2, <1>3 DEF Daemon!StartReady
<1>4. CASE ~Daemon!Answers(holder.proc)
  <2>1. /\ procs' \in [Daemon!Procs -> {"none", "up", "hung", "stopping", "dead"}]
        /\ \A p \in Daemon!Procs : procs'[p] = IF p = child THEN "dead" ELSE procs[p]
    BY <1>4 DEF Daemon!StartReady, DaemonShapes, ProcessShapes
  <2>2. holder' = [holder EXCEPT !.step = "spawn"] => HolderGoes("spawn", holder.proc)
    BY DEF HolderGoes, DaemonShapes, ActorShapes, Holders
  <2> QED
    BY <1>1, <1>2, <1>4, <2>1, <2>2 DEF Daemon!StartReady
<1> QED
  BY <1>3, <1>4

\* What a recovery does: it ends, looks into the guard, turns to the next step or takes the lock.
RecoverGivesUp(g) ==
  /\ recovering[g] # "stop" /\ (recovering[g] = "restart" => holder = Daemon!Unheld)
  /\ recovering' = [recovering EXCEPT ![g] = "none"] /\ superseded' = TRUE
  /\ UNCHANGED <<holder, unseen>>
RecoverLooks(g) ==
  /\ recovering[g] = "check" /\ UNCHANGED <<holder, superseded>>
  /\ \/ /\ child # 0 \/ port # 0
        /\ recovering' = [recovering EXCEPT ![g] = "stop"] /\ UNCHANGED unseen
     \/ /\ child = 0 /\ port = 0 /\ recovering' = [recovering EXCEPT ![g] = "again"]
        /\ unseen' \in BOOLEAN /\ (unseen => unseen') /\ (holder.step = "wait" => unseen')
RecoverTurns(g) ==
  /\ UNCHANGED <<holder, unseen, superseded>>
  /\ \/ recovering[g] = "again" /\ recovering' = [recovering EXCEPT ![g] = "restart"]
     \/ /\ recovering[g] = "restart" /\ port # 0 /\ holder = Daemon!Unheld
        /\ recovering' = [recovering EXCEPT ![g] = "none"]
     \/ /\ recovering[g] = "restart" /\ spec = 0 /\ holder = Daemon!Unheld
        /\ recovering' = [recovering EXCEPT ![g] = "check"]
RecoverStarts(g) ==
  /\ recovering[g] = "restart" /\ port = 0 /\ spec # 0 /\ holder = Daemon!Unheld
  /\ holder' = [by |-> "recovery", gen |-> g, step |-> "spawn", proc |-> 0]
  /\ UNCHANGED <<recovering, unseen, superseded>>
Recovers(g) ==
  /\ UNCHANGED <<procs, loads, child, spec, port, failed, starter, listener, exits, exit, hold,
                 carried, at, chosen, doubt, dropped>>
  /\ RecoverGivesUp(g) \/ RecoverLooks(g) \/ RecoverTurns(g) \/ RecoverStarts(g)

\* Recover is such a step.
LEMMA RecoverDoes ==
  ASSUME DaemonShapes, NEW g \in Daemon!Exits, Daemon!Recover(g)
  PROVE  Recovers(g)
<1> USE DEF Recovers, RecoverGivesUp, RecoverLooks, RecoverTurns, RecoverStarts
<1> USE DEF Daemon!Unlocked
<1>1. UNCHANGED <<procs, loads, child, spec, port, failed, starter, listener, exits, exit, hold,
                  carried, at, chosen, doubt, dropped>>
  BY DEF Daemon!Recover, Daemon!processes, Daemon!guarded, Daemon!work, Daemon!options
<1>2. (unseen' = (unseen \/ holder.step = "wait")) =>
        /\ unseen' \in BOOLEAN /\ (unseen => unseen') /\ (holder.step = "wait" => unseen')
  OBVIOUS
<1> QED
  BY <1>1, <1>2 DEF Daemon!Recover, Daemon!Hold

\* What the listener is after a step of its own.
LEMMA ListenerGoes ==
  ASSUME ActorShapes, NEW step \in {"loop", "restart", "leave", "ended", "reconcile", "read",
                                    "probe", "check"}, Daemon!Listens(step)
  PROVE  /\ listener' \in Listeners /\ listener'.step = step
         /\ listener'.proc \in {0, listener.proc}
         /\ step \in {"read", "check"} => listener'.proc = listener.proc
BY DEF ActorShapes, Listeners, Daemon!Listens, Daemon!NotListening

\* What the start of the application does: it launches, adopts and publishes the process.
LaunchFirst ==
  /\ UNCHANGED <<child, spec, port, holder, listener, recovering, exits, exit, hold, carried, at,
                 chosen, doubt, superseded, dropped, unseen>>
  /\ starter.step = "spawn" /\ starter' \in Starters
  /\ \/ /\ \E p \in Daemon!Procs : Launches(p, 1) /\ starter'.proc = p
        /\ starter'.step = "settle" /\ UNCHANGED failed
     \/ /\ starter'.step = "done" /\ starter'.proc = starter.proc /\ failed' = "start"
        /\ UNCHANGED <<procs, loads>>

\* Launch is such a step.
LEMMA LaunchDoes ==
  ASSUME DaemonShapes, Daemon!Launch
  PROVE  LaunchFirst
<1> USE DEF LaunchFirst
<1>1. /\ UNCHANGED <<child, spec, port, holder, listener, recovering, exits, exit, hold, carried,
                     at, chosen, doubt, superseded, dropped, unseen>>
      /\ starter.step = "spawn"
  BY DEF Daemon!Launch, Daemon!StarterFrame, Daemon!work, Daemon!options, Daemon!ghosts
<1>2. CASE /\ Daemon!Launched(1) /\ starter' = [step |-> "settle", proc |-> Daemon!Fresh]
           /\ UNCHANGED failed
  <2>1. Launches(Daemon!Fresh, 1)
    BY <1>2, LaunchIsNew
  <2>2. Daemon!Fresh \in Daemon!Procs /\ Daemon!Fresh \in Nat
    BY <2>1 DEF Launches, Daemon!Procs
  <2>3. starter' \in Starters
    BY <1>2, <2>2 DEF Starters
  <2> QED
    BY <1>1, <1>2, <2>1, <2>2, <2>3
<1>3. CASE Daemon!Starter("done") /\ failed' = "start" /\ UNCHANGED Daemon!processes
  BY <1>1, <1>3 DEF Daemon!Starter, Daemon!processes, DaemonShapes, ActorShapes, Starters
<1> QED
  BY <1>2, <1>3 DEF Daemon!Launch

\* What a change of the option does: the lock, the call, and the note for the next launch.
SetAsks ==
  /\ holder = Daemon!Unheld /\ exit.step = "none" /\ holder' \in Holders
  /\ holder' = [by |-> "setter", gen |-> 0, step |-> "tell", proc |-> 0]
  /\ UNCHANGED <<loads, spec, chosen, doubt>>
SetTells ==
  /\ holder.step = "tell" /\ Daemon!Answers(port) /\ loads' = [loads EXCEPT ![port] = chosen + 1]
  /\ UNCHANGED <<spec, chosen>>
  /\ \/ HolderGoes("note", holder.proc) /\ UNCHANGED doubt
     \/ Frees /\ doubt' = TRUE
SetMisses == holder.step = "tell" /\ Frees /\ UNCHANGED <<loads, spec, chosen, doubt>>
SetNotes ==
  /\ holder.step = "note" /\ Frees /\ spec' = chosen + 1 /\ chosen' = chosen + 1
  /\ UNCHANGED <<loads, doubt>>
Sets ==
  /\ UNCHANGED <<procs, child, port, failed, starter, listener, recovering, exits, exit, hold,
                 carried, at, superseded, dropped, unseen>>
  /\ SetAsks \/ SetTells \/ SetMisses \/ SetNotes

\* SetOption is such a step.
LEMMA SetOptionDoes ==
  ASSUME DaemonShapes, Daemon!SetOption
  PROVE  Sets
<1> USE DEF Daemon!options
<1>1. UNCHANGED <<procs, child, port, failed, starter, listener, recovering, exits, exit, hold,
                  carried, at, superseded, dropped, unseen>>
  BY DEF Daemon!SetOption, Daemon!tasks, Daemon!work, Daemon!ghosts
<1>2. holder' = Daemon!Unheld => Frees
  BY DEF Frees, Holders, Daemon!Unheld
<1>3. holder' = [holder EXCEPT !.step = "note"] => HolderGoes("note", holder.proc)
  BY DEF HolderGoes, Holders, DaemonShapes, ActorShapes
<1>4. Daemon!Hold("setter", 0, "tell") =>
        /\ holder' = [by |-> "setter", gen |-> 0, step |-> "tell", proc |-> 0]
        /\ holder' \in Holders
  BY DEF Daemon!Hold, Holders
<1> QED
  BY <1>1, <1>2, <1>3, <1>4
  DEF Daemon!SetOption, Sets, SetAsks, SetTells, SetMisses, SetNotes, Daemon!Unlocked,
      Daemon!ShuttingDown

\* What an actor is after one field of it changed.
LEMMA FieldsGo ==
  ASSUME ActorShapes
  PROVE  /\ \A step \in {"none", "drain", "media", "stop", "seal", "final", "gone"} :
              [exit EXCEPT !.step = step] \in ExitStates
         /\ \A step \in {"none", "ask", "take", "wait", "spawn", "settle", "ready", "tell",
                        "note"} :
              [holder EXCEPT !.step = step] \in Holders
         /\ \A step \in {"none", "loop", "restart", "reconcile", "read", "leave", "probe",
                        "check", "ended"} :
              [listener EXCEPT !.step = step] \in Listeners
         /\ \A step \in {"spawn", "settle", "ready", "cleanup", "done"} :
              [starter EXCEPT !.step = step] \in Starters
BY DEF ActorShapes, ExitStates, Holders, Listeners, Starters

Adopts ==
  /\ UNCHANGED <<procs, loads, port, holder, listener, recovering, exits, exit, hold, carried, at,
                 chosen, doubt, superseded, dropped, unseen>>
  /\ starter.step = "settle" /\ starter' \in Starters /\ starter'.proc = starter.proc
  /\ \/ /\ ~Daemon!Lives(starter.proc) /\ starter'.step \in {"spawn", "done"}
        /\ failed' \in {failed, "start"} /\ UNCHANGED <<child, spec>>
     \/ /\ Daemon!Lives(starter.proc) /\ child' = starter.proc /\ spec' = loads[starter.proc]
        /\ starter'.step = "ready" /\ UNCHANGED failed

\* Adopt is such a step.
LEMMA AdoptDoes ==
  ASSUME DaemonShapes, Daemon!Adopt
  PROVE  Adopts
<1>1. \A step \in {"spawn", "settle", "ready", "cleanup", "done"} :
        Daemon!Starter(step) =>
          starter' \in Starters /\ starter'.proc = starter.proc /\ starter'.step = step
  BY DEF Daemon!Starter, DaemonShapes, ActorShapes, Starters
<1>2. UNCHANGED <<procs, loads, port, holder, listener, recovering, exits, exit, hold, carried,
                  at, chosen, doubt, superseded, dropped, unseen>>
  BY DEF Daemon!Adopt, Daemon!StarterFrame, Daemon!processes, Daemon!work, Daemon!options,
     Daemon!ghosts
<1> QED
  BY <1>1, <1>2 DEF Daemon!Adopt, Adopts, Daemon!Lives

Publishes ==
  /\ UNCHANGED <<procs, loads, child, spec, holder, recovering, exits, exit, hold, carried, at,
                 chosen, doubt, superseded, dropped, unseen>>
  /\ starter.step = "ready" /\ starter' \in Starters /\ starter'.proc = starter.proc
  /\ \/ /\ Daemon!Answers(starter.proc) /\ port' = starter.proc /\ failed' = "none"
        /\ starter'.step = "done" /\ listener' \in Listeners /\ listener'.step = "loop"
        /\ listener'.proc = listener.proc
     \/ starter'.step = "cleanup" /\ failed' = "start" /\ UNCHANGED <<port, listener>>

\* Publish is such a step.
LEMMA PublishDoes ==
  ASSUME DaemonShapes, Daemon!Publish
  PROVE  Publishes
<1>1. \A step \in {"spawn", "settle", "ready", "cleanup", "done"} :
        Daemon!Starter(step) =>
          starter' \in Starters /\ starter'.proc = starter.proc /\ starter'.step = step
  BY DEF Daemon!Starter, DaemonShapes, ActorShapes, Starters
<1>2. UNCHANGED <<procs, loads, child, spec, holder, recovering, exits, exit, hold, carried, at,
                  chosen, doubt, superseded, dropped, unseen>>
  BY DEF Daemon!Publish, Daemon!StarterFrame, Daemon!processes, Daemon!work, Daemon!options,
     Daemon!ghosts
<1>3. listener' = [listener EXCEPT !.step = "loop"] =>
        listener' \in Listeners /\ listener'.step = "loop" /\ listener'.proc = listener.proc
  BY DEF DaemonShapes, ActorShapes, Listeners
<1> QED
  BY <1>1, <1>2, <1>3 DEF Daemon!Publish, Publishes

\* How an exit ends, and how it is rejected.
ExitGoes(step) ==
  exit' \in ExitStates /\ exit'.step = step /\ exit'.held = exit.held
Finishes ==
  /\ UNCHANGED <<procs, loads, child, spec, port, failed, holder, listener, exits, chosen, doubt,
                 superseded, dropped, unseen>>
  /\ \/ /\ exit.step = "seal" /\ ExitGoes("final")
        /\ UNCHANGED <<starter, recovering, hold, carried, at>>
     \/ /\ exit.step = "final" /\ ExitGoes("gone")
        /\ UNCHANGED <<starter, recovering, hold, carried, at>>
     \/ /\ exit.step \in {"stop", "seal", "final"} /\ Blocks
        /\ exit.step = "stop" => holder.by # "exit"

\* Finish is such a step.
LEMMA FinishDoes ==
  ASSUME DaemonShapes, Daemon!Finish \/ Daemon!TooLate
  PROVE  Finishes
<1>1. \A step \in {"none", "final", "gone"} :
        exit' = [exit EXCEPT !.step = step] => ExitGoes(step)
  BY DEF ExitGoes, DaemonShapes, ActorShapes, ExitStates
<1>2. UNCHANGED <<procs, loads, child, spec, port, failed, holder, listener, exits, chosen, doubt,
                  superseded, dropped, unseen>>
  BY DEF Daemon!Finish, Daemon!TooLate, Daemon!processes, Daemon!guarded, Daemon!options,
     Daemon!ghosts
<1>3. Daemon!Blocked => Blocks
  BY <1>1 DEF Daemon!Blocked, Blocks, ExitGoes
<1> QED
  BY <1>1, <1>2, <1>3 DEF Daemon!Finish, Daemon!TooLate, Finishes, Daemon!work

\* What the exit does before it stops the daemon.
Drains ==
  /\ UNCHANGED <<procs, loads, child, spec, port, failed, holder, starter, listener, recovering,
                 exits, carried, at, chosen, doubt, superseded, dropped, unseen>>
  /\ exit.step \in {"drain", "media"} /\ exit' \in ExitStates
  /\ exit'.step \in {"none", "stop", "media"}

\* Drain is such a step.
LEMMA DrainDoes ==
  ASSUME DaemonShapes, Daemon!Drain
  PROVE  Drains
<1>1. UNCHANGED <<procs, loads, child, spec, port, failed, holder, starter, listener, recovering,
                  exits, carried, at, chosen, doubt, superseded, dropped, unseen>>
  BY DEF Daemon!Drain, Daemon!ExitFrame, Daemon!processes, Daemon!guarded, Daemon!options,
     Daemon!ghosts
<1>2. hold \in BOOLEAN
  BY DEF DaemonShapes, FlagShapes
<1>3. /\ [step |-> "media", held |-> hold] \in ExitStates
      /\ [step |-> "none", held |-> FALSE] \in ExitStates
      /\ \A step \in {"none", "stop"} :
           /\ [exit EXCEPT !.step = step] \in ExitStates
           /\ [exit EXCEPT !.step = step].step = step
  BY <1>2 DEF ExitStates, DaemonShapes, ActorShapes
<1>4. \/ exit.step = "drain" /\ exit' = [exit EXCEPT !.step = "none"]
      \/ exit.step = "drain" /\ exit' = [exit EXCEPT !.step = "stop"]
      \/ exit.step = "drain" /\ exit' = [step |-> "media", held |-> hold]
      \/ exit.step = "media" /\ exit' = [step |-> "none", held |-> FALSE]
  BY DEF Daemon!Drain
<1>5. exit' \in ExitStates /\ exit'.step \in {"none", "stop", "media"}
  <2>1. CASE \E step \in {"none", "stop"} : exit' = [exit EXCEPT !.step = step]
    BY <1>3, <2>1
  <2>2. CASE exit' = [step |-> "media", held |-> hold]
    BY <1>3, <2>2
  <2>3. CASE exit' = [step |-> "none", held |-> FALSE]
    BY <1>3, <2>3
  <2> QED
    BY <1>4, <2>1, <2>2, <2>3
<1> QED
  BY <1>1, <1>4, <1>5 DEF Drains

\* The processes keep their types.
LEMMA NextProcessShapes ==
  ASSUME DaemonBounds, DaemonInvariant, [Daemon!Next]_(Daemon!dvars)
  PROVE  ProcessShapes'
<1> USE DEF DaemonInvariant, DaemonShapes, ProcessShapes, ActorShapes, Holders, Listeners,
   DaemonBounds, HolderIsKnown, LockIsWorth, Stopping, Starting, EveryoneIsLaunched, Known,
   FlagShapes, Daemon!processes, Daemon!guarded, Daemon!work, Daemon!options, Daemon!tasks,
   Daemon!ghosts, Daemon!StarterFrame, Daemon!StartFrame, Daemon!ExitFrame, Daemon!ListenFrame,
   Daemon!Smooth, Daemon!Trouble, Daemon!Procs, Daemon!Exits, Daemon!Unheld, Daemon!ShuttingDown,
   Daemon!Current, Daemon!Lives
<1>1. CASE Daemon!Falter
  BY <1>1 DEF Daemon!Falter, Daemon!Answers
<1>2. CASE Daemon!Launch
  BY <1>2, LaunchDoes, LaunchChanges DEF LaunchFirst
<1>3. CASE Daemon!Adopt
  BY <1>3, AdoptDoes DEF Adopts
<1>4. CASE Daemon!Publish
  BY <1>4, PublishDoes DEF Publishes, Daemon!Answers
<1>5. CASE Daemon!StopBegins
  BY <1>5 DEF Daemon!StopBegins, Daemon!Hold, Daemon!Unlocked
<1>6. CASE Daemon!StopAsk
  BY SMTT(30), <1>6 DEF Daemon!StopAsk, Daemon!Answers
<1>7. CASE Daemon!StopTake
  BY <1>7, StopTakeDoes DEF StopTakes, StopEnds, Frees, Blocks, HolderGoes
<1>8. CASE Daemon!StopWait
  BY <1>8, StopWaitDoes DEF StopWaits, StopKills, StopConfirms, StopFails, StopEnds, Frees, Blocks
<1>9. CASE Daemon!StartSpawn
  BY <1>9, StartSpawnDoes, LaunchChanges DEF StartSpawns, StartEnds, Frees, HolderGoes
<1>10. CASE Daemon!StartSettle
  BY <1>10 DEF Daemon!StartSettle, Daemon!StartsFor, Daemon!Answers
<1>11. CASE Daemon!StartReady
  BY <1>11, StartReadyDoes DEF StartReadies, StartAnswers, StartIsKilled, StartEnds, Frees,
       HolderGoes
<1>12. CASE Daemon!AskExit
  BY <1>12 DEF Daemon!AskExit
<1>13. CASE Daemon!Drain
  BY <1>13 DEF Daemon!Drain
<1>14. CASE Daemon!TooLate
  BY <1>14 DEF Daemon!TooLate, Daemon!Blocked
<1>15. CASE Daemon!Finish
  BY <1>15, FinishDoes DEF Finishes, Blocks, ExitGoes
<1>16. CASE \E g \in Daemon!Exits : Daemon!Recover(g)
  BY <1>16, RecoverDoes DEF Recovers, RecoverGivesUp, RecoverLooks, RecoverTurns, RecoverStarts
<1>17. CASE Daemon!ListenRestart
  BY <1>17, ListenerGoes DEF Daemon!ListenRestart, Daemon!Unlocked, Daemon!Hold
<1>18. CASE Daemon!Connect
  BY <1>18, ListenerGoes DEF Daemon!Connect, Daemon!Answers
<1>19. CASE Daemon!Reconcile
  BY <1>19, ListenerGoes DEF Daemon!Reconcile, Daemon!Answers
<1>20. CASE Daemon!HangUp
  BY <1>20, ListenerGoes DEF Daemon!HangUp, Daemon!Answers
<1>21. CASE Daemon!Leave
  BY <1>21, ListenerGoes DEF Daemon!Leave, Daemon!Answers
<1>22. CASE Daemon!GivesUp
  BY <1>22, ListenerGoes DEF Daemon!GivesUp, Daemon!ProcessExited, Daemon!Answers
<1>23. CASE Daemon!Work
  BY <1>23 DEF Daemon!Work, Daemon!Answers
<1>24. CASE Daemon!SetOption
  <2>1. Sets
    BY <1>24, SetOptionDoes
  <2>2. CASE SetAsks
    BY <2>1, <2>2 DEF Sets, SetAsks
  <2>3. CASE SetTells
    BY <2>1, <2>3 DEF Sets, SetTells, HolderGoes, Frees, Daemon!Answers
  <2>4. CASE SetMisses
    BY <2>1, <2>4 DEF Sets, SetMisses, Frees
  <2>5. CASE SetNotes
    BY <2>1, <2>5 DEF Sets, SetNotes, Frees
  <2> QED
    BY <2>1, <2>2, <2>3, <2>4, <2>5 DEF Sets
<1>25. CASE UNCHANGED Daemon!dvars
  BY <1>25 DEF Daemon!dvars
<1> QED
  BY <1>1, <1>2, <1>3, <1>4, <1>5, <1>6, <1>7, <1>8, <1>9, <1>10, <1>11, <1>12, <1>13, <1>14,
     <1>15, <1>16, <1>17, <1>18, <1>19, <1>20, <1>21, <1>22, <1>23, <1>24, <1>25 DEF Daemon!Next

\* So do the four that act on them.
LEMMA NextActorShapes ==
  ASSUME DaemonBounds, DaemonInvariant, [Daemon!Next]_(Daemon!dvars)
  PROVE  ActorShapes'
<1> USE DEF DaemonInvariant, DaemonShapes, ProcessShapes, ActorShapes, Holders, Listeners,
   DaemonBounds, HolderIsKnown, LockIsWorth, Stopping, Starting, EveryoneIsLaunched, Known,
   FlagShapes, Starters, ExitStates, Daemon!processes, Daemon!guarded, Daemon!work,
   Daemon!options, Daemon!tasks, Daemon!ghosts, Daemon!StarterFrame, Daemon!StartFrame,
   Daemon!ExitFrame, Daemon!ListenFrame, Daemon!Smooth, Daemon!Trouble, Daemon!Procs,
   Daemon!Exits, Daemon!Unheld, Daemon!ShuttingDown, Daemon!Current, Daemon!Lives
<1>1. CASE Daemon!Falter
  BY <1>1 DEF Daemon!Falter, Daemon!Answers
<1>2. CASE Daemon!Launch
  BY <1>2, LaunchDoes, LaunchChanges DEF LaunchFirst
<1>3. CASE Daemon!Adopt
  BY <1>3, AdoptDoes DEF Adopts
<1>4. CASE Daemon!Publish
  BY <1>4, PublishDoes DEF Publishes, Daemon!Answers
<1>5. CASE Daemon!StopBegins
  BY <1>5 DEF Daemon!StopBegins, Daemon!Hold, Daemon!Unlocked
<1>6. CASE Daemon!StopAsk
  BY <1>6 DEF Daemon!StopAsk, Daemon!Answers
<1>7. CASE Daemon!StopTake
  <2>1. StopTakes
    BY <1>7, StopTakeDoes
  <2>2. CASE child # 0
    BY <2>1, <2>2 DEF StopTakes, HolderGoes
  <2>3. CASE child = 0 /\ holder.by = "starter"
    BY <2>1, <2>3 DEF StopTakes, StopEnds, Frees
  <2>4. CASE child = 0 /\ holder.by = "recovery"
    BY <2>1, <2>4 DEF StopTakes, StopEnds, Frees
  <2>5. CASE child = 0 /\ holder.by = "exit"
    BY <2>1, <2>5 DEF StopTakes, StopEnds, Frees, Blocks
  <2> QED
    BY <2>1, <2>2, <2>3, <2>4, <2>5 DEF StopTakes, StopEnds
<1>8. CASE Daemon!StopWait
  <2>1. StopWaits
    BY <1>8, StopWaitDoes
  <2>2. CASE StopKills
    BY <2>2, <2>1 DEF StopKills, StopWaits
  <2>3. CASE StopConfirms
    <3>1. CASE holder.by = "starter"
      BY <2>1, <2>3, <3>1 DEF StopWaits, StopConfirms, StopEnds, Frees
    <3>2. CASE holder.by = "recovery"
      BY <2>1, <2>3, <3>2 DEF StopWaits, StopConfirms, StopEnds, Frees
    <3>3. CASE holder.by = "exit"
      BY <2>1, <2>3, <3>3 DEF StopWaits, StopConfirms, StopEnds, Frees, Blocks
    <3> QED
      BY <2>3, <3>1, <3>2, <3>3 DEF StopConfirms, StopEnds
  <2>4. CASE StopFails
    <3>1. CASE holder.by = "starter"
      BY <2>1, <2>4, <3>1 DEF StopWaits, StopFails, StopEnds, Frees
    <3>2. CASE holder.by = "recovery"
      BY <2>1, <2>4, <3>2 DEF StopWaits, StopFails, StopEnds, Frees
    <3>3. CASE holder.by = "exit"
      BY <2>1, <2>4, <3>3 DEF StopWaits, StopFails, StopEnds, Frees, Blocks
    <3> QED
      BY <2>4, <3>1, <3>2, <3>3 DEF StopFails, StopEnds
  <2> QED
    BY <2>1, <2>2, <2>3, <2>4 DEF StopWaits
<1>9. CASE Daemon!StartSpawn
  BY SMTT(30), <1>9, StartSpawnDoes, LaunchChanges DEF StartSpawns, StartEnds, Frees, HolderGoes
<1>10. CASE Daemon!StartSettle
  BY <1>10 DEF Daemon!StartSettle, Daemon!StartsFor, Daemon!Answers
<1>11. CASE Daemon!StartReady
  <2>1. StartReadies
    BY <1>11, StartReadyDoes
  <2>2. CASE StartAnswers
    <3>1. CASE holder.by = "listener"
      BY <2>1, <2>2, <3>1 DEF StartReadies, StartAnswers, StartEnds, Frees
    <3>2. CASE holder.by = "recovery"
      BY <2>1, <2>2, <3>2 DEF StartReadies, StartAnswers, StartEnds, Frees
    <3> QED
      BY <2>2, <3>1, <3>2 DEF StartAnswers, StartEnds
  <2>3. CASE StartIsKilled
    <3>1. CASE HolderGoes("spawn", holder.proc)
      BY <2>1, <2>3, <3>1 DEF StartReadies, StartIsKilled, HolderGoes, StartEnds, Frees
    <3>2. CASE holder.by = "listener" /\ StartEnds(FALSE)
      BY <2>1, <2>3, <3>2 DEF StartReadies, StartIsKilled, StartEnds, Frees, HolderGoes
    <3>3. CASE holder.by = "recovery" /\ StartEnds(FALSE)
      BY <2>1, <2>3, <3>3 DEF StartReadies, StartIsKilled, StartEnds, Frees, HolderGoes
    <3> QED
      BY <2>3, <3>1, <3>2, <3>3 DEF StartIsKilled, StartEnds
  <2> QED
    BY <2>1, <2>2, <2>3 DEF StartReadies
<1>12. CASE Daemon!AskExit
  BY <1>12 DEF Daemon!AskExit
<1>13. CASE Daemon!Drain
  BY <1>13, DrainDoes DEF Drains
<1>14. CASE Daemon!TooLate
  <2>1. Finishes
    BY <1>14, FinishDoes
  <2>2. CASE Blocks
    <3>1. exits \in Daemon!Exits
      BY <2>1, <2>2 DEF Finishes, HolderIsKnown, ExitGoes
    <3>2. /\ recovering' \in [Daemon!Exits -> {"none", "check", "stop", "again", "restart"}]
          /\ recovering'[exits] = "check"
          /\ \A g \in Daemon!Exits : g # exits => recovering'[g] = recovering[g]
      BY <2>2, <3>1 DEF Blocks
    <3> QED
      BY <2>1, <2>2, <3>1, <3>2 DEF Finishes, Blocks, ExitGoes
  <2>3. CASE ~Blocks
    BY <2>1, <2>3 DEF Finishes, ExitGoes
  <2> QED
    BY <2>2, <2>3
<1>15. CASE Daemon!Finish
  BY <1>15, FinishDoes DEF Finishes, Blocks, ExitGoes
<1>16. CASE \E g \in Daemon!Exits : Daemon!Recover(g)
  <2>1. PICK g \in Daemon!Exits : Daemon!Recover(g)
    BY <1>16
  <2>2. Recovers(g)
    BY <2>1, RecoverDoes
  <2>3. CASE RecoverGivesUp(g)
    BY <2>2, <2>3 DEF Recovers, RecoverGivesUp
  <2>4. CASE RecoverLooks(g)
    BY <2>2, <2>4 DEF Recovers, RecoverLooks
  <2>5. CASE RecoverTurns(g)
    BY <2>2, <2>5 DEF Recovers, RecoverTurns
  <2>6. CASE RecoverStarts(g)
    BY <2>2, <2>6 DEF Recovers, RecoverStarts
  <2> QED
    BY <2>2, <2>3, <2>4, <2>5, <2>6 DEF Recovers
<1>17. CASE Daemon!ListenRestart
  BY <1>17, ListenerGoes DEF Daemon!ListenRestart, Daemon!Unlocked, Daemon!Hold
<1>18. CASE Daemon!Connect
  BY <1>18, ListenerGoes DEF Daemon!Connect, Daemon!Answers
<1>19. CASE Daemon!Reconcile
  BY <1>19, ListenerGoes DEF Daemon!Reconcile, Daemon!Answers
<1>20. CASE Daemon!HangUp
  BY <1>20, ListenerGoes DEF Daemon!HangUp, Daemon!Answers
<1>21. CASE Daemon!Leave
  <2>1. UNCHANGED <<holder, starter, recovering, exits, exit>>
    BY <1>21 DEF Daemon!Leave, Daemon!Answers
  <2>2. listener' \in Listeners
    <3>1. port \in Nat
      OBVIOUS
    <3>2. [listener EXCEPT !.step = "probe", !.proc = port] \in Listeners
      BY <3>1
    <3> QED
      BY <1>21, <3>2, ListenerGoes DEF Daemon!Leave, Daemon!Answers
  <2> QED
    BY <2>1, <2>2
<1>22. CASE Daemon!GivesUp
  BY <1>22, ListenerGoes DEF Daemon!GivesUp, Daemon!ProcessExited, Daemon!Answers
<1>23. CASE Daemon!Work
  BY <1>23 DEF Daemon!Work, Daemon!Answers
<1>24. CASE Daemon!SetOption
  BY <1>24, SetOptionDoes DEF Sets, SetAsks, SetTells, SetMisses, SetNotes, HolderGoes, Frees
<1>25. CASE UNCHANGED Daemon!dvars
  BY <1>25 DEF Daemon!dvars
<1> QED
  BY <1>1, <1>2, <1>3, <1>4, <1>5, <1>6, <1>7, <1>8, <1>9, <1>10, <1>11, <1>12, <1>13, <1>14,
     <1>15, <1>16, <1>17, <1>18, <1>19, <1>20, <1>21, <1>22, <1>23, <1>24, <1>25 DEF Daemon!Next

\* So do the flags.
LEMMA NextFlagShapes ==
  ASSUME DaemonBounds, DaemonInvariant, [Daemon!Next]_(Daemon!dvars)
  PROVE  FlagShapes'
<1> USE DEF DaemonInvariant, DaemonShapes, ProcessShapes, ActorShapes, Holders, Listeners,
   DaemonBounds, FlagShapes, EveryoneIsLaunched, Known, HolderIsKnown, LockIsWorth, Stopping,
   Starting, Daemon!processes, Daemon!guarded, Daemon!work, Daemon!options, Daemon!tasks,
   Daemon!ghosts, Daemon!StarterFrame, Daemon!StartFrame, Daemon!ExitFrame, Daemon!ListenFrame,
   Daemon!Smooth, Daemon!Trouble, Daemon!Procs, Daemon!Exits, Daemon!Unheld, Daemon!ShuttingDown,
   Daemon!Current, Daemon!Lives
<1>1. CASE Daemon!Falter
  BY <1>1 DEF Daemon!Falter, Daemon!Answers
<1>2. CASE Daemon!Launch
  BY SMTT(30), <1>2, LaunchDoes, LaunchChanges DEF LaunchFirst
<1>3. CASE Daemon!Adopt
  BY <1>3, AdoptDoes DEF Adopts
<1>4. CASE Daemon!Publish
  BY <1>4, PublishDoes DEF Publishes, Daemon!Answers
<1>5. CASE Daemon!StopBegins
  BY <1>5 DEF Daemon!StopBegins, Daemon!Hold, Daemon!Unlocked
<1>6. CASE Daemon!StopAsk
  BY <1>6 DEF Daemon!StopAsk, Daemon!Answers
<1>7. CASE Daemon!StopTake
  <2>1. StopTakes
    BY <1>7, StopTakeDoes
  <2>2. CASE child # 0
    BY <2>1, <2>2 DEF StopTakes, HolderGoes
  <2>3. CASE child = 0 /\ holder.by = "starter"
    BY <2>1, <2>3 DEF StopTakes, StopEnds, Frees
  <2>4. CASE child = 0 /\ holder.by = "recovery"
    BY <2>1, <2>4 DEF StopTakes, StopEnds, Frees
  <2>5. CASE child = 0 /\ holder.by = "exit"
    BY <2>1, <2>5 DEF StopTakes, StopEnds, Frees, Blocks
  <2> QED
    BY <2>1, <2>2, <2>3, <2>4, <2>5 DEF StopTakes, StopEnds
<1>8. CASE Daemon!StopWait
  BY <1>8, StopWaitDoes DEF StopWaits, StopKills, StopConfirms, StopFails, StopEnds, Frees, Blocks
<1>9. CASE Daemon!StartSpawn
  <2>1. StartSpawns
    BY <1>9, StartSpawnDoes
  <2>2. CASE failed' = "start" /\ StartEnds(FALSE) /\ UNCHANGED <<procs, loads>>
    <3>1. CASE holder.by = "listener"
      BY <2>1, <2>2, <3>1 DEF StartSpawns, StartEnds, Frees
    <3>2. CASE holder.by = "recovery"
      BY <2>1, <2>2, <3>2 DEF StartSpawns, StartEnds, Frees
    <3> QED
      BY <2>2, <3>1, <3>2 DEF StartEnds
  <2>3. ASSUME NEW p \in Daemon!Procs, Launches(p, spec), HolderGoes("settle", p),
               UNCHANGED <<failed, listener, recovering, superseded>>
        PROVE  FlagShapes'
    <3>1. spec \in Nat
      BY DEF FlagShapes
    <3>2. /\ procs' \in [Daemon!Procs -> {"none", "up", "hung", "stopping", "dead"}]
          /\ loads' \in [Daemon!Procs -> Nat] /\ procs[p] = "none"
          /\ procs'[p] \in {"up", "hung"} /\ loads'[p] = spec
          /\ \A q \in Daemon!Procs : q # p => procs'[q] = procs[q] /\ loads'[q] = loads[q]
      BY <2>3, <3>1, LaunchChanges
    <3> QED
      BY <2>1, <2>3, <3>2 DEF StartSpawns, HolderGoes
  <2> QED
    BY <2>1, <2>2, <2>3 DEF StartSpawns
<1>10. CASE Daemon!StartSettle
  BY <1>10 DEF Daemon!StartSettle, Daemon!StartsFor, Daemon!Answers
<1>11. CASE Daemon!StartReady
  BY SMTT(30), <1>11, StartReadyDoes DEF StartReadies, StartAnswers, StartIsKilled, StartEnds,
     Frees,
       HolderGoes
<1>12. CASE Daemon!AskExit
  BY <1>12 DEF Daemon!AskExit
<1>13. CASE Daemon!Drain
  BY <1>13 DEF Daemon!Drain
<1>14. CASE Daemon!TooLate
  BY <1>14 DEF Daemon!TooLate, Daemon!Blocked
<1>15. CASE Daemon!Finish
  BY ZenonT(60), <1>15, FinishDoes DEF Finishes, Blocks, ExitGoes
<1>16. CASE \E g \in Daemon!Exits : Daemon!Recover(g)
  BY ZenonT(60), <1>16, RecoverDoes DEF Recovers, RecoverGivesUp, RecoverLooks, RecoverTurns,
     RecoverStarts
<1>17. CASE Daemon!ListenRestart
  BY <1>17, ListenerGoes DEF Daemon!ListenRestart, Daemon!Unlocked, Daemon!Hold
<1>18. CASE Daemon!Connect
  BY <1>18, ListenerGoes DEF Daemon!Connect, Daemon!Answers
<1>19. CASE Daemon!Reconcile
  BY <1>19, ListenerGoes DEF Daemon!Reconcile, Daemon!Answers
<1>20. CASE Daemon!HangUp
  BY <1>20, ListenerGoes DEF Daemon!HangUp, Daemon!Answers
<1>21. CASE Daemon!Leave
  BY <1>21, ListenerGoes DEF Daemon!Leave, Daemon!Answers
<1>22. CASE Daemon!GivesUp
  BY <1>22, ListenerGoes DEF Daemon!GivesUp, Daemon!ProcessExited, Daemon!Answers
<1>23. CASE Daemon!Work
  BY <1>23 DEF Daemon!Work, Daemon!Answers
<1>24. CASE Daemon!SetOption
  <2>1. Sets
    BY <1>24, SetOptionDoes
  <2>2. CASE SetAsks
    BY <2>1, <2>2 DEF Sets, SetAsks
  <2>3. CASE SetTells
    BY <2>1, <2>3 DEF Sets, SetTells, HolderGoes, Frees, Daemon!Answers
  <2>4. CASE SetMisses
    BY <2>1, <2>4 DEF Sets, SetMisses, Frees
  <2>5. CASE SetNotes
    BY <2>1, <2>5 DEF Sets, SetNotes, Frees
  <2> QED
    BY <2>1, <2>2, <2>3, <2>4, <2>5 DEF Sets
<1>25. CASE UNCHANGED Daemon!dvars
  BY <1>25 DEF Daemon!dvars
<1> QED
  BY <1>1, <1>2, <1>3, <1>4, <1>5, <1>6, <1>7, <1>8, <1>9, <1>10, <1>11, <1>12, <1>13, <1>14,
     <1>15, <1>16, <1>17, <1>18, <1>19, <1>20, <1>21, <1>22, <1>23, <1>24, <1>25 DEF Daemon!Next

\* A handle, a port and a transfer come from a launch.
LEMMA NextEveryoneIsLaunched ==
  ASSUME DaemonBounds, DaemonInvariant, [Daemon!Next]_(Daemon!dvars)
  PROVE  EveryoneIsLaunched'
<1> USE DEF DaemonInvariant, DaemonShapes, ProcessShapes, ActorShapes, Holders, Listeners,
   DaemonBounds, EveryoneIsLaunched, Known, HolderIsKnown, LockIsWorth, Stopping, Starting,
   Daemon!processes, Daemon!guarded, Daemon!work, Daemon!options, Daemon!tasks, Daemon!ghosts,
   Daemon!StarterFrame, Daemon!StartFrame, Daemon!ExitFrame, Daemon!ListenFrame, Daemon!Smooth,
   Daemon!Trouble, Daemon!Procs, Daemon!Exits, Daemon!Unheld, Daemon!ShuttingDown, Daemon!Current,
   Daemon!Lives
<1>1. CASE Daemon!Falter
  BY ZenonT(60), <1>1 DEF Daemon!Falter, Daemon!Answers
<1>2. CASE Daemon!Launch
  <2>1. LaunchFirst
    BY <1>2, LaunchDoes
  <2>2. ASSUME NEW p \in Daemon!Procs, Launches(p, 1), starter'.proc = p,
               starter'.step = "settle", UNCHANGED failed
        PROVE  EveryoneIsLaunched'
    <3>1. /\ procs' \in [Daemon!Procs -> {"none", "up", "hung", "stopping", "dead"}]
          /\ loads' \in [Daemon!Procs -> Nat] /\ procs[p] = "none"
          /\ procs'[p] \in {"up", "hung"} /\ loads'[p] = 1
          /\ \A q \in Daemon!Procs : q # p => procs'[q] = procs[q] /\ loads'[q] = loads[q]
      BY <2>2, LaunchChanges
    <3> QED
      BY <2>1, <2>2, <3>1 DEF LaunchFirst
  <2>3. CASE /\ starter'.step = "done" /\ starter'.proc = starter.proc /\ failed' = "start"
             /\ UNCHANGED <<procs, loads>>
    BY <2>1, <2>3 DEF LaunchFirst
  <2> QED
    BY <2>1, <2>2, <2>3 DEF LaunchFirst
<1>3. CASE Daemon!Adopt
  BY ZenonT(60), <1>3, AdoptDoes DEF Adopts
<1>4. CASE Daemon!Publish
  BY ZenonT(60), <1>4, PublishDoes DEF Publishes, Daemon!Answers
<1>5. CASE Daemon!StopBegins
  BY <1>5 DEF Daemon!StopBegins, Daemon!Hold, Daemon!Unlocked
<1>6. CASE Daemon!StopAsk
  BY ZenonT(60), <1>6 DEF Daemon!StopAsk, Daemon!Answers
<1>7. CASE Daemon!StopTake
  BY ZenonT(60), <1>7, StopTakeDoes DEF StopTakes, StopEnds, Frees, Blocks, HolderGoes
<1>8. CASE Daemon!StopWait
  <2>1. StopWaits
    BY <1>8, StopWaitDoes
  <2>2. CASE StopKills
    BY <2>2, <2>1 DEF StopKills, StopWaits
  <2>3. CASE StopConfirms
    <3>1. CASE holder.by = "starter"
      BY <2>1, <2>3, <3>1 DEF StopWaits, StopConfirms, StopEnds, Frees
    <3>2. CASE holder.by = "recovery"
      BY <2>1, <2>3, <3>2 DEF StopWaits, StopConfirms, StopEnds, Frees
    <3>3. CASE holder.by = "exit"
      BY <2>1, <2>3, <3>3 DEF StopWaits, StopConfirms, StopEnds, Frees, Blocks
    <3> QED
      BY <2>3, <3>1, <3>2, <3>3 DEF StopConfirms, StopEnds
  <2>4. CASE StopFails
    <3>1. CASE holder.by = "starter"
      BY <2>1, <2>4, <3>1 DEF StopWaits, StopFails, StopEnds, Frees
    <3>2. CASE holder.by = "recovery"
      BY <2>1, <2>4, <3>2 DEF StopWaits, StopFails, StopEnds, Frees
    <3>3. CASE holder.by = "exit"
      BY <2>1, <2>4, <3>3 DEF StopWaits, StopFails, StopEnds, Frees, Blocks
    <3> QED
      BY <2>4, <3>1, <3>2, <3>3 DEF StopFails, StopEnds
  <2> QED
    BY <2>1, <2>2, <2>3, <2>4 DEF StopWaits
<1>9. CASE Daemon!StartSpawn
  <2>1. StartSpawns
    BY <1>9, StartSpawnDoes
  <2>2. CASE failed' = "start" /\ StartEnds(FALSE) /\ UNCHANGED <<procs, loads>>
    <3>1. CASE holder.by = "listener"
      BY <2>1, <2>2, <3>1 DEF StartSpawns, StartEnds, Frees
    <3>2. CASE holder.by = "recovery"
      BY <2>1, <2>2, <3>2 DEF StartSpawns, StartEnds, Frees
    <3> QED
      BY <2>2, <3>1, <3>2 DEF StartEnds
  <2>3. ASSUME NEW p \in Daemon!Procs, Launches(p, spec), HolderGoes("settle", p),
               UNCHANGED <<failed, listener, recovering, superseded>>
        PROVE  EveryoneIsLaunched'
    <3>1. spec \in Nat
      BY DEF FlagShapes
    <3>2. /\ procs' \in [Daemon!Procs -> {"none", "up", "hung", "stopping", "dead"}]
          /\ loads' \in [Daemon!Procs -> Nat] /\ procs[p] = "none"
          /\ procs'[p] \in {"up", "hung"} /\ loads'[p] = spec
          /\ \A q \in Daemon!Procs : q # p => procs'[q] = procs[q] /\ loads'[q] = loads[q]
      BY SMTT(30), <2>3, <3>1, LaunchChanges
    <3> QED
      BY <2>1, <2>3, <3>2 DEF StartSpawns, HolderGoes
  <2> QED
    BY <2>1, <2>2, <2>3 DEF StartSpawns
<1>10. CASE Daemon!StartSettle
  BY <1>10 DEF Daemon!StartSettle, Daemon!StartsFor, Daemon!Answers
<1>11. CASE Daemon!StartReady
  <2>1. StartReadies
    BY <1>11, StartReadyDoes
  <2>2. CASE StartAnswers
    <3>1. CASE holder.by = "listener"
      BY <2>1, <2>2, <3>1 DEF StartReadies, StartAnswers, StartEnds, Frees
    <3>2. CASE holder.by = "recovery"
      BY <2>1, <2>2, <3>2 DEF StartReadies, StartAnswers, StartEnds, Frees
    <3> QED
      BY <2>2, <3>1, <3>2 DEF StartAnswers, StartEnds
  <2>3. CASE StartIsKilled
    <3>1. CASE HolderGoes("spawn", holder.proc)
      BY <2>1, <2>3, <3>1 DEF StartReadies, StartIsKilled, HolderGoes, StartEnds, Frees
    <3>2. CASE holder.by = "listener" /\ StartEnds(FALSE)
      BY <2>1, <2>3, <3>2 DEF StartReadies, StartIsKilled, StartEnds, Frees, HolderGoes
    <3>3. CASE holder.by = "recovery" /\ StartEnds(FALSE)
      BY <2>1, <2>3, <3>3 DEF StartReadies, StartIsKilled, StartEnds, Frees, HolderGoes
    <3> QED
      BY <2>3, <3>1, <3>2, <3>3 DEF StartIsKilled, StartEnds
  <2> QED
    BY <2>1, <2>2, <2>3 DEF StartReadies
<1>12. CASE Daemon!AskExit
  BY <1>12 DEF Daemon!AskExit
<1>13. CASE Daemon!Drain
  BY <1>13 DEF Daemon!Drain
<1>14. CASE Daemon!TooLate
  BY <1>14 DEF Daemon!TooLate, Daemon!Blocked
<1>15. CASE Daemon!Finish
  BY ZenonT(60), <1>15, FinishDoes DEF Finishes, Blocks, ExitGoes
<1>16. CASE \E g \in Daemon!Exits : Daemon!Recover(g)
  <2>1. PICK g \in Daemon!Exits : Daemon!Recover(g)
    BY <1>16
  <2>2. Recovers(g)
    BY <2>1, RecoverDoes
  <2>3. CASE RecoverGivesUp(g)
    BY <2>2, <2>3 DEF Recovers, RecoverGivesUp
  <2>4. CASE RecoverLooks(g)
    BY <2>2, <2>4 DEF Recovers, RecoverLooks
  <2>5. CASE RecoverTurns(g)
    BY <2>2, <2>5 DEF Recovers, RecoverTurns
  <2>6. CASE RecoverStarts(g)
    BY <2>2, <2>6 DEF Recovers, RecoverStarts
  <2> QED
    BY <2>2, <2>3, <2>4, <2>5, <2>6 DEF Recovers
<1>17. CASE Daemon!ListenRestart
  BY <1>17, ListenerGoes DEF Daemon!ListenRestart, Daemon!Unlocked, Daemon!Hold
<1>18. CASE Daemon!Connect
  BY <1>18, ListenerGoes DEF Daemon!Connect, Daemon!Answers
<1>19. CASE Daemon!Reconcile
  BY <1>19, ListenerGoes DEF Daemon!Reconcile, Daemon!Answers
<1>20. CASE Daemon!HangUp
  BY <1>20, ListenerGoes DEF Daemon!HangUp, Daemon!Answers
<1>21. CASE Daemon!Leave
  BY <1>21, ListenerGoes DEF Daemon!Leave, Daemon!Answers
<1>22. CASE Daemon!GivesUp
  BY <1>22, ListenerGoes DEF Daemon!GivesUp, Daemon!ProcessExited, Daemon!Answers
<1>23. CASE Daemon!Work
  BY <1>23 DEF Daemon!Work, Daemon!Answers
<1>24. CASE Daemon!SetOption
  <2>1. Sets
    BY <1>24, SetOptionDoes
  <2>2. CASE SetAsks
    BY <2>1, <2>2 DEF Sets, SetAsks
  <2>3. CASE SetTells
    BY <2>1, <2>3 DEF Sets, SetTells, HolderGoes, Frees, Daemon!Answers
  <2>4. CASE SetMisses
    BY <2>1, <2>4 DEF Sets, SetMisses, Frees
  <2>5. CASE SetNotes
    BY <2>1, <2>5 DEF Sets, SetNotes, Frees
  <2> QED
    BY <2>1, <2>2, <2>3, <2>4, <2>5 DEF Sets
<1>25. CASE UNCHANGED Daemon!dvars
  BY <1>25 DEF Daemon!dvars
<1> QED
  BY <1>1, <1>2, <1>3, <1>4, <1>5, <1>6, <1>7, <1>8, <1>9, <1>10, <1>11, <1>12, <1>13, <1>14,
     <1>15, <1>16, <1>17, <1>18, <1>19, <1>20, <1>21, <1>22, <1>23, <1>24, <1>25 DEF Daemon!Next

\* Who has the lock stays where it asked for it until it lets go.
LEMMA NextHolderIsKnown ==
  ASSUME DaemonBounds, DaemonInvariant, [Daemon!Next]_(Daemon!dvars)
  PROVE  HolderIsKnown'
<1> USE DEF DaemonInvariant, DaemonShapes, ProcessShapes, ActorShapes, Holders, Listeners,
   DaemonBounds, HolderIsKnown, LockIsWorth, Stopping, Starting, StartComesFirst,
   Daemon!processes, Daemon!guarded, Daemon!work, Daemon!options, Daemon!tasks, Daemon!ghosts,
   Daemon!StarterFrame, Daemon!StartFrame, Daemon!ExitFrame, Daemon!ListenFrame, Daemon!Smooth,
   Daemon!Trouble, Daemon!Procs, Daemon!Exits, Daemon!Unheld, Daemon!ShuttingDown, Daemon!Current,
   Daemon!Lives
<1>1. CASE Daemon!Falter
  BY <1>1 DEF Daemon!Falter, Daemon!Answers
<1>2. CASE Daemon!Launch
  BY <1>2, LaunchDoes, LaunchChanges DEF LaunchFirst
<1>3. CASE Daemon!Adopt
  BY <1>3, AdoptDoes DEF Adopts
<1>4. CASE Daemon!Publish
  BY <1>4, PublishDoes DEF Publishes, Daemon!Answers
<1>5. CASE Daemon!StopBegins
  BY <1>5 DEF Daemon!StopBegins, Daemon!Hold, Daemon!Unlocked
<1>6. CASE Daemon!StopAsk
  BY <1>6 DEF Daemon!StopAsk, Daemon!Answers
<1>7. CASE Daemon!StopTake
  <2>1. StopTakes
    BY <1>7, StopTakeDoes
  <2>2. CASE child # 0
    BY <2>1, <2>2 DEF StopTakes, HolderGoes
  <2>3. CASE child = 0 /\ holder.by = "starter"
    BY <2>1, <2>3 DEF StopTakes, StopEnds, Frees
  <2>4. CASE child = 0 /\ holder.by = "recovery"
    BY <2>1, <2>4 DEF StopTakes, StopEnds, Frees
  <2>5. CASE child = 0 /\ holder.by = "exit"
    BY <2>1, <2>5 DEF StopTakes, StopEnds, Frees, Blocks
  <2> QED
    BY <2>1, <2>2, <2>3, <2>4, <2>5 DEF StopTakes, StopEnds
<1>8. CASE Daemon!StopWait
  <2>1. StopWaits
    BY <1>8, StopWaitDoes
  <2>2. CASE StopKills
    BY <2>2, <2>1 DEF StopKills, StopWaits
  <2>3. CASE StopConfirms
    <3>1. CASE holder.by = "starter"
      BY <2>1, <2>3, <3>1 DEF StopWaits, StopConfirms, StopEnds, Frees
    <3>2. CASE holder.by = "recovery"
      BY <2>1, <2>3, <3>2 DEF StopWaits, StopConfirms, StopEnds, Frees
    <3>3. CASE holder.by = "exit"
      BY <2>1, <2>3, <3>3 DEF StopWaits, StopConfirms, StopEnds, Frees, Blocks
    <3> QED
      BY <2>3, <3>1, <3>2, <3>3 DEF StopConfirms, StopEnds
  <2>4. CASE StopFails
    <3>1. CASE holder.by = "starter"
      BY <2>1, <2>4, <3>1 DEF StopWaits, StopFails, StopEnds, Frees
    <3>2. CASE holder.by = "recovery"
      BY <2>1, <2>4, <3>2 DEF StopWaits, StopFails, StopEnds, Frees
    <3>3. CASE holder.by = "exit"
      BY <2>1, <2>4, <3>3 DEF StopWaits, StopFails, StopEnds, Frees, Blocks
    <3> QED
      BY <2>4, <3>1, <3>2, <3>3 DEF StopFails, StopEnds
  <2> QED
    BY <2>1, <2>2, <2>3, <2>4 DEF StopWaits
<1>9. CASE Daemon!StartSpawn
  BY <1>9, StartSpawnDoes, LaunchChanges DEF StartSpawns, StartEnds, Frees, HolderGoes
<1>10. CASE Daemon!StartSettle
  BY <1>10 DEF Daemon!StartSettle, Daemon!StartsFor, Daemon!Answers
<1>11. CASE Daemon!StartReady
  BY <1>11, StartReadyDoes DEF StartReadies, StartAnswers, StartIsKilled, StartEnds, Frees,
       HolderGoes
<1>12. CASE Daemon!AskExit
  BY <1>12 DEF Daemon!AskExit
<1>13. CASE Daemon!Drain
  BY <1>13 DEF Daemon!Drain
<1>14. CASE Daemon!TooLate
  BY <1>14 DEF Daemon!TooLate, Daemon!Blocked
<1>15. CASE Daemon!Finish
  <2>1. Finishes
    BY <1>15, FinishDoes
  <2>2. CASE Blocks
    <3>1. exits \in Daemon!Exits
      BY <2>1, <2>2 DEF Finishes, HolderIsKnown, ExitGoes
    <3>2. /\ recovering' \in [Daemon!Exits -> {"none", "check", "stop", "again", "restart"}]
          /\ recovering'[exits] = "check"
          /\ \A g \in Daemon!Exits : g # exits => recovering'[g] = recovering[g]
      BY <2>2, <3>1 DEF Blocks
    <3> QED
      BY <2>1, <2>2, <3>1, <3>2 DEF Finishes, Blocks, ExitGoes
  <2>3. CASE ~Blocks
    BY <2>1, <2>3 DEF Finishes, ExitGoes
  <2> QED
    BY <2>2, <2>3
<1>16. CASE \E g \in Daemon!Exits : Daemon!Recover(g)
  <2>1. PICK g \in Daemon!Exits : Daemon!Recover(g)
    BY <1>16
  <2>2. Recovers(g)
    BY <2>1, RecoverDoes
  <2>3. CASE RecoverGivesUp(g)
    BY <2>2, <2>3 DEF Recovers, RecoverGivesUp
  <2>4. CASE RecoverLooks(g)
    BY <2>2, <2>4 DEF Recovers, RecoverLooks
  <2>5. CASE RecoverTurns(g)
    BY <2>2, <2>5 DEF Recovers, RecoverTurns
  <2>6. CASE RecoverStarts(g)
    BY <2>2, <2>6 DEF Recovers, RecoverStarts
  <2> QED
    BY <2>2, <2>3, <2>4, <2>5, <2>6 DEF Recovers
<1>17. CASE Daemon!ListenRestart
  BY <1>17, ListenerGoes DEF Daemon!ListenRestart, Daemon!Unlocked, Daemon!Hold
<1>18. CASE Daemon!Connect
  BY <1>18, ListenerGoes DEF Daemon!Connect, Daemon!Answers
<1>19. CASE Daemon!Reconcile
  BY <1>19, ListenerGoes DEF Daemon!Reconcile, Daemon!Answers
<1>20. CASE Daemon!HangUp
  BY <1>20, ListenerGoes DEF Daemon!HangUp, Daemon!Answers
<1>21. CASE Daemon!Leave
  BY <1>21, ListenerGoes DEF Daemon!Leave, Daemon!Answers
<1>22. CASE Daemon!GivesUp
  BY <1>22, ListenerGoes DEF Daemon!GivesUp, Daemon!ProcessExited, Daemon!Answers
<1>23. CASE Daemon!Work
  BY <1>23 DEF Daemon!Work, Daemon!Answers
<1>24. CASE Daemon!SetOption
  <2>1. Sets
    BY <1>24, SetOptionDoes
  <2>2. CASE SetAsks
    BY <2>1, <2>2 DEF Sets, SetAsks
  <2>3. CASE SetTells
    BY <2>1, <2>3 DEF Sets, SetTells, HolderGoes, Frees, Daemon!Answers
  <2>4. CASE SetMisses
    BY <2>1, <2>4 DEF Sets, SetMisses, Frees
  <2>5. CASE SetNotes
    BY <2>1, <2>5 DEF Sets, SetNotes, Frees
  <2> QED
    BY <2>1, <2>2, <2>3, <2>4, <2>5 DEF Sets
<1>25. CASE UNCHANGED Daemon!dvars
  BY <1>25 DEF Daemon!dvars
<1> QED
  BY <1>1, <1>2, <1>3, <1>4, <1>5, <1>6, <1>7, <1>8, <1>9, <1>10, <1>11, <1>12, <1>13, <1>14,
     <1>15, <1>16, <1>17, <1>18, <1>19, <1>20, <1>21, <1>22, <1>23, <1>24, <1>25 DEF Daemon!Next

\* Exits, the listener and the recoveries begin after the start is over.
LEMMA NextStartComesFirst ==
  ASSUME DaemonBounds, DaemonInvariant, [Daemon!Next]_(Daemon!dvars)
  PROVE  StartComesFirst'
<1> USE DEF DaemonInvariant, DaemonShapes, ProcessShapes, ActorShapes, Holders, Listeners,
   DaemonBounds, HolderIsKnown, LockIsWorth, Stopping, Starting, StartComesFirst, FlagShapes,
   EveryoneIsLaunched, Known, Daemon!processes, Daemon!guarded, Daemon!work, Daemon!options,
   Daemon!tasks, Daemon!ghosts, Daemon!StarterFrame, Daemon!StartFrame, Daemon!ExitFrame,
   Daemon!ListenFrame, Daemon!Smooth, Daemon!Trouble, Daemon!Procs, Daemon!Exits, Daemon!Unheld,
   Daemon!ShuttingDown, Daemon!Current, Daemon!Lives
<1>1. CASE Daemon!Falter
  BY <1>1 DEF Daemon!Falter, Daemon!Answers
<1>2. CASE Daemon!Launch
  BY <1>2, LaunchDoes, LaunchChanges DEF LaunchFirst
<1>3. CASE Daemon!Adopt
  <2>1. Adopts
    BY <1>3, AdoptDoes
  <2>2. CASE Daemon!Lives(starter.proc)
    BY <2>1, <2>2 DEF Adopts
  <2>3. CASE ~Daemon!Lives(starter.proc)
    BY <2>1, <2>3 DEF Adopts
  <2> QED
    BY <2>2, <2>3
<1>4. CASE Daemon!Publish
  BY <1>4, PublishDoes DEF Publishes, Daemon!Answers
<1>5. CASE Daemon!StopBegins
  BY <1>5 DEF Daemon!StopBegins, Daemon!Hold, Daemon!Unlocked
<1>6. CASE Daemon!StopAsk
  BY <1>6 DEF Daemon!StopAsk, Daemon!Answers
<1>7. CASE Daemon!StopTake
  <2>1. StopTakes
    BY <1>7, StopTakeDoes
  <2>2. CASE child # 0
    BY <2>1, <2>2 DEF StopTakes, HolderGoes
  <2>3. CASE child = 0 /\ holder.by = "starter"
    BY <2>1, <2>3 DEF StopTakes, StopEnds, Frees
  <2>4. CASE child = 0 /\ holder.by = "recovery"
    BY <2>1, <2>4 DEF StopTakes, StopEnds, Frees
  <2>5. CASE child = 0 /\ holder.by = "exit"
    BY <2>1, <2>5 DEF StopTakes, StopEnds, Frees, Blocks
  <2> QED
    BY <2>1, <2>2, <2>3, <2>4, <2>5 DEF StopTakes, StopEnds
<1>8. CASE Daemon!StopWait
  BY ZenonT(60), <1>8, StopWaitDoes DEF StopWaits, StopKills, StopConfirms, StopFails, StopEnds,
     Frees, Blocks
<1>9. CASE Daemon!StartSpawn
  <2>1. StartSpawns
    BY <1>9, StartSpawnDoes
  <2>2. CASE failed' = "start" /\ StartEnds(FALSE) /\ UNCHANGED <<procs, loads>>
    <3>1. CASE holder.by = "listener"
      BY <2>1, <2>2, <3>1 DEF StartSpawns, StartEnds, Frees
    <3>2. CASE holder.by = "recovery"
      BY <2>1, <2>2, <3>2 DEF StartSpawns, StartEnds, Frees
    <3> QED
      BY <2>2, <3>1, <3>2 DEF StartEnds
  <2>3. ASSUME NEW p \in Daemon!Procs, Launches(p, spec), HolderGoes("settle", p),
               UNCHANGED <<failed, listener, recovering, superseded>>
        PROVE  StartComesFirst'
    <3>1. spec \in Nat
      BY DEF FlagShapes
    <3>2. /\ procs' \in [Daemon!Procs -> {"none", "up", "hung", "stopping", "dead"}]
          /\ loads' \in [Daemon!Procs -> Nat] /\ procs[p] = "none"
          /\ procs'[p] \in {"up", "hung"} /\ loads'[p] = spec
          /\ \A q \in Daemon!Procs : q # p => procs'[q] = procs[q] /\ loads'[q] = loads[q]
      BY <2>3, <3>1, LaunchChanges
    <3> QED
      BY <2>1, <2>3, <3>2 DEF StartSpawns, HolderGoes
  <2> QED
    BY <2>1, <2>2, <2>3 DEF StartSpawns
<1>10. CASE Daemon!StartSettle
  BY <1>10 DEF Daemon!StartSettle, Daemon!StartsFor, Daemon!Answers
<1>11. CASE Daemon!StartReady
  BY <1>11, StartReadyDoes DEF StartReadies, StartAnswers, StartIsKilled, StartEnds, Frees,
       HolderGoes
<1>12. CASE Daemon!AskExit
  BY <1>12 DEF Daemon!AskExit
<1>13. CASE Daemon!Drain
  BY <1>13 DEF Daemon!Drain
<1>14. CASE Daemon!TooLate
  BY <1>14 DEF Daemon!TooLate, Daemon!Blocked
<1>15. CASE Daemon!Finish
  BY <1>15, FinishDoes DEF Finishes, Blocks, ExitGoes
<1>16. CASE \E g \in Daemon!Exits : Daemon!Recover(g)
  <2>1. PICK g \in Daemon!Exits : Daemon!Recover(g)
    BY <1>16
  <2>2. Recovers(g)
    BY <2>1, RecoverDoes
  <2>3. CASE RecoverGivesUp(g)
    BY <2>2, <2>3 DEF Recovers, RecoverGivesUp
  <2>4. CASE RecoverLooks(g)
    BY <2>2, <2>4 DEF Recovers, RecoverLooks
  <2>5. CASE RecoverTurns(g)
    BY <2>2, <2>5 DEF Recovers, RecoverTurns
  <2>6. CASE RecoverStarts(g)
    BY <2>2, <2>6 DEF Recovers, RecoverStarts
  <2> QED
    BY <2>2, <2>3, <2>4, <2>5, <2>6 DEF Recovers
<1>17. CASE Daemon!ListenRestart
  BY <1>17, ListenerGoes DEF Daemon!ListenRestart, Daemon!Unlocked, Daemon!Hold
<1>18. CASE Daemon!Connect
  BY <1>18, ListenerGoes DEF Daemon!Connect, Daemon!Answers
<1>19. CASE Daemon!Reconcile
  BY <1>19, ListenerGoes DEF Daemon!Reconcile, Daemon!Answers
<1>20. CASE Daemon!HangUp
  BY <1>20, ListenerGoes DEF Daemon!HangUp, Daemon!Answers
<1>21. CASE Daemon!Leave
  BY <1>21, ListenerGoes DEF Daemon!Leave, Daemon!Answers
<1>22. CASE Daemon!GivesUp
  BY <1>22, ListenerGoes DEF Daemon!GivesUp, Daemon!ProcessExited, Daemon!Answers
<1>23. CASE Daemon!Work
  BY <1>23 DEF Daemon!Work, Daemon!Answers
<1>24. CASE Daemon!SetOption
  <2>1. Sets
    BY <1>24, SetOptionDoes
  <2>2. CASE SetAsks
    BY <2>1, <2>2 DEF Sets, SetAsks
  <2>3. CASE SetTells
    BY <2>1, <2>3 DEF Sets, SetTells, HolderGoes, Frees, Daemon!Answers
  <2>4. CASE SetMisses
    BY <2>1, <2>4 DEF Sets, SetMisses, Frees
  <2>5. CASE SetNotes
    BY <2>1, <2>5 DEF Sets, SetNotes, Frees
  <2> QED
    BY <2>1, <2>2, <2>3, <2>4, <2>5 DEF Sets
<1>25. CASE UNCHANGED Daemon!dvars
  BY <1>25 DEF Daemon!dvars
<1> QED
  BY <1>1, <1>2, <1>3, <1>4, <1>5, <1>6, <1>7, <1>8, <1>9, <1>10, <1>11, <1>12, <1>13, <1>14,
     <1>15, <1>16, <1>17, <1>18, <1>19, <1>20, <1>21, <1>22, <1>23, <1>24, <1>25 DEF Daemon!Next

\* The handle and the port are changed under the lock only, once the start is over.
LEMMA NextLockIsWorth ==
  ASSUME DaemonBounds, DaemonInvariant, [Daemon!Next]_(Daemon!dvars)
  PROVE  LockIsWorth'
<1> USE DEF DaemonInvariant, DaemonShapes, ProcessShapes, ActorShapes, Holders, Listeners,
   DaemonBounds, HolderIsKnown, LockIsWorth, Stopping, Starting, StartComesFirst,
   EveryoneIsLaunched, Known, Daemon!processes, Daemon!guarded, Daemon!work, Daemon!options,
   Daemon!tasks, Daemon!ghosts, Daemon!StarterFrame, Daemon!StartFrame, Daemon!ExitFrame,
   Daemon!ListenFrame, Daemon!Smooth, Daemon!Trouble, Daemon!Procs, Daemon!Exits, Daemon!Unheld,
   Daemon!ShuttingDown, Daemon!Current, Daemon!Lives
<1>1. CASE Daemon!Falter
  BY <1>1 DEF Daemon!Falter, Daemon!Answers
<1>2. CASE Daemon!Launch
  BY <1>2, LaunchDoes, LaunchChanges DEF LaunchFirst
<1>3. CASE Daemon!Adopt
  BY <1>3, AdoptDoes DEF Adopts
<1>4. CASE Daemon!Publish
  BY <1>4, PublishDoes DEF Publishes, Daemon!Answers
<1>5. CASE Daemon!StopBegins
  BY <1>5 DEF Daemon!StopBegins, Daemon!Hold, Daemon!Unlocked
<1>6. CASE Daemon!StopAsk
  BY <1>6 DEF Daemon!StopAsk, Daemon!Answers
<1>7. CASE Daemon!StopTake
  <2>1. StopTakes
    BY <1>7, StopTakeDoes
  <2>2. CASE child # 0
    BY <2>1, <2>2 DEF StopTakes, HolderGoes
  <2>3. CASE child = 0 /\ holder.by = "starter"
    BY <2>1, <2>3 DEF StopTakes, StopEnds, Frees
  <2>4. CASE child = 0 /\ holder.by = "recovery"
    BY <2>1, <2>4 DEF StopTakes, StopEnds, Frees
  <2>5. CASE child = 0 /\ holder.by = "exit"
    BY <2>1, <2>5 DEF StopTakes, StopEnds, Frees, Blocks
  <2> QED
    BY <2>1, <2>2, <2>3, <2>4, <2>5 DEF StopTakes, StopEnds
<1>8. CASE Daemon!StopWait
  <2>1. StopWaits
    BY <1>8, StopWaitDoes
  <2>2. CASE StopKills
    BY <2>2, <2>1 DEF StopKills, StopWaits
  <2>3. CASE StopConfirms
    <3>1. CASE holder.by = "starter"
      BY <2>1, <2>3, <3>1 DEF StopWaits, StopConfirms, StopEnds, Frees
    <3>2. CASE holder.by = "recovery"
      BY <2>1, <2>3, <3>2 DEF StopWaits, StopConfirms, StopEnds, Frees
    <3>3. CASE holder.by = "exit"
      BY <2>1, <2>3, <3>3 DEF StopWaits, StopConfirms, StopEnds, Frees, Blocks
    <3> QED
      BY <2>3, <3>1, <3>2, <3>3 DEF StopConfirms, StopEnds
  <2>4. CASE StopFails
    <3>1. CASE holder.by = "starter"
      BY <2>1, <2>4, <3>1 DEF StopWaits, StopFails, StopEnds, Frees
    <3>2. CASE holder.by = "recovery"
      BY <2>1, <2>4, <3>2 DEF StopWaits, StopFails, StopEnds, Frees
    <3>3. CASE holder.by = "exit"
      BY <2>1, <2>4, <3>3 DEF StopWaits, StopFails, StopEnds, Frees, Blocks
    <3> QED
      BY <2>4, <3>1, <3>2, <3>3 DEF StopFails, StopEnds
  <2> QED
    BY <2>1, <2>2, <2>3, <2>4 DEF StopWaits
<1>9. CASE Daemon!StartSpawn
  <2>1. StartSpawns
    BY <1>9, StartSpawnDoes
  <2>2. CASE failed' = "start" /\ StartEnds(FALSE) /\ UNCHANGED <<procs, loads>>
    <3>1. CASE holder.by = "listener"
      BY <2>1, <2>2, <3>1 DEF StartSpawns, StartEnds, Frees
    <3>2. CASE holder.by = "recovery"
      BY <2>1, <2>2, <3>2 DEF StartSpawns, StartEnds, Frees
    <3> QED
      BY <2>2, <3>1, <3>2 DEF StartEnds
  <2>3. ASSUME NEW p \in Daemon!Procs, Launches(p, spec), HolderGoes("settle", p),
               UNCHANGED <<failed, listener, recovering, superseded>>
        PROVE  LockIsWorth'
    <3>1. spec \in Nat
      BY DEF FlagShapes
    <3>2. /\ procs' \in [Daemon!Procs -> {"none", "up", "hung", "stopping", "dead"}]
          /\ loads' \in [Daemon!Procs -> Nat] /\ procs[p] = "none"
          /\ procs'[p] \in {"up", "hung"} /\ loads'[p] = spec
          /\ \A q \in Daemon!Procs : q # p => procs'[q] = procs[q] /\ loads'[q] = loads[q]
      BY <2>3, <3>1, LaunchChanges
    <3> QED
      BY <2>1, <2>3, <3>2 DEF StartSpawns, HolderGoes
  <2> QED
    BY <2>1, <2>2, <2>3 DEF StartSpawns
<1>10. CASE Daemon!StartSettle
  BY <1>10 DEF Daemon!StartSettle, Daemon!StartsFor, Daemon!Answers
<1>11. CASE Daemon!StartReady
  BY <1>11, StartReadyDoes DEF StartReadies, StartAnswers, StartIsKilled, StartEnds, Frees,
       HolderGoes
<1>12. CASE Daemon!AskExit
  BY <1>12 DEF Daemon!AskExit
<1>13. CASE Daemon!Drain
  BY <1>13 DEF Daemon!Drain
<1>14. CASE Daemon!TooLate
  BY <1>14 DEF Daemon!TooLate, Daemon!Blocked
<1>15. CASE Daemon!Finish
  <2>1. Finishes
    BY <1>15, FinishDoes
  <2>2. CASE Blocks
    <3>1. exits \in Daemon!Exits
      BY <2>1, <2>2 DEF Finishes, HolderIsKnown, ExitGoes
    <3>2. /\ recovering' \in [Daemon!Exits -> {"none", "check", "stop", "again", "restart"}]
          /\ recovering'[exits] = "check"
          /\ \A g \in Daemon!Exits : g # exits => recovering'[g] = recovering[g]
      BY <2>2, <3>1 DEF Blocks
    <3> QED
      BY <2>1, <2>2, <3>1, <3>2 DEF Finishes, Blocks, ExitGoes
  <2>3. CASE ~Blocks
    BY <2>1, <2>3 DEF Finishes, ExitGoes
  <2> QED
    BY <2>2, <2>3
<1>16. CASE \E g \in Daemon!Exits : Daemon!Recover(g)
  <2>1. PICK g \in Daemon!Exits : Daemon!Recover(g)
    BY <1>16
  <2>2. Recovers(g)
    BY <2>1, RecoverDoes
  <2>3. CASE RecoverGivesUp(g)
    BY <2>2, <2>3 DEF Recovers, RecoverGivesUp
  <2>4. CASE RecoverLooks(g)
    BY <2>2, <2>4 DEF Recovers, RecoverLooks
  <2>5. CASE RecoverTurns(g)
    BY <2>2, <2>5 DEF Recovers, RecoverTurns
  <2>6. CASE RecoverStarts(g)
    BY <2>2, <2>6 DEF Recovers, RecoverStarts
  <2> QED
    BY <2>2, <2>3, <2>4, <2>5, <2>6 DEF Recovers
<1>17. CASE Daemon!ListenRestart
  BY <1>17, ListenerGoes DEF Daemon!ListenRestart, Daemon!Unlocked, Daemon!Hold
<1>18. CASE Daemon!Connect
  BY <1>18, ListenerGoes DEF Daemon!Connect, Daemon!Answers
<1>19. CASE Daemon!Reconcile
  BY <1>19, ListenerGoes DEF Daemon!Reconcile, Daemon!Answers
<1>20. CASE Daemon!HangUp
  BY <1>20, ListenerGoes DEF Daemon!HangUp, Daemon!Answers
<1>21. CASE Daemon!Leave
  BY <1>21, ListenerGoes DEF Daemon!Leave, Daemon!Answers
<1>22. CASE Daemon!GivesUp
  BY <1>22, ListenerGoes DEF Daemon!GivesUp, Daemon!ProcessExited, Daemon!Answers
<1>23. CASE Daemon!Work
  BY <1>23 DEF Daemon!Work, Daemon!Answers
<1>24. CASE Daemon!SetOption
  <2>1. Sets
    BY <1>24, SetOptionDoes
  <2>2. CASE SetAsks
    BY <2>1, <2>2 DEF Sets, SetAsks
  <2>3. CASE SetTells
    BY <2>1, <2>3 DEF Sets, SetTells, HolderGoes, Frees, Daemon!Answers
  <2>4. CASE SetMisses
    BY <2>1, <2>4 DEF Sets, SetMisses, Frees
  <2>5. CASE SetNotes
    BY <2>1, <2>5 DEF Sets, SetNotes, Frees
  <2> QED
    BY <2>1, <2>2, <2>3, <2>4, <2>5 DEF Sets
<1>25. CASE UNCHANGED Daemon!dvars
  BY <1>25 DEF Daemon!dvars
<1> QED
  BY <1>1, <1>2, <1>3, <1>4, <1>5, <1>6, <1>7, <1>8, <1>9, <1>10, <1>11, <1>12, <1>13, <1>14,
     <1>15, <1>16, <1>17, <1>18, <1>19, <1>20, <1>21, <1>22, <1>23, <1>24, <1>25 DEF Daemon!Next

\* Whoever launches has seen that there is no other, unless it looked too early.
LEMMA NextDaemonIsAlone ==
  ASSUME DaemonBounds, DaemonInvariant, [Daemon!Next]_(Daemon!dvars)
  PROVE  DaemonIsAlone'
<1> USE DEF DaemonInvariant, DaemonShapes, ProcessShapes, ActorShapes, Holders, Listeners,
   DaemonBounds, HolderIsKnown, LockIsWorth, Stopping, Starting, StartComesFirst, DaemonIsAlone,
   Found, Quiet, EveryoneIsLaunched, Known, Daemon!processes, Daemon!guarded, Daemon!work,
   Daemon!options, Daemon!tasks, Daemon!ghosts, Daemon!StarterFrame, Daemon!StartFrame,
   Daemon!ExitFrame, Daemon!ListenFrame, Daemon!Smooth, Daemon!Trouble, Daemon!Procs,
   Daemon!Exits, Daemon!Unheld, Daemon!ShuttingDown, Daemon!Current, Daemon!Lives
<1>1. CASE Daemon!Falter
  BY ZenonT(60), <1>1 DEF Daemon!Falter, Daemon!Answers
<1>2. CASE Daemon!Launch
  <2>1. LaunchFirst
    BY <1>2, LaunchDoes
  <2>2. ASSUME NEW p \in Daemon!Procs, Launches(p, 1), starter'.proc = p,
               starter'.step = "settle", UNCHANGED failed
        PROVE  DaemonIsAlone'
    <3>1. /\ procs' \in [Daemon!Procs -> {"none", "up", "hung", "stopping", "dead"}]
          /\ loads' \in [Daemon!Procs -> Nat] /\ procs[p] = "none"
          /\ procs'[p] \in {"up", "hung"} /\ loads'[p] = 1
          /\ \A q \in Daemon!Procs : q # p => procs'[q] = procs[q] /\ loads'[q] = loads[q]
      BY <2>2, LaunchChanges
    <3> QED
      BY <2>1, <2>2, <3>1 DEF LaunchFirst
  <2>3. CASE /\ starter'.step = "done" /\ starter'.proc = starter.proc /\ failed' = "start"
             /\ UNCHANGED <<procs, loads>>
    BY <2>1, <2>3 DEF LaunchFirst
  <2> QED
    BY <2>1, <2>2, <2>3 DEF LaunchFirst
<1>3. CASE Daemon!Adopt
  <2>1. Adopts
    BY <1>3, AdoptDoes
  <2>2. CASE Daemon!Lives(starter.proc)
    BY <2>1, <2>2 DEF Adopts
  <2>3. CASE ~Daemon!Lives(starter.proc)
    BY <2>1, <2>3 DEF Adopts
  <2> QED
    BY <2>2, <2>3
<1>4. CASE Daemon!Publish
  BY <1>4, PublishDoes DEF Publishes, Daemon!Answers
<1>5. CASE Daemon!StopBegins
  BY <1>5 DEF Daemon!StopBegins, Daemon!Hold, Daemon!Unlocked
<1>6. CASE Daemon!StopAsk
  BY <1>6 DEF Daemon!StopAsk, Daemon!Answers
<1>7. CASE Daemon!StopTake
  BY ZenonT(60), <1>7, StopTakeDoes DEF StopTakes, StopEnds, Frees, Blocks, HolderGoes
<1>8. CASE Daemon!StopWait
  <2>1. StopWaits
    BY <1>8, StopWaitDoes
  <2>2. CASE StopKills
    BY <2>2, <2>1 DEF StopKills, StopWaits
  <2>3. CASE StopConfirms
    <3>1. CASE holder.by = "starter"
      BY <2>1, <2>3, <3>1 DEF StopWaits, StopConfirms, StopEnds, Frees
    <3>2. CASE holder.by = "recovery"
      BY <2>1, <2>3, <3>2 DEF StopWaits, StopConfirms, StopEnds, Frees
    <3>3. CASE holder.by = "exit"
      BY <2>1, <2>3, <3>3 DEF StopWaits, StopConfirms, StopEnds, Frees, Blocks
    <3> QED
      BY <2>3, <3>1, <3>2, <3>3 DEF StopConfirms, StopEnds
  <2>4. CASE StopFails
    <3>1. CASE holder.by = "starter"
      BY <2>1, <2>4, <3>1 DEF StopWaits, StopFails, StopEnds, Frees
    <3>2. CASE holder.by = "recovery"
      BY <2>1, <2>4, <3>2 DEF StopWaits, StopFails, StopEnds, Frees
    <3>3. CASE holder.by = "exit"
      BY <2>1, <2>4, <3>3 DEF StopWaits, StopFails, StopEnds, Frees, Blocks
    <3> QED
      BY <2>4, <3>1, <3>2, <3>3 DEF StopFails, StopEnds
  <2> QED
    BY <2>1, <2>2, <2>3, <2>4 DEF StopWaits
<1>9. CASE Daemon!StartSpawn
  <2>1. StartSpawns
    BY <1>9, StartSpawnDoes
  <2>2. CASE failed' = "start" /\ StartEnds(FALSE) /\ UNCHANGED <<procs, loads>>
    <3>1. CASE holder.by = "listener"
      BY <2>1, <2>2, <3>1 DEF StartSpawns, StartEnds, Frees
    <3>2. CASE holder.by = "recovery"
      BY <2>1, <2>2, <3>2 DEF StartSpawns, StartEnds, Frees
    <3> QED
      BY <2>2, <3>1, <3>2 DEF StartEnds
  <2>3. ASSUME NEW p \in Daemon!Procs, Launches(p, spec), HolderGoes("settle", p),
               UNCHANGED <<failed, listener, recovering, superseded>>
        PROVE  DaemonIsAlone'
    <3>1. spec \in Nat
      BY DEF FlagShapes
    <3>2. /\ procs' \in [Daemon!Procs -> {"none", "up", "hung", "stopping", "dead"}]
          /\ loads' \in [Daemon!Procs -> Nat] /\ procs[p] = "none"
          /\ procs'[p] \in {"up", "hung"} /\ loads'[p] = spec
          /\ \A q \in Daemon!Procs : q # p => procs'[q] = procs[q] /\ loads'[q] = loads[q]
      BY SMTT(30), <2>3, <3>1, LaunchChanges
    <3> QED
      BY <2>1, <2>3, <3>2 DEF StartSpawns, HolderGoes
  <2> QED
    BY <2>1, <2>2, <2>3 DEF StartSpawns
<1>10. CASE Daemon!StartSettle
  BY <1>10 DEF Daemon!StartSettle, Daemon!StartsFor, Daemon!Answers
<1>11. CASE Daemon!StartReady
  BY ZenonT(60), <1>11, StartReadyDoes DEF StartReadies, StartAnswers, StartIsKilled, StartEnds,
     Frees,
       HolderGoes
<1>12. CASE Daemon!AskExit
  BY <1>12 DEF Daemon!AskExit
<1>13. CASE Daemon!Drain
  BY <1>13 DEF Daemon!Drain
<1>14. CASE Daemon!TooLate
  BY <1>14 DEF Daemon!TooLate, Daemon!Blocked
<1>15. CASE Daemon!Finish
  BY ZenonT(60), <1>15, FinishDoes DEF Finishes, Blocks, ExitGoes
<1>16. CASE \E g \in Daemon!Exits : Daemon!Recover(g)
  <2>1. PICK g \in Daemon!Exits : Daemon!Recover(g)
    BY <1>16
  <2>2. Recovers(g)
    BY <2>1, RecoverDoes
  <2>3. CASE RecoverGivesUp(g)
    BY <2>2, <2>3 DEF Recovers, RecoverGivesUp
  <2>4. CASE RecoverLooks(g)
    BY <2>2, <2>4 DEF Recovers, RecoverLooks
  <2>5. CASE RecoverTurns(g)
    BY <2>2, <2>5 DEF Recovers, RecoverTurns
  <2>6. CASE RecoverStarts(g)
    BY <2>2, <2>6 DEF Recovers, RecoverStarts
  <2> QED
    BY <2>2, <2>3, <2>4, <2>5, <2>6 DEF Recovers
<1>17. CASE Daemon!ListenRestart
  BY <1>17, ListenerGoes DEF Daemon!ListenRestart, Daemon!Unlocked, Daemon!Hold
<1>18. CASE Daemon!Connect
  BY <1>18, ListenerGoes DEF Daemon!Connect, Daemon!Answers
<1>19. CASE Daemon!Reconcile
  BY <1>19, ListenerGoes DEF Daemon!Reconcile, Daemon!Answers
<1>20. CASE Daemon!HangUp
  BY <1>20, ListenerGoes DEF Daemon!HangUp, Daemon!Answers
<1>21. CASE Daemon!Leave
  BY <1>21, ListenerGoes DEF Daemon!Leave, Daemon!Answers
<1>22. CASE Daemon!GivesUp
  BY <1>22, ListenerGoes DEF Daemon!GivesUp, Daemon!ProcessExited, Daemon!Answers
<1>23. CASE Daemon!Work
  BY <1>23 DEF Daemon!Work, Daemon!Answers
<1>24. CASE Daemon!SetOption
  <2>1. Sets
    BY <1>24, SetOptionDoes
  <2>2. CASE SetAsks
    BY <2>1, <2>2 DEF Sets, SetAsks
  <2>3. CASE SetTells
    BY <2>1, <2>3 DEF Sets, SetTells, HolderGoes, Frees, Daemon!Answers
  <2>4. CASE SetMisses
    BY <2>1, <2>4 DEF Sets, SetMisses, Frees
  <2>5. CASE SetNotes
    BY <2>1, <2>5 DEF Sets, SetNotes, Frees
  <2> QED
    BY <2>1, <2>2, <2>3, <2>4, <2>5 DEF Sets
<1>25. CASE UNCHANGED Daemon!dvars
  BY <1>25 DEF Daemon!dvars
<1> QED
  BY <1>1, <1>2, <1>3, <1>4, <1>5, <1>6, <1>7, <1>8, <1>9, <1>10, <1>11, <1>12, <1>13, <1>14,
     <1>15, <1>16, <1>17, <1>18, <1>19, <1>20, <1>21, <1>22, <1>23, <1>24, <1>25 DEF Daemon!Next

\* A transfer is given to the published daemon, and dies with it.
LEMMA NextTransferIsPublished ==
  ASSUME DaemonBounds, DaemonInvariant, [Daemon!Next]_(Daemon!dvars)
  PROVE  TransferIsPublished'
<1> USE DEF DaemonInvariant, DaemonShapes, ProcessShapes, ActorShapes, Holders, Listeners,
   DaemonBounds, HolderIsKnown, LockIsWorth, Stopping, Starting, StartComesFirst,
   TransferIsPublished, FlagShapes, EveryoneIsLaunched, Known, Daemon!processes, Daemon!guarded,
   Daemon!work, Daemon!options, Daemon!tasks, Daemon!ghosts, Daemon!StarterFrame,
   Daemon!StartFrame, Daemon!ExitFrame, Daemon!ListenFrame, Daemon!Smooth, Daemon!Trouble,
   Daemon!Procs, Daemon!Exits, Daemon!Unheld, Daemon!ShuttingDown, Daemon!Current, Daemon!Lives
<1>1. CASE Daemon!Falter
  BY <1>1 DEF Daemon!Falter, Daemon!Answers
<1>2. CASE Daemon!Launch
  <2>1. LaunchFirst
    BY <1>2, LaunchDoes
  <2>2. ASSUME NEW p \in Daemon!Procs, Launches(p, 1), starter'.proc = p,
               starter'.step = "settle", UNCHANGED failed
        PROVE  TransferIsPublished'
    <3>1. /\ procs' \in [Daemon!Procs -> {"none", "up", "hung", "stopping", "dead"}]
          /\ loads' \in [Daemon!Procs -> Nat] /\ procs[p] = "none"
          /\ procs'[p] \in {"up", "hung"} /\ loads'[p] = 1
          /\ \A q \in Daemon!Procs : q # p => procs'[q] = procs[q] /\ loads'[q] = loads[q]
      BY <2>2, LaunchChanges
    <3> QED
      BY <2>1, <2>2, <3>1 DEF LaunchFirst
  <2>3. CASE /\ starter'.step = "done" /\ starter'.proc = starter.proc /\ failed' = "start"
             /\ UNCHANGED <<procs, loads>>
    BY <2>1, <2>3 DEF LaunchFirst
  <2> QED
    BY <2>1, <2>2, <2>3 DEF LaunchFirst
<1>3. CASE Daemon!Adopt
  <2>1. Adopts
    BY <1>3, AdoptDoes
  <2>2. CASE Daemon!Lives(starter.proc)
    BY <2>1, <2>2 DEF Adopts
  <2>3. CASE ~Daemon!Lives(starter.proc)
    BY <2>1, <2>3 DEF Adopts
  <2> QED
    BY <2>2, <2>3
<1>4. CASE Daemon!Publish
  <2>1. Publishes
    BY <1>4, PublishDoes
  <2>2. CASE starter'.step = "done"
    BY <2>1, <2>2 DEF Publishes, Daemon!Answers
  <2>3. CASE starter'.step # "done"
    BY <2>1, <2>3 DEF Publishes
  <2> QED
    BY <2>2, <2>3
<1>5. CASE Daemon!StopBegins
  BY <1>5 DEF Daemon!StopBegins, Daemon!Hold, Daemon!Unlocked
<1>6. CASE Daemon!StopAsk
  BY <1>6 DEF Daemon!StopAsk, Daemon!Answers
<1>7. CASE Daemon!StopTake
  <2>1. StopTakes
    BY <1>7, StopTakeDoes
  <2>2. CASE child # 0
    BY <2>1, <2>2 DEF StopTakes, HolderGoes
  <2>3. CASE child = 0 /\ holder.by = "starter"
    BY <2>1, <2>3 DEF StopTakes, StopEnds, Frees
  <2>4. CASE child = 0 /\ holder.by = "recovery"
    BY <2>1, <2>4 DEF StopTakes, StopEnds, Frees
  <2>5. CASE child = 0 /\ holder.by = "exit"
    BY <2>1, <2>5 DEF StopTakes, StopEnds, Frees, Blocks
  <2> QED
    BY <2>1, <2>2, <2>3, <2>4, <2>5 DEF StopTakes, StopEnds
<1>8. CASE Daemon!StopWait
  <2>1. StopWaits
    BY <1>8, StopWaitDoes
  <2>2. CASE StopKills
    BY <2>2, <2>1 DEF StopKills, StopWaits
  <2>3. CASE StopConfirms
    <3>1. CASE holder.by = "starter"
      BY <2>1, <2>3, <3>1 DEF StopWaits, StopConfirms, StopEnds, Frees
    <3>2. CASE holder.by = "recovery"
      BY <2>1, <2>3, <3>2 DEF StopWaits, StopConfirms, StopEnds, Frees
    <3>3. CASE holder.by = "exit"
      BY <2>1, <2>3, <3>3 DEF StopWaits, StopConfirms, StopEnds, Frees, Blocks
    <3> QED
      BY <2>3, <3>1, <3>2, <3>3 DEF StopConfirms, StopEnds
  <2>4. CASE StopFails
    <3>1. CASE holder.by = "starter"
      BY <2>1, <2>4, <3>1 DEF StopWaits, StopFails, StopEnds, Frees
    <3>2. CASE holder.by = "recovery"
      BY <2>1, <2>4, <3>2 DEF StopWaits, StopFails, StopEnds, Frees
    <3>3. CASE holder.by = "exit"
      BY <2>1, <2>4, <3>3 DEF StopWaits, StopFails, StopEnds, Frees, Blocks
    <3> QED
      BY <2>4, <3>1, <3>2, <3>3 DEF StopFails, StopEnds
  <2> QED
    BY <2>1, <2>2, <2>3, <2>4 DEF StopWaits
<1>9. CASE Daemon!StartSpawn
  <2>1. StartSpawns
    BY <1>9, StartSpawnDoes
  <2>2. CASE failed' = "start" /\ StartEnds(FALSE) /\ UNCHANGED <<procs, loads>>
    <3>1. CASE holder.by = "listener"
      BY <2>1, <2>2, <3>1 DEF StartSpawns, StartEnds, Frees
    <3>2. CASE holder.by = "recovery"
      BY <2>1, <2>2, <3>2 DEF StartSpawns, StartEnds, Frees
    <3> QED
      BY <2>2, <3>1, <3>2 DEF StartEnds
  <2>3. ASSUME NEW p \in Daemon!Procs, Launches(p, spec), HolderGoes("settle", p),
               UNCHANGED <<failed, listener, recovering, superseded>>
        PROVE  TransferIsPublished'
    <3>1. spec \in Nat
      BY DEF FlagShapes
    <3>2. /\ procs' \in [Daemon!Procs -> {"none", "up", "hung", "stopping", "dead"}]
          /\ loads' \in [Daemon!Procs -> Nat] /\ procs[p] = "none"
          /\ procs'[p] \in {"up", "hung"} /\ loads'[p] = spec
          /\ \A q \in Daemon!Procs : q # p => procs'[q] = procs[q] /\ loads'[q] = loads[q]
      BY <2>3, <3>1, LaunchChanges
    <3> QED
      BY <2>1, <2>3, <3>2 DEF StartSpawns, HolderGoes
  <2> QED
    BY <2>1, <2>2, <2>3 DEF StartSpawns
<1>10. CASE Daemon!StartSettle
  BY <1>10 DEF Daemon!StartSettle, Daemon!StartsFor, Daemon!Answers
<1>11. CASE Daemon!StartReady
  <2>1. StartReadies
    BY <1>11, StartReadyDoes
  <2>2. CASE StartAnswers
    <3>1. CASE holder.by = "listener"
      BY <2>1, <2>2, <3>1 DEF StartReadies, StartAnswers, StartEnds, Frees
    <3>2. CASE holder.by = "recovery"
      BY <2>1, <2>2, <3>2 DEF StartReadies, StartAnswers, StartEnds, Frees
    <3> QED
      BY <2>2, <3>1, <3>2 DEF StartAnswers, StartEnds
  <2>3. CASE StartIsKilled
    <3>1. CASE HolderGoes("spawn", holder.proc)
      BY <2>1, <2>3, <3>1 DEF StartReadies, StartIsKilled, HolderGoes, StartEnds, Frees
    <3>2. CASE holder.by = "listener" /\ StartEnds(FALSE)
      BY <2>1, <2>3, <3>2 DEF StartReadies, StartIsKilled, StartEnds, Frees, HolderGoes
    <3>3. CASE holder.by = "recovery" /\ StartEnds(FALSE)
      BY <2>1, <2>3, <3>3 DEF StartReadies, StartIsKilled, StartEnds, Frees, HolderGoes
    <3> QED
      BY <2>3, <3>1, <3>2, <3>3 DEF StartIsKilled, StartEnds
  <2> QED
    BY <2>1, <2>2, <2>3 DEF StartReadies
<1>12. CASE Daemon!AskExit
  BY <1>12 DEF Daemon!AskExit
<1>13. CASE Daemon!Drain
  <2>1. /\ exit'.step \notin {"seal", "final", "gone"}
        /\ UNCHANGED <<procs, port, at, dropped>>
    BY <1>13, DrainDoes DEF Drains
  <2>2. Daemon!Lives(at)' = Daemon!Lives(at)
    BY <2>1
  <2> QED
    BY <2>1, <2>2
<1>14. CASE Daemon!TooLate
  BY <1>14 DEF Daemon!TooLate, Daemon!Blocked
<1>15. CASE Daemon!Finish
  <2>1. Finishes
    BY <1>15, FinishDoes
  <2>2. CASE Blocks
    <3>1. exits \in Daemon!Exits
      BY <2>1, <2>2 DEF Finishes, HolderIsKnown, ExitGoes
    <3>2. /\ recovering' \in [Daemon!Exits -> {"none", "check", "stop", "again", "restart"}]
          /\ recovering'[exits] = "check"
          /\ \A g \in Daemon!Exits : g # exits => recovering'[g] = recovering[g]
      BY <2>2, <3>1 DEF Blocks
    <3> QED
      BY <2>1, <2>2, <3>1, <3>2 DEF Finishes, Blocks, ExitGoes
  <2>3. CASE ~Blocks
    BY <2>1, <2>3 DEF Finishes, ExitGoes
  <2> QED
    BY <2>2, <2>3
<1>16. CASE \E g \in Daemon!Exits : Daemon!Recover(g)
  <2>1. PICK g \in Daemon!Exits : Daemon!Recover(g)
    BY <1>16
  <2>2. Recovers(g)
    BY <2>1, RecoverDoes
  <2>3. CASE RecoverGivesUp(g)
    BY <2>2, <2>3 DEF Recovers, RecoverGivesUp
  <2>4. CASE RecoverLooks(g)
    BY <2>2, <2>4 DEF Recovers, RecoverLooks
  <2>5. CASE RecoverTurns(g)
    BY <2>2, <2>5 DEF Recovers, RecoverTurns
  <2>6. CASE RecoverStarts(g)
    BY <2>2, <2>6 DEF Recovers, RecoverStarts
  <2> QED
    BY <2>2, <2>3, <2>4, <2>5, <2>6 DEF Recovers
<1>17. CASE Daemon!ListenRestart
  BY <1>17, ListenerGoes DEF Daemon!ListenRestart, Daemon!Unlocked, Daemon!Hold
<1>18. CASE Daemon!Connect
  BY <1>18, ListenerGoes DEF Daemon!Connect, Daemon!Answers
<1>19. CASE Daemon!Reconcile
  BY <1>19, ListenerGoes DEF Daemon!Reconcile, Daemon!Answers
<1>20. CASE Daemon!HangUp
  BY <1>20, ListenerGoes DEF Daemon!HangUp, Daemon!Answers
<1>21. CASE Daemon!Leave
  BY <1>21, ListenerGoes DEF Daemon!Leave, Daemon!Answers
<1>22. CASE Daemon!GivesUp
  BY <1>22, ListenerGoes DEF Daemon!GivesUp, Daemon!ProcessExited, Daemon!Answers
<1>23. CASE Daemon!Work
  BY <1>23 DEF Daemon!Work, Daemon!Answers
<1>24. CASE Daemon!SetOption
  <2>1. Sets
    BY <1>24, SetOptionDoes
  <2>2. CASE SetAsks
    BY <2>1, <2>2 DEF Sets, SetAsks
  <2>3. CASE SetTells
    BY <2>1, <2>3 DEF Sets, SetTells, HolderGoes, Frees, Daemon!Answers
  <2>4. CASE SetMisses
    BY <2>1, <2>4 DEF Sets, SetMisses, Frees
  <2>5. CASE SetNotes
    BY <2>1, <2>5 DEF Sets, SetNotes, Frees
  <2> QED
    BY <2>1, <2>2, <2>3, <2>4, <2>5 DEF Sets
<1>25. CASE UNCHANGED Daemon!dvars
  BY <1>25 DEF Daemon!dvars
<1> QED
  BY <1>1, <1>2, <1>3, <1>4, <1>5, <1>6, <1>7, <1>8, <1>9, <1>10, <1>11, <1>12, <1>13, <1>14,
     <1>15, <1>16, <1>17, <1>18, <1>19, <1>20, <1>21, <1>22, <1>23, <1>24, <1>25 DEF Daemon!Next

\* The port goes with a stop or a failed restart, which leave somebody at work.
LEMMA NextSomebodyRestarts ==
  ASSUME DaemonBounds, DaemonInvariant, [Daemon!Next]_(Daemon!dvars)
  PROVE  SomebodyRestarts'
<1> USE DEF DaemonInvariant, DaemonShapes, ProcessShapes, ActorShapes, Holders, Listeners,
   DaemonBounds, HolderIsKnown, LockIsWorth, Stopping, Starting, StartComesFirst,
   SomebodyRestarts, Daemon!Recovers, FlagShapes, Daemon!processes, Daemon!guarded, Daemon!work,
   Daemon!options, Daemon!tasks, Daemon!ghosts, Daemon!StarterFrame, Daemon!StartFrame,
   Daemon!ExitFrame, Daemon!ListenFrame, Daemon!Smooth, Daemon!Trouble, Daemon!Procs,
   Daemon!Exits, Daemon!Unheld, Daemon!ShuttingDown, Daemon!Current, Daemon!Lives
<1>1. CASE Daemon!Falter
  BY <1>1 DEF Daemon!Falter, Daemon!Answers
<1>2. CASE Daemon!Launch
  BY <1>2, LaunchDoes, LaunchChanges DEF LaunchFirst
<1>3. CASE Daemon!Adopt
  BY <1>3, AdoptDoes DEF Adopts
<1>4. CASE Daemon!Publish
  BY <1>4, PublishDoes DEF Publishes, Daemon!Answers
<1>5. CASE Daemon!StopBegins
  BY <1>5 DEF Daemon!StopBegins, Daemon!Hold, Daemon!Unlocked
<1>6. CASE Daemon!StopAsk
  BY <1>6 DEF Daemon!StopAsk, Daemon!Answers
<1>7. CASE Daemon!StopTake
  BY ZenonT(60), <1>7, StopTakeDoes DEF StopTakes, StopEnds, Frees, Blocks, HolderGoes
<1>8. CASE Daemon!StopWait
  <2>1. StopWaits
    BY <1>8, StopWaitDoes
  <2>2. CASE StopKills
    BY <2>2, <2>1 DEF StopKills, StopWaits
  <2>3. CASE StopConfirms
    <3>1. CASE holder.by = "starter"
      BY <2>1, <2>3, <3>1 DEF StopWaits, StopConfirms, StopEnds, Frees
    <3>2. CASE holder.by = "recovery"
      BY <2>1, <2>3, <3>2 DEF StopWaits, StopConfirms, StopEnds, Frees
    <3>3. CASE holder.by = "exit"
      BY <2>1, <2>3, <3>3 DEF StopWaits, StopConfirms, StopEnds, Frees, Blocks
    <3> QED
      BY <2>3, <3>1, <3>2, <3>3 DEF StopConfirms, StopEnds
  <2>4. CASE StopFails
    <3>1. CASE holder.by = "starter"
      BY <2>1, <2>4, <3>1 DEF StopWaits, StopFails, StopEnds, Frees
    <3>2. CASE holder.by = "recovery"
      BY <2>1, <2>4, <3>2 DEF StopWaits, StopFails, StopEnds, Frees
    <3>3. CASE holder.by = "exit"
      BY <2>1, <2>4, <3>3 DEF StopWaits, StopFails, StopEnds, Frees, Blocks
    <3> QED
      BY <2>4, <3>1, <3>2, <3>3 DEF StopFails, StopEnds
  <2> QED
    BY <2>1, <2>2, <2>3, <2>4 DEF StopWaits
<1>9. CASE Daemon!StartSpawn
  BY <1>9, StartSpawnDoes, LaunchChanges DEF StartSpawns, StartEnds, Frees, HolderGoes
<1>10. CASE Daemon!StartSettle
  BY <1>10 DEF Daemon!StartSettle, Daemon!StartsFor, Daemon!Answers
<1>11. CASE Daemon!StartReady
  BY <1>11, StartReadyDoes DEF StartReadies, StartAnswers, StartIsKilled, StartEnds, Frees,
       HolderGoes
<1>12. CASE Daemon!AskExit
  BY <1>12 DEF Daemon!AskExit
<1>13. CASE Daemon!Drain
  BY <1>13 DEF Daemon!Drain
<1>14. CASE Daemon!TooLate
  BY <1>14 DEF Daemon!TooLate, Daemon!Blocked
<1>15. CASE Daemon!Finish
  <2>1. Finishes
    BY <1>15, FinishDoes
  <2>2. CASE Blocks
    <3>1. exits \in Daemon!Exits
      BY <2>1, <2>2 DEF Finishes, HolderIsKnown, ExitGoes
    <3>2. /\ recovering' \in [Daemon!Exits -> {"none", "check", "stop", "again", "restart"}]
          /\ recovering'[exits] = "check"
          /\ \A g \in Daemon!Exits : g # exits => recovering'[g] = recovering[g]
      BY <2>2, <3>1 DEF Blocks
    <3> QED
      BY <2>1, <2>2, <3>1, <3>2 DEF Finishes, Blocks, ExitGoes
  <2>3. CASE ~Blocks
    BY <2>1, <2>3 DEF Finishes, ExitGoes
  <2> QED
    BY <2>2, <2>3
<1>16. CASE \E g \in Daemon!Exits : Daemon!Recover(g)
  BY ZenonT(60), <1>16, RecoverDoes DEF Recovers, RecoverGivesUp, RecoverLooks, RecoverTurns,
     RecoverStarts
<1>17. CASE Daemon!ListenRestart
  BY <1>17, ListenerGoes DEF Daemon!ListenRestart, Daemon!Unlocked, Daemon!Hold
<1>18. CASE Daemon!Connect
  BY <1>18, ListenerGoes DEF Daemon!Connect, Daemon!Answers
<1>19. CASE Daemon!Reconcile
  BY <1>19, ListenerGoes DEF Daemon!Reconcile, Daemon!Answers
<1>20. CASE Daemon!HangUp
  BY <1>20, ListenerGoes DEF Daemon!HangUp, Daemon!Answers
<1>21. CASE Daemon!Leave
  BY <1>21, ListenerGoes DEF Daemon!Leave, Daemon!Answers
<1>22. CASE Daemon!GivesUp
  BY <1>22, ListenerGoes DEF Daemon!GivesUp, Daemon!ProcessExited, Daemon!Answers
<1>23. CASE Daemon!Work
  BY <1>23 DEF Daemon!Work, Daemon!Answers
<1>24. CASE Daemon!SetOption
  BY <1>24, SetOptionDoes DEF Sets, SetAsks, SetTells, SetMisses, SetNotes, HolderGoes, Frees
<1>25. CASE UNCHANGED Daemon!dvars
  BY <1>25 DEF Daemon!dvars
<1> QED
  BY <1>1, <1>2, <1>3, <1>4, <1>5, <1>6, <1>7, <1>8, <1>9, <1>10, <1>11, <1>12, <1>13, <1>14,
     <1>15, <1>16, <1>17, <1>18, <1>19, <1>20, <1>21, <1>22, <1>23, <1>24, <1>25 DEF Daemon!Next

\* The queue is held with a recovery to come, and freed by the listener that saw the hold.
LEMMA NextHoldIsLifted ==
  ASSUME DaemonBounds, DaemonInvariant, [Daemon!Next]_(Daemon!dvars)
  PROVE  HoldIsLifted'
<1> USE DEF DaemonInvariant, DaemonShapes, ProcessShapes, ActorShapes, Holders, Listeners,
   DaemonBounds, HolderIsKnown, LockIsWorth, Stopping, Starting, StartComesFirst, HoldIsLifted,
   FlagShapes, EveryoneIsLaunched, Known, Daemon!processes, Daemon!guarded, Daemon!work,
   Daemon!options, Daemon!tasks, Daemon!ghosts, Daemon!StarterFrame, Daemon!StartFrame,
   Daemon!ExitFrame, Daemon!ListenFrame, Daemon!Smooth, Daemon!Trouble, Daemon!Procs,
   Daemon!Exits, Daemon!Unheld, Daemon!ShuttingDown, Daemon!Current, Daemon!Lives
<1>1. CASE Daemon!Falter
  BY <1>1 DEF Daemon!Falter, Daemon!Answers
<1>2. CASE Daemon!Launch
  BY <1>2, LaunchDoes, LaunchChanges DEF LaunchFirst
<1>3. CASE Daemon!Adopt
  BY <1>3, AdoptDoes DEF Adopts
<1>4. CASE Daemon!Publish
  BY <1>4, PublishDoes DEF Publishes, Daemon!Answers
<1>5. CASE Daemon!StopBegins
  BY <1>5 DEF Daemon!StopBegins, Daemon!Hold, Daemon!Unlocked
<1>6. CASE Daemon!StopAsk
  BY <1>6 DEF Daemon!StopAsk, Daemon!Answers
<1>7. CASE Daemon!StopTake
  <2>1. StopTakes
    BY <1>7, StopTakeDoes
  <2>2. CASE child # 0
    BY <2>1, <2>2 DEF StopTakes, HolderGoes
  <2>3. CASE child = 0 /\ holder.by = "starter"
    BY <2>1, <2>3 DEF StopTakes, StopEnds, Frees
  <2>4. CASE child = 0 /\ holder.by = "recovery"
    BY <2>1, <2>4 DEF StopTakes, StopEnds, Frees
  <2>5. CASE child = 0 /\ holder.by = "exit"
    BY <2>1, <2>5 DEF StopTakes, StopEnds, Frees, Blocks
  <2> QED
    BY <2>1, <2>2, <2>3, <2>4, <2>5 DEF StopTakes, StopEnds
<1>8. CASE Daemon!StopWait
  <2>1. StopWaits
    BY <1>8, StopWaitDoes
  <2>2. CASE StopKills
    BY <2>2, <2>1 DEF StopKills, StopWaits
  <2>3. CASE StopConfirms
    <3>1. CASE holder.by = "starter"
      BY <2>1, <2>3, <3>1 DEF StopWaits, StopConfirms, StopEnds, Frees
    <3>2. CASE holder.by = "recovery"
      BY <2>1, <2>3, <3>2 DEF StopWaits, StopConfirms, StopEnds, Frees
    <3>3. CASE holder.by = "exit"
      BY <2>1, <2>3, <3>3 DEF StopWaits, StopConfirms, StopEnds, Frees, Blocks
    <3> QED
      BY <2>3, <3>1, <3>2, <3>3 DEF StopConfirms, StopEnds
  <2>4. CASE StopFails
    <3>1. CASE holder.by = "starter"
      BY <2>1, <2>4, <3>1 DEF StopWaits, StopFails, StopEnds, Frees
    <3>2. CASE holder.by = "recovery"
      BY <2>1, <2>4, <3>2 DEF StopWaits, StopFails, StopEnds, Frees
    <3>3. CASE holder.by = "exit"
      BY <2>1, <2>4, <3>3 DEF StopWaits, StopFails, StopEnds, Frees, Blocks
    <3> QED
      BY <2>4, <3>1, <3>2, <3>3 DEF StopFails, StopEnds
  <2> QED
    BY <2>1, <2>2, <2>3, <2>4 DEF StopWaits
<1>9. CASE Daemon!StartSpawn
  BY <1>9, StartSpawnDoes, LaunchChanges DEF StartSpawns, StartEnds, Frees, HolderGoes
<1>10. CASE Daemon!StartSettle
  BY <1>10 DEF Daemon!StartSettle, Daemon!StartsFor, Daemon!Answers
<1>11. CASE Daemon!StartReady
  BY <1>11, StartReadyDoes DEF StartReadies, StartAnswers, StartIsKilled, StartEnds, Frees,
       HolderGoes
<1>12. CASE Daemon!AskExit
  BY <1>12 DEF Daemon!AskExit
<1>13. CASE Daemon!Drain
  BY <1>13 DEF Daemon!Drain
<1>14. CASE Daemon!TooLate
  BY <1>14 DEF Daemon!TooLate, Daemon!Blocked
<1>15. CASE Daemon!Finish
  <2>1. Finishes
    BY <1>15, FinishDoes
  <2>2. CASE Blocks
    <3>1. exits \in Daemon!Exits
      BY <2>1, <2>2 DEF Finishes, HolderIsKnown, ExitGoes
    <3>2. /\ recovering' \in [Daemon!Exits -> {"none", "check", "stop", "again", "restart"}]
          /\ recovering'[exits] = "check"
          /\ \A g \in Daemon!Exits : g # exits => recovering'[g] = recovering[g]
      BY <2>2, <3>1 DEF Blocks
    <3> QED
      BY <2>1, <2>2, <3>1, <3>2 DEF Finishes, Blocks, ExitGoes
  <2>3. CASE ~Blocks
    BY <2>1, <2>3 DEF Finishes, ExitGoes
  <2> QED
    BY <2>2, <2>3
<1>16. CASE \E g \in Daemon!Exits : Daemon!Recover(g)
  BY ZenonT(60), <1>16, RecoverDoes DEF Recovers, RecoverGivesUp, RecoverLooks, RecoverTurns,
     RecoverStarts
<1>17. CASE Daemon!ListenRestart
  BY <1>17, ListenerGoes DEF Daemon!ListenRestart, Daemon!Unlocked, Daemon!Hold
<1>18. CASE Daemon!Connect
  BY <1>18, ListenerGoes DEF Daemon!Connect, Daemon!Answers
<1>19. CASE Daemon!Reconcile
  BY <1>19, ListenerGoes DEF Daemon!Reconcile, Daemon!Answers
<1>20. CASE Daemon!HangUp
  BY <1>20, ListenerGoes DEF Daemon!HangUp, Daemon!Answers
<1>21. CASE Daemon!Leave
  BY <1>21, ListenerGoes DEF Daemon!Leave, Daemon!Answers
<1>22. CASE Daemon!GivesUp
  BY <1>22, ListenerGoes DEF Daemon!GivesUp, Daemon!ProcessExited, Daemon!Answers
<1>23. CASE Daemon!Work
  BY <1>23 DEF Daemon!Work, Daemon!Answers
<1>24. CASE Daemon!SetOption
  <2>1. Sets
    BY <1>24, SetOptionDoes
  <2>2. CASE SetAsks
    BY <2>1, <2>2 DEF Sets, SetAsks
  <2>3. CASE SetTells
    BY <2>1, <2>3 DEF Sets, SetTells, HolderGoes, Frees, Daemon!Answers
  <2>4. CASE SetMisses
    BY <2>1, <2>4 DEF Sets, SetMisses, Frees
  <2>5. CASE SetNotes
    BY <2>1, <2>5 DEF Sets, SetNotes, Frees
  <2> QED
    BY <2>1, <2>2, <2>3, <2>4, <2>5 DEF Sets
<1>25. CASE UNCHANGED Daemon!dvars
  BY <1>25 DEF Daemon!dvars
<1> QED
  BY <1>1, <1>2, <1>3, <1>4, <1>5, <1>6, <1>7, <1>8, <1>9, <1>10, <1>11, <1>12, <1>13, <1>14,
     <1>15, <1>16, <1>17, <1>18, <1>19, <1>20, <1>21, <1>22, <1>23, <1>24, <1>25 DEF Daemon!Next

\* The option is changed in the daemon, for the next launch and in the settings under one lock.
LEMMA NextLaunchesAgree ==
  ASSUME DaemonBounds, DaemonInvariant, [Daemon!Next]_(Daemon!dvars)
  PROVE  LaunchesAgree'
<1> USE DEF DaemonInvariant, DaemonShapes, ProcessShapes, ActorShapes, Holders, Listeners,
   DaemonBounds, HolderIsKnown, LockIsWorth, Stopping, Starting, StartComesFirst, LaunchesAgree,
   FlagShapes, EveryoneIsLaunched, Known, Daemon!processes, Daemon!guarded, Daemon!work,
   Daemon!options, Daemon!tasks, Daemon!ghosts, Daemon!StarterFrame, Daemon!StartFrame,
   Daemon!ExitFrame, Daemon!ListenFrame, Daemon!Smooth, Daemon!Trouble, Daemon!Procs,
   Daemon!Exits, Daemon!Unheld, Daemon!ShuttingDown, Daemon!Current, Daemon!Lives
<1>1. CASE Daemon!Falter
  BY <1>1 DEF Daemon!Falter, Daemon!Answers
<1>2. CASE Daemon!Launch
  BY <1>2, LaunchDoes, LaunchChanges DEF LaunchFirst
<1>3. CASE Daemon!Adopt
  BY <1>3, AdoptDoes DEF Adopts
<1>4. CASE Daemon!Publish
  <2>1. Publishes
    BY <1>4, PublishDoes
  <2>2. CASE starter'.step = "done"
    BY <2>1, <2>2 DEF Publishes, Daemon!Answers
  <2>3. CASE starter'.step # "done"
    BY <2>1, <2>3 DEF Publishes
  <2> QED
    BY <2>2, <2>3
<1>5. CASE Daemon!StopBegins
  BY <1>5 DEF Daemon!StopBegins, Daemon!Hold, Daemon!Unlocked
<1>6. CASE Daemon!StopAsk
  BY <1>6 DEF Daemon!StopAsk, Daemon!Answers
<1>7. CASE Daemon!StopTake
  BY <1>7, StopTakeDoes DEF StopTakes, StopEnds, Frees, Blocks, HolderGoes
<1>8. CASE Daemon!StopWait
  BY <1>8, StopWaitDoes DEF StopWaits, StopKills, StopConfirms, StopFails, StopEnds, Frees, Blocks
<1>9. CASE Daemon!StartSpawn
  BY <1>9, StartSpawnDoes, LaunchChanges DEF StartSpawns, StartEnds, Frees, HolderGoes
<1>10. CASE Daemon!StartSettle
  BY <1>10 DEF Daemon!StartSettle, Daemon!StartsFor, Daemon!Answers
<1>11. CASE Daemon!StartReady
  BY <1>11, StartReadyDoes DEF StartReadies, StartAnswers, StartIsKilled, StartEnds, Frees,
       HolderGoes
<1>12. CASE Daemon!AskExit
  BY <1>12 DEF Daemon!AskExit
<1>13. CASE Daemon!Drain
  BY <1>13 DEF Daemon!Drain
<1>14. CASE Daemon!TooLate
  BY <1>14 DEF Daemon!TooLate, Daemon!Blocked
<1>15. CASE Daemon!Finish
  BY <1>15, FinishDoes DEF Finishes, Blocks, ExitGoes
<1>16. CASE \E g \in Daemon!Exits : Daemon!Recover(g)
  <2>1. PICK g \in Daemon!Exits : Daemon!Recover(g)
    BY <1>16
  <2>2. Recovers(g)
    BY <2>1, RecoverDoes
  <2>3. CASE RecoverGivesUp(g)
    BY <2>2, <2>3 DEF Recovers, RecoverGivesUp
  <2>4. CASE RecoverLooks(g)
    BY <2>2, <2>4 DEF Recovers, RecoverLooks
  <2>5. CASE RecoverTurns(g)
    BY <2>2, <2>5 DEF Recovers, RecoverTurns
  <2>6. CASE RecoverStarts(g)
    BY <2>2, <2>6 DEF Recovers, RecoverStarts
  <2> QED
    BY <2>2, <2>3, <2>4, <2>5, <2>6 DEF Recovers
<1>17. CASE Daemon!ListenRestart
  BY <1>17, ListenerGoes DEF Daemon!ListenRestart, Daemon!Unlocked, Daemon!Hold
<1>18. CASE Daemon!Connect
  BY <1>18, ListenerGoes DEF Daemon!Connect, Daemon!Answers
<1>19. CASE Daemon!Reconcile
  BY <1>19, ListenerGoes DEF Daemon!Reconcile, Daemon!Answers
<1>20. CASE Daemon!HangUp
  BY <1>20, ListenerGoes DEF Daemon!HangUp, Daemon!Answers
<1>21. CASE Daemon!Leave
  BY <1>21, ListenerGoes DEF Daemon!Leave, Daemon!Answers
<1>22. CASE Daemon!GivesUp
  BY <1>22, ListenerGoes DEF Daemon!GivesUp, Daemon!ProcessExited, Daemon!Answers
<1>23. CASE Daemon!Work
  BY <1>23 DEF Daemon!Work, Daemon!Answers
<1>24. CASE Daemon!SetOption
  <2>1. Sets
    BY <1>24, SetOptionDoes
  <2>2. CASE SetAsks
    BY <2>1, <2>2 DEF Sets, SetAsks
  <2>3. CASE SetTells
    BY <2>1, <2>3 DEF Sets, SetTells, HolderGoes, Frees, Daemon!Answers
  <2>4. CASE SetMisses
    BY <2>1, <2>4 DEF Sets, SetMisses, Frees
  <2>5. CASE SetNotes
    BY <2>1, <2>5 DEF Sets, SetNotes, Frees
  <2> QED
    BY <2>1, <2>2, <2>3, <2>4, <2>5 DEF Sets
<1>25. CASE UNCHANGED Daemon!dvars
  BY <1>25 DEF Daemon!dvars
<1> QED
  BY <1>1, <1>2, <1>3, <1>4, <1>5, <1>6, <1>7, <1>8, <1>9, <1>10, <1>11, <1>12, <1>13, <1>14,
     <1>15, <1>16, <1>17, <1>18, <1>19, <1>20, <1>21, <1>22, <1>23, <1>24, <1>25 DEF Daemon!Next

\* It holds before the application starts the daemon.
LEMMA InitDaemon ==
  ASSUME DaemonBounds, Daemon!Init
  PROVE  DaemonInvariant
<1> USE DEF DaemonBounds, Daemon!Init, Daemon!Unheld, Daemon!NotListening, Daemon!Exits
<1>1. DaemonShapes
  <2>1. ProcessShapes /\ FlagShapes
    BY DEF ProcessShapes, FlagShapes
  <2>2. /\ holder \in Holders /\ listener \in Listeners
        /\ starter \in Starters /\ exit \in ExitStates
    BY DEF Holders, Listeners, Starters, ExitStates
  <2> QED
    BY <2>1, <2>2 DEF DaemonShapes, ActorShapes
<1>2. EveryoneIsLaunched /\ HolderIsKnown /\ StartComesFirst /\ LockIsWorth
  BY DEF EveryoneIsLaunched, Known, HolderIsKnown, StartComesFirst, LockIsWorth, Starting
<1>3. DaemonIsAlone /\ TransferIsPublished
  BY DEF DaemonIsAlone, Found, TransferIsPublished, Daemon!Lives
<1>4. SomebodyRestarts /\ HoldIsLifted /\ LaunchesAgree
  BY DEF SomebodyRestarts, HoldIsLifted, LaunchesAgree, Starting
<1> QED
  BY <1>1, <1>2, <1>3, <1>4 DEF DaemonInvariant

\* Every step keeps it.
LEMMA NextDaemon ==
  ASSUME DaemonBounds, DaemonInvariant, [Daemon!Next]_(Daemon!dvars)
  PROVE  DaemonInvariant'
BY NextProcessShapes, NextActorShapes, NextFlagShapes, NextEveryoneIsLaunched, NextHolderIsKnown,
   NextStartComesFirst, NextLockIsWorth, NextDaemonIsAlone, NextTransferIsPublished,
   NextSomebodyRestarts, NextHoldIsLifted, NextLaunchesAgree
DEF DaemonInvariant, DaemonShapes

\* What the invariant says of the properties of the component.
LEMMA DaemonSafety ==
  ASSUME DaemonBounds, DaemonInvariant
  PROVE  /\ Daemon!DaemonIsOwned /\ Daemon!TransfersFollowProcess /\ Daemon!DaemonComesBack
         /\ Daemon!OptionIsKept
<1> USE DEF DaemonInvariant, LockIsWorth, HolderIsKnown
<1>1. Daemon!DaemonIsOwned
  <2>1. SUFFICES ASSUME ~unseen
                 PROVE  Daemon!Cardinality({p \in Daemon!Procs : Daemon!Lives(p)}) <= 1
    BY DEF Daemon!DaemonIsOwned
  <2> DEFINE living == {p \in Daemon!Procs : Daemon!Lives(p)}
             Alone == IF starter.step = "settle" THEN starter.proc
                      ELSE IF holder.step \in {"wait", "settle"} THEN holder.proc ELSE child
  <2>2. starter.step = "settle" => child = 0 /\ holder.step \notin {"wait", "settle"}
    BY DEF StartComesFirst, Stopping, Starting, Daemon!Unheld
  <2>3. holder.step \in {"wait", "settle"} => child = 0
    BY <2>1 DEF DaemonIsAlone
  <2>4. living \in SUBSET {Alone}
    BY <2>1, <2>2, <2>3 DEF DaemonIsAlone, Daemon!Lives
  <2>5. IsFiniteSet({Alone}) /\ Cardinality({Alone}) = 1
    BY FS_Singleton
  <2>6. Cardinality(living) <= 1
    BY <2>4, <2>5, FS_Subset
  <2> QED
    BY <2>6 DEF Cardinality, Daemon!Cardinality
<1>2. Daemon!TransfersFollowProcess
  BY DEF Daemon!TransfersFollowProcess, TransferIsPublished
<1>3. Daemon!DaemonComesBack
  <2>1. SUFFICES ASSUME ~superseded, ~Daemon!ShuttingDown, Daemon!Unlocked, ~Daemon!Recovers
                 PROVE  /\ (listener.step \notin {"none", "ended"} /\ port = 0)
                              => failed # "none" /\ spec # 0
                        /\ (listener.step = "read" /\ listener.proc = port
                            /\ Daemon!Answers(port)) => ~hold
    BY DEF Daemon!DaemonComesBack
  <2>2. exit.step = "none"
    BY <2>1 DEF Daemon!ShuttingDown
  <2>3. listener.step \notin {"none", "ended"} /\ port = 0 => failed # "none" /\ spec # 0
    BY <2>1, <2>2 DEF SomebodyRestarts, StartComesFirst
  <2>4. listener.step = "read" /\ listener.proc = port => ~hold
    BY <2>1, <2>2 DEF HoldIsLifted, Daemon!Recovers
  <2> QED
    BY <2>3, <2>4
<1>4. Daemon!OptionIsKept
  BY DEF Daemon!OptionIsKept, Daemon!Unheld, LaunchesAgree, Stopping, Starting, DaemonShapes,
     ActorShapes, Holders
<1> QED
  BY <1>1, <1>2, <1>3, <1>4

-----------------------------------------------------------------------------
(* The theorem of the aria2 process.                                       *)

\* However starts, exits, recoveries, the listener and changes of an option fall, and whatever
\* process dies, hangs or is not heard: the port is that of the process that is owned, and that one
\* runs alone unless a recovery looked for the handle while a failing stop had it; no outage costs
\* a transfer whose process lives; a daemon that is gone is brought back; and it has the option
\* that was accepted (DaemonIsOwned, TransfersFollowProcess, DaemonComesBack, OptionIsKept).
THEOREM DaemonStaysSupervised ==
  ASSUME DaemonBounds
  PROVE  Daemon!Spec => [](/\ Daemon!DaemonIsOwned /\ Daemon!TransfersFollowProcess
                           /\ Daemon!DaemonComesBack /\ Daemon!OptionIsKept)
<1>1. Daemon!Init => DaemonInvariant
  BY InitDaemon
<1>2. DaemonInvariant /\ [Daemon!Next]_(Daemon!dvars) => DaemonInvariant'
  BY NextDaemon
<1> QED
  BY <1>1, <1>2, DaemonSafety, PTL DEF Daemon!Spec
=============================================================================
