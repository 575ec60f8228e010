--------------------------- MODULE ComponentProofs ---------------------------
(***************************************************************************)
(* The theorems of the components around the queue, for the specification  *)
(* that the run of MCComponents checks: the exit is exact and keeps its    *)
(* promise, a removal is final, moved or replaced files are kept, no       *)
(* snapshot of a row undoes what is committed, credentials stay with the   *)
(* source they are for, the computer is awake while transfers are active,  *)
(* the run of a media download is whole, a probe cleans up, the options of *)
(* a live torrent agree, a recovery replaces a transfer by one other, the  *)
(* aria2 process is supervised, and whatever it transfers is watched.      *)
(*                                                                         *)
(* The proofs are those of ExitBarrierProofs, FileProofs, RowProofs and    *)
(* ServiceProofs, instantiated at the places of the state that             *)
(* MCComponents gives each component.  What is proved here is that the     *)
(* component that moves is the instance those proofs are about, and that   *)
(* the others stand still.                                                 *)
(***************************************************************************)
EXTENDS MCComponents, TLAPS

ExitProofs == INSTANCE ExitBarrierProofs WITH
  guard <- s1, exitAt <- s2, waking <- s3, recovery <- s4, handoffsOpen <- s5, sealed <- s6,
  exiting <- s7, late <- s8, leases <- s9, daemon <- s10, carrier <- s11, bytes <- s12,
  socket <- s13, command <- s14, runner <- s15, registrationClosed <- s16,
  interrupted <- s17, redoing <- s18, observed <- s19, settled <- s20, exitJournal <- s21,
  journalFailed <- s22, stored <- s23, uiRow <- s24, uiNews <- s25, uiExit <- s26,
  finalFlush <- s27, attempts <- s28, exitFaults <- s29, again <- s30, exitStops <- s31,
  procs <- s1, loads <- s2, child <- s3, spec <- s4, port <- s5, failed <- s6, holder <- s7,
  starter <- s8, listener <- s9, recovering <- s10, exits <- s11, exit <- s12, hold <- s13,
  carried <- s14, at <- s15, chosen <- s16, doubt <- s17, superseded <- s18, dropped <- s19,
  unseen <- s20, troubles <- s21
OperationProofs == INSTANCE FileProofs WITH
  MaxStops <- FileStops, RemovalStops <- MaxStops,
  at <- s1, staged <- s2, stagingRoot <- s3, dest <- s4, owned <- s5, move <- s6,
  moving <- s7, cancelMove <- s8, mover <- s9, reader <- s10, moves <- s11,
  moveStops <- s12, moveFaults <- s13,
  target <- s1, quarantine <- s2, journal <- s3, owner <- s4, cmd <- s5, registered <- s6,
  superseded <- s7, accepted <- s8, admitted <- s9, touched <- s10, stops <- s11,
  kind <- s1, claim <- s2, deleteAssets <- s3, row <- s4, job <- s5, manifest <- s6,
  asset <- s7, gone <- s8, transfer <- s9, complete <- s10, outcome <- s11, event <- s12,
  view <- s13, saving <- s14, request <- s15, remover <- s16, permanent <- s17,
  jobStops <- s18, jobFaults <- s19,
  magnet <- s1, gids <- s2, wire <- s3, bound <- s4, adopted <- s5, epoch <- s6,
  revision <- s7, ignored <- s8, buffered <- s9, carried <- s10, cancelled <- s11,
  retrying <- s12, inflight <- s13, backoffs <- s14, adding <- s15, stale <- s16,
  resumers <- s17, handlers <- s18, shows <- s19, adds <- s20, commands <- s21,
  reports <- s22
SnapshotProofs == INSTANCE RowProofs WITH
  rec <- s1, marks <- s2, shown <- s3, snapshot <- s4, committed <- s5, moved <- s6,
  uploaded <- s7, news <- s8, verifier <- s9, acking <- s10, verifications <- s11,
  rowStops <- s12,
  checkpoint <- s1, part <- s2, parts <- s3, run <- s4, frames <- s5, item <- s6,
  held <- s7, upload <- s8, crossed <- s9, runs <- s10, mediaStops <- s11,
  mode <- s1, payload <- s2, asked <- s3, uris <- s4, caps <- s5, alive <- s6, row <- s7,
  saved <- s8, owned <- s9, command <- s10, install <- s11, answer <- s12, session <- s13,
  drift <- s14, missed <- s15, late <- s16, orphaned <- s17, edits <- s18, transfers <- s19,
  torrent <- s1, healedPayload <- s2, gids <- s3, used <- s4, mapped <- s5, healedEpoch <- s6,
  carried <- s7, healedRow <- s8, obs <- s9, sample <- s10, step <- s11, target <- s12,
  adding <- s13, spree <- s14, stranded <- s15, lost <- s16, pauses <- s17
ServiceParts == INSTANCE ServiceProofs WITH
  kind <- s1, known <- s2, sources <- s3, step <- s4, at <- s5, hops <- s6, cookies <- s7,
  strikes <- s8, allowed <- s9, plan <- s10, last <- s11, strayed <- s12, challenged <- s13,
  sends <- s14,
  combined <- s1, permits <- s2, sync <- s3, active <- s4, enabled <- s5, wanted <- s6,
  choice <- s7, call <- s8, worker <- s9, commands <- s10, goal <- s11, believed <- s12,
  held <- s13, owed <- s14, overtaken <- s15, shifts <- s16, preferences <- s17,
  setbacks <- s18,
  setup <- s1, runStep <- s2, strike <- s3, runCookies <- s4, processing <- s5, reason <- s6,
  result <- s7, proc <- s8, event <- s9, mute <- s10, stray <- s11, cancel <- s12,
  pausing <- s13, owned <- s14, outcome <- s15, row <- s16, output <- s17, parts <- s18,
  attempts <- s19, runs <- s20, breaks <- s21, broken <- s22, unseen <- s23, torn <- s24,
  probeStep <- s1, attempt <- s2, bytes <- s3, lease <- s4, probeHeld <- s5, left <- s6,
  request <- s7, transfer <- s8, unwatched <- s9, directory <- s10, daemon <- s11,
  reaper <- s12, probeFaults <- s13, moments <- s14

-----------------------------------------------------------------------------
(* The exit.                                                               *)

\* The state of the exit, where it is the component that moves.
ExitIsInvariant == component = "exit" => ExitProofs!ExitInvariant

\* The two instances are the same machine.
LEMMA SameExitInit == Exit!Init => ExitProofs!Init
BY DEF Exit!Init, ExitProofs!Init

LEMMA SameExitNext == Exit!Next => ExitProofs!Next
BY ZenonT(60) DEF
  Exit!fences, ExitProofs!fences, Exit!barrier, ExitProofs!barrier, Exit!engines,
  ExitProofs!engines, Exit!media, ExitProofs!media, Exit!completion, ExitProofs!completion,
  Exit!renderer, ExitProofs!renderer, Exit!bounds, ExitProofs!bounds, Exit!Running,
  ExitProofs!Running, Exit!ShuttingDown, ExitProofs!ShuttingDown, Exit!Fault, ExitProofs!Fault,
  Exit!Finish, ExitProofs!Finish, Exit!Journal, ExitProofs!Journal, Exit!MayEnter,
  ExitProofs!MayEnter, Exit!Refused, ExitProofs!Refused, Exit!ReaderConnects,
  ExitProofs!ReaderConnects, Exit!ReaderEnters, ExitProofs!ReaderEnters, Exit!ReaderTakes,
  ExitProofs!ReaderTakes, Exit!ReaderLeaves, ExitProofs!ReaderLeaves, Exit!CanBeginHandoff,
  ExitProofs!CanBeginHandoff, Exit!CommandFinds, ExitProofs!CommandFinds, Exit!CommandTakes,
  ExitProofs!CommandTakes, Exit!Settle, ExitProofs!Settle, Exit!StartRunner,
  ExitProofs!StartRunner, Exit!RegisterRunner, ExitProofs!RegisterRunner, Exit!RecordOutcome,
  ExitProofs!RecordOutcome, Exit!RunnerCancelled, ExitProofs!RunnerCancelled, Exit!MarkAfter,
  ExitProofs!MarkAfter, Exit!RunnerAcknowledged, ExitProofs!RunnerAcknowledged,
  Exit!FinishRunner, ExitProofs!FinishRunner, Exit!Deliver, ExitProofs!Deliver, Exit!Save,
  ExitProofs!Save, Exit!Redownload, ExitProofs!Redownload, Exit!Retire, ExitProofs!Retire,
  Exit!CommitRedownload, ExitProofs!CommitRedownload, Exit!UiFlush, ExitProofs!UiFlush,
  Exit!UiFinalFlush, ExitProofs!UiFinalFlush, Exit!GoTo, ExitProofs!GoTo, Exit!ExitRequested,
  ExitProofs!ExitRequested, Exit!Flushed, ExitProofs!Flushed, Exit!HandoffsDrained,
  ExitProofs!HandoffsDrained, Exit!MediaStopped, ExitProofs!MediaStopped, Exit!ExitAdvances,
  ExitProofs!ExitAdvances, Exit!CloseMedia, ExitProofs!CloseMedia, Exit!StopDaemon,
  ExitProofs!StopDaemon, Exit!Seal, ExitProofs!Seal, Exit!TerminalDrained,
  ExitProofs!TerminalDrained, Exit!AskFinalFlush, ExitProofs!AskFinalFlush, Exit!JournalSettled,
  ExitProofs!JournalSettled, Exit!FinalizationAllowed, ExitProofs!FinalizationAllowed,
  Exit!Finalize, ExitProofs!Finalize, Exit!Leave, ExitProofs!Leave, Exit!Refuse,
  ExitProofs!Refuse, Exit!ReopenBarrier, ExitProofs!ReopenBarrier, Exit!ReopenMedia,
  ExitProofs!ReopenMedia, Exit!Reject, ExitProofs!Reject, Exit!MediaTimesOut,
  ExitProofs!MediaTimesOut, Exit!RecoverMedia, ExitProofs!RecoverMedia, Exit!Reopen,
  ExitProofs!Reopen, Exit!Wake, ExitProofs!Wake, Exit!RecoverDaemon, ExitProofs!RecoverDaemon,
  Exit!Restart, ExitProofs!Restart, Exit!Next, ExitProofs!Next

\* While the exit is the component that moves, every step is one of its own.
LEMMA ExitMoves ==
  ASSUME component = "exit", [Next]_vars
  PROVE  component' = "exit" /\ [ExitProofs!Next]_(ExitProofs!xvars)
BY SameExitNext DEF Next, vars, ExitProofs!xvars

\* The exit's inductive invariant holds at first and after every step of whatever component.
LEMMA ExitStartsInvariant == Init => ExitIsInvariant
BY SameExitInit, ExitProofs!InitExit DEF Init, ExitIsInvariant

LEMMA ExitStaysInvariant == ExitIsInvariant /\ [Next]_vars => ExitIsInvariant'
<1>1. component' = "exit" /\ [Next]_vars => component = "exit"
  BY DEF Next, vars
<1> QED
  BY <1>1, ExitMoves, ExitProofs!NextExit DEF ExitIsInvariant

\* The resume journal of an exit is of this lifecycle of the process, and every row that the exit
\* interrupted is resumed from it (ExitIsExact).
THEOREM ExitsAreExact == Spec => []ExitIsExact
<1>1. ExitIsInvariant => ExitIsExact
  <2> SUFFICES ASSUME ExitIsInvariant, component = "exit"
               PROVE  Exit!JournalIsOfThisLifecycle /\ Exit!InterruptedIsResumed
    BY DEF ExitIsExact
  <2>1. ExitProofs!JournalIsOfThisLifecycle /\ ExitProofs!InterruptedIsResumed
    BY ExitProofs!ExitInvariantImplies DEF ExitIsInvariant
  <2> QED
    BY <2>1 DEF Exit!JournalIsOfThisLifecycle, ExitProofs!JournalIsOfThisLifecycle,
       Exit!InterruptedIsResumed, ExitProofs!InterruptedIsResumed
<1> QED
  BY <1>1, ExitStartsInvariant, ExitStaysInvariant, PTL DEF Spec

\* The exit barrier implements ExitPromise: the process leaves only with every completion on the
\* disk (ExitKeepsItsPromise).
THEOREM ExitsKeepTheirPromise == Spec => ExitKeepsItsPromise
<1>1. Init => Promise!Init
  <2> SUFFICES ASSUME Init PROVE Promise!Init
    OBVIOUS
  <2>1. CASE component = "exit"
    <3>1. Exit!Init
      BY <2>1 DEF Init
    <3> QED
      BY <2>1, <3>1 DEF Exit!Init, Promise!Init, Promise!pvars, Exit!Running, Exit!Busy, Exit!Owed,
         Exit!Kept
  <2>2. CASE component # "exit"
    BY <2>2 DEF Promise!Init, Promise!pvars
  <2> QED
    BY <2>1, <2>2
<1>2. ExitIsInvariant /\ [Next]_vars => [Promise!Next]_(Promise!pvars)
  <2> SUFFICES ASSUME ExitIsInvariant, [Next]_vars PROVE [Promise!Next]_(Promise!pvars)
    OBVIOUS
  <2>1. CASE component = "exit"
    <3>1. component' = "exit" /\ [ExitProofs!Next]_(ExitProofs!xvars)
      BY <2>1, ExitMoves
    <3>2. [ExitProofs!Promise!Next]_(ExitProofs!Promise!pvars)
      BY <2>1, <3>1, ExitProofs!NextRefines DEF ExitIsInvariant
    <3> QED
      BY <2>1, <3>1, <3>2
      DEF Promise!Next, Promise!Apply, Promise!Again, Promise!Exit, Promise!Start, Promise!pvars,
          ExitProofs!Promise!Next, ExitProofs!Promise!Apply, ExitProofs!Promise!Again,
          ExitProofs!Promise!Exit, ExitProofs!Promise!Start, ExitProofs!Promise!pvars,
          Exit!Running, ExitProofs!Running, Exit!Busy, ExitProofs!Busy, Exit!Owed,
          ExitProofs!Owed, Exit!Kept, ExitProofs!Kept
  <2>2. CASE component # "exit"
    <3>1. component' = component
      BY DEF Next, vars
    <3> QED
      BY <2>2, <3>1 DEF Promise!pvars
  <2> QED
    BY <2>1, <2>2
<1> QED
  BY <1>1, <1>2, ExitStartsInvariant, ExitStaysInvariant, PTL
  DEF Spec, ExitKeepsItsPromise, Promise!Spec
-----------------------------------------------------------------------------
(* The removal.                                                           *)

\* The state of the removal, where it is the component that moves.
RemovalIsInvariant == component = "removal" => OperationProofs!RemovalInvariant

\* The two instances are the same machine.
LEMMA SameRemovalInit == Removal!Init => OperationProofs!Removal!Init
BY DEF
  Removal!Assets, OperationProofs!Removal!Assets, Removal!Init, OperationProofs!Removal!Init

LEMMA SameRemovalNext == Removal!Next => OperationProofs!Removal!Next
BY ZenonT(60) DEF
  Removal!Assets, OperationProofs!Removal!Assets, Removal!WorkerSteps,
  OperationProofs!Removal!WorkerSteps, Removal!chosen, OperationProofs!Removal!chosen,
  Removal!renderer, OperationProofs!Removal!renderer, Removal!native,
  OperationProofs!Removal!native, Removal!files, OperationProofs!Removal!files,
  Removal!ControlFree, OperationProofs!Removal!ControlFree, Removal!RemovalRequested,
  OperationProofs!Removal!RemovalRequested, Removal!Fault, OperationProofs!Removal!Fault,
  Removal!Finish, OperationProofs!Removal!Finish, Removal!RecordOutcome,
  OperationProofs!Removal!RecordOutcome, Removal!Settle, OperationProofs!Removal!Settle,
  Removal!Deliver, OperationProofs!Removal!Deliver, Removal!Save, OperationProofs!Removal!Save,
  Removal!Saves, OperationProofs!Removal!Saves, Removal!Land, OperationProofs!Removal!Land,
  Removal!Ask, OperationProofs!Removal!Ask, Removal!Flushed, OperationProofs!Removal!Flushed,
  Removal!Submit, OperationProofs!Removal!Submit, Removal!Retry, OperationProofs!Removal!Retry,
  Removal!Pick, OperationProofs!Removal!Pick, Removal!FailAt, OperationProofs!Removal!FailAt,
  Removal!Broken, OperationProofs!Removal!Broken, Removal!GidMapped,
  OperationProofs!Removal!GidMapped, Removal!Classify, OperationProofs!Removal!Classify,
  Removal!BytesComplete, OperationProofs!Removal!BytesComplete, Removal!StopAria2,
  OperationProofs!Removal!StopAria2, Removal!MediaActive, OperationProofs!Removal!MediaActive,
  Removal!CancelMedia, OperationProofs!Removal!CancelMedia, Removal!MediaCancelled,
  OperationProofs!Removal!MediaCancelled, Removal!MediaDrained,
  OperationProofs!Removal!MediaDrained, Removal!NothingToStop,
  OperationProofs!Removal!NothingToStop, Removal!Nothing, OperationProofs!Removal!Nothing,
  Removal!CheckOwner, OperationProofs!Removal!CheckOwner, Removal!NotOwner,
  OperationProofs!Removal!NotOwner, Removal!Cleans, OperationProofs!Removal!Cleans,
  Removal!Authorised, OperationProofs!Removal!Authorised, Removal!Fence,
  OperationProofs!Removal!Fence, Removal!NotAuthorised, OperationProofs!Removal!NotAuthorised,
  Removal!How, OperationProofs!Removal!How, Removal!Remove, OperationProofs!Removal!Remove,
  Removal!RemovePayload, OperationProofs!Removal!RemovePayload, Removal!RemoveSidecars,
  OperationProofs!Removal!RemoveSidecars, Removal!RemoveFolder,
  OperationProofs!Removal!RemoveFolder, Removal!KeepFolder, OperationProofs!Removal!KeepFolder,
  Removal!Commit, OperationProofs!Removal!Commit, Removal!CommitFails,
  OperationProofs!Removal!CommitFails, Removal!Write, OperationProofs!Removal!Write,
  Removal!StopProcess, OperationProofs!Removal!StopProcess, Removal!Transfer,
  OperationProofs!Removal!Transfer, Removal!Renderer, OperationProofs!Removal!Renderer,
  Removal!Worker, OperationProofs!Removal!Worker, Removal!Next, OperationProofs!Removal!Next

\* The removal's inductive invariant holds at first and after every step of whatever component.
LEMMA RemovalStarts ==
  Init => RemovalIsInvariant
BY SameRemovalInit, OperationProofs!InitRemoval DEF Init, RemovalIsInvariant

LEMMA RemovalStaysInvariant ==
  RemovalIsInvariant /\ [Next]_vars => RemovalIsInvariant'
<1>1. component' = "removal" /\ [Next]_vars
        => component = "removal" /\ [OperationProofs!Removal!Next]_(OperationProofs!Removal!rvars)
  BY SameRemovalNext DEF Next, vars, OperationProofs!Removal!rvars
<1> QED
  BY <1>1, OperationProofs!NextRemoval DEF RemovalIsInvariant

\* A removal takes no file that its first cleanup did not find, and a removed row never comes back
\* and goes only when its files are gone (RemovalIsFinal).
THEOREM RemovalsAreFinal == Spec => []RemovalIsFinal
<1>1. RemovalIsInvariant => RemovalIsFinal
  <2>1. RemovalIsInvariant /\ component = "removal"
          => Removal!ForeignFilesSurvive /\ Removal!RemovedStaysRemoved
    BY OperationProofs!RemovalSafety
    DEF RemovalIsInvariant, Removal!ForeignFilesSurvive,
       OperationProofs!Removal!ForeignFilesSurvive, Removal!RemovedStaysRemoved,
       OperationProofs!Removal!RemovedStaysRemoved, Removal!Cleans, OperationProofs!Removal!Cleans
  <2> QED
    BY <2>1 DEF RemovalIsFinal
<1> QED
  BY <1>1, RemovalStarts, RemovalStaysInvariant, PTL DEF Spec

-----------------------------------------------------------------------------
(* The move of a torrent and the replacement of a file.                   *)

\* The state of the move, where it is the component that moves.
MoveIsInvariant == component = "move" => OperationProofs!MoveInvariant

\* The two instances are the same machine.
LEMMA SameMoveInit == Move!Init => OperationProofs!Move!Init
BY DEF
  Move!Folders, OperationProofs!Move!Folders, Move!NoJournal, OperationProofs!Move!NoJournal,
  Move!Init, OperationProofs!Move!Init

LEMMA SameMoveNext == Move!Next => OperationProofs!Move!Next
BY DEF
  Move!Folders, OperationProofs!Move!Folders, Move!Other, OperationProofs!Move!Other, Move!disk,
  OperationProofs!Move!disk, Move!database, OperationProofs!Move!database, Move!bounds,
  OperationProofs!Move!bounds, Move!NoJournal, OperationProofs!Move!NoJournal, Move!from,
  OperationProofs!Move!from, Move!NothingStaged, OperationProofs!Move!NothingStaged, Move!Fault,
  OperationProofs!Move!Fault, Move!Write, OperationProofs!Move!Write, Move!StartMove,
  OperationProofs!Move!StartMove, Move!BeginMove, OperationProofs!Move!BeginMove, Move!Finish,
  OperationProofs!Move!Finish, Move!WriteJournal, OperationProofs!Move!WriteJournal,
  Move!MakeStaging, OperationProofs!Move!MakeStaging, Move!OwnNew, OperationProofs!Move!OwnNew,
  Move!GiveUp, OperationProofs!Move!GiveUp, Move!CopyFile, OperationProofs!Move!CopyFile,
  Move!MoveCancelled, OperationProofs!Move!MoveCancelled, Move!AllCopied,
  OperationProofs!Move!AllCopied, Move!Publish, OperationProofs!Move!Publish, Move!Unstage,
  OperationProofs!Move!Unstage, Move!NoteCopied, OperationProofs!Move!NoteCopied,
  Move!CommitMove, OperationProofs!Move!CommitMove, Move!NoteCommitted,
  OperationProofs!Move!NoteCommitted, Move!CleanSource, OperationProofs!Move!CleanSource,
  Move!SourceStays, OperationProofs!Move!SourceStays, Move!SourceClean,
  OperationProofs!Move!SourceClean, Move!CleanOutputs, OperationProofs!Move!CleanOutputs,
  Move!RestoreOwnership, OperationProofs!Move!RestoreOwnership, Move!OwnOld,
  OperationProofs!Move!OwnOld, Move!ForgetMove, OperationProofs!Move!ForgetMove,
  Move!CancelMove, OperationProofs!Move!CancelMove, Move!StopMove,
  OperationProofs!Move!StopMove, Move!Decodes, OperationProofs!Move!Decodes, Move!Committed,
  OperationProofs!Move!Committed, Move!LeaveJournal, OperationProofs!Move!LeaveJournal,
  Move!Leftovers, OperationProofs!Move!Leftovers, Move!RecoverFile,
  OperationProofs!Move!RecoverFile, Move!RecoveryFails, OperationProofs!Move!RecoveryFails,
  Move!RecoverStaging, OperationProofs!Move!RecoverStaging, Move!Next, OperationProofs!Move!Next

\* The move's inductive invariant holds at first and after every step of whatever component.
LEMMA MoveStarts ==
  Init => MoveIsInvariant
BY SameMoveInit, OperationProofs!InitMove DEF Init, MoveIsInvariant

LEMMA MoveStaysInvariant ==
  MoveIsInvariant /\ [Next]_vars => MoveIsInvariant'
<1>1. component' = "move" /\ [Next]_vars
        => component = "move" /\ [OperationProofs!Move!Next]_(OperationProofs!Move!vars)
  BY SameMoveNext DEF Next, vars, OperationProofs!Move!vars
<1> QED
  BY <1>1, OperationProofs!NextMove DEF MoveIsInvariant

\* The state of the replacement, where it is the component that moves.
ReplacementIsInvariant == component = "replacement" => OperationProofs!ReplacementInvariant

\* The two instances are the same machine.
LEMMA SameReplacementInit == Replacement!Init => OperationProofs!Replacement!Init
BY DEF
  Replacement!Init, OperationProofs!Replacement!Init

LEMMA SameReplacementNext == Replacement!Next => OperationProofs!Replacement!Next
BY DEF
  Replacement!files, OperationProofs!Replacement!files, Replacement!GoTo,
  OperationProofs!Replacement!GoTo, Replacement!SetJournal,
  OperationProofs!Replacement!SetJournal, Replacement!SetQuarantine,
  OperationProofs!Replacement!SetQuarantine, Replacement!TargetFree,
  OperationProofs!Replacement!TargetFree, Replacement!Prepare,
  OperationProofs!Replacement!Prepare, Replacement!Stage, OperationProofs!Replacement!Stage,
  Replacement!Verify, OperationProofs!Replacement!Verify, Replacement!Register,
  OperationProofs!Replacement!Register, Replacement!Commit, OperationProofs!Replacement!Commit,
  Replacement!CommitRefused, OperationProofs!Replacement!CommitRefused, Replacement!Decide,
  OperationProofs!Replacement!Decide, Replacement!Finalize,
  OperationProofs!Replacement!Finalize, Replacement!Forget, OperationProofs!Replacement!Forget,
  Replacement!AfterRestore, OperationProofs!Replacement!AfterRestore, Replacement!CanLink,
  OperationProofs!Replacement!CanLink, Replacement!Link, OperationProofs!Replacement!Link,
  Replacement!Unlink, OperationProofs!Replacement!Unlink, Replacement!Clear,
  OperationProofs!Replacement!Clear, Replacement!DropOwnership,
  OperationProofs!Replacement!DropOwnership, Replacement!Disown,
  OperationProofs!Replacement!Disown, Replacement!OwnedByIt,
  OperationProofs!Replacement!OwnedByIt, Replacement!Committed,
  OperationProofs!Replacement!Committed, Replacement!Discards,
  OperationProofs!Replacement!Discards, Replacement!Restores,
  OperationProofs!Replacement!Restores, Replacement!Empty, OperationProofs!Replacement!Empty,
  Replacement!Recover, OperationProofs!Replacement!Recover, Replacement!Relink,
  OperationProofs!Replacement!Relink, Replacement!Reunlink,
  OperationProofs!Replacement!Reunlink, Replacement!Redisown,
  OperationProofs!Replacement!Redisown, Replacement!Supersede,
  OperationProofs!Replacement!Supersede, Replacement!Touch, OperationProofs!Replacement!Touch,
  Replacement!Output, OperationProofs!Replacement!Output, Replacement!Stop,
  OperationProofs!Replacement!Stop, Replacement!Step, OperationProofs!Replacement!Step,
  Replacement!Next, OperationProofs!Replacement!Next

\* The replacement's inductive invariant holds at first and after every step of whatever component.
LEMMA ReplacementStarts ==
  ASSUME Nobody \notin Ids
  PROVE  Init => ReplacementIsInvariant
BY SameReplacementInit, OperationProofs!InitReplacement DEF Init, ReplacementIsInvariant

LEMMA ReplacementStaysInvariant ==
  ASSUME Nobody \notin Ids
  PROVE  ReplacementIsInvariant /\ [Next]_vars => ReplacementIsInvariant'
<1>1. component' = "replacement" /\ [Next]_vars
        => /\ component = "replacement"
           /\ [OperationProofs!Replacement!Next]_(OperationProofs!Replacement!vars)
  BY SameReplacementNext DEF Next, vars, OperationProofs!Replacement!vars
<1> QED
  BY <1>1, OperationProofs!NextReplacement DEF ReplacementIsInvariant

\* A replaced file survives until its replacement is durable, and nobody else's is lost or left to a
\* download whose replacement was refused; the folder of a row has all of its torrent, wherever a
\* move ends, and the ownership record names that folder when the move is over (FilesAreKept).
THEOREM OperationsKeepFiles ==
  ASSUME Nobody \notin Ids
  PROVE  Spec => []FilesAreKept
<1>1. MoveIsInvariant /\ ReplacementIsInvariant => FilesAreKept
  <2>1. ASSUME MoveIsInvariant, component = "move"
        PROVE  Move!RowHasTheData /\ Move!OwnershipFollowsData
    <3>1. OperationProofs!Move!RowHasTheData /\ OperationProofs!Move!OwnershipFollowsData
      BY <2>1, OperationProofs!MoveSafety DEF MoveIsInvariant
    <3> QED
      BY <3>1
      DEF Move!RowHasTheData, OperationProofs!Move!RowHasTheData, Move!OwnershipFollowsData,
         OperationProofs!Move!OwnershipFollowsData
  <2>2. ASSUME ReplacementIsInvariant, component = "replacement"
        PROVE  /\ Replacement!OriginalSurvives /\ Replacement!ForeignFileSurvives
               /\ Replacement!OwnsOnlyItsOutput
    <3>1. /\ OperationProofs!Replacement!OriginalSurvives
          /\ OperationProofs!Replacement!ForeignFileSurvives
          /\ OperationProofs!Replacement!OwnsOnlyItsOutput
      BY <2>2, OperationProofs!ReplacementSafety DEF ReplacementIsInvariant
    <3> QED
      BY <3>1
      DEF Replacement!OriginalSurvives, OperationProofs!Replacement!OriginalSurvives,
         Replacement!ForeignFileSurvives, OperationProofs!Replacement!ForeignFileSurvives,
         Replacement!OwnsOnlyItsOutput, OperationProofs!Replacement!OwnsOnlyItsOutput,
         Replacement!Somewhere, OperationProofs!Replacement!Somewhere
  <2> QED
    BY <2>1, <2>2 DEF FilesAreKept
<1>2. Init => MoveIsInvariant /\ ReplacementIsInvariant
  BY MoveStarts, ReplacementStarts
<1>3. MoveIsInvariant /\ ReplacementIsInvariant /\ [Next]_vars
        => (MoveIsInvariant /\ ReplacementIsInvariant)'
  BY MoveStaysInvariant, ReplacementStaysInvariant
<1> QED
  BY <1>1, <1>2, <1>3, PTL DEF Spec
-----------------------------------------------------------------------------
(* Snapshots of the renderer against native commits.                      *)

\* The state of the row, where it is the component that moves.
RowsIsInvariant == component = "rows" => SnapshotProofs!RowInvariant

\* The two instances are the same machine.
LEMMA SameRowsInit == Rows!Init => SnapshotProofs!Rows!Init
BY DEF
  Rows!NoRow, SnapshotProofs!Rows!NoRow, Rows!Init, SnapshotProofs!Rows!Init

LEMMA SameRowsNext == Rows!Next => SnapshotProofs!Rows!Next
BY DEF
  Rows!NoRow, SnapshotProofs!Rows!NoRow, Rows!Max, SnapshotProofs!Rows!Max,
  Rows!Larger, SnapshotProofs!Rows!Larger, Rows!Send,
  SnapshotProofs!Rows!Send, Rows!Folder, SnapshotProofs!Rows!Folder, Rows!Uploaded,
  SnapshotProofs!Rows!Uploaded, Rows!Acknowledged, SnapshotProofs!Rows!Acknowledged, Rows!Land,
  SnapshotProofs!Rows!Land, Rows!Move, SnapshotProofs!Rows!Move, Rows!Checkpoint,
  SnapshotProofs!Rows!Checkpoint, Rows!CommitVerify, SnapshotProofs!Rows!CommitVerify,
  Rows!Enqueue, SnapshotProofs!Rows!Enqueue, Rows!Rollback, SnapshotProofs!Rows!Rollback,
  Rows!RunEnds, SnapshotProofs!Rows!RunEnds, Rows!ShowMove, SnapshotProofs!Rows!ShowMove,
  Rows!ShowUploaded, SnapshotProofs!Rows!ShowUploaded, Rows!AskVerify,
  SnapshotProofs!Rows!AskVerify, Rows!ShowRefusal, SnapshotProofs!Rows!ShowRefusal,
  Rows!Acknowledge, SnapshotProofs!Rows!Acknowledge, Rows!ShowEnd, SnapshotProofs!Rows!ShowEnd,
  Rows!ClearVerify, SnapshotProofs!Rows!ClearVerify, Rows!StopProcess,
  SnapshotProofs!Rows!StopProcess, Rows!Next, SnapshotProofs!Rows!Next

\* The row's inductive invariant holds at first and after every step of whatever component.
LEMMA RowsStarts ==
  ASSUME MaxUploads \in Nat
  PROVE  Init => RowsIsInvariant
BY SameRowsInit, SnapshotProofs!InitRows DEF Init, RowsIsInvariant

LEMMA RowsStaysInvariant ==
  ASSUME MaxUploads \in Nat
  PROVE  RowsIsInvariant /\ [Next]_vars => RowsIsInvariant'
<1>1. component' = "rows" /\ [Next]_vars
        => component = "rows" /\ [SnapshotProofs!Rows!Next]_(SnapshotProofs!Rows!svars)
  BY SameRowsNext DEF Next, vars, SnapshotProofs!Rows!svars
<1> QED
  BY <1>1, SnapshotProofs!NextRows DEF RowsIsInvariant

\* No snapshot of the renderer undoes what the native side has committed, and the markers that
\* protect a commit go when they have done so (RowsAgree).
THEOREM SnapshotsKeepCommits ==
  ASSUME MaxUploads \in Nat
  PROVE  Spec => []RowsAgree
<1>1. RowsIsInvariant => RowsAgree
  <2>1. RowsIsInvariant /\ component = "rows"
          => Rows!NativeCommitsAreKept /\ Rows!SnapshotsConverge
    BY SnapshotProofs!RowSafety
    DEF RowsIsInvariant, Rows!NativeCommitsAreKept, SnapshotProofs!Rows!NativeCommitsAreKept,
       Rows!SnapshotsConverge, SnapshotProofs!Rows!SnapshotsConverge, Rows!NoRow,
       SnapshotProofs!Rows!NoRow
  <2> QED
    BY <2>1 DEF RowsAgree
<1>2. Init => RowsIsInvariant
  BY RowsStarts
<1>3. RowsIsInvariant /\ [Next]_vars => RowsIsInvariant'
  BY RowsStaysInvariant
<1> QED
  BY <1>1, <1>2, <1>3, PTL DEF Spec

\* The state of the progress, where it is the component that moves.
MediaIsInvariant == component = "media" => SnapshotProofs!MediaInvariant

\* The two instances are the same machine.
LEMMA SameMediaInit == Media!Init => SnapshotProofs!Media!Init
BY DEF
  Media!NoUpload, SnapshotProofs!Media!NoUpload, Media!Init, SnapshotProofs!Media!Init

LEMMA SameMediaNext == Media!Next => SnapshotProofs!Media!Next
BY DEF
  Media!NoUpload, SnapshotProofs!Media!NoUpload, Media!Emit, SnapshotProofs!Media!Emit,
  Media!StartRun, SnapshotProofs!Media!StartRun, Media!Fetch, SnapshotProofs!Media!Fetch,
  Media!Pause, SnapshotProofs!Media!Pause, Media!CancelEnds, SnapshotProofs!Media!CancelEnds,
  Media!Fail, SnapshotProofs!Media!Fail, Media!EndRun, SnapshotProofs!Media!EndRun,
  Media!Cleared, SnapshotProofs!Media!Cleared, Media!Invalidate,
  SnapshotProofs!Media!Invalidate, Media!Delete, SnapshotProofs!Media!Delete, Media!Arrived,
  SnapshotProofs!Media!Arrived, Media!Current, SnapshotProofs!Media!Current, Media!PriorPause,
  SnapshotProofs!Media!PriorPause, Media!Ignore, SnapshotProofs!Media!Ignore, Media!Drop,
  SnapshotProofs!Media!Drop, Media!ShowProgress, SnapshotProofs!Media!ShowProgress,
  Media!ShowInvalidated, SnapshotProofs!Media!ShowInvalidated, Media!ShowFailed,
  SnapshotProofs!Media!ShowFailed, Media!Upload, SnapshotProofs!Media!Upload, Media!Fenced,
  SnapshotProofs!Media!Fenced, Media!Store, SnapshotProofs!Media!Store, Media!StopMedia,
  SnapshotProofs!Media!StopMedia, Media!Next, SnapshotProofs!Media!Next

\* The progress's inductive invariant holds at first and after every step of whatever component.
LEMMA MediaStarts ==
  Init => MediaIsInvariant
BY SameMediaInit, SnapshotProofs!InitMedia DEF Init, MediaIsInvariant

LEMMA MediaStaysInvariant ==
  MediaIsInvariant /\ [Next]_vars => MediaIsInvariant'
<1>1. component' = "media" /\ [Next]_vars
        => component = "media" /\ [SnapshotProofs!Media!Next]_(SnapshotProofs!Media!pvars)
  BY SameMediaNext DEF Next, vars, SnapshotProofs!Media!pvars
<1> QED
  BY <1>1, SnapshotProofs!NextMedia DEF MediaIsInvariant

\* The progress in the database is that of the partial files there are, unless the renderer held a
\* frame back when the epoch changed (ProgressIsOfTheseBytes).
THEOREM ProgressFollowsFiles == Spec => []ProgressIsOfTheseBytes
<1>1. MediaIsInvariant => ProgressIsOfTheseBytes
  <2>1. MediaIsInvariant /\ component = "media"
          => Media!ProgressIsOfTheseBytes
    BY SnapshotProofs!MediaSafety
    DEF MediaIsInvariant, Media!ProgressIsOfTheseBytes,
       SnapshotProofs!Media!ProgressIsOfTheseBytes
  <2> QED
    BY <2>1 DEF ProgressIsOfTheseBytes
<1> QED
  BY <1>1, MediaStarts, MediaStaysInvariant, PTL DEF Spec
-----------------------------------------------------------------------------
(* The requests to a source, and the assertions that keep the computer awake. *)

\* The state of the request, where it is the component that moves.
SourceIsInvariant == component = "sources" => ServiceParts!ProbeInvariant

\* The two instances are the same machine.
LEMMA SameSourceInit == Source!Init => ServiceParts!Probes!Init
BY DEF
  Source!Source, ServiceParts!Probes!Source, Source!Unsent, ServiceParts!Probes!Unsent,
  Source!Chains, ServiceParts!Probes!Chains, Source!WellFormed, ServiceParts!Probes!WellFormed,
  Source!Available, ServiceParts!Probes!Available, Source!Init, ServiceParts!Probes!Init

LEMMA SameSourceNext == Source!Next => ServiceParts!Probes!Next
BY DEF
  Source!caller, ServiceParts!Probes!caller, Source!Origins, ServiceParts!Probes!Origins,
  Source!Available, ServiceParts!Probes!Available, Source!SameOrigin,
  ServiceParts!Probes!SameOrigin, Source!CookieFor, ServiceParts!Probes!CookieFor,
  Source!MayForward, ServiceParts!Probes!MayForward, Source!Credentials,
  ServiceParts!Probes!Credentials, Source!ProbeShows, ServiceParts!Probes!ProbeShows,
  Source!TransferShows, ServiceParts!Probes!TransferShows, Source!Sent,
  ServiceParts!Probes!Sent, Source!Answers, ServiceParts!Probes!Answers, Source!Goes,
  ServiceParts!Probes!Goes, Source!Retryable, ServiceParts!Probes!Retryable, Source!Strike,
  ServiceParts!Probes!Strike, Source!Forwarded, ServiceParts!Probes!Forwarded, Source!Follow,
  ServiceParts!Probes!Follow, Source!Challenges, ServiceParts!Probes!Challenges,
  Source!SecondPass, ServiceParts!Probes!SecondPass, Source!Weighs, ServiceParts!Probes!Weighs,
  Source!AskHead, ServiceParts!Probes!AskHead, Source!TooManyRedirects,
  ServiceParts!Probes!TooManyRedirects, Source!Get, ServiceParts!Probes!Get, Source!RangedGet,
  ServiceParts!Probes!RangedGet, Source!FetchTorrent, ServiceParts!Probes!FetchTorrent,
  Source!ReadTorrent, ServiceParts!Probes!ReadTorrent, Source!Now, ServiceParts!Probes!Now,
  Source!Accept, ServiceParts!Probes!Accept, Source!TakePlain, ServiceParts!Probes!TakePlain,
  Source!Unverified, ServiceParts!Probes!Unverified, Source!ProbeRange,
  ServiceParts!Probes!ProbeRange, Source!Next, ServiceParts!Probes!Next

\* The request's inductive invariant holds at first and after every step of whatever component.
LEMMA SourceStarts ==
  ASSUME Hops \in Nat
  PROVE  Init => SourceIsInvariant
BY SameSourceInit, ServiceParts!InitProbes DEF Init, SourceIsInvariant

LEMMA SourceStaysInvariant ==
  ASSUME Hops \in Nat
  PROVE  SourceIsInvariant /\ [Next]_vars => SourceIsInvariant'
<1>1. component' = "sources" /\ [Next]_vars
        => component = "sources" /\ [ServiceParts!Probes!Next]_(ServiceParts!Probes!svars)
  BY SameSourceNext DEF Next, vars, ServiceParts!Probes!svars
<1> QED
  BY <1>1, ServiceParts!NextProbes DEF SourceIsInvariant

\* The requests that ask a source for a download show its credentials to nobody else, come to an
\* end, and leave aria2 no more than they found (CredentialsAreKept).
THEOREM CredentialsStay ==
  ASSUME Hops \in Nat
  PROVE  Spec => []CredentialsAreKept
<1>1. SourceIsInvariant => CredentialsAreKept
  <2>1. SourceIsInvariant /\ component = "sources"
          => /\ Source!CredentialsStayHome /\ Source!CookiesWait
             /\ Source!SendsAreBounded /\ Source!TransferIsPrepared
    BY ServiceParts!ProbeSafety
    DEF SourceIsInvariant, Source!CredentialsStayHome, ServiceParts!Probes!CredentialsStayHome,
       Source!CookiesWait, ServiceParts!Probes!CookiesWait, Source!SendsAreBounded,
       ServiceParts!Probes!SendsAreBounded, Source!TransferIsPrepared,
       ServiceParts!Probes!TransferIsPrepared, Source!Credentials,
       ServiceParts!Probes!Credentials, Source!MayForward, ServiceParts!Probes!MayForward
  <2> QED
    BY <2>1 DEF CredentialsAreKept
<1>2. Init => SourceIsInvariant
  BY SourceStarts
<1>3. SourceIsInvariant /\ [Next]_vars => SourceIsInvariant'
  BY SourceStaysInvariant
<1> QED
  BY <1>1, <1>2, <1>3, PTL DEF Spec

\* The state of the assertion, where it is the component that moves.
PowerIsInvariant == component = "power" => ServiceParts!PowerInvariant

\* The two instances are the same machine.
LEMMA SamePowerInit == Power!Init => ServiceParts!Power!Init
BY DEF
  Power!Nothing, ServiceParts!Power!Nothing, Power!Callers, ServiceParts!Power!Callers,
  Power!Quiet, ServiceParts!Power!Quiet, Power!Init, ServiceParts!Power!Init

LEMMA SamePowerNext == Power!Next => ServiceParts!Power!Next
BY DEF
  Power!Cardinality, ServiceParts!Power!Cardinality,
  Power!report, ServiceParts!Power!report, Power!settings, ServiceParts!Power!settings,
  Power!assertions, ServiceParts!Power!assertions, Power!Sleep, ServiceParts!Power!Sleep,
  Power!Nothing, ServiceParts!Power!Nothing, Power!Callers, ServiceParts!Power!Callers,
  Power!Quiet, ServiceParts!Power!Quiet, Power!Setback, ServiceParts!Power!Setback,
  Power!GateIsFree, ServiceParts!Power!GateIsFree, Power!Park, ServiceParts!Power!Park,
  Power!Release, ServiceParts!Power!Release, Power!Count, ServiceParts!Power!Count, Power!Store,
  ServiceParts!Power!Store, Power!Activate, ServiceParts!Power!Activate, Power!Prefer,
  ServiceParts!Power!Prefer, Power!PreferSecond, ServiceParts!Power!PreferSecond,
  Power!Unlocked, ServiceParts!Power!Unlocked, Power!Ensure, ServiceParts!Power!Ensure,
  Power!Send, ServiceParts!Power!Send, Power!Restart, ServiceParts!Power!Restart, Power!Desired,
  ServiceParts!Power!Desired, Power!Take, ServiceParts!Power!Take, Power!Answered,
  ServiceParts!Power!Answered, Power!Together, ServiceParts!Power!Together, Power!Apply,
  ServiceParts!Power!Apply, Power!Die, ServiceParts!Power!Die, Power!End,
  ServiceParts!Power!End, Power!Next, ServiceParts!Power!Next

\* The assertion's inductive invariant holds at first and after every step of whatever component.
LEMMA PowerStarts ==
  ASSUME "main" \notin Transfers
  PROVE  Init => PowerIsInvariant
BY SamePowerInit, ServiceParts!InitPower DEF Init, PowerIsInvariant

LEMMA PowerStaysInvariant ==
  ASSUME "main" \notin Transfers
  PROVE  PowerIsInvariant /\ [Next]_vars => PowerIsInvariant'
<1>1. component' = "power" /\ [Next]_vars
        => component = "power" /\ [ServiceParts!Power!Next]_(ServiceParts!Power!wvars)
  BY SamePowerNext DEF Next, vars, ServiceParts!Power!wvars
<1> QED
  BY <1>1, ServiceParts!NextPower DEF PowerIsInvariant

\* The computer stays awake exactly while transfers are active and the preferences ask for it,
\* unless the system refused (AwakeWhileBusy).
THEOREM AwakeExactlyWhileBusy ==
  ASSUME "main" \notin Transfers
  PROVE  Spec => []AwakeWhileBusy
<1>1. PowerIsInvariant => AwakeWhileBusy
  <2>1. PowerIsInvariant /\ component = "power"
          => Power!CountFollowsPermits /\ Power!SleepFollowsTransfers
    BY ServiceParts!PowerSafety
    DEF PowerIsInvariant, Power!CountFollowsPermits, ServiceParts!Power!CountFollowsPermits,
       Power!SleepFollowsTransfers, ServiceParts!Power!SleepFollowsTransfers, Power!Settled,
       ServiceParts!Power!Settled, Power!Desired, ServiceParts!Power!Desired, Power!Callers,
       ServiceParts!Power!Callers, Power!Nothing, ServiceParts!Power!Nothing, Power!Cardinality,
       ServiceParts!Power!Cardinality
  <2> QED
    BY <2>1 DEF AwakeWhileBusy
<1>2. Init => PowerIsInvariant
  BY PowerStarts
<1>3. PowerIsInvariant /\ [Next]_vars => PowerIsInvariant'
  BY PowerStaysInvariant
<1> QED
  BY <1>1, <1>2, <1>3, PTL DEF Spec

-----------------------------------------------------------------------------
(* The run of a media download.                                           *)

\* The state of the run, where it is the component that moves.
RunIsInvariant == component = "run" => ServiceParts!RunInvariant

\* The two instances are the same machine.
LEMMA SameMediaRunnerInit == MediaRunner!Init => ServiceParts!Runner!Init
BY DEF
  MediaRunner!FirstCookies, ServiceParts!Runner!FirstCookies, MediaRunner!Init,
  ServiceParts!Runner!Init

LEMMA SameMediaRunnerNext == MediaRunner!Next => ServiceParts!Runner!Next
BY ZenonT(60) DEF
  MediaRunner!attempt, ServiceParts!Runner!attempt, MediaRunner!child,
  ServiceParts!Runner!child, MediaRunner!control, ServiceParts!Runner!control,
  MediaRunner!files, ServiceParts!Runner!files, MediaRunner!counts, ServiceParts!Runner!counts,
  MediaRunner!FirstCookies, ServiceParts!Runner!FirstCookies, MediaRunner!Write,
  ServiceParts!Runner!Write, MediaRunner!Exit, ServiceParts!Runner!Exit, MediaRunner!Report,
  ServiceParts!Runner!Report, MediaRunner!Break, ServiceParts!Runner!Break,
  MediaRunner!StrayDies, ServiceParts!Runner!StrayDies, MediaRunner!Fresh,
  ServiceParts!Runner!Fresh, MediaRunner!Start, ServiceParts!Runner!Start, MediaRunner!Return,
  ServiceParts!Runner!Return, MediaRunner!Attempt, ServiceParts!Runner!Attempt,
  MediaRunner!Failures, ServiceParts!Runner!Failures, MediaRunner!Watch,
  ServiceParts!Runner!Watch, MediaRunner!Stopped, ServiceParts!Runner!Stopped,
  MediaRunner!Grace, ServiceParts!Runner!Grace, MediaRunner!Kill, ServiceParts!Runner!Kill,
  MediaRunner!Drain, ServiceParts!Runner!Drain, MediaRunner!Unconfirmed,
  ServiceParts!Runner!Unconfirmed, MediaRunner!Drop, ServiceParts!Runner!Drop,
  MediaRunner!BrowserFallback, ServiceParts!Runner!BrowserFallback, MediaRunner!FileFallback,
  ServiceParts!Runner!FileFallback, MediaRunner!Retriable, ServiceParts!Runner!Retriable,
  MediaRunner!FallbackCookies, ServiceParts!Runner!FallbackCookies, MediaRunner!Decide,
  ServiceParts!Runner!Decide, MediaRunner!Waited, ServiceParts!Runner!Waited,
  MediaRunner!Aborted, ServiceParts!Runner!Aborted, MediaRunner!Backoff,
  ServiceParts!Runner!Backoff, MediaRunner!AllOurs, ServiceParts!Runner!AllOurs,
  MediaRunner!Delete, ServiceParts!Runner!Delete, MediaRunner!Clean, ServiceParts!Runner!Clean,
  MediaRunner!Wipe, ServiceParts!Runner!Wipe, MediaRunner!Publish, ServiceParts!Runner!Publish,
  MediaRunner!Finish, ServiceParts!Runner!Finish, MediaRunner!Reconcile,
  ServiceParts!Runner!Reconcile, MediaRunner!Pause, ServiceParts!Runner!Pause,
  MediaRunner!FinishPause, ServiceParts!Runner!FinishPause, MediaRunner!Next,
  ServiceParts!Runner!Next

\* The run's inductive invariant holds at first and after every step of whatever component.
LEMMA MediaRunnerStarts ==
  ASSUME MaxStrikes \in Nat
  PROVE  Init => RunIsInvariant
BY SameMediaRunnerInit, ServiceParts!InitRun DEF Init, RunIsInvariant

LEMMA MediaRunnerStaysInvariant ==
  ASSUME MaxStrikes \in Nat
  PROVE  RunIsInvariant /\ [Next]_vars => RunIsInvariant'
<1>1. component' = "run" /\ [Next]_vars
        => component = "run" /\ [ServiceParts!Runner!Next]_(ServiceParts!Runner!mvars)
  BY SameMediaRunnerNext DEF Next, vars, ServiceParts!Runner!mvars
<1> QED
  BY <1>1, ServiceParts!NextRun DEF RunIsInvariant

\* The process of a media download is watched to its end unless the stream of its events breaks, a
\* success that was reported is kept, no failure leaves a retry unspent, and no cleanup works under
\* the process or on another download's files (RunsAreWhole).
THEOREM MediaRunsStayWhole ==
  ASSUME MaxStrikes \in Nat
  PROVE  Spec => []RunsAreWhole
<1>1. RunIsInvariant => RunsAreWhole
  <2>1. RunIsInvariant /\ component = "run"
          => /\ MediaRunner!ProcessIsWatched /\ MediaRunner!SuccessIsKept
             /\ MediaRunner!RetriesAreSpent /\ MediaRunner!CleanupIsSafe
             /\ MediaRunner!PauseIsShown
    BY ServiceParts!RunSafety
    DEF RunIsInvariant, MediaRunner!ProcessIsWatched, ServiceParts!Runner!ProcessIsWatched,
       MediaRunner!SuccessIsKept, ServiceParts!Runner!SuccessIsKept,
       MediaRunner!RetriesAreSpent, ServiceParts!Runner!RetriesAreSpent,
       MediaRunner!CleanupIsSafe, ServiceParts!Runner!CleanupIsSafe, MediaRunner!PauseIsShown,
       ServiceParts!Runner!PauseIsShown
  <2> QED
    BY <2>1 DEF RunsAreWhole
<1>2. Init => RunIsInvariant
  BY MediaRunnerStarts
<1>3. RunIsInvariant /\ [Next]_vars => RunIsInvariant'
  BY MediaRunnerStaysInvariant
<1> QED
  BY <1>1, <1>2, <1>3, PTL DEF Spec

-----------------------------------------------------------------------------
(* The probe of a magnet link.                                            *)

\* The state of the probe, where it is the component that moves.
ProbeIsInvariant == component = "probe" => ServiceParts!MagnetInvariant

\* The two instances are the same machine.
LEMMA SameProbeInit == Probe!Init => ServiceParts!Magnet!Init
BY DEF
  Probe!Attempts, ServiceParts!Magnet!Attempts, Probe!Nothing, ServiceParts!Magnet!Nothing,
  Probe!Init, ServiceParts!Magnet!Init

LEMMA SameProbeNext == Probe!Next => ServiceParts!Magnet!Next
BY ZenonT(60) DEF
  Probe!Attempts, ServiceParts!Magnet!Attempts, Probe!world, ServiceParts!Magnet!world,
  Probe!Nothing, ServiceParts!Magnet!Nothing, Probe!Watched, ServiceParts!Magnet!Watched,
  Probe!Accept, ServiceParts!Magnet!Accept, Probe!End, ServiceParts!Magnet!End, Probe!Moment,
  ServiceParts!Magnet!Moment, Probe!DaemonExits, ServiceParts!Magnet!DaemonExits,
  Probe!DaemonReplaced, ServiceParts!Magnet!DaemonReplaced, Probe!Unanswered,
  ServiceParts!Magnet!Unanswered, Probe!Answered, ServiceParts!Magnet!Answered, Probe!GivenUp,
  ServiceParts!Magnet!GivenUp, Probe!Begin, ServiceParts!Magnet!Begin, Probe!Start,
  ServiceParts!Magnet!Start, Probe!MakeDirectory, ServiceParts!Magnet!MakeDirectory,
  Probe!Added, ServiceParts!Magnet!Added, Probe!NotAdded, ServiceParts!Magnet!NotAdded,
  Probe!AddOverdue, ServiceParts!Magnet!AddOverdue, Probe!Polled, ServiceParts!Magnet!Polled,
  Probe!Removed, ServiceParts!Magnet!Removed, Probe!CleanWorks, ServiceParts!Magnet!CleanWorks,
  Probe!CleanFails, ServiceParts!Magnet!CleanFails, Probe!Clean, ServiceParts!Magnet!Clean,
  Probe!Settle, ServiceParts!Magnet!Settle, Probe!Owns, ServiceParts!Magnet!Owns, Probe!Verify,
  ServiceParts!Magnet!Verify, Probe!Purge, ServiceParts!Magnet!Purge, Probe!FallsBack,
  ServiceParts!Magnet!FallsBack, Probe!Retry, ServiceParts!Magnet!Retry, Probe!Remake,
  ServiceParts!Magnet!Remake, Probe!Dropped, ServiceParts!Magnet!Dropped, Probe!GiveUp,
  ServiceParts!Magnet!GiveUp, Probe!Succeed, ServiceParts!Magnet!Succeed, Probe!Keep,
  ServiceParts!Magnet!Keep, Probe!Cancel, ServiceParts!Magnet!Cancel, Probe!Leave,
  ServiceParts!Magnet!Leave, Probe!Quit, ServiceParts!Magnet!Quit, Probe!LeftPending,
  ServiceParts!Magnet!LeftPending, Probe!LeftPlanned, ServiceParts!Magnet!LeftPlanned,
  Probe!LeftOver, ServiceParts!Magnet!LeftOver, Probe!LeftKnown, ServiceParts!Magnet!LeftKnown,
  Probe!LeftDirectory, ServiceParts!Magnet!LeftDirectory, Probe!Inspect,
  ServiceParts!Magnet!Inspect, Probe!Skip, ServiceParts!Magnet!Skip, Probe!Reap,
  ServiceParts!Magnet!Reap, Probe!Restart, ServiceParts!Magnet!Restart, Probe!Next,
  ServiceParts!Magnet!Next

\* The probe's inductive invariant holds at first and after every step of whatever component.
LEMMA ProbeStarts ==
  Init => ProbeIsInvariant
BY SameProbeInit, ServiceParts!InitMagnet DEF Init, ProbeIsInvariant

LEMMA ProbeStaysInvariant ==
  ProbeIsInvariant /\ [Next]_vars => ProbeIsInvariant'
<1>1. component' = "probe" /\ [Next]_vars
        => component = "probe" /\ [ServiceParts!Magnet!Next]_(ServiceParts!Magnet!pvars)
  BY SameProbeNext DEF Next, vars, ServiceParts!Magnet!pvars
<1> QED
  BY <1>1, ServiceParts!NextMagnet DEF ProbeIsInvariant

\* A probe of a magnet link ends nobody else's transfer, keeps its directory while its own may run,
\* and leaves none behind when it has the metadata (ProbesCleanUp).
THEOREM ProbesAreClean == Spec => []ProbesCleanUp
<1>1. ProbeIsInvariant => ProbesCleanUp
  <2>1. ProbeIsInvariant /\ component = "probe"
          => /\ Probe!OthersAreSpared
             /\ Probe!DirectoryOutlivesGid
             /\ Probe!ProbeIsWhole
    BY ServiceParts!MagnetSafety
    DEF ProbeIsInvariant, Probe!OthersAreSpared, ServiceParts!Magnet!OthersAreSpared,
       Probe!DirectoryOutlivesGid, ServiceParts!Magnet!DirectoryOutlivesGid, Probe!ProbeIsWhole,
       ServiceParts!Magnet!ProbeIsWhole, Probe!Attempts, ServiceParts!Magnet!Attempts
  <2> QED
    BY <2>1 DEF ProbesCleanUp
<1> QED
  BY <1>1, ProbeStarts, ProbeStaysInvariant, PTL DEF Spec

-----------------------------------------------------------------------------
(* The options of a torrent while it lives.                               *)

\* The state of the options, where it is the component that moves.
OptionsIsInvariant == component = "options" => SnapshotProofs!OptionInvariant

\* The two instances are the same machine.
LEMMA SameOptionsInit == Options!Init => SnapshotProofs!Options!Init
BY DEF
  Options!NoOptions, SnapshotProofs!Options!NoOptions, Options!NoCommand,
  SnapshotProofs!Options!NoCommand, Options!Init, SnapshotProofs!Options!Init

LEMMA SameOptionsNext == Options!Next => SnapshotProofs!Options!Next
BY ZenonT(60) DEF
  Options!transfer, SnapshotProofs!Options!transfer, Options!window,
  SnapshotProofs!Options!window, Options!Seeds, SnapshotProofs!Options!Seeds, Options!Metadata,
  SnapshotProofs!Options!Metadata, Options!FileSeeds, SnapshotProofs!Options!FileSeeds,
  Options!NoOptions, SnapshotProofs!Options!NoOptions, Options!Free,
  SnapshotProofs!Options!Free, Options!NoCommand, SnapshotProofs!Options!NoCommand, Options!Ask,
  SnapshotProofs!Options!Ask, Options!Enqueue, SnapshotProofs!Options!Enqueue, Options!Dispatch,
  SnapshotProofs!Options!Dispatch, Options!Map, SnapshotProofs!Options!Map, Options!End,
  SnapshotProofs!Options!End, Options!Settle, SnapshotProofs!Options!Settle, Options!Pause,
  SnapshotProofs!Options!Pause, Options!Resume, SnapshotProofs!Options!Resume, Options!Toggle,
  SnapshotProofs!Options!Toggle, Options!Limit, SnapshotProofs!Options!Limit, Options!SetLimit,
  SnapshotProofs!Options!SetLimit, Options!SetSpeedLimit, SnapshotProofs!Options!SetSpeedLimit,
  Options!SetUploadLimit, SnapshotProofs!Options!SetUploadLimit, Options!SetPeerOptions,
  SnapshotProofs!Options!SetPeerOptions, Options!Active, SnapshotProofs!Options!Active,
  Options!SetWebSeeds, SnapshotProofs!Options!SetWebSeeds, Options!GiveUpSeeds,
  SnapshotProofs!Options!GiveUpSeeds, Options!Known, SnapshotProofs!Options!Known,
  Options!Planned, SnapshotProofs!Options!Planned, Options!PlanSeeds,
  SnapshotProofs!Options!PlanSeeds, Options!Listed, SnapshotProofs!Options!Listed,
  Options!ChangeUris, SnapshotProofs!Options!ChangeUris, Options!ReadBack,
  SnapshotProofs!Options!ReadBack, Options!Undone, SnapshotProofs!Options!Undone, Options!Undo,
  SnapshotProofs!Options!Undo, Options!Unsave, SnapshotProofs!Options!Unsave, Options!Install,
  SnapshotProofs!Options!Install, Options!Current, SnapshotProofs!Options!Current,
  Options!Retire, SnapshotProofs!Options!Retire, Options!SelectFiles,
  SnapshotProofs!Options!SelectFiles, Options!PutBack, SnapshotProofs!Options!PutBack,
  Options!OwnSelection, SnapshotProofs!Options!OwnSelection, Options!Disown,
  SnapshotProofs!Options!Disown, Options!SaveSelection, SnapshotProofs!Options!SaveSelection,
  Options!RestoreTask, SnapshotProofs!Options!RestoreTask, Options!ShowSelection,
  SnapshotProofs!Options!ShowSelection, Options!CloseWindow, SnapshotProofs!Options!CloseWindow,
  Options!Next, SnapshotProofs!Options!Next

\* The options' inductive invariant holds at first and after every step of whatever component.
LEMMA OptionsStarts ==
  Init => OptionsIsInvariant
BY SameOptionsInit, SnapshotProofs!InitOptions DEF Init, OptionsIsInvariant

LEMMA OptionsStaysInvariant ==
  OptionsIsInvariant /\ [Next]_vars => OptionsIsInvariant'
<1>1. component' = "options" /\ [Next]_vars
        => component = "options" /\ [SnapshotProofs!Options!Next]_(SnapshotProofs!Options!ovars)
  BY SameOptionsNext DEF Next, vars, SnapshotProofs!Options!ovars
<1> QED
  BY <1>1, SnapshotProofs!NextOptions DEF OptionsIsInvariant

\* What is changed while a torrent lives agrees in the daemon, in memory, in the ownership registry
\* and in the database, whichever call fails (OptionsAgree).
THEOREM OptionsStayAgreed == Spec => []OptionsAgree
<1>1. OptionsIsInvariant => OptionsAgree
  <2>1. OptionsIsInvariant /\ component = "options"
          => /\ Options!DaemonHasThePayload
             /\ Options!SeedsAreSaved
             /\ Options!SelectionIsWhole
    BY SnapshotProofs!OptionSafety
    DEF OptionsIsInvariant, Options!DaemonHasThePayload,
       SnapshotProofs!Options!DaemonHasThePayload, Options!SeedsAreSaved,
       SnapshotProofs!Options!SeedsAreSaved, Options!SelectionIsWhole,
       SnapshotProofs!Options!SelectionIsWhole, Options!Free, SnapshotProofs!Options!Free,
       Options!Active, SnapshotProofs!Options!Active, Options!Metadata,
       SnapshotProofs!Options!Metadata
  <2> QED
    BY <2>1 DEF OptionsAgree
<1> QED
  BY <1>1, OptionsStarts, OptionsStaysInvariant, PTL DEF Spec

-----------------------------------------------------------------------------
(* The recovery of a transfer whose connections died.                     *)

\* The state of the recovery, where it is the component that moves.
RecoveryIsInvariant == component = "recovery" => SnapshotProofs!RecoveryInvariant

\* The two instances are the same machine.
LEMMA SameRecoveryInit == Recovery!Init => SnapshotProofs!Recovery!Init
BY DEF
  Recovery!Gids, SnapshotProofs!Recovery!Gids, Recovery!NoObs, SnapshotProofs!Recovery!NoObs,
  Recovery!NoAdd, SnapshotProofs!Recovery!NoAdd, Recovery!NoSample,
  SnapshotProofs!Recovery!NoSample, Recovery!Init, SnapshotProofs!Recovery!Init

LEMMA SameRecoveryNext == Recovery!Next => SnapshotProofs!Recovery!Next
BY ZenonT(60) DEF
  Recovery!kind, SnapshotProofs!Recovery!kind, Recovery!lifecycle,
  SnapshotProofs!Recovery!lifecycle, Recovery!poller, SnapshotProofs!Recovery!poller,
  Recovery!counts, SnapshotProofs!Recovery!counts, Recovery!Gids, SnapshotProofs!Recovery!Gids,
  Recovery!Live, SnapshotProofs!Recovery!Live, Recovery!Stopped,
  SnapshotProofs!Recovery!Stopped, Recovery!Known, SnapshotProofs!Recovery!Known,
  Recovery!Samples, SnapshotProofs!Recovery!Samples, Recovery!NoObs,
  SnapshotProofs!Recovery!NoObs, Recovery!NoAdd, SnapshotProofs!Recovery!NoAdd,
  Recovery!NoSample, SnapshotProofs!Recovery!NoSample, Recovery!Recovering,
  SnapshotProofs!Recovery!Recovering, Recovery!Loses, SnapshotProofs!Recovery!Loses,
  Recovery!Status, SnapshotProofs!Recovery!Status, Recovery!Unlocked,
  SnapshotProofs!Recovery!Unlocked, Recovery!Ends, SnapshotProofs!Recovery!Ends,
  Recovery!Sample, SnapshotProofs!Recovery!Sample, Recovery!Kept, SnapshotProofs!Recovery!Kept,
  Recovery!Observed, SnapshotProofs!Recovery!Observed, Recovery!Judged,
  SnapshotProofs!Recovery!Judged, Recovery!Allowed, SnapshotProofs!Recovery!Allowed,
  Recovery!Spent, SnapshotProofs!Recovery!Spent, Recovery!Unforgiven,
  SnapshotProofs!Recovery!Unforgiven, Recovery!Begins, SnapshotProofs!Recovery!Begins,
  Recovery!Begin, SnapshotProofs!Recovery!Begin, Recovery!Look, SnapshotProofs!Recovery!Look,
  Recovery!LookAway, SnapshotProofs!Recovery!LookAway, Recovery!Settle,
  SnapshotProofs!Recovery!Settle, Recovery!Outside, SnapshotProofs!Recovery!Outside,
  Recovery!State, SnapshotProofs!Recovery!State, Recovery!Goes, SnapshotProofs!Recovery!Goes,
  Recovery!Fails, SnapshotProofs!Recovery!Fails, Recovery!Completes,
  SnapshotProofs!Recovery!Completes, Recovery!Asks, SnapshotProofs!Recovery!Asks,
  Recovery!Calls, SnapshotProofs!Recovery!Calls, Recovery!Frame, SnapshotProofs!Recovery!Frame,
  Recovery!AskStatus, SnapshotProofs!Recovery!AskStatus, Recovery!ForcePause,
  SnapshotProofs!Recovery!ForcePause, Recovery!PauseCheck, SnapshotProofs!Recovery!PauseCheck,
  Recovery!ForceRemove, SnapshotProofs!Recovery!ForceRemove, Recovery!RemoveCheck,
  SnapshotProofs!Recovery!RemoveCheck, Recovery!Unavailable,
  SnapshotProofs!Recovery!Unavailable, Recovery!Remember, SnapshotProofs!Recovery!Remember,
  Recovery!Prepare, SnapshotProofs!Recovery!Prepare, Recovery!Last,
  SnapshotProofs!Recovery!Last, Recovery!Unsure, SnapshotProofs!Recovery!Unsure, Recovery!Add,
  SnapshotProofs!Recovery!Add, Recovery!HandsOver, SnapshotProofs!Recovery!HandsOver,
  Recovery!AddStatus, SnapshotProofs!Recovery!AddStatus, Recovery!Refresh,
  SnapshotProofs!Recovery!Refresh, Recovery!RefreshCheck, SnapshotProofs!Recovery!RefreshCheck,
  Recovery!Unpause, SnapshotProofs!Recovery!Unpause, Recovery!StaysPaused,
  SnapshotProofs!Recovery!StaysPaused, Recovery!UnpauseCheck,
  SnapshotProofs!Recovery!UnpauseCheck, Recovery!PauseIt, SnapshotProofs!Recovery!PauseIt,
  Recovery!ResumeIt, SnapshotProofs!Recovery!ResumeIt, Recovery!Next,
  SnapshotProofs!Recovery!Next

\* The recovery's inductive invariant holds at first and after every step of whatever component.
LEMMA RecoveryStarts ==
  ASSUME SnapshotProofs!RecoveryBounds
  PROVE  Init => RecoveryIsInvariant
BY SameRecoveryInit, SnapshotProofs!InitRecovery DEF Init, RecoveryIsInvariant

LEMMA RecoveryStaysInvariant ==
  ASSUME SnapshotProofs!RecoveryBounds
  PROVE  RecoveryIsInvariant /\ [Next]_vars => RecoveryIsInvariant'
<1>1. component' = "recovery" /\ [Next]_vars
        => component = "recovery" /\ [SnapshotProofs!Recovery!Next]_(SnapshotProofs!Recovery!cvars)
  BY SameRecoveryNext DEF Next, vars, SnapshotProofs!Recovery!cvars
<1> QED
  BY <1>1, SnapshotProofs!NextRecovery DEF RecoveryIsInvariant

\* A recovery replaces a transfer by one other, leaves none that nobody knows, keeps the row true,
\* and is not repeated beyond its limit (RecoveriesHeal).
THEOREM RecoveriesStayWhole ==
  ASSUME SnapshotProofs!RecoveryBounds
  PROVE  Spec => []RecoveriesHeal
<1>1. RecoveryIsInvariant => RecoveriesHeal
  <2>1. RecoveryIsInvariant /\ component = "recovery"
          => /\ Recovery!OneTransfer
             /\ Recovery!NothingIsOrphaned
             /\ Recovery!RowIsTrue
             /\ Recovery!RecoveriesAreBounded
    BY SnapshotProofs!RecoverySafety
    DEF RecoveryIsInvariant, Recovery!OneTransfer, SnapshotProofs!Recovery!OneTransfer,
       Recovery!NothingIsOrphaned, SnapshotProofs!Recovery!NothingIsOrphaned, Recovery!RowIsTrue,
       SnapshotProofs!Recovery!RowIsTrue, Recovery!RecoveriesAreBounded,
       SnapshotProofs!Recovery!RecoveriesAreBounded, Recovery!Gids, SnapshotProofs!Recovery!Gids,
       Recovery!Live, SnapshotProofs!Recovery!Live, Recovery!Unlocked,
       SnapshotProofs!Recovery!Unlocked, Recovery!Recovering, SnapshotProofs!Recovery!Recovering,
       Recovery!Status, SnapshotProofs!Recovery!Status, Recovery!Cardinality,
       SnapshotProofs!Recovery!Cardinality
  <2> QED
    BY <2>1 DEF RecoveriesHeal
<1>2. Init => RecoveryIsInvariant
  BY RecoveryStarts
<1>3. RecoveryIsInvariant /\ [Next]_vars => RecoveryIsInvariant'
  BY RecoveryStaysInvariant
<1> QED
  BY <1>1, <1>2, <1>3, PTL DEF Spec

-----------------------------------------------------------------------------
(* The aria2 process.                                                     *)

\* The state of the daemon, where it is the component that moves.
DaemonIsInvariant == component = "daemon" => ExitProofs!DaemonInvariant

\* The two instances are the same machine.
LEMMA SameDaemonInit == Daemon!Init => ExitProofs!Daemon!Init
BY DEF
  Daemon!Procs, ExitProofs!Daemon!Procs, Daemon!Exits, ExitProofs!Daemon!Exits, Daemon!Unheld,
  ExitProofs!Daemon!Unheld, Daemon!NotListening, ExitProofs!Daemon!NotListening, Daemon!Init,
  ExitProofs!Daemon!Init

LEMMA SameDaemonNext == Daemon!Next => ExitProofs!Daemon!Next
BY ZenonT(60) DEF
  Daemon!processes, ExitProofs!Daemon!processes, Daemon!guarded, ExitProofs!Daemon!guarded,
  Daemon!work, ExitProofs!Daemon!work, Daemon!options, ExitProofs!Daemon!options, Daemon!tasks,
  ExitProofs!Daemon!tasks, Daemon!ghosts, ExitProofs!Daemon!ghosts, Daemon!Procs,
  ExitProofs!Daemon!Procs, Daemon!Exits, ExitProofs!Daemon!Exits, Daemon!Unheld,
  ExitProofs!Daemon!Unheld, Daemon!NotListening, ExitProofs!Daemon!NotListening, Daemon!Trouble,
  ExitProofs!Daemon!Trouble, Daemon!Smooth, ExitProofs!Daemon!Smooth, Daemon!Lives,
  ExitProofs!Daemon!Lives, Daemon!Answers, ExitProofs!Daemon!Answers, Daemon!Unlocked,
  ExitProofs!Daemon!Unlocked, Daemon!ShuttingDown, ExitProofs!Daemon!ShuttingDown, Daemon!Fresh,
  ExitProofs!Daemon!Fresh, Daemon!MayLaunch, ExitProofs!Daemon!MayLaunch, Daemon!Launched,
  ExitProofs!Daemon!Launched, Daemon!Falter, ExitProofs!Daemon!Falter, Daemon!Starter,
  ExitProofs!Daemon!Starter, Daemon!StarterFrame, ExitProofs!Daemon!StarterFrame, Daemon!Launch,
  ExitProofs!Daemon!Launch, Daemon!Adopt, ExitProofs!Daemon!Adopt, Daemon!Publish,
  ExitProofs!Daemon!Publish, Daemon!Hold, ExitProofs!Daemon!Hold, Daemon!StopBegins,
  ExitProofs!Daemon!StopBegins, Daemon!StopAsk, ExitProofs!Daemon!StopAsk, Daemon!Blocked,
  ExitProofs!Daemon!Blocked, Daemon!Stopped, ExitProofs!Daemon!Stopped, Daemon!StopTake,
  ExitProofs!Daemon!StopTake, Daemon!StopWait, ExitProofs!Daemon!StopWait, Daemon!Current,
  ExitProofs!Daemon!Current, Daemon!StartsFor, ExitProofs!Daemon!StartsFor, Daemon!Started,
  ExitProofs!Daemon!Started, Daemon!StartFrame, ExitProofs!Daemon!StartFrame, Daemon!StartSpawn,
  ExitProofs!Daemon!StartSpawn, Daemon!StartSettle, ExitProofs!Daemon!StartSettle,
  Daemon!StartReady, ExitProofs!Daemon!StartReady, Daemon!ExitFrame,
  ExitProofs!Daemon!ExitFrame, Daemon!AskExit, ExitProofs!Daemon!AskExit, Daemon!Drain,
  ExitProofs!Daemon!Drain, Daemon!TooLate, ExitProofs!Daemon!TooLate, Daemon!Leased,
  ExitProofs!Daemon!Leased, Daemon!Finish, ExitProofs!Daemon!Finish, Daemon!Recover,
  ExitProofs!Daemon!Recover, Daemon!Listens, ExitProofs!Daemon!Listens, Daemon!ListenFrame,
  ExitProofs!Daemon!ListenFrame, Daemon!ListenRestart, ExitProofs!Daemon!ListenRestart,
  Daemon!Connect, ExitProofs!Daemon!Connect, Daemon!Reconcile, ExitProofs!Daemon!Reconcile,
  Daemon!HangUp, ExitProofs!Daemon!HangUp, Daemon!Leave, ExitProofs!Daemon!Leave,
  Daemon!ProcessExited, ExitProofs!Daemon!ProcessExited, Daemon!GivesUp,
  ExitProofs!Daemon!GivesUp, Daemon!Work, ExitProofs!Daemon!Work, Daemon!SetOption,
  ExitProofs!Daemon!SetOption, Daemon!Next, ExitProofs!Daemon!Next

\* The daemon's inductive invariant holds at first and after every step of whatever component.
LEMMA DaemonStarts ==
  ASSUME ExitProofs!DaemonBounds
  PROVE  Init => DaemonIsInvariant
BY SameDaemonInit, ExitProofs!InitDaemon DEF Init, DaemonIsInvariant

LEMMA DaemonStaysInvariant ==
  ASSUME ExitProofs!DaemonBounds
  PROVE  DaemonIsInvariant /\ [Next]_vars => DaemonIsInvariant'
<1>1. component' = "daemon" /\ [Next]_vars
        => component = "daemon" /\ [ExitProofs!Daemon!Next]_(ExitProofs!Daemon!dvars)
  BY SameDaemonNext DEF Next, vars, ExitProofs!Daemon!dvars
<1> QED
  BY <1>1, ExitProofs!NextDaemon DEF DaemonIsInvariant

\* The published port is that of the process that is owned, no outage costs a transfer whose process
\* lives, a daemon that is gone is brought back, and it has the option that was accepted
\* (DaemonIsSupervised).
THEOREM DaemonsAreSupervised ==
  ASSUME ExitProofs!DaemonBounds
  PROVE  Spec => []DaemonIsSupervised
<1>1. DaemonIsInvariant => DaemonIsSupervised
  <2>1. DaemonIsInvariant /\ component = "daemon"
          => /\ Daemon!DaemonIsOwned
             /\ Daemon!TransfersFollowProcess
             /\ Daemon!DaemonComesBack
             /\ Daemon!OptionIsKept
    BY ExitProofs!DaemonSafety
    DEF DaemonIsInvariant, Daemon!DaemonIsOwned, ExitProofs!Daemon!DaemonIsOwned,
       Daemon!TransfersFollowProcess, ExitProofs!Daemon!TransfersFollowProcess,
       Daemon!DaemonComesBack, ExitProofs!Daemon!DaemonComesBack, Daemon!OptionIsKept,
       ExitProofs!Daemon!OptionIsKept, Daemon!Procs, ExitProofs!Daemon!Procs, Daemon!Exits,
       ExitProofs!Daemon!Exits, Daemon!Lives, ExitProofs!Daemon!Lives, Daemon!Answers,
       ExitProofs!Daemon!Answers, Daemon!ShuttingDown, ExitProofs!Daemon!ShuttingDown,
       Daemon!Unlocked, ExitProofs!Daemon!Unlocked, Daemon!Unheld, ExitProofs!Daemon!Unheld,
       Daemon!Recovers, ExitProofs!Daemon!Recovers, Daemon!Cardinality,
       ExitProofs!Daemon!Cardinality
  <2> QED
    BY <2>1 DEF DaemonIsSupervised
<1>2. Init => DaemonIsInvariant
  BY DaemonStarts
<1>3. DaemonIsInvariant /\ [Next]_vars => DaemonIsInvariant'
  BY DaemonStaysInvariant
<1> QED
  BY <1>1, <1>2, <1>3, PTL DEF Spec

-----------------------------------------------------------------------------
(* The transfers of a download.                                           *)

\* The state of the transfers, where they are the component that moves.
ControlIsInvariant == component = "control" => OperationProofs!ControlInvariant

\* The two instances are the same machine.
LEMMA SameControlInit == Control!Init => OperationProofs!Control!Init
BY DEF
  Control!NoGid, OperationProofs!Control!NoGid, Control!Gids, OperationProofs!Control!Gids,
  Control!NoEpoch, OperationProofs!Control!NoEpoch, Control!Unbound,
  OperationProofs!Control!Unbound, Control!Init, OperationProofs!Control!Init

LEMMA SameControlNext == Control!Next => OperationProofs!Control!Next
BY ZenonT(60) DEF
  Control!daemonSide, OperationProofs!Control!daemonSide, Control!mapping,
  OperationProofs!Control!mapping, Control!clocks, OperationProofs!Control!clocks,
  Control!retryState, OperationProofs!Control!retryState, Control!limits,
  OperationProofs!Control!limits, Control!NoGid, OperationProofs!Control!NoGid, Control!Gids,
  OperationProofs!Control!Gids, Control!Refused, OperationProofs!Control!Refused,
  Control!NoEpoch, OperationProofs!Control!NoEpoch, Control!Unbound,
  OperationProofs!Control!Unbound, Control!Ended, OperationProofs!Control!Ended, Control!Parent,
  OperationProofs!Control!Parent, Control!Unlocked, OperationProofs!Control!Unlocked,
  Control!NextEpoch, OperationProofs!Control!NextEpoch, Control!Forget,
  OperationProofs!Control!Forget, Control!Remember, OperationProofs!Control!Remember,
  Control!Settle, OperationProofs!Control!Settle, Control!Observe,
  OperationProofs!Control!Observe, Control!End, OperationProofs!Control!End, Control!FollowedBy,
  OperationProofs!Control!FollowedBy, Control!Hear, OperationProofs!Control!Hear, Control!Poll,
  OperationProofs!Control!Poll, Control!StillOwner, OperationProofs!Control!StillOwner,
  Control!NeedsChild, OperationProofs!Control!NeedsChild, Control!Taken,
  OperationProofs!Control!Taken, Control!HandleStale, OperationProofs!Control!HandleStale,
  Control!HandleComplete, OperationProofs!Control!HandleComplete, Control!AdoptChild,
  OperationProofs!Control!AdoptChild, Control!AwaitChild, OperationProofs!Control!AwaitChild,
  Control!HandleError, OperationProofs!Control!HandleError, Control!Begin,
  OperationProofs!Control!Begin, Control!Finished, OperationProofs!Control!Finished,
  Control!Dispatch, OperationProofs!Control!Dispatch, Control!RetryIsCurrent,
  OperationProofs!Control!RetryIsCurrent, Control!BackoffEnds,
  OperationProofs!Control!BackoffEnds, Control!Recover, OperationProofs!Control!Recover,
  Control!AddUri, OperationProofs!Control!AddUri, Control!Dispatched,
  OperationProofs!Control!Dispatched, Control!Current, OperationProofs!Control!Current,
  Control!Rest, OperationProofs!Control!Rest, Control!AddMapped,
  OperationProofs!Control!AddMapped, Control!AddStale, OperationProofs!Control!AddStale,
  Control!RemoveStale, OperationProofs!Control!RemoveStale, Control!AddRefused,
  OperationProofs!Control!AddRefused, Control!Command, OperationProofs!Control!Command,
  Control!Pause, OperationProofs!Control!Pause, Control!PauseEnded,
  OperationProofs!Control!PauseEnded, Control!PauseUnmapped,
  OperationProofs!Control!PauseUnmapped, Control!Resume, OperationProofs!Control!Resume,
  Control!ResumeUnmapped, OperationProofs!Control!ResumeUnmapped, Control!Unpause,
  OperationProofs!Control!Unpause, Control!Next, OperationProofs!Control!Next,
  Control!Cardinality, OperationProofs!Control!Cardinality

\* The transfers' inductive invariant holds at first and after every step of whatever component.
LEMMA ControlStarts ==
  ASSUME OperationProofs!ControlBounds
  PROVE  Init => ControlIsInvariant
BY SameControlInit, OperationProofs!InitControl DEF Init, ControlIsInvariant

LEMMA ControlStaysInvariant ==
  ASSUME OperationProofs!ControlBounds
  PROVE  ControlIsInvariant /\ [Next]_vars => ControlIsInvariant'
<1>1. component' = "control" /\ [Next]_vars
        => component = "control" /\ [OperationProofs!Control!Next]_(OperationProofs!Control!cvars)
  BY SameControlNext DEF Next, vars, OperationProofs!Control!cvars
<1> QED
  BY <1>1, OperationProofs!NextControl DEF ControlIsInvariant

\* Whatever the daemon transfers has somebody who watches it, and a completed row has its payload
\* (TransfersAreWatched).
THEOREM TransfersStayWatched ==
  ASSUME OperationProofs!ControlBounds
  PROVE  Spec => []TransfersAreWatched
<1>1. ControlIsInvariant => TransfersAreWatched
  <2>1. ControlIsInvariant /\ component = "control"
          => Control!EveryTransferIsOwned /\ Control!DoneIsPayload
    BY OperationProofs!ControlSafety
    DEF ControlIsInvariant, Control!EveryTransferIsOwned,
       OperationProofs!Control!EveryTransferIsOwned, Control!DoneIsPayload,
       OperationProofs!Control!DoneIsPayload, Control!Gids, OperationProofs!Control!Gids,
       Control!Parent, OperationProofs!Control!Parent
  <2> QED
    BY <2>1 DEF TransfersAreWatched
<1>2. Init => ControlIsInvariant
  BY ControlStarts
<1>3. ControlIsInvariant /\ [Next]_vars => ControlIsInvariant'
  BY ControlStaysInvariant
<1> QED
  BY <1>1, <1>2, <1>3, PTL DEF Spec
=============================================================================
