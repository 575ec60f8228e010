--------------------- MODULE DownloadQueueCarrierProofs ---------------------
(***************************************************************************)
(* Somebody carries every registered lifecycle on: a registration that     *)
(* nobody retires would refuse every later enqueue of its id.  And every   *)
(* row that shows Queued has a task, a worker or a transfer behind it.     *)
(*                                                                         *)
(* Both need that a step which ends a worker ends or hands on what the     *)
(* worker carried; the two theorems say under which features of the model  *)
(* the code does so.  An action that skips its check (force) takes the     *)
(* reservation from a worker that then gives up quietly, and a system      *)
(* action or an exit that is given up lets a resume worker do the same.    *)
(***************************************************************************)
EXTENDS DownloadQueueOwnerProofs

\* The registered lifecycle has neither ended nor been given up ...
NeedsCarrier(id) ==
  /\ registered[id] # 0 /\ xfer[id] = "none"
  /\ id \notin removing
  /\ cancelled[id] < registered[id]

\* ... so its enqueue, its pending task or its worker is still there.
HasCarrier(id) ==
  \/ enq[id].phase # "none"
  \/ \E g \in Generations :
       registered[id] = g /\ (<<id, g>> \in pending \/ worker[id][g] # "idle")

\* The finalizer runs with the task in the pending list.
FinalizingIsPending(id) == enq[id].phase = "finalizing" => <<id, enq[id].gen>> \in pending

\* What is known of the carrier of an id.
IsCarried(id) == FinalizingIsPending(id) /\ (NeedsCarrier(id) => HasCarrier(id))

\* A system action that is not forced begins when nothing is reserved, and fences
\* every reservation: it cannot take one from a worker.
ActionFindsNothing == systemAction => \A id \in Ids : ownership[id] = NoOwner

\* No system action is forced past the check that nothing is pending or reserved.
ActionsAreChecked == "system" \notin Features \/ "force" \notin Features

\* Every registered lifecycle has its carrier.
CarrierInvariant == ActionFindsNothing /\ \A id \in Ids : IsCarried(id)

\* What the steps below start from, and what the earlier theorems say of their end.
CarrierFacts == /\ QueueFacts /\ OwnerInvariant /\ CarrierInvariant /\ TypeOK'
                /\ [Next]_vars

-----------------------------------------------------------------------------
\* The cancellation watermark never falls.
LEMMA CancelledGrows ==
  ASSUME TypeOK, TypeOK', [Next]_vars, NEW id \in Ids
  PROVE  cancelled[id] \in Nat /\ cancelled'[id] \in Nat /\ cancelled[id] <= cancelled'[id]
<1>1. cancelled[id] \in Nat /\ cancelled'[id] \in Nat
  BY GenerationNumbers DEF TypeOK, LifecycleTypes
<1>2. ASSUME NEW i \in Ids, NEW g \in Generations, CancelEnqueue(i, g)
      PROVE  cancelled[id] <= cancelled'[id]
  BY <1>1, <1>2, GenerationNumbers DEF CancelEnqueue, TypeOK, LifecycleTypes
<1>3. ASSUME UNCHANGED cancelled PROVE cancelled[id] <= cancelled'[id]
  BY <1>1, <1>3
<1>4. ASSUME NEW i \in Ids, EnqueueStep(i)
      PROVE  UNCHANGED cancelled \/ \E g \in Generations : CancelEnqueue(i, g)
  BY <1>4 DEF EnqueueStep, ReserveEnqueue, AbandonEnqueue, CommitEnqueue, FinishCommit
<1>5. ASSUME NEW i \in Ids, StopStep(i) PROVE UNCHANGED cancelled
  BY <1>5 DEF StopStep, ResumeUnmapped, TransferEnds, ConnectionLost, PauseMapped,
     PauseUnmapped, PauseMedia, CoordinatorStop, FinishPause, Detach, FinishDetach,
     SubmitRemoval, RemovalRefused, RemoveStop, FinishRemove, StopMedia, lifecycleVars
<1>6. ASSUME NEW i \in Ids, NEW g \in Generations, TryAdmit(i, g) \/ WorkerStep(i, g)
      PROVE  UNCHANGED cancelled
  BY <1>6 DEF TryAdmit, WorkerStep, DispatchHeld, DispatchCheck, Activate, RestoreInHand,
     StartAddUri, RestoreHeldBack, AddUriAccepted, AddUriRejected, DaemonUnreachable,
     RestoreUnreachable, PublishMedia, StartMediaRunner, RegisterRunner, EndRunner,
     FinishRunner, lifecycleVars
<1>7. ASSUME NEW r \in Resumers, ResumeStep(r) PROVE UNCHANGED cancelled
  BY <1>7 DEF ResumeStep, ResumePaused, StartResume, ResumeReserve, ResumeGiveUp, ResumeUnpause,
     ResumeSettles, lifecycleVars
<1>8. ASSUME EnvironmentStep \/ UNCHANGED vars PROVE UNCHANGED cancelled
  BY <1>8 DEF EnvironmentStep, SetCapacity, ApplyResize, RetireFreeSlots, ReplaceQueueLimits,
     BeginHold, EndHold, DaemonRecovers, BeginSystemAction, EndSystemAction, ExitStep,
     lifecycleVars, vars
<1> QED
  BY <1>1, <1>2, <1>3, <1>4, <1>5, <1>6, <1>7, <1>8 DEF Next

\* A step that leaves the enqueue alone, and the carrier of what stays registered.
LEMMA CarrierStays ==
  ASSUME CarrierFacts, NEW id \in Ids,
         registered'[id] \in {registered[id], 0},
         id \in removing => id \in removing',
         xfer[id] # "none" => xfer'[id] # "none" \/ registered'[id] = 0 \/ id \in removing',
         enq'[id] = enq[id],
         \A g \in Generations :
           registered'[id] = g /\ NeedsCarrier(id)' /\ (<<id,
               g>> \in pending \/ worker[id][g] # "idle")
             => <<id, g>> \in pending' \/ worker'[id][g] # "idle"
  PROVE  NeedsCarrier(id)' => HasCarrier(id)'
<1> SUFFICES ASSUME NeedsCarrier(id)' PROVE HasCarrier(id)'
  OBVIOUS
<1>1. registered'[id] # 0 /\ registered'[id] = registered[id] /\ xfer[id] = "none"
      /\ id \notin removing
  BY DEF NeedsCarrier
<1>2. cancelled[id] < registered[id]
  <2>1. registered[id] \in Nat
    BY RegisteredType, GenerationNumbers DEF CarrierFacts, QueueFacts
  <2> QED
    BY <1>1, <2>1, CancelledGrows DEF NeedsCarrier, CarrierFacts, QueueFacts
<1>3. HasCarrier(id)
  BY <1>1, <1>2 DEF NeedsCarrier, CarrierFacts, CarrierInvariant, IsCarried
<1> QED
  BY <1>1, <1>3 DEF HasCarrier

\* A step on another id.
LEMMA ElsewhereIsCarried ==
  ASSUME CarrierFacts, NEW id \in Ids, Untouched(id)
  PROVE  IsCarried(id)'
<1>1. FinalizingIsPending(id)'
  <2>1. enq[id].phase = "finalizing" => enq[id].gen \in Generations
    BY EnqueueTypes DEF CarrierFacts, QueueFacts, TypeOK
  <2>2. FinalizingIsPending(id)
    BY DEF CarrierFacts, CarrierInvariant, IsCarried
  <2> QED
    BY <2>1, <2>2 DEF FinalizingIsPending, Untouched, SameLifecycle, SamePending
<1>2. NeedsCarrier(id)' => HasCarrier(id)'
  BY CarrierStays DEF Untouched, SameLifecycle, SamePending, SameWorkers, SameTransfer, SameStop
<1> QED
  BY <1>1, <1>2 DEF IsCarried

\* The enqueue hands its lifecycle to the pending list, or retires it.
LEMMA EnqueueIsCarried ==
  ASSUME CarrierFacts, NEW id \in Ids, EnqueueStep(id)
  PROVE  IsCarried(id)'
<1> USE DEF CarrierFacts, QueueFacts
<1>0. IsOwned(id) /\ IsCarried(id)
  BY DEF OwnerInvariant, CarrierInvariant
<1>1. CASE \E g \in Generations : ReserveEnqueue(id, g)
  <2>1. enq'[id].phase = "reserved"
    BY <1>1 DEF ReserveEnqueue, TypeOK, LifecycleTypes
  <2> QED
    BY <2>1 DEF IsCarried, FinalizingIsPending, HasCarrier
<1>2. CASE \E g \in Generations : CancelEnqueue(id, g)
  <2>1. UNCHANGED <<registered, removing, xfer, enq, pending, worker>>
    BY <1>2 DEF CancelEnqueue
  <2>2. NeedsCarrier(id)' => HasCarrier(id)'
    BY <2>1, CarrierStays
  <2> QED
    BY <1>0, <2>1, <2>2 DEF IsCarried, FinalizingIsPending
<1>3. ASSUME enq[id].phase # "none", RollbackEnqueue(id, enq[id].gen, enq[id].prev),
             enq' = [enq EXCEPT ![id] = NoEnqueue]
      PROVE  IsCarried(id)'
  <2>1. watermark[id] = enq[id].gen
    BY <1>0, <1>3, EnqueueIsFresh
  <2>2. registered'[id] = 0 /\ enq'[id] = NoEnqueue
    BY <1>3, <2>1 DEF RollbackEnqueue, Unregister, TypeOK, LifecycleTypes
  <2> QED
    BY <2>2 DEF IsCarried, FinalizingIsPending, NeedsCarrier, NoEnqueue
<1>4. CASE AbandonEnqueue(id)
  BY <1>3, <1>4 DEF AbandonEnqueue
<1>5. CASE CommitEnqueue(id)
  <2>1. CASE enq' = [enq EXCEPT ![id] = NoEnqueue]
              /\ RollbackEnqueue(id, enq[id].gen, enq[id].prev)
    BY <1>3, <1>5, <2>1 DEF CommitEnqueue
  <2>2. CASE pending' = pending \cup {<<id, enq[id].gen>>}
              /\ enq' = [enq EXCEPT ![id].phase = "finalizing"]
    <3>1. enq'[id].phase = "finalizing" /\ enq'[id].gen = enq[id].gen
      BY <2>2 DEF TypeOK, LifecycleTypes
    <3> QED
      BY <2>2, <3>1 DEF IsCarried, FinalizingIsPending, HasCarrier
  <2> QED
    BY <1>5, <2>1, <2>2 DEF CommitEnqueue
<1>6. CASE FinishCommit(id)
  <2>1. CASE RollbackEnqueue(id, enq[id].gen, enq[id].prev)
    BY <1>3, <1>6, <2>1 DEF FinishCommit
  <2>2. CASE ~RollbackEnqueue(id, enq[id].gen, enq[id].prev)
    <3>1. /\ enq[id].phase = "finalizing" /\ UNCHANGED <<pending, registered>>
          /\ enq' = [enq EXCEPT ![id] = NoEnqueue]
      BY <1>6, <2>2 DEF FinishCommit
    <3>2. enq'[id] = NoEnqueue
      BY <3>1 DEF TypeOK, LifecycleTypes
    <3>3. registered[id] = enq[id].gen /\ enq[id].gen \in Generations
      BY <1>0, <3>1, EnqueueIsFresh
    <3>4. <<id, enq[id].gen>> \in pending
      BY <1>0, <3>1 DEF IsCarried, FinalizingIsPending
    <3> QED
      BY <3>1, <3>2, <3>3, <3>4 DEF IsCarried, FinalizingIsPending, HasCarrier, NoEnqueue
  <2> QED
    BY <2>1, <2>2
<1> QED
  BY <1>1, <1>2, <1>4, <1>5, <1>6 DEF EnqueueStep

-----------------------------------------------------------------------------
(* Steps that keep the enqueue of the id.                                  *)

\* The admission gate is closed while a finalizer runs, so no admission and no command
\* takes the task of a finalizing enqueue.
LEMMA FinalizingStays ==
  ASSUME CarrierFacts, NEW id \in Ids, enq'[id] = enq[id],
         \A g \in Generations : <<id, g>> \in pending => <<id,
             g>> \in pending' \/ enq[id].phase = "none" \/ GateFree
  PROVE  FinalizingIsPending(id)'
<1> SUFFICES ASSUME enq[id].phase = "finalizing" PROVE <<id, enq[id].gen>> \in pending'
  BY DEF FinalizingIsPending
<1>1. enq[id].gen \in Generations
  BY EnqueueTypes DEF CarrierFacts, QueueFacts, TypeOK
<1>2. <<id, enq[id].gen>> \in pending /\ ~GateFree
  BY DEF CarrierFacts, CarrierInvariant, IsCarried, FinalizingIsPending, GateFree
<1> QED
  BY <1>1, <1>2

\* An admission turns the pending task into a worker.
LEMMA TryAdmitIsCarried ==
  ASSUME CarrierFacts, NEW id \in Ids, NEW g \in Generations, TryAdmit(id, g)
  PROVE  IsCarried(id)'
<1> USE DEF CarrierFacts, QueueFacts
<1>1. registered[id] = g /\ registered'[id] = g /\ enq' = enq /\ GateFree
  BY DEF OwnerInvariant, IsOwned, PendingIsAlone, TryAdmit, Eligible, AdmissionOpen, lifecycleVars
<1>2. worker'[id][g] = "admitted"
  BY SetWorkerValue DEF TryAdmit
<1>3. HasCarrier(id)'
  BY <1>1, <1>2 DEF HasCarrier
<1>4. FinalizingIsPending(id)'
  BY <1>1, FinalizingStays
<1> QED
  BY <1>3, <1>4 DEF IsCarried

\* What the registered worker of an id that is not being removed has.
LEMMA CurrentWorker ==
  ASSUME CarrierFacts, NEW id \in Ids, NEW g \in Generations, registered[id] = g,
         id \notin removing
  PROVE  /\ worker[id][g] \in InHandPcs => HasReservation(id, g) /\ active[id] = 0
         /\ worker[id][g] \in InFlightPcs => IsCurrentDispatch(id, g) /\ ownership[id].gen = g
         /\ g # 0
<1> USE DEF CarrierFacts, QueueFacts
<1>1. IsOwned(id) /\ g # 0
  BY GenerationNumbers DEF OwnerInvariant
<1>2. worker[id][g] \in InHandPcs => HasReservation(id, g) /\ active[id] = 0
  BY <1>1 DEF IsOwned, InHandIsOwner
<1>3. worker[id][g] \in InFlightPcs => IsCurrentDispatch(id, g) /\ ownership[id].gen = g
  BY <1>1, DispatchIsRegistered DEF IsOwned, InFlightIsOwner, IsCurrentDispatch
<1> QED
  BY <1>1, <1>2, <1>3

\* The worker of the registered lifecycle works on, puts its task back or retires it.
LEMMA CurrentWorkerIsCarried ==
  ASSUME CarrierFacts, NEW id \in Ids, NEW g \in Generations, registered[id] = g,
         WorkerStep(id, g), NeedsCarrier(id)'
  PROVE  <<id, g>> \in pending' \/ worker'[id][g] # "idle"
<1> USE DEF CarrierFacts, QueueFacts
<1>1. id \notin removing /\ registered'[id] # 0 /\ xfer'[id] # "live"
  BY DEF NeedsCarrier, WorkerStep, DispatchHeld, DispatchCheck, Activate, RestoreInHand,
     StartAddUri, RestoreHeldBack, AddUriAccepted, AddUriRejected, DaemonUnreachable,
     RestoreUnreachable, PublishMedia, StartMediaRunner, RegisterRunner, EndRunner, FinishRunner
<1>2. cancelled[id] < g
  <2>1. WorkerStep(id, g) => UNCHANGED cancelled
    BY DEF WorkerStep, DispatchHeld, DispatchCheck, Activate, RestoreInHand, lifecycleVars,
       StartAddUri, RestoreHeldBack, AddUriAccepted, AddUriRejected, DaemonUnreachable,
       RestoreUnreachable, PublishMedia, StartMediaRunner, RegisterRunner, EndRunner,
       FinishRunner
  <2>2. registered'[id] \in {0, g}
    BY DEF WorkerStep, DispatchHeld, DispatchCheck, Activate, RestoreInHand, lifecycleVars,
       StartAddUri, RestoreHeldBack, AddUriAccepted, AddUriRejected, DaemonUnreachable,
       RestoreUnreachable, PublishMedia, StartMediaRunner, RegisterRunner, EndRunner,
       FinishRunner, Unregister, UnregisterFor, TypeOK, LifecycleTypes
  <2> QED
    BY <1>1, <2>1, <2>2 DEF NeedsCarrier
<1>3. ASSUME NEW n, Restore(id, g, n), ownership[id].gen = g PROVE <<id, g>> \in pending'
  BY <1>1, <1>2, <1>3 DEF Restore, StillWanted
<1>4. ASSUME NEW pc, SetWorker(id, g, pc), pc # "idle" PROVE worker'[id][g] # "idle"
  BY <1>4, SetWorkerValue
<1>5. CASE DispatchHeld(id, g) \/ StartAddUri(id, g) \/ DaemonUnreachable(id, g)
             \/ PublishMedia(id, g) \/ RegisterRunner(id, g) \/ EndRunner(id, g)
  BY <1>4, <1>5 DEF DispatchHeld, StartAddUri, DaemonUnreachable, PublishMedia, RegisterRunner,
     RunnerStart, EndRunner
<1>6. CASE DispatchCheck(id, g)
  BY <1>1, <1>4, <1>6 DEF DispatchCheck
<1>7. CASE Activate(id, g)
  <2>1. HasReservation(id, g) /\ active[id] = 0 /\ g # 0
    BY <1>1, <1>7, CurrentWorker DEF Activate, InHandPcs
  <2>2. ~systemAction
    BY <2>1 DEF CarrierInvariant, ActionFindsNothing, HasReservation, NoOwner
  <2>3. CanActivate(id, g)
    BY <2>1, <2>2 DEF CanActivate
  <2> QED
    BY <1>4, <1>7, <2>3 DEF Activate
<1>8. CASE RestoreInHand(id, g) \/ RestoreHeldBack(id, g) \/ RestoreUnreachable(id, g)
  <2>1. worker[id][g] \in InHandPcs \cup InFlightPcs
    BY <1>8 DEF RestoreInHand, RestoreHeldBack, RestoreUnreachable, InHandPcs, InFlightPcs
  <2>2. ownership[id].gen = g
    <3>1. HasReservation(id, g) => ownership[id].gen = g
      BY DEF HasReservation
    <3> QED
      BY <1>1, <2>1, <3>1, CurrentWorker
  <2>3. RestoreUnreachable(id, g) => IsCurrentDispatch(id, g)
    BY <1>1, CurrentWorker DEF RestoreUnreachable, InFlightPcs
  <2>4. \E n : Restore(id, g, n)
    BY <1>8, <2>3 DEF RestoreInHand, RestoreHeldBack, RestoreUnreachable
  <2> QED
    BY <1>3, <2>2, <2>4
<1>9. CASE AddUriAccepted(id, g) \/ AddUriRejected(id, g)
  <2>1. IsCurrentDispatch(id, g)
    BY <1>1, <1>9, CurrentWorker DEF AddUriAccepted, AddUriRejected, InFlightPcs
  <2>2. AddUriAccepted(id, g) => xfer'[id] = "live"
    BY <1>1, <2>1 DEF AddUriAccepted, RetriesCancelled, TypeOK, ResultTypes
  <2>3. AddUriRejected(id, g) => registered'[id] = 0
    BY <2>1, CommandValues DEF AddUriRejected
  <2> QED
    BY <1>1, <1>9, <2>2, <2>3
<1>10. CASE StartMediaRunner(id, g) \/ FinishRunner(id, g)
  <2>1. UnregisterFor(id, g) => registered'[id] = 0
    BY CommandValues
  <2> QED
    BY <1>1, <1>4, <1>10, <2>1 DEF StartMediaRunner, FinishRunner
<1> QED
  BY <1>5, <1>6, <1>7, <1>8, <1>9, <1>10 DEF WorkerStep

\* A dispatch worker passes its lifecycle on; one of an older generation does not
\* reach it.
LEMMA WorkerIsCarried ==
  ASSUME CarrierFacts, NEW id \in Ids, NEW g \in Generations, WorkerStep(id, g)
  PROVE  IsCarried(id)'
<1> USE DEF CarrierFacts, QueueFacts
<1>0. IsOwned(id)
  BY DEF OwnerInvariant
<1>1. enq' = enq /\ UNCHANGED removing /\ pending \subseteq pending'
  BY DEF WorkerStep, DispatchHeld, DispatchCheck, Activate, RestoreInHand, lifecycleVars,
     Restore, StartAddUri, RestoreHeldBack, AddUriAccepted, AddUriRejected, DaemonUnreachable,
     RestoreUnreachable, PublishMedia, StartMediaRunner, RegisterRunner, EndRunner, FinishRunner
<1>2. FinalizingIsPending(id)'
  BY <1>1, FinalizingStays
<1>3. CASE registered[id] = g
  <2>1. registered'[id] \in {0, g}
    BY <1>3 DEF WorkerStep, DispatchHeld, DispatchCheck, Activate, RestoreInHand, lifecycleVars,
       StartAddUri, RestoreHeldBack, AddUriAccepted, AddUriRejected, DaemonUnreachable,
       RestoreUnreachable, PublishMedia, StartMediaRunner, RegisterRunner, EndRunner,
       FinishRunner, Unregister, UnregisterFor, TypeOK, LifecycleTypes
  <2>2. NeedsCarrier(id)' => HasCarrier(id)'
    BY <1>3, <2>1, CurrentWorkerIsCarried DEF NeedsCarrier, HasCarrier
  <2> QED
    BY <1>2, <2>2 DEF IsCarried
<1>4. CASE registered[id] # g
  <2>1. registered'[id] = registered[id] /\ xfer'[id] = xfer[id]
    BY <1>0, <1>4, StaleWorkerStep
  <2>2. \A h \in Generations \ {g} : worker'[id][h] = worker[id][h]
    <3>1. \E pc : SetWorker(id, g, pc)
      BY DEF WorkerStep, DispatchHeld, DispatchCheck, Activate, RestoreInHand, StartAddUri,
         RestoreHeldBack, AddUriAccepted, AddUriRejected, DaemonUnreachable, RestoreUnreachable,
         PublishMedia, StartMediaRunner, RegisterRunner, EndRunner, FinishRunner
    <3> QED
      BY <3>1, SetWorkerValue
  <2>3. NeedsCarrier(id)' => HasCarrier(id)'
    BY <1>1, <1>4, <2>1, <2>2, CarrierStays
  <2> QED
    BY <1>2, <2>3 DEF IsCarried
<1> QED
  BY <1>3, <1>4

\* A resume worker keeps the enqueue, the tasks and the dispatch workers of its id.
LEMMA ResumeIsCarried ==
  ASSUME CarrierFacts, NEW id \in Ids, NEW r \in Resumers,
         \/ ResumePaused(id, r)
         \/ /\ resumer[r].id = id
            /\ StartResume(r) \/ ResumeReserve(r) \/ ResumeGiveUp(r) \/ ResumeUnpause(r)
                 \/ ResumeSettles(r)
  PROVE  IsCarried(id)'
<1> USE DEF CarrierFacts, QueueFacts
<1>1. UNCHANGED <<enq, pending, worker, removing, retriesAllowed>>
  BY DEF ResumePaused, StartResume, ResumeReserve, ResumeGiveUp, ResumeUnpause, ResumeSettles,
     lifecycleVars
<1>2. \/ UNCHANGED registered /\ (xfer[id] # "none" => xfer'[id] # "none")
      \/ registered'[id] = 0
  <2>1. CASE ~ResumeSettles(r)
    BY <2>1 DEF ResumePaused, StartResume, ResumeReserve, ResumeGiveUp, ResumeUnpause,
       lifecycleVars
  <2>2. CASE ResumeSettles(r) /\ resumer[r].id = id
    <3>1. CASE ApplyCompletion(id, {"completed", "failed"})
      BY <3>1, CommandValues DEF ApplyCompletion
    <3>2. CASE ~ApplyCompletion(id, {"completed", "failed"})
      BY <2>2, <3>2 DEF ResumeSettles, TypeOK, ResultTypes
    <3> QED
      BY <3>1, <3>2
  <2>3. CASE ResumePaused(id, r)
    BY <2>3 DEF ResumePaused, lifecycleVars
  <2> QED
    BY <2>1, <2>2, <2>3
<1>3. FinalizingIsPending(id)'
  BY <1>1, FinalizingStays
<1>4. NeedsCarrier(id)' => HasCarrier(id)'
  <2>1. CASE registered'[id] = 0
    BY <2>1 DEF NeedsCarrier
  <2>2. CASE UNCHANGED registered /\ (xfer[id] # "none" => xfer'[id] # "none")
    BY <1>1, <2>2, CarrierStays
  <2> QED
    BY <1>2, <2>1, <2>2
<1> QED
  BY <1>3, <1>4 DEF IsCarried

\* A command that keeps the registration keeps what carries it.
LEMMA StopIsCarried ==
  ASSUME CarrierFacts, NEW id \in Ids, StopStep(id)
  PROVE  IsCarried(id)'
<1> USE DEF CarrierFacts, QueueFacts
<1>0. IsOwned(id)
  BY DEF OwnerInvariant
<1>1. enq' = enq /\ (id \in removing => id \in removing')
  BY DEF StopStep, ResumeUnmapped, TransferEnds, ConnectionLost, PauseMapped, PauseUnmapped,
     PauseMedia, CoordinatorStop, FinishPause, Detach, FinishDetach, SubmitRemoval,
     RemovalRefused, RemoveStop, FinishRemove, StopMedia, lifecycleVars
<1>2. FinalizingIsPending(id)'
  <2>1. pending' = pending \/ enq[id].phase = "none"
    BY DEF StopStep, ResumeUnmapped, TransferEnds, ConnectionLost, PauseMapped, PauseUnmapped,
       PauseMedia, CoordinatorStop, FinishPause, Detach, FinishDetach, SubmitRemoval,
       RemovalRefused, RemoveStop, FinishRemove, StopMedia, CanStop, LockFree, ControlFree
  <2> QED
    BY <1>1, <2>1, FinalizingStays
<1>3. ASSUME registered'[id] = 0 \/ id \in removing' PROVE NeedsCarrier(id)' => HasCarrier(id)'
  BY <1>3 DEF NeedsCarrier
<1>4. CASE ResumeUnmapped(id) \/ TransferEnds(id) \/ ConnectionLost(id) \/ PauseUnmapped(id)
  <2>1. registered'[id] = 0
    BY <1>4, CommandValues DEF ResumeUnmapped, TransferEnds, ConnectionLost, PauseUnmapped,
       ApplyCompletion
  <2> QED
    BY <1>2, <1>3, <2>1 DEF IsCarried
<1>5. CASE PauseMapped(id)
  <2>1. registered'[id] = 0 \/ xfer'[id] = "paused"
    BY <1>5, CommandValues DEF PauseMapped, ApplyCompletion
  <2> QED
    BY <1>2, <2>1 DEF IsCarried, NeedsCarrier
<1>6. ASSUME NEW op, StopMedia(id, op) PROVE IsCarried(id)'
  <2>1. /\ UNCHANGED <<registered, xfer, worker>> /\ active[id] # 0
    BY <1>6 DEF StopMedia, IsMediaActive, lifecycleVars
  <2>2. \A g \in Generations : <<id, g>> \notin pending
    BY <1>0, <2>1, ParkedIsAlone
  <2>3. NeedsCarrier(id)' => HasCarrier(id)'
    BY <1>1, <2>1, <2>2, CarrierStays
  <2> QED
    BY <1>2, <2>3 DEF IsCarried
<1>7. CASE CoordinatorStop(id)
  <2>1. UNCHANGED <<registered, xfer, pending>>
    BY <1>7 DEF CoordinatorStop, lifecycleVars
  <2>2. \A g \in Generations : worker[id][g] # "idle" => worker'[id][g] # "idle"
    BY <1>7 DEF CoordinatorStop, SetWorker, TypeOK, ActorTypes
  <2>3. NeedsCarrier(id)' => HasCarrier(id)'
    BY <1>1, <2>1, <2>2, CarrierStays
  <2> QED
    BY <1>2, <2>3 DEF IsCarried
<1>8. CASE FinishPause(id) \/ FinishDetach(id)
  <2>1. UNCHANGED <<xfer, pending, worker>> /\ registered'[id] \in {registered[id], 0}
    BY <1>8, CommandValues DEF FinishPause, FinishDetach, UnregisterFor, TypeOK, LifecycleTypes
  <2>2. NeedsCarrier(id)' => HasCarrier(id)'
    BY <1>1, <2>1, CarrierStays
  <2> QED
    BY <1>2, <2>2 DEF IsCarried
<1>9. CASE Detach(id) /\ ~StopMedia(id, "detach")
  <2>1. registered'[id] = 0
    BY <1>9, CommandValues DEF Detach
  <2> QED
    BY <1>2, <1>3, <2>1 DEF IsCarried
<1>10. CASE SubmitRemoval(id) \/ RemovalRefused(id) \/ RemoveStop(id) \/ FinishRemove(id)
  <2>1. id \in removing'
    BY <1>0, <1>1, <1>10 DEF SubmitRemoval, RemovalRefused, RemoveStop, FinishRemove, IsOwned,
       StopIsOwner
  <2> QED
    BY <1>2, <1>3, <2>1 DEF IsCarried
<1> QED
  BY <1>4, <1>5, <1>6, <1>7, <1>8, <1>9, <1>10 DEF StopStep, PauseMedia, Detach

-----------------------------------------------------------------------------
(* The theorem.                                                            *)

\* At the start nothing is registered and no system action runs.
LEMMA InitCarriers == Init => CarrierInvariant
  BY DEF Init, CarrierInvariant, ActionFindsNothing, IsCarried, FinalizingIsPending,
     NeedsCarrier, NoEnqueue

\* Only the environment begins or ends a system action, and closes or opens the exit.
LEMMA ActorsDoNotInterrupt ==
  ASSUME [Next]_vars, ~EnvironmentStep
  PROVE  UNCHANGED <<systemAction, exit>>
<1>1. ASSUME NEW id \in Ids, EnqueueStep(id) \/ StopStep(id) PROVE UNCHANGED <<systemAction, exit>>
  BY <1>1 DEF EnqueueStep, ReserveEnqueue, CancelEnqueue, AbandonEnqueue, CommitEnqueue,
     FinishCommit, StopStep, ResumeUnmapped, TransferEnds, ConnectionLost, PauseMapped,
     PauseUnmapped, PauseMedia, CoordinatorStop, FinishPause, Detach, FinishDetach,
     SubmitRemoval, RemovalRefused, RemoveStop, FinishRemove, StopMedia, environment
<1>2. ASSUME NEW id \in Ids, NEW g \in Generations, TryAdmit(id, g) \/ WorkerStep(id, g)
      PROVE  UNCHANGED <<systemAction, exit>>
  BY <1>2 DEF TryAdmit, WorkerStep, DispatchHeld, DispatchCheck, Activate, RestoreInHand,
     StartAddUri, RestoreHeldBack, AddUriAccepted, AddUriRejected, DaemonUnreachable,
     RestoreUnreachable, PublishMedia, StartMediaRunner, RegisterRunner, EndRunner,
     FinishRunner, environment
<1>3. ASSUME NEW r \in Resumers, ResumeStep(r) PROVE UNCHANGED <<systemAction, exit>>
  BY <1>3 DEF ResumeStep, ResumePaused, StartResume, ResumeReserve, ResumeGiveUp, ResumeUnpause,
     ResumeSettles, environment
<1> QED
  BY <1>1, <1>2, <1>3 DEF Next, vars, environment

\* An action that may not be forced begins when nothing is reserved.
LEMMA ActionStep ==
  ASSUME ActionsAreChecked, CarrierFacts
  PROVE  ActionFindsNothing'
<1> USE DEF CarrierFacts
<1> SUFFICES ASSUME systemAction', NEW id \in Ids PROVE ownership'[id] = NoOwner
  BY DEF ActionFindsNothing
<1>1. CASE systemAction
  BY <1>1, SystemStepIsFenced DEF CarrierInvariant, ActionFindsNothing
<1>2. CASE ~systemAction
  <2>1. EnvironmentStep
    BY <1>2, ActorsDoNotInterrupt
  <2>2. BeginSystemAction
    BY <1>2, <2>1 DEF EnvironmentStep, SetCapacity, ApplyResize, RetireFreeSlots,
       ReplaceQueueLimits, BeginHold, EndHold, DaemonRecovers, EndSystemAction, ExitStep,
       environment
  <2> QED
    BY <2>2 DEF BeginSystemAction, ActionsAreChecked, permitVars
<1> QED
  BY <1>1, <1>2

\* Every step of the queue manager leaves every registered lifecycle its carrier.
LEMMA NextCarriers ==
  ASSUME ActionsAreChecked, CarrierFacts
  PROVE  CarrierInvariant'
<1> SUFFICES ASSUME NEW i \in Ids PROVE IsCarried(i)'
  BY ActionStep DEF CarrierInvariant
<1>0. TypeOK /\ ReservationsMatchPermits /\ [Next]_vars
  BY DEF CarrierFacts, QueueFacts
<1>1. ASSUME Untouched(i) PROVE IsCarried(i)'
  BY <1>1, ElsewhereIsCarried
<1>2. ASSUME NEW id \in Ids, EnqueueStep(id) \/ StopStep(id) PROVE IsCarried(i)'
  <2>1. CASE id = i
    BY <1>2, <2>1, EnqueueIsCarried, StopIsCarried
  <2>2. CASE id # i
    BY <1>0, <1>1, <1>2, <2>2, EnqueueElsewhere, StopElsewhere
  <2> QED
    BY <2>1, <2>2
<1>3. ASSUME NEW id \in Ids, NEW g \in Generations, TryAdmit(id, g) \/ WorkerStep(id, g)
      PROVE  IsCarried(i)'
  <2>1. CASE id = i
    BY <1>3, <2>1, TryAdmitIsCarried, WorkerIsCarried
  <2>2. CASE id # i
    BY <1>0, <1>1, <1>3, <2>2, TryAdmitElsewhere, WorkerElsewhere
  <2> QED
    BY <2>1, <2>2
<1>4. ASSUME NEW r \in Resumers, NEW id \in Ids,
             \/ ResumePaused(id, r)
             \/ /\ resumer[r].id = id
                /\ StartResume(r) \/ ResumeReserve(r) \/ ResumeGiveUp(r) \/ ResumeUnpause(r)
                     \/ ResumeSettles(r)
      PROVE  IsCarried(i)'
  <2>1. CASE id = i
    BY <1>4, <2>1, ResumeIsCarried
  <2>2. CASE id # i
    BY <1>0, <1>1, <1>4, <2>2, ResumeElsewhere
  <2> QED
    BY <2>1, <2>2
<1>5. ASSUME NEW r \in Resumers, ResumeStep(r) PROVE IsCarried(i)'
  <2>1. resumer[r].id \in Ids
    BY <1>0, ResumerTypes
  <2> QED
    BY <1>4, <1>5, <2>1 DEF ResumeStep
<1>6. ASSUME EnvironmentStep \/ UNCHANGED vars PROVE IsCarried(i)'
  BY <1>1, <1>6, EnvironmentElsewhere
<1> QED
  BY <1>0, <1>2, <1>3, <1>5, <1>6 DEF Next

\* The invariant behind it, which later proofs build on.
THEOREM CarriersAreThere ==
  ASSUME ActionsAreChecked
  PROVE  Spec => []CarrierInvariant
<1>1. TypeOK /\ PermitInvariant /\ ReservationsMatchPermits => QueueFacts
  BY DEF QueueFacts
<1>2. QueueFacts /\ OwnerInvariant /\ CarrierInvariant /\ TypeOK' /\ [Next]_vars
      => CarrierInvariant'
  BY NextCarriers DEF CarrierFacts
<1> QED
  BY <1>1, <1>2, InitCarriers, TypeCorrect, PermitsAreConserved, ReservationsAreCorrect,
     OwnersAreCorrect, PTL DEF Spec

\* As long as system actions are not forced, a registered lifecycle that has not ended
\* always has its enqueue, its pending task, its worker, a command or a paused GID: no
\* id is left registered with nobody to retire it.
THEOREM RegistrationsAreCarried ==
  ASSUME ActionsAreChecked
  PROVE  Spec => []RegistrationIsCarried
<1>1. TypeOK /\ CarrierInvariant => RegistrationIsCarried
  <2> SUFFICES ASSUME TypeOK, CarrierInvariant, NEW id \in Ids, registered[id] # 0,
                      xfer[id] = "none", id \notin removing, ~(cancelled[id] >= registered[id])
               PROVE  Carried(id)
    BY DEF RegistrationIsCarried
  <2>1. registered[id] \in Nat /\ cancelled[id] \in Nat
    BY GenerationNumbers DEF TypeOK, LifecycleTypes
  <2>2. NeedsCarrier(id)
    BY <2>1 DEF NeedsCarrier
  <2>3. HasCarrier(id)
    BY <2>2 DEF CarrierInvariant, IsCarried
  <2> QED
    BY <2>3 DEF HasCarrier, Carried
<1> QED
  BY <1>1, CarriersAreThere, TypeCorrect, PTL

-----------------------------------------------------------------------------
(* Rows that show Queued.                                                  *)

\* A runner that is past its first event has shown Downloading.
PublishedIsShown(id) ==
  \A g \in Generations :
    registered[id] = g /\ worker[id][g] \in MediaPcs \ {"activated"} => shown[id] # "queued"

\* The resume worker that the row waits for, if there is one.
Resuming(id, r) ==
  resumer[r].pc # "idle" /\ resumer[r].id = id /\ epoch[id] = <<"resume", r>>

\* It finds no parked permit when it brings one.
CandidateIsUnparked(id) ==
  \A r \in Resumers : Resuming(id, r) /\ resumer[r].cand => active[id] = 0

\* The row shows Queued, and its lifecycle has not been given up ...
NeedsStart(id) ==
  shown[id] = "queued" /\ id \notin removing /\ cancelled[id] < Newest(id)

\* ... so it has its permit, its task or worker, or a resume worker; no enqueue is
\* under way that a rollback could end with nobody left.
HasStart(id) ==
  /\ enq[id].phase = "none"
  /\ \/ active[id] # 0
     \/ registered[id] # 0 /\ xfer[id] = "none"
     \/ \E r \in Resumers : Resuming(id, r)

\* What is known of the row of an id.
WillStart(id) ==
  PublishedIsShown(id) /\ CandidateIsUnparked(id) /\ (NeedsStart(id) => HasStart(id))

\* Nothing interrupts a resume worker between its reservation and its unpause.
Uninterrupted == exit = "open" /\ ~systemAction

\* Every row that shows Queued has somebody who starts it.
RowInvariant == Uninterrupted /\ \A id \in Ids : WillStart(id)

\* What the steps below start from.
RowFacts == CarrierFacts /\ RowInvariant

-----------------------------------------------------------------------------
\* A step that does not show Queued and starts no new lifecycle.
LEMMA StartStays ==
  ASSUME RowFacts, NEW id \in Ids,
         shown'[id] = shown[id] \/ shown'[id] # "queued",
         Newest(id)' = Newest(id),
         id \in removing => id \in removing',
         HasStart(id) /\ NeedsStart(id)' => HasStart(id)'
  PROVE  NeedsStart(id)' => HasStart(id)'
<1> USE DEF RowFacts, CarrierFacts, QueueFacts
<1> SUFFICES ASSUME NeedsStart(id)' PROVE HasStart(id)
  OBVIOUS
<1>1. shown[id] = "queued" /\ id \notin removing /\ cancelled'[id] < Newest(id)
  BY DEF NeedsStart
<1>2. cancelled[id] < Newest(id)
  <2>1. Newest(id) \in Nat
    BY NewestType
  <2> QED
    BY <1>1, <2>1, CancelledGrows
<1> QED
  BY <1>1, <1>2 DEF NeedsStart, RowInvariant, WillStart

\* A lifecycle that is retired, or has no permit and no transfer, waits for no resume worker.
LEMMA UnregisteredHasNoStart ==
  ASSUME QueueFacts, OwnerInvariant, NEW id \in Ids, registered[id] = 0
  PROVE  ~HasStart(id)
<1>1. IsOwned(id)
  BY DEF OwnerInvariant
<1>2. active[id] = 0
  BY <1>1, ParkedIsRegistered, GenerationNumbers
<1>3. ASSUME NEW r \in Resumers, Resuming(id, r) PROVE FALSE
  BY <1>1, <1>3, GenerationNumbers DEF Resuming, IsOwned, ResumersAreOwners, ResumerIsOwner
<1> QED
  BY <1>2, <1>3 DEF HasStart

\* The enqueue gives its row a new lifecycle, or the row was not waiting for one.
LEMMA EnqueueWillStart ==
  ASSUME RowFacts, NEW id \in Ids, EnqueueStep(id)
  PROVE  WillStart(id)'
<1> USE DEF RowFacts, CarrierFacts, QueueFacts
<1>0. IsOwned(id) /\ WillStart(id) /\ HasFreshGenerations(id)
  BY DEF OwnerInvariant, RowInvariant, PermitInvariant, GenerationsAreFresh
<1>1. UNCHANGED <<resumer, epoch, active, worker, xfer, removing, retriesAllowed>>
  BY DEF EnqueueStep, ReserveEnqueue, CancelEnqueue, AbandonEnqueue, CommitEnqueue,
     FinishCommit, permitVars
<1>2. CandidateIsUnparked(id)'
  BY <1>0, <1>1 DEF WillStart, CandidateIsUnparked, Resuming
<1>3. ASSUME NEW g \in Generations, ReserveEnqueue(id, g) PROVE WillStart(id)'
  <2>1. /\ enq[id].phase = "none" /\ registered[id] = 0 /\ watermark[id] < g
        /\ registered'[id] = g /\ Newest(id)' = Newest(id) /\ UNCHANGED shown
    <3>1. /\ enq[id].phase = "none" /\ registered[id] = 0 /\ watermark[id] < g /\ UNCHANGED shown
          /\ registered'[id] = g
      BY <1>3 DEF ReserveEnqueue, LockFree, ControlFree, TypeOK, LifecycleTypes
    <3>2. enq'[id] = [phase |-> "reserved", gen |-> g, prev |-> watermark[id]]
      BY <1>3 DEF ReserveEnqueue, TypeOK, LifecycleTypes
    <3>3. Newest(id)' = Newest(id)
      BY <3>1, <3>2 DEF Newest
    <3> QED
      BY <3>1, <3>3
  <2>2. worker[id][g] = "idle"
    <3>1. worker[id][g] # "idle" => g <= watermark[id]
      BY <1>0, <2>1 DEF HasFreshGenerations, Occupied
    <3>2. g \in Nat /\ watermark[id] \in Nat
      BY NewestType, GenerationNumbers
    <3> QED
      BY <2>1, <3>1, <3>2
  <2>3. PublishedIsShown(id)'
    BY <1>1, <2>1, <2>2 DEF PublishedIsShown, MediaPcs, RunnerPcs
  <2>4. NeedsStart(id)' => HasStart(id)'
    BY <1>1, <2>1, UnregisteredHasNoStart, StartStays
  <2> QED
    BY <1>2, <2>3, <2>4 DEF WillStart
<1>4. ASSUME NEW g \in Generations, CancelEnqueue(id, g) PROVE WillStart(id)'
  <2>1. UNCHANGED <<registered, enq, watermark, shown>>
    BY <1>4 DEF CancelEnqueue
  <2>2. PublishedIsShown(id)'
    BY <1>0, <1>1, <2>1 DEF WillStart, PublishedIsShown
  <2>3. NeedsStart(id)' => HasStart(id)'
    BY <1>1, <2>1, StartStays DEF Newest, HasStart, Resuming
  <2> QED
    BY <1>2, <2>2, <2>3 DEF WillStart
<1>5. ASSUME enq[id].phase # "none", RollbackEnqueue(id, enq[id].gen, enq[id].prev),
             enq' = [enq EXCEPT ![id] = NoEnqueue], UNCHANGED shown
      PROVE  WillStart(id)'
  <2>1. watermark[id] = enq[id].gen
    BY <1>0, <1>5, EnqueueIsFresh
  <2>2. registered'[id] = 0 /\ Newest(id)' = Newest(id) /\ ~HasStart(id)
    BY <1>5, <2>1 DEF RollbackEnqueue, Unregister, NoEnqueue, Newest, HasStart, TypeOK,
       LifecycleTypes
  <2>3. PublishedIsShown(id)'
    BY <2>2, GenerationNumbers DEF PublishedIsShown
  <2>4. NeedsStart(id)' => HasStart(id)'
    BY <1>1, <1>5, <2>2, StartStays
  <2> QED
    BY <1>2, <2>3, <2>4 DEF WillStart
<1>6. CASE AbandonEnqueue(id)
  BY <1>5, <1>6 DEF AbandonEnqueue
<1>7. CASE CommitEnqueue(id)
  <2>1. CASE RollbackEnqueue(id, enq[id].gen, enq[id].prev) /\ enq' = [enq EXCEPT ![id] = NoEnqueue]
    BY <1>5, <1>7, <2>1 DEF CommitEnqueue
  <2>2. CASE enq' = [enq EXCEPT ![id].phase = "finalizing"] /\ UNCHANGED <<registered, watermark>>
    <3>1. enq[id].phase = "reserved" /\ UNCHANGED shown
      BY <1>7 DEF CommitEnqueue
    <3>2. Newest(id)' = Newest(id) /\ ~HasStart(id)
      BY <2>2, <3>1 DEF Newest, HasStart, TypeOK, LifecycleTypes
    <3>3. PublishedIsShown(id)'
      BY <1>0, <1>1, <2>2, <3>1 DEF WillStart, PublishedIsShown
    <3>4. NeedsStart(id)' => HasStart(id)'
      BY <1>1, <3>1, <3>2, StartStays
    <3> QED
      BY <1>2, <3>3, <3>4 DEF WillStart
  <2> QED
    BY <1>7, <2>1, <2>2 DEF CommitEnqueue
<1>8. CASE FinishCommit(id)
  <2>1. CASE RollbackEnqueue(id, enq[id].gen, enq[id].prev) /\ UNCHANGED shown
    BY <1>5, <1>8, <2>1 DEF FinishCommit
  <2>2. CASE UNCHANGED <<registered, watermark>>
    <3>1. /\ registered[id] = enq[id].gen /\ enq[id].gen \in Generations
          /\ \A g \in Generations : worker[id][g] # "idle" => g # registered[id]
      BY <1>0, <1>8, EnqueueIsFresh DEF FinishCommit
    <3>2. enq'[id].phase = "none" /\ xfer[id] = "none"
      BY <1>0, <1>8 DEF FinishCommit, NoEnqueue, TypeOK, LifecycleTypes, IsOwned,
         EnqueueIsAlone, Unowned
    <3>3. HasStart(id)'
      BY <1>1, <2>2, <3>1, <3>2, GenerationNumbers DEF HasStart
    <3>4. PublishedIsShown(id)'
      BY <1>1, <2>2, <3>1 DEF PublishedIsShown, MediaPcs, RunnerPcs
    <3> QED
      BY <1>2, <3>3, <3>4 DEF WillStart
  <2> QED
    BY <1>8, <2>1, <2>2 DEF FinishCommit
<1> QED
  BY <1>3, <1>4, <1>6, <1>7, <1>8 DEF EnqueueStep

-----------------------------------------------------------------------------
\* An admission takes the task but keeps the registration.
LEMMA TryAdmitWillStart ==
  ASSUME RowFacts, NEW id \in Ids, NEW g \in Generations, TryAdmit(id, g)
  PROVE  WillStart(id)'
<1> USE DEF RowFacts, CarrierFacts, QueueFacts
<1>0. WillStart(id)
  BY DEF RowInvariant
<1>1. UNCHANGED <<registered, enq, watermark, shown, resumer, epoch, active, xfer, removing,
                   retriesAllowed>>
  BY DEF TryAdmit, lifecycleVars
<1>2. worker'[id][g] = "admitted" /\ \A h \in Generations \ {g} : worker'[id][h] = worker[id][h]
  BY SetWorkerValue DEF TryAdmit
<1>3. PublishedIsShown(id)'
  BY <1>0, <1>1, <1>2 DEF WillStart, PublishedIsShown, MediaPcs, RunnerPcs
<1>4. CandidateIsUnparked(id)'
  BY <1>0, <1>1 DEF WillStart, CandidateIsUnparked, Resuming
<1>5. NeedsStart(id)' => HasStart(id)'
  BY <1>1, StartStays DEF Newest, HasStart, Resuming
<1> QED
  BY <1>3, <1>4, <1>5 DEF WillStart

\* What every step of a dispatch worker leaves alone, and what it may do to its row.
LEMMA WorkerKeepsRow ==
  ASSUME TypeOK, NEW id \in Ids, NEW g \in Generations, WorkerStep(id, g)
  PROVE  /\ UNCHANGED <<enq, watermark, resumer, removing, retriesAllowed>>
         /\ shown'[id] = shown[id] \/ shown'[id] # "queued"
         /\ registered'[id] \in {registered[id], 0}
         /\ worker[id][g] # "idle"
         /\ \A h \in Generations \ {g} : worker'[id][h] = worker[id][h]
         /\ worker'[id][g] \in MediaPcs \ {"activated"} =>
              \/ shown'[id] = "downloading"
              \/ worker[id][g] \in MediaPcs \ {"activated"}
<1> USE DEF WorkerStep, DispatchHeld, DispatchCheck, Activate, RestoreInHand, StartAddUri,
   RestoreHeldBack, AddUriAccepted, AddUriRejected, DaemonUnreachable, RestoreUnreachable,
   PublishMedia, StartMediaRunner, RegisterRunner, EndRunner, FinishRunner
<1>1. UNCHANGED <<enq, watermark, resumer, removing, retriesAllowed>>
  BY DEF lifecycleVars
<1>2. shown'[id] = shown[id] \/ shown'[id] # "queued"
  <2>1. CASE UNCHANGED shown
    BY <2>1
  <2>2. CASE \E status \in {"downloading", "failed", "completed"} : Show(id, status)
    BY <2>2, CommandValues
  <2> QED
    BY <2>1, <2>2
<1>3. registered'[id] \in {registered[id], 0}
  BY DEF lifecycleVars, Unregister, UnregisterFor, TypeOK, LifecycleTypes
<1>4. worker[id][g] # "idle"
  BY DEF RunnerPcs
<1>5. \E pc : SetWorker(id, g, pc)
  OBVIOUS
<1>6. \A h \in Generations \ {g} : worker'[id][h] = worker[id][h]
  BY <1>5, SetWorkerValue
<1>7. ASSUME worker'[id][g] \in MediaPcs \ {"activated"}
      PROVE  \/ shown'[id] = "downloading"
             \/ worker[id][g] \in MediaPcs \ {"activated"}
  <2>1. ASSUME NEW pc, SetWorker(id, g, pc) PROVE pc \in MediaPcs \ {"activated"}
    BY <1>7, <2>1, SetWorkerValue
  <2>2. CASE PublishMedia(id, g)
    BY <2>2, CommandValues
  <2>3. CASE StartMediaRunner(id, g) \/ RegisterRunner(id, g) \/ EndRunner(id, g)
               \/ FinishRunner(id, g)
    BY <2>3 DEF MediaPcs, RunnerPcs
  <2>4. CASE ~PublishMedia(id, g) /\ ~StartMediaRunner(id, g) /\ ~RegisterRunner(id, g)
               /\ ~EndRunner(id, g) /\ ~FinishRunner(id, g)
    BY <2>1, <2>4 DEF MediaPcs, RunnerPcs
  <2> QED
    BY <2>2, <2>3, <2>4
<1> QED
  BY <1>1, <1>2, <1>3, <1>4, <1>6, <1>7

\* The worker of the registered lifecycle keeps it, or shows what has become of it.
LEMMA CurrentWorkerStarts ==
  ASSUME RowFacts, NEW id \in Ids, NEW g \in Generations, registered[id] = g,
         WorkerStep(id, g), shown'[id] = "queued", id \notin removing
  PROVE  registered'[id] = g /\ xfer'[id] = "none"
<1> USE DEF RowFacts, CarrierFacts, QueueFacts
<1>0. IsOwned(id) /\ WillStart(id) /\ exit = "open" /\ g # 0
  BY GenerationNumbers DEF OwnerInvariant, RowInvariant, Uninterrupted
<1>1. xfer[id] = "none"
  BY <1>0, MappedIsAlone, WorkerKeepsRow
<1>2. CASE AddUriAccepted(id, g) \/ AddUriRejected(id, g)
  <2>1. IsCurrentDispatch(id, g) /\ ~RetriesCancelled(id)
    BY <1>2, CurrentWorker DEF AddUriAccepted, AddUriRejected, InFlightPcs, RetriesCancelled
  <2>2. shown'[id] \in {"downloading", "failed"}
    BY <1>2, <2>1, CommandValues DEF AddUriAccepted, AddUriRejected
  <2> QED
    BY <2>2
<1>3. CASE FinishRunner(id, g)
  <2>1. shown[id] # "queued"
    BY <1>0, <1>3 DEF WillStart, PublishedIsShown, FinishRunner, MediaPcs
  <2> QED
    BY <2>1, <1>3, WorkerKeepsRow
<1>4. CASE StartMediaRunner(id, g)
  BY <1>0, <1>1, <1>4 DEF StartMediaRunner
<1>5. CASE ~AddUriAccepted(id, g) /\ ~AddUriRejected(id, g) /\ ~FinishRunner(id, g)
             /\ ~StartMediaRunner(id, g)
  BY <1>1, <1>5 DEF WorkerStep, DispatchHeld, DispatchCheck, Activate, RestoreInHand,
     StartAddUri, RestoreHeldBack, DaemonUnreachable, RestoreUnreachable, PublishMedia,
     RegisterRunner, EndRunner, lifecycleVars
<1> QED
  BY <1>2, <1>3, <1>4, <1>5

\* A dispatch worker parks its permit under no resume worker.
LEMMA WorkerKeepsCandidate ==
  ASSUME RowFacts, NEW id \in Ids, NEW g \in Generations, WorkerStep(id, g)
  PROVE  CandidateIsUnparked(id)'
<1> USE DEF RowFacts, CarrierFacts, QueueFacts
<1>0. IsOwned(id) /\ WillStart(id)
  BY DEF OwnerInvariant, RowInvariant
<1> SUFFICES ASSUME NEW r \in Resumers, Resuming(id, r)', resumer'[r].cand PROVE active'[id] = 0
  BY DEF CandidateIsUnparked
<1>1. resumer'[r] = resumer[r]
  BY WorkerKeepsRow
<1>2. epoch[id] = <<"resume", r>>
  <2>1. epoch'[id] \in {epoch[id], <<"dispatch", g>>, <<"none", 0>>}
    BY DEF WorkerStep, DispatchHeld, DispatchCheck, Activate, RestoreInHand, StartAddUri,
       RestoreHeldBack, AddUriAccepted, AddUriRejected, DaemonUnreachable, RestoreUnreachable,
       PublishMedia, StartMediaRunner, RegisterRunner, EndRunner, FinishRunner, EndEpoch,
       TypeOK, ActorTypes
  <2> QED
    BY <2>1 DEF Resuming
<1>3. Resuming(id, r) /\ active[id] = 0
  BY <1>0, <1>1, <1>2 DEF WillStart, CandidateIsUnparked, Resuming
<1>4. xfer[id] = "paused"
  BY <1>0, <1>3 DEF IsOwned, ResumersAreOwners, ResumerIsOwner, Resuming
<1>5. CASE registered[id] = g
  BY <1>0, <1>4, <1>5, MappedIsAlone, WorkerKeepsRow
<1>6. CASE registered[id] # g
  BY <1>0, <1>3, <1>6, StaleWorkerStep DEF Kept
<1> QED
  BY <1>5, <1>6

\* The control epoch of an id is out of reach of its older workers.
LEMMA StaleWorkerKeepsEpoch ==
  ASSUME QueueFacts, NEW id \in Ids, NEW g \in Generations, IsOwned(id), WorkerStep(id, g),
         registered[id] # g
  PROVE  epoch'[id] = epoch[id]
<1>1. CASE Activate(id, g)
  BY <1>1 DEF Activate, IsOwned, InHandIsOwner, InHandPcs
<1>2. CASE AddUriRejected(id, g)
  <2>1. ~IsCurrentDispatch(id, g)
    BY <1>2, DispatchIsRegistered DEF AddUriRejected, IsCurrentDispatch, InFlightPcs
  <2> QED
    BY <1>2, <2>1 DEF AddUriRejected
<1>3. CASE ~Activate(id, g) /\ ~AddUriRejected(id, g)
  BY <1>3 DEF WorkerStep, DispatchHeld, DispatchCheck, RestoreInHand, StartAddUri,
     RestoreHeldBack, AddUriAccepted, DaemonUnreachable, RestoreUnreachable, PublishMedia,
     StartMediaRunner, RegisterRunner, EndRunner, FinishRunner
<1> QED
  BY <1>1, <1>2, <1>3

\* A dispatch worker keeps the registration or shows what has become of it.
LEMMA WorkerWillStart ==
  ASSUME RowFacts, NEW id \in Ids, NEW g \in Generations, WorkerStep(id, g)
  PROVE  WillStart(id)'
<1> USE DEF RowFacts, CarrierFacts, QueueFacts
<1>0. IsOwned(id) /\ WillStart(id) /\ g # 0
  BY GenerationNumbers DEF OwnerInvariant, RowInvariant
<1>1. PublishedIsShown(id)'
  BY <1>0, WorkerKeepsRow, GenerationNumbers DEF WillStart, PublishedIsShown
<1>2. NeedsStart(id)' => HasStart(id)'
  <2>1. CASE registered[id] = g
    BY <1>0, <2>1, WorkerKeepsRow, CurrentWorkerStarts, StartStays DEF NeedsStart, HasStart,
       Newest
  <2>2. CASE registered[id] # g
    <3>1. UNCHANGED <<enq, resumer>> /\ Newest(id)' = Newest(id) /\ UNCHANGED removing
      BY WorkerKeepsRow DEF Newest
    <3>2. /\ registered'[id] = registered[id] /\ active'[id] = active[id]
          /\ xfer'[id] = xfer[id]
      BY <1>0, <2>2, StaleWorkerStep DEF Kept
    <3>3. ASSUME NEW r \in Resumers, Resuming(id, r) PROVE Resuming(id, r)'
      <4>1. epoch'[id] = epoch[id]
        BY <1>0, <2>2, StaleWorkerKeepsEpoch
      <4> QED
        BY <3>1, <3>3, <4>1 DEF Resuming
    <3> QED
      BY <3>1, <3>2, <3>3, WorkerKeepsRow, StartStays DEF HasStart
  <2> QED
    BY <2>1, <2>2
<1> QED
  BY <1>1, <1>2, WorkerKeepsCandidate DEF WillStart

-----------------------------------------------------------------------------
\* What a current resume worker of a wanted download finds when it unpauses: its
\* reservation, or none at all, and nobody's permit.
LEMMA CandidateParks ==
  ASSUME RowFacts, NEW id \in Ids, NEW r \in Resumers, Resuming(id, r), resumer[r].cand
  PROVE  LET g == resumer[r].gen IN
         /\ active[id] = 0 /\ registered[id] = g /\ g \in Generations
         /\ HasReservation(id, g) \/ ownership[id] = NoOwner
<1> USE DEF RowFacts, CarrierFacts, QueueFacts
<1>0. IsOwned(id) /\ WillStart(id) /\ ReservationMatches(id)
  BY DEF OwnerInvariant, RowInvariant, ReservationsMatchPermits
<1>1. registered[id] = resumer[r].gen /\ resumer[r].gen \in Generations
  BY <1>0 DEF IsOwned, ResumersAreOwners, ResumerIsOwner, Resuming
<1>2. active[id] = 0
  BY <1>0 DEF WillStart, CandidateIsUnparked
<1>3. ownership[id] \in [gen : Gens, active : BOOLEAN] /\ ~ownership[id].active
  BY <1>0, <1>2 DEF ReservationMatches, TypeOK, PermitTypes
<1>4. CASE ownership[id].gen = 0
  BY <1>1, <1>2, <1>3, <1>4 DEF NoOwner
<1>5. CASE ownership[id].gen # 0
  <2>1. ownership[id].gen = resumer[r].gen
    BY <1>0, <1>1, <1>5 DEF IsOwned, OwnerIsRegistered
  <2> QED
    BY <1>1, <1>2, <1>3, <2>1 DEF HasReservation
<1> QED
  BY <1>4, <1>5

\* A resume worker of a wanted download goes on until aria2 answers; one that has been
\* superseded is not what the row waits for.
LEMMA ResumeWillStart ==
  ASSUME RowFacts, NEW id \in Ids, NEW r \in Resumers,
         \/ ResumePaused(id, r)
         \/ /\ resumer[r].id = id
            /\ StartResume(r) \/ ResumeReserve(r) \/ ResumeGiveUp(r) \/ ResumeUnpause(r)
                 \/ ResumeSettles(r)
  PROVE  WillStart(id)'
<1> USE DEF RowFacts, CarrierFacts, QueueFacts
<1>0. IsOwned(id) /\ WillStart(id) /\ ResumerIsOwner(id, r)
  BY DEF OwnerInvariant, RowInvariant, IsOwned, ResumersAreOwners
<1>1. UNCHANGED <<enq, watermark, removing, worker>> /\ Newest(id)' = Newest(id)
  BY DEF ResumePaused, StartResume, ResumeReserve, ResumeGiveUp, ResumeUnpause, ResumeSettles,
     lifecycleVars, Newest
<1>2. \A q \in Resumers \ {r} : resumer'[q] = resumer[q]
  BY IdleResumerType DEF ResumePaused, StartResume, ResumeReserve, ResumeGiveUp, ResumeUnpause,
     ResumeSettles, TypeOK, ActorTypes
<1>3. ASSUME UNCHANGED <<registered, shown>> PROVE PublishedIsShown(id)'
  BY <1>0, <1>1, <1>3 DEF WillStart, PublishedIsShown
<1>4. ASSUME UNCHANGED <<registered, xfer, epoch, active, shown>>,
             resumer'[r].pc # "idle", resumer'[r].id = id
      PROVE  NeedsStart(id)' => HasStart(id)'
  <2>1. \A q \in Resumers : Resuming(id, q) => Resuming(id, q)'
    BY <1>2, <1>4 DEF Resuming
  <2> QED
    BY <1>1, <1>4, <2>1, StartStays DEF HasStart
<1>5. CASE ResumePaused(id, r)
  <2>1. /\ UNCHANGED registered /\ epoch'[id] = <<"resume", r>> /\ xfer[id] = "paused"
        /\ resumer'[r].pc = "spawned" /\ resumer'[r].id = id /\ ~resumer'[r].cand
        /\ enq[id].phase = "none"
    BY <1>5 DEF ResumePaused, lifecycleVars, LockFree, ControlFree, TypeOK, ActorTypes
  <2>2. PublishedIsShown(id)'
    BY <1>0, <1>1, <2>1, MappedIsAlone DEF PublishedIsShown, MediaPcs, RunnerPcs
  <2>3. CandidateIsUnparked(id)'
    BY <2>1 DEF CandidateIsUnparked, Resuming
  <2>4. HasStart(id)'
    BY <1>1, <2>1 DEF HasStart, Resuming
  <2> QED
    BY <2>2, <2>3, <2>4 DEF WillStart
<1>6. CASE resumer[r].id = id /\ (StartResume(r) \/ ResumeReserve(r))
  <2>1. /\ UNCHANGED <<registered, xfer, epoch, active, shown>>
        /\ resumer'[r].pc # "idle" /\ resumer'[r].id = id /\ resumer[r].pc # "idle"
        /\ resumer'[r].cand => resumer[r].cand \/ active[id] = 0
    BY <1>6 DEF StartResume, ResumeReserve, ResumeEligible, lifecycleVars, permitVars, TypeOK,
       ActorTypes
  <2>2. CandidateIsUnparked(id)'
    <3> SUFFICES ASSUME NEW q \in Resumers, Resuming(id, q)', resumer'[q].cand PROVE active[id] = 0
      BY <2>1 DEF CandidateIsUnparked
    <3>1. CASE q = r
      BY <1>0, <1>6, <2>1, <3>1 DEF WillStart, CandidateIsUnparked, Resuming
    <3>2. CASE q # r
      BY <1>0, <1>2, <2>1, <3>2 DEF WillStart, CandidateIsUnparked, Resuming
    <3> QED
      BY <3>1, <3>2
  <2> QED
    BY <1>3, <1>4, <2>1, <2>2 DEF WillStart
<1>7. ASSUME resumer[r].id = id, UNCHANGED <<registered, xfer, epoch, active, shown>>,
             resumer'[r] = IdleResumer, ~Resuming(id, r) \/ id \in removing
      PROVE  WillStart(id)'
  <2>1. CandidateIsUnparked(id)'
    BY <1>0, <1>2, <1>7, IdleResumerType DEF WillStart, CandidateIsUnparked, Resuming
  <2>2. \A q \in Resumers : id \notin removing /\ Resuming(id, q) => Resuming(id, q)'
    BY <1>2, <1>7 DEF Resuming
  <2>3. NeedsStart(id)' => HasStart(id)'
    BY <1>1, <1>7, <2>2, StartStays DEF HasStart, NeedsStart
  <2> QED
    BY <1>3, <1>7, <2>1, <2>3 DEF WillStart
<1>8. CASE resumer[r].id = id /\ ResumeGiveUp(r)
  <2>1. /\ UNCHANGED <<registered, xfer, epoch, active, shown>>
        /\ resumer'[r] = IdleResumer /\ resumer[r].pc # "idle"
    BY <1>8 DEF ResumeGiveUp, lifecycleVars, TypeOK, ActorTypes
  <2>2. Resuming(id, r) => id \in removing
    BY <1>0, <1>8, <2>1, GenerationNumbers DEF ResumeGiveUp, ResumeStale, ResumerIsOwner,
       Resuming, RowInvariant, Uninterrupted, AriaShutdownRequested, ShuttingDown,
       HandoffsAccepted, RetriesCancelled
  <2> QED
    BY <1>7, <1>8, <2>1, <2>2
<1>9. CASE resumer[r].id = id /\ ResumeUnpause(r)
  <2> DEFINE g == resumer[r].gen
  <2>1. /\ resumer[r].pc = "reserved" /\ UNCHANGED <<registered, xfer, epoch, shown>>
    BY <1>9 DEF ResumeUnpause, lifecycleVars
  <2>5. RetriesCancelled(id) => id \in removing
    BY DEF RetriesCancelled
  <2>2. CASE ~Resuming(id, r) \/ RetriesCancelled(id)
    <3>1. UNCHANGED active /\ resumer'[r] = IdleResumer
      BY <1>9, <2>1, <2>2 DEF ResumeUnpause, Resuming, TypeOK, ActorTypes
    <3> QED
      BY <1>7, <1>9, <2>1, <2>2, <2>5, <3>1
  <2>3. CASE Resuming(id, r) /\ ~RetriesCancelled(id) /\ resumer[r].cand
    <3>1. /\ active[id] = 0 /\ registered[id] = g /\ g \in Generations /\ g # 0
          /\ HasReservation(id, g) \/ ownership[id] = NoOwner
      BY <2>3, CandidateParks, GenerationNumbers
    <3>2. /\ ~AriaShutdownRequested /\ ~systemAction /\ xfer[id] = "paused"
          /\ epoch[id] = <<"resume", r>> /\ ~RetriesCancelled(id)
      BY <1>0, <2>3 DEF RowInvariant, Uninterrupted, AriaShutdownRequested, ShuttingDown,
         HandoffsAccepted, ResumerIsOwner, Resuming
    <3>3. active' = [active EXCEPT ![id] = g]
          /\ resumer' = [resumer EXCEPT ![r].pc = "unpausing", ![r].cand = FALSE]
      BY <1>9, <2>3, <3>1, <3>2 DEF ResumeUnpause
    <3>4. active'[id] # 0 /\ ~resumer'[r].cand
      BY <3>1, <3>3 DEF TypeOK, PermitTypes, ActorTypes
    <3>5. CandidateIsUnparked(id)'
      BY <2>1, <3>2, <3>4 DEF CandidateIsUnparked, Resuming
    <3>6. NeedsStart(id)' => HasStart(id)'
      BY <1>1, <2>1, <3>4, StartStays DEF HasStart
    <3> QED
      BY <1>3, <2>1, <3>5, <3>6 DEF WillStart
  <2>4. CASE Resuming(id, r) /\ ~RetriesCancelled(id) /\ ~resumer[r].cand
    <3>1. registered[id] # 0 /\ xfer[id] = "paused" /\ epoch[id] = <<"resume", r>>
      BY <1>0, <2>4, GenerationNumbers DEF ResumerIsOwner, Resuming
    <3>2. UNCHANGED active /\ resumer' = [resumer EXCEPT ![r].pc = "unpausing"]
      BY <1>9, <2>4, <3>1 DEF ResumeUnpause
    <3>3. resumer'[r].pc = "unpausing" /\ resumer'[r].id = id /\ ~resumer'[r].cand
      BY <1>9, <2>4, <3>2 DEF TypeOK, ActorTypes
    <3>4. CandidateIsUnparked(id)'
      BY <2>1, <3>1, <3>3 DEF CandidateIsUnparked, Resuming
    <3> QED
      BY <1>3, <1>4, <2>1, <3>2, <3>3, <3>4 DEF WillStart
  <2> QED
    BY <2>2, <2>3, <2>4
<1>10. CASE resumer[r].id = id /\ ResumeSettles(r)
  <2>1. epoch[id] = <<"resume", r>> /\ active[id] # 0 /\ resumer'[r] = IdleResumer
    BY <1>0, <1>10 DEF ResumeSettles, ResumerIsOwner, TypeOK, ActorTypes
  <2>2. /\ registered'[id] \in {registered[id], 0}
        /\ epoch'[id] \in {epoch[id], <<"none", 0>>}
        /\ \/ shown'[id] \in {"downloading", "paused", "completed", "failed"}
           \/ UNCHANGED <<active, shown>>
    <3>1. CASE ApplyCompletion(id, {"completed", "failed"})
      BY <3>1, CommandValues DEF ApplyCompletion
    <3>2. CASE ~ApplyCompletion(id, {"completed", "failed"})
      BY <1>10, <3>2, CommandValues DEF ResumeSettles
    <3> QED
      BY <3>1, <3>2
  <2>3. PublishedIsShown(id)'
    BY <1>0, <1>1, <2>2, GenerationNumbers DEF WillStart, PublishedIsShown
  <2>4. CandidateIsUnparked(id)'
    BY <2>1, <2>2, IdleResumerType DEF CandidateIsUnparked, Resuming
  <2>5. NeedsStart(id)' => HasStart(id)'
    BY <1>1, <2>1, <2>2, StartStays DEF HasStart, NeedsStart
  <2> QED
    BY <2>3, <2>4, <2>5 DEF WillStart
<1> QED
  BY <1>5, <1>6, <1>8, <1>9, <1>10

-----------------------------------------------------------------------------
\* What every command leaves alone, and what it may do to its row.
LEMMA StopKeepsRow ==
  ASSUME TypeOK, NEW id \in Ids, StopStep(id)
  PROVE  /\ UNCHANGED <<enq, watermark, resumer>>
         /\ id \in removing => id \in removing'
         /\ shown'[id] = shown[id] \/ shown'[id] # "queued"
         /\ registered'[id] \in {registered[id], 0}
         /\ epoch'[id] \in {epoch[id], <<"none", 0>>}
         /\ active'[id] \in {active[id], 0}
         /\ \A g \in Generations : worker'[id][g] \in MediaPcs \ {"activated"} =>
              worker[id][g] \in MediaPcs \ {"activated"}
<1> USE DEF StopStep, ResumeUnmapped, TransferEnds, ConnectionLost, PauseMapped, PauseUnmapped,
   PauseMedia, CoordinatorStop, FinishPause, Detach, FinishDetach, SubmitRemoval,
   RemovalRefused, RemoveStop, FinishRemove, StopMedia, ApplyCompletion
<1>1. UNCHANGED <<enq, watermark, resumer>> /\ (id \in removing => id \in removing')
  BY DEF lifecycleVars
<1>2. shown'[id] = shown[id] \/ shown'[id] # "queued"
  <2>1. CASE UNCHANGED shown
    BY <2>1
  <2>2. CASE \E status \in {"paused", "failed", "completed"} : Show(id, status)
    BY <2>2, CommandValues
  <2> QED
    BY <2>1, <2>2
<1>3. registered'[id] \in {registered[id], 0}
  BY DEF lifecycleVars, Unregister, UnregisterFor, TypeOK, LifecycleTypes
<1>4. epoch'[id] \in {epoch[id], <<"none", 0>>}
  BY CommandValues
<1>5. active'[id] \in {active[id], 0}
  BY DEF ReleasePermit, ReleasePermitFor, permitVars, TypeOK, PermitTypes
<1>6. \A g \in Generations : worker'[id][g] \in MediaPcs \ {"activated"} =>
              worker[id][g] \in MediaPcs \ {"activated"}
  <2>1. CASE UNCHANGED worker
    BY <2>1
  <2>2. CASE CoordinatorStop(id)
    BY <2>2, StopTypes DEF SetWorker, MediaPcs, RunnerPcs, TypeOK, ActorTypes, Gens
  <2> QED
    BY <2>1, <2>2
<1> QED
  BY <1>1, <1>2, <1>3, <1>4, <1>5, <1>6

\* A command that takes what a row waits for shows that it did, or removes the row.
LEMMA StopWillStart ==
  ASSUME RowFacts, NEW id \in Ids, StopStep(id)
  PROVE  WillStart(id)'
<1> USE DEF RowFacts, CarrierFacts, QueueFacts
<1>0. IsOwned(id) /\ WillStart(id)
  BY DEF OwnerInvariant, RowInvariant
<1>1. PublishedIsShown(id)'
  BY <1>0, StopKeepsRow, GenerationNumbers DEF WillStart, PublishedIsShown
<1>2. CandidateIsUnparked(id)'
  BY <1>0, StopKeepsRow DEF WillStart, CandidateIsUnparked, Resuming
<1> SUFFICES NeedsStart(id)' => HasStart(id)'
  BY <1>1, <1>2 DEF WillStart
<1>3. ASSUME shown'[id] # "queued" \/ id \in removing' PROVE NeedsStart(id)' => HasStart(id)'
  BY <1>3 DEF NeedsStart
<1>4. ASSUME active'[id] # 0 PROVE NeedsStart(id)' => HasStart(id)'
  BY <1>4, StopKeepsRow, StartStays DEF HasStart, Newest
<1>5. ASSUME UNCHANGED <<registered, active, xfer, epoch>>
      PROVE  NeedsStart(id)' => HasStart(id)'
  BY <1>5, StopKeepsRow, StartStays DEF HasStart, Newest, Resuming
<1>6. CASE ResumeUnmapped(id)
  BY <1>3, <1>6 DEF ResumeUnmapped, Resumable
<1>7. CASE TransferEnds(id) \/ ConnectionLost(id) \/ PauseMapped(id) \/ PauseUnmapped(id)
  <2>1. shown'[id] # "queued"
    BY <1>7, CommandValues DEF TransferEnds, ConnectionLost, PauseMapped, PauseUnmapped,
       ApplyCompletion
  <2> QED
    BY <1>3, <2>1
<1>8. ASSUME NEW op, StopMedia(id, op) PROVE NeedsStart(id)' => HasStart(id)'
  BY <1>4, <1>8 DEF StopMedia, IsMediaActive, permitVars
<1>9. CASE CoordinatorStop(id)
  BY <1>5, <1>9 DEF CoordinatorStop, lifecycleVars, permitVars
<1>10. CASE FinishPause(id) \/ FinishDetach(id)
  <2>1. shown'[id] = "paused" \/ UNCHANGED <<registered, active, xfer, epoch>>
    BY <1>10, CommandValues DEF FinishPause, FinishDetach
  <2> QED
    BY <1>3, <1>5, <2>1
<1>11. CASE Detach(id) /\ ~StopMedia(id, "detach")
  <2>1. shown'[id] = "paused"
    BY <1>11, CommandValues DEF Detach
  <2> QED
    BY <1>3, <2>1
<1>12. CASE SubmitRemoval(id) \/ RemovalRefused(id) \/ RemoveStop(id) \/ FinishRemove(id)
  <2>1. id \in removing'
    BY <1>0, <1>12 DEF SubmitRemoval, RemovalRefused, RemoveStop, FinishRemove, StopMedia,
       IsOwned, StopIsOwner
  <2> QED
    BY <1>3, <2>1
<1> QED
  BY <1>6, <1>7, <1>8, <1>9, <1>10, <1>11, <1>12 DEF StopStep, PauseMedia, Detach

-----------------------------------------------------------------------------
\* A step on another id.
LEMMA ElsewhereWillStart ==
  ASSUME RowFacts, NEW id \in Ids, Untouched(id),
         \A r \in Resumers : resumer[r].pc # "idle" /\ resumer[r].id = id
             => resumer'[r] = resumer[r]
  PROVE  WillStart(id)'
<1> USE DEF RowFacts, CarrierFacts, QueueFacts
<1>0. WillStart(id)
  BY DEF RowInvariant
<1> USE DEF Untouched, SameLifecycle, Kept, SameWorkers, SameTransfer, SameStop
<1>1. PublishedIsShown(id)'
  BY <1>0 DEF WillStart, PublishedIsShown
<1>2. CandidateIsUnparked(id)'
  BY <1>0 DEF WillStart, CandidateIsUnparked, Resuming, SameResumers
<1>3. \A r \in Resumers : Resuming(id, r) => Resuming(id, r)'
  BY DEF Resuming
<1>4. NeedsStart(id)' => HasStart(id)'
  BY <1>3, StartStays DEF HasStart, Newest
<1> QED
  BY <1>1, <1>2, <1>4 DEF WillStart

\* Without a system action and a shutdown nothing interrupts a resume.
LEMMA UninterruptedStep ==
  ASSUME "system" \notin Features, "shutdown" \notin Features, Uninterrupted, [Next]_vars
  PROVE  Uninterrupted'
<1>1. CASE EnvironmentStep
  <2>1. ~BeginSystemAction /\ ~ExitStep
    BY DEF BeginSystemAction, ExitStep
  <2>2. exit' = "open"
    BY <1>1, <2>1 DEF Uninterrupted, EnvironmentStep, SetCapacity, ApplyResize, RetireFreeSlots,
       ReplaceQueueLimits, BeginHold, EndHold, DaemonRecovers, EndSystemAction, environment
  <2>3. ~systemAction'
    BY <1>1, <2>1 DEF Uninterrupted, EnvironmentStep, SetCapacity, ApplyResize, RetireFreeSlots,
       ReplaceQueueLimits, BeginHold, EndHold, DaemonRecovers, EndSystemAction, environment
  <2> QED
    BY <2>2, <2>3 DEF Uninterrupted
<1>2. CASE ~EnvironmentStep
  BY <1>2, ActorsDoNotInterrupt DEF Uninterrupted
<1> QED
  BY <1>1, <1>2

\* Every step of the queue manager leaves every row that shows Queued its start.
LEMMA NextRows ==
  ASSUME "system" \notin Features, "shutdown" \notin Features, RowFacts
  PROVE  RowInvariant'
<1>0. TypeOK /\ ReservationsMatchPermits /\ [Next]_vars /\ Uninterrupted
  BY DEF RowFacts, CarrierFacts, QueueFacts, RowInvariant
<1> SUFFICES ASSUME NEW i \in Ids PROVE WillStart(i)'
  BY <1>0, UninterruptedStep DEF RowInvariant
<1>1. ASSUME Untouched(i), UNCHANGED resumer PROVE WillStart(i)'
  BY <1>1, ElsewhereWillStart
<1>2. ASSUME NEW id \in Ids, EnqueueStep(id) \/ StopStep(id) PROVE WillStart(i)'
  <2>1. CASE id = i
    BY <1>2, <2>1, EnqueueWillStart, StopWillStart
  <2>2. CASE id # i
    <3>1. UNCHANGED resumer
      BY <1>0, <1>2, StopKeepsRow DEF EnqueueStep, ReserveEnqueue, CancelEnqueue,
         AbandonEnqueue, CommitEnqueue, FinishCommit
    <3> QED
      BY <1>0, <1>1, <1>2, <2>2, <3>1, EnqueueElsewhere, StopElsewhere
  <2> QED
    BY <2>1, <2>2
<1>3. ASSUME NEW id \in Ids, NEW g \in Generations, TryAdmit(id, g) \/ WorkerStep(id, g)
      PROVE  WillStart(i)'
  <2>1. CASE id = i
    BY <1>3, <2>1, TryAdmitWillStart, WorkerWillStart
  <2>2. CASE id # i
    <3>1. UNCHANGED resumer
      BY <1>0, <1>3, WorkerKeepsRow DEF TryAdmit
    <3> QED
      BY <1>0, <1>1, <1>3, <2>2, <3>1, TryAdmitElsewhere, WorkerElsewhere
  <2> QED
    BY <2>1, <2>2
<1>4. ASSUME NEW r \in Resumers, NEW id \in Ids,
             \/ ResumePaused(id, r)
             \/ /\ resumer[r].id = id
                /\ StartResume(r) \/ ResumeReserve(r) \/ ResumeGiveUp(r) \/ ResumeUnpause(r)
                     \/ ResumeSettles(r)
      PROVE  WillStart(i)'
  <2>1. CASE id = i
    BY <1>4, <2>1, ResumeWillStart
  <2>2. CASE id # i
    <3>1. \A q \in Resumers : resumer[q].pc # "idle" /\ resumer[q].id = i
                 => resumer'[q] = resumer[q]
      BY <1>0, <1>4, <2>2 DEF ResumePaused, StartResume, ResumeReserve, ResumeGiveUp,
         ResumeUnpause, ResumeSettles, TypeOK, ActorTypes
    <3> QED
      BY <1>0, <1>4, <2>2, <3>1, ResumeElsewhere, ElsewhereWillStart
  <2> QED
    BY <2>1, <2>2
<1>5. ASSUME NEW r \in Resumers, ResumeStep(r) PROVE WillStart(i)'
  <2>1. resumer[r].id \in Ids
    BY <1>0, ResumerTypes
  <2> QED
    BY <1>4, <1>5, <2>1 DEF ResumeStep
<1>6. ASSUME EnvironmentStep \/ UNCHANGED vars PROVE WillStart(i)'
  <2>1. UNCHANGED resumer
    BY <1>6 DEF EnvironmentStep, SetCapacity, ApplyResize, RetireFreeSlots, ReplaceQueueLimits,
       BeginHold, EndHold, DaemonRecovers, BeginSystemAction, EndSystemAction, ExitStep, vars
  <2> QED
    BY <1>1, <1>6, <2>1, EnvironmentElsewhere
<1> QED
  BY <1>0, <1>2, <1>3, <1>5, <1>6 DEF Next

\* At the start no row shows Queued.
LEMMA InitRows == Init => RowInvariant
<1> SUFFICES ASSUME Init PROVE RowInvariant
  OBVIOUS
<1>1. Uninterrupted
  BY DEF Init, Uninterrupted
<1>2. ASSUME NEW id \in Ids PROVE WillStart(id)
  BY IdleResumerType DEF Init, WillStart, PublishedIsShown, CandidateIsUnparked, NeedsStart,
     Resuming
<1> QED
  BY <1>1, <1>2 DEF RowInvariant

\* What carries the registration of a row that shows Queued carries the row.
LEMMA StartIsCarried ==
  ASSUME QueueFacts, OwnerInvariant, CarrierInvariant, RowInvariant
  PROVE  QueuedIsCarried
<1> USE DEF QueueFacts
<1> SUFFICES ASSUME NEW id \in Ids, shown[id] = "queued", active[id] = 0, id \notin removing,
                    ~(cancelled[id] >= watermark[id])
             PROVE  Carried(id)
  BY DEF QueuedIsCarried
<1>1. cancelled[id] \in Nat /\ watermark[id] \in Nat /\ cancelled[id] < watermark[id]
  <2>1. cancelled[id] \in Nat /\ watermark[id] \in Nat
    BY NewestType, GenerationNumbers DEF TypeOK, LifecycleTypes
  <2> QED
    BY <2>1
<1>2. CASE enq[id].phase # "none"
  BY <1>2 DEF Carried
<1>3. CASE enq[id].phase = "none"
  <2>1. HasStart(id)
    BY <1>1, <1>3 DEF RowInvariant, WillStart, NeedsStart, Newest
  <2>2. CASE \E r \in Resumers : Resuming(id, r)
    BY <2>2 DEF Carried, Resuming
  <2>3. CASE registered[id] # 0 /\ xfer[id] = "none"
    <3>1. registered[id] = watermark[id]
      BY <2>3 DEF OwnerInvariant, IsOwned, RegisteredIsNewest
    <3>2. HasCarrier(id)
      BY <1>1, <2>3, <3>1 DEF CarrierInvariant, IsCarried, NeedsCarrier
    <3> QED
      BY <3>2 DEF HasCarrier, Carried
  <2> QED
    BY <2>1, <2>2, <2>3 DEF HasStart
<1> QED
  BY <1>2, <1>3

\* As long as neither a system action nor an exit request interrupts a resume, a row
\* that shows Queued is on its way: the user never waits for a download that nobody
\* will start.
THEOREM QueuedRowsAreCarried ==
  ASSUME "system" \notin Features, "shutdown" \notin Features
  PROVE  Spec => []QueuedIsCarried
<1>1. TypeOK /\ PermitInvariant /\ ReservationsMatchPermits => QueueFacts
  BY DEF QueueFacts
<1>2. QueueFacts /\ OwnerInvariant /\ CarrierInvariant /\ RowInvariant /\ TypeOK' /\ [Next]_vars
      => RowInvariant'
  BY NextRows DEF RowFacts, CarrierFacts
<1>3. QueueFacts /\ OwnerInvariant /\ CarrierInvariant /\ RowInvariant => QueuedIsCarried
  BY StartIsCarried
<1>4. ActionsAreChecked
  BY DEF ActionsAreChecked
<1>5. Spec => []CarrierInvariant
  BY <1>4, CarriersAreThere
<1> QED
  BY <1>1, <1>2, <1>3, <1>5, InitRows, TypeCorrect, PermitsAreConserved, ReservationsAreCorrect,
     OwnersAreCorrect, PTL DEF Spec
=============================================================================
