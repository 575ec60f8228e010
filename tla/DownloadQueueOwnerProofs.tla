-------------------- MODULE DownloadQueueOwnerProofs --------------------
(***************************************************************************)
(* Ownership in DownloadQueue, for every value of its constants.  A        *)
(* download has one registered lifecycle, one reservation, one parked      *)
(* permit, one control epoch and one transfer, each in a map of its own;   *)
(* the code compares generations where it takes one of them over.          *)
(*                                                                         *)
(* WorkHasOneOwner and OneRunnerPerDownload are not inductive: that no     *)
(* second worker finds the registration free depends on what each worker,  *)
(* resume worker and command found when it began.  OwnerInvariant states   *)
(* that, one conjunct per actor.  The proof takes a step in two halves:    *)
(* the ids it does not name are Untouched, and for the id it names there   *)
(* is one lemma per action or per group of actions that move alike.        *)
(***************************************************************************)
EXTENDS DownloadQueuePermitProofs

\* The newest generation a task, a worker or a command of the id may carry.
Newest(id) == IF enq[id].phase = "none" THEN watermark[id] ELSE enq[id].prev

\* No reservation, no daemon transfer and no removal of the id.
Unowned(id) == ownership[id] = NoOwner /\ xfer[id] = "none" /\ id \notin removing

\* What is registered is the newest lifecycle, and who owns a permit is registered.
RegisteredIsNewest(id) == registered[id] \in {0, watermark[id]}
OwnerIsRegistered(id) == ownership[id].gen # 0 => registered[id] = ownership[id].gen

\* A daemon transfer has a registration, and its permit while it runs.
TransferIsOwned(id) ==
  /\ xfer[id] # "none" => id \in AriaIds /\ registered[id] # 0
  /\ xfer[id] = "live" => active[id] # 0

\* An enqueue under way has reserved the registration, and the id has nothing else.
EnqueueIsAlone(id) == enq[id].phase # "none" => registered[id] = enq[id].gen /\ Unowned(id)

\* A pending task is registered, and nothing of its id has begun.
PendingIsAlone(id) ==
  \A g \in Generations : <<id, g>> \in pending => registered[id] = g /\ Unowned(id)

\* A worker that still holds its permit in hand owns the reservation, unless it was
\* retired or the download is being removed; once it has the lifecycle lock, nobody else
\* can have done either.
InHandIsOwner(id) == \A g \in Generations : worker[id][g] \in InHandPcs =>
  /\ registered[id] = g => /\ active[id] = 0
                           /\ xfer[id] = "none"
                           /\ id \notin removing => HasReservation(id, g)
  /\ worker[id][g] = "locked" => registered[id] = g /\ id \notin removing

\* A worker between its activation and aria2's answer owns the control epoch it began,
\* and no transfer is mapped for its id.
InFlightIsOwner(id) == \A g \in Generations : worker[id][g] \in InFlightPcs =>
  /\ id \in AriaIds
  /\ epoch[id] = <<"dispatch", g>> => active[id] = g /\ id \notin retriesAllowed
  /\ registered[id] = g => /\ xfer[id] = "none"
                           /\ id \notin removing => epoch[id] = <<"dispatch", g>>

\* A media worker owns the parked permit of its id for as long as it is registered, and
\* a running one is registered.
MediaIsOwner(id) == \A g \in Generations : worker[id][g] \in MediaPcs =>
  /\ id \in MediaIds
  /\ registered[id] = g => active[id] = g
  /\ worker[id][g] = "running" => registered[id] = g

\* A resume worker acts for a lifecycle that has no task and no dispatch worker; while it
\* owns the control epoch, the transfer is paused and registered under its generation.
ResumerIsOwner(id, r) ==
  resumer[r].pc # "idle" /\ resumer[r].id = id =>
    LET g == resumer[r].gen
        current == epoch[id] = <<"resume", r>> IN
    /\ g \in Generations /\ g <= Newest(id) /\ worker[id][g] = "idle" /\ <<id, g>> \notin pending
    /\ current => xfer[id] = "paused" /\ registered[id] = g
    /\ current /\ resumer[r].pc = "reserved" /\ ~resumer[r].cand => active[id] # 0
    /\ resumer[r].pc = "unpausing" => current /\ active[id] # 0 /\ ~RetriesCancelled(id)
ResumersAreOwners(id) == \A r \in Resumers : ResumerIsOwner(id, r)

\* A stop command keeps what it found: a removal its claim, a media stop the parked
\* permit until the runner has answered; a runner that was told to stop runs no more.
StopIsOwner(id) ==
  LET g == stopping[id].gen
      phase == stopping[id].phase IN
  /\ stopping[id].op = "remove" => id \in removing
  /\ phase \in {"drain", "cleanup"} => stopping[id].op = "remove" /\ xfer[id] = "none"
  /\ phase = "drain" /\ id \in MediaIds => active[id] = 0
  /\ phase = "cleanup" => ownership[id] = NoOwner
  /\ phase \in {"sent", "waiting", "acked"} =>
       /\ id \in MediaIds /\ g \in Generations /\ g <= Newest(id)
       /\ registered[id] = g => active[id] = g
  /\ phase \in {"waiting", "acked"} => worker[id][g] # "running"
  /\ phase = "waiting" => worker[id][g] \notin InHandPcs \cup {"activated", "published", "spawned"}

\* A row shown paused or failed has no worker and no published task.
BusyIsShown(id) ==
  id \notin removing /\ shown[id] \in {"paused", "failed"} =>
    \A g \in Generations : registered[id] = g =>
      worker[id][g] = "idle" /\ (<<id, g>> \in pending => enq[id].phase # "none")

\* Who owns what of an id, as the worker, the resumer or the command that acts next
\* relies on.
IsOwned(id) ==
  /\ RegisteredIsNewest(id) /\ OwnerIsRegistered(id) /\ TransferIsOwned(id)
  /\ EnqueueIsAlone(id) /\ PendingIsAlone(id)
  /\ InHandIsOwner(id) /\ InFlightIsOwner(id) /\ MediaIsOwner(id)
  /\ ResumersAreOwners(id) /\ StopIsOwner(id) /\ BusyIsShown(id)

\* The inductive invariant of this module.
OwnerInvariant == \A id \in Ids : IsOwned(id)

-----------------------------------------------------------------------------
\* What a step leaves of an id: its registration, its pending task, its workers, its
\* transfer, its resume workers, its stop command.
SameLifecycle(id) == /\ registered'[id] = registered[id] /\ watermark'[id] = watermark[id]
                     /\ enq'[id] = enq[id]
SamePending(id) == \A g \in Generations : <<id, g>> \in pending' <=> <<id, g>> \in pending
SameWorkers(id) == \A g \in Generations : worker'[id][g] = worker[id][g]
SameTransfer(id) == epoch'[id] = epoch[id] /\ xfer'[id] = xfer[id]
SameResumers(id) == \A r \in Resumers : resumer'[r].pc # "idle" /\ resumer'[r].id = id =>
                                          resumer'[r] = resumer[r]
SameStop(id) == /\ stopping'[id] = stopping[id] /\ (id \in removing' <=> id \in removing)
                /\ (id \in retriesAllowed' <=> id \in retriesAllowed)

\* A step that leaves everything of the id.
Untouched(id) ==
  /\ SameLifecycle(id) /\ SamePending(id) /\ Kept(id) /\ SameWorkers(id) /\ SameTransfer(id)
  /\ SameResumers(id) /\ SameStop(id)
  /\ shown'[id] = shown[id]

\* An id that a step leaves alone keeps its owner.
LEMMA UntouchedIsOwned ==
  ASSUME TypeOK, NEW id \in Ids, IsOwned(id), Untouched(id)
  PROVE  IsOwned(id)'
<1> USE DEF Untouched, SameLifecycle, SamePending, Kept, SameWorkers, SameTransfer, SameStop
<1> USE DEF IsOwned
<1>1. RegisteredIsNewest(id)' /\ OwnerIsRegistered(id)' /\ TransferIsOwned(id)'
  BY DEF RegisteredIsNewest, OwnerIsRegistered, TransferIsOwned
<1>2. EnqueueIsAlone(id)' /\ PendingIsAlone(id)'
  BY DEF EnqueueIsAlone, PendingIsAlone, Unowned
<1>3. InHandIsOwner(id)'
  BY DEF InHandIsOwner, HasReservation
<1>4. InFlightIsOwner(id)' /\ MediaIsOwner(id)'
  BY DEF InFlightIsOwner, MediaIsOwner
<1>5. ResumersAreOwners(id)'
  <2> SUFFICES ASSUME NEW r \in Resumers PROVE ResumerIsOwner(id, r)'
    BY DEF ResumersAreOwners
  <2>1. ResumerIsOwner(id, r)
    BY DEF ResumersAreOwners
  <2> QED
    BY <2>1, ResumerTypes DEF ResumerIsOwner, SameResumers, RetriesCancelled, Newest
<1>6. StopIsOwner(id)'
  BY StopTypes DEF StopIsOwner, Newest
<1>7. BusyIsShown(id)'
  BY DEF BusyIsShown
<1> QED
  BY <1>1, <1>2, <1>3, <1>4, <1>5, <1>6, <1>7

-----------------------------------------------------------------------------
\* A worker of one id is set; the workers of the others stay.
LEMMA SetWorkerElsewhere ==
  ASSUME TypeOK, NEW id \in Ids, NEW g, NEW pc, SetWorker(id, g, pc)
  PROVE  \A i \in Ids \ {id} : SameWorkers(i)
  BY DEF TypeOK, ActorTypes, SetWorker, SameWorkers

\* The steps of an enqueue leave every other id alone.
LEMMA EnqueueElsewhere ==
  ASSUME TypeOK, NEW id \in Ids, EnqueueStep(id), NEW i \in Ids \ {id}
  PROVE  Untouched(i)
<1> USE DEF Untouched, SameLifecycle, SamePending, Kept, SameWorkers, SameTransfer, SameStop,
   SameResumers, permitVars, environment
<1>1. CASE \E g \in Generations : ReserveEnqueue(id, g) \/ CancelEnqueue(id, g)
  BY <1>1 DEF ReserveEnqueue, CancelEnqueue, TypeOK, LifecycleTypes
<1>2. CASE AbandonEnqueue(id)
  BY <1>2 DEF AbandonEnqueue, RollbackEnqueue, Unregister, TypeOK, LifecycleTypes
<1>3. CASE CommitEnqueue(id)
  BY <1>3 DEF CommitEnqueue, RollbackEnqueue, Unregister, TypeOK, LifecycleTypes
<1>4. CASE FinishCommit(id)
  BY <1>4 DEF FinishCommit, RollbackEnqueue, Unregister, Show, TypeOK, LifecycleTypes, ResultTypes
<1> QED
  BY <1>1, <1>2, <1>3, <1>4 DEF EnqueueStep

\* An admission leaves every other id alone.
LEMMA TryAdmitElsewhere ==
  ASSUME TypeOK, NEW id \in Ids, NEW g \in Generations, TryAdmit(id, g), NEW i \in Ids \ {id}
  PROVE  Untouched(i)
  BY DEF Untouched, SameLifecycle, SamePending, Kept, SameWorkers, SameTransfer, SameStop,
     SameResumers, lifecycleVars, environment, TryAdmit, ReserveFor, SetWorker, TypeOK,
     LifecycleTypes, PermitTypes, ActorTypes

\* A dispatch worker leaves every other id alone: what it puts back, releases or
\* retires is entered under its own id.
LEMMA WorkerElsewhere ==
  ASSUME TypeOK, ReservationsMatchPermits, NEW id \in Ids, NEW g \in Generations, WorkerStep(id, g),
         NEW i \in Ids \ {id}
  PROVE  Untouched(i)
<1>1. \E pc : SetWorker(id, g, pc)
  BY DEF WorkerStep, DispatchHeld, DispatchCheck, Activate, RestoreInHand, StartAddUri,
     RestoreHeldBack, AddUriAccepted, AddUriRejected, DaemonUnreachable, RestoreUnreachable,
     PublishMedia, StartMediaRunner, RegisterRunner, EndRunner, FinishRunner
<1>2. SameWorkers(i)
  BY <1>1, SetWorkerElsewhere
<1>3. Kept(i)
  BY RestoreClears, ReleasePermitClears DEF WorkerStep, Kept, DispatchHeld, DispatchCheck,
     Activate, RestoreInHand, StartAddUri, RestoreHeldBack, AddUriAccepted, AddUriRejected,
     DaemonUnreachable, RestoreUnreachable, ReleaseReservation, ReleasePermitFor, PublishMedia,
     StartMediaRunner, RegisterRunner, EndRunner, FinishRunner, permitVars, TypeOK, PermitTypes
<1>4. SamePending(i)
  BY DEF WorkerStep, SamePending, DispatchHeld, DispatchCheck, Activate, RestoreInHand,
     StartAddUri, Restore, RestoreHeldBack, AddUriAccepted, AddUriRejected, DaemonUnreachable,
     RestoreUnreachable, PublishMedia, StartMediaRunner, RegisterRunner, EndRunner, FinishRunner
<1>5. SameLifecycle(i)
  BY DEF WorkerStep, SameLifecycle, DispatchHeld, DispatchCheck, Activate, RestoreInHand,
     StartAddUri, lifecycleVars, RestoreHeldBack, AddUriAccepted, AddUriRejected,
     DaemonUnreachable, RestoreUnreachable, Unregister, UnregisterFor, PublishMedia,
     StartMediaRunner, RegisterRunner, EndRunner, FinishRunner, TypeOK, LifecycleTypes
<1>6. SameTransfer(i) /\ shown'[i] = shown[i]
  BY DEF WorkerStep, SameTransfer, DispatchHeld, DispatchCheck, Activate, RestoreInHand,
     StartAddUri, EndEpoch, Show, RestoreHeldBack, AddUriAccepted, AddUriRejected,
     DaemonUnreachable, RestoreUnreachable, PublishMedia, StartMediaRunner, RegisterRunner,
     EndRunner, FinishRunner, TypeOK, ActorTypes, ResultTypes
<1>7. SameStop(i) /\ SameResumers(i)
  BY DEF WorkerStep, SameStop, SameResumers, DispatchHeld, DispatchCheck, Activate,
     RestoreInHand, StartAddUri, RestoreHeldBack, AddUriAccepted, AddUriRejected,
     DaemonUnreachable, RestoreUnreachable, PublishMedia, StartMediaRunner, RegisterRunner,
     EndRunner, FinishRunner
<1> QED
  BY <1>2, <1>3, <1>4, <1>5, <1>6, <1>7 DEF Untouched

\* A resume worker leaves every other id alone.
LEMMA ResumeElsewhere ==
  ASSUME TypeOK, NEW r \in Resumers, NEW id \in Ids,
         ResumePaused(id, r) \/ (resumer[r].id = id /\ (StartResume(r) \/ ResumeReserve(r)
             \/ ResumeGiveUp(r)
           \/ ResumeUnpause(r) \/ ResumeSettles(r))), NEW i \in Ids \ {id}
  PROVE  Untouched(i)
<1> USE DEF ResumePaused, StartResume, ResumeReserve, ResumeGiveUp, ResumeUnpause, ResumeSettles
<1>1. SameResumers(i)
  BY IdleResumerType DEF SameResumers, TypeOK, ActorTypes
<1>2. SameLifecycle(i) /\ SamePending(i)
  BY DEF SameLifecycle, SamePending, lifecycleVars, ApplyCompletion, Unregister, TypeOK,
     LifecycleTypes
<1>3. Kept(i)
  BY DEF Kept, ReserveFor, ReleaseReservation, ReleasePermit, ApplyCompletion, permitVars,
     TypeOK, PermitTypes
<1>4. SameWorkers(i) /\ SameStop(i)
  BY DEF SameWorkers, SameStop
<1>5. SameTransfer(i) /\ shown'[i] = shown[i]
  BY DEF SameTransfer, EndEpoch, Show, ApplyCompletion, TypeOK, ActorTypes, ResultTypes
<1> QED
  BY <1>1, <1>2, <1>3, <1>4, <1>5 DEF Untouched

\* A command leaves every other id alone.
LEMMA StopElsewhere ==
  ASSUME TypeOK, NEW id \in Ids, StopStep(id), NEW i \in Ids \ {id}
  PROVE  Untouched(i)
<1> USE DEF StopStep, ResumeUnmapped, TransferEnds, ConnectionLost, PauseMapped,
   ApplyCompletion, PauseUnmapped, PauseMedia, CoordinatorStop, FinishPause, Detach,
   FinishDetach, SubmitRemoval, RemovalRefused, RemoveStop, FinishRemove, StopMedia
<1>1. SameResumers(i)
  BY DEF SameResumers
<1>2. SameLifecycle(i)
  BY DEF SameLifecycle, lifecycleVars, Unregister, UnregisterFor, TypeOK, LifecycleTypes
<1>3. SamePending(i)
  BY DEF SamePending, DropPending
<1>4. Kept(i)
  BY DEF Kept, ReleasePermit, ReleasePermitFor, permitVars, TypeOK, PermitTypes
<1>5. SameWorkers(i)
  BY DEF SameWorkers, SetWorker, TypeOK, ActorTypes
<1>6. SameStop(i)
  BY DEF SameStop, BeginStop, EndStop, TypeOK, ActorTypes
<1>7. SameTransfer(i) /\ shown'[i] = shown[i]
  BY DEF SameTransfer, EndEpoch, Show, TypeOK, ActorTypes, ResultTypes
<1> QED
  BY <1>1, <1>2, <1>3, <1>4, <1>5, <1>6, <1>7 DEF Untouched

\* Resizes, limits, holds, system actions and exit requests touch no id.
LEMMA EnvironmentElsewhere ==
  ASSUME EnvironmentStep \/ UNCHANGED vars, NEW i \in Ids
  PROVE  Untouched(i)
  BY DEF EnvironmentStep, SetCapacity, ApplyResize, RetireFreeSlots, ReplaceQueueLimits,
     BeginHold, EndHold, DaemonRecovers, BeginSystemAction, EndSystemAction, ExitStep,
     permitVars, lifecycleVars, vars, Untouched, SameLifecycle, SamePending, Kept, SameWorkers,
     SameTransfer, SameStop, SameResumers

-----------------------------------------------------------------------------
\* What is known of an id that is owned, with the invariants proved before.
QueueFacts == TypeOK /\ PermitInvariant /\ ReservationsMatchPermits

\* Generations are positive numbers, so 0 can stand for none.
LEMMA GenerationNumbers ==
  /\ \A g \in Gens : g \in Nat
  /\ \A g \in Generations : g \in Nat /\ g # 0 /\ g \in Gens
  BY GenerationAssumption DEF Gens

\* The watermark and the newest generation are numbers.
LEMMA NewestType ==
  ASSUME TypeOK, NEW id \in Ids
  PROVE  Newest(id) \in Nat /\ watermark[id] \in Nat
<1>1. watermark[id] \in Gens /\ (enq[id].phase # "none" => enq[id].prev \in Gens)
  BY EnqueueTypes DEF TypeOK, LifecycleTypes
<1> QED
  BY <1>1, GenerationNumbers DEF Newest

\* A parked permit belongs to the registered generation of its id.
LEMMA ParkedIsRegistered ==
  ASSUME QueueFacts, NEW id \in Ids, IsOwned(id), active[id] # 0
  PROVE  /\ active[id] \in Generations /\ registered[id] = active[id]
         /\ ownership[id].gen = active[id] /\ ownership[id] # NoOwner
<1> USE DEF QueueFacts
<1>1. ReservationMatches(id) /\ active[id] \in Gens
  BY DEF ReservationsMatchPermits, TypeOK, PermitTypes
<1> QED
  BY <1>1 DEF IsOwned, OwnerIsRegistered, ReservationMatches, NoOwner, Gens

\* Without a reservation, or with one that is not active, no permit is parked.
LEMMA NoOwnerParksNothing ==
  ASSUME QueueFacts, NEW id \in Ids, ownership[id].gen = 0 \/ HasReservation(id, registered[id])
  PROVE  active[id] = 0
  BY DEF QueueFacts, ReservationsMatchPermits, ReservationMatches, HasReservation

\* Before its commit an enqueue has no task, worker or resume worker of its generation.
LEMMA EnqueueIsFresh ==
  ASSUME QueueFacts, NEW id \in Ids, IsOwned(id), enq[id].phase # "none"
  PROVE  /\ registered[id] = enq[id].gen /\ watermark[id] = enq[id].gen
         /\ enq[id].gen \in Generations /\ enq[id].prev \in Gens /\ enq[id].prev < enq[id].gen
         /\ active[id] = 0
         /\ \A g \in Generations : worker[id][g] # "idle" => g # registered[id]
               /\ worker[id][g] # "locked"
         /\ \A g \in Generations : <<id, g>> \in pending => g = registered[id]
               /\ enq[id].phase = "finalizing"
         /\ \A r \in Resumers : resumer[r].pc # "idle" /\ resumer[r].id = id =>
              epoch[id] # <<"resume", r>> /\ resumer[r].gen # registered[id]
                  /\ resumer[r].pc # "unpausing"
<1> USE DEF QueueFacts
<1>1. HasFreshGenerations(id)
  BY DEF PermitInvariant, GenerationsAreFresh
<1>2. /\ enq[id].gen \in Generations /\ enq[id].prev \in Gens
      /\ enq[id].gen \in Nat /\ enq[id].prev \in Nat
  BY EnqueueTypes, GenerationNumbers DEF TypeOK
<1>3. registered[id] = enq[id].gen /\ watermark[id] = enq[id].gen
             /\ enq[id].prev < enq[id].gen /\ Unowned(id)
  BY <1>1 DEF HasFreshGenerations, IsOwned, EnqueueIsAlone
<1>4. active[id] = 0
  BY <1>3, NoOwnerParksNothing DEF Unowned, NoOwner
<1>5. \A g \in Generations : worker[id][g] # "idle" => g # registered[id]
             /\ worker[id][g] # "locked"
  <2>1. ASSUME NEW g \in Generations, worker[id][g] # "idle" PROVE g # registered[id]
    <3>1. g <= enq[id].prev
      BY <1>1, <1>3, <2>1 DEF HasFreshGenerations, Occupied
    <3> QED
      BY <1>2, <1>3, <3>1, GenerationNumbers
  <2> QED
    BY <2>1 DEF IsOwned, InHandIsOwner, InHandPcs
<1>6. \A g \in Generations : <<id, g>> \in pending => g = registered[id]
             /\ enq[id].phase = "finalizing"
  BY <1>1, <1>2, <1>3 DEF HasFreshGenerations, Occupied, Gens, IsOwned, PendingIsAlone
<1>7. \A r \in Resumers : resumer[r].pc # "idle" /\ resumer[r].id = id =>
              epoch[id] # <<"resume", r>> /\ resumer[r].gen # registered[id]
                  /\ resumer[r].pc # "unpausing"
  <2> SUFFICES ASSUME NEW r \in Resumers, resumer[r].pc # "idle", resumer[r].id = id
               PROVE  epoch[id] # <<"resume", r>> /\ resumer[r].gen # registered[id]
                      /\ resumer[r].pc # "unpausing"
    OBVIOUS
  <2>1. ResumerIsOwner(id, r)
    BY DEF IsOwned, ResumersAreOwners
  <2>2. resumer[r].gen \in Generations /\ resumer[r].gen <= enq[id].prev
    BY <2>1 DEF ResumerIsOwner, Newest
  <2>3. resumer[r].gen # registered[id]
    BY <1>2, <1>3, <2>2, GenerationNumbers
  <2> QED
    BY <2>1, <2>3, <1>3, <1>4 DEF ResumerIsOwner, Unowned
<1> QED
  BY <1>2, <1>3, <1>4, <1>5, <1>6, <1>7

\* A dispatch in flight that holds the control epoch is the registered one.
LEMMA DispatchIsRegistered ==
  ASSUME QueueFacts, NEW id \in Ids, IsOwned(id), NEW g \in Generations,
         worker[id][g] \in InFlightPcs, epoch[id] = <<"dispatch", g>>
  PROVE  active[id] = g /\ registered[id] = g /\ xfer[id] = "none" /\ id \in AriaIds
         /\ ownership[id].gen = g
         /\ enq[id].phase = "none" /\ \A h \in Generations : <<id, h>> \notin pending
<1>1. active[id] = g /\ id \in AriaIds
  BY DEF IsOwned, InFlightIsOwner
<1>2. active[id] # 0
  BY <1>1, GenerationAssumption
<1>3. registered[id] = g /\ ownership[id].gen = g /\ ownership[id] # NoOwner
  BY <1>1, <1>2, ParkedIsRegistered
<1> QED
  BY <1>1, <1>3 DEF IsOwned, InFlightIsOwner, EnqueueIsAlone, PendingIsAlone, Unowned

\* The lifecycle of an id ends: nothing of it stays but workers that are told to stop.
Retires(id) ==
  /\ registered'[id] = 0 /\ Cleared(id) /\ xfer'[id] = "none" /\ enq'[id] = NoEnqueue
  /\ Newest(id) <= watermark'[id]
  /\ \A g \in Generations : <<id, g>> \notin pending'
  /\ \A g \in Generations : worker'[id][g] \in {worker[id][g], "idle"} \ {"locked", "running"}
  /\ epoch'[id] \in {epoch[id], <<"none", 0>>}
  /\ \A g \in Generations : worker'[id][g] \in InFlightPcs => epoch'[id] # <<"dispatch", g>>
  /\ \A r \in Resumers : resumer'[r].pc # "idle" /\ resumer'[r].id = id =>
       resumer'[r] = resumer[r] /\ resumer[r].pc # "unpausing" /\ epoch'[id] # <<"resume", r>>
  /\ stopping'[id] \in {stopping[id], NoStop} /\ (id \in removing' <=> id \in removing)
  /\ (id \in retriesAllowed' <=> id \in retriesAllowed)

\* Of an id whose lifecycle has ended nothing is left that could own anything.
LEMMA RetiredIsOwned ==
  ASSUME QueueFacts, TypeOK', NEW id \in Ids, IsOwned(id), Retires(id)
  PROVE  IsOwned(id)'
<1>0. registered'[id] = 0 /\ active'[id] = 0 /\ xfer'[id] = "none" /\ enq'[id] = NoEnqueue
      /\ ownership'[id] = NoOwner /\ \A g \in Generations : g # 0
  BY GenerationAssumption DEF Retires, Cleared
<1>1. RegisteredIsNewest(id)' /\ OwnerIsRegistered(id)' /\ TransferIsOwned(id)'
  BY <1>0 DEF RegisteredIsNewest, OwnerIsRegistered, TransferIsOwned, NoOwner
<1>2. EnqueueIsAlone(id)' /\ PendingIsAlone(id)'
  BY <1>0 DEF EnqueueIsAlone, PendingIsAlone, NoEnqueue, Retires
<1>3. InHandIsOwner(id)'
  BY <1>0 DEF InHandIsOwner, Retires
<1>4. InFlightIsOwner(id)' /\ MediaIsOwner(id)'
  BY <1>0 DEF IsOwned, InFlightIsOwner, MediaIsOwner, Retires, MediaPcs, InFlightPcs, RunnerPcs
<1>8. Newest(id) \in Nat /\ Newest(id)' \in Nat /\ Newest(id) <= Newest(id)'
  <2>1. Newest(id)' = watermark'[id]
    BY <1>0 DEF Newest, NoEnqueue
  <2>2. Newest(id) \in Nat /\ watermark'[id] \in Gens
    BY NewestType DEF QueueFacts, TypeOK, LifecycleTypes
  <2> QED
    BY <2>1, <2>2, GenerationNumbers DEF Retires
<1>5. ResumersAreOwners(id)'
  <2> SUFFICES ASSUME NEW r \in Resumers, resumer'[r].pc # "idle", resumer'[r].id = id
               PROVE ResumerIsOwner(id, r)'
    BY DEF ResumersAreOwners, ResumerIsOwner
  <2>1. ResumerIsOwner(id, r) /\ resumer'[r] = resumer[r]
    BY DEF ResumersAreOwners, IsOwned, Retires
  <2>2. resumer[r].gen \in Generations /\ resumer[r].gen <= Newest(id)'
               /\ worker'[id][resumer[r].gen] = "idle"
    <3>1. resumer[r].gen \in Generations /\ resumer[r].gen <= Newest(id)
                 /\ worker[id][resumer[r].gen] = "idle"
      BY <2>1 DEF ResumerIsOwner
    <3> QED
      BY <1>8, <3>1, GenerationNumbers DEF Retires
  <2> QED
    BY <2>1, <2>2 DEF ResumerIsOwner, Retires
<1>6. StopIsOwner(id)'
  <2>1. CASE stopping'[id] = NoStop
    BY <2>1 DEF StopIsOwner, NoStop
  <2>2. CASE stopping'[id] = stopping[id]
    <3>1. stopping[id].phase \in {"sent", "waiting", "acked"} =>
             stopping[id].gen \in Generations /\ stopping[id].gen <= Newest(id)'
      <4>1. stopping[id].phase \in {"sent", "waiting", "acked"} =>
             stopping[id].gen \in Generations /\ stopping[id].gen <= Newest(id)
        BY DEF IsOwned, StopIsOwner
      <4> QED
        BY <1>8, <4>1, GenerationNumbers
    <3> QED
      BY <1>0, <2>2, <3>1 DEF IsOwned, StopIsOwner, Retires, InHandPcs
  <2> QED
    BY <2>1, <2>2 DEF Retires
<1>7. BusyIsShown(id)'
  BY <1>0 DEF BusyIsShown
<1> QED
  BY <1>1, <1>2, <1>3, <1>4, <1>5, <1>6, <1>7 DEF IsOwned

-----------------------------------------------------------------------------
\* Setting the state of one worker of the id.
LEMMA SetWorkerValue ==
  ASSUME TypeOK, NEW id \in Ids, NEW g \in Generations, NEW pc, SetWorker(id, g, pc)
  PROVE  worker'[id][g] = pc /\ \A h \in Generations \ {g} : worker'[id][h] = worker[id][h]
  BY DEF TypeOK, ActorTypes, SetWorker

\* Of the id a step changes at most workers, permits and the row.
KeptBesidesWorkers(id) ==
  SameLifecycle(id) /\ SamePending(id) /\ SameTransfer(id) /\ SameResumers(id) /\ SameStop(id)

\* A step of the worker within one phase of its dispatch.
WorkerAdvances(id, g, pc) ==
  \/ /\ worker[id][g] \in InHandPcs /\ pc \in InHandPcs
     /\ pc = "locked" => registered[id] = g /\ id \notin removing
  \/ worker[id][g] \in InFlightPcs /\ pc \in InFlightPcs
  \/ /\ worker[id][g] \in MediaPcs /\ pc \in MediaPcs
     /\ pc \in {"activated", "published", "spawned", "running"} =>
          worker[id][g] \in {"activated", "published", "spawned"}
     /\ pc = "running" => /\ registered[id] = g
                          /\ ~(stopping[id].phase = "acked" /\ stopping[id].gen = g)

\* A worker that goes on within one phase still owns what it owned.
LEMMA AdvancedIsOwned ==
  ASSUME QueueFacts, NEW id \in Ids, NEW g \in Generations, IsOwned(id), KeptBesidesWorkers(id),
         Kept(id),
         NEW pc, SetWorker(id, g, pc), WorkerAdvances(id, g, pc),
         shown'[id] \in {shown[id], "downloading"}
  PROVE  IsOwned(id)'
<1> USE DEF KeptBesidesWorkers, SameLifecycle, SamePending, SameTransfer, SameStop, Kept
<1>0. worker'[id][g] = pc /\ \A h \in Generations \ {g} : worker'[id][h] = worker[id][h]
  BY SetWorkerValue DEF QueueFacts
<1>8. /\ worker[id][g] # "idle"
      /\ pc \in InHandPcs => worker[id][g] \in InHandPcs
      /\ pc \in InFlightPcs => worker[id][g] \in InFlightPcs
      /\ pc \in MediaPcs => worker[id][g] \in MediaPcs
      /\ pc \in InHandPcs \cup InFlightPcs \cup MediaPcs
  BY DEF WorkerAdvances, InHandPcs, InFlightPcs, MediaPcs, RunnerPcs
<1>1. RegisteredIsNewest(id)' /\ OwnerIsRegistered(id)' /\ TransferIsOwned(id)'
  BY DEF IsOwned, RegisteredIsNewest, OwnerIsRegistered, TransferIsOwned
<1>2. EnqueueIsAlone(id)' /\ PendingIsAlone(id)'
  BY DEF IsOwned, EnqueueIsAlone, PendingIsAlone, Unowned
<1>3. InHandIsOwner(id)'
  BY <1>0, <1>8 DEF IsOwned, InHandIsOwner, WorkerAdvances, HasReservation, InFlightPcs,
     MediaPcs, RunnerPcs
<1>4. InFlightIsOwner(id)' /\ MediaIsOwner(id)'
  BY <1>0, <1>8 DEF IsOwned, InFlightIsOwner, MediaIsOwner, WorkerAdvances, InFlightPcs, InHandPcs
<1>5. ResumersAreOwners(id)'
  <2> SUFFICES ASSUME NEW r \in Resumers, resumer'[r].pc # "idle", resumer'[r].id = id
               PROVE ResumerIsOwner(id, r)'
    BY DEF ResumersAreOwners, ResumerIsOwner
  <2>1. ResumerIsOwner(id, r) /\ resumer'[r] = resumer[r]
    BY DEF ResumersAreOwners, IsOwned, SameResumers
  <2>2. resumer[r].gen # g
    BY <1>8, <2>1 DEF ResumerIsOwner
  <2> QED
    BY <1>0, <2>1, <2>2 DEF ResumerIsOwner, RetriesCancelled, Newest
<1>6. StopIsOwner(id)'
  <2>1. StopIsOwner(id)
    BY DEF IsOwned
  <2>2. CASE stopping[id].gen = g
    BY <1>0, <1>8, <2>1, <2>2 DEF StopIsOwner, Newest, WorkerAdvances, InHandPcs, MediaPcs,
       InFlightPcs, RunnerPcs
  <2>3. CASE stopping[id].gen # g
    BY <1>0, <2>1, <2>3 DEF StopIsOwner, Newest
  <2> QED
    BY <2>2, <2>3
<1>7. BusyIsShown(id)'
  BY <1>0, <1>8 DEF IsOwned, BusyIsShown
<1> QED
  BY <1>1, <1>2, <1>3, <1>4, <1>5, <1>6, <1>7 DEF IsOwned

\* A worker that ends takes at most its own inactive reservation with it.
LEMMA EndedIsOwned ==
  ASSUME QueueFacts, NEW id \in Ids, NEW g \in Generations, IsOwned(id), KeptBesidesWorkers(id),
         SetWorker(id, g, "idle"), shown'[id] = shown[id],
         Kept(id) \/ (HasReservation(id, g) /\ Cleared(id))
  PROVE  IsOwned(id)'
<1> USE DEF KeptBesidesWorkers, SameLifecycle, SamePending, SameTransfer, SameStop
<1>0. worker'[id][g] = "idle" /\ \A h \in Generations \ {g} : worker'[id][h] = worker[id][h]
  BY SetWorkerValue DEF QueueFacts
<1>8. /\ active'[id] = active[id] /\ ownership'[id] \in {ownership[id], NoOwner}
      /\ \A h \in Generations \ {g} : HasReservation(id, h) => HasReservation(id, h)'
  <2>1. HasReservation(id, g) => active[id] = 0
    BY DEF QueueFacts, ReservationsMatchPermits, ReservationMatches, HasReservation
  <2> QED
    BY <2>1 DEF Kept, Cleared, HasReservation
<1>1. RegisteredIsNewest(id)' /\ OwnerIsRegistered(id)' /\ TransferIsOwned(id)'
  BY <1>8 DEF IsOwned, RegisteredIsNewest, OwnerIsRegistered, TransferIsOwned, NoOwner
<1>2. EnqueueIsAlone(id)' /\ PendingIsAlone(id)'
  BY <1>8 DEF IsOwned, EnqueueIsAlone, PendingIsAlone, Unowned
<1>3. InHandIsOwner(id)'
  BY <1>0, <1>8 DEF IsOwned, InHandIsOwner, InHandPcs
<1>4. InFlightIsOwner(id)' /\ MediaIsOwner(id)'
  BY <1>0, <1>8 DEF IsOwned, InFlightIsOwner, MediaIsOwner, InFlightPcs, MediaPcs, RunnerPcs
<1>5. ResumersAreOwners(id)'
  <2> SUFFICES ASSUME NEW r \in Resumers, resumer'[r].pc # "idle", resumer'[r].id = id
               PROVE ResumerIsOwner(id, r)'
    BY DEF ResumersAreOwners, ResumerIsOwner
  <2>1. ResumerIsOwner(id, r) /\ resumer'[r] = resumer[r]
    BY DEF ResumersAreOwners, IsOwned, SameResumers
  <2> QED
    BY <1>0, <1>8, <2>1 DEF ResumerIsOwner, RetriesCancelled, Newest
<1>6. StopIsOwner(id)'
  <2>1. StopIsOwner(id)
    BY DEF IsOwned
  <2>2. CASE stopping[id].gen = g
    BY <1>0, <1>8, <2>1, <2>2 DEF StopIsOwner, Newest, InHandPcs
  <2>3. CASE stopping[id].gen # g
    BY <1>0, <1>8, <2>1, <2>3 DEF StopIsOwner, Newest
  <2> QED
    BY <2>2, <2>3
<1>7. BusyIsShown(id)'
  BY <1>0, <1>8 DEF IsOwned, BusyIsShown
<1> QED
  BY <1>1, <1>2, <1>3, <1>4, <1>5, <1>6, <1>7 DEF IsOwned

\* A task that is put back was the registered one: its permit is free again before it is pending.
LEMMA PutBackIsOwned ==
  ASSUME QueueFacts, NEW id \in Ids, NEW g \in Generations, IsOwned(id),
         worker[id][g] \in InHandPcs \cup InFlightPcs, NEW n, Restore(id, g, n),
         SetWorker(id, g, "idle"), SameLifecycle(id), SameTransfer(id), SameResumers(id),
         SameStop(id), shown'[id] = shown[id]
  PROVE  IsOwned(id)'
<1> USE DEF SameLifecycle, SameTransfer, SameStop
<1>0. /\ worker'[id][g] = "idle" /\ \A h \in Generations \ {g} : worker'[id][h] = worker[id][h]
      /\ worker[id][g] # "idle" /\ g # 0
  BY SetWorkerValue, GenerationNumbers DEF QueueFacts, InHandPcs, InFlightPcs
<1>1. CASE ownership[id].gen # g
  <2>1. Kept(id) /\ SamePending(id)
    BY <1>1 DEF Restore, Kept, SamePending
  <2> QED
    BY <2>1, EndedIsOwned DEF KeptBesidesWorkers
<1>2. CASE ownership[id].gen = g
  <2>1. registered[id] = g /\ xfer[id] = "none" /\ enq[id].phase = "none"
    <3>1. registered[id] = g /\ xfer[id] = "none"
      BY <1>0, <1>2 DEF IsOwned, OwnerIsRegistered, InHandIsOwner, InFlightIsOwner
    <3> QED
      BY <1>0, <3>1, EnqueueIsFresh
  <2>2. Cleared(id)
    BY <1>2, RestoreClears DEF QueueFacts
  <2>3. /\ \A h \in Generations \ {g} : <<id, h>> \notin pending'
        /\ <<id, g>> \in pending' => id \notin removing
    <3>1. pending' \in {pending, pending \cup {<<id, g>>}}
          /\ (id \in removing => pending' = pending)
      BY <1>2 DEF Restore, StillWanted
    <3> QED
      BY <2>1, <3>1 DEF IsOwned, PendingIsAlone, Unowned
  <2>4. stopping[id].phase \in {"sent", "waiting", "acked"} => stopping[id].gen # g
    <3>1. id \in MediaIds => worker[id][g] \in InHandPcs /\ active[id] = 0
      BY <2>1 DEF IsOwned, InHandIsOwner, InFlightIsOwner, MediaIds
    <3> QED
      BY <1>0, <2>1, <3>1 DEF IsOwned, StopIsOwner
  <2> USE DEF Cleared
  <2>5. RegisteredIsNewest(id)' /\ OwnerIsRegistered(id)' /\ TransferIsOwned(id)'
    BY <2>1, <2>2 DEF IsOwned, RegisteredIsNewest, OwnerIsRegistered, TransferIsOwned, NoOwner
  <2>6. EnqueueIsAlone(id)' /\ PendingIsAlone(id)'
    BY <2>1, <2>2, <2>3 DEF EnqueueIsAlone, PendingIsAlone, Unowned
  <2>7. InHandIsOwner(id)'
    BY <1>0, <2>1, <2>2 DEF IsOwned, InHandIsOwner, InHandPcs
  <2>8. InFlightIsOwner(id)'
    <3>1. \A h \in Generations \ {g} : worker[id][h] \in InFlightPcs => epoch[id] # <<"dispatch",
                 h>>
      BY <2>1, DispatchIsRegistered
    <3> QED
      BY <1>0, <2>1, <3>1 DEF IsOwned, InFlightIsOwner, InFlightPcs
  <2>9. MediaIsOwner(id)'
    BY <1>0, <2>1 DEF IsOwned, MediaIsOwner, MediaPcs, RunnerPcs
  <2>10. ResumersAreOwners(id)'
    <3> SUFFICES ASSUME NEW r \in Resumers, resumer'[r].pc # "idle", resumer'[r].id = id
                 PROVE ResumerIsOwner(id, r)'
      BY DEF ResumersAreOwners, ResumerIsOwner
    <3>1. ResumerIsOwner(id, r) /\ resumer'[r] = resumer[r]
      BY DEF ResumersAreOwners, IsOwned, SameResumers
    <3>2. resumer[r].gen # g /\ epoch[id] # <<"resume", r>> /\ resumer[r].pc # "unpausing"
      BY <1>0, <2>1, <3>1 DEF ResumerIsOwner
    <3> QED
      BY <1>0, <2>3, <3>1, <3>2 DEF ResumerIsOwner, Newest
  <2>11. StopIsOwner(id)'
    <3>1. StopIsOwner(id) /\ Newest(id)' = Newest(id)
      BY DEF IsOwned, Newest
    <3>2. stopping[id].phase \in {"sent", "waiting", "acked"} =>
            worker'[id][stopping[id].gen] = worker[id][stopping[id].gen]
      BY <1>0, <2>4, <3>1 DEF StopIsOwner
    <3> QED
      BY <2>1, <2>2, <2>4, <3>1, <3>2 DEF StopIsOwner
  <2>12. BusyIsShown(id)'
    BY <1>0, <2>1 DEF IsOwned, BusyIsShown
  <2> QED
    BY <2>5, <2>6, <2>7, <2>8, <2>9, <2>10, <2>11, <2>12 DEF IsOwned
<1> QED
  BY <1>1, <1>2

\* The part of the id's state that the end of an addUri call does not touch.
LEMMA AddUriSettles ==
  ASSUME QueueFacts, NEW id \in Ids, NEW g \in Generations, IsOwned(id),
         worker[id][g] \in InFlightPcs, epoch[id] = <<"dispatch", g>>,
         SetWorker(id, g, "idle"), SameLifecycle(id), SamePending(id), SameResumers(id),
         SameStop(id), epoch'[id] = epoch[id],
         \/ id \notin removing /\ Kept(id) /\ xfer'[id] = "live" /\ shown'[id] = "downloading"
         \/ id \in removing /\ Cleared(id) /\ xfer'[id] = xfer[id] /\ shown'[id] = shown[id]
  PROVE  IsOwned(id)'
<1> USE DEF SameLifecycle, SamePending, SameStop, Kept, Cleared
<1>0. /\ worker'[id][g] = "idle" /\ \A h \in Generations \ {g} : worker'[id][h] = worker[id][h]
      /\ g # 0
  BY SetWorkerValue, GenerationNumbers DEF QueueFacts
<1>1. /\ active[id] = g /\ registered[id] = g /\ xfer[id] = "none" /\ id \in AriaIds
      /\ ownership[id].gen = g /\ enq[id].phase = "none" /\ \A h \in Generations : <<id,
            h>> \notin pending
  BY DispatchIsRegistered
<1>2. RegisteredIsNewest(id)' /\ OwnerIsRegistered(id)' /\ TransferIsOwned(id)'
  BY <1>0, <1>1 DEF IsOwned, RegisteredIsNewest, OwnerIsRegistered, TransferIsOwned, NoOwner
<1>3. EnqueueIsAlone(id)' /\ PendingIsAlone(id)'
  BY <1>1 DEF EnqueueIsAlone, PendingIsAlone
<1>4. InHandIsOwner(id)'
  BY <1>0, <1>1 DEF IsOwned, InHandIsOwner, InHandPcs
<1>5. InFlightIsOwner(id)' /\ MediaIsOwner(id)'
  BY <1>0, <1>1 DEF IsOwned, InFlightIsOwner, MediaIsOwner, InFlightPcs, MediaPcs, MediaIds,
     RunnerPcs
<1>6. ResumersAreOwners(id)'
  <2> SUFFICES ASSUME NEW r \in Resumers, resumer'[r].pc # "idle", resumer'[r].id = id
               PROVE ResumerIsOwner(id, r)'
    BY DEF ResumersAreOwners, ResumerIsOwner
  <2>1. ResumerIsOwner(id, r) /\ resumer'[r] = resumer[r] /\ epoch[id] # <<"resume", r>>
    BY DEF ResumersAreOwners, IsOwned, SameResumers
  <2>2. /\ resumer[r].gen \in Generations /\ worker'[id][resumer[r].gen] = "idle"
        /\ resumer[r].pc # "unpausing"
    BY <1>0, <2>1 DEF ResumerIsOwner
  <2> QED
    BY <1>1, <2>1, <2>2 DEF ResumerIsOwner, Newest
<1>7. StopIsOwner(id)'
  BY <1>1 DEF IsOwned, StopIsOwner, MediaIds
<1>8. BusyIsShown(id)'
  BY DEF IsOwned, BusyIsShown
<1> QED
  BY <1>2, <1>3, <1>4, <1>5, <1>6, <1>7, <1>8 DEF IsOwned

\* Activation parks the permit under the registered lifecycle, in flight or as media.
LEMMA ActivatedIsOwned ==
  ASSUME QueueFacts, NEW id \in Ids, NEW g \in Generations, IsOwned(id),
         worker[id][g] = "locked", ownership'[id] = [gen |-> g, active |-> TRUE], active'[id] = g,
         SameLifecycle(id), SamePending(id), SameResumers(id), SameStop(id),
         xfer'[id] = xfer[id], shown'[id] = shown[id],
         \/ /\ id \in AriaIds /\ epoch'[id] = <<"dispatch", g>> /\ SetWorker(id, g, "adding")
         \/ /\ id \notin AriaIds /\ epoch'[id] = epoch[id] /\ SetWorker(id, g, "activated")
  PROVE  IsOwned(id)'
<1> USE DEF SameLifecycle, SamePending, SameStop
<1>0. /\ worker'[id][g] \in {"adding", "activated"}
      /\ worker'[id][g] = "adding" <=> id \in AriaIds
      /\ \A h \in Generations \ {g} : worker'[id][h] = worker[id][h]
      /\ g # 0
  BY SetWorkerValue, GenerationNumbers DEF QueueFacts
<1>1. /\ registered[id] = g /\ id \notin removing /\ active[id] = 0 /\ xfer[id] = "none"
      /\ HasReservation(id, g) /\ enq[id].phase = "none"
      /\ \A h \in Generations : <<id, h>> \notin pending
  <2>1. registered[id] = g /\ id \notin removing /\ active[id] = 0 /\ xfer[id] = "none"
               /\ HasReservation(id, g)
    BY DEF IsOwned, InHandIsOwner, InHandPcs
  <2> QED
    BY <1>0, <2>1, EnqueueIsFresh DEF IsOwned, PendingIsAlone, Unowned, HasReservation, NoOwner
<1>2. RegisteredIsNewest(id)' /\ OwnerIsRegistered(id)' /\ TransferIsOwned(id)'
  BY <1>1 DEF IsOwned, RegisteredIsNewest, OwnerIsRegistered, TransferIsOwned
<1>3. EnqueueIsAlone(id)' /\ PendingIsAlone(id)'
  BY <1>1 DEF EnqueueIsAlone, PendingIsAlone
<1>4. InHandIsOwner(id)'
  BY <1>0, <1>1 DEF IsOwned, InHandIsOwner, InHandPcs
<1>5. InFlightIsOwner(id)'
  <2>1. ASSUME NEW h \in Generations \ {g}, worker[id][h] \in InFlightPcs
        PROVE  epoch[id] # <<"dispatch", h>> /\ id \in AriaIds
    BY <1>1, <2>1, DispatchIsRegistered DEF IsOwned, InFlightIsOwner
  <2>2. id \notin retriesAllowed'
    BY <1>1 DEF QueueFacts, TypeOK, ResultTypes
  <2> QED
    BY <1>0, <1>1, <2>1, <2>2 DEF InFlightIsOwner, InFlightPcs
<1>6. MediaIsOwner(id)'
  BY <1>0, <1>1 DEF IsOwned, MediaIsOwner, MediaIds, MediaPcs, RunnerPcs
<1>7. ResumersAreOwners(id)'
  <2> SUFFICES ASSUME NEW r \in Resumers, resumer'[r].pc # "idle", resumer'[r].id = id
               PROVE ResumerIsOwner(id, r)'
    BY DEF ResumersAreOwners, ResumerIsOwner
  <2>1. ResumerIsOwner(id, r) /\ resumer'[r] = resumer[r]
    BY DEF ResumersAreOwners, IsOwned, SameResumers
  <2>2. /\ resumer[r].gen \in Generations /\ resumer[r].gen # g
              /\ worker'[id][resumer[r].gen] = "idle"
        /\ resumer[r].pc # "unpausing" /\ epoch[id] # <<"resume", r>>
    BY <1>0, <1>1, <2>1 DEF ResumerIsOwner
  <2>3. epoch'[id] # <<"resume", r>>
    BY <2>2
  <2> QED
    BY <1>1, <2>1, <2>2, <2>3 DEF ResumerIsOwner, Newest
<1>8. StopIsOwner(id)'
  <2>1. StopIsOwner(id) /\ Newest(id)' = Newest(id)
    BY DEF IsOwned, Newest
  <2>2. stopping[id].phase \in {"sent", "waiting", "acked"} => stopping[id].gen # g
    BY <1>0, <1>1, <2>1 DEF StopIsOwner
  <2>3. stopping[id].phase \notin {"drain", "cleanup"} /\ stopping[id].op # "remove"
    BY <1>1, <2>1 DEF StopIsOwner
  <2>4. stopping[id].phase \in {"sent", "waiting", "acked"} =>
          worker'[id][stopping[id].gen] = worker[id][stopping[id].gen]
    BY <1>0, <2>1, <2>2 DEF StopIsOwner
  <2> QED
    BY <1>1, <2>1, <2>2, <2>3, <2>4 DEF StopIsOwner
<1>9. BusyIsShown(id)'
  <2>1. shown[id] \notin {"paused", "failed"}
    BY <1>1 DEF IsOwned, BusyIsShown
  <2> QED
    BY <2>1 DEF BusyIsShown
<1> QED
  BY <1>2, <1>3, <1>4, <1>5, <1>6, <1>7, <1>8, <1>9 DEF IsOwned

\* Nothing but the worker that ends keeps a lifecycle busy.
LEMMA NoEnqueueValue ==
  ASSUME TypeOK, NEW id \in Ids, enq[id].phase = "none"
  PROVE  enq[id] = NoEnqueue
  BY DEF TypeOK, LifecycleTypes

\* Dispatch workers.
LEMMA WorkerIsOwned ==
  ASSUME QueueFacts, TypeOK', NEW id \in Ids, NEW g \in Generations, IsOwned(id), WorkerStep(id, g)
  PROVE  IsOwned(id)'
<1> USE DEF QueueFacts
<1>17. SameResumers(id) /\ SameStop(id) /\ watermark'[id] = watermark[id] /\ enq'[id] = enq[id]
  BY DEF WorkerStep, SameStop, SameResumers, DispatchHeld, DispatchCheck, Activate,
     RestoreInHand, StartAddUri, RestoreHeldBack, AddUriAccepted, AddUriRejected,
     DaemonUnreachable, RestoreUnreachable, PublishMedia, StartMediaRunner, RegisterRunner,
     EndRunner, FinishRunner, lifecycleVars
<1>16. g # 0 /\ g \in Gens
  BY GenerationNumbers
<1> USE DEF KeptBesidesWorkers, SameLifecycle, SamePending, SameTransfer, Kept, lifecycleVars,
   permitVars
<1> USE DEF InHandPcs, InFlightPcs, MediaPcs, RunnerPcs
<1>1. CASE DispatchHeld(id, g)
  BY <1>1, <1>17, AdvancedIsOwned DEF DispatchHeld, WorkerAdvances
<1>2. CASE DispatchCheck(id, g)
  <2>1. ASSUME SetWorker(id, g, "idle"), ReleaseReservation(id, g, 1) PROVE IsOwned(id)'
    <3>1. Kept(id) \/ (HasReservation(id, g) /\ Cleared(id))
      BY <1>2, <2>1, ReleaseReservationClears DEF DispatchCheck, ReleaseReservation
    <3> QED
      BY <1>2, <1>17, <2>1, <3>1, EndedIsOwned DEF DispatchCheck
  <2>2. ASSUME NEW pc \in {"restoring", "locked"}, SetWorker(id, g, pc), UNCHANGED ownership,
               pc = "locked" => registered[id] = g /\ id \notin removing
        PROVE  IsOwned(id)'
    BY <1>2, <1>17, <2>2, AdvancedIsOwned DEF DispatchCheck, WorkerAdvances
  <2> QED
    BY <1>2, <2>1, <2>2 DEF DispatchCheck
<1>3. CASE Activate(id, g)
  <2>1. CASE CanActivate(id, g)
    <3>1. ownership'[id] = [gen |-> g, active |-> TRUE] /\ active'[id] = g
      <4>1. ownership[id] = [gen |-> g, active |-> FALSE]
        BY <2>1 DEF CanActivate, HasReservation
      <4>2. ownership'[id] = [ownership[id] EXCEPT !.active = TRUE] /\ active'[id] = g
        BY <1>3, <2>1 DEF Activate, TypeOK, PermitTypes
      <4> QED
        BY <4>1, <4>2, ActivatedRecord, Zenon
    <3>2. \/ /\ id \in AriaIds /\ epoch'[id] = <<"dispatch", g>> /\ SetWorker(id, g, "adding")
          \/ /\ id \notin AriaIds /\ epoch'[id] = epoch[id] /\ SetWorker(id, g, "activated")
      BY <1>3, <2>1 DEF Activate, TypeOK, ActorTypes
    <3> QED
      BY <1>3, <1>17, <3>1, <3>2, ActivatedIsOwned DEF Activate
  <2>2. CASE ~CanActivate(id, g)
    <3>1. Kept(id) \/ (HasReservation(id, g) /\ Cleared(id))
      BY <1>3, <2>2, ReleaseReservationClears DEF Activate, ReleaseReservation
    <3> QED
      BY <1>3, <1>17, <2>2, <3>1, EndedIsOwned DEF Activate
  <2> QED
    BY <2>1, <2>2
<1>4. CASE RestoreInHand(id, g) \/ RestoreHeldBack(id, g)
  BY <1>4, <1>17, PutBackIsOwned DEF RestoreInHand, RestoreHeldBack
<1>5. CASE StartAddUri(id, g)
  <2>1. PICK pc \in {"heldBack", "rpc"} : SetWorker(id, g, pc)
    BY <1>5 DEF StartAddUri
  <2> QED
    BY <1>5, <1>17, <2>1, AdvancedIsOwned DEF StartAddUri, WorkerAdvances
<1>6. CASE AddUriAccepted(id, g)
  <2>1. CASE ~IsCurrentDispatch(id, g)
    BY <1>6, <1>17, <2>1, EndedIsOwned DEF AddUriAccepted
  <2>4. IsCurrentDispatch(id, g) /\ ~RetriesCancelled(id) => id \notin removing
    BY <1>6 DEF AddUriAccepted, IsCurrentDispatch, RetriesCancelled, IsOwned, InFlightIsOwner
  <2>2. CASE IsCurrentDispatch(id, g) /\ ~RetriesCancelled(id)
    BY <1>6, <1>17, <2>2, <2>4, AddUriSettles DEF AddUriAccepted, IsCurrentDispatch, Show, TypeOK,
       ResultTypes
  <2>3. CASE IsCurrentDispatch(id, g) /\ RetriesCancelled(id)
    <3>1. Cleared(id)
      BY <1>6, <2>3, ReleasePermitClears DEF AddUriAccepted
    <3> QED
      BY <1>6, <1>17, <2>3, <3>1, AddUriSettles DEF AddUriAccepted, IsCurrentDispatch,
         RetriesCancelled
  <2> QED
    BY <2>1, <2>2, <2>3
<1>7. CASE AddUriRejected(id, g)
  <2>1. CASE ~IsCurrentDispatch(id, g)
    BY <1>7, <1>17, <2>1, EndedIsOwned DEF AddUriRejected
  <2>2. CASE IsCurrentDispatch(id, g)
    <3>1. /\ worker[id][g] = "rpc" /\ epoch[id] = <<"dispatch", g>> /\ SetWorker(id, g, "idle")
          /\ registered'[id] = 0 /\ epoch'[id] = <<"none", 0>>
          /\ ReleasePermit(id) /\ UNCHANGED <<pending, xfer>>
      BY <1>7, <2>2 DEF AddUriRejected, IsCurrentDispatch, EndEpoch, Unregister, TypeOK,
         ActorTypes, LifecycleTypes
    <3>2. /\ registered[id] = g /\ xfer[id] = "none" /\ id \in AriaIds /\ enq[id].phase = "none"
          /\ active[id] = g /\ \A h \in Generations : <<id, h>> \notin pending
      BY <3>1, DispatchIsRegistered
    <3>3. Cleared(id) /\ enq[id] = NoEnqueue
      BY <3>1, <3>2, ReleasePermitClears, NoEnqueueValue
    <3>4. \A h \in Generations : worker'[id][h] \in {worker[id][h], "idle"} \ {"locked", "running"}
      BY <1>16, <3>1, <3>2, SetWorkerValue DEF IsOwned, InHandIsOwner, MediaIsOwner, MediaIds
    <3>5. \A r \in Resumers : resumer'[r].pc # "idle" /\ resumer'[r].id = id =>
                                resumer'[r] = resumer[r] /\ resumer[r].pc # "unpausing"
      BY <1>17, <3>2 DEF IsOwned, ResumersAreOwners, ResumerIsOwner, SameResumers
    <3>6. Retires(id)
      BY <1>17, <3>1, <3>2, <3>3, <3>4, <3>5, NewestType DEF Retires, Newest, SameStop
    <3> QED
      BY <3>6, RetiredIsOwned
  <2> QED
    BY <2>1, <2>2
<1>8. CASE DaemonUnreachable(id, g)
  BY <1>8, <1>17, AdvancedIsOwned DEF DaemonUnreachable, WorkerAdvances
<1>9. CASE RestoreUnreachable(id, g)
  BY <1>9, <1>17, PutBackIsOwned, EndedIsOwned DEF RestoreUnreachable
<1>10. CASE PublishMedia(id, g)
  BY <1>10, <1>17, AdvancedIsOwned DEF PublishMedia, WorkerAdvances, Show, TypeOK, ResultTypes
<1>11. ASSUME worker[id][g] \in MediaPcs, SetWorker(id, g, "idle"), ReleasePermitFor(id, g),
              UnregisterFor(id, g), UNCHANGED <<pending, epoch, xfer>>,
              registered[id] # g => shown'[id] = shown[id]
       PROVE  IsOwned(id)'
  <2>1. CASE registered[id] # g
    <3>1. ownership[id].gen # g /\ active[id] # g
      BY <1>16, <2>1, ParkedIsRegistered DEF IsOwned, OwnerIsRegistered
    <3> QED
      BY <1>11, <1>17, <2>1, <3>1, EndedIsOwned DEF ReleasePermitFor, UnregisterFor
  <2>2. CASE registered[id] = g
    <3>1. active[id] = g /\ id \in MediaIds
      BY <1>11, <2>2 DEF IsOwned, MediaIsOwner
    <3>2. ownership[id].gen = g /\ ownership[id] # NoOwner /\ xfer[id] = "none"
      BY <1>16, <3>1, ParkedIsRegistered DEF IsOwned, TransferIsOwned, MediaIds
    <3>3. Cleared(id) /\ registered'[id] = 0
      BY <1>11, <1>16, <2>2, <3>1, <3>2 DEF ReleasePermitFor, UnregisterFor, Cleared, TypeOK,
         PermitTypes, LifecycleTypes
    <3>4. enq[id] = NoEnqueue /\ \A h \in Generations : <<id, h>> \notin pending
      BY <3>2, NoEnqueueValue DEF IsOwned, EnqueueIsAlone, PendingIsAlone, Unowned
    <3>5. \A h \in Generations : worker'[id][h] \in {worker[id][h], "idle"} \ {"locked", "running"}
      BY <1>11, <2>2, SetWorkerValue DEF IsOwned, InHandIsOwner, MediaIsOwner
    <3>6. \A r \in Resumers : resumer'[r].pc # "idle" /\ resumer'[r].id = id =>
                                resumer'[r] = resumer[r] /\ resumer[r].pc # "unpausing"
                                    /\ epoch[id] # <<"resume", r>>
      BY <1>17, <3>2 DEF IsOwned, ResumersAreOwners, ResumerIsOwner, SameResumers
    <3>7. \A h \in Generations : worker'[id][h] \notin InFlightPcs
      BY <3>1, <3>5 DEF IsOwned, InFlightIsOwner, MediaIds
    <3>8. Retires(id)
      BY <1>11, <1>17, <3>2, <3>3, <3>4, <3>5, <3>6, <3>7, NewestType DEF Retires, Newest,
         SameStop, NoEnqueue
    <3> QED
      BY <3>8, RetiredIsOwned
  <2> QED
    BY <2>1, <2>2
<1>12. CASE StartMediaRunner(id, g)
  <2>1. CASE SetWorker(id, g, "spawned") /\ UNCHANGED <<registered, ownership, active>>
    BY <1>12, <1>17, <2>1, AdvancedIsOwned DEF StartMediaRunner, WorkerAdvances
  <2> QED
    BY <1>11, <1>12, <2>1 DEF StartMediaRunner
<1>13. CASE RegisterRunner(id, g)
  <2>1. CASE RunnerStart(id, g) = "running"
    <3>1. registered[id] = g /\ ~(stopping[id].phase = "acked" /\ stopping[id].gen = g)
      BY <2>1 DEF RunnerStart
    <3> QED
      BY <1>13, <1>17, <2>1, <3>1, AdvancedIsOwned DEF RegisterRunner, WorkerAdvances
  <2>2. CASE RunnerStart(id, g) \in {"finished", "aborted"}
    BY <1>13, <1>17, <2>2, AdvancedIsOwned DEF RegisterRunner, WorkerAdvances
  <2>3. RunnerStart(id, g) \in {"running", "finished", "aborted"}
    BY DEF RunnerStart
  <2> QED
    BY <2>1, <2>2, <2>3
<1>14. CASE EndRunner(id, g)
  BY <1>14, <1>17, AdvancedIsOwned DEF EndRunner, WorkerAdvances
<1>15. CASE FinishRunner(id, g)
  <2>1. registered[id] # g => shown' = shown
    BY <1>15 DEF FinishRunner
  <2> QED
    BY <1>11, <1>15, <2>1 DEF FinishRunner
<1> QED
  BY <1>1, <1>2, <1>3, <1>4, <1>5, <1>6, <1>7, <1>8, <1>9, <1>10, <1>12, <1>13, <1>14, <1>15 DEF
     WorkerStep

-----------------------------------------------------------------------------
\* A rollback takes back what the reservation of its generation has set.
LEMMA RolledBackIsOwned ==
  ASSUME QueueFacts, TypeOK', NEW id \in Ids, IsOwned(id), enq[id].phase # "none",
         RollbackEnqueue(id, enq[id].gen, enq[id].prev), enq' = [enq EXCEPT ![id] = NoEnqueue],
         pending' = pending \ {<<id, enq[id].gen>>} \/ (UNCHANGED pending
             /\ enq[id].phase = "reserved"),
         UNCHANGED <<permitVars, worker, epoch, xfer, resumer, stopping, removing, retriesAllowed>>
  PROVE  IsOwned(id)'
<1> USE DEF QueueFacts
<1>1. /\ registered[id] = enq[id].gen /\ watermark[id] = enq[id].gen /\ active[id] = 0
      /\ \A g \in Generations : worker[id][g] # "idle" => g # registered[id]
            /\ worker[id][g] # "locked"
      /\ \A g \in Generations : <<id, g>> \in pending => g = registered[id]
            /\ enq[id].phase = "finalizing"
      /\ \A r \in Resumers : resumer[r].pc # "idle" /\ resumer[r].id = id =>
              epoch[id] # <<"resume", r>> /\ resumer[r].pc # "unpausing"
  BY EnqueueIsFresh
<1>2. registered'[id] = 0 /\ watermark'[id] = enq[id].prev /\ enq'[id] = NoEnqueue
  BY <1>1 DEF RollbackEnqueue, Unregister, TypeOK, LifecycleTypes
<1>3. ownership[id] = NoOwner /\ xfer[id] = "none"
  BY DEF IsOwned, EnqueueIsAlone, Unowned
<1>4. \A g \in Generations : <<id, g>> \notin pending'
  BY <1>1
<1>5. \A g \in Generations : /\ worker[id][g] \notin {"locked", "running"}
                             /\ worker[id][g] \in InFlightPcs => epoch[id] # <<"dispatch", g>>
  <2> TAKE g \in Generations
  <2>1. worker[id][g] \in InFlightPcs => epoch[id] # <<"dispatch", g>>
    BY DispatchIsRegistered
  <2> QED
    BY <1>1, <2>1 DEF IsOwned, MediaIsOwner, MediaPcs, RunnerPcs
<1>6. Newest(id) = watermark'[id] /\ watermark'[id] \in Nat
  BY <1>2, NewestType DEF Newest
<1>7. Retires(id)
  BY <1>1, <1>2, <1>3, <1>4, <1>5, <1>6 DEF Retires, Cleared, permitVars
<1> QED
  BY <1>7, RetiredIsOwned

\* The enqueue command.
LEMMA EnqueueIsOwned ==
  ASSUME QueueFacts, TypeOK', NEW id \in Ids, IsOwned(id), EnqueueStep(id)
  PROVE  IsOwned(id)'
<1> USE DEF QueueFacts
<1>1. CASE \E g \in Generations : CancelEnqueue(id, g)
  <2>1. Untouched(id)
    BY <1>1 DEF CancelEnqueue, Untouched, SameLifecycle, SamePending, Kept, SameWorkers,
       SameTransfer, SameResumers, SameStop, permitVars
  <2> QED
    BY <2>1, UntouchedIsOwned
<1>2. ASSUME NEW g \in Generations, ReserveEnqueue(id, g) PROVE IsOwned(id)'
  <2> USE DEF permitVars
  <2>1. /\ registered'[id] = g /\ watermark'[id] = g
        /\ enq'[id] = [phase |-> "reserved", gen |-> g, prev |-> watermark[id]]
        /\ registered[id] = 0 /\ watermark[id] < g /\ enq[id].phase = "none" /\ id \notin removing
        /\ UNCHANGED <<pending, ownership, active, worker, epoch, xfer, resumer, stopping, shown,
              removing, retriesAllowed>>
    BY <1>2 DEF ReserveEnqueue, LockFree, ControlFree, TypeOK, LifecycleTypes
  <2>2. ownership[id] = NoOwner /\ xfer[id] = "none" /\ active[id] = 0
    <3>1. ownership[id].gen = 0 /\ xfer[id] = "none"
      BY <2>1 DEF IsOwned, OwnerIsRegistered, TransferIsOwned
    <3>2. active[id] = 0 /\ ~ownership[id].active
      BY <3>1, NoOwnerParksNothing DEF ReservationsMatchPermits, ReservationMatches
    <3> QED
      BY <3>1, <3>2 DEF NoOwner, TypeOK, PermitTypes
  <2>3. \A h \in Generations : worker[id][h] # "idle" \/ <<id, h>> \in pending => h # g
    <3>1. HasFreshGenerations(id)
      BY DEF PermitInvariant, GenerationsAreFresh
    <3>2. \A h \in Generations : worker[id][h] # "idle" \/ <<id,
                 h>> \in pending => h <= watermark[id]
      BY <2>1, <3>1 DEF HasFreshGenerations, Occupied
    <3> QED
      BY <2>1, <3>2, NewestType, GenerationNumbers
  <2>4. \A h \in Generations : <<id, h>> \notin pending
    BY <2>1, GenerationNumbers DEF IsOwned, PendingIsAlone
  <2>5. Newest(id)' = Newest(id) /\ Newest(id) = watermark[id] /\ Newest(id) \in Nat
    BY <2>1, NewestType DEF Newest
  <2>6. RegisteredIsNewest(id)' /\ OwnerIsRegistered(id)' /\ TransferIsOwned(id)'
    BY <2>1, <2>2 DEF RegisteredIsNewest, OwnerIsRegistered, TransferIsOwned, NoOwner
  <2>7. EnqueueIsAlone(id)' /\ PendingIsAlone(id)'
    BY <2>1, <2>2, <2>4 DEF EnqueueIsAlone, PendingIsAlone, Unowned
  <2>8. InHandIsOwner(id)' /\ InFlightIsOwner(id)' /\ MediaIsOwner(id)'
    <3>1. \A h \in Generations : worker[id][h] # "idle" => registered'[id] # h /\ registered[id] # h
      BY <2>1, <2>3, GenerationNumbers
    <3> QED
      BY <2>1, <3>1 DEF IsOwned, InHandIsOwner, InFlightIsOwner, MediaIsOwner, InHandPcs,
         InFlightPcs, MediaPcs, RunnerPcs
  <2>9. ResumersAreOwners(id)'
    <3> SUFFICES ASSUME NEW r \in Resumers, resumer[r].pc # "idle", resumer[r].id = id
                 PROVE ResumerIsOwner(id, r)'
      BY <2>1 DEF ResumersAreOwners, ResumerIsOwner
    <3>1. ResumerIsOwner(id, r)
      BY DEF ResumersAreOwners, IsOwned
    <3>2. epoch[id] # <<"resume", r>> /\ resumer[r].pc # "unpausing"
      BY <2>2, <3>1 DEF ResumerIsOwner
    <3> QED
      BY <2>1, <2>5, <3>1, <3>2 DEF ResumerIsOwner
  <2>10. StopIsOwner(id)'
    <3>1. StopIsOwner(id)
      BY DEF IsOwned
    <3>2. stopping[id].phase \in {"sent", "waiting", "acked"} => stopping[id].gen # g
      BY <2>1, <2>5, <3>1, GenerationNumbers DEF StopIsOwner
    <3> QED
      BY <2>1, <2>5, <3>1, <3>2 DEF StopIsOwner
  <2>11. BusyIsShown(id)'
    BY <2>1, <2>3 DEF BusyIsShown
  <2> QED
    BY <2>6, <2>7, <2>8, <2>9, <2>10, <2>11 DEF IsOwned
<1>3. CASE AbandonEnqueue(id)
  BY <1>3, RolledBackIsOwned DEF AbandonEnqueue
<1>4. ASSUME enq[id].phase # "none", registered[id] = enq[id].gen,
             \/ /\ enq'[id].phase = "finalizing" /\ enq'[id].gen = enq[id].gen
                   /\ enq'[id].prev = enq[id].prev
                /\ pending' = pending \cup {<<id, enq[id].gen>>}
                /\ UNCHANGED shown
             \/ enq'[id] = NoEnqueue /\ UNCHANGED pending /\ shown'[id] = "queued",
             UNCHANGED <<registered, watermark, permitVars, worker, epoch, xfer, resumer,
                 stopping, removing, retriesAllowed>>
      PROVE  IsOwned(id)'
  <2> USE DEF permitVars
  <2>1. /\ registered[id] = enq[id].gen /\ watermark[id] = enq[id].gen
              /\ enq[id].gen \in Generations
        /\ active[id] = 0 /\ enq[id].prev < enq[id].gen /\ enq[id].prev \in Gens
        /\ \A g \in Generations : worker[id][g] # "idle" => g # registered[id]
              /\ worker[id][g] # "locked"
        /\ \A r \in Resumers : resumer[r].pc # "idle" /\ resumer[r].id = id =>
             resumer[r].gen # registered[id] /\ epoch[id] # <<"resume",
                 r>> /\ resumer[r].pc # "unpausing"
    BY <1>4, EnqueueIsFresh
  <2>2. Unowned(id)
    BY <1>4 DEF IsOwned, EnqueueIsAlone
  <2>3. Newest(id) \in Nat /\ Newest(id)' \in Nat /\ Newest(id) <= Newest(id)'
    <3>1. Newest(id) = enq[id].prev /\ Newest(id)' \in {enq[id].prev, enq[id].gen}
      BY <1>4, <2>1 DEF Newest, NoEnqueue
    <3> QED
      BY <2>1, <3>1, GenerationNumbers
  <2>4. \A g \in Generations : <<id, g>> \in pending' => g = registered[id]
    BY <1>4 DEF IsOwned, PendingIsAlone
  <2>5. RegisteredIsNewest(id)' /\ OwnerIsRegistered(id)' /\ TransferIsOwned(id)'
    BY <1>4 DEF IsOwned, RegisteredIsNewest, OwnerIsRegistered, TransferIsOwned
  <2>6. EnqueueIsAlone(id)' /\ PendingIsAlone(id)'
    BY <1>4, <2>2, <2>4 DEF EnqueueIsAlone, PendingIsAlone, Unowned, NoEnqueue
  <2>7. InHandIsOwner(id)' /\ InFlightIsOwner(id)' /\ MediaIsOwner(id)'
    BY <1>4 DEF IsOwned, InHandIsOwner, InFlightIsOwner, MediaIsOwner, HasReservation
  <2>8. ResumersAreOwners(id)'
    <3> SUFFICES ASSUME NEW r \in Resumers, resumer[r].pc # "idle", resumer[r].id = id
                 PROVE ResumerIsOwner(id, r)'
      BY <1>4 DEF ResumersAreOwners, ResumerIsOwner
    <3>1. ResumerIsOwner(id, r) /\ <<id, resumer[r].gen>> \notin pending'
      BY <2>1, <2>4 DEF ResumersAreOwners, IsOwned, ResumerIsOwner
    <3>2. resumer[r].gen <= Newest(id)'
      BY <2>3, <3>1, GenerationNumbers DEF ResumerIsOwner
    <3> QED
      BY <1>4, <2>1, <3>1, <3>2 DEF ResumerIsOwner
  <2>9. StopIsOwner(id)'
    <3>1. StopIsOwner(id)
      BY DEF IsOwned
    <3>2. stopping[id].phase \in {"sent", "waiting", "acked"} => stopping[id].gen <= Newest(id)'
      BY <2>3, <3>1, GenerationNumbers DEF StopIsOwner
    <3> QED
      BY <1>4, <3>1, <3>2 DEF StopIsOwner
  <2>10. BusyIsShown(id)'
    BY <1>4, <2>1 DEF IsOwned, BusyIsShown
  <2> QED
    BY <2>5, <2>6, <2>7, <2>8, <2>9, <2>10 DEF IsOwned
<1>5. CASE CommitEnqueue(id)
  <2>1. CASE RollbackEnqueue(id, enq[id].gen, enq[id].prev)
               /\ enq' = [enq EXCEPT ![id] = NoEnqueue] /\ UNCHANGED pending
    BY <1>5, <2>1, RolledBackIsOwned DEF CommitEnqueue
  <2>2. CASE /\ registered[id] = enq[id].gen /\ pending' = pending \cup {<<id, enq[id].gen>>}
             /\ enq' = [enq EXCEPT ![id].phase = "finalizing"] /\ UNCHANGED <<registered,
                   watermark>>
    <3>1. enq'[id] = [enq[id] EXCEPT !.phase = "finalizing"]
      BY <2>2 DEF TypeOK, LifecycleTypes
    <3>2. enq[id] \in [phase : {"reserved", "finalizing"}, gen : Generations, prev : Gens]
      BY <1>5 DEF CommitEnqueue, TypeOK, LifecycleTypes, NoEnqueue
    <3>3. enq'[id].phase = "finalizing" /\ enq'[id].gen = enq[id].gen
                 /\ enq'[id].prev = enq[id].prev
      BY <3>1, <3>2
    <3> QED
      BY <1>4, <1>5, <2>2, <3>3 DEF CommitEnqueue
  <2> QED
    BY <1>5, <2>1, <2>2 DEF CommitEnqueue
<1>6. CASE FinishCommit(id)
  <2>1. CASE pending' = pending \ {<<id, enq[id].gen>>} /\ RollbackEnqueue(id, enq[id].gen,
               enq[id].prev)
    BY <1>6, <2>1, RolledBackIsOwned DEF FinishCommit
  <2>2. CASE UNCHANGED <<pending, registered, watermark>> /\ Show(id, "queued")
    <3>1. shown'[id] = "queued" /\ enq'[id] = NoEnqueue /\ registered[id] = enq[id].gen
      BY <1>6, <2>2 DEF FinishCommit, Show, TypeOK, ResultTypes, LifecycleTypes, IsOwned,
         EnqueueIsAlone
    <3> QED
      BY <1>4, <1>6, <2>2, <3>1 DEF FinishCommit
  <2> QED
    BY <1>6, <2>1, <2>2 DEF FinishCommit
<1> QED
  BY <1>1, <1>2, <1>3, <1>5, <1>6 DEF EnqueueStep

\* Admission.
LEMMA TryAdmitIsOwned ==
  ASSUME QueueFacts, NEW id \in Ids, NEW g \in Generations, IsOwned(id), TryAdmit(id, g)
  PROVE  IsOwned(id)'
<1> USE DEF QueueFacts
<1>1. /\ <<id, g>> \in pending /\ registered[id] = g /\ Unowned(id) /\ g # 0
            /\ worker[id][g] = "idle"
      /\ active[id] = 0
  <2>1. <<id, g>> \in pending /\ ownership[id] = NoOwner
    BY DEF TryAdmit, Eligible
  <2>2. HasFreshGenerations(id)
    BY DEF PermitInvariant, GenerationsAreFresh
  <2> QED
    BY <2>1, <2>2, NoOwnerParksNothing, GenerationNumbers DEF IsOwned, PendingIsAlone,
       HasFreshGenerations, NoOwner
<1>2. /\ worker'[id][g] = "admitted" /\ \A h \in Generations \ {g} : worker'[id][h] = worker[id][h]
      /\ ownership'[id] = [gen |-> g, active |-> FALSE]
      /\ UNCHANGED <<lifecycleVars, active, epoch, xfer, resumer, stopping, shown,
                     removing, retriesAllowed>>
      /\ pending' = pending \ {<<id, g>>}
  BY SetWorkerValue DEF TryAdmit, ReserveFor, TypeOK, PermitTypes, environment
<1>3. enq[id].phase = "none" /\ \A h \in Generations : <<id, h>> \notin pending'
  <2>1. enq[id].phase # "finalizing"
    BY DEF TryAdmit, AdmissionOpen, GateFree
  <2> QED
    BY <1>1, <1>2, <2>1, EnqueueIsFresh DEF IsOwned, PendingIsAlone
<1> USE DEF lifecycleVars, Unowned
<1>4. RegisteredIsNewest(id)' /\ OwnerIsRegistered(id)' /\ TransferIsOwned(id)'
  BY <1>1, <1>2 DEF IsOwned, RegisteredIsNewest, OwnerIsRegistered, TransferIsOwned
<1>5. EnqueueIsAlone(id)' /\ PendingIsAlone(id)'
  BY <1>2, <1>3 DEF EnqueueIsAlone, PendingIsAlone
<1>6. InHandIsOwner(id)'
  BY <1>1, <1>2 DEF IsOwned, InHandIsOwner, HasReservation
<1>7. InFlightIsOwner(id)' /\ MediaIsOwner(id)'
  BY <1>1, <1>2 DEF IsOwned, InFlightIsOwner, MediaIsOwner, InFlightPcs, MediaPcs, RunnerPcs
<1>8. ResumersAreOwners(id)'
  <2> SUFFICES ASSUME NEW r \in Resumers, resumer[r].pc # "idle", resumer[r].id = id
               PROVE ResumerIsOwner(id, r)'
    BY <1>2 DEF ResumersAreOwners, ResumerIsOwner
  <2>1. ResumerIsOwner(id, r)
    BY DEF ResumersAreOwners, IsOwned
  <2>2. resumer[r].gen \in Generations /\ resumer[r].gen # g
    BY <1>1, <2>1 DEF ResumerIsOwner
  <2> QED
    BY <1>2, <1>3, <2>1, <2>2 DEF ResumerIsOwner, RetriesCancelled, Newest
<1>9. StopIsOwner(id)'
  <2>1. StopIsOwner(id) /\ Newest(id)' = Newest(id)
    BY <1>2 DEF IsOwned, Newest
  <2>2. stopping[id].phase \in {"sent", "waiting", "acked"} => stopping[id].gen # g
    BY <1>1, <2>1 DEF StopIsOwner
  <2>3. stopping[id].phase \notin {"drain", "cleanup"} /\ stopping[id].op # "remove"
    BY <1>1, <2>1 DEF StopIsOwner
  <2>4. stopping[id].phase \in {"sent", "waiting", "acked"} =>
          worker'[id][stopping[id].gen] = worker[id][stopping[id].gen]
    BY <1>2, <2>1, <2>2 DEF StopIsOwner
  <2> QED
    BY <1>2, <2>1, <2>3, <2>4 DEF StopIsOwner
<1>10. BusyIsShown(id)'
  <2>1. shown[id] \notin {"paused", "failed"}
    BY <1>1, <1>3 DEF IsOwned, BusyIsShown
  <2> QED
    BY <1>2, <2>1 DEF BusyIsShown
<1> QED
  BY <1>4, <1>5, <1>6, <1>7, <1>8, <1>9, <1>10 DEF IsOwned

-----------------------------------------------------------------------------
\* A step of a resume worker that neither takes nor gives a permit that is parked.
ResumerQuits(r) == resumer' = [resumer EXCEPT ![r] = IdleResumer]

\* A resume worker quits and takes at most its own reservation along.
LEMMA QuittingIsOwned ==
  ASSUME QueueFacts, NEW r \in Resumers, NEW id \in Ids, resumer[r].id = id,
         resumer[r].pc # "idle", IsOwned(id),
         ResumerQuits(r),
         Kept(id) \/ (HasReservation(id, resumer[r].gen) /\ Cleared(id)),
         UNCHANGED <<lifecycleVars, pending, worker, epoch, xfer, stopping, shown,
                     removing, retriesAllowed>>
  PROVE  IsOwned(id)'
<1> USE DEF QueueFacts, lifecycleVars
<1>1. /\ active'[id] = active[id] /\ ownership'[id] \in {ownership[id], NoOwner}
      /\ \A h \in Generations : h # resumer[r].gen /\ HasReservation(id, h) => HasReservation(id,
            h)'
  <2>1. \A g : HasReservation(id, g) => active[id] = 0
    BY DEF ReservationsMatchPermits, ReservationMatches, HasReservation
  <2> QED
    BY <2>1 DEF Kept, Cleared, HasReservation
<1>2. worker[id][resumer[r].gen] = "idle"
  BY DEF IsOwned, ResumersAreOwners, ResumerIsOwner
<1>3. \A q \in Resumers : resumer'[q].pc # "idle" => resumer'[q] = resumer[q]
  BY IdleResumerType DEF ResumerQuits, TypeOK, ActorTypes
<1>4. RegisteredIsNewest(id)' /\ OwnerIsRegistered(id)' /\ TransferIsOwned(id)'
  BY <1>1 DEF IsOwned, RegisteredIsNewest, OwnerIsRegistered, TransferIsOwned, NoOwner
<1>5. EnqueueIsAlone(id)' /\ PendingIsAlone(id)'
  BY <1>1 DEF IsOwned, EnqueueIsAlone, PendingIsAlone, Unowned
<1>6. InHandIsOwner(id)'
  <2>1. \A g \in Generations : worker[id][g] \in InHandPcs => g # resumer[r].gen
    BY <1>2 DEF InHandPcs
  <2> QED
    BY <1>1, <2>1 DEF IsOwned, InHandIsOwner
<1>7. InFlightIsOwner(id)' /\ MediaIsOwner(id)'
  BY <1>1 DEF IsOwned, InFlightIsOwner, MediaIsOwner
<1>8. ResumersAreOwners(id)'
  <2> SUFFICES ASSUME NEW q \in Resumers, resumer'[q].pc # "idle", resumer'[q].id = id
               PROVE ResumerIsOwner(id, q)'
    BY DEF ResumersAreOwners, ResumerIsOwner
  <2>1. ResumerIsOwner(id, q) /\ resumer'[q] = resumer[q]
    BY <1>3 DEF ResumersAreOwners, IsOwned
  <2> QED
    BY <1>1, <2>1 DEF ResumerIsOwner, RetriesCancelled, Newest
<1>9. StopIsOwner(id)'
  BY <1>1 DEF IsOwned, StopIsOwner, Newest
<1>10. BusyIsShown(id)'
  BY DEF IsOwned, BusyIsShown
<1> QED
  BY <1>4, <1>5, <1>6, <1>7, <1>8, <1>9, <1>10 DEF IsOwned

\* A resume worker advances, and takes a reservation or parks its permit as it does.
ResumerAdvances(id, r) ==
  /\ resumer[r].pc # "idle" /\ resumer[r].id = id
  /\ \A q \in Resumers \ {r} : resumer'[q] = resumer[q]
  /\ resumer'[r].pc # "idle" /\ resumer'[r].id = id /\ resumer'[r].gen = resumer[r].gen
  /\ resumer'[r].pc = "reserved" /\ ~resumer'[r].cand => active'[id] # 0
  /\ resumer'[r].pc = "unpausing" =>
       epoch[id] = <<"resume", r>> /\ active'[id] # 0 /\ ~RetriesCancelled(id)
  /\ \/ Kept(id)
     \/ /\ epoch[id] = <<"resume", r>> /\ ~RetriesCancelled(id)
        /\ ownership[id] = NoOwner \/ HasReservation(id, resumer[r].gen)
        /\ ownership'[id].gen = resumer[r].gen
        /\ active'[id] \in {active[id], resumer[r].gen}

\* A resume worker reserves, waits or parks, and no other worker owns the permit.
LEMMA AdvancedResumeIsOwned ==
  ASSUME QueueFacts, NEW r \in Resumers, NEW id \in Ids, IsOwned(id), ResumerAdvances(id, r),
         UNCHANGED <<lifecycleVars, pending, worker, epoch, xfer, stopping, shown,
                     removing, retriesAllowed>>
  PROVE  IsOwned(id)'
<1> USE DEF QueueFacts, lifecycleVars
<1> DEFINE g == resumer[r].gen
<1>0. /\ g \in Generations /\ g # 0 /\ worker[id][g] = "idle" /\ <<id, g>> \notin pending
      /\ epoch[id] = <<"resume", r>> => xfer[id] = "paused" /\ registered[id] = g
      /\ ResumerIsOwner(id, r)
  BY GenerationNumbers DEF IsOwned, ResumersAreOwners, ResumerIsOwner, ResumerAdvances
<1>1. CASE Kept(id)
  <2> USE <1>1 DEF Kept
  <2>1. RegisteredIsNewest(id)' /\ OwnerIsRegistered(id)' /\ TransferIsOwned(id)'
    BY DEF IsOwned, RegisteredIsNewest, OwnerIsRegistered, TransferIsOwned
  <2>2. EnqueueIsAlone(id)' /\ PendingIsAlone(id)'
    BY DEF IsOwned, EnqueueIsAlone, PendingIsAlone, Unowned
  <2>3. InHandIsOwner(id)' /\ InFlightIsOwner(id)' /\ MediaIsOwner(id)'
    BY DEF IsOwned, InHandIsOwner, InFlightIsOwner, MediaIsOwner, HasReservation
  <2>4. StopIsOwner(id)' /\ BusyIsShown(id)'
    BY DEF IsOwned, StopIsOwner, Newest, BusyIsShown
  <2>5. \A q \in Resumers \ {r} : ResumerIsOwner(id, q)'
    BY DEF IsOwned, ResumersAreOwners, ResumerIsOwner, RetriesCancelled, Newest, ResumerAdvances
  <2>6. ResumerIsOwner(id, r)'
    BY <1>0 DEF ResumerIsOwner, RetriesCancelled, Newest, ResumerAdvances
  <2> QED
    BY <2>1, <2>2, <2>3, <2>4, <2>5, <2>6 DEF IsOwned, ResumersAreOwners
<1>2. CASE ~Kept(id)
  <2>0. /\ epoch[id] = <<"resume", r>> /\ ~RetriesCancelled(id)
        /\ ownership'[id].gen = g /\ active'[id] \in {active[id], g}
        /\ registered[id] = g /\ xfer[id] = "paused" /\ id \in AriaIds
        /\ active[id] # 0 => active'[id] # 0
    BY <1>0, <1>2 DEF ResumerAdvances, IsOwned, TransferIsOwned
  <2>7. Newest(id)' = Newest(id)
    BY DEF Newest
  <2>1. RegisteredIsNewest(id)' /\ OwnerIsRegistered(id)' /\ TransferIsOwned(id)'
    BY <2>0 DEF IsOwned, RegisteredIsNewest, OwnerIsRegistered, TransferIsOwned
  <2>2. EnqueueIsAlone(id)' /\ PendingIsAlone(id)'
    BY <2>0 DEF IsOwned, EnqueueIsAlone, PendingIsAlone, Unowned
  <2>3. InHandIsOwner(id)' /\ InFlightIsOwner(id)' /\ MediaIsOwner(id)'
    BY <2>0 DEF IsOwned, InHandIsOwner, InFlightIsOwner, MediaIsOwner, HasReservation, MediaIds
  <2>4. StopIsOwner(id)' /\ BusyIsShown(id)'
    BY <2>0 DEF IsOwned, StopIsOwner, Newest, BusyIsShown, MediaIds
  <2>5. \A q \in Resumers \ {r} : ResumerIsOwner(id, q)'
    <3> SUFFICES ASSUME NEW q \in Resumers \ {r} PROVE ResumerIsOwner(id, q)'
      OBVIOUS
    <3>1. ResumerIsOwner(id, q) /\ resumer'[q] = resumer[q] /\ epoch[id] # <<"resume", q>>
      BY <2>0 DEF IsOwned, ResumersAreOwners, ResumerAdvances
    <3> QED
      BY <2>0, <2>7, <3>1 DEF ResumerIsOwner
  <2>6. ResumerIsOwner(id, r)'
    BY <1>0, <2>0, <2>7 DEF ResumerIsOwner, RetriesCancelled, ResumerAdvances
  <2> QED
    BY <2>1, <2>2, <2>3, <2>4, <2>5, <2>6 DEF IsOwned, ResumersAreOwners
<1> QED
  BY <1>1, <1>2

\* A resume starts for a GID that the daemon holds as paused.
LEMMA ResumedIsOwned ==
  ASSUME QueueFacts, NEW id \in Ids, NEW r \in Resumers, IsOwned(id), ResumePaused(id, r)
  PROVE  IsOwned(id)'
<1> USE DEF QueueFacts, lifecycleVars, permitVars
<1>1. /\ xfer[id] = "paused" /\ id \notin removing /\ enq[id].phase = "none"
      /\ UNCHANGED <<lifecycleVars, pending, permitVars, worker, xfer, stopping,
                     removing, retriesAllowed>>
      /\ epoch'[id] = <<"resume", r>> /\ shown'[id] = "queued"
      /\ resumer'[r] = [pc |-> "spawned", id |-> id, gen |-> registered[id], cand |-> FALSE]
      /\ \A q \in Resumers \ {r} : resumer'[q] = resumer[q]
      /\ resumer[r].pc = "idle"
      /\ \A q \in Resumers : resumer[q].id = id => resumer[q].pc # "unpausing"
  BY DEF ResumePaused, LockFree, ControlFree, Show, TypeOK, ActorTypes, ResultTypes
<1>2. /\ registered[id] \in Generations /\ id \in AriaIds /\ registered[id] = watermark[id]
      /\ registered[id] <= Newest(id)' /\ Newest(id)' = Newest(id)
  <2>1. registered[id] # 0 /\ id \in AriaIds /\ registered[id] = watermark[id]
    BY <1>1 DEF IsOwned, TransferIsOwned, RegisteredIsNewest
  <2>2. registered[id] \in Generations
    BY <2>1, RegisteredType DEF Gens
  <2> QED
    BY <1>1, <2>1, <2>2, GenerationNumbers DEF Newest
<1>3. \A g \in Generations : registered[id] = g => worker[id][g] = "idle" /\ <<id,
             g>> \notin pending
  <2> SUFFICES ASSUME NEW g \in Generations, registered[id] = g
               PROVE  worker[id][g] = "idle" /\ <<id, g>> \notin pending
    OBVIOUS
  <2>1. worker[id][g] \notin InHandPcs /\ worker[id][g] \notin InFlightPcs
               /\ worker[id][g] \notin MediaPcs
    BY <1>1, <1>2 DEF IsOwned, InHandIsOwner, InFlightIsOwner, MediaIsOwner, MediaIds
  <2>2. worker[id][g] \in WorkerPcs
    BY DEF TypeOK, ActorTypes
  <2> QED
    BY <1>1, <2>1, <2>2 DEF WorkerPcs, IsOwned, PendingIsAlone, Unowned
<1>4. RegisteredIsNewest(id)' /\ OwnerIsRegistered(id)' /\ TransferIsOwned(id)'
  BY <1>1 DEF IsOwned, RegisteredIsNewest, OwnerIsRegistered, TransferIsOwned
<1>5. EnqueueIsAlone(id)' /\ PendingIsAlone(id)'
  BY <1>1 DEF IsOwned, EnqueueIsAlone, PendingIsAlone, Unowned
<1>6. InHandIsOwner(id)' /\ MediaIsOwner(id)'
  BY <1>1 DEF IsOwned, InHandIsOwner, MediaIsOwner, HasReservation
<1>7. InFlightIsOwner(id)'
  BY <1>1, <1>3 DEF IsOwned, InFlightIsOwner, InFlightPcs
<1>8. ResumersAreOwners(id)'
  <2> SUFFICES ASSUME NEW q \in Resumers, resumer'[q].pc # "idle", resumer'[q].id = id
               PROVE ResumerIsOwner(id, q)'
    BY DEF ResumersAreOwners, ResumerIsOwner
  <2>1. CASE q = r
    BY <1>1, <1>2, <1>3, <2>1 DEF ResumerIsOwner
  <2>2. CASE q # r
    <3>1. ResumerIsOwner(id, q) /\ resumer'[q] = resumer[q] /\ resumer[q].pc # "unpausing"
      BY <1>1, <2>2 DEF ResumersAreOwners, IsOwned
    <3> QED
      BY <1>1, <1>2, <2>2, <3>1 DEF ResumerIsOwner
  <2> QED
    BY <2>1, <2>2
<1>9. StopIsOwner(id)'
  BY <1>1, <1>2 DEF IsOwned, StopIsOwner
<1>10. BusyIsShown(id)'
  BY <1>1 DEF BusyIsShown
<1> QED
  BY <1>4, <1>5, <1>6, <1>7, <1>8, <1>9, <1>10 DEF IsOwned

\* While it unpauses, a resume worker is the only one at work for its id.
LEMMA UnpausingIsAlone ==
  ASSUME QueueFacts, NEW r \in Resumers, NEW id \in Ids, resumer[r].id = id,
         resumer[r].pc = "unpausing", IsOwned(id)
  PROVE  /\ epoch[id] = <<"resume", r>> /\ xfer[id] = "paused" /\ id \in AriaIds
               /\ ~RetriesCancelled(id)
         /\ registered[id] = resumer[r].gen /\ active[id] = registered[id]
               /\ ownership[id].gen = registered[id]
         /\ registered[id] \in Generations
         /\ enq[id].phase = "none" /\ enq[id] = NoEnqueue
         /\ \A g \in Generations : <<id, g>> \notin pending /\ worker[id][g] # "locked"
         /\ worker[id][registered[id]] = "idle"
         /\ stopping[id].phase \notin {"drain", "cleanup", "sent", "waiting", "acked"}
         /\ \A q \in Resumers : resumer[q].pc # "idle" /\ resumer[q].id = id /\ q # r =>
              epoch[id] # <<"resume", q>> /\ resumer[q].pc # "unpausing"
<1>1. ResumerIsOwner(id, r)
  BY DEF IsOwned, ResumersAreOwners
<1>2. /\ epoch[id] = <<"resume", r>> /\ xfer[id] = "paused" /\ ~RetriesCancelled(id)
      /\ registered[id] = resumer[r].gen /\ resumer[r].gen \in Generations /\ active[id] # 0
      /\ worker[id][resumer[r].gen] = "idle"
  BY <1>1 DEF ResumerIsOwner
<1>3. active[id] = registered[id] /\ ownership[id].gen = registered[id] /\ id \in AriaIds
  BY <1>2, ParkedIsRegistered DEF IsOwned, TransferIsOwned
<1>4. enq[id].phase = "none" /\ enq[id] = NoEnqueue /\ \A g \in Generations : <<id,
             g>> \notin pending
  BY <1>2, NoEnqueueValue DEF IsOwned, EnqueueIsAlone, PendingIsAlone, Unowned, QueueFacts
<1>5. \A g \in Generations : worker[id][g] # "locked"
  BY <1>2 DEF IsOwned, InHandIsOwner, InHandPcs
<1>6. stopping[id].phase \notin {"drain", "cleanup", "sent", "waiting", "acked"}
  BY <1>2, <1>3 DEF IsOwned, StopIsOwner, MediaIds
<1>7. \A q \in Resumers : resumer[q].pc # "idle" /\ resumer[q].id = id /\ q # r =>
              epoch[id] # <<"resume", q>> /\ resumer[q].pc # "unpausing"
  <2> SUFFICES ASSUME NEW q \in Resumers, resumer[q].pc # "idle", resumer[q].id = id, q # r
               PROVE  epoch[id] # <<"resume", q>> /\ resumer[q].pc # "unpausing"
    OBVIOUS
  <2>1. epoch[id] # <<"resume", q>>
    BY <1>2
  <2>2. ResumerIsOwner(id, q)
    BY DEF IsOwned, ResumersAreOwners
  <2> QED
    BY <2>1, <2>2 DEF ResumerIsOwner
<1> QED
  BY <1>2, <1>3, <1>4, <1>5, <1>6, <1>7

\* What aria2 reports after unpause: the transfer runs, is paused again or has ended.
LEMMA SettledIsOwned ==
  ASSUME QueueFacts, TypeOK', NEW r \in Resumers, NEW id \in Ids, resumer[r].id = id, IsOwned(id),
         ResumeSettles(r)
  PROVE  IsOwned(id)'
<1> USE DEF QueueFacts
<1>1. /\ resumer[r].pc = "unpausing"
      /\ UNCHANGED <<watermark, enq, pending, worker, stopping, removing, retriesAllowed>>
      /\ \A q \in Resumers : resumer'[q].pc # "idle" => resumer'[q] = resumer[q] /\ q # r
  BY IdleResumerType DEF ResumeSettles, TypeOK, ActorTypes
<1>2. /\ epoch[id] = <<"resume", r>> /\ xfer[id] = "paused" /\ id \in AriaIds
      /\ ~RetriesCancelled(id)
      /\ registered[id] = resumer[r].gen /\ active[id] = registered[id]
            /\ ownership[id].gen = registered[id]
      /\ registered[id] \in Generations /\ registered[id] # 0
      /\ enq[id].phase = "none" /\ enq[id] = NoEnqueue
      /\ \A g \in Generations : <<id, g>> \notin pending /\ worker[id][g] # "locked"
      /\ worker[id][registered[id]] = "idle"
      /\ stopping[id].phase \notin {"drain", "cleanup", "sent", "waiting", "acked"}
      /\ \A q \in Resumers : resumer[q].pc # "idle" /\ resumer[q].id = id /\ q # r =>
           epoch[id] # <<"resume", q>> /\ resumer[q].pc # "unpausing"
  <2>1. registered[id] \in Generations
    BY <1>1, UnpausingIsAlone
  <2>2. registered[id] # 0
    BY <2>1, GenerationNumbers
  <2>3. ~RetriesCancelled(id)
    BY <1>1 DEF IsOwned, ResumersAreOwners, ResumerIsOwner
  <2> QED
    BY <1>1, <2>1, <2>2, <2>3, UnpausingIsAlone
<1>3. ASSUME ApplyCompletion(id, {"completed", "failed"}) PROVE IsOwned(id)'
  <2>1. /\ registered'[id] = 0 /\ Cleared(id) /\ xfer'[id] = "none" /\ epoch'[id] = <<"none", 0>>
    BY <1>3, ReleasePermitClears DEF ApplyCompletion, EndEpoch, Unregister, TypeOK, ActorTypes,
       ResultTypes, LifecycleTypes
  <2>2. \A g \in Generations : worker[id][g] # "running"
    BY <1>2 DEF IsOwned, MediaIsOwner, MediaPcs, RunnerPcs, MediaIds
  <2>3. Retires(id)
    <3>1. /\ enq'[id] = NoEnqueue /\ Newest(id) = watermark'[id] /\ watermark'[id] \in Nat
          /\ stopping'[id] = stopping[id] /\ (id \in removing' <=> id \in removing)
          /\ (id \in retriesAllowed' <=> id \in retriesAllowed)
      BY <1>1, <1>2, NewestType DEF Newest
    <3>2. \A g \in Generations : /\ <<id, g>> \notin pending' /\ epoch'[id] # <<"dispatch", g>>
                                 /\ worker'[id][g] \in {worker[id][g], "idle"} \ {"locked",
                                       "running"}
      BY <1>1, <1>2, <2>1, <2>2
    <3>3. \A q \in Resumers : resumer'[q].pc # "idle" /\ resumer'[q].id = id =>
            resumer'[q] = resumer[q] /\ resumer[q].pc # "unpausing" /\ epoch'[id] # <<"resume", q>>
      <4> SUFFICES ASSUME NEW q \in Resumers, resumer'[q].pc # "idle", resumer'[q].id = id
                   PROVE  resumer'[q] = resumer[q] /\ resumer[q].pc # "unpausing"
                          /\ epoch'[id] # <<"resume", q>>
        OBVIOUS
      <4>1. resumer'[q] = resumer[q] /\ q # r
        BY <1>1
      <4>2. resumer[q].pc # "unpausing"
        BY <1>2, <4>1
      <4>3. epoch'[id] # <<"resume", q>>
        BY <2>1
      <4> QED
        BY <4>1, <4>2, <4>3
    <3>4. Newest(id) <= watermark'[id] /\ epoch'[id] \in {epoch[id], <<"none", 0>>}
      BY <2>1, <3>1
    <3>5. stopping'[id] \in {stopping[id], NoStop}
      BY <3>1
    <3> QED
      BY ONLY <2>1, <3>1, <3>2, <3>3, <3>4, <3>5 DEF Retires
  <2> QED
    BY <2>3, RetiredIsOwned
<1>4. ASSUME registered' = registered, epoch'[id] \in {epoch[id], <<"none", 0>>},
             xfer'[id] \in {"live", "paused"},
             Kept(id) \/ (Cleared(id) /\ xfer'[id] # "live")
      PROVE  IsOwned(id)'
  <2>1. RegisteredIsNewest(id)' /\ OwnerIsRegistered(id)' /\ TransferIsOwned(id)'
    BY <1>1, <1>2, <1>4 DEF IsOwned, RegisteredIsNewest, OwnerIsRegistered, TransferIsOwned,
       Kept, Cleared, NoOwner
  <2>2. EnqueueIsAlone(id)' /\ PendingIsAlone(id)'
    BY <1>1, <1>2 DEF EnqueueIsAlone, PendingIsAlone
  <2>3. InHandIsOwner(id)'
    BY <1>1, <1>2, <1>4 DEF IsOwned, InHandIsOwner, InHandPcs
  <2>4. InFlightIsOwner(id)' /\ MediaIsOwner(id)'
    <3>1. \A g \in Generations : epoch'[id] # <<"dispatch", g>>
      BY <1>2, <1>4
    <3> QED
      BY <1>1, <1>2, <1>4, <3>1 DEF IsOwned, InFlightIsOwner, MediaIsOwner, InFlightPcs,
         MediaPcs, MediaIds, RunnerPcs
  <2>5. ResumersAreOwners(id)'
    <3> SUFFICES ASSUME NEW q \in Resumers, resumer'[q].pc # "idle", resumer'[q].id = id
                 PROVE ResumerIsOwner(id, q)'
      BY DEF ResumersAreOwners, ResumerIsOwner
    <3>1. ResumerIsOwner(id, q) /\ resumer'[q] = resumer[q] /\ q # r
      BY <1>1 DEF ResumersAreOwners, IsOwned
    <3>2. epoch'[id] # <<"resume", q>> /\ resumer[q].pc # "unpausing"
      BY <1>2, <1>4, <3>1
    <3> QED
      BY <1>1, <3>1, <3>2 DEF ResumerIsOwner, Newest
  <2>6. StopIsOwner(id)'
    BY <1>1, <1>2 DEF IsOwned, StopIsOwner
  <2>7. BusyIsShown(id)'
    BY <1>1, <1>2, <1>4 DEF BusyIsShown
  <2> QED
    BY <2>1, <2>2, <2>3, <2>4, <2>5, <2>6, <2>7 DEF IsOwned
<1>5. CASE \E status \in {"live", "paused"} : xfer' = [xfer EXCEPT ![id] = status]
             /\ UNCHANGED <<epoch, ownership, active, registered>>
  BY <1>4, <1>5 DEF TypeOK, ResultTypes, Kept
<1>6. CASE EndEpoch(id) /\ ReleasePermit(id) /\ UNCHANGED <<xfer, registered>>
  <2>1. Cleared(id) /\ epoch'[id] = <<"none", 0>>
    BY <1>6, ReleasePermitClears DEF EndEpoch, TypeOK, ActorTypes
  <2> QED
    BY <1>2, <1>4, <1>6, <2>1
<1> QED
  BY <1>3, <1>5, <1>6 DEF ResumeSettles

\* Resume workers.
LEMMA ResumeIsOwned ==
  ASSUME QueueFacts, TypeOK', NEW r \in Resumers, NEW id \in Ids, resumer[r].id = id, IsOwned(id),
         StartResume(r) \/ ResumeReserve(r) \/ ResumeGiveUp(r) \/ ResumeUnpause(r)
             \/ ResumeSettles(r)
  PROVE  IsOwned(id)'
<1> USE DEF QueueFacts, lifecycleVars, permitVars, environment
<1> DEFINE g == resumer[r].gen
<1>0. ResumerIsOwner(id, r)
  BY DEF IsOwned, ResumersAreOwners
<1>1. CASE StartResume(r)
  <2>1. resumer'[r] = [resumer[r] EXCEPT !.pc = IF active[id] # 0 THEN "reserved" ELSE "waiting"]
        /\ \A q \in Resumers \ {r} : resumer'[q] = resumer[q]
    BY <1>1 DEF StartResume, TypeOK, ActorTypes
  <2>2. ResumerAdvances(id, r)
    BY <1>1, <2>1, ResumerTypes DEF StartResume, ResumerAdvances, Kept
  <2> QED
    BY <1>1, <2>2, AdvancedResumeIsOwned DEF StartResume
<1>2. CASE ResumeReserve(r)
  <2>1. /\ resumer'[r].pc = "reserved" /\ resumer'[r].cand /\ resumer'[r].id = id
              /\ resumer'[r].gen = g
        /\ \A q \in Resumers \ {r} : resumer'[q] = resumer[q]
        /\ ownership'[id].gen = g /\ active' = active
    BY <1>2 DEF ResumeReserve, ReserveFor, TypeOK, ActorTypes, PermitTypes
  <2>2. /\ epoch[id] = <<"resume", r>> /\ ~RetriesCancelled(id) /\ ownership[id] = NoOwner
        /\ resumer[r].pc = "waiting"
    BY <1>2 DEF ResumeReserve, ResumeEligible, ResumeStale, RetriesCancelled
  <2>3. ResumerAdvances(id, r)
    BY <2>1, <2>2 DEF ResumerAdvances
  <2> QED
    BY <1>2, <2>3, AdvancedResumeIsOwned DEF ResumeReserve
<1>3. ASSUME NEW n, ReleaseReservation(id, g, n), UNCHANGED active
      PROVE  Kept(id) \/ (HasReservation(id, g) /\ Cleared(id))
  <2>1. CASE HasReservation(id, g)
    BY <1>3, <2>1, ReleaseReservationClears
  <2>2. CASE ~HasReservation(id, g)
    BY <1>3, <2>2 DEF ReleaseReservation, Kept
  <2> QED
    BY <2>1, <2>2
<1>4. CASE ResumeGiveUp(r)
  <2>1. Kept(id) \/ (HasReservation(id, g) /\ Cleared(id))
    BY <1>3, <1>4 DEF ResumeGiveUp, Kept
  <2> QED
    BY <1>4, <2>1, QuittingIsOwned DEF ResumeGiveUp, ResumerQuits
<1>5. CASE ResumeUnpause(r)
  <2>1. CASE ResumerQuits(r)
    <3>1. Kept(id) \/ (HasReservation(id, g) /\ Cleared(id))
      <4>1. UNCHANGED <<ownership, active>> \/ (UNCHANGED active /\ \E n : ReleaseReservation(id,
                   g, n))
            \/ ~ResumerQuits(r)
        <5>1. resumer[r].pc = "reserved" /\ IdleResumer.pc = "idle"
          BY <1>5, IdleResumerType DEF ResumeUnpause
        <5>2. resumer'[r].pc = "idle"
          BY <2>1, <5>1 DEF ResumerQuits, TypeOK, ActorTypes
        <5> QED
          BY <1>5, <5>2 DEF ResumeUnpause, TypeOK, ActorTypes
      <4> QED
        BY <1>3, <2>1, <4>1 DEF Kept
    <3> QED
      BY <1>5, <2>1, <3>1, QuittingIsOwned DEF ResumeUnpause, ResumerQuits
  <2>2. CASE ~ResumerQuits(r)
    <3>1. /\ epoch[id] = <<"resume", r>> /\ ~RetriesCancelled(id) /\ resumer[r].pc = "reserved"
      BY <1>5, <2>2 DEF ResumeUnpause, ResumerQuits, RetriesCancelled
    <3>2. /\ resumer'[r].pc = "unpausing" /\ resumer'[r].id = id /\ resumer'[r].gen = g
          /\ \A q \in Resumers \ {r} : resumer'[q] = resumer[q]
      BY <1>5, <2>2 DEF ResumeUnpause, ResumerQuits, TypeOK, ActorTypes
    <3>3. g \in Generations /\ g # 0 /\ registered[id] = g
      BY <1>0, <3>1, GenerationNumbers DEF ResumerIsOwner
    <3>4. CASE resumer[r].cand
      <4>1. ownership[id] = NoOwner \/ HasReservation(id, g)
        BY <1>5, <2>2, <3>4 DEF ResumeUnpause, ResumerQuits
      <4>2. /\ ownership' = [ownership EXCEPT ![id] = [gen |-> g, active |-> TRUE]]
            /\ active' = [active EXCEPT ![id] = g]
        BY <1>5, <2>2, <3>4 DEF ResumeUnpause, ResumerQuits
      <4>3. ownership'[id].gen = g /\ active'[id] = g
        BY <4>2 DEF TypeOK, PermitTypes
      <4>4. ResumerAdvances(id, r)
        BY <3>1, <3>2, <3>3, <4>1, <4>3 DEF ResumerAdvances
      <4> QED
        BY <1>5, <4>4, AdvancedResumeIsOwned DEF ResumeUnpause
    <3>5. CASE ~resumer[r].cand
      <4>1. UNCHANGED <<ownership, active>> /\ active[id] # 0
        BY <1>0, <1>5, <2>2, <3>1, <3>5 DEF ResumeUnpause, ResumerQuits, ResumerIsOwner
      <4>2. ResumerAdvances(id, r)
        BY <3>1, <3>2, <4>1 DEF ResumerAdvances, Kept
      <4> QED
        BY <1>5, <4>2, AdvancedResumeIsOwned DEF ResumeUnpause
    <3> QED
      BY <3>4, <3>5
  <2> QED
    BY <2>1, <2>2
<1>6. CASE ResumeSettles(r)
  BY <1>6, SettledIsOwned
<1> QED
  BY <1>1, <1>2, <1>4, <1>5, <1>6

-----------------------------------------------------------------------------
\* A permit released for the registered lifecycle, or for one of an id without
\* registration, leaves nothing owned.
LEMMA ReleasedForRegistered ==
  ASSUME QueueFacts, NEW id \in Ids, IsOwned(id), NEW g \in Gens, ReleasePermitFor(id, g),
         registered[id] \in {0, g}
  PROVE  Cleared(id)
<1> USE DEF QueueFacts
<1>1. ReservationMatches(id) /\ ownership[id] \in [gen : Gens,
             active : BOOLEAN] /\ active[id] \in Gens
  BY DEF ReservationsMatchPermits, TypeOK, PermitTypes
<1>2. CASE g # 0 /\ ownership[id].gen = g
  BY <1>2 DEF ReleasePermitFor, Cleared, TypeOK, PermitTypes
<1>3. CASE ~(g # 0 /\ ownership[id].gen = g)
  <2>1. ownership[id].gen = 0
    BY <1>3 DEF IsOwned, OwnerIsRegistered
  <2>2. active[id] = 0 /\ ~ownership[id].active
    BY <1>1, <2>1 DEF ReservationMatches
  <2>3. ownership[id] = NoOwner
    BY <1>1, <2>1, <2>2 DEF NoOwner
  <2> QED
    BY <1>3, <2>2, <2>3 DEF ReleasePermitFor, Cleared
<1> QED
  BY <1>2, <1>3

\* ... and one released for another lifecycle changes nothing.
LEMMA ReleasedForOther ==
  ASSUME QueueFacts, NEW id \in Ids, IsOwned(id), NEW g \in Gens, ReleasePermitFor(id, g),
         registered[id] # g
  PROVE  Kept(id)
<1>1. g # 0 => ownership[id].gen # g /\ active[id] # g
  BY ParkedIsRegistered DEF IsOwned, OwnerIsRegistered
<1> QED
  BY <1>1 DEF ReleasePermitFor, Kept

\* A command under the control lock ends the lifecycle.
LEMMA StopRetires ==
  ASSUME QueueFacts, TypeOK', NEW id \in Ids, IsOwned(id), ControlFree(id),
         UNCHANGED <<watermark, enq, worker, resumer, removing, retriesAllowed>>,
         stopping'[id] \in {stopping[id], NoStop},
         registered'[id] = 0, Cleared(id), xfer'[id] = "none",
         \A g \in Generations : <<id, g>> \notin pending' /\ worker[id][g] # "running",
         \/ epoch'[id] = <<"none", 0>>
         \/ epoch'[id] = epoch[id] /\ xfer[id] = "none" /\ (active[id] = 0 \/ id \in MediaIds)
  PROVE  IsOwned(id)'
<1>1. /\ enq[id].phase = "none" /\ enq'[id] = NoEnqueue
      /\ Newest(id) = watermark'[id] /\ watermark'[id] \in Nat
  BY NoEnqueueValue, NewestType DEF ControlFree, Newest, QueueFacts
<1>2. ASSUME NEW g \in Generations
      PROVE  /\ worker'[id][g] \in {worker[id][g], "idle"} \ {"locked", "running"}
             /\ worker'[id][g] \in InFlightPcs => epoch'[id] # <<"dispatch", g>>
  <2>1. epoch'[id] = epoch[id] /\ worker[id][g] \in InFlightPcs => epoch[id] # <<"dispatch", g>>
    BY DispatchIsRegistered, GenerationNumbers DEF MediaIds
  <2>2. epoch'[id] = <<"none", 0>> => epoch'[id] # <<"dispatch", g>>
    OBVIOUS
  <2>3. worker'[id][g] = worker[id][g] /\ worker[id][g] \notin {"locked", "running"}
    BY DEF ControlFree
  <2> QED
    BY <2>1, <2>2, <2>3
<1>3. ASSUME NEW r \in Resumers, resumer'[r].pc # "idle", resumer'[r].id = id
      PROVE  resumer'[r] = resumer[r] /\ resumer[r].pc # "unpausing" /\ epoch'[id] # <<"resume", r>>
  <2>1. ResumerIsOwner(id, r)
    BY DEF IsOwned, ResumersAreOwners
  <2>2. resumer'[r] = resumer[r] /\ resumer[r].pc # "unpausing"
    BY <1>3 DEF ControlFree
  <2>3. epoch'[id] # <<"resume", r>>
    <3>1. CASE epoch'[id] = epoch[id] /\ xfer[id] = "none"
      BY <1>3, <2>1, <2>2, <3>1 DEF ResumerIsOwner
    <3>2. CASE epoch'[id] = <<"none", 0>>
      BY <3>2
    <3> QED
      BY <3>1, <3>2
  <2> QED
    BY <2>2, <2>3
<1>4. Retires(id)
  <2>1. /\ enq'[id] = NoEnqueue /\ Newest(id) <= watermark'[id]
        /\ stopping'[id] \in {stopping[id], NoStop} /\ (id \in removing' <=> id \in removing)
        /\ (id \in retriesAllowed' <=> id \in retriesAllowed)
    BY <1>1
  <2>2. registered'[id] = 0 /\ Cleared(id) /\ xfer'[id] = "none"
        /\ epoch'[id] \in {epoch[id], <<"none", 0>>}
    OBVIOUS
  <2>3. \A g \in Generations : /\ <<id, g>> \notin pending'
                               /\ worker'[id][g] \in {worker[id][g], "idle"} \ {"locked", "running"}
                               /\ worker'[id][g] \in InFlightPcs => epoch'[id] # <<"dispatch", g>>
    BY <1>2
  <2>4. \A r \in Resumers : resumer'[r].pc # "idle" /\ resumer'[r].id = id =>
          resumer'[r] = resumer[r] /\ resumer[r].pc # "unpausing" /\ epoch'[id] # <<"resume", r>>
    BY <1>3
  <2> QED
    BY ONLY <2>1, <2>2, <2>3, <2>4 DEF Retires
<1> QED
  BY <1>4, RetiredIsOwned

\* A command under the control lock that leaves the registration: it may release what
\* the lifecycle owns, once nothing of it depends on that.
Releases(id) ==
  /\ \/ Kept(id)
     \/ /\ Cleared(id) /\ xfer'[id] # "live" /\ epoch'[id] = <<"none", 0>>
        /\ \A g \in Generations : worker[id][g] \in MediaPcs => registered[id] # g
  /\ epoch'[id] \in {epoch[id], <<"none", 0>>}
  /\ xfer'[id] \in {xfer[id], "none", "paused"} /\ (xfer'[id] # "none" => xfer[id] # "none")
  /\ xfer'[id] # xfer[id] => epoch'[id] = <<"none", 0>>
  /\ \A g \in Generations : worker[id][g] # "idle" /\ registered[id] = g =>
       \/ id \in removing'
       \/ id \in MediaIds /\ Kept(id)
       \/ Kept(id) /\ epoch'[id] = epoch[id]
  /\ \/ shown'[id] = shown[id]
     \/ id \in removing'
     \/ \A g \in Generations : registered[id] = g => worker[id][g] = "idle" /\ <<id,
           g>> \notin pending'
  /\ id \in removing => id \in removing'
  /\ id \in retriesAllowed' => id \in retriesAllowed \/ xfer[id] # "none"

\* A command that releases the permit keeps the registration only with a paused GID.
LEMMA ReleasedIsOwned ==
  ASSUME QueueFacts, NEW id \in Ids, IsOwned(id), ControlFree(id), Releases(id),
         UNCHANGED <<registered, watermark, enq, worker, resumer>>,
         \A g \in Generations : <<id, g>> \in pending' => <<id, g>> \in pending /\ Unowned(id)',
         StopIsOwner(id)'
  PROVE  IsOwned(id)'
<1> USE DEF QueueFacts
<1>0. enq[id].phase = "none" /\ Newest(id)' = Newest(id)
      /\ \A g \in Generations : worker[id][g] # "locked"
      /\ \A r \in Resumers : resumer[r].id = id => resumer[r].pc # "unpausing"
  BY DEF ControlFree, Newest
<1>1. RegisteredIsNewest(id)' /\ OwnerIsRegistered(id)' /\ TransferIsOwned(id)'
  BY DEF IsOwned, RegisteredIsNewest, OwnerIsRegistered, TransferIsOwned, Releases, Kept,
     Cleared, NoOwner
<1>2. EnqueueIsAlone(id)' /\ PendingIsAlone(id)'
  BY <1>0 DEF IsOwned, EnqueueIsAlone, PendingIsAlone, Unowned
<1>3. InHandIsOwner(id)'
  BY <1>0 DEF IsOwned, InHandIsOwner, InHandPcs, Releases, HasReservation, Kept, Cleared
<1>4. InFlightIsOwner(id)'
  <2>1. ASSUME NEW g \in Generations, worker[id][g] \in InFlightPcs, epoch'[id] = <<"dispatch", g>>
        PROVE  active'[id] = g /\ id \notin retriesAllowed'
    <3>1. epoch[id] = <<"dispatch", g>>
      BY <2>1 DEF Releases
    <3>2. active[id] = g /\ xfer[id] = "none" /\ id \notin retriesAllowed
      BY <2>1, <3>1, DispatchIsRegistered DEF IsOwned, InFlightIsOwner
    <3> QED
      BY <2>1, <3>2 DEF Releases, Kept
  <2>2. ASSUME NEW g \in Generations, worker[id][g] \in InFlightPcs, registered[id] = g,
               id \notin removing'
        PROVE  epoch'[id] = <<"dispatch", g>>
    BY <2>2 DEF IsOwned, InFlightIsOwner, InFlightPcs, Releases, MediaIds
  <2> QED
    BY <2>1, <2>2 DEF IsOwned, InFlightIsOwner, InFlightPcs, Releases
<1>5. MediaIsOwner(id)'
  BY DEF IsOwned, MediaIsOwner, Releases, Kept
<1>6. ResumersAreOwners(id)'
  <2> SUFFICES ASSUME NEW r \in Resumers, resumer[r].pc # "idle", resumer[r].id = id
               PROVE ResumerIsOwner(id, r)'
    BY DEF ResumersAreOwners, ResumerIsOwner
  <2>1. ResumerIsOwner(id, r)
    BY DEF IsOwned, ResumersAreOwners
  <2>2. epoch'[id] = <<"resume", r>> => epoch[id] = <<"resume",
               r>> /\ xfer'[id] = xfer[id] /\ Kept(id)
    BY DEF Releases
  <2> QED
    BY <1>0, <2>1, <2>2 DEF ResumerIsOwner, Kept
<1>7. BusyIsShown(id)'
  BY <1>0 DEF IsOwned, BusyIsShown, Releases
<1> QED
  BY <1>1, <1>2, <1>3, <1>4, <1>5, <1>6, <1>7 DEF IsOwned

-----------------------------------------------------------------------------
\* What the operators a command is made of do to the entry of its id.
LEMMA CommandValues ==
  ASSUME TypeOK, NEW id \in Ids
  PROVE  /\ DropPending(id) => \A g \in Generations : <<id, g>> \notin pending'
         /\ EndStop(id) => stopping'[id] = NoStop
         /\ EndEpoch(id) => epoch'[id] = <<"none", 0>>
         /\ Unregister(id) => registered'[id] = 0
         /\ \A g : UnregisterFor(id, g) /\ registered[id] \in {0, g} => registered'[id] = 0
         /\ \A status : Show(id, status) => shown'[id] = status
         /\ \A status : xfer' = [xfer EXCEPT ![id] = status] => xfer'[id] = status
         /\ \A op, phase : BeginStop(id, op, phase) =>
              stopping'[id] = [op |-> op, gen |-> registered[id], phase |-> phase]
<1>1. DropPending(id) => \A g \in Generations : <<id, g>> \notin pending'
  BY DEF DropPending
<1>2. EndStop(id) => stopping'[id] = NoStop
  BY DEF EndStop, TypeOK, ActorTypes
<1>3. EndEpoch(id) => epoch'[id] = <<"none", 0>>
  BY DEF EndEpoch, TypeOK, ActorTypes
<1>4. /\ Unregister(id) => registered'[id] = 0
      /\ \A g : UnregisterFor(id, g) /\ registered[id] \in {0, g} => registered'[id] = 0
  BY DEF Unregister, UnregisterFor, TypeOK, LifecycleTypes
<1>5. /\ \A status : Show(id, status) => shown'[id] = status
      /\ \A status : xfer' = [xfer EXCEPT ![id] = status] => xfer'[id] = status
  BY DEF Show, TypeOK, ResultTypes
<1>6. \A op, phase : BeginStop(id, op, phase) =>
              stopping'[id] = [op |-> op, gen |-> registered[id], phase |-> phase]
  BY DEF BeginStop, TypeOK, ActorTypes
<1> QED
  BY <1>1, <1>2, <1>3, <1>4, <1>5, <1>6

\* A parked permit excludes a pending task, and only a media download with a parked
\* permit has a process that nobody has told to stop.
LEMMA ParkedIsAlone ==
  ASSUME QueueFacts, NEW id \in Ids, IsOwned(id)
  PROVE  /\ active[id] # 0 => \A g \in Generations : <<id, g>> \notin pending
         /\ \A g \in Generations : worker[id][g] = "running" =>
              id \in MediaIds /\ registered[id] = g /\ active[id] = g /\ g # 0
<1>1. active[id] # 0 => ownership[id] # NoOwner
  BY ParkedIsRegistered
<1>2. \A g \in Generations : worker[id][g] = "running" =>
        id \in MediaIds /\ registered[id] = g /\ active[id] = g /\ g # 0
  BY GenerationNumbers DEF IsOwned, MediaIsOwner, MediaPcs, RunnerPcs
<1> QED
  BY <1>1, <1>2 DEF IsOwned, PendingIsAlone, Unowned

\* The aria2 transfer ends, or the user gives up a lifecycle that is at rest.
LEMMA EndingIsOwned ==
  ASSUME QueueFacts, TypeOK', NEW id \in Ids, IsOwned(id),
         ResumeUnmapped(id) \/ TransferEnds(id) \/ ConnectionLost(id)
  PROVE  IsOwned(id)'
<1> USE DEF QueueFacts
<1>1. /\ ControlFree(id)
      /\ UNCHANGED <<watermark, enq, pending, worker, resumer, removing, retriesAllowed, stopping>>
      /\ EndEpoch(id) /\ Unregister(id) /\ ReleasePermit(id)
      /\ xfer' = [xfer EXCEPT ![id] = "none"]
  BY DEF ResumeUnmapped, TransferEnds, ConnectionLost, ApplyCompletion, LockFree
<1>2. /\ registered'[id] = 0 /\ Cleared(id) /\ xfer'[id] = "none" /\ epoch'[id] = <<"none", 0>>
  BY <1>1, CommandValues, ReleasePermitClears
<1>3. \A g \in Generations : <<id, g>> \notin pending /\ worker[id][g] # "running"
  <2>1. CASE ResumeUnmapped(id)
    <3>1. \A g \in Generations : registered[id] = g => worker[id][g] = "idle" /\ <<id,
                 g>> \notin pending
      BY <1>1, <2>1 DEF ResumeUnmapped, Resumable, IsOwned, BusyIsShown, ControlFree
    <3> QED
      BY <3>1, ParkedIsAlone DEF IsOwned, PendingIsAlone
  <2>2. CASE TransferEnds(id) \/ ConnectionLost(id)
    <3>1. active[id] # 0 /\ id \in AriaIds
      BY <2>2 DEF TransferEnds, ConnectionLost, IsOwned, TransferIsOwned
    <3> QED
      BY <3>1, ParkedIsAlone DEF MediaIds
  <2> QED
    BY <2>1, <2>2
<1> QED
  BY <1>1, <1>2, <1>3, StopRetires

\* While a GID is mapped no worker of the registered generation is left.
LEMMA MappedIsAlone ==
  ASSUME QueueFacts, NEW id \in Ids, IsOwned(id), xfer[id] # "none"
  PROVE  /\ id \in AriaIds
         /\ \A g \in Generations : registered[id] = g => worker[id][g] = "idle"
<1>1. id \in AriaIds
  BY DEF IsOwned, TransferIsOwned
<1>2. ASSUME NEW g \in Generations, registered[id] = g PROVE worker[id][g] = "idle"
  <2>1. worker[id][g] \notin InHandPcs \cup InFlightPcs \cup MediaPcs
    BY <1>1, <1>2 DEF IsOwned, InHandIsOwner, InFlightIsOwner, MediaIsOwner, MediaIds
  <2> QED
    BY <2>1 DEF QueueFacts, TypeOK, ActorTypes, WorkerPcs
<1> QED
  BY <1>1, <1>2

\* A pause, of a mapped GID or of a task without one.
LEMMA PausedIsOwned ==
  ASSUME QueueFacts, TypeOK', NEW id \in Ids, IsOwned(id), PauseMapped(id) \/ PauseUnmapped(id)
  PROVE  IsOwned(id)'
<1> USE DEF QueueFacts
<1>1. /\ ControlFree(id) /\ stopping[id] = NoStop /\ id \notin removing
      /\ UNCHANGED <<watermark, enq, worker, resumer, removing, retriesAllowed, stopping>>
      /\ \A g \in Generations : <<id, g>> \notin pending'
      /\ Cleared(id)
  BY CommandValues, ReleasePermitClears DEF PauseMapped, PauseUnmapped, CanStop,
     ApplyCompletion, LockFree
<1>2. CASE PauseMapped(id) /\ ~ApplyCompletion(id, {"completed", "failed"})
  <2>1. /\ xfer[id] # "none" /\ xfer'[id] = "paused" /\ epoch'[id] = <<"none", 0>>
        /\ shown'[id] = "paused" /\ UNCHANGED registered
    BY <1>2, CommandValues DEF PauseMapped
  <2>2. id \in AriaIds /\ \A g \in Generations : registered[id] = g => worker[id][g] = "idle"
    BY <2>1, MappedIsAlone
  <2>3. StopIsOwner(id)'
    BY <1>1 DEF StopIsOwner, NoStop
  <2>4. Releases(id)
    BY <1>1, <2>1, <2>2 DEF Releases, IsOwned, MediaIsOwner, MediaIds
  <2> QED
    BY <1>1, <2>1, <2>3, <2>4, ReleasedIsOwned
<1>3. CASE PauseMapped(id) /\ ApplyCompletion(id, {"completed", "failed"})
  <2>1. /\ registered'[id] = 0 /\ xfer'[id] = "none" /\ epoch'[id] = <<"none", 0>>
    BY <1>3, CommandValues DEF ApplyCompletion
  <2>2. \A g \in Generations : worker[id][g] # "running"
    BY <1>3, ParkedIsAlone, MappedIsAlone DEF PauseMapped, MediaIds
  <2> QED
    BY <1>1, <2>1, <2>2, StopRetires
<1>4. CASE PauseUnmapped(id)
  <2>1. registered'[id] = 0 /\ xfer[id] = "none" /\ xfer'[id] = "none"
    <3>1. Unregister(id) /\ xfer[id] = "none" /\ UNCHANGED xfer
      BY <1>4 DEF PauseUnmapped
    <3> QED
      BY <3>1, CommandValues
  <2>3. epoch'[id] = <<"none", 0>> \/ (epoch'[id] = epoch[id] /\ active[id] = 0)
    <3>1. EndEpoch(id) \/ (UNCHANGED epoch /\ active[id] = 0)
      BY <1>4 DEF PauseUnmapped
    <3> QED
      BY <3>1, CommandValues
  <2>2. \A g \in Generations : worker[id][g] # "running"
    BY <1>4, ParkedIsAlone DEF PauseUnmapped, IsMediaActive
  <2> QED
    BY <1>1, <2>1, <2>2, <2>3, StopRetires
<1> QED
  BY <1>2, <1>3, <1>4

\* The first half of a pause, detach or removal of a running media transfer.
LEMMA StopMediaIsOwned ==
  ASSUME QueueFacts, NEW id \in Ids, IsOwned(id), NEW op, StopMedia(id, op),
         op = "remove" => id \in removing,
         EndEpoch(id) \/ UNCHANGED epoch
  PROVE  IsOwned(id)'
<1> USE DEF QueueFacts
<1>1. /\ ControlFree(id) /\ id \in MediaIds /\ active[id] # 0 /\ DropPending(id)
      /\ BeginStop(id, op, "sent")
      /\ UNCHANGED <<registered, watermark, enq, worker, resumer, ownership, active, xfer,
                     shown, removing, retriesAllowed>>
  BY DEF StopMedia, CanStop, LockFree, IsMediaActive, lifecycleVars, permitVars
<1>2. /\ \A g \in Generations : <<id, g>> \notin pending'
      /\ stopping'[id] = [op |-> op, gen |-> registered[id], phase |-> "sent"]
      /\ epoch'[id] \in {epoch[id], <<"none", 0>>}
  <2>1. epoch'[id] \in {epoch[id], <<"none", 0>>}
    BY CommandValues
  <2> QED
    BY <1>1, <2>1, CommandValues
<1>3. registered[id] \in Generations /\ active[id] = registered[id] /\ registered[id] <= Newest(id)'
  <2>1. registered[id] \in Generations /\ active[id] = registered[id]
    BY <1>1, ParkedIsRegistered
  <2>2. registered[id] = Newest(id)'
    BY <1>1, <2>1, GenerationNumbers DEF IsOwned, RegisteredIsNewest, ControlFree, Newest
  <2> QED
    BY <2>1, <2>2, GenerationNumbers
<1>4. StopIsOwner(id)'
  BY <1>1, <1>2, <1>3 DEF StopIsOwner
<1>5. Releases(id)
  BY <1>1, <1>2 DEF Releases, Kept
<1> QED
  BY <1>1, <1>2, <1>4, <1>5, ReleasedIsOwned

\* A detach for reconfiguration, of a transfer, a task or a running media download.
LEMMA DetachIsOwned ==
  ASSUME QueueFacts, TypeOK', NEW id \in Ids, IsOwned(id), Detach(id)
  PROVE  IsOwned(id)'
<1> USE DEF QueueFacts
<1>1. CASE StopMedia(id, "detach")
  BY <1>1, StopMediaIsOwned DEF Detach
<1>2. CASE ~StopMedia(id, "detach")
  <2>1. /\ ControlFree(id) /\ ~IsMediaActive(id)
        /\ DropPending(id) /\ Unregister(id) /\ EndEpoch(id)
        /\ xfer' = [xfer EXCEPT ![id] = "none"]
        /\ ReleasePermit(id) \/ ReleasePermitFor(id, registered[id])
        /\ UNCHANGED <<watermark, enq, worker, resumer, stopping, removing, retriesAllowed>>
    BY <1>2 DEF Detach, CanStop, LockFree
  <2>2. /\ \A g \in Generations : <<id, g>> \notin pending'
        /\ registered'[id] = 0 /\ xfer'[id] = "none" /\ epoch'[id] = <<"none", 0>>
    BY <2>1, CommandValues
  <2>3. Cleared(id)
    BY <2>1, RegisteredType, ReleasePermitClears, ReleasedForRegistered
  <2>4. \A g \in Generations : worker[id][g] # "running"
    BY <2>1, ParkedIsAlone DEF IsMediaActive
  <2> QED
    BY <2>1, <2>2, <2>3, <2>4, StopRetires
<1> QED
  BY <1>1, <1>2

\* The durable removal job fences the id.  The first half of a removal takes its GID,
\* its permit and its pending task away, or only the task when the daemon refuses.
LEMMA RemovalIsOwned ==
  ASSUME QueueFacts, TypeOK', NEW id \in Ids, IsOwned(id),
         SubmitRemoval(id) \/ RemovalRefused(id) \/ RemoveStop(id)
  PROVE  IsOwned(id)'
<1> USE DEF QueueFacts
<1>1. CASE SubmitRemoval(id) \/ RemovalRefused(id)
  <2>1. /\ ControlFree(id) /\ DropPending(id) /\ id \in removing'
        /\ id \in retriesAllowed' => id \in retriesAllowed \/ xfer[id] # "none"
        /\ stopping[id].op = "remove" => id \in removing'
        /\ UNCHANGED <<registered, watermark, enq, worker, resumer, ownership, active, epoch,
                       xfer, shown, stopping>>
    BY <1>1 DEF SubmitRemoval, RemovalRefused, CanStop, LockFree, lifecycleVars, permitVars
  <2>2. \A g \in Generations : <<id, g>> \notin pending'
    BY <2>1, CommandValues
  <2>3. StopIsOwner(id)'
    BY <2>1 DEF IsOwned, StopIsOwner, Newest
  <2>4. Releases(id)
    BY <2>1 DEF Releases, Kept
  <2> QED
    BY <2>1, <2>2, <2>3, <2>4, ReleasedIsOwned
<1>2. ASSUME RemoveStop(id), ~StopMedia(id, "remove") PROVE IsOwned(id)'
  <2>1. /\ ControlFree(id) /\ DropPending(id) /\ EndEpoch(id) /\ id \in removing
        /\ UNCHANGED <<registered, watermark, enq, worker, resumer, shown, removing>>
        /\ retriesAllowed' \subseteq retriesAllowed
        /\ \/ /\ xfer[id] # "none" /\ xfer' = [xfer EXCEPT ![id] = "none"]
              /\ ReleasePermit(id) /\ BeginStop(id, "remove", "cleanup")
           \/ /\ xfer[id] = "none" /\ UNCHANGED <<xfer, ownership, active>>
              /\ ~IsMediaActive(id) /\ BeginStop(id, "remove", "drain")
    BY <1>2 DEF RemoveStop, CanStop, LockFree, lifecycleVars, permitVars
  <2>2. (\A g \in Generations : <<id, g>> \notin pending') /\ epoch'[id] = <<"none", 0>>
    BY <2>1, CommandValues
  <2>3. CASE xfer[id] # "none"
    <3>1. /\ xfer'[id] = "none" /\ Cleared(id)
          /\ stopping'[id] = [op |-> "remove", gen |-> registered[id], phase |-> "cleanup"]
      BY <2>1, <2>3, CommandValues, ReleasePermitClears
    <3>2. StopIsOwner(id)'
      BY <2>1, <3>1 DEF StopIsOwner, Cleared
    <3>3. Releases(id)
      BY <2>1, <2>2, <2>3, <3>1, MappedIsAlone DEF Releases, IsOwned, MediaIsOwner, MediaIds
    <3> QED
      BY <2>1, <2>2, <3>2, <3>3, ReleasedIsOwned
  <2>4. CASE xfer[id] = "none"
    <3>1. /\ UNCHANGED <<xfer, ownership, active>>
          /\ stopping'[id] = [op |-> "remove", gen |-> registered[id], phase |-> "drain"]
      BY <2>1, <2>4, CommandValues
    <3>2. StopIsOwner(id)'
      BY <2>1, <2>4, <3>1 DEF StopIsOwner, IsMediaActive
    <3>3. Releases(id)
      BY <2>1, <2>2, <2>4, <3>1 DEF Releases, Kept
    <3> QED
      BY <2>1, <2>2, <3>2, <3>3, ReleasedIsOwned
  <2> QED
    BY <2>3, <2>4
<1>3. CASE RemoveStop(id) /\ StopMedia(id, "remove")
  BY <1>3, StopMediaIsOwned DEF RemoveStop
<1> QED
  BY <1>1, <1>2, <1>3

\* A command that waited for the media runner: what it finds when it has the lock again.
LEMMA AckedIsOwner ==
  ASSUME QueueFacts, NEW id \in Ids, IsOwned(id), StopAcked(id)
  PROVE  /\ id \in MediaIds /\ stopping[id].gen \in Generations
         /\ registered[id] = stopping[id].gen => active[id] = stopping[id].gen
         /\ xfer[id] = "none"
         /\ \A h \in Generations : worker[id][h] = "running" =>
              registered[id] = h /\ h # stopping[id].gen /\ h # 0
         /\ registered[id] \in {0, stopping[id].gen} =>
              \A h \in Generations : <<id, h>> \notin pending
<1> DEFINE g == stopping[id].gen
<1>1. stopping[id].phase \in {"acked", "waiting"}
  BY DEF StopAcked
<1>2. /\ id \in MediaIds /\ g \in Generations /\ worker[id][g] # "running"
      /\ registered[id] = g => active[id] = g
  BY <1>1 DEF IsOwned, StopIsOwner
<1>3. xfer[id] = "none"
  BY <1>2 DEF IsOwned, TransferIsOwned, MediaIds
<1>4. \A h \in Generations : worker[id][h] = "running" => registered[id] = h /\ h # g /\ h # 0
  BY <1>2, GenerationNumbers, ParkedIsAlone
<1>5. registered[id] = g => \A h \in Generations : <<id, h>> \notin pending
  BY <1>2, GenerationNumbers, ParkedIsAlone
<1>6. registered[id] = 0 => \A h \in Generations : <<id, h>> \notin pending
  BY GenerationNumbers DEF IsOwned, PendingIsAlone
<1> QED
  BY <1>2, <1>3, <1>4, <1>5, <1>6

\* The second half of a command that ends nothing.
LEMMA FinishKeeps ==
  ASSUME QueueFacts, NEW id \in Ids, IsOwned(id), ControlFree(id),
         EndStop(id), Kept(id),
         UNCHANGED <<registered, watermark, enq, pending, worker, resumer, epoch, xfer,
                     removing, retriesAllowed>>,
         shown'[id] = shown[id] \/ registered[id] = 0 \/ id \in removing
  PROVE  IsOwned(id)'
<1>1. StopIsOwner(id)'
  BY CommandValues DEF QueueFacts, StopIsOwner, NoStop
<1>2. \A g \in Generations : <<id, g>> \in pending' => <<id, g>> \in pending /\ Unowned(id)'
  BY DEF Unowned, IsOwned, PendingIsAlone, Kept
<1>3. Releases(id)
  BY GenerationNumbers DEF Releases
<1> QED
  BY <1>1, <1>2, <1>3, ReleasedIsOwned

\* The second half of a pause finds the lifecycle it stopped, or leaves it alone.
LEMMA FinishPauseIsOwned ==
  ASSUME QueueFacts, TypeOK', NEW id \in Ids, IsOwned(id), FinishPause(id)
  PROVE  IsOwned(id)'
<1> USE DEF QueueFacts
<1>1. /\ ControlFree(id) /\ StopAcked(id) /\ EndStop(id)
      /\ UNCHANGED <<watermark, enq, pending, worker, epoch, xfer, resumer,
                     removing, retriesAllowed>>
  BY DEF FinishPause, LockFree
<1>2. CASE Kept(id) /\ UNCHANGED registered
  <2>1. shown'[id] = shown[id] \/ registered[id] = 0
    <3>1. \/ ReleasePermit(id) /\ Unregister(id) /\ active[id] # 0
          \/ registered[id] = 0
          \/ UNCHANGED shown
      BY DEF FinishPause
    <3>2. ~(ReleasePermit(id) /\ active[id] # 0)
      BY <1>2, ReleasePermitClears DEF Kept, Cleared
    <3> QED
      BY <3>1, <3>2
  <2> QED
    BY <1>1, <1>2, <2>1, FinishKeeps
<1>3. CASE ~(Kept(id) /\ UNCHANGED registered)
  <2>1. /\ ReleasePermit(id) /\ Unregister(id)
        /\ registered[id] = stopping[id].gen
    BY <1>3 DEF FinishPause, Kept
  <2>2. Cleared(id) /\ registered'[id] = 0 /\ stopping'[id] = NoStop
    BY <1>1, <2>1, CommandValues, ReleasePermitClears
  <2> QED
    BY <1>1, <2>1, <2>2, AckedIsOwner, StopRetires
<1> QED
  BY <1>2, <1>3

\* The second half of a detach, likewise.
LEMMA FinishDetachIsOwned ==
  ASSUME QueueFacts, TypeOK', NEW id \in Ids, IsOwned(id), FinishDetach(id)
  PROVE  IsOwned(id)'
<1> USE DEF QueueFacts
<1>1. /\ ControlFree(id) /\ StopAcked(id) /\ EndStop(id)
      /\ UNCHANGED <<watermark, enq, pending, worker, epoch, xfer, resumer,
                     removing, retriesAllowed>>
  BY DEF FinishDetach, LockFree
<1>2. CASE UNCHANGED <<ownership, active, registered, shown>>
  BY <1>1, <1>2, FinishKeeps DEF Kept
<1>3. CASE ~UNCHANGED <<ownership, active, registered, shown>>
  <2>1. /\ ReleasePermitFor(id, stopping[id].gen) /\ UnregisterFor(id, stopping[id].gen)
        /\ registered[id] \in {0, stopping[id].gen}
    BY <1>3 DEF FinishDetach
  <2>2. Cleared(id)
    BY <2>1, StopTypes, ReleasedForRegistered
  <2>3. registered'[id] = 0 /\ stopping'[id] = NoStop
    BY <1>1, <2>1, CommandValues
  <2> QED
    BY <1>1, <2>1, <2>2, <2>3, AckedIsOwner, StopRetires
<1> QED
  BY <1>2, <1>3

\* The second half of a removal, after the cleanup, the drain or the acknowledgement.
LEMMA FinishRemoveIsOwned ==
  ASSUME QueueFacts, TypeOK', NEW id \in Ids, IsOwned(id), FinishRemove(id)
  PROVE  IsOwned(id)'
<1> USE DEF QueueFacts
<1> DEFINE g == stopping[id].gen
<1>1. /\ ControlFree(id) /\ EndStop(id) /\ id \in removing
      /\ stopping'[id] = NoStop
      /\ UNCHANGED <<watermark, enq, pending, worker, resumer, removing, retriesAllowed>>
      /\ \A h \in Generations : <<id, h>> \notin pending
  <2>1. ControlFree(id) /\ EndStop(id) /\ stopping[id].op = "remove"
        /\ UNCHANGED <<watermark, enq, pending, worker, resumer, removing, retriesAllowed>>
    BY DEF FinishRemove, LockFree
  <2>2. id \in removing
    BY <2>1 DEF IsOwned, StopIsOwner
  <2> QED
    BY <2>1, <2>2, CommandValues DEF IsOwned, PendingIsAlone, Unowned
<1>2. CASE stopping[id].phase = "cleanup"
  <2>1. /\ xfer[id] = "none" /\ ownership[id] = NoOwner /\ active[id] = 0
        /\ UNCHANGED <<ownership, active, epoch, xfer>>
        /\ Unregister(id) \/ UNCHANGED <<registered, shown>>
    <3>1. ownership[id] = NoOwner /\ xfer[id] = "none"
      BY <1>2 DEF IsOwned, StopIsOwner
    <3> QED
      BY <1>2, <3>1, NoOwnerParksNothing DEF FinishRemove, NoOwner, StopAcked
  <2>2. CASE Unregister(id)
    <3>1. registered'[id] = 0 /\ Cleared(id)
      BY <2>1, <2>2, CommandValues DEF Cleared
    <3> QED
      BY <1>1, <2>1, <3>1, ParkedIsAlone, StopRetires
  <2>3. CASE UNCHANGED <<registered, shown>>
    BY <1>1, <2>1, <2>3, FinishKeeps DEF Kept
  <2> QED
    BY <2>1, <2>2, <2>3
<1>3. CASE stopping[id].phase = "drain"
  <2>1. xfer[id] = "none" /\ (id \in MediaIds => active[id] = 0)
    BY <1>3 DEF IsOwned, StopIsOwner
  <2>2. CASE registered[id] # g
    <3>1. ReleasePermitFor(id, g) /\ UNCHANGED <<epoch, xfer, registered, shown>>
      BY <1>3, <2>2 DEF FinishRemove
    <3>2. Kept(id)
      BY <2>2, <3>1, StopTypes, ReleasedForOther
    <3> QED
      BY <1>1, <3>1, <3>2, FinishKeeps
  <2>3. CASE registered[id] = g
    <3>1. /\ EndEpoch(id) /\ ReleasePermit(id) /\ xfer' = [xfer EXCEPT ![id] = "none"]
          /\ Unregister(id) \/ UNCHANGED <<registered, shown>>
      BY <1>3, <2>3 DEF FinishRemove
    <3>2. /\ epoch'[id] = <<"none", 0>> /\ Cleared(id) /\ xfer'[id] = "none"
          /\ registered'[id] = 0 \/ UNCHANGED <<registered, shown>>
      <4>1. epoch'[id] = <<"none", 0>> /\ xfer'[id] = "none"
        BY <3>1, CommandValues
      <4>2. registered'[id] = 0 \/ UNCHANGED <<registered, shown>>
        BY <3>1, CommandValues
      <4> QED
        BY <3>1, <4>1, <4>2, ReleasePermitClears
    <3>3. CASE registered'[id] = 0
      <4>1. \A h \in Generations : worker[id][h] # "running"
        BY <2>1, ParkedIsAlone
      <4> QED
        BY <1>1, <3>2, <3>3, <4>1, StopRetires
    <3>4. CASE UNCHANGED <<registered, shown>>
      <4>1. \A h \in Generations : worker[id][h] \in MediaPcs => registered[id] # h
        BY <2>1, GenerationNumbers DEF IsOwned, MediaIsOwner
      <4>2. Releases(id)
        BY <1>1, <2>1, <3>2, <3>4, <4>1 DEF Releases
      <4>3. StopIsOwner(id)'
        BY <1>1 DEF StopIsOwner, NoStop
      <4> QED
        BY <1>1, <3>4, <4>2, <4>3, ReleasedIsOwned
    <3> QED
      BY <3>2, <3>3, <3>4
  <2> QED
    BY <2>2, <2>3
<1>4. CASE stopping[id].phase \notin {"cleanup", "drain"}
  <2>1. StopAcked(id) /\ stopping[id].phase \in {"acked", "waiting"} /\ UNCHANGED <<epoch, xfer>>
    BY <1>4 DEF FinishRemove, StopAcked
  <2>2. CASE registered[id] \notin {0, g}
    <3>1. UNCHANGED <<ownership, active, registered, shown>>
      BY <1>4, <2>1, <2>2 DEF FinishRemove
    <3> QED
      BY <1>1, <2>1, <3>1, FinishKeeps DEF Kept
  <2>3. CASE registered[id] \in {0, g}
    <3>1. ReleasePermitFor(id, g) /\ (Unregister(id) \/ UnregisterFor(id, g))
      BY <1>4, <2>1, <2>3 DEF FinishRemove
    <3>2. Cleared(id)
      BY <2>3, <3>1, StopTypes, ReleasedForRegistered
    <3>3. registered'[id] = 0
      BY <2>3, <3>1, CommandValues
    <3>4. /\ xfer[id] = "none" /\ id \in MediaIds
          /\ \A h \in Generations : worker[id][h] # "running"
      BY <2>1, <2>3, AckedIsOwner
    <3> QED
      BY <1>1, <2>1, <3>2, <3>3, <3>4, StopRetires
  <2> QED
    BY <2>2, <2>3
<1> QED
  BY <1>2, <1>3, <1>4

\* The coordinator's answer tells the runner to stop or finds none registered.
LEMMA CoordinatorIsOwned ==
  ASSUME QueueFacts, NEW id \in Ids, IsOwned(id), CoordinatorStop(id)
  PROVE  IsOwned(id)'
<1> USE DEF QueueFacts
<1> DEFINE g == stopping[id].gen
<1>1. /\ stopping[id].phase = "sent"
      /\ UNCHANGED <<registered, watermark, enq, pending, ownership, active, epoch, xfer, resumer,
                     shown, removing, retriesAllowed>>
  BY DEF CoordinatorStop, lifecycleVars, permitVars
<1>2. /\ id \in MediaIds /\ g \in Generations /\ g # 0 /\ g <= Newest(id)
      /\ registered[id] = g => active[id] = g
      /\ Newest(id)' = Newest(id)
  BY <1>1, GenerationNumbers DEF IsOwned, StopIsOwner, Newest
<1>3. /\ \A h \in Generations \ {g} : worker'[id][h] = worker[id][h]
      /\ \/ worker'[id][g] = worker[id][g] /\ worker[id][g] # "running"
         \/ worker'[id][g] = "cancelling" /\ worker[id][g] = "running"
  <2>1. CASE worker[id][g] = "running"
    <3>1. SetWorker(id, g, "cancelling")
      BY <1>2, <2>1 DEF CoordinatorStop, RunnerPcs
    <3> QED
      BY <1>2, <2>1, <3>1, SetWorkerValue
  <2>2. CASE worker[id][g] # "running"
    BY <2>2 DEF CoordinatorStop
  <2> QED
    BY <2>1, <2>2
<1>4. \A h \in Generations :
        /\ worker'[id][h] \in InHandPcs => worker'[id][h] = worker[id][h]
        /\ worker'[id][h] \in InFlightPcs => worker'[id][h] = worker[id][h]
        /\ worker'[id][h] \in MediaPcs => worker[id][h] \in MediaPcs
        /\ worker'[id][h] = "running" => worker[id][h] = "running"
        /\ worker[id][h] = "idle" => worker'[id][h] = "idle"
  BY <1>3 DEF InHandPcs, InFlightPcs, MediaPcs, RunnerPcs
<1>5. RegisteredIsNewest(id)' /\ OwnerIsRegistered(id)' /\ TransferIsOwned(id)'
  BY <1>1 DEF IsOwned, RegisteredIsNewest, OwnerIsRegistered, TransferIsOwned
<1>6. EnqueueIsAlone(id)' /\ PendingIsAlone(id)'
  BY <1>1 DEF IsOwned, EnqueueIsAlone, PendingIsAlone, Unowned
<1>7. InHandIsOwner(id)' /\ MediaIsOwner(id)'
  BY <1>1, <1>4 DEF IsOwned, InHandIsOwner, MediaIsOwner, HasReservation
<1>8. InFlightIsOwner(id)'
  BY <1>1, <1>4 DEF IsOwned, InFlightIsOwner
<1>9. ResumersAreOwners(id)'
  <2> SUFFICES ASSUME NEW r \in Resumers PROVE ResumerIsOwner(id, r)'
    BY DEF ResumersAreOwners
  <2>1. ResumerIsOwner(id, r)
    BY DEF IsOwned, ResumersAreOwners
  <2> QED
    BY <1>1, <1>2, <1>4, <2>1 DEF ResumerIsOwner, RetriesCancelled
<1>10. StopIsOwner(id)'
  <2>1. \/ stopping'[id] = [stopping[id] EXCEPT !.phase = "waiting"] /\ worker[id][g] \in RunnerPcs
        \/ stopping'[id] = [stopping[id] EXCEPT !.phase = "acked"]
    BY <1>2 DEF CoordinatorStop, TypeOK, ActorTypes
  <2>2. /\ stopping'[id].op = stopping[id].op /\ stopping'[id].gen = g
        /\ stopping'[id].phase \in {"waiting", "acked"}
        /\ stopping'[id].phase = "waiting" => worker[id][g] \in RunnerPcs
    BY <2>1 DEF TypeOK, ActorTypes
  <2>3. worker[id][g] \in RunnerPcs => worker'[id][g] \in RunnerPcs
    BY <1>3 DEF RunnerPcs
  <2> QED
    BY <1>1, <1>2, <1>3, <2>2, <2>3 DEF IsOwned, StopIsOwner, RunnerPcs, InHandPcs
<1>11. BusyIsShown(id)'
  BY <1>1, <1>4 DEF IsOwned, BusyIsShown
<1> QED
  BY <1>5, <1>6, <1>7, <1>8, <1>9, <1>10, <1>11 DEF IsOwned

\* Every command keeps the owner of its id right.
LEMMA StopIsOwned ==
  ASSUME QueueFacts, TypeOK', NEW id \in Ids, IsOwned(id), StopStep(id)
  PROVE  IsOwned(id)'
<1>1. CASE ResumeUnmapped(id) \/ TransferEnds(id) \/ ConnectionLost(id)
  BY <1>1, EndingIsOwned
<1>2. CASE PauseMapped(id) \/ PauseUnmapped(id)
  BY <1>2, PausedIsOwned
<1>3. CASE PauseMedia(id)
  BY <1>3, StopMediaIsOwned DEF PauseMedia
<1>4. CASE CoordinatorStop(id)
  BY <1>4, CoordinatorIsOwned
<1>5. CASE FinishPause(id)
  BY <1>5, FinishPauseIsOwned
<1>6. CASE Detach(id)
  BY <1>6, DetachIsOwned
<1>7. CASE FinishDetach(id)
  BY <1>7, FinishDetachIsOwned
<1>8. CASE SubmitRemoval(id) \/ RemovalRefused(id) \/ RemoveStop(id)
  BY <1>8, RemovalIsOwned
<1>9. CASE FinishRemove(id)
  BY <1>9, FinishRemoveIsOwned
<1> QED
  BY <1>1, <1>2, <1>3, <1>4, <1>5, <1>6, <1>7, <1>8, <1>9 DEF StopStep

-----------------------------------------------------------------------------
(* The theorems.                                                           *)

\* Nothing is registered, owned or at work at the start.
LEMMA InitOwners == Init => OwnerInvariant
<1> SUFFICES ASSUME Init, NEW id \in Ids PROVE IsOwned(id)
  BY DEF OwnerInvariant
<1>1. /\ registered[id] = 0 /\ enq[id] = NoEnqueue /\ pending = {} /\ ownership[id] = NoOwner
      /\ xfer[id] = "none" /\ stopping[id] = NoStop /\ shown[id] = "none"
      /\ \A g \in Generations : worker[id][g] = "idle"
      /\ \A r \in Resumers : resumer[r].pc = "idle"
  BY IdleResumerType DEF Init
<1>2. RegisteredIsNewest(id) /\ OwnerIsRegistered(id) /\ TransferIsOwned(id)
  BY <1>1 DEF RegisteredIsNewest, OwnerIsRegistered, TransferIsOwned, NoOwner
<1>3. EnqueueIsAlone(id) /\ PendingIsAlone(id)
  BY <1>1 DEF EnqueueIsAlone, PendingIsAlone, NoEnqueue
<1>4. InHandIsOwner(id) /\ InFlightIsOwner(id) /\ MediaIsOwner(id)
  BY <1>1 DEF InHandIsOwner, InFlightIsOwner, MediaIsOwner, InHandPcs, InFlightPcs, MediaPcs,
     RunnerPcs
<1>5. ResumersAreOwners(id)
  BY <1>1 DEF ResumersAreOwners, ResumerIsOwner
<1>6. StopIsOwner(id) /\ BusyIsShown(id)
  BY <1>1 DEF StopIsOwner, BusyIsShown, NoStop
<1> QED
  BY <1>2, <1>3, <1>4, <1>5, <1>6 DEF IsOwned

\* A step keeps the id it is for owned, and touches no other.
LEMMA NextOwners ==
  QueueFacts /\ TypeOK' /\ OwnerInvariant /\ [Next]_vars => OwnerInvariant'
<1> SUFFICES ASSUME QueueFacts, TypeOK', OwnerInvariant, [Next]_vars, NEW i \in Ids
             PROVE  IsOwned(i)'
  BY DEF OwnerInvariant
<1>0. IsOwned(i) /\ TypeOK /\ ReservationsMatchPermits
  BY DEF OwnerInvariant, QueueFacts
<1>1. ASSUME Untouched(i) PROVE IsOwned(i)'
  BY <1>0, <1>1, UntouchedIsOwned
<1>2. ASSUME NEW id \in Ids, EnqueueStep(id) PROVE IsOwned(i)'
  <2>1. CASE id = i
    BY <1>0, <1>2, <2>1, EnqueueIsOwned
  <2>2. CASE id # i
    BY <1>0, <1>1, <1>2, <2>2, EnqueueElsewhere
  <2> QED
    BY <2>1, <2>2
<1>3. ASSUME NEW id \in Ids, StopStep(id) PROVE IsOwned(i)'
  <2>1. CASE id = i
    BY <1>0, <1>3, <2>1, StopIsOwned
  <2>2. CASE id # i
    BY <1>0, <1>1, <1>3, <2>2, StopElsewhere
  <2> QED
    BY <2>1, <2>2
<1>4. ASSUME NEW id \in Ids, NEW g \in Generations, TryAdmit(id, g) PROVE IsOwned(i)'
  <2>1. CASE id = i
    BY <1>0, <1>4, <2>1, TryAdmitIsOwned
  <2>2. CASE id # i
    BY <1>0, <1>1, <1>4, <2>2, TryAdmitElsewhere
  <2> QED
    BY <2>1, <2>2
<1>5. ASSUME NEW id \in Ids, NEW g \in Generations, WorkerStep(id, g) PROVE IsOwned(i)'
  <2>1. CASE id = i
    BY <1>0, <1>5, <2>1, WorkerIsOwned
  <2>2. CASE id # i
    BY <1>0, <1>1, <1>5, <2>2, WorkerElsewhere
  <2> QED
    BY <2>1, <2>2
<1>6. ASSUME NEW r \in Resumers, NEW id \in Ids, ResumePaused(id, r) PROVE IsOwned(i)'
  <2>1. CASE id = i
    BY <1>0, <1>6, <2>1, ResumedIsOwned
  <2>2. CASE id # i
    BY <1>0, <1>1, <1>6, <2>2, ResumeElsewhere
  <2> QED
    BY <2>1, <2>2
<1>7. ASSUME NEW r \in Resumers,
             StartResume(r) \/ ResumeReserve(r) \/ ResumeGiveUp(r) \/ ResumeUnpause(r)
               \/ ResumeSettles(r)
      PROVE IsOwned(i)'
  <2>1. CASE resumer[r].id = i
    BY <1>0, <1>7, <2>1, ResumeIsOwned
  <2>2. CASE resumer[r].id # i
    <3>1. resumer[r].id \in Ids
      BY <1>0, ResumerTypes
    <3> QED
      BY <1>0, <1>1, <1>7, <2>2, <3>1, ResumeElsewhere
  <2> QED
    BY <2>1, <2>2
<1>8. ASSUME EnvironmentStep \/ UNCHANGED vars PROVE IsOwned(i)'
  BY <1>1, <1>8, EnvironmentElsewhere
<1> QED
  BY <1>2, <1>3, <1>4, <1>5, <1>6, <1>7, <1>8 DEF Next, ResumeStep

\* In every behaviour each id keeps its pieces together: whoever owns its permit, its
\* GID, its control epoch or its process is the registered lifecycle, or is on its way
\* to find out that it is not.
THEOREM OwnersAreCorrect == Spec => []OwnerInvariant
<1>1. TypeOK /\ PermitInvariant /\ ReservationsMatchPermits => QueueFacts
  BY DEF QueueFacts
<1> QED
  BY <1>1, TypeCorrect, PermitsAreConserved, ReservationsAreCorrect, InitOwners, NextOwners, PTL
     DEF Spec

\* What the invariant says of one state.
LEMMA OwnersHaveOneWork ==
  QueueFacts /\ OwnerInvariant => WorkHasOneOwner /\ OneRunnerPerDownload
<1> SUFFICES ASSUME QueueFacts, OwnerInvariant
             PROVE  WorkHasOneOwner /\ OneRunnerPerDownload
  OBVIOUS
<1>1. TransfersHoldPermits
  <2> SUFFICES ASSUME NEW id \in Ids
               PROVE  /\ xfer[id] = "live" => active[id] # 0
                      /\ xfer[id] # "none" => registered[id] # 0
                      /\ \A g \in Generations :
                           worker[id][g] \in InFlightPcs /\ IsCurrentDispatch(id, g) =>
                             active[id] = g /\ registered[id] = g /\ xfer[id] = "none"
    BY DEF TransfersHoldPermits
  <2>1. IsOwned(id)
    BY DEF OwnerInvariant
  <2>2. (xfer[id] = "live" => active[id] # 0) /\ (xfer[id] # "none" => registered[id] # 0)
    BY <2>1 DEF IsOwned, TransferIsOwned
  <2>3. ASSUME NEW g \in Generations, worker[id][g] \in InFlightPcs, IsCurrentDispatch(id, g)
        PROVE  active[id] = g /\ registered[id] = g /\ xfer[id] = "none"
    BY <2>1, <2>3, DispatchIsRegistered DEF IsCurrentDispatch
  <2> QED
    BY <2>2, <2>3
<1>2. PendingIsUnowned
  <2> SUFFICES ASSUME NEW id \in Ids, NEW g \in Generations, <<id, g>> \in pending
               PROVE  /\ registered[id] = g /\ active[id] = 0 /\ xfer[id] = "none"
                      /\ worker[id][g] = "idle"
    BY DEF PendingIsUnowned
  <2>1. registered[id] = g /\ Unowned(id)
    BY DEF OwnerInvariant, IsOwned, PendingIsAlone
  <2>2. active[id] = 0
    BY <2>1, NoOwnerParksNothing DEF Unowned, NoOwner
  <2>3. worker[id][g] = "idle"
    BY DEF QueueFacts, PermitInvariant, GenerationsAreFresh, HasFreshGenerations
  <2> QED
    BY <2>1, <2>2, <2>3 DEF Unowned
<1>3. OneRunnerPerDownload
  BY ParkedIsAlone DEF OwnerInvariant, OneRunnerPerDownload
<1> QED
  BY <1>1, <1>2, <1>3 DEF WorkHasOneOwner

\* In every behaviour a transfer that runs holds the permit and the registration of its
\* id, and a task that waits for admission belongs to a lifecycle that owns neither.
THEOREM WorkIsOwned == Spec => []WorkHasOneOwner
<1>1. TypeOK /\ PermitInvariant /\ ReservationsMatchPermits => QueueFacts
  BY DEF QueueFacts
<1> QED
  BY <1>1, OwnersHaveOneWork, TypeCorrect, PermitsAreConserved, ReservationsAreCorrect,
     OwnersAreCorrect, PTL

\* In every behaviour at most one generation of a download runs a media process that
\* nobody has told to stop, however often the download was paused and started again.
THEOREM RunnersAreSingle == Spec => []OneRunnerPerDownload
<1>1. TypeOK /\ PermitInvariant /\ ReservationsMatchPermits => QueueFacts
  BY DEF QueueFacts
<1> QED
  BY <1>1, OwnersHaveOneWork, TypeCorrect, PermitsAreConserved, ReservationsAreCorrect,
     OwnersAreCorrect, PTL

-----------------------------------------------------------------------------
(* The fences of the queue manager, as properties of every step: a worker  *)
(* of an older generation, a removal, a system action and an exit request. *)
(* They follow from who owns what: the worker that could break a fence     *)
(* finds that it is not the owner it was.                                  *)

(* Workers of older generations.                                           *)

\* A worker that is not the registered one finds nothing of its own to release.
LEMMA StaleOwnsNothing ==
  ASSUME QueueFacts, NEW id \in Ids, NEW g \in Generations, IsOwned(id), registered[id] # g
  PROVE  ownership[id].gen # g /\ active[id] # g /\ ~HasReservation(id, g)
<1>1. ownership[id].gen # g /\ active[id] # g
  BY GenerationNumbers, ParkedIsRegistered DEF IsOwned, OwnerIsRegistered
<1> QED
  BY <1>1 DEF HasReservation

\* None of its steps reaches the permit, the GID, the registration or a pending task
\* of its id.
LEMMA StaleWorkerStep ==
  ASSUME QueueFacts, NEW id \in Ids, NEW g \in Generations, IsOwned(id), WorkerStep(id, g),
         registered[id] # g
  PROVE  /\ registered'[id] = registered[id] /\ Kept(id) /\ xfer'[id] = xfer[id]
         /\ pending \subseteq pending'
<1> USE StaleOwnsNothing DEF Kept, lifecycleVars, permitVars
<1>1. CASE DispatchHeld(id, g) \/ StartAddUri(id, g) \/ PublishMedia(id, g)
             \/ RegisterRunner(id, g) \/ EndRunner(id, g) \/ DaemonUnreachable(id, g)
  BY <1>1 DEF DispatchHeld, StartAddUri, PublishMedia, RegisterRunner, EndRunner, DaemonUnreachable
<1>2. CASE DispatchCheck(id, g)
  BY <1>2 DEF DispatchCheck, ReleaseReservation
<1>3. CASE Activate(id, g)
  BY <1>3 DEF Activate, IsOwned, InHandIsOwner, InHandPcs
<1>4. CASE RestoreInHand(id, g) \/ RestoreHeldBack(id, g)
  BY <1>4 DEF RestoreInHand, RestoreHeldBack, Restore
<1>5. CASE AddUriAccepted(id, g) \/ AddUriRejected(id, g) \/ RestoreUnreachable(id, g)
  <2>1. ~IsCurrentDispatch(id, g)
    BY <1>5, DispatchIsRegistered DEF AddUriAccepted, AddUriRejected, RestoreUnreachable,
       IsCurrentDispatch, InFlightPcs
  <2> QED
    BY <1>5, <2>1 DEF AddUriAccepted, AddUriRejected, RestoreUnreachable
<1>6. CASE StartMediaRunner(id, g) \/ FinishRunner(id, g)
  BY <1>6 DEF StartMediaRunner, FinishRunner, ReleasePermitFor, UnregisterFor
<1> QED
  BY <1>1, <1>2, <1>3, <1>4, <1>5, <1>6 DEF WorkerStep

\* Only its admission, its own steps and the coordinator's answer move a worker.
LEMMA WorkerMovers ==
  ASSUME TypeOK, [Next]_vars, NEW id \in Ids, NEW g \in Generations, worker'[id][g] # worker[id][g]
  PROVE  TryAdmit(id, g) \/ WorkerStep(id, g) \/ CoordinatorStop(id)
<1>1. ASSUME UNCHANGED worker PROVE FALSE
  BY <1>1
<1>2. ASSUME NEW i \in Ids, EnqueueStep(i) PROVE UNCHANGED worker
  BY <1>2 DEF EnqueueStep, ReserveEnqueue, CancelEnqueue, AbandonEnqueue, CommitEnqueue,
     FinishCommit
<1>3. ASSUME NEW i \in Ids, StopStep(i)
      PROVE  CoordinatorStop(id)
  <2>1. CASE CoordinatorStop(i)
    <3>1. i = id
      BY <2>1 DEF CoordinatorStop, SetWorker, TypeOK, ActorTypes
    <3> QED
      BY <2>1, <3>1
  <2>2. CASE ~CoordinatorStop(i)
    BY <1>1, <1>3, <2>2 DEF StopStep, ResumeUnmapped, TransferEnds, ConnectionLost, PauseMapped,
       PauseUnmapped, PauseMedia, FinishPause, Detach, FinishDetach, SubmitRemoval,
       RemovalRefused, RemoveStop, FinishRemove, StopMedia
  <2> QED
    BY <2>1, <2>2
<1>4. ASSUME NEW i \in Ids, NEW h \in Generations, TryAdmit(i, h) \/ WorkerStep(i, h)
      PROVE  i = id /\ h = g
  <2>1. \E pc : SetWorker(i, h, pc)
    BY <1>4 DEF TryAdmit, WorkerStep, DispatchHeld, DispatchCheck, Activate, RestoreInHand,
       StartAddUri, RestoreHeldBack, AddUriAccepted, AddUriRejected, DaemonUnreachable,
       RestoreUnreachable, PublishMedia, StartMediaRunner, RegisterRunner, EndRunner,
       FinishRunner
  <2> QED
    BY <2>1 DEF SetWorker, TypeOK, ActorTypes
<1>5. ASSUME NEW r \in Resumers, ResumeStep(r) PROVE UNCHANGED worker
  BY <1>5 DEF ResumeStep, ResumePaused, StartResume, ResumeReserve, ResumeGiveUp, ResumeUnpause,
     ResumeSettles
<1>6. ASSUME EnvironmentStep PROVE UNCHANGED worker
  BY <1>6 DEF EnvironmentStep, SetCapacity, ApplyResize, RetireFreeSlots, ReplaceQueueLimits,
     BeginHold, EndHold, DaemonRecovers, BeginSystemAction, EndSystemAction, ExitStep
<1> QED
  BY <1>1, <1>2, <1>3, <1>4, <1>5, <1>6 DEF Next, vars

\* A step that moves a worker which is not the registered one.
LEMMA StaleStepIsHarmless ==
  ASSUME QueueFacts, OwnerInvariant, [Next]_vars, NEW id \in Ids, NEW g \in Generations,
         worker'[id][g] # worker[id][g], registered[id] \notin {0, g}
  PROVE  /\ registered'[id] = registered[id] /\ Kept(id) /\ xfer'[id] = xfer[id]
         /\ \A h \in Generations \ {g} : <<id, h>> \in pending => <<id, h>> \in pending'
<1>1. IsOwned(id) /\ TypeOK
  BY DEF OwnerInvariant, QueueFacts
<1>2. CASE TryAdmit(id, g)
  BY <1>1, <1>2 DEF TryAdmit, Eligible, IsOwned, PendingIsAlone
<1>3. CASE WorkerStep(id, g)
  BY <1>1, <1>3, StaleWorkerStep
<1>4. CASE CoordinatorStop(id)
  BY <1>4 DEF CoordinatorStop, Kept, lifecycleVars, permitVars
<1> QED
  BY <1>1, <1>2, <1>3, <1>4, WorkerMovers

\* A worker left over from an older generation never touches what belongs to the
\* lifecycle registered now, whenever it wakes up.
THEOREM StaleWorkersAreFenced == Spec => StaleWorkersAreHarmless
<1>1. QueueFacts /\ OwnerInvariant /\ [Next]_vars =>
        [\A id \in Ids, g \in Generations :
           worker'[id][g] # worker[id][g] /\ registered[id] \notin {0, g} =>
             /\ registered'[id] = registered[id]
             /\ active'[id] = active[id]
             /\ ownership'[id] = ownership[id]
             /\ xfer'[id] = xfer[id]
             /\ \A h \in Generations \ {g} : <<id, h>> \in pending => <<id, h>> \in pending']_vars
  BY StaleStepIsHarmless DEF Kept
<1>2. TypeOK /\ PermitInvariant /\ ReservationsMatchPermits => QueueFacts
  BY DEF QueueFacts
<1> QED
  BY <1>1, <1>2, TypeCorrect, PermitsAreConserved, ReservationsAreCorrect, OwnersAreCorrect, PTL
     DEF Spec, StaleWorkersAreHarmless

-----------------------------------------------------------------------------
(* Removals, system actions and exits.                                     *)

\* A step on another id leaves what the id owns, its epoch and its GID.
LEMMA OtherStepsKeep ==
  ASSUME QueueFacts, [Next]_vars, NEW id \in Ids
  PROVE  \/ Kept(id) /\ SameTransfer(id)
         \/ EnqueueStep(id) \/ StopStep(id)
         \/ \E g \in Generations : TryAdmit(id, g) \/ WorkerStep(id, g)
         \/ \E r \in Resumers :
              \/ ResumePaused(id, r)
              \/ /\ resumer[r].id = id
                 /\ \/ StartResume(r) \/ ResumeReserve(r) \/ ResumeGiveUp(r)
                    \/ ResumeUnpause(r) \/ ResumeSettles(r)
<1> USE DEF QueueFacts
<1>1. ASSUME Untouched(id) PROVE Kept(id) /\ SameTransfer(id)
  BY <1>1 DEF Untouched
<1>2. ASSUME NEW i \in Ids \ {id}, EnqueueStep(i) \/ StopStep(i)
      PROVE  Kept(id) /\ SameTransfer(id)
  BY <1>1, <1>2, EnqueueElsewhere, StopElsewhere
<1>3. ASSUME NEW i \in Ids \ {id}, NEW g \in Generations, TryAdmit(i, g) \/ WorkerStep(i, g)
      PROVE  Kept(id) /\ SameTransfer(id)
  BY <1>1, <1>3, TryAdmitElsewhere, WorkerElsewhere
<1>4. ASSUME NEW i \in Ids \ {id}, NEW r \in Resumers, ResumePaused(i, r)
      PROVE  Kept(id) /\ SameTransfer(id)
  BY <1>1, <1>4, ResumeElsewhere
<1>5. ASSUME NEW r \in Resumers, resumer[r].id # id,
             StartResume(r) \/ ResumeReserve(r) \/ ResumeGiveUp(r) \/ ResumeUnpause(r)
               \/ ResumeSettles(r)
      PROVE  Kept(id) /\ SameTransfer(id)
  <2>1. resumer[r].id \in Ids
    BY ResumerTypes
  <2> QED
    BY <1>1, <1>5, <2>1, ResumeElsewhere
<1>6. ASSUME EnvironmentStep \/ UNCHANGED vars PROVE Kept(id) /\ SameTransfer(id)
  BY <1>1, <1>6, EnvironmentElsewhere
<1> QED
  BY <1>2, <1>3, <1>4, <1>5, <1>6 DEF Next, ResumeStep

\* What a step may make of the transfer of an id.
KeepsTransfer(id) == xfer'[id] = xfer[id] \/ (xfer[id] # "none" /\ xfer'[id] # "live")
KeepsEpoch(id) == epoch'[id] \in {epoch[id], <<"none", 0>>}

\* The resume worker that owns the control epoch parks a permit under the lock.
ParksPermit(id, r) == /\ ResumeUnpause(r) /\ resumer[r].id = id /\ resumer[r].pc = "reserved"
                      /\ ~RetriesCancelled(id) /\ ~systemAction /\ epoch[id] = <<"resume", r>>

\* An id gains a reservation or a permit by an admission, by an activation, and by the
\* reservation and the unpause of a resume worker; it gains a running GID from addUri
\* and from unpause, and an epoch by an activation and by a resume command.
LEMMA OwnershipGains ==
  ASSUME QueueFacts, [Next]_vars, NEW id \in Ids
  PROVE  /\ \/ Kept(id) \/ Cleared(id)
            \/ \E g \in Generations : TryAdmit(id, g) \/ (Activate(id, g) /\ CanActivate(id, g))
            \/ \E r \in Resumers : resumer[r].id = id /\ ResumeReserve(r)
            \/ \E r \in Resumers : ParksPermit(id, r)
         /\ \/ KeepsTransfer(id)
            \/ \E g \in Generations : /\ worker[id][g] = "rpc" /\ IsCurrentDispatch(id, g)
                                      /\ ~RetriesCancelled(id)
            \/ \E r \in Resumers : resumer[r].id = id /\ resumer[r].pc = "unpausing"
         /\ \/ KeepsEpoch(id)
            \/ \E g \in Generations : Activate(id, g)
            \/ \E r \in Resumers : ResumePaused(id, r)
<1> USE DEF QueueFacts
<1>1. CASE Kept(id) /\ SameTransfer(id)
  BY <1>1 DEF SameTransfer, KeepsTransfer, KeepsEpoch
<1>2. CASE EnqueueStep(id)
  BY <1>2 DEF EnqueueStep, ReserveEnqueue, CancelEnqueue, AbandonEnqueue, CommitEnqueue,
     FinishCommit, Kept, permitVars, KeepsTransfer, KeepsEpoch
<1>3. CASE StopStep(id)
  <2>1. Kept(id) \/ Cleared(id)
    BY <1>3, StopTypes, RegisteredType, ReleasePermitClears, ReleasePermitForClears DEF
       StopStep, ResumeUnmapped, TransferEnds, ConnectionLost, PauseMapped, PauseUnmapped,
       PauseMedia, CoordinatorStop, FinishPause, Detach, FinishDetach, SubmitRemoval,
       RemovalRefused, RemoveStop, FinishRemove, StopMedia, ApplyCompletion, Kept, permitVars
  <2>2. KeepsTransfer(id)
    BY <1>3 DEF StopStep, ResumeUnmapped, TransferEnds, ConnectionLost, PauseMapped,
       PauseUnmapped, PauseMedia, CoordinatorStop, FinishPause, Detach, FinishDetach,
       SubmitRemoval, RemovalRefused, RemoveStop, FinishRemove, StopMedia, ApplyCompletion,
       TypeOK, ResultTypes, KeepsTransfer
  <2>3. KeepsEpoch(id)
    BY <1>3, CommandValues DEF StopStep, ResumeUnmapped, TransferEnds, ConnectionLost,
       PauseMapped, PauseUnmapped, PauseMedia, CoordinatorStop, FinishPause, Detach,
       FinishDetach, SubmitRemoval, RemovalRefused, RemoveStop, FinishRemove, StopMedia,
       ApplyCompletion, KeepsEpoch
  <2> QED
    BY <2>1, <2>2, <2>3
<1>4. CASE \E g \in Generations : TryAdmit(id, g)
  BY <1>4 DEF TryAdmit, KeepsTransfer, KeepsEpoch
<1>5. ASSUME NEW g \in Generations, WorkerStep(id, g)
      PROVE  /\ Kept(id) \/ Cleared(id) \/ (Activate(id, g) /\ CanActivate(id, g))
             /\ \/ KeepsTransfer(id)
                \/ worker[id][g] = "rpc" /\ IsCurrentDispatch(id, g) /\ ~RetriesCancelled(id)
             /\ KeepsEpoch(id) \/ Activate(id, g)
  <2>1. Kept(id) \/ Cleared(id) \/ (Activate(id, g) /\ CanActivate(id, g))
    BY <1>5, GenerationNumbers, ReleasePermitClears, ReleasePermitForClears, RestoreClears,
       ReleaseReservationClears DEF WorkerStep, DispatchHeld, DispatchCheck, Activate,
       RestoreInHand, StartAddUri, RestoreHeldBack, AddUriAccepted, AddUriRejected,
       DaemonUnreachable, RestoreUnreachable, PublishMedia, StartMediaRunner, RegisterRunner,
       EndRunner, FinishRunner, Kept, permitVars
  <2>2. CASE AddUriAccepted(id, g)
    BY <2>1, <2>2 DEF AddUriAccepted, KeepsTransfer, KeepsEpoch
  <2>3. CASE ~AddUriAccepted(id, g)
    <3>1. KeepsTransfer(id)
      BY <1>5, <2>3 DEF WorkerStep, DispatchHeld, DispatchCheck, Activate, RestoreInHand,
         StartAddUri, RestoreHeldBack, AddUriRejected, DaemonUnreachable, RestoreUnreachable,
         PublishMedia, StartMediaRunner, RegisterRunner, EndRunner, FinishRunner, KeepsTransfer
    <3>2. KeepsEpoch(id) \/ Activate(id, g)
      BY <1>5, <2>3, CommandValues DEF WorkerStep, DispatchHeld, DispatchCheck, RestoreInHand,
         StartAddUri, RestoreHeldBack, AddUriRejected, DaemonUnreachable, RestoreUnreachable,
         PublishMedia, StartMediaRunner, RegisterRunner, EndRunner, FinishRunner, KeepsEpoch
    <3> QED
      BY <2>1, <3>1, <3>2
  <2> QED
    BY <2>2, <2>3
<1>6. ASSUME NEW r \in Resumers, ResumePaused(id, r) PROVE Kept(id) /\ KeepsTransfer(id)
  BY <1>6 DEF ResumePaused, Kept, permitVars, KeepsTransfer
<1>7. ASSUME NEW r \in Resumers, resumer[r].id = id, StartResume(r) \/ ResumeGiveUp(r)
      PROVE  (Kept(id) \/ Cleared(id)) /\ KeepsTransfer(id) /\ KeepsEpoch(id)
  BY <1>7, ReleaseReservationClears DEF StartResume, ResumeGiveUp, Kept, permitVars,
     KeepsTransfer, KeepsEpoch
<1>8. ASSUME NEW r \in Resumers, resumer[r].id = id, ResumeUnpause(r)
      PROVE  /\ Kept(id) \/ Cleared(id) \/ ParksPermit(id, r)
             /\ KeepsTransfer(id) /\ KeepsEpoch(id)
  BY <1>8, ReleaseReservationClears DEF ResumeUnpause, Kept, ParksPermit, KeepsTransfer,
     KeepsEpoch
<1>9. ASSUME NEW r \in Resumers, resumer[r].id = id, ResumeSettles(r)
      PROVE  (Kept(id) \/ Cleared(id)) /\ resumer[r].pc = "unpausing" /\ KeepsEpoch(id)
  BY <1>9, ReleasePermitClears, CommandValues DEF ResumeSettles, ApplyCompletion, Kept,
     KeepsEpoch
<1>10. ASSUME NEW r \in Resumers, resumer[r].id = id, ResumeReserve(r)
       PROVE  KeepsTransfer(id) /\ KeepsEpoch(id)
  BY <1>10 DEF ResumeReserve, KeepsTransfer, KeepsEpoch
<1> QED
  BY <1>1, <1>2, <1>3, <1>4, <1>5, <1>6, <1>7, <1>8, <1>9, <1>10, OtherStepsKeep DEF TryAdmit

\* What a removal job keeps from its id.
Fenced(id) ==
  /\ KeepsEpoch(id)
  /\ xfer[id] = "none" => xfer'[id] = "none"
  /\ GainsPermit(id) \/ StartsTransfer(id) => id \in retriesAllowed /\ StillResuming(id)

\* A durable removal job fences its id.
LEMMA RemovalStepIsFenced ==
  ASSUME QueueFacts, OwnerInvariant, [Next]_vars, NEW id \in removing
  PROVE  Fenced(id)
<1> USE DEF QueueFacts
<1>1. id \in Ids
  BY DEF TypeOK, ResultTypes
<1>2. IsOwned(id)
  BY <1>1 DEF OwnerInvariant
<1>3. \A g \in Generations : ~Activate(id, g)
  BY <1>2 DEF Activate, IsOwned, InHandIsOwner, InHandPcs
<1>4. \A r \in Resumers : ~ResumePaused(id, r)
  BY DEF ResumePaused
<1>5. \A g \in Generations : worker[id][g] = "rpc" /\ IsCurrentDispatch(id, g) =>
        RetriesCancelled(id)
  BY <1>2 DEF IsCurrentDispatch, IsOwned, InFlightIsOwner, InFlightPcs, RetriesCancelled
<1>6. \A r \in Resumers : resumer[r].id = id /\ resumer[r].pc = "unpausing" =>
        xfer[id] = "paused" /\ id \in retriesAllowed /\ StillResuming(id)
  BY <1>2 DEF IsOwned, ResumersAreOwners, ResumerIsOwner, StillResuming, RetriesCancelled
<1>7. KeepsEpoch(id)
  BY <1>1, <1>3, <1>4, OwnershipGains
<1>8. CASE KeepsTransfer(id)
  <2>1. ASSUME GainsPermit(id) PROVE id \in retriesAllowed /\ StillResuming(id)
    <3>1. \A g \in Generations : TryAdmit(id, g) => UNCHANGED active
      BY DEF TryAdmit
    <3>2. \A r \in Resumers : ResumeReserve(r) => UNCHANGED active
      BY DEF ResumeReserve
    <3>3. \E r \in Resumers : ParksPermit(id, r)
      BY <1>1, <1>3, <2>1, <3>1, <3>2, OwnershipGains DEF GainsPermit, Kept, Cleared
    <3> QED
      BY <3>3 DEF ParksPermit, StillResuming, RetriesCancelled
  <2> QED
    BY <1>7, <1>8, <2>1 DEF Fenced, KeepsTransfer, StartsTransfer
<1>9. CASE ~KeepsTransfer(id)
  <2>1. \E r \in Resumers : resumer[r].id = id /\ resumer[r].pc = "unpausing"
    BY <1>1, <1>5, <1>9, OwnershipGains
  <2> QED
    BY <1>6, <1>7, <2>1 DEF Fenced
<1> QED
  BY <1>8, <1>9

\* From the moment the removal job of an id is durable, no dispatch and no resume begins
\* for it and no late addUri maps a GID.  A permit or a running transfer is gained only
\* where the daemon refused the removal, by the resume whose epoch is still current.
THEOREM RemovalsFence == Spec => RemovalIsFenced
<1>1. QueueFacts /\ OwnerInvariant /\ [Next]_vars =>
        [\A id \in removing :
           /\ epoch'[id] \in {epoch[id], <<"none", 0>>}
           /\ xfer[id] = "none" => xfer'[id] = "none"
           /\ GainsPermit(id) \/ StartsTransfer(id) =>
                id \in retriesAllowed /\ StillResuming(id)]_vars
  BY RemovalStepIsFenced DEF Fenced, KeepsEpoch
<1>2. TypeOK /\ PermitInvariant /\ ReservationsMatchPermits => QueueFacts
  BY DEF QueueFacts
<1> QED
  BY <1>1, <1>2, TypeCorrect, PermitsAreConserved, ReservationsAreCorrect, OwnersAreCorrect, PTL
     DEF Spec, RemovalIsFenced

\* A system action stops every gain of a permit or a reservation.
LEMMA SystemStepIsFenced ==
  ASSUME QueueFacts, [Next]_vars, systemAction, NEW id \in Ids
  PROVE  /\ active[id] = 0 => active'[id] = 0
         /\ ownership[id] = NoOwner => ownership'[id] = NoOwner
<1>1. \A g \in Generations : ~TryAdmit(id, g) /\ ~CanActivate(id, g)
  BY DEF TryAdmit, AdmissionOpen, CanActivate
<1>2. \A r \in Resumers : ~ResumeReserve(r)
  BY DEF ResumeReserve, ResumeEligible
<1>3. Kept(id) \/ Cleared(id)
  BY <1>1, <1>2, OwnershipGains DEF ParksPermit
<1> QED
  BY <1>3 DEF Kept, Cleared

\* While a system action runs, forced or not, no download gains a permit or a
\* reservation, whatever was admitted or resumed before it began.
THEOREM SystemActionsFence == Spec => SystemActionIsFenced
<1>1. QueueFacts /\ [Next]_vars =>
        [systemAction /\ systemAction' => \A id \in Ids :
           /\ active[id] = 0 => active'[id] = 0
           /\ ownership[id] = NoOwner => ownership'[id] = NoOwner]_vars
  BY SystemStepIsFenced
<1>2. TypeOK /\ PermitInvariant /\ ReservationsMatchPermits => QueueFacts
  BY DEF QueueFacts
<1> QED
  BY <1>1, <1>2, TypeCorrect, PermitsAreConserved, ReservationsAreCorrect, PTL DEF Spec,
     SystemActionIsFenced

\* Only an admission and a resume command start work that holds a handoff, and both ask
\* the gate first.
LEMMA ClosedStepIsQuiet ==
  ASSUME TypeOK, [Next]_vars, exit = "closed", ~HandoffsInFlight
  PROVE  ~HandoffsInFlight'
<1> DEFINE Holding == InHandPcs \cup InFlightPcs \cup {"activated", "published"}
<1>1. /\ \A id \in Ids, g \in Generations : worker[id][g] \notin Holding
      /\ \A r \in Resumers : resumer[r].pc = "idle"
      /\ ~CanBeginHandoff
  BY DEF HandoffsInFlight, CanBeginHandoff, ShuttingDown
<1>2. ASSUME NEW id \in Ids, NEW g \in Generations, worker'[id][g] # worker[id][g]
      PROVE  worker'[id][g] \notin Holding
  <2>1. CASE TryAdmit(id, g)
    BY <1>1, <2>1 DEF TryAdmit, AdmissionOpen
  <2>2. CASE WorkerStep(id, g)
    <3>1. worker[id][g] \in {"spawned", "finished"} \cup RunnerPcs
      BY <1>1, <2>2 DEF WorkerStep, DispatchHeld, DispatchCheck, Activate, RestoreInHand,
         StartAddUri, RestoreHeldBack, AddUriAccepted, AddUriRejected, DaemonUnreachable,
         RestoreUnreachable, PublishMedia, StartMediaRunner, RegisterRunner, EndRunner,
         FinishRunner, InHandPcs, InFlightPcs
    <3>2. RegisterRunner(id, g) \/ EndRunner(id, g) \/ FinishRunner(id, g)
      BY <2>2, <3>1 DEF WorkerStep, DispatchHeld, DispatchCheck, Activate, RestoreInHand,
         StartAddUri, RestoreHeldBack, AddUriAccepted, AddUriRejected, DaemonUnreachable,
         RestoreUnreachable, PublishMedia, StartMediaRunner, RunnerPcs
    <3>3. \E pc \in {"finished", "aborted", "running", "idle"} : SetWorker(id, g, pc)
      BY <3>2 DEF RegisterRunner, EndRunner, FinishRunner, RunnerStart
    <3>4. worker'[id][g] \in {"finished", "aborted", "running", "idle"}
      BY <3>3, SetWorkerValue
    <3> QED
      BY <3>4 DEF InHandPcs, InFlightPcs
  <2>3. CASE CoordinatorStop(id)
    <3>1. worker'[id][g] = "cancelling"
      BY <1>2, <2>3 DEF CoordinatorStop, SetWorker, TypeOK, ActorTypes
    <3> QED
      BY <3>1 DEF InHandPcs, InFlightPcs
  <2> QED
    BY <1>2, <2>1, <2>2, <2>3, WorkerMovers
<1>3. \A r \in Resumers : resumer'[r].pc = "idle"
  <2>1. ASSUME NEW r \in Resumers, ResumeStep(r) PROVE FALSE
    BY <1>1, <2>1 DEF ResumeStep, ResumePaused, StartResume, ResumeReserve, ResumeEligible,
       ResumeGiveUp, ResumeUnpause, ResumeSettles
  <2>2. ASSUME NEW id \in Ids, EnqueueStep(id) \/ StopStep(id) PROVE UNCHANGED resumer
    BY <2>2 DEF EnqueueStep, ReserveEnqueue, CancelEnqueue, AbandonEnqueue, CommitEnqueue,
       FinishCommit, StopStep, ResumeUnmapped, TransferEnds, ConnectionLost, PauseMapped,
       PauseUnmapped, PauseMedia, CoordinatorStop, FinishPause, Detach, FinishDetach,
       SubmitRemoval, RemovalRefused, RemoveStop, FinishRemove, StopMedia
  <2>3. ASSUME NEW id \in Ids, NEW g \in Generations, TryAdmit(id, g) \/ WorkerStep(id, g)
        PROVE UNCHANGED resumer
    BY <2>3 DEF TryAdmit, WorkerStep, DispatchHeld, DispatchCheck, Activate, RestoreInHand,
       StartAddUri, RestoreHeldBack, AddUriAccepted, AddUriRejected, DaemonUnreachable,
       RestoreUnreachable, PublishMedia, StartMediaRunner, RegisterRunner, EndRunner,
       FinishRunner
  <2>4. ASSUME EnvironmentStep PROVE UNCHANGED resumer
    BY <2>4 DEF EnvironmentStep, SetCapacity, ApplyResize, RetireFreeSlots, ReplaceQueueLimits,
       BeginHold, EndHold, DaemonRecovers, BeginSystemAction, EndSystemAction, ExitStep
  <2>5. UNCHANGED resumer
    BY <2>1, <2>2, <2>3, <2>4 DEF Next, vars
  <2> QED
    BY <1>1, <2>5
<1>4. \A id \in Ids, g \in Generations : worker'[id][g] \notin Holding
  BY <1>1, <1>2
<1> QED
  BY <1>3, <1>4 DEF HandoffsInFlight, InHandPcs, InFlightPcs

\* Once an exit request has closed the handoffs and the last one has ended, none begins
\* until the request is rejected.
THEOREM ClosedHandoffsStayQuiet == Spec => ShutdownStaysQuiet
<1>1. TypeOK /\ [Next]_vars =>
        [exit = "closed" /\ exit' = "closed" /\ ~HandoffsInFlight => ~HandoffsInFlight']_vars
  BY ClosedStepIsQuiet
<1> QED
  BY <1>1, TypeCorrect, PTL DEF Spec, ShutdownStaysQuiet
=============================================================================
