--------------------- MODULE DownloadQueuePermitProofs ---------------------
(***************************************************************************)
(* Types and permits of DownloadQueue, for every value of its constants:   *)
(* no step loses a slot or returns one twice (PermitConservation), no      *)
(* grant exceeds the limit in force (TargetRespected), and the             *)
(* reservations the queue limits count agree with the permits              *)
(* (ReservationsMatchPermits).                                             *)
(*                                                                         *)
(* TypeOK is inductive as it stands: the only types that are not kept by   *)
(* the shape of an assignment are available, debt \in Nat, where a grant   *)
(* subtracts (AcquirePermitTypes, ApplyResize, RetireFreeSlots), and the   *)
(* generation of an enqueue under way, which must not be 0.  First come    *)
(* the operators the actions share, then one lemma per action with one     *)
(* step per group of variables it changes and one for those it leaves      *)
(* alone, then the steps of each actor and the theorem.                    *)
(*                                                                         *)
(* Conservation is not inductive.  A grant adds one to the permits held    *)
(* only if the worker or the resume worker that receives it held none, so  *)
(* PermitInvariant adds that a pending task has an idle worker, that the   *)
(* generations an enqueue hands out are new (which is what makes the first *)
(* true), and that only a reserved resume worker holds a permit.           *)
(*                                                                         *)
(* Permits are counted in three finite sets.  The first lemmas of that     *)
(* part say what the operators of the model do to each count; every action *)
(* is then Steady (what it returns is no longer held) or a Grant.          *)
(***************************************************************************)
EXTENDS DownloadQueue, TLAPS, FiniteSetTheorems

-----------------------------------------------------------------------------
(* Type correctness.                                                       *)

\* The shape of a resume worker that has nothing to do.
LEMMA IdleResumerType ==
  /\ IdleResumer \in [pc : {"idle", "spawned", "waiting", "reserved", "unpausing"},
                      id : Ids, gen : Gens, cand : BOOLEAN]
  /\ IdleResumer.pc = "idle"
  /\ IdleResumer.cand = FALSE
  BY IdsAssumption DEF IdleResumer, Gens

\* The fields of a resume worker.
LEMMA ResumerTypes ==
  ASSUME TypeOK, NEW r \in Resumers
  PROVE  /\ resumer[r].pc \in {"idle", "spawned", "waiting", "reserved", "unpausing"}
         /\ resumer[r].id \in Ids
         /\ resumer[r].gen \in Gens
         /\ resumer[r].cand \in BOOLEAN
  BY DEF TypeOK, ActorTypes

\* The generation a stop command remembers, and the one registered.
LEMMA StopTypes ==
  ASSUME TypeOK, NEW id \in Ids
  PROVE  stopping[id].gen \in Gens
  BY DEF TypeOK, ActorTypes

\* The registered generation of an id, or 0.
LEMMA RegisteredType ==
  ASSUME TypeOK, NEW id \in Ids
  PROVE  registered[id] \in Gens
  BY DEF TypeOK, LifecycleTypes

\* The values that stand for nothing have the type of what they replace.
LEMMA NothingTypes ==
  /\ NoOwner \in [gen : Gens, active : BOOLEAN]
  /\ NoStop \in [op : {"none", "pause", "detach", "remove"}, gen : Gens,
                  phase : {"none", "sent", "waiting", "acked", "drain", "cleanup"}]
  /\ NoOutcome \in [gen : Gens, out : {"none", "completed", "failed", "cancelled"}]
  BY DEF NoOwner, NoStop, NoOutcome, Gens

\* The states of a dispatch worker, by name.
LEMMA WorkerPcMembers ==
  {"idle", "admitted", "restoring", "locked", "adding", "heldBack", "rpc", "unreachable",
   "activated", "published", "spawned", "finished", "running", "cancelling", "aborted"}
    \subseteq WorkerPcs
  BY DEF WorkerPcs, InHandPcs, InFlightPcs, MediaPcs, RunnerPcs

\* What the operators that change one component of the state do to its type.
LEMMA SetWorkerTypes ==
  ASSUME ActorTypes, NEW id \in Ids, NEW g \in Generations, NEW pc \in WorkerPcs,
         SetWorker(id, g, pc)
  PROVE  worker' \in [Ids -> [Generations -> WorkerPcs]]
  BY DEF ActorTypes, SetWorker

\* Ending a control epoch leaves nobody as its holder.
LEMMA EndEpochTypes ==
  ASSUME ActorTypes, NEW id \in Ids, EndEpoch(id)
  PROVE  epoch' \in [Ids -> EpochHolders]
  BY DEF ActorTypes, EndEpoch, EpochHolders

\* A rollback restores the two generation maps.
LEMMA RollbackEnqueueTypes ==
  ASSUME LifecycleTypes, NEW id \in Ids, NEW g \in Gens, NEW prev \in Gens,
         RollbackEnqueue(id, g, prev)
  PROVE  /\ registered' \in [Ids -> Gens]
         /\ watermark' \in [Ids -> Gens]
  BY DEF LifecycleTypes, RollbackEnqueue, Unregister, Gens

\* An enqueue under way has a generation of its own.
LEMMA EnqueueTypes ==
  ASSUME LifecycleTypes, NEW id \in Ids, enq[id].phase # "none"
  PROVE  enq[id].gen \in Generations /\ enq[id].prev \in Gens
  BY DEF LifecycleTypes, NoEnqueue

\* release_permit returns at most the one parked permit.
LEMMA ReleasePermitTypes ==
  ASSUME PermitTypes, NEW id \in Ids, ReleasePermit(id)
  PROVE  PermitTypes'
  BY DEF PermitTypes, ReleasePermit, Parked, NoOwner, Gens

\* release_permit_for_generation, whether or not the generation matches.
LEMMA ReleasePermitForTypes ==
  ASSUME PermitTypes, NEW id \in Ids, NEW g \in Gens, ReleasePermitFor(id, g)
  PROVE  PermitTypes'
<1>1. CASE g # 0 /\ (ownership[id].gen = g \/ active[id] = g)
  <2>1. ownership' \in [Ids -> [gen : Gens, active : BOOLEAN]]
    BY <1>1, NothingTypes DEF PermitTypes, ReleasePermitFor
  <2>2. active' \in [Ids -> Gens] /\ available' \in Nat
    BY <1>1 DEF PermitTypes, ReleasePermitFor, Parked, Gens
  <2> QED
    BY <2>1, <2>2 DEF PermitTypes
<1>2. CASE ~(g # 0 /\ (ownership[id].gen = g \/ active[id] = g))
  BY <1>2 DEF PermitTypes, ReleasePermitFor
<1> QED
  BY <1>1, <1>2

\* release_queue_reservation_for_generation drops the permits it is given.
LEMMA ReleaseReservationTypes ==
  ASSUME PermitTypes, NEW id \in Ids, NEW g \in Gens, NEW n \in Nat,
         ReleaseReservation(id, g, n), UNCHANGED active
  PROVE  PermitTypes'
  BY DEF PermitTypes, ReleaseReservation, NoOwner, Gens

\* Restoring a task keeps the pending list and the permit variables typed.
LEMMA RestoreTypes ==
  ASSUME PermitTypes, LifecycleTypes, NEW id \in Ids, NEW g \in Generations, NEW n \in Nat,
         Restore(id, g, n)
  PROVE  PermitTypes' /\ pending' \subseteq Ids \X Generations
<1>1. CASE ownership[id].gen = g
  <2>1. pending' \subseteq Ids \X Generations
    BY <1>1 DEF LifecycleTypes, Restore
  <2>2. ownership' \in [Ids -> [gen : Gens, active : BOOLEAN]]
    BY <1>1, NothingTypes DEF PermitTypes, Restore
  <2>3. active' \in [Ids -> Gens] /\ available' \in Nat
    BY <1>1 DEF PermitTypes, Restore, Gens
  <2> QED
    BY <2>1, <2>2, <2>3 DEF PermitTypes
<1>2. CASE ownership[id].gen # g
  BY <1>2 DEF PermitTypes, LifecycleTypes, Restore
<1> QED
  BY <1>1, <1>2

\* The end of a stop command.
LEMMA EndStopTypes ==
  ASSUME ActorTypes, NEW id \in Ids, EndStop(id)
  PROVE  stopping' \in [Ids -> [op : {"none", "pause", "detach", "remove"}, gen : Gens,
                     phase : {"none", "sent", "waiting", "acked", "drain", "cleanup"}]]
  BY NothingTypes DEF ActorTypes, EndStop

\* A grant never takes more permits than are free: this is where available could leave Nat.
LEMMA AcquirePermitTypes ==
  ASSUME PermitTypes, CapacityTypes, PermitFree, AcquirePermit, UNCHANGED <<target, resizing>>
  PROVE  available' \in Nat /\ CapacityTypes'
  BY DEF PermitTypes, CapacityTypes, PermitFree, AcquirePermit

\* A reservation is stamped with a generation.
LEMMA ReserveForTypes ==
  ASSUME PermitTypes, NEW id \in Ids, NEW g \in Gens, ReserveFor(id, g)
  PROVE  ownership' \in [Ids -> [gen : Gens, active : BOOLEAN]]
  BY DEF PermitTypes, ReserveFor

\* A terminal outcome keeps every variable it changes typed.
LEMMA ApplyCompletionTypes ==
  ASSUME TypeOK, NEW id \in Ids,
         NEW statuses \in SUBSET {"completed", "failed"}, ApplyCompletion(id, statuses)
  PROVE  /\ registered' \in [Ids -> Gens]
         /\ PermitTypes'
         /\ epoch' \in [Ids -> EpochHolders]
         /\ xfer' \in [Ids -> {"none", "live", "paused"}]
         /\ shown' \in [Ids -> {"none", "queued", "downloading", "paused", "completed", "failed"}]
<1>1. registered' \in [Ids -> Gens]
  BY DEF TypeOK, LifecycleTypes, ApplyCompletion, Unregister, Gens
<1>2. PermitTypes'
  BY ReleasePermitTypes DEF TypeOK, ApplyCompletion
<1>3. epoch' \in [Ids -> EpochHolders]
  BY EndEpochTypes DEF TypeOK, ApplyCompletion
<1>4. /\ xfer' \in [Ids -> {"none", "live", "paused"}]
      /\ shown' \in [Ids -> {"none", "queued", "downloading", "paused", "completed", "failed"}]
  BY DEF TypeOK, ResultTypes, ApplyCompletion, Show
<1> QED
  BY <1>1, <1>2, <1>3, <1>4

\* The first half of a stop on a media transfer changes no permit and no result.
LEMMA StopMediaTypes ==
  ASSUME TypeOK, NEW id \in Ids, NEW op \in {"pause", "detach", "remove"}, StopMedia(id, op)
  PROVE  /\ LifecycleTypes' /\ PermitTypes' /\ CapacityTypes' /\ ResultTypes'
         /\ EnvironmentTypes'
         /\ stopping' \in [Ids -> [op : {"none", "pause", "detach", "remove"}, gen : Gens,
                             phase : {"none", "sent", "waiting", "acked", "drain", "cleanup"}]]
<1>1. LifecycleTypes'
  BY DEF TypeOK, LifecycleTypes, StopMedia, DropPending, lifecycleVars
<1>2. PermitTypes' /\ CapacityTypes'
  BY DEF TypeOK, PermitTypes, CapacityTypes, StopMedia, permitVars
<1>3. ResultTypes' /\ EnvironmentTypes'
  BY DEF TypeOK, ResultTypes, EnvironmentTypes, StopMedia, environment
<1>4. stopping' \in [Ids -> [op : {"none", "pause", "detach", "remove"}, gen : Gens,
                       phase : {"none", "sent", "waiting", "acked", "drain", "cleanup"}]]
  BY RegisteredType DEF TypeOK, ActorTypes, StopMedia, BeginStop
<1> QED
  BY <1>1, <1>2, <1>3, <1>4

-----------------------------------------------------------------------------
(* The enqueue command.                                                    *)

\* ReserveEnqueue keeps the types of the lifecycle variables it changes.
LEMMA ReserveEnqueueTypes ==
  ASSUME TypeOK, NEW id \in Ids, NEW g \in Generations, ReserveEnqueue(id, g)
  PROVE  TypeOK'
<1>1. LifecycleTypes'
  BY GenerationAssumption DEF ReserveEnqueue, TypeOK, LifecycleTypes, Gens
<1>2. PermitTypes' /\ CapacityTypes' /\ ActorTypes' /\ ResultTypes' /\ EnvironmentTypes'
  BY DEF ReserveEnqueue, TypeOK, PermitTypes, CapacityTypes, ActorTypes, ResultTypes,
    EnvironmentTypes, permitVars, environment
<1> QED
  BY <1>1, <1>2 DEF TypeOK

\* AbandonEnqueue keeps the types of the lifecycle variables it changes.
LEMMA AbandonEnqueueTypes ==
  ASSUME TypeOK, NEW id \in Ids, AbandonEnqueue(id)
  PROVE  TypeOK'
<1>1. LifecycleTypes'
  <2>1. enq[id].gen \in Generations /\ enq[id].prev \in Gens
    BY EnqueueTypes DEF AbandonEnqueue, TypeOK
  <2>2. registered' \in [Ids -> Gens] /\ watermark' \in [Ids -> Gens]
    BY <2>1, RollbackEnqueueTypes DEF AbandonEnqueue, TypeOK, Gens
  <2> QED
    BY <2>2 DEF AbandonEnqueue, TypeOK, LifecycleTypes
<1>2. PermitTypes' /\ CapacityTypes' /\ ActorTypes' /\ ResultTypes' /\ EnvironmentTypes'
  BY DEF AbandonEnqueue, TypeOK, PermitTypes, CapacityTypes, ActorTypes, ResultTypes,
    EnvironmentTypes, permitVars, environment
<1> QED
  BY <1>1, <1>2 DEF TypeOK

\* CommitEnqueue keeps the types of the lifecycle variables it changes.
LEMMA CommitEnqueueTypes ==
  ASSUME TypeOK, NEW id \in Ids, CommitEnqueue(id)
  PROVE  TypeOK'
<1>1. LifecycleTypes'
  BY RollbackEnqueueTypes, GenerationAssumption DEF CommitEnqueue, TypeOK, LifecycleTypes, Gens,
    NoEnqueue
<1>2. PermitTypes' /\ CapacityTypes' /\ ActorTypes' /\ ResultTypes' /\ EnvironmentTypes'
  BY DEF CommitEnqueue, TypeOK, PermitTypes, CapacityTypes, ActorTypes, ResultTypes,
    EnvironmentTypes, permitVars, environment
<1> QED
  BY <1>1, <1>2 DEF TypeOK

\* FinishCommit keeps the types of the lifecycle and result variables it changes.
LEMMA FinishCommitTypes ==
  ASSUME TypeOK, NEW id \in Ids, FinishCommit(id)
  PROVE  TypeOK'
<1>1. LifecycleTypes'
  <2>1. enq[id].gen \in Generations /\ enq[id].prev \in Gens
    BY EnqueueTypes DEF FinishCommit, TypeOK
  <2>2. registered' \in [Ids -> Gens] /\ watermark' \in [Ids -> Gens]
    BY <2>1, RollbackEnqueueTypes DEF FinishCommit, TypeOK, LifecycleTypes, Gens
  <2>3. enq' \in [Ids -> {NoEnqueue} \cup
                         [phase : {"reserved", "finalizing"}, gen : Generations, prev : Gens]]
    BY DEF FinishCommit, TypeOK, LifecycleTypes
  <2>4. pending' \subseteq Ids \X Generations /\ cancelled' \in [Ids -> Gens]
    BY DEF FinishCommit, TypeOK, LifecycleTypes
  <2> QED
    BY <2>2, <2>3, <2>4 DEF LifecycleTypes
<1>2. ResultTypes'
  <2>1. terminal' \in [Ids -> [gen : Gens, out : {"none", "completed", "failed", "cancelled"}]]
    BY NothingTypes DEF FinishCommit, TypeOK, ResultTypes
  <2>2. shown' \in [Ids -> {"none", "queued", "downloading", "paused", "completed", "failed"}]
    BY DEF FinishCommit, TypeOK, ResultTypes, Show
  <2> QED
    BY <2>1, <2>2 DEF FinishCommit, TypeOK, ResultTypes
<1>3. PermitTypes' /\ CapacityTypes' /\ ActorTypes' /\ EnvironmentTypes'
  BY DEF FinishCommit, TypeOK, PermitTypes, CapacityTypes, ActorTypes, EnvironmentTypes,
    permitVars, environment
<1> QED
  BY <1>1, <1>2, <1>3 DEF TypeOK

\* CancelEnqueue keeps the types of the lifecycle variables it changes.
LEMMA CancelEnqueueTypes ==
  ASSUME TypeOK, NEW id \in Ids, NEW g \in Generations, CancelEnqueue(id, g)
  PROVE  TypeOK'
<1>1. LifecycleTypes'
  BY GenerationAssumption DEF CancelEnqueue, TypeOK, LifecycleTypes, Gens
<1>2. PermitTypes' /\ CapacityTypes' /\ ActorTypes' /\ ResultTypes' /\ EnvironmentTypes'
  BY DEF CancelEnqueue, TypeOK, PermitTypes, CapacityTypes, ActorTypes, ResultTypes,
    EnvironmentTypes, permitVars, environment
<1> QED
  BY <1>1, <1>2 DEF TypeOK

\* So does every step of this kind.
LEMMA EnqueueStepTypes ==
  ASSUME TypeOK, NEW id \in Ids, EnqueueStep(id)
  PROVE  TypeOK'
  BY ReserveEnqueueTypes, AbandonEnqueueTypes, CommitEnqueueTypes, FinishCommitTypes,
    CancelEnqueueTypes DEF EnqueueStep

-----------------------------------------------------------------------------
(* The dispatcher and its workers.                                         *)

\* TryAdmit keeps the types of the lifecycle, permit, capacity and actor variables it changes.
LEMMA TryAdmitTypes ==
  ASSUME TypeOK, NEW id \in Ids, NEW g \in Generations, TryAdmit(id, g)
  PROVE  TypeOK'
<1>1. LifecycleTypes'
  BY GenerationAssumption DEF TryAdmit, TypeOK, LifecycleTypes, lifecycleVars, Gens
<1>2. PermitTypes'
  BY AcquirePermitTypes, ReserveForTypes DEF TryAdmit, TypeOK, PermitTypes, Gens
<1>3. CapacityTypes'
  BY AcquirePermitTypes DEF TryAdmit, TypeOK
<1>4. ActorTypes'
  BY SetWorkerTypes, WorkerPcMembers DEF TryAdmit, TypeOK, ActorTypes
<1>5. ResultTypes' /\ EnvironmentTypes'
  BY DEF TryAdmit, TypeOK, ResultTypes, EnvironmentTypes, environment
<1> QED
  BY <1>1, <1>2, <1>3, <1>4, <1>5 DEF TypeOK

\* DispatchHeld keeps the types of the actor variables it changes.
LEMMA DispatchHeldTypes ==
  ASSUME TypeOK, NEW id \in Ids, NEW g \in Generations, DispatchHeld(id, g)
  PROVE  TypeOK'
<1>1. ActorTypes'
  BY SetWorkerTypes, WorkerPcMembers DEF DispatchHeld, TypeOK, ActorTypes
<1>2. LifecycleTypes' /\ PermitTypes' /\ CapacityTypes' /\ ResultTypes' /\ EnvironmentTypes'
  BY DEF DispatchHeld, TypeOK, LifecycleTypes, PermitTypes, CapacityTypes, ResultTypes,
    EnvironmentTypes, lifecycleVars, permitVars, environment
<1> QED
  BY <1>1, <1>2 DEF TypeOK

\* DispatchCheck keeps the types of the permit and actor variables it changes.
LEMMA DispatchCheckTypes ==
  ASSUME TypeOK, NEW id \in Ids, NEW g \in Generations, DispatchCheck(id, g)
  PROVE  TypeOK'
<1>1. PermitTypes'
  BY ReleaseReservationTypes, GenerationAssumption DEF DispatchCheck, TypeOK, PermitTypes, Gens
<1>2. ActorTypes'
  BY SetWorkerTypes, WorkerPcMembers DEF DispatchCheck, TypeOK, ActorTypes
<1>3. LifecycleTypes' /\ CapacityTypes' /\ ResultTypes' /\ EnvironmentTypes'
  BY DEF DispatchCheck, TypeOK, LifecycleTypes, CapacityTypes, ResultTypes, EnvironmentTypes,
    lifecycleVars, capacityVars, environment
<1> QED
  BY <1>1, <1>2, <1>3 DEF TypeOK

\* Activate keeps the types of the permit and actor variables it changes.
LEMMA ActivateTypes ==
  ASSUME TypeOK, NEW id \in Ids, NEW g \in Generations, Activate(id, g)
  PROVE  TypeOK'
<1>1. PermitTypes'
  <2>1. CASE CanActivate(id, g)
    <3>1. ownership' = [ownership EXCEPT ![id].active = TRUE]
      BY <2>1 DEF Activate
    <3>2. active' = [active EXCEPT ![id] = g] /\ UNCHANGED available
      BY <2>1 DEF Activate
    <3> QED
      BY <3>1, <3>2 DEF TypeOK, PermitTypes, Gens
  <2>2. CASE ~CanActivate(id, g)
    BY <2>2, ReleaseReservationTypes DEF Activate, TypeOK, Gens
  <2> QED
    BY <2>1, <2>2
<1>2. ActorTypes'
  <2>1. PICK pc \in {"adding", "activated", "idle"} : SetWorker(id, g, pc)
    BY DEF Activate
  <2>2. worker' \in [Ids -> [Generations -> WorkerPcs]]
    BY <2>1, SetWorkerTypes, WorkerPcMembers DEF TypeOK
  <2>3. epoch' = [epoch EXCEPT ![id] = <<"dispatch", g>>] \/ UNCHANGED epoch
    BY DEF Activate
  <2>4. <<"dispatch", g>> \in EpochHolders
    BY DEF EpochHolders
  <2>5. epoch' \in [Ids -> EpochHolders]
    BY <2>3, <2>4 DEF TypeOK, ActorTypes
  <2> QED
    BY <2>2, <2>5 DEF Activate, TypeOK, ActorTypes
<1>3. LifecycleTypes' /\ CapacityTypes' /\ ResultTypes' /\ EnvironmentTypes'
  BY DEF Activate, TypeOK, LifecycleTypes, CapacityTypes, ResultTypes, EnvironmentTypes,
    lifecycleVars, capacityVars, environment
<1> QED
  BY <1>1, <1>2, <1>3 DEF TypeOK

\* RestoreInHand keeps the types of the lifecycle, permit and actor variables it changes.
LEMMA RestoreInHandTypes ==
  ASSUME TypeOK, NEW id \in Ids, NEW g \in Generations, RestoreInHand(id, g)
  PROVE  TypeOK'
<1>1. LifecycleTypes'
  BY RestoreTypes, GenerationAssumption DEF RestoreInHand, TypeOK, LifecycleTypes,
    lifecycleVars, Gens
<1>2. PermitTypes'
  BY RestoreTypes, GenerationAssumption DEF RestoreInHand, TypeOK, PermitTypes, Gens
<1>3. ActorTypes'
  BY SetWorkerTypes, WorkerPcMembers DEF RestoreInHand, TypeOK, ActorTypes
<1>4. CapacityTypes' /\ ResultTypes' /\ EnvironmentTypes'
  BY DEF RestoreInHand, TypeOK, CapacityTypes, ResultTypes, EnvironmentTypes, capacityVars,
    environment
<1> QED
  BY <1>1, <1>2, <1>3, <1>4 DEF TypeOK

\* StartAddUri keeps the types of the actor variables it changes.
LEMMA StartAddUriTypes ==
  ASSUME TypeOK, NEW id \in Ids, NEW g \in Generations, StartAddUri(id, g)
  PROVE  TypeOK'
<1>1. ActorTypes'
  BY SetWorkerTypes, WorkerPcMembers DEF StartAddUri, TypeOK, ActorTypes
<1>2. LifecycleTypes' /\ PermitTypes' /\ CapacityTypes' /\ ResultTypes' /\ EnvironmentTypes'
  BY DEF StartAddUri, TypeOK, LifecycleTypes, PermitTypes, CapacityTypes, ResultTypes,
    EnvironmentTypes, lifecycleVars, permitVars, environment
<1> QED
  BY <1>1, <1>2 DEF TypeOK

\* RestoreHeldBack keeps the types of the lifecycle, permit and actor variables it changes.
LEMMA RestoreHeldBackTypes ==
  ASSUME TypeOK, NEW id \in Ids, NEW g \in Generations, RestoreHeldBack(id, g)
  PROVE  TypeOK'
<1>1. LifecycleTypes'
  BY RestoreTypes, GenerationAssumption DEF RestoreHeldBack, TypeOK, LifecycleTypes,
    lifecycleVars, Gens
<1>2. PermitTypes'
  BY RestoreTypes, GenerationAssumption DEF RestoreHeldBack, TypeOK, PermitTypes, Gens
<1>3. ActorTypes'
  BY SetWorkerTypes, WorkerPcMembers DEF RestoreHeldBack, TypeOK, ActorTypes
<1>4. CapacityTypes' /\ ResultTypes' /\ EnvironmentTypes'
  BY DEF RestoreHeldBack, TypeOK, CapacityTypes, ResultTypes, EnvironmentTypes, capacityVars,
    environment
<1> QED
  BY <1>1, <1>2, <1>3, <1>4 DEF TypeOK

\* AddUriAccepted keeps the types of the permit, actor and result variables it changes.
LEMMA AddUriAcceptedTypes ==
  ASSUME TypeOK, NEW id \in Ids, NEW g \in Generations, AddUriAccepted(id, g)
  PROVE  TypeOK'
<1>1. PermitTypes'
  BY ReleasePermitTypes, GenerationAssumption DEF AddUriAccepted, TypeOK, PermitTypes, Gens
<1>2. ActorTypes'
  BY SetWorkerTypes, WorkerPcMembers DEF AddUriAccepted, TypeOK, ActorTypes
<1>3. ResultTypes'
  BY  DEF AddUriAccepted, TypeOK, ResultTypes, Show
<1>4. LifecycleTypes' /\ CapacityTypes' /\ EnvironmentTypes'
  BY DEF AddUriAccepted, TypeOK, LifecycleTypes, CapacityTypes, EnvironmentTypes, lifecycleVars,
    capacityVars, environment
<1> QED
  BY <1>1, <1>2, <1>3, <1>4 DEF TypeOK

\* AddUriRejected keeps the types of the lifecycle, permit, actor and result variables it changes.
LEMMA AddUriRejectedTypes ==
  ASSUME TypeOK, NEW id \in Ids, NEW g \in Generations, AddUriRejected(id, g)
  PROVE  TypeOK'
<1>1. LifecycleTypes'
  BY GenerationAssumption DEF AddUriRejected, TypeOK, LifecycleTypes, Unregister, Gens
<1>2. PermitTypes'
  BY ReleasePermitTypes, GenerationAssumption DEF AddUriRejected, TypeOK, PermitTypes, Gens
<1>3. ActorTypes'
  BY SetWorkerTypes, WorkerPcMembers DEF AddUriRejected, TypeOK, ActorTypes, EndEpoch,
    EpochHolders
<1>4. ResultTypes'
  BY  DEF AddUriRejected, TypeOK, ResultTypes, Show
<1>5. CapacityTypes' /\ EnvironmentTypes'
  BY DEF AddUriRejected, TypeOK, CapacityTypes, EnvironmentTypes, capacityVars, environment
<1> QED
  BY <1>1, <1>2, <1>3, <1>4, <1>5 DEF TypeOK

\* DaemonUnreachable keeps the types of the actor and environment variables it changes.
LEMMA DaemonUnreachableTypes ==
  ASSUME TypeOK, NEW id \in Ids, NEW g \in Generations, DaemonUnreachable(id, g)
  PROVE  TypeOK'
<1>1. ActorTypes'
  BY SetWorkerTypes, WorkerPcMembers DEF DaemonUnreachable, TypeOK, ActorTypes
<1>2. EnvironmentTypes'
  BY  DEF DaemonUnreachable, TypeOK, EnvironmentTypes
<1>3. LifecycleTypes' /\ PermitTypes' /\ CapacityTypes' /\ ResultTypes'
  BY DEF DaemonUnreachable, TypeOK, LifecycleTypes, PermitTypes, CapacityTypes, ResultTypes,
    lifecycleVars, permitVars
<1> QED
  BY <1>1, <1>2, <1>3 DEF TypeOK

\* RestoreUnreachable keeps the types of the lifecycle, permit and actor variables it changes.
LEMMA RestoreUnreachableTypes ==
  ASSUME TypeOK, NEW id \in Ids, NEW g \in Generations, RestoreUnreachable(id, g)
  PROVE  TypeOK'
<1>1. LifecycleTypes'
  BY RestoreTypes, GenerationAssumption DEF RestoreUnreachable, TypeOK, LifecycleTypes,
    lifecycleVars, Gens
<1>2. PermitTypes'
  BY RestoreTypes, GenerationAssumption DEF RestoreUnreachable, TypeOK, PermitTypes, Gens
<1>3. ActorTypes'
  BY SetWorkerTypes, WorkerPcMembers DEF RestoreUnreachable, TypeOK, ActorTypes
<1>4. CapacityTypes' /\ ResultTypes' /\ EnvironmentTypes'
  BY DEF RestoreUnreachable, TypeOK, CapacityTypes, ResultTypes, EnvironmentTypes, capacityVars,
    environment
<1> QED
  BY <1>1, <1>2, <1>3, <1>4 DEF TypeOK

\* PublishMedia keeps the types of the actor and result variables it changes.
LEMMA PublishMediaTypes ==
  ASSUME TypeOK, NEW id \in Ids, NEW g \in Generations, PublishMedia(id, g)
  PROVE  TypeOK'
<1>1. ActorTypes'
  BY SetWorkerTypes, WorkerPcMembers DEF PublishMedia, TypeOK, ActorTypes
<1>2. ResultTypes'
  BY  DEF PublishMedia, TypeOK, ResultTypes, Show
<1>3. LifecycleTypes' /\ PermitTypes' /\ CapacityTypes' /\ EnvironmentTypes'
  BY DEF PublishMedia, TypeOK, LifecycleTypes, PermitTypes, CapacityTypes, EnvironmentTypes,
    lifecycleVars, permitVars, environment
<1> QED
  BY <1>1, <1>2, <1>3 DEF TypeOK

\* StartMediaRunner keeps the types of the lifecycle, permit and actor variables it changes.
LEMMA StartMediaRunnerTypes ==
  ASSUME TypeOK, NEW id \in Ids, NEW g \in Generations, StartMediaRunner(id, g)
  PROVE  TypeOK'
<1>1. LifecycleTypes'
  BY GenerationAssumption DEF StartMediaRunner, TypeOK, LifecycleTypes, UnregisterFor, Gens
<1>2. PermitTypes'
  BY ReleasePermitForTypes, GenerationAssumption DEF StartMediaRunner, TypeOK, PermitTypes, Gens
<1>3. ActorTypes'
  BY SetWorkerTypes, WorkerPcMembers DEF StartMediaRunner, TypeOK, ActorTypes
<1>4. CapacityTypes' /\ ResultTypes' /\ EnvironmentTypes'
  BY DEF StartMediaRunner, TypeOK, CapacityTypes, ResultTypes, EnvironmentTypes, capacityVars,
    environment
<1> QED
  BY <1>1, <1>2, <1>3, <1>4 DEF TypeOK

\* RegisterRunner keeps the types of the actor variables it changes.
LEMMA RegisterRunnerTypes ==
  ASSUME TypeOK, NEW id \in Ids, NEW g \in Generations, RegisterRunner(id, g)
  PROVE  TypeOK'
<1>1. ActorTypes'
  BY SetWorkerTypes, WorkerPcMembers DEF RegisterRunner, TypeOK, ActorTypes, RunnerStart
<1>2. LifecycleTypes' /\ PermitTypes' /\ CapacityTypes' /\ ResultTypes' /\ EnvironmentTypes'
  BY DEF RegisterRunner, TypeOK, LifecycleTypes, PermitTypes, CapacityTypes, ResultTypes,
    EnvironmentTypes, lifecycleVars, permitVars, environment
<1> QED
  BY <1>1, <1>2 DEF TypeOK

\* EndRunner keeps the types of the actor and result variables it changes.
LEMMA EndRunnerTypes ==
  ASSUME TypeOK, NEW id \in Ids, NEW g \in Generations, EndRunner(id, g)
  PROVE  TypeOK'
<1>1. ActorTypes'
  BY SetWorkerTypes, WorkerPcMembers DEF EndRunner, TypeOK, ActorTypes
<1>2. ResultTypes'
  BY DEF EndRunner, TypeOK, ResultTypes, Gens
<1>3. LifecycleTypes' /\ PermitTypes' /\ CapacityTypes' /\ EnvironmentTypes'
  BY DEF EndRunner, TypeOK, LifecycleTypes, PermitTypes, CapacityTypes, EnvironmentTypes,
    lifecycleVars, permitVars, environment
<1> QED
  BY <1>1, <1>2, <1>3 DEF TypeOK

\* FinishRunner keeps the types of the lifecycle, permit, actor and result variables it changes.
LEMMA FinishRunnerTypes ==
  ASSUME TypeOK, NEW id \in Ids, NEW g \in Generations, FinishRunner(id, g)
  PROVE  TypeOK'
<1>1. LifecycleTypes'
  BY GenerationAssumption DEF FinishRunner, TypeOK, LifecycleTypes, UnregisterFor, Gens
<1>2. PermitTypes'
  BY ReleasePermitForTypes, RegisteredType, GenerationAssumption DEF FinishRunner, TypeOK,
    PermitTypes, Gens
<1>3. ActorTypes'
  BY SetWorkerTypes, WorkerPcMembers DEF FinishRunner, TypeOK, ActorTypes
<1>4. ResultTypes'
  BY  DEF FinishRunner, TypeOK, ResultTypes, Show
<1>5. CapacityTypes' /\ EnvironmentTypes'
  BY DEF FinishRunner, TypeOK, CapacityTypes, EnvironmentTypes, capacityVars, environment
<1> QED
  BY <1>1, <1>2, <1>3, <1>4, <1>5 DEF TypeOK

\* So does every step of this kind.
LEMMA WorkerStepTypes ==
  ASSUME TypeOK, NEW id \in Ids, NEW g \in Generations, TryAdmit(id, g) \/ WorkerStep(id, g)
  PROVE  TypeOK'
  BY TryAdmitTypes, DispatchHeldTypes, DispatchCheckTypes, ActivateTypes, RestoreInHandTypes,
    StartAddUriTypes, RestoreHeldBackTypes, AddUriAcceptedTypes, AddUriRejectedTypes,
    DaemonUnreachableTypes, RestoreUnreachableTypes, PublishMediaTypes, StartMediaRunnerTypes,
    RegisterRunnerTypes, EndRunnerTypes, FinishRunnerTypes DEF WorkerStep

-----------------------------------------------------------------------------
(* Resume workers.                                                         *)

\* ResumePaused keeps the types of the actor and result variables it changes.
LEMMA ResumePausedTypes ==
  ASSUME TypeOK, NEW id \in Ids, NEW r \in Resumers, ResumePaused(id, r)
  PROVE  TypeOK'
<1>1. ActorTypes'
  BY RegisteredType DEF ResumePaused, TypeOK, ActorTypes, EpochHolders
<1>2. ResultTypes'
  BY  DEF ResumePaused, TypeOK, ResultTypes, Show
<1>3. LifecycleTypes' /\ PermitTypes' /\ CapacityTypes' /\ EnvironmentTypes'
  BY DEF ResumePaused, TypeOK, LifecycleTypes, PermitTypes, CapacityTypes, EnvironmentTypes,
    lifecycleVars, permitVars, environment
<1> QED
  BY <1>1, <1>2, <1>3 DEF TypeOK

\* StartResume keeps the types of the actor variables it changes.
LEMMA StartResumeTypes ==
  ASSUME TypeOK, NEW r \in Resumers, StartResume(r)
  PROVE  TypeOK'
<1>1. ActorTypes'
  BY ResumerTypes, IdleResumerType DEF StartResume, TypeOK, ActorTypes
<1>2. LifecycleTypes' /\ PermitTypes' /\ CapacityTypes' /\ ResultTypes' /\ EnvironmentTypes'
  BY DEF StartResume, TypeOK, LifecycleTypes, PermitTypes, CapacityTypes, ResultTypes,
    EnvironmentTypes, lifecycleVars, permitVars, environment
<1> QED
  BY <1>1, <1>2 DEF TypeOK

\* ResumeReserve keeps the types of the permit, capacity and actor variables it changes.
LEMMA ResumeReserveTypes ==
  ASSUME TypeOK, NEW r \in Resumers, ResumeReserve(r)
  PROVE  TypeOK'
<1>1. PermitTypes'
  BY AcquirePermitTypes, ReserveForTypes, ResumerTypes DEF ResumeReserve, TypeOK, PermitTypes
<1>2. CapacityTypes'
  BY AcquirePermitTypes DEF ResumeReserve, TypeOK
<1>3. ActorTypes'
  BY ResumerTypes, IdleResumerType DEF ResumeReserve, TypeOK, ActorTypes
<1>4. LifecycleTypes' /\ ResultTypes' /\ EnvironmentTypes'
  BY DEF ResumeReserve, TypeOK, LifecycleTypes, ResultTypes, EnvironmentTypes, lifecycleVars,
    environment
<1> QED
  BY <1>1, <1>2, <1>3, <1>4 DEF TypeOK

\* ResumeGiveUp keeps the types of the permit and actor variables it changes.
LEMMA ResumeGiveUpTypes ==
  ASSUME TypeOK, NEW r \in Resumers, ResumeGiveUp(r)
  PROVE  TypeOK'
<1>1. PermitTypes'
  BY ReleaseReservationTypes, ResumerTypes, GenerationAssumption DEF ResumeGiveUp, TypeOK,
    PermitTypes, Gens
<1>2. ActorTypes'
  BY ResumerTypes, IdleResumerType DEF ResumeGiveUp, TypeOK, ActorTypes
<1>3. LifecycleTypes' /\ CapacityTypes' /\ ResultTypes' /\ EnvironmentTypes'
  BY DEF ResumeGiveUp, TypeOK, LifecycleTypes, CapacityTypes, ResultTypes, EnvironmentTypes,
    lifecycleVars, capacityVars, environment
<1> QED
  BY <1>1, <1>2, <1>3 DEF TypeOK

\* ResumeUnpause keeps the types of the permit and actor variables it changes.
LEMMA ResumeUnpauseTypes ==
  ASSUME TypeOK, NEW r \in Resumers, ResumeUnpause(r)
  PROVE  TypeOK'
<1>1. PermitTypes'
  <2>0. resumer[r].id \in Ids /\ resumer[r].gen \in Gens
    BY ResumerTypes
  <2>1. \/ UNCHANGED <<ownership, active, available>>
        \/ /\ ReleaseReservation(resumer[r].id, resumer[r].gen, IF resumer[r].cand THEN 1 ELSE 0)
           /\ UNCHANGED active
        \/ /\ ownership' = [ownership EXCEPT ![resumer[r].id] =
                             [gen |-> resumer[r].gen, active |-> TRUE]]
           /\ active' = [active EXCEPT ![resumer[r].id] = resumer[r].gen]
           /\ UNCHANGED available
    BY DEF ResumeUnpause
  <2>2. CASE UNCHANGED <<ownership, active, available>>
    BY <2>2 DEF TypeOK, PermitTypes
  <2>3. CASE /\ ReleaseReservation(resumer[r].id, resumer[r].gen, IF resumer[r].cand THEN 1 ELSE 0)
             /\ UNCHANGED active
    BY <2>0, <2>3, ReleaseReservationTypes DEF TypeOK
  <2>4. CASE /\ ownership' = [ownership EXCEPT ![resumer[r].id] =
                             [gen |-> resumer[r].gen, active |-> TRUE]]
             /\ active' = [active EXCEPT ![resumer[r].id] = resumer[r].gen]
             /\ UNCHANGED available
    BY <2>0, <2>4 DEF TypeOK, PermitTypes
  <2> QED
    BY <2>1, <2>2, <2>3, <2>4
<1>2. ActorTypes'
  <2>1. \/ resumer' = [resumer EXCEPT ![r] = IdleResumer]
        \/ resumer' = [resumer EXCEPT ![r].pc = "unpausing", ![r].cand = FALSE]
        \/ resumer' = [resumer EXCEPT ![r].pc = "unpausing"]
    BY DEF ResumeUnpause
  <2>2. CASE resumer' = [resumer EXCEPT ![r] = IdleResumer]
    BY <2>2, IdleResumerType DEF ResumeUnpause, TypeOK, ActorTypes
  <2>3. CASE resumer' = [resumer EXCEPT ![r].pc = "unpausing", ![r].cand = FALSE]
    BY <2>3 DEF ResumeUnpause, TypeOK, ActorTypes
  <2>4. CASE resumer' = [resumer EXCEPT ![r].pc = "unpausing"]
    BY <2>4 DEF ResumeUnpause, TypeOK, ActorTypes
  <2> QED
    BY <2>1, <2>2, <2>3, <2>4
<1>3. LifecycleTypes' /\ CapacityTypes' /\ ResultTypes' /\ EnvironmentTypes'
  BY DEF ResumeUnpause, TypeOK, LifecycleTypes, CapacityTypes, ResultTypes, EnvironmentTypes,
    lifecycleVars, capacityVars, environment
<1> QED
  BY <1>1, <1>2, <1>3 DEF TypeOK

\* ResumeSettles keeps the types of the lifecycle, permit, actor and result variables it changes.
LEMMA ResumeSettlesTypes ==
  ASSUME TypeOK, NEW r \in Resumers, ResumeSettles(r)
  PROVE  TypeOK'
<1>1. LifecycleTypes'
  <2>1. registered' \in [Ids -> Gens]
    BY ResumerTypes, ApplyCompletionTypes DEF ResumeSettles, TypeOK, LifecycleTypes
  <2> QED
    BY <2>1 DEF ResumeSettles, TypeOK, LifecycleTypes
<1>2. PermitTypes'
  <2>1. \/ UNCHANGED <<ownership, active, available>>
        \/ ReleasePermit(resumer[r].id)
        \/ ApplyCompletion(resumer[r].id, {"completed", "failed"})
    BY DEF ResumeSettles
  <2> QED
    BY <2>1, ResumerTypes, ReleasePermitTypes, ApplyCompletionTypes DEF TypeOK, PermitTypes
<1>3. ActorTypes'
  BY ApplyCompletionTypes, ResumerTypes, IdleResumerType DEF ResumeSettles, TypeOK, ActorTypes,
    EndEpoch, EpochHolders
<1>4. ResultTypes'
  <2>1. xfer' \in [Ids -> {"none", "live", "paused"}]
    BY ResumerTypes, ApplyCompletionTypes DEF ResumeSettles, TypeOK, ResultTypes
  <2>2. shown' \in [Ids -> {"none", "queued", "downloading", "paused", "completed", "failed"}]
    BY ResumerTypes, ApplyCompletionTypes DEF ResumeSettles, TypeOK, ResultTypes, Show
  <2> QED
    BY <2>1, <2>2 DEF ResumeSettles, TypeOK, ResultTypes
<1>5. CapacityTypes' /\ EnvironmentTypes'
  BY DEF ResumeSettles, TypeOK, CapacityTypes, EnvironmentTypes, capacityVars, environment
<1> QED
  BY <1>1, <1>2, <1>3, <1>4, <1>5 DEF TypeOK

\* So does every step of this kind.
LEMMA ResumeStepTypes ==
  ASSUME TypeOK, NEW r \in Resumers, ResumeStep(r)
  PROVE  TypeOK'
  BY ResumePausedTypes, StartResumeTypes, ResumeReserveTypes, ResumeGiveUpTypes,
    ResumeUnpauseTypes, ResumeSettlesTypes DEF ResumeStep

-----------------------------------------------------------------------------
(* Commands and events that stop a download.                               *)

\* ResumeUnmapped keeps the types of the lifecycle, permit, actor and result variables it changes.
LEMMA ResumeUnmappedTypes ==
  ASSUME TypeOK, NEW id \in Ids, ResumeUnmapped(id)
  PROVE  TypeOK'
<1>1. LifecycleTypes'
  BY GenerationAssumption DEF ResumeUnmapped, TypeOK, LifecycleTypes, Unregister, Gens
<1>2. PermitTypes'
  BY ReleasePermitTypes, GenerationAssumption DEF ResumeUnmapped, TypeOK, PermitTypes, Gens
<1>3. ActorTypes'
  BY  DEF ResumeUnmapped, TypeOK, ActorTypes, EndEpoch, EpochHolders
<1>4. ResultTypes'
  BY  DEF ResumeUnmapped, TypeOK, ResultTypes
<1>5. CapacityTypes' /\ EnvironmentTypes'
  BY DEF ResumeUnmapped, TypeOK, CapacityTypes, EnvironmentTypes, capacityVars, environment
<1> QED
  BY <1>1, <1>2, <1>3, <1>4, <1>5 DEF TypeOK

\* TransferEnds keeps the types of the lifecycle, permit, actor and result variables it changes.
LEMMA TransferEndsTypes ==
  ASSUME TypeOK, NEW id \in Ids, TransferEnds(id)
  PROVE  TypeOK'
<1>1. LifecycleTypes'
  BY ApplyCompletionTypes, GenerationAssumption DEF TransferEnds, TypeOK, LifecycleTypes, Gens
<1>2. PermitTypes'
  BY ApplyCompletionTypes, GenerationAssumption DEF TransferEnds, TypeOK, PermitTypes, Gens
<1>3. ActorTypes'
  BY ApplyCompletionTypes DEF TransferEnds, TypeOK, ActorTypes
<1>4. ResultTypes'
  BY ApplyCompletionTypes DEF TransferEnds, TypeOK, ResultTypes
<1>5. CapacityTypes' /\ EnvironmentTypes'
  BY DEF TransferEnds, TypeOK, CapacityTypes, EnvironmentTypes, capacityVars, environment
<1> QED
  BY <1>1, <1>2, <1>3, <1>4, <1>5 DEF TypeOK

\* ConnectionLost keeps the types of the lifecycle, permit, actor and result variables it changes.
LEMMA ConnectionLostTypes ==
  ASSUME TypeOK, NEW id \in Ids, ConnectionLost(id)
  PROVE  TypeOK'
<1>1. LifecycleTypes'
  BY ApplyCompletionTypes, GenerationAssumption DEF ConnectionLost, TypeOK, LifecycleTypes, Gens
<1>2. PermitTypes'
  BY ApplyCompletionTypes, GenerationAssumption DEF ConnectionLost, TypeOK, PermitTypes, Gens
<1>3. ActorTypes'
  BY ApplyCompletionTypes DEF ConnectionLost, TypeOK, ActorTypes
<1>4. ResultTypes'
  BY ApplyCompletionTypes DEF ConnectionLost, TypeOK, ResultTypes
<1>5. CapacityTypes' /\ EnvironmentTypes'
  BY DEF ConnectionLost, TypeOK, CapacityTypes, EnvironmentTypes, capacityVars, environment
<1> QED
  BY <1>1, <1>2, <1>3, <1>4, <1>5 DEF TypeOK

\* PauseMapped keeps the types of the lifecycle, permit, actor and result variables it changes.
LEMMA PauseMappedTypes ==
  ASSUME TypeOK, NEW id \in Ids, PauseMapped(id)
  PROVE  TypeOK'
<1>1. LifecycleTypes'
  BY ApplyCompletionTypes, GenerationAssumption DEF PauseMapped, TypeOK, LifecycleTypes,
    DropPending, Gens
<1>2. PermitTypes'
  BY ReleasePermitTypes, ApplyCompletionTypes, GenerationAssumption DEF PauseMapped, TypeOK,
    PermitTypes, Gens
<1>3. ActorTypes'
  BY ApplyCompletionTypes DEF PauseMapped, TypeOK, ActorTypes, EndEpoch, EpochHolders
<1>4. ResultTypes'
  BY ApplyCompletionTypes DEF PauseMapped, TypeOK, ResultTypes, Show
<1>5. CapacityTypes' /\ EnvironmentTypes'
  BY DEF PauseMapped, TypeOK, CapacityTypes, EnvironmentTypes, capacityVars, environment
<1> QED
  BY <1>1, <1>2, <1>3, <1>4, <1>5 DEF TypeOK

\* PauseUnmapped keeps the types of the lifecycle, permit, actor and result variables it changes.
LEMMA PauseUnmappedTypes ==
  ASSUME TypeOK, NEW id \in Ids, PauseUnmapped(id)
  PROVE  TypeOK'
<1>1. LifecycleTypes'
  BY GenerationAssumption DEF PauseUnmapped, TypeOK, LifecycleTypes, Unregister, DropPending,
    Gens
<1>2. PermitTypes'
  BY ReleasePermitTypes, GenerationAssumption DEF PauseUnmapped, TypeOK, PermitTypes, Gens
<1>3. ActorTypes'
  BY  DEF PauseUnmapped, TypeOK, ActorTypes, EndEpoch, EpochHolders
<1>4. ResultTypes'
  BY  DEF PauseUnmapped, TypeOK, ResultTypes, Show
<1>5. CapacityTypes' /\ EnvironmentTypes'
  BY DEF PauseUnmapped, TypeOK, CapacityTypes, EnvironmentTypes, capacityVars, environment
<1> QED
  BY <1>1, <1>2, <1>3, <1>4, <1>5 DEF TypeOK

\* PauseMedia keeps the types of the lifecycle and actor variables it changes.
LEMMA PauseMediaTypes ==
  ASSUME TypeOK, NEW id \in Ids, PauseMedia(id)
  PROVE  TypeOK'
<1>1. LifecycleTypes'
  BY StopMediaTypes, GenerationAssumption DEF PauseMedia, TypeOK, LifecycleTypes, Gens
<1>2. ActorTypes'
  BY StopMediaTypes DEF PauseMedia, StopMedia, TypeOK, ActorTypes
<1>3. PermitTypes' /\ CapacityTypes' /\ ResultTypes' /\ EnvironmentTypes'
  BY StopMediaTypes DEF PauseMedia
<1> QED
  BY <1>1, <1>2, <1>3 DEF TypeOK

\* CoordinatorStop keeps the types of the actor variables it changes.
LEMMA CoordinatorStopTypes ==
  ASSUME TypeOK, NEW id \in Ids, CoordinatorStop(id)
  PROVE  TypeOK'
<1>1. ActorTypes'
  <2>1. stopping' \in [Ids -> [op : {"none", "pause", "detach", "remove"}, gen : Gens,
                         phase : {"none", "sent", "waiting", "acked", "drain", "cleanup"}]]
    BY DEF CoordinatorStop, TypeOK, ActorTypes
  <2>2. CASE stopping[id].gen = 0
    BY <2>1, <2>2 DEF CoordinatorStop, TypeOK, ActorTypes
  <2>3. CASE stopping[id].gen # 0
    <3>1. stopping[id].gen \in Generations
      BY <2>3, StopTypes DEF Gens
    <3>2. UNCHANGED worker \/ SetWorker(id, stopping[id].gen, "cancelling")
      BY DEF CoordinatorStop
    <3>3. worker' \in [Ids -> [Generations -> WorkerPcs]]
      BY <3>1, <3>2, SetWorkerTypes, WorkerPcMembers DEF TypeOK, ActorTypes
    <3> QED
      BY <2>1, <3>3 DEF CoordinatorStop, TypeOK, ActorTypes
  <2> QED
    BY <2>2, <2>3
<1>2. LifecycleTypes' /\ PermitTypes' /\ CapacityTypes' /\ ResultTypes' /\ EnvironmentTypes'
  BY DEF CoordinatorStop, TypeOK, LifecycleTypes, PermitTypes, CapacityTypes, ResultTypes,
    EnvironmentTypes, lifecycleVars, permitVars, environment
<1> QED
  BY <1>1, <1>2 DEF TypeOK

\* FinishPause keeps the types of the lifecycle, permit, actor and result variables it changes.
LEMMA FinishPauseTypes ==
  ASSUME TypeOK, NEW id \in Ids, FinishPause(id)
  PROVE  TypeOK'
<1>1. LifecycleTypes'
  BY GenerationAssumption DEF FinishPause, TypeOK, LifecycleTypes, Unregister, Gens
<1>2. PermitTypes'
  BY ReleasePermitTypes, StopTypes, GenerationAssumption DEF FinishPause, TypeOK, PermitTypes,
    Gens
<1>3. ActorTypes'
  BY EndStopTypes DEF FinishPause, TypeOK, ActorTypes
<1>4. ResultTypes'
  BY  DEF FinishPause, TypeOK, ResultTypes, Show
<1>5. CapacityTypes' /\ EnvironmentTypes'
  BY DEF FinishPause, TypeOK, CapacityTypes, EnvironmentTypes, capacityVars, environment
<1> QED
  BY <1>1, <1>2, <1>3, <1>4, <1>5 DEF TypeOK

\* Detach keeps the types of the lifecycle, permit, actor and result variables it changes.
LEMMA DetachTypes ==
  ASSUME TypeOK, NEW id \in Ids, Detach(id)
  PROVE  TypeOK'
<1>1. LifecycleTypes'
  BY StopMediaTypes, GenerationAssumption DEF Detach, TypeOK, LifecycleTypes, Unregister,
    DropPending, Gens
<1>2. PermitTypes'
  <2>1. \/ ReleasePermit(id) \/ ReleasePermitFor(id, registered[id]) \/ StopMedia(id, "detach")
    BY DEF Detach
  <2> QED
    BY <2>1, ReleasePermitTypes, ReleasePermitForTypes, RegisteredType, StopMediaTypes DEF TypeOK
<1>3. ActorTypes'
  <2>1. stopping' \in [Ids -> [op : {"none", "pause", "detach", "remove"}, gen : Gens,
                         phase : {"none", "sent", "waiting", "acked", "drain", "cleanup"}]]
    BY StopMediaTypes DEF Detach, TypeOK, ActorTypes
  <2>2. epoch' \in [Ids -> EpochHolders]
    BY EndEpochTypes DEF Detach, TypeOK
  <2> QED
    BY <2>1, <2>2 DEF Detach, StopMedia, TypeOK, ActorTypes
<1>4. ResultTypes'
  BY DEF Detach, StopMedia, TypeOK, ResultTypes, Show
<1>5. CapacityTypes' /\ EnvironmentTypes'
  BY DEF Detach, StopMedia, TypeOK, CapacityTypes, EnvironmentTypes, capacityVars, permitVars,
    environment
<1> QED
  BY <1>1, <1>2, <1>3, <1>4, <1>5 DEF TypeOK

\* FinishDetach keeps the types of the lifecycle, permit, actor and result variables it changes.
LEMMA FinishDetachTypes ==
  ASSUME TypeOK, NEW id \in Ids, FinishDetach(id)
  PROVE  TypeOK'
<1>1. LifecycleTypes'
  BY GenerationAssumption DEF FinishDetach, TypeOK, LifecycleTypes, UnregisterFor, Gens
<1>2. PermitTypes'
  BY ReleasePermitForTypes, StopTypes, RegisteredType, GenerationAssumption DEF FinishDetach,
    TypeOK, PermitTypes, Gens
<1>3. ActorTypes'
  BY EndStopTypes DEF FinishDetach, TypeOK, ActorTypes
<1>4. ResultTypes'
  BY  DEF FinishDetach, TypeOK, ResultTypes, Show
<1>5. CapacityTypes' /\ EnvironmentTypes'
  BY DEF FinishDetach, TypeOK, CapacityTypes, EnvironmentTypes, capacityVars, environment
<1> QED
  BY <1>1, <1>2, <1>3, <1>4, <1>5 DEF TypeOK

\* SubmitRemoval keeps the types of the lifecycle and result variables it changes.
LEMMA SubmitRemovalTypes ==
  ASSUME TypeOK, NEW id \in Ids, SubmitRemoval(id)
  PROVE  TypeOK'
<1>1. LifecycleTypes'
  BY GenerationAssumption DEF SubmitRemoval, TypeOK, LifecycleTypes, DropPending, lifecycleVars,
    Gens
<1>2. ResultTypes'
  BY  DEF SubmitRemoval, TypeOK, ResultTypes
<1>3. PermitTypes' /\ CapacityTypes' /\ ActorTypes' /\ EnvironmentTypes'
  BY DEF SubmitRemoval, TypeOK, PermitTypes, CapacityTypes, ActorTypes, EnvironmentTypes,
    permitVars, environment
<1> QED
  BY <1>1, <1>2, <1>3 DEF TypeOK

\* RemovalRefused keeps the types of the pending list and of the result it changes.
LEMMA RemovalRefusedTypes ==
  ASSUME TypeOK, NEW id \in Ids, RemovalRefused(id)
  PROVE  TypeOK'
<1>1. LifecycleTypes'
  BY DEF RemovalRefused, TypeOK, LifecycleTypes, DropPending, lifecycleVars, Gens
<1>2. ResultTypes'
  BY DEF RemovalRefused, TypeOK, ResultTypes
<1>3. PermitTypes' /\ CapacityTypes' /\ ActorTypes' /\ EnvironmentTypes'
  BY DEF RemovalRefused, TypeOK, PermitTypes, CapacityTypes, ActorTypes, EnvironmentTypes,
    permitVars, environment
<1> QED
  BY <1>1, <1>2, <1>3 DEF TypeOK

\* RemoveStop keeps the types of the lifecycle, permit, actor and result variables it changes.
LEMMA RemoveStopTypes ==
  ASSUME TypeOK, NEW id \in Ids, RemoveStop(id)
  PROVE  TypeOK'
<1>1. LifecycleTypes'
  BY StopMediaTypes, GenerationAssumption DEF RemoveStop, TypeOK, LifecycleTypes, DropPending,
    lifecycleVars, Gens
<1>2. PermitTypes'
  <2>1. \/ ReleasePermit(id) \/ UNCHANGED permitVars \/ StopMedia(id, "remove")
    BY DEF RemoveStop
  <2>2. CASE UNCHANGED permitVars
    BY <2>2 DEF TypeOK, PermitTypes, permitVars
  <2> QED
    BY <2>1, <2>2, ReleasePermitTypes, StopMediaTypes DEF TypeOK
<1>3. ActorTypes'
  <2>1. stopping' \in [Ids -> [op : {"none", "pause", "detach", "remove"}, gen : Gens,
                         phase : {"none", "sent", "waiting", "acked", "drain", "cleanup"}]]
    <3>1. \/ BeginStop(id, "remove", "cleanup") \/ BeginStop(id, "remove", "drain")
          \/ StopMedia(id, "remove")
      BY DEF RemoveStop
    <3>2. ASSUME NEW phase \in {"cleanup", "drain"}, BeginStop(id, "remove", phase)
          PROVE  stopping' \in [Ids -> [op : {"none", "pause", "detach", "remove"}, gen : Gens,
                         phase : {"none", "sent", "waiting", "acked", "drain", "cleanup"}]]
      BY <3>2, RegisteredType DEF BeginStop, TypeOK, ActorTypes
    <3>3. CASE StopMedia(id, "remove")
      BY <3>3, StopMediaTypes
    <3> QED
      BY <3>1, <3>2, <3>3
  <2>2. epoch' \in [Ids -> EpochHolders]
    BY EndEpochTypes DEF RemoveStop, TypeOK
  <2> QED
    BY <2>1, <2>2 DEF RemoveStop, StopMedia, TypeOK, ActorTypes
<1>4. ResultTypes'
  BY DEF RemoveStop, StopMedia, TypeOK, ResultTypes
<1>5. CapacityTypes' /\ EnvironmentTypes'
  BY DEF RemoveStop, StopMedia, TypeOK, CapacityTypes, EnvironmentTypes, capacityVars,
    permitVars, environment
<1> QED
  BY <1>1, <1>2, <1>3, <1>4, <1>5 DEF TypeOK

\* FinishRemove keeps the types of the lifecycle, permit, actor and result variables it changes.
LEMMA FinishRemoveTypes ==
  ASSUME TypeOK, NEW id \in Ids, FinishRemove(id)
  PROVE  TypeOK'
<1>1. LifecycleTypes'
  BY GenerationAssumption DEF FinishRemove, TypeOK, LifecycleTypes, Unregister, UnregisterFor,
    Gens
<1>2. PermitTypes'
  BY ReleasePermitTypes, ReleasePermitForTypes, StopTypes, RegisteredType, GenerationAssumption
    DEF FinishRemove, TypeOK, PermitTypes, Gens
<1>3. ActorTypes'
  BY EndStopTypes, EndEpochTypes DEF FinishRemove, TypeOK, ActorTypes
<1>4. ResultTypes'
  BY  DEF FinishRemove, TypeOK, ResultTypes, Show
<1>5. CapacityTypes' /\ EnvironmentTypes'
  BY DEF FinishRemove, TypeOK, CapacityTypes, EnvironmentTypes, capacityVars, environment
<1> QED
  BY <1>1, <1>2, <1>3, <1>4, <1>5 DEF TypeOK

\* So does every step of this kind.
LEMMA StopStepTypes ==
  ASSUME TypeOK, NEW id \in Ids, StopStep(id)
  PROVE  TypeOK'
  BY ResumeUnmappedTypes, TransferEndsTypes, ConnectionLostTypes, PauseMappedTypes,
    PauseUnmappedTypes, PauseMediaTypes, CoordinatorStopTypes, FinishPauseTypes, DetachTypes,
    FinishDetachTypes, SubmitRemovalTypes, RemovalRefusedTypes, RemoveStopTypes,
    FinishRemoveTypes DEF StopStep

-----------------------------------------------------------------------------
(* Capacity, limits, holds, system actions and exit requests.              *)

\* SetCapacity keeps the types of the capacity variables it changes.
LEMMA SetCapacityTypes ==
  ASSUME TypeOK, NEW n \in Capacities, SetCapacity(n)
  PROVE  TypeOK'
<1>1. CapacityTypes'
  BY CapacityAssumption DEF SetCapacity, TypeOK, CapacityTypes
<1>2. LifecycleTypes' /\ PermitTypes' /\ ActorTypes' /\ ResultTypes' /\ EnvironmentTypes'
  BY DEF SetCapacity, TypeOK, LifecycleTypes, PermitTypes, ActorTypes, ResultTypes,
    EnvironmentTypes, lifecycleVars, environment
<1> QED
  BY <1>1, <1>2 DEF TypeOK

\* ApplyResize keeps the types of the permit and capacity variables it changes.
LEMMA ApplyResizeTypes ==
  ASSUME TypeOK, ApplyResize
  PROVE  TypeOK'
<1>1. PermitTypes'
  <2>1. available' \in Nat
    BY DEF ApplyResize, TypeOK, PermitTypes, CapacityTypes
  <2> QED
    BY <2>1 DEF ApplyResize, TypeOK, PermitTypes
<1>2. CapacityTypes'
  BY  DEF ApplyResize, TypeOK, CapacityTypes
<1>3. LifecycleTypes' /\ ActorTypes' /\ ResultTypes' /\ EnvironmentTypes'
  BY DEF ApplyResize, TypeOK, LifecycleTypes, ActorTypes, ResultTypes, EnvironmentTypes,
    lifecycleVars, environment
<1> QED
  BY <1>1, <1>2, <1>3 DEF TypeOK

\* RetireFreeSlots keeps the types of the permit and capacity variables it changes.
LEMMA RetireFreeSlotsTypes ==
  ASSUME TypeOK, RetireFreeSlots
  PROVE  TypeOK'
<1>1. PermitTypes'
  BY GenerationAssumption DEF RetireFreeSlots, TypeOK, PermitTypes, PermitFree, Gens
<1>2. CapacityTypes'
  BY DEF RetireFreeSlots, TypeOK, CapacityTypes, PermitTypes, PermitFree
<1>3. LifecycleTypes' /\ ActorTypes' /\ ResultTypes' /\ EnvironmentTypes'
  BY DEF RetireFreeSlots, TypeOK, LifecycleTypes, ActorTypes, ResultTypes, EnvironmentTypes,
    lifecycleVars, environment
<1> QED
  BY <1>1, <1>2, <1>3 DEF TypeOK

\* ReplaceQueueLimits keeps the types of the environment variables it changes.
LEMMA ReplaceQueueLimitsTypes ==
  ASSUME TypeOK, NEW m \in LimitMaps, ReplaceQueueLimits(m)
  PROVE  TypeOK'
<1>1. EnvironmentTypes'
  BY LimitAssumption DEF ReplaceQueueLimits, TypeOK, EnvironmentTypes
<1>2. LifecycleTypes' /\ PermitTypes' /\ CapacityTypes' /\ ActorTypes' /\ ResultTypes'
  BY DEF ReplaceQueueLimits, TypeOK, LifecycleTypes, PermitTypes, CapacityTypes, ActorTypes,
    ResultTypes, lifecycleVars, permitVars
<1> QED
  BY <1>1, <1>2 DEF TypeOK

\* BeginHold keeps the types of the environment variables it changes.
LEMMA BeginHoldTypes ==
  ASSUME TypeOK, NEW q \in Queues, BeginHold(q)
  PROVE  TypeOK'
<1>1. EnvironmentTypes'
  BY  DEF BeginHold, TypeOK, EnvironmentTypes
<1>2. LifecycleTypes' /\ PermitTypes' /\ CapacityTypes' /\ ActorTypes' /\ ResultTypes'
  BY DEF BeginHold, TypeOK, LifecycleTypes, PermitTypes, CapacityTypes, ActorTypes, ResultTypes,
    lifecycleVars, permitVars
<1> QED
  BY <1>1, <1>2 DEF TypeOK

\* EndHold keeps the types of the environment variables it changes.
LEMMA EndHoldTypes ==
  ASSUME TypeOK, NEW q \in Queues, EndHold(q)
  PROVE  TypeOK'
<1>1. EnvironmentTypes'
  BY  DEF EndHold, TypeOK, EnvironmentTypes
<1>2. LifecycleTypes' /\ PermitTypes' /\ CapacityTypes' /\ ActorTypes' /\ ResultTypes'
  BY DEF EndHold, TypeOK, LifecycleTypes, PermitTypes, CapacityTypes, ActorTypes, ResultTypes,
    lifecycleVars, permitVars
<1> QED
  BY <1>1, <1>2 DEF TypeOK

\* DaemonRecovers keeps the types of the environment variables it changes.
LEMMA DaemonRecoversTypes ==
  ASSUME TypeOK, DaemonRecovers
  PROVE  TypeOK'
<1>1. EnvironmentTypes'
  BY  DEF DaemonRecovers, TypeOK, EnvironmentTypes
<1>2. LifecycleTypes' /\ PermitTypes' /\ CapacityTypes' /\ ActorTypes' /\ ResultTypes'
  BY DEF DaemonRecovers, TypeOK, LifecycleTypes, PermitTypes, CapacityTypes, ActorTypes,
    ResultTypes, lifecycleVars, permitVars
<1> QED
  BY <1>1, <1>2 DEF TypeOK

\* BeginSystemAction keeps the types of the environment variables it changes.
LEMMA BeginSystemActionTypes ==
  ASSUME TypeOK, BeginSystemAction
  PROVE  TypeOK'
<1>1. EnvironmentTypes'
  BY  DEF BeginSystemAction, TypeOK, EnvironmentTypes
<1>2. LifecycleTypes' /\ PermitTypes' /\ CapacityTypes' /\ ActorTypes' /\ ResultTypes'
  BY DEF BeginSystemAction, TypeOK, LifecycleTypes, PermitTypes, CapacityTypes, ActorTypes,
    ResultTypes, lifecycleVars, permitVars
<1> QED
  BY <1>1, <1>2 DEF TypeOK

\* EndSystemAction keeps the types of the environment variables it changes.
LEMMA EndSystemActionTypes ==
  ASSUME TypeOK, EndSystemAction
  PROVE  TypeOK'
<1>1. EnvironmentTypes'
  BY  DEF EndSystemAction, TypeOK, EnvironmentTypes
<1>2. LifecycleTypes' /\ PermitTypes' /\ CapacityTypes' /\ ActorTypes' /\ ResultTypes'
  BY DEF EndSystemAction, TypeOK, LifecycleTypes, PermitTypes, CapacityTypes, ActorTypes,
    ResultTypes, lifecycleVars, permitVars
<1> QED
  BY <1>1, <1>2 DEF TypeOK

\* ExitStep keeps the types of the environment variables it changes.
LEMMA ExitStepTypes ==
  ASSUME TypeOK, ExitStep
  PROVE  TypeOK'
<1>1. EnvironmentTypes'
  <2>1. exit' \in {"open", "closing", "closed", "reopening"}
    BY DEF ExitStep, NextExit, TypeOK, EnvironmentTypes
  <2>2. ariaHold' \in BOOLEAN
    BY DEF ExitStep, TypeOK, EnvironmentTypes
  <2> QED
    BY <2>1, <2>2 DEF ExitStep, TypeOK, EnvironmentTypes
<1>2. LifecycleTypes' /\ PermitTypes' /\ CapacityTypes' /\ ActorTypes' /\ ResultTypes'
  BY DEF ExitStep, TypeOK, LifecycleTypes, PermitTypes, CapacityTypes, ActorTypes, ResultTypes,
    lifecycleVars, permitVars
<1> QED
  BY <1>1, <1>2 DEF TypeOK

\* So does every step of this kind.
LEMMA EnvironmentStepTypes ==
  ASSUME TypeOK, EnvironmentStep
  PROVE  TypeOK'
  BY SetCapacityTypes, ApplyResizeTypes, RetireFreeSlotsTypes, ReplaceQueueLimitsTypes,
    BeginHoldTypes, EndHoldTypes, DaemonRecoversTypes, BeginSystemActionTypes,
    EndSystemActionTypes, ExitStepTypes DEF EnvironmentStep

-----------------------------------------------------------------------------
\* The initial state is well typed: no lifecycle, no permit taken, no worker.
LEMMA InitTypes == Init => TypeOK
<1> SUFFICES ASSUME Init PROVE TypeOK
  OBVIOUS
<1>1. LifecycleTypes
  BY DEF Init, LifecycleTypes, Gens
<1>2. PermitTypes /\ CapacityTypes
  BY CapacityAssumption, NothingTypes DEF Init, PermitTypes, CapacityTypes, Gens
<1>3. ActorTypes
  BY IdleResumerType, NothingTypes, WorkerPcMembers DEF Init, ActorTypes, EpochHolders
<1>4. ResultTypes
  BY NothingTypes DEF Init, ResultTypes
<1>5. EnvironmentTypes
  BY LimitAssumption DEF Init, EnvironmentTypes
<1> QED
  BY <1>1, <1>2, <1>3, <1>4, <1>5 DEF TypeOK

\* Every step keeps every variable in its type, a stuttering one included.
LEMMA NextTypes == TypeOK /\ [Next]_vars => TypeOK'
<1> SUFFICES ASSUME TypeOK, [Next]_vars PROVE TypeOK'
  OBVIOUS
<1>1. CASE UNCHANGED vars
  <2>1. LifecycleTypes' /\ PermitTypes' /\ CapacityTypes'
    BY <1>1 DEF vars, TypeOK, LifecycleTypes, PermitTypes, CapacityTypes
  <2>2. ActorTypes' /\ ResultTypes' /\ EnvironmentTypes'
    BY <1>1 DEF vars, TypeOK, ActorTypes, ResultTypes, EnvironmentTypes
  <2> QED
    BY <2>1, <2>2 DEF TypeOK
<1>2. CASE \E id \in Ids : EnqueueStep(id) \/ StopStep(id)
  BY <1>2, EnqueueStepTypes, StopStepTypes
<1>3. CASE \E id \in Ids, g \in Generations : TryAdmit(id, g) \/ WorkerStep(id, g)
  BY <1>3, WorkerStepTypes
<1>4. CASE \E r \in Resumers : ResumeStep(r)
  BY <1>4, ResumeStepTypes
<1>5. CASE EnvironmentStep
  BY <1>5, EnvironmentStepTypes
<1> QED
  BY <1>1, <1>2, <1>3, <1>4, <1>5 DEF Next

\* In every behaviour every variable keeps its type: the semaphore and the debt
\* never become negative, and no command or worker holds a generation, a phase or
\* an epoch that the code does not have.
THEOREM TypeCorrect == Spec => []TypeOK
  BY InitTypes, NextTypes, PTL DEF Spec

-----------------------------------------------------------------------------
(* Permits.                                                                *)

Hand == Cardinality(PermitsInHand)
Cand == Cardinality(Candidates)
Parks == Cardinality(ParkedIds)

\* A step that grants nothing: a permit no longer held is free again.
Steady ==
  /\ UNCHANGED <<debt, target, resizing>>
  /\ available' + Hand' + Cand' + Parks' = available + Hand + Cand + Parks
  /\ Hand' + Cand' + Parks' <= Hand + Cand + Parks

\* A step that grants one permit pays the whole debt first.
Grant ==
  /\ available' = available - debt - 1
  /\ debt' = 0
  /\ UNCHANGED <<target, resizing>>
  /\ Hand' + Cand' + Parks' = Hand + Cand + Parks + 1

One(condition) == IF condition THEN 1 ELSE 0

-----------------------------------------------------------------------------
(* Counting.                                                               *)

\* The three sets of permits are finite whatever the state, so their sizes are numbers.
LEMMA CountTypes ==
  /\ IsFiniteSet(PermitsInHand) /\ Hand \in Nat /\ Hand' \in Nat
  /\ IsFiniteSet(Candidates) /\ Cand \in Nat /\ Cand' \in Nat
  /\ IsFiniteSet(ParkedIds) /\ Parks \in Nat /\ Parks' \in Nat
<1>1. IsFiniteSet(Ids \X Generations)
  BY FS_Product, IdsAssumption, GenerationAssumption
<1>2. PermitsInHand \subseteq Ids \X Generations /\ PermitsInHand' \subseteq Ids \X Generations
  BY DEF PermitsInHand
<1>3. Candidates \subseteq Resumers /\ Candidates' \subseteq Resumers
  BY DEF Candidates
<1>4. ParkedIds \subseteq Ids /\ ParkedIds' \subseteq Ids
  BY DEF ParkedIds
<1>5. IsFiniteSet(PermitsInHand) /\ IsFiniteSet(PermitsInHand')
  BY <1>1, <1>2, FS_Subset
<1>6. IsFiniteSet(Candidates) /\ IsFiniteSet(Candidates')
  BY <1>3, FS_Subset, ResumerAssumption
<1>7. IsFiniteSet(ParkedIds) /\ IsFiniteSet(ParkedIds')
  BY <1>4, FS_Subset, IdsAssumption
<1> QED
  BY <1>5, <1>6, <1>7, FS_CardinalityType DEF Hand, Cand, Parks

\* The sizes alone, for arithmetic.
LEMMA Counts ==
  Hand \in Nat /\ Hand' \in Nat /\ Cand \in Nat /\ Cand' \in Nat /\ Parks \in Nat /\ Parks' \in Nat
  BY CountTypes

\* A set that gains or loses one element, or neither, changes its size by one or not.
LEMMA OneMoves ==
  ASSUME NEW S, IsFiniteSet(S), NEW T, NEW x, NEW p \in BOOLEAN,
         T = IF p THEN S \cup {x} ELSE S \ {x}
  PROVE  Cardinality(T) = Cardinality(S) - One(x \in S) + One(p)
<1>1. Cardinality(S) \in Nat
  BY FS_CardinalityType
<1>2. CASE p
  <2>1. Cardinality(T) = IF x \in S THEN Cardinality(S) ELSE Cardinality(S) + 1
    BY <1>2, FS_AddElement
  <2> QED
    BY <1>1, <1>2, <2>1 DEF One
<1>3. CASE ~p
  <2>1. Cardinality(T) = IF x \in S THEN Cardinality(S) - 1 ELSE Cardinality(S)
    BY <1>3, FS_RemoveElement
  <2> QED
    BY <1>1, <1>3, <2>1 DEF One
<1> QED
  BY <1>2, <1>3

\* A worker that changes its state carries its permit with it, takes one or drops one.
LEMMA HandMoves ==
  ASSUME TypeOK, NEW id \in Ids, NEW g \in Generations, NEW pc, SetWorker(id, g, pc)
  PROVE  Hand' = Hand - One(worker[id][g] \in InHandPcs) + One(pc \in InHandPcs)
<1>1. \A i \in Ids, h \in Generations :
        worker'[i][h] = IF i = id /\ h = g THEN pc ELSE worker[i][h]
  BY DEF SetWorker, TypeOK, ActorTypes
<1>2. PermitsInHand' = IF pc \in InHandPcs THEN PermitsInHand \cup {<<id, g>>}
                                           ELSE PermitsInHand \ {<<id, g>>}
  BY <1>1 DEF PermitsInHand
<1>3. <<id, g>> \in PermitsInHand <=> worker[id][g] \in InHandPcs
  BY DEF PermitsInHand
<1>4. Cardinality(PermitsInHand') = Cardinality(PermitsInHand)
          - One(<<id, g>> \in PermitsInHand) + One(pc \in InHandPcs)
  <2>1. IsFiniteSet(PermitsInHand) /\ (pc \in InHandPcs) \in BOOLEAN
    BY CountTypes
  <2> QED
    BY <1>2, <2>1, OneMoves
<1> QED
  BY <1>3, <1>4 DEF Hand, One

\* Workers that stay as they are keep their permits.
LEMMA HandStays ==
  ASSUME UNCHANGED worker PROVE Hand' = Hand
  BY DEF Hand, PermitsInHand

\* One resume worker gives up or parks the permit it may hold ...
LEMMA CandDrops ==
  ASSUME NEW r \in Resumers,
         \A q \in Resumers : resumer'[q].cand <=> q # r /\ resumer[q].cand
  PROVE  Cand' = Cand - One(resumer[r].cand)
<1>1. Candidates' = Candidates \ {r}
  BY DEF Candidates
<1>2. r \in Candidates <=> resumer[r].cand
  BY DEF Candidates
<1>3. Cardinality(Candidates') = IF r \in Candidates THEN Cardinality(Candidates) - 1
                                                    ELSE Cardinality(Candidates)
  BY <1>1, CountTypes, FS_RemoveElement
<1> QED
  BY <1>2, <1>3, Counts DEF Cand, One

\* ... or is granted one.
LEMMA CandTakes ==
  ASSUME NEW r \in Resumers, ~resumer[r].cand,
         \A q \in Resumers : resumer'[q].cand <=> q = r \/ resumer[q].cand
  PROVE  Cand' = Cand + 1
<1>1. Candidates' = Candidates \cup {r} /\ r \notin Candidates
  BY DEF Candidates
<1>2. Cardinality(Candidates') = Cardinality(Candidates) + 1
  BY <1>1, CountTypes, FS_AddElement
<1> QED
  BY <1>2 DEF Cand

\* Resume workers that stay as they are keep their permits.
LEMMA CandStays ==
  ASSUME UNCHANGED resumer PROVE Cand' = Cand
  BY DEF Cand, Candidates

\* A permit is parked under one download, or taken from it.
LEMMA ParkMoves ==
  ASSUME TypeOK, NEW id \in Ids, NEW g, active' = [active EXCEPT ![id] = g]
  PROVE  Parks' = Parks - One(active[id] # 0) + One(g # 0)
<1>1. ParkedIds' = IF g # 0 THEN ParkedIds \cup {id} ELSE ParkedIds \ {id}
  BY DEF ParkedIds, TypeOK, PermitTypes
<1>2. id \in ParkedIds <=> active[id] # 0
  BY DEF ParkedIds
<1>3. Cardinality(ParkedIds') = Cardinality(ParkedIds) - One(id \in ParkedIds) + One(g # 0)
  BY <1>1, CountTypes, OneMoves
<1> QED
  BY <1>2, <1>3 DEF Parks, One

\* Without a change to active_permits nothing is parked or taken.
LEMMA ParkStays ==
  ASSUME UNCHANGED active PROVE Parks' = Parks
  BY DEF Parks, ParkedIds

\* The two release operators return exactly the permits that they take from
\* active_permits.  (The number is named because the provers cannot add primed terms.)
LEMMA ReleasePermitCounts ==
  ASSUME TypeOK, NEW id \in Ids, ReleasePermit(id)
  PROVE  \E d \in Nat : Parks' = Parks - d /\ available' = available + d
<1> DEFINE d == One(active[id] # 0)
<1>1. Parks' = Parks - d + One(0 # 0)
  BY ParkMoves DEF ReleasePermit
<1>2. d \in Nat /\ Parks' = Parks - d
  BY <1>1, Counts DEF One
<1>3. available' = available + d
  BY DEF ReleasePermit, Parked, One
<1> QED
  BY <1>2, <1>3

\* The same for a release that names the generation it gives back.
LEMMA ReleasePermitForCounts ==
  ASSUME TypeOK, NEW id \in Ids, NEW g, ReleasePermitFor(id, g)
  PROVE  \E d \in Nat : Parks' = Parks - d /\ available' = available + d
<1>1. CASE g # 0 /\ (ownership[id].gen = g \/ active[id] = g)
  <2> DEFINE d == One(active[id] # 0)
  <2>1. active' = [active EXCEPT ![id] = 0] /\ available' = available + d
    BY <1>1 DEF ReleasePermitFor, Parked, One
  <2>2. Parks' = Parks - d + One(0 # 0)
    BY <2>1, ParkMoves
  <2>3. d \in Nat /\ Parks' = Parks - d
    BY <2>2, Counts DEF One
  <2> QED
    BY <2>1, <2>3
<1>2. CASE ~(g # 0 /\ (ownership[id].gen = g \/ active[id] = g))
  <2>1. UNCHANGED <<active, available>>
    BY <1>2 DEF ReleasePermitFor
  <2>2. Parks' = Parks - 0 /\ available' = available + 0
    BY <2>1, ParkStays, Counts DEF TypeOK, PermitTypes
  <2> QED
    BY <2>2
<1> QED
  BY <1>1, <1>2

\* Restoring a task returns its parked permit and the permits in the worker's hands.
LEMMA RestoreCounts ==
  ASSUME TypeOK, NEW id \in Ids, NEW g \in Generations, NEW n \in Nat, Restore(id, g, n)
  PROVE  \E d \in Nat : Parks' = Parks - d /\ available' = available + d + n
<1>1. CASE ownership[id].gen = g /\ active[id] = g
  <2>1. active' = [active EXCEPT ![id] = 0] /\ available' = available + 1 + n
    BY <1>1 DEF Restore
  <2>2. Parks' = Parks - One(active[id] # 0) + One(0 # 0)
    BY <2>1, ParkMoves
  <2>3. Parks' = Parks - 1
    BY <1>1, <2>2, Counts, GenerationAssumption DEF One
  <2> QED
    BY <2>1, <2>3
<1>2. CASE ~(ownership[id].gen = g /\ active[id] = g)
  <2>1. UNCHANGED active /\ available' = available + 0 + n
    BY <1>2 DEF Restore, TypeOK, PermitTypes
  <2>2. Parks' = Parks - 0
    BY <2>1, ParkStays, Counts
  <2> QED
    BY <2>1, <2>2
<1> QED
  BY <1>1, <1>2

\* A step that touches neither permits nor workers changes no count.
LEMMA QuietStep ==
  ASSUME TypeOK, UNCHANGED <<permitVars, worker, resumer>>
  PROVE  Steady
  BY HandStays, CandStays, ParkStays, CountTypes DEF permitVars, Steady, TypeOK, PermitTypes

\* A worker that moves without a permit changing hands.
LEMMA QuietMove ==
  ASSUME TypeOK, NEW id \in Ids, NEW g \in Generations, NEW pc, SetWorker(id, g, pc),
         worker[id][g] \in InHandPcs <=> pc \in InHandPcs, UNCHANGED <<permitVars, resumer>>
  PROVE  Steady
<1>1. Hand' = Hand
  BY HandMoves, CountTypes DEF One
<1> QED
  BY <1>1, CandStays, ParkStays, CountTypes DEF permitVars, Steady, TypeOK, PermitTypes

\* What becomes of a parked permit under the operators that release it.
ParkedReleases(id) ==
  \/ ReleasePermit(id)
  \/ \E g \in Gens : ReleasePermitFor(id, g)
  \/ UNCHANGED <<available, active>>

\* Whichever of them runs, what is no longer parked is free.
LEMMA ParkedReleasesCounts ==
  ASSUME TypeOK, NEW id \in Ids, ParkedReleases(id)
  PROVE  \E d \in Nat : Parks' = Parks - d /\ available' = available + d
<1>1. CASE UNCHANGED <<available, active>>
  <2>1. Parks' = Parks - 0 /\ available' = available + 0
    BY <1>1, ParkStays, Counts DEF TypeOK, PermitTypes
  <2> QED
    BY <2>1
<1> QED
  BY <1>1, ReleasePermitCounts, ReleasePermitForCounts DEF ParkedReleases

\* A command that returns parked permits and moves no worker.
LEMMA ParkedReturn ==
  ASSUME TypeOK, NEW id \in Ids, UNCHANGED <<capacityVars, worker, resumer>>,
         ParkedReleases(id)
  PROVE  Steady
<1>1. PICK d \in Nat : Parks' = Parks - d /\ available' = available + d
  BY ParkedReleasesCounts
<1>2. UNCHANGED <<debt, target, resizing>>
  BY DEF capacityVars
<1>3. Hand' = Hand /\ Cand' = Cand
  BY HandStays, CandStays
<1> QED
  BY <1>1, <1>2, <1>3, Counts DEF Steady, TypeOK, PermitTypes

\* A worker that ends its dispatch: its permit, parked or in its hands, is returned.
LEMMA WorkerReturn ==
  ASSUME TypeOK, NEW id \in Ids, NEW g \in Generations, NEW pc,
         SetWorker(id, g, pc), pc \notin InHandPcs, UNCHANGED <<capacityVars, resumer>>,
         \/ ParkedReleases(id) /\ worker[id][g] \notin InHandPcs
         \/ Restore(id, g, One(worker[id][g] \in InHandPcs))
         \/ /\ UNCHANGED active
            /\ available' = available + One(worker[id][g] \in InHandPcs)
  PROVE  Steady
<1> DEFINE n == One(worker[id][g] \in InHandPcs)
<1>1. n \in Nat /\ available \in Nat
  BY DEF One, TypeOK, PermitTypes
<1>2. Hand' = Hand - n
  BY HandMoves, Counts, <1>1 DEF One
<1>3. PICK d \in Nat : Parks' = Parks - d /\ available' = available + d + n
  <2>1. CASE Restore(id, g, n)
    BY <1>1, <2>1, RestoreCounts
  <2>2. CASE UNCHANGED active /\ available' = available + n
    <3>1. Parks' = Parks - 0 /\ available' = available + 0 + n
      BY <1>1, <2>2, ParkStays, Counts
    <3> QED
      BY <3>1
  <2>3. CASE ParkedReleases(id) /\ worker[id][g] \notin InHandPcs
    <3>1. n = 0
      BY <2>3 DEF One
    <3>2. PICK d \in Nat : Parks' = Parks - d /\ available' = available + d
      BY <2>3, ParkedReleasesCounts
    <3>3. available' = available + d + n
      BY <1>1, <3>1, <3>2
    <3> QED
      BY <3>2, <3>3
  <2> QED
    BY <2>1, <2>2, <2>3
<1>4. UNCHANGED <<debt, target, resizing>> /\ Cand' = Cand
  BY CandStays DEF capacityVars
<1> HIDE DEF n
<1> QED
  BY <1>1, <1>2, <1>3, <1>4, Counts DEF Steady

-----------------------------------------------------------------------------
(* The actions.                                                            *)

\* An enqueue never touches a permit.
LEMMA EnqueueSteady ==
  ASSUME TypeOK, NEW id \in Ids, EnqueueStep(id)
  PROVE  Steady
<1>1. UNCHANGED <<permitVars, worker, resumer>>
  BY DEF EnqueueStep, ReserveEnqueue, AbandonEnqueue, CommitEnqueue, FinishCommit, CancelEnqueue
<1> QED
  BY <1>1, QuietStep

\* A dispatch worker gives back what it was given, whichever way it ends: its permit
\* stays in its hands, is parked, or is returned with the reservation.
LEMMA WorkerSteady ==
  ASSUME TypeOK, NEW id \in Ids, NEW g \in Generations, WorkerStep(id, g)
  PROVE  Steady
<1> USE DEF InHandPcs, InFlightPcs, RunnerPcs
<1>1. CASE DispatchHeld(id, g)
  BY <1>1, QuietMove DEF DispatchHeld
<1>2. CASE DispatchCheck(id, g)
  <2>1. CASE SetWorker(id, g, "idle") /\ ReleaseReservation(id, g, 1)
    <3>1. UNCHANGED active /\ available' = available + One(worker[id][g] \in InHandPcs)
      BY <1>2, <2>1 DEF DispatchCheck, ReleaseReservation, One
    <3> QED
      BY <1>2, <2>1, <3>1, WorkerReturn DEF DispatchCheck
  <2>2. CASE SetWorker(id, g, "restoring") /\ UNCHANGED <<ownership, available>>
    BY <1>2, <2>2, QuietMove DEF DispatchCheck, permitVars, capacityVars
  <2>3. CASE SetWorker(id, g, "locked") /\ UNCHANGED <<ownership, available>>
    BY <1>2, <2>3, QuietMove DEF DispatchCheck, permitVars, capacityVars
  <2> QED
    BY <1>2, <2>1, <2>2, <2>3 DEF DispatchCheck
<1>3. CASE Activate(id, g)
  <2>1. CASE CanActivate(id, g)
    <3>1. active' = [active EXCEPT ![id] = g] /\ UNCHANGED <<available, debt, target, resizing>>
      BY <1>3, <2>1 DEF Activate, capacityVars
    <3>2. PICK pc \in {"adding", "activated"} : SetWorker(id, g, pc)
      BY <1>3, <2>1 DEF Activate
    <3>3. Parks' = Parks - One(active[id] # 0) + One(g # 0)
      BY <3>1, ParkMoves
    <3>4. Parks' = Parks + 1
      BY <2>1, <3>3, CountTypes, GenerationAssumption DEF CanActivate, One
    <3>5. Hand' = Hand - 1
      BY <1>3, <3>2, HandMoves, CountTypes DEF Activate, One
    <3> QED
      BY <1>3, <3>1, <3>4, <3>5, CandStays, CountTypes DEF Activate, Steady, TypeOK, PermitTypes
  <2>2. CASE ~CanActivate(id, g)
    <3>1. UNCHANGED active /\ available' = available + One(worker[id][g] \in InHandPcs)
      BY <1>3, <2>2 DEF Activate, ReleaseReservation, One
    <3> QED
      BY <1>3, <2>2, <3>1, WorkerReturn DEF Activate
  <2> QED
    BY <2>1, <2>2
<1>4. CASE RestoreInHand(id, g)
  <2>1. One(worker[id][g] \in InHandPcs) = 1
    BY <1>4 DEF RestoreInHand, One
  <2> QED
    BY <1>4, <2>1, WorkerReturn DEF RestoreInHand
<1>5. CASE StartAddUri(id, g)
  <2>1. PICK pc \in {"heldBack", "rpc"} : SetWorker(id, g, pc)
    BY <1>5 DEF StartAddUri
  <2> QED
    BY <1>5, <2>1, QuietMove DEF StartAddUri
<1>6. CASE RestoreHeldBack(id, g)
  <2>1. One(worker[id][g] \in InHandPcs) = 0
    BY <1>6 DEF RestoreHeldBack, One
  <2> QED
    BY <1>6, <2>1, WorkerReturn DEF RestoreHeldBack
<1>7. CASE AddUriAccepted(id, g)
  BY <1>7, WorkerReturn DEF AddUriAccepted, ParkedReleases
<1>8. CASE AddUriRejected(id, g)
  BY <1>8, WorkerReturn DEF AddUriRejected, ParkedReleases
<1>9. CASE DaemonUnreachable(id, g)
  BY <1>9, QuietMove DEF DaemonUnreachable
<1>10. CASE RestoreUnreachable(id, g)
  <2>1. One(worker[id][g] \in InHandPcs) = 0
    BY <1>10 DEF RestoreUnreachable, One
  <2> QED
    BY <1>10, <2>1, WorkerReturn DEF RestoreUnreachable, ParkedReleases
<1>11. CASE PublishMedia(id, g)
  BY <1>11, QuietMove DEF PublishMedia
<1>12. CASE StartMediaRunner(id, g)
  <2>1. PICK pc \in {"spawned", "idle"} : SetWorker(id, g, pc)
    BY <1>12 DEF StartMediaRunner
  <2> QED
    BY <1>12, <2>1, WorkerReturn DEF StartMediaRunner, ParkedReleases, Gens
<1>13. CASE RegisterRunner(id, g)
  <2>1. RunnerStart(id, g) \notin InHandPcs
    BY DEF RunnerStart
  <2> QED
    BY <1>13, <2>1, QuietMove DEF RegisterRunner
<1>14. CASE EndRunner(id, g)
  BY <1>14, QuietMove DEF EndRunner
<1>15. CASE FinishRunner(id, g)
  BY <1>15, WorkerReturn DEF FinishRunner, ParkedReleases, Gens
<1> QED
  BY <1>1, <1>2, <1>3, <1>4, <1>5, <1>6, <1>7, <1>8, <1>9, <1>10, <1>11, <1>12, <1>13, <1>14,
     <1>15 DEF WorkerStep

\* Stop commands and terminal events return what was parked, and no more.
LEMMA StopSteady ==
  ASSUME TypeOK, NEW id \in Ids, StopStep(id)
  PROVE  Steady
<1> USE DEF ParkedReleases, ApplyCompletion
<1>1. CASE ResumeUnmapped(id) \/ TransferEnds(id) \/ ConnectionLost(id)
  BY <1>1, ParkedReturn DEF ResumeUnmapped, TransferEnds, ConnectionLost
<1>2. CASE PauseMapped(id) \/ PauseUnmapped(id)
  BY <1>2, ParkedReturn DEF PauseMapped, PauseUnmapped
<1>3. CASE PauseMedia(id) \/ SubmitRemoval(id) \/ RemovalRefused(id)
  BY <1>3, QuietStep DEF PauseMedia, SubmitRemoval, RemovalRefused, StopMedia
<1>4. CASE CoordinatorStop(id)
  <2>1. CASE UNCHANGED worker
    BY <1>4, <2>1, QuietStep DEF CoordinatorStop
  <2>2. CASE stopping[id].gen # 0 /\ worker[id][stopping[id].gen] = "running"
               /\ SetWorker(id, stopping[id].gen, "cancelling")
    <3>1. stopping[id].gen \in Generations
      BY <2>2, StopTypes DEF Gens
    <3>2. UNCHANGED <<permitVars, resumer>>
      BY <1>4 DEF CoordinatorStop
    <3>3. worker[id][stopping[id].gen] \in InHandPcs <=> "cancelling" \in InHandPcs
      BY <2>2 DEF InHandPcs
    <3> QED
      BY <2>2, <3>1, <3>2, <3>3, QuietMove
  <2> QED
    BY <1>4, <2>1, <2>2 DEF CoordinatorStop
<1>5. CASE FinishPause(id)
  BY <1>5, ParkedReturn DEF FinishPause
<1>6. CASE Detach(id)
  <2>1. CASE StopMedia(id, "detach")
    BY <2>1, QuietStep DEF StopMedia
  <2>2. CASE ~StopMedia(id, "detach")
    BY <1>6, <2>2, ParkedReturn, RegisteredType DEF Detach
  <2> QED
    BY <2>1, <2>2
<1>7. CASE FinishDetach(id)
  <2>1. ParkedReleases(id)
    BY <1>7, StopTypes DEF FinishDetach
  <2> QED
    BY <1>7, <2>1, ParkedReturn DEF FinishDetach
<1>8. CASE RemoveStop(id)
  <2>1. CASE StopMedia(id, "remove") \/ UNCHANGED <<permitVars, worker, resumer>>
    BY <2>1, QuietStep DEF StopMedia
  <2>2. CASE ReleasePermit(id) /\ UNCHANGED <<capacityVars, worker, resumer>>
    BY <2>2, ParkedReturn
  <2> QED
    BY <1>8, <2>1, <2>2 DEF RemoveStop
<1>9. CASE FinishRemove(id)
  <2>1. ParkedReleases(id)
    BY <1>9, StopTypes DEF FinishRemove
  <2> QED
    BY <1>9, <2>1, ParkedReturn DEF FinishRemove
<1> QED
  BY <1>1, <1>2, <1>3, <1>4, <1>5, <1>6, <1>7, <1>8, <1>9 DEF StopStep

\* A resume worker that ends, or parks its permit, takes and returns nothing else.
LEMMA ResumeSteady ==
  ASSUME TypeOK, CandidatesAreReserved, NEW r \in Resumers, ResumeStep(r), ~ResumeReserve(r)
  PROVE  Steady
<1> DEFINE id == resumer[r].id
<1>0. id \in Ids /\ resumer[r].gen \in Gens /\ resumer[r].cand \in BOOLEAN
  BY ResumerTypes
<1>1. CASE (\E i \in Ids : ResumePaused(i, r)) \/ StartResume(r)
  <2>1. UNCHANGED <<permitVars, worker>>
    BY <1>1 DEF ResumePaused, StartResume
  <2>2. ~resumer[r].cand /\ \A q \in Resumers : resumer'[q].cand <=> q # r /\ resumer[q].cand
    BY <1>1, SMTT(20) DEF ResumePaused, StartResume, TypeOK, ActorTypes, CandidatesAreReserved
  <2>3. Cand' = Cand
    BY <2>2, CandDrops, Counts DEF One
  <2> QED
    BY <2>1, <2>3, HandStays, ParkStays, Counts DEF permitVars, Steady, TypeOK, PermitTypes
<1>2. ASSUME resumer' = [resumer EXCEPT ![r] = IdleResumer]
      PROVE  Cand' = Cand - One(resumer[r].cand)
  <2>1. \A q \in Resumers : resumer'[q].cand <=> q # r /\ resumer[q].cand
    BY <1>2, IdleResumerType DEF TypeOK, ActorTypes
  <2> QED
    BY <2>1, CandDrops, Counts DEF One
<1>3. ASSUME resumer' = [resumer EXCEPT ![r] = IdleResumer],
             UNCHANGED <<capacityVars, worker, active>>,
             available' = available + One(resumer[r].cand)
      PROVE  Steady
  <2>1. Hand' = Hand /\ Parks' = Parks /\ Cand' = Cand - One(resumer[r].cand)
    BY <1>2, <1>3, HandStays, ParkStays
  <2>2. One(resumer[r].cand) \in Nat
    BY DEF One
  <2> QED
    BY <1>3, <2>1, <2>2, Counts DEF capacityVars, Steady, TypeOK, PermitTypes
<1>4. CASE ResumeGiveUp(r)
  <2>1. available' = available + One(resumer[r].cand)
    BY <1>0, <1>4 DEF ResumeGiveUp, ReleaseReservation, CandidatesAreReserved, One, TypeOK,
       PermitTypes
  <2> QED
    BY <1>3, <1>4, <2>1 DEF ResumeGiveUp
<1>5. CASE ResumeUnpause(r)
  <2>1. CASE /\ resumer' = [resumer EXCEPT ![r] = IdleResumer]
             /\ resumer[r].cand
             /\ ReleaseReservation(id, resumer[r].gen, 1)
             /\ UNCHANGED active
    BY <1>3, <1>5, <2>1 DEF ResumeUnpause, ReleaseReservation, One
  <2>2. CASE /\ resumer' = [resumer EXCEPT ![r] = IdleResumer]
             /\ ~resumer[r].cand
             /\ UNCHANGED <<available, active>>
    <3>1. available' = available + One(resumer[r].cand)
      BY <2>2 DEF One, TypeOK, PermitTypes
    <3> QED
      BY <1>3, <1>5, <2>2, <3>1 DEF ResumeUnpause
  <2>3. CASE /\ resumer[r].cand
             /\ active[id] = 0
             /\ active' = [active EXCEPT ![id] = resumer[r].gen]
             /\ resumer' = [resumer EXCEPT ![r].pc = "unpausing", ![r].cand = FALSE]
             /\ UNCHANGED available
    <3>1. \A q \in Resumers : resumer'[q].cand <=> q # r /\ resumer[q].cand
      BY <2>3 DEF TypeOK, ActorTypes
    <3>2. Cand' = Cand - 1
      BY <2>3, <3>1, CandDrops, Counts DEF One
    <3>3. Parks' = Parks + 1
      <4>1. resumer[r].gen # 0
        BY <2>3 DEF CandidatesAreReserved
      <4>2. Parks' = Parks - One(active[id] # 0) + One(resumer[r].gen # 0)
        BY <1>0, <2>3, ParkMoves
      <4> QED
        BY <2>3, <4>1, <4>2, Counts DEF One
    <3>4. UNCHANGED <<debt, target, resizing, available>> /\ Hand' = Hand
      BY <1>5, <2>3, HandStays DEF ResumeUnpause, capacityVars
    <3> QED
      BY <3>2, <3>3, <3>4, Counts DEF Steady, TypeOK, PermitTypes
  <2>4. CASE /\ ~resumer[r].cand
             /\ resumer' = [resumer EXCEPT ![r].pc = "unpausing"]
             /\ UNCHANGED <<available, active>>
    <3>1. \A q \in Resumers : resumer'[q].cand <=> q # r /\ resumer[q].cand
      BY <1>0, <2>4 DEF TypeOK, ActorTypes
    <3>2. Cand' = Cand
      BY <2>4, <3>1, CandDrops, Counts DEF One
    <3>3. UNCHANGED <<debt, target, resizing, available>> /\ Hand' = Hand /\ Parks' = Parks
      BY <1>5, <2>4, HandStays, ParkStays DEF ResumeUnpause, capacityVars
    <3> QED
      BY <3>2, <3>3, Counts DEF Steady, TypeOK, PermitTypes
  <2>5. available + 1 = available + One(TRUE)
    BY DEF One
  <2> QED
    BY <1>0, <1>5, <2>1, <2>2, <2>3, <2>4 DEF ResumeUnpause
<1>6. CASE ResumeSettles(r)
  <2>1. ParkedReleases(id)
    BY <1>6 DEF ResumeSettles, ParkedReleases, ApplyCompletion
  <2>2. PICK d \in Nat : Parks' = Parks - d /\ available' = available + d
    BY <1>0, <2>1, ParkedReleasesCounts
  <2>3. Cand' = Cand
    BY <1>2, <1>6, Counts DEF ResumeSettles, CandidatesAreReserved, One
  <2>4. UNCHANGED <<debt, target, resizing>> /\ Hand' = Hand
    BY <1>6, HandStays DEF ResumeSettles, capacityVars
  <2> QED
    BY <2>2, <2>3, <2>4, Counts DEF Steady, TypeOK, PermitTypes
<1> QED
  BY <1>1, <1>4, <1>5, <1>6 DEF ResumeStep

\* The environment changes the capacity (below) or touches no permit at all.
LEMMA EnvironmentSteady ==
  ASSUME TypeOK, EnvironmentStep, ~ApplyResize, ~RetireFreeSlots,
         \A n \in Capacities : ~SetCapacity(n)
  PROVE  Steady
<1>1. UNCHANGED <<permitVars, worker, resumer>>
  BY DEF EnvironmentStep, ReplaceQueueLimits, BeginHold, EndHold, DaemonRecovers,
     BeginSystemAction, EndSystemAction, ExitStep
<1> QED
  BY <1>1, QuietStep

\* Admission grants a permit to a worker that had none.
LEMMA TryAdmitGrant ==
  ASSUME TypeOK, GenerationsAreFresh, NEW id \in Ids, NEW g \in Generations, TryAdmit(id, g)
  PROVE  Grant
<1>1. worker[id][g] = "idle"
  BY DEF TryAdmit, Eligible, GenerationsAreFresh, HasFreshGenerations
<1>2. Hand' = Hand + 1
  BY <1>1, HandMoves, Counts DEF TryAdmit, InHandPcs, One
<1>3. Cand' = Cand /\ Parks' = Parks
  BY CandStays, ParkStays DEF TryAdmit
<1>4. available' = available - debt - 1 /\ debt' = 0 /\ UNCHANGED <<target, resizing>>
  BY DEF TryAdmit, AcquirePermit
<1> QED
  BY <1>2, <1>3, <1>4, Counts DEF Grant

\* So does a reservation for a resume worker.
LEMMA ResumeReserveGrant ==
  ASSUME TypeOK, CandidatesAreReserved, NEW r \in Resumers, ResumeReserve(r)
  PROVE  Grant
<1>1. ~resumer[r].cand
  BY DEF ResumeReserve, ResumeEligible, CandidatesAreReserved
<1>2. \A q \in Resumers : resumer'[q].cand <=> q = r \/ resumer[q].cand
  BY DEF ResumeReserve, TypeOK, ActorTypes
<1>3. Cand' = Cand + 1
  BY <1>1, <1>2, CandTakes
<1>4. Hand' = Hand /\ Parks' = Parks
  BY HandStays, ParkStays DEF ResumeReserve
<1>5. available' = available - debt - 1 /\ debt' = 0 /\ UNCHANGED <<target, resizing>>
  BY DEF ResumeReserve, AcquirePermit
<1> QED
  BY <1>3, <1>4, <1>5, Counts DEF Grant

\* A change of capacity moves the permits held by nobody: the free ones, the debt, and
\* the part of the change that is still to be applied.
LEMMA CapacityKeepsPermits ==
  ASSUME TypeOK, (\E n \in Capacities : SetCapacity(n)) \/ ApplyResize \/ RetireFreeSlots
  PROVE  /\ Hand' = Hand /\ Cand' = Cand /\ Parks' = Parks
         /\ \E a, d, t, z : /\ available' = a /\ debt' = d /\ target' = t /\ resizing' = z
                            /\ a - d - t + z = available - debt - target + resizing
<1> DEFINE Balanced(a, d, t, z) ==
             /\ available' = a /\ debt' = d /\ target' = t /\ resizing' = z
             /\ a - d - t + z = available - debt - target + resizing
<1>1. UNCHANGED <<worker, resumer, active>>
  BY DEF SetCapacity, ApplyResize, RetireFreeSlots
<1>2. Hand' = Hand /\ Cand' = Cand /\ Parks' = Parks
  BY <1>1, HandStays, CandStays, ParkStays
<1>3. available \in Nat /\ debt \in Nat /\ target \in Nat /\ resizing \in Int
  BY DEF TypeOK, PermitTypes, CapacityTypes
<1>4. ASSUME NEW n \in Capacities, SetCapacity(n)
      PROVE  Balanced(available, debt, n, n - target)
  BY <1>3, <1>4, CapacityAssumption DEF SetCapacity
<1>5. CASE ApplyResize
  <2> DEFINE paid == IF resizing < debt THEN resizing ELSE debt
  <2>1. paid \in Int /\ target' = target /\ resizing' = 0
    BY <1>3, <1>5 DEF ApplyResize
  <2>2. CASE resizing > 0
    <3>1. debt' = debt - paid /\ available' = available + (resizing - paid)
      BY <1>5, <2>2 DEF ApplyResize
    <3>2. available + (resizing - paid) - (debt - paid) - target + 0
            = available - debt - target + resizing
      <4> HIDE DEF paid
      <4> QED
        BY <1>3, <2>1
    <3>3. Balanced(available + (resizing - paid), debt - paid, target, 0)
      <4> HIDE DEF paid
      <4> QED
        BY <1>3, <2>1, <3>1, <3>2
    <3> QED
      BY <1>2, <3>3
  <2>3. CASE ~(resizing > 0)
    <3>1. debt' = debt - resizing /\ available' = available
      BY <1>3, <1>5, <2>3 DEF ApplyResize
    <3>2. available - (debt - resizing) - target + 0 = available - debt - target + resizing
      BY <1>3
    <3>3. Balanced(available, debt - resizing, target, 0)
      BY <2>1, <3>1, <3>2
    <3> QED
      BY <1>2, <3>3
  <2> QED
    BY <2>2, <2>3
<1>6. CASE RetireFreeSlots
  <2>1. /\ debt' = debt - available /\ available' = 0
        /\ target' = target /\ resizing' = resizing
    BY <1>6 DEF RetireFreeSlots
  <2>2. 0 - (debt - available) - target + resizing = available - debt - target + resizing
    BY <1>3
  <2>3. Balanced(0, debt - available, target, resizing)
    BY <2>1, <2>2
  <2> QED
    BY <1>2, <2>3
<1> QED
  BY <1>2, <1>4, <1>5, <1>6

-----------------------------------------------------------------------------
(* The books balance.                                                      *)

\* PermitConservation and CandidatesAreReserved survive every step.
LEMMA ConservationStep ==
  ASSUME TypeOK, TypeOK', PermitConservation, Steady \/ Grant
  PROVE  PermitConservation'
<1>1. /\ available \in Nat /\ debt \in Nat /\ target \in Nat /\ resizing \in Int
      /\ available' \in Nat
  BY DEF TypeOK, PermitTypes, CapacityTypes
<1>2. PICK a \in Nat, h \in Nat, c \in Nat, p \in Nat :
        available' = a /\ Hand' = h /\ Cand' = c /\ Parks' = p
  BY <1>1, Counts
<1>3. available + (Hand + Cand + Parks) - debt = target - resizing
  BY DEF PermitConservation, PermitsHeld, Hand, Cand, Parks
<1>4. CASE Steady
  <2>1. debt' = debt /\ target' = target /\ resizing' = resizing
    BY <1>4 DEF Steady
  <2>2. a + h + c + p = available + Hand + Cand + Parks
    BY <1>2, <1>4 DEF Steady
  <2>3. a + (h + c + p) - debt = target - resizing
    BY <1>1, <1>3, <2>2, Counts
  <2> QED
    BY <1>2, <2>1, <2>3 DEF PermitConservation, PermitsHeld, Hand, Cand, Parks
<1>5. CASE Grant
  <2>1. debt' = 0 /\ target' = target /\ resizing' = resizing
    BY <1>5 DEF Grant
  <2>2. a = available - debt - 1 /\ h + c + p = Hand + Cand + Parks + 1
    BY <1>2, <1>5 DEF Grant
  <2>3. a + (h + c + p) - 0 = target - resizing
    BY <1>1, <1>3, <2>2, Counts
  <2> QED
    BY <1>2, <2>1, <2>3 DEF PermitConservation, PermitsHeld, Hand, Cand, Parks
<1> QED
  BY <1>4, <1>5

\* A change of capacity keeps the books balanced too.
LEMMA CapacityConservation ==
  ASSUME TypeOK, TypeOK', PermitConservation,
         (\E n \in Capacities : SetCapacity(n)) \/ ApplyResize \/ RetireFreeSlots
  PROVE  PermitConservation'
<1>1. /\ available \in Nat /\ debt \in Nat /\ target \in Nat /\ resizing \in Int
      /\ available' \in Nat /\ debt' \in Nat /\ target' \in Nat /\ resizing' \in Int
  BY DEF TypeOK, PermitTypes, CapacityTypes
<1>2. PICK a \in Nat, d \in Nat, t \in Nat, z \in Int :
        /\ available' = a /\ debt' = d /\ target' = t /\ resizing' = z
        /\ a - d - t + z = available - debt - target + resizing
  BY <1>1, CapacityKeepsPermits
<1>3. available + (Hand + Cand + Parks) - debt = target - resizing
  BY DEF PermitConservation, PermitsHeld, Hand, Cand, Parks
<1>4. a + (Hand + Cand + Parks) - d = t - z
  BY <1>1, <1>2, <1>3, Counts
<1>5. Hand' = Hand /\ Cand' = Cand /\ Parks' = Parks
  BY CapacityKeepsPermits
<1> QED
  BY <1>2, <1>4, <1>5 DEF PermitConservation, PermitsHeld, Hand, Cand, Parks

\* A resume worker holds a permit only while it is reserved.
LEMMA CandidatesStep ==
  ASSUME TypeOK, CandidatesAreReserved, [Next]_vars
  PROVE  CandidatesAreReserved'
<1>1. CASE UNCHANGED resumer
  BY <1>1 DEF CandidatesAreReserved
<1>2. ASSUME NEW r \in Resumers, ResumeStep(r)
      PROVE  CandidatesAreReserved'
  <2>0. resumer[r].cand \in BOOLEAN /\ resumer[r].id \in Ids
    BY ResumerTypes
  <2>1. \A q \in Resumers \ {r} : resumer'[q] = resumer[q]
    BY <1>2 DEF ResumeStep, ResumePaused, StartResume, ResumeReserve, ResumeGiveUp,
       ResumeUnpause, ResumeSettles, TypeOK, ActorTypes
  <2>2. resumer'[r].cand => resumer'[r].pc = "reserved" /\ resumer'[r].gen # 0
    <3>1. CASE (\E id \in Ids : ResumePaused(id, r)) \/ ResumeGiveUp(r) \/ ResumeSettles(r)
      BY <3>1, IdleResumerType DEF ResumePaused, ResumeGiveUp, ResumeSettles, TypeOK, ActorTypes
    <3>2. CASE StartResume(r)
      BY <3>2 DEF StartResume, CandidatesAreReserved, TypeOK, ActorTypes
    <3>3. CASE ResumeReserve(r)
      BY <3>3 DEF ResumeReserve, ResumeEligible, ResumeStale, TypeOK, ActorTypes
    <3>4. CASE ResumeUnpause(r)
      <4>1. \/ resumer' = [resumer EXCEPT ![r] = IdleResumer]
            \/ resumer' = [resumer EXCEPT ![r].pc = "unpausing", ![r].cand = FALSE]
            \/ resumer' = [resumer EXCEPT ![r].pc = "unpausing"] /\ ~resumer[r].cand
        BY <3>4 DEF ResumeUnpause
      <4> QED
        BY <4>1, IdleResumerType DEF TypeOK, ActorTypes
    <3> QED
      BY <1>2, <3>1, <3>2, <3>3, <3>4 DEF ResumeStep
  <2> QED
    BY <2>1, <2>2 DEF CandidatesAreReserved
<1>3. ASSUME NEW id \in Ids, EnqueueStep(id) PROVE UNCHANGED resumer
  BY <1>3 DEF EnqueueStep, ReserveEnqueue, AbandonEnqueue, CommitEnqueue, FinishCommit,
     CancelEnqueue
<1>4. ASSUME NEW id \in Ids, StopStep(id) PROVE UNCHANGED resumer
  BY <1>4 DEF StopStep, ResumeUnmapped, TransferEnds, ConnectionLost, PauseMapped,
     PauseUnmapped, PauseMedia, CoordinatorStop, FinishPause, Detach, FinishDetach,
     SubmitRemoval, RemovalRefused, RemoveStop, FinishRemove, StopMedia
<1>5. ASSUME NEW id \in Ids, NEW g \in Generations, TryAdmit(id, g) \/ WorkerStep(id, g)
      PROVE  UNCHANGED resumer
  BY <1>5 DEF TryAdmit, WorkerStep, DispatchHeld, DispatchCheck, Activate, RestoreInHand,
     StartAddUri, RestoreHeldBack, AddUriAccepted, AddUriRejected, DaemonUnreachable,
     RestoreUnreachable, PublishMedia, StartMediaRunner, RegisterRunner, EndRunner, FinishRunner
<1>6. ASSUME EnvironmentStep PROVE UNCHANGED resumer
  BY <1>6 DEF EnvironmentStep, SetCapacity, ApplyResize, RetireFreeSlots, ReplaceQueueLimits,
     BeginHold, EndHold, DaemonRecovers, BeginSystemAction, EndSystemAction, ExitStep
<1> QED
  BY <1>1, <1>2, <1>3, <1>4, <1>5, <1>6 DEF Next, vars

-----------------------------------------------------------------------------
(* Generations are used once.                                              *)

\* A step that starts no worker, and puts a task back only from a worker that ends,
\* keeps the generations fresh.
LEMMA OldGenerationsStay ==
  ASSUME TypeOK, TypeOK', GenerationsAreFresh, UNCHANGED <<enq, watermark>>,
         \A id \in Ids, g \in Generations :
           /\ worker'[id][g] # "idle" => worker[id][g] # "idle"
           /\ <<id, g>> \in pending' =>
                <<id, g>> \in pending \/ (worker[id][g] # "idle" /\ worker'[id][g] = "idle")
  PROVE  GenerationsAreFresh'
<1> SUFFICES ASSUME NEW id \in Ids PROVE HasFreshGenerations(id)'
  BY DEF GenerationsAreFresh
<1>1. HasFreshGenerations(id)
  BY DEF GenerationsAreFresh
<1>2. \A g \in Generations :
        /\ Occupied(id, g)' => Occupied(id, g)
        /\ <<id, g>> \in pending' => worker'[id][g] = "idle"
        /\ worker[id][g] = "idle" => worker'[id][g] = "idle"
  BY <1>1 DEF HasFreshGenerations, Occupied
<1> QED
  BY <1>1, <1>2 DEF HasFreshGenerations

\* Reservations, rollbacks and commits keep them fresh: a rollback returns the watermark
\* to a value that still bounds every generation in use.
LEMMA EnqueueKeepsFresh ==
  ASSUME TypeOK, TypeOK', GenerationsAreFresh, NEW id \in Ids, EnqueueStep(id)
  PROVE  GenerationsAreFresh'
<1>0. HasFreshGenerations(id) /\ UNCHANGED worker
  BY DEF GenerationsAreFresh, EnqueueStep, ReserveEnqueue, AbandonEnqueue, CommitEnqueue,
     FinishCommit, CancelEnqueue
<1>1. ASSUME NEW i \in Ids \ {id} PROVE HasFreshGenerations(i)'
  <2>1. enq'[i] = enq[i] /\ watermark'[i] = watermark[i]
    BY DEF EnqueueStep, ReserveEnqueue, AbandonEnqueue, CommitEnqueue, FinishCommit,
       CancelEnqueue, RollbackEnqueue, TypeOK, LifecycleTypes
  <2>2. \A g \in Generations : <<i, g>> \in pending' <=> <<i, g>> \in pending
    BY DEF EnqueueStep, ReserveEnqueue, AbandonEnqueue, CommitEnqueue, FinishCommit,
       CancelEnqueue
  <2>3. HasFreshGenerations(i)
    BY DEF GenerationsAreFresh
  <2> QED
    BY <1>0, <2>1, <2>2, <2>3 DEF HasFreshGenerations, Occupied
<1>2. \A g \in Generations : g \in Nat
  BY GenerationAssumption
<1>3. /\ watermark[id] \in Nat /\ enq[id].gen \in Nat /\ enq[id].prev \in Nat
  BY <1>2 DEF TypeOK, LifecycleTypes, NoEnqueue, Gens
<1>4. NoEnqueue.phase = "none"
  BY DEF NoEnqueue
<1>5. ASSUME NEW g \in Generations, ReserveEnqueue(id, g)
      PROVE  HasFreshGenerations(id)'
  <2>1. enq[id].phase = "none" /\ watermark[id] < g
    BY <1>5 DEF ReserveEnqueue, LockFree, ControlFree
  <2>2. /\ enq'[id] = [phase |-> "reserved", gen |-> g, prev |-> watermark[id]]
        /\ watermark'[id] = g /\ UNCHANGED pending
    BY <1>5 DEF ReserveEnqueue, TypeOK, LifecycleTypes
  <2> QED
    BY <1>0, <2>1, <2>2 DEF HasFreshGenerations, Occupied
<1>6. ASSUME AbandonEnqueue(id) PROVE HasFreshGenerations(id)'
  <2>1. /\ enq[id].phase = "reserved" /\ enq'[id] = NoEnqueue
        /\ watermark'[id] = enq[id].prev /\ UNCHANGED pending
    BY <1>0, <1>6 DEF AbandonEnqueue, RollbackEnqueue, HasFreshGenerations, TypeOK,
       LifecycleTypes
  <2> QED
    BY <1>0, <1>4, <2>1 DEF HasFreshGenerations, Occupied
<1>7. ASSUME CommitEnqueue(id) PROVE HasFreshGenerations(id)'
  <2>1. enq[id].phase = "reserved"
    BY <1>7 DEF CommitEnqueue
  <2>2. CASE enq' = [enq EXCEPT ![id] = NoEnqueue] /\ UNCHANGED pending
               /\ RollbackEnqueue(id, enq[id].gen, enq[id].prev)
    <3>1. enq'[id] = NoEnqueue /\ watermark'[id] = enq[id].prev
      BY <1>0, <2>1, <2>2 DEF RollbackEnqueue, HasFreshGenerations, TypeOK, LifecycleTypes
    <3> QED
      BY <1>0, <1>4, <2>1, <2>2, <3>1 DEF HasFreshGenerations, Occupied
  <2>3. CASE /\ enq' = [enq EXCEPT ![id].phase = "finalizing"]
             /\ pending' = pending \cup {<<id, enq[id].gen>>} /\ UNCHANGED watermark
    <3>1. /\ enq'[id].phase = "finalizing" /\ enq'[id].gen = enq[id].gen
          /\ enq'[id].prev = enq[id].prev
      BY <2>1, <2>3 DEF TypeOK, LifecycleTypes, NoEnqueue
    <3>2. ASSUME NEW g \in Generations, g = enq[id].gen PROVE worker[id][g] = "idle"
      <4>1. enq[id].prev < g /\ ~(g <= enq[id].prev)
        BY <1>0, <1>3, <2>1, <3>2 DEF HasFreshGenerations
      <4> QED
        BY <1>0, <2>1, <4>1 DEF HasFreshGenerations, Occupied
    <3> QED
      BY <1>0, <2>1, <2>3, <3>1, <3>2 DEF HasFreshGenerations, Occupied
  <2> QED
    BY <1>7, <2>2, <2>3 DEF CommitEnqueue
<1>8. ASSUME FinishCommit(id) PROVE HasFreshGenerations(id)'
  <2>1. enq[id].phase = "finalizing" /\ enq'[id] = NoEnqueue
    BY <1>8 DEF FinishCommit, TypeOK, LifecycleTypes
  <2>2. CASE UNCHANGED <<pending, watermark>>
    BY <1>0, <1>2, <1>3, <1>4, <2>1, <2>2 DEF HasFreshGenerations, Occupied
  <2>3. CASE pending' = pending \ {<<id, enq[id].gen>>}
               /\ RollbackEnqueue(id, enq[id].gen, enq[id].prev)
    <3>1. watermark'[id] = enq[id].prev
      BY <1>0, <2>1, <2>3 DEF RollbackEnqueue, HasFreshGenerations, TypeOK, LifecycleTypes
    <3> QED
      BY <1>0, <1>4, <2>1, <2>3, <3>1 DEF HasFreshGenerations, Occupied
  <2> QED
    BY <1>8, <2>2, <2>3 DEF FinishCommit
<1>9. ASSUME NEW g \in Generations, CancelEnqueue(id, g)
      PROVE  HasFreshGenerations(id)'
  BY <1>0, <1>9 DEF CancelEnqueue, HasFreshGenerations, Occupied
<1> QED
  BY <1>1, <1>5, <1>6, <1>7, <1>8, <1>9 DEF EnqueueStep, GenerationsAreFresh

\* Admission turns a pending task into a worker of the same generation.
LEMMA TryAdmitKeepsFresh ==
  ASSUME TypeOK, TypeOK', GenerationsAreFresh, NEW id \in Ids, NEW g \in Generations,
         TryAdmit(id, g)
  PROVE  GenerationsAreFresh'
<1> SUFFICES ASSUME NEW i \in Ids PROVE HasFreshGenerations(i)'
  BY DEF GenerationsAreFresh
<1>1. HasFreshGenerations(i) /\ enq[i].phase # "finalizing"
  BY DEF GenerationsAreFresh, TryAdmit, AdmissionOpen, GateFree
<1>2. /\ <<id, g>> \in pending /\ pending' = pending \ {<<id, g>>}
      /\ UNCHANGED <<enq, watermark>>
  BY DEF TryAdmit, Eligible, lifecycleVars
<1>3. \A j \in Ids, h \in Generations :
        worker'[j][h] = IF j = id /\ h = g THEN "admitted" ELSE worker[j][h]
  BY DEF TryAdmit, SetWorker, TypeOK, ActorTypes
<1>4. \A h \in Generations :
        /\ Occupied(i, h)' => Occupied(i, h)
        /\ <<i, h>> \in pending' => worker'[i][h] = "idle"
  BY <1>1, <1>2, <1>3 DEF Occupied, HasFreshGenerations
<1> QED
  BY <1>1, <1>2, <1>4 DEF HasFreshGenerations

\* Workers never leave idle by themselves, and put their task back only as they end.
LEMMA WorkerKeepsFresh ==
  ASSUME TypeOK, TypeOK', GenerationsAreFresh, NEW id \in Ids, NEW g \in Generations,
         WorkerStep(id, g)
  PROVE  GenerationsAreFresh'
<1> USE DEF RunnerPcs
<1>1. worker[id][g] # "idle" /\ UNCHANGED <<enq, watermark>>
  BY DEF WorkerStep, DispatchHeld, DispatchCheck, Activate, RestoreInHand, StartAddUri,
     RestoreHeldBack, AddUriAccepted, AddUriRejected, DaemonUnreachable, RestoreUnreachable,
     PublishMedia, StartMediaRunner, RegisterRunner, EndRunner, FinishRunner, lifecycleVars
<1>2. \E pc : SetWorker(id, g, pc)
  BY DEF WorkerStep, DispatchHeld, DispatchCheck, Activate, RestoreInHand, StartAddUri,
     RestoreHeldBack, AddUriAccepted, AddUriRejected, DaemonUnreachable, RestoreUnreachable,
     PublishMedia, StartMediaRunner, RegisterRunner, EndRunner, FinishRunner
<1>3. \/ UNCHANGED pending
      \/ SetWorker(id, g, "idle") /\ pending' \subseteq pending \cup {<<id, g>>}
  BY DEF WorkerStep, DispatchHeld, DispatchCheck, Activate, RestoreInHand, StartAddUri,
     RestoreHeldBack, AddUriAccepted, AddUriRejected, DaemonUnreachable, RestoreUnreachable,
     PublishMedia, StartMediaRunner, RegisterRunner, EndRunner, FinishRunner, Restore
<1>4. \A j \in Ids, h \in Generations :
        worker'[j][h] # "idle" => worker[j][h] # "idle"
  BY <1>1, <1>2 DEF SetWorker, TypeOK, ActorTypes
<1>5. SetWorker(id, g, "idle") => worker'[id][g] = "idle"
  BY DEF SetWorker, TypeOK, ActorTypes
<1>6. \A i \in Ids, h \in Generations :
        /\ worker'[i][h] # "idle" => worker[i][h] # "idle"
        /\ <<i, h>> \in pending' =>
             <<i, h>> \in pending \/ (worker[i][h] # "idle" /\ worker'[i][h] = "idle")
  BY <1>1, <1>3, <1>4, <1>5
<1> QED
  BY <1>1, <1>6, OldGenerationsStay

\* Stop commands only take tasks out, and only cancel workers that run.
LEMMA StopKeepsFresh ==
  ASSUME TypeOK, TypeOK', GenerationsAreFresh, NEW id \in Ids, StopStep(id)
  PROVE  GenerationsAreFresh'
<1> USE DEF StopStep, ResumeUnmapped, TransferEnds, ConnectionLost, PauseMapped,
     PauseUnmapped, PauseMedia, FinishPause, Detach, FinishDetach,
     SubmitRemoval, RemovalRefused, RemoveStop, FinishRemove, StopMedia
<1>1. UNCHANGED <<enq, watermark>>
  BY DEF CoordinatorStop, lifecycleVars
<1>2. pending' \subseteq pending
  BY DEF CoordinatorStop, DropPending
<1>3. \A j \in Ids, h \in Generations :
        worker'[j][h] # "idle" => worker[j][h] # "idle"
  <2>1. CASE UNCHANGED worker
    BY <2>1
  <2>2. CASE stopping[id].gen # 0 /\ worker[id][stopping[id].gen] = "running"
               /\ SetWorker(id, stopping[id].gen, "cancelling")
    <3>1. stopping[id].gen \in Generations
      BY <2>2, StopTypes DEF Gens
    <3> QED
      BY <2>2, <3>1 DEF SetWorker, TypeOK, ActorTypes
  <2> QED
    BY <2>1, <2>2 DEF CoordinatorStop
<1>4. \A i \in Ids, h \in Generations :
        /\ worker'[i][h] # "idle" => worker[i][h] # "idle"
        /\ <<i, h>> \in pending' =>
             <<i, h>> \in pending \/ (worker[i][h] # "idle" /\ worker'[i][h] = "idle")
  BY <1>2, <1>3
<1> QED
  BY <1>1, <1>4, OldGenerationsStay

\* Every step keeps the generations fresh.
LEMMA FreshStep ==
  ASSUME TypeOK, TypeOK', GenerationsAreFresh, [Next]_vars
  PROVE  GenerationsAreFresh'
<1>1. CASE UNCHANGED <<enq, watermark, pending, worker>>
  <2>1. \A i \in Ids, h \in Generations :
          /\ worker'[i][h] # "idle" => worker[i][h] # "idle"
          /\ <<i, h>> \in pending' =>
               <<i, h>> \in pending \/ (worker[i][h] # "idle" /\ worker'[i][h] = "idle")
    BY <1>1
  <2> QED
    BY <1>1, <2>1, OldGenerationsStay
<1>2. ASSUME NEW r \in Resumers, ResumeStep(r)
      PROVE  UNCHANGED <<enq, watermark, pending, worker>>
  BY <1>2 DEF ResumeStep, ResumePaused, StartResume, ResumeReserve, ResumeGiveUp,
     ResumeUnpause, ResumeSettles, lifecycleVars
<1>3. ASSUME EnvironmentStep
      PROVE  UNCHANGED <<enq, watermark, pending, worker>>
  BY <1>3 DEF EnvironmentStep, SetCapacity, ApplyResize, RetireFreeSlots, ReplaceQueueLimits,
     BeginHold, EndHold, DaemonRecovers, BeginSystemAction, EndSystemAction, ExitStep,
     lifecycleVars
<1> QED
  BY <1>1, <1>2, <1>3, EnqueueKeepsFresh, StopKeepsFresh, TryAdmitKeepsFresh, WorkerKeepsFresh
     DEF Next, vars

-----------------------------------------------------------------------------
(* The theorems.                                                           *)

\* Every step is a change of capacity, steady or a grant.
LEMMA StepKinds ==
  ASSUME TypeOK, PermitInvariant, [Next]_vars
  PROVE  \/ (\E n \in Capacities : SetCapacity(n)) \/ ApplyResize \/ RetireFreeSlots
         \/ Steady
         \/ Grant
<1>0. GenerationsAreFresh /\ CandidatesAreReserved
  BY DEF PermitInvariant
<1>1. CASE UNCHANGED vars
  BY <1>1, QuietStep DEF vars, permitVars
<1>2. CASE \E id \in Ids : EnqueueStep(id) \/ StopStep(id)
  BY <1>2, EnqueueSteady, StopSteady
<1>3. CASE \E id \in Ids, g \in Generations : TryAdmit(id, g) \/ WorkerStep(id, g)
  BY <1>0, <1>3, TryAdmitGrant, WorkerSteady
<1>4. CASE \E r \in Resumers : ResumeStep(r)
  BY <1>0, <1>4, ResumeReserveGrant, ResumeSteady
<1>5. CASE EnvironmentStep
  BY <1>5, EnvironmentSteady
<1> QED
  BY <1>1, <1>2, <1>3, <1>4, <1>5 DEF Next

\* At the start every slot is free.
LEMMA InitPermits == Init => PermitInvariant
<1> SUFFICES ASSUME Init PROVE PermitInvariant
  OBVIOUS
<1>1. PermitsInHand = {} /\ Candidates = {} /\ ParkedIds = {}
  BY IdleResumerType DEF Init, PermitsInHand, Candidates, ParkedIds, InHandPcs
<1>2. PermitConservation
  BY <1>1, FS_EmptySet, CapacityAssumption DEF Init, PermitConservation, PermitsHeld
<1>3. CandidatesAreReserved
  BY IdleResumerType DEF Init, CandidatesAreReserved
<1>4. GenerationsAreFresh
  BY DEF Init, GenerationsAreFresh, HasFreshGenerations, Occupied, NoEnqueue
<1> QED
  BY <1>2, <1>3, <1>4 DEF PermitInvariant

\* The invariant is inductive relative to the types.
LEMMA NextPermits == TypeOK /\ TypeOK' /\ PermitInvariant /\ [Next]_vars => PermitInvariant'
<1> SUFFICES ASSUME TypeOK, TypeOK', PermitInvariant, [Next]_vars PROVE PermitInvariant'
  OBVIOUS
<1>1. PermitConservation'
  BY StepKinds, CapacityConservation, ConservationStep DEF PermitInvariant
<1>2. GenerationsAreFresh' /\ CandidatesAreReserved'
  BY FreshStep, CandidatesStep DEF PermitInvariant
<1> QED
  BY <1>1, <1>2 DEF PermitInvariant

\* No slot is lost and none is returned twice, in any interleaving of any number of
\* downloads, generations and resume workers, whatever the capacity is changed to; and
\* a generation that was handed out is never handed out again while it is in use.
THEOREM PermitsAreConserved == Spec => []PermitInvariant
  BY TypeCorrect, InitPermits, NextPermits, PTL DEF Spec

\* Every slot the semaphore ever had is free, in one worker's hands or parked under one
\* download, in every state.
THEOREM SlotsAreConserved == Spec => []PermitConservation
<1>1. PermitInvariant => PermitConservation
  BY DEF PermitInvariant
<1> QED
  BY <1>1, PermitsAreConserved, PTL

\* A grant pays off the debt, so it leaves at most the limit in force in use.
LEMMA GrantsRespectTarget ==
  TypeOK /\ TypeOK' /\ PermitInvariant /\ PermitInvariant' /\ [Next]_vars =>
    (PermitsHeld' > PermitsHeld => PermitsHeld' <= target - resizing)
<1> SUFFICES ASSUME TypeOK, TypeOK', PermitInvariant, PermitInvariant', [Next]_vars
             PROVE  PermitsHeld' > PermitsHeld => PermitsHeld' <= target - resizing
  OBVIOUS
<1>1. /\ available' \in Nat /\ target \in Nat /\ resizing \in Int
  BY DEF TypeOK, PermitTypes, CapacityTypes
<1>2. PICK h \in Nat, c \in Nat, p \in Nat, a \in Nat :
        Hand' = h /\ Cand' = c /\ Parks' = p /\ available' = a
  BY <1>1, Counts
<1>3. PermitsHeld = Hand + Cand + Parks /\ PermitsHeld' = h + c + p
  BY <1>2 DEF PermitsHeld, Hand, Cand, Parks
<1>4. CASE Steady
  <2>1. h + c + p <= Hand + Cand + Parks
    BY <1>2, <1>4 DEF Steady
  <2>2. ~(h + c + p > Hand + Cand + Parks)
    BY <2>1, <1>2, Counts
  <2> QED
    BY <1>3, <2>2
<1>5. CASE Grant
  <2>1. debt' = 0 /\ target' = target /\ resizing' = resizing
    BY <1>5 DEF Grant
  <2>2. a + (h + c + p) - 0 = target - resizing
    BY <1>2, <1>3, <2>1 DEF PermitInvariant, PermitConservation
  <2>3. h + c + p <= target - resizing
    BY <1>1, <1>2, <2>2
  <2> QED
    BY <1>3, <2>3
<1>6. CASE (\E n \in Capacities : SetCapacity(n)) \/ ApplyResize \/ RetireFreeSlots
  <2>1. h + c + p = Hand + Cand + Parks
    BY <1>2, <1>6, CapacityKeepsPermits
  <2>2. ~(h + c + p > Hand + Cand + Parks)
    BY <2>1, Counts
  <2> QED
    BY <1>3, <2>2
<1> QED
  BY <1>4, <1>5, <1>6, StepKinds

\* Whatever was reduced before, handing out a permit never takes the permits in use
\* above the limit in force.
THEOREM GrantsAreBounded == Spec => TargetRespected
  BY TypeCorrect, PermitsAreConserved, GrantsRespectTarget, PTL DEF Spec, TargetRespected

-----------------------------------------------------------------------------
(* Reservations: the map of queue reservations and the map of parked       *)
(* permits agree, and a reservation that is not active has a worker that   *)
(* will settle it (ReservationsMatchPermits).  The code keeps the two maps *)
(* in step with seven operations that look at only one of them, or at a    *)
(* generation.  Each is shown to leave every id Accounted: its entries are *)
(* cleared together, kept together with the worker behind them, made active *)
(* together, or reserved for a worker.  The invariant is inductive with the *)
(* types and CandidatesAreReserved.                                        *)

\* What a step makes of the reservation and the parked permit of an id: both are
\* cleared, or both are kept.
Cleared(id) == ownership'[id] = NoOwner /\ active'[id] = 0
Kept(id) == ownership'[id] = ownership[id] /\ active'[id] = active[id]

\* Both are cleared; kept, with the worker that carries them; made active together; or
\* reserved for a worker that was admitted.
Accounted(id) ==
  \/ Cleared(id)
  \/ /\ Kept(id)
     /\ \A g \in Generations :
          HasReservation(id, g) /\ ReservationCarried(id, g) => ReservationCarried(id, g)'
  \/ \E g \in Generations :
       ownership'[id] = [gen |-> g, active |-> TRUE] /\ active'[id] = g
  \/ \E g \in Generations :
       /\ ownership'[id] = [gen |-> g, active |-> FALSE] /\ active'[id] = 0
       /\ ReservationCarried(id, g)'

-----------------------------------------------------------------------------
(* What keeps the maps in step.                                            *)

\* An id whose entries are accounted for matches again.
LEMMA AccountedMatches ==
  ASSUME TypeOK, TypeOK', ReservationsMatchPermits, \A id \in Ids : Accounted(id)
  PROVE  ReservationsMatchPermits'
<1> SUFFICES ASSUME NEW id \in Ids PROVE ReservationMatches(id)'
  BY DEF ReservationsMatchPermits
<1>1. ReservationMatches(id) /\ Accounted(id)
  BY DEF ReservationsMatchPermits
<1>2. ownership[id] \in [gen : Gens, active : BOOLEAN] /\ \A g \in Generations : g # 0
  BY GenerationAssumption DEF TypeOK, PermitTypes
<1>3. CASE Cleared(id)
  BY <1>3 DEF Cleared, ReservationMatches, NoOwner
<1>4. CASE /\ Kept(id)
           /\ \A g \in Generations :
                HasReservation(id, g) /\ ReservationCarried(id, g) => ReservationCarried(id, g)'
  <2>1. ASSUME ownership[id].gen # 0, ~ownership[id].active
        PROVE  ReservationCarried(id, ownership[id].gen)'
    <3>1. ownership[id].gen \in Generations /\ HasReservation(id, ownership[id].gen)
      BY <1>2, <2>1 DEF Gens, HasReservation
    <3>2. ReservationCarried(id, ownership[id].gen)
      BY <1>1, <2>1 DEF ReservationMatches
    <3>3. PICK g \in Generations : g = ownership[id].gen
      BY <3>1
    <3>4. ReservationCarried(id, g)'
      BY <1>4, <3>1, <3>2, <3>3
    <3>5. ownership'[id].gen = g
      BY <1>4, <3>3 DEF Kept
    <3> QED
      BY <1>4, <3>3, <3>4, <3>5 DEF ReservationCarried, Kept
  <2> QED
    BY <1>1, <1>4, <2>1 DEF Kept, ReservationMatches, ReservationCarried
<1>5. ASSUME NEW g \in Generations,
             ownership'[id] = [gen |-> g, active |-> TRUE], active'[id] = g
      PROVE  ReservationMatches(id)'
  BY <1>2, <1>5 DEF ReservationMatches
<1>6. ASSUME NEW g \in Generations,
             ownership'[id] = [gen |-> g, active |-> FALSE], active'[id] = 0,
             ReservationCarried(id, g)'
      PROVE  ReservationMatches(id)'
  BY <1>6 DEF ReservationMatches, ReservationCarried
<1> QED
  BY <1>1, <1>3, <1>4, <1>5, <1>6 DEF Accounted

\* release_permit clears both entries ...
LEMMA ReleasePermitClears ==
  ASSUME TypeOK, NEW id \in Ids, ReleasePermit(id)
  PROVE  Cleared(id) /\ \A i \in Ids \ {id} : Kept(i)
  BY DEF ReleasePermit, Cleared, Kept, TypeOK, PermitTypes

\* ... release_permit_for_generation both or none: a permit parked under a generation
\* has its reservation ...
LEMMA ReleasePermitForClears ==
  ASSUME TypeOK, ReservationsMatchPermits, NEW id \in Ids, NEW g \in Gens,
         ReleasePermitFor(id, g)
  PROVE  /\ Cleared(id) \/ Kept(id)
         /\ \A i \in Ids \ {id} : Kept(i)
<1>1. ReservationMatches(id) /\ ownership[id] \in [gen : Gens, active : BOOLEAN]
  BY DEF ReservationsMatchPermits, TypeOK, PermitTypes
<1>2. CASE g # 0 /\ (ownership[id].gen = g \/ active[id] = g)
  <2>1. ownership[id].gen = g
    BY <1>1, <1>2 DEF ReservationMatches
  <2>2. /\ ownership' = [ownership EXCEPT ![id] = NoOwner]
        /\ active' = [active EXCEPT ![id] = 0]
    BY <1>2, <2>1 DEF ReleasePermitFor
  <2> QED
    BY <2>2 DEF Cleared, Kept, TypeOK, PermitTypes
<1>3. CASE ~(g # 0 /\ (ownership[id].gen = g \/ active[id] = g))
  BY <1>3 DEF ReleasePermitFor, Kept
<1> QED
  BY <1>2, <1>3

\* ... restoring a task both, unless the reservation is another generation's ...
LEMMA RestoreClears ==
  ASSUME TypeOK, ReservationsMatchPermits, NEW id \in Ids, NEW g \in Generations, NEW n,
         Restore(id, g, n)
  PROVE  /\ Cleared(id) \/ (Kept(id) /\ ownership[id].gen # g)
         /\ \A i \in Ids \ {id} : Kept(i)
<1>1. ReservationMatches(id)
  BY DEF ReservationsMatchPermits
<1>2. CASE ownership[id].gen = g
  <2>1. active[id] = g \/ active[id] = 0
    BY <1>1, <1>2 DEF ReservationMatches
  <2>2. ownership' = [ownership EXCEPT ![id] = NoOwner] /\ active'[id] = 0
    BY <1>2, <2>1 DEF Restore, TypeOK, PermitTypes
  <2>3. \A i \in Ids \ {id} : active'[i] = active[i]
    BY <1>2 DEF Restore, TypeOK, PermitTypes
  <2> QED
    BY <2>2, <2>3 DEF Cleared, Kept, TypeOK, PermitTypes
<1>3. CASE ownership[id].gen # g
  BY <1>3 DEF Restore, Kept
<1> QED
  BY <1>2, <1>3

\* ... and dropping a reservation touches no permit, because it was not active.
LEMMA ReleaseReservationClears ==
  ASSUME TypeOK, ReservationsMatchPermits, NEW id \in Ids, NEW g, NEW n,
         ReleaseReservation(id, g, n), UNCHANGED active
  PROVE  /\ Cleared(id) \/ (Kept(id) /\ ~HasReservation(id, g))
         /\ \A i \in Ids \ {id} : Kept(i)
<1>1. ReservationMatches(id)
  BY DEF ReservationsMatchPermits
<1>2. CASE HasReservation(id, g)
  <2>1. active[id] = 0
    BY <1>1, <1>2 DEF ReservationMatches, HasReservation
  <2> QED
    BY <1>2, <2>1 DEF ReleaseReservation, Cleared, Kept, TypeOK, PermitTypes
<1>3. CASE ~HasReservation(id, g)
  BY <1>3 DEF ReleaseReservation, Kept
<1> QED
  BY <1>2, <1>3

\* A dispatch worker that moves takes nothing from the reservations of others ...
LEMMA OthersStayCarried ==
  ASSUME TypeOK, NEW id \in Ids, NEW g \in Generations, NEW pc, SetWorker(id, g, pc),
         UNCHANGED resumer
  PROVE  \A i \in Ids, h \in Generations :
           ReservationCarried(i, h) /\ ~(i = id /\ h = g) => ReservationCarried(i, h)'
  BY DEF SetWorker, ReservationCarried, TypeOK, ActorTypes

\* ... nor from its own while it has its permit in its hands, before and after.
LEMMA AllStayCarried ==
  ASSUME TypeOK, NEW id \in Ids, NEW g \in Generations, NEW pc, SetWorker(id, g, pc),
         UNCHANGED resumer, worker[id][g] \in InHandPcs => pc \in InHandPcs
  PROVE  \A i \in Ids, h \in Generations : ReservationCarried(i, h) => ReservationCarried(i, h)'
  BY DEF SetWorker, ReservationCarried, TypeOK, ActorTypes

\* A step that keeps every entry of both maps and every carrier keeps them in step.
LEMMA QuietMatches ==
  ASSUME TypeOK, TypeOK', ReservationsMatchPermits, UNCHANGED <<ownership, active>>,
         \A i \in Ids, h \in Generations : ReservationCarried(i, h) => ReservationCarried(i, h)'
  PROVE  ReservationsMatchPermits'
  BY AccountedMatches DEF Accounted, Kept

\* Workers and resume workers that stay as they are carry what they carried.
LEMMA StillCarried ==
  ASSUME UNCHANGED <<worker, resumer>>
  PROVE  \A i \in Ids, h \in Generations : ReservationCarried(i, h) => ReservationCarried(i, h)'
  BY DEF ReservationCarried

\* A command that gives up the permit and the reservation of one id.
ReleasesOne(id) ==
  \/ ReleasePermit(id)
  \/ \E g \in Gens : ReleasePermitFor(id, g)
  \/ UNCHANGED <<ownership, active>>

\* It keeps the maps in step as long as nobody drops a reservation on the way.
LEMMA ReleaseMatches ==
  ASSUME TypeOK, TypeOK', ReservationsMatchPermits, NEW id \in Ids, ReleasesOne(id),
         \A i \in Ids, h \in Generations : ReservationCarried(i, h) => ReservationCarried(i, h)'
  PROVE  ReservationsMatchPermits'
<1>1. \A i \in Ids : Cleared(i) \/ Kept(i)
  BY ReleasePermitClears, ReleasePermitForClears DEF ReleasesOne, Kept
<1> QED
  BY <1>1, AccountedMatches DEF Accounted

\* A worker that ends its dispatch, or a resume worker that ends, with what it leaves.
LEMMA CarrierEnds ==
  ASSUME TypeOK, TypeOK', ReservationsMatchPermits, NEW id \in Ids, NEW g \in Gens,
         Cleared(id) \/ (Kept(id) /\ ~HasReservation(id, g)),
         \A i \in Ids \ {id} : Kept(i),
         \A i \in Ids, h \in Generations :
           ReservationCarried(i, h) /\ ~(i = id /\ h = g) => ReservationCarried(i, h)'
  PROVE  ReservationsMatchPermits'
<1>1. ASSUME NEW i \in Ids PROVE Accounted(i)
  <2>1. CASE i # id
    BY <2>1 DEF Accounted
  <2>2. CASE i = id
    BY <2>2 DEF Accounted
  <2> QED
    BY <2>1, <2>2
<1> QED
  BY <1>1, AccountedMatches

-----------------------------------------------------------------------------
(* The actions.                                                            *)

\* Activating a reservation changes its flag and keeps its generation.
LEMMA ActivatedRecord ==
  ASSUME NEW o, NEW p, NEW g, o = [gen |-> g, active |-> FALSE],
         p = [o EXCEPT !.active = TRUE]
  PROVE  p = [gen |-> g, active |-> TRUE]
  OBVIOUS

\* Dispatch workers.
LEMMA WorkerMatches ==
  ASSUME TypeOK, TypeOK', ReservationsMatchPermits, NEW id \in Ids, NEW g \in Generations,
         WorkerStep(id, g)
  PROVE  ReservationsMatchPermits'
<1> USE DEF InHandPcs, InFlightPcs, RunnerPcs
<1>0. g \in Gens
  BY DEF Gens
<1>1. ASSUME NEW pc, SetWorker(id, g, pc), worker[id][g] \in InHandPcs => pc \in InHandPcs,
             UNCHANGED <<ownership, active, resumer>>
      PROVE  ReservationsMatchPermits'
  BY <1>1, AllStayCarried, QuietMatches
<1>2. ASSUME NEW pc, SetWorker(id, g, pc), worker[id][g] \in InHandPcs => pc \in InHandPcs,
             ReleasesOne(id), UNCHANGED resumer
      PROVE  ReservationsMatchPermits'
  BY <1>2, AllStayCarried, ReleaseMatches
<1>3. ASSUME NEW n, SetWorker(id, g, "idle"), UNCHANGED resumer,
             Restore(id, g, n) \/ (ReleaseReservation(id, g, n) /\ UNCHANGED active)
      PROVE  ReservationsMatchPermits'
  <2>1. /\ Cleared(id) \/ (Kept(id) /\ ~HasReservation(id, g))
        /\ \A i \in Ids \ {id} : Kept(i)
    BY <1>3, RestoreClears, ReleaseReservationClears DEF HasReservation
  <2> QED
    BY <1>0, <1>3, <2>1, OthersStayCarried, CarrierEnds
<1>4. CASE DispatchHeld(id, g) \/ DaemonUnreachable(id, g)
             \/ PublishMedia(id, g) \/ EndRunner(id, g)
  BY <1>1, <1>4 DEF DispatchHeld, DaemonUnreachable, PublishMedia, EndRunner, permitVars
<1>5. CASE DispatchCheck(id, g)
  BY <1>1, <1>3, <1>5 DEF DispatchCheck
<1>6. CASE Activate(id, g)
  <2>1. CASE CanActivate(id, g)
    <3>1. /\ ownership' = [ownership EXCEPT ![id].active = TRUE]
          /\ active' = [active EXCEPT ![id] = g] /\ UNCHANGED resumer
      BY <1>6, <2>1 DEF Activate
    <3>2. \E pc : SetWorker(id, g, pc)
      BY <1>6, <2>1 DEF Activate
    <3>3. ownership'[id] = [gen |-> g, active |-> TRUE] /\ active'[id] = g
      <4>1. ownership[id] = [gen |-> g, active |-> FALSE]
        BY <2>1 DEF CanActivate, HasReservation
      <4>2. ownership'[id] = [ownership[id] EXCEPT !.active = TRUE] /\ active'[id] = g
        BY <3>1 DEF TypeOK, PermitTypes
      <4> QED
        BY <4>1, <4>2, ActivatedRecord, Zenon
    <3>4. \A i \in Ids \ {id} : Kept(i)
      BY <3>1 DEF Kept, TypeOK, PermitTypes
    <3>5. \A i \in Ids \ {id}, h \in Generations :
            ReservationCarried(i, h) => ReservationCarried(i, h)'
      BY <3>1, <3>2, OthersStayCarried
    <3>6. Accounted(id)
      BY <3>3 DEF Accounted
    <3>7. ASSUME NEW i \in Ids \ {id} PROVE Accounted(i)
      BY <3>4, <3>5 DEF Accounted
    <3> QED
      BY <3>6, <3>7, AccountedMatches
  <2>2. CASE ~CanActivate(id, g)
    BY <1>3, <1>6, <2>2 DEF Activate
  <2> QED
    BY <2>1, <2>2
<1>7. CASE RestoreInHand(id, g) \/ RestoreHeldBack(id, g)
  BY <1>3, <1>7 DEF RestoreInHand, RestoreHeldBack
<1>8. CASE StartAddUri(id, g)
  <2>1. PICK pc \in {"heldBack", "rpc"} : SetWorker(id, g, pc)
    BY <1>8 DEF StartAddUri
  <2> QED
    BY <1>1, <1>8, <2>1 DEF StartAddUri, permitVars
<1>9. CASE AddUriAccepted(id, g) \/ AddUriRejected(id, g)
  BY <1>2, <1>9 DEF AddUriAccepted, AddUriRejected, ReleasesOne
<1>10. CASE RestoreUnreachable(id, g)
  BY <1>1, <1>3, <1>10 DEF RestoreUnreachable
<1>11. CASE StartMediaRunner(id, g)
  <2>1. ReleasesOne(id) /\ UNCHANGED resumer
    BY <1>0, <1>11 DEF StartMediaRunner, ReleasesOne
  <2>2. PICK pc \in {"spawned", "idle"} : SetWorker(id, g, pc)
    BY <1>11 DEF StartMediaRunner
  <2> QED
    BY <1>2, <1>11, <2>1, <2>2 DEF StartMediaRunner
<1>12. CASE RegisterRunner(id, g)
  BY <1>1, <1>12 DEF RegisterRunner, permitVars
<1>13. CASE FinishRunner(id, g)
  <2>1. ReleasesOne(id)
    BY <1>0, <1>13 DEF FinishRunner, ReleasesOne
  <2> QED
    BY <1>2, <1>13, <2>1 DEF FinishRunner
<1> QED
  BY <1>4, <1>5, <1>6, <1>7, <1>8, <1>9, <1>10, <1>11, <1>12, <1>13 DEF WorkerStep

\* Admission reserves for the worker it starts.
LEMMA TryAdmitMatches ==
  ASSUME TypeOK, TypeOK', ReservationsMatchPermits, NEW id \in Ids, NEW g \in Generations,
         TryAdmit(id, g)
  PROVE  ReservationsMatchPermits'
<1>1. active[id] = 0
  BY DEF TryAdmit, Eligible, NoOwner, ReservationsMatchPermits, ReservationMatches
<1>2. SetWorker(id, g, "admitted") /\ UNCHANGED <<active, resumer>> /\ ReserveFor(id, g)
  BY DEF TryAdmit
<1>3. ReservationCarried(id, g)'
  BY <1>2 DEF SetWorker, ReservationCarried, InHandPcs, TypeOK, ActorTypes
<1>4. Accounted(id)
  BY <1>1, <1>2, <1>3 DEF Accounted, ReserveFor, TypeOK, PermitTypes
<1>5. \A i \in Ids, h \in Generations : ReservationCarried(i, h) => ReservationCarried(i, h)'
  BY <1>2, AllStayCarried DEF InHandPcs
<1>6. ASSUME NEW i \in Ids \ {id} PROVE Accounted(i)
  BY <1>2, <1>5 DEF Accounted, Kept, ReserveFor, TypeOK, PermitTypes
<1> QED
  BY <1>4, <1>6, AccountedMatches

\* Stop commands and terminal events.
LEMMA StopMatches ==
  ASSUME TypeOK, TypeOK', ReservationsMatchPermits, NEW id \in Ids, StopStep(id)
  PROVE  ReservationsMatchPermits'
<1>1. CASE CoordinatorStop(id)
  <2>1. UNCHANGED <<ownership, active, resumer>>
    BY <1>1 DEF CoordinatorStop, permitVars
  <2>2. CASE UNCHANGED worker
    BY <2>1, <2>2, StillCarried, QuietMatches
  <2>3. CASE stopping[id].gen # 0 /\ worker[id][stopping[id].gen] = "running"
               /\ SetWorker(id, stopping[id].gen, "cancelling")
    <3>1. stopping[id].gen \in Generations
      BY <2>3, StopTypes DEF Gens
    <3>2. worker[id][stopping[id].gen] \notin InHandPcs
      BY <2>3 DEF InHandPcs
    <3> QED
      BY <2>1, <2>3, <3>1, <3>2, AllStayCarried, QuietMatches
  <2> QED
    BY <1>1, <2>2, <2>3 DEF CoordinatorStop
<1>2. CASE ~CoordinatorStop(id)
  <2>1. UNCHANGED <<worker, resumer>>
    BY <1>2 DEF StopStep, ResumeUnmapped, TransferEnds, ConnectionLost, PauseMapped,
       PauseUnmapped, PauseMedia, FinishPause, Detach, FinishDetach, SubmitRemoval, RemovalRefused,
       RemoveStop, FinishRemove, StopMedia
  <2>2. registered[id] \in Gens /\ stopping[id].gen \in Gens
    BY RegisteredType, StopTypes
  <2>3. ReleasesOne(id)
    BY <1>2, <2>2 DEF StopStep, ResumeUnmapped, TransferEnds, ConnectionLost, PauseMapped,
       PauseUnmapped, PauseMedia, FinishPause, Detach, FinishDetach, SubmitRemoval, RemovalRefused,
       RemoveStop, FinishRemove, StopMedia, ApplyCompletion, ReleasesOne, permitVars
  <2> QED
    BY <2>1, <2>3, StillCarried, ReleaseMatches
<1> QED
  BY <1>1, <1>2

\* A resume worker that gives its permit up, parks it or has none carries no reservation
\* of another.
LEMMA ResumerStopsCarrying ==
  ASSUME TypeOK, NEW r \in Resumers, UNCHANGED worker,
         \A q \in Resumers \ {r} : resumer'[q] = resumer[q]
  PROVE  \A i \in Ids, h \in Generations :
           /\ ReservationCarried(i, h)
           /\ ~(resumer[r].cand /\ i = resumer[r].id /\ h = resumer[r].gen)
           => ReservationCarried(i, h)'
  BY DEF ReservationCarried

\* Resume workers.
LEMMA ResumeMatches ==
  ASSUME TypeOK, TypeOK', ReservationsMatchPermits, CandidatesAreReserved,
         NEW r \in Resumers, ResumeStep(r)
  PROVE  ReservationsMatchPermits'
<1> DEFINE id == resumer[r].id
           g == resumer[r].gen
<1>0. id \in Ids /\ g \in Gens /\ resumer[r].cand \in BOOLEAN
  BY ResumerTypes
<1>1. UNCHANGED worker /\ \A q \in Resumers \ {r} : resumer'[q] = resumer[q]
  BY DEF ResumeStep, ResumePaused, StartResume, ResumeReserve, ResumeGiveUp, ResumeUnpause,
     ResumeSettles, TypeOK, ActorTypes
<1>2. ASSUME ~resumer[r].cand, ReleasesOne(id)
      PROVE  ReservationsMatchPermits'
  BY <1>0, <1>1, <1>2, ResumerStopsCarrying, ReleaseMatches
<1>3. ASSUME NEW n, ReleaseReservation(id, g, n), UNCHANGED active
      PROVE  ReservationsMatchPermits'
  <2>1. /\ Cleared(id) \/ (Kept(id) /\ ~HasReservation(id, g))
        /\ \A i \in Ids \ {id} : Kept(i)
    BY <1>0, <1>3, ReleaseReservationClears
  <2>2. \A i \in Ids, h \in Generations :
          ReservationCarried(i, h) /\ ~(i = id /\ h = g) => ReservationCarried(i, h)'
    BY <1>1, ResumerStopsCarrying
  <2> QED
    BY <1>0, <2>1, <2>2, CarrierEnds
<1>4. CASE \E i \in Ids : ResumePaused(i, r)
  <2>1. ~resumer[r].cand /\ UNCHANGED <<ownership, active>>
    BY <1>4 DEF ResumePaused, CandidatesAreReserved, permitVars
  <2> QED
    BY <1>2, <2>1 DEF ReleasesOne
<1>5. CASE StartResume(r)
  <2>1. ~resumer[r].cand /\ UNCHANGED <<ownership, active>>
    BY <1>5 DEF StartResume, CandidatesAreReserved, permitVars
  <2> QED
    BY <1>2, <2>1 DEF ReleasesOne
<1>6. CASE ResumeReserve(r)
  <2>1. /\ ~resumer[r].cand /\ g \in Generations /\ active[id] = 0
        /\ UNCHANGED active /\ ReserveFor(id, g)
    BY <1>0, <1>6 DEF ResumeReserve, ResumeEligible, ResumeStale, CandidatesAreReserved, Gens
  <2>2. resumer'[r].cand /\ resumer'[r].id = id /\ resumer'[r].gen = g
    BY <1>6 DEF ResumeReserve, TypeOK, ActorTypes
  <2>3. \A i \in Ids, h \in Generations :
          i = id /\ h = g => ReservationCarried(i, h)'
    BY <2>2 DEF ReservationCarried
  <2>4. ASSUME NEW i \in Ids, i = id PROVE Accounted(i)
    <3>1. PICK h \in Generations : h = g
      BY <2>1
    <3>2. ownership'[i] = [gen |-> h, active |-> FALSE] /\ active'[i] = 0
      BY <1>0, <2>1, <2>4, <3>1 DEF ReserveFor, TypeOK, PermitTypes
    <3> QED
      BY <2>3, <2>4, <3>1, <3>2 DEF Accounted
  <2>5. ASSUME NEW i \in Ids \ {id} PROVE Accounted(i)
    <3>1. Kept(i)
      BY <2>1 DEF Kept, ReserveFor, TypeOK, PermitTypes
    <3> QED
      BY <1>1, <2>1, <3>1, ResumerStopsCarrying DEF Accounted
  <2> QED
    BY <2>4, <2>5, AccountedMatches
<1>7. CASE ResumeGiveUp(r)
  <2>1. CASE ~resumer[r].cand /\ UNCHANGED <<ownership, active>>
    BY <1>2, <2>1 DEF ReleasesOne
  <2>2. CASE ReleaseReservation(id, g, 1) /\ UNCHANGED active
    BY <1>3, <2>2
  <2> QED
    BY <1>0, <1>7, <2>1, <2>2 DEF ResumeGiveUp, CandidatesAreReserved
<1>8. CASE ResumeUnpause(r)
  <2>1. CASE ~resumer[r].cand /\ UNCHANGED <<ownership, active>>
    BY <1>2, <2>1 DEF ReleasesOne
  <2>2. ASSUME NEW n, ReleaseReservation(id, g, n), UNCHANGED active
        PROVE  ReservationsMatchPermits'
    BY <1>3, <2>2
  <2>3. CASE /\ resumer[r].cand
             /\ ownership' = [ownership EXCEPT ![id] = [gen |-> g, active |-> TRUE]]
             /\ active' = [active EXCEPT ![id] = g]
    <3>1. g \in Generations
      BY <1>0, <2>3 DEF CandidatesAreReserved, Gens
    <3>2. ASSUME NEW i \in Ids, i = id PROVE Accounted(i)
      BY <1>0, <2>3, <3>1, <3>2 DEF Accounted, TypeOK, PermitTypes
    <3>3. ASSUME NEW i \in Ids \ {id} PROVE Accounted(i)
      <4>1. Kept(i)
        BY <2>3 DEF Kept, TypeOK, PermitTypes
      <4> QED
        BY <1>1, <4>1, ResumerStopsCarrying DEF Accounted
    <3> QED
      BY <3>2, <3>3, AccountedMatches
  <2> QED
    BY <1>0, <1>8, <2>1, <2>2, <2>3 DEF ResumeUnpause
<1>9. CASE ResumeSettles(r)
  <2>1. ~resumer[r].cand
    BY <1>9 DEF ResumeSettles, CandidatesAreReserved
  <2>2. ReleasesOne(id)
    BY <1>9 DEF ResumeSettles, ApplyCompletion, ReleasesOne
  <2> QED
    BY <1>2, <2>1, <2>2
<1> QED
  BY <1>4, <1>5, <1>6, <1>7, <1>8, <1>9 DEF ResumeStep

-----------------------------------------------------------------------------
(* The theorem.                                                            *)

\* Nothing is reserved or parked at the start.
LEMMA InitMatches == Init => ReservationsMatchPermits
  BY DEF Init, ReservationsMatchPermits, ReservationMatches, NoOwner

\* Every step keeps the two maps in step.
LEMMA NextMatches ==
  /\ TypeOK /\ TypeOK' /\ PermitInvariant /\ ReservationsMatchPermits /\ [Next]_vars
  => ReservationsMatchPermits'
<1> SUFFICES ASSUME TypeOK, TypeOK', PermitInvariant, ReservationsMatchPermits, [Next]_vars
             PROVE  ReservationsMatchPermits'
  OBVIOUS
<1>0. CandidatesAreReserved
  BY DEF PermitInvariant
<1>1. CASE UNCHANGED <<ownership, active, worker, resumer>>
  BY <1>1, StillCarried, QuietMatches
<1>2. ASSUME NEW id \in Ids, EnqueueStep(id)
      PROVE  UNCHANGED <<ownership, active, worker, resumer>>
  BY <1>2 DEF EnqueueStep, ReserveEnqueue, AbandonEnqueue, CommitEnqueue, FinishCommit,
     CancelEnqueue, permitVars
<1>3. ASSUME EnvironmentStep PROVE UNCHANGED <<ownership, active, worker, resumer>>
  BY <1>3 DEF EnvironmentStep, SetCapacity, ApplyResize, RetireFreeSlots, ReplaceQueueLimits,
     BeginHold, EndHold, DaemonRecovers, BeginSystemAction, EndSystemAction, ExitStep,
     permitVars
<1> QED
  BY <1>0, <1>1, <1>2, <1>3, StopMatches, TryAdmitMatches, WorkerMatches, ResumeMatches
     DEF Next, vars

\* In every behaviour a parked permit has the active reservation of its own generation,
\* and a reservation that is not active has the worker that will activate or drop it:
\* the queue limits count what the semaphore counts, and no reservation is orphaned.
THEOREM ReservationsAreCorrect == Spec => []ReservationsMatchPermits
  BY TypeCorrect, PermitsAreConserved, InitMatches, NextMatches, PTL DEF Spec
=============================================================================
