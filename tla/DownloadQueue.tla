--------------------------- MODULE DownloadQueue ---------------------------
(***************************************************************************)
(* The queue manager of Firelink (src-tauri/src/queue.rs) with the Tauri   *)
(* commands of lib.rs and removal_jobs.rs that drive it: enqueueing in two *)
(* phases, admission under global and per-queue limits, the dispatch       *)
(* workers of Aria2 and media transfers, pause, resume, detach, durable    *)
(* removal, capacity changes, holds, system actions and shutdown.          *)
(*                                                                         *)
(* Two locks order the steps.  The per-download control lock               *)
(* (acquire_aria2_control) is held over a whole command or worker section; *)
(* the admission gate is held over one queue operation.  A critical        *)
(* section is one action, except where the code gives the lock up or waits *)
(* inside it: those points are the program counters below.                 *)
(*                                                                         *)
(* Left to other modules: the notifications that wake the dispatcher and   *)
(* the resume workers (DispatchWake), and daemon outcomes other than the   *)
(* ones named here (Aria2Control).  The order inside a queue is left out,  *)
(* and of the media coordinator only its answer to a stop is kept.         *)
(***************************************************************************)
EXTENDS Integers, FiniteSets

CONSTANTS
  Ids,              \* download ids
  AriaIds,          \* the ids whose transfer runs in aria2; the others are media
  Queues,           \* queue ids
  QueueOf,          \* the queue of each download
  Generations,      \* lifecycle generations the frontend hands out, from 1
  Resumers,         \* background workers spawned by resume_download
  InitialCapacity,  \* the concurrency limit at startup
  Capacities,       \* limits set_concurrent_limit may be given
  InitialLimits,    \* per-queue overrides set before the first download; 0 is none
  LimitMaps,        \* overrides replace_queue_limits may install later
  Features          \* which optional environments a run explores

AllFeatures == {"resize", "limits", "holds", "daemon", "system", "force",
                "shutdown", "remove", "detach", "cancel"}

ASSUME IdsAssumption == Ids # {} /\ IsFiniteSet(Ids) /\ AriaIds \subseteq Ids
ASSUME QueueAssumption == QueueOf \in [Ids -> Queues]
ASSUME GenerationAssumption == Generations \subseteq Nat \ {0} /\ IsFiniteSet(Generations)
ASSUME ResumerAssumption == IsFiniteSet(Resumers)
ASSUME CapacityAssumption == InitialCapacity \in Nat \ {0} /\ Capacities \subseteq Nat \ {0}
ASSUME LimitAssumption == LimitMaps \cup {InitialLimits} \subseteq [Queues -> Nat]
ASSUME FeatureAssumption == Features \subseteq AllFeatures

VARIABLES
  registered,   \* registered_ids and registered_lifecycle_generations; 0 is absent
  watermark,    \* enqueue_generations: the newest generation reserved
  cancelled,    \* enqueue_cancellations: the newest generation cancelled
  enq,          \* the enqueue command of each id that is under way
  pending,      \* the pending list, as a set of <<id, generation>>
  available,    \* free permits in the semaphore
  debt,         \* slots_to_retire
  target,       \* target_capacity
  resizing,     \* the part of a set_capacity call not yet applied
  ownership,    \* queue_permit_ownership
  active,       \* active_permits with active_permit_generations; 0 is absent
  worker,       \* the dispatch worker of each id and generation
  epoch,        \* who holds the current control epoch of each id
  xfer,         \* the mapped aria2 GID of each id: none, live or paused
  resumer,      \* the resume workers
  stopping,     \* the pause, detach or remove command waiting outside the lock
  terminal,     \* media_terminal_outcomes
  shown,        \* the last download-state event of each id
  limits,       \* queue_limits
  held,         \* queues with a live dispatch hold
  ariaHold,     \* aria2_dispatch_hold
  systemAction, \* system_action_pending
  exit,         \* progress of an exit request through guard and handoff gate
  removing,     \* ids with a durable removal job
  retriesAllowed \* of these, the ones whose retries a failed removal allowed again

lifecycleVars == <<registered, watermark, cancelled, enq>>
capacityVars  == <<debt, target, resizing>>
permitVars    == <<available, debt, target, resizing, ownership, active>>
environment   == <<limits, held, ariaHold, systemAction, exit>>

vars == <<registered, watermark, cancelled, enq, pending, available, debt, target,
          resizing, ownership, active, worker, epoch, xfer, resumer, stopping,
          terminal, shown, limits, held, ariaHold, systemAction, exit, removing,
          retriesAllowed>>

Gens == Generations \cup {0}
MediaIds == Ids \ AriaIds

NoEnqueue   == [phase |-> "none", gen |-> 0, prev |-> 0]
NoOwner     == [gen |-> 0, active |-> FALSE]
NoStop      == [op |-> "none", gen |-> 0, phase |-> "none"]
NoOutcome   == [gen |-> 0, out |-> "none"]
IdleResumer == [pc |-> "idle", id |-> CHOOSE id \in Ids : TRUE, gen |-> 0, cand |-> FALSE]

\* A worker in one of these states has a semaphore permit in its hands that is
\* parked nowhere.
InHandPcs == {"admitted", "restoring", "locked"}
\* begin_aria2_dispatch has run and finish_aria2_dispatch has not.
InFlightPcs == {"adding", "heldBack", "rpc", "unreachable"}
\* The media runner is registered with the coordinator.
RunnerPcs == {"running", "cancelling", "aborted"}
MediaPcs == {"activated", "published", "spawned", "finished"} \cup RunnerPcs
WorkerPcs == {"idle"} \cup InHandPcs \cup InFlightPcs \cup MediaPcs

EpochHolders == {<<"none", 0>>}
  \cup ({"dispatch"} \X Generations)
  \cup ({"resume"} \X Resumers)

LifecycleTypes ==
  /\ registered \in [Ids -> Gens]
  /\ watermark \in [Ids -> Gens]
  /\ cancelled \in [Ids -> Gens]
  /\ enq \in [Ids -> {NoEnqueue} \cup
                     [phase : {"reserved", "finalizing"}, gen : Generations, prev : Gens]]
  /\ pending \subseteq Ids \X Generations

PermitTypes ==
  /\ available \in Nat
  /\ ownership \in [Ids -> [gen : Gens, active : BOOLEAN]]
  /\ active \in [Ids -> Gens]

CapacityTypes ==
  /\ debt \in Nat
  /\ target \in Nat \ {0}
  /\ resizing \in Int

ActorTypes ==
  /\ worker \in [Ids -> [Generations -> WorkerPcs]]
  /\ epoch \in [Ids -> EpochHolders]
  /\ resumer \in [Resumers -> [pc : {"idle", "spawned", "waiting", "reserved", "unpausing"},
                               id : Ids, gen : Gens, cand : BOOLEAN]]
  /\ stopping \in [Ids -> [op : {"none", "pause", "detach", "remove"}, gen : Gens,
                           phase : {"none", "sent", "waiting", "acked", "drain", "cleanup"}]]

ResultTypes ==
  /\ xfer \in [Ids -> {"none", "live", "paused"}]
  /\ terminal \in [Ids -> [gen : Gens, out : {"none", "completed", "failed", "cancelled"}]]
  /\ shown \in [Ids -> {"none", "queued", "downloading", "paused", "completed", "failed"}]
  /\ removing \subseteq Ids
  /\ retriesAllowed \subseteq removing

EnvironmentTypes ==
  /\ limits \in [Queues -> Nat]
  /\ held \subseteq Queues
  /\ ariaHold \in BOOLEAN
  /\ systemAction \in BOOLEAN
  /\ exit \in {"open", "closing", "closed", "reopening"}

\* Every variable keeps its type; the lifecycle under way in an enqueue has a generation.
TypeOK == LifecycleTypes /\ PermitTypes /\ CapacityTypes /\ ActorTypes /\ ResultTypes
            /\ EnvironmentTypes

Init ==
  /\ registered = [id \in Ids |-> 0]
  /\ watermark = [id \in Ids |-> 0]
  /\ cancelled = [id \in Ids |-> 0]
  /\ enq = [id \in Ids |-> NoEnqueue]
  /\ pending = {}
  /\ available = InitialCapacity
  /\ debt = 0
  /\ target = InitialCapacity
  /\ resizing = 0
  /\ ownership = [id \in Ids |-> NoOwner]
  /\ active = [id \in Ids |-> 0]
  /\ worker = [id \in Ids |-> [g \in Generations |-> "idle"]]
  /\ epoch = [id \in Ids |-> <<"none", 0>>]
  /\ xfer = [id \in Ids |-> "none"]
  /\ resumer = [r \in Resumers |-> IdleResumer]
  /\ stopping = [id \in Ids |-> NoStop]
  /\ terminal = [id \in Ids |-> NoOutcome]
  /\ shown = [id \in Ids |-> "none"]
  /\ limits = InitialLimits
  /\ held = {}
  /\ ariaHold = FALSE
  /\ systemAction = FALSE
  /\ exit = "open"
  /\ removing = {}
  /\ retriesAllowed = {}

-----------------------------------------------------------------------------
(* The two locks and the two halves of the shutdown fence.                   *)

\* The admission gate stays held only while the finalizer of a commit runs.
GateFree == \A id \in Ids : enq[id].phase # "finalizing"

\* The control lock of id: an enqueue holds it from validation to the end, a
\* dispatch worker from its checks to activation, a resume worker over unpause.
ControlFree(id) ==
  /\ enq[id].phase = "none"
  /\ \A g \in Generations : worker[id][g] # "locked"
  /\ \A r \in Resumers : resumer[r].id = id => resumer[r].pc # "unpausing"

\* mutants: a stop command keeps the lock while it waits for the media runner, or
\* for the dispatch in flight
LockKeptByPause(id) == ControlFree(id) /\ stopping[id].phase # "waiting"
LockKeptByRemoval(id) == ControlFree(id) /\ stopping[id].phase # "drain"
LockFree(id) == ControlFree(id)

\* begin_shutdown raises the guard first, close_aria2_handoffs_for_shutdown
\* follows; a rejected exit lowers them in the same order.
ShuttingDown == exit \in {"closing", "closed"}
HandoffsAccepted == exit \in {"open", "closing"}
CanBeginHandoff == ~ShuttingDown /\ HandoffsAccepted
AriaShutdownRequested == ShuttingDown \/ ~HandoffsAccepted

\* cancel_aria2_retries, for an epoch that is still current: the other commands that
\* set the flag end the epoch with it, and a retirement of the registration clears
\* it.  A removal sets it with its job; allow_aria2_retries clears it when the daemon
\* has not confirmed the removal.
RetriesForgotten(id) == FALSE                          \* mutant: the flag is not set
RetriesCancelled(id) == id \in removing \ retriesAllowed

-----------------------------------------------------------------------------
(* Permits and reservations.                                                 *)

QueueLimit(q) ==
  IF limits[q] = 0 \/ limits[q] > target THEN target ELSE limits[q]

Owned(q) == {id \in Ids : QueueOf[id] = q /\ ownership[id] # NoOwner}

QueueHasRoomAtLimit(q) == Cardinality(Owned(q)) <= QueueLimit(q)  \* mutant: off by one
QueueHasRoom(q) == Cardinality(Owned(q)) < QueueLimit(q)

\* try_acquire_permit_after_retirement: every free permit pays off one slot of
\* debt before one is granted; without a surplus all of them are forgotten.
PermitFreeDespiteDebt == available > 0                \* mutant: retirement ignored
PermitFree == available > debt
AcquirePermit == available' = available - debt - 1 /\ debt' = 0

ReserveFor(id, g) == ownership' = [ownership EXCEPT ![id] = [gen |-> g, active |-> FALSE]]
HasReservation(id, g) == ownership[id] = [gen |-> g, active |-> FALSE]

\* release_queue_reservation_for_generation; the caller drops `permits` permits.
ReleaseReservation(id, g, permits) ==
  /\ ownership' = IF HasReservation(id, g) THEN [ownership EXCEPT ![id] = NoOwner] ELSE ownership
  /\ available' = available + permits

Parked(id) == IF active[id] # 0 THEN 1 ELSE 0

\* release_permit
ReleasePermit(id) ==
  /\ ownership' = [ownership EXCEPT ![id] = NoOwner]
  /\ active' = [active EXCEPT ![id] = 0]
  /\ available' = available + Parked(id)

\* mutant: the queue reservation outlives the parked permit
ReleasePermitOnlyFor(id, g) ==
  IF g # 0 /\ active[id] = g
  THEN /\ active' = [active EXCEPT ![id] = 0]
       /\ available' = available + Parked(id)
       /\ UNCHANGED ownership
  ELSE UNCHANGED <<ownership, active, available>>

\* release_permit_for_generation
ReleasePermitFor(id, g) ==
  IF g # 0 /\ (ownership[id].gen = g \/ active[id] = g)
  THEN /\ ownership' = IF ownership[id].gen = g THEN [ownership EXCEPT ![id] = NoOwner]
                                                ELSE ownership
       /\ active' = [active EXCEPT ![id] = 0]
       /\ available' = available + Parked(id)
  ELSE UNCHANGED <<ownership, active, available>>

Unregister(id) == registered' = [registered EXCEPT ![id] = 0]
\* mutants: a registration that is never retired, and one retired whoever owns it
UnregisterNever(id, g) == UNCHANGED registered
UnregisterUnfenced(id, g) == Unregister(id)
UnregisterFor(id, g) ==
  registered' = IF registered[id] = g THEN [registered EXCEPT ![id] = 0] ELSE registered

EndEpoch(id) == epoch' = [epoch EXCEPT ![id] = <<"none", 0>>]
Show(id, status) == shown' = [shown EXCEPT ![id] = status]
DropPending(id) == pending' = {task \in pending : task[1] # id}
SetWorker(id, g, pc) == worker' = [worker EXCEPT ![id][g] = pc]

-----------------------------------------------------------------------------
(* Enqueueing: reserve a generation, validate, commit behind the gate.       *)

\* mutant: the rollback removes the entry instead of putting the previous one back
RollbackToNothing(id, g, prev) == Unregister(id) /\ watermark' = [watermark EXCEPT ![id] = 0]

\* rollback_enqueue_reservation
RollbackEnqueue(id, g, prev) ==
  IF watermark[id] = g
  THEN /\ Unregister(id)
       /\ watermark' = [watermark EXCEPT ![id] = prev]
  ELSE UNCHANGED <<registered, watermark>>

\* reserve_enqueue_generation, under the control lock taken by the command
ReserveEnqueue(id, g) ==
  /\ LockFree(id)
  /\ id \notin removing
  /\ ~ShuttingDown
  /\ cancelled[id] < g
  /\ watermark[id] < g
  /\ registered[id] = 0
  /\ registered' = [registered EXCEPT ![id] = g]
  /\ watermark' = [watermark EXCEPT ![id] = g]
  /\ enq' = [enq EXCEPT ![id] = [phase |-> "reserved", gen |-> g, prev |-> watermark[id]]]
  /\ UNCHANGED <<cancelled, pending, permitVars, worker, epoch, xfer, resumer,
                 stopping, terminal, shown, environment, removing, retriesAllowed>>

\* Ownership, replacement or validation fails after the reservation.
AbandonEnqueue(id) ==
  /\ enq[id].phase = "reserved"
  /\ RollbackEnqueue(id, enq[id].gen, enq[id].prev)
  /\ enq' = [enq EXCEPT ![id] = NoEnqueue]
  /\ UNCHANGED <<cancelled, pending, permitVars, worker, epoch, xfer, resumer,
                 stopping, terminal, shown, environment, removing, retriesAllowed>>

\* commit_reserved_enqueue_with_finalizer up to the finalizer, which runs with
\* the task in the pending list and the gate held
CommitEnqueue(id) ==
  LET g == enq[id].gen
      refused == ShuttingDown \/ systemAction \/ registered[id] # g \/ cancelled[id] >= g
  IN
  /\ enq[id].phase = "reserved"
  /\ GateFree
  /\ \/ /\ refused
        /\ RollbackEnqueue(id, g, enq[id].prev)
        /\ enq' = [enq EXCEPT ![id] = NoEnqueue]
        /\ UNCHANGED pending
     \/ /\ ~refused
        /\ pending' = pending \cup {<<id, g>>}
        /\ enq' = [enq EXCEPT ![id].phase = "finalizing"]
        /\ UNCHANGED <<registered, watermark>>
  /\ UNCHANGED <<cancelled, permitVars, worker, epoch, xfer, resumer,
                 stopping, terminal, shown, environment, removing, retriesAllowed>>

\* The rest of the commit: a failed finalizer, a cancellation or a shutdown that
\* arrived meanwhile takes the task back out.
FinishCommit(id) ==
  LET g == enq[id].gen IN
  /\ enq[id].phase = "finalizing"
  /\ \/ /\ cancelled[id] < g
        /\ ~ShuttingDown
        /\ terminal' = [terminal EXCEPT ![id] = NoOutcome]
        /\ Show(id, "queued")
        /\ UNCHANGED <<pending, registered, watermark>>
     \/ /\ pending' = pending \ {<<id, g>>}
        /\ RollbackEnqueue(id, g, enq[id].prev)
        /\ UNCHANGED <<terminal, shown>>
  /\ enq' = [enq EXCEPT ![id] = NoEnqueue]
  /\ UNCHANGED <<cancelled, permitVars, worker, epoch, xfer, resumer, stopping,
                 environment, removing, retriesAllowed>>

\* cancel_enqueue_generation takes neither lock.
CancelEnqueue(id, g) ==
  /\ "cancel" \in Features
  /\ cancelled[id] < g
  /\ cancelled' = [cancelled EXCEPT ![id] = g]
  /\ UNCHANGED <<registered, watermark, enq, pending, permitVars, worker, epoch, xfer,
                 resumer, stopping, terminal, shown, environment, removing, retriesAllowed>>

-----------------------------------------------------------------------------
(* The dispatcher and its workers.                                           *)

Eligible(id, g) ==
  /\ <<id, g>> \in pending
  /\ ownership[id] = NoOwner
  /\ QueueOf[id] \notin held
  /\ ~(ariaHold /\ id \in AriaIds)
  /\ QueueHasRoom(QueueOf[id])

AdmissionWithoutHandoff == GateFree /\ ~systemAction     \* mutant: no handoff guard
AdmissionOpen == GateFree /\ CanBeginHandoff /\ ~systemAction

\* try_admit_next_task with a permit to grant
TryAdmit(id, g) ==
  /\ AdmissionOpen
  /\ Eligible(id, g)
  /\ PermitFree
  /\ AcquirePermit
  /\ ReserveFor(id, g)
  /\ pending' = pending \ {<<id, g>>}
  /\ SetWorker(id, g, "admitted")
  /\ UNCHANGED <<lifecycleVars, target, resizing, active, epoch, xfer, resumer,
                 stopping, terminal, shown, environment, removing, retriesAllowed>>

\* dispatch_one up to the control lock: a held aria2 task goes straight back.
DispatchHeld(id, g) ==
  /\ worker[id][g] = "admitted"
  /\ id \in AriaIds
  /\ ariaHold
  /\ SetWorker(id, g, "restoring")
  /\ UNCHANGED <<lifecycleVars, pending, permitVars, epoch, xfer, resumer,
                 stopping, terminal, shown, environment, removing, retriesAllowed>>

\* dispatch_one's checks under the control lock
DispatchCheck(id, g) ==
  LET putBack == (id \in AriaIds /\ ariaHold) \/ ShuttingDown
      dropped == id \in removing \/ registered[id] # g
  IN
  /\ worker[id][g] = "admitted"
  /\ LockFree(id)
  /\ GateFree
  /\ \/ /\ putBack
        /\ SetWorker(id, g, "restoring")
        /\ UNCHANGED <<ownership, available>>
     \/ /\ ~putBack /\ dropped
        /\ SetWorker(id, g, "idle")
        /\ ReleaseReservation(id, g, 1)
     \/ /\ ~putBack /\ ~dropped
        /\ SetWorker(id, g, "locked")
        /\ UNCHANGED <<ownership, available>>
  /\ UNCHANGED <<lifecycleVars, pending, capacityVars, active, epoch, xfer, resumer,
                 stopping, terminal, shown, environment, removing, retriesAllowed>>

CanActivateAlways(id, g) == HasReservation(id, g) /\ active[id] = 0   \* mutant
CanActivate(id, g) == ~systemAction /\ HasReservation(id, g) /\ active[id] = 0

\* activate_admitted_permit, then the control epoch and the in-flight marker of an
\* aria2 dispatch; the control lock is released at the end
Activate(id, g) ==
  LET activates == CanActivate(id, g) IN
  /\ worker[id][g] = "locked"
  /\ GateFree
  /\ \/ /\ activates
        /\ ownership' = [ownership EXCEPT ![id].active = TRUE]
        /\ active' = [active EXCEPT ![id] = g]
        /\ IF id \in AriaIds
           THEN /\ epoch' = [epoch EXCEPT ![id] = <<"dispatch", g>>]
                /\ SetWorker(id, g, "adding")
           ELSE /\ SetWorker(id, g, "activated")
                /\ UNCHANGED epoch
        /\ UNCHANGED available
     \/ /\ ~activates
        /\ ReleaseReservation(id, g, 1)
        /\ SetWorker(id, g, "idle")
        /\ UNCHANGED <<active, epoch>>
  /\ UNCHANGED <<lifecycleVars, pending, capacityVars, xfer, resumer,
                 stopping, terminal, shown, environment, removing, retriesAllowed>>

\* mutant: the cancellation watermark is off by one
WantedOffByOne(id, g) == registered[id] = g /\ cancelled[id] < g - 1 /\ id \notin removing

\* A dispatched task goes back to pending only for the lifecycle it belongs to.
StillWanted(id, g) == registered[id] = g /\ cancelled[id] < g /\ id \notin removing

\* restore_dispatch_task_to_pending; `inHand` permits are dropped with it.
Restore(id, g, inHand) ==
  IF ownership[id].gen = g
  THEN LET parked == IF active[id] = g THEN 1 ELSE 0 IN
       /\ pending' = IF StillWanted(id, g) THEN pending \cup {<<id, g>>} ELSE pending
       /\ ownership' = [ownership EXCEPT ![id] = NoOwner]
       /\ active' = IF active[id] = g THEN [active EXCEPT ![id] = 0] ELSE active
       /\ available' = available + parked + inHand
  ELSE /\ available' = available + inHand
       /\ UNCHANGED <<pending, ownership, active>>

RestoreInHand(id, g) ==
  /\ worker[id][g] = "restoring"
  /\ GateFree
  /\ Restore(id, g, 1)
  /\ SetWorker(id, g, "idle")
  /\ UNCHANGED <<lifecycleVars, capacityVars, epoch, xfer, resumer,
                 stopping, terminal, shown, environment, removing, retriesAllowed>>

\* After the lock is released the hold is read once more, then addUri is called.
StartAddUri(id, g) ==
  /\ worker[id][g] = "adding"
  /\ SetWorker(id, g, IF ariaHold THEN "heldBack" ELSE "rpc")
  /\ UNCHANGED <<lifecycleVars, pending, permitVars, epoch, xfer, resumer,
                 stopping, terminal, shown, environment, removing, retriesAllowed>>

RestoreHeldBack(id, g) ==
  /\ worker[id][g] = "heldBack"
  /\ LockFree(id)
  /\ GateFree
  /\ Restore(id, g, 0)
  /\ SetWorker(id, g, "idle")
  /\ UNCHANGED <<lifecycleVars, capacityVars, epoch, xfer, resumer,
                 stopping, terminal, shown, environment, removing, retriesAllowed>>

CurrentWhenRegistered(id, g) == registered[id] # 0   \* mutant: the epoch is not compared
IsCurrentDispatch(id, g) == epoch[id] = <<"dispatch", g>> /\ registered[id] # 0

\* addUri answered with a GID: a cancelled or superseded dispatch removes it again
\* and never installs the mapping.
AddUriAccepted(id, g) ==
  /\ worker[id][g] = "rpc"
  /\ LockFree(id)
  /\ GateFree
  /\ SetWorker(id, g, "idle")
  /\ \/ /\ IsCurrentDispatch(id, g) /\ ~RetriesCancelled(id)
        /\ xfer' = [xfer EXCEPT ![id] = "live"]
        /\ Show(id, "downloading")
        /\ UNCHANGED <<ownership, active, available>>
     \/ /\ IsCurrentDispatch(id, g) /\ RetriesCancelled(id)
        /\ ReleasePermit(id)
        /\ UNCHANGED <<xfer, shown>>
     \/ /\ ~IsCurrentDispatch(id, g)
        /\ UNCHANGED <<xfer, shown, ownership, active, available>>
  /\ UNCHANGED <<lifecycleVars, pending, capacityVars, epoch, resumer,
                 stopping, terminal, environment, removing, retriesAllowed>>

\* addUri refused the payload
AddUriRejected(id, g) ==
  /\ worker[id][g] = "rpc"
  /\ LockFree(id)
  /\ GateFree
  /\ SetWorker(id, g, "idle")
  /\ \/ /\ IsCurrentDispatch(id, g)
        /\ EndEpoch(id)
        /\ ReleasePermit(id)
        /\ Unregister(id)
        /\ Show(id, "failed")
     \/ /\ ~IsCurrentDispatch(id, g)
        /\ UNCHANGED <<epoch, ownership, active, available, registered, shown>>
  /\ UNCHANGED <<watermark, cancelled, enq, pending, capacityVars, xfer, resumer,
                 stopping, terminal, environment, removing, retriesAllowed>>

\* The daemon is unreachable: hold aria2 first, then put the task back.
DaemonUnreachable(id, g) ==
  /\ "daemon" \in Features
  /\ worker[id][g] = "rpc"
  /\ ariaHold' = TRUE
  /\ SetWorker(id, g, "unreachable")
  /\ UNCHANGED <<lifecycleVars, pending, permitVars, epoch, xfer, resumer, stopping,
                 terminal, shown, limits, held, systemAction, exit, removing, retriesAllowed>>

RestoreUnreachable(id, g) ==
  /\ worker[id][g] = "unreachable"
  /\ LockFree(id)
  /\ GateFree
  /\ SetWorker(id, g, "idle")
  /\ \/ IsCurrentDispatch(id, g) /\ Restore(id, g, 0)
     \/ ~IsCurrentDispatch(id, g) /\ UNCHANGED <<pending, ownership, active, available>>
  /\ UNCHANGED <<lifecycleVars, capacityVars, epoch, xfer, resumer,
                 stopping, terminal, shown, environment, removing, retriesAllowed>>

\* apply_completion_locked: a terminal outcome ends the epoch, the mapping, the
\* registration and the permit together.
ApplyCompletion(id, statuses) ==
  /\ EndEpoch(id)
  /\ xfer' = [xfer EXCEPT ![id] = "none"]
  /\ Unregister(id)
  /\ ReleasePermit(id)
  /\ \E status \in statuses : Show(id, status)

\* The aria2 transfer reaches its end: an event with the current GID.
TransferEnds(id) ==
  /\ xfer[id] = "live"
  /\ LockFree(id)
  /\ GateFree
  /\ ApplyCompletion(id, {"completed", "failed"})
  /\ UNCHANGED <<watermark, cancelled, enq, pending, capacityVars, worker,
                 resumer, stopping, terminal, environment, removing, retriesAllowed>>

\* clear_aria2_permits: the daemon is gone, every aria2 id with a permit fails.
ConnectionLost(id) ==
  /\ "daemon" \in Features
  /\ id \in AriaIds
  /\ active[id] # 0
  /\ LockFree(id)
  /\ GateFree
  /\ ApplyCompletion(id, {"failed"})
  /\ UNCHANGED <<watermark, cancelled, enq, pending, capacityVars, worker,
                 resumer, stopping, terminal, environment, removing, retriesAllowed>>

-----------------------------------------------------------------------------
(* Media transfers.                                                          *)

\* dispatch_one emits Downloading after it has released the control lock.
PublishMedia(id, g) ==
  /\ worker[id][g] = "activated"
  /\ SetWorker(id, g, "published")
  /\ Show(id, "downloading")
  /\ UNCHANGED <<lifecycleVars, pending, permitVars, epoch, xfer, resumer,
                 stopping, terminal, environment, removing, retriesAllowed>>

\* The producer lease of the shutdown barrier: without it the dispatch is undone,
\* outside the control lock.
StartMediaRunner(id, g) ==
  /\ worker[id][g] = "published"
  /\ \/ /\ SetWorker(id, g, "spawned")
        /\ UNCHANGED <<registered, ownership, active, available>>
     \/ /\ exit # "open"
        /\ GateFree
        /\ SetWorker(id, g, "idle")
        /\ ReleasePermitFor(id, g)
        /\ UnregisterFor(id, g)
  /\ UNCHANGED <<watermark, cancelled, enq, pending, capacityVars, epoch, xfer, resumer,
                 stopping, terminal, shown, environment, removing, retriesAllowed>>

\* mutant: the runner does not look at the registration again
StartsAnyway(id, g) == "running"

RunnerStart(id, g) ==
  CASE registered[id] # g -> "finished"
    [] registered[id] = g /\ stopping[id].phase = "acked" /\ stopping[id].gen = g -> "aborted"
    [] OTHER -> "running"

\* run_media registers with the coordinator under the control lock; a pause that
\* was acknowledged before left a tombstone that cancels the runner at once.
RegisterRunner(id, g) ==
  /\ worker[id][g] = "spawned"
  /\ LockFree(id)
  /\ SetWorker(id, g, RunnerStart(id, g))
  /\ UNCHANGED <<lifecycleVars, pending, permitVars, epoch, xfer, resumer,
                 stopping, terminal, shown, environment, removing, retriesAllowed>>

\* The media process ends; its outcome is recorded under the control lock before
\* Finished reaches the coordinator.
EndRunner(id, g) ==
  /\ worker[id][g] \in RunnerPcs
  /\ LockFree(id)
  /\ SetWorker(id, g, "finished")
  /\ \E out \in {"completed", "failed", "cancelled"} :
       /\ out = "cancelled" => worker[id][g] # "running" \/ exit # "open"
       /\ out # "cancelled" => worker[id][g] # "aborted"
       /\ terminal' = IF registered[id] = g
                      THEN [terminal EXCEPT ![id] = [gen |-> g, out |-> out]]
                      ELSE terminal
  /\ UNCHANGED <<lifecycleVars, pending, permitVars, epoch, xfer, resumer,
                 stopping, shown, environment, removing, retriesAllowed>>

\* finish_runner
FinishRunner(id, g) ==
  /\ worker[id][g] = "finished"
  /\ LockFree(id)
  /\ GateFree
  /\ SetWorker(id, g, "idle")
  /\ UnregisterFor(id, g)
  /\ ReleasePermitFor(id, g)
  /\ IF registered[id] = g /\ terminal[id].out \in {"completed", "failed"}
     THEN Show(id, terminal[id].out) ELSE UNCHANGED shown
  /\ UNCHANGED <<watermark, cancelled, enq, pending, capacityVars, epoch, xfer, resumer,
                 stopping, terminal, environment, removing, retriesAllowed>>

-----------------------------------------------------------------------------
(* resume_download and its background worker.                                *)

\* A command for id may be issued: the frontend offers resume for rows at rest.
Resumable(id) == shown[id] \in {"paused", "failed"}

\* The daemon knows the GID as paused: a worker is spawned to win a permit.
ResumePaused(id, r) ==
  /\ Resumable(id)
  /\ CanBeginHandoff
  /\ LockFree(id)
  /\ id \notin removing
  /\ xfer[id] = "paused"
  /\ resumer[r].pc = "idle"
  /\ epoch' = [epoch EXCEPT ![id] = <<"resume", r>>]
  /\ resumer' = [resumer EXCEPT ![r] =
                   [pc |-> "spawned", id |-> id, gen |-> registered[id], cand |-> FALSE]]
  /\ Show(id, "queued")
  /\ UNCHANGED <<lifecycleVars, pending, permitVars, worker, xfer,
                 stopping, terminal, environment, removing, retriesAllowed>>

\* No GID is mapped, or the daemon has lost it: the lifecycle is given up so the
\* frontend can enqueue a new one.
ResumeUnmapped(id) ==
  /\ Resumable(id)
  /\ CanBeginHandoff
  /\ LockFree(id)
  /\ GateFree
  /\ id \notin removing
  /\ EndEpoch(id)
  /\ xfer' = [xfer EXCEPT ![id] = "none"]
  /\ ReleasePermit(id)
  /\ Unregister(id)
  /\ UNCHANGED <<watermark, cancelled, enq, pending, capacityVars, worker, resumer,
                 stopping, terminal, shown, environment, removing, retriesAllowed>>

\* The worker looks for a parked permit once, before it starts to wait.
StartResume(r) ==
  LET id == resumer[r].id IN
  /\ resumer[r].pc = "spawned"
  /\ resumer' = [resumer EXCEPT ![r].pc = IF active[id] # 0 THEN "reserved" ELSE "waiting"]
  /\ UNCHANGED <<lifecycleVars, pending, permitVars, worker, epoch, xfer,
                 stopping, terminal, shown, environment, removing, retriesAllowed>>

ResumeStale(r) ==
  LET id == resumer[r].id IN
  \/ AriaShutdownRequested
  \/ resumer[r].gen = 0
  \/ registered[id] # resumer[r].gen
  \/ RetriesCancelled(id)
  \/ epoch[id] # <<"resume", r>>

ResumeEligible(r) ==
  LET id == resumer[r].id IN
  /\ resumer[r].pc = "waiting"
  /\ ~ResumeStale(r)
  /\ ~systemAction
  /\ ownership[id] = NoOwner
  /\ active[id] = 0
  /\ QueueHasRoom(QueueOf[id])

\* acquire_aria2_permit_candidate_for_queue
ResumeReserve(r) ==
  LET id == resumer[r].id IN
  /\ ResumeEligible(r)
  /\ GateFree
  /\ PermitFree
  /\ AcquirePermit
  /\ ReserveFor(id, resumer[r].gen)
  /\ resumer' = [resumer EXCEPT ![r].pc = "reserved", ![r].cand = TRUE]
  /\ UNCHANGED <<lifecycleVars, pending, target, resizing, active, worker, epoch, xfer,
                 stopping, terminal, shown, environment, removing, retriesAllowed>>

\* ... gives up while waiting, or right after the reservation
ResumeGiveUp(r) ==
  LET id == resumer[r].id IN
  /\ ResumeStale(r)
  /\ GateFree
  /\ \/ /\ resumer[r].pc = "waiting"
        /\ UNCHANGED <<ownership, available>>
     \/ /\ resumer[r].pc = "reserved" /\ resumer[r].cand
        /\ ReleaseReservation(id, resumer[r].gen, 1)
  /\ resumer' = [resumer EXCEPT ![r] = IdleResumer]
  /\ UNCHANGED <<lifecycleVars, pending, capacityVars, active, worker, epoch, xfer,
                 stopping, terminal, shown, environment, removing, retriesAllowed>>

\* Under the control lock the worker revalidates, parks its permit and calls
\* unpause.  park_aria2_permit_if_missing_for_queue accepts a permit without a
\* reservation when none is recorded.
ResumeUnpause(r) ==
  LET id == resumer[r].id
      g  == resumer[r].gen
      current == /\ ~RetriesCancelled(id)
                 /\ epoch[id] = <<"resume", r>>
                 /\ xfer[id] # "none"
                 /\ registered[id] # 0
      parks == /\ ~AriaShutdownRequested
               /\ ~systemAction
               /\ \/ HasReservation(id, g) /\ registered[id] = g
                  \/ ownership[id] = NoOwner /\ registered[id] \in {0, g}
               /\ active[id] = 0
      quits == /\ ReleaseReservation(id, g, IF resumer[r].cand THEN 1 ELSE 0)
               /\ resumer' = [resumer EXCEPT ![r] = IdleResumer]
               /\ UNCHANGED active
  IN
  /\ resumer[r].pc = "reserved"
  /\ LockFree(id)
  /\ GateFree
  /\ \/ /\ ~current
        /\ IF resumer[r].cand THEN quits
           ELSE /\ resumer' = [resumer EXCEPT ![r] = IdleResumer]
                /\ UNCHANGED <<ownership, active, available>>
     \/ /\ current /\ resumer[r].cand /\ ~parks
        /\ quits
     \/ /\ current /\ resumer[r].cand /\ parks
        /\ ownership' = [ownership EXCEPT ![id] = [gen |-> g, active |-> TRUE]]
        /\ active' = [active EXCEPT ![id] = g]
        /\ resumer' = [resumer EXCEPT ![r].pc = "unpausing", ![r].cand = FALSE]
        /\ UNCHANGED available
     \/ /\ current /\ ~resumer[r].cand
        /\ resumer' = [resumer EXCEPT ![r].pc = "unpausing"]
        /\ UNCHANGED <<ownership, active, available>>
  /\ UNCHANGED <<lifecycleVars, pending, capacityVars, worker, epoch, xfer,
                 stopping, terminal, shown, environment, removing, retriesAllowed>>

\* What the daemon reports after unpause.  An unverified answer keeps the permit.
ResumeSettles(r) ==
  LET id == resumer[r].id IN
  /\ resumer[r].pc = "unpausing"
  /\ GateFree
  /\ resumer' = [resumer EXCEPT ![r] = IdleResumer]
  /\ \/ /\ xfer' = [xfer EXCEPT ![id] = "live"]
        /\ Show(id, "downloading")
        /\ UNCHANGED <<epoch, ownership, active, available, registered>>
     \/ /\ EndEpoch(id)
        /\ ReleasePermit(id)
        /\ Show(id, "paused")
        /\ UNCHANGED <<xfer, registered>>
     \/ ApplyCompletion(id, {"completed", "failed"})
     \/ /\ \E status \in {"live", "paused"} : xfer' = [xfer EXCEPT ![id] = status]
        /\ UNCHANGED <<epoch, ownership, active, available, registered, shown>>
  /\ UNCHANGED <<watermark, cancelled, enq, pending, capacityVars, worker,
                 stopping, terminal, environment, removing, retriesAllowed>>

-----------------------------------------------------------------------------
(* Commands that stop a download.  One such command per id is under way at a *)
(* time (a bound: the frontend serialises lifecycle operations per row).     *)

CanStop(id) == LockFree(id) /\ GateFree /\ stopping[id] = NoStop

IsMediaActive(id) == id \in MediaIds /\ active[id] # 0

BeginStop(id, op, phase) ==
  stopping' = [stopping EXCEPT ![id] = [op |-> op, gen |-> registered[id], phase |-> phase]]
EndStop(id) == stopping' = [stopping EXCEPT ![id] = NoStop]

\* The first half shared by pause, detach and remove on a running media
\* transfer: cancel_media_and_wait_for_finish gives the lock up.
StopMedia(id, op) ==
  /\ CanStop(id)
  /\ IsMediaActive(id)
  /\ DropPending(id)
  /\ BeginStop(id, op, "sent")
  /\ UNCHANGED <<lifecycleVars, permitVars, worker, xfer, resumer,
                 terminal, shown, environment, removing, retriesAllowed>>

\* The coordinator's answer: cancel a registered runner and wait for it, or leave
\* a tombstone and acknowledge at once.
CoordinatorStop(id) ==
  LET g == stopping[id].gen
      registeredRunner == g # 0 /\ worker[id][g] \in RunnerPcs
  IN
  /\ stopping[id].phase = "sent"
  /\ stopping' = [stopping EXCEPT ![id].phase = IF registeredRunner THEN "waiting" ELSE "acked"]
  /\ IF registeredRunner /\ worker[id][g] = "running"
     THEN SetWorker(id, g, "cancelling") ELSE UNCHANGED worker
  /\ UNCHANGED <<lifecycleVars, pending, permitVars, epoch, xfer, resumer,
                 terminal, shown, environment, removing, retriesAllowed>>

StopAcked(id) ==
  \/ stopping[id].phase = "acked"
  \/ stopping[id].phase = "waiting" /\ worker[id][stopping[id].gen] \notin RunnerPcs

\* pause_download, GID mapped; the daemon may report that the transfer has ended
PauseMapped(id) ==
  /\ CanStop(id)
  /\ CanBeginHandoff
  /\ id \notin removing
  /\ xfer[id] # "none"
  /\ DropPending(id)
  /\ \/ /\ EndEpoch(id)
        /\ ReleasePermit(id)
        /\ xfer' = [xfer EXCEPT ![id] = "paused"]
        /\ Show(id, "paused")
        /\ UNCHANGED registered
     \/ ApplyCompletion(id, {"completed", "failed"})
  /\ UNCHANGED <<watermark, cancelled, enq, capacityVars, worker, resumer, stopping, terminal,
                 environment, removing, retriesAllowed>>

\* pause_download of a queued task or of an aria2 dispatch without a GID
PauseUnmapped(id) ==
  /\ CanStop(id)
  /\ CanBeginHandoff
  /\ id \notin removing
  /\ xfer[id] = "none"
  /\ ~IsMediaActive(id)
  /\ active[id] # 0 \/ registered[id] # 0 \/ \E task \in pending : task[1] = id
  /\ DropPending(id)
  /\ IF active[id] # 0 THEN EndEpoch(id) ELSE UNCHANGED epoch
  /\ ReleasePermit(id)
  /\ Unregister(id)
  /\ Show(id, "paused")
  /\ UNCHANGED <<watermark, cancelled, enq, capacityVars, worker, xfer, resumer, stopping,
                 terminal, environment, removing, retriesAllowed>>

PauseMedia(id) ==
  /\ CanBeginHandoff
  /\ id \notin removing
  /\ StopMedia(id, "pause")
  /\ UNCHANGED epoch

\* pause_download after the coordinator's acknowledgement, the lock taken again
FinishPause(id) ==
  LET g == stopping[id].gen
      current == registered[id] = g /\ active[id] # 0
      outcome == IF terminal[id].gen = g THEN terminal[id].out ELSE "none"
  IN
  /\ stopping[id].op = "pause"
  /\ StopAcked(id)
  /\ LockFree(id)
  /\ GateFree
  /\ EndStop(id)
  /\ \/ /\ current /\ outcome \notin {"completed", "failed"}
        /\ ReleasePermit(id)
        /\ Unregister(id)
        /\ Show(id, "paused")
     \/ /\ ~current /\ outcome = "cancelled" /\ registered[id] = 0 /\ active[id] = 0
        /\ Show(id, "paused")
        /\ UNCHANGED <<ownership, active, available, registered>>
     \/ /\ IF current THEN outcome \in {"completed", "failed"}
                      ELSE ~(outcome = "cancelled" /\ registered[id] = 0 /\ active[id] = 0)
        /\ UNCHANGED <<ownership, active, available, registered, shown>>
  /\ UNCHANGED <<watermark, cancelled, enq, pending, capacityVars, worker, epoch, xfer, resumer,
                 terminal, environment, removing, retriesAllowed>>

\* detach_download_for_reconfigure: like pause, but the GID and the registration go
Detach(id) ==
  /\ "detach" \in Features
  /\ CanBeginHandoff
  /\ id \notin removing
  /\ \/ /\ CanStop(id)
        /\ ~IsMediaActive(id)
        /\ DropPending(id)
        /\ xfer' = [xfer EXCEPT ![id] = "none"]
        /\ IF xfer[id] # "none" THEN ReleasePermit(id)
                                ELSE ReleasePermitFor(id, registered[id])
        /\ Unregister(id)
        /\ Show(id, "paused")
        /\ UNCHANGED <<watermark, cancelled, enq, capacityVars, worker, resumer, stopping,
                       terminal, environment, removing, retriesAllowed>>
     \/ StopMedia(id, "detach")
  /\ EndEpoch(id)

FinishDetach(id) ==
  LET g == stopping[id].gen
      failed == \/ terminal[id].gen = g /\ terminal[id].out \in {"completed", "failed"}
                \/ registered[id] \notin {0, g}
                \/ registered[id] = 0 /\ active[id] # 0
  IN
  /\ stopping[id].op = "detach"
  /\ StopAcked(id)
  /\ LockFree(id)
  /\ GateFree
  /\ EndStop(id)
  /\ IF failed
     THEN UNCHANGED <<ownership, active, available, registered, shown>>
     ELSE /\ ReleasePermitFor(id, g)
          /\ UnregisterFor(id, g)
          /\ Show(id, "paused")
  /\ UNCHANGED <<watermark, cancelled, enq, pending, capacityVars, worker, epoch, xfer, resumer,
                 terminal, environment, removing, retriesAllowed>>

\* submit_download_removals: the durable job is the fence, and the retries of the
\* id are cancelled with it
SubmitRemoval(id) ==
  /\ "remove" \in Features
  /\ LockFree(id)
  /\ GateFree
  /\ id \notin removing
  /\ removing' = removing \cup {id}
  /\ DropPending(id)
  /\ UNCHANGED <<lifecycleVars, permitVars, worker, epoch, xfer, resumer, stopping,
                 terminal, shown, environment, retriesAllowed>>

\* remove_download_inner, GID mapped, when the daemon does not confirm the removal:
\* the retries are allowed again, and the job, the epoch, the mapping, the permit
\* and the registration stay for a later attempt.
RemovalRefused(id) ==
  /\ id \in removing
  /\ CanStop(id)
  /\ xfer[id] # "none"
  /\ DropPending(id)
  /\ retriesAllowed' = retriesAllowed \cup {id}
  /\ UNCHANGED <<lifecycleVars, permitVars, worker, epoch, xfer, resumer, stopping,
                 terminal, shown, environment, removing>>

\* ... and otherwise, up to the point where it gives the control lock up
RemoveStop(id) ==
  /\ id \in removing
  /\ CanStop(id)
  /\ \/ /\ xfer[id] # "none"
        /\ DropPending(id)
        /\ xfer' = [xfer EXCEPT ![id] = "none"]
        /\ ReleasePermit(id)
        /\ BeginStop(id, "remove", "cleanup")
        /\ retriesAllowed' = retriesAllowed \ {id}
        /\ UNCHANGED <<lifecycleVars, capacityVars, worker, resumer, terminal, shown,
                       environment, removing>>
     \/ /\ xfer[id] = "none"
        /\ ~IsMediaActive(id)
        /\ DropPending(id)
        /\ BeginStop(id, "remove", "drain")
        /\ retriesAllowed' = retriesAllowed \ {id}
        /\ UNCHANGED <<lifecycleVars, permitVars, worker, xfer, resumer, terminal, shown,
                       environment, removing>>
     \/ StopMedia(id, "remove")
  /\ EndEpoch(id)

InFlight(id) == \E g \in Generations : worker[id][g] \in InFlightPcs

\* ... and after it has the lock again.  A failing cleanup keeps the job.  The error
\* path of a GID mapped during the drain is not here: the epoch has ended before, so
\* addUri maps none (AddUriAccepted; RemovalIsFenced says so).
FinishRemove(id) ==
  LET g == stopping[id].gen
      phase == stopping[id].phase
      changed == IF phase = "drain" THEN registered[id] # g ELSE registered[id] \notin {0, g}
  IN
  /\ stopping[id].op = "remove"
  /\ \/ phase = "cleanup"
     \/ phase = "drain" /\ ~InFlight(id)
     \/ StopAcked(id)
  /\ LockFree(id)
  /\ GateFree
  /\ EndStop(id)
  /\ \/ /\ phase = "cleanup"
        /\ UNCHANGED <<ownership, active, available, epoch, xfer>>
     \/ /\ phase = "drain"
        /\ changed
        /\ ReleasePermitFor(id, g)
        /\ UNCHANGED <<epoch, xfer>>
     \/ /\ phase = "drain"
        /\ ~changed
        /\ EndEpoch(id)
        /\ xfer' = [xfer EXCEPT ![id] = "none"]
        /\ ReleasePermit(id)
     \/ /\ phase \in {"acked", "waiting"}
        /\ IF changed THEN UNCHANGED <<ownership, active, available>>
                      ELSE ReleasePermitFor(id, g)
        /\ UNCHANGED <<epoch, xfer>>
  /\ IF phase # "cleanup" /\ changed
     THEN UNCHANGED <<registered, shown>>
     ELSE \/ Unregister(id) /\ Show(id, "paused")
          \/ /\ IF phase \in {"acked", "waiting"} THEN UnregisterFor(id, g)
                                                  ELSE UNCHANGED registered
             /\ UNCHANGED shown
  /\ UNCHANGED <<watermark, cancelled, enq, pending, capacityVars, worker, resumer, terminal,
                 environment, removing, retriesAllowed>>

-----------------------------------------------------------------------------
(* Capacity, limits, holds, system actions, shutdown.                        *)

\* set_capacity swaps the target first ...
SetCapacity(n) ==
  /\ "resize" \in Features
  /\ resizing = 0
  /\ n # target
  /\ target' = n
  /\ resizing' = n - target
  /\ UNCHANGED <<lifecycleVars, pending, available, debt, ownership, active, worker, epoch,
                 xfer, resumer, stopping, terminal, shown, environment, removing, retriesAllowed>>

\* ... and then pays off debt and adds permits, or adds debt.
ApplyResize ==
  LET paid == IF resizing < debt THEN resizing ELSE debt IN
  /\ resizing # 0
  /\ IF resizing > 0
     THEN debt' = debt - paid /\ available' = available + (resizing - paid)
     ELSE debt' = debt - resizing /\ UNCHANGED available
  /\ resizing' = 0
  /\ UNCHANGED <<lifecycleVars, pending, target, ownership, active, worker, epoch,
                 xfer, resumer, stopping, terminal, shown, environment, removing, retriesAllowed>>

\* An admission attempt that finds no more free permits than debt forgets them all.
RetireFreeSlots ==
  /\ GateFree
  /\ available > 0
  /\ ~PermitFree
  /\ \/ AdmissionOpen /\ \E id \in Ids, g \in Generations : Eligible(id, g)
     \/ \E r \in Resumers : ResumeEligible(r)
  /\ debt' = debt - available
  /\ available' = 0
  /\ UNCHANGED <<lifecycleVars, pending, target, resizing, ownership, active, worker, epoch,
                 xfer, resumer, stopping, terminal, shown, environment, removing, retriesAllowed>>

ReplaceQueueLimits(m) ==
  /\ "limits" \in Features
  /\ GateFree
  /\ m # limits
  /\ limits' = m
  /\ UNCHANGED <<lifecycleVars, pending, permitVars, worker, epoch, xfer, resumer, stopping,
                 terminal, shown, held, ariaHold, systemAction, exit, removing, retriesAllowed>>

\* begin_queue_dispatch_hold, and its end by the token or by the lease running out
BeginHold(q) ==
  /\ "holds" \in Features
  /\ GateFree
  /\ ~systemAction
  /\ held' = held \cup {q}
  /\ UNCHANGED <<lifecycleVars, pending, permitVars, worker, epoch, xfer, resumer, stopping,
                 terminal, shown, limits, ariaHold, systemAction, exit, removing, retriesAllowed>>

EndHold(q) ==
  /\ q \in held
  /\ held' = held \ {q}
  /\ UNCHANGED <<lifecycleVars, pending, permitVars, worker, epoch, xfer, resumer, stopping,
                 terminal, shown, limits, ariaHold, systemAction, exit, removing, retriesAllowed>>

\* set_aria2_dispatch_hold(false), once the daemon is back
DaemonRecovers ==
  /\ ariaHold
  /\ ariaHold' = FALSE
  /\ UNCHANGED <<lifecycleVars, pending, permitVars, worker, epoch, xfer, resumer, stopping,
                 terminal, shown, limits, held, systemAction, exit, removing, retriesAllowed>>

BeginSystemAction ==
  /\ "system" \in Features
  /\ GateFree
  /\ ~systemAction
  /\ \/ "force" \in Features
     \/ /\ pending = {}
        /\ \A id \in Ids : ownership[id] = NoOwner /\ active[id] = 0
  /\ systemAction' = TRUE
  /\ UNCHANGED <<lifecycleVars, pending, permitVars, worker, epoch, xfer, resumer, stopping,
                 terminal, shown, limits, held, ariaHold, exit, removing, retriesAllowed>>

EndSystemAction ==
  /\ systemAction
  /\ systemAction' = FALSE
  /\ UNCHANGED <<lifecycleVars, pending, permitVars, worker, epoch, xfer, resumer, stopping,
                 terminal, shown, limits, held, ariaHold, exit, removing, retriesAllowed>>

\* An exit request raises the two halves of the fence, a rejected one lowers them;
\* a rejection after the daemon was told to stop holds aria2 dispatches.
NextExit == [open |-> "closing", closing |-> "closed", closed |-> "reopening",
             reopening |-> "open"]

ExitStep ==
  /\ "shutdown" \in Features
  /\ exit' = NextExit[exit]
  /\ ariaHold' \in {ariaHold, ariaHold \/ exit = "closed"}
  /\ UNCHANGED <<lifecycleVars, pending, permitVars, worker, epoch, xfer, resumer, stopping,
                 terminal, shown, limits, held, systemAction, removing, retriesAllowed>>

-----------------------------------------------------------------------------
EnqueueStep(id) ==
  \/ \E g \in Generations : ReserveEnqueue(id, g) \/ CancelEnqueue(id, g)
  \/ AbandonEnqueue(id)
  \/ CommitEnqueue(id)
  \/ FinishCommit(id)

WorkerStep(id, g) ==
  \/ DispatchHeld(id, g) \/ DispatchCheck(id, g) \/ Activate(id, g)
  \/ RestoreInHand(id, g) \/ StartAddUri(id, g) \/ RestoreHeldBack(id, g)
  \/ AddUriAccepted(id, g) \/ AddUriRejected(id, g)
  \/ DaemonUnreachable(id, g) \/ RestoreUnreachable(id, g)
  \/ PublishMedia(id, g) \/ StartMediaRunner(id, g) \/ RegisterRunner(id, g)
  \/ EndRunner(id, g) \/ FinishRunner(id, g)

ResumeStep(r) ==
  \/ \E id \in Ids : ResumePaused(id, r)
  \/ StartResume(r) \/ ResumeReserve(r) \/ ResumeGiveUp(r)
  \/ ResumeUnpause(r) \/ ResumeSettles(r)

StopStep(id) ==
  \/ ResumeUnmapped(id) \/ TransferEnds(id) \/ ConnectionLost(id)
  \/ PauseMapped(id) \/ PauseUnmapped(id) \/ PauseMedia(id) \/ CoordinatorStop(id)
  \/ FinishPause(id) \/ Detach(id) \/ FinishDetach(id)
  \/ SubmitRemoval(id) \/ RemovalRefused(id) \/ RemoveStop(id) \/ FinishRemove(id)

EnvironmentStep ==
  \/ \E n \in Capacities : SetCapacity(n)
  \/ ApplyResize
  \/ RetireFreeSlots
  \/ \E m \in LimitMaps : ReplaceQueueLimits(m)
  \/ \E q \in Queues : BeginHold(q) \/ EndHold(q)
  \/ DaemonRecovers
  \/ BeginSystemAction
  \/ EndSystemAction
  \/ ExitStep

Next ==
  \/ \E id \in Ids : EnqueueStep(id) \/ StopStep(id)
  \/ \E id \in Ids, g \in Generations : TryAdmit(id, g) \/ WorkerStep(id, g)
  \/ \E r \in Resumers : ResumeStep(r)
  \/ EnvironmentStep

Spec == Init /\ [][Next]_vars

\* Both locks are tokio mutexes, which serve their waiters in order: a section that
\* can run again and again does run (strong fairness).  RPCs and finalizers end,
\* and a media process ends once it is cancelled; one that is left alone may not.
Progress(id, g) ==
  \/ DispatchCheck(id, g) \/ Activate(id, g) \/ RestoreInHand(id, g)
  \/ StartAddUri(id, g) \/ RestoreHeldBack(id, g)
  \/ AddUriAccepted(id, g) \/ AddUriRejected(id, g) \/ RestoreUnreachable(id, g)
  \/ PublishMedia(id, g) \/ StartMediaRunner(id, g) \/ RegisterRunner(id, g)
  \/ worker[id][g] # "running" /\ EndRunner(id, g)
  \/ FinishRunner(id, g)

Fairness ==
  /\ \A id \in Ids :
       /\ SF_vars(AbandonEnqueue(id) \/ CommitEnqueue(id) \/ FinishCommit(id))
       /\ WF_vars(CoordinatorStop(id))
       /\ SF_vars(FinishPause(id) \/ FinishDetach(id) \/ FinishRemove(id))
       /\ \A g \in Generations : SF_vars(Progress(id, g))
  /\ \A r \in Resumers : SF_vars(ResumeSettles(r))

FairSpec == Spec /\ Fairness

-----------------------------------------------------------------------------
(* Properties.                                                               *)

PermitsInHand == {task \in Ids \X Generations : worker[task[1]][task[2]] \in InHandPcs}
Candidates == {r \in Resumers : resumer[r].cand}
ParkedIds == {id \in Ids : active[id] # 0}
PermitsHeld == Cardinality(PermitsInHand) + Cardinality(Candidates) + Cardinality(ParkedIds)

\* Every permit the semaphore ever had is free, in the hands of one worker or
\* parked under one download: no path of admission, activation, restore, pause,
\* cancellation or resize loses a slot or returns one twice.
PermitConservation == available + PermitsHeld - debt = target - resizing

Occupied(id, g) == worker[id][g] # "idle" \/ <<id, g>> \in pending

HasFreshGenerations(id) ==
  LET newest == IF enq[id].phase = "none" THEN watermark[id] ELSE enq[id].prev IN
  /\ enq[id].phase # "none" => watermark[id] = enq[id].gen /\ enq[id].prev < enq[id].gen
  /\ \A g \in Generations :
       /\ <<id, g>> \in pending => worker[id][g] = "idle"
       /\ Occupied(id, g) =>
            \/ g <= newest
            \/ enq[id].phase = "finalizing" /\ g = enq[id].gen /\ worker[id][g] = "idle"

\* A generation that an enqueue has reserved is new: no worker and no pending task
\* of the id carries it or a newer one, not even after rollbacks have lowered the
\* watermark again.  So a pending task never has a worker of its own generation.
GenerationsAreFresh == \A id \in Ids : HasFreshGenerations(id)

\* A resume worker holds a permit only between its reservation and its unpause.
CandidatesAreReserved ==
  \A r \in Resumers : resumer[r].cand => resumer[r].pc = "reserved" /\ resumer[r].gen # 0

\* What conservation rests on: permits are granted only for a task or a resume that
\* holds none yet.
PermitInvariant == PermitConservation /\ GenerationsAreFresh /\ CandidatesAreReserved

\* The worker that was given the reservation of a generation, and its permit.
ReservationCarried(id, g) ==
  \/ worker[id][g] \in InHandPcs
  \/ \E r \in Resumers : resumer[r].cand /\ resumer[r].id = id /\ resumer[r].gen = g

ReservationMatches(id) ==
  /\ active[id] # 0 <=> ownership[id].active
  /\ active[id] # 0 => ownership[id].gen = active[id]
  /\ ownership[id].gen # 0 /\ ~ownership[id].active => ReservationCarried(id, ownership[id].gen)

\* The two maps the admission gate protects agree: a parked permit has an active
\* reservation of its own generation, and an inactive reservation still has the
\* worker that will activate or release it.
ReservationsMatchPermits == \A id \in Ids : ReservationMatches(id)

\* A transfer that runs is one the queue accounts for: a live GID, and a dispatch
\* that would install one, hold the permit and the registration of their id.
TransfersHoldPermits ==
  \A id \in Ids :
    /\ xfer[id] = "live" => active[id] # 0
    /\ xfer[id] # "none" => registered[id] # 0
    /\ \A g \in Generations :
         worker[id][g] \in InFlightPcs /\ IsCurrentDispatch(id, g) =>
           active[id] = g /\ registered[id] = g /\ xfer[id] = "none"

\* A pending task belongs to the registered lifecycle of its id, which owns no
\* permit and no transfer yet: admission cannot start a second transfer for it.
PendingIsUnowned ==
  \A id \in Ids, g \in Generations : <<id, g>> \in pending =>
    /\ registered[id] = g
    /\ active[id] = 0
    /\ xfer[id] = "none"
    /\ worker[id][g] = "idle"

\* Of each lifecycle there is one piece of work: what runs has its permit and its registration,
\* what waits to be admitted has no permit, and no id has both.
WorkHasOneOwner == TransfersHoldPermits /\ PendingIsUnowned

\* Two generations of one download never run media processes that nobody has
\* told to stop.
OneRunnerPerDownload ==
  \A id \in Ids, g, h \in Generations :
    worker[id][g] = "running" /\ worker[id][h] = "running" => g = h

Carried(id) ==
  \/ \E g \in Generations : <<id, g>> \in pending \/ worker[id][g] # "idle"
  \/ enq[id].phase # "none"
  \/ stopping[id] # NoStop
  \/ \E r \in Resumers : resumer[r].id = id /\ epoch[id] = <<"resume", r>>
                          /\ resumer[r].pc # "idle"

\* A registered id rejects every later enqueue as a duplicate, so its registration
\* always has somebody who will retire it: a pending task, a worker, a command, or
\* a GID the user can resume.
RegistrationIsCarried ==
  \A id \in Ids : registered[id] # 0 =>
    \/ Carried(id)
    \/ xfer[id] # "none"
    \/ id \in removing
    \/ cancelled[id] >= registered[id]

\* A row that shows Queued is on its way: somebody will start it or has started it.
QueuedIsCarried ==
  \A id \in Ids : shown[id] = "queued" =>
    \/ Carried(id)
    \/ active[id] # 0
    \/ id \in removing
    \/ cancelled[id] >= watermark[id]

\* Handing out a permit never takes the permits in use above the limit in force,
\* whatever debt an earlier reduction has left.
TargetRespected ==
  [][PermitsHeld' > PermitsHeld => PermitsHeld' <= target - resizing]_vars

Occupants(q) == {id \in Ids : QueueOf[id] = q /\ (ownership[id] # NoOwner \/ active[id] # 0)}

\* A queue takes on another download only within its own limit.
QueueLimitRespected ==
  [][\A q \in Queues : Cardinality(Occupants(q)') > Cardinality(Occupants(q)) =>
        Cardinality(Occupants(q)') <= QueueLimit(q)]_vars

\* A dispatch worker left over from an older generation changes nothing that
\* belongs to the lifecycle registered now.
StaleWorkersAreHarmless ==
  [][\A id \in Ids, g \in Generations :
        worker'[id][g] # worker[id][g] /\ registered[id] \notin {0, g} =>
          /\ registered'[id] = registered[id]
          /\ active'[id] = active[id]
          /\ ownership'[id] = ownership[id]
          /\ xfer'[id] = xfer[id]
          /\ \A h \in Generations \ {g} : <<id, h>> \in pending => <<id, h>> \in pending']_vars

\* Work that holds a handoff guard: dispatch workers up to the media runner, and
\* resume workers.
HandoffsInFlight ==
  \/ \E id \in Ids, g \in Generations :
       worker[id][g] \in InHandPcs \cup InFlightPcs \cup {"activated", "published"}
  \/ \E r \in Resumers : resumer[r].pc # "idle"

\* Once an exit request has closed the handoffs and the last one has ended, none
\* starts again before the request is rejected: the final state can be written.
ShutdownStaysQuiet ==
  [][exit = "closed" /\ exit' = "closed" /\ ~HandoffsInFlight => ~HandoffsInFlight']_vars

\* While a system action runs no download gains a permit or a reservation, not even
\* one that was admitted before the action was forced.
SystemActionIsFenced ==
  [][systemAction /\ systemAction' => \A id \in Ids :
        /\ active[id] = 0 => active'[id] = 0
        /\ ownership[id] = NoOwner => ownership'[id] = NoOwner]_vars

GainsPermit(id) == active[id] = 0 /\ active'[id] # 0
StartsTransfer(id) == xfer[id] # "live" /\ xfer'[id] = "live"

\* A resume that was spawned before the job was submitted, and nothing since has
\* ended the epoch it was given.
StillResuming(id) ==
  \E r \in Resumers : resumer[r].pc # "idle" /\ resumer[r].id = id /\ epoch[id] = <<"resume", r>>

\* A durable removal job fences its id.  No dispatch and no resume begins, and no
\* late addUri maps a GID.  The id gains a permit or a running transfer only when the
\* daemon has refused the removal, and then only from the resume that was under way
\* before it; once the removal has ended the epoch it gains nothing at all.
RemovalIsFenced ==
  [][\A id \in removing :
        /\ epoch'[id] \in {epoch[id], <<"none", 0>>}
        /\ xfer[id] = "none" => xfer'[id] = "none"
        /\ GainsPermit(id) \/ StartsTransfer(id) =>
             id \in retriesAllowed /\ StillResuming(id)]_vars

\* Pause, detach and removal give the control lock up while they wait; the runner or
\* the dispatch they wait for always comes to its end.
StopsComplete == \A id \in Ids : stopping[id] # NoStop ~> stopping[id] = NoStop

\* An admitted aria2 task never stays between the queue and the daemon.
DispatchesSettle ==
  \A id \in AriaIds, g \in Generations : worker[id][g] # "idle" ~> worker[id][g] = "idle"
=============================================================================
