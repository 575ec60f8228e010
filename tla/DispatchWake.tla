---------------------------- MODULE DispatchWake ----------------------------
(***************************************************************************)
(* Who wakes the dispatcher of Firelink (src-tauri/src/queue.rs).  One     *)
(* tokio Notify is shared by run_dispatcher and by the workers that        *)
(* resume_download leaves waiting for a permit; everything that may make a *)
(* task or a resume admissible has to ring it.  DownloadQueue says what    *)
(* admission may do; this module says whether it happens.                  *)
(*                                                                         *)
(* Bounds: every download is enqueued once, and can be resumed after each  *)
(* pause with a GID when its last resume worker has ended; the capacity is *)
(* fixed and each queue has one start-batch hold.  Operations under the    *)
(* admission gate are one step.                                            *)
(***************************************************************************)
EXTENDS Integers, FiniteSets, SequencesExt

CONSTANTS
  Ids,         \* download ids
  Queues,      \* queue ids
  QueueOf,     \* the queue of each download
  Slots,       \* permits in the semaphore
  Limits,      \* the limit of each queue
  Dispatcher,  \* the waiter that run_dispatcher registers
  PausesAt,    \* the stages in which a pause may arrive
  Outages      \* which of holds, late renewals and daemon outages a run has

Stages == {"pending", "dispatching", "running", "resuming"}
Waiters == Ids \cup {Dispatcher}

ASSUME WaiterAssumption == IsFiniteSet(Ids) /\ Dispatcher \notin Ids
ASSUME QueueAssumption == QueueOf \in [Ids -> Queues] /\ Limits \in [Queues -> Nat \ {0}]
ASSUME BoundAssumption == Slots \in Nat \ {0} /\ PausesAt \subseteq Stages
                              /\ Outages \subseteq {"hold", "renewal", "daemon"}

VARIABLES
  bell,        \* the Notify: its waiters in order, its stored permit, what it has sent
  dispatcher,  \* where run_dispatcher is, and the queue whose hold it sleeps for
  pending,     \* the pending list, as a set
  free,        \* permits in the semaphore
  owner,       \* queue_permit_ownership with active_permits
  row,         \* the lifecycle of each download
  worker,      \* the dispatch worker of each download
  resumer,     \* the resume worker of each download
  lease,       \* the start-batch hold of each queue
  ariaHeld,    \* aria2_dispatch_hold
  unheard      \* history: who sleeps through something that came free unannounced

vars == <<bell, dispatcher, pending, free, owner, row, worker, resumer, lease, ariaHeld,
          unheard>>

DispatcherPcs == {"top", "inspect", "delay", "asleep", "timed"}
ResumerPcs == {"idle", "check", "enable", "inspect", "asleep", "granted", "dropping"}

\* Every variable keeps its type, and nobody waits in line with a signal received.
TypeOK ==
  /\ bell \in [line : Seq(Waiters), stored : BOOLEAN, sent : [Waiters -> {"none", "one", "all"}]]
  /\ \A i \in 1 .. Len(bell.line) : bell.sent[bell.line[i]] = "none"
  /\ dispatcher \in [pc : DispatcherPcs, until : Queues]
  /\ pending \subseteq Ids
  /\ free \in 0 .. Slots
  /\ owner \in [Ids -> {"none", "reserved", "active"}]
  /\ row \in [Ids -> {"new", "queued", "running", "paused", "resuming", "ended"}]
  /\ worker \in [Ids -> {"idle", "inHand"}]
  /\ resumer \in [Ids -> ResumerPcs]
  /\ lease \in [Queues -> {"unused", "live", "expired", "ended"}]
  /\ ariaHeld \in BOOLEAN
  /\ unheard \subseteq Waiters

Init ==
  /\ bell = [line |-> <<>>, stored |-> FALSE, sent |-> [w \in Waiters |-> "none"]]
  /\ dispatcher = [pc |-> "top", until |-> CHOOSE q \in Queues : TRUE]
  /\ pending = {}
  /\ free = Slots
  /\ owner = [id \in Ids |-> "none"]
  /\ row = [id \in Ids |-> "new"]
  /\ worker = [id \in Ids |-> "idle"]
  /\ resumer = [id \in Ids |-> "idle"]
  /\ lease = [q \in Queues |-> "unused"]
  /\ ariaHeld = FALSE
  /\ unheard = {}

-----------------------------------------------------------------------------
(* tokio::sync::Notify.                                                    *)

\* notify_one wakes the waiter that has waited longest, or leaves one permit behind.
NotifyOne(b) ==
  IF b.line = <<>> THEN [b EXCEPT !.stored = TRUE]
                   ELSE [b EXCEPT !.line = Tail(@), !.sent[Head(b.line)] = "one"]

\* notify_waiters wakes everyone in line and leaves nothing behind.
NotifyAll(b) ==
  [b EXCEPT !.line = <<>>,
            !.sent = [w \in Waiters |-> IF w \in ToSet(b.line) THEN "all" ELSE @[w]]]

\* notified().enable(): take the stored permit or get in line.
Enable(b, w) ==
  IF b.stored THEN [b EXCEPT !.stored = FALSE, !.sent[w] = "all"]
              ELSE [b EXCEPT !.line = Append(@, w)]

Receive(b, w) == [b EXCEPT !.sent[w] = "none"]

\* A future that is dropped leaves the line, and passes a notify_one on that it has
\* not received.
Forget(b, w) ==
  LET left == [b EXCEPT !.line = Remove(@, w), !.sent[w] = "none"] IN
  IF b.sent[w] = "one" THEN NotifyOne(left) ELSE left

-----------------------------------------------------------------------------
(* Permits.                                                                *)

HasPermit == free > 0

OwnedIn(q) == {id \in Ids : QueueOf[id] = q /\ owner[id] # "none"}
RoomIn(q) == Cardinality(OwnedIn(q)) < Limits[q]

\* What release_permit and apply_completion ring
RingOne(b) == NotifyOne(b)                         \* mutant: only one waiter is told
RingRelease(b) == NotifyAll(b)

\* mutant: the semaphore gets a permit back for a reservation too
ReleaseOwned(id) ==
  /\ owner' = [owner EXCEPT ![id] = "none"]
  /\ free' = free + (IF owner[id] = "none" THEN 0 ELSE 1)
\* release_permit: the map entries go, a parked permit returns to the semaphore; that
\* of a reservation is in the hands of its worker
ReleasePermit(id) ==
  /\ owner' = [owner EXCEPT ![id] = "none"]
  /\ free' = free + (IF owner[id] = "active" THEN 1 ELSE 0)

-----------------------------------------------------------------------------
(* The dispatcher.                                                         *)

Admissible(id) ==
  /\ id \in pending
  /\ owner[id] = "none"
  /\ lease[QueueOf[id]] # "live"
  /\ ~ariaHeld
  /\ RoomIn(QueueOf[id])
  /\ HasPermit

\* active_queue_dispatch_holds prunes the expired leases it meets.
Pruned == [q \in Queues |-> IF lease[q] = "expired" THEN "ended" ELSE lease[q]]

\* Those who have inspected the queue in vain and wait for the bell or a deadline
Asleep ==
  {w \in Waiters : IF w = Dispatcher THEN dispatcher.pc \in {"delay", "asleep", "timed"}
                                    ELSE resumer[w] = "asleep"}

GoTo(pc) == dispatcher' = [dispatcher EXCEPT !.pc = pc]

DispatcherEnables ==
  /\ dispatcher.pc = "top"
  /\ bell' = Enable(bell, Dispatcher)
  /\ GoTo("inspect")
  /\ UNCHANGED <<pending, free, owner, row, worker, resumer, lease, ariaHeld, unheard>>

\* try_admit_next_task succeeds; the loop starts over with a new future.
DispatcherAdmits(id) ==
  /\ dispatcher.pc = "inspect"
  /\ Admissible(id)
  /\ pending' = pending \ {id}
  /\ free' = free - 1
  /\ owner' = [owner EXCEPT ![id] = "reserved"]
  /\ worker' = [worker EXCEPT ![id] = "inHand"]
  /\ lease' = Pruned
  /\ bell' = Forget(bell, Dispatcher)
  /\ GoTo("top")
  /\ UNCHANGED <<row, resumer, ariaHeld, unheard>>

DispatcherFindsNothing ==
  /\ dispatcher.pc = "inspect"
  /\ \A id \in Ids : ~Admissible(id)
  /\ lease' = IF pending = {} THEN lease ELSE Pruned
  /\ GoTo("delay")
  /\ UNCHANGED <<bell, pending, free, owner, row, worker, resumer, ariaHeld, unheard>>

\* mutant: expired leases are pruned before the deadline is computed
DeadlineWhenLive(q) == lease[q] = "live"
\* A lease that expired after the inspection still has a deadline, at once.
HasDeadline(q) == lease[q] \in {"live", "expired"}

\* next_queue_dispatch_hold_delay; which of two leases ends first is open here
DispatcherSleeps ==
  /\ dispatcher.pc = "delay"
  /\ \/ /\ \A q \in Queues : ~HasDeadline(q)
        /\ GoTo("asleep")
     \/ \E q \in Queues :
          /\ HasDeadline(q)
          /\ dispatcher' = [pc |-> "timed", until |-> q]
  /\ UNCHANGED <<bell, pending, free, owner, row, worker, resumer, lease, ariaHeld, unheard>>

DispatcherWakes ==
  /\ dispatcher.pc \in {"asleep", "timed"}
  /\ \/ /\ bell.sent[Dispatcher] # "none"
        /\ bell' = Receive(bell, Dispatcher)
     \/ /\ dispatcher.pc = "timed"
        /\ lease[dispatcher.until] # "live"
        /\ bell' = Forget(bell, Dispatcher)
  /\ unheard' = unheard \ {Dispatcher}
  /\ GoTo("top")
  /\ UNCHANGED <<pending, free, owner, row, worker, resumer, lease, ariaHeld>>

DispatcherStep ==
  \/ DispatcherEnables
  \/ \E id \in Ids : DispatcherAdmits(id)
  \/ DispatcherFindsNothing
  \/ DispatcherSleeps
  \/ DispatcherWakes

-----------------------------------------------------------------------------
(* Tasks and their dispatch workers.                                       *)

\* commit_reserved_enqueue_with_finalizer
Commit(id) ==
  /\ row[id] = "new"
  /\ row' = [row EXCEPT ![id] = "queued"]
  /\ pending' = pending \cup {id}
  /\ bell' = NotifyOne(bell)
  /\ UNCHANGED <<dispatcher, free, owner, worker, resumer, lease, ariaHeld, unheard>>

\* dispatch_one hands the task to the daemon.
WorkerActivates(id) ==
  /\ worker[id] = "inHand"
  /\ row[id] = "queued"
  /\ ~ariaHeld
  /\ owner' = [owner EXCEPT ![id] = "active"]
  /\ row' = [row EXCEPT ![id] = "running"]
  /\ worker' = [worker EXCEPT ![id] = "idle"]
  /\ UNCHANGED <<bell, dispatcher, pending, free, resumer, lease, ariaHeld, unheard>>

\* restore_dispatch_task_to_pending, with the permit back before the bell rings
WorkerRestores(id) ==
  /\ worker[id] = "inHand"
  /\ owner[id] = "reserved"
  /\ ariaHeld
  /\ owner' = [owner EXCEPT ![id] = "none"]
  /\ pending' = pending \cup {id}
  /\ free' = free + 1
  /\ worker' = [worker EXCEPT ![id] = "idle"]
  /\ bell' = NotifyAll(bell)
  /\ UNCHANGED <<dispatcher, row, resumer, lease, ariaHeld, unheard>>

\* The lifecycle ended while the worker waited for the control lock: the reservation
\* is gone, so neither release_queue_reservation_for_generation nor the restore path
\* rings, and the permit is dropped.
WorkerDrops(id) ==
  /\ worker[id] = "inHand"
  /\ row[id] # "queued"
  /\ free' = free + 1
  /\ worker' = [worker EXCEPT ![id] = "idle"]
  /\ unheard' = unheard \cup Asleep
  /\ UNCHANGED <<bell, dispatcher, pending, owner, row, resumer, lease, ariaHeld>>

WorkerStep(id) == WorkerActivates(id) \/ WorkerRestores(id) \/ WorkerDrops(id)

\* apply_completion: the permit and the registration are released.
TransferEnds(id) ==
  /\ row[id] = "running"
  /\ row' = [row EXCEPT ![id] = "ended"]
  /\ ReleasePermit(id)
  /\ bell' = RingRelease(bell)
  /\ UNCHANGED <<dispatcher, pending, worker, resumer, lease, ariaHeld, unheard>>

\* pause_download: remove_from_pending rings for one, release_permit and
\* release_registered_id or the new epoch ring for all.
PausePending(id) ==
  /\ "pending" \in PausesAt
  /\ id \in pending
  /\ pending' = pending \ {id}
  /\ row' = [row EXCEPT ![id] = "ended"]
  /\ bell' = NotifyAll(NotifyOne(bell))
  /\ UNCHANGED <<dispatcher, free, owner, worker, resumer, lease, ariaHeld, unheard>>

PauseDispatching(id) ==
  /\ "dispatching" \in PausesAt
  /\ worker[id] = "inHand"
  /\ row[id] = "queued"
  /\ row' = [row EXCEPT ![id] = "ended"]
  /\ ReleasePermit(id)
  /\ bell' = RingRelease(bell)
  /\ UNCHANGED <<dispatcher, pending, worker, resumer, lease, ariaHeld, unheard>>

PauseMapped(id) ==
  /\ \/ "running" \in PausesAt /\ row[id] = "running"
     \/ "resuming" \in PausesAt /\ row[id] = "resuming"
  /\ row' = [row EXCEPT ![id] = "paused"]
  /\ ReleasePermit(id)
  /\ bell' = RingRelease(bell)
  /\ UNCHANGED <<dispatcher, pending, worker, resumer, lease, ariaHeld, unheard>>

-----------------------------------------------------------------------------
(* resume_download: a worker waits for a permit on the same Notify.        *)

SetResumer(id, pc) == resumer' = [resumer EXCEPT ![id] = pc]

\* The new control epoch rings.
Resume(id) ==
  /\ row[id] = "paused"
  /\ resumer[id] = "idle"
  /\ row' = [row EXCEPT ![id] = "resuming"]
  /\ SetResumer(id, "check")
  /\ bell' = NotifyAll(bell)
  /\ UNCHANGED <<dispatcher, pending, free, owner, worker, lease, ariaHeld, unheard>>

\* The epoch and the registration are checked before the worker gets in line.
ResumerChecks(id) ==
  /\ resumer[id] = "check"
  /\ SetResumer(id, IF row[id] = "resuming" THEN "enable" ELSE "idle")
  /\ UNCHANGED <<bell, dispatcher, pending, free, owner, row, worker, lease, ariaHeld, unheard>>

ResumerEnables(id) ==
  /\ resumer[id] = "enable"
  /\ bell' = Enable(bell, id)
  /\ SetResumer(id, "inspect")
  /\ UNCHANGED <<dispatcher, pending, free, owner, row, worker, lease, ariaHeld, unheard>>

Reservable(id) == owner[id] = "none" /\ RoomIn(QueueOf[id]) /\ HasPermit

\* try_reserve_queue_slot
ResumerInspects(id) ==
  /\ resumer[id] = "inspect"
  /\ \/ /\ Reservable(id)
        /\ owner' = [owner EXCEPT ![id] = "reserved"]
        /\ free' = free - 1
        /\ bell' = Forget(bell, id)
        /\ SetResumer(id, "granted")
     \/ /\ ~Reservable(id)
        /\ SetResumer(id, "asleep")
        /\ UNCHANGED <<bell, free, owner>>
  /\ UNCHANGED <<dispatcher, pending, row, worker, lease, ariaHeld, unheard>>

ResumerWakes(id) ==
  /\ resumer[id] = "asleep"
  /\ bell.sent[id] # "none"
  /\ bell' = Receive(bell, id)
  /\ SetResumer(id, "check")
  /\ unheard' = unheard \ {id}
  /\ UNCHANGED <<dispatcher, pending, free, owner, row, worker, lease, ariaHeld>>

\* park_aria2_permit_if_missing_for_queue
ResumerParks(id) ==
  /\ resumer[id] = "granted"
  /\ row[id] = "resuming"
  /\ owner' = [owner EXCEPT ![id] = "active"]
  /\ row' = [row EXCEPT ![id] = "running"]
  /\ SetResumer(id, "idle")
  /\ UNCHANGED <<bell, dispatcher, pending, free, worker, lease, ariaHeld, unheard>>

\* release_aria2_permit_candidate after a pause: only a reservation that is still there
\* rings, and it rings before the permit is back.
ResumerGivesUp(id) ==
  /\ resumer[id] = "granted"
  /\ row[id] # "resuming"
  /\ owner' = [owner EXCEPT ![id] = "none"]
  /\ bell' = IF owner[id] = "reserved" THEN NotifyAll(bell) ELSE bell
  /\ SetResumer(id, "dropping")
  /\ UNCHANGED <<dispatcher, pending, free, row, worker, lease, ariaHeld, unheard>>

ResumerDrops(id) ==
  /\ resumer[id] = "dropping"
  /\ free' = free + 1
  /\ SetResumer(id, "idle")
  /\ unheard' = unheard \cup Asleep
  /\ UNCHANGED <<bell, dispatcher, pending, owner, row, worker, lease, ariaHeld>>

ResumerStep(id) ==
  \/ ResumerChecks(id) \/ ResumerEnables(id) \/ ResumerInspects(id)
  \/ ResumerWakes(id) \/ ResumerParks(id)
  \/ ResumerGivesUp(id) \/ ResumerDrops(id)

-----------------------------------------------------------------------------
(* Holds.                                                                  *)

BeginHold(q) ==
  /\ "hold" \in Outages
  /\ lease[q] = "unused"
  /\ lease' = [lease EXCEPT ![q] = "live"]
  /\ UNCHANGED <<bell, dispatcher, pending, free, owner, row, worker, resumer, ariaHeld, unheard>>

\* Time passes; nobody is told.
ExpireLease(q) ==
  /\ lease[q] = "live"
  /\ lease' = [lease EXCEPT ![q] = "expired"]
  /\ UNCHANGED <<bell, dispatcher, pending, free, owner, row, worker, resumer, ariaHeld, unheard>>

\* renew_queue_dispatch_hold: a live lease stays live, a late renewal removes the
\* expired lease and rings nobody.
RenewHold(q) ==
  /\ "renewal" \in Outages
  /\ lease[q] = "expired"
  /\ lease' = [lease EXCEPT ![q] = "ended"]
  /\ unheard' = unheard \cup (Asleep \cap {Dispatcher})
  /\ UNCHANGED <<bell, dispatcher, pending, free, owner, row, worker, resumer, ariaHeld>>

EndHold(q) ==
  /\ lease[q] \in {"live", "expired"}
  /\ lease' = [lease EXCEPT ![q] = "ended"]
  /\ bell' = NotifyOne(bell)
  /\ UNCHANGED <<dispatcher, pending, free, owner, row, worker, resumer, ariaHeld, unheard>>

\* set_aria2_dispatch_hold, when the daemon goes and when it is back
HoldAria2(held) ==
  /\ "daemon" \in Outages
  /\ ariaHeld # held
  /\ ariaHeld' = held
  /\ bell' = NotifyAll(bell)
  /\ UNCHANGED <<dispatcher, pending, free, owner, row, worker, resumer, lease, unheard>>

-----------------------------------------------------------------------------
Next ==
  \/ DispatcherStep
  \/ \E id \in Ids :
       \/ Commit(id) \/ WorkerStep(id) \/ TransferEnds(id)
       \/ PausePending(id) \/ PauseDispatching(id) \/ PauseMapped(id)
       \/ Resume(id) \/ ResumerStep(id)
  \/ \E q \in Queues : BeginHold(q) \/ ExpireLease(q) \/ RenewHold(q) \/ EndHold(q)
  \/ \E held \in BOOLEAN : HoldAria2(held)

\* The dispatcher and the workers are tasks that the runtime keeps polling, and time
\* passes.  A transfer may run forever, a daemon may stay away, and no command is due.
Fairness ==
  /\ WF_vars(DispatcherStep)
  /\ \A id \in Ids : WF_vars(WorkerStep(id)) /\ WF_vars(ResumerStep(id))
  /\ \A q \in Queues : WF_vars(ExpireLease(q))

Spec == Init /\ [][Next]_vars /\ Fairness

-----------------------------------------------------------------------------
(* Properties.                                                             *)

\* A pause takes a reservation from the map while a worker still holds the permit, and
\* the worker returns the permit later: over both, every slot is in the semaphore, with
\* one worker or parked, once, and no queue holds more slots than its limit.  The states counted
\* are those that the variables may have.
SlotsAreAccounted ==
  /\ TypeOK
  /\ free + Cardinality({id \in Ids : worker[id] = "inHand"})
          + Cardinality({id \in Ids : resumer[id] \in {"granted", "dropping"}})
          + Cardinality({id \in Ids : owner[id] = "active"}) = Slots
  /\ \A id \in Ids : owner[id] = "reserved" => worker[id] = "inHand" \/ resumer[id] = "granted"
  /\ \A q \in Queues : Cardinality(OwnedIn(q)) <= Limits[q]

\* The comment in run_dispatcher: the future is created before the inspection "to close
\* the lost-wake window".  A task for which there is a free permit and room in its
\* queue does not stay in the pending list while the dispatcher sleeps: nothing is lost
\* but what the code does not announce (WorkerDrops, ResumerDrops, RenewHold).
EligibleTaskIsAdmitted ==
  \A id \in Ids : Admissible(id) ~> ~Admissible(id) \/ Dispatcher \in unheard

\* A resume worker for which there is a free permit and room in its queue is not left
\* asleep either, though it shares the bell with the dispatcher.
MayResume(id) == resumer[id] \in {"enable", "inspect", "asleep"} /\ Reservable(id)
WaitingResumeIsServed ==
  \A id \in Ids : MayResume(id) ~> ~MayResume(id) \/ id \in unheard
=============================================================================
