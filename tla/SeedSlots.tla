------------------------------ MODULE SeedSlots ------------------------------
(***************************************************************************)
(* The seed capacity of the queue manager (src-tauri/src/queue.rs): a      *)
(* torrent that has its payload gives its download permit back and takes a *)
(* seed slot, or is paused until one is free.  Owners, waiters and         *)
(* starting seeds are three sets that the dispatcher, its seed workers,    *)
(* pause_download, resume_download, removals, completions and every save   *)
(* of the settings change, each in its own way.                            *)
(*                                                                         *)
(* The control lock of a torrent is held over the daemon's answers         *)
(* (locked); the dispatcher, the settings and the wait for a permit do not *)
(* need it.  Left out: queue limits, which DownloadQueue has, lost         *)
(* wake-ups, which DispatchWake has, and the seed time.  Bounds: Workers   *)
(* at a time, MaxCommands commands, MaxSaves saves of the settings,        *)
(* MaxFences exits or system actions, MaxDoubts answers that say nothing.  *)
(***************************************************************************)
EXTENDS Naturals, Sequences, FiniteSets

CONSTANTS Torrents, Slots, MaxSeeds, Workers, MaxCommands, MaxSaves, MaxFences, MaxDoubts

VARIABLES
  daemon,       \* what aria2 does with each torrent
  full,         \* torrents that have their payload
  live,         \* registered lifecycles
  seedRow,      \* the status the renderer was told
  control,      \* control epochs
  bound,        \* torrents whose GID is mapped to the current epoch
  retired,      \* aria2_retry_cancelled
  removing,     \* torrents with a durable removal job
  locked,       \* control locks held over an answer of the daemon
  admitting,    \* who holds it for admit_seed_after_completion, and where
  owners, queue, starting,   \* SeedCapacityState
  separate,     \* enabled: seeds have a capacity of their own
  budgets,      \* seed_budgets
  reserved, parked,  \* queue_permit_ownership that is not active, active_permits
  kinds,        \* active_kinds
  seeder,       \* resume_waiting_seed and resume_download workers
  fence,        \* the handoff gate and system_action_pending
  slipped,      \* history: whom a late or second worker took or gave up, still waiting or not
  miscounted,   \* history: owners by a save of the settings, not by seeding
  pooled,       \* history: the capacity has not always been separate
  commands, saves, fences, doubts

svars == <<daemon, full, live, seedRow, control, bound, retired, removing, locked, admitting,
           owners, queue, starting, separate, budgets, reserved, parked, kinds, seeder, fence,
           slipped, miscounted, pooled, commands, saves, fences, doubts>>
capacity == <<owners, queue, starting>>
permits == <<reserved, parked, kinds>>
lifecycle == <<live, control, bound, retired, removing>>
bounds == <<commands, saves, fences, doubts>>
config == <<separate, fence, pooled>>

NoWorker == [of |-> "nobody", at |-> "idle"]
Steps == {"begin", "queueing", "refused", "held", "park", "unpause", "retry"}
Jobs == [of : {"seed", "resume"}, at : Steps, torrent : Torrents, epoch : Nat]
Queued == {queue[i] : i \in DOMAIN queue}

\* Every variable keeps its type.
TypeOK ==
  /\ daemon \in [Torrents -> {"none", "active", "paused", "complete", "gone"}]
  /\ seedRow \in [Torrents -> {"queued", "downloading", "seeding", "waiting", "paused",
                               "completed", "removed"}]
  /\ control \in [Torrents -> Nat]
  /\ admitting \in [Torrents -> {"no", "pausing", "joining"}]
  /\ \A s \in {full, live, bound, retired, removing, locked, owners, starting, budgets,
               reserved, parked, kinds, slipped, miscounted} : s \subseteq Torrents
  /\ queue \in Seq(Torrents) /\ Len(queue) = Cardinality(Queued)
  /\ seeder \in [Workers -> Jobs \cup {NoWorker}]
  /\ separate \in BOOLEAN /\ pooled \in BOOLEAN
  /\ fence \in {"open", "closed", "system"}
  /\ commands \in 0 .. MaxCommands /\ saves \in 0 .. MaxSaves
  /\ fences \in 0 .. MaxFences /\ doubts \in 0 .. MaxDoubts

Init ==
  /\ daemon = [t \in Torrents |-> "none"] /\ seedRow = [t \in Torrents |-> "queued"]
  /\ control = [t \in Torrents |-> 0] /\ admitting = [t \in Torrents |-> "no"]
  /\ full = {} /\ live = Torrents /\ bound = {} /\ retired = {} /\ removing = {}
  /\ locked = {} /\ owners = {} /\ queue = <<>> /\ starting = {} /\ budgets = {}
  /\ reserved = {} /\ parked = {} /\ kinds = {}
  /\ seeder = [w \in Workers |-> NoWorker]
  /\ separate = TRUE /\ pooled = FALSE /\ fence = "open"
  /\ slipped = {} /\ miscounted = {}
  /\ commands = 0 /\ saves = 0 /\ fences = 0 /\ doubts = 0

-----------------------------------------------------------------------------
Seeding(t) == daemon[t] = "active" /\ t \in full
Mapped(t) == daemon[t] \notin {"none", "gone"}
SeedWaiting(t) == t \in Queued \cup starting
\* A permit is in the semaphore, parked, or in the hands of a worker.
Candidates == {w \in Workers : seeder[w].at \in {"held", "park"}}
FreeSlots == Slots - Cardinality(parked) - Cardinality(Candidates)
Doubt == doubts < MaxDoubts /\ doubts' = doubts + 1
Idle == {w \in Workers : seeder[w] = NoWorker}
FirstIdle == CHOOSE w \in Idle : \A v \in Idle : w <= v

Show(t, status) == seedRow' = [seedRow EXCEPT ![t] = status]
Daemon(t, state) == daemon' = [daemon EXCEPT ![t] = state]
NextEpoch(t) == control' = [control EXCEPT ![t] = @ + 1]
Go(w, step) == seeder' = [seeder EXCEPT ![w].at = step]
End(w) == seeder' = [seeder EXCEPT ![w] = NoWorker]
Spawn(kind, t, step, epoch) ==
  /\ Idle # {}
  /\ seeder' = [seeder EXCEPT ![FirstIdle] =
       [of |-> kind, at |-> step, torrent |-> t, epoch |-> epoch]]

Carriers(t) == {w \in Workers : seeder[w].of = "seed" /\ seeder[w].torrent = t}

Without(t) == SelectSeq(queue, LAMBDA u : u # t)

\* release_seed_tracking
ReleaseTracking(t) ==
  /\ owners' = owners \ {t} /\ starting' = starting \ {t} /\ queue' = Without(t)
  /\ budgets' = budgets \ {t} /\ miscounted' = miscounted \ {t}
\* ... of a torrent that stops, which ends what its workers have mixed up
StopTracking(t) ==
  /\ ReleaseTracking(t)
  /\ slipped' = IF Cardinality(Carriers(t)) > 1 THEN slipped ELSE slipped \ {t}
KeepTracking == UNCHANGED <<owners, starting, queue, budgets, slipped, miscounted>>

\* release_permit
ReleasePermit(t) ==
  reserved' = reserved \ {t} /\ parked' = parked \ {t} /\ kinds' = kinds \ {t}

\* release_download_permit_for_seed: the kind of the task stays.
ReleaseForSeed(t) ==
  reserved' = reserved \ {t} /\ parked' = parked \ {t} /\ UNCHANGED kinds

\* mutant: add_seed_waiter before abandon_seed_start
JoinBefore(t) ==
  queue' = IF t \in owners \cup starting \cup Queued THEN queue ELSE Append(queue, t)
\* add_seed_waiter, after owners and starting have their new values
JoinAfter(t) ==
  queue' = IF t \in owners' \cup starting' \cup Queued THEN queue ELSE Append(queue, t)

\* abandon_seed_start
Abandon(t) == owners' = owners \ {t} /\ starting' = starting \ {t}

\* apply_completion_locked_with_progress of a finished transfer
Complete(t) ==
  /\ NextEpoch(t)
  /\ Daemon(t, "gone") /\ Show(t, "completed")
  /\ live' = live \ {t} /\ bound' = bound \ {t} /\ retired' = retired \ {t}
  /\ StopTracking(t) /\ ReleasePermit(t)
  /\ UNCHANGED <<full, removing>>

-----------------------------------------------------------------------------
(* The daemon, the gate and the settings                                   *)

\* A dispatch takes a permit and adds the torrent.
Download(t) ==
  /\ daemon[t] = "none" /\ t \notin removing /\ fence = "open" /\ FreeSlots > 0
  /\ Daemon(t, "active") /\ Show(t, "downloading")
  /\ bound' = bound \cup {t} /\ parked' = parked \cup {t} /\ kinds' = kinds \cup {t}
  /\ UNCHANGED <<full, live, control, retired, removing, locked, admitting, reserved, seeder,
                 bounds, config>>
  /\ KeepTracking

FinishPayload(t) ==
  /\ daemon[t] = "active" /\ t \notin full
  /\ full' = full \cup {t}
  /\ UNCHANGED <<daemon, seedRow, lifecycle, locked, admitting, permits, seeder, bounds, config>>
  /\ KeepTracking

\* The seed time or ratio is reached.
FinishSeeding(t) ==
  /\ Seeding(t)
  /\ Daemon(t, "complete")
  /\ UNCHANGED <<full, seedRow, lifecycle, locked, admitting, permits, seeder, bounds, config>>
  /\ KeepTracking

\* An exit closes the handoff gate and may be rejected; a system action may be refused.
MoveFence ==
  /\ IF fence = "open"
     THEN fences < MaxFences /\ fences' = fences + 1 /\ fence' \in {"closed", "system"}
     ELSE fence' = "open" /\ UNCHANGED fences
  /\ UNCHANGED <<daemon, full, seedRow, lifecycle, locked, admitting, permits, seeder,
                 separate, pooled, commands, saves, doubts>>
  /\ KeepTracking

\* configure_seed_capacity counts everybody who has a budget, those who wait included.
Counted == owners \cup budgets

\* db_save_settings, whatever setting it is for
SaveSettings ==
  /\ saves < MaxSaves
  /\ saves' = saves + 1
  /\ separate' \in BOOLEAN
  /\ pooled' = (pooled \/ ~separate')
  /\ owners' = IF separate' THEN Counted ELSE owners
  /\ miscounted' = miscounted \cup {t \in owners' \ owners : ~Seeding(t) \/ t \in locked}
  /\ UNCHANGED <<daemon, full, seedRow, lifecycle, locked, admitting, permits, seeder, fence,
                 commands, fences, doubts, starting, queue, budgets, slipped>>

-----------------------------------------------------------------------------
(* admit_seed_after_completion, under the control lock                     *)

Free(t) == t \notin locked
Hears(t) == t \in bound \cap live /\ Free(t)

\* reserve_seed_slot, or the pause that the wait for a slot begins with
HearSeeding(t) ==
  /\ Hears(t) /\ Seeding(t)
  /\ CASE ~separate ->
            /\ budgets' = budgets \cup {t} /\ Show(t, "seeding")
            /\ UNCHANGED <<owners, permits, locked, admitting>>
       [] separate /\ t \in owners ->
            Show(t, "seeding") /\ UNCHANGED <<owners, budgets, permits, locked, admitting>>
       [] separate /\ t \notin owners /\ SeedWaiting(t) ->
            Show(t, "waiting") /\ UNCHANGED <<owners, budgets, permits, locked, admitting>>
       [] separate /\ t \notin owners /\ ~SeedWaiting(t) /\ Cardinality(owners) < MaxSeeds ->
            /\ owners' = owners \cup {t} /\ ReleaseForSeed(t)
            /\ budgets' = budgets \cup {t} /\ Show(t, "seeding")
            /\ UNCHANGED <<locked, admitting>>
       [] OTHER ->
            /\ locked' = locked \cup {t}
            /\ admitting' = [admitting EXCEPT ![t] = "pausing"]
            /\ UNCHANGED <<owners, budgets, permits, seedRow>>
  /\ UNCHANGED <<daemon, full, lifecycle, seeder, bounds, config, starting, queue, slipped,
                 miscounted>>

Unlock(t) == locked' = locked \ {t} /\ admitting' = [admitting EXCEPT ![t] = "no"]

\* pause_for_seed answers: paused, complete, or nothing that can be relied on, which
\* counts the torrent even if that is one too many and keeps the permit.
PauseAnswered(t) ==
  /\ admitting[t] = "pausing"
  /\ \/ /\ daemon[t] = "active"
        /\ Daemon(t, "paused")
        /\ budgets' = budgets \cup {t}
        /\ ReleaseForSeed(t)
        /\ admitting' = [admitting EXCEPT ![t] = "joining"]
        /\ UNCHANGED <<full, seedRow, lifecycle, locked, doubts, owners, starting, queue,
                       slipped, miscounted>>
     \/ /\ daemon[t] = "complete"
        /\ Complete(t) /\ Unlock(t)
        /\ UNCHANGED doubts
     \/ /\ Doubt
        /\ daemon[t] = "active" /\ \E state \in {"active", "paused"} : Daemon(t, state)
        /\ owners' = owners \cup {t} /\ budgets' = budgets \cup {t}
        /\ Show(t, "seeding") /\ Unlock(t)
        /\ UNCHANGED <<full, lifecycle, permits, starting, queue, slipped, miscounted>>
  /\ UNCHANGED <<seeder, commands, saves, fences, config>>

\* The waiter is added when its permit is back.
Join(t) ==
  /\ admitting[t] = "joining"
  /\ UNCHANGED <<owners, starting>> /\ JoinAfter(t)
  /\ Show(t, "waiting") /\ Unlock(t)
  /\ UNCHANGED <<daemon, full, lifecycle, permits, seeder, bounds, config, budgets, slipped,
                 miscounted>>

\* The completion event of a transfer that has ended.
HearComplete(t) ==
  /\ Hears(t) /\ daemon[t] = "complete"
  /\ Complete(t)
  /\ UNCHANGED <<locked, admitting, seeder, bounds, config>>

-----------------------------------------------------------------------------
(* resume_waiting_seed and the worker of resume_download                   *)

EveryWaiter == TRUE                  \* mutant: the capacity is not asked
HasRoom == separate => Cardinality(owners) < MaxSeeds

\* try_start_waiting_seed
StartSeed ==
  /\ fence # "closed" /\ queue # <<>> /\ HasRoom
  /\ LET t == Head(queue) IN
       /\ owners' = owners \cup {t} /\ starting' = starting \cup {t} /\ queue' = Tail(queue)
       /\ Spawn("seed", t, "begin", 0)
  /\ UNCHANGED <<daemon, full, seedRow, lifecycle, locked, admitting, permits, bounds, config,
                 budgets, slipped, miscounted>>

\* A worker that gives up takes the owner entry along, whoever has made it.
GiveUp(t, slips) ==
  /\ Abandon(t)
  /\ slipped' = IF slips THEN slipped \cup {t} ELSE slipped
  /\ IF t \in removing
     THEN queue' = Without(t) /\ budgets' = budgets \ {t} /\ miscounted' = miscounted \ {t}
     ELSE UNCHANGED <<queue, budgets, miscounted>>

StillWaits(t) == t \in live /\ SeedWaiting(t) /\ t \in kinds

\* The lifecycle is checked before the wait for a permit, without the control lock.
BeginSeed(w) ==
  /\ seeder[w].at = "begin"
  /\ LET t == seeder[w].torrent IN
       IF Mapped(t) /\ StillWaits(t)
       THEN /\ seeder' = [seeder EXCEPT ![w].at = "queueing", ![w].epoch = control[t]]
            /\ slipped' = IF t \in starting /\ Carriers(t) = {w} THEN slipped ELSE slipped \cup {t}
            /\ UNCHANGED <<capacity, budgets, miscounted>>
       ELSE End(w) /\ GiveUp(t, t \in owners)
  /\ UNCHANGED <<daemon, full, seedRow, lifecycle, locked, admitting, permits, bounds, config>>

Stale(w) ==
  LET t == seeder[w].torrent IN
    t \notin live \/ t \in retired \/ seeder[w].epoch # control[t]

\* acquire_aria2_permit_candidate_for_queue: a slot and a reservation, or nothing.
Acquire(w) ==
  /\ seeder[w].at = "queueing"
  /\ LET t == seeder[w].torrent IN
       \/ /\ fence = "closed" \/ Stale(w)
          /\ IF seeder[w].of = "seed" THEN Go(w, "refused") ELSE End(w)
          /\ UNCHANGED reserved
       \/ /\ fence = "open" /\ ~Stale(w)
          /\ t \notin reserved \cup parked /\ FreeSlots > 0
          /\ reserved' = reserved \cup {t}
          /\ Go(w, "held")
  /\ UNCHANGED <<daemon, full, seedRow, lifecycle, locked, admitting, parked, kinds, bounds,
                 config>>
  /\ KeepTracking

\* Only an exit that is still on puts the waiter back.
Refused(w) ==
  /\ seeder[w].at = "refused"
  /\ LET t == seeder[w].torrent IN
       IF fence = "closed"
       THEN /\ Free(t)
            /\ IF StillWaits(t) /\ t \notin removing
               THEN /\ Abandon(t) /\ JoinAfter(t)
                    /\ UNCHANGED <<budgets, slipped, miscounted>>
               ELSE GiveUp(t, t \in owners)
       ELSE Abandon(t) /\ UNCHANGED <<queue, budgets, miscounted>>
            /\ slipped' = IF t \in owners THEN slipped \cup {t} ELSE slipped
  /\ End(w)
  /\ UNCHANGED <<daemon, full, seedRow, lifecycle, locked, admitting, permits, bounds, config>>

\* The worker has the lock: the permit goes back, or the GID moves to a new epoch.
Hold(w) ==
  /\ seeder[w].at = "held"
  /\ LET t == seeder[w].torrent
         seed == seeder[w].of = "seed"
         current == Mapped(t) /\ ~Stale(w) /\ t \notin removing /\ (seed => StillWaits(t)) IN
       /\ Free(t)
       /\ CASE seed /\ fence = "closed" ->
                 /\ End(w) /\ reserved' = reserved \ {t}
                 /\ Abandon(t) /\ JoinAfter(t)
                 /\ slipped' = IF t \in starting THEN slipped ELSE slipped \cup {t}
                 /\ UNCHANGED <<budgets, miscounted, control, bound, locked>>
            [] ~(seed /\ fence = "closed") /\ ~current ->
                 /\ End(w)
                 /\ reserved' = reserved \ {t}
                 /\ IF seed THEN GiveUp(t, t \in owners) ELSE KeepTracking
                 /\ UNCHANGED <<control, bound, locked>>
            [] OTHER ->
                 /\ IF seed THEN NextEpoch(t) ELSE UNCHANGED control
                 /\ seeder' = [seeder EXCEPT ![w].at = "park", ![w].epoch = control'[t]]
                 /\ bound' = bound \cup {t}
                 /\ locked' = locked \cup {t}
                 /\ UNCHANGED reserved /\ KeepTracking
  /\ UNCHANGED <<daemon, full, seedRow, live, retired, removing, admitting, parked, kinds,
                 bounds, config>>

\* park_aria2_permit_if_missing_for_queue
Park(w) ==
  /\ seeder[w].at = "park"
  /\ LET t == seeder[w].torrent IN
       IF fence # "open" \/ t \in parked
         THEN /\ End(w) /\ reserved' = reserved \ {t}
              /\ IF seeder[w].of = "seed" THEN GiveUp(t, TRUE) ELSE KeepTracking
              /\ locked' = locked \ {t}
              /\ UNCHANGED <<parked, kinds>>
         ELSE /\ Go(w, "unpause")
              /\ parked' = parked \cup {t} /\ reserved' = reserved \ {t}
              /\ kinds' = kinds \cup {t}
              /\ UNCHANGED locked /\ KeepTracking
  /\ UNCHANGED <<daemon, full, seedRow, lifecycle, admitting, bounds, config>>

\* The permit is released while the torrent still counts as starting.
SeedResumed(t) ==
  /\ Daemon(t, "active") /\ Show(t, "seeding")
  /\ budgets' = budgets \cup {t} /\ ReleaseForSeed(t)
  /\ starting' = starting \ {t}
  /\ UNCHANGED <<owners, queue, slipped, miscounted, full, lifecycle>>

SeedKeptPaused(t) ==
  /\ daemon[t] = "paused"
  /\ ReleaseForSeed(t) /\ Abandon(t) /\ JoinAfter(t) /\ Show(t, "waiting")
  /\ UNCHANGED <<daemon, full, lifecycle, budgets, slipped, miscounted>>

\* resume_for_seed answers; an unverified unpause keeps the slot and the permit.
UnpauseSeed(w) ==
  /\ seeder[w].at = "unpause" /\ seeder[w].of = "seed"
  /\ LET t == seeder[w].torrent IN
       /\ \/ SeedResumed(t) /\ daemon[t] \in {"paused", "active"} /\ End(w) /\ UNCHANGED doubts
          \/ daemon[t] = "complete" /\ Complete(t) /\ End(w) /\ UNCHANGED doubts
          \/ Doubt /\ SeedKeptPaused(t) /\ End(w)
          \/ /\ Doubt
             /\ daemon[t] \in {"paused", "active"}
             /\ \E state \in {"active", daemon[t]} : Daemon(t, state)
             /\ Show(t, "waiting") /\ Go(w, "retry")
             /\ UNCHANGED <<full, lifecycle, permits>> /\ KeepTracking
       /\ locked' = locked \ {t}
  /\ UNCHANGED <<admitting, commands, saves, fences, config>>

\* retry_ambiguous_seed_resume
Retry(w) ==
  /\ seeder[w].at = "retry" /\ fence # "closed"
  /\ LET t == seeder[w].torrent IN
       /\ Free(t)
       /\ IF /\ t \in live \cap starting \cap kinds \cap parked \cap bound
             /\ seeder[w].epoch = control[t]
          THEN Go(w, "unpause") /\ locked' = locked \cup {t}
          ELSE End(w) /\ UNCHANGED locked
  /\ UNCHANGED <<daemon, full, seedRow, lifecycle, admitting, permits, bounds, config>>
  /\ KeepTracking

\* resume_download's worker: active, kept paused, or unverified and the permit kept.
UnpauseDownload(w) ==
  /\ seeder[w].at = "unpause" /\ seeder[w].of = "resume"
  /\ LET t == seeder[w].torrent IN
       /\ \/ /\ Daemon(t, "active") /\ Show(t, "downloading")
             /\ UNCHANGED <<control, bound, retired, permits, doubts>>
          \/ /\ Doubt
             /\ UNCHANGED daemon /\ Show(t, "paused")
             /\ NextEpoch(t) /\ retired' = retired \cup {t} /\ bound' = bound \ {t}
             /\ ReleasePermit(t)
          \/ /\ Doubt
             /\ \E state \in {"active", "paused"} : Daemon(t, state)
             /\ UNCHANGED <<seedRow, control, bound, retired, permits>>
       /\ locked' = locked \ {t}
  /\ End(w)
  /\ UNCHANGED <<full, live, removing, admitting, commands, saves, fences, config>>
  /\ KeepTracking

-----------------------------------------------------------------------------
(* The commands                                                            *)

Commanded(t) == t \in live \ removing /\ Free(t) /\ commands < MaxCommands
                /\ commands' = commands + 1

PauseKeepsSlot(t) == KeepTracking    \* mutant: a paused seed stays counted
Untrack(t) == StopTracking(t)

\* pause_download; a transfer that has ended is completed instead.
Pause(t) ==
  /\ Commanded(t) /\ fence # "closed" /\ Mapped(t)
  /\ \/ /\ daemon[t] = "complete" /\ Complete(t)
     \/ /\ daemon[t] # "complete"
        /\ Daemon(t, "paused") /\ Show(t, "paused")
        /\ NextEpoch(t) /\ retired' = retired \cup {t} /\ bound' = bound \ {t}
        /\ Untrack(t) /\ ReleasePermit(t)
        /\ UNCHANGED <<full, live, removing>>
  /\ UNCHANGED <<locked, admitting, seeder, saves, fences, doubts, config>>

\* resume_download: who waits for a seed slot is only woken, and keeps waiting for it.
\* The menus offer it for these rows, none of which has a permit.
Resume(t) ==
  /\ Commanded(t) /\ fence # "closed"
  /\ daemon[t] = "paused" /\ ~SeedWaiting(t) /\ seedRow[t] \in {"paused", "waiting"}
  /\ NextEpoch(t) /\ retired' = retired \ {t} /\ bound' = bound \ {t}
  /\ Show(t, "queued")
  /\ Spawn("resume", t, "queueing", control'[t])
  /\ UNCHANGED <<daemon, full, live, removing, locked, admitting, permits, saves, fences,
                 doubts, config>>
  /\ KeepTracking

\* request_download_removals
RequestRemoval(t) ==
  /\ Commanded(t)
  /\ removing' = removing \cup {t} /\ retired' = retired \cup {t}
  /\ IF SeedWaiting(t) THEN ReleaseTracking(t) /\ UNCHANGED slipped ELSE KeepTracking
  /\ UNCHANGED <<daemon, full, seedRow, live, control, bound, locked, admitting, permits,
                 seeder, saves, fences, doubts, config>>

\* The removal job stops the transfer, deletes files under the control lock ...
StopForRemoval(t) ==
  /\ t \in removing \cap live /\ Free(t)
  /\ Daemon(t, "gone") /\ NextEpoch(t)
  /\ bound' = bound \ {t} /\ locked' = locked \cup {t}
  /\ ReleasePermit(t) /\ KeepTracking
  /\ UNCHANGED <<full, live, retired, removing, seedRow, admitting, seeder, bounds, config>>

\* ... and retires the lifecycle, whose seed slot comes free.
RetireRemoved(t) ==
  /\ t \in removing \cap live \cap locked /\ daemon[t] = "gone"
  /\ Show(t, "removed")
  /\ live' = live \ {t} /\ retired' = retired \ {t} /\ locked' = locked \ {t}
  /\ StopTracking(t)
  /\ UNCHANGED <<daemon, full, control, bound, removing, admitting, permits, seeder, bounds,
                 config>>

Next ==
  \/ \E t \in Torrents :
       \/ Download(t) \/ FinishPayload(t) \/ FinishSeeding(t)
       \/ HearSeeding(t) \/ PauseAnswered(t) \/ Join(t) \/ HearComplete(t)
       \/ Pause(t) \/ Resume(t) \/ RequestRemoval(t)
       \/ StopForRemoval(t) \/ RetireRemoved(t)
  \/ \E w \in Workers :
       \/ BeginSeed(w) \/ Acquire(w) \/ Refused(w) \/ Hold(w) \/ Park(w)
       \/ UnpauseSeed(w) \/ Retry(w) \/ UnpauseDownload(w)
  \/ StartSeed \/ SaveSettings \/ MoveFence

Spec == Init /\ [][Next]_svars

-----------------------------------------------------------------------------
(* Properties                                                              *)

Carried(t) == Carriers(t) # {}

\* A torrent that seeds has a seed slot or still its download permit, and with a separate
\* capacity no more than MaxSeeds do so on seed slots alone.
SeedsHoldSlots ==
  /\ \A t \in Torrents : Seeding(t) => t \in owners \cup parked \cup slipped
  /\ ~pooled => Cardinality({t \in Torrents : Seeding(t) /\ t \notin parked \cup slipped})
                  <= MaxSeeds

\* Every owner of a slot seeds or is about to: a slot that is given back is given back once
\* and for good, whoever of pause, removal, completion and worker comes first.
SlotsAreUsed ==
  \A t \in owners :
    \/ daemon[t] \in {"active", "complete"}
    \/ t \in parked \cup locked \cup miscounted \cup slipped \/ Carried(t)

\* A torrent that waits for a slot is in the queue, or a worker has taken it from there.
WaitersAreCarried ==
  \A t \in live \ removing :
    seedRow[t] = "waiting" =>
      t \in Queued \cup slipped \cup miscounted \/ Carried(t)

\* WaitingToSeed is "paused while waiting for a Firelink-owned seeding slot": the slots
\* that torrents wait for are not all held by those who wait.
SomebodySeeds ==
  separate /\ queue # <<>> => ~(owners \subseteq Queued /\ Cardinality(owners) >= MaxSeeds)
=============================================================================
