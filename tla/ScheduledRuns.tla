--------------------------- MODULE ScheduledRuns ---------------------------
(***************************************************************************)
(* The daily download window (scheduler.rs, ack_schedule_trigger and       *)
(* db_save_settings of lib.rs, the schedule-trigger listener of App.tsx).  *)
(* A native loop decides from a cache of the settings, marks a start in    *)
(* the database, and repeats its event until the renderer, which starts    *)
(* and pauses the downloads, acknowledges it.  A start keeps a snapshot of *)
(* when its run must stop; settings saved by the renderer keep the         *)
(* scheduler's keys.                                                       *)
(*                                                                         *)
(* A key is the number of its day, 0 the empty key.  Bounds: Days days of  *)
(* DayLength minutes, and MaxUpsets edits of the schedule, manual pauses,  *)
(* failed pauses or saves and restarts.                                    *)
(* Left out: a disabled scheduler, days that are not selected, Run now,    *)
(* and a restart between a start's first admission and the save of what it *)
(* admitted.                                                               *)
(***************************************************************************)
EXTENDS Naturals, Sequences, SequencesExt

CONSTANTS Downloads, Schedules, Days, DayLength, MaxUpsets

VARIABLES
  now,          \* minutes since the first day began
  schedule,     \* SchedulerSettings: minutes of the start and the stop
  document,       \* the scheduler's keys in the settings document
  cached,       \* and in scheduler_settings
  hydrated,     \* the keys the renderer read when it started
  native,       \* what the native loop is about to do
  local,        \* its triggered_start_key
  inbox,        \* events that wait in scheduleTriggerQueue
  handler,      \* the event the renderer handles
  activeRun, latestRun,
  by,           \* who runs each download
  tracked, trackedStored,       \* schedulerActiveDownloadIds
  until,        \* when the present run must end
  upsets

svars == <<now, schedule, document, cached, hydrated, native, local, inbox, handler, activeRun,
           latestRun, by, tracked, trackedStored, until, upsets>>
settings == <<schedule, document, cached, hydrated>>
loop == <<native, local>>
renderer == <<inbox, handler, activeRun, latestRun>>
work == <<by, tracked, trackedStored, until>>

Never == DayLength                  \* the stop time is not enabled
Keys == 0 .. Days + 1
Times == 0 .. Days * DayLength
Forever == (Days + 2) * DayLength
Snapshots == [start : Keys, stop : Keys, at : 0 .. Never]
NoRun == [start |-> 0, stop |-> 0, at |-> 0]
KeyRecords == [start : Keys, triggered : Keys, stop : Keys, snapshot : Snapshots]
Events == [action : {"start", "stop"}, key : Keys, run : Keys]
NoEvent == [action |-> "stop", key |-> 0, run |-> 0]
Idle == [stage |-> "idle", event |-> NoEvent, ids |-> {}, superseded |-> FALSE]
Resting == [pc |-> "idle", event |-> NoEvent, snapshot |-> NoRun]

\* Every variable keeps its type.
TypeOK ==
  /\ now \in Times /\ schedule \in Schedules
  /\ document \in KeyRecords /\ cached \in KeyRecords /\ hydrated \in KeyRecords
  /\ native \in [pc : {"idle", "mark", "publish"}, event : Events, snapshot : Snapshots]
  /\ local \in Keys
  /\ inbox \in Seq(Events)
  /\ handler \in [stage : {"idle", "starting", "tracking", "pausing", "resolving", "ack", "acked"},
                  event : Events, ids : SUBSET Downloads, superseded : BOOLEAN]
  /\ activeRun \in Keys /\ latestRun \in Keys
  /\ by \in [Downloads -> {"idle", "run", "user"}]
  /\ tracked \subseteq Downloads /\ trackedStored \subseteq Downloads
  /\ until \in 0 .. Forever
  /\ upsets \in 0 .. MaxUpsets

NoKeys == [start |-> 0, triggered |-> 0, stop |-> 0, snapshot |-> NoRun]

Init ==
  /\ now = 0 /\ schedule \in Schedules
  /\ document = NoKeys /\ cached = NoKeys /\ hydrated = NoKeys
  /\ native = Resting /\ local = 0
  /\ inbox = <<>> /\ handler = Idle
  /\ activeRun = 0 /\ latestRun = 0
  /\ by = [d \in Downloads |-> "idle"] /\ tracked = {} /\ trackedStored = {}
  /\ until = Forever
  /\ upsets = 0

Upset == upsets < MaxUpsets /\ upsets' = upsets + 1

-----------------------------------------------------------------------------
(* What the loop finds due in the cache                                    *)

Day == now \div DayLength + 1
Minute == now % DayLength
Overnight(s) == s.stop < s.start

\* scheduler_run_snapshot
SnapshotOf(day, s) ==
  IF s.stop = Never THEN [start |-> day, stop |-> 0, at |-> 0]
  ELSE [start |-> day, stop |-> IF Overnight(s) THEN day + 1 ELSE day, at |-> s.stop]
EndOf(snapshot) ==
  IF snapshot.stop = 0 THEN Forever ELSE (snapshot.stop - 1) * DayLength + snapshot.at

\* snapshot_belongs_to_active_scheduler_run
RunIsActive ==
  cached.snapshot # NoRun /\ cached.snapshot.start \in {cached.start, cached.triggered, local}
RunStopPending ==
  RunIsActive /\ cached.snapshot.stop # 0 /\ cached.stop # cached.snapshot.stop

\* Without a snapshot the stop is the one of today's schedule.
Triggered(day) == day > 0 /\ day \in {cached.start, cached.triggered, local}
SameDayStopDue ==
  /\ ~Overnight(schedule) /\ schedule.stop # Never /\ Minute >= schedule.stop
  /\ Triggered(Day) /\ cached.stop # Day
OvernightStopDue ==
  /\ Overnight(schedule) /\ Minute >= schedule.stop /\ Minute < schedule.start
  /\ Triggered(Day - 1) /\ cached.stop # Day
StopDue ==
  IF RunIsActive THEN RunStopPending /\ now >= EndOf(cached.snapshot)
  ELSE SameDayStopDue \/ OvernightStopDue
DueStop ==
  IF RunIsActive
  THEN [action |-> "stop", key |-> cached.snapshot.stop, run |-> cached.snapshot.start]
  ELSE [action |-> "stop", key |-> Day, run |-> IF OvernightStopDue THEN Day - 1 ELSE Day]
StartDue ==
  /\ Minute >= schedule.start /\ (Overnight(schedule) \/ Minute < schedule.stop)
  /\ cached.start # Day
  /\ ~StopDue /\ ~RunStopPending
DueStart == [action |-> "start", key |-> Day, run |-> Day]

-----------------------------------------------------------------------------
(* The native loop                                                         *)

\* emit; the listener drops an event it already has.
Publish(event) ==
  inbox' = IF Contains(inbox, event) \/ (handler.stage # "idle" /\ handler.event = event)
           THEN inbox ELSE Append(inbox, event)

Decide ==
  /\ native.pc = "idle" /\ (StopDue \/ StartDue)
  /\ LET event == IF StopDue THEN DueStop ELSE DueStart
         marks == /\ event.action = "start"
                  /\ \/ cached.triggered # event.key /\ local # event.key
                     \/ cached.snapshot.start # event.key
     IN  native' = [pc |-> IF marks THEN "mark" ELSE "publish", event |-> event,
                    snapshot |-> IF marks THEN SnapshotOf(Day, schedule) ELSE NoRun]
  /\ UNCHANGED <<now, settings, local, renderer, work, upsets>>

\* persist_scheduler_start_trigger, the database first
Mark ==
  /\ native.pc = "mark"
  /\ document' = [document EXCEPT !.triggered = native.event.key, !.snapshot = native.snapshot]
  /\ native' = [native EXCEPT !.pc = "publish"]
  /\ UNCHANGED <<now, schedule, cached, hydrated, local, renderer, work, upsets>>

Emit ==
  /\ native.pc = "publish"
  /\ cached' = IF native.snapshot = NoRun THEN cached
               ELSE [cached EXCEPT !.triggered = native.event.key, !.snapshot = native.snapshot]
  /\ local' = IF native.event.action = "start" THEN native.event.key ELSE local
  /\ Publish(native.event)
  /\ native' = Resting
  /\ UNCHANGED <<now, schedule, document, hydrated, handler, activeRun, latestRun, work, upsets>>

-----------------------------------------------------------------------------
(* Settings                                                                *)

Overwritten == hydrated             \* mutant: the renderer's own copy of the keys is saved
\* preserve_scheduler_runtime_keys
Preserved == document

\* db_save_settings: the cache becomes what was saved.
Save(ids) ==
  /\ document' = Preserved /\ cached' = Preserved
  /\ trackedStored' = ids

Edit ==
  /\ Upset
  /\ schedule' \in Schedules \ {schedule}
  /\ Save(tracked)
  /\ UNCHANGED <<now, hydrated, loop, renderer, by, tracked, until>>

-----------------------------------------------------------------------------
(* The listener: one event after the other                                 *)

Running == {d \in Downloads : by[d] # "idle"}

\* shouldApplySchedulerTriggerToRun
Applies(event) ==
  IF event.action = "stop" THEN event.run = activeRun
  ELSE \/ activeRun = event.run
       \/ activeRun # 0 /\ event.run > activeRun
       \/ activeRun = 0 /\ event.run > latestRun

Take ==
  /\ handler.stage = "idle" /\ inbox # <<>>
  /\ LET event == Head(inbox) IN
     /\ inbox' = Tail(inbox)
     /\ handler' = [Idle EXCEPT !.event = event,
          !.stage = IF ~Applies(event) THEN "ack"
                    ELSE IF event.action = "start" THEN "starting" ELSE "pausing"]
     /\ IF Applies(event) /\ event.action = "start"
        THEN activeRun' = event.run /\ latestRun' = event.run
        ELSE UNCHANGED <<activeRun, latestRun>>
  /\ UNCHANGED <<now, settings, loop, work, upsets>>

\* A day has one stop: a run that would end on a day whose stop is acknowledged has no end.
StopSpent(snapshot) == snapshot.stop # 0 /\ document.stop = snapshot.stop

\* startQueue: some downloads are admitted.
StartQueues ==
  /\ handler.stage = "starting"
  /\ \E ids \in SUBSET (Downloads \ Running) :
       /\ by' = [d \in Downloads |-> IF d \in ids THEN "run" ELSE by[d]]
       /\ until' = IF ids = {} THEN until
                   ELSE IF StopSpent(document.snapshot) THEN Forever
                   ELSE EndOf(document.snapshot)
       /\ handler' = [handler EXCEPT !.stage = "tracking", !.ids = ids]
  /\ UNCHANGED <<now, settings, loop, inbox, activeRun, latestRun, tracked, trackedStored, upsets>>

\* A failed write ends the handler without an acknowledgement.
SaveOrFail(ids, stage) ==
  \/ /\ Save(ids)
     /\ handler' = IF stage = "idle" THEN Idle ELSE [handler EXCEPT !.stage = stage]
     /\ UNCHANGED upsets
  \/ /\ Upset
     /\ handler' = Idle
     /\ UNCHANGED <<document, cached, trackedStored>>

\* Tracking holds what was admitted and what was tracked and still runs; a start that lost
\* control pauses what it admitted.
Track ==
  /\ handler.stage = "tracking"
  /\ LET ids == handler.ids \cup (tracked \cap Running) IN
     IF handler.superseded
     THEN /\ by' = [d \in Downloads |-> IF d \in handler.ids THEN "idle" ELSE by[d]]
          /\ SaveOrFail(tracked, "ack")
          /\ UNCHANGED tracked
     ELSE tracked' = ids /\ SaveOrFail(ids, "ack") /\ UNCHANGED by
  /\ UNCHANGED <<now, schedule, hydrated, loop, inbox, activeRun, latestRun, until>>

\* pauseDownload of every tracked download; one may fail.
PauseTracked ==
  /\ handler.stage = "pausing"
  /\ \E failed \in SUBSET (tracked \cap Running) :
       /\ IF failed = {} THEN UNCHANGED upsets ELSE Upset
       /\ by' = [d \in Downloads |-> IF d \in tracked \ failed THEN "idle" ELSE by[d]]
       /\ handler' = [handler EXCEPT !.stage = "resolving", !.ids = failed]
  /\ UNCHANGED <<now, settings, loop, inbox, activeRun, latestRun, tracked, trackedStored, until>>

Regardless(left) == TRUE            \* mutant: a stop is acknowledged whatever still runs
\* resolveSchedulerStopOutcome
Acknowledges(left) == left = {}

ResolveStop ==
  /\ handler.stage = "resolving"
  /\ LET left == handler.ids \cup (tracked \cap Running) IN
     IF handler.superseded
     THEN SaveOrFail(tracked, "ack") /\ UNCHANGED tracked
     ELSE /\ tracked' = left
          /\ SaveOrFail(left, IF Acknowledges(left) THEN "ack" ELSE "idle")
  /\ UNCHANGED <<now, schedule, hydrated, loop, inbox, activeRun, latestRun, by, until>>

-----------------------------------------------------------------------------
(* ack_schedule_trigger                                                    *)

\* scheduler_trigger_matches_state
Matches(keys, e) ==
  IF e.action = "start" THEN keys.triggered = e.run
  ELSE IF keys.snapshot # NoRun THEN keys.snapshot.start = e.run /\ keys.snapshot.stop = e.key
  ELSE keys.start = e.run /\ keys.stop # e.key

Acked(keys, e) ==
  IF e.action = "start" THEN [keys EXCEPT !.start = e.key, !.triggered = 0]
  ELSE [keys EXCEPT !.stop = e.key, !.snapshot = NoRun,
                    !.triggered = IF @ = e.run THEN 0 ELSE @]

\* Beside it, handler.superseded says that the document refused the acknowledgement.
Ack ==
  /\ handler.stage = "ack"
  /\ LET matched == Matches(document, handler.event) IN
     /\ document' = IF matched THEN Acked(document, handler.event) ELSE document
     /\ handler' = [handler EXCEPT !.stage = "acked", !.superseded = ~matched]
  /\ UNCHANGED <<now, schedule, cached, hydrated, loop, inbox, activeRun, latestRun, work, upsets>>

\* The cache follows, if the database took the acknowledgement and the cache still matches.
AckCached ==
  /\ handler.stage = "acked"
  /\ cached' = IF ~handler.superseded /\ Matches(cached, handler.event)
               THEN Acked(cached, handler.event) ELSE cached
  /\ activeRun' = IF handler.event.action = "stop" /\ activeRun = handler.event.run
                  THEN 0 ELSE activeRun
  /\ handler' = Idle
  /\ UNCHANGED <<now, schedule, document, hydrated, loop, inbox, latestRun, work, upsets>>

-----------------------------------------------------------------------------
(* The user, the clock, a restart                                          *)

UserStarts(d) ==
  /\ by[d] = "idle"
  /\ by' = [by EXCEPT ![d] = "user"]
  /\ UNCHANGED <<now, settings, loop, renderer, tracked, trackedStored, until, upsets>>

\* Completed, failed, or paused by the user
Ends(d) ==
  /\ by[d] # "idle"
  /\ by' = [by EXCEPT ![d] = "idle"]
  /\ UNCHANGED <<now, settings, loop, renderer, tracked, trackedStored, until, upsets>>

\* pauseNow of SchedulerView: what could not be paused is the user's from now on.
PauseNow ==
  /\ Upset
  /\ \E left \in SUBSET Running :
       /\ by' = [d \in Downloads |-> IF d \in left THEN "user" ELSE "idle"]
       /\ tracked' = tracked \cap left
       /\ Save(tracked \cap left)
  /\ handler' = IF handler.stage \in {"starting", "tracking", "pausing", "resolving"}
                THEN [handler EXCEPT !.superseded = TRUE] ELSE handler
  /\ UNCHANGED <<now, schedule, hydrated, loop, inbox, activeRun, latestRun, until>>

Tick ==
  /\ now < Days * DayLength /\ now' = now + 1
  /\ UNCHANGED <<settings, loop, renderer, work, upsets>>

\* Rows that ran are resumed when the application starts again.
Restart ==
  /\ Upset
  /\ handler.stage # "tracking" /\ tracked = trackedStored
  /\ cached' = document /\ hydrated' = document
  /\ native' = Resting /\ local' = 0
  /\ inbox' = <<>> /\ handler' = Idle
  /\ activeRun' = IF document.triggered # 0 THEN document.triggered ELSE document.start
  /\ latestRun' = activeRun'
  /\ UNCHANGED <<now, schedule, document, work>>

-----------------------------------------------------------------------------

Next ==
  \/ Decide \/ Mark \/ Emit
  \/ Take \/ StartQueues \/ Track \/ PauseTracked \/ ResolveStop \/ Ack \/ AckCached
  \/ \E d \in Downloads : UserStarts(d) \/ Ends(d)
  \/ Edit \/ PauseNow \/ Tick \/ Restart

Spec == Init /\ [][Next]_svars

-----------------------------------------------------------------------------
(* Property                                                                *)

\* "The renderer acknowledgement remains the durable completion record": once the loop finds
\* nothing to stop and the listener has nothing left to do, no download that a scheduled run
\* started still runs past the end of its window, whatever was acknowledged, saved, edited,
\* paused by hand, failed or restarted on the way.  (The exception is the run that begins
\* when the one stop of the day it ends on is already acknowledged.)
WindowIsEnforced ==
  native.pc = "idle" /\ inbox = <<>> /\ handler = Idle /\ ~StopDue =>
    \A d \in Downloads : by[d] = "run" => now < until
=============================================================================
