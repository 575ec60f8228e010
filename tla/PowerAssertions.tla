---------------------------- MODULE PowerAssertions ----------------------------
(***************************************************************************)
(* The assertions that keep the computer awake while downloads are active  *)
(* (power.rs), from the permits of the queue they follow: the count that   *)
(* the tasks of the queue store, the preferences that the main thread      *)
(* stores, and the worker thread that alone owns the assertions.           *)
(*                                                                         *)
(* External: the operating system, which grants an assertion or refuses    *)
(* it.  The worker may die, which every caller finds out for itself.       *)
(* Commands of the window run one at a time, on the main thread.  Bounds:  *)
(* MaxShifts permits taken or released, MaxPreferences changes of the      *)
(* preferences, MaxSetbacks refusals, deaths and threads that do not       *)
(* start.                                                                  *)
(***************************************************************************)
EXTENDS Naturals, Sequences, FiniteSets

CONSTANTS Transfers, MaxShifts, MaxPreferences, MaxSetbacks

VARIABLES
  combined,   \* one assertion for both (Windows), or one each
  permits,    \* the downloads that hold a permit
  sync,       \* per download, the report of its permit that is under way
  active,     \* the count of active transfers the worker reads
  enabled,    \* power management has been activated
  wanted,     \* the preferences the worker reads
  choice,     \* those the main thread is storing
  call,       \* per caller, where it is in its request to the worker
  worker,     \* the worker thread
  commands,   \* its inbox
  goal,       \* what the worker read for the command it carries out
  believed,   \* its flags
  held,       \* the assertions the system has
  owed,       \* a request failed since the last one that succeeded
  overtaken,  \* the count was stored by a report that a later one had overtaken
  shifts, preferences, setbacks

wvars == <<combined, permits, sync, active, enabled, wanted, choice, call, worker, commands,
           goal, believed, held, owed, overtaken, shifts, preferences, setbacks>>
report == <<permits, sync, active, overtaken, shifts>>
settings == <<enabled, wanted, choice, preferences>>
assertions == <<goal, believed, held>>

Sleep == [system : BOOLEAN, display : BOOLEAN]
Nothing == [system |-> FALSE, display |-> FALSE]
Callers == Transfers \cup {"main"}
Quiet == [step |-> "none", gate |-> FALSE, read |-> 0, newer |-> {}, beaten |-> FALSE]

\* Every variable keeps its type.
TypeOK ==
  /\ combined \in BOOLEAN /\ permits \subseteq Transfers
  /\ sync \in [Transfers -> [step : {"none", "count", "store"}, gate : BOOLEAN,
                        read : 0 .. Cardinality(Transfers), newer : SUBSET Transfers,
                        beaten : BOOLEAN]]
  /\ active \in 0 .. Cardinality(Transfers) /\ enabled \in BOOLEAN
  /\ wanted \in Sleep /\ choice \in Sleep
  /\ call \in [Callers -> {"none", "second", "ensure", "send", "restart", "closing", "wait"}]
  /\ worker \in {"none", "running", "closing", "dead"} /\ commands \in Seq({"tell", "ask"})
  /\ goal \in [command : {"none", "tell", "ask"}, want : Sleep]
  /\ believed \in Sleep /\ held \in Sleep /\ owed \in BOOLEAN /\ overtaken \in BOOLEAN

Init ==
  /\ combined \in BOOLEAN
  /\ permits = {} /\ sync = [d \in Transfers |-> Quiet] /\ active = 0
  /\ enabled = FALSE /\ wanted = [system |-> TRUE, display |-> FALSE] /\ choice = wanted
  /\ call = [c \in Callers |-> "none"]
  /\ worker = "none" /\ commands = <<>>
  /\ goal = [command |-> "none", want |-> Nothing] /\ believed = Nothing /\ held = Nothing
  /\ owed = FALSE /\ overtaken = FALSE
  /\ shifts = 0 /\ preferences = 0 /\ setbacks = 0

Setback == setbacks < MaxSetbacks /\ setbacks' = setbacks + 1

-----------------------------------------------------------------------------
(* The reports of the queue                                                *)

\* The admission gate, which a task that takes a permit keeps until it has reported.
GateIsFree == \A d \in Transfers : sync[d].gate => sync[d].step = "none" /\ call[d] = "none"

\* A permit is taken with the gate held to the end, ...
Park(d) ==
  /\ d \notin permits /\ sync[d].step = "none" /\ call[d] = "none"
  /\ GateIsFree /\ shifts < MaxShifts
  /\ permits' = permits \cup {d}
  /\ sync' = [sync EXCEPT ![d] = [Quiet EXCEPT !.step = "count", !.gate = TRUE]]
  /\ shifts' = shifts + 1
  /\ UNCHANGED <<combined, active, settings, call, worker, commands, assertions, owed, overtaken,
                 setbacks>>

\* ... but released before its report.
Release(d) ==
  /\ d \in permits /\ sync[d].step = "none" /\ call[d] = "none" /\ GateIsFree /\ shifts < MaxShifts
  /\ permits' = permits \ {d}
  /\ sync' = [sync EXCEPT ![d] = [Quiet EXCEPT !.step = "count"]]
  /\ shifts' = shifts + 1
  /\ UNCHANGED <<combined, active, settings, call, worker, commands, assertions, owed, overtaken,
                 setbacks>>

\* The permits are counted under their lock, ...
Count(d) ==
  /\ sync[d].step = "count"
  /\ sync' = [e \in Transfers |->
       IF e = d THEN [sync[d] EXCEPT !.step = "store", !.read = Cardinality(permits)]
       ELSE IF sync[e].step = "store" THEN [sync[e] EXCEPT !.newer = @ \cup {d}] ELSE sync[e]]
  /\ UNCHANGED <<combined, permits, active, overtaken, shifts, settings, call, worker, commands,
                 assertions, owed, setbacks>>

\* ... and the count is stored without it; the worker is told once power management is active.
Store(d) ==
  /\ sync[d].step = "store"
  /\ active' = sync[d].read
  /\ overtaken' = sync[d].beaten
  /\ sync' = [e \in Transfers |->
       IF e = d THEN [Quiet EXCEPT !.gate = enabled /\ sync[d].gate]
       ELSE [sync[e] EXCEPT !.beaten = @ \/ d \in sync[e].newer]]
  /\ call' = IF enabled THEN [call EXCEPT ![d] = "ensure"] ELSE call
  /\ UNCHANGED <<combined, permits, shifts, settings, worker, commands, assertions, owed, setbacks>>

-----------------------------------------------------------------------------
(* The main thread                                                         *)

\* Start-up enables the integration and asks for a first reconciliation.
Activate ==
  /\ ~enabled /\ call["main"] = "none"
  /\ enabled' = TRUE
  /\ call' = [call EXCEPT !["main"] = "ensure"]
  /\ UNCHANGED <<combined, report, wanted, choice, preferences, worker, commands, assertions,
                 owed, setbacks>>

\* The preferences change, from the settings of the start, by their save or by the window: two
\* stores, ...
Prefer ==
  /\ call["main"] = "none" /\ preferences < MaxPreferences
  /\ \E p \in Sleep \ {wanted} :
       /\ choice' = p
       /\ wanted' = [wanted EXCEPT !.system = p.system]
  /\ preferences' = preferences + 1
  /\ call' = [call EXCEPT !["main"] = "second"]
  /\ UNCHANGED <<combined, report, enabled, worker, commands, assertions, owed, setbacks>>

\* ... and a request, once power management is active.
PreferSecond ==
  /\ call["main"] = "second"
  /\ wanted' = choice
  /\ call' = [call EXCEPT !["main"] = IF enabled THEN "ensure" ELSE "none"]
  /\ UNCHANGED <<combined, report, enabled, choice, preferences, worker, commands, assertions,
                 owed, setbacks>>

-----------------------------------------------------------------------------
(* Requests to the worker, each step under the lock of its handle          *)

\* The handle is not locked by somebody who waits for a worker to end.
Unlocked == worker # "closing"

\* A worker is started if there is none, or the request fails.
Ensure(c) ==
  /\ call[c] = "ensure" /\ Unlocked
  /\ \/ /\ worker' = IF worker = "none" THEN "running" ELSE worker
        /\ call' = [call EXCEPT ![c] = "send"]
        /\ UNCHANGED <<owed, setbacks>>
     \/ /\ worker = "none" /\ Setback
        /\ call' = [call EXCEPT ![c] = "none"]
        /\ owed' = TRUE
        /\ UNCHANGED worker
  /\ UNCHANGED <<combined, report, settings, commands, assertions>>

\* The main thread waits for its answer, a task of the queue does not.
Send(c) ==
  /\ call[c] = "send" /\ Unlocked
  /\ \/ /\ worker = "running"
        /\ commands' = Append(commands, IF c = "main" THEN "ask" ELSE "tell")
        /\ call' = [call EXCEPT ![c] = IF c = "main" THEN "wait" ELSE "none"]
        /\ UNCHANGED owed
     \/ /\ worker # "running"
        /\ call' = [call EXCEPT ![c] = "restart"]
        /\ owed' = TRUE
        /\ UNCHANGED commands
  /\ UNCHANGED <<combined, report, settings, worker, assertions, setbacks>>

\* Whatever worker there is by now is dropped: its sender is closed and its end waited for.
Restart(c) ==
  /\ call[c] = "restart" /\ Unlocked
  /\ worker' = IF worker = "running" THEN "closing" ELSE "none"
  /\ call' = [call EXCEPT ![c] = IF worker = "running" THEN "closing" ELSE "none"]
  /\ UNCHANGED <<combined, report, settings, commands, assertions, owed, setbacks>>

-----------------------------------------------------------------------------
(* The worker                                                              *)

Desired == IF active > 0 THEN wanted ELSE Nothing

\* It reads the count and the preferences, ...
Take ==
  /\ worker \in {"running", "closing"} /\ goal.command = "none" /\ commands # <<>>
  /\ goal' = [command |-> Head(commands), want |-> Desired]
  /\ commands' = Tail(commands)
  /\ UNCHANGED <<combined, report, settings, call, worker, believed, held, owed, setbacks>>

Answered == [call EXCEPT !["main"] = IF goal.command = "ask" THEN "none" ELSE @]

\* mutant: flags that still claim what a refusal has just cost.
Kept(refused) == goal.want
\* What one assertion for both leaves when the system refuses what is missing.
Together(refused) == IF refused THEN Nothing ELSE goal.want

\* ... changes the assertions where they differ, and answers.  What is not wanted is let go
\* first; one of a pair may be refused while the other is granted.
Apply ==
  /\ goal.command # "none"
  /\ \/ /\ believed' = goal.want /\ owed' = FALSE
        /\ held' = IF combined /\ believed = goal.want THEN held ELSE goal.want
        /\ UNCHANGED setbacks
     \/ /\ combined /\ believed # goal.want /\ goal.want # Nothing /\ Setback
        /\ believed' = Together(TRUE) /\ held' = Nothing /\ owed' = TRUE
     \/ /\ ~combined /\ Setback
        /\ \E refused \in SUBSET {a \in {"system", "display"} : goal.want[a] /\ ~held[a]} \ {{}} :
             held' = [a \in {"system", "display"} |-> goal.want[a] /\ a \notin refused]
        /\ believed' = held' /\ owed' = TRUE
  /\ call' = Answered
  /\ goal' = [goal EXCEPT !.command = "none"]
  /\ UNCHANGED <<combined, report, settings, worker, commands>>

\* It dies: its assertions go with it, and so does whoever waits for its answer.
Die ==
  /\ worker = "running" /\ Setback
  /\ worker' = "dead" /\ commands' = <<>>
  /\ goal' = [goal EXCEPT !.command = "none"] /\ believed' = Nothing /\ held' = Nothing
  /\ owed' = TRUE
  /\ call' = IF call["main"] = "wait" THEN [call EXCEPT !["main"] = "restart"] ELSE call
  /\ UNCHANGED <<combined, report, settings>>

\* A closed inbox is emptied first, then the worker lets its assertions go and ends.
End ==
  /\ worker = "closing" /\ commands = <<>> /\ goal.command = "none"
  /\ worker' = "none" /\ believed' = Nothing /\ held' = Nothing
  /\ owed' = TRUE
  /\ call' = [c \in Callers |-> IF call[c] = "closing" THEN "none" ELSE call[c]]
  /\ UNCHANGED <<combined, report, settings, commands, goal, setbacks>>

Next ==
  \/ \E d \in Transfers : Park(d) \/ Release(d) \/ Count(d) \/ Store(d)
  \/ Activate \/ Prefer \/ PreferSecond
  \/ \E c \in Callers : Ensure(c) \/ Send(c) \/ Restart(c)
  \/ Take \/ Apply \/ Die \/ End

Spec == Init /\ [][Next]_wvars

-----------------------------------------------------------------------------
(* Properties                                                              *)

\* Nobody reports and nothing is under way.
Settled == /\ \A d \in Transfers : sync[d].step = "none"
           /\ \A c \in Callers : call[c] = "none"
           /\ commands = <<>> /\ goal.command = "none"

\* The worker reads the number of permits, unless the last report was overtaken
\* (sync_power_activity counts under a lock and stores without it).
CountFollowsPermits ==
  (\A d \in Transfers : sync[d].step = "none") => active = Cardinality(permits) \/ overtaken

\* Once everything is quiet the computer is kept awake exactly when a transfer is active and
\* the preferences ask for it, unless a request has failed and none has succeeded since
\* (PowerManager: the permits are the source of truth).
SleepFollowsTransfers ==
  (Settled /\ enabled /\ ~owed) => held = Desired
=============================================================================
