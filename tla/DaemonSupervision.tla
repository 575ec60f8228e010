-------------------------- MODULE DaemonSupervision --------------------------
(***************************************************************************)
(* Who starts, watches, stops and replaces the aria2 process (lib.rs): the *)
(* start of the application, the listener of its events, an exit, the      *)
(* recovery after an exit that was rejected, and the settings that change  *)
(* its options.  The process handle, the published port, the arguments of  *)
(* the next launch and the hold of the queue are shared by all of them;    *)
(* restart_lock orders stops, restarts and options, but not the start: an  *)
(* exit that is asked for before the start is over is left out.            *)
(*                                                                         *)
(* The phases of an exit before and after it stops aria2 are in            *)
(* ExitBarrier; here its rejection is one step.  A port is named by the    *)
(* process that was launched on it, and the transfers are one: whether the *)
(* queue believes in it, and which process has it.  Bounds: MaxProcs       *)
(* launches, MaxExits exits, MaxOptions values of an option, MaxTroubles   *)
(* crashes, hangs, failures and lost answers.                              *)
(***************************************************************************)
EXTENDS Naturals, FiniteSets

CONSTANTS MaxProcs, MaxExits, MaxOptions, MaxTroubles

VARIABLES
  procs,      \* the processes that were launched
  loads,      \* the option each runs with
  child,      \* the handle in the guard, 0 if none
  spec,       \* the option of the next launch, 0 while there is no launch_spec
  port,       \* the published port, 0 if none
  failed,     \* startup_error
  holder,     \* who holds restart_lock, and how far it is
  starter,    \* the start of the application
  listener,   \* the loop of the event socket
  recovering, \* the recovery after each exit
  exits,      \* shutdown_generation
  exit,       \* the exit under way
  hold,       \* aria2_dispatch_hold
  carried,    \* the queue believes that the transfer runs
  at,         \* the process that was given it
  chosen,     \* the value of the option that was last accepted
  doubt,      \* the answer to an option was lost
  superseded, \* a newer exit took the place of a recovery
  dropped,    \* a transfer was given up although its process was well
  unseen,     \* a recovery looked for a handle that a stop had in hand
  troubles

dvars == <<procs, loads, child, spec, port, failed, holder, starter, listener, recovering, exits,
           exit, hold, carried, at, chosen, doubt, superseded, dropped, unseen, troubles>>
processes == <<procs, loads>>
guarded == <<child, spec, port, failed>>
work == <<hold, carried, at>>
options == <<chosen, doubt>>
tasks == <<starter, listener, recovering, exits, exit>>
ghosts == <<superseded, dropped, unseen>>

Procs == 1 .. MaxProcs
Exits == 1 .. MaxExits
Options == 1 .. MaxOptions
Unheld == [by |-> "nobody", gen |-> 0, step |-> "none", proc |-> 0]
NotListening == [step |-> "none", proc |-> 0, pending |-> FALSE]

\* Every variable keeps its type.
TypeOK ==
  /\ procs \in [Procs -> {"none", "up", "hung", "stopping", "dead"}]
  /\ loads \in [Procs -> 0 .. MaxOptions]
  /\ child \in 0 .. MaxProcs /\ spec \in 0 .. MaxOptions /\ port \in 0 .. MaxProcs
  /\ failed \in {"none", "start", "socket"}
  /\ holder \in [by : {"nobody", "starter", "exit", "recovery", "listener", "setter"},
                 gen : 0 .. MaxExits, proc : 0 .. MaxProcs,
                 step : {"none", "ask", "take", "wait", "spawn", "settle", "ready", "tell", "note"}]
  /\ starter \in [step : {"spawn", "settle", "ready", "cleanup", "done"}, proc : 0 .. MaxProcs]
  /\ listener \in [step : {"none", "loop", "restart", "reconcile", "read", "leave", "probe", "check",
                           "ended"}, proc : 0 .. MaxProcs, pending : BOOLEAN]
  /\ recovering \in [Exits -> {"none", "check", "stop", "again", "restart"}]
  /\ exits \in 0 .. MaxExits
  /\ exit \in [step : {"none", "drain", "media", "stop", "seal", "final", "gone"}, held : BOOLEAN]
  /\ hold \in BOOLEAN /\ carried \in BOOLEAN /\ at \in 0 .. MaxProcs
  /\ chosen \in Options /\ doubt \in BOOLEAN
  /\ superseded \in BOOLEAN /\ dropped \in BOOLEAN /\ unseen \in BOOLEAN

Init ==
  /\ procs = [p \in Procs |-> "none"] /\ loads = [p \in Procs |-> 0]
  /\ child = 0 /\ spec = 0 /\ port = 0 /\ failed = "none" /\ holder = Unheld
  /\ starter = [step |-> "spawn", proc |-> 0]
  /\ listener = NotListening
  /\ recovering = [g \in Exits |-> "none"] /\ exits = 0 /\ exit = [step |-> "none", held |-> FALSE]
  /\ hold = FALSE /\ carried = FALSE /\ at = 0 /\ chosen = 1 /\ doubt = FALSE
  /\ superseded = FALSE /\ dropped = FALSE /\ unseen = FALSE /\ troubles = 0

Trouble == troubles < MaxTroubles /\ troubles' = troubles + 1
Smooth == UNCHANGED troubles
Lives(p) == p # 0 /\ procs[p] \in {"up", "hung", "stopping"}
Answers(p) == p # 0 /\ procs[p] = "up"
Unlocked == holder = Unheld
\* is_shutting_down: from the request of an exit to its rejection.
ShuttingDown == exit.step # "none"
Fresh == CHOOSE p \in Procs : procs[p] = "none"
MayLaunch == \E p \in Procs : procs[p] = "none"
\* A process comes up, or it never answers.
Launched(option) ==
  /\ MayLaunch
  /\ loads' = [loads EXCEPT ![Fresh] = option]
  /\ \/ procs' = [procs EXCEPT ![Fresh] = "up"] /\ Smooth
     \/ procs' = [procs EXCEPT ![Fresh] = "hung"] /\ Trouble

-----------------------------------------------------------------------------
(* The process (external)                                                  *)

Falter ==
  /\ \E p \in Procs :
        \/ Lives(p) /\ procs' = [procs EXCEPT ![p] = "dead"]
           /\ IF procs[p] = "stopping" THEN Smooth ELSE Trouble
        \/ Answers(p) /\ procs' = [procs EXCEPT ![p] = "hung"] /\ Trouble
  /\ UNCHANGED <<loads, guarded, holder, tasks, work, options, ghosts>>

-----------------------------------------------------------------------------
(* The start of the application                                            *)

Starter(step) == starter' = [starter EXCEPT !.step = step]
StarterFrame == UNCHANGED <<recovering, exits, exit, work, options, ghosts>>

\* The process is launched, and not yet in anybody's hands.
Launch ==
  /\ starter.step = "spawn"
  /\ \/ Launched(1) /\ starter' = [step |-> "settle", proc |-> Fresh] /\ UNCHANGED failed
     \/ Trouble /\ Starter("done") /\ failed' = "start" /\ UNCHANGED processes
  /\ UNCHANGED <<child, spec, port, holder, listener>> /\ StarterFrame

\* One that died at once is retried on another port, or the start is over; else the guard
\* gets its handle and the arguments of the next launch.
Adopt ==
  /\ starter.step = "settle"
  /\ \/ /\ procs[starter.proc] = "dead"
        /\ \/ Starter("spawn") /\ UNCHANGED failed
           \/ Starter("done") /\ failed' = "start"
        /\ UNCHANGED <<child, spec>>
     \/ /\ Lives(starter.proc)
        /\ child' = starter.proc /\ spec' = loads[starter.proc] /\ Starter("ready")
        /\ UNCHANGED failed
  /\ UNCHANGED <<processes, port, holder, listener, troubles>> /\ StarterFrame

\* It answers: its port is published and the listener begins; or it did not within the five
\* seconds, and is stopped.
Publish ==
  /\ starter.step = "ready"
  /\ \/ /\ Answers(starter.proc)
        /\ port' = starter.proc /\ failed' = "none" /\ Starter("done")
        /\ listener' = [listener EXCEPT !.step = "loop"]
     \/ /\ ~Answers(starter.proc)
        /\ failed' = "start" /\ Starter("cleanup") /\ UNCHANGED <<port, listener>>
  /\ UNCHANGED <<processes, child, spec, holder, troubles>> /\ StarterFrame

-----------------------------------------------------------------------------
(* shutdown_aria2_daemon, by an exit, a recovery or the start              *)

Hold(by, gen, step) == holder' = [by |-> by, gen |-> gen, step |-> step, proc |-> 0]
Stops(by) == holder.by = by /\ holder.step \in {"ask", "take", "wait"}

StopBegins ==
  /\ Unlocked
  /\ \/ starter.step = "cleanup" /\ Hold("starter", 0, "ask")
     \/ exit.step = "stop" /\ Hold("exit", exits, "ask")
     \/ \E g \in Exits : recovering[g] = "stop" /\ Hold("recovery", g, "ask")
  /\ UNCHANGED <<processes, guarded, tasks, work, options, ghosts, troubles>>

\* aria2.shutdown at the published port, if it is heard.
StopAsk ==
  /\ holder.step = "ask"
  /\ holder' = [holder EXCEPT !.step = "take"]
  /\ \/ Answers(port) /\ procs' = [procs EXCEPT ![port] = "stopping"] /\ Smooth
     \/ Answers(port) /\ Trouble /\ UNCHANGED procs
     \/ ~Answers(port) /\ Smooth /\ UNCHANGED procs
  /\ UNCHANGED <<loads, guarded, tasks, work, options, ghosts>>

\* A rejected exit holds the queue and leaves the daemon to a recovery.
Blocked ==
  /\ hold' = TRUE /\ exit' = [exit EXCEPT !.step = "none"]
  /\ recovering' = [recovering EXCEPT ![exits] = "check"]
  /\ UNCHANGED <<starter, carried, at>>
\* What the outcome of a stop means to who asked for it.
Stopped(ok) ==
  /\ holder' = Unheld
  /\ \/ holder.by = "starter" /\ Starter("done") /\ UNCHANGED <<recovering, exit, work>>
     \/ holder.by = "recovery" /\ UNCHANGED <<starter, exit, work>>
        /\ recovering' = [recovering EXCEPT ![holder.gen] = IF ok THEN "again" ELSE "check"]
     \/ holder.by = "exit" /\ ok /\ exit' = [exit EXCEPT !.step = "seal"]
        /\ UNCHANGED <<starter, recovering, work>>
     \/ holder.by = "exit" /\ ~ok /\ Blocked

\* The handle leaves the guard while its process is waited for.
StopTake ==
  /\ holder.step = "take"
  /\ \/ /\ child # 0
        /\ holder' = [holder EXCEPT !.step = "wait", !.proc = child] /\ child' = 0
        /\ UNCHANGED <<starter, recovering, exit, work>>
     \/ child = 0 /\ Stopped(port = 0) /\ UNCHANGED child
  /\ UNCHANGED <<processes, spec, port, failed, listener, exits, options, ghosts, troubles>>

\* The port is withdrawn once the exit of the process is confirmed; else it is killed, until
\* the deadline: then the stop has failed, and the handle goes back.
StopWait ==
  /\ holder.step = "wait"
  /\ \/ /\ ~Lives(holder.proc) /\ port' = 0 /\ UNCHANGED <<procs, child>>
        /\ \/ Stopped(TRUE) /\ Smooth
           \/ Stopped(FALSE) /\ Trouble
     \/ /\ Lives(holder.proc) /\ procs' = [procs EXCEPT ![holder.proc] = "dead"]
        /\ UNCHANGED <<child, port, holder, starter, recovering, exit, work>> /\ Smooth
     \/ /\ Lives(holder.proc) /\ child' = holder.proc /\ Stopped(FALSE) /\ Trouble
        /\ UNCHANGED <<procs, port>>
  /\ UNCHANGED <<loads, spec, failed, listener, exits, options, ghosts>>

-----------------------------------------------------------------------------
(* restart_aria2_daemon, by the listener or a recovery                     *)

Current(g) == exits = g /\ ~ShuttingDown
StartsFor == holder.by \in {"listener", "recovery"}
Started(ok) ==
  /\ holder' = Unheld
  /\ \/ holder.by = "listener" /\ listener' = [listener EXCEPT !.step = "loop"]
        /\ UNCHANGED <<recovering, superseded>>
     \/ holder.by = "recovery" /\ UNCHANGED listener
        /\ recovering' = [recovering EXCEPT ![holder.gen] = IF ok THEN "none" ELSE "check"]
        /\ superseded' = (superseded /\ ~ok)
StartFrame == UNCHANGED <<spec, starter, exits, exit, work, options, dropped, unseen>>

StartSpawn ==
  /\ StartsFor /\ holder.step = "spawn"
  /\ \/ Launched(spec) /\ holder' = [holder EXCEPT !.step = "settle", !.proc = Fresh]
        /\ UNCHANGED <<failed, listener, recovering, superseded>>
     \/ Trouble /\ failed' = "start" /\ Started(FALSE) /\ UNCHANGED processes
  /\ UNCHANGED <<child, port>> /\ StartFrame

StartSettle ==
  /\ StartsFor /\ holder.step = "settle"
  /\ \/ Lives(holder.proc) /\ child' = holder.proc /\ holder' = [holder EXCEPT !.step = "ready"]
     \/ ~Lives(holder.proc) /\ holder' = [holder EXCEPT !.step = "spawn"] /\ UNCHANGED child
  /\ UNCHANGED <<processes, port, failed, listener, recovering, superseded, troubles>>
  /\ StartFrame

\* It answers, or it is killed and the next port is tried.
StartReady ==
  /\ StartsFor /\ holder.step = "ready"
  /\ \/ /\ Answers(holder.proc) /\ port' = holder.proc /\ failed' = "none" /\ Started(TRUE)
        /\ UNCHANGED <<procs, child>>
     \/ /\ ~Answers(holder.proc)
        /\ procs' = [p \in Procs |-> IF p = child THEN "dead" ELSE procs[p]] /\ child' = 0
        /\ \/ holder' = [holder EXCEPT !.step = "spawn"]
              /\ UNCHANGED <<port, failed, listener, recovering, superseded>>
           \/ port' = 0 /\ failed' = "start" /\ Started(FALSE)
  /\ UNCHANGED <<loads, troubles>> /\ StartFrame

-----------------------------------------------------------------------------
(* Exits                                                                   *)

ExitFrame == UNCHANGED <<processes, guarded, holder, starter, listener, carried, at, options,
                         ghosts>>

AskExit ==
  /\ ~ShuttingDown /\ exits < MaxExits /\ starter.step = "done"
  /\ exits' = exits + 1 /\ exit' = [step |-> "drain", held |-> FALSE]
  /\ ExitFrame /\ UNCHANGED <<recovering, hold, troubles>>

\* The flush or the drain of the handoffs fails: the exit is off.  Media that do not stop keep
\* it open and the queue held, until they do.
Drain ==
  /\ \/ exit.step = "drain" /\ exit' = [exit EXCEPT !.step = "none"] /\ UNCHANGED hold
     \/ exit.step = "drain" /\ holder.by # "setter"
        /\ exit' = [exit EXCEPT !.step = "stop"] /\ UNCHANGED hold
     \/ exit.step = "drain" /\ exit' = [step |-> "media", held |-> hold] /\ hold' = TRUE
     \/ exit.step = "media" /\ exit' = [step |-> "none", held |-> FALSE]
        /\ hold' = (hold /\ exit.held)
  /\ ExitFrame /\ UNCHANGED <<recovering, exits, troubles>>

\* The deadline passes before the lock is free.
TooLate ==
  /\ exit.step = "stop" /\ holder.by # "exit" /\ Trouble /\ Blocked
  /\ UNCHANGED <<processes, guarded, holder, listener, exits, options, ghosts>>

Leased == listener.step \in {"reconcile", "read"}
\* The terminal barrier is sealed once no event is under way, and the exit is final or blocked.
Finish ==
  /\ \/ exit.step = "seal" /\ ~Leased /\ exit' = [exit EXCEPT !.step = "final"]
        /\ UNCHANGED <<starter, recovering, work>>
     \/ exit.step = "final" /\ exit' = [exit EXCEPT !.step = "gone"]
        /\ UNCHANGED <<starter, recovering, work>>
     \/ exit.step \in {"seal", "final"} /\ Blocked
  /\ UNCHANGED <<processes, guarded, holder, listener, exits, options, ghosts, troubles>>

\* The recovery after a rejected exit stops what is left of the daemon and starts another,
\* unless a newer exit has begun.
Recover(g) ==
  /\ LET goes(to) == recovering' = [recovering EXCEPT ![g] = to]
         on == UNCHANGED <<holder, superseded, unseen>>
     IN \/ recovering[g] \in {"check", "again", "restart"} /\ ~Current(g)
           /\ (recovering[g] = "restart" => Unlocked)
           /\ goes("none") /\ superseded' = TRUE /\ UNCHANGED <<holder, unseen>>
        \/ recovering[g] = "check" /\ Current(g) /\ UNCHANGED <<holder, superseded>>
           /\ IF child # 0 \/ port # 0 THEN goes("stop") /\ UNCHANGED unseen
              ELSE goes("again") /\ unseen' = (unseen \/ holder.step = "wait")
        \/ recovering[g] = "again" /\ Current(g) /\ goes("restart") /\ on
        \/ recovering[g] = "restart" /\ Current(g) /\ Unlocked
           /\ \/ port # 0 /\ goes("none") /\ on
              \/ port = 0 /\ spec = 0 /\ goes("check") /\ on
              \/ port = 0 /\ spec # 0 /\ Hold("recovery", g, "spawn")
                 /\ UNCHANGED <<recovering, superseded, unseen>>
  /\ UNCHANGED <<processes, guarded, starter, listener, exits, exit, work, options, dropped,
                 troubles>>

-----------------------------------------------------------------------------
(* The listener                                                            *)

Listens(step) ==
  listener' = IF step \in {"loop", "leave", "restart", "ended"} THEN [NotListening EXCEPT !.step = step]
              ELSE [listener EXCEPT !.step = step]
ListenFrame == UNCHANGED <<processes, child, spec, port, starter, recovering, exits, exit, options,
                           superseded, unseen>>

\* Without a port: a daemon that failed to start is started again.
ListenRestart ==
  /\ \/ listener.step = "loop" /\ port = 0 /\ ~ShuttingDown /\ failed # "none" /\ spec # 0
        /\ Listens("restart") /\ UNCHANGED holder
     \/ listener.step = "restart" /\ Unlocked /\ port # 0 /\ Listens("loop") /\ UNCHANGED holder
     \/ listener.step = "restart" /\ Unlocked /\ port = 0
        /\ Hold("listener", 0, "spawn") /\ UNCHANGED listener
  /\ UNCHANGED <<failed, work, dropped, troubles>> /\ ListenFrame

\* The socket is opened under a lease of the terminal barrier; ten failures are put down.
Connect ==
  /\ listener.step = "loop" /\ port # 0 /\ exit.step # "final"
  /\ \/ exit.step = "gone" /\ Listens("ended") /\ UNCHANGED failed
     \/ exit.step # "gone" /\ Answers(port)
        /\ listener' = [step |-> "reconcile", proc |-> port, pending |-> hold]
        /\ failed' = IF failed = "socket" THEN "none" ELSE failed
     \/ exit.step # "gone" /\ ~Answers(port) /\ Listens("leave") /\ failed' \in {failed, "socket"}
  /\ UNCHANGED <<holder, work, dropped, troubles>> /\ ListenFrame

\* Every mapped transfer is asked for at the published port; a missing one is recovered, which
\* the next round has to see.  Work that waited for the daemon then goes on.
Reconcile ==
  /\ listener.step = "reconcile"
  /\ \E reconciled \in BOOLEAN :
        /\ \/ ~carried /\ reconciled /\ UNCHANGED at /\ Smooth
           \/ carried /\ at = port /\ Answers(port) /\ reconciled /\ UNCHANGED at /\ Smooth
           \/ carried /\ at # port /\ Answers(port) /\ ~reconciled /\ Smooth
              /\ at' = IF ShuttingDown THEN at ELSE port
           \/ carried /\ ~Answers(port) /\ ~reconciled /\ UNCHANGED at /\ Smooth
           \/ carried /\ ~reconciled /\ UNCHANGED at /\ Trouble
        /\ IF listener.pending /\ ~reconciled THEN Listens("loop") /\ UNCHANGED hold
           ELSE Listens("read") /\ hold' = (hold /\ ~listener.pending)
  /\ UNCHANGED <<failed, holder, carried, dropped>> /\ ListenFrame

\* The socket ends, and the lease with it.
HangUp ==
  /\ listener.step = "read"
  /\ \/ ~Answers(listener.proc) /\ Smooth
     \/ Trouble
  /\ Listens("leave")
  /\ UNCHANGED <<failed, holder, work, dropped>> /\ ListenFrame

\* Without a shutdown the port is asked twice, and then the process is looked at: when it is
\* gone its transfers fail.
Leave ==
  /\ \/ listener.step = "leave" /\ (ShuttingDown \/ port = 0) /\ Listens("loop")
     \/ listener.step = "leave" /\ ~ShuttingDown /\ port # 0
        /\ listener' = [listener EXCEPT !.step = "probe", !.proc = port]
     \/ listener.step = "probe"
        /\ Listens(IF Answers(listener.proc) THEN "loop" ELSE "check")
  /\ UNCHANGED <<failed, holder, work, dropped, troubles>> /\ ListenFrame

\* mutant: an outage is taken for the end of the process.
OutageIsExit == TRUE
\* aria2_daemon_process_exited
ProcessExited == ~Lives(child)

GivesUp ==
  /\ listener.step = "check" /\ Listens("loop")
  /\ \/ /\ ProcessExited
        /\ carried' = FALSE /\ at' = 0
        /\ dropped' = (dropped \/ (carried /\ Lives(at) /\ holder.step # "wait"))
     \/ ~ProcessExited /\ UNCHANGED <<carried, at, dropped>>
  /\ UNCHANGED <<failed, holder, hold, troubles>> /\ ListenFrame

-----------------------------------------------------------------------------
(* The queue and the settings                                              *)

\* A transfer is given to the daemon, found missing by the poller and recovered, or it ends;
\* without a port the queue is held.
Work ==
  /\ \/ ~ShuttingDown /\ ~hold /\ ~carried /\ port # 0
        /\ carried' = TRUE /\ at' = port /\ UNCHANGED hold
     \/ ~ShuttingDown /\ ~hold /\ ~carried /\ port = 0
        /\ hold' = TRUE /\ UNCHANGED <<carried, at>>
     \/ ~ShuttingDown /\ carried /\ at # port /\ Answers(port)
        /\ at' = port /\ UNCHANGED <<hold, carried>>
     \/ carried /\ Answers(at) /\ carried' = FALSE /\ at' = 0 /\ UNCHANGED hold
  /\ UNCHANGED <<processes, guarded, holder, tasks, options, ghosts, troubles>>

\* An option is changed in the daemon, and then for the next launch.
SetOption ==
  /\ LET value == chosen + 1 IN
     \/ /\ Unlocked /\ ~ShuttingDown /\ chosen < MaxOptions /\ Hold("setter", 0, "tell")
        /\ UNCHANGED <<loads, spec, options, troubles>>
     \/ /\ holder.step = "tell" /\ Answers(port) /\ loads' = [loads EXCEPT ![port] = value]
        /\ \/ holder' = [holder EXCEPT !.step = "note"] /\ Smooth /\ UNCHANGED options
           \/ holder' = Unheld /\ Trouble /\ doubt' = TRUE /\ UNCHANGED chosen
        /\ UNCHANGED spec
     \/ /\ holder.step = "tell" /\ ~Answers(port) /\ holder' = Unheld
        /\ UNCHANGED <<loads, spec, options, troubles>>
     \/ /\ holder.step = "note" /\ spec' = value /\ chosen' = value /\ holder' = Unheld
        /\ UNCHANGED <<loads, doubt, troubles>>
  /\ UNCHANGED <<procs, child, port, failed, tasks, work, ghosts>>

Next ==
  \/ Falter \/ Launch \/ Adopt \/ Publish
  \/ StopBegins \/ StopAsk \/ StopTake \/ StopWait
  \/ StartSpawn \/ StartSettle \/ StartReady
  \/ AskExit \/ Drain \/ TooLate \/ Finish \/ \E g \in Exits : Recover(g)
  \/ ListenRestart \/ Connect \/ Reconcile \/ HangUp \/ Leave \/ GivesUp
  \/ Work \/ SetOption

Spec == Init /\ [][Next]_dvars

-----------------------------------------------------------------------------
(* Properties                                                              *)

Recovers == \E g \in Exits : recovering[g] # "none"

\* The published port is that of the process whose handle the guard, or who is stopping it, has;
\* and two daemons never run side by side, unless a recovery looked into the guard, before it
\* asked for the lock, while a stop that was to fail had the handle of an unpublished daemon
\* (restart_aria2_daemon, shutdown_aria2_daemon, schedule_aria2_recovery_after_rejected_shutdown).
DaemonIsOwned ==
  /\ unseen \/ Cardinality({p \in Procs : Lives(p)}) <= 1
  /\ port # 0 => port = child \/ (holder.step = "wait" /\ holder.proc = port)

\* An outage of the port or of the socket costs no transfer while its process lives
\* (aria2_daemon_process_exited), and the process is gone when the application is.
TransfersFollowProcess ==
  /\ ~dropped
  /\ exit.step = "gone" => ~(carried /\ Lives(at))

\* When an exit was rejected, or a restart failed, somebody brings the daemon back, unless a
\* newer exit that was rejected in its turn has ended the recovery of the older one
\* (schedule_aria2_recovery_after_rejected_shutdown); and when the listener reads the events of
\* the published daemon and nobody is at work on it, the queue is held no more.
DaemonComesBack ==
  (~superseded /\ ~ShuttingDown /\ Unlocked /\ ~Recovers) =>
    /\ (listener.step \notin {"none", "ended"} /\ port = 0) => failed # "none" /\ spec # 0
    /\ (listener.step = "read" /\ listener.proc = port /\ Answers(port)) => ~hold

\* A daemon that is published runs with the option that was last accepted, whether it was
\* told or launched with it (update_launch_option).
OptionIsKept ==
  (port # 0 /\ holder.by # "setter" /\ ~doubt) => loads[port] = chosen
=============================================================================
