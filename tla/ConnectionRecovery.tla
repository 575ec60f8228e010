-------------------------- MODULE ConnectionRecovery --------------------------
(***************************************************************************)
(* How the poller heals one aria2 transfer (lib.rs, queue.rs): it samples  *)
(* the daemon, judges the connections, and replaces a stalled or missing   *)
(* GID by a new one of the same payload, or pauses and unpauses it when no *)
(* payload is there.  Each step is a call to the daemon whose answer may   *)
(* be lost, before or after it took effect.                                *)
(*                                                                         *)
(* aria2 is external: a transfer completes or fails by itself, and a       *)
(* restart forgets every GID.  A recovery holds the control lock, so that  *)
(* commands come before it or after it; their race with a recovery, late   *)
(* events and retries are in Aria2Control.  Times are counted in polls.    *)
(* Bounds: MaxGids GIDs, MaxLost lost answers, refusals and restarts,      *)
(* MaxPauses pauses, MaxTries rounds of an add until its deadline.         *)
(***************************************************************************)
EXTENDS Naturals, FiniteSets

CONSTANTS MaxGids, MaxLost, MaxPauses, MaxTries, Delay, Cooldown, HealthySamples, RecoveryLimit

VARIABLES
  torrent,    \* the transfer is a torrent
  payload,    \* its payload is in memory
  gids,       \* what the daemon says of each GID
  used,       \* GIDs generated so far
  mapped,     \* the GID of the download, 0 if none
  epoch,      \* its control epoch
  carried,    \* it is registered and has its permit
  row,        \* what the renderer shows
  obs,        \* what the poller remembers of its connections
  sample,     \* what it has just seen
  step,       \* where it is
  target,     \* the GID it recovers
  adding,     \* the add that is under way
  spree,      \* recoveries since the last reason to forgive them
  stranded,   \* a recovery gave up with its transfer paused
  lost, pauses

cvars == <<torrent, payload, gids, used, mapped, epoch, carried, row, obs, sample, step, target,
           adding, spree, stranded, lost, pauses>>
kind == <<torrent, payload>>
lifecycle == <<mapped, epoch, carried, row>>
poller == <<obs, sample, spree>>
counts == <<lost, pauses>>

Gids == 1 .. MaxGids
Live == {"active", "paused"}
Stopped == {"complete", "error", "removed"}
Known == Live \cup Stopped
Samples == {"healthy", "moving", "stalled"}
NoObs == [gid |-> 0, epoch |-> 0, attempts |-> 0, stall |-> 0, cool |-> 0, healthy |-> 0]
NoAdd == [gid |-> 0, ambiguous |-> FALSE, statusOnly |-> FALSE, tries |-> 0]
NoSample == [gid |-> 0, epoch |-> 0, saw |-> "none"]
Recovering == {"status", "pause", "pauseCheck", "remove", "removeCheck", "add", "addStatus",
               "refresh", "refreshCheck", "unpause", "unpauseCheck"}

\* Every variable keeps its type.
TypeOK ==
  /\ torrent \in BOOLEAN /\ payload \in BOOLEAN
  /\ gids \in [Gids -> Known \cup {"none", "gone"}] /\ used \in 0 .. MaxGids
  /\ mapped \in 0 .. MaxGids /\ epoch \in Nat /\ carried \in BOOLEAN
  /\ row \in {"live", "paused", "done", "failed"}
  /\ obs \in [gid : 0 .. MaxGids, epoch : Nat, attempts : 0 .. RecoveryLimit,
              stall : 0 .. Delay + 1, cool : 0 .. Cooldown, healthy : 0 .. HealthySamples]
  /\ sample \in [gid : 0 .. MaxGids, epoch : Nat, saw : Samples \cup {"none"}]
  /\ step \in {"idle", "sampled", "outside"} \cup Recovering
  /\ target \in 0 .. MaxGids
  /\ adding \in [gid : 0 .. MaxGids, ambiguous : BOOLEAN, statusOnly : BOOLEAN, tries : 0 .. MaxTries]
  /\ spree \in Nat /\ stranded \in BOOLEAN

Init ==
  /\ torrent \in BOOLEAN /\ payload \in BOOLEAN
  /\ gids = [g \in Gids |-> IF g = 1 THEN "active" ELSE "none"] /\ used = 1
  /\ mapped = 1 /\ epoch = 1 /\ carried = TRUE /\ row = "live"
  /\ obs = NoObs /\ sample = NoSample /\ step = "idle" /\ target = 0 /\ adding = NoAdd
  /\ spree = 0 /\ stranded = FALSE /\ lost = 0 /\ pauses = 0

Loses == lost < MaxLost /\ lost' = lost + 1 /\ UNCHANGED pauses
\* What the daemon says of the download's GID.
Status == IF mapped = 0 THEN "none" ELSE gids[mapped]
Unlocked == step \notin Recovering

-----------------------------------------------------------------------------
(* The daemon (external)                                                   *)

\* A transfer ends by itself, or the daemon is restarted without its session.
Ends ==
  /\ \/ /\ \E g \in Gids, end \in {"complete", "error"} :
             gids[g] = "active" /\ gids' = [gids EXCEPT ![g] = end]
        /\ UNCHANGED counts
     \/ /\ \E g \in Gids : gids[g] \in Known
        /\ gids' = [g \in Gids |-> IF gids[g] = "none" THEN "none" ELSE "gone"]
        /\ Loses
  /\ UNCHANGED <<kind, used, lifecycle, poller, step, target, adding, stranded>>

-----------------------------------------------------------------------------
(* The poll                                                                *)

\* tellActive: what is active is seen with the epoch of its mapping.
Sample ==
  /\ step = "idle"
  /\ \/ /\ Status = "active"
        /\ \E saw \in Samples : sample' = [gid |-> mapped, epoch |-> epoch, saw |-> saw]
     \/ /\ Status # "active"
        /\ sample' = NoSample
  /\ step' = "sampled"
  /\ UNCHANGED <<kind, gids, used, lifecycle, obs, target, adding, spree, stranded, counts>>

\* mutant: a new GID starts anew.
Forgotten == 0
\* A new GID of the same epoch keeps the attempts that were spent.
Kept == obs.attempts
\* The observation of this GID and epoch.
Observed ==
  IF obs.gid = sample.gid /\ obs.epoch = sample.epoch THEN obs
  ELSE [NoObs EXCEPT !.gid = sample.gid, !.epoch = sample.epoch,
                     !.attempts = IF obs.epoch = sample.epoch THEN Kept ELSE 0]

\* One more poll: the stall lasts or ends, the cooldown passes, and enough healthy samples
\* after a recovery forgive the attempts.
Judged ==
  LET o == Observed
      stall == IF sample.saw = "stalled" THEN IF o.stall > Delay THEN o.stall ELSE o.stall + 1 ELSE 0
      well == IF o.attempts > 0 /\ sample.saw = "healthy" THEN o.healthy + 1 ELSE 0
      forgiven == well = HealthySamples
  IN [o EXCEPT !.stall = stall, !.cool = IF @ > 0 THEN @ - 1 ELSE 0,
               !.healthy = IF forgiven THEN 0 ELSE well,
               !.attempts = IF forgiven THEN 0 ELSE @]

Allowed(o) == o.stall > Delay /\ o.cool = 0 /\ o.attempts < RecoveryLimit
Spent(o) == [o EXCEPT !.attempts = @ + 1, !.cool = Cooldown, !.healthy = 0, !.stall = 1]

\* The recoveries that nothing has made good yet.
Unforgiven ==
  IF obs.epoch # sample.epoch \/ (Observed.attempts > 0 /\ Judged.attempts = 0) THEN 0 ELSE spree

\* Whether a recovery asked for at this epoch may begin (refresh_aria2_connections).
Begins(gid, seen) == mapped = gid /\ carried /\ epoch = seen
Begin(gid) ==
  /\ step' = IF payload THEN "status" ELSE "refresh"
  /\ target' = gid

\* A sample that is no longer of this owner is dropped; a torrent is left to find its peers.
Look ==
  /\ step = "sampled" /\ sample # NoSample
  /\ \/ /\ ~Begins(sample.gid, sample.epoch) \/ torrent
        /\ obs' = IF torrent /\ Begins(sample.gid, sample.epoch)
                  THEN [Observed EXCEPT !.attempts = 0, !.stall = 0, !.cool = 0, !.healthy = 0]
                  ELSE obs
        /\ step' = "outside" /\ UNCHANGED <<target, spree>>
     \/ /\ Begins(sample.gid, sample.epoch) /\ ~torrent
        /\ \/ /\ ~Allowed(Judged) /\ obs' = Judged
              /\ spree' = Unforgiven /\ step' = "outside" /\ UNCHANGED target
           \/ /\ Allowed(Judged) /\ used < MaxGids /\ obs' = Spent(Judged)
              /\ spree' = Unforgiven + 1 /\ Begin(sample.gid)
  /\ UNCHANGED <<kind, gids, used, lifecycle, sample, adding, stranded, counts>>

\* Nothing of the download was active: its memory is dropped.
LookAway ==
  /\ step = "sampled" /\ sample = NoSample
  /\ obs' = NoObs /\ spree' = 0 /\ step' = "outside"
  /\ UNCHANGED <<kind, gids, used, lifecycle, sample, target, adding, stranded, counts>>

Settle(shown) ==
  /\ row' = shown /\ mapped' = 0 /\ carried' = FALSE /\ epoch' = epoch + 1

\* A mapped GID that was not seen is asked for: ended ones are settled, a missing one is
\* recovered, a paused or waiting one left alone.
Outside ==
  /\ step = "outside"
  /\ LET seen == mapped = sample.gid IN
        \/ /\ seen \/ Status \in Live \cup {"none"}
           /\ step' = "idle" /\ UNCHANGED <<lifecycle, target, counts>>
        \/ /\ ~seen /\ Status \in Stopped
           /\ Settle(IF Status = "complete" THEN "done" ELSE "failed")
           /\ step' = "idle" /\ UNCHANGED <<target, counts>>
        \/ /\ ~seen /\ Status = "gone" /\ ~carried
           /\ step' = "idle" /\ UNCHANGED <<lifecycle, target, counts>>
        \/ /\ ~seen /\ Status = "gone" /\ carried /\ used < MaxGids
           /\ Begin(mapped) /\ UNCHANGED <<lifecycle, counts>>
        \/ /\ ~seen /\ mapped # 0 /\ Loses
           /\ step' = "idle" /\ UNCHANGED <<lifecycle, target>>
  /\ UNCHANGED <<kind, gids, used, poller, adding, stranded>>

-----------------------------------------------------------------------------
(* The replacement of a GID (recreate_uri)                                 *)

State == gids[target]

Goes(to) == step' = to /\ UNCHANGED <<lifecycle, adding, stranded>>
\* A recovery that fails leaves everything as it is.
Fails ==
  /\ step' = "idle" /\ stranded' = (stranded \/ gids'[target] = "paused")
  /\ adding' = NoAdd /\ UNCHANGED lifecycle
Completes == Settle("done") /\ step' = "idle" /\ UNCHANGED <<adding, stranded>>

\* A query is answered, or it is lost.
Asks(answer) ==
  /\ UNCHANGED gids
  /\ \/ answer /\ UNCHANGED counts
     \/ Loses /\ Fails
\* A call takes effect and is answered, or its answer is lost, or the call is; a call that the
\* state of the GID rules out is refused.
Calls(able, effect, then, check) ==
  \/ able /\ gids' = [gids EXCEPT ![target] = effect] /\ Goes(then) /\ UNCHANGED counts
  \/ able /\ gids' \in {gids, [gids EXCEPT ![target] = effect]} /\ Goes(check) /\ Loses
  \/ ~able /\ UNCHANGED gids /\ Goes(check) /\ UNCHANGED counts

Frame == UNCHANGED <<kind, used, poller, target>>

AskStatus ==
  /\ step = "status"
  /\ Asks(CASE State = "complete" -> Completes
            [] State = "active" -> Goes("pause")
            [] State \in {"paused", "removed", "gone"} -> Goes("remove")
            [] OTHER -> Fails)
  /\ Frame

ForcePause ==
  /\ step = "pause"
  /\ Calls(State \in Live, "paused", "remove", "pauseCheck")
  /\ Frame

PauseCheck ==
  /\ step = "pauseCheck"
  /\ Asks(CASE State = "complete" -> Completes
            [] State \in {"paused", "removed"} -> Goes("remove")
            [] OTHER -> Fails)
  /\ Frame

\* A GID that has ended is not found among the active ones, which passes for its absence.
ForceRemove ==
  /\ step = "remove"
  /\ \/ State \in Live /\ Calls(TRUE, "removed", "add", "removeCheck")
     \/ State \notin Live /\ UNCHANGED gids
        /\ \/ Goes("add") /\ UNCHANGED counts
           \/ Loses /\ Goes("removeCheck")
  /\ Frame

RemoveCheck ==
  /\ step = "removeCheck"
  /\ Asks(CASE State = "complete" -> Completes
            [] State \in {"removed", "gone"} -> Goes("add")
            [] OTHER -> Fails)
  /\ Frame

-----------------------------------------------------------------------------
(* The new transfer (add_uri, add_transfer_rpc_with_reconciliation)        *)

\* The old job is gone and no new one was made: the row is paused and lets go.
Unavailable == Settle("paused") /\ step' = "idle" /\ adding' = NoAdd /\ UNCHANGED stranded
\* The download is known by its new GID.
Remember(gid) ==
  /\ mapped' = gid /\ row' = "live" /\ step' = "idle" /\ adding' = NoAdd
  /\ UNCHANGED <<epoch, carried, stranded>>

\* The preflight refuses, or a GID is chosen that every attempt of this add will carry.
Prepare ==
  /\ step = "add" /\ adding.gid = 0
  /\ \/ Loses /\ Unavailable /\ UNCHANGED used
     \/ /\ used' = used + 1 /\ adding' = [adding EXCEPT !.gid = used + 1]
        /\ UNCHANGED <<lifecycle, step, stranded, counts>>
  /\ UNCHANGED <<kind, gids, poller, target>>

Last == adding.tries = MaxTries
Unsure(again) ==
  /\ adding' = [adding EXCEPT !.ambiguous = TRUE, !.statusOnly = again]
  /\ step' = "addStatus" /\ UNCHANGED <<lifecycle, stranded>>

\* The daemon accepts a GID once: a lost answer is followed by a question for the GID, and so
\* is the refusal of a GID that an earlier call may have brought in.
Add ==
  /\ step = "add" /\ adding.gid # 0
  /\ LET new == adding.gid
         free == gids[new] \in {"none", "gone"}
         accepted == [gids EXCEPT ![new] = "active"]
     IN \/ free /\ gids' = accepted /\ Remember(new) /\ UNCHANGED counts
        \/ free /\ gids' \in {gids, accepted} /\ Loses /\ Unsure(FALSE)
        \/ ~free /\ UNCHANGED <<gids, counts>> /\ Unsure(TRUE)
        \/ free /\ UNCHANGED gids /\ Loses        \* it refuses the options
           /\ IF adding.ambiguous THEN Unsure(TRUE) ELSE Unavailable
  /\ UNCHANGED <<kind, used, poller, target>>

\* Past the deadline what could not be verified is left to the poller.
HandsOver == Remember(adding.gid)

AddStatus ==
  /\ step = "addStatus"
  /\ \/ /\ gids[adding.gid] \in Known /\ Remember(adding.gid) /\ UNCHANGED counts
     \/ /\ \/ gids[adding.gid] \notin Known /\ UNCHANGED counts
           \/ Loses
        /\ IF Last THEN HandsOver
           ELSE /\ step' = IF adding.statusOnly THEN "addStatus" ELSE "add"
                /\ adding' = [adding EXCEPT !.tries = @ + 1]
                /\ UNCHANGED <<lifecycle, stranded>>
  /\ UNCHANGED <<kind, gids, used, poller, target>>

-----------------------------------------------------------------------------
(* The refresh of a GID (refresh_uri)                                      *)

Refresh ==
  /\ step = "refresh"
  /\ Calls(State \in Live, "paused", "unpause", "refreshCheck")
  /\ Frame

RefreshCheck ==
  /\ step = "refreshCheck"
  /\ Asks(CASE State = "complete" -> Completes
            [] State = "paused" -> Goes("unpause")
            [] OTHER -> Fails)
  /\ Frame

Unpause ==
  /\ step = "unpause"
  /\ Calls(State = "paused", "active", "idle", "unpauseCheck")
  /\ Frame

\* A GID that stays paused is shown so, and its permit released.
StaysPaused ==
  /\ row' = "paused" /\ carried' = FALSE /\ epoch' = epoch + 1 /\ step' = "idle"
  /\ UNCHANGED <<mapped, adding, stranded>>
UnpauseCheck ==
  /\ step = "unpauseCheck"
  /\ Asks(CASE State = "complete" -> Completes
            [] State = "active" -> Goes("idle")
            [] State = "paused" -> StaysPaused
            [] OTHER -> Fails)
  /\ Frame

-----------------------------------------------------------------------------
(* Commands, between recoveries                                            *)

\* A pause of the mapped GID, or of a lifecycle that has none any more.
PauseIt ==
  /\ Unlocked /\ row = "live" /\ pauses < MaxPauses
  /\ Status \in Live
  /\ gids' = [gids EXCEPT ![mapped] = "paused"]
  /\ row' = "paused" /\ carried' = FALSE /\ epoch' = epoch + 1 /\ stranded' = FALSE
  /\ pauses' = pauses + 1
  /\ UNCHANGED <<kind, used, mapped, poller, step, target, adding, lost>>

\* A resume of the paused GID, or of the row with a new one.
ResumeIt ==
  /\ Unlocked /\ row = "paused"
  /\ \/ /\ Status = "paused"
        /\ gids' = [gids EXCEPT ![mapped] = "active"] /\ UNCHANGED <<used, mapped>>
     \/ /\ mapped = 0 /\ used < MaxGids
        /\ gids' = [gids EXCEPT ![used + 1] = "active"]
        /\ used' = used + 1 /\ mapped' = used + 1
  /\ row' = "live" /\ carried' = TRUE /\ epoch' = epoch + 1
  /\ UNCHANGED <<kind, poller, step, target, adding, stranded, counts>>

Next ==
  \/ Ends \/ Sample \/ Look \/ LookAway \/ Outside
  \/ AskStatus \/ ForcePause \/ PauseCheck \/ ForceRemove \/ RemoveCheck
  \/ Prepare \/ Add \/ AddStatus
  \/ Refresh \/ RefreshCheck \/ Unpause \/ UnpauseCheck
  \/ PauseIt \/ ResumeIt

Spec == Init /\ [][Next]_cvars

-----------------------------------------------------------------------------
(* Properties                                                              *)

\* The daemon never has two transfers of the download, whichever answers were lost: the old
\* GID is gone before its replacement is added, and an add that is repeated is the same GID
\* (new_aria2_transfer_gid).
OneTransfer == Cardinality({g \in Gids : gids[g] \in Live}) <= 1

\* A transfer that lives in the daemon is the one the download is known by, except while a
\* recovery replaces it (add_transfer_rpc_with_reconciliation).
NothingIsOrphaned == Unlocked => \A g \in Gids : gids[g] \in Live => g = mapped

\* When no recovery is at work a row that is shown as downloading has no paused transfer,
\* unless a recovery gave up between its pause and its remove, and a paused row no active one
\* (Aria2RecreateOutcome::Unavailable).
RowIsTrue ==
  Unlocked =>
    /\ (row = "live" /\ ~stranded) => mapped # 0 /\ Status # "paused"
    /\ row = "paused" => \A g \in Gids : gids[g] # "active"

\* Between one healthy window, change of the lifecycle or poll without it and the next, a
\* transfer is recovered for its connections no more often than the limit allows, although
\* each recovery gives it another GID (observe_aria2_connections_with_epoch).
RecoveriesAreBounded == spree <= RecoveryLimit
=============================================================================
