---------------------------- MODULE Aria2Control ----------------------------
(***************************************************************************)
(* Which aria2 transfer a download is (the GID map, the control epochs and *)
(* the retry workers of queue.rs, pause_download, resume_download and the  *)
(* two observers of lib.rs).  A download has many GIDs in its life: a      *)
(* retry and a connection recovery replace the GID, a magnet's metadata    *)
(* parent is followed by the child with the payload.  What the daemon says *)
(* of a GID is read without the control lock and applied under it, after   *)
(* the mapping and the epoch have been compared once more.                 *)
(*                                                                         *)
(* One download.  GID 2k - 1 is the one the k-th add creates and 2k the    *)
(* child it may have.  Bounds: MaxAdds adds, MaxCommands pauses and        *)
(* resumes, two observations at a time, each GID reported MaxReports times *)
(* beside the daemon's own event.  Left out: the removal of a download and *)
(* the shutdown (other modules), a daemon that cannot be reached, GIDs it  *)
(* has forgotten, a resume that finds its GID running or ended, a removal  *)
(* of a stale GID that fails, the eviction of old ignored GIDs, and a      *)
(* magnet whose metadata is complete before its GID is mapped or whose     *)
(* child comes after the minute it is waited for.                          *)
(***************************************************************************)
EXTENDS Naturals, FiniteSets

CONSTANTS MaxAdds, MaxCommands, MaxReports

VARIABLES
  magnet,        \* the payload is a direct magnet
  gids,          \* the daemon's status of each GID
  wire,          \* GIDs whose terminal event is on the socket
  bound,         \* aria2_gids: the GID of the download, its epoch and revision
  adopted,       \* aria2_magnet_payload_gids: the GID is the child with the payload
  epoch, revision,        \* aria2_control_epochs, aria2_owner_revisions
  ignored, buffered,      \* aria2_ignored_gids, pending_completion
  carried,       \* the download is registered and holds its permit
  cancelled,     \* aria2_retry_cancelled
  retrying, inflight,     \* aria2_retrying_gids, aria2_retry_inflight
  backoffs,      \* retry workers that wait
  adding,        \* adds under way, of a dispatch, a retry or a recovery
  stale,         \* adds whose GID is being removed again
  resumers,      \* workers of resume_download
  handlers,      \* observations that wait for the control lock
  shows,         \* what the row shows
  adds, commands, reports

cvars == <<magnet, gids, wire, bound, adopted, epoch, revision, ignored, buffered, carried,
           cancelled, retrying, inflight, backoffs, adding, stale, resumers, handlers, shows,
           adds, commands, reports>>
daemonSide == <<magnet, gids, wire, reports>>
mapping == <<bound, adopted, ignored, buffered>>
clocks == <<epoch, revision>>
retryState == <<retrying, inflight, backoffs>>
limits == <<adds, commands>>

NoGid == 0
Gids == 1 .. 2 * MaxAdds
Refused == 2 * MaxAdds + 1
Epochs == 0 .. 3 * (MaxAdds + MaxCommands)
Revisions == 0 .. 6 * (MaxAdds + MaxCommands)
NoEpoch == 3 * (MaxAdds + MaxCommands) + 1
Owners == [gid : Gids \cup {NoGid}, epoch : Epochs, revision : Revisions]
Unbound == [gid |-> NoGid, epoch |-> 0, revision |-> 0]
Ended == {"complete", "error", "removed"}
Parent(gid) == gid % 2 = 1

\* Every variable keeps its type.
TypeOK ==
  /\ magnet \in BOOLEAN
  /\ gids \in [Gids -> {"absent", "active", "paused"} \cup Ended]
  /\ wire \subseteq Gids /\ reports \in [Gids -> 0 .. MaxReports]
  /\ bound \in Owners /\ adopted \in BOOLEAN
  /\ epoch \in Epochs /\ revision \in Revisions
  /\ ignored \subseteq Gids /\ buffered \subseteq Gids
  /\ carried \in BOOLEAN /\ cancelled \in BOOLEAN
  /\ retrying \subseteq Gids /\ inflight \in Epochs \cup {NoEpoch}
  /\ backoffs \subseteq [gid : Gids, epoch : Epochs]
  /\ adding \cup stale \subseteq [who : {"dispatch", "retry", "recovery"}, epoch : Epochs,
                                 old : Gids \cup {NoGid}, gid : 0 .. Refused]
  /\ resumers \subseteq Owners /\ handlers \subseteq Owners
  /\ shows \in {"ready", "queued", "live", "retrying", "paused", "done", "failed"}
  /\ adds \in 0 .. MaxAdds /\ commands \in 0 .. MaxCommands

Init ==
  /\ magnet \in BOOLEAN
  /\ gids = [g \in Gids |-> "absent"] /\ wire = {} /\ reports = [g \in Gids |-> 0]
  /\ bound = Unbound /\ adopted = FALSE
  /\ epoch = 0 /\ revision = 0
  /\ ignored = {} /\ buffered = {}
  /\ carried = FALSE /\ cancelled = FALSE
  /\ retrying = {} /\ inflight = NoEpoch /\ backoffs = {}
  /\ adding = {} /\ stale = {} /\ resumers = {} /\ handlers = {}
  /\ shows = "ready"
  /\ adds = 0 /\ commands = 0

-----------------------------------------------------------------------------
(* Helpers                                                                 *)

\* A retry and a recovery hold the control lock while they add.
Unlocked == \A add \in adding : add.who = "dispatch"

\* next_aria2_control_epoch moves the owner revision too.
NextEpoch == epoch' = epoch + 1 /\ revision' = revision + 1

\* forget_aria2_gid: a GID the download had is ignored from now on.
Forget ==
  /\ bound' = Unbound /\ adopted' = FALSE
  /\ ignored' = IF bound.gid = NoGid THEN ignored ELSE ignored \cup {bound.gid}
  /\ buffered' = buffered \ {bound.gid}

\* remember_gid, which takes an outcome that came before the mapping.
Remember(gid) ==
  /\ revision' = revision + 1
  /\ bound' = [gid |-> gid, epoch |-> epoch, revision |-> revision + 1]
  /\ adopted' = FALSE
  /\ ignored' = (ignored \ {gid}) \cup ({bound.gid} \ {NoGid, gid})
  /\ buffered' = buffered \ {gid, bound.gid}

\* apply_completion_locked_with_progress_unfenced: the lifecycle is over.
Settle(status) ==
  /\ NextEpoch
  /\ cancelled' = TRUE
  /\ Forget
  /\ carried' = FALSE
  /\ shows' = status

\* map_or_buffer_aria2_event; at most two observers are in a handler.
Observe(gid) ==
  IF gid \in ignored THEN UNCHANGED <<handlers, buffered>>
  ELSE IF bound.gid = gid
       THEN handlers' = handlers \cup {bound} /\ UNCHANGED buffered
       ELSE buffered' = buffered \cup {gid} /\ UNCHANGED handlers

-----------------------------------------------------------------------------
(* The daemon and the two observers of it                                  *)

End(gid) ==
  /\ gids[gid] = "active"
  /\ \E result \in {"complete", "error"} :
       /\ result = "complete" /\ magnet /\ Parent(gid) => gid = bound.gid
       /\ gids' = [gids EXCEPT ![gid] = result]
  /\ wire' = wire \cup {gid}
  /\ UNCHANGED <<magnet, mapping, clocks, carried, cancelled, retryState, adding, stale,
                 resumers, handlers, shows, limits, reports>>

\* The metadata is complete and aria2 has begun the payload it describes.
FollowedBy(gid) ==
  /\ magnet /\ Parent(gid) /\ gid = bound.gid
  /\ gids[gid] = "complete" /\ gids[gid + 1] = "absent"
  /\ gids' = [gids EXCEPT ![gid + 1] = "active"]
  /\ UNCHANGED <<magnet, wire, mapping, clocks, carried, cancelled, retryState, adding, stale,
                 resumers, handlers, shows, limits, reports>>

\* The socket delivers an event, or loses it when it reconnects.
Hear(gid) ==
  /\ gid \in wire /\ Cardinality(handlers) < 2
  /\ wire' = wire \ {gid}
  /\ Observe(gid) \/ UNCHANGED <<handlers, buffered>>
  /\ UNCHANGED <<magnet, gids, bound, adopted, ignored, clocks, carried, cancelled, retryState,
                 adding, stale, resumers, shows, limits, reports>>

\* The poller and the reconciliation ask for the status of the mapped GID.
Poll ==
  /\ bound.gid # NoGid /\ gids[bound.gid] \in Ended
  /\ Cardinality(handlers) < 2 /\ reports[bound.gid] < MaxReports
  /\ reports' = [reports EXCEPT ![bound.gid] = @ + 1]
  /\ Observe(bound.gid)
  /\ UNCHANGED <<magnet, gids, wire, bound, adopted, ignored, clocks, carried, cancelled,
                 retryState, adding, stale, resumers, shows, limits>>

-----------------------------------------------------------------------------
(* An observation under the control lock                                   *)

Unchecked(seen) == seen.gid \notin retrying        \* mutant: no second look at the mapping
StillOwner(seen) ==
  /\ seen.gid \notin retrying
  /\ bound = seen /\ seen.epoch = epoch

EveryGidIsPayload == FALSE                         \* mutant: a magnet's parent is a payload
\* aria2_direct_magnet_needs_child_handoff
NeedsChild == magnet /\ ~adopted

Taken(seen) ==
  /\ seen \in handlers /\ Unlocked
  /\ handlers' = handlers \ {seen}

HandleStale(seen) ==
  /\ Taken(seen) /\ ~StillOwner(seen)
  /\ UNCHANGED <<daemonSide, mapping, clocks, carried, cancelled, retryState, adding, stale,
                 resumers, shows, limits>>

HandleComplete(seen) ==
  /\ Taken(seen) /\ StillOwner(seen)
  /\ gids[seen.gid] = "complete" /\ ~NeedsChild
  /\ Settle("done")
  /\ UNCHANGED <<daemonSide, retryState, adding, stale, resumers, limits>>

\* reconcile_aria2_magnet_parent_completion: the child takes the mapping over as it is, and
\* its own outcome, buffered or read with it, is handled next.
AdoptChild(seen) ==
  LET child == seen.gid + 1 IN
  /\ seen \in handlers /\ Unlocked /\ StillOwner(seen)
  /\ gids[seen.gid] = "complete" /\ NeedsChild
  /\ gids[child] # "absent"
  /\ bound' = [bound EXCEPT !.gid = child] /\ adopted' = TRUE
  /\ ignored' = (ignored \ {child}) \cup {seen.gid}
  /\ buffered' = buffered \ {seen.gid, child}
  /\ handlers' = (handlers \ {seen}) \cup
       (IF child \in buffered \/ gids[child] \in Ended THEN {bound'} ELSE {})
  /\ shows' = "live"
  /\ UNCHANGED <<daemonSide, clocks, carried, cancelled, retryState, adding, stale, resumers,
                 limits>>

\* No child yet: wait for the next observation, at most for a minute.
AwaitChild(seen) ==
  /\ Taken(seen) /\ StillOwner(seen)
  /\ gids[seen.gid] = "complete" /\ NeedsChild
  /\ gids[seen.gid + 1] = "absent"
  /\ \/ UNCHANGED <<mapping, clocks, carried, cancelled, shows>>
     \/ Settle("failed")
  /\ UNCHANGED <<daemonSide, retryState, adding, stale, resumers, limits>>

\* handle_aria2_download_error_inner: an error counts once, a retry at a time.
HandleError(seen) ==
  /\ Taken(seen) /\ StillOwner(seen)
  /\ gids[seen.gid] \in {"error", "removed"}
  /\ \/ /\ cancelled \/ inflight # NoEpoch
        /\ UNCHANGED <<mapping, clocks, carried, cancelled, retryState, shows>>
     \/ /\ ~cancelled /\ inflight = NoEpoch
        /\ Settle("failed")
        /\ UNCHANGED retryState
     \/ /\ ~cancelled /\ inflight = NoEpoch
        /\ retrying' = retrying \cup {seen.gid}
        /\ inflight' = epoch
        /\ backoffs' = backoffs \cup {[gid |-> seen.gid, epoch |-> epoch]}
        /\ shows' = "retrying"
        /\ UNCHANGED <<mapping, clocks, carried, cancelled>>
  /\ UNCHANGED <<daemonSide, adding, stale, resumers, limits>>

-----------------------------------------------------------------------------
(* Adds: a dispatch, the end of a backoff, a connection recovery           *)

Begin(who, old) ==
  adding' = adding \cup {[who |-> who, epoch |-> epoch', old |-> old, gid |-> NoGid]}

\* finish_aria2_retry
Finished(gid, at) ==
  /\ inflight' = IF inflight = at THEN NoEpoch ELSE inflight
  /\ retrying' = retrying \ {gid}

\* dispatch_task, for a row that nothing carries
Dispatch ==
  /\ Unlocked /\ ~carried /\ shows \in {"ready", "failed"}
  /\ adds + Cardinality(adding) < MaxAdds
  /\ NextEpoch
  /\ carried' = TRUE /\ cancelled' = FALSE
  /\ Begin("dispatch", NoGid)
  /\ shows' = "queued"
  /\ UNCHANGED <<daemonSide, mapping, retryState, stale, resumers, handlers, limits>>

\* What the retry worker finds when it has the lock.
RetryIsCurrent(worker) ==
  /\ carried /\ ~cancelled
  /\ worker.epoch = epoch /\ bound.gid = worker.gid

BackoffEnds(worker) ==
  /\ worker \in backoffs
  /\ backoffs' = backoffs \ {worker}
  /\ \/ /\ cancelled \/ (Unlocked /\ ~RetryIsCurrent(worker))
        /\ Finished(worker.gid, worker.epoch)
        /\ UNCHANGED adding
     \/ /\ Unlocked /\ RetryIsCurrent(worker)
        /\ adds + Cardinality(adding) < MaxAdds
        /\ adding' = adding \cup {[who |-> "retry", epoch |-> worker.epoch,
                                   old |-> worker.gid, gid |-> NoGid]}
        /\ UNCHANGED <<retrying, inflight>>
  /\ UNCHANGED <<daemonSide, mapping, clocks, carried, cancelled, stale, resumers, handlers,
                 shows, limits>>

\* refresh_aria2_connections and recreate_uri: the stalled GID is removed before the add.
Recover ==
  /\ Unlocked /\ ~magnet
  /\ bound.gid # NoGid /\ gids[bound.gid] = "active"
  /\ carried /\ ~cancelled /\ bound.epoch = epoch
  /\ adds + Cardinality(adding) < MaxAdds
  /\ gids' = [gids EXCEPT ![bound.gid] = "removed"]
  /\ UNCHANGED clocks
  /\ Begin("recovery", bound.gid)
  /\ UNCHANGED <<magnet, wire, mapping, carried, cancelled, retryState, stale, resumers,
                 handlers, shows, limits, reports>>

\* add_uri: the daemon has the GID before the caller hears of it.
AddUri(add) ==
  /\ add \in adding /\ add.gid = NoGid
  /\ adds' = adds + 1
  /\ \/ /\ gids' = [gids EXCEPT ![2 * adds + 1] = "active"]
        /\ adding' = (adding \ {add}) \cup {[add EXCEPT !.gid = 2 * adds + 1]}
     \/ /\ adding' = (adding \ {add}) \cup {[add EXCEPT !.gid = Refused]}
        /\ UNCHANGED gids
  /\ UNCHANGED <<magnet, wire, mapping, clocks, carried, cancelled, retryState, stale, resumers,
                 handlers, shows, commands, reports>>

Dispatched(add) == add.who = "dispatch" => Unlocked
Current(add) ==
  /\ add.epoch = epoch /\ carried
  /\ add.who # "dispatch" => bound.gid = add.old /\ ~cancelled
Rest(add) ==
  IF add.who = "retry" THEN Finished(add.old, add.epoch) ELSE UNCHANGED <<retrying, inflight>>

AddMapped(add) ==
  /\ add \in adding /\ add.gid \in Gids /\ Dispatched(add)
  /\ Current(add) /\ ~cancelled
  /\ adding' = adding \ {add}
  /\ Remember(add.gid)
  /\ IF add.gid \in buffered
     THEN handlers' = handlers \cup {bound'} /\ UNCHANGED shows
     ELSE shows' = "live" /\ UNCHANGED handlers
  /\ Rest(add)
  /\ UNCHANGED <<daemonSide, epoch, carried, cancelled, backoffs, stale, resumers, limits>>

\* The lifecycle is another one by now: the GID goes again.
AddStale(add) ==
  /\ add \in adding /\ add.gid \in Gids /\ Dispatched(add)
  /\ ~Current(add) \/ cancelled
  /\ adding' = adding \ {add}
  /\ stale' = stale \cup {add}
  /\ ignored' = IF add.who = "recovery" THEN ignored \cup {add.gid} ELSE ignored
  /\ carried' = (carried /\ ~Current(add))
  /\ Rest(add)
  /\ UNCHANGED <<daemonSide, bound, adopted, buffered, clocks, cancelled, backoffs, resumers,
                 handlers, shows, limits>>

\* remove_uri; what a dispatch added is then ignored, what a retry added is not.
RemoveStale(add) ==
  /\ add \in stale
  /\ stale' = stale \ {add}
  /\ gids' = [gids EXCEPT ![add.gid] = IF @ = "active" THEN "removed" ELSE @]
  /\ ignored' = IF add.who = "dispatch" THEN ignored \cup {add.gid} ELSE ignored
  /\ UNCHANGED <<magnet, wire, buffered, bound, adopted, clocks, carried, cancelled, retryState, adding,
                 resumers, handlers, shows, limits, reports>>

\* A failed add of the current lifecycle ends it; a recovery leaves the row paused.
AddRefused(add) ==
  /\ add \in adding /\ add.gid = Refused /\ Dispatched(add)
  /\ adding' = adding \ {add}
  /\ IF Current(add)
     THEN Settle(IF add.who = "recovery" THEN "paused" ELSE "failed")
     ELSE UNCHANGED <<mapping, clocks, carried, cancelled, shows>>
  /\ Rest(add)
  /\ UNCHANGED <<daemonSide, backoffs, stale, resumers, handlers, limits>>

-----------------------------------------------------------------------------
(* pause_download and resume_download                                      *)

Command ==
  /\ Unlocked /\ commands < MaxCommands
  /\ commands' = commands + 1
  /\ UNCHANGED adds

\* forcePause of the mapped GID
Pause ==
  /\ Command
  /\ shows \in {"queued", "live", "retrying"}
  /\ bound.gid # NoGid /\ gids[bound.gid] \in {"active", "paused"}
  /\ gids' = [gids EXCEPT ![bound.gid] = "paused"]
  /\ NextEpoch
  /\ cancelled' = TRUE /\ carried' = carried
  /\ shows' = "paused"
  /\ UNCHANGED <<magnet, wire, mapping, retryState, adding, stale, resumers, handlers, reports>>

\* The daemon has ended the GID: a complete one is settled at once, unless it is only the
\* metadata of a magnet; a failed one is given up.
PauseEnded ==
  /\ Command
  /\ shows \in {"queued", "live", "retrying"}
  /\ bound.gid # NoGid /\ gids[bound.gid] \in Ended
  /\ IF gids[bound.gid] = "complete"
     THEN ~NeedsChild /\ Settle("done")
     ELSE Settle("paused")
  /\ UNCHANGED <<daemonSide, retryState, adding, stale, resumers, handlers>>

\* No GID is mapped: the dispatch is cancelled.
PauseUnmapped ==
  /\ Command
  /\ shows \in {"queued", "live", "retrying"}
  /\ bound.gid = NoGid /\ carried
  /\ NextEpoch
  /\ cancelled' = TRUE /\ carried' = FALSE
  /\ shows' = "paused"
  /\ UNCHANGED <<daemonSide, mapping, retryState, adding, stale, resumers, handlers>>

\* The GID is kept: a worker waits for a permit and unpauses it.
Resume ==
  /\ Command
  /\ shows = "paused"
  /\ bound.gid # NoGid /\ gids[bound.gid] = "paused"
  /\ NextEpoch
  /\ cancelled' = FALSE
  /\ resumers' = resumers \cup {[gid |-> bound.gid, epoch |-> epoch + 1,
                                 revision |-> revision + 1]}
  /\ shows' = "queued"
  /\ UNCHANGED <<daemonSide, mapping, carried, retryState, adding, stale, handlers>>

\* No GID: the row is enqueued anew.
ResumeUnmapped ==
  /\ Command
  /\ shows = "paused" /\ bound.gid = NoGid
  /\ NextEpoch
  /\ cancelled' = TRUE /\ carried' = FALSE
  /\ shows' = "ready"
  /\ UNCHANGED <<daemonSide, mapping, retryState, adding, stale, resumers, handlers>>

\* The worker compares, binds the GID to its epoch (rebind_aria2_gid_epoch) and unpauses; a
\* GID that stays paused takes the row back to paused.
Unpause(worker) ==
  /\ worker \in resumers /\ Unlocked
  /\ resumers' = resumers \ {worker}
  /\ IF cancelled \/ epoch # worker.epoch \/ bound.gid # worker.gid
        \/ revision # worker.revision
     THEN UNCHANGED <<gids, bound, clocks, cancelled, shows>>
     ELSE /\ bound' = worker
          /\ \/ /\ gids' = [gids EXCEPT ![worker.gid] = "active"]
                /\ shows' = "live"
                /\ UNCHANGED <<clocks, cancelled>>
             \/ /\ NextEpoch /\ cancelled' = TRUE
                /\ shows' = "paused"
                /\ UNCHANGED gids
  /\ UNCHANGED <<magnet, wire, adopted, ignored, buffered, carried, retryState, adding, stale,
                 handlers, limits, reports>>

-----------------------------------------------------------------------------

Next ==
  \/ \E g \in Gids : End(g) \/ FollowedBy(g) \/ Hear(g)
  \/ \E h \in handlers :
       HandleStale(h) \/ HandleComplete(h) \/ AdoptChild(h) \/ AwaitChild(h) \/ HandleError(h)
  \/ \E a \in adding : AddUri(a) \/ AddMapped(a) \/ AddStale(a) \/ AddRefused(a)
  \/ \E a \in stale : RemoveStale(a)
  \/ \E w \in backoffs : BackoffEnds(w)
  \/ \E w \in resumers : Unpause(w)
  \/ Poll \/ Dispatch \/ Recover
  \/ Pause \/ PauseEnded \/ PauseUnmapped \/ Resume \/ ResumeUnmapped

Spec == Init /\ [][Next]_cvars

-----------------------------------------------------------------------------
(* Properties                                                              *)

\* Two transfers never write one download's file, and none runs that nobody watches: a GID
\* the daemon runs is the mapped one, the child that has not been adopted yet, one that an
\* add has not answered with, or one that is being removed; and while the row shows paused,
\* done or failed, the mapped GID does not run.
EveryTransferIsOwned ==
  /\ \A g \in Gids : gids[g] = "active" =>
       \/ g = bound.gid
       \/ g - 1 = bound.gid
       \/ g \in {add.gid : add \in adding \cup stale}
  /\ shows \in {"paused", "done", "failed"} =>
       ~\E g \in Gids : g = bound.gid /\ gids[g] = "active"

\* "A metadata parent is not the user's payload": a row is completed only when the GID with
\* its payload, and the last one it had, is complete.
DoneIsPayload ==
  shows = "done" =>
    \E g \in ignored :
      /\ gids[g] = "complete"
      /\ magnet => ~Parent(g)
      /\ \A later \in Gids : later > g /\ gids[later] # "absent" =>
           \/ later \in {add.gid : add \in adding \cup stale}
           \/ gids[later] \in {"removed", "error"}
=============================================================================
