----------------------------- MODULE MagnetProbe ----------------------------
(***************************************************************************)
(* The resolution of a magnet link (resolve_magnet_metadata in lib.rs and  *)
(* torrent_probe.rs): aria2 downloads the metadata under a GID the program *)
(* has chosen, in a directory of its own, and both go again: by the        *)
(* command, by what its guard spawns when it is dropped, or by the reaper  *)
(* of the next start.  A first attempt that fails may be repeated with     *)
(* another resolver.                                                       *)
(*                                                                         *)
(* One command of two attempts; attempt a asks for GID a, in directory a.  *)
(* Bounds: MaxProbeFaults calls of aria2 that fail, MaxMoments of the      *)
(* daemon's exit, the command's cancellation and the program's restart.    *)
(* Left out: the metadata itself, headers, proxies and resolvers, and that *)
(* a timer runs out is a choice.                                           *)
(***************************************************************************)
EXTENDS Naturals, FiniteSets

CONSTANTS MaxProbeFaults, MaxMoments

Attempts == {1, 2}
Steps == {"start", "leased", "add", "poll", "clean", "settle", "verify", "purge", "retry",
          "remake", "failed", "kept", "finish", "over"}

VARIABLES
  step, attempt, \* the command, and its attempt
  bytes,         \* it has read the metadata
  lease,         \* the directory is registered as being in use
  held,          \* what the guard of the attempt holds: an add, a planned or a known GID
  left,          \* what a dropped guard left to its clean-up, and how far that is
  request,       \* the addUri of each attempt
  transfer,      \* whose transfer has the GID, and whether it runs
  unwatched,     \* GIDs aria2 accepted when nobody waited for them any more
  directory,     \* the directory at the path: 0 none, else the attempt it was made for
  daemon,        \* aria2: up, exited, replaced by another process
  reaper,        \* the sweep of the start: to come, about to remove, done
  probeFaults, moments

pvars == <<step, attempt, bytes, lease, held, left, request, transfer, unwatched, directory,
           daemon, reaper, probeFaults, moments>>
world == <<request, transfer, unwatched, daemon, reaper, moments>>

\* Every variable keeps its type.
TypeOK ==
  /\ step \in Steps /\ attempt \in Attempts /\ bytes \in BOOLEAN /\ lease \in BOOLEAN
  /\ held \in {"none", "pending", "planned", "known"}
  /\ left \in [what : {"none", "pending", "planned", "known", "dir"}, of : Attempts]
  /\ request \in [Attempts -> {"none", "sent", "lost", "done"}]
  /\ transfer \in [Attempts -> {"none", "other", "running", "ended", "seized"}]
  /\ unwatched \subseteq Attempts /\ directory \in {0, 1, 2}
  /\ daemon \in {"up", "exited", "replaced"}
  /\ reaper \in {"due", "removing", "done", "reaped"}
  /\ probeFaults \in 0 .. MaxProbeFaults /\ moments \in 0 .. MaxMoments

Nothing == [what |-> "none", of |-> 1]

\* A GID may by chance be that of another transfer.  At a restart the path may hold the
\* directory of a probe that was cut short.
Init ==
  /\ step = "start" /\ attempt = 1 /\ bytes = FALSE /\ lease = FALSE
  /\ held = "none" /\ left = Nothing
  /\ request = [a \in Attempts |-> "none"]
  /\ \E others \in SUBSET Attempts :
       transfer = [a \in Attempts |-> IF a \in others THEN "other" ELSE "none"]
  /\ unwatched = {} /\ directory = 0 /\ daemon = "up" /\ reaper = "due"
  /\ probeFaults = 0 /\ moments = 0

-----------------------------------------------------------------------------
(* aria2                                                                   *)

Watched(a) == \/ a = attempt /\ held # "none"
              \/ a = left.of /\ left.what \in {"pending", "planned", "known"}

\* An addUri is accepted, or refused because the GID is taken; its answer may be lost, and
\* it may be accepted after the program has given it up.
Accept(a) ==
  /\ request[a] \in {"sent", "lost"} /\ daemon = "up"
  /\ request' = [request EXCEPT ![a] = "done"]
  /\ transfer' = [transfer EXCEPT ![a] = IF @ = "other" THEN "other" ELSE "running"]
  /\ unwatched' = IF Watched(a) THEN unwatched ELSE unwatched \cup {a}
  /\ UNCHANGED <<step, attempt, bytes, lease, held, left, directory, daemon, reaper,
                 probeFaults, moments>>

\* The metadata is complete, or an error ends the transfer.
End(a) ==
  /\ transfer[a] = "running"
  /\ transfer' = [transfer EXCEPT ![a] = "ended"]
  /\ UNCHANGED <<step, attempt, bytes, lease, held, left, request, unwatched, directory,
                 daemon, reaper, probeFaults, moments>>

Moment == moments < MaxMoments /\ moments' = moments + 1

\* The process of aria2 ends with every transfer; its supervisor starts another.
DaemonExits ==
  /\ daemon = "up" /\ Moment
  /\ daemon' = "exited"
  /\ transfer' = [a \in Attempts |-> IF transfer[a] = "running" THEN "none" ELSE transfer[a]]
  /\ request' = [a \in Attempts |-> IF request[a] = "lost" THEN "done" ELSE request[a]]
  /\ UNCHANGED <<step, attempt, bytes, lease, held, left, unwatched, directory, reaper,
                 probeFaults>>

DaemonReplaced ==
  /\ daemon = "exited"
  /\ daemon' = "replaced"
  /\ UNCHANGED <<step, attempt, bytes, lease, held, left, request, transfer, unwatched,
                 directory, reaper, probeFaults, moments>>

\* A call gets no answer; a client of the first daemon never does from the second.
Unanswered == \/ daemon # "up" /\ UNCHANGED probeFaults
              \/ daemon = "up" /\ probeFaults < MaxProbeFaults /\ probeFaults' = probeFaults + 1
Answered == daemon = "up" /\ UNCHANGED probeFaults

\* The program stops waiting for an addUri.
GivenUp(a) == [request EXCEPT ![a] = IF @ # "sent" THEN @
                                     ELSE IF daemon = "up" THEN "lost" ELSE "done"]

-----------------------------------------------------------------------------
(* An attempt                                                              *)

LateLease == step' = "leased" /\ lease' = FALSE /\ directory' = 1   \* mutant: made first
\* protect_torrent_session_artifact comes before create_dir_all.
Begin == step' = "leased" /\ lease' = TRUE /\ UNCHANGED directory

Start ==
  /\ step = "start"
  /\ Begin
  /\ UNCHANGED <<attempt, bytes, held, left, probeFaults, world>>

MakeDirectory ==
  /\ step = "leased"
  /\ step' = "add" /\ lease' = TRUE /\ directory' = 1
  /\ held' = "pending" /\ request' = [request EXCEPT ![1] = "sent"]
  /\ UNCHANGED <<attempt, bytes, left, transfer, unwatched, daemon, reaper, probeFaults,
                 moments>>

\* The answer of addUri: the GID is known.
Added ==
  /\ step = "add" /\ Answered
  /\ request[attempt] = "done" /\ transfer[attempt] \in {"running", "ended"}
  /\ held' = "known" /\ step' = "poll"
  /\ UNCHANGED <<attempt, bytes, lease, left, directory, world>>

\* It fails, or its answer does not come; the request may be on its way still.
NotAdded ==
  /\ step = "add"
  /\ \/ request[attempt] = "done" /\ transfer[attempt] = "other" /\ Answered
        /\ UNCHANGED request
     \/ Unanswered /\ request' = GivenUp(attempt)
  /\ held' = "planned" /\ step' = "verify"
  /\ UNCHANGED <<attempt, bytes, lease, left, transfer, unwatched, directory, daemon, reaper,
                 moments>>

\* The deadline for the metadata is over while the request is pending.
AddOverdue ==
  /\ step = "add" /\ step' = "settle"
  /\ UNCHANGED <<attempt, bytes, lease, held, left, directory, probeFaults, world>>

\* The loop of tellStatus ends: with the file, with an error or at the deadline.
Polled ==
  /\ step = "poll"
  /\ \/ transfer[attempt] = "ended" /\ Answered /\ bytes' \in BOOLEAN
     \/ transfer[attempt] # "ended" /\ UNCHANGED <<bytes, probeFaults>>
     \/ Unanswered /\ UNCHANGED bytes
  /\ step' = "clean"
  /\ UNCHANGED <<attempt, lease, held, left, directory, world>>

\* What forceRemove stops is what aria2 has under the GID, whosever it is.
Removed(a) == [transfer EXCEPT ![a] = IF @ = "running" THEN "ended"
                                      ELSE IF @ = "other" THEN "seized" ELSE @]

\* cleanup_metadata_probe: forceRemove until aria2 says the GID has stopped or is gone; an
\* answer that is lost may have done its work.
CleanWorks(a) == Answered /\ transfer' = Removed(a)
CleanFails(a) == Unanswered /\ transfer' \in {transfer, Removed(a)}

\* After a known GID, whether there are bytes or not.
Clean ==
  /\ step = "clean"
  /\ \/ CleanWorks(attempt) /\ held' = "none" /\ step' = IF bytes THEN "finish" ELSE "failed"
     \/ CleanFails(attempt) /\ step' = "kept" /\ UNCHANGED held
  /\ UNCHANGED <<attempt, bytes, lease, left, request, unwatched, directory, daemon, reaper,
                 moments>>

\* cleanup_until, which waits for a pending add first.
Settle ==
  /\ step = "settle"
  /\ \/ /\ request[attempt] = "done" /\ transfer[attempt] \in {"running", "ended"}
        /\ Answered /\ held' = "known" /\ step' = "purge" /\ UNCHANGED request
     \/ /\ request[attempt] = "done" /\ transfer[attempt] = "other"
        /\ Answered /\ held' = "planned" /\ step' = "verify" /\ UNCHANGED request
     \/ Unanswered /\ held' = "planned" /\ step' = "verify" /\ request' = GivenUp(attempt)
     \/ step' = "kept" /\ UNCHANGED <<held, request, probeFaults>>
  /\ UNCHANGED <<attempt, bytes, lease, left, transfer, unwatched, directory, daemon, reaper,
                 moments>>

OwnsAny(a) == transfer[a] # "none"                 \* mutant: the GID alone is enough
\* verify_probe_gid_ownership: a running GID is ours when it works in the directory that
\* was recorded, or at its path when there is no directory any more.
Owns(a) == transfer[a] = "running" /\ directory \in {0, a}

Verify ==
  /\ step = "verify"
  /\ \/ Answered /\ Owns(attempt) /\ held' = "known" /\ step' = "purge"
     \/ Answered /\ ~Owns(attempt) /\ held' = "none" /\ step' = "failed"
     \/ Unanswered /\ step' = "kept" /\ UNCHANGED held
  /\ UNCHANGED <<attempt, bytes, lease, left, directory, world>>

Purge ==
  /\ step = "purge"
  /\ \/ CleanWorks(attempt) /\ held' = "none" /\ step' = "failed"
     \/ CleanFails(attempt) /\ step' = "kept" /\ UNCHANGED held
  /\ UNCHANGED <<attempt, bytes, lease, left, request, unwatched, directory, daemon, reaper,
                 moments>>

-----------------------------------------------------------------------------
(* Between the attempts and after them                                     *)

FallsBackAnyway(kept) == attempt = 1               \* mutant: after any failure
\* allows_resolver_fallback: never after a clean-up that failed.
FallsBack(kept) == attempt = 1 /\ ~kept

Retry ==
  /\ \/ step = "failed" /\ FallsBack(FALSE)
     \/ step = "kept" /\ FallsBack(TRUE)
  /\ directory' = 0 /\ step' = "remake"
  /\ UNCHANGED <<attempt, bytes, lease, held, left, probeFaults, world>>

Remake ==
  /\ step = "remake"
  /\ directory' = 2 /\ attempt' = 2
  /\ held' = "pending" /\ request' = [request EXCEPT ![2] = "sent"] /\ step' = "add"
  /\ UNCHANGED <<bytes, lease, left, transfer, unwatched, daemon, reaper, probeFaults,
                 moments>>

\* The end of the command: the lease goes, and the guard is dropped with what it holds.
Dropped(removed) ==
  /\ step' = "over" /\ lease' = FALSE /\ held' = "none"
  /\ left' = IF held = "none" THEN left ELSE [what |-> held, of |-> attempt]
  /\ directory' = IF removed THEN 0 ELSE directory

GiveUp == step = "failed" /\ Dropped(TRUE) /\ UNCHANGED <<attempt, bytes, probeFaults, world>>
Succeed == step = "finish" /\ Dropped(TRUE) /\ UNCHANGED <<attempt, bytes, probeFaults, world>>

\* A clean-up has failed: the directory stays unless the process of aria2 has exited.
Keep ==
  /\ step = "kept"
  /\ Dropped(daemon = "exited")
  /\ UNCHANGED <<attempt, bytes, probeFaults, world>>

\* The future of the command is dropped at one of its awaits, or creating the second
\* directory fails.
Cancel ==
  /\ step \notin {"start", "over"} /\ Moment
  /\ Dropped(FALSE)
  /\ bytes' = FALSE
  /\ UNCHANGED <<attempt, request, transfer, unwatched, daemon, reaper, probeFaults>>

-----------------------------------------------------------------------------
(* What a dropped guard spawns                                             *)

Leave(what) == left' = [left EXCEPT !.what = what]
Quit == left' = Nothing

LeftPending ==
  /\ left.what = "pending"
  /\ \/ /\ request[left.of] = "done" /\ transfer[left.of] \in {"running", "ended"}
        /\ Answered /\ Leave("known") /\ UNCHANGED request
     \/ /\ request[left.of] = "done" /\ transfer[left.of] = "other" /\ Answered
        /\ Leave("planned") /\ UNCHANGED request
     \/ Unanswered /\ Leave("planned") /\ request' = GivenUp(left.of)
     \/ Quit /\ UNCHANGED <<request, probeFaults>>
  /\ UNCHANGED <<step, attempt, bytes, lease, held, transfer, unwatched, directory, daemon,
                 reaper, moments>>

LeftPlanned ==
  /\ left.what = "planned"
  /\ \/ Answered /\ Leave(IF Owns(left.of) THEN "known" ELSE "dir")
     \/ Unanswered /\ Quit
  /\ UNCHANGED <<step, attempt, bytes, lease, held, directory, world>>

DropAnyway == Leave("dir")                         \* mutant: after a failed clean-up too
\* Three tries, and then the directory is left to the reaper.
LeftOver == Quit

LeftKnown ==
  /\ left.what = "known"
  /\ \/ CleanWorks(left.of) /\ Leave("dir")
     \/ CleanFails(left.of) /\ LeftOver
  /\ UNCHANGED <<step, attempt, bytes, lease, held, request, unwatched, directory, daemon,
                 reaper, moments>>

LeftDirectory ==
  /\ left.what = "dir"
  /\ directory' = 0 /\ Quit
  /\ UNCHANGED <<step, attempt, bytes, lease, held, probeFaults, world>>

-----------------------------------------------------------------------------
(* The sweep of the start: remove_orphaned_probe_dirs                      *)

\* An entry that is not in use is removed, in a second step.
Inspect ==
  /\ reaper = "due" /\ directory # 0 /\ ~lease
  /\ reaper' = "removing"
  /\ UNCHANGED <<step, attempt, bytes, lease, held, left, request, transfer, unwatched,
                 directory, daemon, probeFaults, moments>>

Skip ==
  /\ reaper = "due"
  /\ directory = 0 \/ lease
  /\ reaper' = "done"
  /\ UNCHANGED <<step, attempt, bytes, lease, held, left, request, transfer, unwatched,
                 directory, daemon, probeFaults, moments>>

Reap ==
  /\ reaper = "removing"
  /\ directory' = 0 /\ reaper' = "reaped"
  /\ UNCHANGED <<step, attempt, bytes, lease, held, left, request, transfer, unwatched,
                 daemon, probeFaults, moments>>

\* The program stops, aria2 with it, and starts again: only the directory is left.
Restart ==
  /\ Moment
  /\ step' = "over" /\ bytes' = FALSE /\ lease' = FALSE /\ held' = "none" /\ left' = Nothing
  /\ request' = [a \in Attempts |-> "done"] /\ transfer' = [a \in Attempts |-> "none"]
  /\ daemon' = "up" /\ reaper' = "due"
  /\ UNCHANGED <<attempt, unwatched, directory, probeFaults>>

Next ==
  \/ \E a \in Attempts : Accept(a) \/ End(a)
  \/ DaemonExits \/ DaemonReplaced
  \/ Start \/ MakeDirectory \/ Added \/ NotAdded \/ AddOverdue \/ Polled \/ Clean
  \/ Settle \/ Verify \/ Purge \/ Retry \/ Remake \/ GiveUp \/ Succeed \/ Keep \/ Cancel
  \/ LeftPending \/ LeftPlanned \/ LeftKnown \/ LeftDirectory
  \/ Inspect \/ Skip \/ Reap \/ Restart

Spec == Init /\ [][Next]_pvars

-----------------------------------------------------------------------------
(* Properties                                                              *)

\* "neither case is safe to force-remove": the transfer of somebody else that has the GID
\* a probe has chosen is left alone, whichever answers are lost.
OthersAreSpared == \A a \in Attempts : transfer[a] # "seized"

\* "Do not delete a directory while Aria2 may still own the GID": while a probe's GID runs
\* its directory is there.  Two cases are left out: a GID that aria2 accepts when nobody
\* waits for it any more, and the sweep of the start, which takes the directory of a
\* command that has just ended for one of an earlier process.
DirectoryOutlivesGid ==
  \A a \in Attempts \ unwatched :
    transfer[a] = "running" => directory = a \/ reaper = "reaped"

\* A command that waits for its metadata has its directory, and one that has them leaves
\* no transfer behind.
ProbeIsWhole ==
  /\ step \in {"add", "poll"} => directory = attempt
  /\ step = "over" /\ bytes => \A a \in Attempts \ unwatched : transfer[a] # "running"
=============================================================================
