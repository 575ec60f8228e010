------------------------ MODULE DownloadReplacement ------------------------
(***************************************************************************)
(* Replacing an existing file by a new download (src-tauri/src/lib.rs).    *)
(* enqueue_download moves the user's file to a quarantine beside it, notes *)
(* every phase in a journal and deletes the file only after the download   *)
(* was admitted.  The process may stop between any two steps; the recovery *)
(* of the next start reads the journals.                                   *)
(*                                                                         *)
(* All downloads want the same target path.  A file is its content: the    *)
(* user's original, what somebody else wrote meanwhile, or the output.     *)
(* Bounds: a download is replaced once, somebody else touches the path     *)
(* once, and the process stops MaxStops times.                             *)
(***************************************************************************)
EXTENDS Naturals, FiniteSets

CONSTANTS
  Ids,          \* downloads, all with the same target path
  Nobody,       \* no owner
  MaxStops,     \* how often the process may stop
  Supersedes    \* whether a newer user action may cancel an enqueue

Contents == {"absent", "original", "foreign", "output"}
Phases == {"none", "prepared", "quarantined", "admitted"}
Pcs == {"idle", "stage", "verify", "register", "commit", "decide", "finalize", "forget",
        "link", "unlink", "clear", "disown", "done",
        "recover", "relink", "reunlink", "redisown"}

VARIABLES
  target,       \* the content at the target path
  quarantine,   \* the content of each download's quarantine file
  journal,      \* the phase in each download's journal
  owner,        \* the download that owns the target path in the database
  cmd,          \* the enqueue command of each download, or its recovery
  registered,   \* whether a command that undoes itself has to restore the ownership too
  superseded,   \* downloads whose enqueue was cancelled
  accepted,     \* downloads that were committed to the queue
  admitted,     \* history: downloads whose journal has said "admitted"
  touched,      \* history: what somebody else did to the target path
  stops         \* history: how often the process has stopped

vars == <<target, quarantine, journal, owner, cmd, registered, superseded, accepted,
          admitted, touched, stops>>
files == <<target, quarantine, journal>>

\* Every variable keeps its type.
TypeOK ==
  /\ target \in Contents
  /\ quarantine \in [Ids -> Contents \ {"output"}]
  /\ journal \in [Ids -> Phases]
  /\ owner \in Ids \cup {Nobody}
  /\ cmd \in [Ids -> Pcs]
  /\ registered \in [Ids -> BOOLEAN]
  /\ superseded \subseteq Ids /\ accepted \subseteq Ids /\ admitted \subseteq Ids
  /\ touched \in {"no", "written", "changed", "removed"}
  /\ stops \in 0 .. MaxStops

Init ==
  /\ target = "original"
  /\ quarantine = [id \in Ids |-> "absent"]
  /\ journal = [id \in Ids |-> "none"]
  /\ owner = Nobody
  /\ cmd = [id \in Ids |-> "idle"]
  /\ registered = [id \in Ids |-> FALSE]
  /\ superseded = {} /\ accepted = {} /\ admitted = {}
  /\ touched = "no"
  /\ stops = 0

-----------------------------------------------------------------------------
GoTo(id, pc) == cmd' = [cmd EXCEPT ![id] = pc]
SetJournal(id, phase) == journal' = [journal EXCEPT ![id] = phase]
SetQuarantine(id, content) == quarantine' = [quarantine EXCEPT ![id] = content]

LockForgotten == TRUE        \* mutant: commands of one target overlap
\* lock_download_targets: one command at a time has the target; the recovery runs
\* before any command.
TargetFree == \A id \in Ids : cmd[id] \in {"idle", "done"}

-----------------------------------------------------------------------------
(* prepare_download_replacement                                            *)

\* The conflict dialog has shown the original and its fingerprint is asked for.
Prepare(id) ==
  /\ TargetFree
  /\ cmd[id] = "idle"
  /\ owner = Nobody
  /\ \/ target = "original" /\ SetJournal(id, "prepared") /\ GoTo(id, "stage")
     \/ target = "absent" /\ UNCHANGED journal /\ GoTo(id, "register")
  /\ UNCHANGED <<target, quarantine, owner, registered, superseded, accepted, admitted,
                 touched, stops>>

\* The rename takes what is there now, or fails and drops the journal.
Stage(id) ==
  /\ cmd[id] = "stage"
  /\ \/ /\ target # "absent"
        /\ target' = "absent"
        /\ SetQuarantine(id, target)
        /\ GoTo(id, "verify")
        /\ UNCHANGED journal
     \/ /\ target = "absent"
        /\ SetJournal(id, "none")
        /\ GoTo(id, "done")
        /\ UNCHANGED <<target, quarantine>>
  /\ UNCHANGED <<owner, registered, superseded, accepted, admitted, touched, stops>>

\* The staged file is checked against the fingerprint; the write of the next phase may
\* fail.
Verify(id) ==
  /\ cmd[id] = "verify"
  /\ \/ /\ quarantine[id] = "original"
        /\ SetJournal(id, "quarantined")
        /\ GoTo(id, "register")
     \/ UNCHANGED journal /\ GoTo(id, "link")
  /\ UNCHANGED <<target, quarantine, owner, registered, superseded, accepted, admitted,
                 touched, stops>>

-----------------------------------------------------------------------------
(* enqueue_download_locked                                                 *)

\* register_download_ownership, or a failure that undoes the replacement
Register(id) ==
  /\ cmd[id] = "register"
  /\ registered' = [registered EXCEPT ![id] = TRUE]
  /\ \/ owner' = id /\ GoTo(id, "commit")
     \/ UNCHANGED owner /\ GoTo(id, "link")
  /\ UNCHANGED <<files, superseded, accepted, admitted, touched, stops>>

\* commit_reserved_enqueue_with_finalizer: the finalizer writes "admitted"
\* (mark_download_replacement_admitted), or fails.
Commit(id) ==
  /\ cmd[id] = "commit"
  /\ id \notin superseded
  /\ \/ /\ journal[id] # "none"
        /\ SetJournal(id, "admitted")
        /\ admitted' = admitted \cup {id}
        /\ GoTo(id, "decide")
     \/ /\ journal[id] = "none"
        /\ GoTo(id, "decide")
        /\ UNCHANGED <<journal, admitted>>
     \/ GoTo(id, "link") /\ UNCHANGED <<journal, admitted>>
  /\ UNCHANGED <<target, quarantine, owner, registered, superseded, accepted, touched, stops>>

CommitRefused(id) ==
  /\ cmd[id] = "commit"
  /\ id \in superseded
  /\ GoTo(id, "link")
  /\ UNCHANGED <<files, owner, registered, superseded, accepted, admitted, touched, stops>>

\* A newer user action or an exit that came while the finalizer ran still refuses it.
Decide(id) ==
  /\ cmd[id] = "decide"
  /\ IF id \in superseded
     THEN GoTo(id, "link") /\ UNCHANGED accepted
     ELSE GoTo(id, "finalize") /\ accepted' = accepted \cup {id}
  /\ UNCHANGED <<files, owner, registered, superseded, admitted, touched, stops>>

\* finalize_download_replacement: the quarantine goes first, then the journal.
Finalize(id) ==
  /\ cmd[id] = "finalize"
  /\ \/ /\ quarantine[id] = "original"
        /\ SetQuarantine(id, "absent")
        /\ GoTo(id, "forget")
     \/ /\ quarantine[id] = "absent"
        /\ GoTo(id, "forget")
        /\ UNCHANGED quarantine
     \/ GoTo(id, "done") /\ UNCHANGED quarantine    \* inspection or removal failed
  /\ UNCHANGED <<target, journal, owner, registered, superseded, accepted, admitted,
                 touched, stops>>

Forget(id) ==
  /\ cmd[id] = "forget"
  /\ SetJournal(id, "none")
  /\ GoTo(id, "done")
  /\ UNCHANGED <<target, quarantine, owner, registered, superseded, accepted, admitted,
                 touched, stops>>

-----------------------------------------------------------------------------
(* restore_download_replacement and restore_quarantine_file_without_replacing *)

AfterRestore(id) == IF registered[id] THEN "disown" ELSE "done"

LinkOver(id) == quarantine[id] # "absent"          \* mutant: rename over what is there
\* hard_link fails where a file is
CanLink(id) == quarantine[id] # "absent" /\ target = "absent"

\* Without a quarantine, or with a new file at the target, the journal is retained.
Link(id) ==
  /\ cmd[id] = "link"
  /\ IF CanLink(id)
     THEN target' = quarantine[id] /\ GoTo(id, "unlink")
     ELSE UNCHANGED target /\ GoTo(id, AfterRestore(id))
  /\ UNCHANGED <<quarantine, journal, owner, registered, superseded, accepted, admitted,
                 touched, stops>>

Unlink(id) ==
  /\ cmd[id] = "unlink"
  /\ SetQuarantine(id, "absent")
  /\ GoTo(id, "clear")
  /\ UNCHANGED <<target, journal, owner, registered, superseded, accepted, admitted,
                 touched, stops>>

Clear(id) ==
  /\ cmd[id] = "clear"
  /\ SetJournal(id, "none")
  /\ GoTo(id, AfterRestore(id))
  /\ UNCHANGED <<target, quarantine, owner, registered, superseded, accepted, admitted,
                 touched, stops>>

DisownNobody(id) == UNCHANGED owner                \* mutant: the ownership stays
\* restore_download_ownership: the snapshot taken before never has the target.
DropOwnership(id) == owner' = IF owner = id THEN Nobody ELSE owner

Disown(id) ==
  /\ cmd[id] = "disown"
  /\ DropOwnership(id)
  /\ GoTo(id, "done")
  /\ UNCHANGED <<files, registered, superseded, accepted, admitted, touched, stops>>

-----------------------------------------------------------------------------
(* recover_download_replacement_journals                                   *)

OwnedByIt(id) == owner = id
CommittedByPhase(id) == journal[id] \in {"quarantined", "admitted"}   \* mutant
Committed(id) == journal[id] = "admitted"

\* The recovery removes the quarantine of an admitted replacement, ...
Discards(id) ==
  /\ Committed(id)
  /\ \/ OwnedByIt(id)
     \/ owner = Nobody /\ target # "absent"
\* ... puts the file of an unfinished one back where nothing is in the way, ...
Restores(id) ==
  /\ quarantine[id] # "absent"
  /\ target = "absent"
  /\ \/ OwnedByIt(id) /\ ~Committed(id)
     \/ owner = Nobody
\* ... and drops a journal that is about nothing.
Empty(id) == owner = Nobody /\ quarantine[id] = "absent" /\ target = "absent"

\* A quarantine that is not the original, and everything ambiguous, is left alone.
Recover(id) ==
  /\ cmd[id] = "recover"
  /\ LET intact == quarantine[id] \in {"absent", "original"} IN
     \/ /\ intact /\ Discards(id)
        /\ SetQuarantine(id, "absent")
        /\ GoTo(id, "forget")
     \/ /\ intact /\ ~Discards(id) /\ Restores(id)
        /\ GoTo(id, "relink")
        /\ UNCHANGED quarantine
     \/ /\ intact /\ ~Discards(id) /\ ~Restores(id) /\ Empty(id)
        /\ GoTo(id, "forget")
        /\ UNCHANGED quarantine
     \/ /\ ~intact \/ ~(Discards(id) \/ Restores(id) \/ Empty(id))
        /\ GoTo(id, "done")
        /\ UNCHANGED quarantine
  /\ UNCHANGED <<target, journal, owner, registered, superseded, accepted, admitted,
                 touched, stops>>

\* restore_quarantine_file_without_replacing_sync
Relink(id) ==
  /\ cmd[id] = "relink"
  /\ IF CanLink(id)
     THEN target' = quarantine[id] /\ GoTo(id, "reunlink")
     ELSE UNCHANGED target /\ GoTo(id, "done")
  /\ UNCHANGED <<quarantine, journal, owner, registered, superseded, accepted, admitted,
                 touched, stops>>

Reunlink(id) ==
  /\ cmd[id] = "reunlink"
  /\ SetQuarantine(id, "absent")
  /\ GoTo(id, "redisown")
  /\ UNCHANGED <<target, journal, owner, registered, superseded, accepted, admitted,
                 touched, stops>>

Redisown(id) ==
  /\ cmd[id] = "redisown"
  /\ DropOwnership(id)
  /\ GoTo(id, "forget")
  /\ UNCHANGED <<files, registered, superseded, accepted, admitted, touched, stops>>

-----------------------------------------------------------------------------
(* The world around.                                                       *)

\* cancel_enqueue_generation takes no lock.
Supersede(id) ==
  /\ Supersedes
  /\ cmd[id] \in {"register", "commit", "decide"}
  /\ superseded' = superseded \cup {id}
  /\ UNCHANGED <<files, owner, cmd, registered, accepted, admitted, touched, stops>>

\* Somebody else writes to the path, changes the original or removes it.
Touch ==
  /\ touched = "no"
  /\ \/ target = "absent" /\ target' = "foreign" /\ touched' = "written"
     \/ target = "original" /\ target' = "foreign" /\ touched' = "changed"
     \/ target = "original" /\ target' = "absent" /\ touched' = "removed"
  /\ UNCHANGED <<quarantine, journal, owner, cmd, registered, superseded, accepted,
                 admitted, stops>>

\* The transfer of an accepted download writes its output.
Output(id) ==
  /\ id \in accepted
  /\ cmd[id] = "done"
  /\ owner = id
  /\ target = "absent"
  /\ target' = "output"
  /\ UNCHANGED <<quarantine, journal, owner, cmd, registered, superseded, accepted,
                 admitted, touched, stops>>

\* The process stops and starts again; the recovery visits every journal.
Stop ==
  /\ stops < MaxStops
  /\ stops' = stops + 1
  /\ cmd' = [id \in Ids |-> IF journal[id] # "none" THEN "recover" ELSE "done"]
  /\ UNCHANGED <<files, owner, registered, superseded, accepted, admitted, touched>>

-----------------------------------------------------------------------------
Step(id) ==
  \/ Prepare(id) \/ Stage(id) \/ Verify(id) \/ Register(id)
  \/ Commit(id) \/ CommitRefused(id) \/ Decide(id) \/ Finalize(id) \/ Forget(id)
  \/ Link(id) \/ Unlink(id) \/ Clear(id) \/ Disown(id)
  \/ Recover(id) \/ Relink(id) \/ Reunlink(id) \/ Redisown(id)
  \/ Supersede(id) \/ Output(id)

Next == (\E id \in Ids : Step(id)) \/ Touch \/ Stop

Spec == Init /\ [][Next]_vars

-----------------------------------------------------------------------------
(* Properties.                                                             *)

Somewhere(content) == target = content \/ \E id \in Ids : quarantine[id] = content

\* Whatever fails and wherever the process stops, the user's file is at its path or in
\* a quarantine until some replacement was durably admitted.
OriginalSurvives ==
  touched \in {"changed", "removed"} \/ admitted # {} \/ Somewhere("original")

\* A file that somebody else has written meanwhile is neither overwritten by a restore
\* nor deleted with a quarantine.
ForeignFileSurvives == touched \in {"written", "changed"} => Somewhere("foreign")

\* The ownership record decides whose files a removal may delete: a command that was
\* refused leaves no download behind as the owner of the user's file.
OwnsOnlyItsOutput ==
  stops = 0 => \A id \in Ids : owner = id /\ cmd[id] = "done" => target # "original"
=============================================================================
