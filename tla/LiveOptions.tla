----------------------------- MODULE LiveOptions -----------------------------
(***************************************************************************)
(* The options of a torrent while it lives (queue.rs and lib.rs): the      *)
(* limits a running transfer takes, the web seeds of its files and the     *)
(* selection of its files.  Each of them is in several places - the row,   *)
(* the database, the payload a retry starts from, the ownership registry   *)
(* and the daemon - and a command writes them one after the other, with    *)
(* an undo for every step that fails.                                      *)
(*                                                                         *)
(* One torrent of two files.  Seeds 1 to 3 are web seeds: 1 is of the      *)
(* first file, 2 and 3 of the second, and 3 is in the metadata too.  A     *)
(* selection is a number.  URIs of a file are a set, as the code reads     *)
(* them.  Bounds: MaxEdits commands, MaxTransfers transfers.  No window of *)
(* this version calls set_torrent_web_seeds: the model lets the main       *)
(* window call it and show what it returns.  Left out: the renderer's      *)
(* saves (RowSnapshots), retries (Aria2Control), and a second dispatch     *)
(* while the first still attaches its web seeds.                           *)
(***************************************************************************)
EXTENDS Naturals

CONSTANTS MaxEdits, MaxTransfers

VARIABLES
  mode,        \* where the torrent is
  payload,     \* the pending task's payload, then the entry of aria2_payloads
  asked,       \* the payload of an enqueue that waits for the control lock
  uris, caps,  \* web seeds and limits of the daemon's transfer
  alive,       \* the daemon still runs it
  row,         \* the renderer's row
  saved,       \* seeds and selection in the database
  owned,       \* the selection whose paths the ownership registry has
  command,     \* the command that holds the control lock
  install,     \* the dispatcher's attachment of the first web seeds
  answer,      \* a selection the Properties window has not shown, 0 for none
  session,     \* that window's action is still the latest of its session
  drift,       \* what the daemon has may differ: a failed undo, a lost answer, first
               \* web seeds that a pause kept from being attached
  missed,      \* the seeds were saved while no transfer could take them
  late,        \* the payload was older than the database
  orphaned,    \* the window was gone when its selection was answered
  edits, transfers

ovars == <<mode, payload, asked, uris, caps, alive, row, saved, owned, command, install,
           answer, session, drift, missed, late, orphaned, edits, transfers>>
transfer == <<uris, caps, alive>>
window == <<answer, session, orphaned>>

Seeds == 1 .. 3
Metadata == {3}
FileSeeds == {{1}, {2, 3}}
Caps == {"speed", "upload", "peers"}
Options == [seeds : SUBSET Seeds, caps : SUBSET Caps, sel : 1 .. MaxEdits + 1]
NoOptions == [seeds |-> {}, caps |-> {}, sel |-> 0]
Free == command.kind = "none"
NoCommand == [kind |-> "none", step |-> "none", want |-> {}, sel |-> 0, own |-> 1,
              before |-> {}, old |-> {}, was |-> {}, aim |-> {}, left |-> {}, tried |-> {}]

\* Every variable keeps its type.
TypeOK ==
  /\ mode \in {"idle", "queued", "taken", "adding", "live", "paused"}
  /\ payload \in Options \cup {NoOptions} /\ asked \in Options \cup {NoOptions}
  /\ uris \subseteq Seeds /\ caps \subseteq Caps /\ alive \in BOOLEAN
  /\ row \in Options /\ saved \in [seeds : SUBSET Seeds, sel : 1 .. MaxEdits + 1]
  /\ owned \in 1 .. MaxEdits + 1
  /\ command.kind \in {"none", "seeds", "install", "select"}
  /\ command.step \in {"none", "read", "change", "undo", "unsave", "own", "save", "restore"}
  /\ command.left \subseteq SUBSET Seeds /\ command.tried \subseteq SUBSET Seeds
  /\ install \in [step : {"no", "due", "retire"}, fresh : BOOLEAN]
  /\ answer \in 0 .. MaxEdits + 1 /\ session \in BOOLEAN
  /\ drift \in BOOLEAN /\ missed \in BOOLEAN /\ late \in BOOLEAN /\ orphaned \in BOOLEAN
  /\ edits \in 0 .. MaxEdits /\ transfers \in 0 .. MaxTransfers

Init ==
  /\ mode = "idle" /\ payload = NoOptions /\ asked = NoOptions
  /\ uris = {} /\ caps = {} /\ alive = FALSE
  /\ \E seeds \in {{}, {1}} : row = [seeds |-> seeds, caps |-> {}, sel |-> 1]
  /\ saved = [seeds |-> row.seeds, sel |-> 1] /\ owned = 1
  /\ command = NoCommand /\ install = [step |-> "no", fresh |-> FALSE]
  /\ answer = 0 /\ session = FALSE
  /\ drift = FALSE /\ missed = FALSE /\ late = FALSE /\ orphaned = FALSE
  /\ edits = 0 /\ transfers = 0

-----------------------------------------------------------------------------
(* The transfer's life                                                     *)

\* The renderer builds the payload of a start from its row.
Ask ==
  /\ mode = "idle" /\ asked = NoOptions /\ transfers < MaxTransfers
  /\ asked' = row
  /\ UNCHANGED <<mode, payload, transfer, row, saved, owned, command, install, window, drift,
                 missed, late, edits, transfers>>

\* enqueue_download_locked
Enqueue ==
  /\ asked # NoOptions /\ Free /\ mode = "idle"
  /\ mode' = "queued" /\ payload' = asked /\ asked' = NoOptions
  /\ owned' = asked.sel
  /\ missed' = FALSE
  /\ late' = (asked.sel # saved.sel \/ asked.seeds # saved.seeds)
  /\ UNCHANGED <<transfer, row, saved, command, install, window, drift, edits, transfers>>

\* dispatch_one, before the add
Dispatch ==
  /\ mode = "queued" /\ Free /\ install.step = "no" /\ transfers < MaxTransfers
  /\ mode' = "adding"
  /\ transfers' = transfers + 1
  /\ UNCHANGED <<payload, asked, transfer, row, saved, owned, command, install, window, drift,
                 missed, late, edits>>

\* dispatch_one, after the add: the GID is mapped, the lock is dropped
Map ==
  /\ mode = "adding" /\ Free
  /\ mode' = "live" /\ alive' = TRUE
  /\ uris' = Metadata /\ caps' = payload.caps
  /\ install' = IF payload.seeds # {} THEN [step |-> "due", fresh |-> TRUE] ELSE install
  /\ drift' = FALSE
  /\ UNCHANGED <<payload, asked, row, saved, owned, command, window, missed, late, edits,
                 transfers>>

\* The daemon ends the transfer; nobody here knows yet.
End ==
  /\ mode = "live" /\ alive
  /\ alive' = FALSE
  /\ UNCHANGED <<mode, payload, asked, uris, caps, row, saved, owned, command, install, window,
                 drift, missed, late, edits, transfers>>

\* The terminal event is applied under the lock.
Settle ==
  /\ mode = "live" /\ ~alive /\ Free
  /\ mode' = "idle"
  /\ install' = [install EXCEPT !.fresh = FALSE]
  /\ UNCHANGED <<payload, asked, transfer, row, saved, owned, command, window, drift, missed,
                 late, edits, transfers>>

\* pause_download keeps the GID; a pause and a resume move the epoch.
Pause ==
  /\ mode = "live" /\ alive /\ Free
  /\ mode' = "paused"
  /\ install' = [install EXCEPT !.fresh = FALSE]
  /\ UNCHANGED <<payload, asked, transfer, row, saved, owned, command, window, drift, missed,
                 late, edits, transfers>>

Resume ==
  /\ mode = "paused" /\ Free
  /\ mode' = "live"
  /\ UNCHANGED <<payload, asked, transfer, row, saved, owned, command, install, window, drift,
                 missed, late, edits, transfers>>

-----------------------------------------------------------------------------
(* Limits: one RPC under the control lock, then the payload, then the row  *)

Toggle(set, cap) == IF cap \in set THEN set \ {cap} ELSE set \cup {cap}

PayloadFirst(cap, done, heard) ==                  \* mutant: the payload before the answer
  /\ caps' = IF done THEN Toggle(caps, cap) ELSE caps
  /\ payload' = [payload EXCEPT !.caps = Toggle(@, cap)]
  /\ row' = IF done /\ heard THEN [row EXCEPT !.caps = Toggle(@, cap)] ELSE row
  /\ drift' = (drift \/ (done /\ ~heard))

\* The call may be done, refused, or done with its answer lost.
Limit(cap, done, heard) ==
  /\ caps' = IF done THEN Toggle(caps, cap) ELSE caps
  /\ IF done /\ heard
     THEN /\ payload' = [payload EXCEPT !.caps = Toggle(@, cap)]
          /\ row' = [row EXCEPT !.caps = Toggle(@, cap)]
     ELSE UNCHANGED <<payload, row>>
  /\ drift' = (drift \/ (done /\ ~heard))

SetLimit(cap) ==
  /\ mode = "live" /\ Free /\ edits < MaxEdits
  /\ \E done, heard \in BOOLEAN : (done => alive) /\ Limit(cap, done, heard)
  /\ edits' = edits + 1
  /\ UNCHANGED <<mode, asked, uris, alive, saved, owned, command, install, window, missed,
                 late, transfers>>

SetSpeedLimit == SetLimit("speed")
SetUploadLimit == SetLimit("upload")
SetPeerOptions == SetLimit("peers")

-----------------------------------------------------------------------------
(* Web seeds                                                               *)

Active == mode \in {"adding", "live"}

\* set_torrent_web_seeds saves first; only an active transfer is changed live.
SetWebSeeds ==
  /\ Free /\ answer = 0 /\ asked = NoOptions /\ edits < MaxEdits
  /\ \E want \in SUBSET Seeds :
       /\ want # saved.seeds
       /\ saved' = [saved EXCEPT !.seeds = want]
       /\ IF Active
          THEN /\ command' = [NoCommand EXCEPT !.kind = "seeds", !.step = "read",
                                !.want = want, !.before = payload.seeds, !.old = saved.seeds]
               /\ UNCHANGED <<row, missed>>
          ELSE /\ row' = [row EXCEPT !.seeds = want]
               /\ missed' = (mode # "idle")
               /\ UNCHANGED command
  /\ edits' = edits + 1
  /\ UNCHANGED <<mode, payload, asked, transfer, owned, install, window, drift, late, transfers>>

GiveUpSeeds ==
  /\ saved' = [saved EXCEPT !.seeds = command.old]
  /\ command' = NoCommand

\* plan_torrent_web_seed_change refuses URIs that nobody here put there.
Known == command.before \subseteq uris /\ uris \subseteq Metadata \cup command.before
Planned == (uris \ (command.before \ Metadata)) \cup command.want

\* set_aria2_torrent_web_seeds_locked, up to the first change
PlanSeeds ==
  /\ command.kind = "seeds" /\ command.step = "read"
  /\ \/ /\ GiveUpSeeds /\ UNCHANGED payload
     \/ /\ mode = "live" /\ alive /\ Known
        /\ payload' = [payload EXCEPT !.seeds = command.want]
        /\ command' = [command EXCEPT !.step = "change", !.was = uris, !.aim = Planned,
                         !.left = {file \in FileSeeds : Planned \cap file # uris \cap file}]
        /\ UNCHANGED saved
  /\ UNCHANGED <<mode, asked, transfer, row, owned, install, window, drift, missed, late, edits,
                 transfers>>
Answered(file, ok) ==                              \* mutant: a failed call is not on the list
  IF ok THEN command.tried \cup {file} ELSE command.tried
Listed(file, ok) == command.tried \cup {file}

\* One changeUri.  It is on the list of changes before the call is made.
ChangeUris ==
  /\ command.step = "change" /\ command.left # {}
  /\ \E file \in command.left :
       /\ \A other \in command.left : 1 \in other => 1 \in file
       /\ \E done, heard \in BOOLEAN :
            /\ done => alive
            /\ uris' = IF done THEN (uris \ file) \cup (command.aim \cap file) ELSE uris
            /\ command' = [command EXCEPT !.left = @ \ {file}, !.tried = Listed(file, done /\ heard),
                             !.step = IF done /\ heard THEN "change" ELSE "undo"]
  /\ UNCHANGED <<mode, payload, asked, caps, alive, row, saved, owned, install, window, drift,
                 missed, late, edits, transfers>>

\* The read-back has to be what was planned; then the result is saved again.
ReadBack ==
  /\ command.step = "change" /\ command.left = {}
  /\ \/ command' = [command EXCEPT !.step = "undo"] /\ UNCHANGED <<row, saved>>
     \/ /\ alive /\ uris = command.aim
        /\ \/ /\ command' = NoCommand
              /\ IF command.kind = "seeds"
                 THEN /\ row' = [row EXCEPT !.seeds = command.want]
                      /\ saved' = [saved EXCEPT !.seeds = command.want]
                 ELSE UNCHANGED <<row, saved>>
           \/ /\ command.kind = "seeds"
              /\ command' = [command EXCEPT !.step = "unsave"]
              /\ UNCHANGED <<row, saved>>
  /\ UNCHANGED <<mode, payload, asked, transfer, owned, install, window, drift, missed, late,
                 edits, transfers>>

\* rollback_torrent_web_seed_changes, for the files whose undo succeeds
Undone(files) == (uris \ UNION files) \cup (command.was \cap UNION files)

\* An undo, then the payload and the row get back what they had.  An install keeps the
\* payload and takes the lock once more to end its transfer.
Undo ==
  /\ command.step = "undo"
  /\ \E files \in SUBSET command.tried :
       /\ files # {} => alive
       /\ uris' = Undone(files)
       /\ drift' = (drift \/ files # command.tried)
  /\ IF command.kind = "seeds"
     THEN /\ GiveUpSeeds
          /\ payload' = [payload EXCEPT !.seeds = command.before]
          /\ UNCHANGED install
     ELSE /\ command' = NoCommand
          /\ install' = [install EXCEPT !.step = "retire"]
          /\ UNCHANGED <<payload, saved>>
  /\ UNCHANGED <<mode, asked, caps, alive, row, owned, window, missed, late, edits, transfers>>

\* The result could not be saved: the old seeds are set live, and the row is put back.
Unsave ==
  /\ command.step = "unsave"
  /\ \/ /\ alive
        /\ uris' = command.was
        /\ payload' = [payload EXCEPT !.seeds = command.before]
        /\ UNCHANGED drift
     \/ drift' = TRUE /\ UNCHANGED <<uris, payload>>
  /\ GiveUpSeeds
  /\ UNCHANGED <<mode, asked, caps, alive, row, owned, install, window, missed, late, edits,
                 transfers>>

\* install_initial_torrent_web_seeds: the payload's seeds the daemon does not have yet
Install ==
  /\ install.step = "due" /\ Free
  /\ IF mode = "live" /\ alive
     THEN /\ command' = [NoCommand EXCEPT !.kind = "install", !.step = "change", !.was = uris,
                           !.aim = uris \cup payload.seeds,
                           !.left = {{s} : s \in payload.seeds \ uris}]
          /\ install' = [install EXCEPT !.step = "no"]
     ELSE /\ install' = [install EXCEPT !.step = "retire"]
          /\ UNCHANGED command
  /\ UNCHANGED <<mode, payload, asked, transfer, row, saved, owned, window, drift, missed, late,
                 edits, transfers>>

\* A failure is of the transfer it was for, or of none.
Current == Free /\ mode = "live" /\ install.fresh

Retire ==
  /\ install.step = "retire" /\ Free
  /\ install' = [step |-> "no", fresh |-> FALSE]
  /\ IF Current
     THEN mode' = "idle" /\ alive' = FALSE /\ UNCHANGED drift
     ELSE drift' = TRUE /\ UNCHANGED <<mode, alive>>
  /\ UNCHANGED <<payload, asked, uris, caps, row, saved, owned, command, window, missed, late,
                 edits, transfers>>

-----------------------------------------------------------------------------
(* The selection of files                                                  *)

\* set_torrent_file_selection: the pending task is taken out of the queue, a paused
\* transfer is detached.
SelectFiles ==
  /\ mode \in {"idle", "queued", "paused"} /\ Free /\ answer = 0 /\ edits < MaxEdits
  /\ edits' = edits + 1
  /\ session' = TRUE
  /\ \/ /\ mode = "queued" => payload.sel = saved.sel
        /\ mode' = IF mode = "queued" THEN "taken" ELSE "idle"
        /\ command' = [NoCommand EXCEPT !.kind = "select", !.step = "own", !.sel = edits + 2,
                            !.own = owned]
     \/ mode # "idle" /\ UNCHANGED <<mode, command>>
  /\ UNCHANGED <<payload, asked, transfer, row, saved, owned, install, answer, orphaned, drift,
                 missed, late, transfers>>

PutBack == mode' = IF mode = "taken" THEN "queued" ELSE mode

\* register_torrent_output_ownership
OwnSelection ==
  /\ command.step = "own"
  /\ \/ /\ owned' = command.sel
        /\ command' = [command EXCEPT !.step = "save"]
        /\ UNCHANGED mode
     \/ PutBack /\ command' = NoCommand /\ UNCHANGED owned
  /\ UNCHANGED <<payload, asked, transfer, row, saved, install, window, drift, missed, late,
                 edits, transfers>>

KeepOwned == UNCHANGED owned                       \* mutant: the paths of a refused selection
\* The ownership that was there before is restored.
Disown == owned' = command.own

\* persist_torrent_file_selection
SaveSelection ==
  /\ command.step = "save"
  /\ \/ /\ saved' = [saved EXCEPT !.sel = command.sel]
        /\ command' = [command EXCEPT !.step = "restore"]
        /\ UNCHANGED <<mode, owned>>
     \/ PutBack /\ Disown /\ command' = NoCommand /\ UNCHANGED saved
  /\ UNCHANGED <<payload, asked, transfer, row, install, window, drift, missed, late, edits,
                 transfers>>

\* restore_pending_task, with nothing but the selection changed
RestoreTask ==
  /\ command.step = "restore"
  /\ PutBack
  /\ payload' = IF mode = "taken" THEN [payload EXCEPT !.sel = command.sel] ELSE payload
  /\ answer' = command.sel
  /\ command' = NoCommand
  /\ UNCHANGED <<asked, transfer, row, saved, owned, install, session, orphaned, drift, missed,
                 late, edits, transfers>>

\* The bridge shows it if the window's action is still the latest.
ShowSelection ==
  /\ answer # 0
  /\ row' = IF session THEN [row EXCEPT !.sel = answer] ELSE row
  /\ orphaned' = ~session
  /\ answer' = 0 /\ session' = FALSE
  /\ UNCHANGED <<mode, payload, asked, transfer, saved, owned, command, install, drift, missed,
                 late, edits, transfers>>

CloseWindow ==
  /\ session
  /\ session' = FALSE
  /\ UNCHANGED <<mode, payload, asked, transfer, row, saved, owned, command, install, answer,
                 orphaned, drift, missed, late, edits, transfers>>

Next ==
  \/ Ask \/ Enqueue \/ Dispatch \/ Map \/ End \/ Settle \/ Pause \/ Resume
  \/ SetSpeedLimit \/ SetUploadLimit \/ SetPeerOptions
  \/ SetWebSeeds \/ PlanSeeds \/ ChangeUris \/ ReadBack \/ Undo \/ Unsave
  \/ Install \/ Retire
  \/ SelectFiles \/ OwnSelection \/ SaveSelection \/ RestoreTask \/ ShowSelection \/ CloseWindow

Spec == Init /\ [][Next]_ovars

-----------------------------------------------------------------------------
(* Properties                                                              *)

\* Between commands the daemon's transfer has the payload's web seeds and limits, and the
\* row has its limits, unless an undo failed or an answer was lost
\* (set_aria2_torrent_web_seeds_locked, set_aria2_download_speed_limit).
DaemonHasThePayload ==
  (Free /\ mode = "live" /\ install.step = "no" /\ ~drift) =>
    /\ alive => uris = Metadata \cup payload.seeds
    /\ caps = payload.caps /\ row.caps = payload.caps

\* Between commands the payload a retry starts from has the seeds of the database, and the
\* row shows them, unless they were saved where no transfer could take them
\* (set_torrent_web_seeds).
SeedsAreSaved ==
  Free => /\ row.seeds = saved.seeds
          /\ (Active /\ ~missed /\ ~late /\ ~drift) => payload.seeds = saved.seeds

\* Between commands a selection of files is the same in the task, the ownership registry and
\* the database, and the row shows it, unless its window was gone or a start had built its
\* payload before (set_torrent_file_selection).
SelectionIsWhole ==
  (Free /\ ~late) =>
    /\ owned = saved.sel
    /\ mode # "idle" => payload.sel = saved.sel
    /\ answer = 0 /\ ~orphaned => row.sel = saved.sel
=============================================================================
