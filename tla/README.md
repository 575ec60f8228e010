# Firelink: a TLA+ verification project

Firelink is a download manager: a Tauri application whose Rust back end (`src-tauri/src`)
schedules transfers and whose TypeScript front end (`src`) shows them. Plain, magnet and torrent
downloads run in an `aria2c` daemon that the back end talks to over JSON-RPC; media downloads run
as `yt-dlp` processes started by a coordinator. This directory models the part of the program
that decides *who may run, who owns a concurrency slot, what a late worker may still touch, and
which files and rows survive* stops, failures and rejected exits; checks the models with TLC and
proves, with TLAPS, the invariants of the queue, of the exit, of removals and of what keeps files and rows.

## 1. Inventory

| Component | Source | State it keeps | Operations |
|---|---|---|---|
| Queue manager | `queue.rs` `QueueManager` | pending list, registered ids and lifecycle generations, enqueue watermarks and cancellations, a semaphore with its target and retirement debt, `queue_permit_ownership`, `active_permits`, control epochs, GID maps, queue limits and holds, system action flag, media outcomes, buffered events, seed slots | enqueue in two phases, admission, dispatch, restore, completion, retry, resume permits, resize, holds, system actions |
| Download commands | `lib.rs` | none of their own: they run under the per-download control lock | enqueue, pause, resume, detach for reconfiguration, remove, replace target, move |
| Shutdown guard, handoff gate, terminal barrier | `lib.rs` `Aria2DaemonGuard`, `queue.rs` | guard state, count of handoffs in flight, closed flag, count of terminal leases | begin, reject and finish an exit; begin and end a handoff |
| aria2 control: epochs, GIDs, retries, events | `queue.rs`, `retry.rs` | epoch and retry state per id, GID map, ignored GIDs, buffered events | dispatch, replace a GID, retry later, apply an event |
| Media coordinator | `download.rs` `DownloadCoordinator` | registered runners, tombstones, stop acknowledgements, shutdown flag | register, pause with ack, finish, shut down |
| Durable removal jobs | `removal_jobs.rs`, `db.rs` | job rows with a phase and an asset manifest | submit, run, retry, resume after a restart |
| Database, ownership | `db.rs`, `download_ownership.rs` | rows with native markers and a progress epoch, owned file paths, replacement, move and shutdown journals | snapshots of the renderer, native commits, recovery at start |
| Exact replacement, torrent moves | `lib.rs` | quarantine and staging files, journals | prepare, commit, restore, recover; copy, publish, commit, clean |
| Scheduler | `scheduler.rs`, `lib.rs`, `App.tsx` | settings cache, start mark, run snapshot, acknowledged stops | decide, mark, emit, acknowledge, save settings |
| aria2 daemon | `lib.rs` `Aria2DaemonGuard` | process handle, published port, arguments of the next launch, startup error, dispatch hold | start, listen and reconcile, stop, restart, recover after a rejected exit, change an option |
| Connection recovery | `lib.rs` poller, `queue.rs` | observations per transfer, cooldowns, budgets | sample, judge, replace a GID, pause and unpause |
| Media runs | `lib.rs`, `retry.rs` | process, attempts, cookie fallbacks, partial files | run yt-dlp, kill, retry, clean up, pause |
| Torrent options, magnet probes | `lib.rs`, `queue.rs`, `torrent_probe.rs` | options in daemon, payload, database, registry and row; probe directories with lease files | change limits, web seeds and the selection; resolve, fall back, clean up, reap |
| Metadata and source probes | `lib.rs`, `queue.rs`, `mediaMetadata.ts` | cached answers and a lock per key; redirects, cookies, retries of a request | ask yt-dlp about a page; ask a server for name, size, .torrent or last address |
| Power | `power.rs` | number of transfers, preferences, sleep assertions of one worker | report, prefer, reconcile, restart the worker |
| Settings, credential store | `settings.rs`, `storage.rs`, `db.rs`, `KeychainPermissionModal.tsx` | preferences, pairing token, passwords of site logins | grant, hydrate, regenerate, migrate, save, dismiss |
| Extension server | `extension_server.rs`, `App.tsx`, `useDownloadStore.ts` | handoffs, replay records, acknowledgements under way, rows of the Add window | capture, discover, acknowledge, replay, prune, submit |
| Windows, platform helpers | `properties_window.rs`, `platform.rs`, ... | little | window bookkeeping, OS calls |
| Front end | `src/store/*`, `App.tsx` | rows, live progress, what a scheduled run started | follows the back end's events, saves snapshots of its rows, requests removals, flushes before an exit |

**How they interact.** A command takes the *control lock* of its download
(`acquire_aria2_control`, a tokio mutex per id) and then, for short sections, the *admission gate*
of the queue manager. The dispatcher task takes a permit and a task under the gate and spawns a
dispatch worker, which takes the control lock, activates its permit and hands the task to aria2 or
to a media runner. Runners, the aria2 event loop and the resume workers report back under the same
control lock. An exit request raises the daemon guard and closes the handoff gate; every worker
that could start a transfer holds a handoff. Removal jobs are durable: the database row is the
fence, and the job runner calls the remove command. The renderer keeps a copy of every row and
saves all of them at once; native commands change single fields of the same rows, and markers and
epochs decide who wins. Files are moved aside, copied or deleted in steps, each noted in a journal
that the next start of the application reads.

**What is hard.** The control lock does *not* cover the awaits that take long. `addUri`, the wait
for a media process and the wait for a dispatch in flight all happen with the lock given up, so a
worker returns to a download that may have been paused, detached, removed, enqueued again, or all
of these. Three kinds of stamp tell it so: the lifecycle generation, the control epoch and the
GID. Slots are counted in three places (a semaphore, the permits parked in
`active_permits`, `queue_permit_ownership`), and more than a dozen paths give one back. Shrinking
the limit cannot take slots away from running transfers, so it leaves a debt. Locks are held
while waiting for somebody who needs them, except where the code takes care not to.

**What makes each part correct.**

* Queue manager: no slot is lost or granted twice; the two permit maps agree; nothing pending owns
  anything; no grant exceeds a limit; a registered id always has somebody who will retire it.
* Workers and commands: a stale worker touches nothing of a newer lifecycle; a running transfer is
  accounted for; stop commands and dispatches end although they wait for each other.
* Fences: nothing starts behind a closed handoff gate or during a system action, and nothing begins on an
  id with a durable removal job.
* Coordinator: no two generations of a download run a process nobody has told to stop.
* Wake-ups: whoever may proceed is not left asleep.
* aria2 control: no event is applied to the wrong GID, no transfer runs unwatched, and a magnet
  is complete only with its payload.
* Exit: the process leaves when no completion is being applied and none is in memory only; a
  rejected exit resumes what it interrupted.
* Files: a replaced file lasts until its replacement is durable; a moved torrent has all its files
  where its row says; a removal deletes nothing complete for good and nothing of anybody else.
* Rows: no snapshot undoes a native commit, and saved progress belongs to the files there are.
* Scheduler: a run that was started ends with its window.
* Daemon: there is one, it is nobody's while it is not owned, and it comes back; a transfer is given up
  only with its process, and recovered without ever being doubled.
* Media runs: nothing is let go, retried or cleaned up while its process may write.
* Options: daemon, retry payload, database, registry and row agree when a command is over.
* Start of the store: removed downloads stay removed, intact rows stay, a start that is cut off is
  begun again; secrets leave and the pairing token stays.
* Extension: it is told what happened, and what it sent is shown for review.
* Metadata and probes: an answer belongs to the cookies it was asked with; credentials stay with their origin.
* Power: the computer is awake exactly while there is a reason.

`PROJECT.json` lists every component with its status and every hazard at its line.

## 2. Modules

| Module | What it is |
|---|---|
| `DownloadQueue` | the queue manager, its commands and workers; the core of the system |
| `MCDownloadQueue` | its instances: aria2 downloads `a` and `b`, media download `m`, two queues |
| `DispatchWake` | the notification that the dispatcher and the resume workers sleep on |
| `MCDispatchWake` | its instances: downloads `a`, `b`, `c`, one or two queues |
| `Aria2Control` | GIDs, epochs, retries and magnet handoffs of one download |
| `ExitBarrier` | the orderly exit, its rejection, and the shutdown journal |
| `ExitPromise` | what an exit promises: the abstract specification of `ExitBarrier` |
| `DownloadReplacement` | replacing an existing file, with journal and recovery |
| `TorrentMove` | moving the data of a torrent, with journal and recovery |
| `RemovalJob` | the durable removal of one download |
| `RowSnapshots` | snapshots of the renderer against native commits of one row |
| `MediaProgress` | the progress of a media download and the epoch of its partial files |
| `ScheduledRuns` | the daily window, from the native loop to the renderer and back |
| `SeedSlots` | the seed capacity: who seeds, who waits, and who is on the way from one to the other |
| `ConnectionRecovery` | how the poller heals one transfer with calls whose answers may be lost |
| `DaemonSupervision` | who starts, watches, stops and replaces the aria2 process |
| `MediaRun` | one run of yt-dlp: its process, kill, retries, fallbacks, cleanup and pause |
| `LiveOptions` | limits, web seeds and file selection of a torrent while it lives |
| `MagnetProbe` | the metadata probe of a magnet link, its cleanup and the reaper |
| `StoreStartup` | what the program does to its database before anything else runs |
| `PairingToken` | the pairing token and site logins in the credential store |
| `ExtensionHandoff` | captures and discoveries of the browser extension on their way to the Add window |
| `PowerAssertions` | the assertions that keep the computer awake |
| `MediaMetadata` | what yt-dlp says of a page: shared requests, cache, a lock per key, cookie fallbacks |
| `SourceProbes` | the requests that ask a source before aria2 does: redirects, credentials, cookies, retries |
| `MCComponents` | the modules from `Aria2Control` on, each alone, in one run |
| `DownloadQueuePermitProofs` | types, permits and reservations of the queue |
| `DownloadQueueOwnerProofs` | who owns a download, and the fences of stale workers, removals, system actions and exits |
| `DownloadQueueCarrierProofs` | who carries a registered lifecycle and a queued row on |
| `ExitBarrierProofs` | the exit: its invariants and the refinement of `ExitPromise`; `DaemonSupervision` |
| `FileProofs` | `TorrentMove`, `DownloadReplacement`, `RemovalJob` and `Aria2Control` |
| `RowProofs` | `RowSnapshots`, `MediaProgress`, `LiveOptions` and `ConnectionRecovery` |
| `ServiceProofs` | `SourceProbes`, `PowerAssertions`, `MediaRun` and `MagnetProbe` |
| `ComponentProofs` | the last four for the specification that the run `Components` checks |

### `DownloadQueue`

*State.* A variable per map the code keeps (`registered`, `watermark`, `cancelled`, `pending`,
`ownership`, `active`, `limits`, ...), and one per kind of actor: `enq` for the enqueue command of
an id, `worker[id][g]` for the dispatch worker of a generation and the media runner it becomes,
`resumer[r]` for the background workers of `resume_download`, `stopping[id]` for a pause, detach or
removal that waits outside the lock. `epoch[id]` names who holds the current control epoch; the
number itself never matters, only whether it is still one's own. `xfer[id]` is the GID map together
with what the daemon makes of the GID. `removing` are the ids with a durable removal job. The submission
cancels the retries of its id; a removal that the daemon refuses allows them again and keeps the epoch,
the GID, the permit, the registration and the job (`RemovalRefused`), the next attempt cancels them again.
`retriesAllowed` are the ids in between.

*Semaphore.* `available` are the permits in the semaphore, `debt` is `slots_to_retire`, `target` is
`target_capacity`. A permit that was acquired and not parked is in the hands of one worker (`InHandPcs`) or
of one resume candidate (`cand`); a parked one is `active[id] # 0`: an owned permit in the map
`active_permits`, which returns to the semaphore when it is dropped. `permit.forget()` only pays debt
(`RetireFreeSlots`), and `add_permits` only raises the target. `set_capacity` swaps the target and only then
adjusts permits and debt: `SetCapacity` and `ApplyResize` are the two steps, `resizing` the difference
between them.

*Steps.* A critical section is one action; an await inside a section is a program counter:

| Code | Actions |
|---|---|
| `reserve_enqueue_generation` ... `commit_reserved_enqueue_with_finalizer` | `ReserveEnqueue`, `AbandonEnqueue`, `CommitEnqueue` (gate held, finalizer running), `FinishCommit`, `CancelEnqueue` (no lock at all) |
| `run_dispatcher`, `try_admit_next_task` | `TryAdmit`, `RetireFreeSlots` |
| `dispatch_one` | `DispatchHeld`, `DispatchCheck`, `Activate`, `StartAddUri`, `AddUriAccepted`, `AddUriRejected`, `DaemonUnreachable`, `PublishMedia`, `StartMediaRunner` |
| `restore_dispatch_task_to_pending` | `RestoreInHand`, `RestoreHeldBack`, `RestoreUnreachable` |
| `ProductionSpawner::run_media`, `finish_runner` | `RegisterRunner`, `EndRunner`, `FinishRunner` |
| `apply_completion_locked_*`, `clear_aria2_permits` | `TransferEnds`, `ConnectionLost` |
| `pause_download` | `PauseMapped`, `PauseUnmapped`, `PauseMedia`, `CoordinatorStop`, `FinishPause` |
| `resume_download` and its worker | `ResumePaused`, `ResumeUnmapped`, `StartResume`, `ResumeReserve`, `ResumeGiveUp`, `ResumeUnpause`, `ResumeSettles` |
| `detach_download_for_reconfigure` | `Detach`, `FinishDetach` |
| `submit_download_removals`, `remove_download_inner` | `SubmitRemoval`, `RemovalRefused`, `RemoveStop`, `FinishRemove` |
| `set_capacity`, `replace_queue_limits`, holds, system actions, exit | `SetCapacity`, `ApplyResize`, `ReplaceQueueLimits`, `BeginHold`, `EndHold`, `DaemonRecovers`, `BeginSystemAction`, `EndSystemAction`, `ExitStep` |

The control lock and the gate are not variables: `LockFree(id)` and `GateFree` say that no actor
is at a point where it keeps them. An exit request is one variable with four values, because guard
and handoff gate are raised in one order and, by a rejection, lowered in the same order; what the
code can observe is which of the two is up.

*Abstractions.* The pending list is a set (their order inside a queue is not modelled).
`QueueOf` is a constant: moving a row between queues is not modelled. Daemon answers are classes
(accepted, refused, unreachable; live, paused, ended, unverified). Replies to the front end, errors
that change nothing, telemetry, titles and paths are left out. `restore_dispatch_task_to_pending`
reads the removal flag just before it takes the gate; the model reads both in one step, which is
what the caller's control lock makes of it for every path but one that a removal already fences. A GID that
is mapped while a removal drains a dispatch, and the failures after it (`lib.rs:9040-9072`), are not there:
the removal has ended the epoch before, so `addUri` maps none, which is the second part of
`RemovalIsFenced`. The resume of a GID that the daemon reports as running (`lib.rs:8605-8621`) is left out.
The check of the reservation's owner in the same function can never be what refuses a restore
in the model's runs: it is a second line of defence behind the generation checks.

*Bounds.* `Ids`, `Queues`, `Generations`, `Resumers`, `Capacities` and `LimitMaps` are finite sets
given by the configurations; the module assumes of them only what its named `ASSUME`s say. One stop
command per id is under way at a time: the front end serialises the lifecycle operations of a row,
and the durable removal runner takes an id once. `Features` turns optional environments on, so
that every run explores the interleavings its question is about.

### `DispatchWake`

`DownloadQueue` says what an admission may do; whether it happens is a question of its own. The
dispatcher and every worker that `resume_download` leaves waiting sleep on *one* `tokio::sync::Notify`,
so a signal meant for one can reach another, and a permit that comes back unannounced helps nobody.

*State.* `bell` is the `Notify`: the waiters in order, the one stored permit, and what each waiter was
sent and has not received. `NotifyOne`, `NotifyAll`, `Enable`, `Receive` and `Forget` are external:
they follow tokio's documented behaviour (`notify_one` wakes the longest waiter or leaves a permit,
`notify_waiters` wakes the present ones only, a dropped future passes a `notify_one` on). `dispatcher`
and `resumer[id]` are program counters between `notified().enable()`, the inspection under the gate
and the sleep. `row`, `owner`, `worker`, `free` and `pending` are a coarse image of the core: one
lifecycle per download, fixed limits, no media, no removals.

*Steps.* `run_dispatcher` is `DispatcherEnables`, `DispatcherAdmits` or `DispatcherFindsNothing`,
`DispatcherSleeps` (the deadline of `next_queue_dispatch_hold_delay` is read separately) and
`DispatcherWakes`. `acquire_aria2_permit_candidate_for_queue` and what follows it is `ResumerChecks`,
`ResumerEnables`, `ResumerInspects`, `ResumerWakes`, `ResumerParks`, `ResumerGivesUp`, `ResumerDrops`.
Everything else rings or moves a permit: `Commit`, the dispatch worker, the end of a transfer, pauses
at four stages, start-batch holds with their lease, `set_aria2_dispatch_hold`. The order of ringing
and returning a permit is the code's. `try_start_waiting_seed` has a
module of its own (`SeedSlots`); the resizing of the limit, which rings for all, is left out.

### `Aria2Control`

`DownloadQueue` takes the GID of a download for granted. This module has one download and all the GIDs
of its life: the k-th `addUri` creates GID 2k - 1, and a magnet's metadata parent is followed by 2k.

*State.* `gids` is the daemon's side, `wire` the terminal events on the WebSocket. `bound` is the entry
of `aria2_gids` with its control epoch and owner revision, `ignored`, `buffered`, `retrying`,
`inflight`, `cancelled` and `adopted` are the maps and sets of the same names in `queue.rs`. `handlers`
are observations (of the event loop or of the poll loop) that were read without the control lock;
`adding` and `stale` are `addUri` calls under way and GIDs whose owner has gone; `backoffs` are retry
workers that sleep; `resumers` are resume workers with a slot.

*Steps.* `Hear` and `Poll` snapshot a mapping; `HandleStale`, `HandleComplete`, `AdoptChild`,
`AwaitChild`, `HandleError` are what `apply_completion_if_gid_matches` and the retry code do under the
lock, after `StillOwner` compared mapping and epoch again. `BackoffEnds`, `AddUri`, `AddMapped`,
`AddStale`, `AddRefused`, `RemoveStale` are the retry worker and the dispatch; `Recover` is the
connection recovery; `Pause`, `PauseEnded`, `PauseUnmapped`, `Resume`, `ResumeUnmapped`, `Unpause` the
commands. Two named bounds cut reality: a magnet's metadata is not complete before its GID is mapped,
and its child appears within the minute it is waited for (section 5 says what happens otherwise).

### `ExitBarrier` and `ExitPromise`

*State.* `guard` is `Aria2DaemonGuard.shutdown_state`, `exitAt` the step of the exit task,
`handoffsOpen`, `sealed`, `exiting`, `late`, `leases` the handoff gate and `ShutdownTerminalBarrier`;
`socket`, `command` and `runner` are the three that may apply a completion (the aria2 event reader, a
command that finds its GID ended, the media runner); `stored` is the row, `exitJournal` the shutdown
journal, `uiRow`, `uiNews`, `uiExit` the renderer and its flush.

*Steps.* `ExitRequested`, `ExitAdvances`, `CloseMedia`, `StopDaemon`, `Seal`, `AskFinalFlush`,
`Finalize`, `Leave` are the orderly exit; `Refuse`, `Reject`, `RecoverMedia`, `Reopen`, `Wake`,
`RecoverDaemon` take it back; `Restart` is a crash at any point with the recovery of the journal.
Deadlines are choices: a wait ends with or without what was waited for. `StartRunner` to
`FinishRunner` are the coordinator's registration, cancellation and acknowledgement.

`ExitPromise` has four variables: whether the process is alive, whether a completion is being applied,
whether one is owed, and whether the disk knows. `ExitBarrier` implements it under the mapping
`alive = (exitAt # "exited")`, `busy` = one of the three is applying, `owed` = seen during the shutdown
and applied, `kept` = in the journal or in the row. `MCComponents` checks the refinement as a property.

### `DownloadReplacement`, `TorrentMove`, `RemovalJob`

The three operations that move or delete the user's files. Each has the files (by what they contain,
never by bytes), the journal or job row, the ownership record, one program counter for the command or
worker, and a stop of the process between any two steps, after which the recovery of the next start is
a command like any other.

| Code | Actions |
|---|---|
| `prepare_download_replacement`, `enqueue_download_locked` | `Prepare`, `Stage`, `Verify`, `Register`, `Commit`, `CommitRefused`, `Decide` |
| `finalize_`, `restore_`, `recover_download_replacement*` | `Finalize`, `Forget`, link and unlink, `Disown`, and their recovery twins; `Touch` is somebody else at the path |
| `move_torrent_data` | `BeginMove` to `CleanSource`, `CleanOutputs`, `OwnOld`, `ForgetMove`; `CancelMove` at any point |
| `recover_torrent_move_journals` | `LeaveJournal`, `RecoverFile`, `RecoverStaging`, `RecoveryFails` |
| `removal_jobs.rs`, `remove_download_inner` | `Pick`, `Classify`, `StopAria2`, `CancelMedia`, `MediaDrained`, `CheckOwner`, `Fence`, `Remove*`, `Commit`, `Broken`, `Retry` |
| the renderer's part of a removal | `Deliver`, `Save`, `Land`, `Ask`, `Flushed`, `Submit` |

The move journal is read by a decoder that expects other keys than the writer writes. `Readers` says
which decoder to look at: `snake_case` is the program's, `camelCase` the one its writer calls for. The
safety properties hold with both; that a committed move is finished holds only with the second.

### `RowSnapshots`, `MediaProgress`

One row, two writers. In `RowSnapshots` the renderer's snapshot (`Send`, `Land`) carries the row it saw
some time ago; `Move`, `Checkpoint`, `CommitVerify`, `Rollback` are native commits in between; `marks`
are `native_path_override` and the verification marker of `merge_durable_torrent_telemetry`, which a
snapshot with the same value clears. In `MediaProgress` the native side deletes partial files after it
has cleared the saved progress and raised its epoch; `frames` are the events to the renderer, `held`
its two-second throttle, `upload` the snapshot on its way to `replace_downloads_tx`.

### `ScheduledRuns`

*State.* `document` are the scheduler's keys in the settings document, `cached` those the loop decides
from, `hydrated` those the renderer read at start; `native` is the loop between its decision, its mark
and its event; `inbox` and `handler` are `scheduleTriggerQueue` and the listener in `App.tsx`;
`tracked` is what the listener has started for this run. `by[d]` says who runs a download.

*Steps.* `Decide` (from the cache), `Mark` (under the lock, from the document), `Emit`; `Take`,
`StartQueues`, `Track`, `PauseTracked`, `ResolveStop`, `Ack`, `AckCached`; the user starts, ends,
pauses, edits the schedule (`Edit`, whose save keeps the scheduler's keys) or restarts the application.

### `SeedSlots`

*State.* `owners`, `queue` and `starting` are `SeedCapacityState`, `budgets` is `seed_budgets`;
`reserved`, `parked` and `kinds` are the download permits of the queue manager as far as seeds need
them; `seeder[w]` is a worker of `resume_waiting_seed` or of `resume_download`; `locked` are the control
locks that are held while the daemon answers. `slipped`, `miscounted` and `pooled` only record history.

*Steps.* `HearSeeding`, `PauseAnswered` and `Join` are `admit_seed_after_completion`; `StartSeed`,
`BeginSeed`, `Acquire`, `Refused`, `Hold`, `Park`, `UnpauseSeed` and `Retry` take a waiting torrent from
the queue to its slot; `Pause`, `Resume`, `UnpauseDownload`, `RequestRemoval`, `StopForRemoval`,
`RetireRemoved` and `HearComplete` are the commands and the completion that cross it; `SaveSettings` is
`configure_seed_capacity`, which every save of the settings calls. The configured number is fixed.

### `ConnectionRecovery` and `DaemonSupervision`

`ConnectionRecovery` has one transfer, the poller and the recovery under the control lock. *State:*
`gids` is the daemon's side, `obs` the poller's observation with its streak, budget and cooldown,
`sample` what it has read and not judged, `step`, `target` and `adding` the recovery between two calls.
*Steps:* `Sample`, `Look`, `LookAway` and `Outside` are the poller; `AskStatus`, `ForcePause`,
`PauseCheck`, `ForceRemove`, `RemoveCheck`, `Prepare`, `Add`, `AddStatus` replace a GID (`recreate_uri`,
`add_transfer_rpc_with_reconciliation`); `Refresh` to `UnpauseCheck` pause and unpause one that has no
payload. Each call may take effect and lose its answer.
A `forcePause` takes effect at once, an add that is lost is lost or done and never late, and the cooldown
of a missing GID is left out.

`DaemonSupervision` has the process handle, the port and the arguments that four parties share. *State:*
`procs` and `loads` are the processes; `child`, `spec`, `port` and `failed` the guard; `holder` is who
holds `restart_lock`, and how far; `starter`, `listener`, `recovering` and `exit` are the tasks. *Steps:*
`Launch`, `Adopt`, `Publish` start the first process; `StopBegins` to `StopWait` are
`shutdown_aria2_daemon`, `StartSpawn` to `StartReady` `restart_aria2_daemon`; `AskExit`, `Drain`, `TooLate`,
`Finish` the exit as far as it concerns the daemon (its rejection is one step, `ExitBarrier` has them all);
`Recover` the recovery; `ListenRestart`, `Connect`, `Reconcile`, `HangUp`, `Leave`, `GivesUp` the listener;
`SetOption` the settings. The queue's hold and its one transfer are coarse: the 15 seconds a dispatch waits
for a daemon and its hold are one step. `superseded`, `dropped` and `unseen` only record history. An exit
asked for while the first process starts is left out (section 3 says what happens).

### `MediaRun`, `LiveOptions`, `MagnetProbe`

| Code | Actions |
|---|---|
| `start_media_download_internal`, its retry loop | `Start`, `Attempt`, `Watch`, `Drain`, `Decide`, `Backoff` |
| `terminate_and_wait_for_media_after_cancel` | `Grace`, `Kill`, `Unconfirmed` |
| `cleanup_media_artifacts_locked`, `finish_runner`, `pause_download` | `Clean`, `Wipe`, `Publish`, `Finish`, `Reconcile`, `Pause`, `FinishPause` |
| yt-dlp and the shell plugin (external) | `Write`, `Exit`, `Report`, `Break`, `StrayDies` |
| `set_download_speed_limit`, `set_torrent_upload_limit`, peer options | `SetSpeedLimit`, `SetUploadLimit`, `SetPeerOptions` |
| `set_torrent_web_seeds`, `install_initial_torrent_web_seeds` | `SetWebSeeds`, `PlanSeeds`, `ChangeUris`, `ReadBack`, `Undo`, `Unsave`, `Install`, `Retire` |
| `set_torrent_file_selection` and the Properties window | `SelectFiles`, `OwnSelection`, `SaveSelection`, `RestoreTask`, `ShowSelection`, `CloseWindow` |
| `resolve_magnet_metadata` | `Start`, `MakeDirectory`, `Added`, `NotAdded`, `AddOverdue`, `Polled`, `Clean`, `Settle`, `Succeed`, `GiveUp`, `Keep`, `Cancel` |
| the fallback to another resolver | `Retry`, `Remake` |
| what the dropped guard spawns, and the reaper of the next start | `Verify`, `Purge`; `Restart`, `Left*`, `Inspect`, `Skip`, `Reap` |

In `MediaRun` reasons of failures are classes (`transient`, `browser`, fatal), in `LiveOptions` a URI is a
number and a file's URIs are a set, in `MagnetProbe` the metadata is a Boolean. No window of this version
calls `set_torrent_web_seeds`; the model lets the main window call it and show what it returns.

### `StoreStartup`, `PairingToken`

`StoreStartup` is `init_at_path_internal`: `Open`, `BackUp`, `Migrate` (the schema), `CopySource`, `Merge`,
`SaveToken`, `CleanCopy`, `CleanSource`, `Imported`, `MarkImport` (the stores of older versions), `Recover`
(rows from backups), `Sanitize` (portable mode). `Stop` may come between any two of them, also in the middle
of a copy; sessions (`Add`, `Ask`, `Removed`, `Damage`) change the rows between two starts.

`PairingToken` has the credential store (`keychain`), the settings document (`saved`), the server's token
and the window's. `Work` is the worker of a grant, whose prompt cannot be taken back, with `Migration` and
`Hydrated`; `Decide`, `Run` and `Return` a command of the window; `NeedAccess`, `Ask`, `Begin`, `Publish`,
`Poll`, `Accept`, `Withdraw`, `Later`, `Dismissed` the dialog with its requests; `Regenerate`, `Edit`,
`EditRuns`, `ChangeSetting`, `Write` the settings. It assumes that the server is given the window's token in
the step in which the window changes it, that clicks come after the answers that no prompt delays
(`Rendered`), that access is asked for in the first run only, and that a site login is edited when the token
is settled.

### `ExtensionHandoff`, `PowerAssertions`

`ExtensionHandoff` follows a request from the server's handler (`Capture`, `Discover`, with the registry
`sessions`, the `replays` and the acknowledgements under way, `EmitCapture` and `EmitUpdate`) over the
renderer's two serial queues (`captures`, `updates`) to the rows of the Add window (`TakeCapture`,
`TakeUpdate`, `Match`, `Disposition`, `Upgraded`) and back (`AckCapture`, `AckUpdate`, `CaptureTimesOut`,
`AnswerUpdate`, `AnswerJoined`). While the window submits (from `Submit` to `EndSubmit`), updates are held
and captures wait.

`PowerAssertions` has the permits and the three callers that report to one worker thread: `Park`,
`Release`, `Count`, `Store` are `sync_power_activity`; `Prefer` and `PreferSecond` the preferences; `Ensure`,
`Send`, `Restart` `reconcile`; `Take`, `Apply` (together or independently), `Die`, `End` the worker.

### `MediaMetadata`, `SourceProbes`

`MediaMetadata` has one page with its `fetch_media_metadata` and `fetch_media_playlist_metadata` commands. *State:*
`calls` are the commands with the cookies they want, the key they ask under, the cookies their run of yt-dlp
was given (`into`) and the lock they share; `cache`, `expired` and `locks` are the two static maps of
`lib.rs`; a key of the cookie file has the version the file had, which is what its fingerprint tells apart.
*Steps:* `Ask`, `AskForList`, `Settle` are the window, which joins requests that are equal; `Look`, `Claim`,
`Enter`, `Store`, `Release` the cache and the lock; `ReadCookies`, `Answers`, `Lists`, `Errs`, `CookiesFail`
yt-dlp and what the command does about it; `Age` and `Rewrite` are time and the owner of the cookie file.

`SourceProbes` has one chain of requests. *State:* `known` is what the caller may show, `cookies` whether
it does, `at` and `hops` the redirect it follows, `allowed` whether credentials still go with a transfer,
`plan` what `prepare_normal_transfer` has collected; `last`, `strayed`, `challenged` and `sends` only record
what was sent. *Steps:* `AskHead`, `Get`, `RangedGet`, `TooManyRedirects` are `fetch_metadata`; `FetchTorrent`,
`ReadTorrent` `fetch_remote_torrent_bytes`; `TakePlain`, `ProbeRange` the sources of a transfer. Addresses are
classes (the source's origin, its https upgrade, a site the browser gave cookies for, any other) and so are
answers; names, sizes and the refusal of private addresses are left out.

### `MCComponents`

Chooses one of these components in the first state and then lets it alone move. The components share no
variable: what one needs of another is in it as an environment action (a daemon, a renderer, somebody
else's file), so that composing them step by step would add interleavings of independent steps and nothing
else. The variables of all instances are mapped to the same places `s1`, `s2`, ...; a place that the chosen
component does not use holds `NoValue` and stays. The run exists to check all of them with one set of bounds.

## 3. Runs

| Run | Instance | Shows |
|---|---|---|
| `QueueLifecycle` | one aria2 and one media download, two generations each, one slot, one resume worker; daemon failures and detaches | `PermitInvariant`, `ReservationsMatchPermits`, `WorkHasOneOwner` (= `TransfersHoldPermits`, `PendingIsUnowned`), `QueuedIsCarried`, `StaleWorkersAreHarmless` |
| `QueueRemoval` | the same with durable removals, which the daemon may refuse | `OneRunnerPerDownload`, `RegistrationIsCarried`, `RemovalIsFenced` |
| `QueueAdmission` | three downloads in two queues; the limit moves between 1 and 2, one override comes and goes | `TypeOK`, `TargetRespected`, `QueueLimitRespected` |
| `QueueLiveness` | one generation, removals, detaches, daemon failures, under `FairSpec` | `StopsComplete`, `DispatchesSettle` |
| `QueueStaleResume` | two aria2 downloads in a queue with limit one, two resume workers | a **violation** of `QueueLimitRespected` |
| `WakeUps` | two downloads of one queue share a slot; pauses at every stage, a hold that expires, is renewed or ends, daemon outages; with fairness | `SlotsAreAccounted` (with `TypeOK`), `EligibleTaskIsAdmitted`, `WaitingResumeIsServed` |
| `QueueFences` | one generation, system actions (also forced), exit requests and rejections, holds, cancellations | `ShutdownStaysQuiet`, `SystemActionIsFenced` |
| `Components` | the components of `MCComponents` | one or more properties of each, below |
| `WakeStolen` | three downloads, two queues, two slots, a resume into a full queue | a **violation** of `EligibleTaskIsAdmitted` |
| `MoveRecovery` | `TorrentMove` with the program's decoder, one stop, no fault | a **violation** of `CommittedMoveIsFinished` |
| `RemovalRace` | `RemovalJob` with a completion that may be on its way to the renderer | a **violation** of `CompletedPayloadIsKept` |
| `SeedStarved` | `SeedSlots` with one seed slot and one save of the settings | a **violation** of `SomebodySeeds` |

What `Components` checks:

| Property | Component | What it is made of |
|---|---|---|
| `TypesHold` | all | the type invariant of each |
| `FilesAreKept` | `DownloadReplacement` | `OriginalSurvives`, `ForeignFileSurvives`: the original, or what somebody else wrote at its path, exists until a replacement is durable; `OwnsOnlyItsOutput` |
| | `TorrentMove` | `RowHasTheData`: the row's folder has all files at every moment; `OwnershipFollowsData` |
| `RemovalIsFinal` | `RemovalJob` | `ForeignFilesSurvive`, `RemovedStaysRemoved` |
| `KnownPayloadIsKept` | | `CompletedPayloadIsKept`, with one failing step |
| `RowsAgree` | `RowSnapshots` | `NativeCommitsAreKept`, `SnapshotsConverge` |
| `ExitIsExact`, `ExitKeepsItsPromise` | `ExitBarrier` | `JournalIsOfThisLifecycle`, `InterruptedIsResumed`; the refinement |
| `ProgressIsOfTheseBytes` | `MediaProgress` | the property of that name |
| `TransfersAreWatched` | `Aria2Control` | `EveryTransferIsOwned`, `DoneIsPayload` |
| `WindowIsEnforced` | `ScheduledRuns` | the property of that name |
| `SeedSlotsAreShared` | `SeedSlots` | `SeedsHoldSlots`, `SlotsAreUsed`, `WaitersAreCarried` |
| `CapturesAreReviewed` | `ExtensionHandoff` | `AnswersAreEarned`, `RowsShowUpdatesInTurn`, `CapturesSurvive` |
| `ProbesCleanUp` | `MagnetProbe` | `OthersAreSpared`, `DirectoryOutlivesGid`, `ProbeIsWhole` |
| `StartKeepsTheRows` | `StoreStartup` | `TombstonesHold`, `IntactRowsStay`, `OwnedRowsAreBack`, `SecretsGoTheTokenStays`, `StartsSucceed` |
| `SecretsAreKept` | `PairingToken` | `PairingIsKept`, `TokenIsShown`, `DismissalHolds`, `LoginsAreWhole` |
| `OptionsAgree` | `LiveOptions` | `DaemonHasThePayload`, `SeedsAreSaved`, `SelectionIsWhole` |
| `RunsAreWhole` | `MediaRun` | `ProcessIsWatched`, `SuccessIsKept`, `RetriesAreSpent`, `CleanupIsSafe`, `PauseIsShown` |
| `AwakeWhileBusy` | `PowerAssertions` | `CountFollowsPermits`, `SleepFollowsTransfers` |
| `RecoveriesHeal` | `ConnectionRecovery` | `OneTransfer`, `NothingIsOrphaned`, `RowIsTrue`, `RecoveriesAreBounded` |
| `DaemonIsSupervised` | `DaemonSupervision` | `DaemonIsOwned`, `TransfersFollowProcess`, `DaemonComesBack`, `OptionIsKept` |
| `MetadataIsShared` | `MediaMetadata` | `OneRunPerKey`, `KeptUnderItsCookies`, `AnswersAreTheirOwn`, `CacheIsBounded` |
| `CredentialsAreKept` | `SourceProbes` | `CredentialsStayHome`, `CookiesWait`, `SendsAreBounded`, `TransferIsPrepared` |

*Why the bounds are enough.* Stale state needs two lifecycles of one id (one that left a worker
behind and one that must not be touched): two generations. Competition needs more downloads than
slots: two ids and one slot, or three ids and two slots. The aria2 and the media path share the
permit code and nothing else, so one id of each. A debt that is not yet paid when the limit grows
again needs two limits, and an override needs two queues, one of which has none. A third generation
adds no new relation between workers: every comparison in the code is between one's own stamp and
the current one. The proofs below do not depend on these bounds. All generations may be used up and every
download finished, so a run may stop for good: deadlock is not checked, and `QueueLiveness` asks
the question that matters instead, whether somebody waits forever. In `DispatchWake` a wake-up is lost
between two actors, or stolen by a third: two downloads on one slot, or three in two queues. Each
download is enqueued once, and each queue is held once; one more would only repeat the cycle.

In `Components` two replacements compete for one path; a torrent of two files is moved there and back, with
one failing step and two stops (one during the recovery of the other); a removal is stopped once and fails
once; a row is moved, verified and checkpointed twice, so that a marker meets a newer one of its own kind;
an exit is refused and requested again, so that the second meets the recovery from the first; a media
download runs three times, so that frames and snapshots of one run reach the next two; a download of aria2
has two adds with their children and two pauses or resumes, so that a retry, a recovery or a command meets
the GID of the one before; a schedule has two days of three minutes, with windows inside the day, at its end
and over midnight, and two upsets; two torrents share one seed slot and one download slot, with two workers,
two commands, a save of the settings, an exit or system action that is taken back, and one answer that says
nothing. The extension has two pages with two contents and three requests, with one session, replay record
and held update and two acknowledgements kept, so that a limit is met; a probe has its two attempts, two
failing calls and one exit, cancellation or restart; a store has two rows, two legacy stores, three starts
and two changes, so that a start that was cut off is begun again over changed rows; a pairing has two
requests for access, one refusal and one restart; a torrent's options are changed twice over two transfers;
a media run is retried once, resumed once and broken twice; two downloads change places twice under
one change of the preferences and one setback of the worker; two commands ask about a page in three
requests, with room for one answer and one change of the cookie file, so that an answer is evicted or replaced
under a waiting caller; a request is redirected twice and retried once, and a transfer has one mirror; a transfer has four GIDs, two lost answers and
one pause, so that a recovery meets the one before it and its limit of two; the daemon has two launches, two
exits, two values of an option and one crash, hang or lost answer, so that a recovery, the listener and a
second exit meet. Each module counts its own bound and the guards name it. Larger instances of single
modules (three adds and three commands of `Aria2Control`; three torrents, or three commands with two saves
and two exits of `SeedSlots`; three launches and five troubles of `DaemonSupervision`; three
changes of places of `PowerAssertions`; 0.2 to 2.9 million
states) showed nothing new. In a component every activity may end, so deadlock is not checked there; the
properties of a settled state (`SnapshotsConverge`, `OwnershipFollowsData`, `WindowIsEnforced`,
`InterruptedIsResumed`) say what must hold once nothing is left to do.

*Fairness.* `FairSpec` gives strong fairness to the sections that take the control lock or the
gate: both are `tokio::sync::Mutex`es, which are fair queues, so a section that becomes able to run
again and again does run. It assumes that `addUri` and the finalizers return (the RPC client has a
timeout, the finalizer is a database write) and that a media process ends once it is cancelled (the
coordinator kills it). A media process that is left alone may run forever, a daemon that is
unreachable may stay so, a hold may be held, an exit may never be rejected, and no command is ever
assumed to be issued. `DispatchWake` assumes only that the runtime keeps polling the dispatcher and the
workers and that time passes (leases expire): weak fairness, since none of their steps is disabled by
another once it is due. Transfers may run forever and a daemon may stay away.

*The disagreements.*

* `QueueStaleResume`. `release_queue_reservation_for_generation` compares the lifecycle generation
  only, and a pause followed by a second resume of the same GID does not change it. The older
  resume worker gives up and releases the reservation that now belongs to the newer one; another
  download of the queue is admitted; the newer worker then parks its permit, because
  `park_aria2_permit_if_missing_for_queue` accepts a missing reservation. The queue holds two
  downloads, its limit is one. The global limit and the permit count stay right (the theorems hold
  with any number of resume workers), only the per-queue limit is exceeded.
* `WakeStolen`. A commit calls `notify_one`. If a resume worker of a full queue got in line before the
  dispatcher, the signal is its own; it finds no room and waits again, and the dispatcher sleeps on
  beside a free permit and a task of another queue.
* `MoveRecovery`. `write_torrent_move_journal` writes `oldDestination`, `newDestination` and so on;
  `TorrentMoveJournal` has no `rename_all` and expects `old_destination`. No journal is ever decoded at
  start; recovery keeps it and goes on, and the old copy of a committed move stays.
* `RemovalRace`. The renderer flushes its rows and then submits the removal. A completion applied
  between the two is in nobody's record: the flushed row is older, and the native side writes the row
  itself only when a job exists. The worker finds an unfinished row, no GID to ask about, and deletes
  the finished file instead of moving it to the Trash.
* `SeedStarved`. `configure_seed_capacity` makes an owner of every torrent that has a budget, and every
  save of the settings calls it. A torrent gets its budget before it joins the queue of waiting ones, so
  those count as owners too. Once the torrents that do seed have ended, the waiting ones hold all the
  slots they wait for, and no worker is ever started again.

`Components` leaves the `RemovalRace` out by a constant (`LateEvents`), and looks at both decoders.

More are documented without a run of their own:

* *A refused removal.* `submit_download_removals` cancels the retries of its ids, to "fence each admission
  before recording intent" (`removal_jobs.rs:66-67`). If the daemon does not confirm the removal,
  `remove_download_inner` allows them again (`lib.rs:8938`) and returns an error. It keeps the epoch and the
  mapping on purpose, so that terminal events are still accepted; the job stays for a retry. A resume
  worker that waits for a slot or for the control lock asks for the epoch, the generation and the retries,
  never for the job (`lib.rs:8252-8259`, `queue.rs:4295-4314`), parks a permit and unpauses a download
  that is to be removed. The model does the same (`RemovalRefused`, then `ResumeReserve` and `ResumeUnpause`).
  `RemovalIsFenced` names the case (`retriesAllowed`, `StillResuming`); it is false without these words, and
  shows that nothing else gets past the fence and that this ends with the attempt that ends the epoch.
* A pause releases the reservation of a task whose dispatch worker waits for the control lock, and
  rings. The dispatcher wakes, finds no permit (the worker has it) and inspects the queue in vain. The
  worker then sees that its lifecycle is over and drops the permit (`queue.rs:5417`); there is no
  reservation left to release, so nothing rings, and the next task waits for an unrelated event. The same
  holds for the branch of `restore_dispatch_task_to_pending` that finds no owner, and for a resume worker
  that gives its candidate up.
* `next_queue_dispatch_hold_delay` keeps expired leases on purpose, so that a lease that expires after the
  inspection still yields a deadline. `renew_queue_dispatch_hold` removes it if it comes in that window,
  without ringing (`queue.rs:2895-2897`); `end_queue_dispatch_hold` rings only if it removed something.
* The scheduler acknowledges one stop per calendar day (`scheduler.rs:95, 120, 134-142`). A second run
  that would end on a day whose stop is acknowledged, after an edit or over midnight, has no stop.
  `WindowIsEnforced` leaves such a run out by name (`StopSpent`).
* A system action forced between an admission and its activation ends the worker without retiring the
  registration (`queue.rs:5424-5432`): every later enqueue of the id is refused as a duplicate.
* If the event that invalidates the progress of a media download is missed, the first frame of the next
  run gives the renderer's row the new epoch while the two-second throttle still holds the progress
  measured on the deleted files (`useDownloadStore.ts:3901, 4012-4014`); a snapshot in these two seconds
  passes the fence, which compares epochs only. `MediaProgress` has the throttle and names the case
  (`crossed`); `ProgressIsOfTheseBytes` excuses nothing else.
* A seed worker that starts late knows its torrent by id and lifecycle generation only. If the torrent was
  paused, resumed and made to wait again meanwhile, the old worker takes or gives away the slot of the
  new wait (`queue.rs:2050-2064, 1783-1789`). If a shutdown that refused the permit is rejected before
  the worker looks again (`queue.rs:2074-2093`), or the permit cannot be parked
  (`queue.rs:2133-2146`), the worker drops a torrent that still waits. `SeedSlots` names all of them
  (`slipped`), and the torrents a save has miscounted; its properties excuse nobody else.

* *Captures.* Discoveries have a serial queue of their own (`App.tsx:305-312`). One that runs before the
  capture of its page is dismissed as stale and acknowledged (`App.tsx:406-411`), although a comment says that
  accepted updates can still upgrade the row (`AddDownloadsModal.tsx:433-435`); `overtaken` names it. A deep
  link that is opened in the Add window while it submits is closed with it.
* *Start of the store.* A stop in the middle of `backup_file` leaves a torn legacy backup that every later
  start reuses and fails over (`db.rs:1093-1104`). A portable start fails over one row that it cannot decode
  (`db.rs:2182`), although a comment wants one corrupt row not to become an outage (`db.rs:2240-2245`).
  `StartsSucceed` names both.
* *Probes.* A GID that aria2 accepts after the client's three seconds runs unwatched (`unwatched`); the reaper
  may take the directory of a command that has just ended (`reaper = "reaped"`).
* *Pairing.* A read of the credential store that fails for the moment lets a grant (`lib.rs:16518`) or the
  migration (`db.rs:2915`) write a new token over the old one (`spoilt`). The poll of a dismissed grant never
  ends; to abandon a grant answers with the server's token of the moment.
* *Options.* Seeds that are saved while the task is pending or its GID paused never reach that transfer
  (`missed`, `lib.rs:15600`). A pause between the mapping of a GID and its first web seeds leaves the resumed
  transfer without them (`drift`, `queue.rs:5582-5630`). A start whose payload was built before a concurrent
  selection enqueues the old one (`late`). The renderer's row keeps the old selection when the Properties
  window is closed before the answer (`orphaned`).
* *Media runs.* A process that ends well just before its kill, but is reported more than 250 ms later, counts as
  cancelled, and its output may be deleted (`unseen`). An error of the shell's stream ends the attempt without a
  confirmed kill (`broken`). A pause whose kill failed and whose stream never reports the exit waits for ever. A
  configured cookie file has no fallback unless browser cookies are configured too.
* *Sleep.* `sync_power_activity` counts under the permits' lock and stores without it, and releases report after
  the gate is dropped: an old count may overwrite a newer one (`overtaken`), although `power.rs:9-12` makes the
  permits the source of truth. A refused assertion, a worker that does not start and one that has died are
  logged and not retried before the next change (`owed`).
* *Connection recovery.* One that fails between its verified `forcePause` and its `forceRemove` leaves the
  transfer paused, under a row that says Downloading and with its permit (`stranded`); the poller leaves paused
  GIDs alone (`lib.rs:25549-25551`) and nobody listens to `onDownloadPause`, so only the user repairs it. A
  poll without the transfer forgets its budget and cooldown, and a new GID resets the cooldown.
* *Daemon.* The published port is cleared by a stop or a failed restart only. After a crash the listener fails
  the transfers, and nobody starts another daemon before the application is restarted. A second exit that is
  rejected early (by the flush, the drain or the media) ends the recovery of the first and schedules none: the
  port is 0, `startup_error` empty, so the listener does not restart aria2 and the queue stays held
  (`superseded`, `lib.rs:5526`, `24770-24776`). The start does not take `restart_lock`: an exit meanwhile can
  leave two daemons, a port without a process, or a hold that nobody lifts. While a restart waits 200 ms for its
  candidate the handle is in nobody's hands, and the listener may take that for an exit (`lib.rs:11169`).
  A recovery looks at the handle and the port before it asks for the lock (`lib.rs:5532-5540`), and a restart
  looks at the port only (`lib.rs:5205-5212`). If a stop then has the handle of a hung daemon that was never
  published, and fails, its handle comes back and the restart puts a second daemon beside it (`unseen`). That
  takes two stops whose 15 seconds end together after two exits, and was found by the inductive invariant, not
  by a run: `DaemonIsOwned` names it, and the rest of the supervision holds with it.

* *Metadata.* Two callers of a key that release its lock before either drops its handle both count the other
  and leave the entry in the map (`lib.rs:3308-3320`) until the next request of the key.
  `fetch_metadata` gives up at its fifth redirect (`lib.rs:2468`), while the probe of a transfer
  (`queue.rs:8545`) and the fetch of a .torrent (`lib.rs:2288`) follow five.
* *Removal, two failures.* `run_media` only logs that `persist_completed_removal_payload` failed
  (`queue.rs:10722-10724`). If the first cleanup fails as well, the registration is already gone
  (`lib.rs:9001-9010`), and the retry (`removal_jobs.rs:131-155`) classifies by the row: unfinished, no GID,
  no runner. The complete file is then deleted for good. `CompletedPayloadIsKept` is violated by two faults
  (`MaxJobFaults = 2`); the run allows one, and it is no theorem.
* *Queued rows.* A resume worker of the same generation that was superseded gives up and
  `release_queue_reservation_for_generation` takes its successor's reservation. A system action that looks
  for reservations finds none and begins unforced (`queue.rs:4917-4932`); the successor is then refused its
  permit (`queue.rs:4738-4750`), only logs that (`lib.rs:8299-8309`), and the row stays Queued with nobody to
  start it. An exit that is rejected later does the same to a worker that gave up for it (`lib.rs:8248-8250`).
  Hence the hypotheses of `QueuedRowsAreCarried`; no run has resumes and these features together.

The first two of the list are in the model of the wake-ups: `unheard` collects who sleeps through a permit
or a lease that came free without a ring (`WorkerDrops`, `ResumerDrops`, `RenewHold`), until it wakes for
another reason, and the properties of `WakeUps` excuse nobody else. The run shows that with one queue
(`WakeStolen` needs two) these three are the only ways in which a wake-up is lost.

## 4. Proofs

The theorems hold for every value of the constants that satisfies the `ASSUME`s of the module they are
about: any finite set of downloads, any queues, generations, resume workers and limits; any number of moves,
stops, failing steps, exits and saves. `TLC` evaluates the same assumptions in every run. The larger
inductive invariants were checked by TLC on small instances before they were proved.

### The queue

* `TypeCorrect == Spec => []TypeOK`. Inductive. One lemma per action or group of actions, each with a
  part per group of variables; everything else rests on it.
* `PermitsAreConserved == Spec => []PermitInvariant`, and from it `SlotsAreConserved` (`PermitConservation`).
  Conservation alone is not inductive: a resume candidate that has no permit, or a task admitted while a
  worker of the same generation still has one in hand, would break the count in a step that is correct.
  The strengthening adds
  * `CandidatesAreReserved`, a resume worker holds a permit only between reservation and unpause, and
  * `GenerationsAreFresh`, no worker and no pending task carries a generation that an enqueue has
    reserved, or a newer one, not even after a rollback has lowered the watermark again. Hence a
    pending task never has a worker of its own generation, and admission adds one permit to the
    hands of a worker that had none.

  The count itself is a sum of three cardinalities. Lemmas say how one update of `worker`,
  `resumer` or `active` moves each of them (with `FS_AddElement` and `FS_RemoveElement`); every step
  is then *steady* (what leaves one place arrives in another), a *grant* (one more permit is out and
  the debt is paid), or a change of capacity.
* `GrantsAreBounded == Spec => TargetRespected`. Follows from conservation: a grant leaves no debt,
  so what is out is at most `target - resizing`.
* `ReservationsAreCorrect == Spec => []ReservationsMatchPermits`. Inductive together with the types
  and `CandidatesAreReserved`. Each step leaves every id *accounted* for: its two entries cleared
  together, kept with the carrier of a reservation kept too, or set to a matching pair.
* `WorkIsOwned`, `RunnersAreSingle` (`DownloadQueueOwnerProofs`). Neither is inductive: that a worker may
  park its permit, or that no second process is published, depends on what the others had found when they
  gave the lock up. `OwnerInvariant` says for each actor, at each of its program counters, what it may rely
  on: a worker in flight whose epoch is current owns the parked permit (`InFlightIsOwner`), a media worker
  owns its permit while it is registered (`MediaIsOwner`), a resume worker whose epoch is current finds
  its transfer paused and registered under its generation (`ResumerIsOwner`), a stop that waits for a runner
  keeps the permit it found (`StopIsOwner`), and what is registered is the newest lifecycle
  (`RegisteredIsNewest`). A step names one id: the others are `Untouched`, and for that one there is a
  lemma per action or per group of actions that move alike.
* `StaleWorkersAreFenced`, `RemovalsFence`, `SystemActionsFence`, `ClosedHandoffsStayQuiet`: the four
  action properties. The first two need `OwnerInvariant` (a worker that passes its generation check owns
  what it is about to write). `RemovalsFence` says that under a removal no epoch begins and no GID is mapped,
  and that a permit or a running transfer is gained only after a refused removal, by the resume that still
  owns the epoch. It uses that a dispatch in flight whose epoch is current has no refused removal
  (`InFlightIsOwner`), and that a resume worker about to unpause has the epoch and its retries
  (`ResumerIsOwner`). The third needs the queue facts only, the last just the types.
* `RegistrationsAreCarried` (`DownloadQueueCarrierProofs`), from `CarrierInvariant`: an unfinished
  registration has an enqueue, a pending task or a worker of its own generation, and a system action finds no
  reservation left. The second part holds only if no action is forced past its check, which is the hypothesis
  `ActionsAreChecked`; with forced actions the property is false, for the reason given above.
* `QueuedRowsAreCarried`, from `RowInvariant` of the same module: a queued row has its permit, its
  registration or a resume worker whose epoch is current, which finds no parked permit when it brings one.
  Its hypotheses leave system actions and exits out; with either, the code leaves such rows.

### The components

* `ExitBarrierProofs`. `ExitInvariant` has seven parts: who applies a completion, what the journal says, who
  holds a lease, which marks are carried, what each step of the exit has left behind, and what is on
  disk. From it `JournalIsExact`, `InterruptionsAreResumed`, `ExitTypes` and `ExitRefinesPromise`: the
  initial state maps to one of `ExitPromise`, and every step to a step of it or a stutter. In particular
  the step that lets the process go finds no completion under way and none that is in memory only.
  `DaemonInvariant` does the same for the aria2 process: whoever holds `restart_lock` knows what was launched,
  published and handed over before (`HolderIsKnown`, `LockIsWorth`); a process that lives is the one in the
  guard or in the holder's hands (`DaemonIsAlone`); where no daemon is published somebody is on the way to
  start one (`SomebodyRestarts`), and where the queue is held somebody lifts it (`HoldIsLifted`). None of the
  four properties is inductive without the others. It gives `DaemonStaysSupervised` for any number of launches,
  options and troubles, with `MaxExits \in Nat` (`DaemonBounds`) as its only hypothesis.
* `FileProofs`. `MoveInvariant` (the journal accompanies a move, what is published is in the new folder, the
  ownership record follows) gives `RowsHaveTheirData` and `RecordsFollowTheData`; `ReplacementInvariant` gives
  `ReplacedFilesSurvive`, provided the value for no owner is no download. `RemovalInvariant` relates the
  remover's place to files, manifest, claim and transfer: a foreign file is in no manifest, what was removed
  stays removed to the end of the cleanup, and no transfer outlives the question of ownership. From it
  `ForeignFilesAreSpared` and `RemovalsAreFinal`. `ControlInvariant` gives every GID its place: it is mapped, or
  the child of the mapped one, or added and not answered for, or ignored and ended (`EveryGidHasItsPlace`). An add of
  the current epoch finds what it left, a worker whose epoch and revision are current finds its GID paused,
  and metadata come before a payload. It gives `TransfersStayOwned` for any number of adds and commands; the
  hypothesis `ControlBounds` says that `MaxAdds` is a natural number.
* `RowProofs`. `RowInvariant` (no snapshot is ahead of the native side, and where a marker is gone the
  renderer and its save have seen the commit) gives `CommitsAreKept`; `MaxUploads \in Nat` is the only
  hypothesis. `MediaInvariant` follows a progress value from its measurement through frame, row, throttle and
  snapshot with the epoch it carries, and gives `ProgressIsTrue`.
  `OptionInvariant` says for each step of a command what it may rely on until it lets the control lock go: which
  seeds are to be undone, which of them the daemon has, and which selection the row, the payload, the database
  and the ownership record have (`ChangeCanBeUndone`, `UrisFollow`, `SelectionFollows`). It gives
  `OptionsStayInAgreement` without a hypothesis. `RecoveryInvariant` gives `RecoveriesHealOneTransfer`: of all
  GIDs only the one in the map, or the one a step of the recovery has in hand, may live (`OnlyTheHolderLives`),
  an add has found the old GID gone (`AddIsPrepared`), and every recovery since the last healthy spell was paid
  for with an attempt (`RecoveriesArePaid`). Its hypothesis `RecoveryBounds` says that there is a GID and that
  delays and limits are natural numbers.
* `ServiceProofs`. `ProbeInvariant` counts the requests of a source by pass, redirect and step, and says when its
  chain may still show credentials; it gives `CredentialsAreSafe` under `Hops \in Nat`. `PowerInvariant` gives
  `SleepFollows`: of two counts on their way one is known to be the later, the latest is that of the permits or
  has been overtaken, and a count or preference the worker has not seen has a command or a caller on its way to
  it. It assumes that no download is called `"main"`, the caller that stands for the main thread.
  `RunInvariant` says of a media runner what each of its steps may rely on: where it may have let go of a living
  process the stream of events broke, whoever cancelled it waits for its end, the outcome on record is its result,
  a process that ended well is no longer there when files are wiped unless nobody saw its report, and an attempt
  has cost a strike or a fallback. It gives `RunsStayWhole` for any number of retries. `MagnetInvariant` follows
  the two GIDs of a metadata probe from the request to their end: only a GID whose request was answered
  runs (`TransfersAreAnswered`), what runs is watched by the probe or by the cleanup that a dropped guard leaves
  behind, and nothing outlives its daemon (`RunningIsWatched`); as long as one may run its directory is there
  (`DirectoryIsHeld`), and metadata are those of a transfer that has ended (`BytesAreOfTheEnded`). It gives `ProbesLeaveNothingBehind` without a hypothesis.
* `ComponentProofs` carries these over to `MCComponents`, which gives every component a part of one state.
  It shows that the component that moves is the instance the proofs are about, and that the others stand
  still: `ExitsAreExact`, `ExitsKeepTheirPromise`, `RemovalsAreFinal`, `OperationsKeepFiles`,
  `SnapshotsKeepCommits`, `ProgressFollowsFiles`, `CredentialsStay`, `AwakeExactlyWhileBusy`,
  `MediaRunsStayWhole`, `ProbesAreClean`, `OptionsStayAgreed`, `RecoveriesStayWhole`,
  `DaemonsAreSupervised` and `TransfersStayWatched` state what the run `Components` checks.

### Only model-checked

* `QueueLimitRespected`: false in general (`QueueStaleResume`), true with the one resume worker of its run.
* `KnownPayloadIsKept`: false with two faults, as said above.
* `SlotsAreAccounted`: the line of waiters is edited with `Remove`, a `SelectSeq` with a `LAMBDA`, which no
  installed prover can expand. `MetadataIsShared`, `SeedSlotsAreShared` and `StartKeepsTheRows` are about
  models that use `SelectSeq` too.
* `WindowIsEnforced`, `CapturesAreReviewed` and `SecretsAreKept`: nobody has found their
  inductive invariants yet. `TypesHold` collects the types of all components; those of the proved ones are part
  of their invariants.
* Liveness (`StopsComplete`, `DispatchesSettle`, `EligibleTaskIsAdmitted`, `WaitingResumeIsServed`):
  reasoning about fairness needs `ENABLED`, which the prover does not support.

## 5. Not modelled, and the plan

*Seen in a model, and excused by its property.* An enqueue that is refused after its journal says `admitted`
(`queue.rs:2747-2790`), followed by a stop before the restore (`lib.rs:12428-12455`), lets the recovery
discard the quarantined original. `DownloadReplacement` reaches it; `OriginalSurvives` asks for the original
only as long as nothing was admitted.

*Seen while reading, outside the bounds of the models.* Each is a state the modules exclude by a named
bound or assumption, so no run speaks about it:

* The restore of a replacement drops its journal before the ownership record is put back
  (`lib.rs`, around 12475).
* A torrent move that is refused by the ownership registry leaves its staging folder
  (`lib.rs:14867-14875`).
* The mark of a failed shutdown journal is never cleared for a row that is removed afterwards, and
  refuses every later exit (`lib.rs:5591-5617`).
* The poll loop ends for good when `tellActive` fails while no daemon port is set (`lib.rs`, around 25060).
* A resume worker that gives up because of a shutdown, or checks for it before it gets in line and misses the
  notification that closes the handoffs, leaves its row Queued when the shutdown is rejected (`queue.rs:4291`).
* The lists of ignored and buffered GIDs are bounded: a late event of a GID that was evicted is taken for a new
  one (`queue.rs:6737`).
* A magnet whose child appears after the minute it is waited for, or whose metadata is complete before
  its GID is mapped, is not adopted (`queue.rs:5480-5550`, around 10305). One `removeUri` is tried for a
  stale GID; the GID of a stale retry is not ignored (`queue.rs:7557-7579`). A pause of a GID in `error`
  returns an error without an event (`lib.rs:7940-7979`). The resume of an ended GID gives the control
  lock up before it enqueues again (`lib.rs:8731-8737`).
* A restart between a scheduled start's first admission and the save of what it admitted
  (`App.tsx:1390-1424`) leaves downloads that no stop pauses.

*Planned*, in this order:

1. `PendingOrder`: positions inside a queue, restored tasks (`queue.rs:2453`), reordering, moves between queues.
2. Resume workers across a rejected exit (`queue.rs:4291`), and an exit during the start of the daemon.
3. Proofs of further components: `PairingToken`, `ScheduledRuns`, `ExtensionHandoff`; and
   `SlotsAreAccounted`, with the line of waiters as a function.

*Left out for good.* Much of the source is not control: the parsing of URLs, headers and torrents, the refusal of
private addresses, settings validation, telemetry, platform and window glue, engine discovery, and the user interface with its dialogs and
translations. It holds no state that outlives a call, or converts data. Nearly half of the queue's and the
commands' files are tests. The map names about three tenths of the lines of the files it touches.

## 6. Running it

    tlc -workers 2 -config QueueLifecycle.cfg MCDownloadQueue
    tlc -workers 2 -config WakeUps.cfg MCDispatchWake
    tlc -workers 2 -config Components.cfg MCComponents
    tlc -workers 2 -config MoveRecovery.cfg TorrentMove
    tlapm DownloadQueueCarrierProofs.tla
    tlapm ComponentProofs.tla

`tlapm` checks the module it is given, and takes the theorems of the modules it extends as they are: every
`*Proofs` module is checked by itself.

Every `.cfg` names its bounds at the top. The operators commented `mutant` are
not part of the model: each is a plausible error of the definition after it, and `PROJECT.json` says
which property finds it.
