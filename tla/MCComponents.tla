---------------------------- MODULE MCComponents ----------------------------
(***************************************************************************)
(* The components around the queue, each a state machine of its own, for   *)
(* one run of TLC: the first state chooses a component, which then moves   *)
(* alone.  They share the places s1, s2, ... of the state, each instance    *)
(* naming the places its variables take; a place that the chosen component *)
(* does not use holds NoValue.                                             *)
(***************************************************************************)
EXTENDS Naturals, Sequences

CONSTANTS
  Ids, Nobody, Supersedes,                   \* DownloadReplacement
  Files, Readers, MaxFaults,                 \* TorrentMove
  LateEvents, MaxJobFaults,                  \* RemovalJob
  MaxUploads, MaxVerifications,              \* RowSnapshots
  MaxAttempts, MaxExitFaults, MaxAgain,      \* ExitBarrier
  MaxRuns, MaxFrames,                        \* MediaProgress
  MaxAdds, MaxCommands, MaxReports,          \* Aria2Control
  Downloads, Days, DayLength, MaxUpsets,     \* ScheduledRuns
  Torrents, MaxSeeds, Workers, MaxSaves, MaxFences, MaxDoubts, \* SeedSlots
  Pages, Finds, MaxRequests, MaxSessions, MaxReplays, MaxAcks, MaxHeld, MaxMishaps, MaxSubmits, \* ExtensionHandoff
  MaxProbeFaults, MaxMoments,                \* MagnetProbe
  Stored, Sources, MaxStarts, MaxChanges,    \* StoreStartup
  Tokens, Requests, MaxMisses, MaxLives,     \* PairingToken
  MaxEdits, MaxTransfers,                    \* LiveOptions
  MaxResumes, MaxBreaks,                     \* MediaRun
  Transfers, MaxShifts, MaxPreferences, MaxSetbacks, \* PowerAssertions
  MaxGids, MaxLost, MaxPauses, MaxTries, Delay, Cooldown, HealthySamples, RecoveryLimit, \* ConnectionRecovery
  MaxProcs, MaxExits, MaxOptions, MaxTroubles, \* DaemonSupervision
  MaxStrikes,                                \* MediaRun and SourceProbes
  MaxCalls, MaxAsks, MaxEntries, MaxRewrites, \* MediaMetadata
  Hops,                                      \* SourceProbes
  MaxMoves,                                  \* TorrentMove and RowSnapshots
  MaxStops,                                  \* wherever the process may stop
  FileStops,                                 \* where a recovery may be cut short too
  NoValue                                    \* what a place holds that nobody uses

VARIABLES
  component,     \* the one that moves
  s1, s2, s3, s4, s5, s6, s7, s8, s9, s10, s11, s12, s13, s14, s15, s16, s17, s18, s19, s20,
  s21, s22, s23, s24, s25, s26, s27, s28, s29, s30, s31   \* its state

\* A window within the day, one that ends with it, and one over midnight.
Windows == {[start |-> 0, stop |-> 1], [start |-> 1, stop |-> 2], [start |-> 2, stop |-> 1]}

Replacement == INSTANCE DownloadReplacement WITH
  MaxStops <- FileStops, target <- s1, quarantine <- s2, journal <- s3, owner <- s4,
  cmd <- s5, registered <- s6, superseded <- s7, accepted <- s8, admitted <- s9,
  touched <- s10, stops <- s11
Move == INSTANCE TorrentMove WITH
  MaxStops <- FileStops, at <- s1, staged <- s2, stagingRoot <- s3, dest <- s4, owned <- s5,
  move <- s6, moving <- s7, cancelMove <- s8, mover <- s9, reader <- s10, moves <- s11,
  moveStops <- s12, moveFaults <- s13
Removal == INSTANCE RemovalJob WITH
  kind <- s1, claim <- s2, deleteAssets <- s3, row <- s4, job <- s5, manifest <- s6,
  asset <- s7, gone <- s8, transfer <- s9, complete <- s10, outcome <- s11, event <- s12,
  view <- s13, saving <- s14, request <- s15, remover <- s16, permanent <- s17,
  jobStops <- s18, jobFaults <- s19
Rows == INSTANCE RowSnapshots WITH
  rec <- s1, marks <- s2, shown <- s3, snapshot <- s4, committed <- s5, moved <- s6,
  uploaded <- s7, news <- s8, verifier <- s9, acking <- s10, verifications <- s11,
  rowStops <- s12
Exit == INSTANCE ExitBarrier WITH
  guard <- s1, exitAt <- s2, waking <- s3, recovery <- s4, handoffsOpen <- s5, sealed <- s6,
  exiting <- s7, late <- s8, leases <- s9, daemon <- s10, carrier <- s11, bytes <- s12,
  socket <- s13, command <- s14, runner <- s15, registrationClosed <- s16,
  interrupted <- s17, redoing <- s18, observed <- s19, settled <- s20, exitJournal <- s21,
  journalFailed <- s22, stored <- s23, uiRow <- s24, uiNews <- s25, uiExit <- s26,
  finalFlush <- s27, attempts <- s28, exitFaults <- s29, again <- s30, exitStops <- s31
Media == INSTANCE MediaProgress WITH
  checkpoint <- s1, part <- s2, parts <- s3, run <- s4, frames <- s5, item <- s6, held <- s7,
  upload <- s8, crossed <- s9, runs <- s10, mediaStops <- s11
Control == INSTANCE Aria2Control WITH
  magnet <- s1, gids <- s2, wire <- s3, bound <- s4, adopted <- s5, epoch <- s6,
  revision <- s7, ignored <- s8, buffered <- s9, carried <- s10, cancelled <- s11,
  retrying <- s12, inflight <- s13, backoffs <- s14, adding <- s15, stale <- s16,
  resumers <- s17, handlers <- s18, shows <- s19, adds <- s20, commands <- s21,
  reports <- s22
Schedule == INSTANCE ScheduledRuns WITH
  Schedules <- Windows, now <- s1, schedule <- s2, document <- s3, cached <- s4,
  hydrated <- s5, native <- s6, local <- s7, inbox <- s8, handler <- s9, activeRun <- s10,
  latestRun <- s11, by <- s12, tracked <- s13, trackedStored <- s14, until <- s15,
  upsets <- s16
Seeds == INSTANCE SeedSlots WITH
  Slots <- MaxSeeds, daemon <- s1, full <- s2, live <- s3, seedRow <- s4, control <- s5,
  bound <- s6, retired <- s7, removing <- s8, locked <- s9, admitting <- s10, owners <- s11,
  queue <- s12, starting <- s13, separate <- s14, budgets <- s15, reserved <- s16,
  parked <- s17, kinds <- s18, seeder <- s19, fence <- s20, slipped <- s21,
  miscounted <- s22, pooled <- s23, commands <- s24, saves <- s25, fences <- s26,
  doubts <- s27
Extension == INSTANCE ExtensionHandoff WITH
  requests <- s1, sessions <- s2, replays <- s3, ready <- s4, gated <- s5, early <- s6,
  captures <- s7, captureStep <- s8, updates <- s9, updateStep <- s10, addWindow <- s11,
  addRows <- s12, heldUpdates <- s13, submitting <- s14, torrentFiles <- s15,
  reviewed <- s16, taken <- s17, expected <- s18, overtaken <- s19, lostRows <- s20,
  mishaps <- s21, submits <- s22
Probe == INSTANCE MagnetProbe WITH
  step <- s1, attempt <- s2, bytes <- s3, lease <- s4, held <- s5, left <- s6, request <- s7,
  transfer <- s8, unwatched <- s9, directory <- s10, daemon <- s11, reaper <- s12,
  probeFaults <- s13, moments <- s14
Store == INSTANCE StoreStartup WITH
  portable <- s1, phase <- s2, source <- s3, schema <- s4, row <- s5, before <- s6,
  secrets <- s7, owned <- s8, job <- s9, marker <- s10, backups <- s11, legacy <- s12,
  token <- s13, starts <- s14, changes <- s15
Pairing == INSTANCE PairingToken WITH
  portable <- s1, stored <- s2, keychain <- s3, saved <- s4, password <- s5, server <- s6,
  authorized <- s7, busy <- s8, grant <- s9, abandoned <- s10, worker <- s11, ui <- s12,
  request <- s13, replies <- s14, call <- s15, edit <- s16, writes <- s17, hadToken <- s18,
  spoilt <- s19, misses <- s20, lives <- s21
Options == INSTANCE LiveOptions WITH
  mode <- s1, payload <- s2, asked <- s3, uris <- s4, caps <- s5, alive <- s6, row <- s7,
  saved <- s8, owned <- s9, command <- s10, install <- s11, answer <- s12, session <- s13,
  drift <- s14, missed <- s15, late <- s16, orphaned <- s17, edits <- s18, transfers <- s19
MediaRunner == INSTANCE MediaRun WITH
  setup <- s1, step <- s2, strike <- s3, cookies <- s4, processing <- s5, reason <- s6,
  result <- s7, proc <- s8, event <- s9, mute <- s10, stray <- s11, cancel <- s12,
  pausing <- s13, owned <- s14, outcome <- s15, row <- s16, output <- s17, parts <- s18,
  attempts <- s19, runs <- s20, breaks <- s21, broken <- s22, unseen <- s23, torn <- s24
Power == INSTANCE PowerAssertions WITH
  combined <- s1, permits <- s2, sync <- s3, active <- s4, enabled <- s5, wanted <- s6,
  choice <- s7, call <- s8, worker <- s9, commands <- s10, goal <- s11, believed <- s12,
  held <- s13, owed <- s14, overtaken <- s15, shifts <- s16, preferences <- s17,
  setbacks <- s18
Recovery == INSTANCE ConnectionRecovery WITH
  torrent <- s1, payload <- s2, gids <- s3, used <- s4, mapped <- s5, epoch <- s6,
  carried <- s7, row <- s8, obs <- s9, sample <- s10, step <- s11, target <- s12,
  adding <- s13, spree <- s14, stranded <- s15, lost <- s16, pauses <- s17
Daemon == INSTANCE DaemonSupervision WITH
  procs <- s1, loads <- s2, child <- s3, spec <- s4, port <- s5, failed <- s6, holder <- s7,
  starter <- s8, listener <- s9, recovering <- s10, exits <- s11, exit <- s12, hold <- s13,
  carried <- s14, at <- s15, chosen <- s16, doubt <- s17, superseded <- s18, dropped <- s19,
  unseen <- s20, troubles <- s21
Metadata == INSTANCE MediaMetadata WITH
  list <- s1, calls <- s2, cache <- s3, expired <- s4, locks <- s5, present <- s6,
  rewrites <- s7, asks <- s8
Source == INSTANCE SourceProbes WITH
  kind <- s1, known <- s2, sources <- s3, step <- s4, at <- s5, hops <- s6, cookies <- s7,
  strikes <- s8, allowed <- s9, plan <- s10, last <- s11, strayed <- s12, challenged <- s13,
  sends <- s14

\* The places above the first n hold nothing, and keep doing so.
Unused(n) ==
  /\ (n < 9 => s9 = NoValue) /\ (n < 10 => s10 = NoValue) /\ (n < 11 => s11 = NoValue)
  /\ (n < 12 => s12 = NoValue) /\ (n < 13 => s13 = NoValue) /\ (n < 14 => s14 = NoValue)
  /\ (n < 15 => s15 = NoValue) /\ (n < 16 => s16 = NoValue) /\ (n < 17 => s17 = NoValue)
  /\ (n < 18 => s18 = NoValue) /\ (n < 19 => s19 = NoValue) /\ (n < 20 => s20 = NoValue)
  /\ (n < 21 => s21 = NoValue) /\ (n < 22 => s22 = NoValue) /\ (n < 23 => s23 = NoValue)
  /\ (n < 24 => s24 = NoValue) /\ (n < 25 => s25 = NoValue) /\ (n < 26 => s26 = NoValue)
  /\ (n < 27 => s27 = NoValue) /\ (n < 28 => s28 = NoValue) /\ (n < 29 => s29 = NoValue)
  /\ (n < 30 => s30 = NoValue) /\ (n < 31 => s31 = NoValue)
Above27 == <<s28, s29, s30, s31>>
Above24 == <<s25, s26, s27, Above27>>
Above22 == <<s23, s24, Above24>>
Above21 == <<s22, Above22>>
Above20 == <<s21, Above21>>
Above19 == <<s20, Above20>>
Above18 == <<s19, Above19>>
Above17 == <<s18, Above18>>
Above16 == <<s17, Above17>>
Above15 == <<s16, Above16>>
Above14 == <<s15, Above15>>
Above13 == <<s14, Above14>>
Above12 == <<s13, Above13>>
Above11 == <<s12, Above12>>
Above8 == <<s9, s10, s11, Above11>>

Init ==
  \/ component = "replacement" /\ Replacement!Init /\ Unused(11)
  \/ component = "move"        /\ Move!Init        /\ Unused(13)
  \/ component = "removal"     /\ Removal!Init     /\ Unused(19)
  \/ component = "rows"        /\ Rows!Init        /\ Unused(12)
  \/ component = "exit"        /\ Exit!Init        /\ Unused(31)
  \/ component = "media"       /\ Media!Init       /\ Unused(11)
  \/ component = "control"     /\ Control!Init     /\ Unused(22)
  \/ component = "schedule"    /\ Schedule!Init    /\ Unused(16)
  \/ component = "seeds"       /\ Seeds!Init       /\ Unused(27)
  \/ component = "extension"   /\ Extension!Init   /\ Unused(22)
  \/ component = "probe"       /\ Probe!Init       /\ Unused(14)
  \/ component = "store"       /\ Store!Init       /\ Unused(15)
  \/ component = "pairing"     /\ Pairing!Init     /\ Unused(21)
  \/ component = "options"     /\ Options!Init     /\ Unused(19)
  \/ component = "run"         /\ MediaRunner!Init /\ Unused(24)
  \/ component = "power"       /\ Power!Init       /\ Unused(18)
  \/ component = "recovery"    /\ Recovery!Init    /\ Unused(17)
  \/ component = "daemon"      /\ Daemon!Init      /\ Unused(21)
  \/ component = "metadata"    /\ Metadata!Init    /\ Unused(8)
  \/ component = "sources"     /\ Source!Init      /\ Unused(14)

Next ==
  /\ UNCHANGED component
  /\ CASE component = "replacement" -> Replacement!Next /\ UNCHANGED Above11
       [] component = "move" -> Move!Next /\ UNCHANGED Above13
       [] component = "removal" -> Removal!Next /\ UNCHANGED Above19
       [] component = "rows" -> Rows!Next /\ UNCHANGED Above12
       [] component = "exit" -> Exit!Next
       [] component = "media" -> Media!Next /\ UNCHANGED Above11
       [] component = "control" -> Control!Next /\ UNCHANGED Above22
       [] component = "schedule" -> Schedule!Next /\ UNCHANGED Above16
       [] component = "seeds" -> Seeds!Next /\ UNCHANGED Above27
       [] component = "extension" -> Extension!Next /\ UNCHANGED Above22
       [] component = "probe" -> Probe!Next /\ UNCHANGED Above14
       [] component = "store" -> Store!Next /\ UNCHANGED Above15
       [] component = "pairing" -> Pairing!Next /\ UNCHANGED Above21
       [] component = "options" -> Options!Next /\ UNCHANGED Above19
       [] component = "run" -> MediaRunner!Next /\ UNCHANGED Above24
       [] component = "power" -> Power!Next /\ UNCHANGED Above18
       [] component = "recovery" -> Recovery!Next /\ UNCHANGED Above17
       [] component = "daemon" -> Daemon!Next /\ UNCHANGED Above21
       [] component = "metadata" -> Metadata!Next /\ UNCHANGED Above8
       [] component = "sources" -> Source!Next /\ UNCHANGED Above14

vars == <<component, s1, s2, s3, s4, s5, s6, s7, s8, s9, s10, s11, s12, s13, s14, s15, s16, s17, s18,
          s19, s20, s21, s22, s23, s24, s25, s26, s27, s28, s29, s30, s31>>

Spec == Init /\ [][Next]_vars

-----------------------------------------------------------------------------
(* The components' properties, each stated in its module.                    *)

\* The variables of the component that moves have the types their declarations name.
TypesHold ==
  /\ component = "replacement" => Replacement!TypeOK
  /\ component = "move" => Move!TypeOK
  /\ component = "removal" => Removal!TypeOK
  /\ component = "rows" => Rows!TypeOK
  /\ component = "exit" => Exit!TypeOK
  /\ component = "media" => Media!TypeOK
  /\ component = "control" => Control!TypeOK
  /\ component = "schedule" => Schedule!TypeOK
  /\ component = "seeds" => Seeds!TypeOK
  /\ component = "extension" => Extension!TypeOK
  /\ component = "probe" => Probe!TypeOK
  /\ component = "store" => Store!TypeOK
  /\ component = "pairing" => Pairing!TypeOK
  /\ component = "options" => Options!TypeOK
  /\ component = "run" => MediaRunner!TypeOK
  /\ component = "power" => Power!TypeOK
  /\ component = "recovery" => Recovery!TypeOK
  /\ component = "daemon" => Daemon!TypeOK
  /\ component = "metadata" => Metadata!TypeOK
  /\ component = "sources" => Source!TypeOK

\* A replaced file survives until its replacement is durable, and nobody else's is lost or left to a
\* download whose replacement was refused; the folder of a row has all of its torrent, wherever a
\* move ends, and the ownership record names that folder when the move is over.
FilesAreKept ==
  /\ component = "replacement" =>
       /\ Replacement!OriginalSurvives
       /\ Replacement!ForeignFileSurvives
       /\ Replacement!OwnsOnlyItsOutput
  /\ component = "move" =>
       /\ Move!RowHasTheData
       /\ Move!OwnershipFollowsData

\* A removal deletes nothing for good that is known to be complete.
KnownPayloadIsKept == component = "removal" => Removal!CompletedPayloadIsKept

\* A removal takes no file that its first cleanup did not find; a removed row never comes back,
\* and goes only when its files are gone.
RemovalIsFinal ==
  component = "removal" =>
    /\ Removal!ForeignFilesSurvive
    /\ Removal!RemovedStaysRemoved

\* No snapshot of the renderer undoes what the native side has committed, and the markers that
\* protect a commit go when they have done so.
RowsAgree ==
  component = "rows" =>
    /\ Rows!NativeCommitsAreKept
    /\ Rows!SnapshotsConverge

\* The exit's journal speaks of no other lifecycle, and a rejected exit has the media download
\* it interrupted resumed.
ExitIsExact ==
  component = "exit" =>
    /\ Exit!JournalIsOfThisLifecycle
    /\ Exit!InterruptedIsResumed

\* Saved media progress belongs to the partial files there are.
ProgressIsOfTheseBytes == component = "media" => Media!ProgressIsOfTheseBytes

\* Whatever the daemon transfers has somebody who watches it, and a completed row has its
\* payload.
TransfersAreWatched ==
  component = "control" =>
    /\ Control!EveryTransferIsOwned
    /\ Control!DoneIsPayload

\* A scheduled run ends with its window.
WindowIsEnforced == component = "schedule" => Schedule!WindowIsEnforced

\* A torrent that seeds has a seed slot or its download permit, no slot is forgotten, and one
\* that waits for a slot is in line for it.
SeedSlotsAreShared ==
  component = "seeds" =>
    /\ Seeds!SeedsHoldSlots
    /\ Seeds!SlotsAreUsed
    /\ Seeds!WaitersAreCarried

\* The browser extension is told the truth, a captured page shows what was discovered on it,
\* and no capture is lost with a submission.
CapturesAreReviewed ==
  component = "extension" =>
    /\ Extension!AnswersAreEarned
    /\ Extension!RowsShowUpdatesInTurn
    /\ Extension!CapturesSurvive

\* The resolution of a magnet link leaves the transfers of others alone, a directory goes
\* only after the GID that writes to it, and a resolved magnet has its metadata.
ProbesCleanUp ==
  component = "probe" =>
    /\ Probe!OthersAreSpared
    /\ Probe!DirectoryOutlivesGid
    /\ Probe!ProbeIsWhole

\* Whatever happens to the database between two starts and in one, removed downloads stay
\* removed, intact rows stay, owned ones come back, and secrets go without the pairing token.
StartKeepsTheRows ==
  component = "store" =>
    /\ Store!TombstonesHold
    /\ Store!IntactRowsStay
    /\ Store!OwnedRowsAreBack
    /\ Store!SecretsGoTheTokenStays
    /\ Store!StartsSucceed

\* The pairing of the browser extension is kept, shown as it is, and used only as long as the
\* user has not dismissed it; a site login has its password.
SecretsAreKept ==
  component = "pairing" =>
    /\ Pairing!PairingIsKept
    /\ Pairing!TokenIsShown
    /\ Pairing!DismissalHolds
    /\ Pairing!LoginsAreWhole

\* The options of a torrent are the same in the daemon, in the payload of a retry, in the
\* database and in the row, whatever step of a change fails.
OptionsAgree ==
  component = "options" =>
    /\ Options!DaemonHasThePayload
    /\ Options!SeedsAreSaved
    /\ Options!SelectionIsWhole

\* A media download lets go of nothing its process may still write, keeps a success and its
\* retries, and says that it was paused.
RunsAreWhole ==
  component = "run" =>
    /\ MediaRunner!ProcessIsWatched
    /\ MediaRunner!SuccessIsKept
    /\ MediaRunner!RetriesAreSpent
    /\ MediaRunner!CleanupIsSafe
    /\ MediaRunner!PauseIsShown

\* The computer stays awake exactly while transfers are active and the preferences ask for it,
\* unless a request failed or a report was overtaken.
AwakeWhileBusy ==
  component = "power" =>
    /\ Power!CountFollowsPermits
    /\ Power!SleepFollowsTransfers

\* A transfer whose connections are healed is never doubled, lost or shown as something it is not,
\* and is healed no more often than the limit allows.
RecoveriesHeal ==
  component = "recovery" =>
    /\ Recovery!OneTransfer
    /\ Recovery!NothingIsOrphaned
    /\ Recovery!RowIsTrue
    /\ Recovery!RecoveriesAreBounded

\* There is one aria2 process, a transfer is given up only with it, the queue is not held for ever,
\* and each launch has the options that were accepted.
DaemonIsSupervised ==
  component = "daemon" =>
    /\ Daemon!DaemonIsOwned
    /\ Daemon!TransfersFollowProcess
    /\ Daemon!DaemonComesBack
    /\ Daemon!OptionIsKept

\* The requests for a page share one run of yt-dlp and the answers that are kept, and each is told
\* only what its own cookies show.
MetadataIsShared ==
  component = "metadata" =>
    /\ Metadata!OneRunPerKey
    /\ Metadata!KeptUnderItsCookies
    /\ Metadata!AnswersAreTheirOwn
    /\ Metadata!CacheIsBounded

\* The requests that ask a source for a download show its credentials to nobody else, come to an
\* end, and leave aria2 no more than they found.
CredentialsAreKept ==
  component = "sources" =>
    /\ Source!CredentialsStayHome
    /\ Source!CookiesWait
    /\ Source!SendsAreBounded
    /\ Source!TransferIsPrepared

\* ExitBarrier implements ExitPromise, which the other components leave alone.
Promise == INSTANCE ExitPromise WITH
  alive <- component = "exit" => Exit!Running,
  busy  <- component = "exit" /\ Exit!Busy,
  owed  <- component = "exit" /\ Exit!Owed,
  kept  <- component = "exit" /\ Exit!Kept

\* The process exits only with every completion on the disk.
ExitKeepsItsPromise == Promise!Spec
=============================================================================
