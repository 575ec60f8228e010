\* One step at a time of the component that the first state chooses.
SPECIFICATION Spec
\* Each component may come to its end.
CHECK_DEADLOCK FALSE
CONSTANTS
  Ids = {"d1", "d2"}
  Nobody = Nobody
  Supersedes = TRUE
  Files = {"f1", "f2"}
  Readers = {"snake_case", "camelCase"}
  MaxFaults = 1
  LateEvents = FALSE
  MaxJobFaults = 1
  MaxUploads = 2
  MaxVerifications = 2
  MaxAttempts = 2
  MaxExitFaults = 1
  MaxAgain = 1
  MaxRuns = 3
  MaxFrames = 2
  MaxAdds = 2
  MaxCommands = 2
  MaxReports = 1
  Downloads = {"x"}
  Days = 2
  DayLength = 3
  MaxUpsets = 2
  MaxMoves = 2
  MaxStops = 1
  FileStops = 2
  Torrents = {"t1", "t2"}
  MaxSeeds = 1
  Workers = {1, 2}
  MaxSaves = 1
  MaxFences = 1
  MaxDoubts = 1
  Pages = 2
  Finds = 2
  MaxRequests = 3
  MaxSessions = 1
  MaxReplays = 1
  MaxAcks = 2
  MaxHeld = 1
  MaxMishaps = 1
  MaxSubmits = 1
  MaxProbeFaults = 2
  MaxMoments = 1
  Stored = {"d", "e"}
  Sources = {1, 2}
  MaxStarts = 3
  MaxChanges = 2
  Tokens = {1, 2, 3, 4, 5, 6}
  Requests = {1, 2}
  MaxMisses = 1
  MaxLives = 2
  MaxEdits = 2
  MaxTransfers = 2
  MaxStrikes = 1
  MaxResumes = 1
  MaxBreaks = 2
  Transfers = {"b1", "b2"}
  MaxShifts = 2
  MaxPreferences = 1
  MaxSetbacks = 1
  MaxGids = 4
  MaxLost = 2
  MaxPauses = 1
  MaxTries = 1
  Delay = 1
  Cooldown = 2
  HealthySamples = 2
  RecoveryLimit = 2
  MaxProcs = 2
  MaxExits = 2
  MaxOptions = 2
  MaxTroubles = 1
  MaxCalls = 2
  MaxAsks = 3
  MaxEntries = 1
  MaxRewrites = 1
  Hops = 2
  NoValue = NoValue
INVARIANTS
  TypesHold
  FilesAreKept
  KnownPayloadIsKept
  RemovalIsFinal
  RowsAgree
  ExitIsExact
  ProgressIsOfTheseBytes
  TransfersAreWatched
  WindowIsEnforced
  SeedSlotsAreShared
  CapturesAreReviewed
  ProbesCleanUp
  StartKeepsTheRows
  SecretsAreKept
  OptionsAgree
  RunsAreWhole
  AwakeWhileBusy
  RecoveriesHeal
  DaemonIsSupervised
  MetadataIsShared
  CredentialsAreKept
PROPERTIES
  ExitKeepsItsPromise
