SPECIFICATION WorkSpec
CONSTANTS
  KeptLines = 5
  Tail0 = 2
  Fallback = 4
  Around = 1
  JobPage = 1
  MaxRead = 8
  MaxDiff = 4
  FilePage = 3
  HistoryPage = 6
  MaxStatuses = 5
  MinStatuses = 3
  Jobs = 2
  LogLines = 10
  Files = 4
  Sizes = {1, 2, 3}
  Pipeline = 10
  ChangeTypes = {"bug_fix", "test_fix", "schema_change", "unknown"}
  Fields = {"bug_fixes", "test_fixes", "schema_changes"}
  MaxPieces = 2
  MaxUsage = 1
  Roles = {"coding", "evaluator", "reviewer"}
  Enabled = TRUE
  Capture = "all-visible"
  PerRequest = TRUE
  MaxPending = 3
  MaxRequests = 2
  MaxSequence = 5
  QueueCap = 2
  Commands = 2
  Children = {c1, c2}
  MayDetach = TRUE
  MayCancel = TRUE
  Cap = 2
  PipeSize = 2
  MaxWrites = 4
  Calls = {"read", "verify"}
  Verified = {"verify"}
  MaxTurns = 4
  InvestigationCap = 8
  Hosts <- RemoteHosts
  IsGitHub <- GitHubHosts
  IsGitLab <- GitLabHosts
  Slugs <- RemotePaths
  MaxEntries = 1
  Configured <- Notifiers
  LoopEvents = {"completed", "failed", "notified"}
  MaxFires = 3
  Agents = {a1, a2}
  Categories = {"semantic", "episodic"}
  MaxRows = 4
  MaxCalls = 4
  Day = 4
  MaxQuiet = 3
  PerTick = 5
  Batch = 30
  MaxBatches = 3
INVARIANTS
  WorkTypeOK
  EnrichmentIsFaithful
  TriageFailsSafe
  SpendIsAccounted
  ResultsAreTrue
  VerdictWasSaid
  ReviewIsBounded
  DeliveryIsResolved
  MemoryIsKept
  BacklogBounded
PROPERTIES
  TraceIsDurable
  CommandsEnd
  SubscribersAreCalled
  FiresReturn
CHECK_DEADLOCK FALSE
