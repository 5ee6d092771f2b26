SPECIFICATION SignalsSpec
CONSTANTS
  git = git
  cron = cron
  logs = logs
  Order <- GitCronLogs
  Schedules = {cron}
  Joining = {logs}
  Capacity = 2
  Ticks = 2
  Old = {1, 2}
  Fresh = {3, 4}
  History <- Pair
  Branches = {"main", "topic"}
  GitFaults = TRUE
  Projects = {"acme/app"}
  CIProvider <- OneGitHub
  MaxRun = 3
  Window = 2
  MaxRestarts = 1
  Rules = {"r1", "r2", "r3"}
  Allowed = {"r1", "r2", "r3"}
  Ids = {"i1", "i2"}
  IdOf <- SharedId
  Provider = "prometheus"
  OutCap = 1
  Endpoints = {1, 2, 3}
  Healths = {"healthy", "badStatus", "serverError", "down"}
  Patterns = {"panic", "timeout"}
  Sources = {"file", "process"}
  Quiet <- QuietPeriods
  RateWindow = 2
  Threshold = 3
  RateQuiet = 2
  Inodes = {1, 2}
  MaxLine = 5
  Rotations = {"rename", "truncate", "remove"}
  Commands = {c1, c2}
  HasChildren = {c1}
  PipeCap = 1
  MaxLines = 2
INVARIANTS
  SignalsTypeOK
  NothingLostOrReordered
  CommitsAreAccountedFor
  RememberedIsReported
  SignalledOncePerEpisode
  OutageIsReal
  NoBurstMissed
  FollowedLogsAreRead
PROPERTIES
  QuietPeriodRespected
CHECK_DEADLOCK FALSE
