SPECIFICATION FairSpec
CONSTANTS
  Runs = {d1, d2}
  DaemonRuns = {d1, d2}
  Keys = {key}
  NoKey = NoKey
  Key = key
  Unkeyed = {d1, d2}
  SignalKey <- SignalKeys
  Paths = {src}
  Versions = {v0, v1}
  BaseVersion = v0
  BaseTree <- BaseVersions
  Excluded = {}
  NoTree = NoTree
  Policies <- SuggestPolicy
  Decisions = {"notify", "pull-request"}
  Commands = 2
  AgentRefs = {}
  Memory = TRUE
  Budget = 1
  MaxCost = 1
  DBFaults = FALSE
  GitFaults = FALSE
  Crashes = FALSE
  ExternalCRs = TRUE
INVARIANTS
  BudgetOvershootBounded
PROPERTIES
  EveryTaskSettles
  EveryCallReturns
