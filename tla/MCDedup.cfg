SPECIFICATION Spec
CONSTANTS
  Runs = {d1, d2, t1, t2}
  DaemonRuns = {d1, d2}
  Keys = {key}
  NoKey = NoKey
  Key = key
  Unkeyed = {d2, t2}
  SignalKey <- SignalKeys
  Paths = {src}
  Versions = {v0, v1}
  BaseVersion = v0
  BaseTree <- BaseVersions
  Excluded = {}
  NoTree = NoTree
  Policies <- SuggestPolicy
  Decisions = {"notify"}
  Commands = 1
  AgentRefs = {"task"}
  Memory = FALSE
  Budget = 0
  MaxCost = 0
  DBFaults = FALSE
  GitFaults = FALSE
  Crashes = TRUE
  ExternalCRs = FALSE
INVARIANTS
  AtMostOneTaskPerKey
  OnlyDuplicatesAreDropped
