SPECIFICATION Spec
CONSTANTS
  Runs = {r1}
  DaemonRuns = {}
  Keys = {key}
  NoKey = NoKey
  Key = key
  Unkeyed = {r1}
  SignalKey <- SignalKeys
  Paths = {src}
  Versions = {v0, v1}
  BaseVersion = v0
  BaseTree <- BaseVersions
  Excluded = {}
  NoTree = NoTree
  Policies <- SuggestPolicy
  Decisions = {"pull-request"}
  Commands = 1
  AgentRefs = {"task", "other"}
  Memory = FALSE
  Budget = 0
  MaxCost = 0
  DBFaults = FALSE
  GitFaults = FALSE
  Crashes = FALSE
  ExternalCRs = FALSE
INVARIANTS
  PublicationIsVerified
