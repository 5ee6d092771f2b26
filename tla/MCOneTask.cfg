SPECIFICATION Spec
CONSTANTS
  Runs = {r1}
  DaemonRuns = {}
  Keys = {key}
  NoKey = NoKey
  Key = key
  Unkeyed = {r1}
  SignalKey <- SignalKeys
  Paths = {src, artifact}
  Versions = {v0, v1}
  BaseVersion = v0
  BaseTree <- BaseVersions
  Excluded = {artifact}
  NoTree = NoTree
  Policies <- EveryPolicy
  Decisions <- EveryDecision
  Commands = 2
  AgentRefs = {"task", "other", "orphan"}
  Memory = FALSE
  Budget = 0
  MaxCost = 0
  DBFaults = FALSE
  GitFaults = FALSE
  Crashes = TRUE
  ExternalCRs = FALSE
INVARIANTS
  TypeOK
  PublishedIsApproved
  NothingShipsUngated
  HumanGated
  OnlyApprovedBranchesRemain
  NotifiedAsRecorded
  AuditExplainsOutcome
