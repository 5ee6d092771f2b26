SPECIFICATION SignalsFairSpec
CONSTANTS
  git = git
  cron = cron
  logs = logs
  Order <- CronLogs
  Schedules = {cron}
  Joining = {logs}
  Capacity = 1
  Ticks = 2
  Old = {1}
  Fresh = {2, 3}
  History <- Single
  Branches = {"main", "topic"}
  GitFaults = FALSE
  Projects = {"acme/app"}
  CIProvider <- OneCircle
  MaxRun = 2
  Window = 1
  MaxRestarts = 1
  Rules = {"r1", "r2"}
  Allowed = {"r1", "r2"}
  Ids = {"i1", "i2"}
  IdOf <- OwnId
  Provider = "datadog"
  OutCap = 1
  Endpoints = {1, 2}
  Healths = {"healthy", "slow", "down"}
  Patterns = {"panic"}
  Sources = {"file"}
  Quiet <- QuietPeriods
  RateWindow = 2
  Threshold = 3
  RateQuiet = 2
  Inodes = {1}
  MaxLine = 4
  Rotations = {}
  Commands = {c1, c2}
  HasChildren = {}
  PipeCap = 1
  MaxLines = 1
PROPERTIES
  EverySignalIsHandled
  StoppingEnds
  WhatLastsIsReported
CHECK_DEADLOCK FALSE
