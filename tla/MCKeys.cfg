SPECIFICATION Spec
CONSTANTS
  Projects = {"acme/app", "acme/lib"}
  Provider <- TwoCircle
  MaxRun = 2
  Window = 2
  MaxRestarts = 0
INVARIANTS
  DuplicatesWereWorkedOn
CHECK_DEADLOCK FALSE
