SPECIFICATION Spec
CONSTANTS
  ChangeTypes = {"bug_fix", "unknown"}
  Fields = {"bug_fixes"}
  MaxPieces = 1
  MaxUsage = 1
INVARIANT
  OnlyTheModelDrops
CHECK_DEADLOCK FALSE
