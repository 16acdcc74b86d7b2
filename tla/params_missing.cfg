SPECIFICATION Spec
CONSTANTS
  MaxText = 3
  MaxParams = 2
  Values = {"p1", "p2"}
  Magic = TRUE
INVARIANTS MissingIgnored
CHECK_DEADLOCK FALSE
