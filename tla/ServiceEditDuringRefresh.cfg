SPECIFICATION Spec
CONSTANTS
  Roots = {r1}
  NoRoot = NoRoot
  Calls = {c1}
  Faults = {}
  UnseenEdits = {"refresh"}
  MaxEdits = 1
  MaxOpens = 1
  MaxGeneration = 2
INVARIANTS
  StaleIsNeverCurrent
CHECK_DEADLOCK FALSE
