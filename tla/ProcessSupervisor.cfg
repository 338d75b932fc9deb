SPECIFICATION Spec
CONSTANTS
  Processes = {child, p1, p2, p3}
  Child = child
  Daemons = {p3}
INVARIANTS
  TypeOK
  NoOrphans
  ForcedEndIsComplete
PROPERTIES
  CancelledChildIsReaped
  CancelledCommandEnds
CHECK_DEADLOCK FALSE
