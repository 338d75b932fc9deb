SPECIFICATION FairSpec
CONSTANTS
  Roots = {r1}
  NoRoot = NoRoot
  Calls = {c1, c2}
  Faults = {"bridge", "drop", "scan", "read", "watch", "save", "open", "poll", "corrupt"}
  UnseenEdits = {"refresh", "open", "apart"}
  MaxEdits = 1
  MaxOpens = 2
  MaxGeneration = 5
INVARIANTS
  TypeOK
  CurrentModelIsFresh
PROPERTIES
  NoticedEditIsNotForgotten
  ModelNeverGoesBack
  RefreshingEnds
  ImplementsModelRefresh
CHECK_DEADLOCK FALSE
