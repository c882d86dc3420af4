SPECIFICATION Spec
CONSTANTS
  NFiles = 1
  k1 = k1
  Keys = {k1, k2}
  AnyKey = AnyKey
  Targets = {k1, AnyKey}
  NoTarget = NoTarget
  EntriesPerPage = 2
  MaxDirPages = 2
  HandlePages = 4
  Opened <- Empty
  MaxEntries = 3
INVARIANT
  HandleDesignatesAMatch
CHECK_DEADLOCK FALSE
