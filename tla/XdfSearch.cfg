SPECIFICATION Spec
CONSTANTS
  NFiles = 3
  k1 = k1
  Keys = {k1}
  AnyKey = AnyKey
  Targets = {k1}
  NoTarget = NoTarget
  EntriesPerPage = 2
  MaxDirPages = 2
  HandlePages = 4
  Opened <- Five
  MaxEntries = 11
INVARIANTS
  SearchIsExact
  NothingIsMissed
  NoMatchIsPassedOver
PROPERTY
  OnlyTheNamedRecordChanges
CHECK_DEADLOCK FALSE
