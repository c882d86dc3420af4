CONSTANTS
  Procs = {w}
  Writers = {w}
  Keys = {k1, k2}
  NoKey = NoKey
  Lengths = {1, 2}
  EntriesPerPage = 2
  MaxDirPages = 2
  MaxAddr = 6
  Coordinated = TRUE
SPECIFICATION Spec
SYMMETRY SymmetricKeys
INVARIANTS
  TypeOK
  WriterAccountsForEveryWord
  CommittedRecordsSurvive
PROPERTIES
  SlotsAreStable
CHECK_DEADLOCK FALSE
