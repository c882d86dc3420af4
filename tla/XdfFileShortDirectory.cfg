CONSTANTS
  Procs = {a, b}
  Writers = {a, b}
  Keys = {k1}
  NoKey = NoKey
  Lengths = {1, 2}
  EntriesPerPage = 1
  MaxDirPages = 2
  MaxAddr = 4
  Coordinated = TRUE
SPECIFICATION Spec
SYMMETRY SymmetricProcs
INVARIANTS
  OpenedDirectoryIsComplete
CHECK_DEADLOCK FALSE
