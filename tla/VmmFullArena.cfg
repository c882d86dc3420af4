CONSTANTS
  Slices = {"b1", "d1", "d2"}
  NoSlice = "none"
  Variables = {"b", "d"}
  VarOf <- ArenaVarOf
  Piece <- ArenaPiece
  Length <- ArenaLength
  Weight <- ArenaWeight
  Saved = {"d"}
  MustExist = {}
  Size8 = {}
  MaxMem = 4
  MaxKeys = 2
  MaxLocks = 2
  MaxFile = 4
  ForgetInCore = FALSE
SPECIFICATION Spec
INVARIANT BestFitIsFree
CHECK_DEADLOCK FALSE
