CONSTANTS
  Slices = {"b1", "d1", "d2"}
  NoSlice = "none"
  Variables = {"b", "d"}
  VarOf <- ArenaVarOf
  Piece <- ArenaPiece
  Length <- ArenaLength
  Weight <- ArenaWeight
  Saved = {"d"}
  MustExist = {}
  Size8 = {}
  MaxMem = 5
  MaxKeys = 2
  MaxLocks = 2
  MaxFile = 4
  ForgetInCore = FALSE
SPECIFICATION Spec
INVARIANTS TablesAgree BlocksTileMemory FreeListIsExact BestFitIsFree LocksAreCounted WhatWasWrittenIsKept
PROPERTY LockedFieldsStay
CHECK_DEADLOCK FALSE
