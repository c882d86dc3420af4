CONSTANTS
  Slices = {"a1", "b1", "b2"}
  NoSlice = "none"
  Variables = {"a", "b"}
  VarOf <- FileVarOf
  Piece <- FilePiece
  Length <- FileLength
  Weight <- FileWeight
  Saved = {"a", "b"}
  MustExist = {"a"}
  Size8 = {}
  MaxMem = 3
  MaxKeys = 1
  MaxLocks = 1
  MaxFile = 8
  ForgetInCore = FALSE
SPECIFICATION Spec
INVARIANTS WhatWasWrittenIsKept FileSpaceIsDisjoint CheckpointIsReadable
CHECK_DEADLOCK FALSE
