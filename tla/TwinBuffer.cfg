CONSTANTS
  Words = {"x", "y"}
  NoWord = "none"
  MaxWords = 5
  BUF_SIZE_W = 2
SPECIFICATION Spec
INVARIANTS TypeOK UnreadWordsAreOld
PROPERTY Promise
CHECK_DEADLOCK FALSE
