CONSTANTS
  Threads = {"p", "q", "r"}
  NoThread = "nobody"
  Main = "p"
  Objects = {"e", "f", "l"}
  NoValue = 99
  Programs <- MCPrograms
  MaxSpurious = 2
SPECIFICATION Spec
INVARIANTS SleepersAreOwed DestroyedIsUnused
PROPERTY CallsAreAtomic
CHECK_DEADLOCK FALSE
