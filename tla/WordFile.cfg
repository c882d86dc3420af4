CONSTANTS
  rw = rw
  ro = ro
  m1 = m1
  m2 = m2
  Files = {rw, ro}
  ReadOnly = {ro}
  Initial <- TwoInRo
  Marks = {m1, m2}
  Zero = zero
  Junk = junk
  Starts = {1, 3}
  Lengths = {2, 4}
  Configs <- AnyConfig
  AllAlike = TRUE
  Hole = 3
  MaxSize <- SixAndTwo
SYMMETRY MarkSymmetry
SPECIFICATION Spec
INVARIANTS TypeOK NoWordIsMissing
PROPERTY Promise
CHECK_DEADLOCK FALSE
