SPECIFICATION Spec
CONSTANTS
  W = 2
  BlockLen = 2
  MaxBlocks = 2
  Moduli <- ModuliChecked
  Sizes = {0, 1, 2, 3, 4}
INVARIANTS
  InRange
  NoByteTwice
  NumbersAreFair
  ShufflesAreFair
CHECK_DEADLOCK FALSE
