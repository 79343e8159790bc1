CONSTANTS
  Cap = 3
  MaxLen = 2
  MaxBytes = 6
SPECIFICATION RxSpec
INVARIANTS NothingLost CopiesRealBytes
PROPERTY StreamKept
CHECK_DEADLOCK FALSE
