CONSTANTS
  Cap = 3
  MaxLen = 2
  MaxBytes = 6
SPECIFICATION RxSpec
INVARIANT ReadWithinRequest
CHECK_DEADLOCK FALSE
