CONSTANTS
  MaxResults = 2
  Timeout = 2
  Wrap = 4
  MaxReports = 5
  Timeouts = {0, 2}
  Names = {n1, n2}
  Addresses = {a1}
  NONE = NONE
SPECIFICATION FairSpec
CHECK_DEADLOCK FALSE
INVARIANTS StatusTrue ServedIsTold
PROPERTIES ScanKeeps CallsReturn
