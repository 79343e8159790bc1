CONSTANTS
  Sockets = {s1, s2, s3}
  Handles = {h1, h2}
  NULL = NULL
  AppTasks = {app}
  NetTasks = {net}
  Overlap = TRUE
  Wrap = 8
  MaxFailed = 1
SPECIFICATION Spec
SYMMETRY MCSymmetry
CHECK_DEADLOCK FALSE
INVARIANT OpenSocketsCounted
