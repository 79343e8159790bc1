CONSTANTS
  Pins = {p1, p2}
  Durations = {0, 1, 3}
  MaxPeriod = 2
  MaxCalls = 7
SPECIFICATION FairSpec
CHECK_DEADLOCK FALSE
INVARIANTS FlagsAgree FaultNeedsRace TimerIsOwn
PROPERTIES TimedEnds
