CONSTANTS
  Word = 20
  Milli = 4
  MaxLag = 2
  Waits = {0, 3, 9}
SPECIFICATION FairSpec
CHECK_DEADLOCK FALSE
INVARIANTS CoreFed SketchReady
PROPERTIES DelaysRight PulseInTime PulseMeasured WaitsEnd
