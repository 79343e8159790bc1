CONSTANTS
  p1 = p1
  p2 = p2
  p3 = p3
  h1 = h1
  h2 = h2
  Pins = {p1, p2, p3}
  InterruptPins = {p2, p3}
  Handlers = {h1, h2}
  NoHandler = NoHandler
  AdcHowMany = 1
  PwmHowMany = 2
  Byte = 2
  Resolutions = {1}
  Values = {2}
  SpiPins = {p1, p2}
  s1 = s1
  s2 = s2
  Settings = {s1, s2}
  DefaultSettings = s1
SPECIFICATION Spec
SYMMETRY Symmetry
CHECK_DEADLOCK FALSE
INVARIANTS PinsHeld SettingsApplied EdgeRunsOwn
PROPERTY GpioStays
