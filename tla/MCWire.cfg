CONSTANTS
  Buf = 3
  SlaveAddress = 8
  Addresses = {8, 9}
  MaxWritten = 4
  MaxAnswered = 2
  Quantities = {1, 4}
SPECIFICATION Spec
CHECK_DEADLOCK FALSE
PROPERTIES ChannelKept ZeroMeansSent AnswerIsOwn
