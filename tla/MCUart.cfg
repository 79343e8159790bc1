CONSTANTS
  Fifo = 2
  Buf = 2
  MaxIn = 4
  MaxOut = 2
  MaxSize = 3
  WriteTimeout = 2
  FlushTimeout = 2
  MaxLag = 2
  Wrap = 5
  Word = 16
SPECIFICATION FairSpec
CHECK_DEADLOCK FALSE
INVARIANTS ReadInOrder SessionOnly SentIsTold
PROPERTIES GivesUpInTime CallsReturn
