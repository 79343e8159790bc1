CONSTANTS
  Cap = 2
  RxCap = 3
  MaxLen = 3
  MaxDatagrams = 3
  MaxWrite = 3
  Hosts = {1}
SPECIFICATION UdpSpec
CHECK_DEADLOCK FALSE
INVARIANTS UdpTypeOK PacketIsDatagram ReadInOrder OneMeansSent
