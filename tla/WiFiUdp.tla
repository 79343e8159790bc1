------------------------------ MODULE WiFiUdp ------------------------------
(***************************************************************************)
(* class WiFiUDP (libraries/WiFi/src/WiFiUdp.cpp): receiveCallback, in the *)
(* network task, turns datagrams into packets through the socket's rx_buf; *)
(* parsePacket and read, in the sketch's task, take them; beginPacket,     *)
(* write and endPacket fill and send the transmit buffer.                  *)
(*                                                                         *)
(* A byte is the pair of its datagram's number and its place in it.  Each  *)
(* datagram has a sender of its own, which is its number.  Methods and the *)
(* callback are atomic.                                                    *)
(***************************************************************************)
EXTENDS Integers, Sequences, Functions

CONSTANTS Cap,          \* WIFI_UDP_BUFFER_SIZE
          RxCap,        \* Socket::RX_BUFFER_SIZE
          MaxLen,       \* bound: length of a datagram
          MaxDatagrams, \* bound: datagrams arriving
          MaxWrite,     \* bound: length of one write()
          Hosts         \* addresses the sketch sends to

ASSUME WiFiUdpAssumption ==
  /\ {Cap, RxCap} \subseteq Nat \ {0}
  /\ {MaxLen, MaxDatagrams, MaxWrite} \subseteq Nat
  /\ Cap <= RxCap /\ 0 \notin Hosts

VARIABLES open,       \* the socket is bound, its receive callback set
          inbox,      \* datagrams the library holds, with their lengths
          events,     \* receive events to come
          arrived,    \* datagrams that have arrived
          rx_buf,     \* of the socket
          rx_packets, current_packet,
          lastRead,   \* history: the byte read last
          remote_ip,  \* 0 is IPAddress(0, 0, 0, 0)
          txBuffer,
          begun,      \* history: what beginPacket returned last
          accepted,   \* history: bytes write() has taken since then,
          ended,      \* ... how often endPacket was called since
          result,     \* ... what it returned last, and
          sent        \* ... the datagram the library took

udpVars == <<open, inbox, events, arrived, rx_buf, rx_packets, current_packet,
             lastRead, remote_ip, txBuffer, begun, accepted, ended, result,
             sent>>

receiving == <<inbox, events, arrived, rx_buf, rx_packets>>
reading == <<current_packet, lastRead>>
sending == <<remote_ip, txBuffer, begun, accepted, ended, result, sent>>

Least(a, b) == IF a < b THEN a ELSE b
Before(b, c) == b[1] < c[1] \/ (b[1] = c[1] /\ b[2] < c[2])

Nothing == <<0, <<>>>>
None == [bytes |-> <<>>, from |-> 0]

UdpInit ==
  /\ open = FALSE
  /\ inbox = <<>> /\ events = 0 /\ arrived = 0
  /\ rx_buf = <<>> /\ rx_packets = <<>>
  /\ current_packet = None /\ lastRead = <<0, 0>>
  /\ remote_ip = 0 /\ txBuffer = <<>>
  /\ begun = 0 /\ accepted = <<>>
  /\ ended = 0 /\ result = 0 /\ sent = Nothing
-----------------------------------------------------------------------------
(* begin (by port or multicast) and stop; what was received stays.  Bound: *)
(* an open socket is not begun again.                                      *)

Begin ==
  /\ ~open
  /\ open' \in BOOLEAN
  /\ inbox' = <<>> /\ events' = 0
  /\ UNCHANGED <<arrived, rx_buf, rx_packets, reading, sending>>

Stop ==
  /\ open
  /\ open' \in BOOLEAN
  /\ UNCHANGED <<receiving, reading, sending>>
-----------------------------------------------------------------------------
(* The network task *)

Arrive ==
  /\ open /\ arrived < MaxDatagrams
  /\ arrived' = arrived + 1
  /\ \E l \in 0 .. MaxLen : inbox' = Append(inbox, [d |-> arrived + 1, len |-> l])
  /\ events' = events + 1
  /\ UNCHANGED <<open, rx_buf, rx_packets, reading, sending>>

\* Mutant of Push: the loop ends when the packet is full.
PushStops(bytes, from) ==
  LET k == Least(Len(bytes), Cap)
  IN  /\ rx_packets' = Append(rx_packets, [bytes |-> SubSeq(bytes, 1, k), from |-> from])
      /\ rx_buf' = SubSeq(bytes, k + 1, Len(bytes))

\* Mutant of Push: the bytes are copied without regard to the room.
PushAll(bytes, from) ==
  /\ rx_packets' = Append(rx_packets, [bytes |-> bytes, from |-> from])
  /\ rx_buf' = <<>>

\* rx_buf, holding bytes, is emptied into a packet, which drops what it has
\* no room for.
Push(bytes, from) ==
  /\ rx_packets' = Append(rx_packets,
       [bytes |-> SubSeq(bytes, 1, Least(Len(bytes), Cap)), from |-> from])
  /\ rx_buf' = <<>>

\* cy_socket_recvfrom gives the next datagram, up to the room there is, and
\* its sender, or fails and leaves peer_addr as it is: never written.  The
\* packet is kept whatever it did.
ReceiveCallback ==
  /\ open /\ events > 0
  /\ events' = events - 1
  /\ \/ /\ inbox # <<>>
        /\ LET g == Head(inbox)
               k == Least(g.len, RxCap - Len(rx_buf))
           IN  Push(rx_buf \o [i \in 1 .. k |-> <<g.d, i>>], g.d)
        /\ inbox' = Tail(inbox)
     \/ /\ \E from \in 0 .. arrived : Push(rx_buf, from)
        /\ UNCHANGED inbox
  /\ UNCHANGED <<open, arrived, reading, sending>>
-----------------------------------------------------------------------------
(* parsePacket, read and flush; read of an empty packet changes nothing.   *)

\* Mutant of ParsePacket: the last packet is taken.
ParsePacketBack ==
  /\ IF rx_packets = <<>>
       THEN current_packet' = None /\ UNCHANGED rx_packets
       ELSE /\ current_packet' = rx_packets[Len(rx_packets)]
            /\ rx_packets' = SubSeq(rx_packets, 1, Len(rx_packets) - 1)
  /\ UNCHANGED <<open, inbox, events, arrived, rx_buf, lastRead, sending>>

ParsePacket ==
  /\ IF rx_packets = <<>>
       THEN current_packet' = None /\ UNCHANGED rx_packets
       ELSE current_packet' = Head(rx_packets) /\ rx_packets' = Tail(rx_packets)
  /\ UNCHANGED <<open, inbox, events, arrived, rx_buf, lastRead, sending>>

Read ==
  /\ current_packet.bytes # <<>>
  /\ lastRead' = Head(current_packet.bytes)
  /\ current_packet' = [current_packet EXCEPT !.bytes = Tail(@)]
  /\ UNCHANGED <<open, receiving, sending>>

Flush ==
  /\ current_packet' = [current_packet EXCEPT !.bytes = <<>>]
  /\ UNCHANGED <<open, receiving, lastRead, sending>>
-----------------------------------------------------------------------------
(* beginPacket, write and endPacket                                        *)

\* Mutant of BeginPacket: what an earlier packet left is kept.
BeginPacketKeeps(ip) ==
  /\ remote_ip' = ip /\ begun' = 1
  /\ accepted' = <<>> /\ ended' = 0 /\ result' = 0
  /\ sent' = Nothing
  /\ UNCHANGED <<txBuffer, open, receiving, reading>>

BeginPacket(ip) ==
  /\ remote_ip' = ip /\ txBuffer' = <<>> /\ begun' = 1
  /\ accepted' = <<>> /\ ended' = 0 /\ result' = 0
  /\ sent' = Nothing
  /\ UNCHANGED <<open, receiving, reading>>

\* hostByName returns true, or SOCKET_STATUS_ERROR, which is not zero: of a
\* name that is not resolved the packet is begun for the address 0.
BeginPacketHost(h) == BeginPacket(h) \/ BeginPacket(0)

\* Takes of n bytes what there is room for; the k-th byte taken since
\* beginPacket is k.  Bound: a packet that was ended is not written to.
Write(n) ==
  LET k == Least(n, Cap - Len(txBuffer))
      new == [i \in 1 .. k |-> Len(accepted) + i]
  IN  /\ begun = 1 /\ ended = 0
      /\ txBuffer' = txBuffer \o new
      /\ accepted' = accepted \o new
      /\ UNCHANGED <<remote_ip, begun, ended, result, sent, open, receiving,
                     reading>>

\* The buffer is emptied first; with nothing in it, failing is succeeding.
\* Bound: endPacket is called twice for a packet at most.
EndPacket ==
  /\ begun = 1 /\ ended < 2
  /\ ended' = ended + 1
  /\ txBuffer' = <<>>
  /\ \/ sent' = <<remote_ip, txBuffer>> /\ result' = 1
     \/ UNCHANGED sent /\ result' = IF txBuffer = <<>> THEN 1 ELSE 0
  /\ UNCHANGED <<remote_ip, begun, accepted, open, receiving, reading>>

UdpNext ==
  \/ Begin \/ Stop \/ Arrive \/ ReceiveCallback
  \/ ParsePacket \/ Read \/ Flush
  \/ \E h \in Hosts : BeginPacket(h) \/ BeginPacketHost(h)
  \/ \E n \in 1 .. MaxWrite : Write(n)
  \/ EndPacket

UdpSpec == UdpInit /\ [][UdpNext]_udpVars
-----------------------------------------------------------------------------
Byte == (1 .. MaxDatagrams) \X (1 .. MaxLen)
Packet == [bytes : Seq(Byte), from : 0 .. MaxDatagrams]

UdpTypeOK ==
  /\ open \in BOOLEAN
  /\ inbox \in Seq([d : 1 .. MaxDatagrams, len : 0 .. MaxLen])
  /\ events \in 0 .. MaxDatagrams /\ arrived \in 0 .. MaxDatagrams
  /\ rx_buf \in Seq(Byte)
  /\ rx_packets \in Seq(Packet) /\ current_packet \in Packet
  /\ \A p \in Range(rx_packets) \cup {current_packet} : Len(p.bytes) <= Cap
  /\ lastRead \in Byte \cup {<<0, 0>>}
  /\ remote_ip \in Hosts \cup {0}
  /\ txBuffer \in Seq(Nat) /\ Len(txBuffer) <= Cap /\ accepted \in Seq(Nat)
  /\ begun \in {0, 1} /\ ended \in 0 .. 2 /\ result \in {0, 1}
  /\ sent \in (Hosts \cup {0}) \X Seq(Nat)

(* A packet holds the beginning of one datagram, and names its sender:     *)
(* what a long datagram left over, or a failed recvfrom, never mixes with  *)
(* the next.  WiFiUdp.cpp:166-183.                                         *)
PacketIsDatagram ==
  \A p \in Range(rx_packets) :
    \A i \in DOMAIN p.bytes : p.bytes[i] = <<p.from, i>>

(* The sketch reads bytes in the order they were sent to it, none twice,   *)
(* over packets it leaves half read, and stop() and begin().               *)
(* WiFiUdp.cpp:107-155.                                                    *)
ReadInOrder ==
  LET unread == <<current_packet>> \o rx_packets
  IN  \A i, j \in DOMAIN unread :
        \A k \in DOMAIN unread[i].bytes, l \in DOMAIN unread[j].bytes :
          /\ Before(lastRead, unread[i].bytes[k])
          /\ Before(<<i, k>>, <<j, l>>) =>
               Before(unread[i].bytes[k], unread[j].bytes[l])

(* When the first endPacket() of a packet returns 1, one datagram went to  *)
(* where beginPacket said (if that was resolved), of all the bytes write() *)
(* took since, or there were none.  WiFiUdp.cpp:57-105.                    *)
OneMeansSent ==
  ended = 1 /\ result = 1 /\ accepted # <<>> => sent = <<remote_ip, accepted>>
=============================================================================
