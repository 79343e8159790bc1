------------------------------ MODULE SocketRx ------------------------------
(***************************************************************************)
(* The receive path of class Socket (SecSocket.cpp): receiveCallback runs  *)
(* in the network task, moves bytes from the library into rx_buf through a *)
(* local array sized by the room rx_buf had when it looked; receive and    *)
(* flush run in the sketch's task and take them out.  The two tasks        *)
(* preempt each other between any two operations on rx_buf.                *)
(*                                                                         *)
(* Bytes are their numbers in order of arrival.  RingBufferN (external) is *)
(* a bounded FIFO whose operations are taken to be atomic.                 *)
(***************************************************************************)
EXTENDS Integers, Sequences

CONSTANTS Cap,       \* RX_BUFFER_SIZE
          MaxLen,    \* bound: lengths asked for by the sketch
          MaxBytes   \* bound: bytes the peer sends

ASSUME SocketRxAssumption ==
  Cap \in Nat \ {0} /\ MaxLen \in Nat /\ MaxBytes \in Nat

VARIABLES arrived,   \* bytes the library has received from the peer
          recvd,     \* ... of which cy_socket_recv has handed out
          events,    \* receive events the network task has yet to handle
          rx_buf,
          temp,      \* temp_rx_buff, what is left to store of it
          room,      \* bytes_rcvd_request
          cb,        \* where receiveCallback is
          rd,        \* where receive is
          len,       \* its argument
          n,         \* bytes_to_read, less the bytes copied so far
          taken,     \* history: bytes 1 .. taken were read or flushed
          last       \* history: the byte read last

rxVars == <<arrived, recvd, events, rx_buf, temp, room, cb, rd, len, n,
          taken, last>>

callback == <<recvd, events, temp, room, cb>>
reader == <<rd, len, n, taken, last>>

RxInit ==
  /\ arrived = 0 /\ recvd = 0 /\ events = 0
  /\ rx_buf = <<>> /\ temp = <<>> /\ room = 0
  /\ cb = "idle" /\ rd = "idle"
  /\ len = 0 /\ n = 0 /\ taken = 0 /\ last = 0

store_char(b) == rx_buf' = IF Len(rx_buf) < Cap THEN Append(rx_buf, b) ELSE rx_buf
-----------------------------------------------------------------------------
(* The network task *)

\* A byte reaches the library, which queues a receive event for it.
Arrive ==
  /\ arrived < MaxBytes
  /\ arrived' = arrived + 1
  /\ events' = events + 1
  /\ UNCHANGED <<recvd, rx_buf, temp, room, cb, reader>>

\* Mutant of Look: asks for a whole buffer, whatever rx_buf holds.
LookWhole ==
  /\ cb = "idle" /\ events > 0
  /\ events' = events - 1
  /\ room' = Cap
  /\ cb' = "recv"
  /\ UNCHANGED <<arrived, recvd, rx_buf, temp, reader>>

\* if (!rx_buf.isFull()) bytes_rcvd_request = rx_buf.availableForStore().
\* When it is full the event is spent and nothing is received.
Look ==
  /\ cb = "idle" /\ events > 0
  /\ events' = events - 1
  /\ IF Len(rx_buf) < Cap
       THEN room' = Cap - Len(rx_buf) /\ cb' = "recv"
       ELSE UNCHANGED <<room, cb>>
  /\ UNCHANGED <<arrived, recvd, rx_buf, temp, reader>>

\* cy_socket_recv: any number of the bytes there are, up to the request, or
\* an error, which ends the callback.
Recv ==
  /\ cb = "recv"
  /\ \/ \E k \in 1 .. room :
          /\ k <= arrived - recvd
          /\ temp' = [i \in 1 .. k |-> recvd + i]
          /\ recvd' = recvd + k
          /\ cb' = "store"
     \/ cb' = "idle" /\ UNCHANGED <<recvd, temp>>
  /\ UNCHANGED <<arrived, events, rx_buf, room, reader>>

\* One round of the storing loop; the callback returns after the last.
StoreRound ==
  /\ cb = "store"
  /\ store_char(Head(temp))
  /\ temp' = Tail(temp)
  /\ cb' = IF Len(temp) = 1 THEN "idle" ELSE "store"
  /\ UNCHANGED <<arrived, recvd, events, room, reader>>
-----------------------------------------------------------------------------
(* The sketch's task *)

Receive(l) ==
  /\ rd = "idle"
  /\ len' = l
  /\ rd' = "first"
  /\ UNCHANGED <<arrived, callback, rx_buf, n, taken, last>>

\* available() > len ?
FirstAvailable ==
  /\ rd = "first"
  /\ IF Len(rx_buf) > len
       THEN n' = len /\ rd' = "copy"
       ELSE rd' = "second" /\ UNCHANGED n
  /\ UNCHANGED <<arrived, callback, rx_buf, len, taken, last>>

\* Mutant of SecondAvailable: the two arms of the conditional are swapped.
SecondAvailableLen ==
  /\ rd = "second"
  /\ n' = len
  /\ rd' = "copy"
  /\ UNCHANGED <<arrived, callback, rx_buf, len, taken, last>>

\* ... : available(), a second look at a buffer the callback may have filled.
SecondAvailable ==
  /\ rd = "second"
  /\ n' = Len(rx_buf)
  /\ rd' = "copy"
  /\ UNCHANGED <<arrived, callback, rx_buf, len, taken, last>>

\* One round of the copying loop.  read_char returns -1 of an empty buffer.
Copy ==
  /\ rd = "copy" /\ n > 0
  /\ n' = n - 1
  /\ IF rx_buf # <<>>
       THEN /\ last' = Head(rx_buf)
            /\ rx_buf' = Tail(rx_buf)
            /\ taken' = taken + 1
       ELSE last' = -1 /\ UNCHANGED <<rx_buf, taken>>
  /\ UNCHANGED <<arrived, callback, rd, len>>

Return ==
  /\ rd = "copy" /\ n = 0
  /\ rd' = "idle"
  /\ UNCHANGED <<arrived, callback, rx_buf, len, n, taken, last>>

Flush ==
  /\ rd = "idle"
  /\ taken' = taken + Len(rx_buf)
  /\ rx_buf' = <<>>
  /\ UNCHANGED <<arrived, callback, rd, len, n, last>>

NetStep == Arrive \/ Look \/ Recv \/ StoreRound

AppStep ==
  \/ \E l \in 1 .. MaxLen : Receive(l)
  \/ FirstAvailable \/ SecondAvailable \/ Copy \/ Return \/ Flush

RxNext == NetStep \/ AppStep

RxSpec == RxInit /\ [][RxNext]_rxVars
-----------------------------------------------------------------------------
RxTypeOK ==
  /\ arrived \in 0 .. MaxBytes /\ recvd \in 0 .. arrived /\ events \in Nat
  /\ rx_buf \in Seq(Nat) /\ Len(rx_buf) <= Cap
  /\ temp \in Seq(Nat) /\ Len(temp) <= Cap
  /\ room \in 0 .. Cap
  /\ cb \in {"idle", "recv", "store"}
  /\ rd \in {"idle", "first", "second", "copy"}
  /\ len \in 0 .. MaxLen /\ n \in 0 .. Cap
  /\ taken \in 0 .. arrived /\ last \in 0 .. arrived

(* No byte the library has handed over is lost, doubled or out of order:   *)
(* rx_buf and what the callback has yet to store are, in this order,       *)
(* exactly the bytes after the last one read or flushed.  In particular    *)
(* store_char never finds the buffer full, although the room was measured  *)
(* before cy_socket_recv.  SecSocket.cpp:288-311.                          *)
NothingLost == rx_buf \o temp = [i \in 1 .. recvd - taken |-> taken + i]

(* The copying loop never reads an empty buffer: what it set out to copy   *)
(* is still there, whatever the callback does.  SecSocket.cpp:230-234.     *)
CopiesRealBytes == rd = "copy" => n <= Len(rx_buf)

(* The reader is served the stream, byte after byte (module ByteStream).   *)
Stream == INSTANCE ByteStream WITH arrived <- arrived, taken <- taken, last <- last
StreamKept == Stream!Spec

(* receive writes no more bytes than it was asked for: the sketch's one    *)
(* byte of WiFiClient::read() is all there is room for.                    *)
ReadWithinRequest == rd = "copy" => n <= len
=============================================================================
