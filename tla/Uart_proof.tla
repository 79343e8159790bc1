----------------------------- MODULE Uart_proof -----------------------------
(***************************************************************************)
(* Proofs about Uart, for all sizes of the buffers and FIFOs, all bounds   *)
(* and all timeouts.  What the sketch can observe rests on what the block  *)
(* still holds: the invariant orders the bytes of the two receive buffers  *)
(* one by one (Order), says which of them belong to the session (Session)  *)
(* and that the transmit FIFO has room for what write() is about to put    *)
(* there (Sent).                                                           *)
(***************************************************************************)
EXTENDS Uart, TLAPS

Order ==
  /\ \A i \in 1 .. Len(rx_buffer) : got < rx_buffer[i] /\ rx_buffer[i] <= arrived
  /\ \A i \in 1 .. Len(rxFifo) : got < rxFifo[i] /\ rxFifo[i] <= arrived
  /\ \A i, j \in 1 .. Len(rx_buffer) : i < j => rx_buffer[i] < rx_buffer[j]
  /\ \A i, j \in 1 .. Len(rxFifo) : i < j => rxFifo[i] < rxFifo[j]
  /\ \A i \in 1 .. Len(rx_buffer), j \in 1 .. Len(rxFifo) : rx_buffer[i] < rxFifo[j]
  /\ got <= arrived
  /\ seen # 0 => Len(rx_buffer) > 0 /\ rx_buffer[1] = seen

Session ==
  /\ hw = "free" => Len(rxFifo) = 0
  /\ pc # "end" =>
       /\ ready = TRUE <=> hw = "on"
       /\ hw # "on" => Len(rx_buffer) = 0
       /\ \A i \in 1 .. Len(rx_buffer) : rx_buffer[i] > opened
       /\ \A i \in 1 .. Len(rxFifo) : rxFifo[i] > opened

Writing == pc \in {"look", "put", "test"}

Sent ==
  /\ \A i \in 1 .. Len(txFifo) : txFifo[i] = line + i
  /\ line + Len(txFifo) = told + (size - left)
  /\ ~Writing => size = 0
  /\ hw = "free" \/ pc = "end" => Len(txFifo) = 0
  /\ Writing \/ pc = "flush" => hw = "on"
  /\ pc = "put" => writable + Len(txFifo) <= Fifo

PortType ==
  /\ hw \in {"free", "init", "on"} /\ ready \in BOOLEAN
  /\ last_error \in {"NONE", "INIT_FAILED", "SET_BAUD_FAILED"}
  /\ pc \in {"idle", "end", "look", "put", "test", "flush"}

RxType ==
  /\ rxFifo \in Seq(1 .. MaxIn) /\ Len(rxFifo) <= Fifo
  /\ rx_buffer \in Seq(1 .. MaxIn) /\ Len(rx_buffer) <= Buf
  /\ arrived \in 0 .. MaxIn /\ opened \in 0 .. arrived
  /\ got \in 0 .. MaxIn /\ seen \in 0 .. MaxIn

TxType ==
  /\ txFifo \in Seq(Nat) /\ Len(txFifo) <= Fifo
  /\ line \in Nat /\ told \in Nat
  /\ size \in 0 .. MaxSize /\ left \in 0 .. size /\ writable \in 0 .. Fifo

ClockType ==
  /\ now \in 0 .. Wrap - 1 /\ start \in 0 .. Wrap - 1
  /\ waited \in Nat /\ wrapped \in BOOLEAN

IInv == PortType /\ RxType /\ TxType /\ ClockType /\ Order /\ Session /\ Sent

\* The constants, one by one.
LEMMA Sizes ==
  /\ Fifo \in Nat \ {0} /\ Buf \in Nat \ {0} /\ MaxSize \in Nat \ {0}
  /\ MaxIn \in Nat /\ MaxOut \in Nat /\ MaxLag \in Nat /\ Wrap \in Nat \ {0}
  /\ WriteTimeout \in Nat /\ FlushTimeout \in Nat
BY UartAssumption

LEMMA TypeParts == TypeOK <=> PortType /\ RxType /\ TxType /\ ClockType
BY DEF TypeOK, PortType, RxType, TxType, ClockType
-----------------------------------------------------------------------------
(* Sequences: one after the other, the front of one, one without its head. *)
LEMMA Joined ==
  ASSUME NEW S, NEW s \in Seq(S), NEW t \in Seq(S)
  PROVE  /\ s \o t \in Seq(S) /\ Len(s \o t) = Len(s) + Len(t)
         /\ \A i \in 1 .. Len(s) : (s \o t)[i] = s[i]
         /\ \A i \in Len(s) + 1 .. Len(s) + Len(t) : (s \o t)[i] = t[i - Len(s)]
OBVIOUS

LEMMA Front ==
  ASSUME NEW S, NEW s \in Seq(S), NEW k \in 0 .. Len(s)
  PROVE  /\ SubSeq(s, 1, k) \in Seq(S) /\ Len(SubSeq(s, 1, k)) = k
         /\ \A i \in 1 .. k : SubSeq(s, 1, k)[i] = s[i]
OBVIOUS

LEMMA Behead ==
  ASSUME NEW S, NEW s \in Seq(S), s # <<>>
  PROVE  /\ Len(s) \in Nat \ {0} /\ Head(s) = s[1] /\ s[1] \in S
         /\ Tail(s) \in Seq(S) /\ Len(Tail(s)) = Len(s) - 1
         /\ \A i \in 1 .. Len(s) - 1 : Tail(s)[i] = s[i + 1]
OBVIOUS

LEMMA Appended ==
  ASSUME NEW S, NEW s \in Seq(S), NEW e \in S
  PROVE  /\ Append(s, e) \in Seq(S) /\ Len(Append(s, e)) = Len(s) + 1
         /\ \A i \in 1 .. Len(s) : Append(s, e)[i] = s[i]
         /\ Append(s, e)[Len(s) + 1] = e
OBVIOUS

LEMMA NoneLeft ==
  /\ \A S : <<>> \in Seq(S)
  /\ Len(<<>>) = 0
OBVIOUS

LEMMA LeastIs ==
  ASSUME NEW a \in Nat, NEW b \in Nat
  PROVE  Least(a, b) \in Nat /\ Least(a, b) <= a /\ Least(a, b) <= b
BY DEF Least
\* The bytes of the receive buffers are numbers.
LEMMA Received ==
  ASSUME RxType
  PROVE  /\ Len(rx_buffer) \in Nat /\ Len(rxFifo) \in Nat
         /\ arrived \in Nat /\ got \in Nat /\ opened \in Nat
         /\ \A i \in 1 .. Len(rx_buffer) : rx_buffer[i] \in Nat
         /\ \A i \in 1 .. Len(rxFifo) : rxFifo[i] \in Nat
<1>1. /\ \A i \in 1 .. Len(rx_buffer) : rx_buffer[i] \in 1 .. MaxIn
      /\ \A i \in 1 .. Len(rxFifo) : rxFifo[i] \in 1 .. MaxIn
  <2>1. \A S : \A q \in Seq(S) : \A i \in 1 .. Len(q) : q[i] \in S
    OBVIOUS
  <2>2. rx_buffer \in Seq(1 .. MaxIn) /\ rxFifo \in Seq(1 .. MaxIn)
    BY DEF RxType
  <2>3. QED BY <2>1, <2>2, Zenon
<1>2. QED BY <1>1, Sizes DEF RxType
-----------------------------------------------------------------------------
(* The parts of the invariant that a step does not touch.                  *)
LEMMA RxSame ==
  ASSUME RxType, Order, UNCHANGED <<rx, opened>>
  PROVE  RxType' /\ Order'
BY DEF RxType, Order, rx

LEMMA TxSame ==
  ASSUME TxType, Sent, UNCHANGED <<tx, call, hw, pc>>
  PROVE  TxType' /\ Sent'
BY DEF TxType, Sent, Writing, tx, call

LEMMA ClockSame ==
  ASSUME ClockType, UNCHANGED clock
  PROVE  ClockType'
BY DEF ClockType, clock

\* The sketch's task goes on inside a call other than end().
LEMMA SessionSame ==
  ASSUME PortType, Session, UNCHANGED <<port, rx>>, pc # "end",
         pc' \in {"idle", "look", "put", "test", "flush"}
  PROVE  PortType' /\ Session'
BY DEF PortType, Session, port, rx

LEMMA ClockGoesOn ==
  ASSUME ClockType, NEW timeout \in Nat, TimePasses(timeout) \/ StartTimer
  PROVE  ClockType'
<1>1. CASE StartTimer
  BY <1>1 DEF StartTimer, ClockType
<1>2. ASSUME NEW d \in 1 .. MaxLag,
             now' = (now + d) % Wrap, waited' = Least(waited + d, timeout),
             wrapped' = (wrapped \/ now + d >= Wrap), UNCHANGED start
      PROVE  ClockType'
  <2>1. (now + d) % Wrap \in 0 .. Wrap - 1
    BY Sizes DEF ClockType
  <2>2. Least(waited + d, timeout) \in Nat
    BY Sizes, LeastIs DEF ClockType
  <2>3. (wrapped \/ now + d >= Wrap) \in BOOLEAN
    OBVIOUS
  <2>4. QED BY <1>2, <2>1, <2>2, <2>3 DEF ClockType
<1>3. QED BY <1>1, <1>2 DEF TimePasses
-----------------------------------------------------------------------------
(* One action after the other.                                             *)
LEMMA ArriveStep ==
  ASSUME IInv, Arrive
  PROVE  IInv'
<1> USE DEF IInv
<1>1. /\ TxType' /\ Sent' /\ ClockType' /\ PortType'
  BY TxSame, ClockSame DEF Arrive, PortType, port
<1>2. /\ arrived' = arrived + 1 /\ arrived + 1 \in 1 .. MaxIn
      /\ hw # "free" /\ UNCHANGED <<hw, ready, opened, rx_buffer, got, seen, pc>>
  BY Sizes DEF Arrive, port, RxType
<1>3. CASE UNCHANGED rxFifo
  <2>1. RxType'
    BY <1>2, <1>3, Sizes DEF RxType
  <2>2. Order'
    <3>1. \A n \in Nat : n <= arrived => n <= arrived'
      BY <1>2, Received
    <3>2. QED BY <1>2, <1>3, <3>1, Received DEF Order
  <2>3. Session'
    BY <1>2, <1>3 DEF Session
  <2>4. QED BY <1>1, <2>1, <2>2, <2>3
<1>4. CASE Len(rxFifo) < Fifo /\ rxFifo' = Append(rxFifo, arrived + 1)
  <2>1. /\ rxFifo' \in Seq(1 .. MaxIn) /\ Len(rxFifo') = Len(rxFifo) + 1
        /\ \A i \in 1 .. Len(rxFifo) : rxFifo'[i] = rxFifo[i]
        /\ rxFifo'[Len(rxFifo) + 1] = arrived + 1
    BY <1>2, <1>4, Appended DEF RxType
  <2>2. RxType'
    BY <1>2, <1>4, <2>1, Sizes DEF RxType
  <2>3. Order'
    <3>1. /\ Len(rxFifo) \in Nat /\ arrived \in Nat /\ got \in Nat
          /\ \A i \in 1 .. Len(rxFifo') :
               i \in 1 .. Len(rxFifo) \/ (i = Len(rxFifo) + 1 /\ rxFifo'[i] = arrived + 1)
      BY <2>1 DEF RxType
    <3>2. \A i \in 1 .. Len(rx_buffer) : rx_buffer[i] \in Nat /\ rx_buffer[i] <= arrived
      BY Received DEF Order
    <3>3. \A i \in 1 .. Len(rxFifo) : rxFifo[i] \in Nat /\ rxFifo[i] <= arrived
      BY Received DEF Order
    <3>4. \A i \in 1 .. Len(rx_buffer') : got' < rx_buffer'[i] /\ rx_buffer'[i] <= arrived'
      BY <1>2, <3>1, <3>2 DEF Order
    <3>5. \A i \in 1 .. Len(rxFifo') : got' < rxFifo'[i] /\ rxFifo'[i] <= arrived'
      BY <1>2, <2>1, <3>1, <3>3 DEF Order
    <3>6. \A i, j \in 1 .. Len(rxFifo') : i < j => rxFifo'[i] < rxFifo'[j]
      BY <2>1, <3>1, <3>3 DEF Order
    <3>7. \A i \in 1 .. Len(rx_buffer'), j \in 1 .. Len(rxFifo') : rx_buffer'[i] < rxFifo'[j]
      BY <1>2, <2>1, <3>1, <3>2 DEF Order
    <3>8. got' <= arrived'
      BY <1>2, <3>1 DEF Order
    <3>9. QED BY <1>2, <3>4, <3>5, <3>6, <3>7, <3>8 DEF Order
  <2>4. Session'
    BY <1>2, <2>1 DEF RxType, Session
  <2>5. QED BY <1>1, <2>2, <2>3, <2>4
<1>5. QED BY <1>3, <1>4 DEF Arrive

LEMMA TransmitStep ==
  ASSUME IInv, Transmit
  PROVE  IInv'
<1> USE DEF IInv
<1>1. RxType' /\ Order' /\ PortType' /\ Session' /\ ClockType'
  BY RxSame, ClockSame DEF Transmit, PortType, Session, port, rx
<1>2. /\ Len(txFifo) \in Nat \ {0} /\ txFifo' \in Seq(Nat)
      /\ Len(txFifo') = Len(txFifo) - 1
      /\ \A i \in 1 .. Len(txFifo) - 1 : txFifo'[i] = txFifo[i + 1]
      /\ line' = txFifo[1] /\ txFifo[1] \in Nat
  BY Behead DEF Transmit, TxType
<1>3. UNCHANGED <<hw, pc, size, left, writable, told>>
  BY DEF Transmit, port, call
<1>4. TxType'
  BY <1>2, <1>3, Sizes DEF TxType
<1>5. Sent'
  <2>1. line \in Nat /\ line' = line + 1 /\ \A i \in 1 .. Len(txFifo') : txFifo'[i] = line' + i
    <3>1. line \in Nat /\ \A i \in 1 .. Len(txFifo) : txFifo[i] = line + i
      BY DEF TxType, Sent
    <3> HIDE DEF IInv
    <3>2. line' = line + 1
      BY <1>2, <3>1
    <3>3. ASSUME NEW i \in 1 .. Len(txFifo') PROVE txFifo'[i] = line' + i
      <4>1. i + 1 \in 1 .. Len(txFifo) /\ txFifo'[i] = txFifo[i + 1]
        BY <1>2
      <4>2. QED BY <3>1, <3>2, <4>1
    <3>4. QED BY <3>1, <3>2, <3>3
  <2>2. line' + Len(txFifo') = told' + (size' - left')
    <3>1. line + Len(txFifo) = told + (size - left)
      BY DEF Sent
    <3>2. line \in Nat /\ Len(txFifo) \in Nat
      BY DEF TxType
    <3>3. line' + Len(txFifo') = line + Len(txFifo)
      BY <1>2, <2>1, <3>2
    <3>4. QED BY <1>3, <3>1, <3>3
  <2>3. pc' = "put" => writable' + Len(txFifo') <= Fifo
    BY <1>2, <1>3, Sizes DEF TxType, Sent
  <2>4. hw' # "free" /\ pc' # "end"
    BY <1>2, <1>3 DEF Sent
  <2>5. QED BY <1>3, <2>1, <2>2, <2>3, <2>4 DEF Sent, Writing
<1>6. QED BY <1>1, <1>4, <1>5

LEMMA IrqHandlerStep ==
  ASSUME IInv, IrqHandler
  PROVE  IInv'
<1> USE DEF IInv
<1> DEFINE k == Least(Len(rxFifo), Buf - Len(rx_buffer))
           p == SubSeq(rxFifo, 1, k)
<1>1. /\ TxType' /\ Sent' /\ ClockType' /\ PortType'
  BY TxSame, ClockSame DEF IrqHandler, PortType, port
<1>2. /\ k \in 0 .. Len(rxFifo) /\ k <= Buf - Len(rx_buffer)
      /\ Len(rxFifo) \in Nat /\ Len(rx_buffer) \in Nat
  <2>1. Len(rxFifo) \in Nat /\ Len(rx_buffer) \in Nat /\ Buf - Len(rx_buffer) \in Nat
    BY Sizes DEF RxType
  <2>2. QED BY <2>1, LeastIs
<1> HIDE DEF k
<1>3. /\ p \in Seq(1 .. MaxIn) /\ Len(p) = k /\ \A i \in 1 .. k : p[i] = rxFifo[i]
  BY <1>2, Front DEF RxType
<1>4. /\ rxFifo' = <<>> /\ Len(rxFifo') = 0 /\ rxFifo' \in Seq(1 .. MaxIn)
      /\ rx_buffer' = rx_buffer \o p
      /\ hw = "on" /\ UNCHANGED <<hw, ready, opened, arrived, got, seen, pc>>
  BY NoneLeft DEF IrqHandler, port, k
<1> HIDE DEF p
<1>5. /\ rx_buffer' \in Seq(1 .. MaxIn) /\ Len(rx_buffer') = Len(rx_buffer) + k
      /\ \A i \in 1 .. Len(rx_buffer) : rx_buffer'[i] = rx_buffer[i]
      /\ \A i \in Len(rx_buffer) + 1 .. Len(rx_buffer) + k :
            rx_buffer'[i] = rxFifo[i - Len(rx_buffer)]
  <2>1. rx_buffer \in Seq(1 .. MaxIn)
    BY DEF RxType
  <2>2. \A i \in Len(rx_buffer) + 1 .. Len(rx_buffer) + k : i - Len(rx_buffer) \in 1 .. k
    BY <1>2
  <2>3. /\ rx_buffer \o p \in Seq(1 .. MaxIn) /\ Len(rx_buffer \o p) = Len(rx_buffer) + Len(p)
        /\ \A i \in 1 .. Len(rx_buffer) : (rx_buffer \o p)[i] = rx_buffer[i]
        /\ \A i \in Len(rx_buffer) + 1 .. Len(rx_buffer) + Len(p) :
              (rx_buffer \o p)[i] = p[i - Len(rx_buffer)]
    BY <1>3, <2>1, Joined
  <2>4. QED BY <1>3, <1>4, <2>2, <2>3
<1>6. RxType'
  BY <1>2, <1>4, <1>5, Sizes DEF RxType
<1>7. Order'
  <2>1. \A i \in 1 .. Len(rx_buffer') :
          \/ i \in 1 .. Len(rx_buffer) /\ rx_buffer'[i] = rx_buffer[i]
          \/ /\ i - Len(rx_buffer) \in 1 .. Len(rxFifo)
             /\ rx_buffer'[i] = rxFifo[i - Len(rx_buffer)]
    BY <1>2, <1>5
  <2>2. \A i \in 1 .. Len(rx_buffer') : got < rx_buffer'[i] /\ rx_buffer'[i] <= arrived
    BY <2>1 DEF Order
  <2>3. \A i, j \in 1 .. Len(rx_buffer') : i < j => rx_buffer'[i] < rx_buffer'[j]
    <3> SUFFICES ASSUME NEW i \in 1 .. Len(rx_buffer'), NEW j \in 1 .. Len(rx_buffer'), i < j
                 PROVE  rx_buffer'[i] < rx_buffer'[j]
      OBVIOUS
    <3>1. CASE j \in 1 .. Len(rx_buffer)
      BY <1>2, <1>5, <3>1 DEF Order
    <3>2. CASE i \in 1 .. Len(rx_buffer) /\ j \notin 1 .. Len(rx_buffer)
      BY <1>5, <2>1, <3>2 DEF Order
    <3>3. CASE i \notin 1 .. Len(rx_buffer)
      <4>1. j \notin 1 .. Len(rx_buffer) /\ i - Len(rx_buffer) < j - Len(rx_buffer)
        BY <1>2, <1>5, <3>3
      <4>2. QED BY <2>1, <3>3, <4>1 DEF Order
    <3>4. QED BY <3>1, <3>2, <3>3
  <2>4. seen # 0 => Len(rx_buffer') > 0 /\ rx_buffer'[1] = seen
    BY <1>2, <1>5 DEF Order
  <2>5. QED BY <1>4, <2>2, <2>3, <2>4 DEF Order
<1>8. Session'
  BY <1>2, <1>4, <1>5 DEF Session
<1>9. QED BY <1>1, <1>6, <1>7, <1>8

LEMMA BeginStep ==
  ASSUME IInv, Begin
  PROVE  IInv'
<1> USE DEF IInv
<1>1. pc = "idle"
  BY DEF Begin
<1>2. /\ UNCHANGED <<rxFifo, rx_buffer, arrived, got, seen, txFifo, pc, size, left, writable>>
      /\ ClockType'
  BY ClockSame DEF Begin, rx
<1>3. CASE last_error' = "INIT_FAILED" /\ UNCHANGED <<hw, ready, opened, line, told>>
  <2>1. PortType' /\ RxType' /\ TxType'
    BY <1>2, <1>3 DEF PortType, RxType, TxType
  <2>2. Order' /\ Session' /\ Sent'
    BY <1>2, <1>3 DEF Order, Session, Sent, Writing
  <2>3. QED BY <1>2, <2>1, <2>2
<1>4. CASE /\ hw = "free"
           /\ \/ hw' = "on" /\ ready' = TRUE /\ UNCHANGED last_error
              \/ hw' = "init" /\ last_error' = "SET_BAUD_FAILED" /\ UNCHANGED ready
           /\ opened' = arrived /\ line' = 0 /\ told' = 0
  <2>0. /\ ready # TRUE /\ Len(rx_buffer) = 0 /\ Len(rxFifo) = 0
        /\ Len(txFifo) = 0 /\ size = 0 /\ left = 0
    <3>1. ready # TRUE /\ Len(rx_buffer) = 0 /\ Len(rxFifo) = 0
      BY <1>1, <1>4 DEF Session
    <3>2. Len(txFifo) = 0 /\ size = 0
      BY <1>1, <1>4 DEF Sent, Writing
    <3>3. left = 0
      BY <3>2 DEF TxType
    <3>4. QED BY <3>1, <3>2, <3>3
  <2>1. PortType'
    BY <1>2, <1>4 DEF PortType
  <2>2. RxType' /\ Order'
    BY <1>2, <1>4 DEF RxType, Order
  <2>3. TxType' /\ Sent'
    BY <1>1, <1>2, <1>4, <2>0 DEF TxType, Sent, Writing
  <2>4. Session'
    BY <1>1, <1>2, <1>4, <2>0 DEF Session
  <2>5. QED BY <1>2, <2>1, <2>2, <2>3, <2>4
<1>5. QED BY <1>3, <1>4 DEF Begin

LEMMA EndStep ==
  ASSUME IInv, EndClear \/ EndFree \/ EndBuffer
  PROVE  IInv'
<1> USE DEF IInv
<1>1. CASE EndClear
  <2>1. /\ Len(rxFifo') = 0 /\ rxFifo' \in Seq(1 .. MaxIn)
        /\ Len(txFifo') = 0 /\ txFifo' \in Seq(Nat)
        /\ line' = 0 /\ told' = 0 /\ pc = "idle" /\ pc' = "end" /\ hw # "free"
        /\ UNCHANGED <<hw, ready, last_error, opened, rx_buffer, arrived, got, seen, size, left, writable>>
    BY <1>1, NoneLeft DEF EndClear, port
  <2>2. PortType' /\ ClockType'
    BY <1>1, <2>1, ClockSame DEF PortType, EndClear
  <2>3. RxType' /\ Order'
    BY <2>1, Sizes DEF RxType, Order
  <2>4. TxType' /\ Sent' /\ Session'
    BY <2>1, Sizes DEF TxType, Sent, Writing, Session
  <2>5. QED BY <2>2, <2>3, <2>4
<1>2. CASE EndFree
  <2>1. /\ Len(rxFifo') = 0 /\ rxFifo' \in Seq(1 .. MaxIn)
        /\ hw' = "free" /\ pc = "end" /\ pc' = "end"
        /\ UNCHANGED <<ready, last_error, opened, rx_buffer, arrived, got, seen,
                       txFifo, line, size, left, writable, told>>
    BY <1>2, NoneLeft DEF EndFree, tx, call
  <2>2. PortType' /\ ClockType'
    BY <1>2, <2>1, ClockSame DEF PortType, EndFree
  <2>3. RxType' /\ Order'
    BY <2>1, Sizes DEF RxType, Order
  <2>4. TxType' /\ Sent' /\ Session'
    BY <2>1, Sizes DEF TxType, Sent, Writing, Session
  <2>5. QED BY <2>2, <2>3, <2>4
<1>3. CASE EndBuffer
  <2>1. /\ Len(rx_buffer') = 0 /\ rx_buffer' \in Seq(1 .. MaxIn)
        /\ seen' = 0 /\ ready' = FALSE /\ hw = "free" /\ pc = "end" /\ pc' = "idle"
        /\ UNCHANGED <<hw, last_error, opened, rxFifo, arrived, got,
                       txFifo, line, size, left, writable, told>>
    BY <1>3, NoneLeft DEF EndBuffer, tx, call
  <2>2. PortType' /\ ClockType'
    BY <1>3, <2>1, ClockSame DEF PortType, EndBuffer
  <2>3. RxType' /\ Order'
    BY <2>1, Sizes DEF RxType, Order
  <2>4. TxType' /\ Sent'
    BY <2>1, Sizes DEF TxType, Sent, Writing
  <2>5. Session'
    BY <2>1 DEF RxType, Session
  <2>6. QED BY <2>2, <2>3, <2>4, <2>5
<1>4. QED BY <1>1, <1>2, <1>3

LEMMA ReadStep ==
  ASSUME IInv, Read \/ Peek
  PROVE  IInv'
<1> USE DEF IInv
<1>1. /\ Len(rx_buffer) \in Nat \ {0} /\ Head(rx_buffer) = rx_buffer[1]
      /\ rx_buffer[1] \in 1 .. MaxIn
      /\ Tail(rx_buffer) \in Seq(1 .. MaxIn) /\ Len(Tail(rx_buffer)) = Len(rx_buffer) - 1
      /\ \A i \in 1 .. Len(rx_buffer) - 1 : Tail(rx_buffer)[i] = rx_buffer[i + 1]
  BY Behead DEF Read, Peek, RxType
<1>2. /\ TxType' /\ Sent' /\ ClockType' /\ PortType'
      /\ UNCHANGED <<hw, ready, opened, rxFifo, arrived, pc>> /\ pc = "idle"
  BY TxSame, ClockSame DEF Read, Peek, PortType, port
<1>3. CASE Read
  <2>1. got' = rx_buffer[1] /\ rx_buffer' = Tail(rx_buffer) /\ seen' = 0
    BY <1>1, <1>3 DEF Read
  <2>2. RxType'
    BY <1>1, <1>2, <2>1, Sizes DEF RxType
  <2>3. Order'
    BY <1>1, <1>2, <2>1 DEF RxType, Order
  <2>4. Session'
    BY <1>1, <1>2, <2>1 DEF RxType, Session
  <2>5. QED BY <1>2, <2>2, <2>3, <2>4
<1>4. CASE Peek
  <2>1. seen' = rx_buffer[1] /\ UNCHANGED <<rx_buffer, got>>
    BY <1>1, <1>4 DEF Peek
  <2>2. RxType' /\ Order' /\ Session'
    BY <1>1, <1>2, <2>1 DEF RxType, Order, Session
  <2>3. QED BY <1>2, <2>2
<1>5. QED BY <1>3, <1>4

\* The rounds of write() and flush() that put nothing.
LEMMA RoundStep ==
  ASSUME IInv, \/ Write \/ WriteLook \/ WriteAgain \/ WriteReturn
               \/ Flush \/ FlushRound \/ FlushReturn
  PROVE  IInv'
<1> USE DEF IInv
<1>1. /\ pc # "end" /\ UNCHANGED <<port, rx, tx>>
      /\ pc' \in {"idle", "look", "put", "test", "flush"}
  BY DEF Write, WriteLook, WriteAgain, WriteReturn, Flush, FlushRound, FlushReturn
<1>2. RxType' /\ Order' /\ PortType' /\ Session'
  BY <1>1, RxSame, SessionSame DEF port
<1>3. UNCHANGED <<hw, txFifo, line>> /\ Len(txFifo) \in 0 .. Fifo
  BY <1>1 DEF port, tx, TxType
<1>4. ClockType'
  BY ClockGoesOn, ClockSame, Sizes
  DEF Write, WriteLook, WriteAgain, WriteReturn, Flush, FlushRound, FlushReturn
<1>5. CASE Write
  <2>1. PICK s \in 1 .. MaxSize : size' = s /\ left' = s
    BY <1>5 DEF Write
  <2>2. UNCHANGED <<writable, told>> /\ pc = "idle" /\ hw = "on" /\ pc' = "look"
    BY <1>5 DEF Write
  <2>3. TxType'
    BY <1>3, <2>1, <2>2, Sizes DEF TxType
  <2>4. size = 0 /\ left = 0
    BY <2>2 DEF TxType, Sent, Writing
  <2>5. line + Len(txFifo) = told' + (size' - left')
    BY <2>1, <2>2, <2>4 DEF TxType, Sent
  <2>6. Sent'
    BY <1>3, <2>2, <2>5 DEF Sent, Writing
  <2>7. QED BY <1>2, <1>4, <2>3, <2>6
<1>6. CASE WriteLook
  <2>1. /\ writable' = Fifo - Len(txFifo) /\ pc' \in {"test", "put"} /\ pc = "look"
        /\ UNCHANGED <<size, left, told>>
    BY <1>6 DEF WriteLook
  <2>2. TxType' /\ Sent'
    BY <1>3, <2>1, Sizes DEF TxType, Sent, Writing
  <2>3. QED BY <1>2, <1>4, <2>2
<1>7. CASE WriteAgain
  BY <1>2, <1>3, <1>4, <1>7 DEF WriteAgain, call, TxType, Sent, Writing
<1>8. CASE WriteReturn
  <2>1. /\ told' = told + (size - left) /\ size' = 0 /\ left' = 0
        /\ pc' = "idle" /\ pc = "test" /\ UNCHANGED writable
    BY <1>8 DEF WriteReturn
  <2>2. TxType' /\ Sent'
    BY <1>3, <2>1, Sizes DEF TxType, Sent, Writing
  <2>3. QED BY <1>2, <1>4, <2>2
<1>9. CASE Flush \/ FlushRound \/ FlushReturn
  <2>1. /\ UNCHANGED <<size, left, writable, told>>
        /\ pc \in {"idle", "flush"} /\ pc' \in {"idle", "flush"}
        /\ pc' = "flush" => hw = "on"
    BY <1>9 DEF Flush, FlushRound, FlushReturn, call, Sent
  <2>2. TxType' /\ Sent'
    BY <1>3, <2>1 DEF TxType, Sent, Writing
  <2>3. QED BY <1>2, <1>4, <2>2
<1>10. QED BY <1>5, <1>6, <1>7, <1>8, <1>9

LEMMA WritePutStep ==
  ASSUME IInv, WritePut
  PROVE  IInv'
<1> USE DEF IInv
<1>1. /\ pc = "put" /\ pc' \in {"test", "idle"} /\ UNCHANGED <<port, rx, line, writable, hw>>
  BY DEF WritePut, port
<1>2. RxType' /\ Order' /\ PortType' /\ Session' /\ ClockType'
  BY <1>1, RxSame, SessionSame, ClockSame DEF WritePut, port
<1>3. CASE told' = told + (size - left) /\ size' = 0 /\ left' = 0 /\ pc' = "idle"
            /\ UNCHANGED txFifo
  <2>1. TxType'
    <3>1. told + (size - left) \in Nat /\ 0 \in 0 .. MaxSize /\ 0 \in 0 .. 0
      BY Sizes DEF TxType
    <3>2. QED BY <1>1, <1>3, <3>1 DEF TxType
  <2>2. line' + Len(txFifo') = told' + (size' - left')
    BY <1>1, <1>3 DEF TxType, Sent
  <2>3. Sent'
    BY <1>1, <1>3, <2>2 DEF Sent, Writing
  <2>4. QED BY <1>2, <2>1, <2>3
<1> DEFINE k == Least(left, writable)
           new == [i \in 1 .. k |-> told + (size - left) + i]
<1>4. CASE /\ txFifo' = txFifo \o new
           /\ left' = left - k /\ pc' = "test" /\ UNCHANGED <<size, told>>
  <2>1. k \in Nat /\ k <= left /\ k <= writable /\ told + (size - left) \in Nat
        /\ Len(txFifo) \in Nat
    <3>1. left \in Nat /\ writable \in Nat /\ told + (size - left) \in Nat /\ Len(txFifo) \in Nat
      BY Sizes DEF TxType
    <3>2. QED BY <3>1, LeastIs
  <2> HIDE DEF k
  <2>2. new \in Seq(Nat) /\ Len(new) = k
        /\ \A i \in 1 .. k : new[i] = told + (size - left) + i
    BY <2>1
  <2> HIDE DEF new
  <2>3. /\ txFifo' \in Seq(Nat) /\ Len(txFifo') = Len(txFifo) + k
        /\ \A i \in 1 .. Len(txFifo) : txFifo'[i] = txFifo[i]
        /\ \A i \in Len(txFifo) + 1 .. Len(txFifo) + k :
              txFifo'[i] = told + (size - left) + (i - Len(txFifo))
    <3>1. txFifo \in Seq(Nat) BY DEF TxType
    <3>2. \A i \in Len(txFifo) + 1 .. Len(txFifo) + k : i - Len(txFifo) \in 1 .. k
      BY <2>1
    <3>3. QED BY <1>4, <2>1, <2>2, <3>1, <3>2, Joined
  <2>4. TxType'
    <3>1. Len(txFifo') <= Fifo
      BY <1>1, <2>1, <2>3, Sizes DEF TxType, Sent
    <3>2. left' \in 0 .. size
      BY <1>4, <2>1 DEF TxType
    <3>3. QED BY <1>1, <1>4, <2>3, <3>1, <3>2 DEF TxType
  <2>5. \A i \in 1 .. Len(txFifo') : txFifo'[i] = line + i
    <3>1. line \in Nat /\ line + Len(txFifo) = told + (size - left)
      BY DEF TxType, Sent
    <3>2. \A i \in 1 .. Len(txFifo') : \/ i \in 1 .. Len(txFifo)
                                       \/ i \in Len(txFifo) + 1 .. Len(txFifo) + k
      BY <2>1, <2>3
    <3>3. \A i \in Len(txFifo) + 1 .. Len(txFifo) + k : txFifo'[i] = line + i
      BY <2>1, <2>3, <3>1
    <3>4. QED BY <2>3, <3>2, <3>3 DEF Sent
  <2>6. Sent'
    <3>1. line + Len(txFifo') = told + (size - left')
      <4>1. line + Len(txFifo) = told + (size - left)
        BY DEF Sent
      <4>2. line \in Nat /\ told \in Nat /\ size \in Int /\ left \in Int /\ k \in Int
            /\ Len(txFifo) \in Int /\ left' = left - k
        BY <1>4, <2>1 DEF TxType, k
      <4>3. QED BY <2>3, <4>1, <4>2
    <3>2. QED BY <1>1, <1>4, <2>5, <3>1 DEF Sent, Writing
  <2>7. QED BY <1>2, <2>4, <2>6
<1>5. QED BY <1>3, <1>4 DEF WritePut
-----------------------------------------------------------------------------
LEMMA InitIInv == Init => IInv
<1> SUFFICES ASSUME Init PROVE IInv
  OBVIOUS
<1> USE DEF Init
<1>1. RxType /\ TxType
  BY NoneLeft, Sizes DEF RxType, TxType
<1>2. ClockType
  <2>1. 0 \in 0 .. Wrap - 1
    BY Sizes
  <2>2. QED BY <2>1, Zenon DEF ClockType
<1>3. Order
  BY NoneLeft DEF Order
<1>4. Session
  BY NoneLeft DEF Session
<1>5. Sent
  BY NoneLeft DEF Sent, Writing
<1>6. PortType
  BY DEF PortType
<1>7. QED BY <1>1, <1>2, <1>3, <1>4, <1>5, <1>6 DEF IInv

LEMMA NextIInv == IInv /\ [Next]_vars => IInv'
<1> SUFFICES ASSUME IInv, [Next]_vars PROVE IInv'
  OBVIOUS
<1>1. CASE UNCHANGED vars
  <2>1. UNCHANGED <<rx, opened>> /\ UNCHANGED <<tx, call, hw, pc>> /\ UNCHANGED clock
        /\ UNCHANGED <<ready, last_error, rxFifo, rx_buffer>>
    BY <1>1 DEF vars, rx, tx, call, clock
  <2>2. PortType' /\ Session'
    BY <2>1 DEF IInv, PortType, Session
  <2>3. QED BY <2>1, <2>2, RxSame, TxSame, ClockSame DEF IInv
<1>2. CASE Next
  BY <1>2, ArriveStep, TransmitStep, IrqHandlerStep, BeginStep, EndStep, ReadStep,
     RoundStep, WritePutStep DEF Next, SketchLoops
<1>3. QED BY <1>1, <1>2

LEMMA Invariance == Spec => []IInv
BY InitIInv, NextIInv, PTL DEF Spec

(* No buffer and no count leaves its bounds: neither FIFO, the ring buffer *)
(* nor what is left to write.  Uart.cpp:94-171.                            *)
THEOREM TypeCorrect == Spec => []TypeOK
<1>1. IInv => TypeOK
  BY TypeParts DEF IInv
<1>2. QED BY <1>1, Invariance, PTL

(* Received bytes stay in order, none twice, and peek() shows what read()  *)
(* returns.  Uart.cpp:87-92, 105-117, 162-171.                             *)
THEOREM BytesInOrder == Spec => []ReadInOrder
<1>1. IInv => ReadInOrder
  <2> SUFFICES ASSUME IInv PROVE ReadInOrder
    OBVIOUS
  <2> DEFINE s == <<got>> \o rx_buffer
             all == s \o rxFifo
  <2>1. /\ <<got>> \in Seq(Nat) /\ Len(<<got>>) = 1 /\ <<got>>[1] = got
        /\ rx_buffer \in Seq(Nat) /\ rxFifo \in Seq(Nat)
        /\ Len(rx_buffer) \in Nat /\ Len(rxFifo) \in Nat /\ got \in Nat
        /\ \A i \in 1 .. Len(rx_buffer) : rx_buffer[i] \in Nat
        /\ \A i \in 1 .. Len(rxFifo) : rxFifo[i] \in Nat
    <3>1. got \in Nat /\ rx_buffer \in Seq(Nat) /\ rxFifo \in Seq(Nat)
      BY Sizes DEF IInv, RxType
    <3>2. QED BY <3>1
  <2>2. /\ s \in Seq(Nat) /\ Len(s) = 1 + Len(rx_buffer) /\ s[1] = got
        /\ \A i \in 2 .. Len(s) : s[i] = rx_buffer[i - 1]
    <3>1. /\ s \in Seq(Nat) /\ Len(s) = 1 + Len(rx_buffer)
          /\ \A i \in 1 .. 1 : s[i] = <<got>>[i]
          /\ \A i \in 1 + 1 .. 1 + Len(rx_buffer) : s[i] = rx_buffer[i - 1]
      BY <2>1, Joined
    <3>2. QED BY <2>1, <3>1
  <2> HIDE DEF s
  <2>3. /\ all \in Seq(Nat) /\ Len(all) = Len(s) + Len(rxFifo)
        /\ \A i \in 1 .. Len(s) : all[i] = s[i]
        /\ \A i \in Len(s) + 1 .. Len(s) + Len(rxFifo) : all[i] = rxFifo[i - Len(s)]
    <3>1. s \in Seq(Nat) /\ rxFifo \in Seq(Nat)
      BY <2>1, <2>2
    <3>2. QED BY <3>1, Joined
  <2> HIDE DEF all
  <2>4. DOMAIN all = 1 .. Len(all)
    BY <2>3
  <2>41. \A i \in 1 .. Len(s) :
           \/ i = 1 /\ s[i] = got
           \/ i > 1 /\ i - 1 \in 1 .. Len(rx_buffer) /\ s[i] = rx_buffer[i - 1]
    BY <2>1, <2>2
  <2>5. ASSUME NEW i \in 1 .. Len(s), NEW j \in 1 .. Len(s), i < j
        PROVE  s[i] < s[j]
    <3>1. j > 1 /\ j - 1 \in 1 .. Len(rx_buffer) /\ s[j] = rx_buffer[j - 1]
      BY <2>2, <2>41, <2>5
    <3>2. CASE i = 1 /\ s[i] = got
      BY <3>1, <3>2 DEF IInv, Order
    <3>3. CASE i - 1 \in 1 .. Len(rx_buffer) /\ s[i] = rx_buffer[i - 1]
      <4>1. i - 1 < j - 1 BY <2>1, <2>2, <2>5
      <4>2. QED BY <3>1, <3>3, <4>1 DEF IInv, Order
    <3>4. QED BY <2>41, <3>2, <3>3
  <2>6. \A i \in 1 .. Len(s), j \in 1 .. Len(rxFifo) : s[i] < rxFifo[j]
    BY <2>41 DEF IInv, Order
  <2>7. ASSUME NEW i \in 1 .. Len(all), NEW j \in 1 .. Len(all), i < j
        PROVE  all[i] < all[j]
    <3>0. /\ Len(s) \in Nat /\ Len(rxFifo) \in Nat
          /\ i \in 1 .. Len(s) \/ (i \in Len(s) + 1 .. Len(s) + Len(rxFifo)
                                   /\ i - Len(s) \in 1 .. Len(rxFifo))
          /\ j \in 1 .. Len(s) \/ (j \in Len(s) + 1 .. Len(s) + Len(rxFifo)
                                   /\ j - Len(s) \in 1 .. Len(rxFifo))
      <4>1. Len(s) \in Nat /\ Len(rxFifo) \in Nat
        BY <2>1, <2>2
      <4>2. i \in 1 .. Len(s) + Len(rxFifo) /\ j \in 1 .. Len(s) + Len(rxFifo)
        BY <2>3
      <4>3. QED BY <4>1, <4>2
    <3>1. CASE j \in 1 .. Len(s)
      <4>1. i \in 1 .. Len(s) BY <2>7, <3>0, <3>1
      <4>2. QED BY <2>3, <2>5, <2>7, <3>1, <4>1
    <3>2. CASE i \in 1 .. Len(s) /\ j - Len(s) \in 1 .. Len(rxFifo)
      <4>1. j \in Len(s) + 1 .. Len(s) + Len(rxFifo) BY <3>0, <3>2
      <4>2. QED BY <2>3, <2>6, <3>2, <4>1
    <3>3. CASE i - Len(s) \in 1 .. Len(rxFifo) /\ j - Len(s) \in 1 .. Len(rxFifo)
      <4>1. /\ i \in Len(s) + 1 .. Len(s) + Len(rxFifo)
            /\ j \in Len(s) + 1 .. Len(s) + Len(rxFifo)
            /\ i - Len(s) < j - Len(s)
        BY <2>7, <3>0, <3>3
      <4>2. QED BY <2>3, <3>3, <4>1 DEF IInv, Order
    <3>4. QED BY <3>0, <3>1, <3>2, <3>3
  <2>8. Increasing(all)
    BY <2>4, <2>7 DEF Increasing
  <2>9. seen # 0 => rx_buffer # <<>> /\ Head(rx_buffer) = seen
    BY <2>1, NoneLeft DEF IInv, Order
  <2>10. QED BY <2>8, <2>9 DEF ReadInOrder, all, s
<1>2. QED BY <1>1, Invariance, PTL

(* What the sketch can read belongs to the session.  Uart.cpp:87-92.       *)
THEOREM BytesOfSession == Spec => []SessionOnly
<1>1. IInv => SessionOnly
  <2> SUFFICES ASSUME IInv, pc = "idle", NEW i \in DOMAIN rx_buffer
               PROVE  ready /\ rx_buffer[i] > opened
    BY DEF SessionOnly
  <2>1. i \in 1 .. Len(rx_buffer) /\ Len(rx_buffer) # 0
    BY DEF IInv, RxType
  <2>2. hw = "on" /\ rx_buffer[i] > opened
    BY <2>1 DEF IInv, Session, PortType
  <2>3. ready = TRUE
    BY <2>2 DEF IInv, Session
  <2>4. QED BY <2>2, <2>3
<1>2. QED BY <1>1, Invariance, PTL

(* A port is ready exactly while its interrupt is enabled.                 *)
(* Uart.cpp:67-76, 87-92.                                                  *)
THEOREM ReadyMeansOpen == Spec => []ReadyIsOpen
<1>1. IInv => ReadyIsOpen
  BY DEF IInv, PortType, Session, ReadyIsOpen
<1>2. QED BY <1>1, Invariance, PTL

(* The block holds and has sent what write() has counted, byte for byte.   *)
(* Uart.cpp:123-147.                                                       *)
THEOREM CountIsSent == Spec => []SentIsTold
<1>1. IInv => SentIsTold
  BY DEF IInv, TxType, Sent, SentIsTold
<1>2. QED BY <1>1, Invariance, PTL
-----------------------------------------------------------------------------
(* What the clock of a waiting loop says of the time that was spent there, *)
(* as long as millis() has not wrapped.                                    *)
TimeoutOf(p) == IF p = "flush" THEN FlushTimeout ELSE WriteTimeout

Timed ==
  (Writing \/ pc = "flush") /\ wrapped = FALSE =>
    start <= now /\ (now - start <= waited \/ TimeoutOf(pc) <= waited)

LEMMA RemainderOfLess ==
  ASSUME NEW w \in Nat \ {0}, NEW a \in 0 .. w - 1
  PROVE  a % w = a
OBVIOUS

\* A turn of a loop keeps what was waited.
LEMMA TimedRound ==
  ASSUME ClockType, Timed, Writing \/ pc = "flush", TimeoutOf(pc') = TimeoutOf(pc),
         TimePasses(TimeoutOf(pc))
  PROVE  Timed'
<1> DEFINE t == TimeoutOf(pc)
<1>0. t \in Nat
  BY Sizes DEF TimeoutOf
<1> HIDE DEF t
<1>1. PICK d \in 1 .. MaxLag :
        /\ now' = (now + d) % Wrap /\ waited' = Least(waited + d, t)
        /\ wrapped' = (wrapped \/ now + d >= Wrap) /\ start' = start
  BY DEF TimePasses, t
<1>2. d \in Nat /\ now \in Nat /\ start \in Nat /\ waited \in Nat /\ Wrap \in Nat \ {0}
  BY Sizes DEF ClockType
<1>3. waited' = waited + d \/ waited' = t
  BY <1>1 DEF Least
<1>4. CASE wrapped' = FALSE
  <2>1. wrapped = FALSE /\ now + d \in 0 .. Wrap - 1
    <3>1. wrapped = FALSE
      BY <1>1, <1>4, Zenon DEF ClockType
    <3>2. ~(now + d >= Wrap)
      BY <1>1, <1>4, Zenon
    <3>3. QED BY <1>2, <3>1, <3>2
  <2>2. now' = now + d
    BY <1>1, <1>2, <2>1, RemainderOfLess
  <2>3. start <= now /\ (now - start <= waited \/ t <= waited)
    BY <2>1 DEF Timed, t
  <2>4. start' <= now' /\ (now' - start' <= waited' \/ t <= waited')
    BY <1>0, <1>1, <1>2, <1>3, <2>2, <2>3
  <2>5. QED BY <2>4 DEF Timed, t
<1>5. CASE wrapped' # FALSE
  BY <1>5 DEF Timed
<1>6. QED BY <1>4, <1>5

LEMMA NextTimed == IInv /\ Timed /\ [Next]_vars => Timed'
<1> SUFFICES ASSUME IInv, Timed, [Next]_vars PROVE Timed'
  OBVIOUS
<1>1. ASSUME UNCHANGED <<pc, clock>> PROVE Timed'
  BY <1>1 DEF Timed, TimeoutOf, Writing, clock
<1>2. CASE \/ UNCHANGED vars \/ Arrive \/ Transmit \/ IrqHandler \/ Begin \/ EndFree
           \/ Read \/ Peek
  <2>1. UNCHANGED <<pc, clock>>
    BY <1>2 DEF vars, clock, Arrive, Transmit, IrqHandler, Begin, EndFree, Read, Peek
  <2>2. QED BY <1>1, <2>1
<1>3. CASE EndClear \/ EndBuffer \/ WriteReturn \/ FlushReturn
  <2>1. pc' \in {"idle", "end"}
    BY <1>3 DEF EndClear, EndBuffer, WriteReturn, FlushReturn
  <2>2. QED BY <2>1 DEF Timed, Writing
<1>4. CASE WriteAgain \/ WritePut
  <2>1. pc \in {"test", "put"} /\ pc' \in {"look", "test", "idle"} /\ UNCHANGED clock
    BY <1>4 DEF WriteAgain, WritePut
  <2>2. QED BY <2>1 DEF Timed, TimeoutOf, Writing, clock
<1>5. CASE Write \/ Flush
  <2>1. start' = now' /\ waited' = 0 /\ now' \in Nat
    <3>1. StartTimer
      BY <1>5 DEF Write, Flush
    <3>2. now \in Nat
      BY Sizes DEF IInv, ClockType
    <3>3. QED BY <3>1, <3>2 DEF StartTimer
  <2>2. start' <= now' /\ now' - start' <= waited'
    <3>1. \A n \in Nat : n <= n /\ n - n <= 0
      OBVIOUS
    <3>2. QED BY <2>1, <3>1, Zenon
  <2>3. QED BY <2>2, Zenon DEF Timed
<1>6. CASE WriteLook
  <2>1. /\ pc = "look" /\ TimeoutOf(pc) = WriteTimeout
        /\ TimeoutOf(pc') = TimeoutOf(pc) /\ TimePasses(TimeoutOf(pc))
    BY <1>6 DEF WriteLook, TimeoutOf
  <2>2. QED BY <2>1, TimedRound DEF IInv, Writing
<1>7. CASE FlushRound
  <2>1. pc = "flush" /\ pc' = pc /\ TimePasses(TimeoutOf(pc))
    BY <1>7 DEF FlushRound, TimeoutOf
  <2>2. QED BY <2>1, TimedRound DEF IInv
<1>8. QED
  BY <1>2, <1>3, <1>4, <1>5, <1>6, <1>7 DEF Next, SketchLoops

(* write() and flush() do not give up before their time, unless millis()   *)
(* wraps.  Uart.cpp:94-103, 133-144, time.c:75-77.                         *)
THEOREM NotTooEarly == Spec => GivesUpInTime
<1> DEFINE Gives ==
      /\ pc = "test" /\ pc' = "idle" /\ left > 0 /\ ~wrapped => waited >= WriteTimeout
      /\ pc = "flush" /\ pc' = "idle" /\ txFifo # <<>> /\ ~wrapped => waited >= FlushTimeout
<1>1. Init => Timed
  BY DEF Init, Timed, Writing
<1>2. ASSUME IInv, Timed, [Next]_vars
      PROVE  [Gives]_vars
  <2>5. wrapped \in BOOLEAN
    BY <1>2 DEF IInv, ClockType
  <2>0. /\ now \in Nat /\ start \in Nat /\ waited \in Nat
        /\ now < Wrap /\ Wrap <= Word /\ Wrap \in Nat /\ Word \in Nat \ {0}
    BY <1>2, UartAssumption DEF IInv, ClockType
  <2>1. ASSUME NEW t \in Nat, start <= now, now - start <= waited \/ t <= waited, Elapsed >= t
        PROVE  waited >= t
    <3>0. start <= now BY <2>1
    <3>1. now - start \in 0 .. Word - 1
      BY <2>0, <3>0
    <3>2. Elapsed = now - start
      BY <2>0, <3>1, RemainderOfLess DEF Elapsed
    <3>3. QED BY <2>0, <2>1, <3>1, <3>2
  <2>2. ASSUME pc = "test", pc' = "idle", left > 0, wrapped = FALSE
        PROVE  waited >= WriteTimeout
    <3>1. WriteReturn
      BY <1>2, <2>2 DEF Next, SketchLoops, vars, Arrive, Transmit, IrqHandler, Begin, EndClear,
         Read, Peek, Write, Flush, EndFree, EndBuffer, WriteLook, WritePut, WriteAgain,
         FlushRound, FlushReturn
    <3>2. Elapsed >= WriteTimeout
      BY <2>2, <3>1 DEF WriteReturn
    <3>3. start <= now /\ (now - start <= waited \/ WriteTimeout <= waited)
      BY <1>2, <2>2 DEF Timed, TimeoutOf, Writing
    <3>4. QED BY <2>1, <3>2, <3>3, Sizes
  <2>3. ASSUME pc = "flush", pc' = "idle", txFifo # <<>>, wrapped = FALSE
        PROVE  waited >= FlushTimeout
    <3>1. FlushReturn
      BY <1>2, <2>3 DEF Next, SketchLoops, vars, Arrive, Transmit, IrqHandler, Begin, EndClear,
         Read, Peek, Write, Flush, EndFree, EndBuffer, WriteLook, WritePut, WriteAgain,
         WriteReturn, FlushRound
    <3>2. Elapsed >= FlushTimeout
      BY <2>3, <3>1 DEF FlushReturn
    <3>3. start <= now /\ (now - start <= waited \/ FlushTimeout <= waited)
      BY <1>2, <2>3 DEF Timed, TimeoutOf
    <3>4. QED BY <2>1, <3>2, <3>3, Sizes
  <2>4. QED BY <2>2, <2>3, <2>5
<1>3. QED BY <1>1, <1>2, InitIInv, NextIInv, NextTimed, PTL DEF Spec, GivesUpInTime
=============================================================================
