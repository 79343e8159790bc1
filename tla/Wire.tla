-------------------------------- MODULE Wire --------------------------------
(***************************************************************************)
(* class TwoWire (libraries/Wire/src/Wire.cpp) on two boards joined by one *)
(* I2C bus: a master whose sketch writes and requests, and a slave whose   *)
(* event handler runs, to its end, inside the transfer (the block holds    *)
(* the clock until the interrupt has returned) and between any two steps   *)
(* of the slave's sketch.  The two user callbacks read and write as many   *)
(* bytes as they like.                                                     *)
(*                                                                         *)
(* Bytes are numbered in the order the master's sketch writes them and in  *)
(* the order the slave's callback answers; 0 is a byte never written.      *)
(* temp_rx_buff and the master's temp_tx_buff live within one call.        *)
(***************************************************************************)
EXTENDS Integers, Sequences

CONSTANTS Buf,          \* BUFFER_LENGTH, of both boards
          SlaveAddress, \* the address of the slave's begin()
          Addresses,    \* the addresses the master's sketch uses
          MaxWritten,   \* bound: bytes the master's sketch writes
          MaxAnswered,  \* bound: bytes the slave's callback writes
          Quantities    \* bytes asked of requestFrom()

ASSUME WireAssumption ==
  /\ Buf \in Nat \ {0}
  /\ {MaxWritten, MaxAnswered} \subseteq Nat /\ Quantities \subseteq Nat \ {0}
  /\ SlaveAddress \in Addresses

VARIABLES hwM, hwS,   \* the blocks: "free", "init" (not configured) or "on"
          target,     \* slave_address of the master's object
          txM, rxM,   \* txBuffer and rxBuffer of the master
          txS, rxS,   \* txBuffer and rxBuffer of the slave
          temp_tx_buff, \* of the slave: its block's read buffer
          clocked,    \* bytes the last read transfer took out of it
          written,    \* history: bytes accepted by write() of the master
          base,       \* history: ... before the last begin- or endTransmission()
          outcome,    \* history: what the master's last transfer returned
          answered,   \* history: bytes written by the slave's callback
          got         \* history: the byte the slave's sketch read last

vars == <<hwM, hwS, target, txM, rxM, txS, rxS, temp_tx_buff, clocked, written,
          base, outcome, answered, got>>

blocks == <<hwM, hwS>>
writing == <<target, txM, written, base>>
receiving == <<rxS, got>>
answering == <<txS, temp_tx_buff, clocked, answered>>

Least(a, b) == IF a < b THEN a ELSE b
Run(from, to) == [i \in 1 .. to - from |-> from + i]
First(s, n) == SubSeq(s, 1, Least(n, Len(s)))

Init ==
  /\ hwM = "free" /\ hwS = "free" /\ target = SlaveAddress
  /\ txM = <<>> /\ rxM = <<>> /\ txS = <<>> /\ rxS = <<>>
  /\ temp_tx_buff = [i \in 1 .. Buf |-> 0] /\ clocked = 0
  /\ written = 0 /\ base = 0 /\ outcome = 0
  /\ answered = 0 /\ got = 0
-----------------------------------------------------------------------------
(* begin and end.  A failing call of _begin() ends it there; so does the   *)
(* first on a block that is in use, and nothing is changed.                *)

BeginOutcome == {"free", "init", "on"}

BeginMaster ==
  /\ hwM = "free"
  /\ hwM' \in BeginOutcome
  /\ UNCHANGED <<hwS, writing, outcome, receiving, answering, rxM>>

EndMaster ==
  /\ hwM # "free"
  /\ hwM' = "free"
  /\ UNCHANGED <<hwS, writing, outcome, receiving, answering, rxM>>

\* begin(address), onReceive() and onRequest(), as setup() of a slave does;
\* a configured read buffer has nothing taken out of it.
BeginSlave ==
  /\ hwS = "free"
  /\ hwS' \in BeginOutcome
  /\ clocked' = IF hwS' = "on" THEN 0 ELSE clocked
  /\ UNCHANGED <<hwM, writing, outcome, receiving, txS, temp_tx_buff,
                 answered, rxM>>

EndSlave ==
  /\ hwS # "free"
  /\ hwS' = "free"
  /\ UNCHANGED <<hwM, writing, outcome, receiving, answering, rxM>>
-----------------------------------------------------------------------------
(* The slave's event handler and its sketch *)

\* The loop of onReceiveService stores k of n bytes: the index is compared
\* with availableForStore(), which shrinks with every byte stored.
Stored(n, space, k) ==
  /\ k \in 0 .. n
  /\ \A i \in 0 .. k - 1 : i < space - i
  /\ k < n => k >= space - k

\* message is what the master wrote into temp_rx_buff; user_onReceive is told
\* its length.  What the callback reads, it reads as ReadSlave does.
OnReceiveService(message) ==
  /\ \E k \in 0 .. Len(message) :
       /\ Stored(Len(message), Buf - Len(rxS), k)
       /\ rxS' = rxS \o First(message, k)
  /\ UNCHANGED got

\* A stopped or interrupted transfer without an event: nothing is served.
NotServed == UNCHANGED receiving

\* Mutant of OnRequestService: the callback runs after the copy.
OnRequestServiceLate(quantity) ==
  \E j \in 0 .. Least(Buf - Len(txS), MaxAnswered - answered),
     writable \in {Buf, Buf - clocked} :
    LET n == Least(writable, Len(txS))
    IN  /\ answered' = answered + j
        /\ txS' = SubSeq(txS, n + 1, Len(txS)) \o Run(answered, answered + j)
        /\ temp_tx_buff' = First(txS, n) \o SubSeq(temp_tx_buff, n + 1, Buf)
        /\ clocked' = quantity

\* user_onRequest writes j bytes; those the read buffer is said to have room
\* for are copied over its beginning, and the master clocks quantity out.
OnRequestService(quantity) ==
  \E j \in 0 .. Least(Buf - Len(txS), MaxAnswered - answered),
     writable \in {Buf, Buf - clocked} :
    LET full == txS \o Run(answered, answered + j)
        n == Least(writable, Len(full))
    IN  /\ answered' = answered + j
        /\ txS' = SubSeq(full, n + 1, Len(full))
        /\ temp_tx_buff' = First(full, n) \o SubSeq(temp_tx_buff, n + 1, Buf)
        /\ clocked' = quantity

\* Mutant of ReadSlave: the newest byte is read first.
ReadSlaveNewest ==
  /\ rxS # <<>>
  /\ got' = rxS[Len(rxS)] /\ rxS' = SubSeq(rxS, 1, Len(rxS) - 1)
  /\ UNCHANGED <<blocks, writing, outcome, answering, rxM>>

\* read() of the slave's sketch, in the callback or in loop().
ReadSlave ==
  /\ rxS # <<>>
  /\ got' = Head(rxS) /\ rxS' = Tail(rxS)
  /\ UNCHANGED <<blocks, writing, outcome, answering, rxM>>
-----------------------------------------------------------------------------
(* The master's sketch writes *)

BeginTransmission(address) ==
  /\ target' = address /\ txM' = <<>>
  /\ base' = written
  /\ UNCHANGED <<blocks, written, outcome, receiving, answering, rxM>>

\* write() of a full buffer returns 0 and changes nothing.
Write ==
  /\ Len(txM) < Buf /\ written < MaxWritten
  /\ written' = written + 1
  /\ txM' = Append(txM, written')
  /\ UNCHANGED <<blocks, target, base, outcome, receiving, answering, rxM>>

Answers == hwS = "on" /\ target = SlaveAddress

\* Mutant of EndTransmission: any error of the bus is reported as success.
EndTransmissionBlind ==
  /\ hwM # "free"
  /\ txM' = <<>> /\ base' = written /\ outcome' = 0
  /\ \/ Answers /\ OnReceiveService(txM)
     \/ /\ Answers
        /\ \/ \E k \in 0 .. Len(txM) : OnReceiveService(First(txM, k))
           \/ NotServed
     \/ ~Answers /\ NotServed
  /\ UNCHANGED <<blocks, target, written, answering, rxM>>

\* txBuffer is emptied, whatever becomes of the transfer: done (0), no device
\* (2), or stopped by a timeout (5) or another error (4) after some bytes.
\* Bound: no transfer is asked of a block that was never initialised or was
\* freed, for which the call has no registers to go to.
EndTransmission ==
  /\ hwM # "free"
  /\ txM' = <<>> /\ base' = written
  /\ \/ Answers /\ outcome' = 0 /\ OnReceiveService(txM)
     \/ /\ Answers /\ outcome' \in {4, 5}
        /\ \/ \E k \in 0 .. Len(txM) : OnReceiveService(First(txM, k))
           \/ NotServed
     \/ ~Answers /\ outcome' \in {2, 4, 5} /\ NotServed
  /\ UNCHANGED <<blocks, target, written, answering, rxM>>
-----------------------------------------------------------------------------
(* The master's sketch requests.  The address is that of the call. *)

Quantity(quantity) == Least(quantity, Buf)

\* The bytes are appended to what rxBuffer still holds; store_char drops the
\* bytes it has no room for.
RequestFrom(quantity) ==
  /\ hwM # "free"
  /\ \/ /\ hwS = "on"
        /\ OnRequestService(Quantity(quantity))
        /\ rxM' = rxM \o First(temp_tx_buff', Least(Quantity(quantity), Buf - Len(rxM)))
        /\ outcome' = Quantity(quantity)
     \/ \* no device, a timeout or an error, after k bytes
        /\ outcome' = 0
        /\ UNCHANGED rxM
        /\ \/ hwS = "on" /\ \E k \in 0 .. Quantity(quantity) : OnRequestService(k)
           \/ UNCHANGED answering
  /\ UNCHANGED <<blocks, writing, receiving>>

ReadMaster ==
  /\ rxM # <<>>
  /\ rxM' = Tail(rxM)
  /\ UNCHANGED <<blocks, writing, outcome, receiving, answering>>
-----------------------------------------------------------------------------
Next ==
  \/ BeginMaster \/ EndMaster \/ BeginSlave \/ EndSlave
  \/ ReadSlave \/ Write \/ EndTransmission \/ ReadMaster
  \/ \E address \in Addresses : BeginTransmission(address)
  \/ \E quantity \in Quantities : RequestFrom(quantity)

Spec == Init /\ [][Next]_vars
-----------------------------------------------------------------------------
TypeOK ==
  /\ hwM \in BeginOutcome /\ hwS \in BeginOutcome
  /\ target \in Addresses
  /\ txM \in Seq(1 .. MaxWritten) /\ Len(txM) <= Buf
  /\ rxS \in Seq(1 .. MaxWritten) /\ Len(rxS) <= Buf
  /\ txS \in Seq(1 .. MaxAnswered) /\ Len(txS) <= Buf
  /\ rxM \in Seq(0 .. MaxAnswered) /\ Len(rxM) <= Buf
  /\ temp_tx_buff \in [1 .. Buf -> 0 .. MaxAnswered] /\ clocked \in 0 .. Buf
  /\ written \in 0 .. MaxWritten /\ base \in 0 .. written
  /\ outcome \in 0 .. Buf \cup {2, 4, 5}
  /\ answered \in 0 .. MaxAnswered /\ got \in 0 .. MaxWritten

(* The slave's sketch reads the bytes of the master in the order they were *)
(* written and none twice, over dropped bytes, failed and repeated         *)
(* transfers, and buffers that end() does not clear: the two buffers       *)
(* implement a lossy channel.  Wire.cpp:80-107, 187-205.                   *)
Range(s) == {s[i] : i \in DOMAIN s}
Channel == INSTANCE LossyChannel
             WITH put <- written, inside <- Range(rxS) \cup Range(txM), last <- got
ChannelKept == Channel!Spec

(* When endTransmission() returns 0, the slave has stored every byte that  *)
(* write() accepted since the last begin- or endTransmission(), in order,  *)
(* if they take at most half of its room, rounded up (of more, that half), *)
(* and none that an abandoned transmission left or a full buffer refused.  *)
(* Wire.cpp:80-107, 133-140, 189-205.                                      *)
ZeroMeansSent ==
  [][EndTransmission /\ outcome' = 0 =>
       rxS' = rxS \o Run(base, base + Least(written - base, (Buf - Len(rxS) + 1) \div 2))]_vars

(* A sketch that has read everything before it requests finds as many      *)
(* bytes as requestFrom() returned, and the first of them are what the     *)
(* callback wrote for this request, unless txBuffer still held bytes or    *)
(* they are more than the read buffer is said to have room for.            *)
(* Wire.cpp:113-127, 213-234.                                              *)
AnswerIsOwn ==
  [][rxM = <<>> /\ rxM' # <<>> =>
       /\ Len(rxM') = outcome'
       /\ txS = <<>> /\ answered' - answered <= Buf - clocked =>
            \A i \in 1 .. Least(outcome', answered' - answered) :
              rxM'[i] = answered + i]_vars
=============================================================================
