----------------------------- MODULE Wire_proof -----------------------------
(***************************************************************************)
(* Proofs about Wire, for all lengths of the buffers and all bounds.  The  *)
(* invariant is that the master's buffer holds exactly the bytes written   *)
(* since the last begin- or endTransmission(), and that the slave's holds  *)
(* earlier ones, later than the byte read last, in their order (Order).    *)
(***************************************************************************)
EXTENDS Wire, TLAPS

Order ==
  /\ Len(txM) = written - base
  /\ \A i \in 1 .. Len(txM) : txM[i] = base + i
  /\ \A i \in 1 .. Len(rxS) : got < rxS[i] /\ rxS[i] <= base
  /\ \A i, j \in 1 .. Len(rxS) : i < j => rxS[i] < rxS[j]
  /\ got <= base

WriteType ==
  /\ hwM \in BeginOutcome /\ hwS \in BeginOutcome /\ target \in Addresses
  /\ txM \in Seq(1 .. MaxWritten) /\ Len(txM) <= Buf
  /\ rxS \in Seq(1 .. MaxWritten) /\ Len(rxS) <= Buf
  /\ written \in 0 .. MaxWritten /\ base \in 0 .. written
  /\ got \in 0 .. MaxWritten /\ outcome \in 0 .. Buf \cup {2, 4, 5}

AnswerType ==
  /\ txS \in Seq(1 .. MaxAnswered) /\ Len(txS) <= Buf
  /\ rxM \in Seq(0 .. MaxAnswered) /\ Len(rxM) <= Buf
  /\ temp_tx_buff \in [1 .. Buf -> 0 .. MaxAnswered] /\ clocked \in 0 .. Buf
  /\ answered \in 0 .. MaxAnswered

IInv == WriteType /\ AnswerType /\ Order

LEMMA Sizes ==
  Buf \in Nat \ {0} /\ MaxWritten \in Nat /\ MaxAnswered \in Nat /\ Quantities \subseteq Nat \ {0}
BY WireAssumption

LEMMA TypeParts == TypeOK <=> WriteType /\ AnswerType
BY DEF TypeOK, WriteType, AnswerType
-----------------------------------------------------------------------------
(* Sequences and the operators on them.                                    *)
LEMMA Joined ==
  ASSUME NEW S, NEW s \in Seq(S), NEW t \in Seq(S)
  PROVE  /\ s \o t \in Seq(S) /\ Len(s \o t) = Len(s) + Len(t)
         /\ \A i \in 1 .. Len(s) : (s \o t)[i] = s[i]
         /\ \A i \in Len(s) + 1 .. Len(s) + Len(t) : (s \o t)[i] = t[i - Len(s)]
OBVIOUS

LEMMA LeastIs ==
  ASSUME NEW a \in Int, NEW b \in Int
  PROVE  /\ Least(a, b) \in {a, b} /\ Least(a, b) \in Int
         /\ Least(a, b) <= a /\ Least(a, b) <= b
BY DEF Least

LEMMA FirstIs ==
  ASSUME NEW S, NEW s \in Seq(S), NEW n \in Nat
  PROVE  /\ First(s, n) \in Seq(S) /\ Len(First(s, n)) = Least(n, Len(s))
         /\ \A i \in 1 .. Len(First(s, n)) : First(s, n)[i] = s[i]
<1>1. Least(n, Len(s)) \in 0 .. Len(s)
  BY DEF Least
<1> DEFINE k == Least(n, Len(s))
<1> HIDE DEF k
<1>2. /\ SubSeq(s, 1, k) \in Seq(S) /\ Len(SubSeq(s, 1, k)) = k
      /\ \A i \in 1 .. k : SubSeq(s, 1, k)[i] = s[i]
  BY <1>1 DEF k
<1>3. QED BY <1>2 DEF First, k

LEMMA RunIs ==
  ASSUME NEW a \in Nat, NEW n \in Nat
  PROVE  /\ Run(a, a + n) \in Seq(a + 1 .. a + n) /\ Len(Run(a, a + n)) = n
         /\ \A i \in 1 .. n : Run(a, a + n)[i] = a + i
<1>1. (a + n) - a = n
  OBVIOUS
<1>2. Run(a, a + n) = [i \in 1 .. n |-> a + i]
  BY <1>1, Zenon DEF Run
<1>3. QED BY <1>2

LEMMA RestIs ==
  ASSUME NEW S, NEW s \in Seq(S), NEW n \in 0 .. Len(s)
  PROVE  /\ SubSeq(s, n + 1, Len(s)) \in Seq(S)
         /\ Len(SubSeq(s, n + 1, Len(s))) = Len(s) - n
OBVIOUS

LEMMA Behead ==
  ASSUME NEW S, NEW s \in Seq(S), s # <<>>
  PROVE  /\ Len(s) \in Nat \ {0} /\ Head(s) = s[1] /\ s[1] \in S
         /\ Tail(s) \in Seq(S) /\ Len(Tail(s)) = Len(s) - 1
         /\ \A i \in 1 .. Len(s) - 1 : Tail(s)[i] = s[i + 1]
OBVIOUS

LEMMA Appended ==
  ASSUME NEW S, NEW s \in Seq(S), NEW e \in S
  PROVE  /\ Append(s, e) \in Seq(S) /\ Len(Append(s, e)) = Len(s) + 1
         /\ \A i \in 1 .. Len(s) : Append(s, e)[i] = s[i]
         /\ Append(s, e)[Len(s) + 1] = e
OBVIOUS

LEMMA NoneLeft ==
  /\ \A S : <<>> \in Seq(S)
  /\ Len(<<>>) = 0
OBVIOUS

LEMMA SameSequence ==
  ASSUME NEW S, NEW s \in Seq(S), NEW T, NEW t \in Seq(T), Len(s) = Len(t),
         \A i \in 1 .. Len(s) : s[i] = t[i]
  PROVE  s = t
OBVIOUS

\* Sequences and functions over the indices of a buffer.
LEMMA AsSequence ==
  ASSUME NEW S, NEW m \in Nat, NEW f \in [1 .. m -> S]
  PROVE  f \in Seq(S) /\ Len(f) = m
OBVIOUS

LEMMA AsFunction ==
  ASSUME NEW S, NEW s \in Seq(S)
  PROVE  s \in [1 .. Len(s) -> S]
OBVIOUS

LEMMA Wider ==
  ASSUME NEW S, NEW T, S \subseteq T, NEW s \in Seq(S)
  PROVE  s \in Seq(T)
<1>1. s \in [1 .. Len(s) -> T] /\ Len(s) \in Nat
  OBVIOUS
<1>2. QED BY <1>1, AsSequence

\* How many bytes the loop of onReceiveService stores.
LEMMA StoredIs ==
  ASSUME NEW n \in Nat, NEW space \in Nat, NEW k \in 0 .. n, Stored(n, space, k)
  PROVE  k <= space /\ k = Least(n, (space + 1) \div 2)
<1>1. k > 0 => 2 * k <= space + 1
  <2> SUFFICES ASSUME k > 0 PROVE 2 * k <= space + 1
    OBVIOUS
  <2>1. k - 1 < space - (k - 1)
    BY DEF Stored
  <2>2. QED BY <2>1
<1>2. k <= space
  BY <1>1
<1>3. k < n => k >= space - k
  BY DEF Stored
<1>4. k <= (space + 1) \div 2
  BY <1>1
<1>5. k < n => k >= (space + 1) \div 2
  <2>1. k < n => 2 * k >= space
    BY <1>3
  <2>2. QED BY <2>1
<1>6. QED BY <1>2, <1>4, <1>5 DEF Least
-----------------------------------------------------------------------------
(* What a step does not touch.                                             *)
LEMMA WriteSame ==
  ASSUME WriteType, Order, hwM' \in BeginOutcome, hwS' \in BeginOutcome,
         outcome' \in 0 .. Buf \cup {2, 4, 5},
         UNCHANGED <<writing, receiving>>
  PROVE  WriteType' /\ Order'
BY DEF WriteType, Order, writing, receiving

LEMMA AnswerSame ==
  ASSUME AnswerType, UNCHANGED <<answering, rxM>>
  PROVE  AnswerType'
BY DEF AnswerType, answering

LEMMA BeginEndStep ==
  ASSUME IInv, BeginMaster \/ EndMaster \/ BeginSlave \/ EndSlave
  PROVE  IInv'
<1> USE DEF IInv
<1>1. /\ hwM' \in BeginOutcome /\ hwS' \in BeginOutcome
      /\ UNCHANGED <<writing, receiving>> /\ outcome' = outcome /\ outcome \in 0 .. Buf \cup {2, 4, 5}
  BY DEF BeginMaster, EndMaster, BeginSlave, EndSlave, BeginOutcome, WriteType
<1>2. WriteType' /\ Order'
  BY <1>1, WriteSame
<1>3. CASE BeginSlave
  <2>1. clocked' \in {0, clocked} /\ UNCHANGED <<txS, temp_tx_buff, answered, rxM>>
    BY <1>3 DEF BeginSlave
  <2>2. QED BY <1>2, <2>1, Sizes DEF AnswerType
<1>4. CASE BeginMaster \/ EndMaster \/ EndSlave
  BY <1>2, <1>4, AnswerSame DEF BeginMaster, EndMaster, EndSlave
<1>5. QED BY <1>3, <1>4

LEMMA ReadSlaveStep ==
  ASSUME IInv, ReadSlave
  PROVE  IInv'
<1> USE DEF IInv
<1>1. /\ Len(rxS) \in Nat \ {0} /\ got' = rxS[1] /\ rxS[1] \in 1 .. MaxWritten
      /\ rxS' \in Seq(1 .. MaxWritten) /\ Len(rxS') = Len(rxS) - 1
      /\ \A i \in 1 .. Len(rxS) - 1 : rxS'[i] = rxS[i + 1]
  BY Behead DEF ReadSlave, WriteType
<1>2. UNCHANGED <<hwM, hwS, target, txM, written, base, outcome>>
  BY DEF ReadSlave, blocks, writing
<1>3. WriteType'
  BY <1>1, <1>2, Sizes DEF WriteType
<1>4. Order'
  <2>1. /\ \A i \in 1 .. Len(rxS) : rxS[i] \in Nat
        /\ got \in Nat /\ base \in Nat /\ written \in Nat
    BY Sizes DEF WriteType
  <2>2. \A i \in 1 .. Len(rxS') : i + 1 \in 1 .. Len(rxS) /\ 1 \in 1 .. Len(rxS) /\ 1 < i + 1
    BY <1>1
  <2>3. \A i \in 1 .. Len(rxS') : got' < rxS'[i] /\ rxS'[i] <= base'
    BY <1>1, <1>2, <2>1, <2>2 DEF Order
  <2>4. \A i, j \in 1 .. Len(rxS') : i < j => rxS'[i] < rxS'[j]
    BY <1>1, <2>2 DEF Order
  <2>5. got' <= base'
    BY <1>1, <1>2 DEF Order
  <2>6. QED BY <1>2, <2>3, <2>4, <2>5 DEF Order
<1>5. QED BY <1>3, <1>4, AnswerSame DEF ReadSlave

LEMMA BeginTransmissionStep ==
  ASSUME IInv, NEW address \in Addresses, BeginTransmission(address)
  PROVE  IInv'
<1> USE DEF IInv
<1>1. /\ target' = address /\ base' = written /\ Len(txM') = 0 /\ txM' \in Seq(1 .. MaxWritten)
      /\ UNCHANGED <<hwM, hwS, written, outcome, rxS, got>>
  BY NoneLeft DEF BeginTransmission, blocks, receiving
<1>2. WriteType'
  BY <1>1, Sizes DEF WriteType
<1>3. Order'
  <2>1. base \in Nat /\ written \in Nat /\ base <= written /\ got \in Nat /\ Len(rxS) \in Nat
        /\ \A i \in 1 .. Len(rxS) : rxS[i] \in Nat
    BY Sizes DEF WriteType
  <2>2. QED BY <1>1, <2>1 DEF Order
<1>4. QED BY <1>2, <1>3, AnswerSame DEF BeginTransmission

LEMMA WriteStep ==
  ASSUME IInv, Write
  PROVE  IInv'
<1> USE DEF IInv
<1>1. /\ Len(txM) < Buf /\ written < MaxWritten /\ written' = written + 1
      /\ UNCHANGED <<hwM, hwS, target, base, outcome, rxS, got>>
  BY DEF Write, blocks, receiving
<1>2. written + 1 \in 1 .. MaxWritten /\ base \in 0 .. written + 1 /\ Len(txM) \in Nat
  BY <1>1, Sizes DEF WriteType
<1>3. /\ txM' \in Seq(1 .. MaxWritten) /\ Len(txM') = Len(txM) + 1
      /\ \A i \in 1 .. Len(txM) : txM'[i] = txM[i]
      /\ txM'[Len(txM) + 1] = written + 1
  BY <1>1, <1>2, Appended DEF Write, WriteType
<1>4. WriteType'
  BY <1>1, <1>2, <1>3, Sizes DEF WriteType
<1>5. Order'
  <2>1. Len(txM') = written' - base'
    BY <1>1, <1>3, Sizes DEF WriteType, Order
  <2>2. \A i \in 1 .. Len(txM') : txM'[i] = base' + i
    <3>1. written + 1 = base + (Len(txM) + 1)
      BY Sizes DEF WriteType, Order
    <3>2. \A i \in 1 .. Len(txM') : i \in 1 .. Len(txM) \/ i = Len(txM) + 1
      BY <1>2, <1>3
    <3>3. QED BY <1>1, <1>3, <3>1, <3>2 DEF Order
  <2>3. QED BY <1>1, <2>1, <2>2 DEF Order
<1>6. QED BY <1>4, <1>5, AnswerSame DEF Write

\* The slave stores the beginning of what the master has buffered.
LEMMA StoreStep ==
  ASSUME IInv, NEW m \in Seq(1 .. MaxWritten), Len(m) <= Len(txM),
         \A i \in 1 .. Len(m) : m[i] = base + i,
         NEW k \in 0 .. Len(m), Stored(Len(m), Buf - Len(rxS), k), rxS' = rxS \o First(m, k)
  PROVE  /\ rxS' \in Seq(1 .. MaxWritten) /\ Len(rxS') = Len(rxS) + k /\ Len(rxS') <= Buf
         /\ \A i \in 1 .. Len(rxS) : rxS'[i] = rxS[i]
         /\ \A i \in Len(rxS) + 1 .. Len(rxS) + k : rxS'[i] = base + (i - Len(rxS))
<1> USE DEF IInv
<1>1. /\ Len(rxS) \in Nat /\ Buf - Len(rxS) \in Nat /\ rxS \in Seq(1 .. MaxWritten)
      /\ k \in Nat /\ Len(m) \in Nat /\ k <= Len(m)
  BY Sizes DEF WriteType
<1>2. k <= Buf - Len(rxS)
  BY <1>1, StoredIs
<1> DEFINE f == First(m, k)
<1>3. f \in Seq(1 .. MaxWritten) /\ Len(f) = k /\ \A i \in 1 .. k : f[i] = base + i
  <2>1. /\ f \in Seq(1 .. MaxWritten) /\ Len(f) = Least(k, Len(m))
        /\ \A i \in 1 .. Len(f) : f[i] = m[i]
    BY <1>1, FirstIs
  <2> HIDE DEF f
  <2>2. Len(f) = k
    BY <1>1, <2>1 DEF Least
  <2>3. QED BY <1>1, <2>1, <2>2
<1> HIDE DEF f
<1>4. /\ rxS' \in Seq(1 .. MaxWritten) /\ Len(rxS') = Len(rxS) + Len(f)
      /\ \A i \in 1 .. Len(rxS) : rxS'[i] = rxS[i]
      /\ \A i \in Len(rxS) + 1 .. Len(rxS) + Len(f) : rxS'[i] = f[i - Len(rxS)]
  BY <1>1, <1>3, Joined DEF f
<1>5. \A i \in Len(rxS) + 1 .. Len(rxS) + k : i - Len(rxS) \in 1 .. k
  BY <1>1
<1>6. Len(rxS') = Len(rxS) + k /\ Len(rxS') <= Buf
  BY <1>1, <1>2, <1>3, <1>4, Sizes
<1>7. \A i \in Len(rxS) + 1 .. Len(rxS) + k : rxS'[i] = base + (i - Len(rxS))
  BY <1>3, <1>4, <1>5
<1>8. QED BY <1>4, <1>6, <1>7

LEMMA EndTransmissionStep ==
  ASSUME IInv, EndTransmission
  PROVE  IInv'
<1> USE DEF IInv
<1>1. /\ Len(txM') = 0 /\ txM' \in Seq(1 .. MaxWritten) /\ base' = written
      /\ outcome' \in {0, 2, 4, 5}
      /\ UNCHANGED <<hwM, hwS, target, written>> /\ AnswerType' /\ got' = got
  BY NoneLeft, AnswerSame DEF EndTransmission, blocks, OnReceiveService, NotServed, receiving
<1>2. /\ base \in Nat /\ written \in Nat /\ base <= written /\ got \in Nat
      /\ Len(rxS) \in Nat /\ Len(txM) \in Nat /\ txM \in Seq(1 .. MaxWritten)
      /\ \A i \in 1 .. Len(rxS) : rxS[i] \in Nat
  BY Sizes DEF WriteType
<1>3. CASE rxS' = rxS
  <2>1. WriteType'
    BY <1>1, <1>3, Sizes DEF WriteType
  <2>2. Order'
    BY <1>1, <1>2, <1>3 DEF Order
  <2>3. QED BY <1>1, <2>1, <2>2
<1>4. ASSUME NEW m \in Seq(1 .. MaxWritten), Len(m) <= Len(txM),
             \A i \in 1 .. Len(m) : m[i] = base + i, OnReceiveService(m)
      PROVE  IInv'
  <2>1. PICK k \in 0 .. Len(m) :
          Stored(Len(m), Buf - Len(rxS), k) /\ rxS' = rxS \o First(m, k)
    BY <1>4 DEF OnReceiveService
  <2>2. /\ rxS' \in Seq(1 .. MaxWritten) /\ Len(rxS') = Len(rxS) + k /\ Len(rxS') <= Buf
        /\ \A i \in 1 .. Len(rxS) : rxS'[i] = rxS[i]
        /\ \A i \in Len(rxS) + 1 .. Len(rxS) + k : rxS'[i] = base + (i - Len(rxS))
    BY <1>4, <2>1, StoreStep
  <2>3. k \in Nat /\ base + k <= written
    BY <1>2, <1>4, <2>1 DEF Order
  <2>4. WriteType'
    BY <1>1, <2>2, Sizes DEF WriteType
  <2>5. \A i \in 1 .. Len(rxS') :
          \/ i \in 1 .. Len(rxS) /\ rxS'[i] = rxS[i]
          \/ i \in Len(rxS) + 1 .. Len(rxS) + k /\ rxS'[i] = base + (i - Len(rxS))
    BY <1>2, <2>2, <2>3
  <2>6. \A i \in 1 .. Len(rxS') : got < rxS'[i] /\ rxS'[i] <= written
    <3>1. \A i \in 1 .. Len(rxS) : got < rxS[i] /\ rxS[i] <= written
      BY <1>2 DEF Order
    <3>2. \A i \in Len(rxS) + 1 .. Len(rxS) + k :
            got < base + (i - Len(rxS)) /\ base + (i - Len(rxS)) <= written
      BY <1>2, <2>3 DEF Order
    <3>3. QED BY <2>5, <3>1, <3>2
  <2>7. ASSUME NEW i \in 1 .. Len(rxS'), NEW j \in 1 .. Len(rxS'), i < j
        PROVE  rxS'[i] < rxS'[j]
    <3>1. CASE i \in 1 .. Len(rxS) /\ j \in 1 .. Len(rxS)
      BY <2>2, <2>7, <3>1 DEF Order
    <3>2. CASE i \in 1 .. Len(rxS) /\ j \in Len(rxS) + 1 .. Len(rxS) + k
      <4>1. rxS'[i] = rxS[i] /\ rxS[i] \in Nat /\ rxS[i] <= base
        BY <1>2, <2>2, <3>2 DEF Order
      <4>2. rxS'[j] = base + (j - Len(rxS)) /\ j - Len(rxS) \in Nat \ {0}
        BY <1>2, <2>2, <2>3, <3>2
      <4>3. QED BY <1>2, <4>1, <4>2
    <3>3. CASE i \in Len(rxS) + 1 .. Len(rxS) + k /\ j \in Len(rxS) + 1 .. Len(rxS) + k
      BY <1>2, <2>2, <2>7, <3>3
    <3>4. CASE i \in Len(rxS) + 1 .. Len(rxS) + k /\ j \in 1 .. Len(rxS)
      BY <1>2, <2>7, <3>4
    <3>5. QED BY <2>5, <3>1, <3>2, <3>3, <3>4
  <2>8. got <= written
    BY <1>2 DEF Order
  <2>9. Len(txM') = written' - base' /\ \A i \in 1 .. Len(txM') : txM'[i] = base' + i
    BY <1>1, <1>2
  <2>10. Order'
    BY <1>1, <2>6, <2>7, <2>8, <2>9 DEF Order
  <2>11. QED BY <1>1, <2>4, <2>10
<1>5. CASE OnReceiveService(txM)
  <2>1. \A i \in 1 .. Len(txM) : txM[i] = base + i
    BY DEF Order
  <2>2. Len(txM) <= Len(txM)
    BY <1>2
  <2>3. QED BY <1>2, <1>4, <1>5, <2>1, <2>2
<1>6. ASSUME NEW k \in 0 .. Len(txM), OnReceiveService(First(txM, k))
      PROVE  IInv'
  <2> DEFINE m == First(txM, k)
  <2>1. /\ m \in Seq(1 .. MaxWritten) /\ Len(m) = Least(k, Len(txM))
        /\ \A i \in 1 .. Len(m) : m[i] = txM[i]
    BY <1>2, FirstIs
  <2>2. OnReceiveService(m)
    BY <1>6
  <2> HIDE DEF m
  <2>3. Len(m) <= Len(txM) /\ \A i \in 1 .. Len(m) : m[i] = base + i
    <3>1. Len(m) <= Len(txM) /\ Len(m) \in Nat
      BY <1>2, <2>1 DEF Least
    <3>2. \A i \in 1 .. Len(m) : i \in 1 .. Len(txM)
      BY <1>2, <3>1
    <3>3. QED BY <2>1, <3>1, <3>2 DEF Order
  <2>4. QED BY <1>4, <2>1, <2>2, <2>3
<1>7. QED BY <1>3, <1>5, <1>6 DEF EndTransmission, NotServed, receiving

\* What the slave's block holds after it was asked for bytes.
LEMMA AnswerStep ==
  ASSUME IInv, NEW q \in 0 .. Buf, OnRequestService(q)
  PROVE  /\ txS' \in Seq(1 .. MaxAnswered) /\ Len(txS') <= Buf
         /\ temp_tx_buff' \in Seq(0 .. MaxAnswered) /\ Len(temp_tx_buff') = Buf
         /\ temp_tx_buff' \in [1 .. Buf -> 0 .. MaxAnswered]
         /\ clocked' = q /\ answered' \in answered .. MaxAnswered
         /\ txS = <<>> /\ answered' - answered <= Buf - clocked =>
              \A i \in 1 .. answered' - answered : temp_tx_buff'[i] = answered + i
<1> USE DEF IInv
<1>1. /\ txS \in Seq(1 .. MaxAnswered) /\ Len(txS) \in Nat /\ Len(txS) <= Buf
      /\ answered \in Nat /\ answered <= MaxAnswered /\ clocked \in 0 .. Buf
      /\ temp_tx_buff \in Seq(0 .. MaxAnswered) /\ Len(temp_tx_buff) = Buf
  <2>1. temp_tx_buff \in [1 .. Buf -> 0 .. MaxAnswered] /\ Buf \in Nat
    BY Sizes DEF AnswerType
  <2>2. temp_tx_buff \in Seq(0 .. MaxAnswered) /\ Len(temp_tx_buff) = Buf
    BY <2>1, AsSequence
  <2>3. QED BY <2>2, Sizes DEF AnswerType
<1>2. PICK j \in 0 .. Least(Buf - Len(txS), MaxAnswered - answered),
           writable \in {Buf, Buf - clocked} :
        LET full == txS \o Run(answered, answered + j)
            n == Least(writable, Len(full))
        IN  /\ answered' = answered + j
            /\ txS' = SubSeq(full, n + 1, Len(full))
            /\ temp_tx_buff' = First(full, n) \o SubSeq(temp_tx_buff, n + 1, Buf)
            /\ clocked' = q
  BY DEF OnRequestService
<1> DEFINE run == Run(answered, answered + j)
           full == txS \o run
           n == Least(writable, Len(full))
           tail == SubSeq(temp_tx_buff, n + 1, Buf)
<1>3. /\ j \in Nat /\ j <= Buf - Len(txS) /\ j <= MaxAnswered - answered
      /\ writable \in 0 .. Buf
  <2>1. Buf - Len(txS) \in Int /\ MaxAnswered - answered \in Int
    BY <1>1, Sizes
  <2>2. j \in Nat /\ j <= Buf - Len(txS) /\ j <= MaxAnswered - answered
    <3> DEFINE room == Least(Buf - Len(txS), MaxAnswered - answered)
    <3>1. room \in Int /\ room <= Buf - Len(txS) /\ room <= MaxAnswered - answered
      BY <2>1, LeastIs
    <3>2. j \in 0 .. room
      OBVIOUS
    <3> HIDE DEF room
    <3>3. QED BY <2>1, <3>1, <3>2
  <2>3. QED BY <1>1, <2>2, Sizes
<1>4. run \in Seq(1 .. MaxAnswered) /\ Len(run) = j /\ \A i \in 1 .. j : run[i] = answered + i
  <2>1. /\ run \in Seq(answered + 1 .. answered + j) /\ Len(run) = j
        /\ \A i \in 1 .. j : run[i] = answered + i
    BY <1>1, <1>3, RunIs
  <2> HIDE DEF run
  <2>2. (answered + 1 .. answered + j) \subseteq 1 .. MaxAnswered
    BY <1>1, <1>3, Sizes
  <2>3. QED BY <2>1, <2>2, Wider
<1> HIDE DEF run
<1>5. /\ full \in Seq(1 .. MaxAnswered) /\ Len(full) = Len(txS) + j
      /\ Len(txS) = 0 => \A i \in 1 .. j : full[i] = answered + i
  <2>1. /\ full \in Seq(1 .. MaxAnswered) /\ Len(full) = Len(txS) + Len(run)
        /\ \A i \in Len(txS) + 1 .. Len(txS) + Len(run) : full[i] = run[i - Len(txS)]
    BY <1>1, <1>4, Joined
  <2> HIDE DEF full
  <2>2. Len(txS) = 0 => \A i \in 1 .. j : full[i] = run[i]
    BY <1>3, <1>4, <2>1
  <2>3. QED BY <1>4, <2>1, <2>2
<1> HIDE DEF full
<1>6. n \in 0 .. Buf /\ n \in 0 .. Len(full) /\ n \in {writable, Len(full)}
  BY <1>1, <1>3, <1>5, Sizes DEF Least
<1> HIDE DEF n
<1>7. txS' \in Seq(1 .. MaxAnswered) /\ Len(txS') <= Buf
  <2>1. SubSeq(full, n + 1, Len(full)) \in Seq(1 .. MaxAnswered)
        /\ Len(SubSeq(full, n + 1, Len(full))) = Len(full) - n
    BY <1>5, <1>6, RestIs
  <2>2. Len(full) - n <= Buf
    BY <1>1, <1>3, <1>5, <1>6, Sizes
  <2>3. QED BY <1>2, <2>1, <2>2 DEF full, run, n
<1>8. tail \in Seq(0 .. MaxAnswered) /\ Len(tail) = Buf - n
  BY <1>1, <1>6, RestIs
<1> HIDE DEF tail
<1>9. /\ First(full, n) \in Seq(0 .. MaxAnswered) /\ Len(First(full, n)) = n
      /\ \A i \in 1 .. n : First(full, n)[i] = full[i]
  <2>1. /\ First(full, n) \in Seq(1 .. MaxAnswered)
        /\ Len(First(full, n)) = Least(n, Len(full))
        /\ \A i \in 1 .. Len(First(full, n)) : First(full, n)[i] = full[i]
    BY <1>5, <1>6, FirstIs
  <2>2. Least(n, Len(full)) = n
    BY <1>6 DEF Least
  <2>3. First(full, n) \in Seq(0 .. MaxAnswered)
    <3>1. 1 .. MaxAnswered \subseteq 0 .. MaxAnswered
      OBVIOUS
    <3>2. QED BY <2>1, <3>1, Wider
  <2>4. QED BY <2>1, <2>2, <2>3
<1>10. /\ temp_tx_buff' \in Seq(0 .. MaxAnswered) /\ Len(temp_tx_buff') = Buf
       /\ \A i \in 1 .. n : temp_tx_buff'[i] = full[i]
  <2>1. temp_tx_buff' = First(full, n) \o tail
    BY <1>2 DEF full, run, n, tail
  <2>2. /\ First(full, n) \o tail \in Seq(0 .. MaxAnswered)
        /\ Len(First(full, n) \o tail) = n + (Buf - n)
        /\ \A i \in 1 .. n : (First(full, n) \o tail)[i] = First(full, n)[i]
    <3> DEFINE f == First(full, n)
    <3>1. f \in Seq(0 .. MaxAnswered) /\ Len(f) = n
      BY <1>9
    <3> HIDE DEF f
    <3>2. f \o tail \in Seq(0 .. MaxAnswered) /\ Len(f \o tail) = Len(f) + Len(tail)
          /\ \A i \in 1 .. Len(f) : (f \o tail)[i] = f[i]
      BY <1>8, <3>1, Joined
    <3>3. QED BY <1>8, <3>1, <3>2 DEF f
  <2>3. n + (Buf - n) = Buf
    BY <1>6, Sizes
  <2>4. QED BY <1>9, <2>1, <2>2, <2>3
<1>11. temp_tx_buff' \in [1 .. Buf -> 0 .. MaxAnswered]
  BY <1>10, AsFunction
<1>12. clocked' = q /\ answered' = answered + j /\ answered' \in answered .. MaxAnswered
  <2>1. clocked' = q /\ answered' = answered + j
    BY <1>2
  <2>2. QED BY <1>1, <1>3, <2>1, Sizes
<1>13. ASSUME txS = <<>>, answered' - answered <= Buf - clocked
       PROVE  \A i \in 1 .. answered' - answered : temp_tx_buff'[i] = answered + i
  <2>1. Len(txS) = 0 /\ answered' - answered = j
    BY <1>1, <1>3, <1>12, <1>13, NoneLeft
  <2>2. n = j
    BY <1>1, <1>3, <1>5, <1>13, <2>1, Sizes DEF n, Least
  <2>3. QED BY <1>5, <1>10, <2>1, <2>2
<1>14. QED BY <1>7, <1>10, <1>11, <1>12, <1>13

LEMMA RequestFromStep ==
  ASSUME IInv, NEW quantity \in Quantities, RequestFrom(quantity)
  PROVE  IInv'
<1> USE DEF IInv
<1>1. UNCHANGED <<hwM, hwS, writing, receiving>>
  BY DEF RequestFrom, blocks
<1>2. Quantity(quantity) \in 0 .. Buf /\ Quantity(quantity) \in Nat
  BY Sizes DEF Quantity, Least
<1>3. /\ rxM \in Seq(0 .. MaxAnswered) /\ Len(rxM) \in Nat /\ Len(rxM) <= Buf
      /\ answered \in Nat
  BY Sizes DEF AnswerType
<1>4. CASE /\ OnRequestService(Quantity(quantity))
           /\ rxM' = rxM \o First(temp_tx_buff', Least(Quantity(quantity), Buf - Len(rxM)))
           /\ outcome' = Quantity(quantity)
  <2> DEFINE k == Least(Quantity(quantity), Buf - Len(rxM))
             f == First(temp_tx_buff', k)
  <2>1. /\ temp_tx_buff' \in Seq(0 .. MaxAnswered) /\ txS' \in Seq(1 .. MaxAnswered)
        /\ Len(txS') <= Buf /\ temp_tx_buff' \in [1 .. Buf -> 0 .. MaxAnswered]
        /\ clocked' \in 0 .. Buf /\ answered' \in answered .. MaxAnswered
    BY <1>2, <1>4, AnswerStep
  <2>2. k \in Nat /\ k <= Buf - Len(rxM)
    BY <1>2, <1>3, Sizes DEF Least
  <2> HIDE DEF k
  <2>3. f \in Seq(0 .. MaxAnswered) /\ Len(f) <= k /\ Len(f) \in Nat
    <3>1. f \in Seq(0 .. MaxAnswered) /\ Len(f) = Least(k, Len(temp_tx_buff'))
      BY <2>1, <2>2, FirstIs
    <3>2. Len(temp_tx_buff') \in Nat
      BY <2>1
    <3>3. QED BY <2>2, <3>1, <3>2 DEF Least
  <2> HIDE DEF f
  <2>4. rxM' \in Seq(0 .. MaxAnswered) /\ Len(rxM') = Len(rxM) + Len(f)
    BY <1>3, <1>4, <2>3, Joined DEF f, k
  <2>5. Len(rxM') <= Buf
    BY <1>3, <2>2, <2>3, <2>4, Sizes
  <2>6. AnswerType'
    <3>1. answered' \in 0 .. MaxAnswered
      BY <1>3, <2>1
    <3>2. QED BY <2>1, <2>4, <2>5, <3>1 DEF AnswerType
  <2>7. WriteType' /\ Order'
    BY <1>1, <1>2, <1>4, WriteSame DEF WriteType
  <2>8. QED BY <2>6, <2>7
<1>5. CASE outcome' = 0 /\ UNCHANGED rxM /\ UNCHANGED answering
  <2>1. WriteType' /\ Order'
    BY <1>1, <1>5, WriteSame, Sizes DEF WriteType
  <2>2. QED BY <1>5, <2>1, AnswerSame
<1>6. ASSUME outcome' = 0, UNCHANGED rxM, NEW k \in 0 .. Quantity(quantity), OnRequestService(k)
      PROVE  IInv'
  <2>1. k \in 0 .. Buf
    BY <1>2, Sizes
  <2>2. /\ txS' \in Seq(1 .. MaxAnswered)
        /\ Len(txS') <= Buf /\ temp_tx_buff' \in [1 .. Buf -> 0 .. MaxAnswered]
        /\ clocked' = k /\ answered' \in answered .. MaxAnswered
    BY <1>6, <2>1, AnswerStep
  <2>3. AnswerType'
    <3>1. answered' \in 0 .. MaxAnswered
      BY <1>3, <2>2
    <3>2. QED BY <1>6, <2>1, <2>2, <3>1 DEF AnswerType
  <2>4. WriteType' /\ Order'
    BY <1>1, <1>6, WriteSame, Sizes DEF WriteType
  <2>5. QED BY <2>3, <2>4
<1>7. QED BY <1>4, <1>5, <1>6 DEF RequestFrom

LEMMA ReadMasterStep ==
  ASSUME IInv, ReadMaster
  PROVE  IInv'
<1> USE DEF IInv
<1>1. rxM' \in Seq(0 .. MaxAnswered) /\ Len(rxM') = Len(rxM) - 1 /\ Len(rxM) \in Nat
  BY Behead DEF ReadMaster, AnswerType
<1>2. UNCHANGED <<txS, temp_tx_buff, clocked, answered>>
  BY DEF ReadMaster, answering
<1>3. AnswerType'
  BY <1>1, <1>2, Sizes DEF AnswerType
<1>4. WriteType' /\ Order'
  BY WriteSame DEF ReadMaster, blocks, WriteType
<1>5. QED BY <1>3, <1>4
-----------------------------------------------------------------------------
LEMMA InitIInv == Init => IInv
<1> SUFFICES ASSUME Init PROVE IInv
  OBVIOUS
<1>1. /\ txM = <<>> /\ rxM = <<>> /\ txS = <<>> /\ rxS = <<>>
      /\ temp_tx_buff = [i \in 1 .. Buf |-> 0] /\ clocked = 0
      /\ written = 0 /\ base = 0 /\ outcome = 0 /\ answered = 0 /\ got = 0
      /\ hwM = "free" /\ hwS = "free" /\ target = SlaveAddress
  BY DEF Init
<1>2. WriteType
  BY <1>1, NoneLeft, WireAssumption, Sizes DEF WriteType, BeginOutcome
<1>3. AnswerType
  <2>1. temp_tx_buff \in [1 .. Buf -> 0 .. MaxAnswered]
    BY <1>1, Sizes
  <2>2. QED BY <1>1, <2>1, NoneLeft, Sizes DEF AnswerType
<1>4. Order
  BY <1>1, NoneLeft DEF Order
<1>5. QED BY <1>2, <1>3, <1>4 DEF IInv

LEMMA NextIInv == IInv /\ [Next]_vars => IInv'
<1> SUFFICES ASSUME IInv, [Next]_vars PROVE IInv'
  OBVIOUS
<1>1. CASE UNCHANGED vars
  BY <1>1, WriteSame, AnswerSame DEF vars, writing, receiving, answering, IInv, WriteType
<1>2. CASE Next
  BY <1>2, BeginEndStep, ReadSlaveStep, BeginTransmissionStep, WriteStep, EndTransmissionStep,
     RequestFromStep, ReadMasterStep DEF Next
<1>3. QED BY <1>1, <1>2

LEMMA Invariance == Spec => []IInv
BY InitIInv, NextIInv, PTL DEF Spec

(* No buffer of either board is ever filled beyond its length, although    *)
(* the loop of onReceiveService does not ask for the room it has.          *)
(* Wire.cpp:80-127, 187-234.                                               *)
THEOREM TypeCorrect == Spec => []TypeOK
<1>1. IInv => TypeOK
  BY TypeParts DEF IInv
<1>2. QED BY <1>1, Invariance, PTL
-----------------------------------------------------------------------------
(* The refinement.                                                         *)
Members == Range(rxS) \cup Range(txM)

LEMMA MembersAre ==
  ASSUME IInv
  PROVE  /\ Range(rxS) = {rxS[i] : i \in 1 .. Len(rxS)}
         /\ Range(txM) = {txM[i] : i \in 1 .. Len(txM)}
         /\ Len(rxS) \in Nat /\ Len(txM) \in Nat
         /\ \A i \in 1 .. Len(rxS) : rxS[i] \in Nat
         /\ got \in Nat /\ base \in Nat /\ written \in Nat
BY Sizes DEF IInv, WriteType, Range

LEMMA Later ==
  ASSUME NEW r \in Seq(Nat), NEW t \in Seq(Nat), NEW g \in Nat, NEW b \in Nat, g <= b,
         \A i \in 1 .. Len(r) : g < r[i],
         \A i \in 1 .. Len(t) : t[i] = b + i
  PROVE  \A x \in Range(r) \cup Range(t) : x > g
<1>1. Range(r) = {r[i] : i \in 1 .. Len(r)} /\ Range(t) = {t[i] : i \in 1 .. Len(t)}
  BY DEF Range
<1>2. \A i \in 1 .. Len(t) : t[i] > g
  OBVIOUS
<1>3. \A i \in 1 .. Len(r) : r[i] > g /\ r[i] \in Nat
  OBVIOUS
<1>4. QED BY <1>1, <1>2, <1>3

\* What is to be shown of a step.
LEMMA ChannelStep ==
  ASSUME IInv, IInv', written' >= written, got' >= got,
         got' \in {got} \cup Members \cup (written + 1 .. written'),
         Members' \subseteq Members \cup (written + 1 .. written')
  PROVE  Channel!Next
<1>1. \A b \in Members' : b > got'
  <2>1. rxS' \in Seq(Nat) /\ txM' \in Seq(Nat)
    <3>1. rxS' \in Seq(1 .. MaxWritten) /\ txM' \in Seq(1 .. MaxWritten)
      BY DEF IInv, WriteType
    <3>2. 1 .. MaxWritten \subseteq Nat
      OBVIOUS
    <3>3. QED BY <3>1, <3>2, Wider
  <2>2. got' \in Nat /\ base' \in Nat
    BY Sizes DEF IInv, WriteType
  <2>3. /\ \A i \in 1 .. Len(rxS') : got' < rxS'[i]
        /\ \A i \in 1 .. Len(txM') : txM'[i] = base' + i
        /\ got' <= base'
    BY DEF IInv, Order
  <2>4. QED BY <2>1, <2>2, <2>3, Later DEF Members
<1>2. written' \in Nat
  BY Sizes DEF IInv, WriteType
<1>3. QED BY <1>1, <1>2 DEF Channel!Next, Members

LEMMA ChannelSame ==
  ASSUME IInv, IInv', Members' \subseteq Members, got' = got, written' = written
  PROVE  Channel!Next
<1>1. written' >= written /\ got' >= got
  BY MembersAre
<1>2. QED BY <1>1, ChannelStep

\* What the slave has stored after an endTransmission().
LEMMA EndTransmissionStores ==
  ASSUME IInv, EndTransmission
  PROVE  \E k \in 0 .. Len(txM) :
           /\ rxS' \in Seq(1 .. MaxWritten) /\ Len(rxS') = Len(rxS) + k
           /\ \A i \in 1 .. Len(rxS) : rxS'[i] = rxS[i]
           /\ \A i \in Len(rxS) + 1 .. Len(rxS) + k : rxS'[i] = base + (i - Len(rxS))
           /\ outcome' = 0 => k = Least(Len(txM), (Buf - Len(rxS) + 1) \div 2)
<1> USE DEF IInv
<1>1. /\ Len(rxS) \in Nat /\ Len(txM) \in Nat /\ rxS \in Seq(1 .. MaxWritten)
      /\ txM \in Seq(1 .. MaxWritten) /\ Buf - Len(rxS) \in Nat
      /\ \A i \in 1 .. Len(txM) : txM[i] = base + i
  BY Sizes DEF WriteType, Order
<1>2. CASE outcome' # 0 /\ rxS' = rxS
  <2>1. 0 \in 0 .. Len(txM) /\ Len(rxS) + 0 = Len(rxS)
        /\ Len(rxS) + 1 .. Len(rxS) + 0 = {}
    BY <1>1
  <2>2. QED BY <1>1, <1>2, <2>1
<1>3. ASSUME NEW m \in Seq(1 .. MaxWritten), Len(m) <= Len(txM),
             \A i \in 1 .. Len(m) : m[i] = base + i, OnReceiveService(m),
             outcome' = 0 => m = txM
      PROVE  \E k \in 0 .. Len(txM) :
               /\ rxS' \in Seq(1 .. MaxWritten) /\ Len(rxS') = Len(rxS) + k
               /\ \A i \in 1 .. Len(rxS) : rxS'[i] = rxS[i]
               /\ \A i \in Len(rxS) + 1 .. Len(rxS) + k : rxS'[i] = base + (i - Len(rxS))
               /\ outcome' = 0 => k = Least(Len(txM), (Buf - Len(rxS) + 1) \div 2)
  <2>1. PICK k \in 0 .. Len(m) :
          Stored(Len(m), Buf - Len(rxS), k) /\ rxS' = rxS \o First(m, k)
    BY <1>3 DEF OnReceiveService
  <2>2. /\ rxS' \in Seq(1 .. MaxWritten) /\ Len(rxS') = Len(rxS) + k
        /\ \A i \in 1 .. Len(rxS) : rxS'[i] = rxS[i]
        /\ \A i \in Len(rxS) + 1 .. Len(rxS) + k : rxS'[i] = base + (i - Len(rxS))
    BY <1>3, <2>1, StoreStep
  <2>3. k = Least(Len(m), (Buf - Len(rxS) + 1) \div 2)
    BY <1>1, <2>1, StoredIs
  <2>4. k \in 0 .. Len(txM)
    BY <1>1, <1>3, <2>1
  <2>5. QED BY <1>3, <2>2, <2>3, <2>4, Zenon
<1>4. CASE OnReceiveService(txM)
  <2>1. Len(txM) <= Len(txM)
    BY <1>1
  <2>2. QED BY <1>1, <1>3, <1>4, <2>1
<1>5. ASSUME NEW k \in 0 .. Len(txM), OnReceiveService(First(txM, k)), outcome' # 0
      PROVE  \E n \in 0 .. Len(txM) :
               /\ rxS' \in Seq(1 .. MaxWritten) /\ Len(rxS') = Len(rxS) + n
               /\ \A i \in 1 .. Len(rxS) : rxS'[i] = rxS[i]
               /\ \A i \in Len(rxS) + 1 .. Len(rxS) + n : rxS'[i] = base + (i - Len(rxS))
               /\ outcome' = 0 => n = Least(Len(txM), (Buf - Len(rxS) + 1) \div 2)
  <2> DEFINE m == First(txM, k)
  <2>1. /\ m \in Seq(1 .. MaxWritten) /\ Len(m) = Least(k, Len(txM))
        /\ \A i \in 1 .. Len(m) : m[i] = txM[i]
    BY <1>1, FirstIs
  <2>2. OnReceiveService(m)
    BY <1>5
  <2> HIDE DEF m
  <2>3. Len(m) <= Len(txM) /\ \A i \in 1 .. Len(m) : m[i] = base + i
    <3>1. Len(m) <= Len(txM) /\ Len(m) \in Nat
      BY <1>1, <2>1 DEF Least
    <3>2. \A i \in 1 .. Len(m) : i \in 1 .. Len(txM)
      BY <1>1, <3>1
    <3>3. QED BY <1>1, <2>1, <3>2
  <2>4. QED BY <1>3, <1>5, <2>1, <2>2, <2>3
<1>6. QED BY <1>2, <1>4, <1>5 DEF EndTransmission, NotServed, receiving

LEMMA NextChannel == IInv /\ IInv' /\ [Next]_vars => [Channel!Next]_Channel!vars
<1> SUFFICES ASSUME IInv, IInv', [Next]_vars PROVE [Channel!Next]_Channel!vars
  OBVIOUS
<1>1. CASE ReadSlave
  <2>1. /\ Len(rxS) \in Nat \ {0} /\ got' = rxS[1]
        /\ rxS' \in Seq(1 .. MaxWritten) /\ Len(rxS') = Len(rxS) - 1
        /\ \A i \in 1 .. Len(rxS) - 1 : rxS'[i] = rxS[i + 1]
    BY <1>1, Behead DEF ReadSlave, IInv, WriteType
  <2>2. written' = written /\ txM' = txM
    BY <1>1 DEF ReadSlave, writing
  <2>3. 1 \in 1 .. Len(rxS) /\ Range(rxS) = {rxS[i] : i \in 1 .. Len(rxS)}
        /\ Range(rxS') = {rxS'[i] : i \in 1 .. Len(rxS')}
    <3>1. 1 \in 1 .. Len(rxS)
      BY <2>1
    <3>2. rxS \in Seq(1 .. MaxWritten)
      BY DEF IInv, WriteType
    <3>3. Range(rxS) = {rxS[i] : i \in 1 .. Len(rxS)}
      BY <3>2 DEF Range
    <3>4. Range(rxS') = {rxS'[i] : i \in 1 .. Len(rxS')}
      BY <2>1 DEF Range
    <3>5. QED BY <3>1, <3>3, <3>4
  <2>4. got' \in Members
    BY <2>1, <2>3 DEF Members
  <2>5. got' >= got /\ written' >= written
    <3>1. got < rxS[1]
      BY <2>3 DEF IInv, Order
    <3>2. QED BY <2>1, <2>2, <2>3, <3>1, MembersAre
  <2>6. Range(rxS') \subseteq Range(rxS)
    <3>1. \A i \in 1 .. Len(rxS') : i + 1 \in 1 .. Len(rxS) /\ rxS'[i] = rxS[i + 1]
      BY <2>1
    <3>2. QED BY <2>3, <3>1
  <2>7. Members' \subseteq Members
    BY <2>2, <2>6 DEF Members
  <2>8. QED BY <2>4, <2>5, <2>7, ChannelStep
<1>2. CASE Write
  <2>1. /\ written' = written + 1 /\ got' = got /\ rxS' = rxS
        /\ txM' = Append(txM, written + 1)
    BY <1>2 DEF Write, receiving
  <2>2. txM \in Seq(Nat) /\ written + 1 \in Nat
    <3>1. txM \in Seq(1 .. MaxWritten)
      BY DEF IInv, WriteType
    <3>2. 1 .. MaxWritten \subseteq Nat
      OBVIOUS
    <3>3. txM \in Seq(Nat)
      BY <3>1, <3>2, Wider
    <3>4. written + 1 \in Nat
      BY MembersAre
    <3>5. QED BY <3>3, <3>4
  <2>3. /\ Len(txM) \in Nat /\ txM' \in Seq(Nat) /\ Len(txM') = Len(txM) + 1
        /\ \A i \in 1 .. Len(txM) : txM'[i] = txM[i]
        /\ txM'[Len(txM) + 1] = written + 1
    BY <2>1, <2>2, Appended
  <2>4. Range(txM') \subseteq Range(txM) \cup {written + 1}
    <3>1. \A i \in 1 .. Len(txM') : i \in 1 .. Len(txM) \/ i = Len(txM) + 1
      BY <2>3
    <3>2. Range(txM') = {txM'[i] : i \in 1 .. Len(txM')}
      BY <2>3 DEF Range
    <3>3. QED BY <2>3, <3>1, <3>2, MembersAre
  <2>5. written + 1 \in written + 1 .. written' /\ written' >= written /\ got' >= got
    BY <2>1, MembersAre
  <2>6. Members' \subseteq Members \cup (written + 1 .. written')
    BY <2>1, <2>4, <2>5 DEF Members, Range
  <2>7. QED BY <2>1, <2>5, <2>6, ChannelStep
<1>3. CASE EndTransmission
  <2>1. written' = written /\ got' = got /\ txM' = <<>>
    BY <1>3 DEF EndTransmission, OnReceiveService, NotServed, receiving
  <2>2. PICK k \in 0 .. Len(txM) :
          /\ rxS' \in Seq(1 .. MaxWritten) /\ Len(rxS') = Len(rxS) + k
          /\ \A i \in 1 .. Len(rxS) : rxS'[i] = rxS[i]
          /\ \A i \in Len(rxS) + 1 .. Len(rxS) + k : rxS'[i] = base + (i - Len(rxS))
    BY <1>3, EndTransmissionStores
  <2>3. \A i \in 1 .. Len(rxS') :
          \/ i \in 1 .. Len(rxS) /\ rxS'[i] = rxS[i]
          \/ i - Len(rxS) \in 1 .. Len(txM) /\ rxS'[i] = txM[i - Len(rxS)]
    <3>1. \A i \in 1 .. Len(rxS') : \/ i \in 1 .. Len(rxS)
                                    \/ /\ i \in Len(rxS) + 1 .. Len(rxS) + k
                                       /\ i - Len(rxS) \in 1 .. Len(txM)
      BY <2>2, MembersAre
    <3>2. \A i \in 1 .. Len(txM) : txM[i] = base + i
      BY DEF IInv, Order
    <3>3. QED BY <2>2, <3>1, <3>2
  <2>4. Range(rxS') \subseteq Members
    <3>1. Range(rxS') = {rxS'[i] : i \in 1 .. Len(rxS')}
      BY <2>2 DEF Range
    <3>2. QED BY <2>3, <3>1, MembersAre DEF Members
  <2>5. Range(txM') = {}
    BY <2>1 DEF Range
  <2>6. Members' \subseteq Members
    BY <2>4, <2>5 DEF Members
  <2>7. QED BY <2>1, <2>6, ChannelSame
<1>4. ASSUME NEW address \in Addresses, BeginTransmission(address)
      PROVE  Channel!Next
  <2>1. written' = written /\ got' = got /\ txM' = <<>> /\ rxS' = rxS
    BY <1>4 DEF BeginTransmission, receiving
  <2>2. Range(txM') = {} /\ Range(rxS') = Range(rxS)
    BY <2>1 DEF Range
  <2>3. Members' \subseteq Members
    BY <2>2 DEF Members
  <2>4. QED BY <2>1, <2>3, ChannelSame
<1>5. ASSUME UNCHANGED <<writing, receiving>>
      PROVE  Channel!Next
  <2>1. written' = written /\ got' = got /\ txM' = txM /\ rxS' = rxS
    BY <1>5 DEF writing, receiving
  <2>2. Members' \subseteq Members
    BY <2>1 DEF Members, Range
  <2>3. QED BY <2>1, <2>2, ChannelSame
<1>6. CASE \/ UNCHANGED vars \/ BeginMaster \/ EndMaster \/ BeginSlave \/ EndSlave \/ ReadMaster
  BY <1>5, <1>6 DEF vars, writing, receiving, BeginMaster, EndMaster, BeginSlave, EndSlave,
     ReadMaster
<1>7. ASSUME NEW quantity \in Quantities, RequestFrom(quantity)
      PROVE  Channel!Next
  BY <1>5, <1>7 DEF RequestFrom
<1>8. QED BY <1>1, <1>2, <1>3, <1>4, <1>6, <1>7 DEF Next

(* The slave's sketch reads what the master's wrote, in order and none     *)
(* twice: the buffers of the two boards implement the lossy channel.       *)
(* Wire.cpp:80-107, 187-205.                                               *)
THEOREM ChannelIsKept == Spec => ChannelKept
<1>1. Init => Channel!Init
  <2> SUFFICES ASSUME Init PROVE Channel!Init
    OBVIOUS
  <2>1. Range(rxS) = {} /\ Range(txM) = {} /\ written = 0 /\ got = 0
    BY DEF Init, Range
  <2>2. QED BY <2>1 DEF Channel!Init
<1>2. QED BY <1>1, Invariance, NextChannel, PTL DEF Spec, ChannelKept, Channel!Spec

(* An endTransmission() that returns 0 has the slave store what was        *)
(* written, or as much of it as the half of the slave's room.              *)
(* Wire.cpp:80-107, 133-140, 189-205.                                      *)
THEOREM ZeroIsSent == Spec => ZeroMeansSent
<1> DEFINE Sent == EndTransmission /\ outcome' = 0 =>
      rxS' = rxS \o Run(base, base + Least(written - base, (Buf - Len(rxS) + 1) \div 2))
<1>1. ASSUME IInv, EndTransmission, outcome' = 0
      PROVE  rxS' = rxS \o Run(base, base + Least(written - base, (Buf - Len(rxS) + 1) \div 2))
  <2>1. PICK k \in 0 .. Len(txM) :
          /\ rxS' \in Seq(1 .. MaxWritten) /\ Len(rxS') = Len(rxS) + k
          /\ \A i \in 1 .. Len(rxS) : rxS'[i] = rxS[i]
          /\ \A i \in Len(rxS) + 1 .. Len(rxS) + k : rxS'[i] = base + (i - Len(rxS))
          /\ k = Least(Len(txM), (Buf - Len(rxS) + 1) \div 2)
    BY <1>1, EndTransmissionStores
  <2>2. k \in Nat /\ Len(rxS) \in Nat /\ base \in Nat /\ Len(txM) = written - base
    BY <1>1, MembersAre DEF IInv, Order
  <2> DEFINE run == Run(base, base + k)
  <2>3. run \in Seq(Nat) /\ Len(run) = k /\ \A i \in 1 .. k : run[i] = base + i
    <3>1. /\ run \in Seq(base + 1 .. base + k) /\ Len(run) = k
          /\ \A i \in 1 .. k : run[i] = base + i
      BY <2>2, RunIs
    <3> HIDE DEF run
    <3>2. (base + 1 .. base + k) \subseteq Nat
      BY <2>2
    <3>3. QED BY <3>1, <3>2, Wider
  <2> HIDE DEF run
  <2>4. rxS \in Seq(Nat)
    <3>1. rxS \in Seq(1 .. MaxWritten) /\ 1 .. MaxWritten \subseteq Nat
      BY <1>1 DEF IInv, WriteType
    <3>2. QED BY <3>1, Wider
  <2> DEFINE all == rxS \o run
  <2>5. /\ all \in Seq(Nat) /\ Len(all) = Len(rxS) + k
        /\ \A i \in 1 .. Len(rxS) : all[i] = rxS[i]
        /\ \A i \in Len(rxS) + 1 .. Len(rxS) + k : all[i] = run[i - Len(rxS)]
    BY <2>3, <2>4, Joined
  <2> HIDE DEF all
  <2>6. \A i \in Len(rxS) + 1 .. Len(rxS) + k : all[i] = base + (i - Len(rxS))
    <3>1. \A i \in Len(rxS) + 1 .. Len(rxS) + k : i - Len(rxS) \in 1 .. k
      BY <2>2
    <3>2. QED BY <2>3, <2>5, <3>1
  <2>7. \A i \in 1 .. Len(rxS') : rxS'[i] = all[i]
    <3>1. \A i \in 1 .. Len(rxS') : i \in 1 .. Len(rxS) \/ i \in Len(rxS) + 1 .. Len(rxS) + k
      BY <2>1, <2>2
    <3>2. QED BY <2>1, <2>5, <2>6, <3>1
  <2>8. rxS' = all
    BY <2>1, <2>5, <2>7, SameSequence
  <2>9. QED BY <2>1, <2>2, <2>8 DEF all, run
<1>2. IInv /\ [Next]_vars => [Sent]_vars
  BY <1>1
<1>3. QED BY <1>2, Invariance, PTL DEF Spec, ZeroMeansSent

(* What was read from an empty rxBuffer is what requestFrom() returned,    *)
(* and its beginning is the answer to this request.                        *)
(* Wire.cpp:113-127, 213-234.                                              *)
THEOREM AnswersAreOwn == Spec => AnswerIsOwn
<1> DEFINE Own == rxM = <<>> /\ rxM' # <<>> =>
      /\ Len(rxM') = outcome'
      /\ txS = <<>> /\ answered' - answered <= Buf - clocked =>
           \A i \in 1 .. Least(outcome', answered' - answered) : rxM'[i] = answered + i
<1>1. ASSUME IInv, [Next]_vars, rxM = <<>>, rxM' # <<>>
      PROVE  /\ Len(rxM') = outcome'
             /\ txS = <<>> /\ answered' - answered <= Buf - clocked =>
                  \A i \in 1 .. Least(outcome', answered' - answered) : rxM'[i] = answered + i
  <2>1. PICK quantity \in Quantities : RequestFrom(quantity)
    BY <1>1 DEF Next, vars, BeginMaster, EndMaster, BeginSlave, EndSlave, ReadSlave, Write,
       EndTransmission, BeginTransmission, ReadMaster
  <2> DEFINE q == Quantity(quantity)
  <2>2. q \in 0 .. Buf /\ q \in Nat
    BY Sizes DEF Quantity, Least
  <2>3. /\ OnRequestService(q) /\ outcome' = q
        /\ rxM' = rxM \o First(temp_tx_buff', Least(q, Buf - Len(rxM)))
    BY <1>1, <2>1 DEF RequestFrom
  <2> HIDE DEF q
  <2>4. /\ temp_tx_buff' \in Seq(0 .. MaxAnswered) /\ Len(temp_tx_buff') = Buf
        /\ answered' \in answered .. MaxAnswered
        /\ txS = <<>> /\ answered' - answered <= Buf - clocked =>
             \A i \in 1 .. answered' - answered : temp_tx_buff'[i] = answered + i
    BY <1>1, <2>2, <2>3, AnswerStep
  <2> DEFINE f == First(temp_tx_buff', q)
  <2>5. f \in Seq(0 .. MaxAnswered) /\ Len(f) = q /\ \A i \in 1 .. q : f[i] = temp_tx_buff'[i]
    <3>1. /\ f \in Seq(0 .. MaxAnswered) /\ Len(f) = Least(q, Buf)
          /\ \A i \in 1 .. Len(f) : f[i] = temp_tx_buff'[i]
      BY <2>2, <2>4, FirstIs
    <3>2. Least(q, Buf) = q
      BY <2>2, Sizes DEF Least
    <3>3. QED BY <3>1, <3>2
  <2>6. rxM' = <<>> \o f
    <3>1. Least(q, Buf - Len(rxM)) = q
      BY <1>1, <2>2, NoneLeft, Sizes DEF Least
    <3>2. QED BY <1>1, <2>3, <3>1
  <2> HIDE DEF f
  <2>7. rxM' = f
    BY <2>5, <2>6
  <2>8. ASSUME txS = <<>>, answered' - answered <= Buf - clocked,
               NEW i \in 1 .. Least(outcome', answered' - answered)
        PROVE  rxM'[i] = answered + i
    <3>1. answered \in Nat /\ answered' - answered \in Int
      BY <1>1, <2>4, Sizes DEF IInv, AnswerType
    <3>2. i \in 1 .. q /\ i \in 1 .. answered' - answered
      BY <2>2, <2>3, <3>1 DEF Least
    <3>3. QED BY <2>4, <2>5, <2>7, <2>8, <3>2
  <2>9. QED BY <2>3, <2>5, <2>7, <2>8
<1>2. IInv /\ [Next]_vars => [Own]_vars
  BY <1>1
<1>3. QED BY <1>2, Invariance, PTL DEF Spec, AnswerIsOwn
=============================================================================
