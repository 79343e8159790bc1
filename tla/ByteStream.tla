----------------------------- MODULE ByteStream -----------------------------
(***************************************************************************)
(* What a receiving socket promises its reader.  The bytes of a stream are *)
(* numbered in the order they arrive; the reader is given the next byte    *)
(* not yet given or discarded, never one twice, and never one out of order.*)
(***************************************************************************)
EXTENDS Integers

VARIABLES arrived,   \* bytes 1 .. arrived have come in
          taken,     \* bytes 1 .. taken were given to the reader or discarded
          last       \* the byte given last, 0 before the first

vars == <<arrived, taken, last>>

Init == arrived = 0 /\ taken = 0 /\ last = 0

Arrive == arrived' = arrived + 1 /\ UNCHANGED <<taken, last>>

Give ==
  /\ taken < arrived
  /\ taken' = taken + 1
  /\ last' = taken + 1
  /\ UNCHANGED arrived

Discard ==
  /\ taken' \in taken .. arrived
  /\ UNCHANGED <<arrived, last>>

Next == Arrive \/ Give \/ Discard

Spec == Init /\ [][Next]_vars
=============================================================================
