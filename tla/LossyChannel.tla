---------------------------- MODULE LossyChannel ----------------------------
(***************************************************************************)
(* What a buffered link promises its reader when it may drop bytes.  Bytes *)
(* are numbered in the order they are put in; some are lost, and those the *)
(* reader gets come in order, each at most once, and were put in before.   *)
(* One step of an implementation may put, lose and take several.           *)
(***************************************************************************)
EXTENDS Integers

VARIABLES put,    \* bytes 1 .. put have been put in
          inside, \* the set of those that may still be read
          last    \* the byte read last, 0 before the first

vars == <<put, inside, last>>

Init == put = 0 /\ inside = {} /\ last = 0

Next ==
  /\ put' \in Nat /\ put' >= put
  /\ last' \in {last} \cup inside \cup (put + 1 .. put')
  /\ inside' \subseteq inside \cup (put + 1 .. put')
  /\ last' >= last
  /\ \A b \in inside' : b > last'

Spec == Init /\ [][Next]_vars
=============================================================================
