------------------------------ MODULE MCBoard -------------------------------
(* A timer that wraps after 20 ticks, four to a millisecond.               *)
EXTENDS Board
=============================================================================
