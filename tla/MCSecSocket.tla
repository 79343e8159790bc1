---------------------------- MODULE MCSecSocket ----------------------------
(* SecSocket on small instances.  Sockets and handles are interchangeable. *)
EXTENDS SecSocket, TLC

MCSymmetry == Permutations(Sockets) \cup Permutations(Handles)
=============================================================================
