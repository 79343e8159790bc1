---------------------------- MODULE MCWiFiServer ----------------------------
(* WiFiServer on small instances.  Socket objects are interchangeable, and *)
(* so are handles.                                                         *)
EXTENDS WiFiServer, TLC

MCSymmetry == Permutations(Objs) \cup Permutations(Handles)
=============================================================================
