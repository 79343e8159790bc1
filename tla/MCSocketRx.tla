----------------------------- MODULE MCSocketRx -----------------------------
(* SocketRx on a small buffer; every bound is set in the cfg.              *)
EXTENDS SocketRx
=============================================================================
