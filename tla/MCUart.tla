------------------------------- MODULE MCUart -------------------------------
(* Uart with FIFOs and a buffer of two bytes; the bounds are in the cfg.   *)
EXTENDS Uart
=============================================================================
