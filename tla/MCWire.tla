------------------------------- MODULE MCWire -------------------------------
(* Wire with buffers of three bytes, of which a loop that stores "half" can *)
(* keep two; the bounds are in the cfg.                                    *)
EXTENDS Wire
=============================================================================
