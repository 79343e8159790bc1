------------------------------- MODULE MCTone -------------------------------
(* Tone with two pins, a duration the timer can keep and one it cannot.    *)
EXTENDS Tone
=============================================================================
