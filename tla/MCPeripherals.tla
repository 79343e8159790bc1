---------------------------- MODULE MCPeripherals ---------------------------
(***************************************************************************)
(* Three pins: two of SPI, two with interrupts, one of them both; one      *)
(* channel of the converter, two of PWM; a byte of one bit, a value beyond *)
(* it, and the resolution of the start.                                    *)
(***************************************************************************)
EXTENDS Peripherals, TLC

CONSTANTS p1, p2, p3, h1, h2, s1, s2

Symmetry == Permutations({h1, h2})
=============================================================================
