----------------------------- MODULE PinManager -----------------------------
(***************************************************************************)
(* The hardware manager of the HAL (external), as the core relies on it:   *)
(* an object is initialised only on pins that no one holds, and freeing    *)
(* one gives its pins back without asking who holds them now.              *)
(***************************************************************************)
CONSTANT Pins

VARIABLE owner  \* who holds a pin: "none", "gpio", "adc", "pwm" or "spi"

OwnerType == [Pins -> {"none", "gpio", "adc", "pwm", "spi"}]

PinsInit == owner = [p \in Pins |-> "none"]

Unused(ps) == \A p \in ps : owner[p] = "none"

Given(ps, user) == [p \in Pins |-> IF p \in ps THEN user ELSE owner[p]]
=============================================================================
