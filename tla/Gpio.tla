-------------------------------- MODULE Gpio --------------------------------
(***************************************************************************)
(* pinMode() of cores/psoc6/digital_io.c.  The five modes differ in data   *)
(* only.  Bound: the pin is one of the board; the guard of the code lets   *)
(* GPIO_PIN_COUNT itself pass, which is one past gpio_initialized.         *)
(***************************************************************************)
EXTENDS PinManager

VARIABLE gpio_initialized

GpioInit == gpio_initialized = [p \in Pins |-> FALSE]

\* A pin that was configured before is freed first, whoever has it now; with
\* a mode that is none of the five nothing follows.  The result of
\* cyhal_gpio_init, which fails on a pin of another user, is not looked at.
pinMode(p) ==
  LET o == IF gpio_initialized[p] THEN Given({p}, "none") ELSE owner
  IN  \/ /\ owner' = IF o[p] = "none" THEN Given({p}, "gpio") ELSE o
         /\ gpio_initialized' = [gpio_initialized EXCEPT ![p] = TRUE]
      \/ /\ owner' = o
         /\ gpio_initialized' = [gpio_initialized EXCEPT ![p] = FALSE]
=============================================================================
