---------------------------- MODULE Peripherals -----------------------------
(***************************************************************************)
(* One sketch that uses its pins through pinMode(), analogRead(),          *)
(* analogWrite() and SPI, in any order: each keeps tables and flags of its *)
(* own about pins that only the hardware manager of the HAL knows all of.  *)
(* The interrupts of some pins are attached and detached meanwhile.        *)
(***************************************************************************)
EXTENDS Gpio, Interrupts, Analog, Spi

VARIABLE freed  \* history: pins that pinMode() gave back while a peripheral had them

vars == <<owner, gpio_initialized, interrupts, analog, spi, freed>>

Init == PinsInit /\ GpioInit /\ InterruptsInit /\ AnalogInit /\ SpiInit /\ freed = {}

Tables == PinsOf(adc_channel) \cup PinsOf(pwm)

Peripheral == Tables \cup (IF block = "free" THEN {} ELSE SpiPins)

\* Of the calls only those about interrupts are more than one step.
Next ==
  \/ /\ attaching = Idle
     /\ \E p \in Pins : pinMode(p)
     /\ freed' = freed \cup {p \in Peripheral : gpio_initialized[p] /\ ~gpio_initialized'[p]}
     /\ UNCHANGED <<interrupts, analog, spi>>
  \/ attaching = Idle /\ AnalogNext /\ UNCHANGED <<gpio_initialized, interrupts, spi, freed>>
  \/ attaching = Idle /\ SpiNext /\ UNCHANGED <<gpio_initialized, interrupts, analog, freed>>
  \/ InterruptsNext /\ UNCHANGED <<owner, gpio_initialized, analog, spi, freed>>

Spec == Init /\ [][Next]_vars
-----------------------------------------------------------------------------
TypeOK ==
  /\ owner \in OwnerType /\ gpio_initialized \in [Pins -> BOOLEAN]
  /\ InterruptsType /\ AnalogType /\ SpiType
  /\ freed \subseteq Pins

\* No pin has two channels of a kind, and none has one of each unless pinMode()
\* gave it back in between.
ChannelsDistinct ==
  /\ \A i, j \in DOMAIN adc_channel : adc_channel[i] = adc_channel[j] => i = j
  /\ \A i, j \in DOMAIN pwm : pwm[i] = pwm[j] => i = j
  /\ PinsOf(adc_channel) \cap PinsOf(pwm) \subseteq freed

(* What a peripheral believes to hold, it holds, until the sketch calls    *)
(* pinMode() on the pin (the second such call takes it away); a pin that   *)
(* pinMode() believes to have configured is a GPIO, or was another's       *)
(* first, and every GPIO is one it knows of; and no pin has two channels,  *)
(* although pinMode() and SPI pass it around.  A pinMode() of a mode it    *)
(* does not know, the second on the pin of a peripheral, breaks this, and  *)
(* for that pin only.                                                      *)
(* digital_io.c:33-77, analog_io.c:73-98, 133-146, SPI.cpp:25-40.          *)
PinsHeld ==
  /\ ChannelsDistinct
  /\ \A p \in Pins : owner[p] = "gpio" => gpio_initialized[p] = TRUE
  /\ \A p \in Pins \ freed :
       \/ /\ gpio_initialized[p] = FALSE
          /\ p \in PinsOf(adc_channel) <=> owner[p] = "adc"
          /\ p \in PinsOf(pwm) <=> owner[p] = "pwm"
          /\ p \in SpiPins /\ block # "free" <=> owner[p] = "spi"
       \/ /\ gpio_initialized[p] = TRUE
          /\ owner[p] = "gpio" \/ p \in Tables \cup SpiPins

(* A pin that was configured with pinMode() is no longer available to      *)
(* other peripherals (docs/arduino-deviations.rst:9), except that a        *)
(* pinMode() of a mode it does not know and SPI, which once had the pin,   *)
(* give it back.  digital_io.c:33-77, SPI.cpp:33-40.                       *)
GpioStays ==
  [][\A p \in Pins : owner[p] = "gpio" =>
       \/ owner'[p] = "gpio"
       \/ owner'[p] = "none" /\ gpio_initialized'[p] = FALSE
       \/ p \in SpiPins /\ _is_initialized]_vars
=============================================================================
