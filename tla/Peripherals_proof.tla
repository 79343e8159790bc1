------------------------- MODULE Peripherals_proof -------------------------
(***************************************************************************)
(* Proofs about Peripherals, for all sets of pins and sizes of the tables. *)
(* PinsHeld and ChannelsDistinct are not inductive: what keeps a second    *)
(* user away from a pin is that a pin in a table is never without an       *)
(* owner.  The operations that take owners away without asking are the end *)
(* of SPI, which finds none of these pins (Kept), and pinMode() with a     *)
(* mode it does not know, whose pins are set apart as freed.               *)
(***************************************************************************)
EXTENDS Peripherals, TLAPS

Types ==
  /\ owner \in OwnerType /\ gpio_initialized \in [Pins -> BOOLEAN]
  /\ AnalogType /\ SpiType
  /\ freed \subseteq Pins

Kept ==
  \A p \in Pins \ freed :
    /\ p \in Tables => owner[p] \in {"adc", "pwm", "gpio"}
    /\ p \in SpiPins /\ _is_initialized = TRUE =>
         owner[p] \in {"spi", "gpio"} /\ p \notin Tables

IInv == Types /\ SettingsApplied /\ PinsHeld /\ Kept

\* What the sketch's call of attachInterrupt() or detachInterrupt() has done.
Attaching ==
  /\ attaching.do \in {"register", "enable"} =>
       /\ attaching.pin = latest
       /\ attached[latest] \in Handlers /\ callback = attached[latest]
  /\ attaching.do = "enable" => attaching.pin \in registered
  /\ attaching.do = "unregister" => attaching.pin \notin events

EInv == InterruptsType /\ EdgeRunsOwn /\ Attaching
-----------------------------------------------------------------------------
(* The operators of the tables and of the hardware manager.                *)
LEMMA PinsOfAppend ==
  ASSUME NEW table \in Seq(Pins), NEW p \in Pins
  PROVE  /\ Append(table, p) \in Seq(Pins)
         /\ Len(Append(table, p)) = Len(table) + 1
         /\ PinsOf(Append(table, p)) = PinsOf(table) \cup {p}
<1> DEFINE t == Append(table, p)
<1>1. /\ t \in Seq(Pins) /\ Len(t) = Len(table) + 1
      /\ DOMAIN t = 1 .. Len(table) + 1 /\ DOMAIN table = 1 .. Len(table)
      /\ t[Len(table) + 1] = p
      /\ \A i \in 1 .. Len(table) : t[i] = table[i]
  OBVIOUS
<1>2. PinsOf(t) \subseteq PinsOf(table) \cup {p}
  BY <1>1 DEF PinsOf
<1>3. PinsOf(table) \cup {p} \subseteq PinsOf(t)
  BY <1>1 DEF PinsOf
<1>4. QED BY <1>1, <1>2, <1>3

\* A pin that is not in a table may be appended to it.
LEMMA AppendDistinct ==
  ASSUME NEW table \in Seq(Pins), NEW p \in Pins, p \notin PinsOf(table),
         \A i, j \in DOMAIN table : table[i] = table[j] => i = j
  PROVE  LET t == Append(table, p)
         IN  \A i, j \in DOMAIN t : t[i] = t[j] => i = j
<1> DEFINE t == Append(table, p)
<1>1. /\ DOMAIN t = 1 .. Len(table) + 1 /\ DOMAIN table = 1 .. Len(table)
      /\ t[Len(table) + 1] = p
      /\ \A i \in 1 .. Len(table) : t[i] = table[i]
  OBVIOUS
<1>2. \A i \in 1 .. Len(table) : t[i] # p
  BY <1>1 DEF PinsOf
<1>3. QED BY <1>1, <1>2

LEMMA PinsOfSubset ==
  ASSUME NEW table \in Seq(Pins)
  PROVE  PinsOf(table) \subseteq Pins
BY DEF PinsOf

LEMMA GivenType ==
  ASSUME Types, NEW ps \in SUBSET Pins, NEW user \in {"none", "gpio", "adc", "pwm", "spi"}
  PROVE  /\ Given(ps, user) \in OwnerType
         /\ \A p \in Pins : Given(ps, user)[p] = IF p \in ps THEN user ELSE owner[p]
BY DEF Given, Types, OwnerType

LEMMA DutyOfType ==
  ASSUME Types, NEW v \in Values
  PROVE  DutyOf(v) \in 0 .. Byte - 1
<1>1. v % Byte \in 0 .. Byte - 1
  BY AnalogAssumption
<1>2. desiredWriteResolution \in Nat
  BY AnalogAssumption DEF Types, AnalogType
<1>3. QED BY <1>1, <1>2, AnalogAssumption DEF DutyOf, Least
-----------------------------------------------------------------------------
(* One operation after the other.                                          *)
LEMMA PinModeStep ==
  ASSUME IInv, NEW p \in Pins, pinMode(p),
         freed' = freed \cup {q \in Peripheral : gpio_initialized[q] /\ ~gpio_initialized'[q]},
         UNCHANGED <<analog, spi>>
  PROVE  IInv'
<1> USE DEF IInv
<1>1. UNCHANGED <<adc_channel, pwm, block, _is_initialized, _settings>>
      /\ PinsOf(adc_channel)' = PinsOf(adc_channel) /\ PinsOf(pwm)' = PinsOf(pwm)
      /\ Tables' = Tables
  BY DEF analog, spi, PinsOf, Tables
<1>2. Tables \subseteq Pins /\ Peripheral \subseteq Pins
  BY PinsOfSubset, SpiAssumption DEF Tables, Peripheral, Types, AnalogType
<1>3. /\ owner' \in OwnerType /\ gpio_initialized' \in [Pins -> BOOLEAN]
      /\ \A q \in Pins \ {p} : owner'[q] = owner[q]
                              /\ gpio_initialized'[q] = gpio_initialized[q]
      /\ \/ gpio_initialized'[p] = TRUE /\ owner'[p] = "gpio"
         \/ /\ gpio_initialized'[p] = TRUE /\ gpio_initialized[p] = FALSE
            /\ owner'[p] = owner[p] /\ owner[p] # "none"
         \/ /\ gpio_initialized'[p] = FALSE /\ gpio_initialized[p] = TRUE
            /\ owner'[p] = "none"
         \/ /\ gpio_initialized'[p] = FALSE /\ gpio_initialized[p] = FALSE
            /\ owner'[p] = owner[p]
  <2> DEFINE o == IF gpio_initialized[p] THEN Given({p}, "none") ELSE owner
  <2>1. /\ o \in OwnerType /\ \A q \in Pins \ {p} : o[q] = owner[q]
        /\ gpio_initialized[p] = TRUE => o[p] = "none"
        /\ gpio_initialized[p] = FALSE => o = owner
    BY GivenType DEF Types
  <2>2. /\ gpio_initialized[p] \in BOOLEAN
        /\ Given({p}, "gpio") \in OwnerType /\ Given({p}, "gpio")[p] = "gpio"
        /\ \A q \in Pins \ {p} : Given({p}, "gpio")[q] = owner[q]
    BY GivenType DEF Types
  <2>3. CASE /\ owner' = IF o[p] = "none" THEN Given({p}, "gpio") ELSE o
             /\ gpio_initialized' = [gpio_initialized EXCEPT ![p] = TRUE]
    <3> HIDE DEF o
    <3>1. CASE o[p] = "none"
      BY <2>1, <2>2, <2>3, <3>1 DEF Types
    <3>2. CASE o[p] # "none"
      <4>1. gpio_initialized[p] = FALSE /\ o = owner
        BY <2>1, <2>2, <3>2
      <4> QED BY <2>1, <2>3, <3>2, <4>1 DEF Types
    <3> QED BY <3>1, <3>2
  <2>4. CASE /\ owner' = o
             /\ gpio_initialized' = [gpio_initialized EXCEPT ![p] = FALSE]
    <3> HIDE DEF o
    <3>1. CASE gpio_initialized[p] = TRUE
      BY <2>1, <2>4, <3>1 DEF Types
    <3>2. CASE gpio_initialized[p] = FALSE
      BY <2>1, <2>4, <3>2 DEF Types
    <3> QED BY <2>2, <3>1, <3>2
  <2> QED BY <2>3, <2>4 DEF pinMode
<1>4. freed \subseteq freed' /\ freed' \subseteq Pins
  BY <1>2 DEF Types
<1>5. p \notin freed' /\ gpio_initialized[p] = TRUE /\ gpio_initialized'[p] = FALSE =>
        p \notin Peripheral
  BY <1>4
<1>6. p \notin Peripheral => /\ p \notin PinsOf(adc_channel) /\ p \notin PinsOf(pwm)
                            /\ p \notin Tables
                            /\ ~(p \in SpiPins /\ block # "free")
                            /\ ~(p \in SpiPins /\ _is_initialized = TRUE)
  BY SpiAssumption DEF Peripheral, Tables, SettingsApplied, Types, SpiType
<1>7. Types' /\ SettingsApplied'
  BY <1>1, <1>3, <1>4 DEF Types, AnalogType, SpiType, analog, spi, SettingsApplied
<1>8. ChannelsDistinct'
  BY <1>1, <1>4 DEF PinsHeld, ChannelsDistinct
<1>9. Kept'
  BY <1>1, <1>3, <1>4, <1>5, <1>6 DEF Kept
<1>10. \A q \in Pins : owner'[q] = "gpio" => gpio_initialized'[q] = TRUE
  BY <1>3 DEF PinsHeld
<1>11. ASSUME NEW q \in Pins \ freed'
       PROVE  \/ /\ gpio_initialized'[q] = FALSE
                 /\ q \in PinsOf(adc_channel) <=> owner'[q] = "adc"
                 /\ q \in PinsOf(pwm) <=> owner'[q] = "pwm"
                 /\ q \in SpiPins /\ block # "free" <=> owner'[q] = "spi"
              \/ /\ gpio_initialized'[q] = TRUE
                 /\ owner'[q] = "gpio" \/ q \in Tables \cup SpiPins
  <2>1. CASE q # p
    BY <1>3, <1>4, <2>1 DEF PinsHeld
  <2>2. CASE q = p
    <3>1. owner[p] \in {"none", "gpio", "adc", "pwm", "spi"}
      BY DEF Types, OwnerType
    <3>2. CASE gpio_initialized'[p] = FALSE
      BY <1>3, <1>4, <1>5, <1>6, <2>2, <3>2 DEF PinsHeld
    <3>3. CASE gpio_initialized'[p] = TRUE
      BY <1>3, <1>4, <2>2, <3>1, <3>3 DEF PinsHeld, Tables
    <3> QED BY <1>3, <3>2, <3>3
  <2> QED BY <2>1, <2>2
<1>12. PinsHeld'
  BY <1>1, <1>8, <1>10, <1>11 DEF PinsHeld
<1> QED BY <1>7, <1>9, <1>12

\* A pin that no one holds has no channel and is not one of an SPI that runs.
LEMMA UnusedHasNone ==
  ASSUME IInv, NEW p \in Pins \ freed, owner[p] = "none"
  PROVE  p \notin Tables /\ ~(p \in SpiPins /\ _is_initialized = TRUE)
BY DEF IInv, Kept

\* Nothing of PinsHeld and Kept is touched.
LEMMA PinsSame ==
  ASSUME IInv,
         UNCHANGED <<owner, gpio_initialized, adc_channel, pwm, block, _is_initialized, freed>>
  PROVE  PinsHeld' /\ Kept'
<1> USE DEF IInv
<1>1. UNCHANGED owner /\ UNCHANGED gpio_initialized /\ UNCHANGED adc_channel
      /\ UNCHANGED pwm /\ UNCHANGED block /\ UNCHANGED _is_initialized /\ UNCHANGED freed
  OBVIOUS
<1>2. PinsOf(adc_channel)' = PinsOf(adc_channel) /\ PinsOf(pwm)' = PinsOf(pwm)
      /\ Tables' = Tables
  BY <1>1 DEF PinsOf, Tables
<1>3. ChannelsDistinct'
  BY <1>1, <1>2 DEF PinsHeld, ChannelsDistinct
<1>4. Kept'
  BY <1>1, <1>2 DEF Kept
<1>5. QED BY <1>1, <1>2, <1>3, <1>4 DEF PinsHeld

\* What a new entry of a table and a new owner of its pin do to the rest.
LEMMA NewChannel ==
  ASSUME IInv, NEW p \in Pins, owner[p] = "none",
         NEW user \in {"adc", "pwm"}, owner' = Given({p}, user),
         PinsOf(adc_channel') = PinsOf(adc_channel) \cup (IF user = "adc" THEN {p} ELSE {}),
         PinsOf(pwm') = PinsOf(pwm) \cup (IF user = "pwm" THEN {p} ELSE {}),
         gpio_initialized' = gpio_initialized, block' = block, freed' = freed,
         _is_initialized' = _is_initialized,
         ChannelsDistinct'
  PROVE  PinsHeld' /\ Kept'
<1> USE DEF IInv
<1>1. /\ \A q \in Pins \ {p} : owner'[q] = owner[q]
      /\ Tables' = Tables \cup {p}
      /\ owner'[p] = user
  BY GivenType DEF Tables
<1>2. p \notin freed => p \notin Tables /\ ~(p \in SpiPins /\ _is_initialized = TRUE)
  BY UnusedHasNone
<1>3. Kept'
  BY <1>1, <1>2 DEF Kept
<1>4. p \notin freed /\ p \in SpiPins /\ block # "free" => gpio_initialized[p] = TRUE
  BY DEF PinsHeld
<1>5. ASSUME NEW q \in Pins \ freed
      PROVE  \/ /\ gpio_initialized'[q] = FALSE
                /\ q \in PinsOf(adc_channel') <=> owner'[q] = "adc"
                /\ q \in PinsOf(pwm') <=> owner'[q] = "pwm"
                /\ q \in SpiPins /\ block' # "free" <=> owner'[q] = "spi"
             \/ /\ gpio_initialized'[q] = TRUE
                /\ owner'[q] = "gpio" \/ q \in Tables' \cup SpiPins
  <2>1. CASE q = p /\ gpio_initialized[p] = FALSE
    BY <1>1, <1>2, <1>4, <2>1 DEF Tables
  <2>2. CASE q = p /\ gpio_initialized[p] = TRUE
    BY <1>1, <2>2
  <2>3. CASE q # p
    BY <1>1, <2>3 DEF PinsHeld
  <2>4. QED BY <2>1, <2>2, <2>3 DEF Types
<1>6. \A q \in Pins : owner'[q] = "gpio" => gpio_initialized'[q] = TRUE
  BY <1>1 DEF PinsHeld
<1>7. PinsHeld'
  BY <1>5, <1>6 DEF PinsHeld
<1>8. QED BY <1>3, <1>7

LEMMA AnalogReadStep ==
  ASSUME IInv, NEW p \in Pins, analogRead(p), UNCHANGED <<gpio_initialized, spi, freed>>
  PROVE  IInv'
<1> USE DEF IInv
<1>1. UNCHANGED <<block, _is_initialized, _settings>> /\ SettingsApplied'
  BY DEF spi, SettingsApplied
<1>2. CASE Unused({p}) /\ owner' = Given({p}, "adc") /\ adc_channel' = Append(adc_channel, p)
             /\ adc_initialized' = TRUE
  <2>1. /\ owner[p] = "none" /\ p \notin PinsOf(adc_channel)
        /\ p \notin PinsOf(pwm) \/ p \in freed
    BY <1>2, UnusedHasNone DEF Unused, analogRead, Tables
  <2>0. adc_channel \in Seq(Pins) /\ Len(adc_channel) \in Nat /\ Len(adc_channel) < AdcHowMany
    BY DEF analogRead, Types, AnalogType
  <2>2. /\ PinsOf(adc_channel') = PinsOf(adc_channel) \cup {p}
        /\ adc_channel' \in Seq(Pins) /\ Len(adc_channel') <= AdcHowMany
    BY <1>2, <2>0, PinsOfAppend, AnalogAssumption
  <2>3. UNCHANGED <<pwm, desiredWriteResolution, duty>>
    BY DEF analogRead
  <2>4. Types'
    BY <1>1, <1>2, <2>2, <2>3, GivenType DEF Types, AnalogType, SpiType
  <2>5. ChannelsDistinct'
    <3>1. \A i, j \in DOMAIN adc_channel' : adc_channel'[i] = adc_channel'[j] => i = j
      BY <1>2, <2>1, AppendDistinct DEF Types, AnalogType, PinsHeld, ChannelsDistinct
    <3>2. QED BY <2>1, <2>2, <2>3, <3>1 DEF PinsHeld, ChannelsDistinct
  <2>6. QED BY <1>1, <1>2, <2>1, <2>2, <2>3, <2>4, <2>5, NewChannel
<1>3. CASE adc_initialized' \in {adc_initialized, TRUE} /\ UNCHANGED <<owner, adc_channel>>
  <2>1. UNCHANGED <<pwm, desiredWriteResolution, duty>>
    BY DEF analogRead
  <2>2. QED
    BY <1>1, <1>3, <2>1, PinsSame DEF Types, AnalogType, SpiType
<1>4. QED BY <1>2, <1>3 DEF analogRead

LEMMA AnalogWriteStep ==
  ASSUME IInv, NEW p \in Pins, NEW v \in Values, analogWrite(p, v),
         UNCHANGED <<gpio_initialized, spi, freed>>
  PROVE  IInv'
<1> USE DEF IInv
<1>1. UNCHANGED <<block, _is_initialized, _settings>> /\ SettingsApplied'
  BY DEF spi, SettingsApplied
<1>2. /\ UNCHANGED <<adc_initialized, adc_channel, desiredWriteResolution>>
      /\ duty' \in 0 .. Byte - 1
  BY DutyOfType DEF analogWrite, Types, AnalogType
<1>3. CASE UNCHANGED <<owner, pwm>>
  BY <1>1, <1>2, <1>3, PinsSame DEF Types, AnalogType, SpiType
<1>4. CASE /\ p \notin PinsOf(pwm) /\ Len(pwm) < PwmHowMany
           /\ Unused({p})
           /\ owner' = Given({p}, "pwm") /\ pwm' = Append(pwm, p)
  <2>1. /\ owner[p] = "none"
        /\ p \notin PinsOf(adc_channel) \/ p \in freed
    BY <1>4, UnusedHasNone DEF Unused, Tables
  <2>0. pwm \in Seq(Pins) /\ Len(pwm) \in Nat
    BY DEF Types, AnalogType
  <2>2. /\ PinsOf(pwm') = PinsOf(pwm) \cup {p}
        /\ pwm' \in Seq(Pins) /\ Len(pwm') <= PwmHowMany
    BY <1>4, <2>0, PinsOfAppend, AnalogAssumption
  <2>3. Types'
    BY <1>1, <1>2, <1>4, <2>2, GivenType DEF Types, AnalogType, SpiType
  <2>4. ChannelsDistinct'
    <3>1. \A i, j \in DOMAIN pwm' : pwm'[i] = pwm'[j] => i = j
      BY <1>4, <2>1, AppendDistinct DEF Types, AnalogType, PinsHeld, ChannelsDistinct
    <3>2. QED BY <1>2, <1>4, <2>1, <2>2, <3>1 DEF PinsHeld, ChannelsDistinct
  <2>5. QED BY <1>1, <1>2, <1>4, <2>1, <2>2, <2>3, <2>4, NewChannel
<1>5. QED BY <1>3, <1>4 DEF analogWrite

LEMMA ResolutionStep ==
  ASSUME IInv, NEW r \in Resolutions, analogWriteResolution(r),
         UNCHANGED <<owner, gpio_initialized, spi, freed>>
  PROVE  IInv'
<1>1. UNCHANGED <<block, _is_initialized, _settings>> /\ SettingsApplied'
  BY DEF IInv, spi, SettingsApplied
<1>2. UNCHANGED <<adc_initialized, adc_channel, pwm, duty>> /\ desiredWriteResolution' = r
  BY DEF analogWriteResolution
<1>3. Types'
  BY <1>1, <1>2 DEF IInv, Types, AnalogType, SpiType
<1>4. PinsHeld' /\ Kept'
  BY <1>1, <1>2, PinsSame
<1>5. QED BY <1>1, <1>3, <1>4 DEF IInv

\* SPI moves no pin that is in a table.
LEMMA SpiOwners ==
  ASSUME IInv,
         gpio_initialized' = gpio_initialized, adc_channel' = adc_channel, pwm' = pwm,
         freed' = freed,
         \A p \in SpiPins \ freed : p \notin Tables,
         \A p \in Pins \ SpiPins : owner'[p] = owner[p],
         \/ /\ block' = "free" /\ _is_initialized' = FALSE
            /\ \A p \in SpiPins : owner'[p] = "none"
         \/ block' # "free" /\ \A p \in SpiPins : owner'[p] = "spi"
  PROVE  PinsHeld' /\ Kept'
<1> USE DEF IInv
<1>1. PinsOf(adc_channel') = PinsOf(adc_channel) /\ PinsOf(pwm') = PinsOf(pwm)
      /\ Tables' = Tables
  BY DEF PinsOf, Tables
<1>2. ChannelsDistinct'
  BY <1>1 DEF PinsHeld, ChannelsDistinct
<1>3. Kept'
  BY <1>1 DEF Kept
<1>4. ASSUME NEW q \in Pins \ freed
      PROVE  \/ /\ gpio_initialized'[q] = FALSE
                /\ q \in PinsOf(adc_channel') <=> owner'[q] = "adc"
                /\ q \in PinsOf(pwm') <=> owner'[q] = "pwm"
                /\ q \in SpiPins /\ block' # "free" <=> owner'[q] = "spi"
             \/ /\ gpio_initialized'[q] = TRUE
                /\ owner'[q] = "gpio" \/ q \in Tables' \cup SpiPins
  <2>1. CASE q \in SpiPins /\ gpio_initialized[q] = FALSE
    BY <1>1, <2>1 DEF Tables
  <2>2. CASE q \in SpiPins /\ gpio_initialized[q] = TRUE
    BY <2>2
  <2>3. CASE q \notin SpiPins
    BY <1>1, <2>3 DEF PinsHeld
  <2>4. QED BY <2>1, <2>2, <2>3 DEF Types
<1>5. \A q \in Pins : owner'[q] = "gpio" => gpio_initialized'[q] = TRUE
  BY DEF PinsHeld
<1>6. PinsHeld'
  BY <1>2, <1>4, <1>5 DEF PinsHeld
<1>7. QED BY <1>3, <1>6

LEMMA BegunStep ==
  ASSUME IInv, NEW s \in Settings, NEW o, NEW b,
         \/ o = owner /\ b = block /\ _is_initialized = FALSE
         \/ o = Given(SpiPins, "none") /\ b = "free" /\ _is_initialized = TRUE,
         Begun(s, o, b), _settings' = s,
         UNCHANGED <<gpio_initialized, analog, freed>>
  PROVE  IInv'
<1> USE DEF IInv
<1>1. UNCHANGED <<adc_initialized, adc_channel, pwm, desiredWriteResolution, duty>>
      /\ gpio_initialized' = gpio_initialized /\ adc_channel' = adc_channel /\ pwm' = pwm
  BY DEF analog
<1>2. o \in OwnerType /\ b \in Settings \cup {"free"}
      /\ \A p \in Pins \ SpiPins : o[p] = owner[p]
  BY GivenType, SpiAssumption DEF Types, SpiType
<1>3. SettingsApplied'
  BY DEF Begun, SettingsApplied
<1>4. CASE _is_initialized' = FALSE /\ owner' = o /\ block' = b
  <2>1. Types'
    BY <1>1, <1>2, <1>4 DEF Types, AnalogType, SpiType
  <2>2. CASE o = owner /\ b = block /\ _is_initialized = FALSE
    BY <1>1, <1>3, <1>4, <2>1, <2>2, PinsSame
  <2>3. CASE o = Given(SpiPins, "none") /\ b = "free" /\ _is_initialized = TRUE
    <3>1. /\ \A p \in SpiPins \ freed : p \notin Tables
          /\ \A p \in SpiPins : owner'[p] = "none"
      BY <1>4, <2>3, SpiAssumption, GivenType DEF Kept
    <3>2. QED BY <1>1, <1>2, <1>3, <1>4, <2>1, <2>3, <3>1, SpiOwners
  <2>4. QED BY <2>2, <2>3
<1>5. CASE /\ \A p \in SpiPins : o[p] = "none"
           /\ owner' = [p \in Pins |-> IF p \in SpiPins THEN "spi" ELSE o[p]]
           /\ block' = s /\ _is_initialized' \in BOOLEAN
  <2>1. Types'
    BY <1>1, <1>2, <1>5 DEF Types, AnalogType, SpiType, OwnerType
  <2>2. \A p \in SpiPins \ freed : p \notin Tables
    BY <1>5, SpiAssumption, UnusedHasNone DEF Kept
  <2>3. block' # "free" /\ \A p \in SpiPins : owner'[p] = "spi"
    BY <1>5, SpiAssumption
  <2>4. \A p \in Pins \ SpiPins : owner'[p] = owner[p]
    BY <1>2, <1>5
  <2>5. QED BY <1>1, <1>3, <2>1, <2>2, <2>3, <2>4, SpiOwners
<1>6. QED BY <1>4, <1>5 DEF Begun

LEMMA SpiStep ==
  ASSUME IInv, SpiNext, UNCHANGED <<gpio_initialized, analog, freed>>
  PROVE  IInv'
<1> USE DEF IInv
<1>1. CASE begin
  BY <1>1, BegunStep DEF begin, Types, SpiType
<1>2. CASE end
  <2>1. UNCHANGED <<adc_initialized, adc_channel, pwm, desiredWriteResolution, duty>>
        /\ gpio_initialized' = gpio_initialized /\ adc_channel' = adc_channel /\ pwm' = pwm
    BY DEF analog
  <2>2. /\ \A p \in SpiPins \ freed : p \notin Tables
        /\ \A p \in SpiPins : owner'[p] = "none"
    BY <1>2, SpiAssumption, GivenType DEF end, Kept
  <2>3. owner' \in OwnerType /\ \A p \in Pins \ SpiPins : owner'[p] = owner[p]
    BY <1>2, SpiAssumption, GivenType DEF end
  <2>4. block' = "free" /\ _is_initialized' = FALSE /\ _settings' = _settings
    BY <1>2 DEF end
  <2>5. Types' /\ SettingsApplied'
    BY <2>1, <2>3, <2>4 DEF Types, AnalogType, SpiType, SettingsApplied
  <2>6. QED BY <2>1, <2>2, <2>3, <2>4, <2>5, SpiOwners
<1>3. ASSUME NEW s \in Settings, beginTransaction(s)
      PROVE  IInv'
  <2>1. CASE _is_initialized = TRUE /\ _settings = s /\ UNCHANGED <<owner, _is_initialized, block>>
    <3>1. UNCHANGED <<adc_initialized, adc_channel, pwm, desiredWriteResolution, duty>>
          /\ _settings' = _settings
      BY <1>3, <2>1 DEF analog, beginTransaction
    <3>2. Types' /\ SettingsApplied'
      BY <2>1, <3>1 DEF Types, AnalogType, SpiType, SettingsApplied
    <3>3. QED BY <2>1, <3>1, <3>2, PinsSame
  <2>2. CASE _is_initialized = FALSE /\ Begun(s, owner, block)
    BY <1>3, <2>2, BegunStep DEF beginTransaction
  <2>3. CASE _is_initialized = TRUE /\ Begun(s, Given(SpiPins, "none"), "free")
    BY <1>3, <2>3, BegunStep DEF beginTransaction
  <2>4. QED BY <1>3, <2>1, <2>2, <2>3 DEF beginTransaction
<1>4. QED BY <1>1, <1>2, <1>3 DEF SpiNext

\* The interrupts share no variable with the rest.
LEMMA InterruptsStep ==
  ASSUME EInv, InterruptsNext
  PROVE  EInv'
<1> USE DEF EInv
<1>1. ASSUME NEW p \in InterruptPins, NEW h \in Handlers, attachInterrupt(p, h)
      PROVE  EInv'
  BY <1>1, InterruptsAssumption DEF attachInterrupt, InterruptsType, EdgeRunsOwn, Attaching
<1>2. ASSUME NEW p \in InterruptPins, detachInterrupt(p)
      PROVE  EInv'
  BY <1>2, InterruptsAssumption DEF detachInterrupt, InterruptsType, EdgeRunsOwn, Attaching
<1>3. Idle.do = "nothing" /\ Idle \in [do : {"nothing"}, pin : InterruptPins]
  BY InterruptsAssumption DEF Idle
<1>4. CASE AttachRegister
  BY <1>4, InterruptsAssumption DEF AttachRegister, InterruptsType, EdgeRunsOwn, Attaching
<1>5. CASE AttachEnable
  BY <1>3, <1>5, InterruptsAssumption DEF AttachEnable, InterruptsType, EdgeRunsOwn, Attaching
<1>6. CASE DetachUnregister
  BY <1>3, <1>6, InterruptsAssumption DEF DetachUnregister, InterruptsType, EdgeRunsOwn, Attaching
<1>7. QED BY <1>1, <1>2, <1>4, <1>5, <1>6 DEF InterruptsNext
-----------------------------------------------------------------------------
LEMMA InitIInv == Init => IInv /\ EInv
<1> SUFFICES ASSUME Init PROVE IInv /\ EInv
  OBVIOUS
<1> USE DEF Init
<1>1. PinsOf(<<>>) = {}
  BY DEF PinsOf
<1>2. Types
  <2>1. owner \in OwnerType /\ gpio_initialized \in [Pins -> BOOLEAN]
    BY DEF PinsInit, GpioInit, OwnerType
  <2>2. AnalogType
    <3>1. <<>> \in Seq(Pins) /\ Len(<<>>) = 0
      OBVIOUS
    <3>2. 0 \in 0 .. Byte - 1 /\ 0 <= AdcHowMany /\ 0 <= PwmHowMany /\ Byte - 1 \in Resolutions
      BY AnalogAssumption
    <3>3. QED BY <3>1, <3>2, Zenon DEF AnalogInit, AnalogType
  <2>3. SpiType
    BY SpiAssumption DEF SpiInit, SpiType
  <2>4. QED BY <2>1, <2>2, <2>3 DEF Types
<1>3. SettingsApplied
  BY DEF SpiInit, SettingsApplied
<1>4. PinsHeld /\ Kept
  <2>1. ChannelsDistinct
    BY <1>1 DEF AnalogInit, ChannelsDistinct
  <2>2. Kept
    BY <1>1 DEF AnalogInit, SpiInit, Kept, Tables
  <2>3. \A p \in Pins : /\ gpio_initialized[p] = FALSE
                        /\ p \in PinsOf(adc_channel) <=> owner[p] = "adc"
                        /\ p \in PinsOf(pwm) <=> owner[p] = "pwm"
                        /\ p \in SpiPins /\ block # "free" <=> owner[p] = "spi"
                        /\ owner[p] # "gpio"
    BY <1>1 DEF PinsInit, GpioInit, AnalogInit, SpiInit
  <2>4. QED BY <2>1, <2>2, <2>3 DEF PinsHeld
<1>5. EInv
  BY InterruptsAssumption DEF InterruptsInit, Idle, EInv, InterruptsType, EdgeRunsOwn, Attaching
<1>6. QED BY <1>2, <1>3, <1>4, <1>5 DEF IInv

LEMMA NextIInv == IInv /\ [Next]_vars => IInv'
<1> SUFFICES ASSUME IInv, [Next]_vars PROVE IInv'
  OBVIOUS
<1>1. ASSUME NEW p \in Pins, pinMode(p), UNCHANGED <<interrupts, analog, spi>>,
             freed' = freed \cup {q \in Peripheral : gpio_initialized[q] /\ ~gpio_initialized'[q]}
      PROVE  IInv'
  BY <1>1, PinModeStep
<1>2. CASE AnalogNext /\ UNCHANGED <<gpio_initialized, interrupts, spi, freed>>
  BY <1>2, AnalogReadStep, AnalogWriteStep, ResolutionStep DEF AnalogNext
<1>3. CASE SpiNext /\ UNCHANGED <<gpio_initialized, interrupts, analog, freed>>
  BY <1>3, SpiStep
<1>4. CASE UNCHANGED <<owner, gpio_initialized, analog, spi, freed>>
  <2>1. UNCHANGED <<adc_initialized, adc_channel, pwm, desiredWriteResolution, duty>>
        /\ UNCHANGED <<_is_initialized, _settings, block>>
    BY <1>4 DEF analog, spi
  <2>2. Types' /\ SettingsApplied'
    BY <1>4, <2>1 DEF IInv, Types, AnalogType, SpiType, SettingsApplied
  <2>3. QED BY <1>4, <2>1, <2>2, PinsSame DEF IInv
<1>5. QED BY <1>1, <1>2, <1>3, <1>4 DEF Next, vars

LEMMA NextEInv == EInv /\ [Next]_vars => EInv'
<1> SUFFICES ASSUME EInv, [Next]_vars PROVE EInv'
  OBVIOUS
<1>1. CASE InterruptsNext
  BY <1>1, InterruptsStep
<1>2. CASE UNCHANGED interrupts
  BY <1>2 DEF interrupts, EInv, InterruptsType, EdgeRunsOwn, Attaching
<1>3. QED BY <1>1, <1>2 DEF Next, vars

LEMMA Invariance == Spec => [](IInv /\ EInv)
BY InitIInv, NextIInv, NextEInv, PTL DEF Spec

(* Every variable keeps its type: the tables their sizes, the duty cycle   *)
(* its byte.  analog_io.c:10-30, 73-98, 133-146, SPI.h, interrupts.c.      *)
THEOREM TypeCorrect == Spec => []TypeOK
<1>1. IInv /\ EInv => TypeOK
  BY DEF IInv, EInv, Types, TypeOK
<1>2. QED BY <1>1, Invariance, PTL

(* What the tables and flags of the peripherals say of a pin agrees with   *)
(* the hardware manager, and no pin has two channels.                      *)
(* digital_io.c:33-77, analog_io.c:73-98, 133-146, SPI.cpp:25-40.          *)
THEOREM PinsAreHeld == Spec => []PinsHeld
<1>1. IInv => PinsHeld
  BY DEF IInv
<1>2. QED BY <1>1, Invariance, PTL

(* An initialised SPI object runs with the settings asked for last,        *)
(* through every failure of a re-initialisation.  SPI.cpp:16-40, 137-147.  *)
THEOREM SettingsAreApplied == Spec => []SettingsApplied
<1>1. IInv => SettingsApplied
  BY DEF IInv
<1>2. QED BY <1>1, Invariance, PTL

(* An edge finds a handler at every step of attachInterrupt() and          *)
(* detachInterrupt(), the own one on the pin attached last.                *)
(* interrupts.c:58-60, 70-71.                                              *)
THEOREM HandlerIsFound == Spec => []EdgeRunsOwn
<1>1. EInv => EdgeRunsOwn
  BY DEF EInv
<1>2. QED BY <1>1, Invariance, PTL

(* Only the end of an SPI that once had it and a pinMode() of a mode it    *)
(* does not know take a pin away from pinMode().                           *)
(* digital_io.c:33-77, SPI.cpp:33-40.                                      *)
THEOREM GpioIsKept == Spec => GpioStays
<1> DEFINE Stay(p) == \/ owner'[p] = "gpio"
                      \/ owner'[p] = "none" /\ gpio_initialized'[p] = FALSE
                      \/ p \in SpiPins /\ _is_initialized
           Stays == \A p \in Pins : owner[p] = "gpio" => Stay(p)
<1>1. ASSUME IInv, [Next]_vars, NEW p \in Pins, owner[p] = "gpio"
      PROVE  Stay(p)
  <2>1. Types /\ gpio_initialized[p] = TRUE
    BY <1>1 DEF IInv, PinsHeld
  <2>2. ASSUME NEW q \in Pins, pinMode(q)
        PROVE  Stay(p)
    <3>1. CASE q # p
      BY <1>1, <2>1, <2>2, <3>1, GivenType DEF pinMode
    <3>2. CASE q = p
      <4>1. Given({p}, "none")[p] = "none" /\ Given({p}, "gpio")[p] = "gpio"
        BY <2>1, GivenType
      <4>2. \/ owner' = Given({p}, "gpio")
            \/ /\ owner' = Given({p}, "none")
               /\ gpio_initialized' = [gpio_initialized EXCEPT ![p] = FALSE]
        BY <2>1, <2>2, <3>2, <4>1 DEF pinMode
      <4> QED BY <2>1, <4>1, <4>2 DEF Types
    <3> QED BY <3>1, <3>2
  <2>3. CASE AnalogNext
    <3>1. ASSUME NEW q \in Pins, analogRead(q) PROVE owner'[p] = "gpio"
      <4>1. owner' = owner \/ (owner[q] = "none" /\ owner' = Given({q}, "adc"))
        BY <3>1 DEF analogRead, Unused
      <4>2. QED BY <1>1, <2>1, <4>1, GivenType
    <3>2. ASSUME NEW q \in Pins, NEW v \in Values, analogWrite(q, v) PROVE owner'[p] = "gpio"
      BY <1>1, <2>1, <3>2, GivenType DEF analogWrite, Unused
    <3>3. QED BY <1>1, <2>3, <3>1, <3>2 DEF AnalogNext
  <2>4. CASE SpiNext
    <3>1. owner'[p] = "gpio" \/ (p \in SpiPins /\ _is_initialized)
      BY <1>1, <2>1, <2>4, GivenType, SpiAssumption DEF SpiNext, begin, end, beginTransaction, Begun
    <3> QED BY <3>1
  <2>5. CASE UNCHANGED owner
    BY <1>1, <2>5
  <2>6. QED BY <1>1, <2>2, <2>3, <2>4, <2>5 DEF Next, vars
<1>2. IInv /\ [Next]_vars => [Stays]_vars
  BY <1>1
<1>3. QED BY <1>2, InitIInv, NextIInv, PTL DEF Spec, GpioStays
=============================================================================
