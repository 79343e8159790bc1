------------------------------- MODULE Analog -------------------------------
(***************************************************************************)
(* cores/psoc6/analog_io.c: the tables of ADC and PWM channels, filled     *)
(* from the front and never given back, are the sequences of their pins.   *)
(***************************************************************************)
EXTENDS PinManager, Integers, Sequences

CONSTANTS AdcHowMany, PwmHowMany,  \* ADC_HOWMANY, PWM_HOWMANY
          Byte,                    \* 2^8
          Resolutions,             \* 2^bits - 1 of analogWriteResolution()
          Values                   \* arguments of analogWrite()

ASSUME AnalogAssumption ==
  /\ AdcHowMany \in Nat /\ PwmHowMany \in Nat
  /\ Byte \in Nat \ {0} /\ Values \subseteq Int
  /\ Resolutions \subseteq Nat /\ Byte - 1 \in Resolutions

VARIABLES adc_initialized, adc_channel, pwm,
          desiredWriteResolution,
          duty   \* what the duty cycle was set to last, of the resolution

analog == <<adc_initialized, adc_channel, pwm, desiredWriteResolution, duty>>

AnalogInit ==
  /\ adc_initialized = FALSE /\ adc_channel = <<>> /\ pwm = <<>>
  /\ desiredWriteResolution = Byte - 1 /\ duty = 0

PinsOf(table) == {table[i] : i \in DOMAIN table}

\* initialize_adc, and the channel's own initialisation on a free slot; a
\* failure leaves the slot free and the converter, if it came so far, set up.
analogRead(p) ==
  /\ p \notin PinsOf(adc_channel) /\ Len(adc_channel) < AdcHowMany
  /\ \/ /\ Unused({p})
        /\ owner' = Given({p}, "adc")
        /\ adc_channel' = Append(adc_channel, p)
        /\ adc_initialized' = TRUE
     \/ adc_initialized' \in {adc_initialized, TRUE} /\ UNCHANGED <<owner, adc_channel>>
  /\ UNCHANGED <<pwm, desiredWriteResolution, duty>>

analogWriteResolution(r) ==
  /\ desiredWriteResolution' = r
  /\ UNCHANGED <<adc_initialized, adc_channel, pwm, duty>>

Least(a, b) == IF a < b THEN a ELSE b

\* value is kept in a uint8_t
DutyOf(value) == Least(value % Byte, desiredWriteResolution)

\* Mutant of analogWrite: the entry is made before the PWM is initialised.
analogWriteEarly(p, value) ==
  /\ p \in PinsOf(pwm) \/ Len(pwm) < PwmHowMany
  /\ IF p \in PinsOf(pwm) THEN UNCHANGED <<owner, pwm>>
     ELSE /\ pwm' = Append(pwm, p)
          /\ owner' = IF Unused({p}) THEN Given({p}, "pwm") ELSE owner
  /\ duty' \in {duty, DutyOf(value)}
  /\ UNCHANGED <<adc_initialized, adc_channel, desiredWriteResolution>>

\* A channel is found or made; setting it may fail.
analogWrite(p, value) ==
  /\ \/ p \in PinsOf(pwm) /\ UNCHANGED <<owner, pwm>>
     \/ /\ p \notin PinsOf(pwm) /\ Len(pwm) < PwmHowMany
        /\ Unused({p})
        /\ owner' = Given({p}, "pwm") /\ pwm' = Append(pwm, p)
  /\ duty' \in {duty, DutyOf(value)}
  /\ UNCHANGED <<adc_initialized, adc_channel, desiredWriteResolution>>

AnalogNext ==
  \/ \E p \in Pins : analogRead(p) \/ \E v \in Values : analogWrite(p, v)
  \/ \E r \in Resolutions : analogWriteResolution(r) /\ UNCHANGED owner

AnalogType ==
  /\ adc_initialized \in BOOLEAN
  /\ adc_channel \in Seq(Pins) /\ Len(adc_channel) <= AdcHowMany
  /\ pwm \in Seq(Pins) /\ Len(pwm) <= PwmHowMany
  /\ desiredWriteResolution \in Resolutions
  /\ duty \in 0 .. Byte - 1
=============================================================================
