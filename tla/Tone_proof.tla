----------------------------- MODULE Tone_proof -----------------------------
(***************************************************************************)
(* Proofs about Tone, for all pins, durations and timers.  The properties  *)
(* speak of the time between calls; the invariant adds, for every          *)
(* statement of play() and stop(), what the flags say of the PWM and the   *)
(* timer there, and that where they are wrong the interrupt has come       *)
(* inside a call.                                                          *)
(***************************************************************************)
EXTENDS Tone, TLAPS

TimerSteps == {"timer", "tinit", "tflag", "tstop", "tstart"}

PwmAgrees ==
  /\ pc \in {"idle", "play", "first"} \cup TimerSteps =>
       pwm = (IF initialized = TRUE THEN "on" ELSE "free")
  /\ pc = "init" => initialized = FALSE /\ pwm = "free"
  /\ pc = "flag" => initialized = FALSE /\ pwm = "set"
  /\ pc \in {"start", "duty", "stop"} =>
       \/ initialized = TRUE /\ pwm = (IF pc = "start" THEN "set" ELSE "on")
       \/ initialized = FALSE /\ pwm = "free" /\ raced = TRUE
  /\ pc = "free" => pwm = (IF initialized = TRUE THEN "set" ELSE "free")
  /\ pc = "unflag" => pwm = "free"

TimerAgrees ==
  /\ pc \notin {"tflag", "tstop", "tstart", "exit", "fault"} =>
       timer = (IF timerInitialized = TRUE THEN "armed" ELSE "free")
  /\ pc = "tinit" => timerInitialized = FALSE
  /\ pc = "tflag" => timerInitialized = FALSE /\ timer = "idle"
  /\ pc = "tstop" => \/ timerInitialized = TRUE /\ timer \in {"idle", "armed"}
                     \/ timerInitialized = FALSE /\ timer = "free" /\ raced = TRUE
  /\ pc = "tstart" => timerInitialized = TRUE /\ timer = "idle"

Own ==
  /\ pc \in TimerSteps => duration > 0 /\ asked = duration
  /\ pc \in {"idle", "play", "first"} /\ initialized = TRUE =>
       /\ asked > 0 => timer = "armed" /\ period = Least(asked, MaxPeriod)
       /\ asked = 0 /\ foreign = FALSE => timer = "free"

IInv == TypeOK /\ PwmAgrees /\ TimerAgrees /\ Own /\ FaultNeedsRace

LEMMA LeastType ==
  ASSUME NEW d \in Durations \cup {0}
  PROVE  d \in Nat /\ Least(d, MaxPeriod) \in 0 .. MaxPeriod
BY ToneAssumption DEF Least
-----------------------------------------------------------------------------
LEMMA InitIInv == Init => IInv
<1> SUFFICES ASSUME Init PROVE IInv
  OBVIOUS
<1>1. TypeOK
  <2>1. 0 \in 0 .. MaxPeriod /\ 0 \in 0 .. MaxCalls
    BY ToneAssumption
  <2>2. QED BY <2>1, Zenon DEF Init, TypeOK
<1>2. PwmAgrees /\ TimerAgrees /\ FaultNeedsRace
  BY DEF Init, PwmAgrees, TimerAgrees, FaultNeedsRace, TimerSteps
<1>3. Own
  BY DEF Init, Own, TimerSteps
<1>4. QED BY <1>1, <1>2, <1>3 DEF IInv

LEMMA NextIInv == IInv /\ [Next]_vars => IInv'
<1> SUFFICES ASSUME IInv, [Next]_vars PROVE IInv'
  OBVIOUS
<1> USE DEF flags, args, history, Exit, Fault, Running
<1>1. ASSUME NEW p \in Pins, NEW d \in Durations, Play(p, d) PROVE IInv'
  <2>1. TypeOK'
    BY <1>1, ToneAssumption, LeastType DEF IInv, TypeOK, Play
  <2>2. PwmAgrees'
    BY <1>1 DEF IInv, TypeOK, PwmAgrees, TimerSteps, Play
  <2>3. TimerAgrees'
    BY <1>1 DEF IInv, TypeOK, TimerAgrees, Play
  <2>4. Own' /\ FaultNeedsRace'
    BY <1>1 DEF IInv, TypeOK, PwmAgrees, TimerAgrees, Own, FaultNeedsRace, TimerSteps, Play
  <2>5. QED BY <2>1, <2>2, <2>3, <2>4 DEF IInv
<1>2. CASE PlayTest
  <2>1. TypeOK'
    BY <1>2, ToneAssumption, LeastType DEF IInv, TypeOK, PlayTest
  <2>2. PwmAgrees'
    BY <1>2 DEF IInv, TypeOK, PwmAgrees, TimerSteps, PlayTest
  <2>3. TimerAgrees'
    BY <1>2 DEF IInv, TypeOK, TimerAgrees, PlayTest
  <2>4. Own' /\ FaultNeedsRace'
    BY <1>2 DEF IInv, TypeOK, PwmAgrees, TimerAgrees, Own, FaultNeedsRace, TimerSteps, PlayTest
  <2>5. QED BY <2>1, <2>2, <2>3, <2>4 DEF IInv
<1>3. CASE PlayFirst
  <2>1. TypeOK'
    BY <1>3, ToneAssumption, LeastType DEF IInv, TypeOK, PlayFirst
  <2>2. PwmAgrees'
    BY <1>3 DEF IInv, TypeOK, PwmAgrees, TimerSteps, PlayFirst
  <2>3. TimerAgrees'
    BY <1>3 DEF IInv, TypeOK, TimerAgrees, PlayFirst
  <2>4. Own' /\ FaultNeedsRace'
    BY <1>3 DEF IInv, TypeOK, PwmAgrees, TimerAgrees, Own, FaultNeedsRace, TimerSteps, PlayFirst
  <2>5. QED BY <2>1, <2>2, <2>3, <2>4 DEF IInv
<1>4. CASE InitializePwm
  <2>1. TypeOK'
    BY <1>4, ToneAssumption, LeastType DEF IInv, TypeOK, InitializePwm
  <2>2. PwmAgrees'
    BY <1>4 DEF IInv, TypeOK, PwmAgrees, TimerSteps, InitializePwm
  <2>3. TimerAgrees'
    BY <1>4 DEF IInv, TypeOK, TimerAgrees, InitializePwm
  <2>4. Own' /\ FaultNeedsRace'
    BY <1>4 DEF IInv, TypeOK, PwmAgrees, TimerAgrees, Own, FaultNeedsRace, TimerSteps, InitializePwm
  <2>5. QED BY <2>1, <2>2, <2>3, <2>4 DEF IInv
<1>5. CASE InitializedPwm
  <2>1. TypeOK'
    BY <1>5, ToneAssumption, LeastType DEF IInv, TypeOK, InitializedPwm
  <2>2. PwmAgrees'
    BY <1>5 DEF IInv, TypeOK, PwmAgrees, TimerSteps, InitializedPwm
  <2>3. TimerAgrees'
    BY <1>5 DEF IInv, TypeOK, TimerAgrees, InitializedPwm
  <2>4. Own' /\ FaultNeedsRace'
    BY <1>5 DEF IInv, TypeOK, PwmAgrees, TimerAgrees, Own, FaultNeedsRace, TimerSteps, InitializedPwm
  <2>5. QED BY <2>1, <2>2, <2>3, <2>4 DEF IInv
<1>6. CASE StartPwm
  <2>1. TypeOK'
    BY <1>6, ToneAssumption, LeastType DEF IInv, TypeOK, StartPwm
  <2>2. PwmAgrees'
    BY <1>6 DEF IInv, TypeOK, PwmAgrees, TimerSteps, StartPwm
  <2>3. TimerAgrees'
    BY <1>6 DEF IInv, TypeOK, TimerAgrees, StartPwm
  <2>4. Own' /\ FaultNeedsRace'
    BY <1>6 DEF IInv, TypeOK, PwmAgrees, TimerAgrees, Own, FaultNeedsRace, TimerSteps, StartPwm
  <2>5. QED BY <2>1, <2>2, <2>3, <2>4 DEF IInv
<1>7. CASE SetDutyCycleAndFrequency
  <2>1. TypeOK'
    BY <1>7, ToneAssumption, LeastType DEF IInv, TypeOK, SetDutyCycleAndFrequency
  <2>2. PwmAgrees'
    BY <1>7 DEF IInv, TypeOK, PwmAgrees, TimerSteps, SetDutyCycleAndFrequency
  <2>3. TimerAgrees'
    BY <1>7 DEF IInv, TypeOK, TimerAgrees, SetDutyCycleAndFrequency
  <2>4. Own' /\ FaultNeedsRace'
    BY <1>7 DEF IInv, TypeOK, PwmAgrees, TimerAgrees, Own, FaultNeedsRace, TimerSteps, SetDutyCycleAndFrequency
  <2>5. QED BY <2>1, <2>2, <2>3, <2>4 DEF IInv
<1>8. CASE TimerTest
  <2>1. TypeOK'
    BY <1>8, ToneAssumption, LeastType DEF IInv, TypeOK, TimerTest
  <2>2. PwmAgrees'
    BY <1>8 DEF IInv, TypeOK, PwmAgrees, TimerSteps, TimerTest
  <2>3. TimerAgrees'
    BY <1>8 DEF IInv, TypeOK, TimerAgrees, TimerTest
  <2>4. Own' /\ FaultNeedsRace'
    BY <1>8 DEF IInv, TypeOK, PwmAgrees, TimerAgrees, Own, FaultNeedsRace, TimerSteps, TimerTest
  <2>5. QED BY <2>1, <2>2, <2>3, <2>4 DEF IInv
<1>9. CASE TimerInit
  <2>1. TypeOK'
    BY <1>9, ToneAssumption, LeastType DEF IInv, TypeOK, TimerInit
  <2>2. PwmAgrees'
    BY <1>9 DEF IInv, TypeOK, PwmAgrees, TimerSteps, TimerInit
  <2>3. TimerAgrees'
    BY <1>9 DEF IInv, TypeOK, TimerAgrees, TimerInit
  <2>4. Own' /\ FaultNeedsRace'
    BY <1>9 DEF IInv, TypeOK, PwmAgrees, TimerAgrees, Own, FaultNeedsRace, TimerSteps, TimerInit
  <2>5. QED BY <2>1, <2>2, <2>3, <2>4 DEF IInv
<1>10. CASE TimerInitialized
  <2>1. TypeOK'
    BY <1>10, ToneAssumption, LeastType DEF IInv, TypeOK, TimerInitialized
  <2>2. PwmAgrees'
    BY <1>10 DEF IInv, TypeOK, PwmAgrees, TimerSteps, TimerInitialized
  <2>3. TimerAgrees'
    BY <1>10 DEF IInv, TypeOK, TimerAgrees, TimerInitialized
  <2>4. Own' /\ FaultNeedsRace'
    BY <1>10 DEF IInv, TypeOK, PwmAgrees, TimerAgrees, Own, FaultNeedsRace, TimerSteps, TimerInitialized
  <2>5. QED BY <2>1, <2>2, <2>3, <2>4 DEF IInv
<1>11. CASE TimerStop
  <2>1. TypeOK'
    BY <1>11, ToneAssumption, LeastType DEF IInv, TypeOK, TimerStop
  <2>2. PwmAgrees'
    BY <1>11 DEF IInv, TypeOK, PwmAgrees, TimerSteps, TimerStop
  <2>3. TimerAgrees'
    BY <1>11 DEF IInv, TypeOK, TimerAgrees, TimerStop
  <2>4. Own' /\ FaultNeedsRace'
    BY <1>11 DEF IInv, TypeOK, PwmAgrees, TimerAgrees, Own, FaultNeedsRace, TimerSteps, TimerStop
  <2>5. QED BY <2>1, <2>2, <2>3, <2>4 DEF IInv
<1>12. CASE TimerStart
  <2>1. TypeOK'
    BY <1>12, ToneAssumption, LeastType DEF IInv, TypeOK, TimerStart
  <2>2. PwmAgrees'
    BY <1>12 DEF IInv, TypeOK, PwmAgrees, TimerSteps, TimerStart
  <2>3. TimerAgrees'
    BY <1>12 DEF IInv, TypeOK, TimerAgrees, TimerStart
  <2>4. Own' /\ FaultNeedsRace'
    BY <1>12 DEF IInv, TypeOK, PwmAgrees, TimerAgrees, Own, FaultNeedsRace, TimerSteps, TimerStart
  <2>5. QED BY <2>1, <2>2, <2>3, <2>4 DEF IInv
<1>13. CASE NoTone
  <2>1. TypeOK'
    BY <1>13, ToneAssumption, LeastType DEF IInv, TypeOK, NoTone
  <2>2. PwmAgrees'
    BY <1>13 DEF IInv, TypeOK, PwmAgrees, TimerSteps, NoTone
  <2>3. TimerAgrees'
    BY <1>13 DEF IInv, TypeOK, TimerAgrees, NoTone
  <2>4. Own' /\ FaultNeedsRace'
    BY <1>13 DEF IInv, TypeOK, PwmAgrees, TimerAgrees, Own, FaultNeedsRace, TimerSteps, NoTone
  <2>5. QED BY <2>1, <2>2, <2>3, <2>4 DEF IInv
<1>14. CASE StopPwm
  <2>1. TypeOK'
    BY <1>14, ToneAssumption, LeastType DEF IInv, TypeOK, StopPwm
  <2>2. PwmAgrees'
    BY <1>14 DEF IInv, TypeOK, PwmAgrees, TimerSteps, StopPwm
  <2>3. TimerAgrees'
    BY <1>14 DEF IInv, TypeOK, TimerAgrees, StopPwm
  <2>4. Own' /\ FaultNeedsRace'
    BY <1>14 DEF IInv, TypeOK, PwmAgrees, TimerAgrees, Own, FaultNeedsRace, TimerSteps, StopPwm
  <2>5. QED BY <2>1, <2>2, <2>3, <2>4 DEF IInv
<1>15. CASE FreePwm
  <2>1. TypeOK'
    BY <1>15, ToneAssumption, LeastType DEF IInv, TypeOK, FreePwm
  <2>2. PwmAgrees'
    BY <1>15 DEF IInv, TypeOK, PwmAgrees, TimerSteps, FreePwm
  <2>3. TimerAgrees'
    BY <1>15 DEF IInv, TypeOK, TimerAgrees, FreePwm
  <2>4. Own' /\ FaultNeedsRace'
    BY <1>15 DEF IInv, TypeOK, PwmAgrees, TimerAgrees, Own, FaultNeedsRace, TimerSteps, FreePwm
  <2>5. QED BY <2>1, <2>2, <2>3, <2>4 DEF IInv
<1>16. CASE StoppedPwm
  <2>1. TypeOK'
    BY <1>16, ToneAssumption, LeastType DEF IInv, TypeOK, StoppedPwm
  <2>2. PwmAgrees'
    BY <1>16 DEF IInv, TypeOK, PwmAgrees, TimerSteps, StoppedPwm
  <2>3. TimerAgrees'
    BY <1>16 DEF IInv, TypeOK, TimerAgrees, StoppedPwm
  <2>4. Own' /\ FaultNeedsRace'
    BY <1>16 DEF IInv, TypeOK, PwmAgrees, TimerAgrees, Own, FaultNeedsRace, TimerSteps, StoppedPwm
  <2>5. QED BY <2>1, <2>2, <2>3, <2>4 DEF IInv
<1>17. CASE HandleTimerEvent
  <2>1. TypeOK'
    BY <1>17, ToneAssumption, LeastType DEF IInv, TypeOK, HandleTimerEvent
  <2>2. PwmAgrees'
    BY <1>17 DEF IInv, TypeOK, PwmAgrees, TimerSteps, HandleTimerEvent
  <2>3. TimerAgrees'
    BY <1>17 DEF IInv, TypeOK, TimerAgrees, HandleTimerEvent
  <2>4. Own' /\ FaultNeedsRace'
    BY <1>17 DEF IInv, TypeOK, PwmAgrees, TimerAgrees, Own, FaultNeedsRace, TimerSteps, HandleTimerEvent
  <2>5. QED BY <2>1, <2>2, <2>3, <2>4 DEF IInv
<1>18. CASE UNCHANGED vars
  BY <1>18 DEF vars, IInv, TypeOK, PwmAgrees, TimerAgrees, Own, FaultNeedsRace, TimerSteps
<1>19. QED
  BY <1>1, <1>2, <1>3, <1>4, <1>5, <1>6, <1>7, <1>8, <1>9, <1>10, <1>11, <1>12, <1>13, <1>14, <1>15, <1>16, <1>17, <1>18 DEF Next, CallGoesOn

LEMMA Invariance == Spec => []IInv
BY InitIInv, NextIInv, PTL DEF Spec

(* Every variable keeps its type; the period never exceeds what the timer  *)
(* can count.  Tone.cpp:98-144.                                            *)
THEOREM TypeCorrect == Spec => []TypeOK
<1>1. IInv => TypeOK
  BY DEF IInv
<1>2. QED BY <1>1, Invariance, PTL

(* Between two calls the flags say what is allocated, after interrupts     *)
(* inside a call too.  Tone.cpp:15-54, 98-106.                             *)
THEOREM FlagsAreRight == Spec => []FlagsAgree
<1>1. IInv => FlagsAgree
  BY DEF IInv, TypeOK, PwmAgrees, TimerAgrees, FlagsAgree
<1>2. QED BY <1>1, Invariance, PTL

(* Only an interrupt inside a call makes one use a PWM or timer that is    *)
(* not there.  Tone.cpp:15-54, 98-144.                                     *)
THEOREM FaultIsRace == Spec => []FaultNeedsRace
<1>1. IInv => FaultNeedsRace
  BY DEF IInv
<1>2. QED BY <1>1, Invariance, PTL

(* A tone with a duration has its own timer, one without has none unless   *)
(* an earlier tone's was running.  Tone.cpp:15-44, 98-144.                 *)
THEOREM TimerIsTones == Spec => []TimerIsOwn
<1>1. IInv => TimerIsOwn
  BY DEF IInv, Own, TimerIsOwn
<1>2. QED BY <1>1, Invariance, PTL
=============================================================================
