-------------------------------- MODULE Tone --------------------------------
(***************************************************************************)
(* class PwmTone (cores/psoc6/Tone.cpp): one PWM and one one-shot timer    *)
(* behind tone() and noTone().  The sketch's task takes a step per access  *)
(* to a flag or call of the HAL; the timer's interrupt, which runs to its  *)
(* end, comes between any two of them while the timer runs.                *)
(*                                                                         *)
(* A failing call of the HAL ends the program (assertResult); so does one  *)
(* on a PWM or timer that was freed (its base address is gone), which is   *)
(* told apart as a fault.                                                  *)
(***************************************************************************)
EXTENDS Integers

CONSTANTS Pins,       \* up to GPIO_PIN_COUNT
          Durations,  \* arguments of tone(), 0 for none
          MaxPeriod,  \* longest period of the 32-bit timer
          MaxCalls    \* bound: calls of tone() and noTone()

ASSUME ToneAssumption ==
  /\ Durations \subseteq Nat
  /\ MaxPeriod \in Nat \ {0} /\ MaxCalls \in Nat
  /\ Pins # {}

VARIABLES pwm,         \* the PWM: "free", "set" or "on"
          timer,       \* the timer: "free", "idle" or "armed"
          period,      \* what it was started with
          initialized, pin, timerInitialized,
          pc,          \* the next statement of the sketch's task
          targetPin, duration, \* the arguments of play()
          calls,       \* history: calls made
          asked,       \* history: the duration of the tone set last
          foreign,     \* history: ... the timer of an earlier one was running
          raced        \* history: the interrupt came inside a call

vars == <<pwm, timer, period, initialized, pin, timerInitialized, pc, targetPin,
          duration, calls, asked, foreign, raced>>

flags == <<initialized, pin, timerInitialized>>
args == <<targetPin, duration, calls>>
history == <<asked, foreign, raced>>

Least(a, b) == IF a < b THEN a ELSE b

Init ==
  /\ pwm = "free" /\ timer = "free" /\ period = 0
  /\ initialized = FALSE /\ pin \in Pins /\ timerInitialized = FALSE
  /\ pc = "idle" /\ targetPin \in Pins /\ duration = 0
  /\ calls = 0 /\ asked = 0 /\ foreign = FALSE /\ raced = FALSE

Fault == pc' = "fault"
Exit == pc' = "exit"
-----------------------------------------------------------------------------
(* play() *)

Play(p, d) ==
  /\ pc = "idle" /\ calls < MaxCalls
  /\ targetPin' = p /\ duration' = d /\ calls' = calls + 1
  /\ pc' = "play"
  /\ UNCHANGED <<pwm, timer, period, flags, history>>

\* A tone plays on another pin: the call is refused.
PlayTest ==
  /\ pc = "play"
  /\ pc' = IF initialized /\ targetPin # pin THEN "idle" ELSE "first"
  /\ UNCHANGED <<pwm, timer, period, flags, args, history>>

PlayFirst ==
  /\ pc = "first"
  /\ pc' = IF initialized THEN "duty" ELSE "init"
  /\ UNCHANGED <<pwm, timer, period, flags, args, history>>

InitializePwm ==
  /\ pc = "init"
  /\ \/ pwm' = "set" /\ pc' = "flag"
     \/ Exit /\ UNCHANGED pwm
  /\ UNCHANGED <<timer, period, flags, args, history>>

InitializedPwm ==
  /\ pc = "flag"
  /\ pin' = targetPin /\ initialized' = TRUE
  /\ pc' = "start"
  /\ UNCHANGED <<pwm, timer, period, timerInitialized, args, history>>

StartPwm ==
  /\ pc = "start"
  /\ \/ pwm # "free" /\ pwm' = "on" /\ pc' = "duty"
     \/ pwm # "free" /\ Exit /\ UNCHANGED pwm
     \/ pwm = "free" /\ Fault /\ UNCHANGED pwm
  /\ UNCHANGED <<timer, period, flags, args, history>>

\* The tone has its frequency; without a duration the timer is left alone.
SetDutyCycleAndFrequency ==
  /\ pc = "duty"
  /\ \/ /\ pwm # "free"
        /\ pc' = IF duration > 0 THEN "timer" ELSE "idle"
        /\ asked' = duration /\ foreign' = (timer # "free")
     \/ pwm # "free" /\ Exit /\ UNCHANGED <<asked, foreign>>
     \/ pwm = "free" /\ Fault /\ UNCHANGED <<asked, foreign>>
  /\ UNCHANGED <<pwm, timer, period, flags, args, raced>>
-----------------------------------------------------------------------------
(* startTimer() *)

TimerTest ==
  /\ pc = "timer"
  /\ pc' = IF timerInitialized THEN "tstop" ELSE "tinit"
  /\ UNCHANGED <<pwm, timer, period, flags, args, history>>

TimerInit ==
  /\ pc = "tinit"
  /\ \/ timer' = "idle" /\ pc' = "tflag"
     \/ Exit /\ UNCHANGED timer
  /\ UNCHANGED <<pwm, period, flags, args, history>>

TimerInitialized ==
  /\ pc = "tflag"
  /\ timerInitialized' = TRUE
  /\ pc' = "tstop"
  /\ UNCHANGED <<pwm, timer, period, initialized, pin, args, history>>

TimerStop ==
  /\ pc = "tstop"
  /\ \/ timer # "free" /\ timer' = "idle" /\ pc' = "tstart"
     \/ timer = "free" /\ Fault /\ UNCHANGED timer
  /\ UNCHANGED <<pwm, period, flags, args, history>>

\* Mutant of TimerStart: a timer that was started before keeps its period.
TimerStartOnce ==
  /\ pc = "tstart"
  /\ \/ /\ timer' = "armed" /\ pc' = "idle"
        /\ period' = IF period = 0 THEN Least(duration, MaxPeriod) ELSE period
     \/ Exit /\ UNCHANGED <<timer, period>>
  /\ UNCHANGED <<pwm, flags, args, history>>

\* Mutant of TimerStart: the timer is configured and never started.
TimerStartNever ==
  /\ pc = "tstart"
  /\ period' = Least(duration, MaxPeriod) /\ pc' = "idle"
  /\ UNCHANGED <<pwm, timer, flags, args, history>>

\* configure, set_frequency, register_callback, enable_event and start of a
\* stopped timer, which has no interrupt: one step.  The conversion of a
\* duration too long for the timer gives its longest period (the loop that
\* would lower the frequency never runs).
TimerStart ==
  /\ pc = "tstart"
  /\ \/ /\ timer' = "armed" /\ period' = Least(duration, MaxPeriod)
        /\ pc' = "idle"
     \/ Exit /\ UNCHANGED <<timer, period>>
  /\ UNCHANGED <<pwm, flags, args, history>>
-----------------------------------------------------------------------------
(* stop(), of noTone() *)

NoTone ==
  /\ pc = "idle" /\ calls < MaxCalls
  /\ calls' = calls + 1
  /\ pc' = IF initialized THEN "stop" ELSE "idle"
  /\ UNCHANGED <<pwm, timer, period, flags, targetPin, duration, history>>

StopPwm ==
  /\ pc = "stop"
  /\ \/ pwm # "free" /\ pwm' = "set" /\ pc' = "free"
     \/ pwm # "free" /\ Exit /\ UNCHANGED pwm
     \/ pwm = "free" /\ Fault /\ UNCHANGED pwm
  /\ UNCHANGED <<timer, period, flags, args, history>>

\* Freeing a freed PWM does nothing.
FreePwm ==
  /\ pc = "free"
  /\ pwm' = "free" /\ pc' = "unflag"
  /\ UNCHANGED <<timer, period, flags, args, history>>

\* Mutant of StoppedPwm: initialized stays.
StoppedPwmKeeps ==
  /\ pc = "unflag"
  /\ pc' = "idle"
  /\ UNCHANGED <<pwm, timer, period, flags, args, history>>

StoppedPwm ==
  /\ pc = "unflag"
  /\ initialized' = FALSE /\ pc' = "idle"
  /\ UNCHANGED <<pwm, timer, period, pin, timerInitialized, args, history>>
-----------------------------------------------------------------------------
(* The timer's interrupt *)

Running == pc \notin {"exit", "fault"}

HandleTimerEvent ==
  /\ timer = "armed" /\ Running
  /\ timer' = "free" /\ timerInitialized' = FALSE
  /\ raced' = (raced \/ pc # "idle")
  /\ \/ /\ initialized /\ pwm # "free"
        /\ pwm' = "free" /\ initialized' = FALSE
        /\ UNCHANGED pc
     \/ initialized /\ pwm # "free" /\ Exit /\ UNCHANGED <<pwm, initialized>>
     \/ initialized /\ pwm = "free" /\ Fault /\ UNCHANGED <<pwm, initialized>>
     \/ ~initialized /\ UNCHANGED <<pwm, initialized, pc>>
  /\ UNCHANGED <<period, pin, args, asked, foreign>>

CallGoesOn ==
  \/ PlayTest \/ PlayFirst \/ InitializePwm \/ InitializedPwm \/ StartPwm
  \/ SetDutyCycleAndFrequency
  \/ TimerTest \/ TimerInit \/ TimerInitialized \/ TimerStop \/ TimerStart
  \/ StopPwm \/ FreePwm \/ StoppedPwm

Next ==
  \/ \E p \in Pins, d \in Durations : Play(p, d)
  \/ NoTone \/ CallGoesOn \/ HandleTimerEvent

Spec == Init /\ [][Next]_vars

\* The task is scheduled, and a timer that runs comes to its end.
FairSpec == Spec /\ WF_vars(CallGoesOn) /\ WF_vars(HandleTimerEvent)
-----------------------------------------------------------------------------
TypeOK ==
  /\ pwm \in {"free", "set", "on"} /\ timer \in {"free", "idle", "armed"}
  /\ period \in 0 .. MaxPeriod
  /\ initialized \in BOOLEAN /\ timerInitialized \in BOOLEAN
  /\ pin \in Pins /\ targetPin \in Pins
  /\ pc \in {"idle", "play", "first", "init", "flag", "start", "duty", "timer",
             "tinit", "tflag", "tstop", "tstart", "stop", "free", "unflag",
             "exit", "fault"}
  /\ duration \in Durations \cup {0} /\ asked \in Durations \cup {0}
  /\ calls \in 0 .. MaxCalls
  /\ foreign \in BOOLEAN /\ raced \in BOOLEAN

(* Between calls the flags say what is allocated: no PWM and no timer is   *)
(* leaked or used after it was freed by a later call, also after an        *)
(* interrupt inside a call that did not end the program.                   *)
(* Tone.cpp:15-54, 98-106.                                                 *)
FlagsAgree ==
  pc = "idle" => /\ initialized = TRUE => pwm = "on"
                 /\ initialized = FALSE => pwm = "free"
                 /\ timerInitialized = TRUE => timer = "armed"
                 /\ timerInitialized = FALSE => timer = "free"

(* A sequence of calls that the timer does not interrupt never uses a PWM  *)
(* or a timer that is not there.  (An interrupt inside a call may make it  *)
(* do so.)  Tone.cpp:15-54, 98-144.                                        *)
FaultNeedsRace == pc = "fault" => raced = TRUE

(* A tone that was given a duration has the timer running for that         *)
(* duration, or the longest the timer can, whatever earlier calls and      *)
(* interrupts did; one without is cut short only by the timer of an        *)
(* earlier tone that was still running when it was called.                 *)
(* Tone.cpp:15-44, 98-144.                                                 *)
TimerIsOwn ==
  pc = "idle" /\ initialized = TRUE =>
    /\ asked > 0 => timer = "armed" /\ period = Least(asked, MaxPeriod)
    /\ asked = 0 /\ foreign = FALSE => timer = "free"

(* A tone with a duration ends, whatever calls and interrupts follow,      *)
(* unless a later call takes the duration away or the program ends.        *)
(* Tone.cpp:15-24, 41-43.                                                  *)
TimedEnds ==
  initialized = TRUE /\ asked > 0 ~> initialized = FALSE \/ asked = 0 \/ ~Running
=============================================================================
