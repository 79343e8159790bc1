------------------------------- MODULE Pulse --------------------------------
(***************************************************************************)
(* pulseIn() of cores/psoc6/Pulse.cpp, with a timer of its own: it waits   *)
(* for the pin to have the level, then for it to have the other, and       *)
(* between any two of its reads the pin may change and time may pass.      *)
(***************************************************************************)
EXTENDS TimeBase

VARIABLES at,         \* its next read: in which wait, of what
          timerObj,   \* count of its timer
          pulseStart,
          level,      \* the pin has the level asked for
          edges,      \* history: changes of the pin during the call, at most 3
          high        \* history: ticks the pin has had the level for

pulse == <<at, timerObj, pulseStart, level, edges, high>>

Nowhere == <<"nowhere", "pin">>

PulseInit ==
  /\ at = Nowhere /\ timerObj = 0 /\ pulseStart = 0 /\ edges = 0 /\ high = 0
  /\ level = FALSE

\* pulseInLong(), from initTimer() to the first read of the timer; when
\* initTimer() fails the call returns 0 and nothing has changed.
pulseIn(timeout) ==
  /\ Waiting("pulseIn", timeout, 0)
  /\ at' = <<"start", "pin">>
  /\ UNCHANGED <<timer, timerOn, timerObj, pulseStart, level, edges, high>>

\* The call returns, and its locals and its timer are gone.
PulseReturns ==
  /\ Returns
  /\ at' = Nowhere /\ timerObj' = 0 /\ pulseStart' = 0 /\ edges' = 0 /\ high' = 0

\* waitForPinState(): the pin is read, and if it is not as desired the timer.
ReadPin(w, desired) ==
  /\ at = <<w, "pin">>
  /\ at' = IF level = desired THEN <<w, "mark">> ELSE <<w, "timer">>
  /\ lag' = 0
  /\ UNCHANGED <<call, asked, start, elapsed, timerObj, pulseStart, edges, high>>

GoesOn(w) ==
  /\ at' = <<w, "pin">> /\ lag' = 0
  /\ UNCHANGED <<call, asked, start, elapsed, timerObj, pulseStart, edges, high>>

\* Both waits are timed from the start of the call.
ReadTimer(w) ==
  /\ at = <<w, "timer">>
  /\ IF Minus(timerObj, start) > asked THEN PulseReturns ELSE GoesOn(w)

Mark(from) ==
  /\ at = <<"start", "mark">> /\ at' = <<"end", "pin">>
  /\ pulseStart' = from /\ lag' = 0
  /\ UNCHANGED <<call, asked, elapsed, timerObj, edges, high>>

\* Mutants of MarkStart: the second wait has a timeout of its own; the
\* pulse is measured from the start of the call.
MarkStartAgain == Mark(timerObj) /\ start' = timerObj
MarkStartEarly == Mark(start) /\ UNCHANGED start

MarkStart == Mark(timerObj) /\ UNCHANGED start

\* What is returned is Minus(timerObj, pulseStart).
MarkEnd == at = <<"end", "mark">> /\ PulseReturns

PulseStep ==
  /\ \/ ReadPin("start", TRUE) \/ ReadPin("end", FALSE)
     \/ ReadTimer("start") \/ ReadTimer("end")
     \/ MarkStart \/ MarkEnd
  /\ UNCHANGED <<timer, timerOn, level>>

PinChanges ==
  /\ level' = ~level
  /\ edges' = IF call = "pulseIn" /\ edges < 3 THEN edges + 1 ELSE edges
  /\ UNCHANGED <<time, at, timerObj, pulseStart, high>>

PulseTick ==
  /\ Tick
  /\ IF call # "pulseIn" THEN UNCHANGED <<timerObj, high>>
     ELSE /\ timerObj' = (timerObj + 1) % Word
          /\ high' = IF level /\ high < 2 * Word THEN high + 1 ELSE high
  /\ UNCHANGED <<at, pulseStart, level, edges>>

PulseType ==
  /\ at \in ({"start", "end"} \X {"pin", "timer", "mark"}) \cup {Nowhere}
  /\ timerObj \in 0 .. Word - 1 /\ pulseStart \in 0 .. Word - 1
  /\ level \in BOOLEAN /\ edges \in 0 .. 3 /\ high \in 0 .. 2 * Word

(* pulseIn() has one timeout for both waits: it returns within it, but for *)
(* the time it is held up in its last four reads.  Pulse.cpp:42-81.        *)
PulseInTime ==
  [][call = "pulseIn" /\ call' = "none" => elapsed <= asked + 4 * MaxLag]_<<time, pulse>>

(* When the pin makes no more than one pulse during the call, the result   *)
(* is its length, but for the time between the reads that find its edges   *)
(* and those of the timer.  Pulse.cpp:65-80.                               *)
PulseMeasured ==
  [][at = <<"end", "mark">> /\ call' = "none" /\ edges < 3 =>
       /\ Minus(timerObj, pulseStart) <= high + 3 * MaxLag
       /\ high <= Minus(timerObj, pulseStart) + 3 * MaxLag]_<<time, pulse>>
=============================================================================
