------------------------------ MODULE TimeBase ------------------------------
(***************************************************************************)
(* The free running timer of cores/psoc6/time.c and the two loops that     *)
(* wait on it.  The sketch reads the timer at least once in MaxLag ticks   *)
(* while it waits: other tasks and interrupts do not hold it up longer.    *)
(***************************************************************************)
EXTENDS Naturals

CONSTANTS Word,   \* 2^32: of the timer and of unsigned long
          Milli,  \* MILLISECONDS_PER_SECOND: ticks of a millisecond
          MaxLag, Waits

ASSUME TimeAssumption ==
  /\ Word \in Nat \ {0} /\ Milli \in Nat \ {0} /\ MaxLag \in Nat
  /\ 0 \in Waits /\ Waits \subseteq 0 .. Word - 1

VARIABLES timer, timerOn,  \* its count; time_init() has started it
          call,            \* "none", "delay", "delayMicroseconds" or "pulseIn"
          asked, start,    \* the argument of the call; what it read at first
          elapsed,         \* history: ticks since that read
          lag              \* ticks since the sketch ran last

time == <<timer, timerOn, call, asked, start, elapsed, lag>>

TimeInit ==
  /\ timer = 0 /\ timerOn = FALSE
  /\ call = "none" /\ asked = 0 /\ start = 0 /\ elapsed = 0 /\ lag = 0

\* time_init(): whichever step fails, the timer does not run.
time_init == timerOn' \in BOOLEAN

micros == timer
millis == timer \div Milli
Now == IF call = "delay" THEN millis ELSE micros

Minus(a, b) == (a + Word - b) % Word

Waiting(f, argument, now) ==
  /\ call = "none"
  /\ call' = f /\ asked' = argument /\ start' = now
  /\ elapsed' = 0 /\ lag' = 0

delay(ms) == Waiting("delay", ms, millis) /\ UNCHANGED <<timer, timerOn>>
delayMicroseconds(us) == Waiting("delayMicroseconds", us, micros) /\ UNCHANGED <<timer, timerOn>>

\* Mutants of Passed: compared with the end of the wait; only just then.
PassedEnd == Now >= (start + asked) % Word
PassedEqual == Minus(Now, start) = asked

Passed == Minus(Now, start) >= asked

Returns == call' = "none" /\ asked' = 0 /\ start' = 0 /\ elapsed' = 0 /\ lag' = 0

\* One turn of the loop, which yields to no one.
Waited ==
  /\ call \in {"delay", "delayMicroseconds"}
  /\ IF Passed THEN Returns ELSE lag' = 0 /\ UNCHANGED <<call, asked, start, elapsed>>
  /\ UNCHANGED <<timer, timerOn>>

\* Time passes, as long as a waiting sketch is not too far behind.
Tick ==
  /\ timer' = IF timerOn THEN (timer + 1) % Word ELSE timer
  /\ IF call = "none" THEN UNCHANGED <<elapsed, lag>>
     ELSE /\ lag < MaxLag /\ lag' = lag + 1
          /\ elapsed' = IF elapsed < 2 * Word THEN elapsed + 1 ELSE elapsed
  /\ UNCHANGED <<timerOn, call, asked, start>>

TimeType ==
  /\ timer \in 0 .. Word - 1 /\ timerOn \in BOOLEAN
  /\ call \in {"none", "delay", "delayMicroseconds", "pulseIn"}
  /\ asked \in Waits /\ start \in 0 .. Word - 1
  /\ elapsed \in 0 .. 2 * Word /\ lag \in 0 .. MaxLag

(* delayMicroseconds() waits as long as asked and not longer, but for the  *)
(* time it is held up, also over a wrap of the timer; and so does delay(), *)
(* unless the timer wraps: millis() does not wrap at 2^32 as the           *)
(* difference does, and then it may return early.  time.c:75-97.           *)
DelaysRight ==
  [][/\ call = "delayMicroseconds" /\ call' = "none" =>
          asked <= elapsed /\ elapsed <= asked + MaxLag
     /\ call = "delay" /\ call' = "none" /\ millis >= start =>
          asked * Milli < elapsed + Milli /\ elapsed <= asked * Milli + MaxLag]_time
=============================================================================
