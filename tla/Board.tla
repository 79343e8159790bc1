------------------------------- MODULE Board --------------------------------
(***************************************************************************)
(* From reset to the sketch: SystemInit(), cybsp_init() with the clocks of *)
(* ClockSetup inside, main() and the task it makes; and then the calls of  *)
(* the sketch that wait on the time base.  The build defines CY_USING_HAL  *)
(* and DEBUG (mtb-lib-cxx-flags.txt): a failed assertion halts.            *)
(***************************************************************************)
EXTENDS ClockSetup, Pulse

VARIABLE bsp  \* result of cybsp_init() so far

timing == <<time, pulse>>
vars == <<step, clocks, bsp, timing>>

Init == ClocksInit /\ TimeInit /\ PulseInit /\ bsp = "ok"

SystemInit ==
  /\ At("system_init", "bsp") /\ SystemCoreClockUpdate
  /\ UNCHANGED <<tree, cold, waitFor, bsp, timing>>

\* cyhal_hwmgr_init and cyhal_syspm_init; the board is configured whatever
\* they return.
HalInit ==
  /\ At("bsp", "wait_states") /\ bsp' \in {"ok", "failed"}
  /\ UNCHANGED <<clocks, timing>>

\* The rest of cycfg_config_init() and the reservations, whose results are
\* not looked at, have no part in what follows.
RegisterSysclkCallback ==
  /\ At("configured", "assert")
  /\ bsp' \in {bsp, "failed"}
  /\ UNCHANGED <<clocks, timing>>

AssertBsp ==
  /\ At("assert", IF bsp = "ok" THEN "time_init" ELSE "halted")
  /\ UNCHANGED <<clocks, bsp, timing>>

TimeInitStep ==
  /\ At("time_init", "tasks") /\ time_init
  /\ UNCHANGED <<clocks, bsp, timer, call, asked, start, elapsed, lag, pulse>>

\* The result of xTaskCreate is not looked at: without memory the scheduler
\* runs without the sketch, or comes back to the assertion.
StartScheduler ==
  /\ At("tasks", "sketch") \/ At("tasks", "no_sketch") \/ At("tasks", "halted")
  /\ UNCHANGED <<clocks, bsp, timing>>

StartUp ==
  \/ SystemInit \/ HalInit
  \/ init_cycfg_system /\ UNCHANGED <<bsp, timing>>
  \/ RegisterSysclkCallback \/ AssertBsp \/ TimeInitStep \/ StartScheduler

Board == UNCHANGED <<step, clocks, bsp>>

Sketch ==
  /\ step = "sketch"
  /\ \/ (\E w \in Waits : delay(w) \/ delayMicroseconds(w)) /\ UNCHANGED pulse
     \/ Waited /\ UNCHANGED pulse
     \/ \E w \in Waits : pulseIn(w)
     \/ PulseStep
  /\ Board

Passes == step = "sketch" /\ (PulseTick \/ PinChanges) /\ Board

Next == StartUp \/ Sketch \/ Passes

Spec == Init /\ [][Next]_vars

\* The start-up and a call of the sketch go on, and so does time.
FairSpec ==
  /\ Spec /\ WF_vars(StartUp)
  /\ WF_vars(step = "sketch" /\ Waited /\ UNCHANGED pulse /\ Board)
  /\ WF_vars(step = "sketch" /\ PulseStep /\ Board)
  /\ WF_vars(step = "sketch" /\ PulseTick /\ Board)
-----------------------------------------------------------------------------
TypeOK ==
  /\ pll \in [1 .. 2 -> BOOLEAN] /\ source \in [Paths -> {"IMO", "WCO"}]
  /\ fll \in BOOLEAN /\ wco \in BOOLEAN /\ cold \in BOOLEAN
  /\ hf0 \in 0 .. 1 /\ div \in [hf0 : {1, 2}, fast : {0, 1}, peri : {0, 1}]
  /\ lf \in {"ILO", "WCO"} /\ bsp \in {"ok", "failed"}
  /\ TimeType /\ PulseType

(* The sketch never starts on a board that is not as configured: HF0 is at *)
(* its 100 MHz with the wait states and the SystemCoreClock of exactly     *)
(* that, the WCO drives CLK_LF, and cybsp_init() has succeeded.            *)
(* cycfg_system.c:184-188, 863-1201, main.cpp:47-58.                       *)
SketchReady ==
  step = "sketch" =>
    /\ HF0 = Hf0kHz /\ waitFor = Hf0kHz
    /\ SystemCoreClock = HF0 \div (1 + div.fast)
    /\ pll[1] /\ PathkHz(1) = 48000
    /\ lf = "WCO" /\ wco
    /\ bsp = "ok"

Answerable ==
  \/ call = "pulseIn"
  \/ call = "delayMicroseconds" /\ timerOn
  \/ call = "delay" /\ timerOn /\ asked * Milli < Word

(* Every wait of the sketch ends, provided that the timer was started,     *)
(* which nobody tests, and that a delay() is shorter than a period of the  *)
(* timer.  time.c:62-97, Pulse.cpp:42-81.                                  *)
WaitsEnd == Answerable ~> call = "none"
=============================================================================
