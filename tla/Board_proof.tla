----------------------------- MODULE Board_proof -----------------------------
(***************************************************************************)
(* Proofs about Board, for every time base and from every state of the     *)
(* clock tree that the boot code may leave.  The processor keeps a clock   *)
(* because no path is ever left on a WCO that does not run (Powered); what *)
(* the sketch finds is put together step by step (Reached).  The waits of  *)
(* the sketch end in time because the difference they look at is the true  *)
(* time as long as it fits the timer (WaitInv, PulseInv).                  *)
(***************************************************************************)
EXTENDS Board, Integers, TLAPS

BoardType ==
  /\ pll \in [1 .. 2 -> BOOLEAN] /\ source \in [Paths -> {"IMO", "WCO"}]
  /\ fll \in BOOLEAN /\ wco \in BOOLEAN /\ cold \in BOOLEAN
  /\ hf0 \in 0 .. 1 /\ div \in [hf0 : {1, 2}, fast : {0, 1}, peri : {0, 1}]
  /\ lf \in {"ILO", "WCO"} /\ bsp \in {"ok", "failed"}

Early == {"system_init", "bsp", "wait_states"}

Powered ==
  /\ \A p \in Paths : source[p] = "WCO" => wco = TRUE
  /\ cold = TRUE /\ step \in Early \cup {"power"} => \A p \in Paths : source[p] = "IMO"

\* The steps that follow one that matters to the sketch.
Started == {"time_init", "tasks", "sketch"}
Updated == {"reserve", "configured", "assert"} \cup Started
Accurate == {"update"} \cup Updated
PllOn == {"accurate"} \cup Accurate
Hf0On == {"pll0"} \cup PllOn
FllOn == {"hf0"} \cup Hf0On
LfOn == {"paths", "fll"} \cup FllOn
WcoOn == {"lf"} \cup LfOn
Divided == {"plls_off", "path1_imo", "leave_wco", "path0_imo", "hf0_path0", "wco"} \cup WcoOn

Reached ==
  /\ step \in Divided => div.fast = 0
  /\ step \in WcoOn => wco = TRUE
  /\ step \in LfOn => lf = "WCO"
  /\ step \in FllOn => fll = TRUE
  /\ step \in Hf0On => hf0 = 0 /\ div.hf0 = 1
  /\ step \in PllOn => pll[1] = TRUE
  /\ step \in Updated => SystemCoreClock = Hf0kHz
  /\ step \in Started => bsp = "ok"

Fast ==
  /\ step \in Early => HF0 <= waitFor
  /\ step \in Accurate => waitFor = Hf0kHz
  /\ step \notin Early \cup Accurate => waitFor \in {WorstkHz, Hf0kHz}

IInv == BoardType /\ Powered /\ Reached /\ Fast
-----------------------------------------------------------------------------
(* The frequencies of HF0.                                                 *)
LEMMA Frequencies ==
  /\ FllkHz = 100000 /\ PllkHz = 48000 /\ Imo = 8000 /\ Wco = 32
  /\ Hf0kHz = 100000 /\ WorstkHz = 150000 /\ Paths = 0 .. 5
BY DEF FllkHz, PllkHz, Imo, Wco, Hf0kHz, WorstkHz, Paths

LEMMA Clocked ==
  ASSUME BoardType, Powered
  PROVE  0 < HF0 /\ HF0 <= Hf0kHz
<1>1. PathkHz(hf0) \in {100000, 48000, 8000, 32}
  <2>1. hf0 \in Paths /\ source[hf0] \in {"IMO", "WCO"}
    BY Frequencies DEF BoardType
  <2>2. source[hf0] = "IMO" \/ wco = TRUE
    BY <2>1 DEF Powered
  <2>3. QED BY <2>2, Frequencies DEF PathkHz
<1>2. div.hf0 \in {1, 2}
  BY DEF BoardType
<1>3. QED BY <1>1, <1>2, Frequencies DEF HF0

\* Nothing of the board is touched.
LEMMA BoardSame ==
  ASSUME IInv, UNCHANGED <<clocks, bsp>>, step' = step
  PROVE  IInv'
BY DEF IInv, BoardType, Powered, Reached, Fast, HF0, PathkHz, clocks, tree
-----------------------------------------------------------------------------
LEMMA InitIInv == Init => IInv
<1> SUFFICES ASSUME Init PROVE IInv
  OBVIOUS
<1> USE DEF Init, ClocksInit
<1>1. BoardType
  BY DEF BoardType, Paths
<1>2. Powered
  BY DEF Powered
<1>3. Reached
  BY DEF Reached, Divided, WcoOn, LfOn, FllOn, Hf0On, PllOn, Accurate, Updated, Started
<1>4. Fast
  BY DEF Fast, Early, Accurate, Updated, Started
<1>5. QED BY <1>1, <1>2, <1>3, <1>4 DEF IInv

LEMMA StartUpStep ==
  ASSUME IInv, StartUp
  PROVE  IInv'
<1> USE DEF At, Fails, clocks, tree
<1> USE DEF Early, Divided, WcoOn, LfOn, FllOn, Hf0On, PllOn, Accurate, Updated, Started
<1>1. CASE SystemInit
  <2>1. BoardType'
    BY <1>1 DEF SystemInit, IInv, BoardType, Paths
  <2>2. Powered'
    BY <1>1 DEF SystemInit, IInv, BoardType, Powered
  <2>3. Reached'
    BY <1>1 DEF SystemInit, SystemCoreClockUpdate, IInv, BoardType, Reached
  <2>4. Fast'
    BY <1>1 DEF SystemInit, IInv, BoardType, Fast, HF0, PathkHz
  <2>5. QED BY <2>1, <2>2, <2>3, <2>4 DEF IInv
<1>2. CASE HalInit
  <2>1. BoardType'
    BY <1>2 DEF HalInit, IInv, BoardType, Paths
  <2>2. Powered'
    BY <1>2 DEF HalInit, IInv, BoardType, Powered
  <2>3. Reached'
    BY <1>2 DEF HalInit, IInv, BoardType, Reached
  <2>4. Fast'
    BY <1>2 DEF HalInit, IInv, BoardType, Fast, HF0, PathkHz
  <2>5. QED BY <2>1, <2>2, <2>3, <2>4 DEF IInv
<1>3. CASE WorstWaitStates /\ UNCHANGED bsp
  <2>1. BoardType'
    BY <1>3 DEF WorstWaitStates, IInv, BoardType, Paths
  <2>2. Powered'
    BY <1>3 DEF WorstWaitStates, IInv, BoardType, Powered
  <2>3. Reached'
    BY <1>3 DEF WorstWaitStates, IInv, BoardType, Reached
  <2>4. Fast'
    BY <1>3 DEF WorstWaitStates, IInv, BoardType, Fast, HF0, PathkHz
  <2>5. QED BY <2>1, <2>2, <2>3, <2>4 DEF IInv
<1>4. CASE init_cycfg_power /\ UNCHANGED bsp
  <2>1. BoardType'
    BY <1>4 DEF init_cycfg_power, IInv, BoardType, Paths
  <2>2. Powered'
    BY <1>4 DEF init_cycfg_power, IInv, BoardType, Powered
  <2>3. Reached'
    BY <1>4 DEF init_cycfg_power, IInv, BoardType, Reached
  <2>4. Fast'
    BY <1>4 DEF init_cycfg_power, IInv, BoardType, Fast, HF0, PathkHz
  <2>5. QED BY <2>1, <2>2, <2>3, <2>4 DEF IInv
<1>5. CASE FllDeInit /\ UNCHANGED bsp
  <2>1. BoardType'
    BY <1>5 DEF FllDeInit, IInv, BoardType, Paths
  <2>2. Powered'
    BY <1>5 DEF FllDeInit, IInv, BoardType, Powered
  <2>3. Reached'
    BY <1>5 DEF FllDeInit, IInv, BoardType, Reached
  <2>4. Fast'
    BY <1>5 DEF FllDeInit, IInv, BoardType, Fast, HF0, PathkHz
  <2>5. QED BY <2>1, <2>2, <2>3, <2>4 DEF IInv
<1>6. CASE ResetDividers /\ UNCHANGED bsp
  <2>1. BoardType'
    BY <1>6 DEF ResetDividers, IInv, BoardType, Paths
  <2>2. Powered'
    BY <1>6 DEF ResetDividers, IInv, BoardType, Powered
  <2>3. Reached'
    BY <1>6 DEF ResetDividers, IInv, BoardType, Reached
  <2>4. Fast'
    BY <1>6 DEF ResetDividers, IInv, BoardType, Fast, HF0, PathkHz
  <2>5. QED BY <2>1, <2>2, <2>3, <2>4 DEF IInv
<1>7. CASE DisablePlls /\ UNCHANGED bsp
  <2>1. BoardType'
    BY <1>7 DEF DisablePlls, IInv, BoardType, Paths
  <2>2. Powered'
    BY <1>7 DEF DisablePlls, IInv, BoardType, Powered
  <2>3. Reached'
    BY <1>7 DEF DisablePlls, IInv, BoardType, Reached
  <2>4. Fast'
    BY <1>7 DEF DisablePlls, IInv, BoardType, Fast, HF0, PathkHz
  <2>5. QED BY <2>1, <2>2, <2>3, <2>4 DEF IInv
<1>8. CASE Path1FromImo /\ UNCHANGED bsp
  <2>1. BoardType'
    BY <1>8 DEF Path1FromImo, IInv, BoardType, Paths
  <2>2. Powered'
    BY <1>8 DEF Path1FromImo, IInv, BoardType, Powered
  <2>3. Reached'
    BY <1>8 DEF Path1FromImo, IInv, BoardType, Reached
  <2>4. Fast'
    BY <1>8 DEF Path1FromImo, IInv, BoardType, Fast, HF0, PathkHz
  <2>5. QED BY <2>1, <2>2, <2>3, <2>4 DEF IInv
<1>9. CASE LeaveWco /\ UNCHANGED bsp
  <2>1. BoardType'
    BY <1>9 DEF LeaveWco, IInv, BoardType, Paths
  <2>2. Powered'
    BY <1>9 DEF LeaveWco, IInv, BoardType, Powered
  <2>3. Reached'
    BY <1>9 DEF LeaveWco, IInv, BoardType, Reached
  <2>4. Fast'
    BY <1>9 DEF LeaveWco, IInv, BoardType, Fast, HF0, PathkHz
  <2>5. QED BY <2>1, <2>2, <2>3, <2>4 DEF IInv
<1>10. CASE Path0FromImo /\ UNCHANGED bsp
  <2>1. BoardType'
    BY <1>10 DEF Path0FromImo, IInv, BoardType, Paths
  <2>2. Powered'
    BY <1>10 DEF Path0FromImo, IInv, BoardType, Powered
  <2>3. Reached'
    BY <1>10 DEF Path0FromImo, IInv, BoardType, Reached
  <2>4. Fast'
    BY <1>10 DEF Path0FromImo, IInv, BoardType, Fast, HF0, PathkHz
  <2>5. QED BY <2>1, <2>2, <2>3, <2>4 DEF IInv
<1>11. CASE Hf0FromPath0 /\ UNCHANGED bsp
  <2>1. BoardType'
    BY <1>11 DEF Hf0FromPath0, IInv, BoardType, Paths
  <2>2. Powered'
    BY <1>11 DEF Hf0FromPath0, IInv, BoardType, Powered
  <2>3. Reached'
    BY <1>11 DEF Hf0FromPath0, IInv, BoardType, Reached
  <2>4. Fast'
    BY <1>11 DEF Hf0FromPath0, IInv, BoardType, Fast, HF0, PathkHz
  <2>5. QED BY <2>1, <2>2, <2>3, <2>4 DEF IInv
<1>12. CASE WcoInit /\ UNCHANGED bsp
  <2>1. BoardType'
    BY <1>12 DEF WcoInit, IInv, BoardType, Paths
  <2>2. Powered'
    BY <1>12 DEF WcoInit, IInv, BoardType, Powered
  <2>3. Reached'
    BY <1>12 DEF WcoInit, IInv, BoardType, Reached
  <2>4. Fast'
    BY <1>12 DEF WcoInit, IInv, BoardType, Fast, HF0, PathkHz
  <2>5. QED BY <2>1, <2>2, <2>3, <2>4 DEF IInv
<1>13. CASE ClkLfInit /\ UNCHANGED bsp
  <2>1. BoardType'
    BY <1>13 DEF ClkLfInit, IInv, BoardType, Paths
  <2>2. Powered'
    BY <1>13 DEF ClkLfInit, IInv, BoardType, Powered
  <2>3. Reached'
    BY <1>13 DEF ClkLfInit, IInv, BoardType, Reached
  <2>4. Fast'
    BY <1>13 DEF ClkLfInit, IInv, BoardType, Fast, HF0, PathkHz
  <2>5. QED BY <2>1, <2>2, <2>3, <2>4 DEF IInv
<1>14. CASE ClkPathsInit /\ UNCHANGED bsp
  <2>1. BoardType'
    BY <1>14 DEF ClkPathsInit, IInv, BoardType, Paths
  <2>2. Powered'
    BY <1>14 DEF ClkPathsInit, IInv, BoardType, Powered
  <2>3. Reached'
    BY <1>14 DEF ClkPathsInit, IInv, BoardType, Reached
  <2>4. Fast'
    BY <1>14 DEF ClkPathsInit, IInv, BoardType, Fast, HF0, PathkHz
  <2>5. QED BY <2>1, <2>2, <2>3, <2>4 DEF IInv
<1>15. CASE FllInit /\ UNCHANGED bsp
  <2>1. BoardType'
    BY <1>15 DEF FllInit, IInv, BoardType, Paths
  <2>2. Powered'
    BY <1>15 DEF FllInit, IInv, BoardType, Powered
  <2>3. Reached'
    BY <1>15 DEF FllInit, IInv, BoardType, Reached
  <2>4. Fast'
    BY <1>15 DEF FllInit, IInv, BoardType, Fast, HF0, PathkHz
  <2>5. QED BY <2>1, <2>2, <2>3, <2>4 DEF IInv
<1>16. CASE ClkHf0Init /\ UNCHANGED bsp
  <2>1. BoardType'
    BY <1>16 DEF ClkHf0Init, IInv, BoardType, Paths
  <2>2. Powered'
    BY <1>16 DEF ClkHf0Init, IInv, BoardType, Powered
  <2>3. Reached'
    BY <1>16 DEF ClkHf0Init, IInv, BoardType, Reached
  <2>4. Fast'
    BY <1>16 DEF ClkHf0Init, IInv, BoardType, Fast, HF0, PathkHz
  <2>5. QED BY <2>1, <2>2, <2>3, <2>4 DEF IInv
<1>17. CASE Pll0Init /\ UNCHANGED bsp
  <2>1. BoardType'
    BY <1>17 DEF Pll0Init, IInv, BoardType, Paths
  <2>2. Powered'
    BY <1>17 DEF Pll0Init, IInv, BoardType, Powered
  <2>3. Reached'
    BY <1>17 DEF Pll0Init, IInv, BoardType, Reached
  <2>4. Fast'
    BY <1>17 DEF Pll0Init, IInv, BoardType, Fast, HF0, PathkHz
  <2>5. QED BY <2>1, <2>2, <2>3, <2>4 DEF IInv
<1>18. CASE AccurateWaitStates /\ UNCHANGED bsp
  <2>1. BoardType'
    BY <1>18 DEF AccurateWaitStates, IInv, BoardType, Paths
  <2>2. Powered'
    BY <1>18 DEF AccurateWaitStates, IInv, BoardType, Powered
  <2>3. Reached'
    BY <1>18 DEF AccurateWaitStates, IInv, BoardType, Reached
  <2>4. Fast'
    BY <1>18 DEF AccurateWaitStates, IInv, BoardType, Fast, HF0, PathkHz
  <2>5. QED BY <2>1, <2>2, <2>3, <2>4 DEF IInv
<1>19. CASE UpdateCoreClock /\ UNCHANGED bsp
  <2>1. BoardType'
    BY <1>19 DEF UpdateCoreClock, IInv, BoardType, Paths
  <2>2. Powered'
    BY <1>19 DEF UpdateCoreClock, IInv, BoardType, Powered
  <2>3. Reached'
    <3>1. HF0 = Hf0kHz
      BY <1>19, Frequencies DEF UpdateCoreClock, IInv, Reached, HF0, PathkHz
    <3>2. div.fast = 0
      BY <1>19 DEF UpdateCoreClock, IInv, Reached
    <3>3. SystemCoreClock' = Hf0kHz
      BY <1>19, <3>1, <3>2, Frequencies DEF UpdateCoreClock, SystemCoreClockUpdate
    <3>4. QED
      BY <1>19, <3>3 DEF UpdateCoreClock, IInv, BoardType, Reached
  <2>4. Fast'
    BY <1>19 DEF UpdateCoreClock, IInv, BoardType, Fast, HF0, PathkHz
  <2>5. QED BY <2>1, <2>2, <2>3, <2>4 DEF IInv
<1>20. CASE ReservePathmuxes /\ UNCHANGED bsp
  <2>1. BoardType'
    BY <1>20 DEF ReservePathmuxes, IInv, BoardType, Paths
  <2>2. Powered'
    BY <1>20 DEF ReservePathmuxes, IInv, BoardType, Powered
  <2>3. Reached'
    BY <1>20 DEF ReservePathmuxes, IInv, BoardType, Reached
  <2>4. Fast'
    BY <1>20 DEF ReservePathmuxes, IInv, BoardType, Fast, HF0, PathkHz
  <2>5. QED BY <2>1, <2>2, <2>3, <2>4 DEF IInv
<1>21. CASE RegisterSysclkCallback
  <2>1. BoardType'
    BY <1>21 DEF RegisterSysclkCallback, IInv, BoardType, Paths
  <2>2. Powered'
    BY <1>21 DEF RegisterSysclkCallback, IInv, BoardType, Powered
  <2>3. Reached'
    BY <1>21 DEF RegisterSysclkCallback, IInv, BoardType, Reached
  <2>4. Fast'
    BY <1>21 DEF RegisterSysclkCallback, IInv, BoardType, Fast, HF0, PathkHz
  <2>5. QED BY <2>1, <2>2, <2>3, <2>4 DEF IInv
<1>22. CASE AssertBsp
  <2>1. BoardType'
    BY <1>22 DEF AssertBsp, IInv, BoardType, Paths
  <2>2. Powered'
    BY <1>22 DEF AssertBsp, IInv, BoardType, Powered
  <2>3. Reached'
    BY <1>22 DEF AssertBsp, IInv, BoardType, Reached
  <2>4. Fast'
    BY <1>22 DEF AssertBsp, IInv, BoardType, Fast, HF0, PathkHz
  <2>5. QED BY <2>1, <2>2, <2>3, <2>4 DEF IInv
<1>23. CASE TimeInitStep
  <2>1. BoardType'
    BY <1>23 DEF TimeInitStep, IInv, BoardType, Paths
  <2>2. Powered'
    BY <1>23 DEF TimeInitStep, IInv, BoardType, Powered
  <2>3. Reached'
    BY <1>23 DEF TimeInitStep, IInv, BoardType, Reached
  <2>4. Fast'
    BY <1>23 DEF TimeInitStep, IInv, BoardType, Fast, HF0, PathkHz
  <2>5. QED BY <2>1, <2>2, <2>3, <2>4 DEF IInv
<1>24. CASE StartScheduler
  <2>1. BoardType'
    BY <1>24 DEF StartScheduler, IInv, BoardType, Paths
  <2>2. Powered'
    BY <1>24 DEF StartScheduler, IInv, BoardType, Powered
  <2>3. Reached'
    BY <1>24 DEF StartScheduler, IInv, BoardType, Reached
  <2>4. Fast'
    BY <1>24 DEF StartScheduler, IInv, BoardType, Fast, HF0, PathkHz
  <2>5. QED BY <2>1, <2>2, <2>3, <2>4 DEF IInv
<1>25. QED
  BY <1>1, <1>2, <1>3, <1>4, <1>5, <1>6, <1>7, <1>8, <1>9, <1>10, <1>11, <1>12, <1>13, <1>14, <1>15, <1>16, <1>17, <1>18, <1>19, <1>20, <1>21, <1>22, <1>23, <1>24
  DEF StartUp, init_cycfg_system, timing

LEMMA NextIInv == IInv /\ [Next]_vars => IInv'
<1> SUFFICES ASSUME IInv, [Next]_vars PROVE IInv'
  OBVIOUS
<1>1. CASE Sketch \/ Passes \/ UNCHANGED vars
  <2>1. UNCHANGED <<clocks, bsp>> /\ step' = step
    BY <1>1 DEF Sketch, Passes, Board, vars
  <2>2. QED BY <2>1, BoardSame
<1>2. QED BY <1>1, StartUpStep DEF Next

LEMMA Invariance == Spec => []IInv
BY InitIInv, NextIInv, PTL DEF Spec

(* The processor is never without a clock or with one too fast for the     *)
(* flash, from every state the boot code may leave.                        *)
(* cycfg_system.c:772-898, 1000-1003, 1153.                                *)
THEOREM CoreIsFed == Spec => []CoreFed
<1>1. IInv => CoreFed
  <2> SUFFICES ASSUME IInv PROVE CoreFed
    OBVIOUS
  <2>1. 0 < HF0 /\ HF0 <= Hf0kHz
    BY Clocked DEF IInv
  <2>2. HF0 <= waitFor \/ waitFor \in {WorstkHz, Hf0kHz}
    BY DEF IInv, Fast
  <2>3. CASE HF0 <= waitFor
    BY <2>1, <2>3 DEF CoreFed
  <2>4. CASE waitFor \in {WorstkHz, Hf0kHz}
    <3>1. HF0 \in Nat
      BY Frequencies DEF HF0, PathkHz, IInv, BoardType
    <3>2. QED BY <2>1, <2>4, <3>1, Frequencies DEF CoreFed
  <2>5. QED BY <2>2, <2>3, <2>4
<1>2. QED BY <1>1, Invariance, PTL

(* The sketch finds the clocks of the configuration and a cybsp_init()     *)
(* that has succeeded.  cycfg_system.c:184-188, 863-1201, main.cpp:47-58.  *)
THEOREM SketchIsReady == Spec => []SketchReady
<1>1. IInv => SketchReady
  <2> SUFFICES ASSUME IInv, step = "sketch" PROVE SketchReady
    BY DEF SketchReady
  <2>1. /\ div.fast = 0 /\ wco = TRUE /\ lf = "WCO" /\ fll = TRUE /\ hf0 = 0 /\ div.hf0 = 1
        /\ pll[1] = TRUE /\ SystemCoreClock = Hf0kHz /\ bsp = "ok" /\ waitFor = Hf0kHz
    BY DEF IInv, Reached, Fast, Divided, WcoOn, LfOn, FllOn, Hf0On, PllOn, Accurate, Updated, Started
  <2>2. HF0 = Hf0kHz /\ PathkHz(1) = 48000
    BY <2>1, Frequencies DEF HF0, PathkHz
  <2>3. SystemCoreClock = HF0 \div (1 + div.fast)
    BY <2>1, <2>2, Frequencies
  <2>4. QED BY <2>1, <2>2, <2>3 DEF SketchReady
<1>2. QED BY <1>1, Invariance, PTL
-----------------------------------------------------------------------------
(* The time base and pulseIn() keep their types.                           *)
LEMMA Quotient ==
  ASSUME NEW m \in Nat \ {0}, NEW n \in Nat, NEW a \in 0 .. n
  PROVE  a \div m \in 0 .. n
OBVIOUS

LEMMA Remainder ==
  ASSUME NEW w \in Nat \ {0}, NEW a \in Nat
  PROVE  a % w \in 0 .. w - 1
OBVIOUS

LEMMA WaitingType ==
  ASSUME TimeType, NEW f \in {"delay", "delayMicroseconds", "pulseIn"}, NEW w \in Waits,
         NEW now \in 0 .. Word - 1, Waiting(f, w, now), UNCHANGED <<timer, timerOn>>
  PROVE  TimeType'
<1>1. 0 \in 0 .. 2 * Word /\ 0 \in 0 .. MaxLag
  BY TimeAssumption
<1>2. QED BY <1>1 DEF TimeType, Waiting

LEMMA ReturnsType ==
  ASSUME TimeType, Returns, UNCHANGED <<timer, timerOn>>
  PROVE  TimeType'
<1>1. 0 \in 0 .. 2 * Word /\ 0 \in 0 .. MaxLag /\ 0 \in 0 .. Word - 1 /\ 0 \in Waits
  BY TimeAssumption
<1>2. QED BY <1>1 DEF TimeType, Returns

\* A turn of a loop that goes on.
LEMMA LoopType ==
  ASSUME TimeType, lag' = 0, start' \in {start, timerObj}, timerObj \in 0 .. Word - 1,
         UNCHANGED <<timer, timerOn, call, asked, elapsed>>
  PROVE  TimeType'
<1>1. 0 \in 0 .. MaxLag
  BY TimeAssumption
<1>2. QED BY <1>1 DEF TimeType

LEMMA TickType ==
  ASSUME TimeType, Tick
  PROVE  TimeType'
<1>1. timer' \in 0 .. Word - 1
  <2>1. timer + 1 \in Nat /\ timer \in 0 .. Word - 1
    BY TimeAssumption DEF TimeType
  <2>2. (timer + 1) % Word \in 0 .. Word - 1
    BY <2>1, TimeAssumption, Remainder
  <2>3. QED BY <2>1, <2>2 DEF Tick
<1>2. elapsed' \in 0 .. 2 * Word /\ lag' \in 0 .. MaxLag
  <2>1. elapsed < 2 * Word => elapsed + 1 \in 0 .. 2 * Word
    BY TimeAssumption DEF TimeType
  <2>2. lag < MaxLag => lag + 1 \in 0 .. MaxLag
    BY TimeAssumption DEF TimeType
  <2>3. elapsed \in 0 .. 2 * Word /\ lag \in 0 .. MaxLag
    BY DEF TimeType
  <2>4. QED BY <2>1, <2>2, <2>3 DEF Tick
<1>3. QED BY <1>1, <1>2 DEF TimeType, Tick

LEMMA SketchType ==
  ASSUME TimeType, PulseType, Sketch
  PROVE  TimeType' /\ PulseType'
<1>1. timer \in 0 .. Word - 1 /\ timer \div Milli \in 0 .. Word - 1 /\ 0 \in 0 .. Word - 1
      /\ 0 \in 0 .. 2 * Word
  <2>1. Word - 1 \in Nat /\ timer \in 0 .. Word - 1 /\ Milli \in Nat \ {0}
    BY TimeAssumption DEF TimeType
  <2>2. timer \div Milli \in 0 .. Word - 1
    BY <2>1, Quotient
  <2>3. QED BY <2>1, <2>2, TimeAssumption
<1>2. ASSUME NEW w \in Waits, delay(w) \/ delayMicroseconds(w), UNCHANGED pulse
      PROVE  TimeType' /\ PulseType'
  BY <1>1, <1>2, WaitingType DEF delay, delayMicroseconds, millis, micros, pulse, PulseType
<1>3. CASE Waited /\ UNCHANGED pulse
  <2>1. TimeType'
    <3>1. CASE Returns
      BY <1>3, <3>1, ReturnsType DEF Waited
    <3>2. CASE lag' = 0 /\ UNCHANGED <<call, asked, start, elapsed>>
      BY <1>3, <3>2, LoopType DEF Waited, PulseType
    <3>3. QED BY <1>3, <3>1, <3>2 DEF Waited
  <2>2. QED BY <1>3, <2>1 DEF pulse, PulseType
<1>4. ASSUME NEW w \in Waits, pulseIn(w)
      PROVE  TimeType' /\ PulseType'
  BY <1>1, <1>4, WaitingType DEF pulseIn, PulseType
<1>5. CASE PulseStep
  <2>1. UNCHANGED <<timer, timerOn, level>>
    BY <1>5 DEF PulseStep
  <2>2. ASSUME PulseReturns
        PROVE  TimeType' /\ PulseType'
    BY <1>1, <2>1, <2>2, ReturnsType DEF PulseReturns, PulseType
  <2>3. ASSUME NEW w \in {"start", "end"}, NEW d \in BOOLEAN, ReadPin(w, d)
        PROVE  TimeType' /\ PulseType'
    BY <2>1, <2>3, LoopType DEF ReadPin, PulseType
  <2>4. ASSUME NEW w \in {"start", "end"}, ReadTimer(w)
        PROVE  TimeType' /\ PulseType'
    <3>1. CASE GoesOn(w)
      BY <2>1, <3>1, LoopType DEF GoesOn, PulseType
    <3>2. QED BY <2>2, <2>4, <3>1 DEF ReadTimer
  <2>5. CASE MarkStart
    BY <2>1, <2>5, LoopType DEF MarkStart, Mark, PulseType
  <2>6. CASE MarkEnd
    BY <2>2, <2>6 DEF MarkEnd
  <2>7. QED BY <1>5, <2>3, <2>4, <2>5, <2>6 DEF PulseStep
<1>6. QED BY <1>2, <1>3, <1>4, <1>5 DEF Sketch

LEMMA PassesType ==
  ASSUME TimeType, PulseType, Passes
  PROVE  TimeType' /\ PulseType'
<1>1. CASE PulseTick
  <2>1. TimeType'
    BY <1>1, TickType DEF PulseTick
  <2>2. timerObj' \in 0 .. Word - 1
    <3>1. timerObj + 1 \in Nat /\ timerObj \in 0 .. Word - 1
      BY TimeAssumption DEF PulseType
    <3>2. (timerObj + 1) % Word \in 0 .. Word - 1
      BY <3>1, TimeAssumption, Remainder
    <3>3. QED BY <1>1, <3>1, <3>2 DEF PulseTick
  <2>3. high' \in 0 .. 2 * Word
    <3>1. high < 2 * Word => high + 1 \in 0 .. 2 * Word
      BY TimeAssumption DEF PulseType
    <3>2. high \in 0 .. 2 * Word
      BY DEF PulseType
    <3>3. high' \in {high} \/ (high < 2 * Word /\ high' = high + 1)
      BY <1>1 DEF PulseTick
    <3>4. QED BY <3>1, <3>2, <3>3
  <2>4. QED BY <1>1, <2>1, <2>2, <2>3 DEF PulseTick, PulseType
<1>2. CASE PinChanges
  <2>1. edges' \in 0 .. 3
    <3>1. edges \in 0 .. 3
      BY DEF PulseType
    <3>2. edges' = edges \/ (edges < 3 /\ edges' = edges + 1)
      BY <1>2 DEF PinChanges
    <3>3. QED BY <3>1, <3>2
  <2>2. QED BY <1>2, <2>1 DEF PinChanges, time, TimeType, PulseType
<1>3. QED BY <1>1, <1>2 DEF Passes

(* Every variable keeps its type, the waits and the counts of the timers   *)
(* with it.  time.c, Pulse.cpp, cycfg_system.c.                            *)
THEOREM TypeCorrect == Spec => []TypeOK
<1>1. Init => TimeType /\ PulseType
  <2> SUFFICES ASSUME Init PROVE TimeType /\ PulseType
    OBVIOUS
  <2>1. /\ 0 \in 0 .. 2 * Word /\ 0 \in 0 .. MaxLag /\ 0 \in 0 .. Word - 1
        /\ 0 \in Waits /\ 0 \in 0 .. 3
    BY TimeAssumption
  <2>2. QED BY <2>1 DEF Init, TimeInit, PulseInit, TimeType, PulseType
<1>2. TimeType /\ PulseType /\ [Next]_vars => TimeType' /\ PulseType'
  <2> SUFFICES ASSUME TimeType, PulseType, [Next]_vars PROVE TimeType' /\ PulseType'
    OBVIOUS
  <2>1. CASE UNCHANGED timing
    BY <2>1 DEF timing, time, pulse, TimeType, PulseType
  <2>2. CASE TimeInitStep
    BY <2>2 DEF TimeInitStep, time_init, pulse, TimeType, PulseType
  <2>3. CASE StartUp /\ ~TimeInitStep
    BY <2>1, <2>3 DEF StartUp, SystemInit, HalInit, RegisterSysclkCallback, AssertBsp,
       StartScheduler
  <2>4. QED BY <2>1, <2>2, <2>3, SketchType, PassesType DEF Next, vars
<1>3. IInv /\ TimeType /\ PulseType => TypeOK
  BY DEF IInv, BoardType, TypeOK
<1>4. QED BY <1>1, <1>2, <1>3, Invariance, PTL DEF Spec
-----------------------------------------------------------------------------
(* Arithmetic of the timer.                                                *)
LEMMA RemainderOfLess ==
  ASSUME NEW n \in Nat \ {0}, NEW a \in 0 .. n - 1
  PROVE  a % n = a
OBVIOUS

LEMMA RemainderOnce ==
  ASSUME NEW n \in Nat \ {0}, NEW a \in n .. n + n - 1
  PROVE  a % n = a - n
OBVIOUS

\* The difference that the loops take, and the next count.
LEMMA MinusIs ==
  ASSUME NEW a \in 0 .. Word - 1, NEW b \in 0 .. Word - 1
  PROVE  Minus(a, b) = IF b <= a THEN a - b ELSE a + Word - b
<1>0. Word \in Nat \ {0}
  BY TimeAssumption
<1>1. CASE b <= a
  <2>1. a + Word - b \in Word .. Word + Word - 1
    BY <1>0, <1>1
  <2>2. (a + Word - b) % Word = (a + Word - b) - Word
    BY <1>0, <2>1, RemainderOnce
  <2>3. QED BY <1>0, <1>1, <2>2 DEF Minus
<1>2. CASE ~(b <= a)
  <2>1. a + Word - b \in 0 .. Word - 1
    BY <1>0, <1>2
  <2>2. (a + Word - b) % Word = a + Word - b
    BY <1>0, <2>1, RemainderOfLess
  <2>3. QED BY <1>0, <1>2, <2>2 DEF Minus
<1>3. QED BY <1>1, <1>2

LEMMA NextCount ==
  ASSUME NEW a \in 0 .. Word - 1
  PROVE  (a + 1) % Word = IF a + 1 < Word THEN a + 1 ELSE 0
<1>0. Word \in Nat \ {0}
  BY TimeAssumption
<1>1. CASE a + 1 < Word
  <2>1. a + 1 \in 0 .. Word - 1
    BY <1>0, <1>1
  <2>2. QED BY <1>0, <1>1, <2>1, RemainderOfLess
<1>2. CASE a + 1 = Word
  <2>1. a + 1 \in Word .. Word + Word - 1
    BY <1>0, <1>2
  <2>2. (a + 1) % Word = (a + 1) - Word
    BY <1>0, <2>1, RemainderOnce
  <2>3. QED BY <1>0, <1>2, <2>2
<1>3. QED BY <1>0, <1>1, <1>2

LEMMA MillisOf ==
  ASSUME NEW m \in Nat \ {0}, NEW a \in Nat
  PROVE  a \div m \in Nat /\ (a \div m) * m <= a /\ a < (a \div m) * m + m
OBVIOUS

LEMMA NotLess ==
  ASSUME NEW m \in Nat \ {0}, NEW a \in Nat
  PROVE  a <= a * m
OBVIOUS

LEMMA Scaled ==
  ASSUME NEW m \in Nat \ {0}, NEW a \in Int, NEW b \in Int
  PROVE  /\ a <= b <=> a * m <= b * m
         /\ (a + 1) * m = a * m + m /\ (a + b) * m = a * m + b * m
OBVIOUS
-----------------------------------------------------------------------------
(* The waits.  For what they promise, arguments must leave room for the    *)
(* time the sketch may be held up: what is not seen within a turn of the   *)
(* timer is seen a turn later.                                             *)
DelaysFit ==
  \A w \in Waits :
    /\ w + MaxLag <= Word
    /\ w * Milli < Word => w * Milli + MaxLag <= Word

PulsesFit == \A w \in Waits : w + 4 * MaxLag < Word

Delays == {"delay", "delayMicroseconds"}

\* Nothing waits before the sketch runs, and pulseIn() is nowhere outside its call.
Calling ==
  /\ step # "sketch" => call = "none" /\ timer = 0
  /\ call # "pulseIn" => at = Nowhere

\* A timer that was not started, and a wait for nothing, which ends at its
\* first look at the timer.
Stopped ==
  /\ timerOn = FALSE => timer = 0
  /\ call \in Delays /\ timerOn = FALSE => start = 0
  /\ call \in Delays /\ asked = 0 => elapsed = lag

\* The difference is the true time, and at the last look it was too short.
MicrosWait ==
  call = "delayMicroseconds" /\ timerOn = TRUE /\ asked > 0 =>
    /\ Minus(timer, start) = elapsed
    /\ elapsed = lag \/ elapsed < asked + lag

\* delay() has not seen the timer wrap: the same, to within a millisecond.
Unwrapped ==
  /\ elapsed + start * Milli <= timer /\ timer < elapsed + start * Milli + Milli
  /\ elapsed = lag \/ timer < (start + asked) * Milli + lag
  /\ lag <= elapsed

\* It should have ended by now: the look that sees it comes before millis()
\* is at start again.
Wrapped == timer + Word < (start + asked) * Milli + lag

\* The timer wraps before millis() gets that far.
Unreachable == Word <= (start + asked) * Milli

MillisWait ==
  call = "delay" /\ timerOn = TRUE /\ asked > 0 => Unreachable \/ Unwrapped \/ Wrapped

WaitInv == Stopped /\ MicrosWait /\ MillisWait
-----------------------------------------------------------------------------
\* The types, as the arithmetic needs them.
LEMMA WaitNumbers ==
  ASSUME TimeType, DelaysFit
  PROVE  /\ Word \in Nat /\ Word > 0 /\ Milli \in Nat \ {0} /\ MaxLag \in Nat
         /\ timer \in Nat /\ timer < Word /\ start \in Nat /\ start < Word
         /\ asked \in Nat /\ elapsed \in Nat /\ lag \in Nat /\ lag <= MaxLag
         /\ asked < Word /\ asked + MaxLag <= Word
         /\ asked * Milli < Word => asked * Milli + MaxLag <= Word
<1>1. asked \in Waits /\ asked \in Nat
  BY TimeAssumption DEF TimeType
<1>2. QED BY <1>1, TimeAssumption DEF TimeType, DelaysFit

\* One lemma for each step of a wait.
LEMMA WaitCall ==
  ASSUME TimeType, DelaysFit, WaitInv, NEW w \in Waits, delay(w) \/ delayMicroseconds(w)
  PROVE  WaitInv'
<1>0. Word \in Nat /\ Word > 0 /\ Milli \in Nat \ {0} /\ timer \in Nat /\ timer < Word
  BY WaitNumbers
<1>1. timer \div Milli \in Nat /\ (timer \div Milli) * Milli <= timer
      /\ timer < (timer \div Milli) * Milli + Milli
  BY <1>0, MillisOf
<1>2. timer = 0 => timer \div Milli = 0
  BY <1>0
<1>3. Stopped'
  BY <1>2 DEF WaitInv, Stopped, delay, delayMicroseconds, Waiting, millis, micros
<1>4. MicrosWait'
  <2>1. CASE delayMicroseconds(w)
    <3>1. timer \in 0 .. Word - 1
      BY <1>0
    <3>2. Minus(timer, timer) = 0
      BY <1>0, <3>1, MinusIs
    <3>3. QED BY <2>1, <3>2 DEF MicrosWait, delayMicroseconds, Waiting, micros
  <2>2. CASE delay(w)
    BY <2>2 DEF MicrosWait, delay, Waiting
  <2>3. QED BY <2>1, <2>2
<1>5. MillisWait'
  <2>1. CASE delay(w)
    <3>1. elapsed' = 0 /\ lag' = 0 /\ start' = timer \div Milli /\ timer' = timer
      BY <2>1 DEF delay, Waiting, millis
    <3>2. Unwrapped'
      BY <1>0, <1>1, <3>1 DEF Unwrapped
    <3>3. QED BY <3>2 DEF MillisWait
  <2>2. CASE delayMicroseconds(w)
    BY <2>2 DEF MillisWait, delayMicroseconds, Waiting
  <2>3. QED BY <2>1, <2>2
<1>6. QED BY <1>3, <1>4, <1>5 DEF WaitInv

\* A wait of no time is over at its first look.
LEMMA NothingAsked ==
  ASSUME TimeType, DelaysFit, asked = 0
  PROVE  Passed
<1>1. Minus(Now, start) \in 0 .. Word - 1
  <2>1. timer \div Milli \in 0 .. Word - 1
    <3>1. Word - 1 \in Nat /\ timer \in 0 .. Word - 1 /\ Milli \in Nat \ {0}
      BY TimeAssumption DEF TimeType
    <3>2. QED BY <3>1, Quotient
  <2>2. Now \in Nat /\ Now + Word - start \in Nat
    BY <2>1, WaitNumbers DEF Now, millis, micros
  <2>3. QED BY <2>2, TimeAssumption, Remainder DEF Minus
<1>2. QED BY <1>1, TimeAssumption DEF Passed

LEMMA WaitLoop ==
  ASSUME TimeType, DelaysFit, WaitInv, Waited, ~Passed
  PROVE  WaitInv'
<1>0. USE WaitNumbers
<1>1. call \in Delays /\ lag' = 0 /\ UNCHANGED <<timer, timerOn, call, asked, start, elapsed>>
  BY DEF Waited, Delays
<1>2. asked > 0
  BY NothingAsked
<1>3. Stopped'
  BY <1>1, <1>2 DEF WaitInv, Stopped
<1>4. MicrosWait'
  <2> SUFFICES ASSUME call = "delayMicroseconds", timerOn = TRUE, asked > 0 PROVE MicrosWait'
    BY <1>1 DEF MicrosWait
  <2>1. Minus(timer, start) = elapsed /\ elapsed < asked
    BY <1>2 DEF WaitInv, MicrosWait, Passed, Now, micros
  <2>2. QED BY <1>1, <2>1 DEF MicrosWait
<1>5. MillisWait'
  <2> SUFFICES ASSUME call = "delay", timerOn = TRUE PROVE (Unreachable \/ Unwrapped \/ Wrapped)'
    BY <1>1 DEF MillisWait
  <2> DEFINE m == timer \div Milli
  <2>1. m \in Nat /\ m * Milli <= timer /\ timer < m * Milli + Milli /\ m < Word
    <3>1. m \in Nat /\ m * Milli <= timer /\ timer < m * Milli + Milli
      BY MillisOf
    <3>2. Word - 1 \in Nat /\ timer \in 0 .. Word - 1 /\ Milli \in Nat \ {0}
      BY TimeAssumption DEF TimeType
    <3>3. m \in 0 .. Word - 1
      BY <3>2, Quotient
    <3>4. QED BY <3>1, <3>3
  <2>2. Minus(m, start) = IF start <= m THEN m - start ELSE m + Word - start
    BY <2>1, MinusIs
  <2>3. Minus(m, start) < asked
    <3>1. Minus(m, start) \in Int
      BY <2>1, <2>2
    <3>2. ~(Minus(m, start) >= asked)
      BY DEF Passed, Now, millis
    <3>3. QED BY <3>1, <3>2
  <2>4. CASE Unwrapped
    <3>1. start <= m
      <4>1. start * Milli < (m + 1) * Milli
        BY <2>1, <2>4, Scaled DEF Unwrapped
      <4>2. start < m + 1
        BY <2>1, <4>1, Scaled
      <4>3. QED BY <2>1, <4>2
    <3>2. m + 1 <= start + asked
      BY <2>1, <2>2, <2>3, <3>1
    <3>3. (m + 1) * Milli <= (start + asked) * Milli
      BY <2>1, <3>2, Scaled
    <3>4. timer < (start + asked) * Milli
      BY <2>1, <3>3, Scaled
    <3>5. QED BY <1>1, <2>4, <3>4 DEF Unwrapped
  <2>5. CASE Wrapped /\ ~Unreachable
    <3>1. start * Milli + asked * Milli = (start + asked) * Milli /\ (start + asked) * Milli < Word
      BY <2>5, Scaled DEF Unreachable
    <3>2. asked * Milli + MaxLag <= Word
      <4>1. start * Milli >= 0
        OBVIOUS
      <4>2. asked * Milli < Word
        BY <3>1, <4>1
      <4>3. QED BY <4>2
    <3>3. m < start
      <4>1. timer < start * Milli
        BY <2>5, <3>1, <3>2 DEF Wrapped
      <4>2. m * Milli < start * Milli
        BY <2>1, <4>1
      <4>3. QED BY <2>1, <4>2, Scaled
    <3>4. start + asked < Word
      <4>1. start + asked <= (start + asked) * Milli
        BY NotLess
      <4>2. QED BY <3>1, <4>1
    <3>5. QED BY <2>1, <2>2, <2>3, <3>3, <3>4
  <2>6. CASE Unreachable
    BY <1>1, <2>6 DEF Unreachable
  <2>7. QED
    BY <1>2, <2>4, <2>5, <2>6 DEF WaitInv, MillisWait
<1>6. QED BY <1>3, <1>4, <1>5 DEF WaitInv

LEMMA WaitTick ==
  ASSUME TimeType, DelaysFit, WaitInv, Tick
  PROVE  WaitInv'
<1>0. USE WaitNumbers
<1>1. UNCHANGED <<timerOn, call, asked, start>>
  BY DEF Tick
<1>2. timer' = IF timerOn THEN IF timer + 1 < Word THEN timer + 1 ELSE 0 ELSE timer
  <2>1. (timer + 1) % Word = IF timer + 1 < Word THEN timer + 1 ELSE 0
    BY NextCount
  <2>2. QED BY <2>1 DEF Tick
<1>3. call # "none" => /\ lag < MaxLag /\ lag' = lag + 1
                       /\ elapsed < Word => elapsed' = elapsed + 1
  BY DEF Tick
<1>4. Stopped'
  BY <1>1, <1>2, <1>3 DEF WaitInv, Stopped, Delays
<1>5. MicrosWait'
  <2> SUFFICES ASSUME call = "delayMicroseconds", timerOn = TRUE, asked > 0 PROVE MicrosWait'
    BY <1>1 DEF MicrosWait
  <2>1. Minus(timer, start) = elapsed /\ (elapsed = lag \/ elapsed < asked + lag)
    BY DEF WaitInv, MicrosWait
  <2>2. elapsed + 1 < Word
    BY <1>3, <2>1
  <2>3. elapsed = IF start <= timer THEN timer - start ELSE timer + Word - start
    BY <2>1, MinusIs
  <2>4. timer' \in 0 .. Word - 1
    BY <1>2
  <2>5. Minus(timer', start) = IF start <= timer' THEN timer' - start ELSE timer' + Word - start
    BY <2>4, MinusIs
  <2>6. Minus(timer', start) = elapsed + 1
    BY <1>2, <2>2, <2>3, <2>5
  <2>7. elapsed' = elapsed + 1 /\ lag' = lag + 1
    BY <1>3, <2>2
  <2>8. QED BY <1>1, <2>1, <2>6, <2>7 DEF MicrosWait
<1>6. MillisWait'
  <2> SUFFICES ASSUME call = "delay", timerOn = TRUE, asked > 0
               PROVE  (Unreachable \/ Unwrapped \/ Wrapped)'
    BY <1>1 DEF MillisWait
  <2>1. CASE Unwrapped /\ timer + 1 < Word
    <3>1. elapsed < Word
      <4>1. start * Milli \in Nat
        OBVIOUS
      <4>2. QED BY <2>1, <4>1 DEF Unwrapped
    <3>2. timer' = timer + 1 /\ elapsed' = elapsed + 1 /\ lag' = lag + 1
      BY <1>2, <1>3, <2>1, <3>1
    <3>3. QED BY <1>1, <2>1, <3>2 DEF Unwrapped
  <2>2. CASE Unwrapped /\ timer + 1 = Word
    <3>1. timer' = 0 /\ lag' = lag + 1
      BY <1>2, <1>3, <2>2
    <3>2. start * Milli + Milli <= (start + asked) * Milli
      <4>1. (start + 1) * Milli <= (start + asked) * Milli
        BY Scaled
      <4>2. QED BY <4>1, Scaled
    <3>3. timer < (start + asked) * Milli + lag
      BY <2>2, <3>2 DEF Unwrapped
    <3>4. QED BY <1>1, <2>2, <3>1, <3>3 DEF Wrapped
  <2>3. CASE Wrapped
    <3>1. timer' <= timer + 1 /\ lag' = lag + 1
      BY <1>2, <1>3
    <3>2. timer' + Word < (start + asked) * Milli + lag'
      BY <1>2, <2>3, <3>1 DEF Wrapped
    <3>3. QED BY <1>1, <3>2 DEF Wrapped
  <2>4. CASE Unreachable
    BY <1>1, <2>4 DEF Unreachable
  <2>5. timer + 1 < Word \/ timer + 1 = Word
    OBVIOUS
  <2>6. QED BY <2>1, <2>2, <2>3, <2>4, <2>5 DEF WaitInv, MillisWait
<1>7. QED BY <1>4, <1>5, <1>6 DEF WaitInv

\* Before the sketch runs nothing waits, and the time is not touched.
LEMMA StartUpTime ==
  ASSUME StartUp
  PROVE  step # "sketch" /\ (TimeInitStep \/ UNCHANGED timing)
<1>1. init_cycfg_system => step # "sketch"
  BY DEF init_cycfg_system, At, Fails, WorstWaitStates, init_cycfg_power, FllDeInit, ResetDividers,
     DisablePlls, Path1FromImo, LeaveWco, Path0FromImo, Hf0FromPath0, WcoInit, ClkLfInit,
     ClkPathsInit, FllInit, ClkHf0Init, Pll0Init, AccurateWaitStates, UpdateCoreClock,
     ReservePathmuxes
<1>2. QED
  BY <1>1 DEF StartUp, SystemInit, HalInit, RegisterSysclkCallback, AssertBsp, StartScheduler,
     TimeInitStep, At

\* A step of pulseIn() is taken in its call.
LEMMA InWait ==
  ASSUME PulseStep
  PROVE  at # Nowhere
BY DEF PulseStep, ReadPin, ReadTimer, MarkStart, Mark, MarkEnd, Nowhere

LEMMA CallingNext ==
  ASSUME Calling, [Next]_vars
  PROVE  Calling'
<1>1. CASE UNCHANGED timing /\ (step' = step \/ step # "sketch")
  BY <1>1 DEF timing, time, pulse, Calling
<1>2. CASE StartUp
  BY <1>1, <1>2, StartUpTime DEF TimeInitStep, pulse, Calling
<1>3. CASE Sketch
  <2>1. step = "sketch" /\ step' = step
    BY <1>3 DEF Sketch, Board
  <2>2. CASE (\E w \in Waits : delay(w) \/ delayMicroseconds(w)) /\ UNCHANGED pulse
    BY <2>1, <2>2 DEF Calling, delay, delayMicroseconds, Waiting, pulse
  <2>3. CASE Waited /\ UNCHANGED pulse
    BY <2>1, <2>3 DEF Calling, Waited, Returns, pulse
  <2>4. CASE \E w \in Waits : pulseIn(w)
    BY <2>1, <2>4 DEF Calling, pulseIn, Waiting
  <2>5. CASE PulseStep
    <3>1. at # Nowhere
      BY <2>5, InWait
    <3>2. at' = Nowhere \/ call' = call
      BY <2>5 DEF PulseStep, ReadPin, ReadTimer, GoesOn, MarkStart, Mark, MarkEnd, PulseReturns
    <3>3. QED BY <2>1, <3>1, <3>2 DEF Calling
  <2>6. QED BY <1>3, <2>2, <2>3, <2>4, <2>5 DEF Sketch
<1>4. CASE Passes
  BY <1>4 DEF Passes, PulseTick, Tick, PinChanges, time, Calling, Board
<1>5. QED BY <1>1, <1>2, <1>3, <1>4 DEF Next, vars

LEMMA WaitNext ==
  ASSUME TimeType, Calling, DelaysFit, WaitInv, [Next]_vars
  PROVE  WaitInv'
<1>1. CASE UNCHANGED time
  BY <1>1 DEF time, WaitInv, Stopped, MicrosWait, MillisWait, Unreachable, Unwrapped, Wrapped
<1>3. CASE TimeInitStep
  BY <1>3 DEF TimeInitStep, At, Calling, WaitInv, Stopped, MicrosWait, MillisWait, Delays
<1>4. CASE StartUp
  BY <1>1, <1>3, <1>4, StartUpTime DEF timing
<1>5. CASE Sketch
  <2>2. ASSUME NEW w \in Waits, delay(w) \/ delayMicroseconds(w)
        PROVE  WaitInv'
    BY <2>2, WaitCall
  <2>3. ASSUME call' \notin Delays, UNCHANGED <<timer, timerOn>>
        PROVE  WaitInv'
    BY <2>3 DEF WaitInv, Stopped, MicrosWait, MillisWait, Delays
  <2>4. CASE Waited
    BY <2>3, <2>4, WaitLoop DEF Waited, Returns, Delays
  <2>5. CASE PulseStep
    <3>1. call' \in {call, "none"} /\ UNCHANGED <<timer, timerOn>>
      BY <2>5 DEF PulseStep, ReadPin, ReadTimer, GoesOn, MarkStart, Mark, MarkEnd, PulseReturns, Returns
    <3>2. at # Nowhere
      BY <2>5, InWait
    <3>3. QED BY <2>3, <3>1, <3>2 DEF Delays, Calling
  <2>6. ASSUME NEW w \in Waits, pulseIn(w)
        PROVE  WaitInv'
    BY <2>3, <2>6 DEF pulseIn, Waiting, Delays
  <2>7. QED BY <1>5, <2>2, <2>4, <2>5, <2>6 DEF Sketch
<1>6. CASE Passes
  BY <1>1, <1>6, WaitTick DEF Passes, PulseTick, PinChanges, Board
<1>7. QED BY <1>1, <1>4, <1>5, <1>6 DEF Next, vars, timing

(* delayMicroseconds() lasts as long as asked, over a wrap of the timer    *)
(* too, and delay() unless the timer wraps; neither lasts longer than by   *)
(* the time the sketch is held up.  time.c:75-97.                          *)
THEOREM DelaysAreRight ==
  ASSUME DelaysFit
  PROVE  Spec => DelaysRight
<1> DEFINE Right ==
     /\ call = "delayMicroseconds" /\ call' = "none" =>
          asked <= elapsed /\ elapsed <= asked + MaxLag
     /\ call = "delay" /\ call' = "none" /\ millis >= start =>
          asked * Milli < elapsed + Milli /\ elapsed <= asked * Milli + MaxLag
<1>1. Init => Calling /\ WaitInv
  BY DEF Init, ClocksInit, TimeInit, PulseInit, Calling, WaitInv, Stopped, MicrosWait, MillisWait, Delays
<1>2. TimeType /\ Calling /\ WaitInv /\ [Next]_vars => Calling' /\ WaitInv'
  BY CallingNext, WaitNext
<1>3. ASSUME TimeType, Calling, WaitInv, [Next]_vars
      PROVE  [Right]_time
  <2> USE <1>3, WaitNumbers
  <2>1. ASSUME call \in Delays, call' = "none"
        PROVE  Passed
    <3>1. CASE Sketch
      BY <2>1, <3>1, InWait DEF Sketch, Waited, delay, delayMicroseconds, pulseIn, Waiting, Calling, Delays
    <3>2. call' = call \/ Sketch
      BY StartUpTime DEF Next, vars, timing, time, TimeInitStep, Passes, PulseTick, Tick, PinChanges
    <3>3. QED BY <2>1, <3>1, <3>2 DEF Delays
  <2>2. ASSUME call = "delayMicroseconds", Passed
        PROVE  asked <= elapsed /\ elapsed <= asked + MaxLag
    <3>1. Minus(timer, start) >= asked
      BY <2>2 DEF Passed, Now, micros
    <3>2. CASE timerOn = TRUE /\ asked > 0
      BY <2>2, <3>1, <3>2 DEF WaitInv, MicrosWait
    <3>3. CASE timerOn = FALSE
      <4>1. timer = 0 /\ start = 0
        BY <2>2, <3>3 DEF WaitInv, Stopped, Delays
      <4>2. Minus(timer, start) = 0
        BY <4>1, MinusIs
      <4>3. asked = 0
        BY <3>1, <4>2
      <4>4. QED BY <2>2, <4>3 DEF WaitInv, Stopped, Delays
    <3>4. CASE asked = 0
      BY <2>2, <3>4 DEF WaitInv, Stopped, Delays
    <3>5. timerOn = TRUE \/ timerOn = FALSE
      BY DEF TimeType
    <3>6. asked = 0 \/ asked > 0
      OBVIOUS
    <3>7. QED BY <3>2, <3>3, <3>4, <3>5, <3>6
  <2>3. ASSUME call = "delay", Passed, millis >= start
        PROVE  asked * Milli < elapsed + Milli /\ elapsed <= asked * Milli + MaxLag
    <3> DEFINE m == timer \div Milli
    <3>1. m \in Nat /\ m * Milli <= timer /\ timer < m * Milli + Milli /\ m < Word /\ start <= m
      <4>1. m \in Nat /\ m * Milli <= timer /\ timer < m * Milli + Milli
        BY MillisOf
      <4>2. Word - 1 \in Nat /\ timer \in 0 .. Word - 1 /\ Milli \in Nat \ {0}
        BY TimeAssumption DEF TimeType
      <4>3. m \in 0 .. Word - 1
        BY <4>2, Quotient
      <4>4. QED BY <2>3, <4>1, <4>3 DEF millis
    <3>2. m - start >= asked
      <4>1. m \in 0 .. Word - 1 /\ start \in 0 .. Word - 1
        BY <3>1
      <4>2. Minus(m, start) = m - start
        BY <3>1, <4>1, MinusIs
      <4>3. Minus(m, start) >= asked
        BY <2>3 DEF Passed, Now, millis
      <4>4. QED BY <4>2, <4>3
    <3>3. CASE asked = 0
      BY <2>3, <3>3 DEF WaitInv, Stopped, Delays
    <3>4. timerOn = FALSE => asked = 0
      <4>1. timerOn = FALSE => m = 0 /\ start = 0
        BY <2>3 DEF WaitInv, Stopped, Delays
      <4>2. QED BY <3>2, <4>1
    <3>5. (start + asked) * Milli <= m * Milli
      BY <3>1, <3>2, Scaled
    <3>6. (start + asked) * Milli = start * Milli + asked * Milli
      BY Scaled
    <3>7. start * Milli \in Nat /\ asked * Milli \in Nat /\ m * Milli \in Nat
      BY <3>1
    <3>8. CASE Unwrapped
      <4>1. elapsed + start * Milli <= timer /\ timer < elapsed + start * Milli + Milli
            /\ (elapsed = lag \/ timer < start * Milli + asked * Milli + lag)
        BY <3>6, <3>8 DEF Unwrapped
      <4>2. QED BY <3>1, <3>5, <3>6, <3>7, <4>1
    <3>9. ~Unreachable
      BY <3>1, <3>5, <3>7 DEF Unreachable
    <3>10. ~Wrapped
      <4>1. asked * Milli + MaxLag <= Word
        <5>1. asked * Milli < Word
          BY <3>1, <3>5, <3>6, <3>7
        <5>2. QED BY <5>1
      <4>2. start * Milli <= m * Milli
        BY <3>1, Scaled
      <4>3. QED BY <3>1, <3>6, <3>7, <4>1, <4>2 DEF Wrapped
    <3>11. QED
      BY <2>3, <3>3, <3>4, <3>8, <3>9, <3>10 DEF WaitInv, MillisWait, TimeType
  <2>4. QED BY <2>1, <2>2, <2>3 DEF Delays
<1>4. QED BY <1>1, <1>2, <1>3, TypeCorrect, PTL DEF Spec, DelaysRight, TypeOK
-----------------------------------------------------------------------------
\* Outside a call of pulseIn() its variables are as a call finds them.
Idle == at = Nowhere => timerObj = 0 /\ pulseStart = 0 /\ edges = 0 /\ high = 0

\* Its timer starts with the call and does not wrap in it.
Clock ==
  call = "pulseIn" =>
    at # Nowhere /\ start = 0 /\ timerObj = elapsed /\ pulseStart <= elapsed /\ high <= elapsed

\* At its last look at the timer it was in time; since then it has looked at
\* the pin, or marked a time, as often as its place says.
InTime ==
  /\ at = <<"start", "pin">> => elapsed <= asked + lag
  /\ at \in {<<"start", "timer">>, <<"start", "mark">>} => elapsed <= asked + MaxLag + lag
  /\ at = <<"end", "pin">> => elapsed <= asked + 2 * MaxLag + lag
  /\ at \in {<<"end", "timer">>, <<"end", "mark">>} => elapsed <= asked + 3 * MaxLag + lag

\* Until the pin is found to have the level: it has had it since the call, or
\* for no longer than since the last look at the pin.
Searching ==
  at \in {<<"start", "pin">>, <<"start", "timer">>} =>
    /\ level = TRUE /\ edges = 0 => at = <<"start", "pin">> /\ high = elapsed /\ elapsed = lag
    /\ level = TRUE /\ edges = 1 =>
         high <= lag \/ (at = <<"start", "pin">> /\ high <= MaxLag + lag)
    /\ level = FALSE /\ edges = 0 => high = 0

\* The level was found: unless the pin has had it again, this bounds its time.
Found ==
  at = <<"start", "mark">> =>
    /\ edges = 0 => level = TRUE
    /\ edges < 2 \/ (edges = 2 /\ level = FALSE) => high <= 2 * MaxLag + lag

\* The time since pulseStart exceeds that at the level by at most n ticks.
Measures(n) ==
  elapsed <= high + pulseStart + n /\ high + pulseStart <= elapsed + 3 * MaxLag

\* While the pulse is measured, and when its end was found.
Within ==
  at \in {<<"end", "pin">>, <<"end", "timer">>} =>
    /\ edges = 0 => level = TRUE
    /\ level = TRUE /\ edges < 2 => Measures(0)
    /\ level = FALSE /\ edges < 3 =>
         Measures(lag) \/ (at = <<"end", "pin">> /\ Measures(MaxLag + lag))

Ended == at = <<"end", "mark">> /\ edges < 3 => Measures(2 * MaxLag + lag)

PulseInv == Idle /\ Clock /\ InTime /\ Searching /\ Found /\ Within /\ Ended
-----------------------------------------------------------------------------
LEMMA PulseNumbers ==
  ASSUME TimeType, PulseType, PulsesFit
  PROVE  /\ Word \in Nat /\ Word > 0 /\ MaxLag \in Nat
         /\ start \in Nat /\ asked \in Nat /\ elapsed \in Nat /\ lag \in Nat /\ lag <= MaxLag
         /\ asked + 4 * MaxLag < Word
         /\ timerObj \in Nat /\ pulseStart \in Nat /\ edges \in 0 .. 3 /\ high \in Nat
<1>1. asked \in Waits /\ asked \in Nat
  BY TimeAssumption DEF TimeType
<1>2. asked + 4 * MaxLag < Word
  BY <1>1 DEF PulsesFit
<1>3. start \in Nat /\ elapsed \in Nat /\ lag \in Nat /\ lag <= MaxLag
  BY TimeAssumption DEF TimeType
<1>4. timerObj \in Nat /\ pulseStart \in Nat /\ high \in Nat
  BY TimeAssumption DEF PulseType
<1>5. edges \in 0 .. 3
  BY DEF PulseType
<1>6. QED BY <1>1, <1>2, <1>3, <1>4, <1>5, TimeAssumption

\* The places of pulseIn() differ.
LEMMA Places ==
  /\ <<"start", "pin">> # <<"start", "timer">> /\ <<"start", "pin">> # <<"start", "mark">>
  /\ <<"start", "timer">> # <<"start", "mark">>
  /\ <<"end", "pin">> # <<"end", "timer">> /\ <<"end", "pin">> # <<"end", "mark">>
  /\ <<"end", "timer">> # <<"end", "mark">>
  /\ \A a, b \in {"pin", "timer", "mark"} :
       <<"start", a>> # <<"end", b>> /\ <<"start", a>> # Nowhere /\ <<"end", a>> # Nowhere
BY DEF Nowhere

LEMMA Somewhere ==
  ASSUME PulseType, at # Nowhere
  PROVE  at \in {<<"start", "pin">>, <<"start", "timer">>, <<"start", "mark">>,
                <<"end", "pin">>, <<"end", "timer">>, <<"end", "mark">>}
BY DEF PulseType

\* One lemma for each step of pulseIn(), and of the pin and the time in it.
LEMMA PulseCall ==
  ASSUME TimeType, PulseType, PulsesFit, Calling, PulseInv, NEW w \in Waits, pulseIn(w)
  PROVE  PulseInv'
<1>1. at = Nowhere /\ at' = <<"start", "pin">> /\ call' = "pulseIn" /\ start' = 0 /\ elapsed' = 0
      /\ lag' = 0 /\ asked' = w /\ UNCHANGED <<timerObj, pulseStart, level, edges, high>>
  BY DEF pulseIn, Waiting, Calling
<1>2. timerObj = 0 /\ pulseStart = 0 /\ edges = 0 /\ high = 0
  BY <1>1 DEF PulseInv, Idle
<1>3. Idle' /\ Clock'
  BY <1>1, <1>2, Places DEF Idle, Clock
<1>5. InTime'
  <2>1. w \in Nat
    BY TimeAssumption
  <2>2. QED BY <1>1, <2>1, Places DEF InTime
<1>4. Searching' /\ Found' /\ Within' /\ Ended'
  BY <1>1, <1>2, Places DEF Searching, Found, Within, Ended
<1>6. QED BY <1>3, <1>4, <1>5 DEF PulseInv

LEMMA PulseTicks ==
  ASSUME TimeType, PulseType, PulsesFit, Calling, PulseInv, PulseTick
  PROVE  PulseInv'
<1> USE PulseNumbers
<1>1. CASE call # "pulseIn"
  <2>1. at = Nowhere /\ at' = Nowhere /\ call' = call
    BY <1>1 DEF Calling, PulseTick, Tick
  <2>2. QED
    BY <1>1, <2>1, Places DEF PulseTick, PulseInv, Idle, Clock, InTime, Searching, Found, Within, Ended
<1>2. CASE call = "pulseIn"
  <2>1. /\ at # Nowhere /\ start = 0 /\ timerObj = elapsed /\ pulseStart <= elapsed /\ high <= elapsed
    BY <1>2 DEF PulseInv, Clock
  <2>2. UNCHANGED <<at, call, asked, start, pulseStart, level, edges>> /\ lag < MaxLag /\ lag' = lag + 1
    BY <1>2 DEF PulseTick, Tick
  <2>3. elapsed <= asked + 3 * MaxLag + lag
    BY <2>1, Somewhere DEF PulseInv, InTime
  <2>4. elapsed + 1 < Word
    BY <2>2, <2>3
  <2>5. elapsed' = elapsed + 1
    BY <1>2, <2>4 DEF PulseTick, Tick
  <2>6. timerObj' = elapsed + 1
    <3>1. timerObj \in 0 .. Word - 1
      BY DEF PulseType
    <3>2. QED BY <1>2, <2>1, <2>4, <3>1, NextCount DEF PulseTick
  <2>7. high' = IF level = TRUE THEN high + 1 ELSE high
    BY <1>2, <2>1, <2>4 DEF PulseTick
  <2>8. Idle' /\ Clock' /\ InTime'
    BY <2>1, <2>2, <2>5, <2>6, <2>7, Places DEF PulseInv, Idle, Clock, InTime
  <2>9. Searching' /\ Found'
    BY <2>1, <2>2, <2>5, <2>7, Places DEF PulseInv, Searching, Found
  <2>10. Within' /\ Ended'
    BY <2>1, <2>2, <2>5, <2>7, Places DEF PulseInv, Within, Ended, Measures
  <2>11. QED BY <2>8, <2>9, <2>10 DEF PulseInv
<1>3. QED BY <1>1, <1>2

LEMMA PulseChange ==
  ASSUME TimeType, PulseType, PulsesFit, Calling, PulseInv, PinChanges
  PROVE  PulseInv'
<1>2. /\ level = TRUE \/ level = FALSE
      /\ level = TRUE => level' = FALSE
      /\ level = FALSE => level' = TRUE
  <2>1. level' = ~level
    BY DEF PinChanges
  <2>2. level = TRUE \/ level = FALSE
    BY DEF PulseType
  <2>3. level = TRUE => level' = FALSE
    BY <2>1
  <2>4. level = FALSE => level' = TRUE
    BY <2>1
  <2>5. QED BY <2>2, <2>3, <2>4
<1> USE PulseNumbers
<1>1. UNCHANGED <<call, asked, start, elapsed, lag, at, timerObj, pulseStart, high>>
  BY DEF PinChanges, time
<1>3. edges' = IF call = "pulseIn" /\ edges < 3 THEN edges + 1 ELSE edges
  BY DEF PinChanges
<1>4. Idle' /\ Clock' /\ InTime'
  BY <1>1, <1>3, Places DEF PulseInv, Idle, Clock, InTime, Calling
<1>5. CASE at = Nowhere
  BY <1>1, <1>4, <1>5, Places DEF PulseInv, Searching, Found, Within, Ended
<1>6. CASE at # Nowhere
  <2>1. edges' = IF edges < 3 THEN edges + 1 ELSE edges
    BY <1>3, <1>6 DEF Calling
  <2>2. Searching' /\ Found'
    BY <1>1, <1>2, <2>1, Places DEF PulseInv, Searching, Found
  <2>3. Within' /\ Ended'
    BY <1>1, <1>2, <2>1, Places DEF PulseInv, Within, Ended, Measures
  <2>4. QED BY <1>4, <2>2, <2>3 DEF PulseInv
<1>7. QED BY <1>5, <1>6

\* What the timer shows is the true time.
LEMMA TimerRead ==
  ASSUME TimeType, PulseType, start = 0, timerObj = elapsed
  PROVE  Minus(timerObj, start) = elapsed
<1>1. 0 \in 0 .. Word - 1 /\ timerObj \in 0 .. Word - 1
  BY TimeAssumption DEF PulseType
<1>2. QED BY <1>1, MinusIs

LEMMA PulseEnds ==
  ASSUME PulseReturns
  PROVE  PulseInv'
<1>1. at' = Nowhere /\ call' = "none" /\ timerObj' = 0 /\ pulseStart' = 0 /\ edges' = 0 /\ high' = 0
  BY DEF PulseReturns, Returns
<1>2. Idle' /\ Clock' /\ InTime'
  BY <1>1, Places DEF Idle, Clock, InTime
<1>3. Searching' /\ Found' /\ Within' /\ Ended'
  BY <1>1, Places DEF Searching, Found, Within, Ended
<1>4. QED BY <1>2, <1>3 DEF PulseInv

LEMMA PulseReads ==
  ASSUME TimeType, PulseType, PulsesFit, Calling, PulseInv, PulseStep
  PROVE  PulseInv'
<1> USE PulseNumbers
<1>1. call = "pulseIn" /\ level' = level
  BY InWait DEF Calling, PulseStep
<1>2. /\ start = 0 /\ timerObj = elapsed /\ pulseStart <= elapsed /\ high <= elapsed
  BY <1>1 DEF PulseInv, Clock
<1>3. level = TRUE \/ level = FALSE
  BY DEF PulseType
<1>4. CASE ReadPin("start", TRUE)
  <2>1. /\ at = <<"start", "pin">> /\ lag' = 0
        /\ UNCHANGED <<call, asked, start, elapsed, timerObj, pulseStart, edges, high>>
    BY <1>4 DEF ReadPin
  <2>2. /\ level = TRUE => at' = <<"start", "mark">>
        /\ level = FALSE => at' = <<"start", "timer">>
    <3>1. at' = IF level = TRUE THEN <<"start", "mark">> ELSE <<"start", "timer">>
      BY <1>4 DEF ReadPin
    <3>2. level = TRUE => at' = <<"start", "mark">>
      BY <3>1
    <3>3. level = FALSE => at' = <<"start", "timer">>
      BY <3>1
    <3>4. QED BY <3>2, <3>3
  <2>3. Idle' /\ Clock' /\ InTime'
    BY <1>1, <1>2, <1>3, <2>1, <2>2, Places DEF PulseInv, Idle, Clock, InTime
  <2>4. Searching' /\ Found'
    BY <1>1, <1>2, <1>3, <2>1, <2>2, Places DEF PulseInv, Searching, Found
  <2>5. Within' /\ Ended'
    BY <1>3, <2>1, <2>2, Places DEF Within, Ended
  <2>6. QED BY <2>3, <2>4, <2>5 DEF PulseInv
<1>5. CASE ReadPin("end", FALSE)
  <2>1. /\ at = <<"end", "pin">> /\ lag' = 0
        /\ UNCHANGED <<call, asked, start, elapsed, timerObj, pulseStart, edges, high>>
    BY <1>5 DEF ReadPin
  <2>2. /\ level = FALSE => at' = <<"end", "mark">>
        /\ level = TRUE => at' = <<"end", "timer">>
    <3>1. at' = IF level = FALSE THEN <<"end", "mark">> ELSE <<"end", "timer">>
      BY <1>5 DEF ReadPin
    <3>2. level = FALSE => at' = <<"end", "mark">>
      BY <3>1
    <3>3. level = TRUE => at' = <<"end", "timer">>
      BY <3>1
    <3>4. QED BY <3>2, <3>3
  <2>3. Idle' /\ Clock' /\ InTime'
    BY <1>1, <1>2, <1>3, <2>1, <2>2, Places DEF PulseInv, Idle, Clock, InTime
  <2>4. Searching' /\ Found'
    BY <1>3, <2>1, <2>2, Places DEF Searching, Found
  <2>5. Within' /\ Ended'
    BY <1>1, <1>3, <2>1, <2>2, Places DEF PulseInv, Within, Ended, Measures
  <2>6. QED BY <2>3, <2>4, <2>5 DEF PulseInv
<1>6. CASE ReadTimer("start")
  <2>1. CASE PulseReturns
    BY <2>1, PulseEnds
  <2>2. CASE GoesOn("start") /\ ~(Minus(timerObj, start) > asked)
    <3>1. /\ at = <<"start", "timer">> /\ at' = <<"start", "pin">> /\ lag' = 0
          /\ UNCHANGED <<call, asked, start, elapsed, timerObj, pulseStart, edges, high>>
      BY <1>6, <2>2 DEF ReadTimer, GoesOn
    <3>2. elapsed <= asked
      BY <1>2, <2>2, TimerRead
    <3>3. Idle' /\ Clock' /\ InTime'
      BY <1>1, <1>2, <3>1, <3>2, Places DEF PulseInv, Idle, Clock, InTime
    <3>4. Searching' /\ Found'
      BY <1>1, <3>1, Places DEF PulseInv, Searching, Found
    <3>5. Within' /\ Ended'
      BY <3>1, Places DEF Within, Ended
    <3>6. QED BY <3>3, <3>4, <3>5 DEF PulseInv
  <2>3. QED BY <1>6, <2>1, <2>2 DEF ReadTimer
<1>7. CASE ReadTimer("end")
  <2>1. CASE PulseReturns
    BY <2>1, PulseEnds
  <2>2. CASE GoesOn("end") /\ ~(Minus(timerObj, start) > asked)
    <3>1. /\ at = <<"end", "timer">> /\ at' = <<"end", "pin">> /\ lag' = 0
          /\ UNCHANGED <<call, asked, start, elapsed, timerObj, pulseStart, edges, high>>
      BY <1>7, <2>2 DEF ReadTimer, GoesOn
    <3>2. elapsed <= asked
      BY <1>2, <2>2, TimerRead
    <3>3. Idle' /\ Clock' /\ InTime'
      BY <1>1, <1>2, <3>1, <3>2, Places DEF PulseInv, Idle, Clock, InTime
    <3>4. Searching' /\ Found'
      BY <3>1, Places DEF Searching, Found
    <3>5. Within' /\ Ended'
      BY <1>1, <3>1, Places DEF PulseInv, Within, Ended, Measures
    <3>6. QED BY <3>3, <3>4, <3>5 DEF PulseInv
  <2>3. QED BY <1>7, <2>1, <2>2 DEF ReadTimer
<1>8. CASE MarkStart
  <2>1. /\ at = <<"start", "mark">> /\ at' = <<"end", "pin">> /\ lag' = 0 /\ pulseStart' = elapsed
        /\ UNCHANGED <<call, asked, start, elapsed, timerObj, edges, high>>
    BY <1>2, <1>8 DEF MarkStart, Mark
  <2>2. Idle' /\ Clock' /\ InTime'
    BY <1>1, <1>2, <2>1, Places DEF PulseInv, Idle, Clock, InTime
  <2>3. Searching' /\ Found'
    BY <2>1, Places DEF Searching, Found
  <2>4. Within' /\ Ended'
    BY <1>1, <1>2, <1>3, <2>1, Places DEF PulseInv, Found, Within, Ended, Measures
  <2>5. QED BY <2>2, <2>3, <2>4 DEF PulseInv
<1>9. CASE MarkEnd
  BY <1>9, PulseEnds DEF MarkEnd
<1>10. QED BY <1>4, <1>5, <1>6, <1>7, <1>8, <1>9 DEF PulseStep

LEMMA PulseNext ==
  ASSUME TimeType, PulseType, PulsesFit, Calling, PulseInv, [Next]_vars
  PROVE  PulseInv'
<1>1. CASE UNCHANGED <<call, asked, start, elapsed, lag, pulse>>
  BY <1>1 DEF pulse, PulseInv, Idle, Clock, InTime, Searching, Found, Within, Ended, Measures
<1>2. ASSUME at = Nowhere, UNCHANGED pulse, call' # "pulseIn"
      PROVE  PulseInv'
  BY <1>2, Places DEF pulse, PulseInv, Idle, Clock, InTime, Searching, Found, Within, Ended
<1>3. CASE StartUp
  BY <1>1, <1>3, StartUpTime DEF timing, time, TimeInitStep
<1>4. CASE Sketch
  <2>1. CASE (\E w \in Waits : delay(w) \/ delayMicroseconds(w)) /\ UNCHANGED pulse
    BY <1>2, <2>1 DEF delay, delayMicroseconds, Waiting, Calling
  <2>2. CASE Waited /\ UNCHANGED pulse
    BY <1>2, <2>2 DEF Waited, Returns, Calling
  <2>3. QED BY <1>4, <2>1, <2>2, PulseCall, PulseReads DEF Sketch
<1>5. CASE Passes
  BY <1>5, PulseTicks, PulseChange DEF Passes
<1>6. QED BY <1>1, <1>3, <1>4, <1>5 DEF Next, vars, timing, time

LEMMA PulseInvariance ==
  ASSUME PulsesFit
  PROVE  Spec => [](TimeType /\ PulseType /\ Calling /\ PulseInv)
<1>1. Init => Calling /\ PulseInv
  BY Places DEF Init, ClocksInit, TimeInit, PulseInit, Calling, PulseInv, Idle, Clock, InTime, Searching,
     Found, Within, Ended
<1>2. TimeType /\ PulseType /\ Calling /\ PulseInv /\ [Next]_vars => Calling' /\ PulseInv'
  BY CallingNext, PulseNext
<1>3. QED BY <1>1, <1>2, TypeCorrect, PTL DEF Spec, TypeOK

(* pulseIn() returns within its timeout and the time it is held up in its  *)
(* last four reads, whatever the pin does.  Pulse.cpp:42-81.               *)
THEOREM PulseIsInTime ==
  ASSUME PulsesFit
  PROVE  Spec => PulseInTime
<1> DEFINE Soon == call = "pulseIn" /\ call' = "none" => elapsed <= asked + 4 * MaxLag
<1>1. TimeType /\ PulseType /\ Calling /\ PulseInv => Soon
  <2> SUFFICES ASSUME TimeType, PulseType, Calling, PulseInv, call = "pulseIn"
               PROVE  elapsed <= asked + 4 * MaxLag
    OBVIOUS
  <2>1. elapsed <= asked + 3 * MaxLag + lag
    BY PulseNumbers, Somewhere DEF PulseInv, Clock, InTime
  <2>2. QED BY <2>1, PulseNumbers
<1>2. QED BY <1>1, PulseInvariance, PTL DEF PulseInTime

(* One pulse is measured to within the time between the reads that find    *)
(* its edges and those of the timer.  Pulse.cpp:65-80.                     *)
THEOREM PulseIsMeasured ==
  ASSUME PulsesFit
  PROVE  Spec => PulseMeasured
<1> DEFINE Close ==
      at = <<"end", "mark">> /\ call' = "none" /\ edges < 3 =>
        /\ Minus(timerObj, pulseStart) <= high + 3 * MaxLag
        /\ high <= Minus(timerObj, pulseStart) + 3 * MaxLag
<1>1. TimeType /\ PulseType /\ Calling /\ PulseInv => Close
  <2> SUFFICES ASSUME TimeType, PulseType, Calling, PulseInv, at = <<"end", "mark">>, edges < 3
               PROVE  /\ Minus(timerObj, pulseStart) <= high + 3 * MaxLag
                      /\ high <= Minus(timerObj, pulseStart) + 3 * MaxLag
    OBVIOUS
  <2>1. timerObj = elapsed /\ pulseStart <= elapsed
    BY Places DEF Calling, PulseInv, Clock
  <2>2. timerObj \in 0 .. Word - 1 /\ pulseStart \in 0 .. Word - 1
    BY DEF PulseType
  <2>3. Minus(timerObj, pulseStart) = elapsed - pulseStart
    BY <2>1, <2>2, MinusIs
  <2>4. Measures(2 * MaxLag + lag)
    BY DEF PulseInv, Ended
  <2>5. QED BY <2>3, <2>4, PulseNumbers DEF Measures
<1>2. QED BY <1>1, PulseInvariance, PTL DEF PulseMeasured
=============================================================================
