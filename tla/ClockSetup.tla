----------------------------- MODULE ClockSetup -----------------------------
(***************************************************************************)
(* The clock tree of the board while init_cycfg_system() of the variant's  *)
(* cycfg_system.c sets it up, one action for each step that a clock or     *)
(* the flash may notice.  The processor runs from HF0 all the time.        *)
(* Frequencies are in kHz.  Settings the configuration does not enable     *)
(* are compiled out.                                                       *)
(***************************************************************************)
EXTENDS Naturals

VARIABLES step,    \* the next step of the start-up
          cold,    \* the reset was a POR, an XRES or a BOD
          fll,     \* path 0 is the output of the FLL
          pll,     \* path p is the output of PLL p
          source,  \* of the multiplexer of each path
          hf0,     \* the path of HF0
          div,     \* dividers: of HF0, and less one of the fast and peripheral clocks
          wco, lf, \* the WCO runs; the source of CLK_LF
          waitFor, \* the flash keeps up with this HF0
          SystemCoreClock

tree == <<fll, pll, source, hf0, div, wco, lf>>
clocks == <<tree, cold, waitFor, SystemCoreClock>>

Paths == 0 .. 5
Imo == 8000
Wco == 32
FllkHz == (Imo * 500) \div (20 * 2)   \* fllMult, refDiv, enableOutputDiv
PllkHz == (Imo * 30) \div (1 * 5)     \* feedbackDiv, referenceDiv, outputDiv
Hf0kHz == 100000                       \* CY_CFG_SYSCLK_CLKHF0_FREQ_MHZ
WorstkHz == 150000

PathkHz(p) ==
  IF p = 0 /\ fll THEN FllkHz
  ELSE IF p \in {1, 2} /\ pll[p] THEN PllkHz
  ELSE IF source[p] = "IMO" THEN Imo
  ELSE IF wco THEN Wco ELSE 0

HF0 == PathkHz(hf0) \div div.hf0

\* A cold start finds the registers reset; otherwise the boot code of the
\* other core, or an earlier program, leaves any clocks that work.
ClocksInit ==
  /\ step = "system_init" /\ cold \in BOOLEAN
  /\ fll \in BOOLEAN /\ pll \in [1 .. 2 -> BOOLEAN]
  /\ \E s \in [0 .. 1 -> {"IMO", "WCO"}] :
       source = [p \in Paths |-> IF p < 2 THEN s[p] ELSE "IMO"]
  /\ hf0 \in 0 .. 1
  /\ div \in [hf0 : {1, 2}, fast : {0, 1}, peri : {0, 1}]
  /\ wco \in BOOLEAN /\ lf \in {"ILO", "WCO"}
  /\ waitFor \in {PllkHz, FllkHz}
  /\ SystemCoreClock = Imo
  /\ cold => /\ ~fll /\ ~pll[1] /\ ~pll[2] /\ hf0 = 0 /\ lf = "ILO"
             /\ \A p \in Paths : source[p] = "IMO"
             /\ div = [hf0 |-> 1, fast |-> 0, peri |-> 0]
  /\ fll => source[0] = "IMO"
  /\ pll[1] => source[1] = "IMO"
  /\ (lf = "WCO" \/ \E p \in Paths : source[p] = "WCO") => wco
  /\ HF0 > 0 /\ HF0 <= waitFor

At(s, next) == step = s /\ step' = next

\* cycfg_ClockStartupError never returns.
Fails(s) == At(s, "error")

SystemCoreClockUpdate ==
  SystemCoreClock' = IF HF0 # 0 THEN HF0 \div (1 + div.fast) ELSE SystemCoreClock

WorstWaitStates ==
  /\ At("wait_states", "power") /\ waitFor' = WorstkHz
  /\ UNCHANGED <<tree, cold, SystemCoreClock>>

\* Mutant of init_cycfg_power: the backup domain is reset on every start.
init_cycfg_powerAlways ==
  /\ At("power", "fll_off") \/ Fails("power")
  /\ wco' = FALSE
  /\ UNCHANGED <<fll, pll, source, hf0, div, lf, cold, waitFor, SystemCoreClock>>

\* The reset of the backup domain, on a cold start only, stops the WCO.
\* The regulator and the PMIC have no part in what follows.
init_cycfg_power ==
  /\ \/ At("power", "fll_off")
     \/ cold /\ Fails("power")
  /\ wco' = (wco /\ ~cold)
  /\ UNCHANGED <<fll, pll, source, hf0, div, lf, cold, waitFor, SystemCoreClock>>

FllDeInit ==
  /\ At("fll_off", "dividers") /\ fll' = FALSE
  /\ UNCHANGED <<pll, source, hf0, div, wco, lf, cold, waitFor, SystemCoreClock>>

\* The peripheral clock keeps half of HF0: its own set-up is not enabled.
ResetDividers ==
  /\ At("dividers", "plls_off") /\ div' = [hf0 |-> 1, fast |-> 0, peri |-> 1]
  /\ UNCHANGED <<fll, pll, source, hf0, wco, lf, cold, waitFor, SystemCoreClock>>

DisablePlls ==
  /\ At("plls_off", "path1_imo") /\ pll' = [p \in 1 .. 2 |-> FALSE]
  /\ UNCHANGED <<fll, source, hf0, div, wco, lf, cold, waitFor, SystemCoreClock>>

Path1FromImo ==
  /\ At("path1_imo", "leave_wco") /\ source' = [source EXCEPT ![1] = "IMO"]
  /\ UNCHANGED <<fll, pll, hf0, div, wco, lf, cold, waitFor, SystemCoreClock>>

\* HF0 leaves path 0 for a moment before a WCO there is replaced.
LeaveWco ==
  /\ At("leave_wco", "path0_imo")
  /\ hf0' = IF hf0 = 0 /\ source[0] = "WCO" THEN 1 ELSE hf0
  /\ UNCHANGED <<fll, pll, source, div, wco, lf, cold, waitFor, SystemCoreClock>>

Path0FromImo ==
  /\ At("path0_imo", "hf0_path0") /\ source' = [source EXCEPT ![0] = "IMO"]
  /\ UNCHANGED <<fll, pll, hf0, div, wco, lf, cold, waitFor, SystemCoreClock>>

Hf0FromPath0 ==
  /\ At("hf0_path0", "wco") /\ hf0' = 0
  /\ UNCHANGED <<fll, pll, source, div, wco, lf, cold, waitFor, SystemCoreClock>>

\* Mutant of WcoInit: the result of Cy_SysClk_WcoEnable is not looked at.
WcoInitIgnores ==
  /\ At("wco", "lf") /\ wco' \in {wco, TRUE}
  /\ UNCHANGED <<fll, pll, source, hf0, div, lf, cold, waitFor, SystemCoreClock>>

WcoInit ==
  /\ \/ At("wco", "lf") /\ wco' = TRUE
     \/ Fails("wco") /\ wco' = wco
  /\ UNCHANGED <<fll, pll, source, hf0, div, lf, cold, waitFor, SystemCoreClock>>

ClkLfInit ==
  /\ At("lf", "paths") /\ lf' = "WCO"
  /\ UNCHANGED <<fll, pll, source, hf0, div, wco, cold, waitFor, SystemCoreClock>>

\* ClkFastInit and ClkSlowInit repeat ResetDividers.
ClkPathsInit ==
  /\ At("paths", "fll") /\ source' = [p \in Paths |-> "IMO"]
  /\ UNCHANGED <<fll, pll, hf0, div, wco, lf, cold, waitFor, SystemCoreClock>>

FllInit ==
  /\ \/ At("fll", "hf0") /\ fll' = TRUE
     \/ Fails("fll") /\ fll' = fll
  /\ UNCHANGED <<pll, source, hf0, div, wco, lf, cold, waitFor, SystemCoreClock>>

ClkHf0Init ==
  /\ At("hf0", "pll0") /\ hf0' = 0 /\ div' = [div EXCEPT !.hf0 = 1]
  /\ UNCHANGED <<fll, pll, source, wco, lf, cold, waitFor, SystemCoreClock>>

Pll0Init ==
  /\ \/ At("pll0", "accurate") /\ pll' = [pll EXCEPT ![1] = TRUE]
     \/ Fails("pll0") /\ pll' = pll
  /\ UNCHANGED <<fll, source, hf0, div, wco, lf, cold, waitFor, SystemCoreClock>>

\* The timer, backup and SysTick clocks and the ILO have no part in this.
AccurateWaitStates ==
  /\ At("accurate", "update") /\ waitFor' = Hf0kHz
  /\ UNCHANGED <<tree, cold, SystemCoreClock>>

UpdateCoreClock ==
  /\ At("update", "reserve") /\ SystemCoreClockUpdate
  /\ UNCHANGED <<tree, cold, waitFor>>

\* A path multiplexer that is reserved already halts the processor.
ReservePathmuxes ==
  /\ At("reserve", "configured") \/ At("reserve", "halted")
  /\ UNCHANGED clocks

init_cycfg_system ==
  \/ WorstWaitStates \/ init_cycfg_power \/ FllDeInit \/ ResetDividers
  \/ DisablePlls \/ Path1FromImo \/ LeaveWco \/ Path0FromImo \/ Hf0FromPath0
  \/ WcoInit \/ ClkLfInit \/ ClkPathsInit \/ FllInit \/ ClkHf0Init \/ Pll0Init
  \/ AccurateWaitStates \/ UpdateCoreClock \/ ReservePathmuxes

(* The processor is never without a clock, and never with one that the     *)
(* flash does not keep up with, at any step of any start-up, failing ones  *)
(* included: no source is taken from under HF0, the wait states are those  *)
(* of the worst case before any clock goes up, and exact only at the end.  *)
(* cycfg_system.c:772-898, 1000-1003, 1153.                                *)
CoreFed == 0 < HF0 /\ HF0 <= waitFor
=============================================================================
