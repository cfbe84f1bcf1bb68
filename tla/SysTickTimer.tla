---------------------------- MODULE SysTickTimer ----------------------------
(***************************************************************************)
(* The cycle counters of fil::cortexm::SystemControl: SysTick and the DWT  *)
(* cycle counter.  advanceCycles receives a whole slice at once, and       *)
(* cyclesUntilSysTickInterrupt tells the board how long a slice may be.    *)
(***************************************************************************)
EXTENDS Integers

CONSTANTS
    Loads,          \* values firmware writes to SYST_RVR
    CycleModulus,   \* 2^32: the width of DWT_CYCCNT
    MaxSlice        \* bound on the cycles of one slice

ASSUME LoadAssumption == Loads \subseteq Nat /\ Loads # {}
ASSUME ModulusAssumption == CycleModulus \in Nat \ {0} /\ MaxSlice \in Nat

VARIABLE tick   \* systick_*_, dwt_ctrl_ and dwt_cyccnt_

Tick == [enable : BOOLEAN, tickint : BOOLEAN, load : Nat, value : Nat,
         toWrap : Nat, countFlag : BOOLEAN, pending : BOOLEAN,
         dwtEnable : BOOLEAN, cyccnt : 0..(CycleModulus - 1)]

(* SystemControl::reset *)
TickInit == tick = [enable |-> FALSE, tickint |-> FALSE, load |-> 0, value |-> 0,
                    toWrap |-> 0, countFlag |-> FALSE, pending |-> FALSE,
                    dwtEnable |-> FALSE, cyccnt |-> 0]

Period(t) == t.load + 1

(* systick_cycles_to_wrap_ is loaded lazily: 0 stands for a whole period.  *)
ToWrap(t) == IF t.toWrap = 0 THEN Period(t) ELSE t.toWrap

CountDwt(t, cycles) ==
    IF t.dwtEnable THEN (t.cyccnt + cycles) % CycleModulus ELSE t.cyccnt

(* Seeded fault: at most one wrap in a slice. *)
AfterWrapWithoutModulo(t, remaining) ==
    IF remaining >= Period(t) THEN Period(t) ELSE Period(t) - remaining

(* The countdown left when "remaining" cycles of the slice follow a wrap.  *)
AfterWrap(t, remaining) == Period(t) - (remaining % Period(t))

AdvanceCycles(t, cycles) ==
    LET counted == [t EXCEPT !.cyccnt = CountDwt(t, cycles)]
        left == IF cycles < ToWrap(t) THEN ToWrap(t) - cycles
                ELSE AfterWrap(t, cycles - ToWrap(t))
        wraps == cycles >= ToWrap(t)
    IN  IF ~t.enable \/ t.load = 0 \/ cycles = 0 THEN counted
        ELSE [counted EXCEPT !.toWrap = left,
                             !.value = left - 1,
                             !.countFlag = @ \/ wraps,
                             !.pending = @ \/ (wraps /\ t.tickint)]

Never == -1

(* Seeded fault: a countdown not yet loaded is taken at its value. *)
CyclesUntilIgnoringLoad(t) ==
    IF t.pending THEN 0
    ELSE IF t.enable /\ t.tickint /\ t.load # 0 THEN t.toWrap ELSE Never

CyclesUntilSysTickInterrupt(t) ==
    IF t.pending THEN 0
    ELSE IF t.enable /\ t.tickint /\ t.load # 0 THEN ToWrap(t) ELSE Never

(* accountCycles after an instruction or a slice.                          *)
Advance == \E n \in 0..MaxSlice : tick' = AdvanceCycles(tick, n)

(* SYST_CSR: enabling or disabling restarts the period.                    *)
WriteCtrl == \E enable, tickint \in BOOLEAN :
    tick' = [tick EXCEPT !.enable = enable, !.tickint = tickint,
                         !.toWrap = IF enable /\ tick.enable THEN @ ELSE 0]

WriteLoad == \E load \in Loads :
    tick' = [tick EXCEPT !.load = load, !.toWrap = 0]
WriteValue == tick' = [tick EXCEPT !.value = 0, !.toWrap = 0, !.countFlag = FALSE]
ReadCtrl == tick' = [tick EXCEPT !.countFlag = FALSE]

(* Exception entry, ICSR writes.                                           *)
ClearTickPending == tick' = [tick EXCEPT !.pending = FALSE]
SetTickPending == tick' = [tick EXCEPT !.pending = TRUE]

WriteDwtCtrl == \E b \in BOOLEAN : tick' = [tick EXCEPT !.dwtEnable = b]
WriteCyccnt == \E v \in 0..(CycleModulus - 1) : tick' = [tick EXCEPT !.cyccnt = v]

TickNext ==
    \/ Advance \/ WriteCtrl \/ WriteLoad \/ WriteValue \/ ReadCtrl
    \/ ClearTickPending \/ SetTickPending \/ WriteDwtCtrl \/ WriteCyccnt

TickSpec == TickInit /\ [][TickNext]_tick

-----------------------------------------------------------------------------
(* The countdown never exceeds a period, and never lags behind a reload of *)
(* the period: what advanceCycles subtracts from stays positive.           *)
TickTypeOK == tick \in Tick /\ tick.toWrap <= Period(tick)

(* Slicing is invisible: advancing by a slice of a + b cycles leaves every *)
(* register as two slices of a and b do, for every slice a board may       *)
(* account at once (wraps in the middle of a slice included).              *)
SliceInvariance ==
    \A a \in 0..MaxSlice : \A b \in 0..(MaxSlice - a) :
        AdvanceCycles(AdvanceCycles(tick, a), b) = AdvanceCycles(tick, a + b)

(* The bound the board puts on a slice is exact: no shorter slice pends    *)
(* SysTick, and the slice of that length does.                             *)
PredictionExact ==
    LET k == CyclesUntilSysTickInterrupt(tick)
    IN  \A n \in 0..MaxSlice :
            AdvanceCycles(tick, n).pending <=> (k # Never /\ n >= k)
=============================================================================
