------------------------------- MODULE Timers -------------------------------
(***************************************************************************)
(* TimerPeripheral, IwdgPeripheral and WwdgPeripheral: counters that are   *)
(* not incremented but computed from an epoch, and one event armed for the *)
(* next overflow or timeout.  Times are kept relative to now: "age" is     *)
(* currentTime() minus the epoch, "due" the nanoseconds until the event.   *)
(***************************************************************************)
EXTENDS Integers, FiniteSets

CONSTANTS
    NsPerSecond,      \* 1000000000
    ClockRates,       \* input clocks a timer may be given
    Prescalers,       \* values of PSC
    Reloads,          \* values of ARR, and of CNT
    ArrReset,         \* 0xffff
    Timeouts,         \* durations that PR and RLR, or CR and CFR, can select
    TimeoutReset      \* the duration after reset

ASSUME TimersAssumption ==
    /\ NsPerSecond \in Nat \ {0} /\ ClockRates \subseteq Nat \ {0}
    /\ Prescalers \subseteq Nat /\ Reloads \subseteq Nat /\ ArrReset \in Nat
    /\ TimeoutReset \in Timeouts /\ Timeouts \subseteq Nat \ {0}

VARIABLES
    tim,     \* one timer: registers, epoch and armed update event
    wdg,     \* the two watchdogs
    resetRequested   \* Stm32G4::reset_requested_

TimersVars == <<tim, wdg, resetRequested>>

Watchdogs == {"iwdg", "wwdg"}
NoEvent == -1
CeilOf(a, b) == (a + b - 1) \div b
AtLeastOne(n) == IF n < 1 THEN 1 ELSE n

ResetTim(hz) == [cen |-> FALSE, opm |-> FALSE, uie |-> FALSE, uif |-> FALSE, psc |-> 0,
                 arr |-> ArrReset, hz |-> hz, running |-> FALSE, value |-> 0, age |-> 0,
                 due |-> NoEvent, level |-> FALSE]

(* "duration" is what the registers select now, "armedFor" and "age" what  *)
(* the pending timeout was armed with and how long ago.  "selected" and    *)
(* "quiet" are a history: the duration selected when firmware last fed the *)
(* watchdog, and the time since.                                           *)
ResetWdg(enabled) == [running |-> FALSE, unlocked |-> FALSE, duration |-> TimeoutReset,
                      resets |-> enabled, age |-> 0, armedFor |-> NoEvent,
                      selected |-> TimeoutReset, quiet |-> 0]

TimersInit ==
    /\ tim \in {ResetTim(hz) : hz \in ClockRates}
    /\ wdg = [w \in Watchdogs |-> ResetWdg(FALSE)]
    /\ resetRequested = FALSE

-----------------------------------------------------------------------------
(* timerTicks, durationForTicks, liveCounter.  The code computes in long   *)
(* double; here the arithmetic is exact.                                   *)
TimerTicks(t, duration) == (duration * t.hz) \div (NsPerSecond * (t.psc + 1))
DurationForTicks(t, ticks) == AtLeastOne(CeilOf(ticks * (t.psc + 1) * NsPerSecond, t.hz))

LiveCounter(t) ==
    IF ~t.running \/ t.age = 0 THEN t.value
    ELSE (t.value + (TimerTicks(t, t.age) % (t.arr + 1))) % (t.arr + 1)

CaptureCounter(t) == [t EXCEPT !.value = LiveCounter(t), !.age = 0]

(* scheduleUpdate: a counter beyond ARR overflows with its next tick.      *)
Remaining(t, current) == t.arr + 1 - (IF current < t.arr THEN current ELSE t.arr)
ScheduleUpdate(t) ==
    [t EXCEPT !.due = IF t.running THEN DurationForTicks(t, Remaining(t, LiveCounter(t)))
                      ELSE NoEvent]

TimLevel(t) == [t EXCEPT !.level = t.uie /\ t.uif]

(* Seeded fault: the counter is captured with the register just written.   *)
RetimeAfterWrite(t, written) ==
    ScheduleUpdate(CaptureCounter(written))

(* A write of CR1, PSC or ARR: capture with the old register, then install *)
(* the new one, restart the epoch and arm the update again.                *)
Retime(t, written) ==
    LET captured == CaptureCounter(t)
    IN  ScheduleUpdate([written EXCEPT !.value = captured.value, !.age = 0])

(* fireUpdate: one-pulse mode stops the counter after the callbacks.       *)
FireUpdate(t) ==
    LET fired == TimLevel([t EXCEPT !.age = 0, !.value = 0, !.uif = TRUE, !.due = NoEvent])
    IN  ScheduleUpdate(IF t.opm THEN [fired EXCEPT !.cen = FALSE, !.running = FALSE] ELSE fired)

-----------------------------------------------------------------------------
WriteTimCr1 == \E en, opm \in BOOLEAN :
    tim' = Retime(tim, [tim EXCEPT !.cen = en, !.opm = opm, !.running = en])
WriteTimPsc == \E p \in Prescalers : tim' = Retime(tim, [tim EXCEPT !.psc = p])
WriteTimArr == \E r \in Reloads : tim' = Retime(tim, [tim EXCEPT !.arr = r])
WriteTimCnt == \E n \in Reloads : tim' = ScheduleUpdate([tim EXCEPT !.value = n, !.age = 0])
SetTimClock == \E hz \in ClockRates :
    tim' = ScheduleUpdate([CaptureCounter(tim) EXCEPT !.hz = hz])
ClearUif == tim' = TimLevel([tim EXCEPT !.uif = FALSE])
WriteTimDier == \E ie \in BOOLEAN : tim' = TimLevel([tim EXCEPT !.uie = ie])
ForceUpdate == tim' = FireUpdate(tim)
UpdateEvent == tim.due = 0 /\ tim' = FireUpdate(tim)
ResetTimer == tim' = ResetTim(tim.hz)

(* Time passes until the armed event is due; the event loop runs that      *)
(* event before time goes on.                                              *)
TimPasses ==
    /\ tim.due > 0
    /\ tim' = [tim EXCEPT !.age = @ + 1, !.due = @ - 1]

TimNext ==
    /\ \/ WriteTimCr1 \/ WriteTimPsc \/ WriteTimArr \/ WriteTimCnt \/ SetTimClock
       \/ ClearUif \/ WriteTimDier \/ ForceUpdate \/ UpdateEvent \/ ResetTimer \/ TimPasses
    /\ UNCHANGED <<wdg, resetRequested>>

-----------------------------------------------------------------------------
(* Seeded fault: reload arms a timeout without cancelling the last one.    *)
ReloadKeepsOld(d) ==
    IF ~d.running THEN d
    ELSE [d EXCEPT !.age = IF d.armedFor = NoEvent THEN 0 ELSE @,
                   !.armedFor = IF d.armedFor = NoEvent THEN d.duration ELSE @]

(* reload of both watchdogs: cancel, then arm for the selected duration.   *)
Reload(d) ==
    IF ~d.running THEN [d EXCEPT !.armedFor = NoEvent]
    ELSE [d EXCEPT !.age = 0, !.armedFor = d.duration]

Fed(d) == [Reload(d) EXCEPT !.selected = d.duration, !.quiet = 0]

(* applyKey of the independent watchdog: unlock, start, reload.            *)
IwdgUnlock == wdg' = [wdg EXCEPT !["iwdg"].unlocked = TRUE]
IwdgStart == wdg' = [wdg EXCEPT !["iwdg"] = Fed([@ EXCEPT !.running = TRUE])]
IwdgReload == wdg["iwdg"].running /\ wdg' = [wdg EXCEPT !["iwdg"] = Fed(@)]

(* PR and RLR: written only once unlocked, and used from the next reload.  *)
IwdgConfigure == \E n \in Timeouts :
    /\ wdg["iwdg"].unlocked
    /\ wdg' = [wdg EXCEPT !["iwdg"].duration = n]

(* CFR of the window watchdog: plain storage, used from the next reload.   *)
WwdgConfigure == \E n \in Timeouts : wdg' = [wdg EXCEPT !["wwdg"].duration = n]

(* CR of the window watchdog: WDGA starts or reloads, and stops it.        *)
WwdgControl == \E n \in Timeouts, enable \in BOOLEAN :
    wdg' = [wdg EXCEPT !["wwdg"] =
        Fed([@ EXCEPT !.duration = n, !.running = enable])]

SetResetEnabled == \E w \in Watchdogs, enabled \in BOOLEAN :
    wdg' = [wdg EXCEPT ![w] = LET d == [@ EXCEPT !.resets = enabled]
                              IN  IF d.running THEN Fed(d) ELSE d]

WatchdogBites == \E w \in Watchdogs :
    /\ wdg[w].armedFor # NoEvent /\ wdg[w].age = wdg[w].armedFor
    /\ wdg' = [wdg EXCEPT ![w].armedFor = NoEvent]
    /\ resetRequested' = (resetRequested \/ wdg[w].resets)

(* Time passes while no timeout is due.                                    *)
WdgPasses ==
    /\ \A w \in Watchdogs : wdg[w].armedFor # NoEvent => wdg[w].age < wdg[w].armedFor
    /\ wdg' = [w \in Watchdogs |->
          [wdg[w] EXCEPT !.age = IF wdg[w].armedFor = NoEvent THEN 0 ELSE @ + 1,
                         !.quiet = IF wdg[w].running /\ @ <= wdg[w].selected THEN @ + 1 ELSE @]]

(* consumeResetRequest, then Stm32G4::reset.                               *)
ResetConsumed ==
    /\ resetRequested /\ resetRequested' = FALSE
    /\ wdg' = [w \in Watchdogs |-> ResetWdg(wdg[w].resets)]

WdgNext ==
    /\ \/ /\ IwdgUnlock \/ IwdgStart \/ IwdgReload \/ IwdgConfigure \/ WwdgConfigure
             \/ WwdgControl \/ SetResetEnabled \/ WdgPasses
          /\ UNCHANGED resetRequested
       \/ WatchdogBites \/ ResetConsumed
    /\ UNCHANGED tim

-----------------------------------------------------------------------------
(* Rewriting CR1, PSC or ARR, or changing the input clock, never makes the *)
(* counter jump: its value at that instant is the one it had.              *)
CounterContinuous ==
    [][tim' # tim /\ (WriteTimCr1 \/ WriteTimPsc \/ WriteTimArr \/ SetTimClock) =>
          LiveCounter(tim') = LiveCounter(tim)]_tim

(* The computed counter and the event agree: a running counter always has  *)
(* its overflow armed, never reaches ARR + 1 before that event, and has    *)
(* reached it when the event is due; the lifecycle mirrors CEN and the     *)
(* level follows the flag, one-pulse mode and forced updates included.     *)
UpdateOnTime ==
    /\ tim.running <=> tim.cen
    /\ tim.running <=> tim.due # NoEvent
    /\ tim.level <=> tim.uie /\ tim.uif
    /\ tim.running =>
          /\ tim.due > 0 => TimerTicks(tim, tim.age) < Remaining(tim, tim.value)
          /\ TimerTicks(tim, tim.age + tim.due) >= Remaining(tim, tim.value)

(* A watchdog bites exactly the selected duration after it was last fed:   *)
(* no timeout of an earlier reload survives, later writes of the registers *)
(* do not move the pending one, a stopped watchdog has none, and a running *)
(* one is without a timeout only after it bit.  A locked independent       *)
(* watchdog keeps its reset duration.                                      *)
WatchdogExact ==
    \A w \in Watchdogs : LET d == wdg[w] IN
        /\ d.armedFor # NoEvent =>
              d.running /\ d.quiet <= d.selected /\ d.armedFor - d.age = d.selected - d.quiet
        /\ d.running /\ d.armedFor = NoEvent => d.quiet >= d.selected
        /\ w = "iwdg" /\ ~d.unlocked => d.duration = TimeoutReset
=============================================================================
