-------------------------------- MODULE Adc --------------------------------
(***************************************************************************)
(* AdcPeripheral: a conversion engine with at most one armed deadline.     *)
(* Scans that decimation skips collapse into one gap event; a continuous   *)
(* single conversion that nobody observes keeps no event at all and is     *)
(* computed when a register is accessed; a stopped clock suspends the      *)
(* remaining cycles.  Times are relative to now: "due" is the nanoseconds  *)
(* until the deadline (zero or less once it passed).                       *)
(***************************************************************************)
EXTENDS Integers, Sequences, FiniteSets

CONSTANTS
    Budget,        \* Budget[r]: cycles (scaled) of the conversion at rank r
    AdcClocks,     \* input clocks, 0 when the kernel is stopped
    Decimations,   \* factors of setDecimation
    MaxElapsed     \* bound on the time since ADSTART

ASSUME AdcAssumption ==
    /\ AdcClocks \subseteq Nat /\ Decimations \subseteq Nat \ {0} /\ MaxElapsed \in Nat
    /\ IsFiniteSet(DOMAIN Budget) /\ DOMAIN Budget = 0..(Cardinality(DOMAIN Budget) - 1)
    /\ 0 \in DOMAIN Budget /\ \A r \in DOMAIN Budget : Budget[r] \in Nat \ {0}

VARIABLE adc

NoDeadline == 0 - 1 - MaxElapsed
Gap(state) == state \in {"skipped_gap", "lazy_gap", "suspended_gap"}
Lazy(state) == state \in {"lazy", "lazy_gap"}
Suspended(state) == state \in {"suspended", "suspended_gap"}

(* Control and configuration; the engine; flags and level; and a history:  *)
(* the time since ADSTART, whether clock and configuration stayed the same *)
(* since then, and the last conversion that took effect.                   *)
AdcReset(hz, dec) ==
    [adstart |-> FALSE, continuous |-> FALSE, length |-> 1, ie |-> {}, hz |-> hz, dec |-> dec,
     observed |-> dec > 1, held |-> FALSE,
     state |-> "idle", due |-> NoDeadline, event |-> NoDeadline, rank |-> 0, scan |-> 0,
     skip |-> FALSE, suspended |-> 0, skipped |-> 0,
     flags |-> {}, level |-> FALSE,
     elapsed |-> 0, steady |-> FALSE, lastAt |-> 0, lastRank |-> 0, taken |-> 0]

AdcInit == \E dec \in Decimations, hz \in AdcClocks : adc = AdcReset(hz, dec)

-----------------------------------------------------------------------------
Stretched(cycles, hz) == LET d == (cycles + hz - 1) \div hz IN IF d < 1 THEN 1 ELSE d
DelayForRank(hz, r) == Stretched(Budget[r], hz)
(* How long the first ranks of a scan take.                                *)
DelaySum(hz, length) ==
    LET sum[r \in 0..length] == IF r = 0 THEN 0 ELSE sum[r - 1] + DelayForRank(hz, r - 1)
    IN  sum
AdcLevel(a) == [a EXCEPT !.level = a.ie \cap a.flags # {}]

(* cancelConversion *)
CancelConversion(a) ==
    [a EXCEPT !.state = "idle", !.due = NoDeadline, !.event = NoDeadline,
              !.suspended = 0, !.skipped = 0]

(* lazyConversionEligible: nothing would see the sample when it completes. *)
LazyEligible(a) ==
    a.length = 1 /\ a.continuous /\ a.adstart /\ a.ie = {} /\ ~a.observed

(* refreshConversionScheduling: a deadline is either lazy or has an event. *)
Refresh(a) ==
    IF a.due = NoDeadline \/ a.state = "idle" \/ Suspended(a.state) THEN a
    ELSE IF LazyEligible(a)
    THEN [a EXCEPT !.event = NoDeadline,
                   !.state = IF Gap(a.state) THEN "lazy_gap" ELSE "lazy"]
    ELSE [a EXCEPT !.state = IF Gap(a.state) THEN "skipped_gap" ELSE "scheduled",
                   !.event = IF @ = NoDeadline THEN a.due ELSE @]

ArmNext(a, delay) == Refresh([a EXCEPT !.due = delay, !.state = "scheduled"])

(* materializeConversion, "ago" nanoseconds ago: DR, EOC and EOS, the      *)
(* level.  With a sample callback DMA then reads DR, which clears EOC.     *)
Materialize(a, ago) ==
    LET flags == a.flags \cup {"eoc"} \cup (IF a.rank + 1 >= a.length THEN {"eos"} ELSE {})
    IN  AdcLevel([a EXCEPT !.flags = flags \ (IF a.observed THEN {"eoc"} ELSE {}),
                     !.lastAt = a.elapsed - ago, !.lastRank = a.rank, !.taken = @ + 1])

(* Seeded fault: the gap covers one scan too many.                         *)
ArmSkippedOneMore(a, count) ==
    Refresh([a EXCEPT !.due = (count + 1) * DelaySum(a.hz, a.length)[a.length],
                      !.state = "skipped_gap", !.skipped = count])

(* armSkippedScans: one deadline for "count" whole scans.                  *)
ArmSkippedScans(a, count) ==
    Refresh([a EXCEPT !.due = count * DelaySum(a.hz, a.length)[a.length],
                      !.state = "skipped_gap", !.skipped = count])

BeginNextScan(a) ==
    LET next == [a EXCEPT !.rank = 0]
    IN  IF ~a.continuous \/ ~a.adstart THEN [next EXCEPT !.adstart = FALSE, !.state = "idle"]
        ELSE IF a.hz = 0 THEN [next EXCEPT !.state = "idle"]
        ELSE IF a.scan % a.dec # 0
        THEN ArmSkippedScans([next EXCEPT !.skip = TRUE], a.dec - (a.scan % a.dec))
        ELSE ArmNext([next EXCEPT !.skip = FALSE], DelayForRank(a.hz, 0))

(* completeConversion: decimation decides per scan, at its first rank.     *)
CompleteConversion(a) ==
    LET skip == IF a.continuous /\ a.dec > 1 /\ a.rank = 0 THEN a.scan % a.dec # 0 ELSE a.skip
        keep == ~(a.continuous /\ a.dec > 1 /\ skip)
        done == IF keep THEN Materialize([a EXCEPT !.skip = skip], 0) ELSE [a EXCEPT !.skip = skip]
        next == [done EXCEPT !.rank = @ + 1]
    IN  IF a.rank + 1 >= a.length THEN BeginNextScan([done EXCEPT !.scan = @ + 1])
        ELSE IF a.hz # 0 /\ a.adstart THEN ArmNext(next, DelayForRank(a.hz, next.rank)) ELSE next

CompleteSkippedScans(a) ==
    BeginNextScan([a EXCEPT !.state = "idle", !.skipped = 0, !.rank = 0, !.scan = @ + a.skipped])

(* Seeded fault: a lazy conversion counts as ended when it is looked at.   *)
SynchronizeAtRead(a) ==
    LET delay == DelayForRank(a.hz, 0)
        late == (0 - a.due) % delay
    IN  IF ~Lazy(a.state) \/ a.due = NoDeadline \/ a.due > 0 THEN a
        ELSE IF a.state = "lazy_gap"
        THEN CompleteSkippedScans([a EXCEPT !.due = NoDeadline])
        ELSE [Materialize(a, 0) EXCEPT !.due = delay - late]

(* synchronizeLazyConversions: the latest of the conversions that are over *)
(* takes effect, the earlier ones were never seen.                         *)
Synchronize(a) ==
    LET delay == DelayForRank(a.hz, 0)
        late == (0 - a.due) % delay
    IN  IF ~Lazy(a.state) \/ a.due = NoDeadline \/ a.due > 0 THEN a
        ELSE IF a.state = "lazy_gap"
        THEN CompleteSkippedScans([a EXCEPT !.due = NoDeadline])
        ELSE [Materialize(a, late) EXCEPT !.due = delay - late]

(* startConversion; a stopped clock holds the whole conversion.            *)
StartConversion(a) ==
    LET fresh == [CancelConversion(a) EXCEPT !.rank = 0, !.scan = 0, !.skip = FALSE,
                     !.elapsed = 0, !.steady = TRUE, !.lastAt = 0, !.lastRank = 0, !.taken = 0]
    IN  IF a.hz = 0 THEN [fresh EXCEPT !.suspended = Budget[0], !.state = "suspended"]
        ELSE ArmNext(fresh, DelayForRank(a.hz, 0))

(* setInputClockHz: stopping keeps the remaining cycles, a new clock       *)
(* stretches what remains.                                                 *)
StopClock(a) ==
    IF a.due = NoDeadline THEN [a EXCEPT !.event = NoDeadline, !.hz = 0, !.state = "idle"]
    ELSE [a EXCEPT !.event = NoDeadline, !.due = NoDeadline, !.hz = 0,
             !.suspended = (IF a.due > 0 THEN a.due ELSE 0) * a.hz,
             !.state = IF Gap(a.state) THEN "suspended_gap" ELSE "suspended"]

RunClock(a, hz) ==
    LET left == IF a.suspended # 0 THEN a.suspended
                ELSE IF a.due # NoDeadline THEN (IF a.due > 0 THEN a.due ELSE 0) * a.hz ELSE 0
        resumes == a.suspended # 0 \/ a.due # NoDeadline
        moved == IF resumes
                 THEN [a EXCEPT !.due = Stretched(left, hz), !.suspended = 0, !.hz = hz,
                          !.event = NoDeadline,
                          !.state = IF Gap(a.state) THEN "skipped_gap" ELSE "scheduled"]
                 ELSE [a EXCEPT !.hz = hz, !.event = NoDeadline]
    IN  IF moved.due = NoDeadline /\ moved.adstart
        THEN ArmNext(moved, DelayForRank(moved.hz, moved.rank)) ELSE Refresh(moved)

SetAdcClock(a, hz) ==
    IF hz = a.hz THEN a
    ELSE LET now == Synchronize(a) IN IF hz = 0 THEN StopClock(now) ELSE RunClock(now, hz)

-----------------------------------------------------------------------------
(* A register write: lazy conversions first, the effect, then scheduling.  *)
(* Writes have no effect in reset.  A due event has run before the core's  *)
(* next access.                                                            *)
Quiet == adc.event # 0
Write(effect) == Quiet /\ ~adc.held /\ adc' = Refresh(effect)
Changed(a) == [a EXCEPT !.steady = FALSE]

AdcStart == Write(StartConversion([Synchronize(adc) EXCEPT !.adstart = TRUE]))
(* ADDIS cancels; a CR image without ADSTART lets the conversion finish.   *)
AdcDisable == Write(Changed([CancelConversion(Synchronize(adc)) EXCEPT !.adstart = FALSE]))
AdcClearStart == Write(Changed([Synchronize(adc) EXCEPT !.adstart = FALSE]))
WriteAdcCfgr == \E mode \in BOOLEAN : Write(Changed([Synchronize(adc) EXCEPT !.continuous = mode]))
WriteAdcSqr == \E n \in 1..Cardinality(DOMAIN Budget) :
    adc.state = "idle" /\ Write(Changed([adc EXCEPT !.length = n]))
WriteAdcIer == \E ie \in {{}, {"eos"}} : Write(AdcLevel([Synchronize(adc) EXCEPT !.ie = ie]))
ClearAdcIsr == Write(AdcLevel([Synchronize(adc) EXCEPT !.flags = {}]))
(* A read of DR: lazy conversions first; EOC is cleared.                   *)
ReadAdcDr == Quiet /\ adc' = AdcLevel([Synchronize(adc) EXCEPT !.flags = @ \ {"eoc"}])

(* setSampleCallback and setSampleHistoryEnabled.  Decimation is set       *)
(* through Stm32G4, which gives every converter a sample callback.         *)
SetObserved == \E on \in BOOLEAN :
    /\ Quiet /\ (adc.dec = 1 \/ on)
    /\ adc' = Refresh([Synchronize(adc) EXCEPT !.observed = on])
ChangeAdcClock == \E hz \in AdcClocks :
    Quiet /\ hz # adc.hz /\ adc' = SetAdcClock(Changed(adc), hz)
HoldReset ==
    /\ Quiet
    /\ adc' = IF adc.held THEN [adc EXCEPT !.held = FALSE]
              ELSE [AdcReset(adc.hz, adc.dec) EXCEPT !.observed = adc.observed, !.held = TRUE]

(* The two event thunks.                                                   *)
ConversionEvent ==
    /\ adc.event = 0
    /\ LET fired == [adc EXCEPT !.event = NoDeadline, !.due = NoDeadline, !.state = "idle"]
       IN  adc' = IF adc.state = "skipped_gap" THEN CompleteSkippedScans(fired)
                  ELSE CompleteConversion(fired)

AdcPasses ==
    /\ adc.event # 0 /\ adc.elapsed < MaxElapsed
    /\ adc' = [adc EXCEPT !.elapsed = @ + 1, !.due = IF @ = NoDeadline THEN @ ELSE @ - 1,
                          !.event = IF @ = NoDeadline THEN @ ELSE @ - 1]

AdcNext ==
    \/ AdcStart \/ AdcDisable \/ AdcClearStart \/ WriteAdcCfgr \/ WriteAdcSqr \/ WriteAdcIer
    \/ ClearAdcIsr \/ ReadAdcDr \/ SetObserved \/ ChangeAdcClock \/ HoldReset
    \/ ConversionEvent \/ AdcPasses

-----------------------------------------------------------------------------
(* What the hardware would do: the conversion at rank r of scan j ends     *)
(* this long after ADSTART, when nothing disturbs the sequence.            *)
EndsAt(a, j, r) ==
    j * DelaySum(a.hz, a.length)[a.length] + DelaySum(a.hz, a.length)[r + 1]

(* The engine's state and its event agree: an event is armed exactly in    *)
(* the two event states, always for the deadline itself; suspended work is *)
(* kept and has no deadline; the level follows the flags.                  *)
EngineSound ==
    /\ adc.event # NoDeadline <=> adc.state \in {"scheduled", "skipped_gap"}
    /\ adc.event # NoDeadline => adc.event = adc.due
    /\ adc.due # NoDeadline <=> adc.state \in {"scheduled", "skipped_gap", "lazy", "lazy_gap"}
    /\ adc.suspended # 0 => Suspended(adc.state)
    /\ Suspended(adc.state) => adc.hz = 0
    /\ adc.level <=> adc.ie \cap adc.flags # {}

(* Kept conversions keep the hardware's time and order, whether the scans  *)
(* between them ran one by one or collapsed into a gap, and whether the    *)
(* last one was computed when it ended or when a register was read: the    *)
(* last result carries the time at which the hardware ends a conversion of *)
(* a scan that decimation keeps.  That it is the latest such conversion is *)
(* NoneMissed.                                                             *)
KeptOnTime ==
    adc.steady /\ adc.taken > 0 =>
        \E scan \in 0..MaxElapsed : /\ scan % adc.dec = 0 \/ ~adc.continuous
                                    /\ adc.lastAt = EndsAt(adc, scan, adc.lastRank)

(* A register access, which first computes the lazy conversions, finds the *)
(* latest kept conversion: none ended after it and before the deadline     *)
(* that the engine has armed (or before now, when it has stopped), however *)
(* many scans a gap stands for and however long nobody looked.             *)
NoneMissed ==
    LET seen == Synchronize(adc)
        reached == IF seen.due = NoDeadline THEN adc.elapsed + 1 ELSE adc.elapsed + seen.due
    IN  adc.steady /\ adc.hz # 0 =>
            \A scan \in 0..(IF adc.continuous THEN MaxElapsed ELSE 0), r \in 0..(adc.length - 1) :
                scan % adc.dec = 0 \/ ~adc.continuous =>
                    EndsAt(adc, scan, r) <= seen.lastAt \/ EndsAt(adc, scan, r) >= reached

(* What firmware and the DMA may rely on: flags, armed conversions and the *)
(* clock agree, and kept results are those of the hardware's own times     *)
(* (AdcPeripheral's lazy and decimated conversions).                       *)
AdcSound == EngineSound /\ KeptOnTime
=============================================================================
