---------------------------- MODULE DeviceProofs ----------------------------
(***************************************************************************)
(* The microcontroller's parts, for every value of the constants.          *)
(*                                                                         *)
(* SysTick: the countdown stays within a period, the bound the board puts  *)
(* on a slice is exact, and slices add up.  Timers: age and due add up to  *)
(* the duration that was armed (TimerInv), and that duration is the least  *)
(* whose ticks reach the overflow.  Watchdogs: the time left and the time  *)
(* since they were fed add up to the selected duration (WatchdogInv).      *)
(*                                                                         *)
(* The FDCAN controller: the invariant FdInv says that the interrupt lines *)
(* are what the registers select (FdLines), that the transmit indices are  *)
(* settled (FdSettled), that the receive ring holds the last arrivals in   *)
(* order (FdRing), and that a buffer, its lifecycle state, its generation  *)
(* and the bus's sends agree (FdOwned).  A transmit request is followed    *)
(* from its reservation (FdMid) to its outcome (FdOutcome).  On top of it  *)
(* stand TakeInv, for the receive routine, and OrderInv, for firmware that *)
(* follows the put index; and the ring refines the bounded queue of        *)
(* RxFifo.                                                                 *)
(*                                                                         *)
(* The converter: the invariant AdcInv says that state, deadline, event    *)
(* and suspended work agree (AdcArmed) and that, while nothing disturbs a  *)
(* sequence, the deadline is the hardware's (AdcOnTime), scans are skipped *)
(* as a whole (AdcSkips) and the last result kept is one the hardware had  *)
(* by now (AdcKept).                                                       *)
(***************************************************************************)
EXTENDS MCDevice, TLAPS, NaturalsInduction, WellFoundedInduction, FiniteSetTheorems, SequenceTheorems

-----------------------------------------------------------------------------
(* Arithmetic. *)

LEMMA LeastNumber ==
    ASSUME NEW T \in SUBSET Nat, T # {}
    PROVE  \E x \in T : \A y \in T : x <= y
  <1>1. PICK x \in T : \A y \in T : ~(<<y, x>> \in OpToRel(<, Nat))
    BY WFMin, NatLessThanWellFounded
  <1>2. ASSUME NEW y \in T PROVE x <= y
    <2>1. <<y, x>> \in Nat \X Nat /\ <<y, x>>[1] = y /\ <<y, x>>[2] = x
      OBVIOUS
    <2>2. y < x => <<y, x>> \in OpToRel(<, Nat)
      BY <2>1, Zenon DEF OpToRel
    <2>3. ~(y < x)
      BY <1>1, <2>2, Zenon
    <2> QED
      BY <2>3
  <1> QED
    BY <1>2

LEMMA DivMod ==
    ASSUME NEW a \in Nat, NEW n \in Nat \ {0}
    PROVE  a \div n \in Nat /\ a % n \in 0..(n - 1) /\ a = (a \div n) * n + (a % n)
  BY SMT

LEMMA ModSmall ==
    ASSUME NEW n \in Nat \ {0}, NEW a \in 0..(n - 1)
    PROVE  a % n = a
  <1>1. PICK q \in Nat, r \in 0..(n - 1) : q = a \div n /\ r = a % n /\ a = q * n + r
    BY DivMod
  <1>2. q = 0
    <2>1. q >= 1 => q * n >= n
      BY SMT
    <2> QED
      BY <1>1, <2>1
  <1> QED
    BY <1>1, <1>2

LEMMA ModWrap ==
    ASSUME NEW n \in Nat \ {0}, NEW a \in n..(2 * n - 1)
    PROVE  a % n = a - n
  <1>1. PICK q \in Nat, r \in 0..(n - 1) : q = a \div n /\ r = a % n /\ a = q * n + r
    <2>1. a \in Nat
      OBVIOUS
    <2> QED
      BY <2>1, DivMod
  <1>2. q = 1
    <2>1. q >= 2 => q * n >= 2 * n
      BY SMT
    <2> QED
      BY <1>1, <2>1
  <1> QED
    BY <1>1, <1>2

(* A remainder is smaller than its divisor.                                *)
LEMMA RemainderBounds ==
    ASSUME NEW a \in Nat, NEW p \in Nat \ {0}
    PROVE  a % p \in 0..(p - 1)
  BY SMT

LEMMA TimesOrdered ==
    ASSUME NEW x \in Nat, NEW y \in Nat, NEW n \in Nat, x <= y
    PROVE  x * n \in Nat /\ y * n \in Nat /\ x * n <= y * n
  <1>1. PICK k \in Nat : y = x + k
    <2>1. y - x \in Nat /\ y = x + (y - x)
      OBVIOUS
    <2> QED
      BY <2>1
  <1>2. k * n \in Nat /\ x * n \in Nat
    BY SMT
  <1>3. y * n = x * n + k * n
    BY <1>1, SMT
  <1> QED
    BY <1>2, <1>3

LEMMA DivisionUnique ==
    ASSUME NEW n \in Nat \ {0}, NEW q \in Nat, NEW r \in 0..(n - 1)
    PROVE  (q * n + r) % n = r
  <1>1. PICK a \in Nat : a = q * n + r
    <2>1. q * n \in Nat
      BY SMT
    <2> QED
      BY <2>1
  <1>2. PICK p \in Nat, s \in 0..(n - 1) : s = a % n /\ a = p * n + s
    BY DivMod
  <1>3. q * n \in Nat /\ p * n \in Nat
    BY SMT
  <1>4. ~(p < q)
    <2>1. SUFFICES ASSUME p < q PROVE FALSE
      OBVIOUS
    <2>2. p + 1 \in Nat /\ p + 1 <= q /\ (p + 1) * n = p * n + n
      BY <2>1, SMT
    <2>3. (p + 1) * n <= q * n
      BY <2>2, TimesOrdered
    <2> QED
      BY <1>1, <1>2, <1>3, <2>2, <2>3
  <1>5. ~(q < p)
    <2>1. SUFFICES ASSUME q < p PROVE FALSE
      OBVIOUS
    <2>2. q + 1 \in Nat /\ q + 1 <= p /\ (q + 1) * n = q * n + n
      BY <2>1, SMT
    <2>3. (q + 1) * n <= p * n
      BY <2>2, TimesOrdered
    <2> QED
      BY <1>1, <1>2, <1>3, <2>2, <2>3
  <1>6. p = q
    BY <1>4, <1>5
  <1>7. s = r
    BY <1>1, <1>2, <1>3, <1>6
  <1> QED
    BY <1>1, <1>2, <1>7

(* The remainder of a sum, and of a number one period further on.          *)
LEMMA RemainderOfSum ==
    ASSUME NEW n \in Nat \ {0}, NEW a \in Nat, NEW b \in Nat
    PROVE  (a + b) % n = ((a % n) + b) % n
  <1>1. PICK q \in Nat, r \in 0..(n - 1) : r = a % n /\ a = q * n + r
    BY DivMod
  <1>2. PICK x \in Nat : x = r + b
    OBVIOUS
  <1>3. PICK p \in Nat, s \in 0..(n - 1) : s = x % n /\ x = p * n + s
    BY DivMod
  <1>4. q * n \in Nat /\ p * n \in Nat /\ (q + p) * n = q * n + p * n
    BY SMT
  <1>5. q + p \in Nat /\ a + b = (q + p) * n + s
    BY <1>1, <1>2, <1>3, <1>4
  <1>6. ((q + p) * n + s) % n = s
    BY <1>5, DivisionUnique
  <1> QED
    BY <1>1, <1>2, <1>3, <1>5, <1>6

LEMMA RemainderOfNext ==
    ASSUME NEW n \in Nat \ {0}, NEW a \in Nat
    PROVE  (a + n) % n = a % n
  <1>1. PICK q \in Nat, r \in 0..(n - 1) : r = a % n /\ a = q * n + r
    BY DivMod
  <1>2. q + 1 \in Nat /\ q * n \in Nat /\ (q + 1) * n = q * n + n
    BY SMT
  <1>3. a + n = (q + 1) * n + r
    BY <1>1, <1>2
  <1>4. ((q + 1) * n + r) % n = r
    BY <1>2, DivisionUnique
  <1> QED
    BY <1>1, <1>3, <1>4

(* Multiplied out, a quotient is compared with a number.                   *)
LEMMA QuotientBelow ==
    ASSUME NEW x \in Nat, NEW m \in Nat \ {0}, NEW r \in Nat
    PROVE  /\ x < r * m => x \div m < r
           /\ x >= r * m => x \div m >= r
  <1>1. PICK q \in Nat, s \in 0..(m - 1) : q = x \div m /\ x = q * m + s
    BY DivMod
  <1>2. q * m \in Nat /\ r * m \in Nat
    BY SMT
  <1>3. ASSUME x < r * m PROVE q < r
    <2>1. SUFFICES ASSUME ~(q < r) PROVE FALSE
      OBVIOUS
    <2>2. r * m <= q * m
      BY <2>1, TimesOrdered
    <2> QED
      BY <1>1, <1>2, <1>3, <2>2
  <1>4. ASSUME x >= r * m PROVE q >= r
    <2>1. SUFFICES ASSUME ~(q >= r) PROVE FALSE
      OBVIOUS
    <2>2. q + 1 \in Nat /\ q + 1 <= r /\ (q + 1) * m = q * m + m
      BY <2>1, SMT
    <2>3. (q + 1) * m <= r * m
      BY <2>2, TimesOrdered
    <2> QED
      BY <1>1, <1>2, <1>4, <2>2, <2>3
  <1> QED
    BY <1>1, <1>3, <1>4

(* The rounded-up quotient is the least number that reaches.               *)
LEMMA CeilReaches ==
    ASSUME NEW a \in Nat \ {0}, NEW h \in Nat \ {0}
    PROVE  \E d \in Nat \ {0} : d = CeilOf(a, h) /\ d * h >= a /\ (d - 1) * h < a
  <1>1. PICK x \in Nat : x = a + h - 1
    OBVIOUS
  <1>2. PICK d \in Nat, s \in 0..(h - 1) : d = x \div h /\ x = d * h + s
    BY DivMod
  <1>3. d * h \in Nat
    BY SMT
  <1>4. d # 0
    <2>1. d = 0 => d * h = 0
      BY SMT
    <2> QED
      BY <1>1, <1>2, <2>1
  <1>5. (d - 1) * h = d * h - h
    BY SMT
  <1>6. d * h >= a /\ (d - 1) * h < a
    BY <1>1, <1>2, <1>3, <1>5
  <1>7. d = CeilOf(a, h)
    BY <1>1, <1>2 DEF CeilOf
  <1> QED
    BY <1>4, <1>6, <1>7

-----------------------------------------------------------------------------
(* SysTick and the DWT cycle counter (SysTickTimer). *)

(* The countdown after a wrap is between 1 and a whole period.             *)
LEMMA CountdownBounds ==
    ASSUME NEW t \in Tick, NEW r \in Nat
    PROVE  AfterWrap(t, r) \in 1..Period(t)
  <1>1. Period(t) \in Nat \ {0}
    BY DEF Tick, Period
  <1>2. r % Period(t) \in 0..(Period(t) - 1)
    BY <1>1, RemainderBounds
  <1> QED
    BY <1>1, <1>2 DEF AfterWrap

(* advanceCycles keeps the types and the bound on the countdown.           *)
LEMMA AdvanceTyped ==
    ASSUME NEW t \in Tick, t.toWrap <= Period(t), NEW n \in Nat
    PROVE  /\ AdvanceCycles(t, n) \in Tick
           /\ AdvanceCycles(t, n).toWrap <= Period(AdvanceCycles(t, n))
  <1> DEFINE left == IF n < ToWrap(t) THEN ToWrap(t) - n
                     ELSE AfterWrap(t, n - ToWrap(t))
  <1> DEFINE cc == CountDwt(t, n)
  <1>1. Period(t) \in Nat \ {0} /\ ToWrap(t) \in 1..Period(t)
    BY DEF Tick, Period, ToWrap
  <1>2. left \in 1..Period(t)
    <2>1. CASE n < ToWrap(t)
      BY <1>1, <2>1
    <2>2. CASE ~(n < ToWrap(t))
      <3>1. n - ToWrap(t) \in Nat
        BY <1>1, <2>2
      <3> QED
        BY <2>2, <3>1, CountdownBounds
    <2> QED
      BY <2>1, <2>2
  <1>3. cc \in 0..(CycleModulus - 1)
    <2>1. (t.cyccnt + n) % CycleModulus \in 0..(CycleModulus - 1)
      <3>1. t.cyccnt + n \in Nat
        BY ModulusAssumption DEF Tick
      <3> QED
        BY <3>1, RemainderBounds, ModulusAssumption
    <2> QED
      BY <2>1 DEF CountDwt, Tick
  <1>4. AdvanceCycles(t, n) =
          IF ~t.enable \/ t.load = 0 \/ n = 0
          THEN [t EXCEPT !.cyccnt = cc]
          ELSE [t EXCEPT !.cyccnt = cc, !.toWrap = left, !.value = left - 1,
                         !.countFlag = @ \/ n >= ToWrap(t),
                         !.pending = @ \/ (n >= ToWrap(t) /\ t.tickint)]
    BY DEF AdvanceCycles, Tick
  <1> HIDE DEF left, cc
  <1>5. left \in Nat /\ left - 1 \in Nat /\ left <= t.load + 1
    BY <1>1, <1>2 DEF Period, Tick
  <1> DEFINE flag == t.countFlag \/ n >= ToWrap(t)
             pend == t.pending \/ (n >= ToWrap(t) /\ t.tickint)
  <1>6. flag \in BOOLEAN /\ pend \in BOOLEAN
    OBVIOUS
  <1>7. CASE ~t.enable \/ t.load = 0 \/ n = 0
    BY <1>3, <1>4, <1>7 DEF Tick, Period
  <1>8. CASE ~(~t.enable \/ t.load = 0 \/ n = 0)
    <2>1. AdvanceCycles(t, n)
            = [t EXCEPT !.cyccnt = cc, !.toWrap = left, !.value = left - 1,
                        !.countFlag = flag, !.pending = pend]
      BY <1>4, <1>8 DEF Tick
    <2> HIDE DEF flag, pend
    <2> QED
      BY <2>1, <1>3, <1>5, <1>6 DEF Tick, Period
  <1> QED
    BY <1>7, <1>8

LEMMA InitTyped == TickInit => TickTypeOK
  BY ModulusAssumption DEF TickInit, TickTypeOK, Tick, Period

LEMMA NextTyped == TickTypeOK /\ [TickNext]_tick => TickTypeOK'
  <1> SUFFICES ASSUME TickTypeOK, [TickNext]_tick PROVE TickTypeOK'
    OBVIOUS
  <1>1. CASE Advance
    <2>1. PICK n \in 0..MaxSlice : tick' = AdvanceCycles(tick, n)
      BY <1>1 DEF Advance
    <2>2. n \in Nat
      BY ModulusAssumption
    <2> QED
      BY <2>1, <2>2, AdvanceTyped DEF TickTypeOK
  <1>2. CASE WriteCtrl
    <2>1. PICK enable \in BOOLEAN, tickint \in BOOLEAN :
            tick' = [tick EXCEPT !.enable = enable, !.tickint = tickint,
                       !.toWrap = IF enable /\ tick.enable THEN @ ELSE 0]
      BY <1>2 DEF WriteCtrl
    <2>2. PICK w \in Nat : /\ w <= tick.load + 1
                           /\ w = IF enable /\ tick.enable THEN tick.toWrap ELSE 0
      BY DEF TickTypeOK, Tick, Period
    <2>3. tick' = [tick EXCEPT !.enable = enable, !.tickint = tickint, !.toWrap = w]
      BY <2>1, <2>2 DEF TickTypeOK, Tick
    <2> QED
      BY <2>2, <2>3 DEF TickTypeOK, Tick, Period
  <1>3. CASE WriteLoad
    <2>1. PICK load \in Nat : tick' = [tick EXCEPT !.load = load, !.toWrap = 0]
      BY <1>3, LoadAssumption DEF WriteLoad
    <2>2. tick' \in Tick /\ tick'.toWrap = 0
      BY <2>1 DEF TickTypeOK, Tick
    <2> QED
      BY <2>2 DEF TickTypeOK, Tick, Period
  <1>4. CASE WriteValue \/ ReadCtrl \/ ClearTickPending \/ SetTickPending
    <2>1. CASE WriteValue
      <3>1. tick' \in Tick /\ tick'.toWrap = 0
        BY <2>1 DEF WriteValue, TickTypeOK, Tick
      <3> QED
        BY <3>1 DEF TickTypeOK, Tick, Period
    <2>2. CASE ReadCtrl
      BY <2>2 DEF ReadCtrl, TickTypeOK, Tick, Period
    <2>3. CASE ClearTickPending
      BY <2>3 DEF ClearTickPending, TickTypeOK, Tick, Period
    <2>4. CASE SetTickPending
      BY <2>4 DEF SetTickPending, TickTypeOK, Tick, Period
    <2> QED
      BY <1>4, <2>1, <2>2, <2>3, <2>4
  <1>5. CASE WriteDwtCtrl \/ WriteCyccnt
    <2>1. CASE WriteDwtCtrl
      BY <2>1 DEF WriteDwtCtrl, TickTypeOK, Tick, Period
    <2>2. CASE WriteCyccnt
      BY <2>2 DEF WriteCyccnt, TickTypeOK, Tick, Period
    <2> QED
      BY <1>5, <2>1, <2>2
  <1>6. CASE UNCHANGED tick
    BY <1>6 DEF TickTypeOK, Period
  <1> QED
    BY <1>1, <1>2, <1>3, <1>4, <1>5, <1>6 DEF TickNext

(* Whatever firmware writes and however the cycles are sliced, the         *)
(* countdown of SysTick stays within a period.                             *)
THEOREM TickTyped == TickSpec => []TickTypeOK
  BY InitTyped, NextTyped, PTL DEF TickSpec

(* From a well-formed timer the prediction is exact.                       *)
LEMMA PredictionFromType == TickTypeOK => PredictionExact
  <1> SUFFICES ASSUME TickTypeOK, NEW n \in 0..MaxSlice
               PROVE  AdvanceCycles(tick, n).pending
                        <=> /\ CyclesUntilSysTickInterrupt(tick) # Never
                            /\ n >= CyclesUntilSysTickInterrupt(tick)
    BY DEF PredictionExact
  <1>1. n \in Nat /\ ToWrap(tick) \in Nat \ {0}
    BY ModulusAssumption DEF TickTypeOK, Tick, ToWrap, Period
  <1>2. AdvanceCycles(tick, n).pending <=>
          \/ tick.pending
          \/ /\ tick.enable /\ tick.load # 0 /\ n # 0
             /\ n >= ToWrap(tick) /\ tick.tickint
    <2>1. CASE ~tick.enable \/ tick.load = 0 \/ n = 0
      BY <2>1 DEF AdvanceCycles, TickTypeOK, Tick
    <2>2. CASE ~(~tick.enable \/ tick.load = 0 \/ n = 0)
      <3>1. AdvanceCycles(tick, n).pending
              = (tick.pending \/ (n >= ToWrap(tick) /\ tick.tickint))
        BY <2>2 DEF AdvanceCycles, TickTypeOK, Tick
      <3> QED
        BY <2>2, <3>1
    <2> QED
      BY <2>1, <2>2
  <1>3. CyclesUntilSysTickInterrupt(tick) =
          IF tick.pending THEN 0
          ELSE IF tick.enable /\ tick.tickint /\ tick.load # 0
               THEN ToWrap(tick) ELSE -1
    BY DEF CyclesUntilSysTickInterrupt, Never
  <1>4. tick.pending \in BOOLEAN /\ tick.enable \in BOOLEAN /\ tick.tickint \in BOOLEAN
    BY DEF TickTypeOK, Tick
  <1>5. CASE tick.pending
    BY <1>1, <1>2, <1>3, <1>5 DEF Never
  <1>6. CASE ~tick.pending
    BY <1>1, <1>2, <1>3, <1>4, <1>6 DEF Never
  <1> QED
    BY <1>5, <1>6

(* cyclesUntilSysTickInterrupt is exact in every reachable state.          *)
THEOREM SysTickPredicted == TickSpec => []PredictionExact
  BY TickTyped, PredictionFromType, PTL

(* The countdown after n cycles, from one of w cycles in a period of p.    *)
CountLeft(p, w, n) == IF n < w THEN w - n ELSE p - ((n - w) % p)

LEMMA CountLeftTyped ==
    ASSUME NEW p \in Nat \ {0}, NEW w \in 1..p, NEW n \in Nat
    PROVE  CountLeft(p, w, n) \in 1..p
  <1>1. CASE n < w
    BY <1>1 DEF CountLeft
  <1>2. CASE ~(n < w)
    <2>1. PICK m \in Nat : m = n - w
      BY <1>2
    <2>2. PICK r \in 0..(p - 1) : r = m % p
      BY RemainderBounds
    <2>3. CountLeft(p, w, n) = p - r
      BY <1>2, <2>1, <2>2 DEF CountLeft
    <2> QED
      BY <2>3
  <1> QED
    BY <1>1, <1>2

LEMMA CountLeftSums ==
    ASSUME NEW p \in Nat \ {0}, NEW w \in 1..p, NEW a \in Nat, NEW b \in Nat
    PROVE  /\ CountLeft(p, CountLeft(p, w, a), b) = CountLeft(p, w, a + b)
           /\ (a >= w \/ b >= CountLeft(p, w, a)) <=> a + b >= w
  <1>1. CASE a < w
    <2>1. PICK v \in 1..p : v = w - a /\ v = CountLeft(p, w, a)
      BY <1>1 DEF CountLeft
    <2>2. b < v <=> a + b < w
      BY <2>1
    <2>3. b - v = (a + b) - w /\ v - b = w - (a + b)
      BY <2>1
    <2>4. CountLeft(p, v, b) = CountLeft(p, w, a + b)
      BY <2>2, <2>3, Zenon DEF CountLeft
    <2> QED
      BY <1>1, <2>1, <2>2, <2>4
  <1>2. CASE ~(a < w)
    <2>1. PICK m \in Nat : m = a - w
      BY <1>2
    <2>2. PICK r \in 0..(p - 1) : r = m % p
      BY RemainderBounds
    <2>3. PICK v \in 1..p : v = p - r /\ v = CountLeft(p, w, a)
      BY <1>2, <2>1, <2>2 DEF CountLeft
    <2>4. ~(a + b < w) /\ (a + b) - w = m + b
      BY <1>2, <2>1
    <2>5. CountLeft(p, w, a + b) = p - ((m + b) % p)
      BY <2>4, Zenon DEF CountLeft
    <2>6. PICK s \in Nat : s = r + b
      OBVIOUS
    <2>7. (m + b) % p = s % p
      BY <2>2, <2>6, RemainderOfSum
    <2>8. CASE b < v
      <3>1. s \in 0..(p - 1)
        BY <2>3, <2>6, <2>8
      <3>2. s % p = s
        BY <3>1, ModSmall
      <3>3. CountLeft(p, v, b) = v - b
        BY <2>8 DEF CountLeft
      <3>4. v - b = p - s
        BY <2>3, <2>6
      <3> QED
        BY <1>2, <2>3, <2>4, <2>5, <2>7, <3>2, <3>3, <3>4
    <2>9. CASE ~(b < v)
      <3>1. PICK x \in Nat : x = b - v /\ s = x + p
        BY <2>3, <2>6, <2>9
      <3>2. s % p = x % p
        BY <3>1, RemainderOfNext
      <3>3. CountLeft(p, v, b) = p - (x % p)
        BY <2>9, <3>1 DEF CountLeft
      <3> QED
        BY <1>2, <2>3, <2>4, <2>5, <2>7, <3>2, <3>3
    <2> QED
      BY <2>8, <2>9
  <1> QED
    BY <1>1, <1>2

(* What a slice of n cycles does to a well-formed timer.                   *)
TickAdvanced(t, n, u) ==
    /\ u \in Tick /\ u.enable = t.enable /\ u.tickint = t.tickint /\ u.load = t.load
    /\ u.dwtEnable = t.dwtEnable /\ u.cyccnt = CountDwt(t, n)
    /\ IF ~t.enable \/ t.load = 0 \/ n = 0
       THEN /\ u.toWrap = t.toWrap /\ u.value = t.value
            /\ u.countFlag = t.countFlag /\ u.pending = t.pending
       ELSE LET left == CountLeft(Period(t), ToWrap(t), n)
            IN  /\ u.toWrap = left /\ u.value = left - 1
                /\ u.countFlag <=> t.countFlag \/ n >= ToWrap(t)
                /\ u.pending <=> t.pending \/ (n >= ToWrap(t) /\ t.tickint)

LEMMA TickAdvances ==
    ASSUME NEW t \in Tick, t.toWrap <= Period(t), NEW n \in Nat
    PROVE  TickAdvanced(t, n, AdvanceCycles(t, n))
  <1>1. PICK p \in Nat \ {0} : p = Period(t)
    BY DEF Tick, Period
  <1>2. PICK w \in 1..p : w = ToWrap(t)
    BY <1>1 DEF Tick, Period, ToWrap
  <1>3. PICK cc \in 0..(CycleModulus - 1) : cc = CountDwt(t, n)
    <2>1. t.cyccnt \in 0..(CycleModulus - 1) /\ t.cyccnt + n \in Nat
      BY ModulusAssumption DEF Tick
    <2>2. (t.cyccnt + n) % CycleModulus \in 0..(CycleModulus - 1)
      BY <2>1, ModulusAssumption, RemainderBounds
    <2> QED
      BY <2>1, <2>2 DEF CountDwt
  <1>4. PICK left \in 1..p : left = CountLeft(p, w, n)
    BY CountLeftTyped
  <1>5. left = IF n < ToWrap(t) THEN ToWrap(t) - n ELSE AfterWrap(t, n - ToWrap(t))
    BY <1>1, <1>2, <1>4 DEF CountLeft, AfterWrap
  <1>6. PICK flag \in BOOLEAN, pend \in BOOLEAN :
            /\ flag = (t.countFlag \/ n >= w)
            /\ pend = (t.pending \/ (n >= w /\ t.tickint))
    OBVIOUS
  <1>7. PICK u : u = AdvanceCycles(t, n)
    OBVIOUS
  <1>8. CASE ~t.enable \/ t.load = 0 \/ n = 0
    <2>1. u = [t EXCEPT !.cyccnt = cc]
      BY <1>3, <1>7, <1>8 DEF AdvanceCycles
    <2> QED
      BY <1>3, <1>7, <1>8, <2>1 DEF TickAdvanced, Tick
  <1>9. CASE ~(~t.enable \/ t.load = 0 \/ n = 0)
    <2>1. u = [t EXCEPT !.cyccnt = cc, !.toWrap = left, !.value = left - 1,
                        !.countFlag = flag, !.pending = pend]
      BY <1>2, <1>3, <1>5, <1>6, <1>7, <1>9 DEF AdvanceCycles, Tick
    <2>2. left \in Nat /\ left - 1 \in Nat
      BY <1>4
    <2>3. u \in Tick /\ u.enable = t.enable /\ u.tickint = t.tickint /\ u.load = t.load
          /\ u.dwtEnable = t.dwtEnable /\ u.cyccnt = cc
          /\ u.toWrap = left /\ u.value = left - 1 /\ u.countFlag = flag /\ u.pending = pend
      BY <1>3, <1>6, <2>1, <2>2 DEF Tick
    <2> QED
      BY <1>1, <1>2, <1>3, <1>4, <1>6, <1>7, <1>9, <2>3 DEF TickAdvanced
  <1> QED
    BY <1>8, <1>9

LEMMA DwtSums ==
    ASSUME NEW t \in Tick, NEW u \in Tick, NEW a \in Nat, NEW b \in Nat,
           u.dwtEnable = t.dwtEnable, u.cyccnt = CountDwt(t, a)
    PROVE  CountDwt(u, b) = CountDwt(t, a + b)
  <1>1. CASE t.dwtEnable
    <2>1. PICK m \in Nat \ {0} : m = CycleModulus
      BY ModulusAssumption
    <2>2. PICK c \in Nat : c = t.cyccnt
      BY <2>1 DEF Tick
    <2>3. PICK x \in Nat : x = c + a
      OBVIOUS
    <2>4. u.cyccnt = x % m /\ c + (a + b) = x + b
      BY <1>1, <2>1, <2>2, <2>3 DEF CountDwt
    <2>5. (x + b) % m = ((x % m) + b) % m
      BY RemainderOfSum
    <2>6. CountDwt(u, b) = ((x % m) + b) % m
      BY <1>1, <2>1, <2>4 DEF CountDwt
    <2>7. CountDwt(t, a + b) = (x + b) % m
      BY <1>1, <2>1, <2>2, <2>4, Zenon DEF CountDwt
    <2> QED
      BY <2>5, <2>6, <2>7
  <1>2. CASE ~t.dwtEnable
    BY <1>2 DEF CountDwt
  <1> QED
    BY <1>1, <1>2

LEMMA TickEqual ==
    ASSUME NEW t \in Tick, NEW u \in Tick,
           t.enable = u.enable, t.tickint = u.tickint, t.load = u.load, t.value = u.value,
           t.toWrap = u.toWrap, t.countFlag = u.countFlag, t.pending = u.pending,
           t.dwtEnable = u.dwtEnable, t.cyccnt = u.cyccnt
    PROVE  t = u
  BY DEF Tick

LEMMA SlicesSum ==
    ASSUME NEW t \in Tick, t.toWrap <= Period(t), NEW a \in Nat, NEW b \in Nat
    PROVE  AdvanceCycles(AdvanceCycles(t, a), b) = AdvanceCycles(t, a + b)
  <1>1. PICK u : u = AdvanceCycles(t, a)
    OBVIOUS
  <1>2. PICK z : z = AdvanceCycles(t, a + b)
    OBVIOUS
  <1>3. PICK y : y = AdvanceCycles(u, b)
    OBVIOUS
  <1>4. PICK p \in Nat \ {0} : p = Period(t)
    BY DEF Tick, Period
  <1>5. PICK w \in 1..p : w = ToWrap(t)
    BY <1>4 DEF Tick, Period, ToWrap
  <1>6. a + b \in Nat
    OBVIOUS
  <1>7. TickAdvanced(t, a, u) /\ TickAdvanced(t, a + b, z)
    BY <1>1, <1>2, <1>6, TickAdvances
  <1>8. u \in Tick /\ z \in Tick /\ Period(u) = p
    BY <1>4, <1>7 DEF TickAdvanced, Period
  <1>9. PICK left \in 1..p : left = CountLeft(p, w, a)
    BY CountLeftTyped
  <1>10. u.toWrap = t.toWrap \/ u.toWrap = left
    BY <1>4, <1>5, <1>7, <1>9 DEF TickAdvanced
  <1>11. u.toWrap <= Period(u)
    BY <1>4, <1>8, <1>9, <1>10
  <1>12. TickAdvanced(u, b, y)
    BY <1>3, <1>8, <1>11, TickAdvances
  <1>13. y \in Tick
    BY <1>12 DEF TickAdvanced
  <1>14. y.cyccnt = z.cyccnt
    <2>1. y.cyccnt = CountDwt(u, b) /\ u.cyccnt = CountDwt(t, a) /\ u.dwtEnable = t.dwtEnable
          /\ z.cyccnt = CountDwt(t, a + b)
      BY <1>7, <1>12 DEF TickAdvanced
    <2> QED
      BY <1>8, <2>1, DwtSums
  <1>15. /\ y.enable = z.enable /\ y.tickint = z.tickint /\ y.load = z.load /\ y.dwtEnable = z.dwtEnable
         /\ u.enable = t.enable /\ u.load = t.load /\ u.tickint = t.tickint
    BY <1>7, <1>12 DEF TickAdvanced
  <1>16. /\ y.toWrap = z.toWrap /\ y.value = z.value
         /\ (y.countFlag <=> z.countFlag) /\ (y.pending <=> z.pending)
    <2>1. CASE ~t.enable \/ t.load = 0
      BY <1>7, <1>12, <1>15, <2>1 DEF TickAdvanced
    <2>2. CASE a = 0
      <3>1. a + b = b
        BY <2>2
      <3>2. u.toWrap = t.toWrap /\ u.value = t.value /\ u.countFlag = t.countFlag /\ u.pending = t.pending
        BY <1>7, <2>2 DEF TickAdvanced
      <3>3. ToWrap(u) = ToWrap(t) /\ Period(u) = Period(t)
        BY <1>15, <3>2 DEF ToWrap, Period
      <3> QED
        BY <1>7, <1>12, <1>15, <3>1, <3>2, <3>3 DEF TickAdvanced
    <2>3. CASE b = 0
      <3>1. a + b = a
        BY <2>3
      <3>2. z = u
        BY <1>1, <1>2, <3>1
      <3> QED
        BY <1>12, <2>3, <3>2 DEF TickAdvanced
    <2>4. CASE t.enable /\ t.load # 0 /\ a # 0 /\ b # 0
      <3>1. a + b # 0
        BY <2>4
      <3>2. /\ u.toWrap = left /\ (u.countFlag <=> t.countFlag \/ a >= w)
            /\ u.pending <=> t.pending \/ (a >= w /\ t.tickint)
        BY <1>4, <1>5, <1>7, <1>9, <2>4 DEF TickAdvanced
      <3>3. ToWrap(u) = left
        BY <1>9, <3>2 DEF ToWrap
      <3>4. PICK last : last = CountLeft(p, left, b)
        OBVIOUS
      <3>5. /\ y.toWrap = last /\ y.value = last - 1 /\ (y.countFlag <=> u.countFlag \/ b >= left)
            /\ y.pending <=> u.pending \/ (b >= left /\ t.tickint)
        BY <1>8, <1>12, <1>15, <2>4, <3>3, <3>4 DEF TickAdvanced
      <3>6. last = CountLeft(p, w, a + b) /\ ((a >= w \/ b >= left) <=> a + b >= w)
        BY <1>9, <3>4, CountLeftSums
      <3>7. /\ z.toWrap = last /\ z.value = last - 1 /\ (z.countFlag <=> t.countFlag \/ a + b >= w)
            /\ z.pending <=> t.pending \/ (a + b >= w /\ t.tickint)
        BY <1>4, <1>5, <1>7, <2>4, <3>1, <3>6 DEF TickAdvanced
      <3> QED
        BY <3>2, <3>5, <3>6, <3>7
    <2> QED
      BY <2>1, <2>2, <2>3, <2>4
  <1>17. y.countFlag = z.countFlag /\ y.pending = z.pending
    <2>1. y.countFlag \in BOOLEAN /\ z.countFlag \in BOOLEAN /\ y.pending \in BOOLEAN /\ z.pending \in BOOLEAN
      BY <1>8, <1>13 DEF Tick
    <2> QED
      BY <1>16, <2>1, Zenon
  <1>18. y = z
    BY <1>8, <1>13, <1>14, <1>15, <1>16, <1>17, TickEqual
  <1> QED
    BY <1>1, <1>2, <1>3, <1>18

LEMMA TypeSlices ==
    ASSUME TickTypeOK
    PROVE  SliceInvariance
  <1>1. PICK t \in Tick : t = tick /\ t.toWrap <= Period(t)
    BY DEF TickTypeOK
  <1>2. ASSUME NEW a \in 0..MaxSlice, NEW b \in 0..(MaxSlice - a)
        PROVE  AdvanceCycles(AdvanceCycles(t, a), b) = AdvanceCycles(t, a + b)
    <2>1. a \in Nat /\ b \in Nat
      BY ModulusAssumption
    <2> QED
      BY <1>1, <2>1, SlicesSum
  <1> QED
    BY <1>1, <1>2 DEF SliceInvariance

-----------------------------------------------------------------------------
(* The timers (Timers). *)

Timer == [cen : BOOLEAN, opm : BOOLEAN, uie : BOOLEAN, uif : BOOLEAN, psc : Nat, arr : Nat,
          hz : Nat \ {0}, running : BOOLEAN, value : Nat, age : Nat, due : Nat \cup {NoEvent},
          level : BOOLEAN]

(* A running counter has its overflow armed for the time that the ticks    *)
(* left at its epoch take.                                                 *)
TimerLines(t) == (t.running <=> t.cen) /\ (t.level <=> t.uie /\ t.uif)
TimerArmed(t) ==
    /\ t.running <=> t.due # NoEvent
    /\ t.running => t.age + t.due = DurationForTicks(t, Remaining(t, t.value))
TimerInv(t) == t \in Timer /\ TimerLines(t) /\ TimerArmed(t)

LEMMA TicksLeft ==
    ASSUME NEW t \in Timer, NEW v \in Nat
    PROVE  Remaining(t, v) \in Nat \ {0}
  BY DEF Timer, Remaining

LEMMA DurationReaches ==
    ASSUME NEW t \in Timer, NEW r \in Nat \ {0}
    PROVE  \E m \in Nat \ {0}, d \in Nat \ {0} :
              /\ m = NsPerSecond * (t.psc + 1) /\ d = DurationForTicks(t, r)
              /\ d * t.hz >= r * m /\ (d - 1) * t.hz < r * m
  <1>1. PICK k \in Nat \ {0}, h \in Nat \ {0}, s \in Nat \ {0} : k = t.psc + 1 /\ h = t.hz /\ s = NsPerSecond
    <2>1. t.psc + 1 \in Nat \ {0} /\ t.hz \in Nat \ {0} /\ NsPerSecond \in Nat \ {0}
      BY TimersAssumption DEF Timer
    <2> QED
      BY <2>1
  <1>2. PICK m \in Nat \ {0} : m = s * k
    <2>1. s * k \in Nat \ {0}
      BY SMT
    <2> QED
      BY <2>1
  <1>3. PICK a \in Nat \ {0} : a = r * m
    <2>1. r * m \in Nat \ {0}
      BY SMT
    <2> QED
      BY <2>1
  <1>4. r * k * s = a
    BY <1>2, <1>3, SMT
  <1>5. PICK d \in Nat \ {0} : d = CeilOf(a, h) /\ d * h >= a /\ (d - 1) * h < a
    BY CeilReaches
  <1>6. DurationForTicks(t, r) = AtLeastOne(CeilOf(r * k * s, h))
    BY <1>1 DEF DurationForTicks
  <1>7. DurationForTicks(t, r) = d
    BY <1>4, <1>5, <1>6 DEF AtLeastOne
  <1> QED
    BY <1>1, <1>2, <1>3, <1>5, <1>7

LEMMA LiveCounterTyped ==
    ASSUME NEW t \in Timer
    PROVE  LiveCounter(t) \in Nat
  <1>1. PICK n \in Nat \ {0} : n = t.arr + 1
    BY DEF Timer
  <1>2. PICK k \in Nat \ {0} : k = NsPerSecond * (t.psc + 1)
    <2>1. t.psc + 1 \in Nat \ {0} /\ NsPerSecond \in Nat \ {0}
      BY TimersAssumption DEF Timer
    <2>2. NsPerSecond * (t.psc + 1) \in Nat \ {0}
      BY <2>1, SMT
    <2> QED
      BY <2>2
  <1>3. PICK x \in Nat : x = t.age * t.hz
    <2>1. t.age \in Nat /\ t.hz \in Nat
      BY DEF Timer
    <2>2. t.age * t.hz \in Nat
      BY <2>1, SMT
    <2> QED
      BY <2>2
  <1>4. PICK c \in Nat : c = TimerTicks(t, t.age)
    BY <1>2, <1>3, DivMod DEF TimerTicks
  <1>5. PICK r \in Nat : r = c % n
    BY RemainderBounds
  <1>6. PICK v \in Nat : v = t.value
    BY DEF Timer
  <1>7. v + r \in Nat
    OBVIOUS
  <1>8. (v + r) % n \in Nat
    BY <1>7, RemainderBounds
  <1> QED
    BY <1>1, <1>4, <1>5, <1>6, <1>8 DEF LiveCounter

LEMMA Scheduled ==
    ASSUME NEW t \in Timer, t.age = 0, TimerLines(t)
    PROVE  TimerInv(ScheduleUpdate(t)) /\ ScheduleUpdate(t).age = 0 /\ ScheduleUpdate(t).value = t.value
  <1>1. LiveCounter(t) = t.value
    BY DEF LiveCounter
  <1>2. PICK r \in Nat \ {0} : r = Remaining(t, t.value)
    BY TicksLeft DEF Timer
  <1>3. PICK d \in Nat \ {0} : d = DurationForTicks(t, r)
    BY DurationReaches
  <1>4. PICK e \in Nat \cup {NoEvent} : e = IF t.running THEN d ELSE NoEvent
    OBVIOUS
  <1>5. PICK u : u = [t EXCEPT !.due = e]
    OBVIOUS
  <1>6. ScheduleUpdate(t) = u
    BY <1>1, <1>2, <1>3, <1>4, <1>5 DEF ScheduleUpdate
  <1>7. u \in Timer /\ u.due = e /\ u.running = t.running /\ u.age = 0 /\ u.value = t.value
        /\ u.arr = t.arr /\ u.psc = t.psc /\ u.hz = t.hz
        /\ u.cen = t.cen /\ u.level = t.level /\ u.uie = t.uie /\ u.uif = t.uif
    BY <1>5 DEF Timer
  <1>8. DurationForTicks(u, Remaining(u, u.value)) = d
    BY <1>2, <1>3, <1>7 DEF DurationForTicks, Remaining
  <1>9. t.running => e = d /\ d # NoEvent
    BY <1>3, <1>4 DEF NoEvent
  <1>10. TimerArmed(u)
    <2>1. t.running \in BOOLEAN
      BY DEF Timer
    <2>2. CASE t.running
      BY <1>3, <1>7, <1>8, <1>9, <2>2 DEF TimerArmed
    <2>3. CASE ~t.running
      BY <1>4, <1>7, <2>3 DEF TimerArmed
    <2> QED
      BY <2>1, <2>2, <2>3
  <1>11. TimerLines(u)
    BY <1>7 DEF TimerLines
  <1> QED
    BY <1>6, <1>7, <1>10, <1>11 DEF TimerInv

LEMMA CapturedTyped ==
    ASSUME NEW t \in Timer, NEW u, NEW v \in Nat, u = [t EXCEPT !.value = v, !.age = 0]
    PROVE  u \in Timer /\ u.age = 0 /\ u.value = v /\ (TimerLines(t) => TimerLines(u))
  <1>1. u \in Timer /\ u.age = 0 /\ u.value = v /\ u.running = t.running /\ u.cen = t.cen
        /\ u.level = t.level /\ u.uie = t.uie /\ u.uif = t.uif
    BY DEF Timer
  <1> QED
    BY <1>1 DEF TimerLines

LEMMA Retimed ==
    ASSUME NEW t \in Timer, NEW x \in Timer, TimerLines(x)
    PROVE  LET u == Retime(t, x)
           IN  TimerInv(u) /\ LiveCounter(u) = LiveCounter(t)
  <1>1. PICK v \in Nat : v = LiveCounter(t)
    BY LiveCounterTyped
  <1>2. PICK y : y = [x EXCEPT !.value = v, !.age = 0]
    OBVIOUS
  <1>3. y \in Timer /\ y.age = 0 /\ y.value = v /\ TimerLines(y)
    BY <1>2, CapturedTyped
  <1>4. CaptureCounter(t).value = v
    BY <1>1 DEF CaptureCounter, Timer
  <1>5. PICK u : u = ScheduleUpdate(y)
    OBVIOUS
  <1>6. Retime(t, x) = u
    BY <1>2, <1>4, <1>5 DEF Retime
  <1>7. TimerInv(u) /\ u.age = 0 /\ u.value = v
    BY <1>3, <1>5, Scheduled
  <1>8. LiveCounter(u) = v
    BY <1>7 DEF LiveCounter
  <1> QED
    BY <1>1, <1>6, <1>7, <1>8

LEMMA Reclocked ==
    ASSUME NEW t \in Timer, TimerLines(t), NEW hz \in Nat \ {0}
    PROVE  LET u == ScheduleUpdate([CaptureCounter(t) EXCEPT !.hz = hz])
           IN  TimerInv(u) /\ LiveCounter(u) = LiveCounter(t)
  <1>1. PICK v \in Nat : v = LiveCounter(t)
    BY LiveCounterTyped
  <1>2. PICK x : x = CaptureCounter(t)
    OBVIOUS
  <1>3. x \in Timer /\ x.age = 0 /\ x.value = v /\ TimerLines(x)
    <2>1. x = [t EXCEPT !.value = v, !.age = 0]
      BY <1>1, <1>2 DEF CaptureCounter
    <2> QED
      BY <2>1, CapturedTyped
  <1>4. PICK y : y = [x EXCEPT !.hz = hz]
    OBVIOUS
  <1>5. y \in Timer /\ y.age = 0 /\ y.value = v /\ TimerLines(y)
    BY <1>3, <1>4 DEF Timer, TimerLines
  <1>6. PICK u : u = ScheduleUpdate(y)
    OBVIOUS
  <1>7. TimerInv(u) /\ u.age = 0 /\ u.value = v
    BY <1>5, <1>6, Scheduled
  <1>8. LiveCounter(u) = v
    BY <1>7 DEF LiveCounter
  <1> QED
    BY <1>1, <1>2, <1>4, <1>6, <1>7, <1>8

LEMMA Fired ==
    ASSUME NEW t \in Timer, TimerLines(t)
    PROVE  TimerInv(FireUpdate(t))
  <1>1. PICK x : x = [t EXCEPT !.age = 0, !.value = 0, !.uif = TRUE, !.due = NoEvent]
    OBVIOUS
  <1>2. x \in Timer /\ x.age = 0 /\ x.running = t.running /\ x.cen = t.cen /\ x.uif /\ x.uie = t.uie
    BY <1>1 DEF Timer
  <1>3. PICK lv \in BOOLEAN : lv = (x.uie /\ x.uif)
    OBVIOUS
  <1>4. PICK f : f = [x EXCEPT !.level = lv]
    OBVIOUS
  <1>5. f \in Timer /\ f.age = 0 /\ TimerLines(f) /\ TimLevel(x) = f
    BY <1>2, <1>3, <1>4 DEF Timer, TimerLines, TimLevel
  <1>6. PICK g : g = [f EXCEPT !.cen = FALSE, !.running = FALSE]
    OBVIOUS
  <1>7. g \in Timer /\ g.age = 0 /\ TimerLines(g)
    BY <1>5, <1>6 DEF Timer, TimerLines
  <1>8. FireUpdate(t) = ScheduleUpdate(IF t.opm THEN g ELSE f)
    BY <1>1, <1>5, <1>6 DEF FireUpdate
  <1>9. TimerInv(ScheduleUpdate(f)) /\ TimerInv(ScheduleUpdate(g))
    BY <1>5, <1>7, Scheduled
  <1> QED
    BY <1>8, <1>9

LEMMA Levelled ==
    ASSUME NEW t \in Timer, TimerInv(t), NEW x \in Timer, NEW e \in BOOLEAN, NEW f \in BOOLEAN,
           x = [t EXCEPT !.uie = e, !.uif = f]
    PROVE  TimerInv(TimLevel(x))
  <1>1. PICK lv \in BOOLEAN : lv = (x.uie /\ x.uif)
    OBVIOUS
  <1>2. PICK u : u = [x EXCEPT !.level = lv]
    OBVIOUS
  <1>3. TimLevel(x) = u
    BY <1>1, <1>2 DEF TimLevel
  <1>4. u \in Timer /\ u.due = t.due /\ u.running = t.running /\ u.age = t.age /\ u.value = t.value
        /\ u.arr = t.arr /\ u.psc = t.psc /\ u.hz = t.hz /\ u.cen = t.cen
        /\ u.level = lv /\ u.uie = x.uie /\ u.uif = x.uif
    BY <1>2 DEF Timer
  <1>5. TimerLines(u)
    BY <1>1, <1>4 DEF TimerLines, TimerInv
  <1>6. TimerArmed(u)
    BY <1>4 DEF TimerArmed, TimerInv, DurationForTicks, Remaining
  <1> QED
    BY <1>3, <1>4, <1>5, <1>6 DEF TimerInv

LEMMA TimerKept ==
    ASSUME TimerInv(tim), TimNext
    PROVE  TimerInv(tim)'
  <1>1. PICK t \in Timer : t = tim /\ TimerInv(t) /\ TimerLines(t)
    BY DEF TimerInv
  <1>2. PICK u : u = tim'
    OBVIOUS
  <1>3. SUFFICES TimerInv(u)
    BY <1>2
  <1>4. CASE WriteTimCr1
    <2>1. PICK en \in BOOLEAN, opm \in BOOLEAN :
              u = Retime(t, [t EXCEPT !.cen = en, !.opm = opm, !.running = en])
      BY <1>1, <1>2, <1>4 DEF WriteTimCr1
    <2>2. PICK x : x = [t EXCEPT !.cen = en, !.opm = opm, !.running = en]
      OBVIOUS
    <2>3. x \in Timer /\ TimerLines(x)
      BY <1>1, <2>2 DEF Timer, TimerLines
    <2> QED
      BY <2>1, <2>2, <2>3, Retimed
  <1>5. CASE WriteTimPsc
    <2>1. PICK p \in Prescalers : u = Retime(t, [t EXCEPT !.psc = p])
      BY <1>1, <1>2, <1>5 DEF WriteTimPsc
    <2>2. PICK x : x = [t EXCEPT !.psc = p]
      OBVIOUS
    <2>3. x \in Timer /\ TimerLines(x)
      BY <1>1, <2>2, TimersAssumption DEF Timer, TimerLines
    <2> QED
      BY <2>1, <2>2, <2>3, Retimed
  <1>6. CASE WriteTimArr
    <2>1. PICK p \in Reloads : u = Retime(t, [t EXCEPT !.arr = p])
      BY <1>1, <1>2, <1>6 DEF WriteTimArr
    <2>2. PICK x : x = [t EXCEPT !.arr = p]
      OBVIOUS
    <2>3. x \in Timer /\ TimerLines(x)
      BY <1>1, <2>2, TimersAssumption DEF Timer, TimerLines
    <2> QED
      BY <2>1, <2>2, <2>3, Retimed
  <1>7. CASE WriteTimCnt
    <2>1. PICK n \in Nat : u = ScheduleUpdate([t EXCEPT !.value = n, !.age = 0])
      BY <1>1, <1>2, <1>7, TimersAssumption DEF WriteTimCnt
    <2>2. PICK x : x = [t EXCEPT !.value = n, !.age = 0]
      OBVIOUS
    <2>3. x \in Timer /\ x.age = 0 /\ TimerLines(x)
      BY <1>1, <2>2, CapturedTyped
    <2> QED
      BY <2>1, <2>2, <2>3, Scheduled
  <1>8. CASE SetTimClock
    <2>1. PICK hz \in Nat \ {0} : u = ScheduleUpdate([CaptureCounter(t) EXCEPT !.hz = hz])
      BY <1>1, <1>2, <1>8, TimersAssumption DEF SetTimClock
    <2> QED
      BY <1>1, <2>1, Reclocked
  <1>9. CASE ClearUif
    <2>1. PICK x : x = [t EXCEPT !.uif = FALSE]
      OBVIOUS
    <2>2. u = TimLevel(x)
      BY <1>1, <1>2, <1>9, <2>1 DEF ClearUif
    <2>3. x \in Timer /\ x = [t EXCEPT !.uie = t.uie, !.uif = FALSE] /\ t.uie \in BOOLEAN
      BY <2>1 DEF Timer
    <2> QED
      BY <1>1, <2>2, <2>3, Levelled
  <1>10. CASE WriteTimDier
    <2>1. PICK ie \in BOOLEAN : u = TimLevel([t EXCEPT !.uie = ie])
      BY <1>1, <1>2, <1>10 DEF WriteTimDier
    <2>2. PICK x : x = [t EXCEPT !.uie = ie]
      OBVIOUS
    <2>3. x \in Timer /\ x = [t EXCEPT !.uie = ie, !.uif = t.uif] /\ t.uif \in BOOLEAN
      BY <2>2 DEF Timer
    <2> QED
      BY <1>1, <2>1, <2>2, <2>3, Levelled
  <1>11. CASE ForceUpdate \/ UpdateEvent
    <2>1. u = FireUpdate(t)
      BY <1>1, <1>2, <1>11 DEF ForceUpdate, UpdateEvent
    <2> QED
      BY <1>1, <2>1, Fired
  <1>12. CASE ResetTimer
    <2>1. u = ResetTim(t.hz)
      BY <1>1, <1>2, <1>12 DEF ResetTimer
    <2>2. u \in Timer /\ ~u.running /\ ~u.cen /\ ~u.level /\ ~u.uie /\ u.due = NoEvent
      BY <2>1, TimersAssumption DEF ResetTim, Timer
    <2> QED
      BY <2>2 DEF TimerInv, TimerLines, TimerArmed
  <1>13. CASE TimPasses
    <2>1. t.due > 0 /\ u = [t EXCEPT !.age = @ + 1, !.due = @ - 1]
      BY <1>1, <1>2, <1>13 DEF TimPasses
    <2>2. t.age \in Nat /\ t.due \in Nat \cup {-1}
      BY DEF Timer, NoEvent
    <2>3. t.age + 1 \in Nat /\ t.due - 1 \in Nat /\ (t.age + 1) + (t.due - 1) = t.age + t.due /\ t.due # -1
      BY <2>1, <2>2
    <2>4. u \in Timer /\ u.due = t.due - 1 /\ u.running = t.running /\ u.age = t.age + 1 /\ u.value = t.value
          /\ u.arr = t.arr /\ u.psc = t.psc /\ u.hz = t.hz
          /\ u.cen = t.cen /\ u.level = t.level /\ u.uie = t.uie /\ u.uif = t.uif
      BY <2>1, <2>3 DEF Timer
    <2>5. TimerLines(u)
      BY <1>1, <2>4 DEF TimerLines
    <2>6. t.running /\ t.age + t.due = DurationForTicks(t, Remaining(t, t.value))
      BY <1>1, <2>3 DEF TimerInv, TimerArmed, NoEvent
    <2>7. DurationForTicks(u, Remaining(u, u.value)) = DurationForTicks(t, Remaining(t, t.value))
      BY <2>4 DEF DurationForTicks, Remaining
    <2>8. u.due # NoEvent /\ u.age + u.due = t.age + t.due
      BY <2>3, <2>4 DEF NoEvent
    <2>9. TimerArmed(u)
      BY <2>4, <2>6, <2>7, <2>8 DEF TimerArmed
    <2> QED
      BY <2>4, <2>5, <2>9 DEF TimerInv
  <1> QED
    BY <1>4, <1>5, <1>6, <1>7, <1>8, <1>9, <1>10, <1>11, <1>12, <1>13 DEF TimNext

LEMMA ArmedOnTime ==
    ASSUME TimerInv(tim)
    PROVE  UpdateOnTime
  <1>1. PICK t \in Timer : t = tim /\ TimerLines(t) /\ TimerArmed(t)
    BY DEF TimerInv
  <1>2. ASSUME t.running
        PROVE  /\ t.due > 0 => TimerTicks(t, t.age) < Remaining(t, t.value)
               /\ TimerTicks(t, t.age + t.due) >= Remaining(t, t.value)
    <2>1. PICK r \in Nat \ {0} : r = Remaining(t, t.value)
      BY TicksLeft DEF Timer
    <2>2. PICK m \in Nat \ {0}, d \in Nat \ {0} :
              /\ m = NsPerSecond * (t.psc + 1) /\ d = DurationForTicks(t, r)
              /\ d * t.hz >= r * m /\ (d - 1) * t.hz < r * m
      BY DurationReaches
    <2>3. PICK h \in Nat \ {0} : h = t.hz
      BY DEF Timer
    <2>4. PICK age \in Nat, due \in Nat : age = t.age /\ due = t.due /\ age + due = d
      <3>1. t.due \in Nat /\ t.age \in Nat /\ t.age + t.due = d
        BY <1>1, <1>2, <2>1, <2>2 DEF TimerArmed, Timer
      <3> QED
        BY <3>1
    <2>5. ASSUME due > 0 PROVE TimerTicks(t, age) < r
      <3>1. d - 1 \in Nat /\ age <= d - 1
        BY <2>4, <2>5
      <3>2. age * h \in Nat /\ (d - 1) * h \in Nat /\ age * h <= (d - 1) * h
        BY <3>1, TimesOrdered
      <3>3. r * m \in Nat
        BY SMT
      <3>4. age * h < r * m
        BY <2>2, <2>3, <3>2, <3>3
      <3>5. (age * h) \div m < r
        BY <3>2, <3>4, QuotientBelow
      <3> QED
        BY <2>2, <2>3, <3>5 DEF TimerTicks
    <2>6. TimerTicks(t, d) >= r
      <3>1. d * h \in Nat
        BY SMT
      <3>2. (d * h) \div m >= r
        BY <2>2, <2>3, <3>1, QuotientBelow
      <3> QED
        BY <2>2, <2>3, <3>2 DEF TimerTicks
    <2> QED
      BY <2>1, <2>4, <2>5, <2>6
  <1> QED
    BY <1>1, <1>2 DEF UpdateOnTime, TimerLines, TimerArmed

-----------------------------------------------------------------------------
(* The watchdogs (Timers). *)

Watchdog == [running : BOOLEAN, unlocked : BOOLEAN, duration : Timeouts, resets : BOOLEAN, age : Nat,
             armedFor : Timeouts \cup {NoEvent}, selected : Timeouts, quiet : Nat]

(* The pending timeout and the time since the watchdog was last fed.       *)
WatchdogTimed(d) ==
    /\ d.armedFor # NoEvent =>
          d.running /\ d.quiet <= d.selected /\ d.armedFor - d.age = d.selected - d.quiet
    /\ d.running /\ d.armedFor = NoEvent => d.quiet >= d.selected
WatchdogInv(x) ==
    /\ x \in [Watchdogs -> Watchdog]
    /\ \A w \in Watchdogs : WatchdogTimed(x[w])
    /\ x["iwdg"].unlocked \/ x["iwdg"].duration = TimeoutReset

LEMMA FedTimed ==
    ASSUME NEW d \in Watchdog
    PROVE  /\ Fed(d) \in Watchdog /\ WatchdogTimed(Fed(d))
           /\ Fed(d).duration = d.duration /\ Fed(d).unlocked = d.unlocked
  <1>1. PICK n \in Timeouts : n = d.duration
    BY DEF Watchdog
  <1>2. n \in Nat
    BY TimersAssumption
  <1>3. PICK e : e = Fed(d)
    OBVIOUS
  <1>4. CASE ~d.running
    <2>1. e = [d EXCEPT !.armedFor = NoEvent, !.selected = n, !.quiet = 0]
      BY <1>1, <1>3, <1>4 DEF Fed, Reload, Watchdog
    <2>2. /\ e \in Watchdog /\ e.armedFor = NoEvent /\ ~e.running
          /\ e.duration = d.duration /\ e.unlocked = d.unlocked
      BY <1>4, <2>1 DEF Watchdog
    <2> QED
      BY <1>3, <2>2 DEF WatchdogTimed
  <1>5. CASE d.running
    <2>1. e = [d EXCEPT !.age = 0, !.armedFor = n, !.selected = n, !.quiet = 0]
      BY <1>1, <1>3, <1>5 DEF Fed, Reload, Watchdog
    <2>2. /\ e \in Watchdog /\ e.armedFor = n /\ e.running /\ e.age = 0 /\ e.selected = n /\ e.quiet = 0
          /\ e.duration = d.duration /\ e.unlocked = d.unlocked
      BY <1>5, <2>1 DEF Watchdog
    <2>3. n # NoEvent /\ 0 <= n
      BY <1>2 DEF NoEvent
    <2>4. WatchdogTimed(e)
      BY <2>2, <2>3 DEF WatchdogTimed
    <2> QED
      BY <1>3, <2>2, <2>4
  <1> QED
    BY <1>4, <1>5

(* One watchdog changes, the other does not.                               *)
LEMMA WatchdogChanged ==
    ASSUME NEW x, WatchdogInv(x), NEW w \in Watchdogs, NEW d \in Watchdog, WatchdogTimed(d),
           w = "iwdg" => d.unlocked \/ d.duration = TimeoutReset,
           NEW y, y = [x EXCEPT ![w] = d]
    PROVE  WatchdogInv(y)
  <1>1. x \in [Watchdogs -> Watchdog] /\ \A v \in Watchdogs : WatchdogTimed(x[v])
    BY DEF WatchdogInv
  <1>2. y \in [Watchdogs -> Watchdog]
    BY <1>1
  <1>3. \A v \in Watchdogs : y[v] = IF v = w THEN d ELSE x[v]
    BY <1>1
  <1>4. \A v \in Watchdogs : WatchdogTimed(y[v])
    BY <1>1, <1>3
  <1>5. y["iwdg"].unlocked \/ y["iwdg"].duration = TimeoutReset
    BY <1>3 DEF WatchdogInv, Watchdogs
  <1> QED
    BY <1>2, <1>4, <1>5 DEF WatchdogInv

LEMMA WatchdogKept ==
    ASSUME WatchdogInv(wdg), WdgNext
    PROVE  WatchdogInv(wdg)'
  <1>1. PICK x : x = wdg
    OBVIOUS
  <1>2. PICK y : y = wdg'
    OBVIOUS
  <1>3. SUFFICES WatchdogInv(y)
    BY <1>2
  <1>4. /\ WatchdogInv(x) /\ x \in [Watchdogs -> Watchdog] /\ \A w \in Watchdogs : WatchdogTimed(x[w])
        /\ "iwdg" \in Watchdogs /\ "wwdg" \in Watchdogs
    BY <1>1 DEF WatchdogInv, Watchdogs
  <1>5. PICK i \in Watchdog : i = x["iwdg"] /\ WatchdogTimed(i) /\ (i.unlocked \/ i.duration = TimeoutReset)
    BY <1>4 DEF WatchdogInv
  <1>6. PICK v \in Watchdog : v = x["wwdg"]
    BY <1>4
  <1>7. CASE IwdgUnlock
    <2>1. PICK d : d = [i EXCEPT !.unlocked = TRUE]
      OBVIOUS
    <2>2. d \in Watchdog /\ WatchdogTimed(d) /\ d.unlocked
      BY <1>5, <2>1 DEF Watchdog, WatchdogTimed
    <2>3. y = [x EXCEPT !["iwdg"] = d]
      BY <1>1, <1>2, <1>4, <1>5, <1>7, <2>1 DEF IwdgUnlock
    <2> QED
      BY <1>4, <2>2, <2>3, WatchdogChanged
  <1>8. CASE IwdgStart
    <2>1. PICK d : d = [i EXCEPT !.running = TRUE]
      OBVIOUS
    <2>2. d \in Watchdog /\ d.unlocked = i.unlocked /\ d.duration = i.duration
      BY <2>1 DEF Watchdog
    <2>3. y = [x EXCEPT !["iwdg"] = Fed(d)]
      BY <1>1, <1>2, <1>4, <1>5, <1>8, <2>1 DEF IwdgStart
    <2>4. PICK e : e = Fed(d)
      OBVIOUS
    <2>5. e \in Watchdog /\ WatchdogTimed(e) /\ (e.unlocked \/ e.duration = TimeoutReset)
      BY <1>5, <2>2, <2>4, FedTimed
    <2> QED
      BY <1>4, <2>3, <2>4, <2>5, WatchdogChanged
  <1>9. CASE IwdgReload
    <2>1. PICK e : e = Fed(i)
      OBVIOUS
    <2>2. e \in Watchdog /\ WatchdogTimed(e) /\ (e.unlocked \/ e.duration = TimeoutReset)
      BY <1>5, <2>1, FedTimed
    <2>3. y = [x EXCEPT !["iwdg"] = e]
      BY <1>1, <1>2, <1>4, <1>5, <1>9, <2>1 DEF IwdgReload
    <2> QED
      BY <1>4, <2>2, <2>3, WatchdogChanged
  <1>10. CASE IwdgConfigure
    <2>1. PICK n \in Timeouts : i.unlocked /\ wdg' = [wdg EXCEPT !["iwdg"].duration = n]
      BY <1>1, <1>5, <1>10 DEF IwdgConfigure
    <2>2. PICK d : d = [i EXCEPT !.duration = n]
      OBVIOUS
    <2>3. d \in Watchdog /\ WatchdogTimed(d) /\ d.unlocked
      BY <1>5, <2>1, <2>2 DEF Watchdog, WatchdogTimed
    <2>4. y = [x EXCEPT !["iwdg"] = d]
      BY <1>1, <1>2, <1>4, <1>5, <2>1, <2>2
    <2> QED
      BY <1>4, <2>3, <2>4, WatchdogChanged
  <1>16. CASE WwdgConfigure
    <2>1. PICK n \in Timeouts : wdg' = [wdg EXCEPT !["wwdg"].duration = n]
      BY <1>16 DEF WwdgConfigure
    <2>2. PICK d : d = [v EXCEPT !.duration = n]
      OBVIOUS
    <2>3. WatchdogTimed(v)
      BY <1>4, <1>6
    <2>4. d \in Watchdog /\ WatchdogTimed(d)
      BY <2>1, <2>2, <2>3 DEF Watchdog, WatchdogTimed
    <2>5. y = [x EXCEPT !["wwdg"] = d]
      BY <1>1, <1>2, <1>4, <1>6, <2>1, <2>2
    <2>6. "wwdg" # "iwdg"
      OBVIOUS
    <2> QED
      BY <1>4, <2>4, <2>5, <2>6, WatchdogChanged
  <1>11. CASE WwdgControl
    <2>1. PICK n \in Timeouts, enable \in BOOLEAN :
              wdg' = [wdg EXCEPT !["wwdg"] = Fed([@ EXCEPT !.duration = n, !.running = enable])]
      BY <1>11 DEF WwdgControl
    <2>2. PICK d : d = [v EXCEPT !.duration = n, !.running = enable]
      OBVIOUS
    <2>3. d \in Watchdog
      BY <2>2 DEF Watchdog
    <2>4. PICK e : e = Fed(d)
      OBVIOUS
    <2>5. e \in Watchdog /\ WatchdogTimed(e)
      BY <2>3, <2>4, FedTimed
    <2>6. y = [x EXCEPT !["wwdg"] = e]
      BY <1>1, <1>2, <1>4, <1>6, <2>1, <2>2, <2>4
    <2>7. "wwdg" # "iwdg"
      OBVIOUS
    <2> QED
      BY <1>4, <2>5, <2>6, <2>7, WatchdogChanged
  <1>12. CASE SetResetEnabled
    <2>1. PICK w \in Watchdogs, enabled \in BOOLEAN :
              wdg' = [wdg EXCEPT ![w] = LET d == [@ EXCEPT !.resets = enabled]
                                        IN  IF d.running THEN Fed(d) ELSE d]
      BY <1>12 DEF SetResetEnabled
    <2>2. PICK b \in Watchdog : b = x[w] /\ WatchdogTimed(b)
                                /\ (w = "iwdg" => b.unlocked \/ b.duration = TimeoutReset)
      BY <1>4, <1>5
    <2>3. PICK d : d = [b EXCEPT !.resets = enabled]
      OBVIOUS
    <2>4. d \in Watchdog /\ WatchdogTimed(d) /\ d.unlocked = b.unlocked /\ d.duration = b.duration
      BY <2>2, <2>3 DEF Watchdog, WatchdogTimed
    <2>5. PICK e : e = IF d.running THEN Fed(d) ELSE d
      OBVIOUS
    <2>6. e \in Watchdog /\ WatchdogTimed(e) /\ e.unlocked = b.unlocked /\ e.duration = b.duration
      BY <2>4, <2>5, FedTimed
    <2>7. y = [x EXCEPT ![w] = e]
      BY <1>1, <1>2, <1>4, <2>1, <2>2, <2>3, <2>5
    <2> QED
      BY <1>4, <2>2, <2>6, <2>7, WatchdogChanged
  <1>13. CASE WdgPasses
    <2>1. \A w \in Watchdogs : x[w].armedFor # NoEvent => x[w].age < x[w].armedFor
      BY <1>1, <1>13 DEF WdgPasses
    <2>2. y = [w \in Watchdogs |->
                 [x[w] EXCEPT !.age = IF x[w].armedFor = NoEvent THEN 0 ELSE @ + 1,
                              !.quiet = IF x[w].running /\ @ <= x[w].selected THEN @ + 1 ELSE @]]
      BY <1>1, <1>2, <1>13 DEF WdgPasses
    <2>3. ASSUME NEW w \in Watchdogs
          PROVE  /\ y[w] \in Watchdog /\ WatchdogTimed(y[w])
                 /\ y[w].unlocked = x[w].unlocked /\ y[w].duration = x[w].duration
      <3>1. PICK b \in Watchdog : b = x[w] /\ WatchdogTimed(b) /\ (b.armedFor # NoEvent => b.age < b.armedFor)
        BY <1>4, <2>1
      <3>2. PICK age \in Nat : age = IF b.armedFor = NoEvent THEN 0 ELSE b.age + 1
        BY DEF Watchdog
      <3>3. PICK quiet \in Nat : quiet = IF b.running /\ b.quiet <= b.selected THEN b.quiet + 1 ELSE b.quiet
        BY DEF Watchdog
      <3>4. PICK d : d = [b EXCEPT !.age = age, !.quiet = quiet]
        OBVIOUS
      <3>5. y[w] = d
        BY <2>2, <3>1, <3>2, <3>3, <3>4
      <3>6. /\ d \in Watchdog /\ d.age = age /\ d.quiet = quiet /\ d.armedFor = b.armedFor
            /\ d.running = b.running /\ d.selected = b.selected
            /\ d.unlocked = b.unlocked /\ d.duration = b.duration
        BY <3>4 DEF Watchdog
      <3>7. b.selected \in Nat /\ b.quiet \in Nat /\ b.age \in Nat /\ (b.armedFor # NoEvent => b.armedFor \in Nat)
        BY TimersAssumption DEF Watchdog
      <3>8. WatchdogTimed(d)
        <4>1. CASE b.armedFor # NoEvent
          <5>1. b.running /\ b.quiet <= b.selected /\ b.armedFor - b.age = b.selected - b.quiet
                /\ b.age < b.armedFor
            BY <3>1, <4>1 DEF WatchdogTimed
          <5>2. quiet = b.quiet + 1 /\ age = b.age + 1
            BY <3>2, <3>3, <4>1, <5>1
          <5>3. quiet <= b.selected /\ b.armedFor - age = b.selected - quiet
            <6>1. PICK f \in Nat, g \in Nat, h \in Nat, k \in Nat :
                      f = b.armedFor /\ g = b.age /\ h = b.selected /\ k = b.quiet
              BY <3>7, <4>1
            <6>2. f - g = h - k /\ g < f
              BY <5>1, <6>1
            <6>3. k + 1 <= h /\ f - (g + 1) = h - (k + 1)
              BY <6>2
            <6> QED
              BY <5>2, <6>1, <6>3
          <5> QED
            BY <3>6, <4>1, <5>1, <5>3 DEF WatchdogTimed
        <4>2. CASE b.armedFor = NoEvent
          <5>1. b.running => b.quiet >= b.selected
            BY <3>1, <4>2 DEF WatchdogTimed
          <5>2. b.running => quiet >= b.selected
            BY <3>3, <3>7, <5>1
          <5> QED
            BY <3>6, <4>2, <5>2 DEF WatchdogTimed
        <4> QED
          BY <4>1, <4>2
      <3> QED
        BY <3>1, <3>5, <3>6, <3>8
    <2>4. y \in [Watchdogs -> Watchdog]
      <3>1. y = [w \in Watchdogs |-> y[w]]
        BY <2>2
      <3> QED
        BY <2>3, <3>1
    <2> QED
      BY <1>4, <1>5, <2>3, <2>4 DEF WatchdogInv
  <1>14. CASE WatchdogBites
    <2>1. PICK w \in Watchdogs : /\ wdg[w].armedFor # NoEvent /\ wdg[w].age = wdg[w].armedFor
                                 /\ wdg' = [wdg EXCEPT ![w].armedFor = NoEvent]
      BY <1>14 DEF WatchdogBites
    <2>2. PICK b \in Watchdog : b = x[w] /\ WatchdogTimed(b)
                                /\ (w = "iwdg" => b.unlocked \/ b.duration = TimeoutReset)
      BY <1>4, <1>5
    <2>3. PICK d : d = [b EXCEPT !.armedFor = NoEvent]
      OBVIOUS
    <2>4. /\ d \in Watchdog /\ d.armedFor = NoEvent /\ d.quiet = b.quiet /\ d.selected = b.selected
          /\ d.unlocked = b.unlocked /\ d.duration = b.duration
      BY <2>3 DEF Watchdog
    <2>5. b.quiet >= b.selected
      <3>1. b.armedFor - b.age = b.selected - b.quiet /\ b.armedFor = b.age /\ b.armedFor # NoEvent
        BY <1>1, <2>1, <2>2 DEF WatchdogTimed
      <3>2. b.selected \in Nat /\ b.quiet \in Nat /\ b.age \in Nat
        BY TimersAssumption DEF Watchdog
      <3> QED
        BY <3>1, <3>2
    <2>6. WatchdogTimed(d)
      BY <2>4, <2>5 DEF WatchdogTimed
    <2>7. y = [x EXCEPT ![w] = d]
      BY <1>1, <1>2, <1>4, <2>1, <2>2, <2>3
    <2> QED
      BY <1>4, <2>2, <2>4, <2>6, <2>7, WatchdogChanged
  <1>15. CASE ResetConsumed
    <2>1. y = [w \in Watchdogs |-> ResetWdg(x[w].resets)]
      BY <1>1, <1>2, <1>15 DEF ResetConsumed
    <2>2. ASSUME NEW w \in Watchdogs
          PROVE  y[w] \in Watchdog /\ WatchdogTimed(y[w]) /\ y[w].duration = TimeoutReset
      <3>1. PICK b \in BOOLEAN : b = x[w].resets
        BY <1>4 DEF Watchdog
      <3>2. y[w] = ResetWdg(b)
        BY <2>1, <3>1
      <3> QED
        BY <3>2, TimersAssumption DEF ResetWdg, Watchdog, WatchdogTimed
    <2>3. y \in [Watchdogs -> Watchdog]
      <3>1. y = [w \in Watchdogs |-> y[w]]
        BY <2>1
      <3> QED
        BY <2>2, <3>1
    <2> QED
      BY <1>4, <2>2, <2>3 DEF WatchdogInv
  <1> QED
    BY <1>7, <1>8, <1>9, <1>10, <1>11, <1>12, <1>13, <1>14, <1>15, <1>16 DEF WdgNext

-----------------------------------------------------------------------------
(* The counters within the device. *)

CountersInv == TickTypeOK /\ TimerInv(tim) /\ WatchdogInv(wdg)

LEMMA CountersStart ==
    ASSUME DeviceInit
    PROVE  CountersInv
  <1>1. TickTypeOK
    BY InitTyped DEF DeviceInit
  <1>2. TimerInv(tim)
    <2>1. PICK hz \in Nat \ {0} : tim = ResetTim(hz)
      BY TimersAssumption DEF DeviceInit, TimersInit
    <2>2. PICK t : t = ResetTim(hz)
      OBVIOUS
    <2>3. t \in Timer /\ ~t.running /\ ~t.cen /\ ~t.level /\ ~t.uie /\ t.due = NoEvent
      BY <2>2, TimersAssumption DEF ResetTim, Timer
    <2>4. TimerInv(t)
      BY <2>3 DEF TimerInv, TimerLines, TimerArmed
    <2> QED
      BY <2>1, <2>2, <2>4
  <1>3. WatchdogInv(wdg)
    <2>1. PICK y : y = wdg
      OBVIOUS
    <2>2. y = [w \in Watchdogs |-> ResetWdg(FALSE)]
      BY <2>1 DEF DeviceInit, TimersInit
    <2>3. PICK d : d = ResetWdg(FALSE)
      OBVIOUS
    <2>4. d \in Watchdog /\ WatchdogTimed(d) /\ d.duration = TimeoutReset
      BY <2>3, TimersAssumption DEF ResetWdg, Watchdog, WatchdogTimed
    <2>5. y \in [Watchdogs -> Watchdog] /\ \A w \in Watchdogs : y[w] = d
      BY <2>2, <2>3, <2>4
    <2>6. "iwdg" \in Watchdogs
      BY DEF Watchdogs
    <2>7. WatchdogInv(y)
      BY <2>4, <2>5, <2>6 DEF WatchdogInv
    <2> QED
      BY <2>1, <2>7
  <1> QED
    BY <1>1, <1>2, <1>3 DEF CountersInv

LEMMA CountersKept ==
    ASSUME CountersInv, [DeviceNext]_DeviceVars
    PROVE  CountersInv'
  <1>1. [TickNext]_tick
    BY DEF DeviceNext, DeviceVars, Held, TickPart, PinsPart, BlockPart, WiringPart, DmaPart, SerialPart,
           TimerPart, WatchdogPart, ClocksPart, FlashPart, CrcPart, AdcPart, FdcanPart
  <1>2. TimNext \/ UNCHANGED tim
    <2>1. CASE DeviceNext
      <3>1. CASE part \in {"timer", "watchdog"}
        <4>1. TimerPart \/ WatchdogPart
          BY <2>1, <3>1 DEF DeviceNext, TickPart, PinsPart, BlockPart, WiringPart, DmaPart, SerialPart,
                            ClocksPart, FlashPart, CrcPart, AdcPart, FdcanPart
        <4> QED
          BY <4>1 DEF TimerPart, WatchdogPart, WdgNext
      <3>2. CASE part \notin {"timer", "watchdog"}
        BY <2>1, <3>2 DEF DeviceNext, Held, TimersVars
      <3> QED
        BY <3>1, <3>2
    <2>2. CASE UNCHANGED DeviceVars
      BY <2>2 DEF DeviceVars, TimersVars
    <2> QED
      BY <2>1, <2>2
  <1>3. WdgNext \/ UNCHANGED wdg
    <2>1. CASE DeviceNext
      <3>1. CASE part \in {"timer", "watchdog"}
        <4>1. TimerPart \/ WatchdogPart
          BY <2>1, <3>1 DEF DeviceNext, TickPart, PinsPart, BlockPart, WiringPart, DmaPart, SerialPart,
                            ClocksPart, FlashPart, CrcPart, AdcPart, FdcanPart
        <4> QED
          BY <4>1 DEF TimerPart, WatchdogPart, TimNext
      <3>2. CASE part \notin {"timer", "watchdog"}
        BY <2>1, <3>2 DEF DeviceNext, Held, TimersVars
      <3> QED
        BY <3>1, <3>2
    <2>2. CASE UNCHANGED DeviceVars
      BY <2>2 DEF DeviceVars, TimersVars
    <2> QED
      BY <2>1, <2>2
  <1>4. TickTypeOK'
    BY <1>1, NextTyped DEF CountersInv
  <1>5. TimerInv(tim)'
    <2>1. CASE TimNext
      BY <2>1, TimerKept DEF CountersInv
    <2>2. CASE UNCHANGED tim
      BY <2>2 DEF CountersInv
    <2> QED
      BY <1>2, <2>1, <2>2
  <1>6. WatchdogInv(wdg)'
    <2>1. CASE WdgNext
      BY <2>1, WatchdogKept DEF CountersInv
    <2>2. CASE UNCHANGED wdg
      BY <2>2 DEF CountersInv
    <2> QED
      BY <1>3, <2>1, <2>2
  <1> QED
    BY <1>4, <1>5, <1>6 DEF CountersInv

(* Whatever the clocks, prescalers, reload values and durations: a running *)
(* timer has its overflow armed and its computed counter reaches ARR + 1   *)
(* exactly when that event is due; a watchdog bites exactly the selected   *)
(* duration after it was last fed; and SysTick and DWT do not see how      *)
(* cycles are cut into slices.                                             *)
THEOREM TimersAlwaysExact == DeviceSpec => []TimersExact
  <1>1. DeviceInit => CountersInv
    BY CountersStart
  <1>2. CountersInv /\ [DeviceNext]_DeviceVars => CountersInv'
    BY CountersKept
  <1>3. ASSUME CountersInv PROVE TimersExact
    <2>1. SliceInvariance
      BY <1>3, TypeSlices DEF CountersInv
    <2>2. UpdateOnTime
      BY <1>3, ArmedOnTime DEF CountersInv
    <2>3. WatchdogExact
      BY <1>3 DEF CountersInv, WatchdogInv, WatchdogTimed, WatchdogExact
    <2> QED
      BY <2>1, <2>2, <2>3 DEF TimersExact, TickSliced
  <1> QED
    BY <1>1, <1>2, <1>3, PTL DEF DeviceSpec

(* Whatever the clocks, prescalers and reload values: a write of CR1, PSC  *)
(* or ARR, or a new input clock, leaves the counter where it is.           *)
THEOREM CounterAlwaysContinuous == DeviceSpec => CounterContinuous
  <1> DEFINE Jumpless ==
          tim' # tim /\ (WriteTimCr1 \/ WriteTimPsc \/ WriteTimArr \/ SetTimClock) =>
              LiveCounter(tim') = LiveCounter(tim)
  <1>1. DeviceInit => CountersInv
    BY CountersStart
  <1>2. CountersInv /\ [DeviceNext]_DeviceVars => CountersInv'
    BY CountersKept
  <1>3. CountersInv => [Jumpless]_tim
    <2>1. SUFFICES ASSUME CountersInv, WriteTimCr1 \/ WriteTimPsc \/ WriteTimArr \/ SetTimClock
                   PROVE  LiveCounter(tim') = LiveCounter(tim)
      OBVIOUS
    <2>2. PICK t \in Timer : t = tim /\ TimerLines(t)
      BY <2>1 DEF CountersInv, TimerInv
    <2>3. PICK u : u = tim'
      OBVIOUS
    <2>4. SUFFICES LiveCounter(u) = LiveCounter(t)
      BY <2>2, <2>3
    <2>5. CASE SetTimClock
      <3>1. PICK hz \in Nat \ {0} : u = ScheduleUpdate([CaptureCounter(t) EXCEPT !.hz = hz])
        BY <2>2, <2>3, <2>5, TimersAssumption DEF SetTimClock
      <3> QED
        BY <2>2, <3>1, Reclocked
    <2>6. CASE WriteTimCr1 \/ WriteTimPsc \/ WriteTimArr
      <3>1. PICK x : /\ u = Retime(t, x)
                     /\ \/ \E en, opm \in BOOLEAN : x = [t EXCEPT !.cen = en, !.opm = opm, !.running = en]
                        \/ \E p \in Nat : x = [t EXCEPT !.psc = p]
                        \/ \E r \in Nat : x = [t EXCEPT !.arr = r]
        <4>1. CASE WriteTimCr1
          BY <2>2, <2>3, <4>1 DEF WriteTimCr1
        <4>2. CASE WriteTimPsc
          BY <2>2, <2>3, <4>2, TimersAssumption DEF WriteTimPsc
        <4>3. CASE WriteTimArr
          BY <2>2, <2>3, <4>3, TimersAssumption DEF WriteTimArr
        <4> QED
          BY <2>6, <4>1, <4>2, <4>3
      <3>2. x \in Timer /\ TimerLines(x)
        BY <2>2, <3>1, ZenonT(60) DEF Timer, TimerLines
      <3> QED
        BY <3>1, <3>2, Retimed
    <2> QED
      BY <2>1, <2>5, <2>6
  <1> QED
    BY <1>1, <1>2, <1>3, PTL DEF DeviceSpec, CounterContinuous

-----------------------------------------------------------------------------
(* The FDCAN controller (Fdcan): frames of its operators. *)

FdWire == [sends : Seq(Send), request : [Buffer -> Nat], sent : SUBSET Nat, next : Nat,
           stored : Nat, overwritten : BOOLEAN]

FdSameTx(c, d) ==
    /\ d.tx = c.tx /\ d.txbrp = c.txbrp /\ d.txbto = c.txbto /\ d.txbtie = c.txbtie
    /\ d.state = c.state /\ d.generation = c.generation /\ d.attached = c.attached
FdSameRx(c, d) ==
    d.rx = c.rx /\ d.rx_fill = c.rx_fill /\ d.rx_get = c.rx_get /\ d.rx_put = c.rx_put
FdSameMode(c, d) == d.mode = c.mode /\ d.cccr = c.cccr /\ d.setup = c.setup
FdSameIndices(c, d) == d.tx_get = c.tx_get /\ d.tx_put = c.tx_put
FdSameLines(c, d) ==
    /\ d.ir = c.ir /\ d.ie = c.ie /\ d.ils = c.ils /\ d.ile = c.ile
    /\ d.level = c.level /\ d.asserted = c.asserted /\ d.rx_lost = c.rx_lost

(* The lines follow the registers, and the lost mark its flag.             *)
FdLines(c) ==
    /\ c.level = {line \in Line : InterruptLinePending(c, line)} /\ c.asserted = c.level
    /\ c.rx_lost <=> "rx_lost" \in c.ir

LEMMA LinesUpdated ==
    ASSUME NEW c \in Controller
    PROVE  LET d == UpdateInterruptLines(c)
           IN  /\ d \in Controller /\ FdSameTx(c, d) /\ FdSameRx(c, d) /\ FdSameMode(c, d)
               /\ FdSameIndices(c, d) /\ d.rx_lost = c.rx_lost
               /\ d.ir = c.ir /\ d.ie = c.ie /\ d.ils = c.ils /\ d.ile = c.ile
               /\ d.level = {line \in Line : InterruptLinePending(d, line)} /\ d.asserted = d.level
  <1>1. PICK pending \in SUBSET Line : pending = {line \in Line : InterruptLinePending(c, line)}
    OBVIOUS
  <1>2. PICK d : d = UpdateInterruptLines(c)
    OBVIOUS
  <1>3. d = [c EXCEPT !.level = pending, !.asserted = pending]
    BY <1>1, <1>2 DEF UpdateInterruptLines
  <1>4. d \in Controller
    BY <1>3 DEF Controller
  <1>5. FdSameTx(c, d) /\ FdSameRx(c, d) /\ FdSameMode(c, d) /\ FdSameIndices(c, d)
        /\ d.rx_lost = c.rx_lost /\ d.ir = c.ir /\ d.ie = c.ie /\ d.ils = c.ils /\ d.ile = c.ile
    BY <1>3 DEF Controller, FdSameTx, FdSameRx, FdSameMode, FdSameIndices
  <1>6. d.level = pending /\ d.asserted = pending
    BY <1>3 DEF Controller
  <1>7. \A line \in Line : InterruptLinePending(d, line) <=> InterruptLinePending(c, line)
    BY <1>5 DEF InterruptLinePending, LineOf
  <1> QED
    BY <1>1, <1>2, <1>4, <1>5, <1>6, <1>7

(* What a raised flag changes.                                             *)
FdRaised(c, d, flags) ==
    /\ d \in Controller /\ FdSameTx(c, d) /\ FdSameRx(c, d) /\ FdSameMode(c, d) /\ FdSameIndices(c, d)
    /\ d.rx_lost = c.rx_lost /\ d.ir = c.ir \cup flags /\ d.ie = c.ie /\ d.ils = c.ils /\ d.ile = c.ile
    /\ d.level = {line \in Line : InterruptLinePending(d, line)} /\ d.asserted = d.level

LEMMA FlagsRaised ==
    ASSUME NEW c \in Controller, NEW flags \in SUBSET Flag
    PROVE  FdRaised(c, SetInterruptFlags(c, flags), flags)
  <1>1. PICK ir \in SUBSET Flag : ir = c.ir \cup flags
    BY DEF Controller
  <1>2. PICK asserted \in SUBSET Line : asserted = c.asserted \ {LineOf(c, f) : f \in flags \cap c.ie}
    BY DEF Controller
  <1>3. PICK e : e = [c EXCEPT !.ir = ir, !.asserted = asserted]
    OBVIOUS
  <1>4. e \in Controller
    BY <1>3 DEF Controller
  <1>5. FdSameTx(c, e) /\ FdSameRx(c, e) /\ FdSameMode(c, e) /\ FdSameIndices(c, e)
        /\ e.rx_lost = c.rx_lost /\ e.ir = ir /\ e.ie = c.ie /\ e.ils = c.ils /\ e.ile = c.ile
    BY <1>3 DEF Controller, FdSameTx, FdSameRx, FdSameMode, FdSameIndices
  <1>6. PICK d : d = UpdateInterruptLines(e)
    OBVIOUS
  <1>7. d = SetInterruptFlags(c, flags)
    BY <1>1, <1>2, <1>3, <1>6 DEF SetInterruptFlags, Controller
  <1>8. /\ d \in Controller /\ FdSameTx(e, d) /\ FdSameRx(e, d) /\ FdSameMode(e, d)
        /\ FdSameIndices(e, d) /\ d.rx_lost = e.rx_lost
        /\ d.ir = e.ir /\ d.ie = e.ie /\ d.ils = e.ils /\ d.ile = e.ile
        /\ d.level = {line \in Line : InterruptLinePending(d, line)} /\ d.asserted = d.level
    BY <1>4, <1>6, LinesUpdated
  <1>9. FdRaised(c, d, flags)
    BY <1>1, <1>5, <1>8 DEF FdRaised, FdSameTx, FdSameRx, FdSameMode, FdSameIndices
  <1> QED
    BY <1>7, <1>9

-----------------------------------------------------------------------------
(* The put and get indices. *)

RingAhead(i, j) == (j + TxSlots - i) % TxSlots

LEMMA AheadBounds ==
    ASSUME NEW i \in Buffer, NEW j \in Buffer
    PROVE  /\ RingAhead(i, j) \in Nat
           /\ RingAhead(i, j) = IF j >= i THEN j - i ELSE j + TxSlots - i
  <1>1. TxSlots \in Nat \ {0} /\ i \in 0..(TxSlots - 1) /\ j \in 0..(TxSlots - 1)
    BY SlotAssumption DEF Buffer
  <1>2. CASE j >= i
    <2>1. j + TxSlots - i \in TxSlots..(2 * TxSlots - 1)
      BY <1>1, <1>2
    <2>2. RingAhead(i, j) = (j + TxSlots - i) - TxSlots
      BY <1>1, <2>1, ModWrap DEF RingAhead
    <2> QED
      BY <1>1, <1>2, <2>2
  <1>3. CASE ~(j >= i)
    <2>1. j + TxSlots - i \in 0..(TxSlots - 1)
      BY <1>1, <1>3
    <2>2. RingAhead(i, j) = j + TxSlots - i
      BY <1>1, <2>1, ModSmall DEF RingAhead
    <2> QED
      BY <1>1, <1>3, <2>2
  <1> QED
    BY <1>2, <1>3

LEMMA RoundRobinFinds ==
    ASSUME NEW i \in Buffer, NEW S \in SUBSET Buffer, S # {}
    PROVE  /\ RoundRobin(i, S) \in S
           /\ \A k \in S : RingAhead(i, RoundRobin(i, S)) <= RingAhead(i, k)
  <1> DEFINE N == {RingAhead(i, j) : j \in S}
             least(j) == \A k \in S : RingAhead(i, j) <= RingAhead(i, k)
  <1>1. N \in SUBSET Nat /\ N # {}
    BY AheadBounds
  <1>2. PICK a \in N : \A b \in N : a <= b
    <2> HIDE DEF N
    <2> QED
      BY <1>1, LeastNumber
  <1>3. \E j \in S : least(j)
    BY <1>2
  <1>4. RoundRobin(i, S) = CHOOSE j \in S : least(j)
    BY DEF RoundRobin, RingAhead
  <1> HIDE DEF least
  <1>5. RoundRobin(i, S) \in S /\ least(RoundRobin(i, S))
    BY <1>3, <1>4
  <1> QED
    BY <1>5 DEF least

(* What a load of TXFQS relies on.                                         *)
FdSettled(c) ==
    /\ c.txbrp # Buffer => c.tx_put \notin c.txbrp
    /\ c.txbrp # {} => c.tx_get \in c.txbrp
    /\ c.txbrp = {} => c.tx_get = c.tx_put

LEMMA SameLinesKept ==
    ASSUME NEW c, NEW d, FdSameLines(c, d), FdLines(c)
    PROVE  FdLines(d)
  <1>1. \A line \in Line : InterruptLinePending(d, line) <=> InterruptLinePending(c, line)
    BY DEF FdSameLines, InterruptLinePending, LineOf
  <1> QED
    BY <1>1 DEF FdSameLines, FdLines

LEMMA RaisedKeepsLines ==
    ASSUME NEW c, NEW d, NEW flags, FdRaised(c, d, flags),
           c.rx_lost <=> "rx_lost" \in c.ir \cup flags
    PROVE  FdLines(d)
  BY DEF FdRaised, FdLines

LEMMA StatusUpdated ==
    ASSUME NEW c \in Controller
    PROVE  LET d == UpdateTxFifoStatus(c)
           IN  /\ d \in Controller /\ FdSameTx(c, d) /\ FdSameRx(c, d) /\ FdSameMode(c, d)
               /\ FdSameLines(c, d) /\ FdSettled(d)
  <1> DEFINE free == Buffer \ c.txbrp
             putx == IF free = {} THEN c.tx_put ELSE RoundRobin(c.tx_put, free)
  <1>1. c.tx_put \in Buffer /\ c.tx_get \in Buffer /\ c.txbrp \in SUBSET Buffer
    BY DEF Controller
  <1>2. PICK put \in Buffer : put = putx
    BY <1>1, RoundRobinFinds
  <1>3. c.txbrp # Buffer => put \notin c.txbrp
    <2>1. c.txbrp # Buffer => free # {}
      BY <1>1
    <2>2. free # {} => put \in free
      BY <1>1, <1>2, RoundRobinFinds
    <2> QED
      BY <2>1, <2>2
  <1>4. PICK get \in Buffer : get = IF c.txbrp = {} THEN put ELSE RoundRobin(c.tx_get, c.txbrp)
    BY <1>1, RoundRobinFinds
  <1>5. c.txbrp # {} => get \in c.txbrp
    BY <1>1, <1>4, RoundRobinFinds
  <1>6. PICK d : d = [c EXCEPT !.tx_put = put, !.tx_get = get]
    OBVIOUS
  <1>7. d = UpdateTxFifoStatus(c)
    BY <1>2, <1>4, <1>6 DEF UpdateTxFifoStatus
  <1>8. d \in Controller
    BY <1>6 DEF Controller
  <1>9. FdSameTx(c, d) /\ FdSameRx(c, d) /\ FdSameMode(c, d) /\ FdSameLines(c, d)
        /\ d.tx_put = put /\ d.tx_get = get
    BY <1>6 DEF Controller, FdSameTx, FdSameRx, FdSameMode, FdSameLines
  <1>10. FdSettled(d)
    BY <1>3, <1>4, <1>5, <1>9 DEF FdSettled, FdSameTx
  <1> QED
    BY <1>7, <1>8, <1>9, <1>10

LEMMA SettledIsFixed ==
    ASSUME NEW c \in Controller, FdSettled(c)
    PROVE  UpdateTxFifoStatus(c) = c
  <1> DEFINE free == Buffer \ c.txbrp
             putx == IF free = {} THEN c.tx_put ELSE RoundRobin(c.tx_put, free)
             getx == IF c.txbrp = {} THEN putx ELSE RoundRobin(c.tx_get, c.txbrp)
  <1>1. c.tx_put \in Buffer /\ c.tx_get \in Buffer /\ c.txbrp \in SUBSET Buffer
    BY DEF Controller
  <1>2. ASSUME NEW i \in Buffer, NEW S \in SUBSET Buffer, i \in S
        PROVE  RoundRobin(i, S) = i
    <2>1. PICK j : j = RoundRobin(i, S)
      OBVIOUS
    <2>2. j \in S /\ RingAhead(i, j) <= RingAhead(i, i)
      BY <1>2, <2>1, RoundRobinFinds
    <2>3. j \in Buffer
      BY <2>2
    <2>4. /\ RingAhead(i, j) \in Nat /\ RingAhead(i, i) = i - i
          /\ RingAhead(i, j) = IF j >= i THEN j - i ELSE j + TxSlots - i
      BY <2>3, AheadBounds, SlotAssumption DEF Buffer
    <2> QED
      BY <2>1, <2>2, <2>3, <2>4, SlotAssumption DEF Buffer
  <1>3. putx = c.tx_put
    <2>1. CASE free = {}
      BY <2>1
    <2>2. CASE free # {}
      <3>1. c.tx_put \in free
        BY <1>1, <2>2 DEF FdSettled
      <3> QED
        BY <1>1, <1>2, <2>2, <3>1
    <2> QED
      BY <2>1, <2>2
  <1>4. getx = c.tx_get
    BY <1>1, <1>2, <1>3 DEF FdSettled
  <1>5. UpdateTxFifoStatus(c) = [c EXCEPT !.tx_put = putx, !.tx_get = getx]
    BY DEF UpdateTxFifoStatus
  <1> HIDE DEF putx, getx
  <1> QED
    BY <1>3, <1>4, <1>5 DEF Controller

-----------------------------------------------------------------------------
(* What happens to one transmit buffer. *)

FdTxDone(c, d, b, st, brp, bto) ==
    /\ d \in Controller /\ FdSameRx(c, d) /\ FdSameMode(c, d) /\ FdLines(d) /\ FdSettled(d)
    /\ d.txbrp = brp /\ d.txbto = bto /\ d.state = [c.state EXCEPT ![b] = st]
    /\ d.generation = c.generation /\ d.attached = c.attached /\ d.tx = c.tx /\ d.txbtie = c.txbtie

LEMMA Released ==
    ASSUME NEW c \in Controller, FdLines(c), NEW b \in Buffer
    PROVE  FdTxDone(c, Release(c, b), b, "idle", c.txbrp \ {b}, c.txbto)
  <1>1. PICK brp \in SUBSET Buffer : brp = c.txbrp \ {b}
    BY DEF Controller
  <1>2. PICK st \in [Buffer -> {"idle", "pending", "complete"}] : st = [c.state EXCEPT ![b] = "idle"]
    BY DEF Controller
  <1>3. PICK e : e = [c EXCEPT !.txbrp = brp, !.state = st]
    OBVIOUS
  <1>4. e = [c EXCEPT !.txbrp = @ \ {b}, !.state[b] = "idle"]
    BY <1>1, <1>2, <1>3 DEF Controller
  <1>5. e \in Controller
    BY <1>3 DEF Controller
  <1>6. /\ FdSameRx(c, e) /\ FdSameMode(c, e) /\ FdSameLines(c, e) /\ e.txbrp = brp /\ e.state = st
        /\ e.txbto = c.txbto /\ e.generation = c.generation /\ e.attached = c.attached
        /\ e.tx = c.tx /\ e.txbtie = c.txbtie
    BY <1>3 DEF Controller, FdSameRx, FdSameMode, FdSameLines
  <1>7. PICK f : f = UpdateTxFifoStatus(e)
    OBVIOUS
  <1>8. /\ f \in Controller /\ FdSameTx(e, f) /\ FdSameRx(e, f) /\ FdSameMode(e, f)
        /\ FdSameLines(e, f) /\ FdSettled(f)
    BY <1>5, <1>7, StatusUpdated
  <1>9. PICK d : d = SetInterruptFlags(f, {"protocol_error"})
    OBVIOUS
  <1>10. {"protocol_error"} \in SUBSET Flag
    BY DEF Flag
  <1>11. FdRaised(f, d, {"protocol_error"})
    BY <1>8, <1>9, <1>10, FlagsRaised
  <1>12. f.rx_lost <=> "rx_lost" \in f.ir \cup {"protocol_error"}
    BY <1>6, <1>8 DEF FdLines, FdSameLines
  <1>13. FdLines(d)
    BY <1>11, <1>12, RaisedKeepsLines
  <1>14. FdSettled(d)
    BY <1>8, <1>11 DEF FdRaised, FdSettled, FdSameIndices, FdSameTx
  <1>15. d = Release(c, b)
    BY <1>4, <1>7, <1>9 DEF Release
  <1>16. FdTxDone(c, d, b, "idle", brp, c.txbto)
    BY <1>2, <1>6, <1>8, <1>11, <1>13, <1>14
       DEF FdTxDone, FdRaised, FdSameTx, FdSameRx, FdSameMode
  <1> QED
    BY <1>1, <1>15, <1>16

LEMMA Completed ==
    ASSUME NEW c \in Controller, FdLines(c), NEW b \in Buffer, NEW g,
           Current(c, b, g), c.state[b] = "pending"
    PROVE  FdTxDone(c, CompleteTransmission(c, b, g), b, "complete", c.txbrp \ {b}, c.txbto \cup {b})
  <1>1. PICK brp \in SUBSET Buffer : brp = c.txbrp \ {b}
    BY DEF Controller
  <1>2. PICK st \in [Buffer -> {"idle", "pending", "complete"}] : st = [c.state EXCEPT ![b] = "complete"]
    BY DEF Controller
  <1>21. PICK bto \in SUBSET Buffer : bto = c.txbto \cup {b}
    BY DEF Controller
  <1>3. PICK e : e = [c EXCEPT !.txbrp = brp, !.txbto = bto, !.state = st]
    OBVIOUS
  <1>4. e = [c EXCEPT !.txbrp = @ \ {b}, !.txbto = @ \cup {b}, !.state[b] = "complete"]
    BY <1>1, <1>2, <1>21, <1>3 DEF Controller
  <1>5. e \in Controller
    BY <1>3 DEF Controller
  <1>6. /\ FdSameRx(c, e) /\ FdSameMode(c, e) /\ FdSameLines(c, e) /\ e.txbrp = brp /\ e.state = st
        /\ e.txbto = bto /\ e.generation = c.generation /\ e.attached = c.attached
        /\ e.tx = c.tx /\ e.txbtie = c.txbtie
    BY <1>3 DEF Controller, FdSameRx, FdSameMode, FdSameLines
  <1>7. PICK f : f = UpdateTxFifoStatus(e)
    OBVIOUS
  <1>8. /\ f \in Controller /\ FdSameTx(e, f) /\ FdSameRx(e, f) /\ FdSameMode(e, f)
        /\ FdSameLines(e, f) /\ FdSettled(f)
    BY <1>5, <1>7, StatusUpdated
  <1>9. PICK d : d = CompleteTransmission(c, b, g)
    OBVIOUS
  <1>10. d = IF b \in c.txbtie THEN SetInterruptFlags(f, {"tx_complete"}) ELSE f
    BY <1>4, <1>7, <1>9 DEF CompleteTransmission
  <1>11. FdLines(f)
    BY <1>6, <1>8, SameLinesKept DEF FdSameLines
  <1>12. CASE b \in c.txbtie
    <2>1. {"tx_complete"} \in SUBSET Flag
      BY DEF Flag
    <2>2. FdRaised(f, d, {"tx_complete"})
      BY <1>8, <1>10, <1>12, <2>1, FlagsRaised
    <2>3. f.rx_lost <=> "rx_lost" \in f.ir \cup {"tx_complete"}
      BY <1>11 DEF FdLines
    <2>4. FdLines(d)
      BY <2>2, <2>3, RaisedKeepsLines
    <2>5. FdSettled(d)
      BY <1>8, <2>2 DEF FdRaised, FdSettled, FdSameIndices, FdSameTx
    <2>6. FdTxDone(c, d, b, "complete", brp, bto)
      BY <1>2, <1>6, <1>8, <2>2, <2>4, <2>5
         DEF FdTxDone, FdRaised, FdSameTx, FdSameRx, FdSameMode
    <2> QED
      BY <1>1, <1>21, <1>9, <2>6
  <1>13. CASE b \notin c.txbtie
    <2>1. d = f
      BY <1>10, <1>13
    <2>2. FdTxDone(c, d, b, "complete", brp, bto)
      BY <1>2, <1>6, <1>8, <1>11, <2>1 DEF FdTxDone, FdSameTx, FdSameRx, FdSameMode
    <2> QED
      BY <1>1, <1>21, <1>9, <2>2
  <1> QED
    BY <1>12, <1>13

LEMMA Reserved ==
    ASSUME NEW c \in Controller, FdLines(c), NEW b \in Buffer
    PROVE  FdTxDone(c, Reserve(c, b), b, "pending", c.txbrp \cup {b}, c.txbto \ {b})
  <1>1. PICK brp \in SUBSET Buffer : brp = c.txbrp \cup {b}
    BY DEF Controller
  <1>2. PICK st \in [Buffer -> {"idle", "pending", "complete"}] : st = [c.state EXCEPT ![b] = "pending"]
    BY DEF Controller
  <1>21. PICK bto \in SUBSET Buffer : bto = c.txbto \ {b}
    BY DEF Controller
  <1>22. PICK get \in Buffer : get = IF c.txbrp = {} THEN b ELSE c.tx_get
    BY DEF Controller
  <1>23. PICK put \in Buffer : put = (b + 1) % TxSlots
    BY SlotAssumption DEF Buffer
  <1>3. PICK e : e = [c EXCEPT !.txbrp = brp, !.state = st, !.tx_get = get, !.tx_put = put]
    OBVIOUS
  <1>4. e = [c EXCEPT !.txbrp = @ \cup {b}, !.state[b] = "pending",
                      !.tx_get = IF c.txbrp = {} THEN b ELSE @, !.tx_put = (b + 1) % TxSlots]
    BY <1>1, <1>2, <1>22, <1>23, <1>3 DEF Controller
  <1>5. e \in Controller
    BY <1>3 DEF Controller
  <1>6. /\ FdSameRx(c, e) /\ FdSameMode(c, e) /\ FdSameLines(c, e) /\ e.txbrp = brp /\ e.state = st
        /\ e.txbto = c.txbto /\ e.generation = c.generation /\ e.attached = c.attached
        /\ e.tx = c.tx /\ e.txbtie = c.txbtie
    BY <1>3 DEF Controller, FdSameRx, FdSameMode, FdSameLines
  <1>7. PICK f : f = UpdateTxFifoStatus(e)
    OBVIOUS
  <1>8. /\ f \in Controller /\ FdSameTx(e, f) /\ FdSameRx(e, f) /\ FdSameMode(e, f)
        /\ FdSameLines(e, f) /\ FdSettled(f)
    BY <1>5, <1>7, StatusUpdated
  <1>9. PICK d : d = [f EXCEPT !.txbto = bto]
    OBVIOUS
  <1>10. d = Reserve(c, b)
    <2>1. f.txbto = c.txbto
      BY <1>6, <1>8 DEF FdSameTx
    <2>2. Reserve(c, b) = [f EXCEPT !.txbto = @ \ {b}]
      BY <1>4, <1>7 DEF Reserve
    <2> QED
      BY <1>21, <1>9, <2>1, <2>2
  <1>11. d \in Controller
    BY <1>8, <1>9 DEF Controller
  <1>12. /\ FdSameRx(f, d) /\ FdSameMode(f, d) /\ FdSameLines(f, d) /\ FdSameIndices(f, d)
         /\ d.txbrp = f.txbrp /\ d.state = f.state /\ d.txbto = bto
         /\ d.generation = f.generation /\ d.attached = f.attached /\ d.tx = f.tx /\ d.txbtie = f.txbtie
    BY <1>8, <1>9 DEF Controller, FdSameRx, FdSameMode, FdSameLines, FdSameIndices
  <1>13. FdSettled(d)
    BY <1>8, <1>12 DEF FdSettled, FdSameIndices
  <1>14. FdSameLines(c, d)
    BY <1>6, <1>8, <1>12 DEF FdSameLines
  <1>15. FdLines(d)
    BY <1>14, SameLinesKept
  <1>16. FdTxDone(c, d, b, "pending", brp, bto)
    BY <1>2, <1>6, <1>8, <1>11, <1>12, <1>13, <1>15 DEF FdTxDone, FdSameTx, FdSameRx, FdSameMode
  <1> QED
    BY <1>1, <1>21, <1>10, <1>16

-----------------------------------------------------------------------------
(* Reception. *)

FdPair == [fd : Controller, wire : FdWire]

(* Nothing happened to the receive FIFO.                                   *)
RxKept(p, q) ==
    /\ FdSameRx(p.fd, q.fd) /\ q.wire.stored = p.wire.stored
    /\ q.wire.overwritten = p.wire.overwritten

(* A frame was stored, over the oldest one when there was no room.         *)
RxArrived(p, q) ==
    /\ \E e \in Element : /\ e.stamp = p.wire.stored + 1
                          /\ q.fd.rx = [p.fd.rx EXCEPT ![p.fd.rx_put] = e]
    /\ q.fd.rx_put = (p.fd.rx_put + 1) % RxSlots
    /\ q.wire.stored = p.wire.stored + 1
    /\ Full(p.fd) => /\ q.fd.rx_fill = p.fd.rx_fill /\ q.fd.rx_get = (p.fd.rx_get + 1) % RxSlots
                     /\ q.wire.overwritten
    /\ ~Full(p.fd) => /\ q.fd.rx_fill = p.fd.rx_fill + 1 /\ q.fd.rx_get = p.fd.rx_get
                      /\ q.wire.overwritten = p.wire.overwritten

FdReceived(p, q) ==
    /\ q \in FdPair /\ FdSameTx(p.fd, q.fd) /\ FdSameMode(p.fd, q.fd) /\ FdSameIndices(p.fd, q.fd)
    /\ FdLines(q.fd)
    /\ q.wire.sends = p.wire.sends /\ q.wire.request = p.wire.request
    /\ q.wire.sent = p.wire.sent /\ q.wire.next = p.wire.next
    /\ RxKept(p, q) \/ RxArrived(p, q)

LEMMA SetupTyped ==
    ASSUME NEW c \in Controller
    PROVE  /\ c.setup.standard \in Seq(FilterElement) /\ c.setup.long \in Seq(FilterElement)
           /\ c.setup.overwrite \in BOOLEAN
  <1>1. c.setup \in Setups \cup {ResetSetup}
    BY DEF Controller
  <1>2. CASE c.setup \in Setups
    BY <1>2, FrameAssumption
  <1>3. CASE c.setup = ResetSetup
    <2>1. c.setup.standard = <<>> /\ c.setup.long = <<>> /\ c.setup.overwrite = FALSE
      BY <1>3 DEF ResetSetup
    <2>2. <<>> \in Seq(FilterElement)
      BY EmptySeq
    <2> QED
      BY <2>1, <2>2
  <1> QED
    BY <1>1, <1>2, <1>3

LEMMA FilterTyped ==
    ASSUME NEW c \in Controller, NEW frame \in Frames
    PROVE  Filter(c, frame).index \in Nat /\ Filter(c, frame).non_matching \in BOOLEAN
  <1> DEFINE list == IF frame.extended THEN c.setup.long ELSE c.setup.standard
             rest == IF frame.extended THEN c.setup.anfe ELSE c.setup.anfs
             hits == {i \in DOMAIN list : list[i].action # 0 /\ FilterMatches(list[i], frame)}
             least(i) == \A j \in hits : i <= j
             first == CHOOSE i \in hits : least(i)
  <1>1. Filter(c, frame) =
          IF hits = {}
          THEN [accepted |-> rest = 0, non_matching |-> TRUE, index |-> 127]
          ELSE [accepted |-> ActionStoresInFifo0(list[first].action),
                non_matching |-> FALSE, index |-> first - 1]
    BY DEF Filter
  <1>2. PICK lst \in Seq(FilterElement) : lst = list
    BY SetupTyped
  <1>3. DOMAIN lst = 1..Len(lst) /\ Len(lst) \in Nat
    BY <1>2, LenProperties
  <1>4. hits \in SUBSET Nat /\ \A i \in hits : i >= 1
    BY <1>2, <1>3
  <1> HIDE DEF hits, list
  <1>5. CASE hits = {}
    BY <1>1, <1>5
  <1>6. CASE hits # {}
    <2>1. \E i \in hits : least(i)
      BY <1>4, <1>6, LeastNumber
    <2> HIDE DEF least
    <2>2. first \in hits
      BY <2>1
    <2> HIDE DEF first
    <2>3. first - 1 \in Nat
      BY <1>4, <2>2
    <2> QED
      BY <1>1, <1>6, <2>3
  <1> QED
    BY <1>5, <1>6

LEMMA FrameStored ==
    ASSUME NEW p \in FdPair, FdLines(p.fd), NEW frame \in Frames, Stores(p.fd, frame)
    PROVE  FdReceived(p, ReceiveFrame(p, frame))
  <1>1. PICK c \in Controller, w \in FdWire : c = p.fd /\ w = p.wire
    BY DEF FdPair
  <1>2. PICK stamp \in Nat : stamp = w.stored + 1
    BY DEF FdWire
  <1>3. PICK d : d = Filter(c, frame)
    OBVIOUS
  <1>4. d.index \in Nat /\ d.non_matching \in BOOLEAN
    BY <1>3, FilterTyped
  <1>5. PICK e \in Element : e = [frame |-> frame, index |-> d.index,
                                  non_matching |-> d.non_matching, stamp |-> stamp]
    BY <1>4 DEF Element
  <1>6. e.stamp = stamp
    BY <1>5
  <1>7. RxSlots \in Nat \ {0} /\ c.rx_get \in 0..(RxSlots - 1) /\ c.rx_put \in 0..(RxSlots - 1)
        /\ c.rx_fill \in 0..RxSlots
    BY SlotAssumption DEF Controller, RxSlot
  <1>8. PICK get \in RxSlot : get = IF Full(c) THEN (c.rx_get + 1) % RxSlots ELSE c.rx_get
    BY <1>7 DEF RxSlot
  <1>9. PICK left \in 0..(RxSlots - 1) : left = IF Full(c) THEN c.rx_fill - 1 ELSE c.rx_fill
    BY <1>7 DEF Full
  <1>10. PICK lost \in BOOLEAN : lost = (c.rx_lost \/ Full(c))
    OBVIOUS
  <1>11. PICK room : room = MakeRoom(c)
    OBVIOUS
  <1>12. room = [c EXCEPT !.rx_lost = lost, !.rx_get = get, !.rx_fill = left]
    <2>1. CASE Full(c)
      BY <1>8, <1>9, <1>10, <1>11, <2>1 DEF MakeRoom, Controller
    <2>2. CASE ~Full(c)
      <3>1. lost = c.rx_lost
        BY <1>10, <2>2 DEF Controller
      <3> QED
        BY <1>8, <1>9, <1>11, <2>2, <3>1 DEF MakeRoom, Controller
    <2> QED
      BY <2>1, <2>2
  <1>13. PICK put \in RxSlot : put = (c.rx_put + 1) % RxSlots
    BY <1>7 DEF RxSlot
  <1>14. PICK fill \in 0..RxSlots : fill = left + 1
    BY <1>7, <1>9
  <1>15. PICK rx \in [RxSlot -> Element] : rx = [c.rx EXCEPT ![c.rx_put] = e]
    BY DEF Controller
  <1>16. PICK st : st = [c EXCEPT !.rx_lost = lost, !.rx_get = get, !.rx_fill = fill,
                                  !.rx = rx, !.rx_put = put]
    OBVIOUS
  <1>17. st = [room EXCEPT !.rx[room.rx_put] = e, !.rx_put = (@ + 1) % RxSlots, !.rx_fill = @ + 1]
    <2>1. room.rx_put = c.rx_put /\ room.rx = c.rx /\ room.rx_fill = left
      BY <1>12 DEF Controller
    <2>2. [room EXCEPT !.rx[room.rx_put] = e, !.rx_put = (@ + 1) % RxSlots, !.rx_fill = @ + 1]
            = [room EXCEPT !.rx = rx, !.rx_put = put, !.rx_fill = fill]
      BY <1>12, <1>13, <1>14, <1>15, <2>1 DEF Controller
    <2> QED
      BY <1>12, <1>16, <2>2, ZenonT(60) DEF Controller
  <1>18. st \in Controller
    BY <1>16 DEF Controller
  <1>19. /\ FdSameTx(c, st) /\ FdSameMode(c, st) /\ FdSameIndices(c, st) /\ st.ir = c.ir
         /\ st.rx_lost = lost /\ st.rx = rx /\ st.rx_fill = fill /\ st.rx_get = get /\ st.rx_put = put
    BY <1>16 DEF Controller, FdSameTx, FdSameMode, FdSameIndices
  <1>20. PICK flags \in SUBSET Flag :
            flags = {"rx_new"} \cup (IF Full(st) THEN {"rx_full"} ELSE {})
                               \cup (IF Full(c) THEN {"rx_lost"} ELSE {})
    BY DEF Flag
  <1>21. PICK f : f = SetInterruptFlags(st, flags)
    OBVIOUS
  <1>22. FdRaised(st, f, flags)
    BY <1>18, <1>21, FlagsRaised
  <1>23. st.rx_lost <=> "rx_lost" \in st.ir \cup flags
    BY <1>1, <1>10, <1>19, <1>20 DEF FdLines
  <1>24. FdLines(f)
    BY <1>22, <1>23, RaisedKeepsLines
  <1>25. f = StoreFrame(c, frame, stamp)
    BY <1>3, <1>5, <1>11, <1>17, <1>20, <1>21 DEF StoreFrame
  <1>26. PICK over \in BOOLEAN : over = (w.overwritten \/ (Full(c) /\ c.setup.overwrite))
    OBVIOUS
  <1>27. PICK v : v = [w EXCEPT !.stored = stamp, !.overwritten = over]
    OBVIOUS
  <1>28. v = [w EXCEPT !.stored = @ + 1, !.overwritten = @ \/ (Full(c) /\ c.setup.overwrite)]
    BY <1>2, <1>26, <1>27 DEF FdWire
  <1>29. v \in FdWire
    BY <1>27 DEF FdWire
  <1>30. v.stored = stamp /\ v.overwritten = over /\ v.sends = w.sends /\ v.request = w.request
         /\ v.sent = w.sent /\ v.next = w.next
    BY <1>27 DEF FdWire
  <1>31. PICK q : q = [fd |-> f, wire |-> v]
    OBVIOUS
  <1>32. q = ReceiveFrame(p, frame)
    BY <1>1, <1>2, <1>25, <1>28, <1>31 DEF ReceiveFrame
  <1>33. q \in FdPair /\ q.fd = f /\ q.wire = v
    BY <1>22, <1>29, <1>31 DEF FdPair, FdRaised
  <1>34. Full(c) => over = TRUE
    BY <1>1, <1>26 DEF Stores
  <1>35. ~Full(c) => over = w.overwritten
    BY <1>26 DEF FdWire
  <1>36. Full(c) => fill = c.rx_fill
    BY <1>7, <1>9, <1>14
  <1>37. ~Full(c) => fill = c.rx_fill + 1
    BY <1>9, <1>14
  <1>38. f.rx = rx /\ f.rx_fill = fill /\ f.rx_get = get /\ f.rx_put = put
    BY <1>19, <1>22 DEF FdRaised, FdSameRx
  <1>39. RxArrived(p, q)
    BY <1>1, <1>2, <1>6, <1>8, <1>13, <1>15, <1>30, <1>33, <1>34, <1>35, <1>36, <1>37, <1>38
       DEF RxArrived
  <1>40. FdSameTx(c, f) /\ FdSameMode(c, f) /\ FdSameIndices(c, f)
    BY <1>19, <1>22 DEF FdRaised, FdSameTx, FdSameMode, FdSameIndices
  <1>41. FdReceived(p, q)
    BY <1>1, <1>24, <1>30, <1>33, <1>39, <1>40 DEF FdReceived
  <1> QED
    BY <1>32, <1>41

LEMMA FrameReceived ==
    ASSUME NEW p \in FdPair, FdLines(p.fd), NEW frame \in Frames
    PROVE  FdReceived(p, ReceiveFrame(p, frame))
  <1>1. CASE Stores(p.fd, frame)
    BY <1>1, FrameStored
  <1>2. CASE ~Stores(p.fd, frame) /\ AcceptsFrame(p.fd, frame)
    <2>1. PICK c \in Controller, w \in FdWire : c = p.fd /\ w = p.wire
      BY DEF FdPair
    <2>2. PICK st : st = [c EXCEPT !.rx_lost = TRUE]
      OBVIOUS
    <2>3. st \in Controller
      BY <2>2 DEF Controller
    <2>4. FdSameTx(c, st) /\ FdSameRx(c, st) /\ FdSameMode(c, st) /\ FdSameIndices(c, st)
          /\ st.rx_lost = TRUE
      BY <2>2 DEF Controller, FdSameTx, FdSameRx, FdSameMode, FdSameIndices
    <2>5. PICK f : f = SetInterruptFlags(st, {"rx_full", "rx_lost"})
      OBVIOUS
    <2>6. {"rx_full", "rx_lost"} \in SUBSET Flag
      BY DEF Flag
    <2>7. FdRaised(st, f, {"rx_full", "rx_lost"})
      BY <2>3, <2>5, <2>6, FlagsRaised
    <2>8. st.rx_lost <=> "rx_lost" \in st.ir \cup {"rx_full", "rx_lost"}
      BY <2>4
    <2>9. FdLines(f)
      BY <2>7, <2>8, RaisedKeepsLines
    <2>10. PICK q : q = ReceiveFrame(p, frame)
      OBVIOUS
    <2>11. q = [p EXCEPT !.fd = f]
      BY <1>2, <2>1, <2>2, <2>5, <2>10 DEF ReceiveFrame, DropFrame, FdPair
    <2>12. q \in FdPair /\ q.fd = f /\ q.wire = w
      BY <2>1, <2>7, <2>11 DEF FdPair, FdRaised
    <2>13. FdSameTx(c, f) /\ FdSameRx(c, f) /\ FdSameMode(c, f) /\ FdSameIndices(c, f)
      BY <2>4, <2>7 DEF FdRaised, FdSameTx, FdSameRx, FdSameMode, FdSameIndices
    <2>14. FdReceived(p, q)
      BY <2>1, <2>9, <2>12, <2>13 DEF FdReceived, RxKept
    <2> QED
      BY <2>10, <2>14
  <1>3. CASE ~Stores(p.fd, frame) /\ ~AcceptsFrame(p.fd, frame)
    <2>1. ReceiveFrame(p, frame) = p
      BY <1>3 DEF ReceiveFrame
    <2>2. FdReceived(p, p)
      BY DEF FdReceived, RxKept, FdSameTx, FdSameRx, FdSameMode, FdSameIndices
    <2> QED
      BY <2>1, <2>2
  <1> QED
    BY <1>1, <1>2, <1>3

-----------------------------------------------------------------------------
(* The receive FIFO as a ring of arrivals. *)

(* The FIFO holds the latest arrivals, oldest at the get index, and the    *)
(* put index follows the newest.                                           *)
FdRing(c, w) ==
    /\ c.rx_put = (c.rx_get + c.rx_fill) % RxSlots
    /\ c.rx_fill <= w.stored
    /\ \A k \in 1..c.rx_fill :
          c.rx[(c.rx_get + k - 1) % RxSlots].stamp = w.stored - c.rx_fill + k

LEMMA RingAt ==
    ASSUME NEW n \in Nat \ {0}, NEW i \in 0..(n - 1), NEW k \in 0..n
    PROVE  (i + k) % n = IF i + k < n THEN i + k ELSE i + k - n
  <1>1. CASE i + k < n
    <2>1. i + k \in 0..(n - 1)
      BY <1>1
    <2> QED
      BY <1>1, <2>1, ModSmall
  <1>2. CASE ~(i + k < n)
    <2>1. i + k \in n..(2 * n - 1)
      BY <1>2
    <2> QED
      BY <1>2, <2>1, ModWrap
  <1> QED
    BY <1>1, <1>2

LEMMA RxTyped ==
    ASSUME NEW c \in Controller
    PROVE  /\ RxSlots \in Nat \ {0} /\ c.rx_get \in 0..(RxSlots - 1) /\ c.rx_put \in 0..(RxSlots - 1)
           /\ c.rx_fill \in 0..RxSlots /\ c.rx \in [0..(RxSlots - 1) -> Element]
  BY SlotAssumption DEF Controller, RxSlot

LEMMA RingKept ==
    ASSUME NEW p \in FdPair, NEW q \in FdPair, FdRing(p.fd, p.wire), RxKept(p, q)
    PROVE  FdRing(q.fd, q.wire)
  BY DEF FdRing, RxKept, FdSameRx

LEMMA RingArrival ==
    ASSUME NEW p \in FdPair, NEW q \in FdPair, FdRing(p.fd, p.wire), RxArrived(p, q)
    PROVE  FdRing(q.fd, q.wire)
  <1>1. PICK c \in Controller, w \in FdWire : c = p.fd /\ w = p.wire
    BY DEF FdPair
  <1>2. PICK d \in Controller, v \in FdWire : d = q.fd /\ v = q.wire
    BY DEF FdPair
  <1>3. PICK n \in Nat \ {0} : n = RxSlots
    BY SlotAssumption
  <1>4. PICK get \in 0..(n - 1), fill \in 0..n, put \in 0..(n - 1) :
            get = c.rx_get /\ fill = c.rx_fill /\ put = c.rx_put
    BY <1>3, RxTyped
  <1>5. PICK stored \in Nat : stored = w.stored
    BY DEF FdWire
  <1>6. PICK rx \in [0..(n - 1) -> Element] : rx = c.rx
    BY <1>3, RxTyped
  <1>7. PICK e \in Element : e.stamp = stored + 1 /\ d.rx = [rx EXCEPT ![put] = e]
    BY <1>1, <1>2, <1>4, <1>5, <1>6 DEF RxArrived
  <1>8. v.stored = stored + 1 /\ d.rx_put = (put + 1) % n
    BY <1>1, <1>2, <1>3, <1>4, <1>5 DEF RxArrived
  <1>9. put = (get + fill) % n /\ fill <= stored
        /\ \A k \in 1..fill : rx[(get + k - 1) % n].stamp = stored - fill + k
    BY <1>1, <1>3, <1>4, <1>5, <1>6 DEF FdRing
  <1>10. \A i \in 0..(n - 1), k \in 0..n : (i + k) % n = IF i + k < n THEN i + k ELSE i + k - n
    BY RingAt
  <1>11. put = IF get + fill < n THEN get + fill ELSE get + fill - n
    BY <1>9, <1>10
  <1>12. \A k \in 1..fill :
            rx[IF get + (k - 1) < n THEN get + (k - 1) ELSE get + (k - 1) - n].stamp = stored - fill + k
    <2>1. TAKE k \in 1..fill
    <2>2. k - 1 \in 0..n /\ get + k - 1 = get + (k - 1)
      OBVIOUS
    <2>3. (get + k - 1) % n = IF get + (k - 1) < n THEN get + (k - 1) ELSE get + (k - 1) - n
      BY <1>10, <2>2
    <2> QED
      BY <1>9, <2>3
  <1>13. CASE Full(c)
    <2>1. fill = n /\ d.rx_fill = n /\ d.rx_get = (get + 1) % n
      BY <1>1, <1>2, <1>3, <1>4, <1>13 DEF RxArrived, Full
    <2>2. PICK got \in 0..(n - 1) : got = d.rx_get
      BY <1>3, RxTyped
    <2>3. got = IF get + 1 < n THEN get + 1 ELSE get + 1 - n
      BY <1>10, <2>1, <2>2
    <2>4. put = get
      BY <1>11, <2>1
    <2>5. d.rx_put = got /\ (got + n) % n = got
      <3>1. (got + n) % n = IF got + n < n THEN got + n ELSE got + n - n
        BY <1>10
      <3> QED
        BY <1>8, <2>1, <2>2, <2>4, <3>1
    <2>6. ASSUME NEW k \in 1..n
          PROVE  d.rx[(got + k - 1) % n].stamp = stored + 1 - n + k
      <3>1. k - 1 \in 0..n /\ got + k - 1 = got + (k - 1)
        OBVIOUS
      <3>11. (got + (k - 1)) % n = IF got + (k - 1) < n THEN got + (k - 1) ELSE got + (k - 1) - n
        BY <1>10, <3>1
      <3>2. PICK s \in 0..(n - 1) : s = IF got + (k - 1) < n THEN got + (k - 1) ELSE got + (k - 1) - n
        <4>1. PICK j \in 0..(n - 1) : j = k - 1
          BY <2>1
        <4>2. CASE got + j < n
          <5>1. got + j \in 0..(n - 1)
            BY <4>2
          <5> QED
            BY <4>1, <4>2, <5>1
        <4>3. CASE ~(got + j < n)
          <5>1. got + j - n \in 0..(n - 1)
            BY <4>3
          <5> QED
            BY <4>1, <4>3, <5>1
        <4> QED
          BY <4>2, <4>3
      <3>12. s = (got + k - 1) % n
        BY <3>1, <3>11, <3>2
      <3>3. s = IF got + (k - 1) < n THEN got + (k - 1) ELSE got + (k - 1) - n
        BY <3>2
      <3>4. CASE k = n
        <4>1. s = put
          BY <2>3, <2>4, <3>3, <3>4
        <4>2. d.rx[s] = e
          BY <1>7, <4>1
        <4> QED
          BY <1>7, <3>12, <3>4, <4>2
      <3>5. CASE k # n
        <4>1. k + 1 \in 1..fill /\ s # put
          BY <2>1, <2>3, <2>4, <3>3, <3>5
        <4>2. s = IF get + ((k + 1) - 1) < n THEN get + ((k + 1) - 1) ELSE get + ((k + 1) - 1) - n
          BY <2>3, <3>3, <3>5
        <4>3. rx[s].stamp = stored - fill + (k + 1)
          BY <1>12, <4>1, <4>2
        <4>4. d.rx[s] = rx[s]
          BY <1>7, <4>1
        <4> QED
          BY <2>1, <3>12, <4>3, <4>4
      <3> QED
        BY <3>4, <3>5
    <2>7. n <= stored + 1
      BY <1>9, <2>1
    <2>8. FdRing(d, v)
      BY <1>3, <1>8, <2>1, <2>2, <2>5, <2>6, <2>7 DEF FdRing
    <2> QED
      BY <1>2, <2>8
  <1>14. CASE ~Full(c)
    <2>1. fill < n /\ d.rx_fill = fill + 1 /\ d.rx_get = get
      <3>1. fill # n
        BY <1>3, <1>4, <1>14 DEF Full
      <3> QED
        BY <1>1, <1>2, <1>3, <1>4, <1>14, <3>1 DEF RxArrived
    <2>2. d.rx_put = (get + (fill + 1)) % n
      <3>1. d.rx_put = IF put + 1 < n THEN put + 1 ELSE put + 1 - n
        BY <1>8, <1>10
      <3>2. fill + 1 \in 0..n
        BY <2>1
      <3>3. (get + (fill + 1)) % n = IF get + (fill + 1) < n THEN get + (fill + 1) ELSE get + (fill + 1) - n
        BY <1>10, <3>2
      <3> QED
        BY <1>11, <2>1, <3>1, <3>3
    <2>3. ASSUME NEW k \in 1..(fill + 1)
          PROVE  d.rx[(get + k - 1) % n].stamp = stored + 1 - (fill + 1) + k
      <3>1. k - 1 \in 0..n /\ get + k - 1 = get + (k - 1)
        BY <2>1
      <3>11. (get + (k - 1)) % n = IF get + (k - 1) < n THEN get + (k - 1) ELSE get + (k - 1) - n
        BY <1>10, <3>1
      <3>2. PICK s \in 0..(n - 1) : s = IF get + (k - 1) < n THEN get + (k - 1) ELSE get + (k - 1) - n
        <4>1. PICK j \in 0..(n - 1) : j = k - 1
          BY <2>1
        <4>2. CASE get + j < n
          <5>1. get + j \in 0..(n - 1)
            BY <4>2
          <5> QED
            BY <4>1, <4>2, <5>1
        <4>3. CASE ~(get + j < n)
          <5>1. get + j - n \in 0..(n - 1)
            BY <4>3
          <5> QED
            BY <4>1, <4>3, <5>1
        <4> QED
          BY <4>2, <4>3
      <3>12. s = (get + k - 1) % n
        BY <3>1, <3>11, <3>2
      <3>3. s = IF get + (k - 1) < n THEN get + (k - 1) ELSE get + (k - 1) - n
        BY <3>2
      <3>4. CASE k = fill + 1
        <4>1. s = put
          BY <1>11, <3>3, <3>4
        <4>2. d.rx[s] = e
          BY <1>7, <4>1
        <4> QED
          BY <1>7, <3>12, <3>4, <4>2
      <3>5. CASE k # fill + 1
        <4>1. k \in 1..fill /\ s # put
          BY <1>11, <2>1, <3>3, <3>5
        <4>2. rx[s].stamp = stored - fill + k
          BY <1>12, <3>3, <4>1
        <4>3. d.rx[s] = rx[s]
          BY <1>7, <4>1
        <4> QED
          BY <3>12, <4>2, <4>3
      <3> QED
        BY <3>4, <3>5
    <2>4. fill + 1 <= stored + 1
      BY <1>9
    <2>5. FdRing(d, v)
      BY <1>3, <1>8, <2>1, <2>2, <2>3, <2>4 DEF FdRing
    <2> QED
      BY <1>2, <2>5
  <1> QED
    BY <1>13, <1>14

(* Acknowledging a slot frees it and the older ones.                       *)
FdAcked(c, d, slot, freed) ==
    /\ freed \in 1..c.rx_fill /\ slot = (c.rx_get + (freed - 1)) % RxSlots
    /\ d.rx_fill = c.rx_fill - freed /\ d.rx_get = (c.rx_get + freed) % RxSlots
    /\ d.rx = c.rx /\ d.rx_put = c.rx_put

LEMMA Acknowledged ==
    ASSUME NEW c \in Controller, FdLines(c), NEW slot
    PROVE  LET d == AcknowledgeRxFifo0(c, slot)
           IN  \/ d = c
               \/ /\ d \in Controller /\ FdSameTx(c, d) /\ FdSameMode(c, d) /\ FdSameIndices(c, d)
                  /\ FdLines(d) /\ \E freed \in Nat : FdAcked(c, d, slot, freed)
  <1> DEFINE distance == ((slot + RxSlots - c.rx_get) % RxSlots) + 1
  <1>1. PICK d : d = AcknowledgeRxFifo0(c, slot)
    OBVIOUS
  <1>2. CASE c.rx_fill = 0 \/ slot \notin RxSlot \/ distance > c.rx_fill
    BY <1>1, <1>2 DEF AcknowledgeRxFifo0
  <1>3. CASE ~(c.rx_fill = 0 \/ slot \notin RxSlot \/ distance > c.rx_fill)
    <2>1. PICK n \in Nat \ {0} : n = RxSlots
      BY SlotAssumption
    <2>2. PICK get \in 0..(n - 1), fill \in 0..n : get = c.rx_get /\ fill = c.rx_fill
      BY <2>1, RxTyped
    <2>3. PICK s \in 0..(n - 1) : s = slot
      BY <1>3, <2>1 DEF RxSlot
    <2>4. PICK far \in 0..(n - 1) : far = (s + n - get) % n
      BY SMT
    <2>5. far = IF s >= get THEN s - get ELSE s + n - get
      <3>1. CASE s >= get
        <4>1. PICK a \in n..(2 * n - 1) : a = s + n - get
          BY <3>1
        <4>2. a % n = a - n
          BY ModWrap
        <4>3. far = a % n
          BY <2>4, <4>1
        <4> QED
          BY <3>1, <4>1, <4>2, <4>3
      <3>2. CASE ~(s >= get)
        <4>1. PICK a \in 0..(n - 1) : a = s + n - get
          BY <3>2
        <4>2. a % n = a
          BY ModSmall
        <4>3. far = a % n
          BY <2>4, <4>1
        <4> QED
          BY <3>2, <4>1, <4>2, <4>3
      <3> QED
        BY <3>1, <3>2
    <2>6. distance = far + 1
      BY <2>1, <2>2, <2>3, <2>4
    <2>7. PICK freed \in 1..n : freed = far + 1
      OBVIOUS
    <2>8. freed <= fill
      BY <1>3, <2>2, <2>6, <2>7
    <2>9. s = (get + (freed - 1)) % n
      <3>1. freed - 1 \in 0..n
        OBVIOUS
      <3>2. (get + (freed - 1)) % n = IF get + (freed - 1) < n THEN get + (freed - 1) ELSE get + (freed - 1) - n
        BY <3>1, RingAt
      <3> QED
        BY <2>5, <2>7, <3>2
    <2>10. (s + 1) % n = (get + freed) % n
      <3>1. (s + 1) % n = IF s + 1 < n THEN s + 1 ELSE s + 1 - n
        <4>1. 1 \in 0..n
          OBVIOUS
        <4> QED
          BY <4>1, RingAt
      <3>2. (get + freed) % n = IF get + freed < n THEN get + freed ELSE get + freed - n
        <4>1. freed \in 0..n
          OBVIOUS
        <4> QED
          BY <4>1, RingAt
      <3> QED
        BY <2>5, <2>7, <3>1, <3>2
    <2>11. PICK after \in 0..(n - 1) : after = (s + 1) % n
      BY SMT
    <2>12. PICK left \in 0..n : left = fill - freed
      BY <2>8
    <2>13. d = [c EXCEPT !.rx_fill = left, !.rx_get = after]
      <3>1. d = [c EXCEPT !.rx_fill = @ - distance, !.rx_get = (slot + 1) % RxSlots]
        BY <1>1, <1>3 DEF AcknowledgeRxFifo0
      <3> HIDE DEF distance
      <3> QED
        BY <2>1, <2>2, <2>3, <2>6, <2>7, <2>11, <2>12, <3>1 DEF Controller
    <2>14. d \in Controller
      BY <2>1, <2>13 DEF Controller, RxSlot
    <2>15. FdSameTx(c, d) /\ FdSameMode(c, d) /\ FdSameIndices(c, d) /\ FdSameLines(c, d)
           /\ d.rx = c.rx /\ d.rx_put = c.rx_put /\ d.rx_fill = left /\ d.rx_get = after
      BY <2>13 DEF Controller, FdSameTx, FdSameMode, FdSameIndices, FdSameLines
    <2>16. FdLines(d)
      BY <2>15, SameLinesKept
    <2>17. FdAcked(c, d, slot, freed)
      BY <2>1, <2>2, <2>3, <2>8, <2>9, <2>10, <2>11, <2>12, <2>15 DEF FdAcked
    <2> QED
      BY <1>1, <2>14, <2>15, <2>16, <2>17
  <1> QED
    BY <1>2, <1>3

LEMMA RingAcked ==
    ASSUME NEW c \in Controller, NEW d \in Controller, NEW w \in FdWire, NEW slot, NEW freed \in Nat,
           FdRing(c, w), FdAcked(c, d, slot, freed)
    PROVE  FdRing(d, w)
  <1>1. PICK n \in Nat \ {0} : n = RxSlots
    BY SlotAssumption
  <1>2. PICK get \in 0..(n - 1), fill \in 0..n, put \in 0..(n - 1) :
            get = c.rx_get /\ fill = c.rx_fill /\ put = c.rx_put
    BY <1>1, RxTyped
  <1>3. PICK stored \in Nat : stored = w.stored
    BY DEF FdWire
  <1>4. PICK got \in 0..(n - 1), left \in 0..n : got = d.rx_get /\ left = d.rx_fill
    BY <1>1, RxTyped
  <1>5. freed \in 1..fill /\ left = fill - freed /\ got = (get + freed) % n /\ d.rx = c.rx /\ d.rx_put = put
    BY <1>1, <1>2, <1>4 DEF FdAcked
  <1>6. \A i \in 0..(n - 1), k \in 0..n : (i + k) % n = IF i + k < n THEN i + k ELSE i + k - n
    BY RingAt
  <1>7. got = IF get + freed < n THEN get + freed ELSE get + freed - n
    <2>1. freed \in 0..n
      BY <1>5
    <2> QED
      BY <1>5, <1>6, <2>1
  <1>8. put = (get + fill) % n /\ fill <= stored
    BY <1>1, <1>2, <1>3 DEF FdRing
  <1>9. put = (got + left) % n
    <2>1. (got + left) % n = IF got + left < n THEN got + left ELSE got + left - n
      BY <1>6
    <2>2. (get + fill) % n = IF get + fill < n THEN get + fill ELSE get + fill - n
      BY <1>6
    <2> QED
      BY <1>5, <1>7, <1>8, <2>1, <2>2
  <1>10. ASSUME NEW k \in 1..left
         PROVE  d.rx[(got + k - 1) % n].stamp = stored - left + k
    <2>1. k - 1 \in 0..n /\ got + k - 1 = got + (k - 1)
      OBVIOUS
    <2>2. (got + k - 1) % n = IF got + (k - 1) < n THEN got + (k - 1) ELSE got + (k - 1) - n
      BY <1>6, <2>1
    <2>3. PICK j \in 1..fill : j = freed + k
      BY <1>5
    <2>4. j - 1 \in 0..n /\ get + j - 1 = get + (j - 1)
      OBVIOUS
    <2>5. (get + j - 1) % n = IF get + (j - 1) < n THEN get + (j - 1) ELSE get + (j - 1) - n
      BY <1>6, <2>4
    <2>6. (got + k - 1) % n = (get + j - 1) % n
      BY <1>5, <1>7, <2>2, <2>3, <2>5
    <2>7. c.rx[(get + j - 1) % n].stamp = stored - fill + j
      BY <1>1, <1>2, <1>3 DEF FdRing
    <2>8. stored - fill + j = stored - left + k
      BY <1>5, <2>3
    <2> QED
      BY <1>5, <2>6, <2>7, <2>8
  <1> QED
    BY <1>1, <1>3, <1>4, <1>5, <1>8, <1>9, <1>10 DEF FdRing

-----------------------------------------------------------------------------
(* Requests and the sends that carry them. *)

(* A send the bus still owes belongs to the buffer's latest request; a     *)
(* cancelled one is of an earlier generation, or of a buffer that was      *)
(* given back and not requested since.                                     *)
FdSendOf(c, w, s) ==
    IF s.doomed
      THEN \/ s.generation < c.generation[s.buffer]
           \/ s.generation = c.generation[s.buffer] /\ c.state[s.buffer] = "idle"
      ELSE /\ s.generation = c.generation[s.buffer] /\ s.request = w.request[s.buffer]
           /\ c.state[s.buffer] = "pending"

FdBufferOwned(c, w, b) ==
    /\ b \in c.txbrp <=> c.state[b] = "pending"
    /\ b \in c.txbto <=> c.state[b] = "complete"
    /\ c.state[b] = "complete" => w.request[b] \in w.sent
    /\ c.state[b] = "pending" =>
          \E i \in DOMAIN w.sends : w.sends[i].buffer = b /\ ~w.sends[i].doomed
    /\ \A i \in DOMAIN w.sends : w.sends[i].buffer = b => FdSendOf(c, w, w.sends[i])
    /\ \A i, j \in DOMAIN w.sends :
          w.sends[i].buffer = b /\ w.sends[j].buffer = b /\ ~w.sends[i].doomed /\ ~w.sends[j].doomed
             => i = j

FdOwned(c, w) ==
    /\ \A b \in Buffer : FdBufferOwned(c, w, b)
    /\ ~c.attached => \A i \in DOMAIN w.sends : w.sends[i].doomed

FdSound(p) == p \in FdPair /\ FdLines(p.fd) /\ FdSettled(p.fd) /\ FdRing(p.fd, p.wire)
FdInv(p) == FdSound(p) /\ FdOwned(p.fd, p.wire)

(* Sends that leave what buffer x owns alone.                              *)
SendsElsewhere(s, t, x) ==
    \/ t = s
    \/ \E e \in Send : e.buffer # x /\ t = Append(s, e)
    \/ s # <<>> /\ (Head(s).buffer # x \/ Head(s).doomed) /\ t = Tail(s)

LEMMA OtherBuffer ==
    ASSUME NEW c \in Controller, NEW w \in FdWire, NEW d \in Controller, NEW v \in FdWire,
           NEW x \in Buffer, FdBufferOwned(c, w, x),
           x \in d.txbrp <=> x \in c.txbrp, x \in d.txbto <=> x \in c.txbto,
           d.state[x] = c.state[x], d.generation[x] = c.generation[x],
           v.request[x] = w.request[x], w.sent \subseteq v.sent,
           SendsElsewhere(w.sends, v.sends, x)
    PROVE  FdBufferOwned(d, v, x)
  <1>1. PICK s \in Seq(Send), t \in Seq(Send) : s = w.sends /\ t = v.sends
    BY DEF FdWire
  <1>2. DOMAIN s = 1..Len(s) /\ DOMAIN t = 1..Len(t) /\ Len(s) \in Nat /\ Len(t) \in Nat
    BY LenProperties
  <1>3. /\ x \in d.txbrp <=> d.state[x] = "pending"
        /\ x \in d.txbto <=> d.state[x] = "complete"
        /\ d.state[x] = "complete" => v.request[x] \in v.sent
    BY DEF FdBufferOwned
  <1>4. \A e \in Send : e.buffer = x /\ FdSendOf(c, w, e) => FdSendOf(d, v, e)
    BY DEF FdSendOf
  <1>5. /\ c.state[x] = "pending" => \E i \in DOMAIN s : s[i].buffer = x /\ ~s[i].doomed
        /\ \A i \in DOMAIN s : s[i].buffer = x => FdSendOf(c, w, s[i])
        /\ \A i, j \in DOMAIN s :
              s[i].buffer = x /\ s[j].buffer = x /\ ~s[i].doomed /\ ~s[j].doomed => i = j
    BY <1>1 DEF FdBufferOwned
  <1>6. \A i \in DOMAIN s : s[i] \in Send
    BY <1>2, ElementOfSeq
  <1>7. /\ d.state[x] = "pending" => \E i \in DOMAIN t : t[i].buffer = x /\ ~t[i].doomed
        /\ \A i \in DOMAIN t : t[i].buffer = x => FdSendOf(d, v, t[i])
        /\ \A i, j \in DOMAIN t :
              t[i].buffer = x /\ t[j].buffer = x /\ ~t[i].doomed /\ ~t[j].doomed => i = j
    <2>1. CASE t = s
      BY <1>4, <1>5, <1>6, <2>1
    <2>2. CASE \E e \in Send : e.buffer # x /\ t = Append(s, e)
      <3>1. PICK e \in Send : e.buffer # x /\ t = Append(s, e)
        BY <2>2
      <3>2. Len(t) = Len(s) + 1 /\ t[Len(s) + 1] = e /\ \A i \in 1..Len(s) : t[i] = s[i]
        BY <3>1, AppendProperties
      <3>3. \A i \in DOMAIN t : t[i].buffer = x => i \in DOMAIN s /\ t[i] = s[i]
        BY <1>2, <3>1, <3>2
      <3>4. \A i \in DOMAIN s : i \in DOMAIN t /\ t[i] = s[i]
        BY <1>2, <3>2
      <3> QED
        BY <1>4, <1>5, <1>6, <3>3, <3>4
    <2>3. CASE s # <<>> /\ (Head(s).buffer # x \/ Head(s).doomed) /\ t = Tail(s)
      <3>1. Head(s) = s[1] /\ Len(s) >= 1
        BY <1>2, <2>3, EmptySeq, HeadTailProperties
      <3>2. Len(t) = Len(s) - 1 /\ \A i \in 1..Len(t) : t[i] = s[i + 1]
        BY <2>3, HeadTailProperties
      <3>3. \A i \in DOMAIN t : i + 1 \in DOMAIN s /\ t[i] = s[i + 1]
        BY <1>2, <3>2
      <3>4. \A i \in DOMAIN s : s[i].buffer = x /\ ~s[i].doomed => i - 1 \in DOMAIN t /\ t[i - 1] = s[i]
        <4>1. TAKE i \in DOMAIN s
        <4>2. HAVE s[i].buffer = x /\ ~s[i].doomed
        <4>3. i # 1
          BY <2>3, <3>1, <4>2
        <4>4. i - 1 \in 1..Len(t) /\ (i - 1) + 1 = i
          BY <1>2, <3>2, <4>3
        <4> QED
          BY <1>2, <3>2, <4>4
      <3>5. d.state[x] = "pending" => \E i \in DOMAIN t : t[i].buffer = x /\ ~t[i].doomed
        BY <1>5, <3>4
      <3>6. \A i \in DOMAIN t : t[i].buffer = x => FdSendOf(d, v, t[i])
        BY <1>4, <1>5, <1>6, <3>3
      <3>7. ASSUME NEW i \in DOMAIN t, NEW j \in DOMAIN t,
                   t[i].buffer = x /\ t[j].buffer = x /\ ~t[i].doomed /\ ~t[j].doomed
            PROVE  i = j
        <4>1. i + 1 = j + 1
          BY <1>5, <3>3, <3>7
        <4> QED
          BY <1>2, <4>1
      <3> QED
        BY <3>5, <3>6, <3>7
    <2> QED
      BY <1>1, <2>1, <2>2, <2>3 DEF SendsElsewhere
  <1> QED
    BY <1>1, <1>3, <1>7 DEF FdBufferOwned

(* How a request for buffer b may end: given back at once, transmitted at  *)
(* once, or on its way.                                                    *)
FdOutcome(p, q, b) ==
    /\ q.fd.attached = p.fd.attached
    /\ \A x \in Buffer \ {b} :
          /\ x \in q.fd.txbrp <=> x \in p.fd.txbrp
          /\ x \in q.fd.txbto <=> x \in p.fd.txbto
          /\ q.fd.state[x] = p.fd.state[x] /\ q.fd.generation[x] = p.fd.generation[x]
          /\ q.wire.request[x] = p.wire.request[x]
    /\ p.wire.sent \subseteq q.wire.sent
    /\ \/ /\ b \notin q.fd.txbrp /\ b \notin q.fd.txbto /\ q.fd.state[b] = "idle"
          /\ q.fd.generation[b] >= p.fd.generation[b] /\ q.wire.sends = p.wire.sends
       \/ /\ b \notin q.fd.txbrp /\ b \in q.fd.txbto /\ q.fd.state[b] = "complete"
          /\ q.fd.generation[b] > p.fd.generation[b] /\ q.wire.sends = p.wire.sends
          /\ q.wire.request[b] \in q.wire.sent
       \/ /\ b \in q.fd.txbrp /\ b \notin q.fd.txbto /\ q.fd.state[b] = "pending"
          /\ q.fd.generation[b] > p.fd.generation[b] /\ p.fd.attached
          /\ \E e \in Send : /\ q.wire.sends = Append(p.wire.sends, e) /\ e.buffer = b /\ ~e.doomed
                             /\ e.generation = q.fd.generation[b] /\ e.request = q.wire.request[b]

LEMMA OutcomeOwned ==
    ASSUME NEW p \in FdPair, NEW q \in FdPair, NEW b \in Buffer,
           FdOwned(p.fd, p.wire), p.fd.state[b] # "pending", FdOutcome(p, q, b)
    PROVE  FdOwned(q.fd, q.wire)
  <1>1. PICK c \in Controller, w \in FdWire : c = p.fd /\ w = p.wire
    BY DEF FdPair
  <1>2. PICK d \in Controller, v \in FdWire : d = q.fd /\ v = q.wire
    BY DEF FdPair
  <1>3. PICK s \in Seq(Send), t \in Seq(Send) : s = w.sends /\ t = v.sends
    BY DEF FdWire
  <1>4. DOMAIN s = 1..Len(s) /\ DOMAIN t = 1..Len(t) /\ Len(s) \in Nat /\ Len(t) \in Nat
    BY LenProperties
  <1>5. t = s \/ \E e \in Send : e.buffer = b /\ ~e.doomed /\ t = Append(s, e) /\ c.attached
                                 /\ e.generation = d.generation[b] /\ e.request = v.request[b]
    BY <1>1, <1>2, <1>3 DEF FdOutcome
  <1>6. ASSUME NEW x \in Buffer \ {b}
        PROVE  FdBufferOwned(d, v, x)
    <2>1. FdBufferOwned(c, w, x)
      BY <1>1 DEF FdOwned
    <2>2. /\ x \in d.txbrp <=> x \in c.txbrp
          /\ x \in d.txbto <=> x \in c.txbto
          /\ d.state[x] = c.state[x] /\ d.generation[x] = c.generation[x]
          /\ v.request[x] = w.request[x] /\ w.sent \subseteq v.sent
      BY <1>1, <1>2 DEF FdOutcome
    <2>3. SendsElsewhere(w.sends, v.sends, x)
      BY <1>3, <1>5 DEF SendsElsewhere
    <2> QED
      BY <2>1, <2>2, <2>3, OtherBuffer
  <1>7. \A i \in DOMAIN s : s[i] \in Send
    BY <1>4, ElementOfSeq
  <1>8. \A i \in DOMAIN s : s[i].buffer = b =>
            /\ s[i].doomed /\ s[i].generation <= c.generation[b]
            /\ s[i].generation = c.generation[b] => c.state[b] = "idle"
    <2>1. FdBufferOwned(c, w, b)
      BY <1>1 DEF FdOwned
    <2>2. TAKE i \in DOMAIN s
    <2>3. HAVE s[i].buffer = b
    <2>4. FdSendOf(c, w, s[i])
      BY <1>3, <2>1, <2>3 DEF FdBufferOwned
    <2>5. s[i].generation \in Nat /\ c.generation[b] \in Nat
      BY <1>7 DEF Send, Controller
    <2> QED
      BY <1>1, <2>3, <2>4, <2>5 DEF FdSendOf
  <1>9. c.generation[b] \in Nat /\ d.generation[b] \in Nat /\ \A i \in DOMAIN s : s[i].generation \in Nat
    BY <1>7 DEF Send, Controller
  <1>10. FdBufferOwned(d, v, b)
    <2>1. CASE /\ b \notin d.txbrp /\ b \notin d.txbto /\ d.state[b] = "idle"
               /\ d.generation[b] >= c.generation[b] /\ t = s
      <3>1. \A i \in DOMAIN t : t[i].buffer = b => FdSendOf(d, v, t[i])
        BY <1>8, <1>9, <2>1 DEF FdSendOf
      <3>2. \A i \in DOMAIN t : t[i].buffer = b => t[i].doomed
        BY <1>8, <2>1
      <3> QED
        BY <1>3, <2>1, <3>1, <3>2 DEF FdBufferOwned
    <2>2. CASE /\ b \notin d.txbrp /\ b \in d.txbto /\ d.state[b] = "complete"
               /\ d.generation[b] > c.generation[b] /\ t = s /\ v.request[b] \in v.sent
      <3>1. \A i \in DOMAIN t : t[i].buffer = b => FdSendOf(d, v, t[i])
        BY <1>8, <1>9, <2>2 DEF FdSendOf
      <3>2. \A i \in DOMAIN t : t[i].buffer = b => t[i].doomed
        BY <1>8, <2>2
      <3> QED
        BY <1>3, <2>2, <3>1, <3>2 DEF FdBufferOwned
    <2>3. CASE /\ b \in d.txbrp /\ b \notin d.txbto /\ d.state[b] = "pending"
               /\ d.generation[b] > c.generation[b]
               /\ \E e \in Send : /\ t = Append(s, e) /\ e.buffer = b /\ ~e.doomed
                                  /\ e.generation = d.generation[b] /\ e.request = v.request[b]
      <3>1. PICK e \in Send : /\ t = Append(s, e) /\ e.buffer = b /\ ~e.doomed
                              /\ e.generation = d.generation[b] /\ e.request = v.request[b]
        BY <2>3
      <3>2. Len(t) = Len(s) + 1 /\ t[Len(s) + 1] = e /\ \A i \in 1..Len(s) : t[i] = s[i]
        BY <3>1, AppendProperties
      <3>3. \A i \in DOMAIN t : i = Len(s) + 1 \/ (i \in DOMAIN s /\ t[i] = s[i])
        BY <1>4, <3>2
      <3>4. FdSendOf(d, v, e)
        BY <2>3, <3>1 DEF FdSendOf
      <3>5. \A i \in DOMAIN s : s[i].buffer = b => FdSendOf(d, v, s[i])
        BY <1>8, <1>9, <2>3 DEF FdSendOf
      <3>6. \A i \in DOMAIN t : t[i].buffer = b => FdSendOf(d, v, t[i])
        BY <3>2, <3>3, <3>4, <3>5
      <3>7. Len(s) + 1 \in DOMAIN t
        BY <1>4, <3>2
      <3>8. \A i \in DOMAIN t : t[i].buffer = b /\ ~t[i].doomed => i = Len(s) + 1
        BY <1>8, <3>3
      <3> QED
        BY <1>3, <2>3, <3>1, <3>2, <3>6, <3>7, <3>8 DEF FdBufferOwned
    <2> QED
      BY <1>1, <1>2, <1>3, <2>1, <2>2, <2>3 DEF FdOutcome
  <1>11. ~d.attached => \A i \in DOMAIN t : t[i].doomed
    <2>1. SUFFICES ASSUME ~d.attached PROVE \A i \in DOMAIN t : t[i].doomed
      OBVIOUS
    <2>2. ~c.attached
      BY <1>1, <1>2, <2>1 DEF FdOutcome
    <2>3. t = s
      BY <1>5, <2>2
    <2> QED
      BY <1>1, <1>3, <2>2, <2>3 DEF FdOwned
  <1>12. \A x \in Buffer : FdBufferOwned(d, v, x)
    BY <1>6, <1>10
  <1> QED
    BY <1>2, <1>3, <1>11, <1>12 DEF FdOwned

-----------------------------------------------------------------------------
(* One turn of the TXBAR loop. *)

(* Buffer b is reserved under generation g and its frame not yet given to  *)
(* the bus.                                                                *)
FdMid(p, r, b, g) ==
    /\ FdSound(r) /\ r.fd.attached = p.fd.attached /\ r.fd.tx = p.fd.tx
    /\ r.fd.txbrp = p.fd.txbrp \cup {b} /\ r.fd.txbto = p.fd.txbto \ {b}
    /\ r.fd.state = [p.fd.state EXCEPT ![b] = "pending"]
    /\ r.fd.generation = [p.fd.generation EXCEPT ![b] = g]
    /\ r.wire.request = [p.wire.request EXCEPT ![b] = p.wire.next]
    /\ r.wire.sends = p.wire.sends /\ r.wire.sent = p.wire.sent

LEMMA SameRxRing ==
    ASSUME NEW c, NEW d, NEW w, NEW v, FdRing(c, w), FdSameRx(c, d), v.stored = w.stored
    PROVE  FdRing(d, v)
  BY DEF FdRing, FdSameRx

LEMMA MidReserved ==
    ASSUME NEW p \in FdPair, FdSound(p), NEW b \in Buffer
    PROVE  FdMid(p, [fd |-> Reserve(p.fd, b),
                     wire |-> [p.wire EXCEPT !.request[b] = p.wire.next, !.next = @ + 1]],
                 b, p.fd.generation[b])
  <1>1. PICK c \in Controller, w \in FdWire : c = p.fd /\ w = p.wire
    BY DEF FdPair
  <1>2. PICK d : d = Reserve(c, b)
    OBVIOUS
  <1>3. FdTxDone(c, d, b, "pending", c.txbrp \cup {b}, c.txbto \ {b})
    BY <1>1, <1>2, Reserved DEF FdSound
  <1>15. w.next \in Nat /\ w.next + 1 \in Nat /\ w.request \in [Buffer -> Nat]
    BY DEF FdWire
  <1>16. [w.request EXCEPT ![b] = w.next] \in [Buffer -> Nat]
    BY <1>15
  <1>4. PICK request \in [Buffer -> Nat], next \in Nat :
            request = [w.request EXCEPT ![b] = w.next] /\ next = w.next + 1
    BY <1>15, <1>16
  <1>5. PICK v : v = [w EXCEPT !.request = request, !.next = next]
    OBVIOUS
  <1>6. v = [w EXCEPT !.request[b] = w.next, !.next = @ + 1]
    BY <1>4, <1>5 DEF FdWire
  <1>7. v \in FdWire
    BY <1>5 DEF FdWire
  <1>8. v.request = request /\ v.sends = w.sends /\ v.sent = w.sent /\ v.stored = w.stored
    BY <1>5 DEF FdWire
  <1>9. PICK r : r = [fd |-> d, wire |-> v]
    OBVIOUS
  <1>10. r \in FdPair /\ r.fd = d /\ r.wire = v
    BY <1>3, <1>7, <1>9 DEF FdPair, FdTxDone
  <1>11. FdRing(d, v)
    BY <1>1, <1>3, <1>8, SameRxRing DEF FdSound, FdTxDone
  <1>12. FdSound(r)
    BY <1>3, <1>10, <1>11 DEF FdSound, FdTxDone
  <1>13. d.generation = [c.generation EXCEPT ![b] = c.generation[b]]
    BY <1>3 DEF FdTxDone, Controller
  <1>14. FdMid(p, r, b, c.generation[b])
    BY <1>1, <1>3, <1>4, <1>8, <1>10, <1>12, <1>13 DEF FdMid, FdTxDone
  <1> QED
    BY <1>1, <1>2, <1>6, <1>9, <1>14

LEMMA MidBegun ==
    ASSUME NEW p \in FdPair, NEW r, NEW b \in Buffer, NEW g \in Nat, FdMid(p, r, b, g)
    PROVE  LET q == [r EXCEPT !.fd.generation[b] = @ + 1]
           IN  FdMid(p, q, b, g + 1) /\ q.fd.generation[b] = g + 1 /\ q.fd.state[b] = "pending"
  <1>1. PICK c \in Controller, w \in FdWire : c = p.fd /\ w = p.wire
    BY DEF FdPair
  <1>2. PICK d \in Controller, v \in FdWire : d = r.fd /\ v = r.wire
    BY DEF FdPair, FdMid, FdSound
  <1>3. r = [fd |-> d, wire |-> v]
    BY <1>2 DEF FdPair, FdMid, FdSound
  <1>19. g + 1 \in Nat /\ d.generation \in [Buffer -> Nat]
    BY DEF Controller
  <1>4. PICK gen \in [Buffer -> Nat] : gen = [d.generation EXCEPT ![b] = g + 1]
    BY <1>19
  <1>5. d.generation[b] = g
    BY <1>1, <1>2 DEF FdMid, Controller
  <1>6. PICK e : e = [d EXCEPT !.generation = gen]
    OBVIOUS
  <1>7. PICK q : q = [r EXCEPT !.fd.generation[b] = @ + 1]
    OBVIOUS
  <1>8. q = [fd |-> e, wire |-> v]
    <2>1. q = [r EXCEPT !.fd = [r.fd EXCEPT !.generation[b] = @ + 1]]
      BY <1>3, <1>7
    <2>2. [d EXCEPT !.generation[b] = @ + 1] = e
      BY <1>4, <1>5, <1>6 DEF Controller
    <2> QED
      BY <1>2, <1>3, <2>1, <2>2
  <1>9. e \in Controller
    BY <1>6 DEF Controller
  <1>10. q \in FdPair /\ q.fd = e /\ q.wire = v
    BY <1>8, <1>9 DEF FdPair
  <1>11. /\ e.generation = gen /\ FdSameRx(d, e) /\ FdSameLines(d, e) /\ FdSameIndices(d, e)
         /\ e.txbrp = d.txbrp /\ e.txbto = d.txbto /\ e.state = d.state /\ e.attached = d.attached
         /\ e.tx = d.tx
    BY <1>6 DEF Controller, FdSameRx, FdSameLines, FdSameIndices
  <1>12. FdLines(e)
    BY <1>2, <1>11, SameLinesKept DEF FdMid, FdSound
  <1>13. FdSettled(e)
    BY <1>2, <1>11 DEF FdMid, FdSound, FdSettled, FdSameIndices
  <1>14. FdRing(e, v)
    BY <1>2, <1>11, SameRxRing DEF FdMid, FdSound
  <1>15. FdSound(q)
    BY <1>10, <1>12, <1>13, <1>14 DEF FdSound
  <1>16. gen = [c.generation EXCEPT ![b] = g + 1]
    <2>1. d.generation = [c.generation EXCEPT ![b] = g]
      BY <1>1, <1>2 DEF FdMid
    <2> QED
      BY <1>4, <2>1 DEF Controller
  <1>17. FdMid(p, q, b, g + 1)
    BY <1>1, <1>2, <1>10, <1>11, <1>15, <1>16 DEF FdMid
  <1>18. e.generation[b] = g + 1 /\ e.state[b] = "pending"
    <2>1. e.state = [c.state EXCEPT ![b] = "pending"]
      BY <1>1, <1>2, <1>11 DEF FdMid
    <2> QED
      BY <1>4, <1>11, <2>1 DEF Controller
  <1> QED
    BY <1>7, <1>10, <1>17, <1>18

LEMMA ReceivedSound ==
    ASSUME NEW p \in FdPair, NEW q, FdSound(p), FdReceived(p, q)
    PROVE  FdSound(q)
  <1>1. q \in FdPair
    BY DEF FdReceived
  <1>2. FdRing(q.fd, q.wire)
    BY <1>1, RingKept, RingArrival DEF FdReceived, FdSound
  <1>3. FdSettled(q.fd)
    BY DEF FdReceived, FdSound, FdSettled, FdSameTx, FdSameIndices
  <1> QED
    BY <1>1, <1>2, <1>3 DEF FdSound, FdReceived

LEMMA MidReceived ==
    ASSUME NEW p \in FdPair, NEW r, NEW q, NEW b, NEW g, FdMid(p, r, b, g), FdReceived(r, q)
    PROVE  FdMid(p, q, b, g)
  <1>1. r \in FdPair /\ FdSound(r)
    BY DEF FdMid, FdSound
  <1>2. FdSound(q)
    BY <1>1, ReceivedSound
  <1> QED
    BY <1>2 DEF FdMid, FdReceived, FdSameTx

LEMMA MidReleased ==
    ASSUME NEW p \in FdPair, NEW r, NEW b \in Buffer, NEW g \in Nat, FdMid(p, r, b, g),
           g >= p.fd.generation[b]
    PROVE  LET q == [r EXCEPT !.fd = Release(@, b)]
           IN  FdSound(q) /\ FdOutcome(p, q, b)
  <1>1. PICK c \in Controller, w \in FdWire : c = p.fd /\ w = p.wire
    BY DEF FdPair
  <1>2. PICK d \in Controller, v \in FdWire : d = r.fd /\ v = r.wire
    BY DEF FdPair, FdMid, FdSound
  <1>3. PICK e : e = Release(d, b)
    OBVIOUS
  <1>4. FdTxDone(d, e, b, "idle", d.txbrp \ {b}, d.txbto)
    BY <1>2, <1>3, Released DEF FdMid, FdSound
  <1>5. PICK q : q = [r EXCEPT !.fd = Release(@, b)]
    OBVIOUS
  <1>6. q \in FdPair /\ q.fd = e /\ q.wire = v
    BY <1>2, <1>3, <1>4, <1>5 DEF FdPair, FdMid, FdSound, FdTxDone
  <1>7. FdRing(e, v)
    BY <1>2, <1>4, SameRxRing DEF FdMid, FdSound, FdTxDone
  <1>8. FdSound(q)
    BY <1>4, <1>6, <1>7 DEF FdSound, FdTxDone
  <1>9. /\ e.txbrp = (c.txbrp \cup {b}) \ {b} /\ e.txbto = c.txbto \ {b} /\ e.attached = c.attached
        /\ e.state = [d.state EXCEPT ![b] = "idle"] /\ d.state = [c.state EXCEPT ![b] = "pending"]
        /\ e.generation = [c.generation EXCEPT ![b] = g]
        /\ v.request = [w.request EXCEPT ![b] = w.next] /\ v.sends = w.sends /\ v.sent = w.sent
    BY <1>1, <1>2, <1>4 DEF FdMid, FdTxDone
  <1>10. e.state[b] = "idle" /\ e.generation[b] = g
    BY <1>9 DEF Controller
  <1>11. \A x \in Buffer \ {b} : e.state[x] = c.state[x] /\ e.generation[x] = c.generation[x]
                                 /\ v.request[x] = w.request[x]
    BY <1>9 DEF Controller, FdWire
  <1>12. FdOutcome(p, q, b)
    BY <1>1, <1>6, <1>9, <1>10, <1>11 DEF FdOutcome
  <1> QED
    BY <1>5, <1>8, <1>12

LEMMA MidFinished ==
    ASSUME NEW p \in FdPair, NEW r, NEW b \in Buffer, NEW g \in Nat, FdMid(p, r, b, g),
           g > p.fd.generation[b]
    PROVE  LET q == [fd |-> Completion(r.fd, b, g, TRUE),
                     wire |-> [r.wire EXCEPT !.sent = @ \cup {r.wire.request[b]}]]
           IN  FdSound(q) /\ FdOutcome(p, q, b)
  <1>1. PICK c \in Controller, w \in FdWire : c = p.fd /\ w = p.wire
    BY DEF FdPair
  <1>2. PICK d \in Controller, v \in FdWire : d = r.fd /\ v = r.wire
    BY DEF FdPair, FdMid, FdSound
  <1>3. d.generation[b] = g /\ d.state[b] = "pending"
    BY <1>1, <1>2 DEF FdMid, Controller
  <1>4. PICK e : e = CompleteTransmission(d, b, g)
    OBVIOUS
  <1>5. Completion(d, b, g, TRUE) = e
    BY <1>3, <1>4 DEF Completion, Current
  <1>6. FdTxDone(d, e, b, "complete", d.txbrp \ {b}, d.txbto \cup {b})
    BY <1>2, <1>3, <1>4, Completed DEF FdMid, FdSound, Current
  <1>7. PICK sent \in SUBSET Nat : sent = v.sent \cup {v.request[b]}
    BY DEF FdWire
  <1>8. PICK u : u = [v EXCEPT !.sent = sent]
    OBVIOUS
  <1>9. u \in FdWire
    BY <1>8 DEF FdWire
  <1>10. u.sent = sent /\ u.sends = v.sends /\ u.request = v.request /\ u.stored = v.stored
    BY <1>8 DEF FdWire
  <1>11. PICK q : q = [fd |-> e, wire |-> u]
    OBVIOUS
  <1>12. q = [fd |-> Completion(r.fd, b, g, TRUE),
              wire |-> [r.wire EXCEPT !.sent = @ \cup {r.wire.request[b]}]]
    BY <1>2, <1>5, <1>7, <1>8, <1>11
  <1>13. q \in FdPair /\ q.fd = e /\ q.wire = u
    BY <1>6, <1>9, <1>11 DEF FdPair, FdTxDone
  <1>14. FdRing(e, u)
    BY <1>2, <1>6, <1>10, SameRxRing DEF FdMid, FdSound, FdTxDone
  <1>15. FdSound(q)
    BY <1>6, <1>13, <1>14 DEF FdSound, FdTxDone
  <1>16. /\ e.txbrp = (c.txbrp \cup {b}) \ {b} /\ e.txbto = (c.txbto \ {b}) \cup {b}
         /\ e.attached = c.attached
         /\ e.state = [d.state EXCEPT ![b] = "complete"] /\ d.state = [c.state EXCEPT ![b] = "pending"]
         /\ e.generation = [c.generation EXCEPT ![b] = g]
         /\ u.request = [w.request EXCEPT ![b] = w.next] /\ u.sends = w.sends
         /\ u.sent = w.sent \cup {u.request[b]}
    BY <1>1, <1>2, <1>6, <1>7, <1>10 DEF FdMid, FdTxDone
  <1>17. e.state[b] = "complete" /\ e.generation[b] = g
    BY <1>16 DEF Controller
  <1>18. \A x \in Buffer \ {b} : e.state[x] = c.state[x] /\ e.generation[x] = c.generation[x]
                                 /\ u.request[x] = w.request[x]
    BY <1>16 DEF Controller, FdWire
  <1>19. FdOutcome(p, q, b)
    BY <1>1, <1>13, <1>16, <1>17, <1>18 DEF FdOutcome
  <1> QED
    BY <1>12, <1>15, <1>19

LEMMA MidQueued ==
    ASSUME NEW p \in FdPair, NEW r, NEW b \in Buffer, NEW g \in Nat, FdMid(p, r, b, g),
           g > p.fd.generation[b], p.fd.attached, NEW request, request = r.wire.request[b]
    PROVE  LET q == [r EXCEPT !.wire.sends =
                        Append(@, [buffer |-> b, generation |-> g, request |-> request,
                                   doomed |-> FALSE])]
           IN  FdSound(q) /\ FdOutcome(p, q, b)
  <1>1. PICK c \in Controller, w \in FdWire : c = p.fd /\ w = p.wire
    BY DEF FdPair
  <1>2. PICK d \in Controller, v \in FdWire : d = r.fd /\ v = r.wire
    BY DEF FdPair, FdMid, FdSound
  <1>3. r = [fd |-> d, wire |-> v]
    BY <1>2 DEF FdPair, FdMid, FdSound
  <1>4. PICK e \in Send : e = [buffer |-> b, generation |-> g, request |-> request, doomed |-> FALSE]
    BY <1>2 DEF Send, FdWire
  <1>5. e.buffer = b /\ e.generation = g /\ e.request = v.request[b] /\ ~e.doomed
    BY <1>2, <1>4
  <1>6. PICK t \in Seq(Send) : t = Append(v.sends, e)
    BY AppendProperties DEF FdWire
  <1>7. PICK u : u = [v EXCEPT !.sends = t]
    OBVIOUS
  <1>8. u \in FdWire
    BY <1>7 DEF FdWire
  <1>9. u.sends = t /\ u.request = v.request /\ u.sent = v.sent /\ u.stored = v.stored
    BY <1>7 DEF FdWire
  <1>10. PICK q : q = [fd |-> d, wire |-> u]
    OBVIOUS
  <1>11. q = [r EXCEPT !.wire.sends =
                 Append(@, [buffer |-> b, generation |-> g, request |-> request, doomed |-> FALSE])]
    <2>1. [r EXCEPT !.wire.sends =
                 Append(@, [buffer |-> b, generation |-> g, request |-> request, doomed |-> FALSE])]
            = [r EXCEPT !.wire = [r.wire EXCEPT !.sends = t]]
      BY <1>2, <1>3, <1>4, <1>6
    <2>2. [r.wire EXCEPT !.sends = t] = u
      BY <1>2, <1>7
    <2>3. [r EXCEPT !.wire = u] = q
      BY <1>3, <1>10
    <2>4. [r EXCEPT !.wire = [r.wire EXCEPT !.sends = t]] = q
      BY <2>2, <2>3
    <2> QED
      BY <2>1, <2>4, Zenon
  <1>12. q \in FdPair /\ q.fd = d /\ q.wire = u
    BY <1>8, <1>10 DEF FdPair
  <1>13. FdRing(d, u)
    BY <1>2, <1>9 DEF FdMid, FdSound, FdRing
  <1>14. FdSound(q)
    BY <1>2, <1>12, <1>13 DEF FdSound, FdMid
  <1>15. /\ d.txbrp = c.txbrp \cup {b} /\ d.txbto = c.txbto \ {b} /\ d.attached = c.attached
         /\ d.state = [c.state EXCEPT ![b] = "pending"]
         /\ d.generation = [c.generation EXCEPT ![b] = g]
         /\ u.request = [w.request EXCEPT ![b] = w.next] /\ u.sends = Append(w.sends, e)
         /\ u.sent = w.sent
    BY <1>1, <1>2, <1>6, <1>9 DEF FdMid
  <1>16. d.state[b] = "pending" /\ d.generation[b] = g
    BY <1>15 DEF Controller
  <1>17. \A x \in Buffer \ {b} : d.state[x] = c.state[x] /\ d.generation[x] = c.generation[x]
                                 /\ u.request[x] = w.request[x]
    BY <1>15 DEF Controller, FdWire
  <1>19. \E x \in Send : /\ u.sends = Append(w.sends, x) /\ x.buffer = b /\ ~x.doomed
                         /\ x.generation = d.generation[b] /\ x.request = u.request[b]
    BY <1>5, <1>9, <1>15, <1>16
  <1>20. /\ b \in d.txbrp /\ b \notin d.txbto /\ d.generation[b] > c.generation[b] /\ c.attached
    BY <1>1, <1>15, <1>16
  <1>21. \A x \in Buffer \ {b} : (x \in d.txbrp <=> x \in c.txbrp) /\ (x \in d.txbto <=> x \in c.txbto)
    BY <1>15
  <1>18. FdOutcome(p, q, b)
    BY <1>1, <1>12, <1>15, <1>16, <1>17, <1>19, <1>20, <1>21 DEF FdOutcome
  <1> QED
    BY <1>11, <1>14, <1>18

LEMMA Transmitted ==
    ASSUME NEW p \in FdPair, NEW r, NEW b \in Buffer, NEW answer \in Answer,
           FdMid(p, r, b, p.fd.generation[b])
    PROVE  FdSound(TransmitBuffer(r, b, answer)) /\ FdOutcome(p, TransmitBuffer(r, b, answer), b)
  <1> DEFINE begun == [r EXCEPT !.fd.generation[b] = @ + 1]
  <1>1. PICK g \in Nat : g = p.fd.generation[b]
    BY DEF FdPair, Controller
  <1>2. PICK h : h = begun
    OBVIOUS
  <1>13. PICK k \in Nat : k = g + 1 /\ k > g /\ k >= g
    OBVIOUS
  <1>31. FdMid(p, r, b, g)
    BY <1>1
  <1>32. FdMid(p, h, b, g + 1) /\ h.fd.generation[b] = g + 1
    BY <1>2, <1>31, MidBegun
  <1>3. FdMid(p, h, b, k) /\ h.fd.generation[b] = k /\ FdMid(p, r, b, g)
    BY <1>13, <1>31, <1>32
  <1>4. PICK frame \in Frames : frame = r.fd.tx[b]
    BY DEF FdMid, FdSound, FdPair, Controller
  <1>5. frame.valid \in BOOLEAN
    BY FrameAssumption
  <1>6. r.fd.attached = p.fd.attached /\ h.wire.request = r.wire.request
    BY <1>3 DEF FdMid
  <1> DEFINE Finish(q) == [fd |-> Completion(q.fd, b, k, TRUE),
                           wire |-> [q.wire EXCEPT !.sent = @ \cup {q.wire.request[b]}]]
             queued == [h EXCEPT !.wire.sends =
                           Append(@, [buffer |-> b, generation |-> k,
                                      request |-> r.wire.request[b], doomed |-> FALSE])]
             result ==
               CASE ~ frame.valid -> [r EXCEPT !.fd = Release(@, b)]
                 [] frame.valid /\ (~ r.fd.attached \/ answer = "delivered") -> Finish(h)
                 [] frame.valid /\ r.fd.attached /\ answer = "looped" -> Finish(ReceiveFrame(h, frame))
                 [] frame.valid /\ r.fd.attached /\ answer = "refused" -> [h EXCEPT !.fd = Release(@, b)]
                 [] frame.valid /\ r.fd.attached /\ answer = "queued" -> queued
  <1>7. TransmitBuffer(r, b, answer) = result
    BY <1>2, <1>3, <1>4 DEF TransmitBuffer
  <1>8. CASE ~frame.valid
    <2>1. result = [r EXCEPT !.fd = Release(@, b)]
      BY <1>8
    <2> HIDE DEF result
    <2> QED
      BY <1>1, <1>3, <1>7, <2>1, MidReleased
  <1>9. CASE frame.valid /\ (~ r.fd.attached \/ answer = "delivered")
    <2>1. result = Finish(h)
      BY <1>9
    <2>2. FdSound(Finish(h)) /\ FdOutcome(p, Finish(h), b)
      BY <1>1, <1>13, <1>3, MidFinished
    <2> HIDE DEF result, Finish
    <2> QED
      BY <1>7, <2>1, <2>2
  <1>10. CASE frame.valid /\ r.fd.attached /\ answer = "looped"
    <2>1. PICK q : q = ReceiveFrame(h, frame)
      OBVIOUS
    <2>2. result = Finish(q)
      BY <1>10, <2>1
    <2>3. h \in FdPair /\ FdLines(h.fd)
      BY <1>3 DEF FdMid, FdSound
    <2>4. FdReceived(h, q)
      BY <2>1, <2>3, FrameReceived
    <2>5. FdMid(p, q, b, k)
      BY <1>3, <2>4, MidReceived
    <2>6. FdSound(Finish(q)) /\ FdOutcome(p, Finish(q), b)
      BY <1>1, <1>13, <2>5, MidFinished
    <2> HIDE DEF result, Finish
    <2> QED
      BY <1>7, <2>2, <2>6
  <1>11. CASE frame.valid /\ r.fd.attached /\ answer = "refused"
    <2>1. result = [h EXCEPT !.fd = Release(@, b)]
      BY <1>11
    <2> HIDE DEF result
    <2> QED
      BY <1>1, <1>13, <1>3, <1>7, <2>1, MidReleased
  <1>12. CASE frame.valid /\ r.fd.attached /\ answer = "queued"
    <2>1. result = queued
      BY <1>12
    <2>2. PICK request : request = h.wire.request[b] /\ request = r.wire.request[b]
      BY <1>6
    <2>3. queued = [h EXCEPT !.wire.sends =
                       Append(@, [buffer |-> b, generation |-> k, request |-> request,
                                  doomed |-> FALSE])]
      BY <2>2
    <2> HIDE DEF result, queued
    <2>4. FdSound(queued) /\ FdOutcome(p, queued, b)
      BY <1>1, <1>13, <1>3, <1>6, <1>12, <2>2, <2>3, MidQueued
    <2> QED
      BY <1>7, <2>1, <2>4
  <1> HIDE DEF result
  <1> QED
    BY <1>5, <1>8, <1>9, <1>10, <1>11, <1>12 DEF Answer

LEMMA RequestServed ==
    ASSUME NEW p \in FdPair, FdInv(p), NEW b \in Buffer, NEW answer \in Answer
    PROVE  FdInv(RequestBuffer(p, b, answer))
  <1>1. CASE p.fd.state[b] = "pending"
    BY <1>1 DEF RequestBuffer
  <1>2. CASE p.fd.state[b] # "pending"
    <2>1. PICK r : r = [fd |-> Reserve(p.fd, b),
                        wire |-> [p.wire EXCEPT !.request[b] = p.wire.next, !.next = @ + 1]]
      OBVIOUS
    <2>2. FdMid(p, r, b, p.fd.generation[b])
      BY <2>1, MidReserved DEF FdInv
    <2>3. PICK q : q = TransmitBuffer(r, b, answer)
      OBVIOUS
    <2>4. FdSound(q) /\ FdOutcome(p, q, b)
      BY <2>2, <2>3, Transmitted
    <2>5. FdOwned(q.fd, q.wire)
      BY <1>2, <2>4, OutcomeOwned DEF FdInv, FdSound
    <2>6. RequestBuffer(p, b, answer) = q
      BY <1>2, <2>1, <2>3 DEF RequestBuffer
    <2> QED
      BY <2>4, <2>5, <2>6 DEF FdInv
  <1> QED
    BY <1>1, <1>2

-----------------------------------------------------------------------------
(* The TXBAR loop. *)

FdTurn(requests, answer, k, x) ==
    IF k - 1 \in requests THEN RequestBuffer(x, k - 1, answer[k - 1]) ELSE x
FdTurns(start, requests, answer, f, n) ==
    f = [k \in 0..n |-> IF k = 0 THEN start ELSE FdTurn(requests, answer, k, f[k - 1])]

LEMMA TurnsExist ==
    ASSUME NEW start, NEW requests, NEW answer, NEW n \in Nat
    PROVE  \E f : FdTurns(start, requests, answer, f, n)
  <1> DEFINE Bad == {i \in Nat : ~\E f : FdTurns(start, requests, answer, f, i)}
  <1>1. SUFFICES ASSUME Bad # {} PROVE FALSE
    OBVIOUS
  <1>2. PICK i \in Bad : \A j \in Bad : i <= j
    <2>1. Bad \in SUBSET Nat
      OBVIOUS
    <2> HIDE DEF Bad
    <2> QED
      BY <1>1, <2>1, LeastNumber
  <1>3. i \in Nat /\ ~\E f : FdTurns(start, requests, answer, f, i)
    BY <1>2
  <1>4. i # 0
    <2> DEFINE f == [k \in 0..0 |-> start]
    <2>1. f = [k \in 0..0 |-> IF k = 0 THEN start ELSE FdTurn(requests, answer, k, f[k - 1])]
      OBVIOUS
    <2> QED
      BY <1>3, <2>1 DEF FdTurns
  <1>5. PICK h \in Nat : h = i - 1 /\ i = h + 1
    BY <1>3, <1>4
  <1>6. PICK g : FdTurns(start, requests, answer, g, h)
    <2>1. h \notin Bad
      <3> HIDE DEF Bad
      <3> QED
        BY <1>2, <1>3, <1>5
    <2> QED
      BY <2>1
  <1> DEFINE last == FdTurn(requests, answer, i, g[h])
             f == [k \in 0..i |-> IF k = i THEN last ELSE g[k]]
             want == [k \in 0..i |-> IF k = 0 THEN start ELSE FdTurn(requests, answer, k, f[k - 1])]
  <1>7. DOMAIN g = 0..h /\ \A k \in 0..h : g[k] = IF k = 0 THEN start ELSE FdTurn(requests, answer, k, g[k - 1])
    <2>1. PICK e : e = [k \in 0..h |-> IF k = 0 THEN start ELSE FdTurn(requests, answer, k, g[k - 1])]
      OBVIOUS
    <2>2. g = e
      BY <1>6, <2>1 DEF FdTurns
    <2>3. DOMAIN e = 0..h /\ \A k \in 0..h : e[k] = IF k = 0 THEN start ELSE FdTurn(requests, answer, k, g[k - 1])
      BY <2>1
    <2> QED
      BY <2>2, <2>3
  <1>8. \A k \in 0..h : f[k] = g[k]
    BY <1>5
  <1>9. f[i] = last
    BY <1>3
  <1> HIDE DEF f
  <1>10. ASSUME NEW k \in 0..i
         PROVE  f[k] = IF k = 0 THEN start ELSE FdTurn(requests, answer, k, f[k - 1])
    <2>1. CASE k = i
      <3>1. f[h] = g[h] /\ k # 0 /\ k - 1 = h
        BY <1>4, <1>5, <1>8, <2>1
      <3> QED
        BY <1>9, <2>1, <3>1
    <2>2. CASE k # i /\ k = 0
      <3>1. k \in 0..h
        BY <1>5, <2>2
      <3> QED
        BY <1>7, <1>8, <2>2, <3>1
    <2>3. CASE k # i /\ k # 0
      <3>1. k \in 0..h /\ k - 1 \in 0..h
        BY <1>5, <2>3
      <3>2. g[k] = FdTurn(requests, answer, k, g[k - 1])
        BY <1>7, <2>3, <3>1
      <3>3. f[k] = g[k] /\ f[k - 1] = g[k - 1]
        BY <1>8, <3>1
      <3> QED
        BY <2>3, <3>2, <3>3
    <2> QED
      BY <2>1, <2>2, <2>3
  <1>11. f = [k \in 0..i |-> f[k]]
    BY DEF f
  <1>12. f = want
    <2>1. want = [k \in 0..i |-> want[k]] /\ \A k \in 0..i : want[k] = f[k]
      BY <1>10
    <2> HIDE DEF want
    <2> QED
      BY <1>11, <2>1
  <1>13. FdTurns(start, requests, answer, f, i)
    BY <1>12 DEF FdTurns
  <1> QED
    BY <1>3, <1>13

LEMMA TurnsFold ==
    ASSUME NEW requests, NEW answer
    PROVE  \E f : /\ FdTurns(Machine, requests, answer, f, TxSlots)
                  /\ RequestAll(requests, answer) = f[TxSlots]
  <1> DEFINE Is(f) == f = [n \in 0..TxSlots |->
                              IF n = 0 THEN Machine
                              ELSE IF n - 1 \in requests
                                     THEN RequestBuffer(f[n - 1], n - 1, answer[n - 1])
                                     ELSE f[n - 1]]
             turn == CHOOSE f : Is(f)
  <1>1. RequestAll(requests, answer) = turn[TxSlots]
    BY DEF RequestAll
  <1>2. PICK f : FdTurns(Machine, requests, answer, f, TxSlots)
    BY TurnsExist, SlotAssumption
  <1>3. ASSUME NEW g PROVE Is(g) <=> FdTurns(Machine, requests, answer, g, TxSlots)
    BY DEF FdTurns, FdTurn
  <1>4. Is(f)
    BY <1>2, <1>3
  <1> HIDE DEF Is
  <1>5. Is(turn)
    BY <1>4
  <1> HIDE DEF turn
  <1> QED
    BY <1>1, <1>3, <1>5

LEMMA RequestsServed ==
    ASSUME NEW requests, NEW answer, FdInv(Machine),
           \A b \in requests : answer[b] \in Answer
    PROVE  FdInv(RequestAll(requests, answer))
  <1>1. PICK f : /\ FdTurns(Machine, requests, answer, f, TxSlots)
                 /\ RequestAll(requests, answer) = f[TxSlots]
    BY TurnsFold
  <1>2. PICK start : start = Machine
    OBVIOUS
  <1>3. FdInv(start) /\ FdTurns(start, requests, answer, f, TxSlots)
    BY <1>1, <1>2
  <1>4. \A k \in 0..TxSlots : f[k] = IF k = 0 THEN start ELSE FdTurn(requests, answer, k, f[k - 1])
    <2>1. PICK e : e = [k \in 0..TxSlots |-> IF k = 0 THEN start ELSE FdTurn(requests, answer, k, f[k - 1])]
      OBVIOUS
    <2>2. f = e
      BY <1>3, <2>1 DEF FdTurns
    <2>3. \A k \in 0..TxSlots : e[k] = IF k = 0 THEN start ELSE FdTurn(requests, answer, k, f[k - 1])
      BY <2>1
    <2> QED
      BY <2>2, <2>3
  <1> DEFINE Bad == {k \in 0..TxSlots : ~FdInv(f[k])}
  <1>5. Bad = {}
    <2>1. SUFFICES ASSUME Bad # {} PROVE FALSE
      OBVIOUS
    <2>2. Bad \in SUBSET Nat
      BY SlotAssumption
    <2>3. PICK k \in Bad : \A j \in Bad : k <= j
      <3> HIDE DEF Bad
      <3> QED
        BY <2>1, <2>2, LeastNumber
    <2>4. k \in 0..TxSlots /\ ~FdInv(f[k])
      BY <2>3
    <2>5. k # 0
      BY <1>3, <1>4, <2>4
    <2>6. PICK b \in Buffer : b = k - 1
      BY <2>4, <2>5, SlotAssumption DEF Buffer
    <2>7. b \in 0..TxSlots /\ b < k
      BY <2>4, <2>6, SlotAssumption DEF Buffer
    <2>8. FdInv(f[b])
      <3>1. b \notin Bad
        <4> HIDE DEF Bad
        <4>1. k \in Nat /\ b \in Nat
          BY <2>4, <2>7, SlotAssumption
        <4> QED
          BY <2>3, <2>7, <4>1
      <3> QED
        BY <2>7, <3>1
    <2>9. PICK x : x = f[b]
      OBVIOUS
    <2>10. f[k] = IF b \in requests THEN RequestBuffer(x, b, answer[b]) ELSE x
      BY <1>4, <2>4, <2>5, <2>6, <2>9 DEF FdTurn
    <2>11. b \in requests => FdInv(RequestBuffer(x, b, answer[b]))
      BY <2>8, <2>9, RequestServed DEF FdInv, FdSound
    <2> QED
      BY <2>4, <2>8, <2>9, <2>10, <2>11
  <1>6. FdInv(f[TxSlots])
    <2>1. TxSlots \in 0..TxSlots
      BY SlotAssumption
    <2> QED
      BY <1>5, <2>1
  <1> QED
    BY <1>1, <1>6

-----------------------------------------------------------------------------
(* Completions, cancellations and resets. *)

(* The bus completes, fails or forgets its oldest send.                    *)
FdHeadDone(p, q, success) ==
    /\ p.wire.sends # <<>>
    /\ q = [fd |-> Completion(p.fd, Head(p.wire.sends).buffer, Head(p.wire.sends).generation, success),
            wire |-> [p.wire EXCEPT !.sends = Tail(@),
                                    !.sent = IF success THEN @ \cup {Head(p.wire.sends).request} ELSE @]]

LEMMA CompletionEffect ==
    ASSUME NEW c \in Controller, FdLines(c), FdSettled(c), NEW b \in Buffer, NEW g \in Nat,
           NEW success \in BOOLEAN
    PROVE  LET d == Completion(c, b, g, success)
           IN  \/ d = c /\ (g # c.generation[b] \/ (success /\ c.state[b] # "pending"))
               \/ /\ g = c.generation[b] /\ success /\ c.state[b] = "pending"
                  /\ FdTxDone(c, d, b, "complete", c.txbrp \ {b}, c.txbto \cup {b})
               \/ /\ g = c.generation[b] /\ ~success
                  /\ FdTxDone(c, d, b, "idle", c.txbrp \ {b}, c.txbto)
  <1>1. CASE g # c.generation[b]
    BY <1>1 DEF Completion, Current
  <1>2. CASE g = c.generation[b] /\ success /\ c.state[b] = "pending"
    <2>1. Current(c, b, g)
      BY <1>2 DEF Current
    <2>2. Completion(c, b, g, success) = CompleteTransmission(c, b, g)
      BY <1>2, <2>1 DEF Completion
    <2> QED
      BY <1>2, <2>1, <2>2, Completed
  <1>3. CASE g = c.generation[b] /\ success /\ c.state[b] # "pending"
    BY <1>3 DEF Completion, CompleteTransmission, Current
  <1>4. CASE g = c.generation[b] /\ ~success
    <2>1. Completion(c, b, g, success) = Release(c, b)
      BY <1>4 DEF Completion, Current
    <2> QED
      BY <1>4, <2>1, Released
  <1> QED
    BY <1>1, <1>2, <1>3, <1>4

LEMMA SendsTyped ==
    ASSUME NEW w \in FdWire
    PROVE  /\ w.sends \in Seq(Send) /\ DOMAIN w.sends = 1..Len(w.sends) /\ Len(w.sends) \in Nat
           /\ \A i \in DOMAIN w.sends : w.sends[i] \in Send
           /\ w.sends # <<>> => /\ 1 \in DOMAIN w.sends /\ Head(w.sends) = w.sends[1]
                                /\ Tail(w.sends) \in Seq(Send) /\ Len(Tail(w.sends)) = Len(w.sends) - 1
                                /\ \A i \in 1..(Len(w.sends) - 1) : Tail(w.sends)[i] = w.sends[i + 1]
  <1>1. PICK s \in Seq(Send) : s = w.sends
    BY DEF FdWire
  <1>2. DOMAIN s = 1..Len(s) /\ Len(s) \in Nat
    BY LenProperties
  <1>3. \A i \in DOMAIN s : s[i] \in Send
    BY <1>2, ElementOfSeq
  <1>4. ASSUME s # <<>>
        PROVE  /\ 1 \in DOMAIN s /\ Head(s) = s[1]
               /\ Tail(s) \in Seq(Send) /\ Len(Tail(s)) = Len(s) - 1
               /\ \A i \in 1..(Len(s) - 1) : Tail(s)[i] = s[i + 1]
    <2>1. Len(s) # 0
      BY <1>4, EmptySeq
    <2>2. /\ Head(s) = s[1] /\ Tail(s) \in Seq(Send) /\ Len(Tail(s)) = Len(s) - 1
          /\ \A i \in 1..Len(Tail(s)) : Tail(s)[i] = s[i + 1]
      BY <1>4, HeadTailProperties
    <2> QED
      BY <1>2, <2>1, <2>2
  <1> QED
    BY <1>1, <1>2, <1>3, <1>4

LEMMA HeadDoneKeeps ==
    ASSUME NEW p \in FdPair, FdInv(p), NEW q, NEW success \in BOOLEAN, FdHeadDone(p, q, success)
    PROVE  FdInv(q)
  <1>1. PICK c \in Controller, w \in FdWire : c = p.fd /\ w = p.wire
    BY DEF FdPair
  <1>2. w.sends # <<>>
    BY <1>1 DEF FdHeadDone
  <1>3. PICK s \in Send : s = Head(w.sends)
    BY <1>2, SendsTyped
  <1>4. PICK b \in Buffer, g \in Nat, request \in Nat : b = s.buffer /\ g = s.generation /\ request = s.request
    BY DEF Send
  <1>5. PICK d : d = Completion(c, b, g, success)
    OBVIOUS
  <1>6. FdLines(c) /\ FdSettled(c) /\ FdRing(c, w) /\ FdOwned(c, w)
    BY <1>1 DEF FdInv, FdSound
  <1>7. \/ d = c /\ (g # c.generation[b] \/ (success /\ c.state[b] # "pending"))
        \/ /\ g = c.generation[b] /\ success /\ c.state[b] = "pending"
           /\ FdTxDone(c, d, b, "complete", c.txbrp \ {b}, c.txbto \cup {b})
        \/ /\ g = c.generation[b] /\ ~success
           /\ FdTxDone(c, d, b, "idle", c.txbrp \ {b}, c.txbto)
    BY <1>5, <1>6, CompletionEffect
  <1>8. PICK t \in Seq(Send) : t = Tail(w.sends)
    BY <1>2, SendsTyped
  <1>9. PICK sent \in SUBSET Nat : sent = IF success THEN w.sent \cup {request} ELSE w.sent
    BY DEF FdWire
  <1>10. PICK v : v = [w EXCEPT !.sends = t, !.sent = sent]
    OBVIOUS
  <1>11. v \in FdWire
    BY <1>10 DEF FdWire
  <1>12. v.sends = t /\ v.sent = sent /\ v.request = w.request /\ v.stored = w.stored
    BY <1>10 DEF FdWire
  <1>13. q = [fd |-> d, wire |-> v]
    <2>1. q = [fd |-> Completion(c, s.buffer, s.generation, success),
               wire |-> [w EXCEPT !.sends = Tail(@), !.sent = IF success THEN @ \cup {s.request} ELSE @]]
      BY <1>1, <1>3 DEF FdHeadDone
    <2>2. [w EXCEPT !.sends = Tail(@), !.sent = IF success THEN @ \cup {s.request} ELSE @] = v
      BY <1>4, <1>8, <1>9, <1>10 DEF FdWire
    <2> QED
      BY <1>4, <1>5, <2>1, <2>2
  <1>14. d \in Controller /\ FdSameRx(c, d) /\ FdLines(d) /\ FdSettled(d) /\ d.generation = c.generation
         /\ d.attached = c.attached
    BY <1>6, <1>7 DEF FdTxDone, FdSameRx
  <1>15. q \in FdPair /\ q.fd = d /\ q.wire = v
    BY <1>11, <1>13, <1>14 DEF FdPair
  <1>16. FdRing(d, v)
    BY <1>6, <1>12, <1>14, SameRxRing
  <1>17. FdSound(q)
    BY <1>14, <1>15, <1>16 DEF FdSound
  <1>18. w.sent \subseteq v.sent
    BY <1>9, <1>12
  <1>19. FdBufferOwned(c, w, b) /\ 1 \in DOMAIN w.sends /\ w.sends[1] = s
    BY <1>2, <1>3, <1>6, SendsTyped DEF FdOwned
  <1>20. FdSendOf(c, w, s)
    BY <1>4, <1>19 DEF FdBufferOwned
  <1>21. ASSUME NEW x \in Buffer \ {b} PROVE FdBufferOwned(d, v, x)
    <2>1. /\ x \in d.txbrp <=> x \in c.txbrp
          /\ x \in d.txbto <=> x \in c.txbto
      BY <1>7 DEF FdTxDone
    <2>2. d.state[x] = c.state[x]
      <3>1. d = c \/ \E st \in {"complete", "idle"} : d.state = [c.state EXCEPT ![b] = st]
        BY <1>7 DEF FdTxDone
      <3> QED
        BY <3>1 DEF Controller
    <2>3. SendsElsewhere(w.sends, v.sends, x)
      BY <1>2, <1>3, <1>4, <1>8, <1>12 DEF SendsElsewhere
    <2>4. FdBufferOwned(c, w, x)
      BY <1>6 DEF FdOwned
    <2> QED
      BY <1>11, <1>12, <1>14, <1>18, <2>1, <2>2, <2>3, <2>4, OtherBuffer
  <1>22. FdBufferOwned(d, v, b)
    <2>1. CASE s.doomed
      <3>1. g # c.generation[b] \/ (g = c.generation[b] /\ c.state[b] = "idle")
        <4>1. c.generation[b] \in Nat
          BY DEF Controller
        <4> QED
          BY <1>4, <1>20, <2>1, <4>1 DEF FdSendOf
      <3>2. /\ b \in d.txbrp <=> b \in c.txbrp
            /\ b \in d.txbto <=> b \in c.txbto
            /\ d.state[b] = c.state[b]
        <4>1. CASE d = c
          BY <4>1
        <4>2. CASE d # c
          <5>1. g = c.generation[b] /\ c.state[b] = "idle"
            BY <1>7, <3>1, <4>2
          <5>2. FdTxDone(c, d, b, "idle", c.txbrp \ {b}, c.txbto)
            BY <1>7, <4>2, <5>1
          <5>3. b \notin c.txbrp
            BY <1>19, <5>1 DEF FdBufferOwned
          <5>4. d.state = [c.state EXCEPT ![b] = "idle"] /\ d.txbrp = c.txbrp \ {b} /\ d.txbto = c.txbto
            BY <5>2 DEF FdTxDone
          <5> QED
            BY <5>1, <5>3, <5>4 DEF Controller
        <4> QED
          BY <4>1, <4>2
      <3>3. SendsElsewhere(w.sends, v.sends, b)
        BY <1>2, <1>3, <1>8, <1>12, <2>1 DEF SendsElsewhere
      <3> QED
        BY <1>11, <1>12, <1>14, <1>18, <1>19, <3>2, <3>3, OtherBuffer
    <2>2. CASE ~s.doomed
      <3>1. g = c.generation[b] /\ request = w.request[b] /\ c.state[b] = "pending"
        BY <1>4, <1>20, <2>2 DEF FdSendOf
      <3>2. \A i \in DOMAIN w.sends : w.sends[i].buffer = b /\ ~w.sends[i].doomed => i = 1
        BY <1>4, <1>19, <2>2 DEF FdBufferOwned
      <3>3. /\ DOMAIN t = 1..(Len(w.sends) - 1) /\ Len(w.sends) \in Nat
            /\ \A i \in DOMAIN t : t[i] = w.sends[i + 1] /\ i + 1 \in DOMAIN w.sends /\ i + 1 # 1
        <4>1. DOMAIN t = 1..Len(t)
          BY LenProperties
        <4>2. /\ Len(t) = Len(w.sends) - 1 /\ DOMAIN w.sends = 1..Len(w.sends) /\ Len(w.sends) \in Nat
              /\ \A i \in 1..(Len(w.sends) - 1) : t[i] = w.sends[i + 1]
          BY <1>2, <1>8, SendsTyped
        <4> QED
          BY <4>1, <4>2
      <3>4. \A i \in DOMAIN t : t[i].buffer = b => t[i].doomed
        BY <3>2, <3>3
      <3>5. \A i \in DOMAIN t : t[i].buffer = b => FdSendOf(d, v, t[i])
        <4>1. TAKE i \in DOMAIN t
        <4>2. HAVE t[i].buffer = b
        <4>3. FdSendOf(c, w, t[i])
          BY <1>19, <3>3, <4>2 DEF FdBufferOwned
        <4>4. t[i].doomed
          BY <3>4, <4>2
        <4>5. t[i].generation < c.generation[b]
          BY <3>1, <4>2, <4>3, <4>4 DEF FdSendOf
        <4> QED
          BY <1>14, <4>2, <4>4, <4>5 DEF FdSendOf
      <3>6. CASE success
        <4>1. FdTxDone(c, d, b, "complete", c.txbrp \ {b}, c.txbto \cup {b})
          BY <1>7, <3>1, <3>6
        <4>2. d.state = [c.state EXCEPT ![b] = "complete"] /\ d.txbrp = c.txbrp \ {b} /\ d.txbto = c.txbto \cup {b}
          BY <4>1 DEF FdTxDone
        <4>3. d.state[b] = "complete"
          BY <4>2 DEF Controller
        <4>4. v.request[b] \in v.sent
          BY <1>9, <1>12, <3>1, <3>6
        <4> QED
          BY <1>12, <3>4, <3>5, <4>2, <4>3, <4>4 DEF FdBufferOwned
      <3>7. CASE ~success
        <4>1. FdTxDone(c, d, b, "idle", c.txbrp \ {b}, c.txbto)
          BY <1>7, <3>1, <3>7
        <4>2. d.state = [c.state EXCEPT ![b] = "idle"] /\ d.txbrp = c.txbrp \ {b} /\ d.txbto = c.txbto
          BY <4>1 DEF FdTxDone
        <4>3. d.state[b] = "idle"
          BY <4>2 DEF Controller
        <4>4. b \notin c.txbto
          BY <1>19, <3>1 DEF FdBufferOwned
        <4> QED
          BY <1>12, <3>4, <3>5, <4>2, <4>3, <4>4 DEF FdBufferOwned
      <3> QED
        BY <3>6, <3>7
    <2> QED
      BY <2>1, <2>2
  <1>23. ~d.attached => \A i \in DOMAIN t : t[i].doomed
    <2>1. DOMAIN t = 1..Len(t)
      BY LenProperties
    <2>2. /\ Len(t) = Len(w.sends) - 1 /\ DOMAIN w.sends = 1..Len(w.sends) /\ Len(w.sends) \in Nat
          /\ \A i \in 1..(Len(w.sends) - 1) : t[i] = w.sends[i + 1]
      BY <1>2, <1>8, SendsTyped
    <2>3. \A i \in DOMAIN t : i + 1 \in DOMAIN w.sends /\ t[i] = w.sends[i + 1]
      BY <2>1, <2>2
    <2>4. ~d.attached => \A i \in DOMAIN w.sends : w.sends[i].doomed
      BY <1>6, <1>14 DEF FdOwned
    <2> QED
      BY <2>3, <2>4
  <1>24. FdOwned(d, v)
    BY <1>12, <1>21, <1>22, <1>23 DEF FdOwned
  <1> QED
    BY <1>15, <1>17, <1>24 DEF FdInv

LEMMA ForgetKeeps ==
    ASSUME NEW p \in FdPair, FdInv(p), NEW q, p.wire.sends # <<>>, Head(p.wire.sends).doomed,
           q = [fd |-> p.fd, wire |-> [p.wire EXCEPT !.sends = Tail(@)]]
    PROVE  FdInv(q)
  <1>1. PICK c \in Controller, w \in FdWire : c = p.fd /\ w = p.wire
    BY DEF FdPair
  <1>2. PICK t \in Seq(Send) : t = Tail(w.sends)
    BY <1>1, SendsTyped
  <1>3. PICK v : v = [w EXCEPT !.sends = t]
    OBVIOUS
  <1>4. v \in FdWire
    BY <1>3 DEF FdWire
  <1>5. v.sends = t /\ v.sent = w.sent /\ v.request = w.request /\ v.stored = w.stored
    BY <1>3 DEF FdWire
  <1>6. q = [fd |-> c, wire |-> v]
    BY <1>1, <1>2, <1>3
  <1>7. q \in FdPair /\ q.fd = c /\ q.wire = v
    <2>1. PICK r : r = [fd |-> c, wire |-> v]
      OBVIOUS
    <2>2. r \in FdPair /\ r.fd = c /\ r.wire = v
      BY <1>4, <2>1 DEF FdPair
    <2> QED
      BY <1>6, <2>1, <2>2
  <1>8. FdSound(q)
    BY <1>1, <1>5, <1>7 DEF FdInv, FdSound, FdRing
  <1>9. ASSUME NEW x \in Buffer PROVE FdBufferOwned(c, v, x)
    <2>1. SendsElsewhere(w.sends, v.sends, x)
      BY <1>1, <1>2, <1>5 DEF SendsElsewhere
    <2>2. FdBufferOwned(c, w, x)
      BY <1>1 DEF FdInv, FdOwned
    <2>3. w.sent \subseteq v.sent
      BY <1>5
    <2> QED
      BY <1>4, <1>5, <2>1, <2>2, <2>3, OtherBuffer
  <1>10. ~c.attached => \A i \in DOMAIN t : t[i].doomed
    <2>1. DOMAIN t = 1..Len(t)
      BY LenProperties
    <2>2. /\ Len(t) = Len(w.sends) - 1 /\ DOMAIN w.sends = 1..Len(w.sends) /\ Len(w.sends) \in Nat
          /\ \A i \in 1..(Len(w.sends) - 1) : t[i] = w.sends[i + 1]
      BY <1>1, <1>2, SendsTyped
    <2>3. \A i \in DOMAIN t : i + 1 \in DOMAIN w.sends /\ t[i] = w.sends[i + 1]
      BY <2>1, <2>2
    <2> QED
      BY <1>1, <2>3 DEF FdInv, FdOwned
  <1> QED
    BY <1>5, <1>7, <1>8, <1>9, <1>10 DEF FdInv, FdOwned

(* All requests are given up; sends that remain are cancelled ones.        *)
FdCancelled(c, w, d, v) ==
    /\ v.request = w.request /\ v.sent = w.sent /\ d.txbrp = {}
    /\ \A i \in DOMAIN v.sends :
          /\ i \in DOMAIN w.sends /\ v.sends[i].doomed /\ v.sends[i] \in Send
          /\ v.sends[i].buffer = w.sends[i].buffer /\ v.sends[i].generation = w.sends[i].generation
    /\ \A b \in Buffer : b \in d.txbto <=> d.state[b] = "complete"
    /\ \/ /\ d.generation = c.generation
          /\ \A b \in Buffer : d.state[b] = IF c.state[b] = "complete" THEN "complete" ELSE "idle"
       \/ \A b \in Buffer : d.generation[b] = c.generation[b] + 1 /\ d.state[b] = "idle"

LEMMA CancelledOwned ==
    ASSUME NEW c \in Controller, NEW w \in FdWire, NEW d \in Controller, NEW v \in FdWire,
           FdOwned(c, w), FdCancelled(c, w, d, v)
    PROVE  FdOwned(d, v)
  <1>1. ASSUME NEW b \in Buffer PROVE FdBufferOwned(d, v, b)
    <2>1. FdBufferOwned(c, w, b)
      BY DEF FdOwned
    <2>2. d.state[b] \in {"complete", "idle"} /\ (d.state[b] = "complete" => c.state[b] = "complete")
      BY DEF FdCancelled
    <2>3. d.state[b] = "complete" => v.request[b] \in v.sent
      BY <2>1, <2>2 DEF FdCancelled, FdBufferOwned
    <2>4. \A i \in DOMAIN v.sends : v.sends[i].buffer = b => FdSendOf(d, v, v.sends[i])
      <3>1. TAKE i \in DOMAIN v.sends
      <3>2. HAVE v.sends[i].buffer = b
      <3>3. PICK s \in Send : s = w.sends[i]
        BY SendsTyped DEF FdCancelled
      <3>4. PICK e \in Send : e = v.sends[i]
        BY DEF FdCancelled
      <3>5. i \in DOMAIN w.sends /\ s.buffer = b /\ e.buffer = b /\ e.doomed /\ e.generation = s.generation
        BY <3>2, <3>3, <3>4 DEF FdCancelled
      <3>6. FdSendOf(c, w, s)
        BY <2>1, <3>3, <3>5 DEF FdBufferOwned
      <3>7. s.generation \in Nat /\ c.generation[b] \in Nat
        BY DEF Send, Controller
      <3>8. s.generation < c.generation[b] \/ (s.generation = c.generation[b] /\ c.state[b] # "complete")
        BY <3>5, <3>6 DEF FdSendOf
      <3>9. e.generation < d.generation[b] \/ (e.generation = d.generation[b] /\ d.state[b] = "idle")
        BY <3>5, <3>7, <3>8 DEF FdCancelled
      <3>10. FdSendOf(d, v, e)
        BY <3>5, <3>9 DEF FdSendOf
      <3> QED
        BY <3>4, <3>10
    <2>5. \A i \in DOMAIN v.sends : v.sends[i].doomed
      BY DEF FdCancelled
    <2>6. b \notin d.txbrp /\ (b \in d.txbto <=> d.state[b] = "complete")
      BY DEF FdCancelled
    <2> QED
      BY <2>2, <2>3, <2>4, <2>5, <2>6 DEF FdBufferOwned
  <1>2. \A i \in DOMAIN v.sends : v.sends[i].doomed
    BY DEF FdCancelled
  <1> QED
    BY <1>1, <1>2 DEF FdOwned

(* The sends a cancellation may leave.                                     *)
FdDoomed(w, v) ==
    /\ v \in FdWire /\ v.request = w.request /\ v.sent = w.sent /\ v.next = w.next
    /\ v.stored = w.stored /\ v.overwritten = w.overwritten
    /\ \A i \in DOMAIN v.sends :
          /\ i \in DOMAIN w.sends /\ v.sends[i].doomed /\ v.sends[i] \in Send
          /\ v.sends[i].buffer = w.sends[i].buffer /\ v.sends[i].generation = w.sends[i].generation

LEMMA SenderCancelled ==
    ASSUME NEW w \in FdWire, NEW kept \in 0..Len(w.sends)
    PROVE  FdDoomed(w, CancelSender(w, kept))
  <1>1. PICK s \in Seq(Send) : s = w.sends
    BY SendsTyped
  <1>2. DOMAIN s = 1..Len(s) /\ Len(s) \in Nat /\ \A i \in DOMAIN s : s[i] \in Send
    BY <1>1, SendsTyped
  <1>3. kept \in Nat /\ \A i \in 1..kept : i \in DOMAIN s
    BY <1>1, <1>2
  <1>4. \A i \in 1..kept : [s[i] EXCEPT !.doomed = TRUE] \in Send
    BY <1>2, <1>3 DEF Send
  <1>5. PICK t : t = [i \in 1..kept |-> [s[i] EXCEPT !.doomed = TRUE]]
    OBVIOUS
  <1>6. t \in [1..kept -> Send]
    BY <1>4, <1>5
  <1>7. t \in Seq(Send) /\ DOMAIN t = 1..kept
    BY <1>3, <1>6, SeqDef
  <1>8. ASSUME NEW i \in 1..kept
        PROVE  t[i].doomed /\ t[i].buffer = s[i].buffer /\ t[i].generation = s[i].generation
    <2>1. PICK e \in Send : e = s[i]
      BY <1>2, <1>3
    <2>2. t[i] = [e EXCEPT !.doomed = TRUE]
      BY <1>5, <2>1
    <2> QED
      BY <2>1, <2>2 DEF Send
  <1>9. PICK v : v = [w EXCEPT !.sends = t]
    OBVIOUS
  <1>10. v = CancelSender(w, kept)
    BY <1>1, <1>5, <1>9 DEF CancelSender, FdWire
  <1>11. v \in FdWire
    BY <1>7, <1>9 DEF FdWire
  <1>12. v.sends = t /\ v.request = w.request /\ v.sent = w.sent /\ v.next = w.next
         /\ v.stored = w.stored /\ v.overwritten = w.overwritten
    BY <1>9 DEF FdWire
  <1>13. \A i \in DOMAIN t : t[i] \in Send
    BY <1>6, <1>7
  <1>14. FdDoomed(w, v)
    BY <1>1, <1>3, <1>7, <1>8, <1>11, <1>12, <1>13 DEF FdDoomed
  <1> QED
    BY <1>10, <1>14

LEMMA BusDetached ==
    ASSUME NEW c \in Controller, FdLines(c), NEW w \in FdWire, FdOwned(c, w)
    PROVE  LET d == DetachBus(c)
           IN  /\ d \in Controller /\ FdSameRx(c, d) /\ FdSameMode(c, d) /\ FdLines(d) /\ FdSettled(d)
               /\ d.txbrp = {} /\ d.generation = c.generation /\ d.attached = FALSE /\ d.tx = c.tx
               /\ \A b \in Buffer : /\ d.state[b] = IF c.state[b] = "complete" THEN "complete" ELSE "idle"
                                    /\ b \in d.txbto <=> d.state[b] = "complete"
  <1>1. PICK st \in [Buffer -> {"idle", "pending", "complete"}] :
            st = [b \in Buffer |-> IF c.state[b] = "pending" THEN "idle" ELSE c.state[b]]
    BY DEF Controller
  <1>2. PICK e : e = [c EXCEPT !.txbrp = {}, !.state = st]
    OBVIOUS
  <1>3. e \in Controller
    BY <1>2 DEF Controller
  <1>4. /\ FdSameRx(c, e) /\ FdSameMode(c, e) /\ FdSameLines(c, e) /\ e.txbrp = {} /\ e.state = st
        /\ e.txbto = c.txbto /\ e.generation = c.generation /\ e.tx = c.tx
    BY <1>2 DEF Controller, FdSameRx, FdSameMode, FdSameLines
  <1>5. PICK f : f = UpdateTxFifoStatus(e)
    OBVIOUS
  <1>6. /\ f \in Controller /\ FdSameTx(e, f) /\ FdSameRx(e, f) /\ FdSameMode(e, f)
        /\ FdSameLines(e, f) /\ FdSettled(f)
    BY <1>3, <1>5, StatusUpdated
  <1>7. PICK d : d = [f EXCEPT !.attached = FALSE]
    OBVIOUS
  <1>8. d = DetachBus(c)
    BY <1>1, <1>2, <1>5, <1>7 DEF DetachBus, Controller
  <1>9. d \in Controller
    BY <1>6, <1>7 DEF Controller
  <1>10. /\ FdSameRx(f, d) /\ FdSameMode(f, d) /\ FdSameLines(f, d) /\ FdSameIndices(f, d)
         /\ d.txbrp = f.txbrp /\ d.state = f.state /\ d.txbto = f.txbto
         /\ d.generation = f.generation /\ d.attached = FALSE /\ d.tx = f.tx
    BY <1>6, <1>7 DEF Controller, FdSameRx, FdSameMode, FdSameLines, FdSameIndices
  <1>11. FdSettled(d)
    BY <1>6, <1>10 DEF FdSettled, FdSameIndices
  <1>12. FdSameLines(c, d)
    BY <1>4, <1>6, <1>10 DEF FdSameLines
  <1>13. FdLines(d)
    BY <1>12, SameLinesKept
  <1>14. d.state = st /\ d.txbrp = {} /\ d.txbto = c.txbto /\ d.generation = c.generation /\ d.tx = c.tx
         /\ FdSameRx(c, d) /\ FdSameMode(c, d)
    BY <1>4, <1>6, <1>10 DEF FdSameTx, FdSameRx, FdSameMode
  <1>15. ASSUME NEW b \in Buffer
         PROVE  /\ d.state[b] = IF c.state[b] = "complete" THEN "complete" ELSE "idle"
                /\ b \in d.txbto <=> d.state[b] = "complete"
    <2>1. c.state[b] \in {"idle", "pending", "complete"}
      BY DEF Controller
    <2>2. b \in c.txbto <=> c.state[b] = "complete"
      BY DEF FdOwned, FdBufferOwned
    <2>3. st[b] = IF c.state[b] = "pending" THEN "idle" ELSE c.state[b]
      BY <1>1
    <2> QED
      BY <1>14, <2>1, <2>2, <2>3
  <1> QED
    BY <1>8, <1>9, <1>10, <1>11, <1>13, <1>14, <1>15

LEMMA ControllerReset ==
    ASSUME NEW c \in Controller
    PROVE  LET d == OnReset(c)
           IN  /\ d \in Controller /\ FdLines(d) /\ FdSettled(d) /\ d.txbrp = {} /\ d.txbto = {}
               /\ d.rx_fill = 0 /\ d.rx_get = 0 /\ d.rx_put = 0 /\ d.rx = c.rx /\ d.tx = c.tx
               /\ d.tx_get = 0 /\ d.tx_put = 0 /\ d.attached = c.attached
               /\ \A b \in Buffer : d.generation[b] = c.generation[b] + 1 /\ d.state[b] = "idle"
  <1>1. PICK st \in [Buffer -> {"idle", "pending", "complete"}] : st = [b \in Buffer |-> "idle"]
    OBVIOUS
  <1>10. \A b \in Buffer : c.generation[b] + 1 \in Nat
    BY DEF Controller
  <1>2. PICK gen \in [Buffer -> Nat] : gen = [b \in Buffer |-> c.generation[b] + 1]
    BY <1>10
  <1>3. PICK d : d = OnReset(c)
    OBVIOUS
  <1>4. d = [c EXCEPT !.mode = "initialization", !.cccr = {"init"},
              !.ir = {}, !.ie = {}, !.ils = {}, !.ile = {}, !.level = {},
              !.asserted = {}, !.setup = ResetSetup,
              !.rx_fill = 0, !.rx_get = 0, !.rx_put = 0, !.rx_lost = FALSE,
              !.txbrp = {}, !.txbto = {}, !.txbtie = {}, !.state = st, !.generation = gen,
              !.tx_get = 0, !.tx_put = 0]
    BY <1>1, <1>2, <1>3 DEF OnReset
  <1>5. 0 \in Buffer /\ 0 \in RxSlot /\ 0 \in 0..RxSlots /\ {"init"} \in SUBSET CccrBit
        /\ ResetSetup \in Setups \cup {ResetSetup}
    BY SlotAssumption DEF Buffer, RxSlot, CccrBit
  <1>6. d \in Controller
    BY <1>4, <1>5, ZenonT(60) DEF Controller
  <1>7. /\ d.txbrp = {} /\ d.txbto = {} /\ d.rx_fill = 0 /\ d.rx_get = 0 /\ d.rx_put = 0
        /\ d.tx_get = 0 /\ d.tx_put = 0 /\ d.state = st /\ d.generation = gen
        /\ d.ir = {} /\ d.ile = {} /\ d.level = {} /\ d.asserted = {} /\ d.rx_lost = FALSE
        /\ d.rx = c.rx /\ d.tx = c.tx /\ d.attached = c.attached
    BY <1>4 DEF Controller
  <1>8. FdLines(d)
    BY <1>7 DEF FdLines, InterruptLinePending
  <1>9. FdSettled(d)
    BY <1>7 DEF FdSettled
  <1> QED
    BY <1>1, <1>2, <1>3, <1>6, <1>7, <1>8, <1>9

-----------------------------------------------------------------------------
(* Register writes. *)

(* A step of the controller that touches no request and no stored frame.   *)
FdQuiet(c, d) ==
    /\ d \in Controller /\ FdSameRx(c, d) /\ FdSameIndices(c, d) /\ FdLines(d)
    /\ d.txbrp = c.txbrp /\ d.txbto = c.txbto /\ d.state = c.state
    /\ d.generation = c.generation /\ d.attached = c.attached

LEMMA OwnKept ==
    ASSUME NEW c, NEW d, NEW w, NEW v, FdOwned(c, w),
           d.txbrp = c.txbrp, d.txbto = c.txbto, d.state = c.state,
           d.generation = c.generation, d.attached = c.attached,
           v.sends = w.sends, v.request = w.request, v.sent = w.sent
    PROVE  FdOwned(d, v)
  <1>1. ASSUME NEW b \in Buffer PROVE FdBufferOwned(d, v, b)
    <2>1. FdBufferOwned(c, w, b)
      BY DEF FdOwned
    <2>2. \A i \in DOMAIN w.sends : FdSendOf(c, w, w.sends[i]) <=> FdSendOf(d, v, v.sends[i])
      BY DEF FdSendOf
    <2> QED
      BY <2>1, <2>2 DEF FdBufferOwned
  <1> QED
    BY <1>1 DEF FdOwned

LEMMA QuietKeeps ==
    ASSUME NEW p \in FdPair, FdInv(p), NEW d, FdQuiet(p.fd, d)
    PROVE  FdInv([fd |-> d, wire |-> p.wire])
  <1>1. PICK q : q = [fd |-> d, wire |-> p.wire]
    OBVIOUS
  <1>2. q \in FdPair /\ q.fd = d /\ q.wire = p.wire
    BY <1>1 DEF FdPair, FdQuiet
  <1>3. FdRing(d, p.wire)
    BY SameRxRing DEF FdInv, FdSound, FdQuiet
  <1>4. FdSettled(d)
    BY DEF FdInv, FdSound, FdQuiet, FdSettled, FdSameIndices
  <1>5. FdOwned(d, p.wire)
    BY OwnKept DEF FdInv, FdQuiet
  <1> QED
    BY <1>1, <1>2, <1>3, <1>4, <1>5 DEF FdInv, FdSound, FdQuiet

LEMMA ControlQuiet ==
    ASSUME NEW c \in Controller, FdLines(c), NEW value \in SUBSET CccrBit
    PROVE  FdQuiet(c, ApplyControllerControl(c, value))
  <1>1. PICK control \in SUBSET CccrBit :
            control = LET asked == IF "csr" \in value THEN value \cup {"init", "csa"} ELSE value \ {"csa"}
                      IN  IF "init" \in asked THEN asked ELSE asked \ {"cce"}
    BY DEF CccrBit
  <1>2. PICK settled \in {"initialization", "normal", "sleep"} :
            settled = IF "csr" \in control THEN "sleep"
                      ELSE IF "init" \in control THEN "initialization" ELSE "normal"
    OBVIOUS
  <1>3. PICK d : d = [c EXCEPT !.cccr = control, !.mode = settled]
    OBVIOUS
  <1>4. d = ApplyControllerControl(c, value)
    BY <1>1, <1>2, <1>3 DEF ApplyControllerControl
  <1>5. d \in Controller
    BY <1>3 DEF Controller
  <1>6. /\ FdSameRx(c, d) /\ FdSameIndices(c, d) /\ FdSameLines(c, d)
        /\ d.txbrp = c.txbrp /\ d.txbto = c.txbto /\ d.state = c.state
        /\ d.generation = c.generation /\ d.attached = c.attached
    BY <1>3 DEF Controller, FdSameRx, FdSameIndices, FdSameLines
  <1>7. FdLines(d)
    BY <1>6, SameLinesKept
  <1>8. FdQuiet(c, d)
    BY <1>5, <1>6, <1>7 DEF FdQuiet
  <1> QED
    BY <1>4, <1>8

LEMMA ClearQuiet ==
    ASSUME NEW c \in Controller, FdLines(c), NEW cleared
    PROVE  FdQuiet(c, ClearIr(c, cleared))
  <1>1. PICK ir \in SUBSET Flag, lost \in BOOLEAN :
            ir = c.ir \ cleared /\ lost = (c.rx_lost /\ "rx_lost" \notin cleared)
    BY DEF Controller
  <1>2. PICK e : e = [c EXCEPT !.ir = ir, !.rx_lost = lost]
    OBVIOUS
  <1>3. e \in Controller
    BY <1>2 DEF Controller
  <1>4. /\ FdSameRx(c, e) /\ FdSameIndices(c, e) /\ FdSameTx(c, e) /\ e.ir = ir /\ e.rx_lost = lost
    BY <1>2 DEF Controller, FdSameRx, FdSameIndices, FdSameTx
  <1>5. PICK d : d = UpdateInterruptLines(e)
    OBVIOUS
  <1>6. /\ d \in Controller /\ FdSameTx(e, d) /\ FdSameRx(e, d) /\ FdSameIndices(e, d)
        /\ d.rx_lost = e.rx_lost /\ d.ir = e.ir
        /\ d.level = {line \in Line : InterruptLinePending(d, line)} /\ d.asserted = d.level
    BY <1>3, <1>5, LinesUpdated
  <1>7. d = ClearIr(c, cleared)
    BY <1>1, <1>2, <1>5 DEF ClearIr, Controller
  <1>8. lost <=> "rx_lost" \in ir
    BY <1>1 DEF FdLines
  <1>9. FdLines(d)
    BY <1>4, <1>6, <1>8 DEF FdLines
  <1>10. FdQuiet(c, d)
    BY <1>4, <1>6, <1>9 DEF FdQuiet, FdSameTx, FdSameRx, FdSameIndices
  <1> QED
    BY <1>7, <1>10

LEMMA SelectQuiet ==
    ASSUME NEW c \in Controller, FdLines(c), NEW ie \in SUBSET Flag, NEW ils \in SUBSET Group,
           NEW ile \in SUBSET Line
    PROVE  FdQuiet(c, Select(c, ie, ils, ile))
  <1>2. PICK e : e = [c EXCEPT !.ie = ie, !.ils = ils, !.ile = ile]
    OBVIOUS
  <1>3. e \in Controller
    BY <1>2 DEF Controller
  <1>4. /\ FdSameRx(c, e) /\ FdSameIndices(c, e) /\ FdSameTx(c, e) /\ e.ir = c.ir /\ e.rx_lost = c.rx_lost
    BY <1>2 DEF Controller, FdSameRx, FdSameIndices, FdSameTx
  <1>5. PICK d : d = UpdateInterruptLines(e)
    OBVIOUS
  <1>6. /\ d \in Controller /\ FdSameTx(e, d) /\ FdSameRx(e, d) /\ FdSameIndices(e, d)
        /\ d.rx_lost = e.rx_lost /\ d.ir = e.ir
        /\ d.level = {line \in Line : InterruptLinePending(d, line)} /\ d.asserted = d.level
    BY <1>3, <1>5, LinesUpdated
  <1>7. d = Select(c, ie, ils, ile)
    BY <1>2, <1>5 DEF Select
  <1>9. FdLines(d)
    BY <1>4, <1>6 DEF FdLines
  <1>10. FdQuiet(c, d)
    BY <1>4, <1>6, <1>9 DEF FdQuiet, FdSameTx, FdSameRx, FdSameIndices
  <1> QED
    BY <1>7, <1>10

LEMMA PlainQuiet ==
    ASSUME NEW c \in Controller, FdLines(c), NEW d,
           \/ \E value \in SUBSET Buffer : d = [c EXCEPT !.txbtie = value]
           \/ \E value \in Setups : d = [c EXCEPT !.setup = value]
           \/ \E value \in [Buffer -> Frames] : d = [c EXCEPT !.tx = value]
    PROVE  FdQuiet(c, d)
  <1>1. d \in Controller
    BY DEF Controller
  <1>2. /\ FdSameRx(c, d) /\ FdSameIndices(c, d) /\ FdSameLines(c, d)
        /\ d.txbrp = c.txbrp /\ d.txbto = c.txbto /\ d.state = c.state
        /\ d.generation = c.generation /\ d.attached = c.attached
    BY DEF Controller, FdSameRx, FdSameIndices, FdSameLines
  <1>3. FdLines(d)
    BY <1>2, SameLinesKept
  <1> QED
    BY <1>1, <1>2, <1>3 DEF FdQuiet

-----------------------------------------------------------------------------
(* Every action of the controller, its driver and its bus. *)

LEMMA MachineTyped ==
    ASSUME FdInv(Machine)
    PROVE  /\ Machine \in FdPair /\ fd \in Controller /\ wire \in FdWire
           /\ FdLines(fd) /\ FdSettled(fd) /\ FdRing(fd, wire) /\ FdOwned(fd, wire)
  <1>1. Machine \in FdPair /\ Machine.fd = fd /\ Machine.wire = wire
    BY DEF FdInv, FdSound, Machine
  <1> QED
    BY <1>1 DEF FdInv, FdSound, FdPair

LEMMA MachineNext ==
    ASSUME NEW d, NEW v, fd' = d, wire' = v, FdInv([fd |-> d, wire |-> v])
    PROVE  FdInv(Machine)'
  BY DEF Machine

LEMMA QuietStep ==
    ASSUME FdInv(Machine), NEW d, FdQuiet(fd, d), fd' = d, wire' = wire
    PROVE  FdInv(Machine)'
  <1>1. PICK p : p = Machine
    OBVIOUS
  <1>2. p \in FdPair /\ p.fd = fd /\ p.wire = wire /\ FdInv(p)
    BY <1>1, MachineTyped DEF Machine
  <1>3. FdInv([fd |-> d, wire |-> p.wire])
    BY <1>2, QuietKeeps
  <1> QED
    BY <1>2, <1>3, MachineNext

LEMMA ConfigureQuiet ==
    ASSUME FdInv(Machine), Configure, NEW d, d = fd'
    PROVE  FdQuiet(fd, d) /\ wire' = wire
  <1>1. PICK c \in Controller : c = fd /\ FdLines(c)
    BY MachineTyped
  <1>2. wire' = wire
    BY DEF Configure, WriteCccr, WriteIr, WriteIe, WriteIls, WriteIle, WriteTxbtie, WriteSetup,
           WriteTxElement
  <1>3. c.ie \in SUBSET Flag /\ c.ils \in SUBSET Group /\ c.ile \in SUBSET Line /\ c.tx \in [Buffer -> Frames]
    BY DEF Controller
  <1>5. FdQuiet(c, d)
    <2>1. CASE WriteCccr
      <3>1. PICK value \in SUBSET CccrBit : d = ApplyControllerControl(c, value)
        BY <1>1, <2>1, ValueAssumption DEF WriteCccr
      <3> QED
        BY <1>1, <3>1, ControlQuiet
    <2>2. CASE WriteIr
      <3>1. PICK cleared : d = ClearIr(c, cleared)
        BY <1>1, <2>2 DEF WriteIr
      <3> QED
        BY <1>1, <3>1, ClearQuiet
    <2>3. CASE WriteIe
      <3>1. PICK value \in SUBSET Flag : d = Select(c, value, c.ils, c.ile)
        BY <1>1, <2>3, ValueAssumption DEF WriteIe
      <3> QED
        BY <1>1, <1>3, <3>1, SelectQuiet
    <2>4. CASE WriteIls
      <3>1. PICK value \in SUBSET Group : d = Select(c, c.ie, value, c.ile)
        BY <1>1, <2>4, ValueAssumption DEF WriteIls
      <3> QED
        BY <1>1, <1>3, <3>1, SelectQuiet
    <2>5. CASE WriteIle
      <3>1. PICK value \in SUBSET Line : d = Select(c, c.ie, c.ils, value)
        BY <1>1, <2>5, ValueAssumption DEF WriteIle
      <3> QED
        BY <1>1, <1>3, <3>1, SelectQuiet
    <2>6. CASE WriteTxbtie
      <3>1. PICK value \in SUBSET Buffer : d = [c EXCEPT !.txbtie = value]
        BY <1>1, <2>6, ValueAssumption DEF WriteTxbtie
      <3> QED
        BY <1>1, <3>1, PlainQuiet
    <2>7. CASE WriteSetup
      <3>1. PICK value \in Setups : d = [c EXCEPT !.setup = value]
        BY <1>1, <2>7 DEF WriteSetup
      <3> QED
        BY <1>1, <3>1, PlainQuiet
    <2>8. CASE WriteTxElement
      <3>1. PICK b \in Buffer, frame \in Frames : d = [c EXCEPT !.tx[b] = frame]
        BY <1>1, <2>8 DEF WriteTxElement
      <3>2. PICK tx \in [Buffer -> Frames] : tx = [c.tx EXCEPT ![b] = frame]
        BY <1>3
      <3>3. d = [c EXCEPT !.tx = tx]
        BY <3>1, <3>2 DEF Controller
      <3> QED
        BY <1>1, <3>3, PlainQuiet
    <2> QED
      BY <2>1, <2>2, <2>3, <2>4, <2>5, <2>6, <2>7, <2>8 DEF Configure
  <1> QED
    BY <1>1, <1>2, <1>5

LEMMA ConfigureKeeps ==
    ASSUME FdInv(Machine), Configure
    PROVE  FdInv(Machine)'
  <1>1. PICK d : d = fd'
    OBVIOUS
  <1>2. FdQuiet(fd, d) /\ wire' = wire
    BY <1>1, ConfigureQuiet
  <1> QED
    BY <1>1, <1>2, QuietStep

LEMMA AcknowledgeKeeps ==
    ASSUME FdInv(Machine), NEW slot, fd' = AcknowledgeRxFifo0(fd, slot), wire' = wire
    PROVE  FdInv(Machine)'
  <1>1. PICK c \in Controller, w \in FdWire :
            c = fd /\ w = wire /\ FdLines(c) /\ FdSettled(c) /\ FdRing(c, w) /\ FdOwned(c, w)
    BY MachineTyped
  <1>2. PICK d : d = AcknowledgeRxFifo0(c, slot)
    OBVIOUS
  <1>3. \/ d = c
        \/ /\ d \in Controller /\ FdSameTx(c, d) /\ FdSameMode(c, d) /\ FdSameIndices(c, d)
           /\ FdLines(d) /\ \E freed \in Nat : FdAcked(c, d, slot, freed)
    BY <1>1, <1>2, Acknowledged
  <1>4. CASE d = c
    BY <1>1, <1>2, <1>4 DEF Machine
  <1>5. CASE d # c
    <2>1. /\ d \in Controller /\ FdSameTx(c, d) /\ FdSameIndices(c, d) /\ FdLines(d)
      BY <1>3, <1>5
    <2>2. FdRing(d, w)
      BY <1>1, <1>3, <1>5, RingAcked
    <2>3. FdOwned(d, w)
      BY <1>1, <2>1, OwnKept DEF FdSameTx
    <2>4. FdSettled(d)
      BY <1>1, <2>1 DEF FdSettled, FdSameTx, FdSameIndices
    <2>5. PICK q : q = [fd |-> d, wire |-> w]
      OBVIOUS
    <2>6. q \in FdPair /\ q.fd = d /\ q.wire = w
      BY <2>1, <2>5 DEF FdPair
    <2>7. FdInv(q)
      BY <2>1, <2>2, <2>3, <2>4, <2>6 DEF FdInv, FdSound
    <2> QED
      BY <1>1, <1>2, <2>5, <2>7, MachineNext
  <1> QED
    BY <1>4, <1>5

LEMMA RequestKeeps ==
    ASSUME FdInv(Machine), NEW requests, NEW answer, \A b \in requests : answer[b] \in SendAnswers,
           Request(requests, answer)
    PROVE  FdInv(Machine)'
  <1>1. PICK after : after = RequestAll(requests, answer)
    OBVIOUS
  <1>2. \A b \in requests : answer[b] \in Answer
    BY ValueAssumption
  <1>3. FdInv(after)
    BY <1>1, <1>2, RequestsServed
  <1>4. fd' = after.fd /\ wire' = after.wire
    BY <1>1 DEF Request
  <1>5. after = [fd |-> after.fd, wire |-> after.wire]
    BY <1>3 DEF FdInv, FdSound, FdPair
  <1> QED
    BY <1>3, <1>4, <1>5, MachineNext

LEMMA DeliverKeeps ==
    ASSUME FdInv(Machine), Deliver
    PROVE  FdInv(Machine)'
  <1>1. PICK p : p = Machine
    OBVIOUS
  <1>2. PICK frame \in Frames : fd' = ReceiveFrame(p, frame).fd /\ wire' = ReceiveFrame(p, frame).wire
    BY <1>1 DEF Deliver
  <1>3. PICK q : q = ReceiveFrame(p, frame)
    OBVIOUS
  <1>4. p \in FdPair /\ FdInv(p)
    BY <1>1, MachineTyped
  <1>5. FdReceived(p, q)
    BY <1>3, <1>4, FrameReceived DEF FdInv, FdSound
  <1>6. FdSound(q)
    BY <1>4, <1>5, ReceivedSound DEF FdInv
  <1>7. FdOwned(q.fd, q.wire)
    BY <1>4, <1>5, OwnKept DEF FdInv, FdReceived, FdSameTx
  <1>8. q = [fd |-> q.fd, wire |-> q.wire]
    BY <1>6 DEF FdSound, FdPair
  <1> QED
    BY <1>2, <1>3, <1>6, <1>7, <1>8, MachineNext DEF FdInv

LEMMA CompleteKeeps ==
    ASSUME FdInv(Machine), Complete
    PROVE  FdInv(Machine)'
  <1>1. PICK p : p = Machine
    OBVIOUS
  <1>2. p \in FdPair /\ p.fd = fd /\ p.wire = wire /\ FdInv(p)
    BY <1>1, MachineTyped DEF Machine
  <1>3. PICK success \in BOOLEAN :
            /\ fd' = Completion(fd, Head(wire.sends).buffer, Head(wire.sends).generation, success)
            /\ wire' = [wire EXCEPT !.sends = Tail(@),
                                    !.sent = IF success THEN @ \cup {Head(wire.sends).request} ELSE @]
    BY DEF Complete
  <1>4. PICK q : q = [fd |-> fd', wire |-> wire']
    OBVIOUS
  <1>5. FdHeadDone(p, q, success)
    BY <1>2, <1>3, <1>4 DEF FdHeadDone, Complete
  <1>6. FdInv(q)
    BY <1>2, <1>5, HeadDoneKeeps
  <1> QED
    BY <1>4, <1>6, MachineNext

LEMMA ForgetStep ==
    ASSUME FdInv(Machine), Forget
    PROVE  FdInv(Machine)'
  <1>1. PICK p : p = Machine
    OBVIOUS
  <1>2. p \in FdPair /\ p.fd = fd /\ p.wire = wire /\ FdInv(p)
    BY <1>1, MachineTyped DEF Machine
  <1>3. PICK q : q = [fd |-> p.fd, wire |-> [p.wire EXCEPT !.sends = Tail(@)]]
    OBVIOUS
  <1>4. p.wire.sends # <<>> /\ Head(p.wire.sends).doomed
    BY <1>2 DEF Forget
  <1>5. FdInv(q)
    BY <1>2, <1>3, <1>4, ForgetKeeps
  <1>6. q = [fd |-> fd', wire |-> wire']
    BY <1>2, <1>3 DEF Forget
  <1> QED
    BY <1>5, <1>6, MachineNext

(* The controller is detached, and perhaps attached again.                 *)
LEMMA DetachedKeeps ==
    ASSUME FdInv(Machine), NEW kept \in 0..Len(wire.sends), NEW ok \in BOOLEAN,
           fd' = [DetachBus(fd) EXCEPT !.attached = ok], wire' = CancelSender(wire, kept)
    PROVE  FdInv(Machine)'
  <1>1. PICK c \in Controller, w \in FdWire :
            c = fd /\ w = wire /\ FdLines(c) /\ FdSettled(c) /\ FdRing(c, w) /\ FdOwned(c, w)
    BY MachineTyped
  <1>2. PICK e : e = DetachBus(c)
    OBVIOUS
  <1>3. /\ e \in Controller /\ FdSameRx(c, e) /\ FdLines(e) /\ FdSettled(e)
        /\ e.txbrp = {} /\ e.generation = c.generation
        /\ \A b \in Buffer : /\ e.state[b] = IF c.state[b] = "complete" THEN "complete" ELSE "idle"
                             /\ b \in e.txbto <=> e.state[b] = "complete"
    BY <1>1, <1>2, BusDetached
  <1>4. PICK d : d = [e EXCEPT !.attached = ok]
    OBVIOUS
  <1>5. d \in Controller
    BY <1>3, <1>4 DEF Controller
  <1>6. /\ FdSameRx(e, d) /\ FdSameLines(e, d) /\ FdSameIndices(e, d) /\ d.txbrp = e.txbrp
        /\ d.txbto = e.txbto /\ d.state = e.state /\ d.generation = e.generation
    BY <1>3, <1>4 DEF Controller, FdSameRx, FdSameLines, FdSameIndices
  <1>7. PICK v : v = CancelSender(w, kept)
    OBVIOUS
  <1>8. FdDoomed(w, v)
    BY <1>1, <1>7, SenderCancelled
  <1>9. v \in FdWire
    BY <1>8 DEF FdDoomed
  <1>10. FdCancelled(c, w, d, v)
    BY <1>3, <1>6, <1>8 DEF FdCancelled, FdDoomed
  <1>11. FdOwned(d, v)
    BY <1>1, <1>5, <1>9, <1>10, CancelledOwned
  <1>12. FdLines(d)
    BY <1>3, <1>6, SameLinesKept
  <1>13. FdSettled(d)
    BY <1>3, <1>6 DEF FdSettled, FdSameIndices
  <1>14. FdSameRx(c, d) /\ v.stored = w.stored
    BY <1>3, <1>6, <1>8 DEF FdSameRx, FdDoomed
  <1>15. FdRing(d, v)
    BY <1>1, <1>14, SameRxRing
  <1>16. PICK q : q = [fd |-> d, wire |-> v]
    OBVIOUS
  <1>17. q \in FdPair /\ q.fd = d /\ q.wire = v
    BY <1>5, <1>9, <1>16 DEF FdPair
  <1>18. FdInv(q)
    BY <1>11, <1>12, <1>13, <1>15, <1>17 DEF FdInv, FdSound
  <1>19. fd' = d /\ wire' = v
    BY <1>1, <1>2, <1>4, <1>7
  <1> QED
    BY <1>16, <1>18, <1>19, MachineNext

LEMMA AttachKeeps ==
    ASSUME FdInv(Machine), AttachBus
    PROVE  FdInv(Machine)'
  <1>1. PICK kept \in 0..Len(wire.sends), ok \in BOOLEAN :
            /\ fd' = [(IF fd.attached THEN DetachBus(fd) ELSE fd) EXCEPT !.attached = ok]
            /\ wire' = IF fd.attached THEN CancelSender(wire, kept) ELSE wire
    BY DEF AttachBus
  <1>2. CASE fd.attached
    BY <1>1, <1>2, DetachedKeeps
  <1>3. CASE ~fd.attached
    <2>1. PICK c \in Controller, w \in FdWire :
              c = fd /\ w = wire /\ FdLines(c) /\ FdSettled(c) /\ FdRing(c, w) /\ FdOwned(c, w)
      BY MachineTyped
    <2>2. PICK d : d = [c EXCEPT !.attached = ok]
      OBVIOUS
    <2>3. fd' = d /\ wire' = w
      BY <1>1, <1>3, <2>1, <2>2
    <2>4. d \in Controller
      BY <2>2 DEF Controller
    <2>5. /\ FdSameRx(c, d) /\ FdSameLines(c, d) /\ FdSameIndices(c, d) /\ d.txbrp = c.txbrp
          /\ d.txbto = c.txbto /\ d.state = c.state /\ d.generation = c.generation
      BY <2>2 DEF Controller, FdSameRx, FdSameLines, FdSameIndices
    <2>6. FdLines(d)
      BY <2>1, <2>5, SameLinesKept
    <2>7. FdSettled(d)
      BY <2>1, <2>5 DEF FdSettled, FdSameIndices
    <2>8. FdRing(d, w)
      BY <2>1, <2>5, SameRxRing
    <2>9. \A i \in DOMAIN w.sends : w.sends[i].doomed
      BY <1>3, <2>1 DEF FdOwned
    <2>10. ASSUME NEW b \in Buffer PROVE FdBufferOwned(d, w, b)
      <3>1. FdBufferOwned(c, w, b)
        BY <2>1 DEF FdOwned
      <3>2. SendsElsewhere(w.sends, w.sends, b) /\ w.sent \subseteq w.sent
        BY DEF SendsElsewhere
      <3> QED
        BY <2>4, <2>5, <3>1, <3>2, OtherBuffer
    <2>11. FdOwned(d, w)
      BY <2>9, <2>10 DEF FdOwned
    <2>12. PICK q : q = [fd |-> d, wire |-> w]
      OBVIOUS
    <2>13. q \in FdPair /\ q.fd = d /\ q.wire = w
      BY <2>4, <2>12 DEF FdPair
    <2>14. FdInv(q)
      BY <2>6, <2>7, <2>8, <2>11, <2>13 DEF FdInv, FdSound
    <2> QED
      BY <2>3, <2>12, <2>14, MachineNext
  <1> QED
    BY <1>2, <1>3

LEMMA DetachKeeps ==
    ASSUME FdInv(Machine), Detach
    PROVE  FdInv(Machine)'
  <1>1. PICK kept \in 0..Len(wire.sends) : wire' = CancelSender(wire, kept)
    BY DEF Detach
  <1>2. PICK c \in Controller, w \in FdWire : c = fd /\ w = wire /\ FdLines(c) /\ FdOwned(c, w)
    BY MachineTyped
  <1>3. PICK e : e = DetachBus(c)
    OBVIOUS
  <1>4. e \in Controller /\ e.attached = FALSE
    BY <1>2, <1>3, BusDetached
  <1>5. e = [e EXCEPT !.attached = FALSE]
    BY <1>4 DEF Controller
  <1>6. fd' = [DetachBus(fd) EXCEPT !.attached = FALSE]
    BY <1>2, <1>3, <1>5 DEF Detach
  <1> QED
    BY <1>1, <1>6, DetachedKeeps

LEMMA ResetKeeps ==
    ASSUME FdInv(Machine), Reset
    PROVE  FdInv(Machine)'
  <1>1. PICK c \in Controller, w \in FdWire : c = fd /\ w = wire /\ FdOwned(c, w)
    BY MachineTyped
  <1>2. PICK kept \in 0..Len(w.sends) :
            wire' = [(IF c.attached THEN CancelSender(w, kept) ELSE w)
                        EXCEPT !.stored = 0, !.overwritten = FALSE]
    BY <1>1 DEF Reset
  <1>3. PICK u : u = IF c.attached THEN CancelSender(w, kept) ELSE w
    OBVIOUS
  <1>4. FdDoomed(w, u)
    <2>1. CASE c.attached
      BY <1>3, <2>1, SenderCancelled
    <2>2. CASE ~c.attached
      <3>1. \A i \in DOMAIN w.sends : w.sends[i].doomed
        BY <1>1, <2>2 DEF FdOwned
      <3> QED
        BY <1>3, <2>2, <3>1, SendsTyped DEF FdDoomed
    <2> QED
      BY <2>1, <2>2
  <1>5. PICK v : v = [u EXCEPT !.stored = 0, !.overwritten = FALSE]
    OBVIOUS
  <1>6. u \in FdWire
    BY <1>4 DEF FdDoomed
  <1>7. v \in FdWire
    BY <1>5, <1>6 DEF FdWire
  <1>8. v.sends = u.sends /\ v.request = u.request /\ v.sent = u.sent /\ v.stored = 0
    BY <1>5, <1>6 DEF FdWire
  <1>9. PICK d : d = OnReset(c)
    OBVIOUS
  <1>10. /\ d \in Controller /\ FdLines(d) /\ FdSettled(d) /\ d.txbrp = {} /\ d.txbto = {}
         /\ d.rx_fill = 0 /\ d.rx_get = 0 /\ d.rx_put = 0
         /\ \A b \in Buffer : d.generation[b] = c.generation[b] + 1 /\ d.state[b] = "idle"
    BY <1>9, ControllerReset
  <1>11. FdCancelled(c, w, d, v)
    BY <1>4, <1>8, <1>10 DEF FdCancelled, FdDoomed
  <1>12. FdOwned(d, v)
    BY <1>1, <1>7, <1>10, <1>11, CancelledOwned
  <1>13. FdRing(d, v)
    <2>1. (0 + 0) % RxSlots = 0
      BY SlotAssumption, RingAt
    <2>2. \A k \in 1..0 : FALSE
      OBVIOUS
    <2> QED
      BY <1>8, <1>10, <2>1, <2>2 DEF FdRing
  <1>14. PICK q : q = [fd |-> d, wire |-> v]
    OBVIOUS
  <1>15. q \in FdPair /\ q.fd = d /\ q.wire = v
    BY <1>7, <1>10, <1>14 DEF FdPair
  <1>16. FdInv(q)
    BY <1>10, <1>12, <1>13, <1>15 DEF FdInv, FdSound
  <1>17. fd' = d /\ wire' = v
    BY <1>1, <1>2, <1>3, <1>5, <1>9 DEF Reset
  <1> QED
    BY <1>14, <1>16, <1>17, MachineNext

LEMMA MachineStarts ==
    ASSUME Init
    PROVE  FdInv(Machine) /\ fd.attached = FALSE
  <1>1. PICK d : d = fd
    OBVIOUS
  <1>2. PICK v : v = wire
    OBVIOUS
  <1>3. PICK rx \in [RxSlot -> Element], tx \in [Buffer -> Frames],
             st \in [Buffer -> {"idle", "pending", "complete"}], gen \in [Buffer -> Nat] :
            rx = [s \in RxSlot |-> NoElement] /\ tx = [b \in Buffer |-> ZeroFrame]
            /\ st = [b \in Buffer |-> "idle"] /\ gen = [b \in Buffer |-> 1]
    BY FrameAssumption DEF NoElement, Element
  <1>4. d = [mode |-> "initialization", cccr |-> {"init"}, ir |-> {},
             ie |-> {}, ils |-> {}, ile |-> {}, asserted |-> {}, level |-> {},
             setup |-> ResetSetup, rx |-> rx,
             rx_fill |-> 0, rx_get |-> 0, rx_put |-> 0, rx_lost |-> FALSE,
             tx |-> tx, txbrp |-> {}, txbto |-> {},
             txbtie |-> {}, state |-> st, generation |-> gen, tx_get |-> 0, tx_put |-> 0,
             attached |-> FALSE]
    BY <1>1, <1>3 DEF Init
  <1>5. 0 \in Buffer /\ 0 \in RxSlot /\ 0 \in 0..RxSlots /\ {"init"} \in SUBSET CccrBit
        /\ ResetSetup \in Setups \cup {ResetSetup}
    BY SlotAssumption DEF Buffer, RxSlot, CccrBit
  <1>6. d \in Controller
    BY <1>4, <1>5 DEF Controller
  <1>7. /\ d.txbrp = {} /\ d.txbto = {} /\ d.rx_fill = 0 /\ d.rx_get = 0 /\ d.rx_put = 0
        /\ d.tx_get = 0 /\ d.tx_put = 0 /\ d.state = st
        /\ d.ir = {} /\ d.ile = {} /\ d.level = {} /\ d.asserted = {} /\ d.rx_lost = FALSE
        /\ d.attached = FALSE
    BY <1>4
  <1>8. PICK request \in [Buffer -> Nat] : request = [b \in Buffer |-> 0]
    OBVIOUS
  <1>9. v = [sends |-> <<>>, request |-> request, sent |-> {}, next |-> 1, stored |-> 0,
             overwritten |-> FALSE]
    BY <1>2, <1>8 DEF Init
  <1>10. <<>> \in Seq(Send) /\ DOMAIN <<>> = {}
    BY EmptySeq
  <1>11. v \in FdWire
    BY <1>9, <1>10 DEF FdWire
  <1>12. v.sends = <<>> /\ v.stored = 0
    BY <1>9
  <1>13. FdLines(d)
    BY <1>7 DEF FdLines, InterruptLinePending
  <1>14. FdSettled(d)
    BY <1>7 DEF FdSettled
  <1>15. FdRing(d, v)
    <2>1. (0 + 0) % RxSlots = 0
      BY SlotAssumption, RingAt
    <2>2. \A k \in 1..0 : FALSE
      OBVIOUS
    <2> QED
      BY <1>7, <1>12, <2>1, <2>2 DEF FdRing
  <1>16. \A i \in DOMAIN v.sends : FALSE
    BY <1>10, <1>12
  <1>17. \A b \in Buffer : d.state[b] = "idle"
    BY <1>3, <1>7
  <1>18. FdOwned(d, v)
    BY <1>7, <1>16, <1>17 DEF FdOwned, FdBufferOwned
  <1>19. PICK q : q = [fd |-> d, wire |-> v]
    OBVIOUS
  <1>20. q \in FdPair /\ q.fd = d /\ q.wire = v
    BY <1>6, <1>11, <1>19 DEF FdPair
  <1>21. FdInv(q)
    BY <1>13, <1>14, <1>15, <1>18, <1>20 DEF FdInv, FdSound
  <1> QED
    BY <1>1, <1>2, <1>7, <1>19, <1>21 DEF Machine

(* What firmware, the bus and the board may do, in any order.              *)
FdStep ==
    \/ Configure \/ Environment
    \/ \E slot : fd' = AcknowledgeRxFifo0(fd, slot) /\ wire' = wire
    \/ \E requests : \E answer :
          (\A b \in requests : answer[b] \in SendAnswers) /\ Request(requests, answer)
    \/ UNCHANGED <<fd, wire>>

LEMMA StepKeeps ==
    ASSUME FdInv(Machine), FdStep
    PROVE  FdInv(Machine)'
  <1>1. CASE Configure
    BY <1>1, ConfigureKeeps
  <1>2. CASE Environment
    BY <1>2, DeliverKeeps, CompleteKeeps, ForgetStep, AttachKeeps, DetachKeeps, ResetKeeps
       DEF Environment
  <1>3. CASE \E slot : fd' = AcknowledgeRxFifo0(fd, slot) /\ wire' = wire
    BY <1>3, AcknowledgeKeeps
  <1>4. CASE \E requests : \E answer :
          (\A b \in requests : answer[b] \in SendAnswers) /\ Request(requests, answer)
    BY <1>4, RequestKeeps
  <1>5. CASE UNCHANGED <<fd, wire>>
    BY <1>5 DEF Machine
  <1> QED
    BY <1>1, <1>2, <1>3, <1>4, <1>5 DEF FdStep

LEMMA RequestsOwned ==
    ASSUME FdInv(Machine)
    PROVE  CompletedOwn /\ PendingOwned
  <1>1. fd \in Controller /\ wire \in FdWire /\ FdOwned(fd, wire)
    BY MachineTyped
  <1>2. ASSUME NEW b \in Buffer
        PROVE  /\ b \in fd.txbto <=> fd.state[b] = "complete"
               /\ b \in fd.txbto => wire.request[b] \in wire.sent
               /\ b \in fd.txbrp <=> fd.state[b] = "pending"
    BY <1>1 DEF FdOwned, FdBufferOwned
  <1>3. ASSUME NEW b \in Buffer
        PROVE  b \in fd.txbrp <=>
                 \E i \in DOMAIN wire.sends :
                     LET s == wire.sends[i]
                     IN  /\ s.buffer = b /\ ~ s.doomed
                         /\ s.generation = fd.generation[b]
                         /\ s.request = wire.request[b]
    <2>1. FdBufferOwned(fd, wire, b)
      BY <1>1 DEF FdOwned
    <2>2. ASSUME NEW i \in DOMAIN wire.sends, wire.sends[i].buffer = b, ~wire.sends[i].doomed
          PROVE  /\ wire.sends[i].generation = fd.generation[b]
                 /\ wire.sends[i].request = wire.request[b] /\ fd.state[b] = "pending"
      <3>1. FdSendOf(fd, wire, wire.sends[i])
        BY <2>1, <2>2 DEF FdBufferOwned
      <3> QED
        BY <2>2, <3>1 DEF FdSendOf
    <2>3. fd.state[b] = "pending" <=>
             \E i \in DOMAIN wire.sends : wire.sends[i].buffer = b /\ ~wire.sends[i].doomed
      BY <2>1, <2>2 DEF FdBufferOwned
    <2> QED
      BY <1>2, <2>2, <2>3
  <1> QED
    BY <1>2, <1>3 DEF CompletedOwn, PendingOwned

LEMMA PutIsStep ==
    ASSUME WriteTxbarAtPut
    PROVE  FdStep
  <1>1. PICK answer \in SendAnswers : Request({fd.tx_put}, [b \in {fd.tx_put} |-> answer])
    BY DEF WriteTxbarAtPut
  <1>2. \A b \in {fd.tx_put} : [x \in {fd.tx_put} |-> answer][b] \in SendAnswers
    OBVIOUS
  <1> QED
    BY <1>1, <1>2 DEF FdStep

LEMMA NextIsStep ==
    ASSUME [Next]_vars \/ [DriverNext]_vars
    PROVE  FdStep
  <1>1. CASE Configure \/ Environment
    BY <1>1 DEF FdStep
  <1>2. CASE WriteTxbar
    <2>1. PICK requests : \E answer \in [requests -> SendAnswers] : Request(requests, answer)
      BY <1>2 DEF WriteTxbar
    <2>2. PICK answer \in [requests -> SendAnswers] : Request(requests, answer)
      BY <2>1
    <2> QED
      BY <2>2 DEF FdStep
  <1>3. CASE WriteRxf0a
    BY <1>3 DEF WriteRxf0a, FdStep
  <1>4. CASE WriteTxbarAtPut
    BY <1>4, PutIsStep
  <1>5. CASE ReadStatus \/ ReadElement
    BY <1>5 DEF ReadStatus, ReadElement, FdStep
  <1>6. CASE AcknowledgeElement
    BY <1>6 DEF AcknowledgeElement, FdStep
  <1>7. CASE UNCHANGED vars
    BY <1>7 DEF vars, FdStep
  <1> QED
    BY <1>1, <1>2, <1>3, <1>4, <1>5, <1>6, <1>7 DEF Next, DriverNext

(* Whatever firmware writes, whatever the bus answers and whenever the     *)
(* board resets or detaches the controller: TXBRP, TXBTO, the lifecycle    *)
(* states and the sends the bus holds agree, and a buffer is reported      *)
(* transmitted only for its latest request.                                *)
THEOREM FdcanRequestsOwned == Spec => [](CompletedOwn /\ PendingOwned)
  <1>1. Init => FdInv(Machine)
    BY MachineStarts
  <1>2. FdInv(Machine) /\ [Next]_vars => FdInv(Machine)'
    BY NextIsStep, StepKeeps
  <1>3. FdInv(Machine) => CompletedOwn /\ PendingOwned
    BY RequestsOwned
  <1> QED
    BY <1>1, <1>2, <1>3, PTL DEF Spec

LEMMA RequestIsStep ==
    ASSUME NEW requests, NEW S \in SUBSET SendAnswers,
           \E answer \in [requests -> S] : Request(requests, answer)
    PROVE  FdStep
  <1>1. PICK answer \in [requests -> S] : Request(requests, answer)
    OBVIOUS
  <1>2. \A b \in requests : answer[b] \in SendAnswers
    OBVIOUS
  <1> QED
    BY <1>1, <1>2 DEF FdStep

LEMMA PartKept ==
    ASSUME [DeviceNext]_DeviceVars
    PROVE  part' = part
  BY DEF DeviceNext, DeviceVars

LEMMA PartIsStep ==
    ASSUME [DeviceNext]_DeviceVars
    PROVE  FdStep
  <1>1. CASE UNCHANGED DeviceVars
    BY <1>1 DEF DeviceVars, vars, FdStep
  <1>2. CASE DeviceNext /\ part \notin FdcanParts
    BY <1>2 DEF DeviceNext, Held, vars, FdStep
  <1>3. CASE DeviceNext /\ part \in FdcanParts
    <2>1. FdcanPart
      BY <1>3 DEF DeviceNext, TickPart, PinsPart, BlockPart, WiringPart, DmaPart, SerialPart, TimerPart,
                  WatchdogPart, ClocksPart, FlashPart, CrcPart, AdcPart, FdcanParts
    <2>2. CASE Transmitting
      <3>1. CASE WriteCccr \/ WriteTxElement
        BY <3>1 DEF Configure, FdStep
      <3>2. CASE \E requests \in (SUBSET Buffer) \ {{}} :
                   \E answer \in [requests -> SendAnswers \ {"looped"}] : Request(requests, answer)
        <4>1. SendAnswers \ {"looped"} \in SUBSET SendAnswers
          OBVIOUS
        <4> QED
          BY <3>2, <4>1, RequestIsStep
      <3>3. CASE Complete \/ Forget \/ AttachBus \/ Detach \/ Reset
        BY <3>3 DEF Environment, FdStep
      <3> QED
        BY <2>2, <3>1, <3>2, <3>3 DEF Transmitting
    <2>3. CASE Ordering
      BY <2>3, PutIsStep DEF Ordering, Configure, Environment, FdStep
    <2>4. CASE Receiving
      BY <2>4 DEF Receiving, Configure, Environment, FdStep, WriteRxf0a
    <2>5. CASE Taking
      BY <2>5 DEF Taking, Configure, Environment, FdStep, ReadStatus, ReadElement, AcknowledgeElement
    <2>6. CASE Signalling
      <3>1. CASE \E answer \in SendAnswers : Request({0}, [b \in {0} |-> answer])
        <4>1. PICK answer \in SendAnswers : Request({0}, [b \in {0} |-> answer])
          BY <3>1
        <4>2. [b \in {0} |-> answer] \in [{0} -> SendAnswers]
          OBVIOUS
        <4> QED
          BY <4>1, <4>2, RequestIsStep
      <3>2. CASE WriteCccr \/ WriteIr \/ WriteIe \/ WriteIls \/ WriteIle \/ WriteTxbtie
        BY <3>2 DEF Configure, FdStep
      <3>3. CASE Deliver \/ Complete \/ AttachBus \/ Reset
        BY <3>3 DEF Environment, FdStep
      <3> QED
        BY <2>6, <3>1, <3>2, <3>3 DEF Signalling
    <2> QED
      BY <2>1, <2>2, <2>3, <2>4, <2>5, <2>6 DEF FdcanPart
  <1> QED
    BY <1>1, <1>2, <1>3

(* The same of the device with its parts.                                  *)
THEOREM RequestsAlwaysExact == DeviceSpec => []RequestsExact
  <1>1. DeviceInit => FdInv(Machine)
    BY MachineStarts DEF DeviceInit
  <1>2. FdInv(Machine) /\ [DeviceNext]_DeviceVars => FdInv(Machine)'
    BY PartIsStep, StepKeeps
  <1>3. FdInv(Machine) => RequestsExact
    BY RequestsOwned DEF RequestsExact
  <1> QED
    BY <1>1, <1>2, <1>3, PTL DEF DeviceSpec

-----------------------------------------------------------------------------
(* The receive routine. *)

DriverType == [phase : {"idle", "status", "element"}, slot : RxSlot, element : Element, taken : Seq(Nat)]
DriverReset == [phase |-> "idle", slot |-> 0, element |-> NoElement, taken |-> <<>>]

(* The routine's slot is one of those in use; the element it read is not   *)
(* newer than what the slot holds now, and newer than all it took.  Unless *)
(* frames were overwritten the routine is exactly one behind.              *)
TakeInv(c, w, d) ==
    LET gone == w.stored - c.rx_fill
    IN  /\ \A i \in DOMAIN d.taken : d.taken[i] <= gone
        /\ \A i, j \in DOMAIN d.taken : i < j => d.taken[i] < d.taken[j]
        /\ d.phase # "idle" =>
              \E k \in 1..c.rx_fill :
                  /\ d.slot = (c.rx_get + (k - 1)) % RxSlots
                  /\ d.phase = "element" => d.element.stamp <= gone + k
        /\ d.phase = "element" => \A i \in DOMAIN d.taken : d.taken[i] < d.element.stamp
        /\ ~w.overwritten =>
              /\ Len(d.taken) = gone /\ \A i \in DOMAIN d.taken : d.taken[i] = i
              /\ d.phase # "idle" => d.slot = c.rx_get
              /\ d.phase = "element" => d.element.stamp = gone + 1

LEMMA TakeKept ==
    ASSUME NEW c, NEW w, NEW d, NEW e, NEW v, TakeInv(c, w, d), FdSameRx(c, e),
           v.stored = w.stored, v.overwritten = w.overwritten
    PROVE  TakeInv(e, v, d)
  BY DEF TakeInv, FdSameRx

LEMMA DriverTyped ==
    ASSUME NEW d \in DriverType
    PROVE  /\ d.taken \in Seq(Nat) /\ DOMAIN d.taken = 1..Len(d.taken) /\ Len(d.taken) \in Nat
           /\ \A i \in DOMAIN d.taken : d.taken[i] \in Nat
           /\ d.element \in Element /\ d.element.stamp \in Nat /\ d.slot \in RxSlot
  <1>1. PICK s \in Seq(Nat) : s = d.taken
    BY DEF DriverType
  <1>2. DOMAIN s = 1..Len(s) /\ Len(s) \in Nat
    BY LenProperties
  <1>3. \A i \in DOMAIN s : s[i] \in Nat
    BY <1>2, ElementOfSeq
  <1> QED
    BY <1>1, <1>2, <1>3 DEF DriverType, Element

LEMMA TakeArrival ==
    ASSUME NEW p \in FdPair, NEW q \in FdPair, NEW d \in DriverType, RxArrived(p, q),
           TakeInv(p.fd, p.wire, d)
    PROVE  TakeInv(q.fd, q.wire, d)
  <1>1. PICK c \in Controller, w \in FdWire : c = p.fd /\ w = p.wire
    BY DEF FdPair
  <1>2. PICK e \in Controller, v \in FdWire : e = q.fd /\ v = q.wire
    BY DEF FdPair
  <1>3. PICK n \in Nat \ {0} : n = RxSlots
    BY SlotAssumption
  <1>4. PICK get \in 0..(n - 1), fill \in 0..n : get = c.rx_get /\ fill = c.rx_fill
    BY <1>3, RxTyped
  <1>5. PICK stored \in Nat : stored = w.stored
    BY DEF FdWire
  <1>6. v.stored = stored + 1
    BY <1>1, <1>2, <1>5 DEF RxArrived
  <1>7. PICK stamp \in Nat : stamp = d.element.stamp
    BY DriverTyped
  <1>8. /\ \A i \in DOMAIN d.taken : d.taken[i] <= stored - fill
        /\ \A i, j \in DOMAIN d.taken : i < j => d.taken[i] < d.taken[j]
        /\ d.phase # "idle" =>
              \E k \in 1..fill : /\ d.slot = (get + (k - 1)) % n
                                 /\ d.phase = "element" => stamp <= stored - fill + k
        /\ d.phase = "element" => \A i \in DOMAIN d.taken : d.taken[i] < stamp
    BY <1>1, <1>3, <1>4, <1>5, <1>7 DEF TakeInv
  <1>9. \A i \in DOMAIN d.taken : d.taken[i] \in Nat
    BY DriverTyped
  <1>10. CASE Full(c)
    <2>1. fill = n /\ e.rx_fill = n /\ e.rx_get = (get + 1) % n /\ v.overwritten
      BY <1>1, <1>2, <1>3, <1>4, <1>10 DEF RxArrived, Full
    <2>2. PICK got \in 0..(n - 1) : got = e.rx_get
      BY <1>3, RxTyped
    <2>3. got = IF get + 1 < n THEN get + 1 ELSE get + 1 - n
      <3>1. 1 \in 0..n
        OBVIOUS
      <3> QED
        BY <2>1, <2>2, <3>1, RingAt
    <2>4. \A i \in DOMAIN d.taken : d.taken[i] <= stored + 1 - n
      BY <1>8, <1>9, <2>1
    <2>5. ASSUME d.phase # "idle"
          PROVE  \E k \in 1..n : /\ d.slot = (got + (k - 1)) % n
                                 /\ d.phase = "element" => stamp <= stored + 1 - n + k
      <3>1. PICK k \in 1..n : /\ d.slot = (get + (k - 1)) % n
                              /\ d.phase = "element" => stamp <= stored - n + k
        BY <1>8, <2>1, <2>5
      <3>2. k - 1 \in 0..n
        OBVIOUS
      <3>3. (get + (k - 1)) % n = IF get + (k - 1) < n THEN get + (k - 1) ELSE get + (k - 1) - n
        BY <3>2, RingAt
      <3>4. CASE k = 1
        <4>1. n \in 1..n /\ n - 1 \in 0..n
          OBVIOUS
        <4>2. (got + (n - 1)) % n = IF got + (n - 1) < n THEN got + (n - 1) ELSE got + (n - 1) - n
          BY <4>1, RingAt
        <4>3. d.slot = (got + (n - 1)) % n
          BY <2>3, <3>1, <3>3, <3>4, <4>2
        <4>4. d.phase = "element" => stamp <= stored + 1 - n + n
          BY <3>1, <3>4
        <4> QED
          BY <4>1, <4>3, <4>4
      <3>5. CASE k # 1
        <4>1. PICK j \in 1..n : j = k - 1
          BY <3>5
        <4>2. j - 1 \in 0..n
          OBVIOUS
        <4>3. (got + (j - 1)) % n = IF got + (j - 1) < n THEN got + (j - 1) ELSE got + (j - 1) - n
          BY <4>2, RingAt
        <4>4. d.slot = (got + (j - 1)) % n
          BY <2>3, <3>1, <3>3, <4>1, <4>3
        <4>5. d.phase = "element" => stamp <= stored + 1 - n + j
          BY <3>1, <4>1
        <4> QED
          BY <4>4, <4>5
      <3> QED
        BY <3>4, <3>5
    <2>6. TakeInv(e, v, d)
      BY <1>3, <1>6, <1>7, <1>8, <2>1, <2>2, <2>4, <2>5 DEF TakeInv
    <2> QED
      BY <1>2, <2>6
  <1>11. CASE ~Full(c)
    <2>1. e.rx_fill = fill + 1 /\ e.rx_get = get /\ v.overwritten = w.overwritten
      BY <1>1, <1>2, <1>4, <1>11 DEF RxArrived
    <2>2. stored + 1 - (fill + 1) = stored - fill
      OBVIOUS
    <2>3. d.phase # "idle" =>
              \E k \in 1..(fill + 1) : /\ d.slot = (get + (k - 1)) % n
                                       /\ d.phase = "element" => stamp <= stored - fill + k
      <3>1. SUFFICES ASSUME d.phase # "idle"
                     PROVE  \E k \in 1..(fill + 1) :
                               /\ d.slot = (get + (k - 1)) % n
                               /\ d.phase = "element" => stamp <= stored - fill + k
        OBVIOUS
      <3>2. PICK k \in 1..fill : /\ d.slot = (get + (k - 1)) % n
                                 /\ d.phase = "element" => stamp <= stored - fill + k
        BY <1>8, <3>1
      <3>3. k \in 1..(fill + 1)
        OBVIOUS
      <3> QED
        BY <3>2, <3>3
    <2>4. ~w.overwritten =>
              /\ Len(d.taken) = stored - fill /\ \A i \in DOMAIN d.taken : d.taken[i] = i
              /\ d.phase # "idle" => d.slot = get
              /\ d.phase = "element" => stamp = stored - fill + 1
      BY <1>1, <1>4, <1>5, <1>7 DEF TakeInv
    <2>5. v.stored - e.rx_fill = stored - fill
      BY <1>6, <2>1, <2>2
    <2>6. TakeInv(e, v, d)
      BY <1>3, <1>7, <1>8, <2>1, <2>3, <2>4, <2>5 DEF TakeInv
    <2> QED
      BY <1>2, <2>6
  <1> QED
    BY <1>10, <1>11

LEMMA TakeStatus ==
    ASSUME NEW c \in Controller, NEW w \in FdWire, NEW d \in DriverType, TakeInv(c, w, d),
           d.phase = "idle", c.rx_fill > 0, NEW e, e = [d EXCEPT !.phase = "status", !.slot = c.rx_get]
    PROVE  e \in DriverType /\ TakeInv(c, w, e)
  <1>1. e \in DriverType
    BY DEF DriverType, Controller
  <1>2. e.phase = "status" /\ e.slot = c.rx_get /\ e.taken = d.taken /\ e.element = d.element
    BY DEF DriverType
  <1>3. 1 \in 1..c.rx_fill /\ c.rx_get = (c.rx_get + (1 - 1)) % RxSlots
    <2>0. PICK n \in Nat \ {0} : n = RxSlots
      BY RxTyped
    <2>1. PICK get \in 0..(n - 1), fill \in 0..n : n = RxSlots /\ get = c.rx_get /\ fill = c.rx_fill
      BY <2>0, RxTyped
    <2>2. (get + 0) % n = IF get + 0 < n THEN get + 0 ELSE get + 0 - n
      BY RingAt
    <2>3. 1 \in 1..fill
      BY <2>1
    <2> QED
      BY <2>1, <2>2, <2>3
  <1>4. \E k \in 1..c.rx_fill : e.slot = (c.rx_get + (k - 1)) % RxSlots
    BY <1>2, <1>3
  <1>5. e.phase # "idle" =>
           \E k \in 1..c.rx_fill :
                  /\ e.slot = (c.rx_get + (k - 1)) % RxSlots
                  /\ e.phase = "element" => e.element.stamp <= w.stored - c.rx_fill + k
    BY <1>2, <1>4
  <1> QED
    BY <1>1, <1>2, <1>5 DEF TakeInv

LEMMA TakeElement ==
    ASSUME NEW c \in Controller, NEW w \in FdWire, NEW d \in DriverType, TakeInv(c, w, d), FdRing(c, w),
           d.phase = "status", NEW e, e = [d EXCEPT !.phase = "element", !.element = c.rx[d.slot]]
    PROVE  e \in DriverType /\ TakeInv(c, w, e)
  <1>0. PICK n \in Nat \ {0} : n = RxSlots
    BY RxTyped
  <1>1. PICK get \in 0..(n - 1), fill \in 0..n : n = RxSlots /\ get = c.rx_get /\ fill = c.rx_fill
    BY <1>0, RxTyped
  <1>2. PICK stored \in Nat : stored = w.stored
    BY DEF FdWire
  <1>3. PICK el \in Element : el = c.rx[d.slot]
    BY DriverTyped DEF Controller
  <1>4. e \in DriverType
    BY <1>3 DEF DriverType
  <1>5. e.phase = "element" /\ e.slot = d.slot /\ e.taken = d.taken /\ e.element = el
    BY <1>3 DEF DriverType
  <1>6. PICK k \in 1..fill : d.slot = (get + (k - 1)) % n
    BY <1>1 DEF TakeInv
  <1>7. \A j \in 1..fill : c.rx[(get + j - 1) % n].stamp = stored - fill + j
    BY <1>1, <1>2 DEF FdRing
  <1>8. el.stamp = stored - fill + k
    <2>1. get + k - 1 = get + (k - 1)
      OBVIOUS
    <2> QED
      BY <1>3, <1>6, <1>7, <2>1
  <1>9. ~w.overwritten => el.stamp = stored - fill + 1
    <2>1. SUFFICES ASSUME ~w.overwritten PROVE el.stamp = stored - fill + 1
      OBVIOUS
    <2>2. d.slot = get
      BY <1>1, <2>1 DEF TakeInv
    <2>3. k - 1 \in 0..n
      OBVIOUS
    <2>4. (get + (k - 1)) % n = IF get + (k - 1) < n THEN get + (k - 1) ELSE get + (k - 1) - n
      BY <2>3, RingAt
    <2>5. k = 1
      BY <1>6, <2>2, <2>4, SMTT(60)
    <2> QED
      BY <1>8, <2>5
  <1>10. \A i \in DOMAIN d.taken : d.taken[i] \in Nat /\ d.taken[i] <= stored - fill
    BY <1>1, <1>2, DriverTyped DEF TakeInv
  <1>11. \A i \in DOMAIN e.taken : e.taken[i] < e.element.stamp
    BY <1>5, <1>8, <1>10
  <1>12. \E j \in 1..fill : /\ e.slot = (get + (j - 1)) % n
                            /\ e.phase = "element" => e.element.stamp <= stored - fill + j
    BY <1>5, <1>6, <1>8
  <1>13. TakeInv(c, w, e)
    BY <1>1, <1>2, <1>5, <1>9, <1>11, <1>12 DEF TakeInv
  <1> QED
    BY <1>4, <1>13

LEMMA AckHits ==
    ASSUME NEW c \in Controller, FdLines(c), NEW k \in 1..c.rx_fill, NEW slot,
           slot = (c.rx_get + (k - 1)) % RxSlots
    PROVE  FdAcked(c, AcknowledgeRxFifo0(c, slot), slot, k)
  <1>0. PICK n \in Nat \ {0} : n = RxSlots
    BY RxTyped
  <1>1. PICK get \in 0..(n - 1), fill \in 0..n : n = RxSlots /\ get = c.rx_get /\ fill = c.rx_fill
    BY <1>0, RxTyped
  <1>2. k \in 1..fill /\ k - 1 \in 0..n /\ k \in 0..n
    BY <1>1
  <1>3. slot = IF get + (k - 1) < n THEN get + (k - 1) ELSE get + (k - 1) - n
    BY <1>1, <1>2, RingAt
  <1>4. slot \in 0..(n - 1)
    BY <1>2, <1>3
  <1>5. (slot + n - get) % n = k - 1
    <2>1. CASE slot >= get
      <3>1. PICK a \in n..(2 * n - 1) : a = slot + n - get
        BY <1>4, <2>1
      <3>2. a % n = a - n
        BY ModWrap
      <3> QED
        BY <1>2, <1>3, <2>1, <3>1, <3>2
    <2>2. CASE ~(slot >= get)
      <3>1. PICK a \in 0..(n - 1) : a = slot + n - get
        BY <1>4, <2>2
      <3>2. a % n = a
        BY ModSmall
      <3> QED
        BY <1>2, <1>3, <2>2, <3>1, <3>2
    <2> QED
      BY <2>1, <2>2
  <1>6. ~(c.rx_fill = 0 \/ slot \notin RxSlot \/ ((slot + RxSlots - c.rx_get) % RxSlots) + 1 > c.rx_fill)
    BY <1>1, <1>2, <1>4, <1>5 DEF RxSlot
  <1>7. PICK d : d = AcknowledgeRxFifo0(c, slot)
    OBVIOUS
  <1>8. d # c
    <2>1. d = [c EXCEPT !.rx_fill = @ - (((slot + RxSlots - c.rx_get) % RxSlots) + 1),
                        !.rx_get = (slot + 1) % RxSlots]
      BY <1>6, <1>7 DEF AcknowledgeRxFifo0
    <2>2. d.rx_fill = fill - (k - 1 + 1)
      BY <1>1, <1>5, <2>1 DEF Controller
    <2> QED
      BY <1>1, <1>2, <2>2
  <1>9. PICK freed \in Nat : FdAcked(c, d, slot, freed)
    BY <1>7, <1>8, Acknowledged
  <1>10. freed \in 1..fill /\ freed - 1 \in 0..n
    BY <1>1, <1>9 DEF FdAcked
  <1>11. slot = IF get + (freed - 1) < n THEN get + (freed - 1) ELSE get + (freed - 1) - n
    <2>1. slot = (get + (freed - 1)) % n
      BY <1>1, <1>9 DEF FdAcked
    <2> QED
      BY <1>10, <2>1, RingAt
  <1>12. freed = k
    BY <1>2, <1>3, <1>10, <1>11
  <1> QED
    BY <1>7, <1>9, <1>12

DriverTook(d, e) ==
    e = [d EXCEPT !.phase = "idle", !.element = NoElement, !.taken = Append(@, d.element.stamp)]

LEMMA TakeAcked ==
    ASSUME NEW c \in Controller, FdLines(c), NEW w \in FdWire, NEW d \in DriverType, TakeInv(c, w, d),
           d.phase = "element", NEW f, f = AcknowledgeRxFifo0(c, d.slot), NEW e, DriverTook(d, e)
    PROVE  e \in DriverType /\ TakeInv(f, w, e)
  <1>0. PICK n \in Nat \ {0} : n = RxSlots
    BY RxTyped
  <1>1. PICK get \in 0..(n - 1), fill \in 0..n : n = RxSlots /\ get = c.rx_get /\ fill = c.rx_fill
    BY <1>0, RxTyped
  <1>2. PICK stored \in Nat : stored = w.stored
    BY DEF FdWire
  <1>3. PICK stamp \in Nat, taken \in Seq(Nat) : stamp = d.element.stamp /\ taken = d.taken
    BY DriverTyped
  <1>4. PICK more \in Seq(Nat) : more = Append(taken, stamp)
    BY AppendProperties
  <1>5. NoElement \in Element
    BY FrameAssumption DEF NoElement, Element
  <1>6. e = [d EXCEPT !.phase = "idle", !.element = NoElement, !.taken = more]
    BY <1>3, <1>4 DEF DriverType, DriverTook
  <1>7. e \in DriverType
    BY <1>5, <1>6 DEF DriverType
  <1>8. e.phase = "idle" /\ e.taken = more
    BY <1>6 DEF DriverType
  <1>9. PICK k \in 1..fill : d.slot = (get + (k - 1)) % n /\ stamp <= stored - fill + k
    BY <1>1, <1>2, <1>3 DEF TakeInv
  <1>10. FdAcked(c, f, d.slot, k)
    BY <1>1, <1>9, AckHits
  <1>11. f.rx_fill = fill - k
    BY <1>1, <1>10 DEF FdAcked
  <1>12. w.stored - f.rx_fill = stored - fill + k
    BY <1>2, <1>11
  <1>13. Len(taken) \in Nat /\ DOMAIN taken = 1..Len(taken)
    BY LenProperties
  <1>14. Len(more) = Len(taken) + 1 /\ more[Len(taken) + 1] = stamp
         /\ DOMAIN more = 1..(Len(taken) + 1) /\ \A i \in 1..Len(taken) : more[i] = taken[i]
    <2>1. Len(more) = Len(taken) + 1 /\ more[Len(taken) + 1] = stamp
          /\ \A i \in 1..Len(taken) : more[i] = taken[i]
      BY <1>4, AppendProperties
    <2>2. DOMAIN more = 1..Len(more)
      BY LenProperties
    <2> QED
      BY <2>1, <2>2
  <1>15. /\ \A i \in DOMAIN taken : taken[i] \in Nat /\ taken[i] <= stored - fill /\ taken[i] < stamp
         /\ \A i, j \in DOMAIN taken : i < j => taken[i] < taken[j]
    BY <1>1, <1>2, <1>3, DriverTyped DEF TakeInv
  <1>16. \A i \in DOMAIN more : i = Len(taken) + 1 \/ (i \in DOMAIN taken /\ more[i] = taken[i])
    BY <1>13, <1>14
  <1>17. ASSUME NEW i \in DOMAIN more PROVE more[i] <= stored - fill + k
    <2>1. CASE i = Len(taken) + 1
      BY <1>9, <1>14, <2>1
    <2>2. CASE i \in DOMAIN taken /\ more[i] = taken[i]
      <3>1. PICK a \in Nat : a = more[i] /\ a <= stored - fill
        BY <1>15, <2>2
      <3> QED
        BY <3>1
    <2> QED
      BY <1>16, <2>1, <2>2
  <1>18. ASSUME NEW i \in DOMAIN more, NEW j \in DOMAIN more, i < j
         PROVE  more[i] < more[j]
    <2>1. i # Len(taken) + 1
      BY <1>13, <1>14, <1>18
    <2>2. i \in DOMAIN taken /\ more[i] = taken[i]
      BY <1>16, <2>1
    <2> QED
      BY <1>14, <1>15, <1>16, <1>18, <2>2
  <1>19. ~w.overwritten => Len(more) = stored - fill + k /\ \A i \in DOMAIN more : more[i] = i
    <2>1. SUFFICES ASSUME ~w.overwritten
                   PROVE  Len(more) = stored - fill + k /\ \A i \in DOMAIN more : more[i] = i
      OBVIOUS
    <2>2. Len(taken) = stored - fill /\ d.slot = get /\ stamp = stored - fill + 1
          /\ \A i \in DOMAIN taken : taken[i] = i
      BY <1>1, <1>2, <1>3, <2>1 DEF TakeInv
    <2>3. k - 1 \in 0..n
      OBVIOUS
    <2>4. (get + (k - 1)) % n = IF get + (k - 1) < n THEN get + (k - 1) ELSE get + (k - 1) - n
      BY <2>3, RingAt
    <2>8. get = (get + (k - 1)) % n
      BY <1>9, <2>2
    <2>9. k \in 1..n /\ n \in Nat \ {0} /\ get \in 0..(n - 1)
      OBVIOUS
    <2>10. get = IF get + (k - 1) < n THEN get + (k - 1) ELSE get + (k - 1) - n
      BY <2>4, <2>8, Zenon
    <2>11. ~(get + (k - 1) < n) => FALSE
      BY <2>9, <2>10
    <2>5. k = 1
      BY <2>9, <2>10, <2>11
    <2>6. Len(more) = stored - fill + k
      BY <1>14, <2>2, <2>5
    <2>7. \A i \in DOMAIN more : more[i] = i
      BY <1>14, <1>16, <2>2
    <2> QED
      BY <2>6, <2>7
  <1>20. TakeInv(f, w, e)
    BY <1>8, <1>12, <1>17, <1>18, <1>19 DEF TakeInv
  <1> QED
    BY <1>7, <1>20

LEMMA TakeReset ==
    ASSUME NEW c, NEW w, c.rx_fill = 0, w.stored = 0
    PROVE  DriverReset \in DriverType /\ TakeInv(c, w, DriverReset)
  <1>1. PICK d : d = DriverReset
    OBVIOUS
  <1>2. NoElement \in Element /\ 0 \in RxSlot /\ <<>> \in Seq(Nat)
    BY FrameAssumption, SlotAssumption, EmptySeq DEF NoElement, Element, RxSlot
  <1>3. d \in DriverType
    BY <1>1, <1>2 DEF DriverReset, DriverType
  <1>4. d.phase = "idle" /\ d.taken = <<>>
    BY <1>1 DEF DriverReset
  <1>5. Len(<<>>) = 0 /\ DOMAIN <<>> = {}
    BY EmptySeq
  <1>6. TakeInv(c, w, d)
    BY <1>4, <1>5 DEF TakeInv
  <1> QED
    BY <1>1, <1>3, <1>6

LEMMA RingStampsAre ==
    ASSUME FdInv(Machine)
    PROVE  /\ RingStamps \in Seq(Nat) /\ Len(RingStamps) = fd.rx_fill
           /\ \A k \in 1..fd.rx_fill : RingStamps[k] = wire.stored - fd.rx_fill + k
  <1>1. PICK c \in Controller, w \in FdWire : c = fd /\ w = wire /\ FdRing(c, w)
    BY MachineTyped
  <1>2. PICK fill \in Nat, stored \in Nat : fill = c.rx_fill /\ stored = w.stored /\ fill <= stored
    BY <1>1 DEF Controller, FdWire, FdRing
  <1>3. PICK r : r = RingStamps
    OBVIOUS
  <1>4. r = [k \in 1..fill |-> c.rx[(c.rx_get + k - 1) % RxSlots].stamp]
    BY <1>1, <1>2, <1>3 DEF RingStamps
  <1>5. \A k \in 1..fill : c.rx[(c.rx_get + k - 1) % RxSlots].stamp = stored - fill + k
    BY <1>1, <1>2 DEF FdRing
  <1>6. \A k \in 1..fill : r[k] = stored - fill + k
    BY <1>4, <1>5
  <1>7. r \in [1..fill -> Nat]
    <2>1. \A k \in 1..fill : stored - fill + k \in Nat
      BY <1>2
    <2>2. r = [k \in 1..fill |-> r[k]]
      BY <1>4
    <2> QED
      BY <1>6, <2>1, <2>2
  <1>8. r \in Seq(Nat) /\ Len(r) = fill
    <2>1. r \in Seq(Nat)
      BY <1>7, SeqDef
    <2>2. DOMAIN r = 1..fill
      BY <1>7
    <2> QED
      BY <2>1, <2>2, LenProperties
  <1> QED
    BY <1>1, <1>2, <1>3, <1>6, <1>8

LEMMA TakenAll ==
    ASSUME FdInv(Machine), driver \in DriverType, TakeInv(fd, wire, driver)
    PROVE  TakenInOrder /\ NothingSkipped
  <1>1. TakenInOrder
    BY DEF TakeInv, TakenInOrder
  <1>2. ASSUME ~wire.overwritten
        PROVE  driver.taken \o RingStamps = [k \in 1..wire.stored |-> k]
    <2>1. PICK fill \in Nat, stored \in Nat : fill = fd.rx_fill /\ stored = wire.stored
      BY MachineTyped DEF Controller, FdWire
    <2>2. PICK t \in Seq(Nat), r \in Seq(Nat) : t = driver.taken /\ r = RingStamps
      BY RingStampsAre, DriverTyped
    <2>3. Len(t) = stored - fill /\ (\A i \in 1..Len(t) : t[i] = i) /\ Len(t) \in Nat
      BY <1>2, <2>1, <2>2, DriverTyped DEF TakeInv
    <2>4. Len(r) = fill /\ \A k \in 1..fill : r[k] = stored - fill + k
      BY <2>1, <2>2, RingStampsAre
    <2>5. PICK u \in Seq(Nat) : u = t \o r
      BY ConcatProperties
    <2>6. Len(u) = stored /\ \A i \in 1..stored : u[i] = i
      <3>1. Len(u) = Len(t) + Len(r)
            /\ \A i \in 1..Len(u) : u[i] = IF i <= Len(t) THEN t[i] ELSE r[i - Len(t)]
        BY <2>5, ConcatProperties
      <3>2. Len(u) = stored
        BY <2>3, <2>4, <3>1
      <3>3. ASSUME NEW i \in 1..stored PROVE u[i] = i
        <4>1. CASE i <= Len(t)
          <5>1. i \in 1..Len(t)
            BY <2>3, <4>1
          <5> QED
            BY <2>3, <3>1, <3>2, <4>1, <5>1
        <4>2. CASE ~(i <= Len(t))
          <5>1. PICK k \in 1..fill : k = i - Len(t)
            BY <2>3, <4>2
          <5>2. u[i] = r[k]
            BY <3>1, <3>2, <4>2, <5>1
          <5>3. r[k] = stored - fill + k
            BY <2>4
          <5> QED
            BY <2>3, <5>1, <5>2, <5>3
        <4> QED
          BY <4>1, <4>2
      <3> QED
        BY <3>2, <3>3
    <2>7. PICK h : h = [k \in 1..stored |-> k]
      OBVIOUS
    <2>8. h \in [1..stored -> Nat] /\ \A k \in 1..stored : h[k] = k
      BY <2>7
    <2>9. h \in Seq(Nat) /\ Len(h) = stored
      <3>1. h \in Seq(Nat)
        BY <2>8, SeqDef
      <3>2. DOMAIN h = 1..stored
        BY <2>8
      <3> QED
        BY <3>1, <3>2, LenProperties
    <2>10. u = h
      <3>1. \A i \in 1..Len(u) : u[i] = h[i]
        BY <2>6, <2>8
      <3> QED
        BY <2>6, <2>9, <3>1, SeqEqual
    <2> QED
      BY <2>1, <2>2, <2>5, <2>7, <2>10
  <1> QED
    BY <1>1, <1>2 DEF NothingSkipped

LEMMA RoundRobinAt ==
    ASSUME NEW i \in Buffer, NEW S \in SUBSET Buffer
    PROVE  /\ i \in S => RoundRobin(i, S) = i
           /\ i \notin S /\ (i + 1) % TxSlots \in S => RoundRobin(i, S) = (i + 1) % TxSlots
  <1>0. TxSlots \in Nat \ {0} /\ i \in 0..(TxSlots - 1)
    BY SlotAssumption DEF Buffer
  <1>1. ASSUME S # {}
        PROVE  /\ RoundRobin(i, S) \in Buffer /\ RoundRobin(i, S) \in S
               /\ \A k \in S : RingAhead(i, RoundRobin(i, S)) <= RingAhead(i, k)
    BY <1>1, RoundRobinFinds
  <1>2. PICK j : j = RoundRobin(i, S)
    OBVIOUS
  <1>3. ASSUME i \in S PROVE j = i
    <2>1. j \in Buffer /\ j \in S /\ RingAhead(i, j) <= RingAhead(i, i)
      BY <1>1, <1>2, <1>3
    <2>2. RingAhead(i, i) = 0
      BY <1>0, AheadBounds
    <2>3. RingAhead(i, j) \in Nat /\ RingAhead(i, j) = IF j >= i THEN j - i ELSE j + TxSlots - i
      BY <2>1, AheadBounds
    <2>4. j \in 0..(TxSlots - 1)
      BY <2>1 DEF Buffer
    <2> QED
      BY <1>0, <2>1, <2>2, <2>3, <2>4
  <1>4. ASSUME i \notin S, (i + 1) % TxSlots \in S PROVE j = (i + 1) % TxSlots
    <2>0. PICK k : k = (i + 1) % TxSlots
      OBVIOUS
    <2>1. j \in Buffer /\ j \in S /\ RingAhead(i, j) <= RingAhead(i, k) /\ k \in Buffer
      BY <1>1, <1>2, <1>4, <2>0
    <2>2. k = IF i + 1 < TxSlots THEN i + 1 ELSE i + 1 - TxSlots
      <3>1. 1 \in 0..TxSlots
        BY <1>0
      <3> QED
        BY <1>0, <2>0, <3>1, RingAt
    <2>3. RingAhead(i, k) = IF k >= i THEN k - i ELSE k + TxSlots - i
      BY <2>1, AheadBounds
    <2>4. RingAhead(i, j) \in Nat /\ RingAhead(i, j) = IF j >= i THEN j - i ELSE j + TxSlots - i
      BY <2>1, AheadBounds
    <2>5. j \in 0..(TxSlots - 1) /\ k \in 0..(TxSlots - 1) /\ j # i /\ k # i
      BY <1>4, <2>0, <2>1 DEF Buffer
    <2>6. RingAhead(i, k) = 1
      BY <1>0, <2>2, <2>3, <2>5
    <2>7. RingAhead(i, j) = 1
      BY <1>0, <2>1, <2>4, <2>5, <2>6
    <2> QED
      BY <1>0, <2>0, <2>2, <2>4, <2>5, <2>7
  <1> QED
    BY <1>2, <1>3, <1>4

(* Where the search for free and pending buffers ends.                     *)
FdIndexed(d, put, get) ==
    /\ put \notin d.txbrp \/ d.txbrp = Buffer => d.tx_put = put
    /\ d.txbrp = {} => d.tx_get = d.tx_put
    /\ get \in d.txbrp => d.tx_get = get
    /\ get \notin d.txbrp /\ (get + 1) % TxSlots \in d.txbrp => d.tx_get = (get + 1) % TxSlots

LEMMA StatusIndexed ==
    ASSUME NEW c \in Controller
    PROVE  FdIndexed(UpdateTxFifoStatus(c), c.tx_put, c.tx_get)
  <1>1. PICK put \in Buffer, get \in Buffer, brp \in SUBSET Buffer :
            put = c.tx_put /\ get = c.tx_get /\ brp = c.txbrp
    BY DEF Controller
  <1>2. PICK free \in SUBSET Buffer : free = Buffer \ brp
    OBVIOUS
  <1>3. PICK np : np = IF free = {} THEN put ELSE RoundRobin(put, free)
    OBVIOUS
  <1>4. PICK ng : ng = IF brp = {} THEN np ELSE RoundRobin(get, brp)
    OBVIOUS
  <1>5. UpdateTxFifoStatus(c) = [c EXCEPT !.tx_put = np, !.tx_get = ng]
    BY <1>1, <1>2, <1>3, <1>4 DEF UpdateTxFifoStatus
  <1>6. PICK d : d = UpdateTxFifoStatus(c)
    OBVIOUS
  <1>7. d.tx_put = np /\ d.tx_get = ng /\ d.txbrp = brp
    BY <1>1, <1>5, <1>6 DEF Controller
  <1>8. put \notin brp \/ brp = Buffer => np = put
    <2>1. CASE brp = Buffer
      BY <1>2, <1>3, <2>1
    <2>2. CASE put \notin brp
      <3>1. put \in free
        BY <1>2, <2>2
      <3> QED
        BY <1>3, <3>1, RoundRobinAt
    <2> QED
      BY <2>1, <2>2
  <1>9. /\ get \in brp => ng = get
        /\ get \notin brp /\ (get + 1) % TxSlots \in brp => ng = (get + 1) % TxSlots
    BY <1>4, RoundRobinAt
  <1> QED
    BY <1>1, <1>4, <1>6, <1>7, <1>8, <1>9 DEF FdIndexed

LEMMA SameIndexed ==
    ASSUME NEW f, NEW d, NEW put, NEW get, FdIndexed(f, put, get), FdSameIndices(f, d), d.txbrp = f.txbrp
    PROVE  FdIndexed(d, put, get)
  BY DEF FdIndexed, FdSameIndices

LEMMA ReleasedIndexed ==
    ASSUME NEW c \in Controller, NEW b \in Buffer
    PROVE  FdIndexed(Release(c, b), c.tx_put, c.tx_get)
  <1>1. PICK brp \in SUBSET Buffer : brp = c.txbrp \ {b}
    BY DEF Controller
  <1>2. PICK st \in [Buffer -> {"idle", "pending", "complete"}] : st = [c.state EXCEPT ![b] = "idle"]
    BY DEF Controller
  <1>3. PICK e : e = [c EXCEPT !.txbrp = brp, !.state = st]
    OBVIOUS
  <1>4. e = [c EXCEPT !.txbrp = @ \ {b}, !.state[b] = "idle"]
    BY <1>1, <1>2, <1>3 DEF Controller
  <1>5. e \in Controller /\ e.tx_put = c.tx_put /\ e.tx_get = c.tx_get
    BY <1>3 DEF Controller
  <1>6. PICK f : f = UpdateTxFifoStatus(e)
    OBVIOUS
  <1>7. f \in Controller /\ FdIndexed(f, c.tx_put, c.tx_get)
    BY <1>5, <1>6, StatusUpdated, StatusIndexed
  <1>8. PICK d : d = SetInterruptFlags(f, {"protocol_error"})
    OBVIOUS
  <1>9. {"protocol_error"} \in SUBSET Flag
    BY DEF Flag
  <1>10. FdRaised(f, d, {"protocol_error"})
    BY <1>7, <1>8, <1>9, FlagsRaised
  <1>11. FdIndexed(d, c.tx_put, c.tx_get)
    BY <1>7, <1>10, SameIndexed DEF FdRaised, FdSameTx
  <1>12. d = Release(c, b)
    BY <1>4, <1>6, <1>8 DEF Release
  <1> QED
    BY <1>11, <1>12

LEMMA CompletedIndexed ==
    ASSUME NEW c \in Controller, NEW b \in Buffer, NEW g, Current(c, b, g), c.state[b] = "pending"
    PROVE  FdIndexed(CompleteTransmission(c, b, g), c.tx_put, c.tx_get)
  <1>1. PICK brp \in SUBSET Buffer : brp = c.txbrp \ {b}
    BY DEF Controller
  <1>2. PICK st \in [Buffer -> {"idle", "pending", "complete"}] : st = [c.state EXCEPT ![b] = "complete"]
    BY DEF Controller
  <1>21. PICK bto \in SUBSET Buffer : bto = c.txbto \cup {b}
    BY DEF Controller
  <1>3. PICK e : e = [c EXCEPT !.txbrp = brp, !.txbto = bto, !.state = st]
    OBVIOUS
  <1>4. e = [c EXCEPT !.txbrp = @ \ {b}, !.txbto = @ \cup {b}, !.state[b] = "complete"]
    BY <1>1, <1>2, <1>21, <1>3 DEF Controller
  <1>5. e \in Controller /\ e.tx_put = c.tx_put /\ e.tx_get = c.tx_get
    BY <1>3 DEF Controller
  <1>6. PICK f : f = UpdateTxFifoStatus(e)
    OBVIOUS
  <1>7. f \in Controller /\ FdIndexed(f, c.tx_put, c.tx_get)
    BY <1>5, <1>6, StatusUpdated, StatusIndexed
  <1>8. PICK d : d = CompleteTransmission(c, b, g)
    OBVIOUS
  <1>9. d = IF b \in c.txbtie THEN SetInterruptFlags(f, {"tx_complete"}) ELSE f
    BY <1>4, <1>6, <1>8 DEF CompleteTransmission
  <1>10. {"tx_complete"} \in SUBSET Flag
    BY DEF Flag
  <1>11. b \in c.txbtie => FdRaised(f, d, {"tx_complete"})
    BY <1>7, <1>9, <1>10, FlagsRaised
  <1>12. FdIndexed(d, c.tx_put, c.tx_get)
    BY <1>7, <1>9, <1>11, SameIndexed DEF FdRaised, FdSameTx
  <1> QED
    BY <1>8, <1>12

LEMMA ReservedIndexed ==
    ASSUME NEW c \in Controller, NEW b \in Buffer
    PROVE  FdIndexed(Reserve(c, b), (b + 1) % TxSlots, IF c.txbrp = {} THEN b ELSE c.tx_get)
  <1>1. PICK brp \in SUBSET Buffer : brp = c.txbrp \cup {b}
    BY DEF Controller
  <1>2. PICK st \in [Buffer -> {"idle", "pending", "complete"}] : st = [c.state EXCEPT ![b] = "pending"]
    BY DEF Controller
  <1>22. PICK get \in Buffer : get = IF c.txbrp = {} THEN b ELSE c.tx_get
    BY DEF Controller
  <1>23. PICK put \in Buffer : put = (b + 1) % TxSlots
    BY SlotAssumption DEF Buffer
  <1>3. PICK e : e = [c EXCEPT !.txbrp = brp, !.state = st, !.tx_get = get, !.tx_put = put]
    OBVIOUS
  <1>4. e = [c EXCEPT !.txbrp = @ \cup {b}, !.state[b] = "pending",
                      !.tx_get = IF c.txbrp = {} THEN b ELSE @, !.tx_put = (b + 1) % TxSlots]
    BY <1>1, <1>2, <1>22, <1>23, <1>3 DEF Controller
  <1>5. e \in Controller /\ e.tx_put = put /\ e.tx_get = get
    BY <1>3 DEF Controller
  <1>6. PICK f : f = UpdateTxFifoStatus(e)
    OBVIOUS
  <1>7. f \in Controller /\ FdIndexed(f, put, get)
    BY <1>5, <1>6, StatusUpdated, StatusIndexed
  <1>8. PICK d : d = [f EXCEPT !.txbto = @ \ {b}]
    OBVIOUS
  <1>9. d = Reserve(c, b)
    BY <1>4, <1>6, <1>8 DEF Reserve
  <1>10. FdSameIndices(f, d) /\ d.txbrp = f.txbrp
    BY <1>7, <1>8 DEF Controller, FdSameIndices
  <1>11. FdIndexed(d, put, get)
    BY <1>7, <1>10, SameIndexed
  <1> QED
    BY <1>9, <1>11, <1>22, <1>23

(* The buffers of n requests from index i on.                              *)
FdWindow(i, n) == {(i + j) % TxSlots : j \in 0..(n - 1)}

LEMMA RingShift ==
    ASSUME NEW i \in Buffer, NEW a \in 0..TxSlots, NEW b \in 0..TxSlots, a + b <= TxSlots
    PROVE  /\ (i + a) % TxSlots \in Buffer
           /\ (((i + a) % TxSlots) + b) % TxSlots = (i + (a + b)) % TxSlots
           /\ b # 0 /\ b # TxSlots => (i + a) % TxSlots # (i + (a + b)) % TxSlots
  <1>1. PICK n \in Nat \ {0} : n = TxSlots
    BY SlotAssumption
  <1>2. i \in 0..(n - 1) /\ a \in 0..n /\ b \in 0..n /\ a + b \in 0..n
    BY <1>1 DEF Buffer
  <1>3. PICK x : x = (i + a) % n
    OBVIOUS
  <1>4. x = IF i + a < n THEN i + a ELSE i + a - n
    BY <1>2, <1>3, RingAt
  <1>5. x \in 0..(n - 1)
    BY <1>2, <1>4
  <1>6. (x + b) % n = IF x + b < n THEN x + b ELSE x + b - n
    BY <1>2, <1>5, RingAt
  <1>7. PICK y : y = (i + (a + b)) % n
    OBVIOUS
  <1>8. y = IF i + (a + b) < n THEN i + (a + b) ELSE i + (a + b) - n
    BY <1>2, <1>7, RingAt
  <1>9. (x + b) % n = y
    BY <1>2, <1>4, <1>6, <1>8
  <1>10. b # 0 /\ b # n => x # y
    BY <1>2, <1>4, <1>8
  <1> QED
    BY <1>1, <1>3, <1>5, <1>7, <1>9, <1>10 DEF Buffer

LEMMA WindowEnds ==
    ASSUME NEW i \in Buffer, NEW n \in 0..TxSlots
    PROVE  /\ FdWindow(i, n) \in SUBSET Buffer
           /\ n < TxSlots => (i + n) % TxSlots \notin FdWindow(i, n)
           /\ n > 0 => i \in FdWindow(i, n)
           /\ n = 0 => FdWindow(i, n) = {}
           /\ n = TxSlots => FdWindow(i, n) = Buffer /\ (i + n) % TxSlots = i
  <1>0. TxSlots \in Nat \ {0} /\ i \in 0..(TxSlots - 1)
    BY SlotAssumption DEF Buffer
  <1>1. FdWindow(i, n) \in SUBSET Buffer
    <2>1. ASSUME NEW j \in 0..(n - 1) PROVE (i + j) % TxSlots \in Buffer
      <3>1. j \in 0..TxSlots /\ 0 \in 0..TxSlots /\ j + 0 <= TxSlots
        BY <1>0
      <3> QED
        BY <3>1, RingShift
    <2> QED
      BY <2>1 DEF FdWindow
  <1>2. ASSUME n < TxSlots PROVE (i + n) % TxSlots \notin FdWindow(i, n)
    <2>1. ASSUME NEW j \in 0..(n - 1) PROVE (i + j) % TxSlots # (i + n) % TxSlots
      <3>1. PICK b \in 0..TxSlots : b = n - j
        BY <1>0
      <3>2. j \in 0..TxSlots /\ j + b <= TxSlots /\ j + b = n /\ b # 0 /\ b # TxSlots
        BY <1>0, <1>2, <3>1
      <3> QED
        BY <3>2, RingShift
    <2> QED
      BY <2>1 DEF FdWindow
  <1>3. (i + 0) % TxSlots = i
    BY <1>0, ModSmall
  <1>4. n > 0 => i \in FdWindow(i, n)
    <2>1. n > 0 => 0 \in 0..(n - 1)
      BY <1>0
    <2> QED
      BY <1>3, <2>1 DEF FdWindow
  <1>5. n = 0 => FdWindow(i, n) = {}
    BY DEF FdWindow
  <1>6. ASSUME n = TxSlots PROVE FdWindow(i, n) = Buffer /\ (i + n) % TxSlots = i
    <2>1. ASSUME NEW x \in Buffer PROVE x \in FdWindow(i, n)
      <3>1. x \in 0..(TxSlots - 1)
        BY DEF Buffer
      <3>20. (IF x >= i THEN x - i ELSE x + TxSlots - i) \in 0..(TxSlots - 1)
        BY <1>0, <3>1
      <3>2. PICK j \in 0..(n - 1) : j = IF x >= i THEN x - i ELSE x + TxSlots - i
        BY <1>6, <3>20
      <3>3. j \in 0..TxSlots
        BY <1>0, <1>6
      <3>4. (i + j) % TxSlots = IF i + j < TxSlots THEN i + j ELSE i + j - TxSlots
        BY <1>0, <3>3, RingAt
      <3>5. (i + j) % TxSlots = x
        BY <1>0, <3>1, <3>2, <3>4
      <3> QED
        BY <3>5 DEF FdWindow
    <2>2. (i + n) % TxSlots = i
      <3>1. (i + n) % TxSlots = IF i + n < TxSlots THEN i + n ELSE i + n - TxSlots
        BY <1>0, RingAt
      <3> QED
        BY <1>0, <1>6, <3>1
    <2> QED
      BY <1>1, <2>1, <2>2
  <1> QED
    BY <1>1, <1>2, <1>4, <1>5, <1>6

LEMMA WindowMoves ==
    ASSUME NEW i \in Buffer, NEW n \in 0..(TxSlots - 1)
    PROVE  LET next == (i + 1) % TxSlots
           IN  /\ FdWindow(i, n + 1) = FdWindow(i, n) \cup {(i + n) % TxSlots}
               /\ next \in Buffer /\ FdWindow(i, n + 1) \ {i} = FdWindow(next, n)
               /\ (next + n) % TxSlots = (i + (n + 1)) % TxSlots
               /\ \A j \in 0..(n - 1) : (next + j) % TxSlots = (i + (j + 1)) % TxSlots
  <1>0. TxSlots \in Nat \ {0} /\ i \in 0..(TxSlots - 1) /\ n \in Nat /\ 1 \in 0..TxSlots
    BY SlotAssumption DEF Buffer
  <1>1. FdWindow(i, n + 1) = FdWindow(i, n) \cup {(i + n) % TxSlots}
    <2>1. \A j : j \in 0..(n + 1 - 1) <=> j \in 0..(n - 1) \/ j = n
      BY <1>0
    <2> QED
      BY <2>1 DEF FdWindow
  <1>2. PICK next : next = (i + 1) % TxSlots
    OBVIOUS
  <1>3. ASSUME NEW j \in 0..n PROVE (next + j) % TxSlots = (i + (j + 1)) % TxSlots
    <2>1. j \in 0..TxSlots /\ 1 + j <= TxSlots /\ 1 + j = j + 1
      BY <1>0
    <2>2. (((i + 1) % TxSlots) + j) % TxSlots = (i + (1 + j)) % TxSlots
      BY <1>0, <2>1, RingShift
    <2> QED
      BY <1>2, <2>1, <2>2
  <1>4. next \in Buffer
    <2>1. 0 \in 0..TxSlots /\ 1 + 0 <= TxSlots
      BY <1>0
    <2> QED
      BY <1>0, <1>2, <2>1, RingShift
  <1>5. FdWindow(i, n + 1) \ {i} = FdWindow(next, n)
    <2>1. ASSUME NEW x \in FdWindow(i, n + 1), x # i PROVE x \in FdWindow(next, n)
      <3>1. PICK j \in 0..n : x = (i + j) % TxSlots
        BY <1>0 DEF FdWindow
      <3>2. j # 0
        <4>1. (i + 0) % TxSlots = i
          BY <1>0, ModSmall
        <4> QED
          BY <2>1, <3>1, <4>1
      <3>3. PICK k \in 0..(n - 1) : k + 1 = j
        BY <1>0, <3>2
      <3>4. k \in 0..n
        BY <1>0
      <3> QED
        BY <1>3, <3>1, <3>3, <3>4 DEF FdWindow
    <2>2. ASSUME NEW x \in FdWindow(next, n) PROVE x \in FdWindow(i, n + 1) /\ x # i
      <3>1. PICK j \in 0..(n - 1) : x = (next + j) % TxSlots
        BY DEF FdWindow
      <3>2. j \in 0..n /\ j + 1 \in 0..(n + 1 - 1)
        BY <1>0
      <3>3. x = (i + (j + 1)) % TxSlots
        BY <1>3, <3>1, <3>2
      <3>4. (i + 0) % TxSlots # (i + (0 + (j + 1))) % TxSlots
        <4>1. 0 \in 0..TxSlots /\ j + 1 \in 0..TxSlots /\ 0 + (j + 1) <= TxSlots /\ j + 1 # 0 /\ j + 1 # TxSlots
          BY <1>0
        <4> QED
          BY <4>1, RingShift
      <3>5. (i + 0) % TxSlots = i /\ 0 + (j + 1) = j + 1
        BY <1>0, ModSmall
      <3> QED
        BY <3>2, <3>3, <3>4, <3>5 DEF FdWindow
    <2> QED
      BY <2>1, <2>2
  <1>6. n \in 0..n /\ \A j \in 0..(n - 1) : j \in 0..n
    BY <1>0
  <1> QED
    BY <1>1, <1>2, <1>3, <1>4, <1>5, <1>6

-----------------------------------------------------------------------------
(* Requests at the put index. *)

(* Cancelled sends come first; the others are for the buffers from the get *)
(* index on, round robin, and the put index follows the last.              *)
OrderAt(c, w, m, n) ==
    /\ Len(w.sends) = m + n
    /\ \A i \in 1..m : w.sends[i].doomed
    /\ \A j \in 0..(n - 1) : /\ ~w.sends[m + 1 + j].doomed
                             /\ w.sends[m + 1 + j].buffer = (c.tx_get + j) % TxSlots
    /\ c.txbrp = FdWindow(c.tx_get, n)
    /\ c.tx_put = (c.tx_get + n) % TxSlots

OrderInv(c, w) ==
    /\ c.tx = [b \in Buffer |-> ZeroFrame]
    /\ \E m \in Nat, n \in 0..TxSlots : OrderAt(c, w, m, n)

LEMMA OrderDoomed ==
    ASSUME NEW c \in Controller, NEW w \in FdWire, FdSettled(c), FdOwned(c, w),
           c.tx = [b \in Buffer |-> ZeroFrame], \A i \in DOMAIN w.sends : w.sends[i].doomed
    PROVE  OrderInv(c, w)
  <1>1. c.txbrp = {}
    <2>1. ASSUME NEW b \in c.txbrp PROVE FALSE
      <3>1. b \in Buffer
        BY DEF Controller
      <3>2. FdBufferOwned(c, w, b)
        BY <3>1 DEF FdOwned
      <3> QED
        BY <3>2 DEF FdBufferOwned
    <2> QED
      BY <2>1
  <1>2. PICK m \in Nat, get \in Buffer : m = Len(w.sends) /\ get = c.tx_get /\ get = c.tx_put
    BY <1>1, SendsTyped DEF Controller, FdSettled
  <1>3. 0 \in 0..TxSlots /\ (get + 0) % TxSlots = get
    BY SlotAssumption, ModSmall DEF Buffer
  <1>4. FdWindow(get, 0) = {}
    BY <1>3, WindowEnds
  <1>5. DOMAIN w.sends = 1..m /\ m + 0 = m /\ \A j \in 0..(0 - 1) : FALSE
    BY <1>2, SendsTyped
  <1>6. OrderAt(c, w, m, 0)
    BY <1>1, <1>2, <1>3, <1>4, <1>5 DEF OrderAt
  <1> QED
    BY <1>3, <1>6 DEF OrderInv

LEMMA OrderKept ==
    ASSUME NEW c, NEW d, NEW w, OrderInv(c, w), d.tx = c.tx, d.txbrp = c.txbrp, FdSameIndices(c, d)
    PROVE  OrderInv(d, w)
  BY DEF OrderInv, OrderAt, FdSameIndices

LEMMA OrderQueued ==
    ASSUME NEW c \in Controller, NEW d \in Controller, NEW w \in FdWire, NEW v \in FdWire,
           NEW m \in Nat, NEW n \in 0..TxSlots, OrderAt(c, w, m, n), FdSettled(c), c.txbrp # Buffer,
           d.txbrp = c.txbrp \cup {c.tx_put},
           FdIndexed(d, (c.tx_put + 1) % TxSlots, IF c.txbrp = {} THEN c.tx_put ELSE c.tx_get),
           NEW e \in Send, e.buffer = c.tx_put, ~e.doomed, v.sends = Append(w.sends, e)
    PROVE  n + 1 \in 0..TxSlots /\ OrderAt(d, v, m, n + 1)
  <1>1. PICK get \in Buffer, put \in Buffer : get = c.tx_get /\ put = c.tx_put
    BY DEF Controller
  <1>2. TxSlots \in Nat \ {0} /\ n \in Nat
    BY SlotAssumption
  <1>3. put = (get + n) % TxSlots /\ c.txbrp = FdWindow(get, n) /\ put \notin c.txbrp
    BY <1>1 DEF OrderAt, FdSettled
  <1>4. n # TxSlots
    BY <1>1, <1>3, WindowEnds
  <1>5. n \in 0..(TxSlots - 1) /\ n + 1 \in 0..TxSlots /\ n + 1 > 0
    BY <1>2, <1>4
  <1>6. d.txbrp = FdWindow(get, n + 1)
    <2>1. FdWindow(get, n + 1) = FdWindow(get, n) \cup {(get + n) % TxSlots}
      BY <1>5, WindowMoves
    <2> QED
      BY <1>1, <1>3, <2>1
  <1>7. (IF c.txbrp = {} THEN c.tx_put ELSE c.tx_get) = get
    <2>1. CASE c.txbrp = {}
      BY <1>1, <2>1 DEF FdSettled
    <2>2. CASE c.txbrp # {}
      BY <1>1, <2>2
    <2> QED
      BY <2>1, <2>2
  <1>8. get \in d.txbrp
    BY <1>5, <1>6, WindowEnds
  <1>9. d.tx_get = get
    BY <1>7, <1>8 DEF FdIndexed
  <1>10. PICK np : np = (put + 1) % TxSlots
    OBVIOUS
  <1>11. np = (get + (n + 1)) % TxSlots
    <2>1. n \in 0..TxSlots /\ 1 \in 0..TxSlots /\ n + 1 <= TxSlots
      BY <1>2, <1>5
    <2>2. (((get + n) % TxSlots) + 1) % TxSlots = (get + (n + 1)) % TxSlots
      BY <2>1, RingShift
    <2> QED
      BY <1>3, <1>10, <2>2
  <1>12. np \notin d.txbrp \/ d.txbrp = Buffer
    <2>1. CASE n + 1 < TxSlots
      BY <1>5, <1>6, <1>11, <2>1, WindowEnds
    <2>2. CASE n + 1 = TxSlots
      BY <1>5, <1>6, <2>2, WindowEnds
    <2> QED
      BY <1>2, <1>5, <2>1, <2>2
  <1>13. d.tx_put = (get + (n + 1)) % TxSlots
    <2>1. FdIndexed(d, np, get)
      BY <1>1, <1>7, <1>10
    <2> QED
      BY <1>11, <1>12, <2>1 DEF FdIndexed
  <1>14. PICK s \in Seq(Send), t \in Seq(Send) : s = w.sends /\ t = v.sends /\ Len(s) = m + n
    BY SendsTyped DEF OrderAt
  <1>15. Len(t) = m + n + 1 /\ t[m + n + 1] = e /\ \A i \in 1..(m + n) : t[i] = s[i]
    BY <1>14, AppendProperties
  <1>16. \A i \in 1..m : t[i].doomed
    <2>1. \A i \in 1..m : i \in 1..(m + n) /\ s[i].doomed
      BY <1>2, <1>14 DEF OrderAt
    <2> QED
      BY <1>15, <2>1
  <1>17. ASSUME NEW j \in 0..(n + 1 - 1)
         PROVE  ~t[m + 1 + j].doomed /\ t[m + 1 + j].buffer = (get + j) % TxSlots
    <2>1. CASE j = n
      <3>1. m + 1 + j = m + n + 1
        BY <1>2, <2>1
      <3> QED
        BY <1>1, <1>3, <1>15, <2>1, <3>1
    <2>2. CASE j # n
      <3>1. j \in 0..(n - 1) /\ m + 1 + j \in 1..(m + n)
        BY <1>2, <2>2
      <3>2. ~s[m + 1 + j].doomed /\ s[m + 1 + j].buffer = (get + j) % TxSlots
        BY <1>1, <1>14, <3>1 DEF OrderAt
      <3> QED
        BY <1>15, <3>1, <3>2
    <2> QED
      BY <2>1, <2>2
  <1>18. Len(t) = m + (n + 1)
    BY <1>2, <1>15
  <1> QED
    BY <1>5, <1>6, <1>9, <1>13, <1>14, <1>16, <1>17, <1>18, SMTT(60) DEF OrderAt

LEMMA OrderHeadDoomed ==
    ASSUME NEW c, NEW d, NEW w \in FdWire, NEW v, OrderInv(c, w), d.tx = c.tx, d.txbrp = c.txbrp,
           FdSameIndices(c, d), w.sends # <<>>, w.sends[1].doomed, v.sends = Tail(w.sends)
    PROVE  OrderInv(d, v)
  <1>1. PICK m \in Nat, n \in 0..TxSlots : OrderAt(c, w, m, n)
    BY DEF OrderInv
  <1>2. n \in Nat
    BY SlotAssumption
  <1>3. PICK s \in Seq(Send) : s = w.sends /\ Len(s) = m + n
    BY <1>1, SendsTyped DEF OrderAt
  <1>4. PICK t \in Seq(Send) : t = Tail(s) /\ Len(t) = Len(s) - 1 /\ \A i \in 1..(Len(s) - 1) : t[i] = s[i + 1]
    BY <1>3, SendsTyped
  <1>5. m # 0
    <2>1. SUFFICES ASSUME m = 0 PROVE FALSE
      OBVIOUS
    <2>2. m + n # 0
      BY <1>3, EmptySeq
    <2>3. 0 \in 0..(n - 1) /\ m + 1 + 0 = 1
      BY <1>2, <2>1, <2>2
    <2>4. ~w.sends[m + 1 + 0].doomed
      BY <1>1, <2>3 DEF OrderAt
    <2> QED
      BY <2>3, <2>4
  <1>6. PICK k \in Nat : k + 1 = m
    BY <1>5
  <1>7. Len(t) = k + n
    BY <1>2, <1>3, <1>4, <1>6
  <1>8. \A i \in 1..k : t[i].doomed
    <2>0. \A i \in 1..k : i \in 1..(k + n) /\ i + 1 \in 1..m
      BY <1>2, <1>6
    <2>1. \A i \in 1..k : i \in 1..(Len(s) - 1) /\ i + 1 \in 1..m
      BY <1>4, <1>7, <2>0
    <2> QED
      BY <1>1, <1>3, <1>4, <2>1 DEF OrderAt
  <1>9. ASSUME NEW j \in 0..(n - 1)
        PROVE  ~t[k + 1 + j].doomed /\ t[k + 1 + j].buffer = (c.tx_get + j) % TxSlots
    <2>0. k + 1 + j \in 1..(k + n) /\ k + 1 + j + 1 = m + 1 + j
      BY <1>2, <1>6
    <2>1. k + 1 + j \in 1..(Len(s) - 1) /\ k + 1 + j + 1 = m + 1 + j
      BY <1>4, <1>7, <2>0
    <2>2. t[k + 1 + j] = s[m + 1 + j]
      BY <1>4, <2>1
    <2> QED
      BY <1>1, <1>3, <2>2 DEF OrderAt
  <1>10. v.sends = t
    BY <1>3, <1>4
  <1>11. OrderAt(d, v, k, n)
    BY <1>1, <1>7, <1>8, <1>9, <1>10 DEF OrderAt, FdSameIndices
  <1> QED
    BY <1>11 DEF OrderInv

LEMMA OrderHeadLive ==
    ASSUME NEW c \in Controller, NEW d \in Controller, NEW w \in FdWire, NEW v, OrderInv(c, w), d.tx = c.tx,
           w.sends # <<>>, ~w.sends[1].doomed, v.sends = Tail(w.sends),
           d.txbrp = c.txbrp \ {w.sends[1].buffer}, FdIndexed(d, c.tx_put, c.tx_get)
    PROVE  OrderInv(d, v)
  <1>1. PICK m \in Nat, n \in 0..TxSlots : OrderAt(c, w, m, n)
    BY DEF OrderInv
  <1>2. n \in Nat /\ TxSlots \in Nat \ {0}
    BY SlotAssumption
  <1>3. PICK s \in Seq(Send) : s = w.sends /\ Len(s) = m + n
    BY <1>1, SendsTyped DEF OrderAt
  <1>4. PICK t \in Seq(Send) : t = Tail(s) /\ Len(t) = Len(s) - 1 /\ \A i \in 1..(Len(s) - 1) : t[i] = s[i + 1]
    BY <1>3, SendsTyped
  <1>5. m = 0
    <2>1. m # 0 => 1 \in 1..m
      OBVIOUS
    <2> QED
      BY <1>1, <2>1 DEF OrderAt
  <1>6. n # 0
    BY <1>3, <1>5, EmptySeq
  <1>7. PICK k \in 0..(TxSlots - 1) : k + 1 = n
    BY <1>2, <1>6
  <1>8. PICK get \in Buffer, put \in Buffer : get = c.tx_get /\ put = c.tx_put
    BY DEF Controller
  <1>9. w.sends[1].buffer = get
    <2>1. 0 \in 0..(n - 1) /\ m + 1 + 0 = 1
      BY <1>2, <1>5, <1>6
    <2>2. w.sends[m + 1 + 0].buffer = (get + 0) % TxSlots
      BY <1>1, <1>8, <2>1 DEF OrderAt
    <2>3. (get + 0) % TxSlots = get
      BY <1>2, ModSmall DEF Buffer
    <2> QED
      BY <2>1, <2>2, <2>3
  <1>10. PICK next \in Buffer : /\ next = (get + 1) % TxSlots /\ FdWindow(get, k + 1) \ {get} = FdWindow(next, k)
                                /\ (next + k) % TxSlots = (get + (k + 1)) % TxSlots
                                /\ \A j \in 0..(k - 1) : (next + j) % TxSlots = (get + (j + 1)) % TxSlots
    BY WindowMoves
  <1>11. d.txbrp = FdWindow(next, k) /\ put = (next + k) % TxSlots
    BY <1>1, <1>7, <1>8, <1>9, <1>10 DEF OrderAt
  <1>12. k \in 0..TxSlots /\ k < TxSlots
    BY <1>2
  <1>13. put \notin d.txbrp
    BY <1>11, <1>12, WindowEnds
  <1>14. d.tx_put = put
    BY <1>8, <1>13 DEF FdIndexed
  <1>15. d.tx_get = next
    <2>1. CASE k = 0
      <3>1. d.txbrp = {} /\ put = next
        <4>1. (next + 0) % TxSlots = next
          BY <1>2, ModSmall DEF Buffer
        <4> QED
          BY <1>11, <1>12, <2>1, <4>1, WindowEnds
      <3> QED
        BY <1>14, <3>1 DEF FdIndexed
    <2>2. CASE k # 0
      <3>1. k > 0
        BY <1>12, <2>2
      <3>2. next \in d.txbrp /\ get \notin d.txbrp
        BY <1>8, <1>9, <1>11, <1>12, <3>1, WindowEnds
      <3> QED
        BY <1>8, <1>10, <3>2 DEF FdIndexed
    <2> QED
      BY <2>1, <2>2
  <1>16. Len(t) = 0 + k
    BY <1>2, <1>3, <1>4, <1>5, <1>7
  <1>17. ASSUME NEW j \in 0..(k - 1)
         PROVE  ~t[0 + 1 + j].doomed /\ t[0 + 1 + j].buffer = (next + j) % TxSlots
    <2>1. /\ 0 + 1 + j \in 1..(Len(s) - 1) /\ 0 + 1 + j + 1 = m + 1 + (j + 1)
          /\ j + 1 \in 0..(n - 1)
      BY <1>2, <1>3, <1>5, <1>7
    <2>2. t[0 + 1 + j] = s[m + 1 + (j + 1)]
      BY <1>4, <2>1
    <2>3. ~s[m + 1 + (j + 1)].doomed /\ s[m + 1 + (j + 1)].buffer = (get + (j + 1)) % TxSlots
      BY <1>1, <1>3, <1>8, <2>1 DEF OrderAt
    <2> QED
      BY <1>10, <2>2, <2>3
  <1>18. \A i \in 1..0 : t[i].doomed
    OBVIOUS
  <1>19. v.sends = t
    BY <1>3, <1>4
  <1>20. OrderAt(d, v, 0, k)
    BY <1>11, <1>14, <1>15, <1>16, <1>17, <1>18, <1>19 DEF OrderAt
  <1> QED
    BY <1>12, <1>20 DEF OrderInv

LEMMA CompletionFrames ==
    ASSUME NEW p \in FdPair, NEW r, NEW b \in Buffer, NEW g \in Nat, FdMid(p, r, b, g)
    PROVE  LET q == [fd |-> Completion(r.fd, b, g, TRUE),
                     wire |-> [r.wire EXCEPT !.sent = @ \cup {r.wire.request[b]}]]
           IN  q.fd.tx = r.fd.tx /\ q.wire.next = r.wire.next /\ q.wire.sends = r.wire.sends
  <1>1. PICK c \in Controller : c = p.fd
    BY DEF FdPair
  <1>2. PICK d \in Controller, v \in FdWire : d = r.fd /\ v = r.wire
    BY DEF FdPair, FdMid, FdSound
  <1>3. d.generation[b] = g /\ d.state[b] = "pending"
    BY <1>1, <1>2 DEF FdMid, Controller
  <1>4. PICK e : e = CompleteTransmission(d, b, g)
    OBVIOUS
  <1>5. Completion(d, b, g, TRUE) = e
    BY <1>3, <1>4 DEF Completion, Current
  <1>6. FdTxDone(d, e, b, "complete", d.txbrp \ {b}, d.txbto \cup {b})
    BY <1>2, <1>3, <1>4, Completed DEF FdMid, FdSound, Current
  <1>7. PICK u : u = [v EXCEPT !.sent = @ \cup {v.request[b]}]
    OBVIOUS
  <1>8. u.next = v.next /\ u.sends = v.sends
    BY <1>7 DEF FdWire
  <1> QED
    BY <1>2, <1>5, <1>6, <1>7, <1>8 DEF FdTxDone

(* How a request ends, as far as the order of the sends goes.              *)
FdSentOn(r, q, b) ==
    /\ q.fd.tx = r.fd.tx /\ q.wire.next = r.wire.next
    /\ \/ q.wire.sends = r.wire.sends
       \/ /\ q.fd.txbrp = r.fd.txbrp /\ FdSameIndices(r.fd, q.fd)
          /\ \E e \in Send : e.buffer = b /\ ~e.doomed /\ q.wire.sends = Append(r.wire.sends, e)

LEMMA TransmitEffect ==
    ASSUME NEW p \in FdPair, NEW r, NEW b \in Buffer, NEW answer \in Answer,
           FdMid(p, r, b, p.fd.generation[b])
    PROVE  FdSentOn(r, TransmitBuffer(r, b, answer), b)
  <1> DEFINE begun == [r EXCEPT !.fd.generation[b] = @ + 1]
  <1>1. PICK g \in Nat : g = p.fd.generation[b]
    BY DEF FdPair, Controller
  <1>2. PICK h : h = begun
    OBVIOUS
  <1>3. PICK k \in Nat : k = g + 1
    OBVIOUS
  <1>4. FdMid(p, h, b, k) /\ h.fd.generation[b] = k
    <2>1. FdMid(p, r, b, g)
      BY <1>1
    <2>2. FdMid(p, h, b, g + 1) /\ h.fd.generation[b] = g + 1
      BY <1>2, <2>1, MidBegun
    <2> QED
      BY <1>3, <2>2
  <1>5. PICK c \in Controller, w \in FdWire : c = r.fd /\ w = r.wire /\ r = [fd |-> c, wire |-> w] /\ FdLines(c)
    BY DEF FdMid, FdSound, FdPair
  <1>6. PICK d : d = [c EXCEPT !.generation[b] = @ + 1]
    OBVIOUS
  <1>7. h = [fd |-> d, wire |-> w]
    BY <1>2, <1>5, <1>6
  <1>8. d.tx = c.tx /\ d.txbrp = c.txbrp /\ FdSameIndices(c, d) /\ h.fd = d /\ h.wire = w
    BY <1>6, <1>7 DEF Controller, FdSameIndices
  <1>9. d \in Controller /\ FdLines(d)
    BY <1>4, <1>8 DEF FdMid, FdSound, FdPair
  <1>10. PICK frame \in Frames : frame = c.tx[b]
    BY DEF Controller
  <1>11. frame.valid \in BOOLEAN
    BY FrameAssumption
  <1> DEFINE Finish(q) == [fd |-> Completion(q.fd, b, k, TRUE),
                           wire |-> [q.wire EXCEPT !.sent = @ \cup {q.wire.request[b]}]]
             queued == [h EXCEPT !.wire.sends =
                           Append(@, [buffer |-> b, generation |-> k,
                                      request |-> r.wire.request[b], doomed |-> FALSE])]
             result ==
               CASE ~ frame.valid -> [r EXCEPT !.fd = Release(@, b)]
                 [] frame.valid /\ (~ r.fd.attached \/ answer = "delivered") -> Finish(h)
                 [] frame.valid /\ r.fd.attached /\ answer = "looped" -> Finish(ReceiveFrame(h, frame))
                 [] frame.valid /\ r.fd.attached /\ answer = "refused" -> [h EXCEPT !.fd = Release(@, b)]
                 [] frame.valid /\ r.fd.attached /\ answer = "queued" -> queued
  <1>12. TransmitBuffer(r, b, answer) = result
    BY <1>2, <1>4, <1>5, <1>10 DEF TransmitBuffer
  <1>13. ASSUME NEW x \in Controller, FdLines(x), x.tx = c.tx, NEW y, y = [fd |-> Release(x, b), wire |-> w]
         PROVE  FdSentOn(r, y, b)
    <2>1. FdTxDone(x, Release(x, b), b, "idle", x.txbrp \ {b}, x.txbto)
      BY <1>13, Released
    <2> QED
      BY <1>5, <1>13, <2>1 DEF FdTxDone, FdSentOn
  <1>14. CASE ~frame.valid
    <2>1. result = [r EXCEPT !.fd = Release(@, b)]
      BY <1>14
    <2> HIDE DEF result
    <2>2. result = [fd |-> Release(c, b), wire |-> w]
      BY <1>5, <2>1
    <2> QED
      BY <1>5, <1>12, <1>13, <2>2
  <1>15. ASSUME NEW q, FdMid(p, q, b, k), q.wire.next = w.next
         PROVE  FdSentOn(r, Finish(q), b)
    <2>1. Finish(q).fd.tx = q.fd.tx /\ Finish(q).wire.next = q.wire.next /\ Finish(q).wire.sends = q.wire.sends
      BY <1>15, CompletionFrames
    <2>2. q.fd.tx = r.fd.tx /\ q.wire.sends = r.wire.sends
      BY <1>15 DEF FdMid
    <2> HIDE DEF Finish
    <2> QED
      BY <1>5, <1>15, <2>1, <2>2 DEF FdSentOn
  <1>16. CASE frame.valid /\ (~ r.fd.attached \/ answer = "delivered")
    <2>1. result = Finish(h)
      BY <1>16
    <2> HIDE DEF result, Finish
    <2> QED
      BY <1>4, <1>8, <1>12, <1>15, <2>1
  <1>17. CASE frame.valid /\ r.fd.attached /\ answer = "looped"
    <2>1. PICK q : q = ReceiveFrame(h, frame)
      OBVIOUS
    <2>2. result = Finish(q)
      BY <1>17, <2>1
    <2>3. h \in FdPair /\ FdLines(h.fd)
      BY <1>4 DEF FdMid, FdSound
    <2>4. FdReceived(h, q)
      BY <2>1, <2>3, FrameReceived
    <2>5. FdMid(p, q, b, k) /\ q.wire.next = w.next
      BY <1>4, <1>8, <2>4, MidReceived DEF FdReceived
    <2> HIDE DEF result, Finish
    <2> QED
      BY <1>12, <1>15, <2>2, <2>5
  <1>18. CASE frame.valid /\ r.fd.attached /\ answer = "refused"
    <2>1. result = [h EXCEPT !.fd = Release(@, b)]
      BY <1>18
    <2> HIDE DEF result
    <2>2. result = [fd |-> Release(d, b), wire |-> w]
      BY <1>7, <2>1
    <2> QED
      BY <1>8, <1>9, <1>12, <1>13, <2>2
  <1>19. CASE frame.valid /\ r.fd.attached /\ answer = "queued"
    <2>1. result = queued
      BY <1>19
    <2>2. PICK e \in Send : e = [buffer |-> b, generation |-> k, request |-> r.wire.request[b], doomed |-> FALSE]
      BY <1>5 DEF Send, FdWire
    <2>3. e.buffer = b /\ ~e.doomed
      BY <2>2
    <2>4. PICK t : t = Append(w.sends, e)
      OBVIOUS
    <2>5. PICK u : u = [w EXCEPT !.sends = t]
      OBVIOUS
    <2>6. queued = [fd |-> d, wire |-> u]
      <3>1. queued = [h EXCEPT !.wire.sends = Append(@, e)]
        BY <2>2
      <3>2. queued = [h EXCEPT !.wire = [w EXCEPT !.sends = Append(w.sends, e)]]
        BY <1>7, <3>1
      <3> HIDE DEF queued
      <3> QED
        BY <1>7, <2>4, <2>5, <3>2
    <2>7. u.sends = t /\ u.next = w.next
      BY <2>5 DEF FdWire
    <2> HIDE DEF result, queued
    <2>8. PICK y : y = TransmitBuffer(r, b, answer)
      OBVIOUS
    <2>9. y.fd = d /\ y.wire = u
      BY <1>12, <2>1, <2>6, <2>8
    <2>10. y.fd.tx = r.fd.tx /\ y.wire.next = r.wire.next /\ y.fd.txbrp = r.fd.txbrp
           /\ FdSameIndices(r.fd, y.fd)
      BY <1>5, <1>8, <2>7, <2>9
    <2>11. y.wire.sends = Append(r.wire.sends, e)
      BY <1>5, <2>4, <2>7, <2>9
    <2>12. FdSentOn(r, y, b)
      BY <2>3, <2>10, <2>11 DEF FdSentOn
    <2> QED
      BY <2>8, <2>12
  <1> HIDE DEF result
  <1> QED
    BY <1>11, <1>14, <1>16, <1>17, <1>18, <1>19 DEF Answer

LEMMA SingleRequest ==
    ASSUME NEW b \in Buffer, NEW answer
    PROVE  RequestAll({b}, answer) = RequestBuffer(Machine, b, answer[b])
  <1>1. PICK f : FdTurns(Machine, {b}, answer, f, TxSlots) /\ RequestAll({b}, answer) = f[TxSlots]
    BY TurnsFold
  <1>2. PICK start : start = Machine
    OBVIOUS
  <1>3. FdTurns(start, {b}, answer, f, TxSlots)
    BY <1>1, <1>2
  <1>4. \A k \in 0..TxSlots : f[k] = IF k = 0 THEN start ELSE FdTurn({b}, answer, k, f[k - 1])
    <2>1. PICK e : e = [k \in 0..TxSlots |-> IF k = 0 THEN start ELSE FdTurn({b}, answer, k, f[k - 1])]
      OBVIOUS
    <2>2. f = e
      BY <1>3, <2>1 DEF FdTurns
    <2>3. \A k \in 0..TxSlots : e[k] = IF k = 0 THEN start ELSE FdTurn({b}, answer, k, f[k - 1])
      BY <2>1
    <2> QED
      BY <2>2, <2>3
  <1>5. PICK done : done = RequestBuffer(start, b, answer[b])
    OBVIOUS
  <1>6. TxSlots \in Nat \ {0} /\ b \in 0..(TxSlots - 1)
    BY SlotAssumption DEF Buffer
  <1> DEFINE Bad == {k \in 0..TxSlots : f[k] # IF k <= b THEN start ELSE done}
  <1>7. Bad = {}
    <2>1. SUFFICES ASSUME Bad # {} PROVE FALSE
      OBVIOUS
    <2>2. Bad \in SUBSET Nat
      BY <1>6
    <2>3. PICK k \in Bad : \A j \in Bad : k <= j
      <3> HIDE DEF Bad
      <3> QED
        BY <2>1, <2>2, LeastNumber
    <2>4. k \in 0..TxSlots /\ f[k] # IF k <= b THEN start ELSE done
      BY <2>3
    <2>5. k # 0
      BY <1>4, <1>6, <2>4
    <2>6. PICK j \in 0..TxSlots : j = k - 1 /\ j < k
      BY <1>6, <2>4, <2>5
    <2>7. j \notin Bad
      <3> HIDE DEF Bad
      <3>1. k \in Nat /\ j \in Nat
        BY <1>6, <2>4
      <3> QED
        BY <2>3, <2>6, <3>1
    <2>8. f[j] = IF j <= b THEN start ELSE done
      BY <2>7
    <2> HIDE DEF Bad
    <2>9. f[k] = IF j \in {b} THEN RequestBuffer(f[j], j, answer[j]) ELSE f[j]
      BY <1>4, <2>4, <2>5, <2>6 DEF FdTurn
    <2>10. CASE j = b
      <3>1. f[j] = start /\ ~(k <= b)
        BY <1>6, <2>4, <2>6, <2>8, <2>10
      <3> QED
        BY <1>5, <2>4, <2>9, <2>10, <3>1
    <2>11. CASE j # b
      <3>1. (k <= b) <=> (j <= b)
        BY <1>6, <2>4, <2>6, <2>11
      <3> QED
        BY <2>4, <2>8, <2>9, <2>11, <3>1
    <2> QED
      BY <2>10, <2>11
  <1>8. TxSlots \in 0..TxSlots /\ ~(TxSlots <= b)
    BY <1>6
  <1>9. f[TxSlots] = done
    BY <1>7, <1>8
  <1> QED
    BY <1>1, <1>2, <1>5, <1>9

LEMMA PairTyped ==
    ASSUME NEW q, FdInv(q)
    PROVE  /\ q \in FdPair /\ q.fd \in Controller /\ q.wire \in FdWire /\ FdLines(q.fd) /\ FdSettled(q.fd)
           /\ FdRing(q.fd, q.wire) /\ FdOwned(q.fd, q.wire)
  BY DEF FdInv, FdSound, FdPair

LEMMA NextPair ==
    ASSUME NEW q, q = [fd |-> fd', wire |-> wire'], FdInv(Machine), FdStep
    PROVE  FdInv(q) /\ q.fd = fd' /\ q.wire = wire'
  <1>1. FdInv(Machine)'
    BY StepKeeps
  <1> QED
    BY <1>1 DEF Machine

LEMMA OrderRequested ==
    ASSUME NEW p, NEW q, NEW b \in Buffer, NEW answer \in Answer, FdInv(p), OrderInv(p.fd, p.wire),
           p.fd.txbrp # Buffer, b = p.fd.tx_put, q = RequestBuffer(p, b, answer),
           p.fd.attached /\ q.wire.next # p.wire.next => q.wire.sends # p.wire.sends
    PROVE  OrderInv(q.fd, q.wire)
  <1>1. PICK c \in Controller, w \in FdWire :
            c = p.fd /\ w = p.wire /\ p \in FdPair /\ FdSettled(c) /\ FdOwned(c, w)
    BY PairTyped
  <1>2. b \notin c.txbrp /\ c.state[b] # "pending"
    BY <1>1 DEF FdSettled, FdOwned, FdBufferOwned
  <1>3. PICK r : r = [fd |-> Reserve(p.fd, b),
                      wire |-> [p.wire EXCEPT !.request[b] = p.wire.next, !.next = @ + 1]]
    OBVIOUS
  <1>4. FdMid(p, r, b, p.fd.generation[b])
    BY <1>1, <1>3, MidReserved DEF FdInv
  <1>5. q = TransmitBuffer(r, b, answer)
    BY <1>1, <1>2, <1>3 DEF RequestBuffer
  <1>6. FdSentOn(r, q, b) /\ FdOutcome(p, q, b)
    BY <1>1, <1>4, <1>5, TransmitEffect, Transmitted
  <1>7. FdInv(q)
    BY <1>1, RequestServed
  <1>8. PICK d \in Controller, v \in FdWire : d = q.fd /\ v = q.wire /\ FdSettled(d) /\ FdOwned(d, v)
    BY <1>7, PairTyped
  <1>9. c.tx = [x \in Buffer |-> ZeroFrame] /\ d.tx = c.tx
    BY <1>1, <1>4, <1>6, <1>8 DEF OrderInv, FdSentOn, FdMid
  <1>10. CASE ~c.attached
    <2>1. ~d.attached
      BY <1>1, <1>6, <1>8, <1>10 DEF FdOutcome
    <2>2. \A i \in DOMAIN v.sends : v.sends[i].doomed
      BY <1>8, <2>1 DEF FdOwned
    <2> QED
      BY <1>8, <1>9, <2>2, OrderDoomed
  <1>11. CASE c.attached
    <2>1. r.wire.sends = w.sends /\ r.wire.next = w.next + 1 /\ w.next \in Nat
      <3>1. r.wire = [w EXCEPT !.request[b] = w.next, !.next = w.next + 1]
        BY <1>1, <1>3
      <3> QED
        BY <3>1 DEF FdWire
    <2>2. v.next # w.next
      BY <1>6, <1>8, <2>1 DEF FdSentOn
    <2>3. v.sends # w.sends
      BY <1>1, <1>8, <1>11, <2>2
    <2>4. PICK e \in Send : e.buffer = b /\ ~e.doomed /\ v.sends = Append(w.sends, e)
      BY <1>6, <1>8, <2>1, <2>3 DEF FdSentOn
    <2>5. d.txbrp = c.txbrp \cup {b}
      BY <1>1, <1>4, <1>6, <1>8, <2>1, <2>3 DEF FdSentOn, FdMid
    <2>6. FdSameIndices(r.fd, d) /\ d.txbrp = r.fd.txbrp
      BY <1>6, <1>8, <2>1, <2>3 DEF FdSentOn
    <2>7. r.fd = Reserve(c, b)
      BY <1>1, <1>3
    <2>8. PICK get : get = IF c.txbrp = {} THEN b ELSE c.tx_get
      OBVIOUS
    <2>9. FdIndexed(r.fd, (b + 1) % TxSlots, get)
      BY <2>7, <2>8, ReservedIndexed
    <2>10. FdIndexed(d, (b + 1) % TxSlots, get)
      BY <2>6, <2>9, SameIndexed
    <2>11. PICK m \in Nat, n \in 0..TxSlots : OrderAt(c, w, m, n)
      BY <1>1 DEF OrderInv
    <2>12. n + 1 \in 0..TxSlots /\ OrderAt(d, v, m, n + 1)
      <3>1. /\ FdIndexed(d, (c.tx_put + 1) % TxSlots, IF c.txbrp = {} THEN c.tx_put ELSE c.tx_get)
            /\ c.txbrp # Buffer /\ d.txbrp = c.txbrp \cup {c.tx_put} /\ e.buffer = c.tx_put
        BY <1>1, <2>4, <2>5, <2>8, <2>10
      <3> QED
        BY <1>1, <2>4, <2>11, <3>1, OrderQueued
    <2> QED
      BY <1>8, <1>9, <2>12 DEF OrderInv
  <1> QED
    BY <1>10, <1>11

LEMMA SettledIndexed ==
    ASSUME NEW c \in Controller, NEW d, FdSettled(c), FdIndexed(d, c.tx_put, c.tx_get), d.txbrp = c.txbrp
    PROVE  FdSameIndices(c, d)
  <1>1. d.tx_put = c.tx_put
    BY DEF FdSettled, FdIndexed
  <1>2. d.tx_get = c.tx_get
    BY <1>1 DEF FdSettled, FdIndexed
  <1> QED
    BY <1>1, <1>2 DEF FdSameIndices

LEMMA OrderCompleted ==
    ASSUME NEW p, NEW q, NEW success \in BOOLEAN, FdInv(p), OrderInv(p.fd, p.wire), FdHeadDone(p, q, success)
    PROVE  OrderInv(q.fd, q.wire)
  <1>1. PICK c \in Controller, w \in FdWire :
            /\ c = p.fd /\ w = p.wire /\ p \in FdPair /\ FdLines(c) /\ FdSettled(c) /\ FdOwned(c, w)
            /\ OrderInv(c, w) /\ w.sends # <<>>
    BY PairTyped DEF FdHeadDone
  <1>2. 1 \in DOMAIN w.sends /\ Head(w.sends) = w.sends[1]
    BY <1>1, SendsTyped
  <1>3. PICK s \in Send : s = w.sends[1]
    BY <1>2, SendsTyped
  <1>4. PICK b \in Buffer, g \in Nat : b = s.buffer /\ g = s.generation
    BY DEF Send
  <1>5. FdSendOf(c, w, s) /\ FdBufferOwned(c, w, b)
    BY <1>1, <1>2, <1>3, <1>4 DEF FdOwned, FdBufferOwned
  <1>6. PICK d : d = Completion(c, b, g, success)
    OBVIOUS
  <1>60. d = q.fd
    BY <1>1, <1>2, <1>3, <1>4, <1>6 DEF FdHeadDone
  <1>7. PICK v : v = q.wire /\ v.sends = Tail(w.sends)
    <2>1. PICK sent : q.wire = [w EXCEPT !.sends = Tail(w.sends), !.sent = sent]
      BY <1>1 DEF FdHeadDone
    <2>2. q.wire.sends = Tail(w.sends)
      BY <2>1 DEF FdWire
    <2> QED
      BY <2>2
  <1>8. \/ d = c /\ (g # c.generation[b] \/ (success /\ c.state[b] # "pending"))
        \/ /\ g = c.generation[b] /\ success /\ c.state[b] = "pending"
           /\ FdTxDone(c, d, b, "complete", c.txbrp \ {b}, c.txbto \cup {b})
        \/ /\ g = c.generation[b] /\ ~success
           /\ FdTxDone(c, d, b, "idle", c.txbrp \ {b}, c.txbto)
    BY <1>1, <1>6, CompletionEffect
  <1>9. g = c.generation[b] /\ ~success => FdIndexed(d, c.tx_put, c.tx_get)
    <2>1. ASSUME g = c.generation[b], ~success PROVE d = Release(c, b)
      BY <1>6, <2>1 DEF Completion, Current
    <2> QED
      BY <2>1, ReleasedIndexed
  <1>10. g = c.generation[b] /\ success /\ c.state[b] = "pending" => FdIndexed(d, c.tx_put, c.tx_get)
    <2>1. ASSUME g = c.generation[b], success PROVE d = CompleteTransmission(c, b, g) /\ Current(c, b, g)
      BY <1>6, <2>1 DEF Completion, Current
    <2> QED
      BY <2>1, CompletedIndexed
  <1>11. CASE s.doomed
    <2>1. g < c.generation[b] \/ (g = c.generation[b] /\ c.state[b] = "idle")
      BY <1>4, <1>5, <1>11 DEF FdSendOf
    <2>2. c.generation[b] \in Nat
      BY DEF Controller
    <2>3. d = c \/ (FdTxDone(c, d, b, "idle", c.txbrp \ {b}, c.txbto) /\ FdIndexed(d, c.tx_put, c.tx_get)
                    /\ c.state[b] = "idle")
      BY <1>8, <1>9, <2>1, <2>2
    <2>4. d.tx = c.tx /\ d.txbrp = c.txbrp /\ FdSameIndices(c, d)
      <3>1. CASE d = c
        BY <3>1 DEF FdSameIndices
      <3>2. CASE d # c
        <4>1. b \notin c.txbrp
          BY <1>5, <2>3, <3>2 DEF FdBufferOwned
        <4>2. d.txbrp = c.txbrp /\ d.tx = c.tx
          BY <2>3, <3>2, <4>1 DEF FdTxDone
        <4>3. FdSameIndices(c, d)
          BY <1>1, <2>3, <3>2, <4>2, SettledIndexed
        <4> QED
          BY <4>2, <4>3
      <3> QED
        BY <3>1, <3>2
    <2>5. OrderInv(d, v)
      BY <1>1, <1>3, <1>7, <1>11, <2>4, OrderHeadDoomed
    <2> QED
      BY <1>60, <1>7, <2>5
  <1>12. CASE ~s.doomed
    <2>1. g = c.generation[b] /\ c.state[b] = "pending"
      BY <1>4, <1>5, <1>12 DEF FdSendOf
    <2>2. d \in Controller /\ d.tx = c.tx /\ d.txbrp = c.txbrp \ {b} /\ FdIndexed(d, c.tx_put, c.tx_get)
      BY <1>8, <1>9, <1>10, <2>1 DEF FdTxDone
    <2>3. OrderInv(d, v)
      BY <1>1, <1>3, <1>4, <1>7, <1>12, <2>2, OrderHeadLive
    <2> QED
      BY <1>60, <1>7, <2>3
  <1> QED
    BY <1>11, <1>12

(* An attachment moves no frame, and leaves only cancelled sends.          *)
LEMMA AttachEffect ==
    ASSUME FdInv(Machine), AttachBus \/ Detach, NEW d, d = fd', NEW v, v = wire'
    PROVE  /\ FdSameRx(fd, d) /\ d.tx = fd.tx /\ v.stored = wire.stored /\ v.overwritten = wire.overwritten
           /\ \A i \in DOMAIN v.sends : v.sends[i].doomed
  <1>1. PICK c \in Controller, w \in FdWire : c = fd /\ w = wire /\ FdLines(c) /\ FdOwned(c, w)
    BY MachineTyped
  <1>2. PICK kept \in 0..Len(w.sends), ok \in BOOLEAN :
            /\ d = [(IF c.attached THEN DetachBus(c) ELSE c) EXCEPT !.attached = ok] \/ d = DetachBus(c)
            /\ v = IF c.attached THEN CancelSender(w, kept) ELSE w
    <2>1. CASE AttachBus
      BY <1>1, <2>1 DEF AttachBus
    <2>2. CASE Detach
      BY <1>1, <2>2 DEF Detach
    <2> QED
      BY <2>1, <2>2
  <1>3. PICK e : e = DetachBus(c)
    OBVIOUS
  <1>4. e \in Controller /\ FdSameRx(c, e) /\ e.tx = c.tx
    BY <1>1, <1>3, BusDetached
  <1>5. PICK f \in Controller : f = (IF c.attached THEN DetachBus(c) ELSE c) /\ FdSameRx(c, f) /\ f.tx = c.tx
    BY <1>3, <1>4 DEF FdSameRx
  <1>6. FdSameRx(c, d) /\ d.tx = c.tx
    <2>1. CASE d = DetachBus(c)
      BY <1>3, <1>4, <2>1
    <2>2. CASE d # DetachBus(c)
      <3>1. d = [f EXCEPT !.attached = ok]
        BY <1>2, <1>5, <2>2
      <3>2. FdSameRx(f, d) /\ d.tx = f.tx
        BY <3>1 DEF Controller, FdSameRx
      <3> QED
        BY <1>5, <3>2 DEF FdSameRx
    <2> QED
      BY <2>1, <2>2
  <1>7. /\ v.stored = w.stored /\ v.overwritten = w.overwritten
        /\ \A i \in DOMAIN v.sends : v.sends[i].doomed
    <2>1. CASE c.attached
      <3>1. FdDoomed(w, v)
        BY <1>2, <2>1, SenderCancelled
      <3> QED
        BY <3>1 DEF FdDoomed
    <2>2. CASE ~c.attached
      BY <1>1, <1>2, <2>2 DEF FdOwned
    <2> QED
      BY <2>1, <2>2
  <1> QED
    BY <1>1, <1>6, <1>7

LEMMA ResetEffect ==
    ASSUME FdInv(Machine), Reset, NEW d, d = fd', NEW v, v = wire'
    PROVE  /\ d.rx_fill = 0 /\ d.tx = fd.tx /\ v.stored = 0
           /\ \A i \in DOMAIN v.sends : v.sends[i].doomed
  <1>1. PICK c \in Controller, w \in FdWire : c = fd /\ w = wire /\ FdOwned(c, w)
    BY MachineTyped
  <1>2. PICK kept \in 0..Len(w.sends) :
            v = [(IF c.attached THEN CancelSender(w, kept) ELSE w) EXCEPT !.stored = 0, !.overwritten = FALSE]
    BY <1>1 DEF Reset
  <1>3. PICK u : u = IF c.attached THEN CancelSender(w, kept) ELSE w
    OBVIOUS
  <1>4. u \in FdWire /\ \A i \in DOMAIN u.sends : u.sends[i].doomed
    <2>1. CASE c.attached
      <3>1. FdDoomed(w, u)
        BY <1>3, <2>1, SenderCancelled
      <3> QED
        BY <3>1 DEF FdDoomed
    <2>2. CASE ~c.attached
      BY <1>1, <1>3, <2>2 DEF FdOwned
    <2> QED
      BY <2>1, <2>2
  <1>5. v = [u EXCEPT !.stored = 0, !.overwritten = FALSE]
    BY <1>2, <1>3
  <1>6. v.sends = u.sends /\ v.stored = 0
    BY <1>4, <1>5 DEF FdWire
  <1>7. d = OnReset(c)
    BY <1>1 DEF Reset
  <1>8. d.rx_fill = 0 /\ d.tx = c.tx
    BY <1>7, ControllerReset
  <1> QED
    BY <1>1, <1>4, <1>6, <1>8

LEMMA OrderKeeps ==
    ASSUME FdInv(Machine), OrderInv(fd, wire), Ordering \/ UNCHANGED <<fd, wire>>
    PROVE  OrderInv(fd, wire)'
  <1>1. PICK p : p = Machine
    OBVIOUS
  <1>2. p \in FdPair /\ p.fd = fd /\ p.wire = wire /\ FdInv(p) /\ OrderInv(p.fd, p.wire)
    BY <1>1, MachineTyped DEF Machine
  <1>3. PICK q : q = [fd |-> fd', wire |-> wire']
    OBVIOUS
  <1>4. q.fd = fd' /\ q.wire = wire'
    BY <1>3
  <1>5. SUFFICES OrderInv(q.fd, q.wire)
    BY <1>4
  <1>6. fd \in Controller /\ fd.tx = [b \in Buffer |-> ZeroFrame]
    BY MachineTyped DEF OrderInv
  <1>7. ASSUME FdStep, q.fd.tx = fd.tx, \A i \in DOMAIN q.wire.sends : q.wire.sends[i].doomed
        PROVE  OrderInv(q.fd, q.wire)
    <2>1. FdInv(q)
      BY <1>3, <1>7, NextPair
    <2> QED
      BY <1>6, <1>7, <2>1, PairTyped, OrderDoomed
  <1>8. CASE WriteCccr
    <2>1. PICK value : fd' = ApplyControllerControl(fd, value) /\ wire' = wire
      BY <1>8 DEF WriteCccr
    <2>2. PICK c \in Controller : c = fd
      BY <1>6
    <2>3. PICK control, mode : ApplyControllerControl(c, value) = [c EXCEPT !.cccr = control, !.mode = mode]
      BY DEF ApplyControllerControl
    <2>4. PICK d : d = [c EXCEPT !.cccr = control, !.mode = mode]
      OBVIOUS
    <2>5. d.tx = c.tx /\ d.txbrp = c.txbrp /\ FdSameIndices(c, d)
      BY <2>4 DEF Controller, FdSameIndices
    <2>6. OrderInv(d, p.wire)
      BY <1>2, <2>2, <2>5, OrderKept
    <2> QED
      BY <1>2, <1>4, <2>1, <2>2, <2>3, <2>4, <2>6
  <1>9. CASE WriteTxbarAtPut /\ Ordering
    <2>1. PICK answer \in SendAnswers : Request({fd.tx_put}, [b \in {fd.tx_put} |-> answer])
      BY <1>9 DEF WriteTxbarAtPut
    <2>2. PICK b \in Buffer : b = fd.tx_put
      BY <1>6 DEF Controller
    <2>3. PICK a : a = [x \in {b} |-> answer]
      OBVIOUS
    <2>4. a[b] = answer /\ answer \in Answer
      BY <2>3, ValueAssumption
    <2>5. fd' = RequestAll({b}, a).fd /\ wire' = RequestAll({b}, a).wire
      BY <2>1, <2>2, <2>3 DEF Request
    <2>6. PICK z : z = RequestBuffer(p, b, answer)
      OBVIOUS
    <2>7. RequestAll({b}, a) = z
      BY <1>1, <2>4, <2>6, SingleRequest
    <2>8. q.fd = z.fd /\ q.wire = z.wire
      BY <1>4, <2>5, <2>7
    <2>9. p.fd.attached /\ z.wire.next # p.wire.next => z.wire.sends # p.wire.sends
      BY <1>2, <1>4, <1>9, <2>8 DEF Ordering
    <2>10. p.fd.txbrp # Buffer /\ b = p.fd.tx_put
      BY <1>2, <1>9, <2>2 DEF WriteTxbarAtPut
    <2>11. OrderInv(z.fd, z.wire)
      BY <1>2, <2>4, <2>6, <2>9, <2>10, OrderRequested
    <2> QED
      BY <2>8, <2>11
  <1>10. CASE Complete
    <2>1. PICK success \in BOOLEAN :
              /\ fd' = Completion(fd, Head(wire.sends).buffer, Head(wire.sends).generation, success)
              /\ wire' = [wire EXCEPT !.sends = Tail(@),
                                      !.sent = IF success THEN @ \cup {Head(wire.sends).request} ELSE @]
      BY <1>10 DEF Complete
    <2>2. FdHeadDone(p, q, success)
      BY <1>2, <1>3, <1>10, <2>1 DEF FdHeadDone, Complete
    <2> QED
      BY <1>2, <2>2, OrderCompleted
  <1>11. CASE Forget
    <2>1. PICK c \in Controller, w \in FdWire : c = fd /\ w = wire
      BY MachineTyped
    <2>2. w.sends # <<>> /\ w.sends[1].doomed /\ q.fd = c
      BY <1>4, <1>11, <2>1, SendsTyped DEF Forget
    <2>3. q.wire = [w EXCEPT !.sends = Tail(w.sends)]
      BY <1>4, <1>11, <2>1 DEF Forget
    <2>4. q.wire.sends = Tail(w.sends)
      BY <2>3 DEF FdWire
    <2>5. OrderInv(c, w) /\ FdSameIndices(c, c)
      BY <2>1 DEF FdSameIndices
    <2>6. OrderInv(c, q.wire)
      BY <2>2, <2>4, <2>5, OrderHeadDoomed
    <2> QED
      BY <2>2, <2>6
  <1>12. CASE AttachBus \/ Detach
    <2>1. FdStep
      BY <1>12 DEF FdStep, Environment
    <2> QED
      BY <1>4, <1>7, <1>12, <2>1, AttachEffect
  <1>13. CASE Reset
    <2>1. FdStep
      BY <1>13 DEF FdStep, Environment
    <2> QED
      BY <1>4, <1>7, <1>13, <2>1, ResetEffect
  <1>14. CASE UNCHANGED <<fd, wire>>
    BY <1>2, <1>4, <1>14
  <1> QED
    BY <1>8, <1>9, <1>10, <1>11, <1>12, <1>13, <1>14 DEF Ordering

LEMMA TakeKeeps ==
    ASSUME FdInv(Machine), driver \in DriverType, TakeInv(fd, wire, driver),
           Taking \/ UNCHANGED <<fd, wire, driver>>
    PROVE  driver' \in DriverType /\ TakeInv(fd, wire, driver)'
  <1>1. PICK c \in Controller, w \in FdWire, d \in DriverType :
            /\ c = fd /\ w = wire /\ d = driver /\ FdLines(c) /\ FdRing(c, w) /\ TakeInv(c, w, d)
            /\ FdOwned(c, w)
    BY MachineTyped
  <1>2. PICK c1 : c1 = fd'
    OBVIOUS
  <1>3. PICK w1 : w1 = wire'
    OBVIOUS
  <1>4. PICK d1 : d1 = driver'
    OBVIOUS
  <1>5. SUFFICES d1 \in DriverType /\ TakeInv(c1, w1, d1)
    BY <1>2, <1>3, <1>4
  <1>6. CASE WriteCccr \/ WriteSetup
    <2>1. FdQuiet(c, c1)
      <3>1. CASE WriteCccr
        <4>1. PICK value \in SUBSET CccrBit : c1 = ApplyControllerControl(c, value)
          BY <1>1, <1>2, <3>1, ValueAssumption DEF WriteCccr
        <4> QED
          BY <1>1, <4>1, ControlQuiet
      <3>2. CASE WriteSetup
        <4>1. PICK value \in Setups : c1 = [c EXCEPT !.setup = value]
          BY <1>1, <1>2, <3>2 DEF WriteSetup
        <4> QED
          BY <1>1, <4>1, PlainQuiet
      <3> QED
        BY <1>6, <3>1, <3>2
    <2>2. w1 = w /\ d1 = d
      BY <1>1, <1>3, <1>4, <1>6 DEF WriteCccr, WriteSetup
    <2> QED
      BY <1>1, <2>1, <2>2, TakeKept DEF FdQuiet
  <1>7. CASE Deliver
    <2>1. PICK p : p = Machine
      OBVIOUS
    <2>2. p \in FdPair /\ p.fd = c /\ p.wire = w /\ FdInv(p)
      BY <1>1, <2>1, MachineTyped DEF Machine
    <2>3. PICK frame \in Frames : fd' = ReceiveFrame(p, frame).fd /\ wire' = ReceiveFrame(p, frame).wire
      BY <1>7, <2>1 DEF Deliver
    <2>4. PICK q : q = ReceiveFrame(p, frame)
      OBVIOUS
    <2>5. FdReceived(p, q)
      BY <1>1, <2>2, <2>4, FrameReceived
    <2>6. q \in FdPair /\ q.fd = c1 /\ q.wire = w1 /\ d1 = d
      BY <1>1, <1>2, <1>3, <1>4, <1>7, <2>3, <2>4, <2>5 DEF Deliver, FdReceived
    <2>7. CASE RxKept(p, q)
      BY <1>1, <2>2, <2>6, <2>7, TakeKept DEF RxKept
    <2>8. CASE RxArrived(p, q)
      <3>1. TakeInv(q.fd, q.wire, d)
        BY <1>1, <2>2, <2>6, <2>8, TakeArrival
      <3> QED
        BY <2>6, <3>1
    <2> QED
      BY <2>5, <2>7, <2>8 DEF FdReceived
  <1>8. CASE AttachBus
    <2>1. FdSameRx(c, c1) /\ w1.stored = w.stored /\ w1.overwritten = w.overwritten
      BY <1>1, <1>2, <1>3, <1>8, AttachEffect
    <2>2. d1 = d
      BY <1>1, <1>4, <1>8 DEF AttachBus
    <2> QED
      BY <1>1, <2>1, <2>2, TakeKept
  <1>9. CASE Reset
    <2>1. c1.rx_fill = 0 /\ w1.stored = 0
      BY <1>2, <1>3, <1>9, ResetEffect
    <2>2. d1 = DriverReset
      BY <1>4, <1>9 DEF Reset, DriverReset
    <2> QED
      BY <2>1, <2>2, TakeReset
  <1>10. CASE ReadStatus
    <2>1. c1 = c /\ w1 = w /\ d.phase = "idle" /\ c.rx_fill > 0
          /\ d1 = [d EXCEPT !.phase = "status", !.slot = c.rx_get]
      BY <1>1, <1>2, <1>3, <1>4, <1>10 DEF ReadStatus
    <2> QED
      BY <1>1, <2>1, TakeStatus
  <1>11. CASE ReadElement
    <2>1. c1 = c /\ w1 = w /\ d.phase = "status"
          /\ d1 = [d EXCEPT !.phase = "element", !.element = c.rx[d.slot]]
      BY <1>1, <1>2, <1>3, <1>4, <1>11 DEF ReadElement
    <2> QED
      BY <1>1, <2>1, TakeElement
  <1>12. CASE AcknowledgeElement
    <2>1. c1 = AcknowledgeRxFifo0(c, d.slot) /\ w1 = w /\ d.phase = "element"
      BY <1>1, <1>2, <1>3, <1>12 DEF AcknowledgeElement
    <2>2. DriverTook(d, d1)
      BY <1>1, <1>4, <1>12 DEF AcknowledgeElement, DriverTook
    <2>3. d1 \in DriverType /\ TakeInv(c1, w, d1)
      BY <1>1, <2>1, <2>2, TakeAcked
    <2> QED
      BY <2>1, <2>3
  <1>13. CASE UNCHANGED <<fd, wire, driver>>
    BY <1>1, <1>2, <1>3, <1>4, <1>13
  <1> QED
    BY <1>6, <1>7, <1>8, <1>9, <1>10, <1>11, <1>12, <1>13 DEF Taking

-----------------------------------------------------------------------------
(* The controller within the device. *)

(* Only the part that takes frames moves the receive routine, and only the *)
(* part that orders requests keeps them in the order of the buffers.       *)
FdcanInv ==
    /\ FdInv(Machine) /\ driver \in DriverType /\ restarts \in 0..MaxRestarts
    /\ part # "take" => driver = DriverReset
    /\ part = "take" => TakeInv(fd, wire, driver)
    /\ part = "order" => OrderInv(fd, wire)

LEMMA RestartsCounted ==
    ASSUME restarts \in 0..MaxRestarts,
           \/ Configure \/ WriteRxf0a \/ WriteTxbarAtPut \/ Environment
           \/ ReadStatus \/ ReadElement \/ AcknowledgeElement
           \/ \E requests : \E answer : Request(requests, answer)
           \/ UNCHANGED <<driver, restarts>>
    PROVE  restarts' \in 0..MaxRestarts
  <1>1. MaxRestarts \in Nat
    BY ValueAssumption
  <1>2. restarts' = restarts \/ (restarts < MaxRestarts /\ restarts' = restarts + 1)
    <2>1. CASE Configure
      BY <2>1 DEF Configure, WriteCccr, WriteIr, WriteIe, WriteIls, WriteIle, WriteTxbtie, WriteSetup,
                  WriteTxElement
    <2>2. CASE WriteRxf0a \/ ReadStatus \/ ReadElement \/ AcknowledgeElement
      BY <2>2 DEF WriteRxf0a, ReadStatus, ReadElement, AcknowledgeElement
    <2>3. CASE WriteTxbarAtPut \/ \E requests : \E answer : Request(requests, answer)
      BY <2>3 DEF WriteTxbarAtPut, Request
    <2>4. CASE Environment
      BY <2>4 DEF Environment, Deliver, Complete, Forget, AttachBus, Detach, Reset
    <2>5. CASE UNCHANGED <<driver, restarts>>
      BY <2>5
    <2> QED
      BY <2>1, <2>2, <2>3, <2>4, <2>5
  <1> QED
    BY <1>1, <1>2

LEMMA DriverRests ==
    ASSUME driver = DriverReset,
           \/ Configure \/ WriteRxf0a \/ WriteTxbarAtPut \/ Environment
           \/ \E requests : \E answer : Request(requests, answer)
           \/ UNCHANGED <<driver, restarts>>
    PROVE  driver' = DriverReset
  <1>1. CASE Configure
    BY <1>1 DEF Configure, WriteCccr, WriteIr, WriteIe, WriteIls, WriteIle, WriteTxbtie, WriteSetup,
                WriteTxElement
  <1>2. CASE WriteRxf0a
    BY <1>2 DEF WriteRxf0a
  <1>3. CASE WriteTxbarAtPut \/ \E requests : \E answer : Request(requests, answer)
    BY <1>3 DEF WriteTxbarAtPut, Request
  <1>4. CASE Environment
    BY <1>4 DEF Environment, Deliver, Complete, Forget, AttachBus, Detach, Reset, DriverReset
  <1>5. CASE UNCHANGED <<driver, restarts>>
    BY <1>5
  <1> QED
    BY <1>1, <1>2, <1>3, <1>4, <1>5

LEMMA FdcanStarts ==
    ASSUME DeviceInit
    PROVE  FdcanInv
  <1>1. Init /\ FdInv(Machine)
    BY MachineStarts DEF DeviceInit
  <1>2. driver = DriverReset /\ restarts \in 0..MaxRestarts
    BY <1>1, ValueAssumption DEF Init, DriverReset
  <1>3. PICK c \in Controller, w \in FdWire : c = fd /\ w = wire /\ FdSettled(c) /\ FdOwned(c, w)
    BY <1>1, MachineTyped
  <1>4. c.rx_fill = 0 /\ w.stored = 0 /\ c.tx = [b \in Buffer |-> ZeroFrame] /\ w.sends = <<>>
    BY <1>1, <1>3 DEF Init
  <1>5. DriverReset \in DriverType /\ TakeInv(c, w, DriverReset)
    BY <1>4, TakeReset
  <1>6. \A i \in DOMAIN w.sends : w.sends[i].doomed
    BY <1>4, EmptySeq
  <1>7. OrderInv(c, w)
    BY <1>3, <1>4, <1>6, OrderDoomed
  <1> QED
    BY <1>1, <1>2, <1>3, <1>5, <1>7 DEF FdcanInv

LEMMA FdcanKept ==
    ASSUME FdcanInv, [DeviceNext]_DeviceVars
    PROVE  FdcanInv'
  <1>1. part' = part /\ FdInv(Machine)'
    BY PartKept, PartIsStep, StepKeeps DEF FdcanInv
  <1>2. CASE UNCHANGED <<fd, wire, driver, restarts>>
    BY <1>1, <1>2 DEF FdcanInv
  <1>3. CASE ~UNCHANGED <<fd, wire, driver, restarts>>
    <2>1. DeviceNext /\ part \in FdcanParts
      BY <1>3 DEF DeviceVars, DeviceNext, Held, vars
    <2>2. FdcanPart
      BY <2>1 DEF DeviceNext, TickPart, PinsPart, BlockPart, WiringPart, DmaPart, SerialPart, TimerPart,
                  WatchdogPart, ClocksPart, FlashPart, CrcPart, AdcPart, FdcanParts
    <2>3. CASE part = "take"
      <3>1. Taking
        BY <2>2, <2>3 DEF FdcanPart
      <3>2. driver' \in DriverType /\ TakeInv(fd, wire, driver)'
        BY <2>3, <3>1, TakeKeeps DEF FdcanInv
      <3>3. restarts' \in 0..MaxRestarts
        BY <3>1, RestartsCounted DEF Taking, Configure, Environment, FdcanInv
      <3> QED
        BY <1>1, <2>3, <3>2, <3>3 DEF FdcanInv
    <2>4. CASE part # "take"
      <3>1. \/ Configure \/ WriteRxf0a \/ WriteTxbarAtPut \/ Environment
            \/ \E requests : \E answer : Request(requests, answer)
        <4>1. CASE Transmitting
          BY <4>1 DEF Transmitting, Configure, Environment
        <4>2. CASE Ordering
          BY <4>2 DEF Ordering, Configure, Environment
        <4>3. CASE Receiving
          BY <4>3 DEF Receiving, Configure, Environment
        <4>4. CASE Signalling
          BY <4>4 DEF Signalling, Configure, Environment
        <4> QED
          BY <2>2, <2>4, <4>1, <4>2, <4>3, <4>4 DEF FdcanPart
      <3>2. driver' = DriverReset
        BY <2>4, <3>1, DriverRests DEF FdcanInv
      <3>3. restarts' \in 0..MaxRestarts
        BY <3>1, RestartsCounted DEF FdcanInv
      <3>4. part = "order" => OrderInv(fd, wire)'
        <4>1. part = "order" => Ordering
          BY <2>2 DEF FdcanPart
        <4> QED
          BY <4>1, OrderKeeps DEF FdcanInv
      <3>5. DriverReset \in DriverType
        BY <2>4 DEF FdcanInv
      <3> QED
        BY <1>1, <2>4, <3>2, <3>3, <3>4, <3>5 DEF FdcanInv
    <2> QED
      BY <2>3, <2>4
  <1> QED
    BY <1>2, <1>3

LEMMA GetOldest ==
    ASSUME FdInv(Machine), OrderInv(fd, wire)
    PROVE  GetIsOldest
  <1>1. PICK c \in Controller, w \in FdWire : c = fd /\ w = wire
    BY MachineTyped
  <1>2. PICK m \in Nat, n \in 0..TxSlots : OrderAt(c, w, m, n)
    BY <1>1 DEF OrderInv
  <1>3. TxSlots \in Nat \ {0} /\ n \in Nat /\ DOMAIN w.sends = 1..(m + n) /\ c.tx_get \in 0..(TxSlots - 1)
    BY <1>2, SlotAssumption, SendsTyped DEF OrderAt, Controller, Buffer
  <1>4. ASSUME NEW i \in DOMAIN w.sends, ~w.sends[i].doomed, \A j \in 1..(i - 1) : w.sends[j].doomed
        PROVE  c.tx_get = w.sends[i].buffer
    <2>1. i \in 1..(m + n)
      BY <1>3
    <2>2. ~(i <= m)
      <3>1. i <= m => i \in 1..m
        BY <2>1
      <3> QED
        BY <1>2, <1>4, <3>1 DEF OrderAt
    <2>3. 0 \in 0..(n - 1) /\ m + 1 + 0 = m + 1
      BY <1>3, <2>1, <2>2
    <2>4. ~w.sends[m + 1].doomed /\ w.sends[m + 1].buffer = (c.tx_get + 0) % TxSlots
      BY <1>2, <2>3 DEF OrderAt
    <2>5. i = m + 1
      <3>1. i # m + 1 => m + 1 \in 1..(i - 1)
        BY <1>3, <2>1, <2>2
      <3> QED
        BY <1>4, <2>4, <3>1
    <2>6. (c.tx_get + 0) % TxSlots = c.tx_get
      BY <1>3, ModSmall
    <2> QED
      BY <2>4, <2>5, <2>6
  <1> QED
    BY <1>1, <1>4 DEF GetIsOldest

(* Whatever the constants, in every part of the controller the device      *)
(* exercises: the put and get indices are settled, the get index is the    *)
(* oldest live request when firmware follows the put index, the receive    *)
(* routine takes each stored frame once, in order, and skips none unless   *)
(* the FIFO overwrites, and the interrupt lines are what IR, IE, ILS and   *)
(* ILE select.                                                             *)
THEOREM FifosAlwaysExact == DeviceSpec => []FifosExact
  <1>1. DeviceInit => FdcanInv
    BY FdcanStarts
  <1>2. FdcanInv /\ [DeviceNext]_DeviceVars => FdcanInv'
    BY FdcanKept
  <1>3. ASSUME FdcanInv PROVE FifosExact
    <2>1. FdInv(Machine)
      BY <1>3 DEF FdcanInv
    <2>2. /\ fd \in Controller /\ wire \in FdWire /\ FdLines(fd) /\ FdSettled(fd)
      BY <2>1, MachineTyped
    <2>3. TypeOK
      BY <1>3, <2>2 DEF FdcanInv, TypeOK, FdWire, DriverType
    <2>4. IndicesSettled
      <3>1. UpdateTxFifoStatus(fd) = fd
        BY <2>2, SettledIsFixed
      <3> QED
        BY <2>2, <3>1 DEF IndicesSettled, FdSettled
    <2>5. part = "order" => GetIsOldest
      BY <1>3, <2>1, GetOldest DEF FdcanInv
    <2>6. TakenInOrder /\ (part = "take" => NothingSkipped)
      <3>1. CASE part = "take"
        BY <1>3, <2>1, <3>1, TakenAll DEF FdcanInv
      <3>2. CASE part # "take"
        <4>1. driver.taken = <<>>
          BY <1>3, <3>2 DEF FdcanInv, DriverReset
        <4> QED
          BY <3>2, <4>1, EmptySeq DEF TakenInOrder
      <3> QED
        BY <3>1, <3>2
    <2>7. LevelsExact
      BY <2>2 DEF LevelsExact, FdLines
    <2> QED
      BY <2>3, <2>4, <2>5, <2>6, <2>7 DEF FifosExact, IndicesExact, TakenExactly
  <1> QED
    BY <1>1, <1>2, <1>3, PTL DEF DeviceSpec

-----------------------------------------------------------------------------
(* The ring in message RAM is the bounded queue. *)

RxEntry(c, k) == [frame |-> c.rx[(c.rx_get + k - 1) % RxSlots], slot |-> (c.rx_get + k - 1) % RxSlots]
RxQueue(c) == [k \in 1..c.rx_fill |-> RxEntry(c, k)]
RxStored == [frame : Element, slot : RxSlot]

LEMMA ModShift ==
    ASSUME NEW n \in Nat \ {0}, NEW i \in 0..(n - 1), NEW a \in 0..n, NEW b \in 0..n, a + b <= n
    PROVE  /\ (i + a) % n \in 0..(n - 1) /\ ((((i + a) % n) + b) % n) = (i + (a + b)) % n
           /\ b # 0 /\ b # n => (i + a) % n # (i + (a + b)) % n
  <1>1. PICK x : x = (i + a) % n
    OBVIOUS
  <1>2. x = IF i + a < n THEN i + a ELSE i + a - n
    BY <1>1, RingAt
  <1>3. x \in 0..(n - 1)
    BY <1>2
  <1>4. PICK z : z = (x + b) % n
    OBVIOUS
  <1>5. z = IF x + b < n THEN x + b ELSE x + b - n
    BY <1>3, <1>4, RingAt
  <1>6. PICK y : y = (i + (a + b)) % n
    OBVIOUS
  <1>7. y = IF i + (a + b) < n THEN i + (a + b) ELSE i + (a + b) - n
    <2>1. a + b \in 0..n
      OBVIOUS
    <2> QED
      BY <1>6, <2>1, RingAt
  <1>8. z = y
    BY <1>2, <1>5, <1>7
  <1>9. b # 0 /\ b # n => x # y
    BY <1>2, <1>7
  <1> QED
    BY <1>1, <1>3, <1>4, <1>6, <1>8, <1>9

RingSlot(n, i, a) == (i + a) % n

LEMMA SlotShift ==
    ASSUME NEW n \in Nat \ {0}, NEW i \in 0..(n - 1), NEW a \in 0..n, NEW b \in 0..n, a + b <= n
    PROVE  /\ RingSlot(n, i, a) \in 0..(n - 1) /\ RingSlot(n, RingSlot(n, i, a), b) = RingSlot(n, i, a + b)
           /\ b # 0 /\ b # n => RingSlot(n, i, a) # RingSlot(n, i, a + b)
  BY ModShift DEF RingSlot

LEMMA QueueTyped ==
    ASSUME NEW c \in Controller
    PROVE  /\ RxQueue(c) \in Seq(RxStored) /\ Len(RxQueue(c)) = c.rx_fill
           /\ \A k \in 1..c.rx_fill : RxQueue(c)[k] = RxEntry(c, k) /\ RxEntry(c, k) \in RxStored
  <1>1. PICK n \in Nat \ {0} : n = RxSlots
    BY RxTyped
  <1>2. PICK get \in 0..(n - 1), fill \in 0..n : get = c.rx_get /\ fill = c.rx_fill
    BY <1>1, RxTyped
  <1>3. c.rx \in [RxSlot -> Element] /\ RxSlot = 0..(n - 1)
    BY <1>1 DEF Controller, RxSlot
  <1>4. ASSUME NEW k \in 1..fill PROVE RxEntry(c, k) \in RxStored
    <2>1. k - 1 \in 0..n /\ 0 \in 0..n /\ (k - 1) + 0 <= n /\ get + (k - 1) = get + k - 1
      BY <1>2
    <2>2. (get + k - 1) % n \in 0..(n - 1)
      BY <2>1, ModShift
    <2> QED
      BY <1>1, <1>2, <1>3, <2>2 DEF RxEntry, RxStored
  <1>5. PICK s : s = RxQueue(c)
    OBVIOUS
  <1>6. s = [k \in 1..fill |-> RxEntry(c, k)]
    BY <1>2, <1>5 DEF RxQueue
  <1>7. s \in [1..fill -> RxStored] /\ \A k \in 1..fill : s[k] = RxEntry(c, k)
    BY <1>4, <1>6
  <1>8. fill \in Nat
    BY <1>2
  <1>9. s \in Seq(RxStored)
    BY <1>7, <1>8, SeqDef
  <1>10. Len(s) = fill
    <2>1. DOMAIN s = 1..fill
      BY <1>7
    <2> QED
      BY <1>8, <1>9, <2>1, LenProperties
  <1> QED
    BY <1>2, <1>4, <1>5, <1>7, <1>9, <1>10

LEMMA QueueKept ==
    ASSUME NEW c, NEW d, FdSameRx(c, d)
    PROVE  RxQueue(d) = RxQueue(c) /\ d.rx_put = c.rx_put
  <1>1. d.rx = c.rx /\ d.rx_fill = c.rx_fill /\ d.rx_get = c.rx_get /\ d.rx_put = c.rx_put
    BY DEF FdSameRx
  <1>2. \A k : RxEntry(d, k) = RxEntry(c, k)
    BY <1>1 DEF RxEntry
  <1> QED
    BY <1>1, <1>2 DEF RxQueue

LEMMA QueueAcked ==
    ASSUME NEW c \in Controller, NEW d \in Controller, NEW slot, NEW freed \in Nat, FdAcked(c, d, slot, freed)
    PROVE  /\ freed \in DOMAIN RxQueue(c) /\ d.rx_put = c.rx_put
           /\ RxQueue(d) = SubSeq(RxQueue(c), freed + 1, Len(RxQueue(c)))
  <1>1. PICK n \in Nat \ {0} : n = RxSlots
    BY RxTyped
  <1>2. PICK get \in 0..(n - 1), fill \in 0..n : get = c.rx_get /\ fill = c.rx_fill
    BY <1>1, RxTyped
  <1>3. /\ freed \in 1..fill /\ d.rx_fill = fill - freed /\ d.rx_get = (get + freed) % n
        /\ d.rx = c.rx /\ d.rx_put = c.rx_put
    BY <1>1, <1>2 DEF FdAcked
  <1>4. PICK s \in Seq(RxStored) : s = RxQueue(c) /\ Len(s) = fill /\ \A k \in 1..fill : s[k] = RxEntry(c, k)
    BY <1>2, QueueTyped
  <1>5. PICK rest \in Nat : rest = fill - freed
    BY <1>2, <1>3
  <1>6. PICK t \in Seq(RxStored) : t = RxQueue(d) /\ Len(t) = rest /\ \A k \in 1..rest : t[k] = RxEntry(d, k)
    BY <1>3, <1>5, QueueTyped
  <1>7. PICK u : u = SubSeq(s, freed + 1, fill)
    OBVIOUS
  <1>8. freed + 1 \in 1..(fill + 1) /\ fill \in Nat
    BY <1>2, <1>3
  <1>9. u = [k \in 1..(fill - (freed + 1) + 1) |-> s[k + (freed + 1) - 1]]
    BY <1>7, <1>8
  <1>10. \A k \in 1..rest : k + (freed + 1) - 1 = k + freed /\ k + freed \in 1..fill
    BY <1>2, <1>3, <1>5
  <1>11. fill - (freed + 1) + 1 = rest
    BY <1>2, <1>3, <1>5
  <1>12. \A k \in 1..rest : RxEntry(d, k) = RxEntry(c, k + freed)
    <2>1. SUFFICES ASSUME NEW k \in 1..rest PROVE RxEntry(d, k) = RxEntry(c, k + freed)
      OBVIOUS
    <2>2. /\ freed \in 0..n /\ k - 1 \in 0..n /\ freed + (k - 1) <= n
          /\ get + (freed + (k - 1)) = get + (k + freed) - 1
      BY <1>2, <1>3, <1>5
    <2>3. PICK g1 \in 0..(n - 1) : g1 = (get + freed) % n
      BY <2>2, ModShift
    <2>4. (g1 + (k - 1)) % n = (get + (freed + (k - 1))) % n
      <3>1. PICK b \in 0..n : b = k - 1
        BY <2>2
      <3>2. freed \in 0..n /\ freed + b <= n
        BY <2>2, <3>1
      <3>3. (((get + freed) % n) + b) % n = (get + (freed + b)) % n
        BY <3>2, ModShift, ZenonT(60)
      <3> QED
        BY <2>3, <3>1, <3>3, Zenon
    <2>5. g1 + (k - 1) = g1 + k - 1
      OBVIOUS
    <2>6. (g1 + k - 1) % n = (get + (k + freed) - 1) % n
      BY <2>2, <2>4, <2>5, Zenon
    <2> QED
      BY <1>1, <1>2, <1>3, <2>3, <2>6 DEF RxEntry
  <1>13. t = u
    <2>1. u = [k \in 1..rest |-> s[k + freed]]
      BY <1>9, <1>10, <1>11
    <2>2. \A k \in 1..rest : t[k] = s[k + freed]
      BY <1>4, <1>6, <1>10, <1>12, ZenonT(60)
    <2>3. t = [k \in 1..rest |-> t[k]]
      <3>1. DOMAIN t = 1..rest
        BY <1>6, LenProperties
      <3>2. t \in [1..rest -> RxStored]
        BY <1>6, <3>1, LenProperties
      <3> QED
        BY <3>2
    <2> QED
      BY <2>1, <2>2, <2>3
  <1>14. freed \in DOMAIN s
    BY <1>3, <1>4, LenProperties
  <1> QED
    BY <1>3, <1>4, <1>6, <1>7, <1>13, <1>14

(* What an arrival does to the queue.                                      *)
RxPushed(s, t, last) ==
    /\ t # <<>> /\ t[Len(t)] = last
    /\ t = Append(IF Len(s) = RxSlots THEN Tail(s) ELSE s, last)

LEMMA QueueArrived ==
    ASSUME NEW p \in FdPair, NEW q \in FdPair, FdRing(p.fd, p.wire), RxArrived(p, q)
    PROVE  /\ q.fd.rx_put = (p.fd.rx_put + 1) % RxSlots
           /\ \E last \in RxStored : last.slot = p.fd.rx_put /\ RxPushed(RxQueue(p.fd), RxQueue(q.fd), last)
  <1>1. PICK n \in Nat \ {0} : n = RxSlots
    BY SlotAssumption
  <1>2. PICK c \in Controller, d \in Controller : c = p.fd /\ d = q.fd
    BY DEF FdPair
  <1>3. PICK get \in 0..(n - 1), fill \in 0..n : get = c.rx_get /\ fill = c.rx_fill
    BY <1>1, RxTyped
  <1>4. PICK put \in 0..(n - 1) : put = c.rx_put /\ put = (get + fill) % n
    BY <1>1, <1>2, <1>3 DEF FdRing, Controller, RxSlot
  <1>5. PICK e \in Element : d.rx = [c.rx EXCEPT ![put] = e]
    BY <1>2, <1>4 DEF RxArrived
  <1>6. c.rx \in [RxSlot -> Element] /\ RxSlot = 0..(n - 1)
    BY <1>1 DEF Controller, RxSlot
  <1>7. d.rx[put] = e /\ \A x \in 0..(n - 1) : x # put => d.rx[x] = c.rx[x]
    BY <1>5, <1>6
  <1>8. PICK s \in Seq(RxStored) : s = RxQueue(c) /\ Len(s) = fill /\ \A k \in 1..fill : s[k] = RxEntry(c, k)
    BY <1>3, QueueTyped
  <1>9. PICK last \in RxStored : last = [frame |-> e, slot |-> put]
    BY <1>6 DEF RxStored
  <1>10. PICK shift \in {0, 1} : shift = IF fill = n THEN 1 ELSE 0
    OBVIOUS
  <1>11. PICK kept \in 0..n : kept = fill - shift /\ kept < n /\ kept + shift <= n
    BY <1>3, <1>10
  <1>12. d.rx_fill = kept + 1 /\ d.rx_get = (get + shift) % n
    <2>1. CASE fill = n
      BY <1>1, <1>2, <1>3, <1>10, <1>11, <2>1 DEF RxArrived, Full
    <2>2. CASE fill # n
      <3>1. d.rx_fill = fill + 1 /\ d.rx_get = get
        BY <1>1, <1>2, <1>3, <2>2 DEF RxArrived, Full
      <3>2. (get + 0) % n = get
        BY ModSmall
      <3> QED
        BY <1>10, <1>11, <2>2, <3>1, <3>2
    <2> QED
      BY <2>1, <2>2
  <1>13. PICK r \in Seq(RxStored) : /\ r = (IF Len(s) = RxSlots THEN Tail(s) ELSE s) /\ Len(r) = kept
                                    /\ \A k \in 1..kept : r[k] = s[k + shift]
    <2>1. CASE fill = n
      <3>1. s # <<>>
        BY <1>8, <2>1, EmptySeq
      <3>2. Tail(s) \in Seq(RxStored) /\ Len(Tail(s)) = Len(s) - 1 /\ \A k \in 1..Len(Tail(s)) : Tail(s)[k] = s[k + 1]
        BY <3>1, HeadTailProperties
      <3>3. shift = 1 /\ Len(Tail(s)) = kept
        BY <1>8, <1>10, <1>11, <2>1, <3>2
      <3> QED
        BY <1>1, <1>8, <2>1, <3>2, <3>3
    <2>2. CASE fill # n
      <3>1. shift = 0 /\ kept = fill
        BY <1>3, <1>10, <1>11, <2>2
      <3>2. \A k \in 1..kept : k + shift = k
        BY <3>1
      <3>3. (IF Len(s) = RxSlots THEN Tail(s) ELSE s) = s
        BY <1>1, <1>8, <2>2
      <3> QED
        BY <1>8, <3>1, <3>2, <3>3
    <2> QED
      BY <2>1, <2>2
  <1>14. PICK t \in Seq(RxStored) : t = RxQueue(d) /\ Len(t) = kept + 1 /\ \A k \in 1..(kept + 1) : t[k] = RxEntry(d, k)
    BY <1>12, QueueTyped
  <1>15. ASSUME NEW k \in 1..(kept + 1)
         PROVE  (d.rx_get + k - 1) % RxSlots = (get + (shift + (k - 1))) % n
    <2>1. PICK b \in 0..n : b = k - 1 /\ shift + b <= n
      BY <1>10, <1>11
    <2>2. PICK a \in 0..n : a = shift
      BY <1>10
    <2>20. a + b <= n
      BY <2>1, <2>2
    <2>21. RingSlot(n, RingSlot(n, get, a), b) = RingSlot(n, get, a + b)
      BY <2>20, SlotShift
    <2>22. (((get + a) % n) + b) % n = (get + (a + b)) % n
      BY <2>21, Zenon DEF RingSlot
    <2>3. (((get + shift) % n) + b) % n = (get + (shift + b)) % n
      BY <2>2, <2>22, Zenon
    <2>4. d.rx_get + k - 1 = d.rx_get + b
      <3>1. d.rx_get \in Nat
        BY <1>1 DEF Controller, RxSlot
      <3> QED
        BY <2>1, <3>1
    <2> QED
      BY <1>1, <1>12, <2>1, <2>3, <2>4, Zenon
  <1>16. t[kept + 1] = last
    <2>1. kept + 1 \in 1..(kept + 1) /\ kept + 1 - 1 = kept
      BY <1>11
    <2>2. PICK x : x = (d.rx_get + (kept + 1) - 1) % RxSlots
      OBVIOUS
    <2>3. x = (get + (shift + kept)) % n
      <3>1. (d.rx_get + (kept + 1) - 1) % RxSlots = (get + (shift + ((kept + 1) - 1))) % n
        BY <1>15, <2>1
      <3>2. (kept + 1) - 1 = kept
        BY <1>11
      <3> QED
        BY <2>2, <3>1, <3>2, Zenon
    <2>4. shift + kept = fill
      BY <1>3, <1>10, <1>11
    <2>5. x = put
      BY <1>4, <2>3, <2>4
    <2>6. RxEntry(d, kept + 1) = [frame |-> d.rx[x], slot |-> x]
      BY <2>2 DEF RxEntry
    <2> QED
      BY <1>7, <1>9, <1>14, <2>1, <2>5, <2>6
  <1>17. ASSUME NEW k \in 1..kept PROVE t[k] = r[k]
    <2>1. k \in 1..(kept + 1) /\ k + shift \in 1..fill
      BY <1>3, <1>10, <1>11
    <2>2. PICK x : x = (d.rx_get + k - 1) % RxSlots
      OBVIOUS
    <2>30. PICK a \in 0..n : a = shift + (k - 1) /\ a < fill
      <3>1. shift + (k - 1) \in 0..n /\ shift + (k - 1) < fill
        BY <1>3, <1>10, <1>11
      <3> QED
        BY <3>1
    <2>31. PICK b \in 0..n : b = fill - a
      BY <1>3, <2>30
    <2>3. a = shift + (k - 1) /\ b = fill - a /\ a + b = fill /\ b # 0 /\ a + b <= n
      BY <1>3, <2>30, <2>31
    <2>4. x = (get + a) % n
      BY <1>15, <2>1, <2>2, <2>3
    <2>5. b # n
      BY <1>3, <1>10, <1>11, <2>3
    <2>6. x \in 0..(n - 1) /\ x # (get + (a + b)) % n
      <3>1. a + b <= n /\ b # 0 /\ b # n
        BY <2>3, <2>5
      <3>2. RingSlot(n, get, a) \in 0..(n - 1) /\ RingSlot(n, get, a) # RingSlot(n, get, a + b)
        BY <3>1, SlotShift, ZenonT(60)
      <3> QED
        BY <2>4, <3>2, Zenon DEF RingSlot
    <2>7. x # put
      BY <1>4, <2>3, <2>6
    <2>8. get + (k + shift) - 1 = get + a
      BY <1>10, <2>3
    <2>9. (c.rx_get + (k + shift) - 1) % RxSlots = x
      BY <1>1, <1>3, <2>4, <2>8, Zenon
    <2>10. RxEntry(d, k) = [frame |-> d.rx[x], slot |-> x] /\ RxEntry(c, k + shift) = [frame |-> c.rx[x], slot |-> x]
      BY <2>2, <2>9 DEF RxEntry
    <2>11. t[k] = RxEntry(c, k + shift)
      BY <1>7, <1>14, <2>1, <2>6, <2>7, <2>10
    <2> QED
      BY <1>8, <1>13, <2>1, <2>11
  <1>18. t = Append(r, last)
    <2>1. PICK u \in Seq(RxStored) : u = Append(r, last)
      BY AppendProperties
    <2>2. Len(u) = kept + 1 /\ u[kept + 1] = last /\ \A k \in 1..kept : u[k] = r[k]
      BY <1>13, <2>1, AppendProperties
    <2>3. \A k \in 1..(kept + 1) : k = kept + 1 \/ k \in 1..kept
      BY <1>11
    <2>4. \A k \in 1..Len(t) : t[k] = u[k]
      BY <1>14, <1>16, <1>17, <2>2, <2>3
    <2> QED
      BY <1>14, <2>1, <2>2, <2>4, SeqEqual
  <1>19. t # <<>>
    BY <1>11, <1>14, EmptySeq
  <1>20. RxPushed(s, t, last)
    BY <1>13, <1>14, <1>16, <1>18, <1>19 DEF RxPushed
  <1>21. last.slot = put
    BY <1>9
  <1>22. q.fd.rx_put = (p.fd.rx_put + 1) % RxSlots
    BY DEF RxArrived
  <1> QED
    BY <1>2, <1>4, <1>8, <1>14, <1>20, <1>21, <1>22

LEMMA RxKeptThrough ==
    ASSUME NEW p, NEW h, NEW z, NEW q, RxKept(p, h), RxKept(z, q)
    PROVE  /\ RxKept(h, z) => RxKept(p, q)
           /\ RxArrived(h, z) => RxArrived(p, q)
  <1>1. RxKept(h, z) => RxKept(p, q)
    BY DEF RxKept, FdSameRx
  <1>2. Full(h.fd) <=> Full(p.fd)
    BY DEF RxKept, FdSameRx, Full
  <1>3. ASSUME RxArrived(h, z) PROVE RxArrived(p, q)
    <2>1. PICK e \in Element : e.stamp = h.wire.stored + 1 /\ z.fd.rx = [h.fd.rx EXCEPT ![h.fd.rx_put] = e]
      BY <1>3 DEF RxArrived
    <2>2. /\ h.fd.rx = p.fd.rx /\ h.fd.rx_fill = p.fd.rx_fill /\ h.fd.rx_get = p.fd.rx_get
          /\ h.fd.rx_put = p.fd.rx_put /\ h.wire.stored = p.wire.stored
          /\ h.wire.overwritten = p.wire.overwritten
      BY DEF RxKept, FdSameRx
    <2>3. /\ q.fd.rx = z.fd.rx /\ q.fd.rx_fill = z.fd.rx_fill /\ q.fd.rx_get = z.fd.rx_get
          /\ q.fd.rx_put = z.fd.rx_put /\ q.wire.stored = z.wire.stored
          /\ q.wire.overwritten = z.wire.overwritten
      BY DEF RxKept, FdSameRx
    <2>4. e.stamp = p.wire.stored + 1 /\ q.fd.rx = [p.fd.rx EXCEPT ![p.fd.rx_put] = e]
      BY <2>1, <2>2, <2>3, Zenon
    <2>5. q.fd.rx_put = (p.fd.rx_put + 1) % RxSlots /\ q.wire.stored = p.wire.stored + 1
      <3>1. z.fd.rx_put = (h.fd.rx_put + 1) % RxSlots /\ z.wire.stored = h.wire.stored + 1
        BY <1>3 DEF RxArrived
      <3> QED
        BY <2>2, <2>3, <3>1, Zenon
    <2>6. Full(p.fd) => /\ q.fd.rx_fill = p.fd.rx_fill /\ q.fd.rx_get = (p.fd.rx_get + 1) % RxSlots
                        /\ q.wire.overwritten
      <3>1. Full(h.fd) => /\ z.fd.rx_fill = h.fd.rx_fill /\ z.fd.rx_get = (h.fd.rx_get + 1) % RxSlots
                          /\ z.wire.overwritten
        BY <1>3 DEF RxArrived
      <3> QED
        BY <1>2, <2>2, <2>3, <3>1, Zenon
    <2>7. ~Full(p.fd) => /\ q.fd.rx_fill = p.fd.rx_fill + 1 /\ q.fd.rx_get = p.fd.rx_get
                         /\ q.wire.overwritten = p.wire.overwritten
      <3>1. ~Full(h.fd) => /\ z.fd.rx_fill = h.fd.rx_fill + 1 /\ z.fd.rx_get = h.fd.rx_get
                           /\ z.wire.overwritten = h.wire.overwritten
        BY <1>3 DEF RxArrived
      <3> QED
        BY <1>2, <2>2, <2>3, <3>1, Zenon
    <2> QED
      BY <2>4, <2>5, <2>6, <2>7, Zenon DEF RxArrived
  <1> QED
    BY <1>1, <1>3

LEMMA TransmitRx ==
    ASSUME NEW p \in FdPair, NEW r, NEW b \in Buffer, NEW answer \in Answer,
           FdMid(p, r, b, p.fd.generation[b])
    PROVE  LET q == TransmitBuffer(r, b, answer)
           IN  RxKept(r, q) \/ (answer = "looped" /\ RxArrived(r, q))
  <1> DEFINE begun == [r EXCEPT !.fd.generation[b] = @ + 1]
  <1>1. PICK g \in Nat : g = p.fd.generation[b]
    BY DEF FdPair, Controller
  <1>2. PICK h : h = begun
    OBVIOUS
  <1>3. PICK k \in Nat : k = g + 1
    OBVIOUS
  <1>4. FdMid(p, h, b, k) /\ h.fd.generation[b] = k
    <2>1. FdMid(p, r, b, g)
      BY <1>1
    <2>2. FdMid(p, h, b, g + 1) /\ h.fd.generation[b] = g + 1
      BY <1>2, <2>1, MidBegun
    <2> QED
      BY <1>3, <2>2
  <1>5. PICK c \in Controller, w \in FdWire : c = r.fd /\ w = r.wire /\ r = [fd |-> c, wire |-> w] /\ FdLines(c)
    BY DEF FdMid, FdSound, FdPair
  <1>6. PICK d : d = [c EXCEPT !.generation[b] = @ + 1]
    OBVIOUS
  <1>7. h = [fd |-> d, wire |-> w]
    BY <1>2, <1>5, <1>6
  <1>8. FdSameRx(c, d) /\ h.fd = d /\ h.wire = w
    BY <1>6, <1>7 DEF Controller, FdSameRx
  <1>9. d \in Controller /\ FdLines(d)
    BY <1>4, <1>8 DEF FdMid, FdSound, FdPair
  <1>10. RxKept(r, h)
    BY <1>5, <1>8 DEF RxKept
  <1>11. PICK frame \in Frames : frame = c.tx[b]
    BY DEF Controller
  <1>12. frame.valid \in BOOLEAN
    BY FrameAssumption
  <1> DEFINE Finish(q) == [fd |-> Completion(q.fd, b, k, TRUE),
                           wire |-> [q.wire EXCEPT !.sent = @ \cup {q.wire.request[b]}]]
             queued == [h EXCEPT !.wire.sends =
                           Append(@, [buffer |-> b, generation |-> k,
                                      request |-> r.wire.request[b], doomed |-> FALSE])]
             result ==
               CASE ~ frame.valid -> [r EXCEPT !.fd = Release(@, b)]
                 [] frame.valid /\ (~ r.fd.attached \/ answer = "delivered") -> Finish(h)
                 [] frame.valid /\ r.fd.attached /\ answer = "looped" -> Finish(ReceiveFrame(h, frame))
                 [] frame.valid /\ r.fd.attached /\ answer = "refused" -> [h EXCEPT !.fd = Release(@, b)]
                 [] frame.valid /\ r.fd.attached /\ answer = "queued" -> queued
  <1>13. TransmitBuffer(r, b, answer) = result
    BY <1>2, <1>4, <1>5, <1>11 DEF TransmitBuffer
  <1>14. ASSUME NEW x \in Controller, FdLines(x), FdSameRx(c, x), NEW y, y = [fd |-> Release(x, b), wire |-> w]
         PROVE  RxKept(r, y)
    <2>1. FdTxDone(x, Release(x, b), b, "idle", x.txbrp \ {b}, x.txbto)
      BY <1>14, Released
    <2> QED
      BY <1>5, <1>14, <2>1 DEF FdTxDone, RxKept, FdSameRx
  <1>15. CASE ~frame.valid
    <2>1. result = [r EXCEPT !.fd = Release(@, b)]
      BY <1>15
    <2> HIDE DEF result
    <2>2. result = [fd |-> Release(c, b), wire |-> w]
      BY <1>5, <2>1
    <2>3. FdSameRx(c, c)
      BY DEF FdSameRx
    <2> QED
      BY <1>5, <1>13, <1>14, <2>2, <2>3
  <1>16. ASSUME NEW z, FdMid(p, z, b, k)
         PROVE  RxKept(z, Finish(z))
    <2>1. PICK x \in Controller, v \in FdWire : x = z.fd /\ v = z.wire /\ FdLines(x)
      BY <1>16 DEF FdMid, FdSound, FdPair
    <2>2. PICK y \in Controller : y = p.fd
      BY DEF FdPair
    <2>3. x.generation[b] = k /\ x.state[b] = "pending"
      BY <1>16, <2>1, <2>2 DEF FdMid, Controller
    <2>4. PICK e : e = CompleteTransmission(x, b, k)
      OBVIOUS
    <2>5. Completion(x, b, k, TRUE) = e
      BY <2>3, <2>4 DEF Completion, Current
    <2>6. FdTxDone(x, e, b, "complete", x.txbrp \ {b}, x.txbto \cup {b})
      BY <2>1, <2>3, <2>4, Completed DEF Current
    <2>7. PICK u : u = [v EXCEPT !.sent = @ \cup {v.request[b]}]
      OBVIOUS
    <2>8. u.stored = v.stored /\ u.overwritten = v.overwritten
      BY <2>7 DEF FdWire
    <2>9. Finish(z) = [fd |-> e, wire |-> u]
      BY <2>1, <2>5, <2>7
    <2> HIDE DEF Finish
    <2> QED
      BY <2>1, <2>6, <2>8, <2>9 DEF RxKept, FdTxDone
  <1>17. CASE frame.valid /\ (~ r.fd.attached \/ answer = "delivered")
    <2>1. result = Finish(h)
      BY <1>17
    <2> HIDE DEF result, Finish
    <2>2. RxKept(h, Finish(h)) /\ RxKept(h, h)
      BY <1>4, <1>16 DEF RxKept, FdSameRx
    <2>3. RxKept(r, Finish(h))
      BY <1>10, <2>2, RxKeptThrough
    <2> QED
      BY <1>13, <2>1, <2>3
  <1>18. CASE frame.valid /\ r.fd.attached /\ answer = "looped"
    <2>1. PICK z : z = ReceiveFrame(h, frame)
      OBVIOUS
    <2>2. result = Finish(z)
      BY <1>18, <2>1
    <2>3. h \in FdPair /\ FdLines(h.fd)
      BY <1>4 DEF FdMid, FdSound
    <2>4. FdReceived(h, z)
      BY <2>1, <2>3, FrameReceived
    <2>5. FdMid(p, z, b, k)
      BY <1>4, <2>4, MidReceived
    <2> HIDE DEF result, Finish
    <2>6. RxKept(z, Finish(z))
      BY <1>16, <2>5
    <2>7. RxKept(h, z) \/ RxArrived(h, z)
      BY <2>4 DEF FdReceived
    <2>8. RxKept(r, Finish(z)) \/ RxArrived(r, Finish(z))
      BY <1>10, <2>6, <2>7, RxKeptThrough
    <2> QED
      BY <1>13, <1>18, <2>2, <2>8
  <1>19. CASE frame.valid /\ r.fd.attached /\ answer = "refused"
    <2>1. result = [h EXCEPT !.fd = Release(@, b)]
      BY <1>19
    <2> HIDE DEF result
    <2>2. result = [fd |-> Release(d, b), wire |-> w]
      BY <1>7, <2>1
    <2> QED
      BY <1>8, <1>9, <1>13, <1>14, <2>2
  <1>20. CASE frame.valid /\ r.fd.attached /\ answer = "queued"
    <2>1. result = queued
      BY <1>20
    <2>2. PICK e : e = [buffer |-> b, generation |-> k, request |-> r.wire.request[b], doomed |-> FALSE]
      OBVIOUS
    <2>3. PICK u : u = [w EXCEPT !.sends = Append(w.sends, e)]
      OBVIOUS
    <2>4. queued = [fd |-> d, wire |-> u]
      <3>1. queued = [h EXCEPT !.wire.sends = Append(@, e)]
        BY <2>2
      <3>2. queued = [h EXCEPT !.wire = [w EXCEPT !.sends = Append(w.sends, e)]]
        BY <1>7, <3>1
      <3> HIDE DEF queued
      <3> QED
        BY <1>7, <2>3, <3>2
    <2>5. u.stored = w.stored /\ u.overwritten = w.overwritten
      BY <2>3 DEF FdWire
    <2> HIDE DEF result, queued
    <2>6. PICK y : y = TransmitBuffer(r, b, answer)
      OBVIOUS
    <2>7. y.fd = d /\ y.wire = u
      BY <1>13, <2>1, <2>4, <2>6
    <2>8. RxKept(r, y)
      BY <1>5, <1>8, <2>5, <2>7 DEF RxKept
    <2> QED
      BY <2>6, <2>8
  <1> HIDE DEF result
  <1> QED
    BY <1>12, <1>15, <1>17, <1>18, <1>19, <1>20 DEF Answer

LEMMA RequestRx ==
    ASSUME NEW p, NEW b \in Buffer, NEW answer \in Answer, FdInv(p)
    PROVE  LET q == RequestBuffer(p, b, answer)
           IN  RxKept(p, q) \/ (answer = "looped" /\ RxArrived(p, q))
  <1>1. PICK c \in Controller, w \in FdWire : c = p.fd /\ w = p.wire /\ p \in FdPair /\ FdLines(c)
    BY PairTyped
  <1>2. CASE p.fd.state[b] = "pending"
    <2>1. RequestBuffer(p, b, answer) = p
      BY <1>2 DEF RequestBuffer
    <2> QED
      BY <2>1 DEF RxKept, FdSameRx
  <1>3. CASE p.fd.state[b] # "pending"
    <2>1. PICK r : r = [fd |-> Reserve(p.fd, b),
                        wire |-> [p.wire EXCEPT !.request[b] = p.wire.next, !.next = @ + 1]]
      OBVIOUS
    <2>2. FdMid(p, r, b, p.fd.generation[b])
      BY <1>1, <2>1, MidReserved DEF FdInv
    <2>3. PICK q : q = TransmitBuffer(r, b, answer)
      OBVIOUS
    <2>4. RequestBuffer(p, b, answer) = q
      BY <1>3, <2>1, <2>3 DEF RequestBuffer
    <2>5. RxKept(r, q) \/ (answer = "looped" /\ RxArrived(r, q))
      BY <1>1, <2>2, <2>3, TransmitRx
    <2>6. RxKept(p, r)
      <3>1. FdSameRx(c, r.fd)
        <4>1. FdTxDone(c, Reserve(c, b), b, "pending", c.txbrp \cup {b}, c.txbto \ {b})
          BY <1>1, Reserved
        <4> QED
          BY <1>1, <2>1, <4>1 DEF FdTxDone
      <3>2. r.wire = [w EXCEPT !.request[b] = w.next, !.next = w.next + 1]
        BY <1>1, <2>1
      <3>3. r.wire.stored = w.stored /\ r.wire.overwritten = w.overwritten
        BY <3>2 DEF FdWire
      <3> QED
        BY <1>1, <3>1, <3>3 DEF RxKept
    <2>7. RxKept(q, q)
      BY DEF RxKept, FdSameRx
    <2>8. RxKept(p, q) \/ (answer = "looped" /\ RxArrived(p, q))
      BY <2>5, <2>6, <2>7, RxKeptThrough
    <2> QED
      BY <2>4, <2>8
  <1> QED
    BY <1>2, <1>3

LEMMA RequestsRx ==
    ASSUME NEW requests, NEW answer, FdInv(Machine),
           \A b \in requests : answer[b] \in Answer \ {"looped"}
    PROVE  RxKept(Machine, RequestAll(requests, answer))
  <1>1. PICK f : /\ FdTurns(Machine, requests, answer, f, TxSlots)
                 /\ RequestAll(requests, answer) = f[TxSlots]
    BY TurnsFold
  <1>2. PICK start : start = Machine
    OBVIOUS
  <1>3. FdInv(start) /\ FdTurns(start, requests, answer, f, TxSlots) /\ RxKept(start, start)
    BY <1>1, <1>2 DEF RxKept, FdSameRx
  <1>4. \A k \in 0..TxSlots : f[k] = IF k = 0 THEN start ELSE FdTurn(requests, answer, k, f[k - 1])
    <2>1. PICK e : e = [k \in 0..TxSlots |-> IF k = 0 THEN start ELSE FdTurn(requests, answer, k, f[k - 1])]
      OBVIOUS
    <2>2. f = e
      BY <1>3, <2>1 DEF FdTurns
    <2>3. \A k \in 0..TxSlots : e[k] = IF k = 0 THEN start ELSE FdTurn(requests, answer, k, f[k - 1])
      BY <2>1
    <2> QED
      BY <2>2, <2>3
  <1> DEFINE Good(x) == FdInv(x) /\ RxKept(start, x)
             Bad == {k \in 0..TxSlots : ~Good(f[k])}
  <1>5. Bad = {}
    <2>1. SUFFICES ASSUME Bad # {} PROVE FALSE
      OBVIOUS
    <2>2. Bad \in SUBSET Nat
      BY SlotAssumption
    <2>3. PICK k \in Bad : \A j \in Bad : k <= j
      <3> HIDE DEF Bad
      <3> QED
        BY <2>1, <2>2, LeastNumber
    <2>4. k \in 0..TxSlots /\ ~Good(f[k])
      BY <2>3
    <2>5. k # 0
      BY <1>3, <1>4, <2>4
    <2>6. PICK b \in Buffer : b = k - 1
      BY <2>4, <2>5, SlotAssumption DEF Buffer
    <2>7. b \in 0..TxSlots /\ b < k
      BY <2>4, <2>6, SlotAssumption DEF Buffer
    <2>8. Good(f[b])
      <3>1. b \notin Bad
        <4> HIDE DEF Bad
        <4>1. k \in Nat /\ b \in Nat
          BY <2>4, <2>7, SlotAssumption
        <4> QED
          BY <2>3, <2>7, <4>1
      <3> HIDE DEF Good
      <3> QED
        BY <2>7, <3>1
    <2>9. PICK x : x = f[b]
      OBVIOUS
    <2>10. f[k] = IF b \in requests THEN RequestBuffer(x, b, answer[b]) ELSE x
      BY <1>4, <2>4, <2>5, <2>6, <2>9 DEF FdTurn
    <2>11. FdInv(x) /\ RxKept(start, x)
      BY <2>8, <2>9
    <2>12. ASSUME b \in requests PROVE Good(RequestBuffer(x, b, answer[b]))
      <3>1. PICK a \in Answer : a = answer[b] /\ a # "looped"
        BY <2>12
      <3>2. PICK y : y = RequestBuffer(x, b, a)
        OBVIOUS
      <3>3. FdInv(y)
        BY <2>11, <3>2, RequestServed DEF FdInv, FdSound
      <3>4. RxKept(x, y)
        BY <2>11, <3>1, <3>2, RequestRx
      <3>5. RxKept(start, y)
        BY <2>11, <3>4 DEF RxKept, FdSameRx
      <3> QED
        BY <3>1, <3>2, <3>3, <3>5
    <2> HIDE DEF Good
    <2> QED
      BY <2>4, <2>8, <2>9, <2>10, <2>12
  <1>6. Good(f[TxSlots])
    <2>1. TxSlots \in 0..TxSlots
      BY SlotAssumption
    <2> HIDE DEF Good
    <2> QED
      BY <1>5, <2>1
  <1> QED
    BY <1>1, <1>2, <1>6

(* The steps the device's parts take: one frame at most is looped back.    *)
RxStep ==
    \/ Configure \/ Environment
    \/ \E slot : fd' = AcknowledgeRxFifo0(fd, slot) /\ wire' = wire
    \/ \E b \in Buffer : \E answer : answer[b] \in SendAnswers /\ Request({b}, answer)
    \/ \E requests : \E answer :
          (\A b \in requests : answer[b] \in SendAnswers \ {"looped"}) /\ Request(requests, answer)
    \/ UNCHANGED <<fd, wire>>

RxMoved(p, q) ==
    \/ RxKept(p, q) \/ RxArrived(p, q)
    \/ \E slot : \E freed \in Nat : FdAcked(p.fd, q.fd, slot, freed)
    \/ q.fd.rx_fill = 0 /\ q.fd.rx_put = 0

LEMMA RxStepMoves ==
    ASSUME FdInv(Machine), RxStep, NEW q, q = [fd |-> fd', wire |-> wire']
    PROVE  RxMoved(Machine, q)
  <1>1. PICK c \in Controller, w \in FdWire : c = fd /\ w = wire /\ FdLines(c) /\ FdOwned(c, w)
    BY MachineTyped
  <1>2. PICK p : p = Machine
    OBVIOUS
  <1>3. p \in FdPair /\ FdInv(p) /\ p.fd = c /\ p.wire = w
    BY <1>1, <1>2, MachineTyped DEF Machine
  <1>4. PICK d : d = fd'
    OBVIOUS
  <1>5. PICK v : v = wire'
    OBVIOUS
  <1>6. q.fd = d /\ q.wire = v
    BY <1>4, <1>5
  <1>7. SUFFICES RxMoved(p, q)
    BY <1>2
  <1>8. ASSUME FdSameRx(c, d), v.stored = w.stored, v.overwritten = w.overwritten
        PROVE  RxMoved(p, q)
    BY <1>3, <1>6, <1>8 DEF RxMoved, RxKept
  <1>9. CASE Configure
    <2>1. FdQuiet(c, d) /\ v = w
      BY <1>1, <1>4, <1>5, <1>9, ConfigureQuiet
    <2> QED
      BY <1>8, <2>1 DEF FdQuiet
  <1>10. ASSUME NEW slot, fd' = AcknowledgeRxFifo0(fd, slot), wire' = wire PROVE RxMoved(p, q)
    <2>1. d = AcknowledgeRxFifo0(c, slot) /\ v = w
      BY <1>1, <1>4, <1>5, <1>10
    <2>2. d = c \/ \E freed \in Nat : FdAcked(c, d, slot, freed)
      BY <1>1, <2>1, Acknowledged
    <2>3. CASE d = c
      BY <1>8, <2>1, <2>3 DEF FdSameRx
    <2>4. CASE \E freed \in Nat : FdAcked(c, d, slot, freed)
      BY <1>3, <1>6, <2>4 DEF RxMoved
    <2> QED
      BY <2>2, <2>3, <2>4
  <1>11. ASSUME NEW requests, NEW answer, Request(requests, answer), NEW a, a = RequestAll(requests, answer),
                RxKept(p, a) \/ RxArrived(p, a)
         PROVE  RxMoved(p, q)
    <2>1. a.fd = d /\ a.wire = v
      BY <1>4, <1>5, <1>11 DEF Request
    <2> QED
      BY <1>6, <1>11, <2>1 DEF RxMoved, RxKept, RxArrived
  <1>12. ASSUME NEW b \in Buffer, NEW answer, answer[b] \in SendAnswers, Request({b}, answer)
         PROVE  RxMoved(p, q)
    <2>1. PICK a : a = RequestAll({b}, answer)
      OBVIOUS
    <2>2. PICK x \in Answer : x = answer[b]
      BY <1>12, ValueAssumption
    <2>3. a = RequestBuffer(p, b, x)
      BY <1>2, <2>1, <2>2, SingleRequest
    <2>4. RxKept(p, a) \/ RxArrived(p, a)
      BY <1>3, <2>3, RequestRx
    <2> QED
      BY <1>11, <1>12, <2>1, <2>4
  <1>13. ASSUME NEW requests, NEW answer, Request(requests, answer),
                \A b \in requests : answer[b] \in SendAnswers \ {"looped"}
         PROVE  RxMoved(p, q)
    <2>1. PICK a : a = RequestAll(requests, answer)
      OBVIOUS
    <2>2. \A b \in requests : answer[b] \in Answer \ {"looped"}
      BY <1>13, ValueAssumption
    <2>3. RxKept(p, a)
      BY <1>2, <2>1, <2>2, RequestsRx
    <2> QED
      BY <1>11, <1>13, <2>1, <2>3
  <1>14. CASE Deliver
    <2>1. PICK frame \in Frames : fd' = ReceiveFrame(p, frame).fd /\ wire' = ReceiveFrame(p, frame).wire
      BY <1>2, <1>14 DEF Deliver
    <2>2. PICK a : a = ReceiveFrame(p, frame)
      OBVIOUS
    <2>3. RxKept(p, a) \/ RxArrived(p, a)
      BY <1>1, <1>3, <2>2, FrameReceived DEF FdReceived
    <2>4. a.fd = d /\ a.wire = v
      BY <1>4, <1>5, <2>1, <2>2
    <2> QED
      BY <1>6, <2>3, <2>4, SMTT(60) DEF RxMoved, RxKept, RxArrived
  <1>15. CASE Complete
    <2>10. PICK x : x = Head(w.sends)
      OBVIOUS
    <2>11. PICK success \in BOOLEAN : d = Completion(c, x.buffer, x.generation, success)
      BY <1>1, <1>4, <1>15, <2>10 DEF Complete
    <2>12. PICK b : b = x.buffer
      OBVIOUS
    <2>13. PICK g : g = x.generation
      OBVIOUS
    <2>1. d = Completion(c, b, g, success)
      BY <2>11, <2>12, <2>13
    <2>2. v.stored = w.stored /\ v.overwritten = w.overwritten
      BY <1>1, <1>5, <1>15 DEF Complete, FdWire
    <2>3. Head(w.sends) \in Send
      BY <1>1, <1>15, SendsTyped DEF Complete
    <2>4. b \in Buffer /\ g \in Nat
      BY <2>3, <2>10, <2>12, <2>13 DEF Send
    <2>5. FdSettled(c)
      BY <1>1, MachineTyped
    <2>6. \/ d = c
          \/ FdTxDone(c, d, b, "complete", c.txbrp \ {b}, c.txbto \cup {b})
          \/ FdTxDone(c, d, b, "idle", c.txbrp \ {b}, c.txbto)
      BY <1>1, <2>1, <2>4, <2>5, CompletionEffect
    <2>7. FdSameRx(c, d)
      BY <2>6 DEF FdTxDone, FdSameRx
    <2> QED
      BY <1>8, <2>2, <2>7
  <1>16. CASE Forget
    <2>1. d = c /\ v.stored = w.stored /\ v.overwritten = w.overwritten
      BY <1>1, <1>4, <1>5, <1>16 DEF Forget, FdWire
    <2> QED
      BY <1>8, <2>1 DEF FdSameRx
  <1>17. CASE AttachBus \/ Detach
    <2>1. FdSameRx(c, d) /\ v.stored = w.stored /\ v.overwritten = w.overwritten
      BY <1>1, <1>4, <1>5, <1>17, AttachEffect
    <2> QED
      BY <1>8, <2>1
  <1>18. CASE Reset
    <2>1. d = OnReset(c)
      BY <1>1, <1>4, <1>18 DEF Reset
    <2>2. d.rx_fill = 0 /\ d.rx_put = 0
      BY <1>1, <2>1, ControllerReset
    <2> QED
      BY <1>6, <2>2 DEF RxMoved
  <1>19. CASE UNCHANGED <<fd, wire>>
    BY <1>1, <1>4, <1>5, <1>8, <1>19 DEF FdSameRx
  <1> QED
    BY <1>9, <1>10, <1>12, <1>13, <1>14, <1>15, <1>16, <1>17, <1>18, <1>19 DEF RxStep, Environment

(* A step of the bounded queue, from s and n to t and m.                   *)
FifoStep(s, n, t, m) ==
    \/ t = s /\ m = n
    \/ t = <<>> /\ m = 0
    \/ (\E k \in DOMAIN s : t = SubSeq(s, k + 1, Len(s))) /\ m = n
    \/ (\E last \in RxStored : last.slot = n /\ RxPushed(s, t, last)) /\ m = (n + 1) % RxSlots

LEMMA FifoMoves ==
    ASSUME NEW p, NEW q, FdInv(p), FdInv(q), RxMoved(p, q)
    PROVE  FifoStep(RxQueue(p.fd), p.fd.rx_put, RxQueue(q.fd), q.fd.rx_put)
  <1>1. p \in FdPair /\ p.fd \in Controller /\ FdRing(p.fd, p.wire) /\ q \in FdPair /\ q.fd \in Controller
    BY PairTyped
  <1>2. CASE RxKept(p, q)
    BY <1>2, QueueKept DEF RxKept, FifoStep
  <1>3. CASE RxArrived(p, q)
    BY <1>1, <1>3, QueueArrived DEF FifoStep
  <1>4. CASE \E slot : \E freed \in Nat : FdAcked(p.fd, q.fd, slot, freed)
    <2>1. PICK slot : \E freed \in Nat : FdAcked(p.fd, q.fd, slot, freed)
      BY <1>4
    <2>2. PICK freed \in Nat : FdAcked(p.fd, q.fd, slot, freed)
      BY <2>1
    <2> QED
      BY <1>1, <2>2, QueueAcked DEF FifoStep
  <1>5. CASE q.fd.rx_fill = 0 /\ q.fd.rx_put = 0
    <2>1. RxQueue(q.fd) = <<>>
      BY <1>1, <1>5, QueueTyped, EmptySeq
    <2> QED
      BY <1>5, <2>1 DEF FifoStep
  <1> QED
    BY <1>2, <1>3, <1>4, <1>5 DEF RxMoved

LEMMA PartIsRxStep ==
    ASSUME FdInv(Machine), [DeviceNext]_DeviceVars
    PROVE  RxStep
  <1>1. CASE UNCHANGED DeviceVars
    BY <1>1 DEF DeviceVars, vars, RxStep
  <1>2. CASE DeviceNext /\ part \notin FdcanParts
    BY <1>2 DEF DeviceNext, Held, vars, RxStep
  <1>3. CASE DeviceNext /\ part \in FdcanParts
    <2>1. FdcanPart
      BY <1>3 DEF DeviceNext, TickPart, PinsPart, BlockPart, WiringPart, DmaPart, SerialPart, TimerPart,
                  WatchdogPart, ClocksPart, FlashPart, CrcPart, AdcPart, FdcanParts
    <2>2. ASSUME NEW b \in Buffer, NEW a \in SendAnswers, Request({b}, [x \in {b} |-> a]) PROVE RxStep
      <3>1. PICK answer : answer = [x \in {b} |-> a]
        OBVIOUS
      <3>2. answer[b] \in SendAnswers /\ Request({b}, answer)
        BY <2>2, <3>1
      <3> QED
        BY <3>2 DEF RxStep
    <2>3. CASE Transmitting
      <3>1. CASE WriteCccr \/ WriteTxElement
        BY <3>1 DEF Configure, RxStep
      <3>2. CASE \E requests \in (SUBSET Buffer) \ {{}} :
                   \E answer \in [requests -> SendAnswers \ {"looped"}] : Request(requests, answer)
        <4>1. PICK requests \in (SUBSET Buffer) \ {{}} :
                   \E answer \in [requests -> SendAnswers \ {"looped"}] : Request(requests, answer)
          BY <3>2
        <4>2. PICK answer \in [requests -> SendAnswers \ {"looped"}] : Request(requests, answer)
          BY <4>1
        <4>3. \A b \in requests : answer[b] \in SendAnswers \ {"looped"}
          OBVIOUS
        <4> QED
          BY <4>2, <4>3 DEF RxStep
      <3>3. CASE Complete \/ Forget \/ AttachBus \/ Detach \/ Reset
        BY <3>3 DEF Environment, RxStep
      <3> QED
        BY <2>3, <3>1, <3>2, <3>3 DEF Transmitting
    <2>4. CASE Ordering
      <3>1. CASE WriteTxbarAtPut
        <4>1. fd.tx_put \in Buffer
          BY MachineTyped DEF Controller
        <4>2. PICK a \in SendAnswers : Request({fd.tx_put}, [b \in {fd.tx_put} |-> a])
          BY <3>1 DEF WriteTxbarAtPut
        <4> QED
          BY <2>2, <4>1, <4>2
      <3>2. CASE WriteCccr \/ Complete \/ Forget \/ AttachBus \/ Detach \/ Reset
        BY <3>2 DEF Configure, Environment, RxStep
      <3> QED
        BY <2>4, <3>1, <3>2 DEF Ordering
    <2>5. CASE Receiving
      BY <2>5 DEF Receiving, Configure, Environment, RxStep, WriteRxf0a
    <2>6. CASE Taking
      BY <2>6 DEF Taking, Configure, Environment, RxStep, ReadStatus, ReadElement, AcknowledgeElement
    <2>7. CASE Signalling
      <3>1. CASE \E answer \in SendAnswers : Request({0}, [b \in {0} |-> answer])
        <4>1. 0 \in Buffer
          BY SlotAssumption DEF Buffer
        <4> QED
          BY <2>2, <3>1, <4>1
      <3>2. CASE WriteCccr \/ WriteIr \/ WriteIe \/ WriteIls \/ WriteIle \/ WriteTxbtie
        BY <3>2 DEF Configure, RxStep
      <3>3. CASE Deliver \/ Complete \/ AttachBus \/ Reset
        BY <3>3 DEF Environment, RxStep
      <3> QED
        BY <2>7, <3>1, <3>2, <3>3 DEF Signalling
    <2> QED
      BY <2>1, <2>3, <2>4, <2>5, <2>6, <2>7 DEF FdcanPart
  <1> QED
    BY <1>1, <1>2, <1>3

(* Whatever its size and whichever part of the device runs: the ring in    *)
(* message RAM, with its fill level and its get and put indices, is a      *)
(* bounded queue.  A frame arrives at the slot after the last one, over    *)
(* the oldest when there is no room and the FIFO overwrites; an            *)
(* acknowledgement frees the frames up to the acknowledged slot.           *)
THEOREM RingAlwaysFifo == DeviceSpec => RingIsFifo
  <1>1. DeviceInit => FdInv(Machine) /\ Fifo!Init
    <2>1. SUFFICES ASSUME DeviceInit PROVE FdInv(Machine) /\ Fifo!Init
      OBVIOUS
    <2>2. FdInv(Machine) /\ fd \in Controller
      BY <2>1, MachineStarts, MachineTyped DEF DeviceInit
    <2>3. fd.rx_fill = 0 /\ fd.rx_put = 0
      BY <2>1 DEF DeviceInit, Init
    <2>4. RxQueue(fd) = <<>>
      BY <2>2, <2>3, QueueTyped, EmptySeq
    <2> QED
      BY <2>2, <2>3, <2>4 DEF Fifo!Init, RxQueue, RxEntry
  <1>2. FdInv(Machine) /\ [DeviceNext]_DeviceVars => FdInv(Machine)'
    BY PartIsStep, StepKeeps
  <1>3. FdInv(Machine) /\ [DeviceNext]_DeviceVars => [Fifo!Next]_(Fifo!vars)
    <2>1. SUFFICES ASSUME FdInv(Machine), [DeviceNext]_DeviceVars PROVE [Fifo!Next]_(Fifo!vars)
      OBVIOUS
    <2>2. PICK p : p = Machine
      OBVIOUS
    <2>3. PICK q : q = [fd |-> fd', wire |-> wire']
      OBVIOUS
    <2>4. FdInv(q) /\ q.fd = fd'
      BY <2>1, <2>3, PartIsStep, NextPair
    <2>5. RxMoved(p, q)
      BY <2>1, <2>2, <2>3, PartIsRxStep, RxStepMoves
    <2>6. p.fd = fd /\ FdInv(p)
      BY <2>1, <2>2 DEF Machine
    <2>7. FifoStep(RxQueue(p.fd), p.fd.rx_put, RxQueue(q.fd), q.fd.rx_put)
      BY <2>4, <2>5, <2>6, FifoMoves
    <2>8. PICK s : s = RxQueue(fd)
      OBVIOUS
    <2>9. PICK t : t = RxQueue(fd)'
      OBVIOUS
    <2>10. RxQueue(fd)' = RxQueue(q.fd)
      BY <2>4 DEF RxQueue, RxEntry
    <2>11. FifoStep(s, fd.rx_put, t, fd'.rx_put)
      BY <2>4, <2>6, <2>7, <2>8, <2>9, <2>10
    <2>12. s = [k \in 1..fd.rx_fill |-> LET slot == (fd.rx_get + k - 1) % RxSlots
                                        IN  [frame |-> fd.rx[slot], slot |-> slot]]
      BY <2>8 DEF RxQueue, RxEntry
    <2>13. t = [k \in 1..fd.rx_fill |-> LET slot == (fd.rx_get + k - 1) % RxSlots
                                        IN  [frame |-> fd.rx[slot], slot |-> slot]]'
      BY <2>9 DEF RxQueue, RxEntry
    <2>14. CASE t = s /\ fd'.rx_put = fd.rx_put
      BY <2>12, <2>13, <2>14 DEF Fifo!vars
    <2>15. CASE t = <<>> /\ fd'.rx_put = 0
      BY <2>13, <2>15 DEF Fifo!Next, Fifo!Reset
    <2>16. CASE (\E k \in DOMAIN s : t = SubSeq(s, k + 1, Len(s))) /\ fd'.rx_put = fd.rx_put
      BY <2>12, <2>13, <2>16 DEF Fifo!Next, Fifo!Acknowledge
    <2>17. CASE /\ (\E last \in RxStored : last.slot = fd.rx_put /\ RxPushed(s, t, last))
                /\ fd'.rx_put = (fd.rx_put + 1) % RxSlots
      <3>1. PICK last \in RxStored : last.slot = fd.rx_put /\ RxPushed(s, t, last)
        BY <2>17
      <3>2. /\ t # <<>> /\ t[Len(t)] = last /\ t[Len(t)].frame \in Element /\ t[Len(t)].slot = fd.rx_put
            /\ t = Append(IF Len(s) = RxSlots THEN Tail(s) ELSE s, t[Len(t)])
        BY <3>1 DEF RxPushed, RxStored
      <3> QED
        BY <2>12, <2>13, <2>17, <3>2 DEF Fifo!Next, Fifo!Arrive
    <2> QED
      BY <2>11, <2>14, <2>15, <2>16, <2>17 DEF FifoStep
  <1> QED
    BY <1>1, <1>2, <1>3, PTL DEF DeviceSpec, RingIsFifo, Fifo!Spec

-----------------------------------------------------------------------------
(* The converter (Adc) *)

Ranks == DOMAIN Budget
ConversionStates ==
    {"idle", "scheduled", "skipped_gap", "lazy", "lazy_gap", "suspended", "suspended_gap"}
Deadlined == {"scheduled", "skipped_gap", "lazy", "lazy_gap"}
AdcState ==
    [adstart : BOOLEAN, continuous : BOOLEAN, length : 1..Cardinality(Ranks), ie : SUBSET {"eos"},
     hz : AdcClocks, dec : Decimations, observed : BOOLEAN, held : BOOLEAN,
     state : ConversionStates, due : Int, event : Int, rank : Ranks, scan : Nat,
     skip : BOOLEAN, suspended : Nat, skipped : Nat,
     flags : SUBSET {"eoc", "eos"}, level : BOOLEAN,
     elapsed : 0..MaxElapsed, steady : BOOLEAN, lastAt : Int, lastRank : Nat, taken : Nat]

(* The level follows the flags; scans are skipped, and so a gap exists,    *)
(* only of a converter that is observed.                                   *)
AdcWired(a) ==
    /\ a.level <=> a.ie \cap a.flags # {}
    /\ a.dec > 1 => a.observed
    /\ Gap(a.state) => a.dec > 1
    /\ Lazy(a.state) => a.length = 1 /\ a.dec = 1

(* State, deadline, event and suspended work agree.                        *)
AdcArmed(a) ==
    /\ a.event # NoDeadline <=> a.state \in {"scheduled", "skipped_gap"}
    /\ a.event # NoDeadline => a.event = a.due /\ a.event >= 0
    /\ a.due # NoDeadline <=> a.state \in Deadlined
    /\ a.due # NoDeadline => a.hz # 0 /\ a.elapsed + a.due >= 0
    /\ a.suspended # 0 <=> Suspended(a.state)
    /\ Suspended(a.state) => a.hz = 0

AdcEligible(a) == Lazy(a.state) => LazyEligible(a)

(* While nothing disturbs the sequence: the deadline is that of the        *)
(* hardware's conversion, or of the scan after a gap; a scan is skipped as *)
(* a whole; and the last result kept is one the hardware had by now.       *)
ScanTime(a) == DelaySum(a.hz, a.length)[a.length]
AdcOnTime(a) ==
    /\ a.state \in {"scheduled", "lazy"} =>
          \E j \in Nat : a.elapsed + a.due = EndsAt(a, j, a.rank) /\ (a.dec > 1 => j = a.scan)
    /\ a.state = "skipped_gap" => a.elapsed + a.due = (a.scan + a.skipped) * ScanTime(a)
AdcSkips(a) == a.continuous /\ a.dec > 1 /\ a.rank > 0 => (a.skip <=> a.scan % a.dec # 0)
AdcKept(a) ==
    a.taken > 0 =>
        /\ a.hz # 0 /\ a.lastRank < a.length /\ a.lastAt <= a.elapsed
        /\ \E j \in Nat : (j % a.dec = 0 \/ ~a.continuous) /\ a.lastAt = EndsAt(a, j, a.lastRank)
AdcTimed(a) == a.steady => a.rank < a.length /\ AdcOnTime(a) /\ AdcSkips(a) /\ AdcKept(a)

AdcSane(a) == a \in AdcState /\ AdcWired(a) /\ AdcArmed(a) /\ AdcTimed(a)
AdcInv(a) == AdcSane(a) /\ AdcEligible(a)

-----------------------------------------------------------------------------
(* How long conversions and scans take. *)

LEMMA StretchedTyped ==
    ASSUME NEW cycles \in Nat, NEW hz \in Nat \ {0}
    PROVE  Stretched(cycles, hz) \in Nat \ {0}
  <1>1. PICK n \in Nat : n = cycles + hz - 1
    OBVIOUS
  <1>2. PICK d \in Nat : d = n \div hz
    BY <1>1, DivMod
  <1> QED
    BY <1>1, <1>2 DEF Stretched

LEMMA DelayTyped ==
    ASSUME NEW hz \in Nat \ {0}, NEW r \in Ranks
    PROVE  DelayForRank(hz, r) \in Nat \ {0}
  BY StretchedTyped, AdcAssumption DEF DelayForRank, Ranks

LEMMA RanksOf ==
    ASSUME NEW length \in 1..Cardinality(Ranks), NEW r \in 0..(length - 1)
    PROVE  r \in Ranks
  <1>1. Cardinality(Ranks) \in Nat /\ Ranks = 0..(Cardinality(Ranks) - 1)
    BY AdcAssumption, FS_CardinalityType DEF Ranks
  <1> QED
    BY <1>1

(* What DelaySum(hz, length) adds up.                                      *)
AddsUp(f, hz, length) ==
    /\ f \in [0..length -> Nat] /\ f[0] = 0
    /\ \A r \in 1..length : f[r] = f[r - 1] + DelayForRank(hz, r - 1)

LEMMA AddingExists ==
    ASSUME NEW hz \in Nat \ {0}, NEW length \in 1..Cardinality(Ranks)
    PROVE  \E f : AddsUp(f, hz, length)
  <1>0. length \in Nat
    BY AdcAssumption, FS_CardinalityType DEF Ranks
  <1> DEFINE Bad == {m \in 0..length : ~ \E f : AddsUp(f, hz, m)}
  <1>1. SUFFICES ASSUME Bad # {} PROVE FALSE
    BY <1>0
  <1>2. PICK m \in Bad : \A k \in Bad : m <= k
    <2>1. Bad \in SUBSET Nat
      OBVIOUS
    <2> HIDE DEF Bad
    <2> QED
      BY <1>1, <2>1, LeastNumber
  <1>3. m # 0
    <2> DEFINE f == [k \in 0..0 |-> 0]
    <2>1. AddsUp(f, hz, 0)
      BY DEF AddsUp
    <2> QED
      BY <1>2, <2>1
  <1>4. m \in 1..length /\ m - 1 \in 0..length /\ m - 1 \notin Bad
    BY <1>0, <1>2, <1>3
  <1>5. PICK g : AddsUp(g, hz, m - 1)
    BY <1>4
  <1>6. PICK d \in Nat : d = DelayForRank(hz, m - 1)
    <2>1. m - 1 \in 0..(length - 1)
      BY <1>0, <1>4
    <2>2. m - 1 \in Ranks
      BY <2>1, RanksOf
    <2> QED
      BY <2>2, DelayTyped
  <1> DEFINE f == [k \in 0..m |-> IF k = m THEN g[m - 1] + d ELSE g[k]]
  <1>7. g \in [0..(m - 1) -> Nat] /\ g[m - 1] \in Nat
    BY <1>4, <1>5 DEF AddsUp
  <1>8. f \in [0..m -> Nat]
    <2>1. \A k \in 0..m : k # m => k \in 0..(m - 1)
      BY <1>4
    <2> QED
      BY <1>7, <2>1
  <1>9. f[0] = 0
    BY <1>4, <1>5 DEF AddsUp
  <1>10. ASSUME NEW r \in 1..m PROVE f[r] = f[r - 1] + DelayForRank(hz, r - 1)
    <2>1. CASE r = m
      BY <1>4, <1>6, <2>1
    <2>2. CASE r # m
      <3>1. r \in 1..(m - 1) /\ r \in 0..m /\ r - 1 \in 0..m /\ r - 1 # m
        BY <1>4, <2>2
      <3>2. g[r] = g[r - 1] + DelayForRank(hz, r - 1)
        BY <1>5, <3>1 DEF AddsUp
      <3> QED
        BY <2>2, <3>1, <3>2
    <2> QED
      BY <2>1, <2>2
  <1>11. AddsUp(f, hz, m)
    BY <1>8, <1>9, <1>10 DEF AddsUp
  <1> QED
    BY <1>2, <1>11

LEMMA DelaysAddUp ==
    ASSUME NEW hz \in Nat \ {0}, NEW length \in 1..Cardinality(Ranks)
    PROVE  AddsUp(DelaySum(hz, length), hz, length)
  <1>0. length \in Nat
    BY AdcAssumption, FS_CardinalityType DEF Ranks
  <1> DEFINE Is(g) == g = [r \in 0..length |-> IF r = 0 THEN 0 ELSE g[r - 1] + DelayForRank(hz, r - 1)]
             sum == DelaySum(hz, length)
  <1>1. PICK f : AddsUp(f, hz, length)
    BY AddingExists
  <1>2. Is(f)
    <2> DEFINE h == [r \in 0..length |-> IF r = 0 THEN 0 ELSE f[r - 1] + DelayForRank(hz, r - 1)]
    <2>1. \A r \in 0..length : f[r] = h[r]
      <3>1. \A r \in 0..length : r # 0 => r \in 1..length
        BY <1>0
      <3> QED
        BY <1>1, <3>1 DEF AddsUp
    <2>2. f \in [0..length -> Nat]
      BY <1>1 DEF AddsUp
    <2>3. f = [r \in 0..length |-> f[r]]
      BY <2>2
    <2> QED
      BY <2>1, <2>3
  <1>3. sum = CHOOSE g : Is(g)
    BY DEF DelaySum
  <1>4. Is(sum)
    BY <1>2, <1>3
  <1>5. /\ sum = [r \in 0..length |-> sum[r]] /\ sum[0] = 0
        /\ \A r \in 1..length : sum[r] = sum[r - 1] + DelayForRank(hz, r - 1)
    <2> HIDE DEF sum
    <2>1. \A r \in 1..length : r \in 0..length /\ r # 0
      BY <1>0
    <2> QED
      BY <1>0, <1>4, <2>1
  <1> HIDE DEF sum
  <1> DEFINE Bad == {r \in 0..length : sum[r] \notin Nat}
  <1>6. ASSUME Bad # {} PROVE FALSE
    <2>1. PICK m \in Bad : \A k \in Bad : m <= k
      <3>1. Bad \in SUBSET Nat
        OBVIOUS
      <3> HIDE DEF Bad
      <3> QED
        BY <1>6, <3>1, LeastNumber
    <2>2. m \in 1..length /\ m - 1 \in 0..length /\ m - 1 \in 0..(length - 1)
      BY <1>0, <1>5, <2>1
    <2>3. sum[m - 1] \in Nat
      BY <2>1, <2>2
    <2>4. DelayForRank(hz, m - 1) \in Nat
      BY <2>2, RanksOf, DelayTyped
    <2>5. sum[m] = sum[m - 1] + DelayForRank(hz, m - 1)
      BY <1>5, <2>2
    <2>6. sum[m] \in Nat
      BY <2>3, <2>4, <2>5
    <2> QED
      BY <2>1, <2>6
  <1>7. \A r \in 0..length : sum[r] \in Nat
    BY <1>6
  <1>8. sum \in [0..length -> Nat]
    BY <1>5, <1>7
  <1>9. AddsUp(sum, hz, length)
    BY <1>5, <1>8 DEF AddsUp
  <1> QED
    BY <1>9 DEF sum

(* What the proofs below use of it: T is the time of a scan.               *)
LEMMA ScanTimes ==
    ASSUME NEW hz \in Nat \ {0}, NEW length \in 1..Cardinality(Ranks)
    PROVE  /\ length \in Nat \ {0}
           /\ DelaySum(hz, length)[length] \in Nat \ {0}
           /\ DelaySum(hz, length)[1] = DelayForRank(hz, 0)
           /\ \A r \in 0..(length - 1) :
                 /\ DelaySum(hz, length)[r + 1] \in Nat
                 /\ r + 1 < length => DelaySum(hz, length)[r + 2] =
                                         DelaySum(hz, length)[r + 1] + DelayForRank(hz, r + 1)
  <1>0. length \in Nat \ {0}
    BY AdcAssumption, FS_CardinalityType DEF Ranks
  <1>1. PICK f : f = DelaySum(hz, length) /\ AddsUp(f, hz, length)
    BY DelaysAddUp
  <1>2. length \in 1..length /\ length - 1 \in 0..length /\ length - 1 \in 0..(length - 1)
    BY <1>0
  <1>3. f[length] \in Nat \ {0}
    <2>1. f[length] = f[length - 1] + DelayForRank(hz, length - 1) /\ f[length - 1] \in Nat
      BY <1>1, <1>2 DEF AddsUp
    <2>2. DelayForRank(hz, length - 1) \in Nat \ {0}
      BY <1>2, RanksOf, DelayTyped
    <2> QED
      BY <2>1, <2>2
  <1>4. f[1] = DelayForRank(hz, 0)
    <2>1. 1 \in 1..length /\ 0 \in 0..(length - 1)
      BY <1>0
    <2>2. DelayForRank(hz, 0) \in Nat \ {0}
      BY <2>1, RanksOf, DelayTyped
    <2>3. f[1] = f[0] + DelayForRank(hz, 0) /\ f[0] = 0
      BY <1>1, <2>1 DEF AddsUp
    <2> QED
      BY <2>2, <2>3
  <1>5. ASSUME NEW r \in 0..(length - 1)
        PROVE  /\ f[r + 1] \in Nat
               /\ r + 1 < length => f[r + 2] = f[r + 1] + DelayForRank(hz, r + 1)
    <2>1. r + 1 \in 0..length
      BY <1>0
    <2>2. f[r + 1] \in Nat
      BY <1>1, <2>1 DEF AddsUp
    <2>3. ASSUME r + 1 < length PROVE f[r + 2] = f[r + 1] + DelayForRank(hz, r + 1)
      <3>1. r + 2 \in 1..length /\ (r + 2) - 1 = r + 1
        BY <1>0, <2>3
      <3> QED
        BY <1>1, <3>1 DEF AddsUp
    <2> QED
      BY <2>2, <2>3
  <1> QED
    BY <1>0, <1>1, <1>3, <1>4, <1>5

-----------------------------------------------------------------------------
(* Deadlines and events. *)

LEMMA DeadlineApart ==
    NoDeadline \in Int /\ NoDeadline < 0 /\ \A e \in 0..MaxElapsed : e + NoDeadline < 0
  BY AdcAssumption DEF NoDeadline

LEMMA AdcNumbers ==
    ASSUME NEW a \in AdcState
    PROVE  /\ a.hz \in Nat /\ a.dec \in Nat \ {0} /\ a.length \in Nat \ {0} /\ a.rank \in Nat
           /\ a.due \in Int /\ a.event \in Int /\ a.elapsed \in Nat /\ a.elapsed <= MaxElapsed
           /\ a.scan \in Nat /\ a.skipped \in Nat /\ a.suspended \in Nat /\ a.lastAt \in Int
           /\ a.lastRank \in Nat /\ a.taken \in Nat /\ a.length \in 1..Cardinality(Ranks)
  <1>1. Cardinality(Ranks) \in Nat /\ Ranks = 0..(Cardinality(Ranks) - 1)
    BY AdcAssumption, FS_CardinalityType DEF Ranks
  <1>2. a.length \in 1..Cardinality(Ranks) /\ a.rank \in Ranks /\ a.hz \in AdcClocks /\ a.dec \in Decimations
    BY DEF AdcState
  <1>3. a.length \in Nat \ {0} /\ a.rank \in Nat /\ a.hz \in Nat /\ a.dec \in Nat \ {0}
    <2>1. PICK n \in Nat : n = Cardinality(Ranks)
      BY <1>1
    <2>2. a.length \in 1..n /\ a.rank \in 0..(n - 1)
      BY <1>1, <1>2, <2>1
    <2>3. a.hz \in Nat /\ a.dec \in Nat \ {0}
      BY <1>2, AdcAssumption
    <2> QED
      BY <2>2, <2>3
  <1>4. a.elapsed \in Nat /\ a.elapsed <= MaxElapsed
    BY AdcAssumption DEF AdcState
  <1> QED
    BY <1>2, <1>3, <1>4 DEF AdcState

(* What the timing of a sequence depends on.                               *)
SameTimes(a, b) ==
    /\ b.length = a.length /\ b.hz = a.hz /\ b.continuous = a.continuous /\ b.dec = a.dec
    /\ b.elapsed = a.elapsed /\ b.due = a.due /\ b.rank = a.rank /\ b.scan = a.scan
    /\ b.skip = a.skip /\ b.skipped = a.skipped
    /\ b.lastAt = a.lastAt /\ b.lastRank = a.lastRank /\ b.taken = a.taken
SameState(a, b) == b.state = a.state \/ {a.state, b.state} \subseteq {"scheduled", "lazy"}

LEMMA SameTimesKept ==
    ASSUME NEW a, NEW b, AdcTimed(a), SameTimes(a, b), SameState(a, b), b.steady => a.steady
    PROVE  AdcTimed(b)
  <1>1. SUFFICES ASSUME b.steady PROVE b.rank < b.length /\ AdcOnTime(b) /\ AdcSkips(b) /\ AdcKept(b)
    BY DEF AdcTimed
  <1>2. a.rank < a.length /\ AdcOnTime(a) /\ AdcSkips(a) /\ AdcKept(a)
    BY <1>1 DEF AdcTimed
  <1>3. \A j, r : EndsAt(b, j, r) = EndsAt(a, j, r)
    BY DEF SameTimes, EndsAt
  <1>4. ScanTime(b) = ScanTime(a)
    BY DEF SameTimes, ScanTime
  <1>5. AdcOnTime(b)
    <2>1. b.state \in {"scheduled", "lazy"} => a.state \in {"scheduled", "lazy"}
      BY DEF SameState
    <2>2. b.state = "skipped_gap" => a.state = "skipped_gap"
      BY DEF SameState
    <2>3. /\ b.elapsed + b.due = a.elapsed + a.due /\ b.rank = a.rank /\ b.dec = a.dec /\ b.scan = a.scan
          /\ b.scan + b.skipped = a.scan + a.skipped
      BY DEF SameTimes
    <2> QED
      BY <1>2, <1>3, <1>4, <2>1, <2>2, <2>3 DEF AdcOnTime
  <1>6. AdcSkips(b)
    BY <1>2 DEF SameTimes, AdcSkips
  <1>7. AdcKept(b)
    BY <1>2, <1>3 DEF SameTimes, AdcKept
  <1> QED
    BY <1>2, <1>5, <1>6, <1>7 DEF SameTimes

(* Refresh of a deadline that is not over: it gets an event or is lazy.    *)
LEMMA RefreshArms ==
    ASSUME NEW a \in AdcState, AdcWired(a), AdcTimed(a), a.due \in Nat, a.event \in {NoDeadline, a.due},
           a.state \in {"scheduled", "lazy", "skipped_gap"}, a.hz # 0, a.suspended = 0
    PROVE  AdcInv(Refresh(a))
  <1>1. a.due # NoDeadline /\ a.elapsed + a.due >= 0
    BY DeadlineApart, AdcNumbers
  <1> DEFINE e == IF LazyEligible(a) THEN NoDeadline ELSE a.due
             s == IF LazyEligible(a) THEN "lazy" ELSE IF Gap(a.state) THEN "skipped_gap" ELSE "scheduled"
             b == [a EXCEPT !.event = e, !.state = s]
  <1>2. LazyEligible(a) => ~Gap(a.state) /\ a.dec = 1 /\ a.length = 1
    <2>1. a.dec \in Nat \ {0}
      BY AdcNumbers
    <2> QED
      BY <2>1 DEF LazyEligible, AdcWired
  <1>3. Refresh(a) = b
    <2>1. a.state # "idle" /\ ~Suspended(a.state)
      BY DEF Suspended
    <2>2. CASE LazyEligible(a)
      BY <1>1, <1>2, <2>1, <2>2 DEF Refresh
    <2>3. CASE ~LazyEligible(a)
      <3>1. (IF a.event = NoDeadline THEN a.due ELSE a.event) = a.due
        OBVIOUS
      <3>2. Refresh(a) = [a EXCEPT !.state = IF Gap(a.state) THEN "skipped_gap" ELSE "scheduled",
                                   !.event = IF a.event = NoDeadline THEN a.due ELSE a.event]
        BY <1>1, <2>1, <2>3 DEF Refresh, AdcState
      <3>3. Refresh(a) = [a EXCEPT !.state = IF Gap(a.state) THEN "skipped_gap" ELSE "scheduled",
                                   !.event = a.due]
        BY <3>1, <3>2
      <3> QED
        BY <2>3, <3>3 DEF AdcState
    <2> QED
      BY <2>2, <2>3
  <1>4. b \in AdcState
    <2>1. e \in Int /\ s \in ConversionStates
      BY DeadlineApart DEF ConversionStates
    <2> HIDE DEF e, s
    <2> QED
      BY <2>1 DEF AdcState
  <1>5. /\ b.event = e /\ b.state = s /\ b.steady = a.steady /\ SameTimes(a, b)
        /\ b.observed = a.observed /\ b.ie = a.ie /\ b.adstart = a.adstart /\ b.flags = a.flags
        /\ b.level = a.level /\ b.suspended = a.suspended
    <2> HIDE DEF e, s
    <2> QED
      BY DEF AdcState, SameTimes
  <1> HIDE DEF b
  <1>6. Gap(a.state) <=> a.state = "skipped_gap"
    BY DEF Gap
  <1>7. SameState(a, b)
    BY <1>2, <1>5, <1>6 DEF SameState
  <1>8. AdcTimed(b)
    BY <1>5, <1>7, SameTimesKept
  <1>9. AdcWired(b)
    <2>1. Gap(b.state) => Gap(a.state)
      BY <1>5 DEF Gap
    <2>2. Lazy(b.state) => a.length = 1 /\ a.dec = 1
      BY <1>2, <1>5 DEF Lazy
    <2> QED
      BY <1>5, <2>1, <2>2 DEF AdcWired, SameTimes
  <1>10. AdcArmed(b)
    <2>1. b.due = a.due /\ b.hz = a.hz /\ b.elapsed = a.elapsed
      BY <1>5 DEF SameTimes
    <2>2. ~Suspended(b.state) /\ b.state \in Deadlined /\ b.suspended = 0
      BY <1>5 DEF Suspended, Deadlined
    <2>3. (b.event # NoDeadline <=> b.state \in {"scheduled", "skipped_gap"}) /\ (b.event # NoDeadline => b.event = b.due)
      BY <1>1, <1>5, <2>1
    <2> QED
      BY <1>1, <2>1, <2>2, <2>3 DEF AdcArmed
  <1>11. AdcEligible(b)
    <2>1. LazyEligible(b) <=> LazyEligible(a)
      BY <1>5 DEF LazyEligible, SameTimes
    <2> QED
      BY <1>5, <2>1 DEF AdcEligible, Lazy
  <1> QED
    BY <1>3, <1>4, <1>8, <1>9, <1>10, <1>11 DEF AdcInv, AdcSane

(* Refresh leaves an engine without a deadline alone.                      *)
LEMMA RefreshRests ==
    ASSUME NEW a, a.due = NoDeadline
    PROVE  Refresh(a) = a
  BY DEF Refresh

(* Refresh of a sound engine whose deadline is not over.                   *)
LEMMA RefreshKeeps ==
    ASSUME NEW a, AdcSane(a), a.due = NoDeadline \/ a.due >= 0
    PROVE  AdcInv(Refresh(a))
  <1>1. a \in AdcState /\ AdcWired(a) /\ AdcArmed(a) /\ AdcTimed(a)
    BY DEF AdcSane
  <1>2. CASE a.due = NoDeadline
    <2>1. ~Lazy(a.state)
      BY <1>1, <1>2 DEF AdcArmed, Deadlined, Lazy
    <2> QED
      BY <1>2, <2>1, RefreshRests DEF AdcInv, AdcEligible
  <1>3. CASE a.due # NoDeadline
    <2>1. a.due \in Nat
      BY <1>1, <1>3, AdcNumbers
    <2>2. a.state \in {"scheduled", "lazy", "skipped_gap"}
      <3>1. a.state \in Deadlined /\ (Gap(a.state) => a.dec > 1) /\ (Lazy(a.state) => a.dec = 1)
        BY <1>1, <1>3 DEF AdcArmed, AdcWired
      <3> QED
        BY <3>1 DEF Deadlined, Gap, Lazy
    <2>3. a.event \in {NoDeadline, a.due} /\ a.hz # 0
      BY <1>1, <1>3 DEF AdcArmed
    <2>4. a.suspended = 0
      BY <1>1, <2>2 DEF AdcArmed, Suspended
    <2> QED
      BY <1>1, <2>1, <2>2, <2>3, <2>4, RefreshArms
  <1> QED
    BY <1>2, <1>3

(* armNextConversion from an engine without an event.                      *)
LEMMA ArmNextKeeps ==
    ASSUME NEW a \in AdcState, AdcWired(a), a.event = NoDeadline, a.hz # 0, a.suspended = 0,
           NEW delay \in Nat,
           a.steady => /\ a.rank < a.length /\ AdcSkips(a) /\ AdcKept(a)
                       /\ \E j \in Nat : a.elapsed + delay = EndsAt(a, j, a.rank) /\ (a.dec > 1 => j = a.scan)
    PROVE  AdcInv(ArmNext(a, delay))
  <1> DEFINE b == [a EXCEPT !.due = delay, !.state = "scheduled"]
  <1>1. b \in AdcState
    <2>1. delay \in Int /\ "scheduled" \in ConversionStates
      BY DEF ConversionStates
    <2> QED
      BY <2>1 DEF AdcState
  <1>2. /\ b.due = delay /\ b.state = "scheduled" /\ b.event = a.event /\ b.hz = a.hz
        /\ b.suspended = a.suspended /\ b.steady = a.steady /\ b.rank = a.rank /\ b.length = a.length
        /\ b.elapsed = a.elapsed /\ b.dec = a.dec /\ b.scan = a.scan
        /\ b.level = a.level /\ b.ie = a.ie /\ b.flags = a.flags /\ b.observed = a.observed
        /\ b.continuous = a.continuous /\ b.skip = a.skip
        /\ b.taken = a.taken /\ b.lastRank = a.lastRank /\ b.lastAt = a.lastAt
    BY DEF AdcState
  <1>3. ArmNext(a, delay) = Refresh(b)
    BY DEF ArmNext
  <1> HIDE DEF b
  <1>4. AdcWired(b)
    BY <1>2 DEF AdcWired, Gap, Lazy
  <1>5. \A j, r : EndsAt(b, j, r) = EndsAt(a, j, r)
    BY <1>2 DEF EndsAt
  <1>6. AdcTimed(b)
    <2>1. SUFFICES ASSUME b.steady PROVE b.rank < b.length /\ AdcOnTime(b) /\ AdcSkips(b) /\ AdcKept(b)
      BY DEF AdcTimed
    <2>2. a.steady
      BY <1>2, <2>1
    <2>3. AdcSkips(b)
      BY <1>2, <2>2 DEF AdcSkips
    <2>4. AdcKept(b)
      BY <1>2, <1>5, <2>2 DEF AdcKept
    <2>5. AdcOnTime(b)
      <3>1. PICK j \in Nat : a.elapsed + delay = EndsAt(a, j, a.rank) /\ (a.dec > 1 => j = a.scan)
        BY <2>2
      <3>2. b.elapsed + b.due = EndsAt(b, j, b.rank) /\ (b.dec > 1 => j = b.scan)
        BY <1>2, <1>5, <3>1
      <3> QED
        BY <1>2, <3>2 DEF AdcOnTime
    <2> QED
      BY <1>2, <2>2, <2>3, <2>4, <2>5
  <1> QED
    BY <1>1, <1>2, <1>3, <1>4, <1>6, RefreshArms

(* An engine at rest.                                                      *)
AtRest(a) ==
    /\ a \in AdcState /\ AdcWired(a) /\ a.state = "idle" /\ a.due = NoDeadline /\ a.event = NoDeadline
    /\ a.suspended = 0

LEMMA RestIsSound ==
    ASSUME NEW a, AtRest(a), a.steady => a.rank < a.length /\ AdcSkips(a) /\ AdcKept(a)
    PROVE  AdcInv(a)
  <1>1. AdcArmed(a)
    BY DEF AtRest, AdcArmed, Deadlined, Suspended
  <1>2. AdcOnTime(a)
    BY DEF AtRest, AdcOnTime
  <1>3. AdcEligible(a)
    BY DEF AtRest, AdcEligible, Lazy
  <1> QED
    BY <1>1, <1>2, <1>3 DEF AtRest, AdcInv, AdcSane, AdcTimed

(* beginNextScan, when scan number j of the hardware begins.               *)
LEMMA NextScanKeeps ==
    ASSUME NEW a, AtRest(a),
           a.steady => /\ a.hz # 0 /\ AdcKept(a)
                       /\ \E j \in Nat : a.elapsed = j * ScanTime(a) /\ (a.dec > 1 => j = a.scan)
    PROVE  AdcInv(BeginNextScan(a))
  <1>1. a \in AdcState /\ AdcWired(a)
    BY DEF AtRest
  <1>2. a.hz \in Nat /\ a.dec \in Nat \ {0} /\ a.scan \in Nat /\ a.elapsed \in Nat
        /\ a.length \in Nat \ {0} /\ a.length \in 1..Cardinality(Ranks)
    BY <1>1, AdcNumbers
  <1>3. 0 \in Ranks
    BY AdcAssumption DEF Ranks
  <1> DEFINE next == [a EXCEPT !.rank = 0]
             Base(b) == /\ b.length = a.length /\ b.hz = a.hz /\ b.continuous = a.continuous /\ b.dec = a.dec
                        /\ b.elapsed = a.elapsed /\ b.scan = a.scan /\ b.rank = 0 /\ b.steady = a.steady
                        /\ b.lastAt = a.lastAt /\ b.lastRank = a.lastRank /\ b.taken = a.taken
  <1>4. ASSUME NEW b, Base(b)
        PROVE  b.steady => b.rank < b.length /\ AdcSkips(b) /\ AdcKept(b)
    <2>1. SUFFICES ASSUME b.steady PROVE b.rank < b.length /\ AdcSkips(b) /\ AdcKept(b)
      OBVIOUS
    <2>2. AdcKept(a)
      BY <1>4, <2>1
    <2>3. \A j, r : EndsAt(b, j, r) = EndsAt(a, j, r)
      BY <1>4 DEF EndsAt
    <2>4. AdcKept(b)
      BY <1>4, <2>2, <2>3 DEF AdcKept
    <2>5. b.rank < b.length
      BY <1>2, <1>4
    <2>6. AdcSkips(b)
      BY <1>4 DEF AdcSkips
    <2> QED
      BY <2>4, <2>5, <2>6
  <1>5. CASE ~a.continuous \/ ~a.adstart
    <2> DEFINE b == [next EXCEPT !.adstart = FALSE, !.state = "idle"]
    <2>1. BeginNextScan(a) = b
      BY <1>5 DEF BeginNextScan
    <2>2. b \in AdcState
      BY <1>1, <1>3 DEF AdcState, ConversionStates
    <2>3. Base(b) /\ b.state = "idle" /\ b.due = a.due /\ b.event = a.event /\ b.suspended = a.suspended
          /\ b.level = a.level /\ b.ie = a.ie /\ b.flags = a.flags /\ b.observed = a.observed
      BY <1>1 DEF AdcState
    <2> HIDE DEF b
    <2>4. AdcWired(b)
      BY <1>1, <2>3 DEF AdcWired, Gap, Lazy
    <2>5. AtRest(b)
      BY <2>2, <2>3, <2>4 DEF AtRest
    <2> QED
      BY <1>4, <2>1, <2>3, <2>5, RestIsSound
  <1>6. CASE ~(~a.continuous \/ ~a.adstart) /\ a.hz = 0
    <2> DEFINE b == [next EXCEPT !.state = "idle"]
    <2>1. BeginNextScan(a) = b
      BY <1>6 DEF BeginNextScan
    <2>2. b \in AdcState
      BY <1>1, <1>3 DEF AdcState, ConversionStates
    <2>3. Base(b) /\ b.state = "idle" /\ b.due = a.due /\ b.event = a.event /\ b.suspended = a.suspended
          /\ b.level = a.level /\ b.ie = a.ie /\ b.flags = a.flags /\ b.observed = a.observed
      BY <1>1 DEF AdcState
    <2> HIDE DEF b
    <2>4. AdcWired(b)
      BY <1>1, <2>3 DEF AdcWired, Gap, Lazy
    <2>5. AtRest(b)
      BY <2>2, <2>3, <2>4 DEF AtRest
    <2> QED
      BY <1>4, <2>1, <2>3, <2>5, RestIsSound
  <1>7. CASE ~(~a.continuous \/ ~a.adstart) /\ a.hz # 0 /\ a.scan % a.dec # 0
    <2>1. PICK T \in Nat \ {0} : T = ScanTime(a)
      BY <1>2, <1>7, ScanTimes DEF ScanTime
    <2>2. PICK count \in Nat \ {0} : count = a.dec - (a.scan % a.dec)
      <3>1. a.scan % a.dec \in 0..(a.dec - 1)
        BY <1>2, RemainderBounds
      <3> QED
        BY <1>2, <3>1
    <2>3. a.dec > 1
      <3>1. a.dec = 1 => a.scan % a.dec = 0
        <4>1. a.scan % a.dec \in 0..(a.dec - 1)
          BY <1>2, RemainderBounds
        <4> QED
          BY <4>1
      <3> QED
        BY <1>2, <1>7, <3>1
    <2>4. PICK wait \in Nat : wait = count * T
      BY SMT
    <2> DEFINE b == [next EXCEPT !.skip = TRUE]
               c == [b EXCEPT !.due = wait, !.state = "skipped_gap", !.skipped = count]
    <2>5. b.hz = a.hz /\ b.length = a.length
      BY <1>1 DEF AdcState
    <2>6. ArmSkippedScans(b, count) = Refresh(c)
      BY <2>1, <2>4, <2>5 DEF ArmSkippedScans, ScanTime
    <2>7. BeginNextScan(a) = Refresh(c)
      BY <1>7, <2>2, <2>6 DEF BeginNextScan
    <2>8. c \in AdcState
      <3>1. wait \in Int /\ count \in Nat /\ "skipped_gap" \in ConversionStates
        BY DEF ConversionStates
      <3> QED
        BY <1>1, <1>3, <3>1 DEF AdcState
    <2>9. /\ Base(c) /\ c.state = "skipped_gap" /\ c.due = wait /\ c.event = a.event /\ c.suspended = a.suspended
          /\ c.level = a.level /\ c.ie = a.ie /\ c.flags = a.flags /\ c.observed = a.observed
          /\ c.skipped = count
      BY <1>1 DEF AdcState
    <2> HIDE DEF b, c
    <2>10. AdcWired(c)
      BY <1>1, <2>3, <2>9 DEF AdcWired, Gap, Lazy
    <2>11. AdcOnTime(c) \/ ~c.steady
      <3>1. SUFFICES ASSUME c.steady PROVE AdcOnTime(c)
        OBVIOUS
      <3>2. a.elapsed = a.scan * T
        BY <2>1, <2>3, <2>9, <3>1
      <3>3. ScanTime(c) = T
        BY <2>1, <2>9 DEF ScanTime
      <3>4. a.scan * T + wait = (a.scan + count) * T
        BY <1>2, <2>4, SMT
      <3>5. c.elapsed + c.due = (c.scan + c.skipped) * ScanTime(c)
        BY <2>9, <3>2, <3>3, <3>4
      <3> QED
        BY <2>9, <3>5 DEF AdcOnTime
    <2>12. AdcTimed(c)
      BY <1>4, <2>9, <2>11 DEF AdcTimed
    <2>13. c.hz # 0 /\ c.suspended = 0 /\ c.event = NoDeadline
      BY <1>7, <2>9 DEF AtRest
    <2> QED
      BY <2>7, <2>8, <2>9, <2>10, <2>12, <2>13, RefreshArms
  <1>8. CASE ~(~a.continuous \/ ~a.adstart) /\ a.hz # 0 /\ ~(a.scan % a.dec # 0)
    <2> DEFINE b == [next EXCEPT !.skip = FALSE]
    <2>1. PICK delay \in Nat : delay = DelayForRank(a.hz, 0)
      BY <1>2, <1>3, <1>8, DelayTyped
    <2>2. BeginNextScan(a) = ArmNext(b, delay)
      BY <1>8, <2>1 DEF BeginNextScan
    <2>3. b \in AdcState
      BY <1>1, <1>3 DEF AdcState
    <2>4. /\ Base(b) /\ b.state = a.state /\ b.due = a.due /\ b.event = a.event /\ b.suspended = a.suspended
          /\ b.level = a.level /\ b.ie = a.ie /\ b.flags = a.flags /\ b.observed = a.observed
      BY <1>1 DEF AdcState
    <2> HIDE DEF b
    <2>5. AdcWired(b)
      BY <1>1, <2>4 DEF AdcWired
    <2>6. ASSUME b.steady
          PROVE  \E j \in Nat : b.elapsed + delay = EndsAt(b, j, b.rank) /\ (b.dec > 1 => j = b.scan)
      <3>1. PICK j \in Nat : a.elapsed = j * ScanTime(a) /\ (a.dec > 1 => j = a.scan)
        BY <2>4, <2>6
      <3>2. EndsAt(b, j, b.rank) = j * ScanTime(a) + DelaySum(a.hz, a.length)[1]
        BY <2>4 DEF EndsAt, ScanTime
      <3>3. DelaySum(a.hz, a.length)[1] = delay
        BY <1>2, <1>8, <2>1, ScanTimes
      <3> QED
        BY <2>4, <3>1, <3>2, <3>3
    <2>7. b.hz # 0 /\ b.event = NoDeadline /\ b.suspended = 0
      BY <1>8, <2>4 DEF AtRest
    <2>8. b.steady => b.rank < b.length /\ AdcSkips(b) /\ AdcKept(b)
      BY <1>4, <2>4
    <2> QED
      BY <2>2, <2>3, <2>5, <2>6, <2>7, <2>8, ArmNextKeeps
  <1> QED
    BY <1>5, <1>6, <1>7, <1>8

(* A conversion takes effect: what changes.                                *)
Took(a, b, ago) ==
    /\ b \in AdcState /\ (b.level <=> b.ie \cap b.flags # {})
    /\ b.lastAt = a.elapsed - ago /\ b.lastRank = a.rank /\ b.taken > 0
    /\ b.adstart = a.adstart /\ b.continuous = a.continuous /\ b.length = a.length /\ b.ie = a.ie
    /\ b.hz = a.hz /\ b.dec = a.dec /\ b.observed = a.observed /\ b.held = a.held
    /\ b.state = a.state /\ b.due = a.due /\ b.event = a.event /\ b.rank = a.rank /\ b.scan = a.scan
    /\ b.skip = a.skip /\ b.suspended = a.suspended /\ b.skipped = a.skipped
    /\ b.elapsed = a.elapsed /\ b.steady = a.steady

LEMMA MaterializeTakes ==
    ASSUME NEW a \in AdcState, NEW ago \in Nat
    PROVE  Took(a, Materialize(a, ago), ago)
  <1> DEFINE all == a.flags \cup {"eoc"} \cup (IF a.rank + 1 >= a.length THEN {"eos"} ELSE {})
             left == all \ (IF a.observed THEN {"eoc"} ELSE {})
             c == [a EXCEPT !.flags = left, !.lastAt = a.elapsed - ago, !.lastRank = a.rank,
                            !.taken = a.taken + 1]
             lv == c.ie \cap c.flags # {}
             b == [c EXCEPT !.level = lv]
  <1>1. left \in SUBSET {"eoc", "eos"}
    BY DEF AdcState
  <1>2. a.elapsed - ago \in Int /\ a.rank \in Nat /\ a.taken + 1 \in Nat /\ a.taken + 1 > 0
    BY AdcNumbers
  <1>3. Materialize(a, ago) = b
    BY DEF Materialize, AdcLevel
  <1> HIDE DEF left
  <1>4. c \in AdcState
    BY <1>1, <1>2 DEF AdcState
  <1>5. /\ c.lastAt = a.elapsed - ago /\ c.lastRank = a.rank /\ c.taken > 0
        /\ c.adstart = a.adstart /\ c.continuous = a.continuous /\ c.length = a.length /\ c.ie = a.ie
        /\ c.hz = a.hz /\ c.dec = a.dec /\ c.observed = a.observed /\ c.held = a.held
        /\ c.state = a.state /\ c.due = a.due /\ c.event = a.event /\ c.rank = a.rank /\ c.scan = a.scan
        /\ c.skip = a.skip /\ c.suspended = a.suspended /\ c.skipped = a.skipped
        /\ c.elapsed = a.elapsed /\ c.steady = a.steady
    BY <1>2 DEF AdcState
  <1> HIDE DEF c
  <1>6. lv \in BOOLEAN
    OBVIOUS
  <1>7. b \in AdcState
    BY <1>4, <1>6 DEF AdcState
  <1>8. /\ b.lastAt = c.lastAt /\ b.lastRank = c.lastRank /\ b.taken = c.taken
        /\ b.adstart = c.adstart /\ b.continuous = c.continuous /\ b.length = c.length /\ b.ie = c.ie
        /\ b.hz = c.hz /\ b.dec = c.dec /\ b.observed = c.observed /\ b.held = c.held
        /\ b.state = c.state /\ b.due = c.due /\ b.event = c.event /\ b.rank = c.rank /\ b.scan = c.scan
        /\ b.skip = c.skip /\ b.suspended = c.suspended /\ b.skipped = c.skipped
        /\ b.elapsed = c.elapsed /\ b.steady = c.steady /\ b.flags = c.flags
    BY <1>4 DEF AdcState
  <1>9. b.level = lv
    BY <1>4 DEF AdcState
  <1> HIDE DEF b
  <1>10. b.level <=> b.ie \cap b.flags # {}
    BY <1>8, <1>9
  <1> QED
    BY <1>3, <1>5, <1>7, <1>8, <1>10 DEF Took

LEMMA ModOne ==
    ASSUME NEW n \in Nat
    PROVE  n % 1 = 0
  <1>1. n % 1 \in 0..(1 - 1)
    BY RemainderBounds
  <1> QED
    BY <1>1

(* completeConversion of a conversion that is over now.                    *)
LEMMA ConversionCompletes ==
    ASSUME NEW a, AtRest(a), a.hz # 0,
           a.steady => /\ a.rank < a.length /\ AdcSkips(a) /\ AdcKept(a)
                       /\ \E j \in Nat : a.elapsed = EndsAt(a, j, a.rank) /\ (a.dec > 1 => j = a.scan)
    PROVE  AdcInv(CompleteConversion(a))
  <1>1. a \in AdcState /\ AdcWired(a)
    BY DEF AtRest
  <1>2. a.hz \in Nat \ {0} /\ a.dec \in Nat \ {0} /\ a.scan \in Nat /\ a.elapsed \in Nat
        /\ a.length \in Nat \ {0} /\ a.length \in 1..Cardinality(Ranks) /\ a.rank \in Nat
    BY <1>1, AdcNumbers
  <1> DEFINE skip == IF a.continuous /\ a.dec > 1 /\ a.rank = 0 THEN a.scan % a.dec # 0 ELSE a.skip
             keep == ~(a.continuous /\ a.dec > 1 /\ skip)
             b == [a EXCEPT !.skip = skip]
             done == IF keep THEN Materialize(b, 0) ELSE b
             Base(c) == /\ c.adstart = a.adstart /\ c.length = a.length /\ c.hz = a.hz
                        /\ c.continuous = a.continuous /\ c.dec = a.dec /\ c.observed = a.observed
                        /\ c.elapsed = a.elapsed /\ c.steady = a.steady /\ c.state = a.state
                        /\ c.due = a.due /\ c.event = a.event /\ c.suspended = a.suspended
                        /\ c.ie = a.ie
  <1>3. skip \in BOOLEAN
    <2>1. a.skip \in BOOLEAN
      BY <1>1 DEF AdcState
    <2> QED
      BY <2>1
  <1>4. a.steady /\ a.continuous /\ a.dec > 1 => (skip <=> a.scan % a.dec # 0)
    <2>1. CASE a.rank = 0
      BY <2>1
    <2>2. CASE a.rank # 0
      <3>1. a.rank > 0
        BY <1>2, <2>2
      <3> QED
        BY <2>2, <3>1 DEF AdcSkips
    <2> QED
      BY <2>1, <2>2
  <1>5. PICK sk \in BOOLEAN : sk = skip
    BY <1>3
  <1> HIDE DEF skip
  <1>6. b \in AdcState
    BY <1>1, <1>5 DEF AdcState
  <1>7. /\ Base(b) /\ b.level = a.level /\ b.flags = a.flags /\ b.rank = a.rank /\ b.scan = a.scan
        /\ b.taken = a.taken /\ b.lastAt = a.lastAt /\ b.lastRank = a.lastRank
    BY <1>1 DEF AdcState
  <1>8. b.skip = skip
    BY <1>1, <1>5 DEF AdcState
  <1> HIDE DEF b
  <1>9. /\ done \in AdcState /\ Base(done) /\ done.rank = a.rank /\ done.scan = a.scan
        /\ done.skip = skip /\ (done.level <=> done.ie \cap done.flags # {})
    <2>1. CASE keep
      <3>1. Took(b, Materialize(b, 0), 0)
        BY <1>6, MaterializeTakes
      <3> QED
        BY <1>7, <1>8, <2>1, <3>1 DEF Took
    <2>2. CASE ~keep
      BY <1>1, <1>6, <1>7, <1>8, <2>2 DEF AdcWired
    <2> QED
      BY <2>1, <2>2
  <1>10. ASSUME a.steady PROVE AdcKept(done)
    <2>1. CASE keep
      <3>1. Took(b, Materialize(b, 0), 0)
        BY <1>6, MaterializeTakes
      <3>2. PICK j \in Nat : a.elapsed = EndsAt(a, j, a.rank) /\ (a.dec > 1 => j = a.scan)
        BY <1>10
      <3>3. EndsAt(done, j, done.lastRank) = a.elapsed /\ done.lastAt = a.elapsed /\ done.lastRank = a.rank
        <4>1. done.lastRank = a.rank /\ done.lastAt = a.elapsed - 0
          BY <1>7, <2>1, <3>1 DEF Took
        <4>2. EndsAt(done, j, a.rank) = EndsAt(a, j, a.rank)
          BY <1>9 DEF EndsAt
        <4> QED
          BY <1>2, <3>2, <4>1, <4>2
      <3>4. j % a.dec = 0 \/ ~a.continuous
        <4>1. CASE a.dec = 1
          BY <4>1, ModOne
        <4>2. CASE a.dec # 1 /\ a.continuous
          <5>1. a.dec > 1 /\ j = a.scan
            BY <1>2, <3>2, <4>2
          <5>2. ~skip
            BY <2>1, <4>2, <5>1
          <5> QED
            BY <1>4, <1>10, <4>2, <5>1, <5>2
        <4> QED
          BY <4>1, <4>2
      <3>5. done.hz # 0 /\ done.lastRank < done.length /\ done.lastAt <= done.elapsed
            /\ done.dec = a.dec /\ done.continuous = a.continuous
        BY <1>2, <1>9, <1>10, <3>3
      <3> HIDE DEF done
      <3> QED
        BY <3>3, <3>4, <3>5 DEF AdcKept
    <2>2. CASE ~keep
      <3>1. done = b
        BY <2>2
      <3>2. AdcKept(a)
        BY <1>10
      <3>3. \A j, r : EndsAt(b, j, r) = EndsAt(a, j, r)
        BY <1>7 DEF EndsAt
      <3> QED
        BY <1>7, <3>1, <3>2, <3>3 DEF AdcKept
    <2> QED
      BY <2>1, <2>2
  <1> HIDE DEF done
  <1>11. CASE a.rank + 1 >= a.length
    <2> DEFINE c == [done EXCEPT !.scan = done.scan + 1]
    <2>1. CompleteConversion(a) = BeginNextScan(c)
      BY <1>11 DEF CompleteConversion, done, b, skip
    <2>2. c \in AdcState
      <3>1. done.scan + 1 \in Nat
        BY <1>2, <1>9
      <3> QED
        BY <1>9, <3>1 DEF AdcState
    <2>3. /\ Base(c) /\ c.scan = a.scan + 1 /\ c.level = done.level /\ c.flags = done.flags
          /\ c.taken = done.taken /\ c.lastRank = done.lastRank /\ c.lastAt = done.lastAt
      BY <1>9 DEF AdcState
    <2> HIDE DEF c
    <2>4. AtRest(c)
      <3>1. AdcWired(c)
        BY <1>1, <1>9, <2>3 DEF AdcWired
      <3> QED
        BY <2>2, <2>3, <3>1 DEF AtRest
    <2>5. ASSUME c.steady
          PROVE  /\ c.hz # 0 /\ AdcKept(c)
                 /\ \E j \in Nat : c.elapsed = j * ScanTime(c) /\ (c.dec > 1 => j = c.scan)
      <3>1. AdcKept(done)
        BY <1>10, <2>3, <2>5
      <3>2. \A j, r : EndsAt(c, j, r) = EndsAt(done, j, r)
        BY <1>9, <2>3 DEF EndsAt
      <3>3. AdcKept(c)
        BY <1>9, <2>3, <3>1, <3>2 DEF AdcKept
      <3>4. PICK j \in Nat : a.elapsed = EndsAt(a, j, a.rank) /\ (a.dec > 1 => j = a.scan)
        BY <2>3, <2>5
      <3>5. PICK T \in Nat \ {0} : T = ScanTime(a)
        BY <1>2, ScanTimes DEF ScanTime
      <3>6. a.rank + 1 = a.length
        BY <1>2, <1>11, <2>3, <2>5
      <3>7. EndsAt(a, j, a.rank) = j * T + T
        BY <3>5, <3>6 DEF EndsAt, ScanTime
      <3>8. j * T + T = (j + 1) * T
        BY SMT
      <3>9. c.elapsed = (j + 1) * ScanTime(c) /\ (c.dec > 1 => j + 1 = c.scan)
        <4>1. ScanTime(c) = T
          BY <2>3, <3>5 DEF ScanTime
        <4> QED
          BY <2>3, <3>4, <3>7, <3>8, <4>1
      <3>10. j + 1 \in Nat
        OBVIOUS
      <3> QED
        BY <2>3, <3>3, <3>9, <3>10
    <2> QED
      BY <2>1, <2>4, <2>5, NextScanKeeps
  <1>12. CASE ~(a.rank + 1 >= a.length)
    <2> DEFINE c == [done EXCEPT !.rank = done.rank + 1]
    <2>0. a.rank + 1 < a.length /\ a.rank + 1 \in 0..(a.length - 1) /\ a.rank \in 0..(a.length - 1)
      BY <1>2, <1>12
    <2>1. a.rank + 1 \in Ranks
      BY <1>2, <2>0, RanksOf
    <2>2. c \in AdcState
      BY <1>9, <2>1 DEF AdcState
    <2>3. /\ Base(c) /\ c.rank = a.rank + 1 /\ c.scan = a.scan /\ c.skip = skip
          /\ c.level = done.level /\ c.flags = done.flags
          /\ c.taken = done.taken /\ c.lastRank = done.lastRank /\ c.lastAt = done.lastAt
      BY <1>9 DEF AdcState
    <2>4. CompleteConversion(a) = IF a.hz # 0 /\ a.adstart THEN ArmNext(c, DelayForRank(a.hz, c.rank)) ELSE c
      BY <1>12 DEF CompleteConversion, done, b, skip
    <2> HIDE DEF c
    <2>5. AtRest(c)
      <3>1. AdcWired(c)
        BY <1>1, <1>9, <2>3 DEF AdcWired
      <3> QED
        BY <2>2, <2>3, <3>1 DEF AtRest
    <2>6. ASSUME c.steady PROVE c.rank < c.length /\ AdcSkips(c) /\ AdcKept(c)
      <3>1. AdcKept(done)
        BY <1>10, <2>3, <2>6
      <3>2. \A j, r : EndsAt(c, j, r) = EndsAt(done, j, r)
        BY <1>9, <2>3 DEF EndsAt
      <3>3. AdcKept(c)
        BY <1>9, <2>3, <3>1, <3>2 DEF AdcKept
      <3>4. AdcSkips(c)
        BY <1>4, <2>3, <2>6 DEF AdcSkips
      <3> QED
        BY <2>0, <2>3, <3>3, <3>4
    <2>7. CASE ~(a.hz # 0 /\ a.adstart)
      BY <2>4, <2>5, <2>6, <2>7, RestIsSound
    <2>8. CASE a.hz # 0 /\ a.adstart
      <3>1. PICK delay \in Nat : delay = DelayForRank(a.hz, a.rank + 1)
        BY <1>2, <2>1, DelayTyped
      <3>2. CompleteConversion(a) = ArmNext(c, delay)
        BY <2>3, <2>4, <2>8, <3>1
      <3>3. ASSUME c.steady
            PROVE  \E j \in Nat : c.elapsed + delay = EndsAt(c, j, c.rank) /\ (c.dec > 1 => j = c.scan)
        <4>1. PICK j \in Nat : a.elapsed = EndsAt(a, j, a.rank) /\ (a.dec > 1 => j = a.scan)
          BY <2>3, <3>3
        <4>2. PICK T \in Nat \ {0} : T = DelaySum(a.hz, a.length)[a.length]
          BY <1>2, ScanTimes
        <4>3. PICK x \in Nat : x = DelaySum(a.hz, a.length)[a.rank + 1]
          BY <1>2, <2>0, ScanTimes
        <4>4. DelaySum(a.hz, a.length)[a.rank + 2] = x + delay
          BY <1>2, <2>0, <3>1, <4>3, ScanTimes
        <4>5. EndsAt(a, j, a.rank) = j * T + x
          BY <4>2, <4>3 DEF EndsAt
        <4>6. EndsAt(c, j, c.rank) = j * T + (x + delay)
          <5>1. c.rank + 1 = a.rank + 2
            BY <1>2, <2>3
          <5> QED
            BY <2>3, <4>2, <4>4, <5>1 DEF EndsAt
        <4>7. j * T \in Nat
          BY SMT
        <4> QED
          BY <2>3, <4>1, <4>5, <4>6, <4>7
      <3>4. c \in AdcState /\ AdcWired(c) /\ c.event = NoDeadline /\ c.hz # 0 /\ c.suspended = 0
        BY <2>3, <2>5, <2>8 DEF AtRest
      <3> QED
        BY <2>6, <3>2, <3>3, <3>4, ArmNextKeeps
    <2> QED
      BY <2>7, <2>8
  <1> QED
    BY <1>11, <1>12

(* completeSkippedScans of a gap that is over now.                         *)
LEMMA GapCompletes ==
    ASSUME NEW a, AtRest(a),
           a.steady => /\ a.hz # 0 /\ AdcKept(a) /\ a.elapsed = (a.scan + a.skipped) * ScanTime(a)
    PROVE  AdcInv(CompleteSkippedScans(a))
  <1>1. a \in AdcState /\ AdcWired(a)
    BY DEF AtRest
  <1> DEFINE n == a.scan + a.skipped
             b == [a EXCEPT !.state = "idle", !.skipped = 0, !.rank = 0, !.scan = n]
  <1>2. n \in Nat /\ 0 \in Ranks /\ "idle" \in ConversionStates
    BY <1>1, AdcNumbers, AdcAssumption DEF Ranks, ConversionStates
  <1>3. CompleteSkippedScans(a) = BeginNextScan(b)
    BY DEF CompleteSkippedScans
  <1>4. b \in AdcState
    <2> HIDE DEF n
    <2> QED
      BY <1>1, <1>2 DEF AdcState
  <1>5. /\ b.length = a.length /\ b.hz = a.hz /\ b.continuous = a.continuous /\ b.dec = a.dec
        /\ b.elapsed = a.elapsed /\ b.steady = a.steady /\ b.state = "idle" /\ b.due = a.due
        /\ b.event = a.event /\ b.suspended = a.suspended /\ b.scan = n /\ b.observed = a.observed
        /\ b.ie = a.ie /\ b.flags = a.flags /\ b.level = a.level
        /\ b.taken = a.taken /\ b.lastRank = a.lastRank /\ b.lastAt = a.lastAt
    <2> HIDE DEF n
    <2> QED
      BY <1>1 DEF AdcState
  <1> HIDE DEF b
  <1>6. AtRest(b)
    <2>1. AdcWired(b)
      BY <1>1, <1>5 DEF AdcWired, AtRest
    <2> QED
      BY <1>4, <1>5, <2>1 DEF AtRest
  <1>7. ASSUME b.steady
        PROVE  /\ b.hz # 0 /\ AdcKept(b)
               /\ \E j \in Nat : b.elapsed = j * ScanTime(b) /\ (b.dec > 1 => j = b.scan)
    <2>1. \A j, r : EndsAt(b, j, r) = EndsAt(a, j, r)
      BY <1>5 DEF EndsAt
    <2>2. AdcKept(b)
      BY <1>5, <1>7, <2>1 DEF AdcKept
    <2>3. b.elapsed = n * ScanTime(b)
      BY <1>5, <1>7 DEF ScanTime
    <2> HIDE DEF n
    <2> QED
      BY <1>2, <1>5, <1>7, <2>2, <2>3
  <1> QED
    BY <1>3, <1>6, <1>7, NextScanKeeps

-----------------------------------------------------------------------------
(* Register accesses. *)

(* synchronizeLazyConversions leaves a deadline that is not over.          *)
Synced(a, s) ==
    /\ AdcInv(s) /\ s.state = a.state /\ s.event = a.event /\ s.hz = a.hz /\ s.dec = a.dec
    /\ s.steady = a.steady
    /\ s.due = NoDeadline \/ s.due >= 0
    /\ s.due # NoDeadline /\ s.event # 0 => s.due > 0

LEMMA SynchronizeKeeps ==
    ASSUME NEW a, AdcInv(a)
    PROVE  Synced(a, Synchronize(a))
  <1>1. a \in AdcState /\ AdcWired(a) /\ AdcArmed(a) /\ AdcTimed(a) /\ AdcEligible(a)
    BY DEF AdcInv, AdcSane
  <1>2. a.state # "lazy_gap"
    BY <1>1 DEF AdcWired, Gap, Lazy
  <1>3. a.due \in Int /\ a.elapsed \in Nat /\ a.dec \in Nat \ {0}
    BY <1>1, AdcNumbers
  <1>4. CASE ~Lazy(a.state) \/ a.due = NoDeadline \/ a.due > 0
    <2>1. Synchronize(a) = a
      BY <1>4 DEF Synchronize
    <2>2. a.due # NoDeadline => a.due > 0 \/ a.event = a.due
      <3>1. a.due # NoDeadline /\ ~Lazy(a.state) => a.state \in {"scheduled", "skipped_gap"}
        BY <1>1 DEF AdcArmed, Deadlined, Lazy
      <3> QED
        BY <1>1, <1>4, <3>1 DEF AdcArmed
    <2>3. a.due # NoDeadline => a.due >= 0
      BY <1>1, <1>3, <2>2 DEF AdcArmed
    <2> QED
      BY <1>3, <2>1, <2>2, <2>3 DEF Synced
  <1>5. CASE ~(~Lazy(a.state) \/ a.due = NoDeadline \/ a.due > 0)
    <2>1. a.state = "lazy" /\ a.length = 1 /\ a.dec = 1 /\ a.hz # 0 /\ a.event = NoDeadline
      BY <1>1, <1>2, <1>5 DEF Lazy, AdcWired, AdcArmed
    <2>2. a.hz \in Nat \ {0} /\ a.length \in 1..Cardinality(Ranks)
      BY <1>1, <2>1, AdcNumbers
    <2>3. 0 \in Ranks
      BY AdcAssumption DEF Ranks
    <2>4. PICK delay \in Nat \ {0} : delay = DelayForRank(a.hz, 0)
      BY <2>2, <2>3, DelayTyped
    <2>5. PICK over \in Nat : over = 0 - a.due
      BY <1>3, <1>5
    <2>6. PICK q \in Nat, late \in 0..(delay - 1) : late = over % delay /\ over = q * delay + late
      BY DivMod
    <2> DEFINE m == Materialize(a, late)
               b == [m EXCEPT !.due = delay - late]
    <2>7. Synchronize(a) = b
      BY <1>2, <1>5, <2>4, <2>5, <2>6 DEF Synchronize
    <2>8. Took(a, m, late)
      BY <1>1, <2>6, MaterializeTakes
    <2> HIDE DEF m
    <2>9. m \in AdcState
      BY <2>8 DEF Took
    <2>10. b \in AdcState
      <3>1. delay - late \in Int
        OBVIOUS
      <3> QED
        BY <2>9, <3>1 DEF AdcState
    <2>11. /\ b.due = delay - late /\ b.state = m.state /\ b.event = m.event /\ b.hz = m.hz /\ b.dec = m.dec
           /\ b.steady = m.steady /\ b.length = m.length /\ b.rank = m.rank /\ b.scan = m.scan
           /\ b.continuous = m.continuous /\ b.adstart = m.adstart /\ b.ie = m.ie /\ b.flags = m.flags
           /\ b.level = m.level /\ b.observed = m.observed /\ b.suspended = m.suspended
           /\ b.elapsed = m.elapsed /\ b.lastAt = m.lastAt /\ b.lastRank = m.lastRank /\ b.taken = m.taken
      BY <2>9 DEF AdcState
    <2> HIDE DEF b
    <2>12. /\ b.state = "lazy" /\ b.event = NoDeadline /\ b.hz = a.hz /\ b.dec = 1 /\ b.steady = a.steady
           /\ b.length = 1 /\ b.rank = a.rank /\ b.scan = a.scan /\ b.continuous = a.continuous
           /\ b.adstart = a.adstart /\ b.ie = a.ie /\ b.observed = a.observed
           /\ b.suspended = a.suspended /\ b.elapsed = a.elapsed
           /\ b.lastAt = a.elapsed - late /\ b.lastRank = a.rank
           /\ (b.level <=> b.ie \cap b.flags # {})
      BY <2>1, <2>8, <2>11 DEF Took
    <2>13. b.due \in Nat /\ b.due > 0 /\ b.due # NoDeadline
      BY <2>11, DeadlineApart
    <2>14. AdcWired(b)
      BY <2>12 DEF AdcWired, Gap, Lazy
    <2>15. AdcArmed(b)
      <3>1. b.suspended = 0
        BY <1>1, <2>1, <2>12 DEF AdcArmed, Suspended
      <3>2. b.elapsed + b.due >= 0
        BY <1>3, <2>12, <2>13
      <3> QED
        BY <2>1, <2>12, <2>13, <3>1, <3>2 DEF AdcArmed, Deadlined, Suspended
    <2>16. AdcEligible(b)
      <3>1. LazyEligible(a)
        BY <1>1, <2>1 DEF AdcEligible, Lazy
      <3> QED
        BY <2>1, <2>12, <3>1 DEF AdcEligible, LazyEligible
    <2>17. AdcTimed(b)
      <3>1. SUFFICES ASSUME b.steady PROVE b.rank < b.length /\ AdcOnTime(b) /\ AdcSkips(b) /\ AdcKept(b)
        BY DEF AdcTimed
      <3>2. a.rank < a.length /\ AdcOnTime(a)
        BY <1>1, <2>12, <3>1 DEF AdcTimed
      <3>3. a.rank = 0
        <4>1. a.rank \in Nat
          BY <1>1, AdcNumbers
        <4> QED
          BY <2>1, <3>2, <4>1
      <3>4. PICK j \in Nat : a.elapsed + a.due = EndsAt(a, j, a.rank)
        BY <2>1, <3>2 DEF AdcOnTime
      <3>5. DelaySum(a.hz, 1)[1] = delay
        BY <2>1, <2>2, <2>4, ScanTimes
      <3>6. \A k \in Nat : EndsAt(a, k, 0) = k * delay + delay /\ EndsAt(b, k, 0) = k * delay + delay
        BY <2>1, <2>12, <3>5 DEF EndsAt
      <3>7. a.elapsed - late = (j + q) * delay + delay
        <4>1. a.elapsed - over = j * delay + delay
          BY <1>3, <2>5, <3>3, <3>4, <3>6
        <4>2. (j + q) * delay = j * delay + q * delay /\ j * delay \in Nat /\ q * delay \in Nat
          BY SMT
        <4>3. PICK u \in Nat, v \in Nat, x \in Nat :
                 u = j * delay /\ v = q * delay /\ x = (j + q) * delay /\ x = u + v
          BY <4>2
        <4>4. a.elapsed - over = u + delay /\ over = v + late
          BY <2>6, <4>1, <4>3
        <4>5. a.elapsed - late = x + delay
          BY <1>3, <4>3, <4>4
        <4> QED
          BY <4>3, <4>5
      <3>8. (j + q + 1) * delay = (j + q) * delay + delay
        BY SMT
      <3>9. (j + q) * delay \in Nat
        BY SMT
      <3>10. j + q \in Nat /\ j + q + 1 \in Nat
        OBVIOUS
      <3>11. b.lastAt = EndsAt(b, j + q, b.lastRank)
        BY <2>12, <3>3, <3>6, <3>7, <3>10
      <3>12. b.elapsed + b.due = EndsAt(b, j + q + 1, b.rank)
        <4>1. EndsAt(b, j + q + 1, b.rank) = (j + q + 1) * delay + delay
          BY <2>12, <3>3, <3>6, <3>10
        <4>2. PICK u \in Nat : u = (j + q) * delay
          BY <3>9
        <4> QED
          BY <1>3, <2>11, <2>12, <3>7, <3>8, <4>1, <4>2
      <3>13. AdcOnTime(b)
        BY <2>12, <3>10, <3>12 DEF AdcOnTime
      <3>14. AdcKept(b)
        <4>1. (j + q) % b.dec = 0
          BY <2>12, <3>10, ModOne
        <4>2. b.hz # 0 /\ b.lastRank < b.length /\ b.lastAt <= b.elapsed
          BY <1>3, <2>1, <2>12, <3>3
        <4> QED
          BY <3>10, <3>11, <4>1, <4>2 DEF AdcKept
      <3>15. AdcSkips(b)
        BY <2>12 DEF AdcSkips
      <3> QED
        BY <2>12, <3>3, <3>13, <3>14, <3>15
    <2>18. AdcInv(b)
      BY <2>10, <2>14, <2>15, <2>16, <2>17 DEF AdcInv, AdcSane
    <2> QED
      BY <2>1, <2>7, <2>12, <2>13, <2>18 DEF Synced
  <1> QED
    BY <1>4, <1>5

(* A write that leaves the engine alone.                                   *)
LEMMA AdjustedSane ==
    ASSUME NEW a, AdcSane(a), NEW b \in AdcState, AdcWired(b),
           b.state = a.state, b.due = a.due, b.event = a.event, b.hz = a.hz,
           b.elapsed = a.elapsed, b.suspended = a.suspended,
           b.steady => a.steady /\ SameTimes(a, b)
    PROVE  AdcSane(b)
  <1>1. AdcArmed(b)
    BY DEF AdcSane, AdcArmed
  <1>2. CASE b.steady
    BY <1>1, <1>2, SameTimesKept DEF AdcSane, SameState
  <1>3. CASE ~b.steady
    BY <1>1, <1>3 DEF AdcSane, AdcTimed
  <1> QED
    BY <1>2, <1>3

(* An engine at rest whose sequence was disturbed.                         *)
LEMMA DisturbedRest ==
    ASSUME NEW a, AtRest(a), ~a.steady
    PROVE  AdcInv(a) /\ Refresh(a) = a
  BY RestIsSound, RefreshRests DEF AtRest

LEMMA RefreshDue ==
    ASSUME NEW a \in AdcState
    PROVE  Refresh(a).due = a.due
  BY DEF Refresh, AdcState

(* cancelConversion.                                                       *)
LEMMA CancelRests ==
    ASSUME NEW a, AdcSane(a)
    PROVE  LET b == CancelConversion(a)
           IN  /\ AtRest(b) /\ b.hz = a.hz /\ b.length = a.length /\ b.adstart = a.adstart /\ b.dec = a.dec
               /\ b.observed = a.observed /\ b.ie = a.ie /\ b.flags = a.flags /\ b.level = a.level
  <1>0. PICK none \in Int : none = NoDeadline
    BY DeadlineApart
  <1> DEFINE b == [a EXCEPT !.state = "idle", !.due = none, !.event = none, !.suspended = 0, !.skipped = 0]
  <1>1. a \in AdcState /\ AdcWired(a)
    BY DEF AdcSane
  <1>2. CancelConversion(a) = b
    BY <1>0 DEF CancelConversion
  <1>3. b \in AdcState
    <2>1. "idle" \in ConversionStates
      BY DEF ConversionStates
    <2> QED
      BY <1>1, <2>1 DEF AdcState
  <1>4. /\ b.state = "idle" /\ b.due = none /\ b.event = none /\ b.suspended = 0
        /\ b.hz = a.hz /\ b.length = a.length /\ b.adstart = a.adstart /\ b.dec = a.dec
        /\ b.observed = a.observed /\ b.ie = a.ie /\ b.flags = a.flags /\ b.level = a.level
    BY <1>1 DEF AdcState
  <1> HIDE DEF b
  <1>5. AdcWired(b)
    BY <1>1, <1>4 DEF AdcWired, Gap, Lazy
  <1> QED
    BY <1>0, <1>2, <1>3, <1>4, <1>5 DEF AtRest

(* startConversion.                                                        *)
LEMMA StartKeeps ==
    ASSUME NEW a, AdcSane(a)
    PROVE  AdcInv(Refresh(StartConversion(a)))
  <1> DEFINE c == CancelConversion(a)
             b == [c EXCEPT !.rank = 0, !.scan = 0, !.skip = FALSE,
                            !.elapsed = 0, !.steady = TRUE, !.lastAt = 0, !.lastRank = 0, !.taken = 0]
  <1>1. AtRest(c) /\ c.hz = a.hz
    BY CancelRests
  <1>2. c \in AdcState /\ AdcWired(c)
    BY <1>1 DEF AtRest
  <1> HIDE DEF c
  <1>3. b \in AdcState
    <2>1. PICK first \in Ranks, start \in 0..MaxElapsed : first = 0 /\ start = 0
      BY AdcAssumption DEF Ranks
    <2>2. PICK no \in BOOLEAN, yes \in BOOLEAN : no = FALSE /\ yes = TRUE
      OBVIOUS
    <2>0. PICK zero \in Nat, at \in Int : zero = 0 /\ at = 0
      OBVIOUS
    <2> DEFINE d == [c EXCEPT !.rank = first, !.elapsed = start]
               e == [d EXCEPT !.skip = no, !.steady = yes]
               f == [e EXCEPT !.scan = zero, !.lastAt = at, !.lastRank = zero, !.taken = zero]
    <2>3. d \in AdcState
      BY <1>2 DEF AdcState
    <2>4. b = f
      BY <1>2, <2>0, <2>1, <2>2 DEF AdcState
    <2> HIDE DEF d
    <2>5. e \in AdcState
      BY <2>3 DEF AdcState
    <2> HIDE DEF e
    <2>6. f \in AdcState
      BY <2>5 DEF AdcState
    <2> HIDE DEF f, b
    <2> QED
      BY <2>4, <2>6
  <1>4. /\ b.rank = 0 /\ b.scan = 0 /\ b.elapsed = 0 /\ b.taken = 0 /\ b.hz = c.hz /\ b.length = c.length
        /\ b.state = c.state /\ b.due = c.due /\ b.event = c.event /\ b.suspended = c.suspended
        /\ b.level = c.level /\ b.ie = c.ie /\ b.flags = c.flags /\ b.dec = c.dec /\ b.observed = c.observed
    BY <1>2 DEF AdcState
  <1>5. StartConversion(a) =
           IF a.hz = 0 THEN [b EXCEPT !.suspended = Budget[0], !.state = "suspended"]
           ELSE ArmNext(b, DelayForRank(a.hz, 0))
    BY DEF StartConversion, c
  <1> HIDE DEF b
  <1>6. AdcWired(b)
    BY <1>2, <1>4 DEF AdcWired
  <1>7. b.hz \in Nat /\ b.length \in Nat \ {0} /\ b.length \in 1..Cardinality(Ranks)
    BY <1>3, AdcNumbers
  <1>8. b.rank < b.length /\ AdcSkips(b) /\ AdcKept(b)
    BY <1>4, <1>7 DEF AdcSkips, AdcKept
  <1>9. CASE a.hz = 0
    <2> DEFINE d == [b EXCEPT !.suspended = Budget[0], !.state = "suspended"]
    <2>1. Budget[0] \in Nat \ {0} /\ "suspended" \in ConversionStates
      BY AdcAssumption DEF ConversionStates
    <2>2. d \in AdcState
      BY <1>3, <2>1 DEF AdcState
    <2>3. /\ d.suspended = Budget[0] /\ d.state = "suspended" /\ d.hz = b.hz /\ d.due = b.due
          /\ d.event = b.event /\ d.rank = b.rank /\ d.length = b.length /\ d.taken = b.taken
          /\ d.level = b.level /\ d.ie = b.ie /\ d.flags = b.flags /\ d.dec = b.dec /\ d.observed = b.observed
      BY <1>3, <2>1 DEF AdcState
    <2>4. StartConversion(a) = d
      BY <1>5, <1>9
    <2> HIDE DEF d
    <2>5. d.due = NoDeadline /\ d.event = NoDeadline /\ d.hz = 0
      BY <1>1, <1>4, <1>9, <2>3 DEF AtRest
    <2>6. AdcWired(d)
      BY <1>6, <2>3 DEF AdcWired, Gap, Lazy
    <2>7. AdcArmed(d)
      BY <2>1, <2>3, <2>5 DEF AdcArmed, Deadlined, Suspended
    <2>8. AdcTimed(d)
      BY <1>4, <1>7, <2>3 DEF AdcTimed, AdcOnTime, AdcSkips, AdcKept
    <2>9. AdcInv(d)
      BY <2>2, <2>3, <2>6, <2>7, <2>8 DEF AdcInv, AdcSane, AdcEligible, Lazy
    <2> QED
      BY <2>4, <2>5, <2>9, RefreshRests
  <1>10. CASE a.hz # 0
    <2>1. 0 \in Ranks
      BY AdcAssumption DEF Ranks
    <2>2. a.hz \in Nat \ {0}
      BY <1>1, <1>4, <1>7, <1>10
    <2>3. PICK delay \in Nat \ {0} : delay = DelayForRank(a.hz, 0)
      BY <2>1, <2>2, DelayTyped
    <2>4. StartConversion(a) = ArmNext(b, delay)
      BY <1>5, <1>10, <2>3
    <2>5. b.elapsed + delay = EndsAt(b, 0, b.rank) /\ 0 = b.scan
      <3>1. DelaySum(b.hz, b.length)[1] = delay /\ DelaySum(b.hz, b.length)[b.length] \in Nat
        BY <1>1, <1>4, <1>7, <2>2, <2>3, ScanTimes
      <3>2. 0 * DelaySum(b.hz, b.length)[b.length] = 0
        BY <3>1
      <3> QED
        BY <1>4, <3>1, <3>2 DEF EndsAt
    <2>6. \E j \in Nat : b.elapsed + delay = EndsAt(b, j, b.rank) /\ (b.dec > 1 => j = b.scan)
      BY <2>5
    <2>7. b.event = NoDeadline /\ b.hz # 0 /\ b.suspended = 0
      BY <1>1, <1>4, <1>10 DEF AtRest
    <2>8. AdcInv(ArmNext(b, delay))
      BY <1>3, <1>6, <1>8, <2>6, <2>7, ArmNextKeeps
    <2>9. ArmNext(b, delay).due = delay
      <3> DEFINE d == [b EXCEPT !.due = delay, !.state = "scheduled"]
      <3>1. d \in AdcState /\ d.due = delay
        <4>1. delay \in Int /\ "scheduled" \in ConversionStates
          BY DEF ConversionStates
        <4> QED
          BY <1>3, <4>1 DEF AdcState
      <3>2. ArmNext(b, delay) = Refresh(d)
        BY DEF ArmNext
      <3> HIDE DEF d
      <3> QED
        BY <3>1, <3>2, RefreshDue
    <2> QED
      BY <2>4, <2>8, <2>9, RefreshKeeps DEF AdcInv
  <1> QED
    BY <1>9, <1>10

(* setInputClockHz(0): the remaining work is kept.                         *)
LEMMA StopClockKeeps ==
    ASSUME NEW a, AdcInv(a), ~a.steady, a.hz # 0, 0 \in AdcClocks, a.due = NoDeadline \/ a.due > 0
    PROVE  AdcInv(StopClock(a))
  <1>1. a \in AdcState /\ AdcWired(a) /\ AdcArmed(a)
    BY DEF AdcInv, AdcSane
  <1>2. PICK none \in Int : none = NoDeadline
    BY DeadlineApart
  <1>3. CASE a.due = NoDeadline
    <2> DEFINE b == [a EXCEPT !.event = none, !.hz = 0, !.state = "idle"]
    <2>1. StopClock(a) = b
      BY <1>2, <1>3 DEF StopClock
    <2>2. b \in AdcState
      <3>1. "idle" \in ConversionStates
        BY DEF ConversionStates
      <3> QED
        BY <1>1, <3>1 DEF AdcState
    <2>3. /\ b.event = none /\ b.hz = 0 /\ b.state = "idle" /\ b.due = a.due /\ b.suspended = a.suspended
          /\ b.steady = a.steady /\ b.level = a.level /\ b.ie = a.ie /\ b.flags = a.flags
          /\ b.dec = a.dec /\ b.observed = a.observed
      BY <1>1 DEF AdcState
    <2> HIDE DEF b
    <2>4. b.suspended = 0
      BY <1>1, <2>3 DEF AdcArmed
    <2>5. AtRest(b)
      <3>1. AdcWired(b)
        BY <1>1, <2>3 DEF AdcWired, Gap, Lazy
      <3> QED
        BY <1>2, <1>3, <2>2, <2>3, <2>4, <3>1 DEF AtRest
    <2> QED
      BY <2>1, <2>3, <2>5, DisturbedRest
  <1>4. CASE a.due # NoDeadline
    <2>1. a.due \in Nat /\ a.due >= 1 /\ a.hz \in Nat /\ a.hz >= 1
      BY <1>1, <1>4, AdcNumbers
    <2>2. PICK work \in Nat \ {0} : work = a.due * a.hz
      <3>1. 1 * a.hz <= a.due * a.hz /\ a.due * a.hz \in Nat
        BY <2>1, TimesOrdered
      <3> QED
        BY <2>1, <3>1
    <2>3. PICK s \in {"suspended", "suspended_gap"} :
             s = IF Gap(a.state) THEN "suspended_gap" ELSE "suspended"
      OBVIOUS
    <2> DEFINE b == [a EXCEPT !.event = none, !.due = none, !.hz = 0, !.suspended = work, !.state = s]
    <2>4. StopClock(a) = b
      <3>1. (IF a.due > 0 THEN a.due ELSE 0) = a.due
        BY <2>1
      <3> QED
        BY <1>2, <1>4, <2>2, <2>3, <3>1 DEF StopClock
    <2>5. b \in AdcState
      <3>1. s \in ConversionStates
        BY DEF ConversionStates
      <3> QED
        BY <1>1, <3>1 DEF AdcState
    <2>6. /\ b.event = none /\ b.due = none /\ b.hz = 0 /\ b.suspended = work /\ b.state = s
          /\ b.steady = a.steady /\ b.level = a.level /\ b.ie = a.ie /\ b.flags = a.flags
          /\ b.dec = a.dec /\ b.observed = a.observed
      BY <1>1 DEF AdcState
    <2> HIDE DEF b
    <2>7. AdcWired(b)
      <3>1. Gap(b.state) => Gap(a.state)
        BY <2>3, <2>6 DEF Gap
      <3>2. ~Lazy(b.state)
        BY <2>6 DEF Lazy
      <3> QED
        BY <1>1, <2>6, <3>1, <3>2 DEF AdcWired
    <2>8. AdcArmed(b)
      BY <1>2, <2>6 DEF AdcArmed, Deadlined, Suspended
    <2>9. ~b.steady /\ ~Lazy(b.state)
      BY <2>6 DEF Lazy
    <2> QED
      BY <2>4, <2>5, <2>7, <2>8, <2>9 DEF AdcInv, AdcSane, AdcTimed, AdcEligible
  <1> QED
    BY <1>3, <1>4

(* setInputClockHz: what remains is stretched to the new clock.            *)
LEMMA RunClockKeeps ==
    ASSUME NEW a, AdcInv(a), ~a.steady, a.due = NoDeadline \/ a.due > 0, NEW hz \in AdcClocks, hz # 0
    PROVE  AdcInv(RunClock(a, hz))
  <1>1. a \in AdcState /\ AdcWired(a) /\ AdcArmed(a)
    BY DEF AdcInv, AdcSane
  <1>2. PICK none \in Int : none = NoDeadline
    BY DeadlineApart
  <1>3. hz \in Nat \ {0}
    BY AdcAssumption
  <1>4. CASE a.suspended # 0 \/ a.due # NoDeadline
    <2> DEFINE left == IF a.suspended # 0 THEN a.suspended
                       ELSE IF a.due # NoDeadline THEN (IF a.due > 0 THEN a.due ELSE 0) * a.hz ELSE 0
    <2>1. left \in Nat
      <3>1. a.suspended \in Nat /\ a.hz \in Nat /\ a.due \in Int
        BY <1>1, AdcNumbers
      <3>2. (IF a.due > 0 THEN a.due ELSE 0) \in Nat
        BY <3>1
      <3>3. \A x, y \in Nat : x * y \in Nat
        BY SMT
      <3>4. (IF a.due > 0 THEN a.due ELSE 0) * a.hz \in Nat
        BY <3>1, <3>2, <3>3
      <3> QED
        BY <3>1, <3>4
    <2>2. PICK delay \in Nat \ {0} : delay = Stretched(left, hz)
      <3> HIDE DEF left
      <3> QED
        BY <1>3, <2>1, StretchedTyped
    <2>3. PICK s \in {"scheduled", "skipped_gap"} :
             s = IF Gap(a.state) THEN "skipped_gap" ELSE "scheduled"
      OBVIOUS
    <2> DEFINE b == [a EXCEPT !.due = delay, !.suspended = 0, !.hz = hz, !.event = none, !.state = s]
    <2>4. b \in AdcState
      <3>1. s \in ConversionStates /\ delay \in Int
        BY DEF ConversionStates
      <3> QED
        BY <1>1, <3>1 DEF AdcState
    <2>5. /\ b.due = delay /\ b.suspended = 0 /\ b.hz = hz /\ b.event = none /\ b.state = s
          /\ b.steady = a.steady /\ b.level = a.level /\ b.ie = a.ie /\ b.flags = a.flags
          /\ b.dec = a.dec /\ b.observed = a.observed /\ b.adstart = a.adstart
      BY <1>1 DEF AdcState
    <2>6. b.due # NoDeadline
      BY <2>5, DeadlineApart
    <2>7. RunClock(a, hz) = Refresh(b)
      BY <1>2, <1>4, <2>2, <2>3, <2>6 DEF RunClock
    <2> HIDE DEF b
    <2>8. AdcWired(b)
      <3>1. Gap(b.state) => Gap(a.state)
        BY <2>3, <2>5 DEF Gap
      <3>2. ~Lazy(b.state)
        BY <2>5 DEF Lazy
      <3> QED
        BY <1>1, <2>5, <3>1, <3>2 DEF AdcWired
    <2>9. AdcTimed(b)
      BY <2>5 DEF AdcTimed
    <2> QED
      BY <1>2, <2>4, <2>5, <2>7, <2>8, <2>9, RefreshArms
  <1>5. CASE ~(a.suspended # 0 \/ a.due # NoDeadline)
    <2> DEFINE b == [a EXCEPT !.hz = hz, !.event = none]
    <2>1. b \in AdcState
      BY <1>1 DEF AdcState
    <2>2. /\ b.hz = hz /\ b.event = none /\ b.due = a.due /\ b.suspended = a.suspended /\ b.state = a.state
          /\ b.steady = a.steady /\ b.level = a.level /\ b.ie = a.ie /\ b.flags = a.flags
          /\ b.dec = a.dec /\ b.observed = a.observed /\ b.adstart = a.adstart /\ b.length = a.length
          /\ b.rank = a.rank
      BY <1>1 DEF AdcState
    <2>3. RunClock(a, hz) = IF b.due = NoDeadline /\ b.adstart
                            THEN ArmNext(b, DelayForRank(b.hz, b.rank)) ELSE Refresh(b)
      BY <1>2, <1>5 DEF RunClock
    <2> HIDE DEF b
    <2>4. a.state = "idle"
      <3>1. a.state \notin Deadlined /\ ~Suspended(a.state)
        BY <1>1, <1>5 DEF AdcArmed
      <3>2. a.state \in ConversionStates
        BY <1>1 DEF AdcState
      <3> QED
        BY <3>1, <3>2 DEF ConversionStates, Deadlined, Suspended
    <2>5. AtRest(b)
      <3>1. AdcWired(b)
        BY <1>1, <2>2 DEF AdcWired
      <3> QED
        BY <1>2, <1>5, <2>1, <2>2, <2>4, <3>1 DEF AtRest
    <2>6. CASE b.adstart
      <3>1. b.rank \in Ranks
        BY <2>1 DEF AdcState
      <3>2. PICK delay \in Nat : delay = DelayForRank(b.hz, b.rank)
        BY <1>3, <2>2, <3>1, DelayTyped
      <3>3. RunClock(a, hz) = ArmNext(b, delay)
        BY <2>3, <2>5, <2>6, <3>2 DEF AtRest
      <3>4. AdcWired(b) /\ b.event = NoDeadline /\ b.hz # 0 /\ b.suspended = 0 /\ ~b.steady
        BY <2>2, <2>5 DEF AtRest
      <3> QED
        BY <2>1, <3>3, <3>4, ArmNextKeeps
    <2>7. CASE ~b.adstart
      BY <2>2, <2>3, <2>5, <2>7, DisturbedRest
    <2> QED
      BY <2>6, <2>7
  <1> QED
    BY <1>4, <1>5

LEMMA ResetRests ==
    ASSUME NEW hz \in AdcClocks, NEW dec \in Decimations
    PROVE  LET a == AdcReset(hz, dec) IN AtRest(a) /\ ~a.steady
  <1> DEFINE a == AdcReset(hz, dec)
  <1>0. Cardinality(Ranks) \in Nat /\ Cardinality(Ranks) # 0 /\ 0 \in Ranks
    BY AdcAssumption, FS_CardinalityType, FS_EmptySet DEF Ranks
  <1>1. /\ 1 \in 1..Cardinality(Ranks) /\ 0 \in 0..MaxElapsed /\ (dec > 1) \in BOOLEAN
        /\ "idle" \in ConversionStates /\ NoDeadline \in Int
    BY <1>0, AdcAssumption, DeadlineApart DEF ConversionStates
  <1>2. a \in AdcState
    BY <1>0, <1>1 DEF AdcReset, AdcState
  <1>3. /\ a.state = "idle" /\ a.due = NoDeadline /\ a.event = NoDeadline /\ a.suspended = 0 /\ a.steady = FALSE
        /\ a.level = FALSE /\ a.flags = {} /\ a.dec = dec /\ a.observed = (dec > 1)
    BY DEF AdcReset
  <1> HIDE DEF a
  <1>4. AdcWired(a)
    BY <1>3 DEF AdcWired, Gap, Lazy
  <1> QED
    BY <1>2, <1>3, <1>4 DEF AtRest, a

LEMMA AdcStarts ==
    ASSUME AdcInit
    PROVE  AdcInv(adc)
  <1>1. PICK dec \in Decimations, hz \in AdcClocks : adc = AdcReset(hz, dec)
    BY DEF AdcInit
  <1> QED
    BY <1>1, ResetRests, DisturbedRest

(* Register writes.                                                        *)
LEMMA StartWritten ==
    ASSUME AdcInv(adc), AdcStart
    PROVE  AdcInv(adc')
  <1>1. PICK s : s = Synchronize(adc) /\ Synced(adc, s)
    BY SynchronizeKeeps
  <1> DEFINE b == [s EXCEPT !.adstart = TRUE]
  <1>2. adc' = Refresh(StartConversion(b))
    BY <1>1 DEF AdcStart, Write
  <1>3. AdcSane(s) /\ s \in AdcState /\ AdcWired(s)
    BY <1>1 DEF Synced, AdcInv, AdcSane
  <1>4. b \in AdcState
    BY <1>3 DEF AdcState
  <1>5. /\ b.state = s.state /\ b.due = s.due /\ b.event = s.event /\ b.hz = s.hz /\ b.elapsed = s.elapsed
        /\ b.suspended = s.suspended /\ b.steady = s.steady /\ SameTimes(s, b)
        /\ b.level = s.level /\ b.ie = s.ie /\ b.flags = s.flags /\ b.observed = s.observed
    BY <1>3 DEF AdcState, SameTimes
  <1> HIDE DEF b
  <1>6. AdcWired(b)
    BY <1>3, <1>5 DEF AdcWired, SameTimes
  <1>7. AdcSane(b)
    BY <1>3, <1>4, <1>5, <1>6, AdjustedSane
  <1> QED
    BY <1>2, <1>7, StartKeeps

LEMMA DisableWritten ==
    ASSUME AdcInv(adc), AdcDisable
    PROVE  AdcInv(adc')
  <1>1. PICK s : s = Synchronize(adc) /\ Synced(adc, s)
    BY SynchronizeKeeps
  <1>2. PICK c : c = CancelConversion(s)
    OBVIOUS
  <1> DEFINE d == [c EXCEPT !.adstart = FALSE]
             b == [d EXCEPT !.steady = FALSE]
  <1>3. adc' = Refresh(b)
    BY <1>1, <1>2 DEF AdcDisable, Write, Changed
  <1>4. AtRest(c) /\ c \in AdcState /\ AdcWired(c)
    BY <1>1, <1>2, CancelRests DEF Synced, AdcInv, AtRest
  <1>5. d \in AdcState
    BY <1>4 DEF AdcState
  <1>6. b \in AdcState
    BY <1>5 DEF AdcState
  <1>7. /\ b.state = c.state /\ b.due = c.due /\ b.event = c.event /\ b.suspended = c.suspended
        /\ b.steady = FALSE /\ b.level = c.level /\ b.ie = c.ie /\ b.flags = c.flags
        /\ b.observed = c.observed /\ b.dec = c.dec /\ b.length = c.length
    BY <1>4 DEF AdcState
  <1> HIDE DEF b
  <1>8. AdcWired(b)
    BY <1>4, <1>7 DEF AdcWired
  <1>9. AtRest(b)
    BY <1>4, <1>6, <1>7, <1>8 DEF AtRest
  <1> QED
    BY <1>3, <1>7, <1>9, DisturbedRest

(* A write that changes a setting of a running sequence.                   *)
LEMMA SettingWritten ==
    ASSUME NEW a, NEW s, Synced(a, s), NEW b \in AdcState, AdcWired(b),
           b.state = s.state, b.due = s.due, b.event = s.event, b.hz = s.hz,
           b.elapsed = s.elapsed, b.suspended = s.suspended,
           b.steady => s.steady /\ SameTimes(s, b)
    PROVE  AdcSane(b) /\ AdcInv(Refresh(b))
  <1>1. AdcSane(s) /\ (s.due = NoDeadline \/ s.due >= 0)
    BY DEF Synced, AdcInv
  <1>2. AdcSane(b)
    BY <1>1, AdjustedSane
  <1> QED
    BY <1>1, <1>2, RefreshKeeps

LEMMA ClearStartWritten ==
    ASSUME AdcInv(adc), AdcClearStart
    PROVE  AdcInv(adc')
  <1>1. PICK s : s = Synchronize(adc) /\ Synced(adc, s)
    BY SynchronizeKeeps
  <1> DEFINE b == [s EXCEPT !.adstart = FALSE, !.steady = FALSE]
  <1>2. s \in AdcState /\ AdcWired(s)
    BY <1>1 DEF Synced, AdcInv, AdcSane
  <1>3. adc' = Refresh(b)
    BY <1>1, <1>2 DEF AdcClearStart, Write, Changed, AdcState
  <1>4. b \in AdcState
    BY <1>2 DEF AdcState
  <1>5. /\ b.state = s.state /\ b.due = s.due /\ b.event = s.event /\ b.hz = s.hz /\ b.elapsed = s.elapsed
        /\ b.suspended = s.suspended /\ ~b.steady /\ b.dec = s.dec /\ b.length = s.length
        /\ b.level = s.level /\ b.ie = s.ie /\ b.flags = s.flags /\ b.observed = s.observed
    BY <1>2 DEF AdcState
  <1> HIDE DEF b
  <1>6. AdcWired(b)
    BY <1>2, <1>5 DEF AdcWired
  <1> QED
    BY <1>1, <1>3, <1>4, <1>5, <1>6, SettingWritten

LEMMA CfgrWritten ==
    ASSUME AdcInv(adc), WriteAdcCfgr
    PROVE  AdcInv(adc')
  <1>1. PICK s : s = Synchronize(adc) /\ Synced(adc, s)
    BY SynchronizeKeeps
  <1>0. PICK mode \in BOOLEAN : Write(Changed([s EXCEPT !.continuous = mode]))
    BY <1>1 DEF WriteAdcCfgr
  <1> DEFINE b == [s EXCEPT !.continuous = mode, !.steady = FALSE]
  <1>2. s \in AdcState /\ AdcWired(s)
    BY <1>1 DEF Synced, AdcInv, AdcSane
  <1>3. adc' = Refresh(b)
    BY <1>0, <1>2 DEF Write, Changed, AdcState
  <1>4. b \in AdcState
    BY <1>2 DEF AdcState
  <1>5. /\ b.state = s.state /\ b.due = s.due /\ b.event = s.event /\ b.hz = s.hz /\ b.elapsed = s.elapsed
        /\ b.suspended = s.suspended /\ ~b.steady /\ b.dec = s.dec /\ b.length = s.length
        /\ b.level = s.level /\ b.ie = s.ie /\ b.flags = s.flags /\ b.observed = s.observed
    BY <1>2 DEF AdcState
  <1> HIDE DEF b
  <1>6. AdcWired(b)
    BY <1>2, <1>5 DEF AdcWired
  <1> QED
    BY <1>1, <1>3, <1>4, <1>5, <1>6, SettingWritten

LEMMA SqrWritten ==
    ASSUME AdcInv(adc), WriteAdcSqr
    PROVE  AdcInv(adc')
  <1>1. PICK n \in 1..Cardinality(Ranks) : adc.state = "idle" /\ Write(Changed([adc EXCEPT !.length = n]))
    BY DEF WriteAdcSqr, Ranks
  <1> DEFINE b == [adc EXCEPT !.length = n, !.steady = FALSE]
  <1>2. adc \in AdcState /\ AdcWired(adc) /\ AdcArmed(adc)
    BY DEF AdcInv, AdcSane
  <1>3. adc' = Refresh(b)
    BY <1>1, <1>2 DEF Write, Changed, AdcState
  <1>4. b \in AdcState
    BY <1>2 DEF AdcState
  <1>5. /\ b.state = adc.state /\ b.due = adc.due /\ b.event = adc.event
        /\ b.suspended = adc.suspended /\ ~b.steady /\ b.dec = adc.dec
        /\ b.level = adc.level /\ b.ie = adc.ie /\ b.flags = adc.flags /\ b.observed = adc.observed
    BY <1>2 DEF AdcState
  <1> HIDE DEF b
  <1>6. AdcWired(b)
    BY <1>1, <1>2, <1>5 DEF AdcWired, Lazy
  <1>7. AtRest(b)
    BY <1>1, <1>2, <1>4, <1>5, <1>6 DEF AtRest, AdcArmed, Deadlined, Suspended
  <1> QED
    BY <1>3, <1>5, <1>7, DisturbedRest

(* Changes of IER and ISR, and of the flags by a read of DR.               *)
LEMMA LevelFollows ==
    ASSUME NEW s \in AdcState, AdcWired(s), NEW ie \in SUBSET {"eos"}, NEW flags \in SUBSET {"eoc", "eos"}
    PROVE  LET b == AdcLevel([s EXCEPT !.ie = ie, !.flags = flags])
           IN  /\ b \in AdcState /\ AdcWired(b)
               /\ b.state = s.state /\ b.due = s.due /\ b.event = s.event /\ b.hz = s.hz
               /\ b.elapsed = s.elapsed /\ b.suspended = s.suspended /\ b.steady = s.steady
               /\ SameTimes(s, b) /\ b.ie = ie /\ b.observed = s.observed /\ b.adstart = s.adstart
  <1> DEFINE c == [s EXCEPT !.ie = ie, !.flags = flags]
             level == c.ie \cap c.flags # {}
             b == [c EXCEPT !.level = level]
  <1>1. c \in AdcState
    BY DEF AdcState
  <1>2. /\ c.state = s.state /\ c.due = s.due /\ c.event = s.event /\ c.hz = s.hz /\ c.elapsed = s.elapsed
        /\ c.suspended = s.suspended /\ c.steady = s.steady /\ SameTimes(s, c) /\ c.ie = ie /\ c.flags = flags
        /\ c.observed = s.observed /\ c.adstart = s.adstart
    BY DEF AdcState, SameTimes
  <1>3. AdcLevel(c) = b
    BY DEF AdcLevel
  <1> HIDE DEF c
  <1>4. level \in BOOLEAN
    OBVIOUS
  <1>5. b \in AdcState
    <2> HIDE DEF level
    <2> QED
      BY <1>1, <1>4 DEF AdcState
  <1>6. /\ b.state = c.state /\ b.due = c.due /\ b.event = c.event /\ b.hz = c.hz /\ b.elapsed = c.elapsed
        /\ b.suspended = c.suspended /\ b.steady = c.steady /\ SameTimes(c, b) /\ b.ie = c.ie
        /\ b.flags = c.flags /\ b.observed = c.observed /\ b.adstart = c.adstart /\ b.level = level
    <2> HIDE DEF level
    <2> QED
      BY <1>1 DEF AdcState, SameTimes
  <1> HIDE DEF b
  <1>7. SameTimes(s, b)
    BY <1>2, <1>6 DEF SameTimes
  <1>8. AdcWired(b)
    <2>1. b.level <=> b.ie \cap b.flags # {}
      BY <1>6
    <2> QED
      BY <1>2, <1>6, <1>7, <2>1 DEF AdcWired, SameTimes
  <1> QED
    BY <1>2, <1>3, <1>5, <1>6, <1>7, <1>8 DEF c

LEMMA IerWritten ==
    ASSUME AdcInv(adc), WriteAdcIer
    PROVE  AdcInv(adc')
  <1>1. PICK s : s = Synchronize(adc) /\ Synced(adc, s)
    BY SynchronizeKeeps
  <1>2. PICK ie \in {{}, {"eos"}} : Write(AdcLevel([s EXCEPT !.ie = ie]))
    BY <1>1 DEF WriteAdcIer
  <1>3. s \in AdcState /\ AdcWired(s) /\ s.flags \in SUBSET {"eoc", "eos"} /\ ie \in SUBSET {"eos"}
    BY <1>1 DEF Synced, AdcInv, AdcSane, AdcState
  <1>4. [s EXCEPT !.ie = ie] = [s EXCEPT !.ie = ie, !.flags = s.flags]
    BY <1>3 DEF AdcState
  <1>5. PICK b : b = AdcLevel([s EXCEPT !.ie = ie, !.flags = s.flags])
    OBVIOUS
  <1>6. adc' = Refresh(b)
    BY <1>2, <1>4, <1>5 DEF Write
  <1>7. /\ b \in AdcState /\ AdcWired(b)
        /\ b.state = s.state /\ b.due = s.due /\ b.event = s.event /\ b.hz = s.hz
        /\ b.elapsed = s.elapsed /\ b.suspended = s.suspended /\ b.steady = s.steady /\ SameTimes(s, b)
    BY <1>3, <1>5, LevelFollows
  <1> QED
    BY <1>1, <1>6, <1>7, SettingWritten

LEMMA IsrWritten ==
    ASSUME AdcInv(adc), ClearAdcIsr
    PROVE  AdcInv(adc')
  <1>1. PICK s : s = Synchronize(adc) /\ Synced(adc, s)
    BY SynchronizeKeeps
  <1>2. PICK flags \in SUBSET {"eoc", "eos"} : flags = {}
    OBVIOUS
  <1>3. s \in AdcState /\ AdcWired(s) /\ s.ie \in SUBSET {"eos"}
    BY <1>1 DEF Synced, AdcInv, AdcSane, AdcState
  <1>4. [s EXCEPT !.flags = {}] = [s EXCEPT !.ie = s.ie, !.flags = flags]
    BY <1>2, <1>3 DEF AdcState
  <1>5. PICK b : b = AdcLevel([s EXCEPT !.ie = s.ie, !.flags = flags])
    OBVIOUS
  <1>6. adc' = Refresh(b)
    BY <1>1, <1>4, <1>5 DEF Write, ClearAdcIsr
  <1>7. /\ b \in AdcState /\ AdcWired(b)
        /\ b.state = s.state /\ b.due = s.due /\ b.event = s.event /\ b.hz = s.hz
        /\ b.elapsed = s.elapsed /\ b.suspended = s.suspended /\ b.steady = s.steady /\ SameTimes(s, b)
    BY <1>3, <1>5, LevelFollows
  <1> QED
    BY <1>1, <1>6, <1>7, SettingWritten

LEMMA DrRead ==
    ASSUME AdcInv(adc), ReadAdcDr
    PROVE  AdcInv(adc')
  <1>1. PICK s : s = Synchronize(adc) /\ Synced(adc, s)
    BY SynchronizeKeeps
  <1>2. PICK flags : flags = s.flags \ {"eoc"}
    OBVIOUS
  <1>3. s \in AdcState /\ AdcWired(s) /\ s.ie \in SUBSET {"eos"} /\ flags \in SUBSET {"eoc", "eos"}
    BY <1>1, <1>2 DEF Synced, AdcInv, AdcSane, AdcState
  <1>4. [s EXCEPT !.flags = s.flags \ {"eoc"}] = [s EXCEPT !.ie = s.ie, !.flags = flags]
    BY <1>2, <1>3 DEF AdcState
  <1>5. PICK b : b = AdcLevel([s EXCEPT !.ie = s.ie, !.flags = flags])
    OBVIOUS
  <1>6. adc' = b
    BY <1>1, <1>4, <1>5 DEF ReadAdcDr
  <1>7. /\ b \in AdcState /\ AdcWired(b)
        /\ b.state = s.state /\ b.due = s.due /\ b.event = s.event /\ b.hz = s.hz
        /\ b.elapsed = s.elapsed /\ b.suspended = s.suspended /\ b.steady = s.steady /\ SameTimes(s, b)
        /\ b.ie = s.ie /\ b.observed = s.observed /\ b.adstart = s.adstart
    BY <1>3, <1>5, LevelFollows, ZenonT(60)
  <1>8. AdcSane(b)
    BY <1>1, <1>7, SettingWritten
  <1>9. AdcEligible(b)
    <2>1. AdcEligible(s)
      BY <1>1 DEF Synced, AdcInv
    <2> QED
      BY <1>7, <2>1 DEF AdcEligible, LazyEligible, SameTimes
  <1> QED
    BY <1>6, <1>8, <1>9 DEF AdcInv

(* setSampleCallback, setSampleHistoryEnabled, setInputClockHz and reset.  *)
LEMMA ObservedSet ==
    ASSUME AdcInv(adc), SetObserved
    PROVE  AdcInv(adc')
  <1>1. PICK s : s = Synchronize(adc) /\ Synced(adc, s)
    BY SynchronizeKeeps
  <1>2. PICK on \in BOOLEAN : (adc.dec = 1 \/ on) /\ adc' = Refresh([s EXCEPT !.observed = on])
    BY <1>1 DEF SetObserved
  <1> DEFINE b == [s EXCEPT !.observed = on]
  <1>3. s \in AdcState /\ AdcWired(s) /\ s.dec = adc.dec
    BY <1>1 DEF Synced, AdcInv, AdcSane
  <1>4. b \in AdcState
    BY <1>3 DEF AdcState
  <1>5. /\ b.state = s.state /\ b.due = s.due /\ b.event = s.event /\ b.hz = s.hz /\ b.elapsed = s.elapsed
        /\ b.suspended = s.suspended /\ b.steady = s.steady /\ SameTimes(s, b)
        /\ b.level = s.level /\ b.ie = s.ie /\ b.flags = s.flags /\ b.observed = on
    BY <1>3 DEF AdcState, SameTimes
  <1>6. adc' = Refresh(b)
    BY <1>2
  <1> HIDE DEF b
  <1>7. AdcWired(b)
    BY <1>2, <1>3, <1>5 DEF AdcWired, SameTimes
  <1> QED
    BY <1>1, <1>4, <1>5, <1>6, <1>7, SettingWritten

LEMMA ClockChanged ==
    ASSUME AdcInv(adc), ChangeAdcClock
    PROVE  AdcInv(adc')
  <1>1. PICK hz \in AdcClocks : Quiet /\ hz # adc.hz /\ adc' = SetAdcClock(Changed(adc), hz)
    BY DEF ChangeAdcClock
  <1> DEFINE b == [adc EXCEPT !.steady = FALSE]
  <1>2. adc \in AdcState /\ AdcWired(adc) /\ AdcSane(adc) /\ AdcEligible(adc)
    BY DEF AdcInv, AdcSane
  <1>3. b \in AdcState
    BY <1>2 DEF AdcState
  <1>4. /\ b.state = adc.state /\ b.due = adc.due /\ b.event = adc.event /\ b.hz = adc.hz
        /\ b.elapsed = adc.elapsed /\ b.suspended = adc.suspended /\ ~b.steady /\ b.dec = adc.dec
        /\ b.length = adc.length /\ b.level = adc.level /\ b.ie = adc.ie /\ b.flags = adc.flags
        /\ b.observed = adc.observed /\ b.continuous = adc.continuous /\ b.adstart = adc.adstart
    BY <1>2 DEF AdcState
  <1>5. Changed(adc) = b
    BY DEF Changed
  <1> HIDE DEF b
  <1>6. AdcWired(b) /\ AdcEligible(b)
    BY <1>2, <1>4 DEF AdcWired, AdcEligible, LazyEligible
  <1>7. AdcInv(b)
    BY <1>2, <1>3, <1>4, <1>6, AdjustedSane DEF AdcInv
  <1>8. PICK s : s = Synchronize(b) /\ Synced(b, s)
    BY <1>7, SynchronizeKeeps
  <1>9. AdcInv(s) /\ ~s.steady /\ s.hz = adc.hz /\ (s.due = NoDeadline \/ s.due > 0)
    BY <1>1, <1>4, <1>8 DEF Synced, Quiet
  <1>10. adc' = IF hz = 0 THEN StopClock(s) ELSE RunClock(s, hz)
    BY <1>1, <1>4, <1>5, <1>8 DEF SetAdcClock
  <1>11. CASE hz = 0
    BY <1>1, <1>9, <1>10, <1>11, StopClockKeeps
  <1>12. CASE hz # 0
    BY <1>9, <1>10, <1>12, RunClockKeeps
  <1> QED
    BY <1>11, <1>12

LEMMA ResetHeld ==
    ASSUME AdcInv(adc), HoldReset
    PROVE  AdcInv(adc')
  <1>1. adc \in AdcState /\ AdcWired(adc) /\ AdcSane(adc) /\ AdcEligible(adc)
    BY DEF AdcInv, AdcSane
  <1>2. CASE adc.held
    <2> DEFINE b == [adc EXCEPT !.held = FALSE]
    <2>1. b \in AdcState
      BY <1>1 DEF AdcState
    <2>2. /\ b.state = adc.state /\ b.due = adc.due /\ b.event = adc.event /\ b.hz = adc.hz
          /\ b.elapsed = adc.elapsed /\ b.suspended = adc.suspended /\ b.steady = adc.steady
          /\ SameTimes(adc, b) /\ b.level = adc.level /\ b.ie = adc.ie /\ b.flags = adc.flags
          /\ b.observed = adc.observed /\ b.adstart = adc.adstart
      BY <1>1 DEF AdcState, SameTimes
    <2>3. adc' = b
      BY <1>2 DEF HoldReset
    <2> HIDE DEF b
    <2>4. AdcWired(b) /\ AdcEligible(b)
      BY <1>1, <2>2 DEF AdcWired, AdcEligible, LazyEligible, SameTimes
    <2>5. AdcSane(b)
      BY <1>1, <2>1, <2>2, <2>4, AdjustedSane
    <2> QED
      BY <2>3, <2>4, <2>5 DEF AdcInv
  <1>3. CASE ~adc.held
    <2>1. adc.hz \in AdcClocks /\ adc.dec \in Decimations /\ adc.observed \in BOOLEAN
      BY <1>1 DEF AdcState
    <2>2. PICK a : a = AdcReset(adc.hz, adc.dec) /\ AtRest(a) /\ ~a.steady
      BY <2>1, ResetRests
    <2>3. a \in AdcState /\ AdcWired(a) /\ a.dec = adc.dec
      BY <2>2 DEF AtRest, AdcReset
    <2>4. PICK on \in BOOLEAN : on = adc.observed
      BY <2>1
    <2> DEFINE b == [a EXCEPT !.observed = on, !.held = TRUE]
    <2>5. b \in AdcState
      BY <2>3 DEF AdcState
    <2>6. /\ b.state = a.state /\ b.due = a.due /\ b.event = a.event /\ b.suspended = a.suspended
          /\ b.steady = a.steady /\ b.level = a.level /\ b.ie = a.ie /\ b.flags = a.flags
          /\ b.observed = on /\ b.dec = a.dec /\ b.length = a.length
      BY <2>3 DEF AdcState
    <2>7. adc' = b
      BY <1>3, <2>2, <2>4 DEF HoldReset
    <2> HIDE DEF b
    <2>8. AdcWired(b)
      BY <1>1, <2>3, <2>4, <2>6 DEF AdcWired
    <2>9. AtRest(b)
      BY <2>2, <2>5, <2>6, <2>8 DEF AtRest
    <2> QED
      BY <2>2, <2>6, <2>7, <2>9, DisturbedRest
  <1> QED
    BY <1>2, <1>3

(* An event at its deadline.                                               *)
LEMMA EventRuns ==
    ASSUME AdcInv(adc), ConversionEvent
    PROVE  AdcInv(adc')
  <1>1. adc \in AdcState /\ AdcWired(adc) /\ AdcArmed(adc) /\ AdcTimed(adc)
    BY DEF AdcInv, AdcSane
  <1>2. PICK none \in Int : none = NoDeadline /\ none < 0
    BY DeadlineApart
  <1>3. adc.event = 0 /\ adc.event # NoDeadline
    BY <1>2 DEF ConversionEvent
  <1>4. adc.due = 0 /\ adc.state \in {"scheduled", "skipped_gap"} /\ adc.hz # 0 /\ adc.suspended = 0
    BY <1>1, <1>3 DEF AdcArmed, Suspended
  <1>5. adc.elapsed \in Nat
    BY <1>1, AdcNumbers
  <1> DEFINE b == [adc EXCEPT !.event = none, !.due = none, !.state = "idle"]
  <1>6. b \in AdcState
    <2>1. "idle" \in ConversionStates
      BY DEF ConversionStates
    <2> QED
      BY <1>1, <2>1 DEF AdcState
  <1>7. /\ b.event = none /\ b.due = none /\ b.state = "idle" /\ b.suspended = adc.suspended
        /\ b.length = adc.length /\ b.hz = adc.hz /\ b.continuous = adc.continuous /\ b.dec = adc.dec
        /\ b.elapsed = adc.elapsed /\ b.rank = adc.rank /\ b.scan = adc.scan
        /\ b.skip = adc.skip /\ b.skipped = adc.skipped /\ b.steady = adc.steady
        /\ b.lastAt = adc.lastAt /\ b.lastRank = adc.lastRank /\ b.taken = adc.taken
        /\ b.level = adc.level /\ b.ie = adc.ie /\ b.flags = adc.flags /\ b.observed = adc.observed
    BY <1>1 DEF AdcState
  <1>8. adc' = IF adc.state = "skipped_gap" THEN CompleteSkippedScans(b) ELSE CompleteConversion(b)
    BY <1>2 DEF ConversionEvent
  <1> HIDE DEF b
  <1>9. AtRest(b) /\ b.hz # 0
    <2>1. AdcWired(b)
      BY <1>1, <1>7 DEF AdcWired, Gap, Lazy
    <2> QED
      BY <1>2, <1>4, <1>6, <1>7, <2>1 DEF AtRest
  <1>10. \A j, r : EndsAt(b, j, r) = EndsAt(adc, j, r)
    BY <1>7 DEF EndsAt
  <1>11. ScanTime(b) = ScanTime(adc)
    BY <1>7 DEF ScanTime
  <1>12. ASSUME b.steady
         PROVE  b.rank < b.length /\ AdcSkips(b) /\ AdcKept(b) /\ AdcOnTime(adc)
    <2>1. adc.rank < adc.length /\ AdcOnTime(adc) /\ AdcSkips(adc) /\ AdcKept(adc)
      BY <1>1, <1>7, <1>12 DEF AdcTimed
    <2>2. AdcSkips(b)
      BY <1>7, <2>1 DEF AdcSkips
    <2>3. AdcKept(b)
      BY <1>7, <1>10, <2>1 DEF AdcKept
    <2> QED
      BY <1>7, <2>1, <2>2, <2>3
  <1>13. CASE adc.state = "skipped_gap"
    <2>1. ASSUME b.steady PROVE b.elapsed = (b.scan + b.skipped) * ScanTime(b)
      <3>1. adc.elapsed + adc.due = (adc.scan + adc.skipped) * ScanTime(adc)
        BY <1>12, <1>13, <2>1 DEF AdcOnTime
      <3>2. adc.elapsed + adc.due = adc.elapsed
        BY <1>4, <1>5
      <3> QED
        BY <1>7, <1>11, <3>1, <3>2
    <2> QED
      BY <1>8, <1>9, <1>12, <1>13, <2>1, GapCompletes
  <1>14. CASE adc.state # "skipped_gap"
    <2>1. ASSUME b.steady
          PROVE  \E j \in Nat : b.elapsed = EndsAt(b, j, b.rank) /\ (b.dec > 1 => j = b.scan)
      <3>1. PICK j \in Nat : adc.elapsed + adc.due = EndsAt(adc, j, adc.rank) /\ (adc.dec > 1 => j = adc.scan)
        BY <1>4, <1>12, <1>14, <2>1 DEF AdcOnTime
      <3>2. adc.elapsed + adc.due = adc.elapsed
        BY <1>4, <1>5
      <3>3. b.elapsed = EndsAt(b, j, b.rank) /\ (b.dec > 1 => j = b.scan)
        BY <1>7, <1>10, <3>1, <3>2
      <3> QED
        BY <3>3
    <2> QED
      BY <1>8, <1>9, <1>12, <1>14, <2>1, ConversionCompletes
  <1> QED
    BY <1>13, <1>14

(* A nanosecond passes: deadline and event come nearer together.           *)
LEMMA TimePassed ==
    ASSUME AdcInv(adc), AdcPasses
    PROVE  AdcInv(adc')
  <1>1. adc \in AdcState /\ AdcWired(adc) /\ AdcArmed(adc) /\ AdcTimed(adc) /\ AdcEligible(adc)
    BY DEF AdcInv, AdcSane
  <1>2. PICK none \in Int : none = NoDeadline /\ none < 0 /\ none = 0 - 1 - MaxElapsed
    BY DeadlineApart DEF NoDeadline
  <1>3. adc.elapsed \in Nat /\ adc.due \in Int /\ adc.event \in Int /\ MaxElapsed \in Nat
    BY <1>1, AdcNumbers, AdcAssumption
  <1>4. PICK now \in 0..MaxElapsed : now = adc.elapsed + 1
    BY <1>3 DEF AdcPasses
  <1>5. PICK due \in Int : due = IF adc.due = none THEN none ELSE adc.due - 1
    BY <1>3
  <1>6. PICK event \in Int : event = IF adc.event = none THEN none ELSE adc.event - 1
    BY <1>3
  <1> DEFINE b == [adc EXCEPT !.elapsed = now, !.due = due, !.event = event]
  <1>7. b \in AdcState
    BY <1>1 DEF AdcState
  <1>8. /\ b.event = event /\ b.due = due /\ b.elapsed = now /\ b.state = adc.state
        /\ b.suspended = adc.suspended /\ b.adstart = adc.adstart
        /\ b.length = adc.length /\ b.hz = adc.hz /\ b.continuous = adc.continuous /\ b.dec = adc.dec
        /\ b.rank = adc.rank /\ b.scan = adc.scan
        /\ b.skip = adc.skip /\ b.skipped = adc.skipped /\ b.steady = adc.steady
        /\ b.lastAt = adc.lastAt /\ b.lastRank = adc.lastRank /\ b.taken = adc.taken
        /\ b.level = adc.level /\ b.ie = adc.ie /\ b.flags = adc.flags /\ b.observed = adc.observed
    BY <1>1 DEF AdcState
  <1>9. adc' = b
    BY <1>1, <1>2, <1>4, <1>5, <1>6 DEF AdcPasses, AdcState
  <1> HIDE DEF b
  <1>10. AdcWired(b) /\ AdcEligible(b)
    BY <1>1, <1>8 DEF AdcWired, AdcEligible, LazyEligible
  <1>11. adc.due # none => due # none /\ now + due = adc.elapsed + adc.due /\ now + due >= 0
    <2>1. adc.due # none => adc.elapsed + adc.due >= 0
      BY <1>1, <1>2 DEF AdcArmed
    <2> QED
      BY <1>2, <1>3, <1>4, <1>5, <2>1
  <1>12. adc.due = none => due = none
    BY <1>5
  <1>13. adc.event # none => event # none /\ event = due /\ event >= 0
    <2>1. adc.event # 0
      BY DEF AdcPasses
    <2>2. adc.event # none => adc.event = adc.due /\ adc.event >= 0
      BY <1>1, <1>2 DEF AdcArmed
    <2> QED
      BY <1>2, <1>3, <1>5, <1>6, <2>1, <2>2
  <1>14. adc.event = none => event = none
    BY <1>6
  <1>15. AdcArmed(b)
    <2>1. /\ adc.event # none <=> adc.state \in {"scheduled", "skipped_gap"}
          /\ adc.due # none <=> adc.state \in Deadlined
          /\ adc.due # none => adc.hz # 0
          /\ adc.suspended # 0 <=> Suspended(adc.state)
          /\ Suspended(adc.state) => adc.hz = 0
      BY <1>1, <1>2 DEF AdcArmed
    <2>2. (event # none <=> adc.event # none) /\ (due # none <=> adc.due # none)
      BY <1>11, <1>12, <1>13, <1>14
    <2>3. b.event # none <=> b.state \in {"scheduled", "skipped_gap"}
      BY <1>8, <2>1, <2>2
    <2>4. b.event # none => b.event = b.due /\ b.event >= 0
      BY <1>8, <1>13, <1>14
    <2>5. b.due # none <=> b.state \in Deadlined
      BY <1>8, <2>1, <2>2
    <2>6. b.due # none => b.hz # 0 /\ b.elapsed + b.due >= 0
      BY <1>8, <1>11, <1>12, <2>1
    <2>7. (b.suspended # 0 <=> Suspended(b.state)) /\ (Suspended(b.state) => b.hz = 0)
      BY <1>8, <2>1
    <2> QED
      BY <1>2, <2>3, <2>4, <2>5, <2>6, <2>7 DEF AdcArmed
  <1>16. AdcTimed(b)
    <2>1. SUFFICES ASSUME b.steady PROVE b.rank < b.length /\ AdcOnTime(b) /\ AdcSkips(b) /\ AdcKept(b)
      BY DEF AdcTimed
    <2>2. adc.rank < adc.length /\ AdcOnTime(adc) /\ AdcSkips(adc) /\ AdcKept(adc)
      BY <1>1, <1>8, <2>1 DEF AdcTimed
    <2>3. \A j, r : EndsAt(b, j, r) = EndsAt(adc, j, r)
      BY <1>8 DEF EndsAt
    <2>4. ScanTime(b) = ScanTime(adc)
      BY <1>8 DEF ScanTime
    <2>5. AdcSkips(b)
      BY <1>8, <2>2 DEF AdcSkips
    <2>6. AdcKept(b)
      <3>1. b.lastAt <= adc.elapsed => b.lastAt <= b.elapsed
        <4>1. adc.lastAt \in Int
          BY <1>1, AdcNumbers
        <4> QED
          BY <1>3, <1>4, <1>8, <4>1
      <3> QED
        BY <1>8, <2>2, <2>3, <3>1 DEF AdcKept
    <2>7. b.state \in Deadlined => b.elapsed + b.due = adc.elapsed + adc.due
      <3>1. adc.state \in Deadlined => adc.due # none
        BY <1>1, <1>2 DEF AdcArmed
      <3> QED
        BY <1>8, <1>11, <3>1
    <2>8. AdcOnTime(b)
      <3>1. b.state \in {"scheduled", "lazy", "skipped_gap"} => b.elapsed + b.due = adc.elapsed + adc.due
        BY <2>7 DEF Deadlined
      <3> QED
        BY <1>8, <2>2, <2>3, <2>4, <3>1 DEF AdcOnTime
    <2> QED
      BY <1>8, <2>2, <2>5, <2>6, <2>8
  <1> QED
    BY <1>7, <1>9, <1>10, <1>15, <1>16 DEF AdcInv, AdcSane

LEMMA AdcStepKeeps ==
    ASSUME AdcInv(adc), AdcNext
    PROVE  AdcInv(adc')
  BY StartWritten, DisableWritten, ClearStartWritten, CfgrWritten, SqrWritten, IerWritten, IsrWritten,
     DrRead, ObservedSet, ClockChanged, ResetHeld, EventRuns, TimePassed DEF AdcNext

(* The last result kept ended within the time that passed.                 *)
LEMMA InvIsSound ==
    ASSUME AdcInv(adc)
    PROVE  AdcSound
  <1>1. adc \in AdcState /\ AdcWired(adc) /\ AdcArmed(adc) /\ AdcTimed(adc)
    BY DEF AdcInv, AdcSane
  <1>2. EngineSound
    <2>1. adc.level <=> adc.ie \cap adc.flags # {}
      BY <1>1 DEF AdcWired
    <2> QED
      BY <1>1, <2>1 DEF EngineSound, AdcArmed, Deadlined
  <1>3. ASSUME adc.steady, adc.taken > 0
        PROVE  \E scan \in 0..MaxElapsed : /\ scan % adc.dec = 0 \/ ~adc.continuous
                                           /\ adc.lastAt = EndsAt(adc, scan, adc.lastRank)
    <2>1. /\ adc.hz # 0 /\ adc.lastRank < adc.length /\ adc.lastAt <= adc.elapsed
          /\ \E j \in Nat : /\ j % adc.dec = 0 \/ ~adc.continuous
                            /\ adc.lastAt = EndsAt(adc, j, adc.lastRank)
      BY <1>1, <1>3 DEF AdcTimed, AdcKept
    <2>2. PICK j \in Nat : (j % adc.dec = 0 \/ ~adc.continuous) /\ adc.lastAt = EndsAt(adc, j, adc.lastRank)
      BY <2>1
    <2>3. /\ adc.hz \in Nat \ {0} /\ adc.length \in Nat /\ adc.length \in 1..Cardinality(Ranks)
          /\ adc.lastRank \in Nat /\ adc.lastAt \in Int /\ adc.elapsed \in Nat
          /\ adc.elapsed <= MaxElapsed /\ MaxElapsed \in Nat
      BY <1>1, <2>1, AdcNumbers, AdcAssumption
    <2>4. adc.lastRank \in 0..(adc.length - 1)
      BY <2>1, <2>3
    <2>5. PICK T \in Nat \ {0}, rest \in Nat : /\ T = DelaySum(adc.hz, adc.length)[adc.length]
                                               /\ rest = DelaySum(adc.hz, adc.length)[adc.lastRank + 1]
      BY <2>3, <2>4, ScanTimes
    <2>6. adc.lastAt = j * T + rest
      BY <2>2, <2>5 DEF EndsAt
    <2>7. j * 1 <= j * T /\ j * T \in Nat
      <3>1. 1 <= T /\ 1 \in Nat /\ T \in Nat
        BY <2>5
      <3>2. 1 * j <= T * j /\ T * j \in Nat
        BY <3>1, TimesOrdered
      <3>3. T * j = j * T
        BY SMT
      <3> QED
        BY <3>2, <3>3
    <2>8. PICK x \in Nat : x = j * T /\ j <= x
      BY <2>7
    <2>9. j \in 0..MaxElapsed
      BY <2>1, <2>3, <2>6, <2>8
    <2> QED
      BY <2>2, <2>9
  <1>4. KeptOnTime
    BY <1>3 DEF KeptOnTime
  <1> QED
    BY <1>2, <1>4 DEF AdcSound

(* A converter's state, deadline, event, suspended work and level agree    *)
(* after every write, event, clock change and reset; and while nothing     *)
(* disturbs a sequence, the result last kept, lazily or with scans skipped,*)
(* is one that the hardware's own conversions end with, at their time      *)
(* (AdcPeripheral), for every budget, clock, decimation and length.        *)
THEOREM AdcAlwaysSound == DeviceSpec => []AdcSound
  <1> DEFINE Inv == AdcInv(adc)
  <1>1. DeviceInit => Inv
    BY AdcStarts DEF DeviceInit
  <1>2. Inv /\ [DeviceNext]_DeviceVars => Inv'
    <2>1. SUFFICES ASSUME Inv, [DeviceNext]_DeviceVars PROVE Inv'
      OBVIOUS
    <2>2. AdcNext \/ UNCHANGED adc
      <3>1. CASE DeviceNext
        <4>1. CASE part = "adc"
          <5>1. AdcPart
            BY <3>1, <4>1 DEF DeviceNext, TickPart, PinsPart, BlockPart, WiringPart, DmaPart, SerialPart,
                              TimerPart, WatchdogPart, ClocksPart, FlashPart, CrcPart, FdcanPart, FdcanParts
          <5> QED
            BY <5>1 DEF AdcPart, AdcNext
        <4>2. CASE part # "adc"
          BY <3>1, <4>2 DEF DeviceNext, Held
        <4> QED
          BY <4>1, <4>2
      <3>2. CASE UNCHANGED DeviceVars
        BY <3>2 DEF DeviceVars
      <3> QED
        BY <2>1, <3>1, <3>2
    <2>3. CASE AdcNext
      BY <2>1, <2>3, AdcStepKeeps
    <2>4. CASE UNCHANGED adc
      BY <2>1, <2>4
    <2> QED
      BY <2>2, <2>3, <2>4
  <1>3. Inv => AdcSound
    BY InvIsSound
  <1> QED
    BY <1>1, <1>2, <1>3, PTL DEF DeviceSpec
=============================================================================
