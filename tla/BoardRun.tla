------------------------------ MODULE BoardRun ------------------------------
(***************************************************************************)
(* Board::run: one board executing firmware between its own events.  The   *)
(* same firmware can be stepped one instruction at a time, in pure blocks  *)
(* whose cost was forecast, or inside a native frame that retires spans    *)
(* and loops on credit and calls back for every checked instruction.       *)
(* Time, fetch stalls, SysTick and events must not depend on which.        *)
(*                                                                         *)
(* The machine m takes the path under test; ref takes single steps.        *)
(***************************************************************************)
EXTENDS Integers, Sequences, FiniteSets

CONSTANTS
    Firmware,       \* programs: sequences of instructions, see below
    RunModes,       \* subset of {"single", "block", "native"}
    Ns,             \* nanoseconds per second, scaled
    Clocks,         \* the two clock rates firmware switches between
    WaitStates,     \* flash wait states after the ACR is rewritten
    MaxStall,       \* the largest fetch stall the latency field can ask for
    TickPeriods,    \* SysTick periods in cycles; 0 is off
    EventTimes,     \* sets of events pending at the start
    Deadlines,      \* run deadlines; 0 is none
    InsnLimits,     \* max_instructions
    CycleCap        \* the width of a step's cycle count

ASSUME BoardRunAssumption ==
    /\ Ns \in Nat \ {0} /\ Clocks[1] \in Nat \ {0} /\ Clocks[2] \in Nat \ {0}
    /\ WaitStates \in Nat /\ WaitStates <= MaxStall /\ CycleCap \in Nat \ {0}

VARIABLES m, ref, frame, run

BoardRunVars == <<m, ref, frame, run>>

(* An instruction: op, c cycles, and for a branch its target and the       *)
(* cycles of the taken way.  "count" decrements the loop register;         *)
(* "cond" branches while it is not zero; "mmio" accesses schedule an       *)
(* event, switch the clock or the wait states, or pend an interrupt.       *)
NativeOps == {"alu", "count", "load"}
Branches == {"jump", "cond"}
NoPc == -1

(* The handler is a single return at the program's last address.           *)
Handler(p) == Len(p)
InsnAt(s) == run.prog[s.pc]

NewMachine(p, tick, events) ==
    [pc |-> 1, r |-> 1, fe |-> NoPc, now |-> 0, frac |-> 0, hz |-> Clocks[1], ws |-> 0, gen |-> 0,
     tick |-> tick, period |-> tick, ev |-> events, pend |-> FALSE, ret |-> NoPc, n |-> 0,
     seen |-> 0]

NoFrame == [on |-> FALSE, count |-> 0, cycles |-> 0, credit |-> 0, accounted |-> 0, hz |-> 0, gen |-> 0]

BoardRunInit ==
    \E p \in Firmware, mode \in RunModes, tick \in TickPeriods, events \in EventTimes,
       deadline \in Deadlines, limit \in InsnLimits :
        /\ m = NewMachine(p, tick, events) /\ ref = m /\ frame = NoFrame
        /\ run = [prog |-> p, mode |-> mode, deadline |-> deadline, limit |-> limit,
                  why |-> "none", overran |-> FALSE]

-----------------------------------------------------------------------------
(* Executing one instruction, before any time passes.                      *)
Stall(s, pc) == IF s.fe = pc THEN 0 ELSE s.ws

Taken(s) == InsnAt(s).op = "jump" \/ (InsnAt(s).op = "cond" /\ s.r # 0)
PipelineCycles(s) == IF Taken(s) THEN InsnAt(s).tc ELSE InsnAt(s).c
CyclesOf(s) == PipelineCycles(s) + Stall(s, s.pc)

Execute(s) ==
    LET i == InsnAt(s)
        on == [s EXCEPT !.n = @ + 1, !.fe = s.pc + 1,
                        !.pc = IF Taken(s) THEN i.to ELSE s.pc + 1]
    IN  CASE i.op = "count" -> [on EXCEPT !.r = IF @ = 0 THEN 1 ELSE @ - 1]
          [] i.op = "event" -> [on EXCEPT !.ev = @ \cup {s.now + i.to}]
          [] i.op = "clock" -> [on EXCEPT !.hz = IF @ = Clocks[1] THEN Clocks[2] ELSE Clocks[1]]
          [] i.op = "acr" -> [on EXCEPT !.ws = WaitStates, !.gen = @ + 1]
          [] i.op = "pend" -> [on EXCEPT !.pend = TRUE]
          [] i.op = "return" -> [on EXCEPT !.pc = s.pc]   \* completed by the boundary
          [] OTHER -> on

(* The stall is charged after the instruction ran: a write of the ACR pays *)
(* for its own fetch at the new wait states.                               *)
StepCycles(s, after) == PipelineCycles(s) + (IF s.fe = s.pc THEN 0 ELSE after.ws)

(* accountCycles: SysTick, then the clock with its carried remainder.      *)
TickBy(s, c) ==
    IF s.tick = 0 \/ c = 0 THEN s
    ELSE IF c < s.tick THEN [s EXCEPT !.tick = @ - c]
    ELSE [s EXCEPT !.pend = TRUE, !.tick = s.period - ((c - s.tick) % s.period)]

Elapsed(s, c) == (c * Ns + s.frac) \div s.hz

(* advanceTime: account, then run the board's due events.                  *)
AdvanceTime(s, c) ==
    LET until == s.now + Elapsed(s, c)
        due == {t \in s.ev : t <= until}
        after == [TickBy(s, c) EXCEPT !.frac = (c * Ns + s.frac) % s.hz, !.now = until]
    IN  IF due = {} THEN after
        ELSE [after EXCEPT !.ev = @ \ due, !.pend = TRUE, !.seen = s.n]

(* settleInstructionBoundary: a return, then the most urgent pending.      *)
BoundaryPending(s) == s.pend /\ s.ret = NoPc

SettledBoundary(s) ==
    LET returning == s.ret # NoPc /\ InsnAt(s).op = "return" /\ s.fe = s.pc + 1
        back == IF returning THEN [s EXCEPT !.pc = s.ret, !.ret = NoPc] ELSE s
    IN  IF BoundaryPending(back)
        THEN [back EXCEPT !.ret = back.pc, !.pc = Handler(run.prog), !.pend = FALSE]
        ELSE back

SingleStep(s) ==
    LET after == Execute(s) IN SettledBoundary(AdvanceTime(after, StepCycles(s, after)))

-----------------------------------------------------------------------------
(* The reference follows by as many single steps as the path retired; it   *)
(* must not have stopped on the way.                                       *)
Follow(n) ==
    LET at[k \in 0..n] == IF k = 0 THEN ref ELSE LET s == at[k - 1] IN SingleStep(s)
    IN  /\ ref' = at[n]
        /\ run' = [run EXCEPT !.overran = @ \/ \E k \in 1..(n - 1) :
                       run.deadline # 0 /\ at[k].now >= run.deadline]

Running == run.why = "none" /\ ~frame.on

MayStep ==
    /\ Running /\ m.n < run.limit
    /\ run.deadline = 0 \/ m.now < run.deadline

StopRun ==
    /\ Running /\ ~MayStep
    /\ run' = [run EXCEPT !.why = IF m.n >= run.limit THEN "instruction_budget" ELSE "time_budget"]
    /\ UNCHANGED <<m, ref, frame>>

Horizon(s) ==
    LET times == s.ev \cup (IF run.deadline = 0 THEN {} ELSE {run.deadline})
    IN  IF times = {} THEN NoPc ELSE CHOOSE t \in times : \A u \in times : t <= u

(* stepBlockWithFetchTiming: a pure block runs only if its largest cost    *)
(* ends strictly before the next event, the deadline and SysTick.          *)
Pure(i) == i.op \in {"alu", "count"} \cup Branches

BlockLength(s) ==
    LET ends(k) == s.pc + k > Len(run.prog) \/ ~Pure(run.prog[s.pc + k])
                   \/ (k > 0 /\ run.prog[s.pc + k - 1].op \in Branches)
    IN  CHOOSE n \in 0..Len(run.prog) : ends(n) /\ \A k \in 0..(n - 1) : ~ends(k)

Larger(a, b) == IF a >= b THEN a ELSE b

BlockCeiling(s, n) ==
    LET sum[k \in 0..n] ==
          IF k = 0 THEN 0
          ELSE LET i == run.prog[s.pc + k - 1]
               IN  sum[k - 1] + (IF i.op \in Branches THEN Larger(i.c, i.tc) ELSE i.c)
    IN  sum[n] + Stall(s, s.pc)

BlockFits(s, c) ==
    /\ Horizon(s) # NoPc => Horizon(s) > s.now /\ Elapsed(s, c) < Horizon(s) - s.now
    /\ s.tick # 0 => c < s.tick

RunBlock(n) ==
    LET at[k \in 0..n] == IF k = 0 THEN [s |-> m, c |-> 0]
                          ELSE LET x == at[k - 1]
                               IN  [s |-> Execute(x.s), c |-> x.c + StepCycles(x.s, Execute(x.s))]
    IN  LET x == at[n] IN SettledBoundary(AdvanceTime(x.s, x.c))

StepBlock ==
    /\ MayStep /\ run.mode = "block"
    /\ LET limit == BlockLength(m)
           n == IF limit > run.limit - m.n THEN run.limit - m.n ELSE limit
           batch == n > 1 /\ ~BoundaryPending(m) /\ BlockFits(m, BlockCeiling(m, n))
       IN  IF batch THEN m' = RunBlock(n) /\ Follow(n)
           ELSE m' = SingleStep(m) /\ Follow(1)
    /\ UNCHANGED frame

StepSingle ==
    /\ MayStep /\ run.mode = "single"
    /\ m' = SingleStep(m) /\ Follow(1) /\ UNCHANGED frame

-----------------------------------------------------------------------------
(* stepNativeLocal and the generated region.  Credit is the number of      *)
(* cycles that still ends strictly before the horizon and SysTick.         *)

(* Seeded fault: native code does not stop for SysTick.                    *)
CreditWithoutTick(s, cap) ==
    LET h == Horizon(s)
        byTime == IF h = NoPc THEN cap
                  ELSE IF (h - s.now) * s.hz - 1 >= s.frac
                  THEN ((h - s.now) * s.hz - 1 - s.frac) \div Ns ELSE 0
    IN  IF byTime < cap THEN byTime ELSE cap

Credit(s, cap) ==
    LET h == Horizon(s)
        byTick == IF s.tick = 0 THEN cap ELSE s.tick - 1
        byTime == IF h = NoPc THEN cap
                  ELSE IF (h - s.now) * s.hz - 1 >= s.frac
                  THEN ((h - s.now) * s.hz - 1 - s.frac) \div Ns ELSE 0
        least == IF byTick < byTime THEN byTick ELSE byTime
    IN  IF least < cap THEN least ELSE cap

NativeEntry ==
    /\ run.limit - m.n >= 2 /\ ~BoundaryPending(m) /\ m.frac < m.hz
    /\ Horizon(m) # NoPc => Horizon(m) > m.now
    /\ Credit(m, CycleCap) # 0

(* The owner slice falls back to single steps when the frame is refused or *)
(* retires nothing.                                                        *)
NativeEnter ==
    /\ MayStep /\ run.mode = "native"
    /\ IF NativeEntry
       THEN /\ frame' = [on |-> TRUE, count |-> 0, cycles |-> 0, credit |-> Credit(m, CycleCap),
                         accounted |-> 0, hz |-> m.hz, gen |-> m.gen]
            /\ UNCHANGED <<m, ref, run>>
       ELSE m' = SingleStep(m) /\ Follow(1) /\ UNCHANGED frame

Room(n) == frame.count + n <= run.limit - (m.n - frame.count)
Affords(c) == frame.cycles + c <= frame.credit

(* A straight run of n instructions from here, native and not branching.   *)
StraightRun(s, n) == \A k \in 0..(n - 1) : s.pc + k <= Len(run.prog) /\ run.prog[s.pc + k].op \in NativeOps

PrefixCharge(s, n) ==
    LET sum[k \in 0..n] == IF k = 0 THEN 0 ELSE sum[k - 1] + run.prog[s.pc + k - 1].c
    IN  sum[n] + Stall(s, s.pc)

(* A loop of integer instructions that branches back to here.              *)
LoopLength(s) ==
    LET closes(n) == /\ \A k \in 0..(n - 2) : run.prog[s.pc + k].op \in {"alu", "count"}
                     /\ run.prog[s.pc + n - 1].op \in Branches
                     /\ run.prog[s.pc + n - 1].to = s.pc
        sizes == {n \in 2..(Len(run.prog) + 1 - s.pc) : closes(n)}
    IN  IF sizes = {} THEN 0 ELSE CHOOSE n \in sizes : TRUE

(* A span holds at least three instructions; spans do not overlap, so one  *)
(* starts only where the last one ended.                                   *)
SpanLength(s) ==
    LET sizes == {n \in 3..(Len(run.prog) + 1 - s.pc) : StraightRun(s, n)}
    IN  IF sizes = {} \/ s.pc \notin run.prog[1].spans THEN 0
        ELSE CHOOSE n \in sizes : \A k \in sizes : k <= n

RunNative(s, n) ==
    LET at[k \in 0..n] == IF k = 0 THEN s ELSE LET x == at[k - 1] IN Execute(x)
    IN  at[n]

Retire(n, charge) ==
    /\ m' = RunNative(m, n)
    /\ frame' = [frame EXCEPT !.count = @ + n, !.cycles = @ + charge]
    /\ UNCHANGED <<ref, run>>

(* fast_loop: one iteration is admitted at the taken cost, and the         *)
(* difference refunded when the branch falls through.                      *)
LoopCharge(s, n) == PrefixCharge(s, n - 1) + run.prog[s.pc + n - 1].tc

NativeLoop ==
    /\ frame.on /\ Room(1) /\ LoopLength(m) # 0
    /\ LET n == LoopLength(m)
           full == LoopCharge(m, n)
           last == RunNative(m, n - 1)
       IN  /\ Room(n) /\ Affords(full)
           /\ Retire(n, IF Taken(last) THEN full
                        ELSE full - (InsnAt(last).tc - InsnAt(last).c))

UsesLoop == LoopLength(m) # 0 /\ Room(LoopLength(m)) /\ Affords(LoopCharge(m, LoopLength(m)))

(* linear_span: the whole span is admitted before its first instruction.   *)
UsesSpan == SpanLength(m) # 0 /\ Room(SpanLength(m)) /\ Affords(PrefixCharge(m, SpanLength(m)))

NativeSpan ==
    /\ frame.on /\ Room(1) /\ ~UsesLoop /\ UsesSpan
    /\ Retire(SpanLength(m), PrefixCharge(m, SpanLength(m)))

(* A load in a span may miss the bound windows: what ran before it is      *)
(* published, and the load goes to the checked service.                    *)
NativeSpanMiss ==
    /\ frame.on /\ Room(1) /\ ~UsesLoop /\ UsesSpan
    /\ \E k \in 1..(SpanLength(m) - 1) :
          /\ run.prog[m.pc + k].op = "load"
          /\ Retire(k, PrefixCharge(m, k))

NativeOp ==
    /\ frame.on /\ Room(1) /\ ~UsesLoop /\ ~UsesSpan
    /\ InsnAt(m).op \in NativeOps \cup Branches /\ Affords(CyclesOf(m))
    /\ Retire(1, CyclesOf(m))

(* nativeCheckedStep: the retired prefix is charged first, so that MMIO    *)
(* sees the right time; the worst stall is reserved before any effect.     *)
CheckedStep ==
    /\ frame.on /\ Room(1)
    /\ InsnAt(m).op \notin NativeOps \cup Branches \cup {"return"}
       \/ (InsnAt(m).op = "load" /\ ~UsesLoop)
    /\ frame.cycles <= frame.credit /\ Affords(Larger(InsnAt(m).c, InsnAt(m).tc) + MaxStall)
    /\ LET s == AdvanceTime(m, frame.cycles - frame.accounted)
           after == Execute(s)
           c == StepCycles(s, after)
           credit == Credit(after, CycleCap - frame.cycles)
           resume == /\ ~BoundaryPending(after) /\ after.hz = frame.hz /\ after.gen = frame.gen
                     /\ (Horizon(after) # NoPc => Horizon(after) > after.now)
                     /\ credit >= c
           fr == [frame EXCEPT !.count = @ + 1, !.cycles = @ + c, !.accounted = frame.cycles,
                               !.credit = IF resume THEN frame.cycles + credit ELSE 0]
       IN  /\ m' = after /\ frame' = fr /\ UNCHANGED <<ref, run>>

(* Back in Board::run: the cycles not yet accounted are charged and the    *)
(* boundary is settled.  A frame that retired nothing is a single step.    *)
NoProgress ==
    \/ ~Room(1) \/ frame.cycles >= frame.credit
    \/ InsnAt(m).op \in NativeOps \cup Branches /\ ~UsesLoop /\ ~UsesSpan /\ ~Affords(CyclesOf(m))
    \/ InsnAt(m).op \notin NativeOps \cup Branches
       /\ (InsnAt(m).op = "return" \/ ~Affords(Larger(InsnAt(m).c, InsnAt(m).tc) + MaxStall))

NativeExit ==
    /\ frame.on /\ NoProgress
    /\ IF frame.count = 0 THEN m' = SingleStep(m) /\ Follow(1)
       ELSE m' = SettledBoundary(AdvanceTime(m, frame.cycles - frame.accounted)) /\ Follow(frame.count)
    /\ frame' = NoFrame

BoardRunNext ==
    \/ StepSingle \/ StepBlock \/ NativeEnter \/ NativeLoop \/ NativeSpan \/ NativeSpanMiss
    \/ NativeOp \/ CheckedStep \/ NativeExit \/ StopRun

-----------------------------------------------------------------------------
(* How instructions are batched is invisible: at every scheduler boundary  *)
(* the board is where single stepping would be, to the cycle remainder,    *)
(* SysTick, the fetch phase, the pending events and the instruction after  *)
(* which each event was delivered; no batch runs over the deadline or the  *)
(* instruction budget.                                                     *)
BatchingInvisible ==
    /\ ~frame.on => m = ref
    /\ ~run.overran /\ m.n <= run.limit
    /\ frame.on => frame.cycles <= CycleCap
=============================================================================
