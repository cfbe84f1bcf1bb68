------------------------------ MODULE JitBlocks ------------------------------
(***************************************************************************)
(* The block engines of the CPU (src/cpu/cortex_m4.cpp): decoded blocks in *)
(* a direct-mapped cache, with a stencil kernel for their integer prefix   *)
(* and a native kernel for a prefix with loads and stores; native traces   *)
(* along the predicted path; and the scalar fallback inside IT blocks.     *)
(* Each engine takes some instructions within a cycle credit and says how  *)
(* many it retired and what they cost.  The reference is stepFast, one     *)
(* instruction at a time.                                                  *)
(*                                                                         *)
(* Memory is a word of RAM, a device register that the reversible engines  *)
(* must leave alone, and executable memory: Codes is the code it holds     *)
(* before and after each store into it.  The MMIO bridge of a committed    *)
(* span is left out: its native kernels decline every device access.       *)
(***************************************************************************)
EXTENDS Integers, Sequences, FiniteSets

CONSTANTS Codes,         \* one program per execution generation
          Rewritten,     \* generations whose program stores over itself
          FirstCodes,    \* generations to start in
          JitIndices,    \* slots of the block and trace caches
          MaxBlock,      \* JitStepOutcome::max_block
          MaxTrace,      \* NativeTracePlan::max_ops
          MinTrace,      \* the shortest trace worth compiling (8)
          CompileAt,     \* jit_compile_threshold
          TraceAt,       \* visits before a trace is compiled (64)
          TraceAttempts, \* compilations of one trace entry (4)
          BlockStreak,   \* reversible_decline_streak_limit
          TraceStreak,   \* native_decline_streak_limit
          FetchWait,     \* stall of a non-sequential fetch
          Profitable,    \* entries whose stencil kernel pays when measured
          Limits         \* the calls: [credit, most], cycles and instructions

ASSUME JitAssumption ==
    /\ FirstCodes \cup Rewritten \subseteq DOMAIN Codes
    /\ \A g \in Rewritten : g + 1 \in DOMAIN Codes
    /\ JitIndices \in Nat \ {0} /\ MaxBlock \in Nat \ {0} /\ FetchWait \in Nat
    /\ BlockStreak \in Nat \ {0} /\ TraceStreak \in Nat \ {0}

VARIABLES core,  \* the CPU and its memory
          jit,   \* the caches
          span   \* the verdict on the last call

JitVars == <<core, jit, span>>

JitIndex(pc) == pc % JitIndices

-----------------------------------------------------------------------------
(* Instructions: op, base cycles c, refill penalty pen, target to.         *)

InsnIn(gen, pc) == Codes[gen][pc]
Here(s) == InsnIn(s.gen, s.pc)

MemoryOps == {"load", "store", "ret"}
Lowerable == {"alu", "ptr", "b", "bc"}                    \* tryLowerMicroInst
NativeLowerable == {"alu", "ptr", "b", "bc", "load", "store", "ret"}
Fast == NativeLowerable \cup {"div"}                      \* classifyJitFast
Blockable == Fast \cup {"generic"}                        \* classifyJitBoundary
Terminators == {"b", "ret"}                               \* a taken bc ends itself

Passes(i, s) == IF s.it /\ i.op # "it" THEN s.r # 0 ELSE i.op = "bc" => s.r # 0

(* A data access that backed memory does not serve. *)
Declines(i, s, ramOnly) ==
    /\ i.op \in {"load", "store"}
    /\ s.p = "mmio" \/ (ramOnly /\ i.op = "store" /\ s.p = "code")

(* execute and executeJitFast: what one instruction does. *)
Effect(i, s) ==
    LET on == [s EXCEPT !.ia = s.pc, !.pc = @ + 1,
                        !.it = i.op = "it"]
    IN  IF ~Passes(i, s) THEN on
        ELSE CASE i.op \in {"alu", "generic"} -> [on EXCEPT !.r = 1 - @]
               [] i.op = "div" -> [on EXCEPT !.r = 0]
               [] i.op = "ptr" -> [on EXCEPT !.p = IF @ # "ram" THEN "ram"
                                                   ELSE IF s.r = 0 \/ s.gen \notin Rewritten
                                                   THEN "mmio" ELSE "code"]
               [] i.op = "load" -> [on EXCEPT !.r = IF s.p = "ram" THEN s.w ELSE 1]
               [] i.op = "store" -> IF s.p = "code" THEN [on EXCEPT !.gen = @ + 1, !.p = "ram"]
                                    ELSE IF s.p = "ram" THEN [on EXCEPT !.w = s.r] ELSE on
               [] i.op \in {"b", "bc"} -> [on EXCEPT !.pc = i.to]
               [] i.op = "ret" -> [on EXCEPT !.pc = IF s.w = 0 THEN i.to ELSE 1]
               [] OTHER -> on

DivideCycles(i, s) == i.c + 2 * s.r
BaseCycles(i, s) ==
    IF ~Passes(i, s) THEN 1 ELSE IF i.op = "div" THEN DivideCycles(i, s) ELSE i.c

(* stepFast: the refill is charged when the PC proves discontinuous. *)
StepCost(i, s) ==
    BaseCycles(i, s) + (IF Passes(i, s) /\ Effect(i, s).pc # s.pc + 1 THEN i.pen ELSE 0)

(* peekPipelineCycles: the cost read off the state before the step, with   *)
(* a direct branch's target; a loaded target is only bounded.              *)
PeekCycles(i, s) ==
    IF ~Passes(i, s) THEN 1
    ELSE IF i.op = "div" THEN DivideCycles(i, s)
    ELSE i.c + (IF i.op = "ret" \/ (i.op \in {"b", "bc"} /\ i.to # s.pc + 1) THEN i.pen ELSE 0)

FetchStall(pc, fe) == IF pc = fe THEN 0 ELSE FetchWait

(* A run in progress: the CPU, credit left, fetch phase, what it retired,  *)
(* its pipeline cycles, and why it ended.                                  *)
Entered(s, credit, fe) ==
    [s |-> s, left |-> credit, fe |-> fe, n |-> 0, cyc |-> 0, why |-> "none"]

Charge(x, i, cycles) ==
    LET pc == x.s.pc
    IN  [x EXCEPT !.s = Effect(i, x.s), !.n = @ + 1, !.cyc = @ + cycles,
                  !.left = @ - (cycles + FetchStall(pc, x.fe)), !.fe = pc + 1]

Ended(x, why) == [x EXCEPT !.why = why]

Stepped(s, credit, fe, n) ==
    LET at[k \in 0 .. n] == IF k = 0 THEN Entered(s, credit, fe)
                            ELSE LET x == at[k - 1]
                                 IN  Charge(x, Here(x.s), StepCost(Here(x.s), x.s))
    IN  at[n]

-----------------------------------------------------------------------------
(* Decoded blocks *)

NoBlock == [pc |-> 0, gen |-> 0, ready |-> FALSE, count |-> 0, micro |-> FALSE,
            streak |-> 0, declined |-> "none"]
NoTrace == [pc |-> 0, gen |-> 0, plan |-> <<>>, hot |-> 0, attempts |-> 0,
            declined |-> "none", streak |-> 0]

(* A branch profile: a two-bit counter, or the last target of a return.    *)
NoProfile == -1

NothingSpanned == [exact |-> TRUE, replays |-> TRUE]

JitInit ==
    /\ core \in [pc : {1}, ia : {0}, r : {0, 1}, p : {"ram", "mmio", "code"}, w : {0, 1},
                 it : {FALSE}, gen : FirstCodes]
    /\ core.p = "code" => core.gen \in Rewritten
    /\ jit = [blocks |-> [x \in 0 .. JitIndices - 1 |-> NoBlock],
              hot |-> [x \in 0 .. JitIndices - 1 |-> 0],
              traces |-> [x \in 0 .. JitIndices - 1 |-> NoTrace],
              profiles |-> [pc \in 1 .. Len(Codes[1]) |-> NoProfile]]
    /\ span = NothingSpanned

(* Instructions in a row of the given classes, from every entry. *)
Leading(ops) ==
    LET fits(gen, pc, n) == \A k \in 0 .. n - 1 :
                      pc + k <= Len(Codes[gen]) /\ InsnIn(gen, pc + k).op \in ops
    IN  [gen \in DOMAIN Codes |-> [pc \in DOMAIN Codes[gen] |->
            CHOOSE n \in 0 .. MaxBlock : fits(gen, pc, n) /\ (n = MaxBlock \/ ~fits(gen, pc, n + 1))]]

AtMost(a, b) == IF a <= b THEN a ELSE b

(* prepareJitBlock decodes up to and with the first unconditional branch:  *)
(* blocks flow through conditional branches that are not taken.            *)
Supported == Leading(Blockable)
Open == Leading(Blockable \ Terminators)
BlockCount(gen, pc) ==
    AtMost(Open[gen][pc] + 1, Supported[gen][pc])

(* prepareMicroBlock and prepareNativeBlock: the prefixes with a kernel. *)
Lowered == Leading(Lowerable)
MicroPrefix(b) ==
    LET n == AtMost(b.count, Lowered[b.gen][b.pc])
    IN  IF b.micro /\ n >= 2 THEN n ELSE 0

Straight == Leading(NativeLowerable \ {"b", "bc", "ret"})
NativePrefix(b) ==
    LET n == AtMost(b.count, Straight[b.gen][b.pc])
        touches == \E k \in 0 .. n - 1 : InsnIn(b.gen, b.pc + k).op \in MemoryOps
    IN  IF n >= 2 /\ touches THEN n ELSE 0

Block(c, s) == c.blocks[JitIndex(s.pc)]

(* Seeded fault: a block outlives the code it was decoded from. *)
MatchesAddress(b, s) == b.pc = s.pc

Matches(b, s) == b.pc = s.pc /\ b.gen = s.gen
Usable(b, s) == b.ready /\ Matches(b, s) /\ ~s.it

(* prepareJitBlock: counts visits, then decodes.  A failed attempt is      *)
(* remembered; whether the stencil pays is measured.                       *)
Decoded(c, s, count, single) ==
    LET ready == count # 0 /\ (single \/ count >= 2)
        fresh == [NoBlock EXCEPT !.pc = s.pc, !.gen = s.gen, !.count = count,
                                 !.ready = ready, !.micro = ready /\ s.pc \in Profitable]
    IN  [ok |-> ready, c |-> [c EXCEPT !.blocks[JitIndex(s.pc)] = fresh]]

PrepareJitBlock(c, s, single) ==
    LET x == JitIndex(s.pc)
        b == Block(c, s)
    IN  IF s.it THEN [ok |-> FALSE, c |-> c]
        ELSE IF Matches(b, s) /\ b.ready THEN [ok |-> single \/ b.count >= 2, c |-> c]
        ELSE IF Matches(b, s) /\ (~single \/ b.count # 1) THEN [ok |-> FALSE, c |-> c]
        ELSE IF c.hot[x] < CompileAt THEN [ok |-> FALSE, c |-> [c EXCEPT !.hot[x] = @ + 1]]
        ELSE Decoded(c, s, BlockCount(s.gen, s.pc), single)

-----------------------------------------------------------------------------
(* executeTrustedReversibleJitBlock *)

(* The native kernel admits each instruction against the credit before it  *)
(* runs, and stops in front of an access that memory does not serve.       *)
NativeKernel(b, x0, limit) ==
    LET at[k \in 0 .. limit] ==
          IF k = 0 THEN x0
          ELSE LET x == at[k - 1]
                   i == InsnIn(b.gen, b.pc + k - 1)
               IN  IF x.why # "none" THEN x
                   ELSE IF i.c + FetchStall(x.s.pc, x.fe) > x.left THEN Ended(x, "credit")
                   ELSE IF Declines(i, x.s, TRUE) THEN Ended(x, "declined")
                   ELSE Charge(x, i, i.c)
    IN  at[limit]

(* Seeded fault: the planned charges of the tail are kept. *)
NoRefund(b, x, y, planned) ==
    y.left + (IF x.why = "taken" THEN 0 - InsnIn(b.gen, b.pc + x.n - 1).pen ELSE 0)

(* The credit after a planned run: branches that fell through cost one     *)
(* cycle, the tail after a taken branch nothing, and the refill is charged *)
(* once, where the PC is discontinuous.                                    *)
MicroRefund(b, x, y, planned) ==
    LET op(k) == InsnIn(b.gen, b.pc + k - 1)
        total[k \in 0 .. planned] ==
            IF k = 0 THEN 0
            ELSE total[k - 1] + (IF k > x.n THEN op(k).c
                                 ELSE IF op(k).op = "bc" /\ ~(k = x.n /\ x.why = "taken")
                                 THEN op(k).c - 1 ELSE 0)
    IN  y.left + total[planned] - (IF x.why = "taken" THEN op(x.n).pen ELSE 0)

(* The stencil plans its prefix along the fall-through path, with every    *)
(* refill affordable, and runs until a branch is taken.                    *)
MicroKernel(b, x0, limit, budgeted) ==
    LET plan[k \in 0 .. limit] ==
          IF k = 0 THEN [n |-> 0, left |-> x0.left, fe |-> x0.fe, open |-> TRUE, short |-> FALSE]
          ELSE LET y == plan[k - 1]
                   i == InsnIn(b.gen, b.pc + k - 1)
                   stall == FetchStall(b.pc + k - 1, y.fe)
               IN  IF ~y.open THEN y
                   ELSE IF i.c + i.pen + stall > y.left
                        THEN [y EXCEPT !.open = FALSE, !.short = TRUE]
                   ELSE [n |-> k, left |-> y.left - (i.c + stall), fe |-> b.pc + k,
                         open |-> i.op \notin Terminators, short |-> FALSE]
        planned == IF budgeted THEN plan[limit].n ELSE limit
        run[k \in 0 .. planned] ==
          IF k = 0 THEN x0
          ELSE LET x == run[k - 1]
                   i == InsnIn(b.gen, b.pc + k - 1)
                   y == Charge(x, i, StepCost(i, x.s))
               IN  IF x.why # "none" THEN x
                   ELSE IF y.s.pc # x.s.pc + 1 THEN Ended(y, "taken") ELSE y
        x == run[planned]
        y == IF budgeted THEN [x EXCEPT !.left = MicroRefund(b, x, plan[limit], planned)] ELSE x
    IN  IF planned = 0 THEN Ended(x0, "unplanned")
        ELSE IF y.why = "none" /\ budgeted /\ plan[limit].short THEN Ended(y, "credit") ELSE y

(* The cached handlers, from the instructions a kernel has retired on. *)
CachedHandlers(b, x0, limit, budgeted) ==
    LET at[k \in x0.n .. limit] ==
          IF k = x0.n THEN x0
          ELSE LET x == at[k - 1]
                   i == InsnIn(b.gen, b.pc + k - 1)
                   worst == BaseCycles(i, x.s) + (IF Passes(i, x.s) THEN i.pen ELSE 0)
                              + FetchStall(x.s.pc, x.fe)
                   y == Charge(x, i, StepCost(i, x.s))
               IN  IF x.why # "none" THEN x
                   ELSE IF x.s.pc # b.pc + k - 1 \/ i.op \notin Fast THEN Ended(x, "left")
                   ELSE IF budgeted /\ worst > x.left THEN Ended(x, "truncated")
                   ELSE IF Declines(i, x.s, TRUE) THEN Ended(x, "handler_declined")
                   ELSE IF y.s.pc # x.s.pc + 1 \/ i.op \in Terminators THEN Ended(y, "left")
                   ELSE y
    IN  at[limit]

(* The address an access would have: here, what the pointer names. *)
FirstAddress(s) == s.p

(* Branches the handlers and the stencil retired feed the profiles of the  *)
(* trace builder.                                                          *)
ObserveBranch(bias, taken) ==
    IF bias = NoProfile THEN (IF taken THEN 3 ELSE 0)
    ELSE IF taken THEN AtMost(3, bias + 1) ELSE IF bias > 0 THEN bias - 1 ELSE 0

Observed(c, b, from, x) ==
    LET at(k) == InsnIn(b.gen, b.pc + k)
        last == x.n - 1
        seen == {k \in from .. last : at(k).op \in {"bc", "ret"}}
        wasTaken(k) == k = last /\ x.s.pc # b.pc + x.n
    IN  [c EXCEPT !.profiles = [pc \in DOMAIN @ |->
            IF pc - b.pc \notin seen THEN @[pc]
            ELSE IF at(pc - b.pc).op = "ret" THEN x.s.pc
            ELSE ObserveBranch(@[pc], wasTaken(pc - b.pc))]]

(* The end of a block entry: x1 is what the native kernel left, x what the *)
(* whole entry did.  Retiring clears the streak of declines.               *)
BlockEnd(c, s, x1, from, x) ==
    LET b == Block(c, s)
        first == IF x1.n # 0 THEN "none"
                 ELSE IF x1.why = "declined" THEN FirstAddress(s) ELSE b.declined
        streak == IF x.n # 0 THEN 0
                  ELSE IF x.why \in {"truncated", "unplanned"} THEN b.streak
                  ELSE b.streak + 1
        noted == [b EXCEPT !.declined = first, !.streak = streak]
    IN  [x |-> x,
         c |-> Observed([c EXCEPT !.blocks[JitIndex(s.pc)] = noted], b, from, x)]

(* The native kernel (x1), the stencil (x2) and the handlers in turn. *)
AfterMicro(c, s, x1, x2, limit, budgeted) ==
    BlockEnd(c, s, x1, IF budgeted THEN x1.n ELSE x2.n,
             IF x1.why = "none" /\ x2.why = "none"
             THEN CachedHandlers(Block(c, s), x2, limit, budgeted) ELSE x2)

AfterNative(c, s, x0, x1, limit, budgeted) ==
    LET b == Block(c, s)
        micro == AtMost(limit, MicroPrefix(b))
    IN  AfterMicro(c, s, x1,
                   IF micro # 0 /\ x1.n = 0 THEN MicroKernel(b, x0, micro, budgeted) ELSE x1,
                   limit, budgeted)

ExecuteTrusted(c, s, most, credit, fe, budgeted) ==
    LET x0 == Entered(s, credit, fe)
        b == Block(c, s)
        limit == AtMost(most, b.count)
        native == budgeted /\ NativePrefix(b) # 0 /\ b.declined # FirstAddress(s)
    IN  IF ~Usable(b, s) \/ b.streak >= BlockStreak THEN [x |-> x0, c |-> c]
        ELSE AfterNative(c, s, x0,
                         IF native THEN NativeKernel(b, x0, AtMost(limit, NativePrefix(b))) ELSE x0,
                         limit, budgeted)

(* tryStepItScalarFallback: an IT instruction, or one instruction in its   *)
(* block, admitted at the cost of the condition passing.                   *)
ItScalar(s, credit, fe, budgeted) ==
    LET x == Entered(s, credit, fe)
        i == Here(s)
        safe == IF s.it THEN i.op = "alu" ELSE i.op = "it"
    IN  IF ~safe \/ (budgeted /\ i.c + FetchStall(s.pc, fe) > credit) THEN x
        ELSE Charge(x, i, StepCost(i, s))

-----------------------------------------------------------------------------
(* Native traces *)

(* The predicted path from pc; it ends where an instruction is not lowered *)
(* or its successor was never observed.                                    *)
Predicted(c, gen, pc) ==
    LET i == InsnIn(gen, pc)
        taken == i.op = "b" \/ (i.op = "bc" /\ c.profiles[pc] >= 2)
        next == IF i.op = "ret" THEN c.profiles[pc] ELSE IF taken THEN i.to ELSE pc + 1
        branch == i.op \in {"b", "bc", "ret"}
        cyc == (IF i.op = "bc" /\ ~taken THEN 1 ELSE i.c)
                 + (IF branch /\ (taken \/ i.op = "ret") /\ next # pc + 1 THEN i.pen ELSE 0)
    IN  [pc |-> pc, next |-> next, cyc |-> cyc]

Traceable(c, gen, pc) ==
    /\ pc <= Len(Codes[gen]) /\ InsnIn(gen, pc).op \in NativeLowerable
    /\ InsnIn(gen, pc).op \in {"bc", "ret"} => c.profiles[pc] # NoProfile

TracePlan(c, gen, pc) ==
    LET path[k \in 0 .. MaxTrace] ==
          IF k = 0 THEN <<>>
          ELSE LET t == path[k - 1]
                   at == IF k = 1 THEN pc ELSE t[k - 1].next
               IN  IF Len(t) # k - 1 \/ ~Traceable(c, gen, at) THEN t
                   ELSE Append(t, Predicted(c, gen, at))
        t == path[MaxTrace]
        worth == \E k \in DOMAIN t : InsnIn(gen, t[k].pc).op \in MemoryOps \cup {"b", "bc"}
    IN  IF Len(t) >= MinTrace /\ worth THEN t ELSE <<>>

(* A detailed trace is cut where it would visit an instruction again. *)
DetailedPrefix(plan) ==
    CHOOSE n \in 1 .. Len(plan) :
        /\ \A j, k \in 1 .. n : j # k => plan[j].pc # plan[k].pc
        /\ n = Len(plan) \/ \E j \in 1 .. n : plan[j].pc = plan[n + 1].pc

(* Seeded fault: the prefix sums leave the fetch stalls out. *)
ChargedWithoutStalls(plan, n) ==
    LET sum[k \in 0 .. n] == IF k = 0 THEN 0 ELSE sum[k - 1] + plan[k].cyc IN sum[n]

(* charged_prefix without the first stall, which depends on the entry. *)
ChargedPrefix(plan, n) ==
    LET sum[k \in 0 .. n] ==
          IF k = 0 THEN 0
          ELSE sum[k - 1] + plan[k].cyc
                 + (IF k = 1 THEN 0 ELSE FetchStall(plan[k].pc, plan[k - 1].pc + 1))
    IN  sum[n]

(* The compiled trace: it runs while the path is the predicted one.  A     *)
(* return that goes elsewhere is retired and ends the trace.               *)
TraceKernel(plan, gen, x0, planned) ==
    LET at[k \in 0 .. planned] ==
          IF k = 0 THEN x0
          ELSE LET x == at[k - 1]
                   i == InsnIn(gen, plan[k].pc)
                   y == Charge(x, i, plan[k].cyc)
               IN  IF x.why # "none" THEN x
                   ELSE IF Declines(i, x.s, TRUE) THEN Ended(x, "declined")
                   ELSE IF y.s.pc = plan[k].next THEN y
                   ELSE IF i.op = "ret" THEN Ended(y, "dynamic_return")
                   ELSE Ended(x, "mismatch")
    IN  at[planned]

(* executeNativeTrace, after tryStepNativeTrace found a plan. *)
TraceEnd(c, s, run) ==
    LET lost == run.n = 0 /\ run.why = "mismatch"
    IN  [x |-> run,
         c |-> [c EXCEPT !.traces[JitIndex(s.pc)] =
            [@ EXCEPT !.declined = IF run.n # 0 THEN "none"
                                   ELSE IF run.why = "declined" THEN FirstAddress(s) ELSE @,
                      !.streak = (IF run.n # 0 THEN 0 ELSE @)
                                   + (IF run.why = "declined" THEN 1 ELSE 0),
                      !.plan = IF lost THEN <<>> ELSE @,
                      !.hot = IF lost THEN 0 ELSE @]]]

ExecuteTrace(c, s, most, credit, fe, detailed) ==
    LET e == c.traces[JitIndex(s.pc)]
        limit == AtMost(most, IF detailed THEN DetailedPrefix(e.plan) ELSE Len(e.plan))
        first == FetchStall(s.pc, fe)
        planned == CHOOSE n \in 0 .. limit :
                      /\ n = 0 \/ first + ChargedPrefix(e.plan, n) <= credit
                      /\ n = limit \/ first + ChargedPrefix(e.plan, n + 1) > credit
        refused == \/ e.declined = FirstAddress(s) \/ e.streak >= TraceStreak
                   \/ first > credit \/ planned = 0
    IN  IF refused THEN [x |-> Entered(s, credit, fe), c |-> c]
        ELSE TraceEnd(c, s, TraceKernel(e.plan, e.gen, Entered(s, credit, fe), planned))

(* tryStepNativeTrace: retarget, count visits, compile, run. *)
TraceEntry(c, s) ==
    LET e == c.traces[JitIndex(s.pc)]
    IN  IF e.pc = s.pc /\ e.gen = s.gen THEN e ELSE [NoTrace EXCEPT !.pc = s.pc, !.gen = s.gen]

Learned(c, e) ==
    IF e.plan # <<>> \/ e.attempts >= TraceAttempts THEN e
    ELSE IF e.hot + 1 < TraceAt THEN [e EXCEPT !.hot = @ + 1]
    ELSE [e EXCEPT !.hot = 0, !.attempts = @ + 1, !.plan = TracePlan(c, e.gen, e.pc)]

TryTrace(c, s, most, credit, fe, detailed) ==
    LET x == JitIndex(s.pc)
        tried == [c EXCEPT !.traces[x] = Learned(c, TraceEntry(c, s))]
    IN  IF tried.traces[x].plan = <<>> THEN [x |-> Entered(s, credit, fe), c |-> tried]
        ELSE ExecuteTrace(tried, s, most, credit, fe, detailed)

-----------------------------------------------------------------------------
(* The entry points *)

(* A block, or one instruction of an IT block. *)
BlockOrScalar(prepared, s, most, credit, fe, budgeted) ==
    IF prepared.ok THEN ExecuteTrusted(prepared.c, s, most, credit, fe, budgeted)
    ELSE [x |-> ItScalar(s, credit, fe, budgeted), c |-> prepared.c]

AfterTrace(trace, s, most, credit, fe) ==
    IF trace.x.n # 0 THEN trace
    ELSE BlockOrScalar(PrepareJitBlock(trace.c, s, TRUE), s, most, credit, fe, TRUE)

(* tryStepBudgetedReversibleJitBlock and, without the trace, the block     *)
(* step of a committed span.                                               *)
TryBudgeted(c, s, most, credit, fe, traced) ==
    AfterTrace(IF traced /\ ~s.it THEN TryTrace(c, s, most, credit, fe, TRUE)
               ELSE [x |-> Entered(s, credit, fe), c |-> c], s, most, credit, fe)

(* tryStepCommittedRamSpan: a trace, or a block and the rest of an IT      *)
(* block it entered.                                                       *)
WithItRest(block, most) ==
    LET rest == ItScalar(block.x.s, block.x.left, block.x.fe, TRUE)
    IN  IF block.x.n # 0 /\ block.x.s.it /\ block.x.n < most /\ rest.n # 0
        THEN [block EXCEPT !.x = [rest EXCEPT !.n = block.x.n + 1, !.cyc = block.x.cyc + @]]
        ELSE block

CommitAfterTrace(trace, s, most, credit, fe) ==
    IF trace.x.n # 0 THEN trace
    ELSE WithItRest(TryBudgeted(trace.c, s, most, credit, fe, FALSE), most)

TryCommitted(c, s, most, credit, fe) ==
    CommitAfterTrace(IF s.it THEN [x |-> Entered(s, credit, fe), c |-> c]
                     ELSE TryTrace(c, s, most, credit, fe, FALSE), s, most, credit, fe)

(* tryStepReversibleJitBlock: replays instructions that were admitted. *)
TryReversible(c, s, most, fe) ==
    BlockOrScalar(PrepareJitBlock(c, s, TRUE), s, most, 0, fe, FALSE)

(* tryStepCheckedSingle: the whole charge is admitted before any effect;   *)
(* a target that is loaded from memory cannot be priced.                   *)
TryCheckedSingle(s, credit, fe) ==
    LET x == Entered(s, credit, fe)
        i == Here(s)
    IN  IF i.op = "ret" \/ PeekCycles(i, s) + FetchStall(s.pc, fe) > credit THEN x
        ELSE Charge(x, i, StepCost(i, s))

(* tryStepJitBlockImpl: stores may reach executable memory, and generic    *)
(* instructions run too; nothing decoded before a code change runs after.  *)
PureBlock(b) ==
    \A k \in 0 .. b.count - 1 :
        LET i == InsnIn(b.gen, b.pc + k)
        IN  i.op \in Fast \ (MemoryOps \cup {"div", "bc"})

(* Seeded fault: the rest of the block runs although a store changed it. *)
OldCode(b, x) == FALSE

CodeChanged(b, x) == x.s.gen # b.gen

SlowLoop(b, x0, limit) ==
    LET at[k \in x0.n .. limit] ==
          IF k = x0.n THEN x0
          ELSE LET x == at[k - 1]
                   i == InsnIn(b.gen, b.pc + k - 1)
                   y == Charge(x, i, StepCost(i, x.s))
               IN  IF x.why # "none" THEN x
                   ELSE IF CodeChanged(b, x) \/ x.s.pc # b.pc + k - 1 THEN Ended(x, "left")
                   ELSE IF Declines(i, x.s, FALSE)
                        THEN Ended([x EXCEPT !.s.ia = x.s.pc], "stopped")
                   ELSE IF i.op \in Terminators THEN Ended(y, "left") ELSE y
    IN  at[limit]

(* The pure path runs the capped block and takes the suffix off its sum. *)
PureLoop(b, x0, limit) ==
    LET sum[k \in 0 .. b.count] == IF k = 0 THEN 0 ELSE sum[k - 1] + InsnIn(b.gen, b.pc + k - 1).c
        last == InsnIn(b.gen, b.pc + limit - 1)
        run[k \in 0 .. limit] == IF k = 0 THEN x0.s ELSE Effect(InsnIn(b.gen, b.pc + k - 1), run[k - 1])
        taken == limit = b.count /\ run[limit].pc # b.pc + limit
    IN  [x0 EXCEPT !.s = run[limit], !.n = limit, !.fe = b.pc + limit,
                   !.cyc = sum[b.count] - (sum[b.count] - sum[limit]) + (IF taken THEN last.pen ELSE 0)]

Loop(b, x0, x1, limit) ==
    IF x1.n = 0 /\ PureBlock(b) THEN PureLoop(b, x0, limit)
    ELSE SlowLoop(b, [x1 EXCEPT !.why = "none"], limit)

RunPrepared(prepared, s, most, fe) ==
    LET b == Block(prepared.c, s)
        x0 == Entered(s, 0, fe)
        limit == AtMost(most, b.count)
        micro == AtMost(limit, MicroPrefix(b))
    IN  [x |-> IF ~prepared.ok THEN x0
               ELSE Loop(b, x0, IF micro # 0 THEN MicroKernel(b, x0, micro, FALSE) ELSE x0, limit),
         c |-> prepared.c]

TryJitBlock(c, s, most, fe) == RunPrepared(PrepareJitBlock(c, s, FALSE), s, most, fe)

(* prepareAndPeekJitBlock: the cycles a scheduler may count on, exact for  *)
(* the leading run and a ceiling for the rest of the memory-free prefix.   *)
PreviewCycles(i, pc) ==
    (IF i.op = "div" THEN DivideCycles(i, [r |-> 1]) ELSE i.c)
      + (IF i.op = "b" /\ i.to = pc + 1 THEN 0 ELSE i.pen)

PreviewExact(i) == i.op \notin MemoryOps \cup {"div", "bc"}

Preview(b, n) ==
    LET sum[k \in 0 .. n] ==
          IF k = 0 THEN 0 ELSE sum[k - 1] + PreviewCycles(InsnIn(b.gen, b.pc + k - 1), b.pc + k - 1)
    IN  sum[n]

PreviewHolds(b, x) ==
    LET at(k) == InsnIn(b.gen, b.pc + k)
        free == \A k \in 0 .. x.n - 1 : at(k).op \notin MemoryOps
        exact == \A k \in 0 .. x.n - 1 : PreviewExact(at(k))
    IN  /\ free => x.cyc <= Preview(b, x.n)
        /\ exact => x.cyc = Preview(b, x.n)

-----------------------------------------------------------------------------
(* Calls.  The board gives a credit and its fetch phase. *)

(* What an engine retired is what single steps would have done.  A plain   *)
(* block that stopped at an access names it as the current instruction.    *)
Exactly(s, credit, fe, x, budgeted) ==
    LET y == Stepped(s, credit, fe, x.n)
    IN  /\ x.s = (IF x.why = "stopped" THEN [y.s EXCEPT !.ia = y.s.pc] ELSE y.s)
        /\ x.cyc = y.cyc
        /\ budgeted => x.left = y.left /\ x.left >= 0 /\ x.fe = y.fe

(* No access that the engine must leave to a single step was made. *)
Untouched(s, n, ramOnly) ==
    \A k \in 0 .. n - 1 :
        LET y == Stepped(s, 0, 0, k).s IN ~Declines(Here(y), y, ramOnly)

FetchPhases == {0, core.pc}

(* Profiles of an older generation are not used. *)
Called(done, ok, replays) ==
    /\ core' = done.x.s
    /\ jit' = IF done.x.s.gen = core.gen THEN done.c
              ELSE [done.c EXCEPT !.profiles = [pc \in DOMAIN @ |-> NoProfile]]
    /\ span' = [exact |-> ok, replays |-> replays]

SpeculateStep ==
    \E l \in Limits, fe \in FetchPhases :
        \E done \in {TryBudgeted(jit, core, l.most, l.credit, fe, TRUE)} :
            Called(done, /\ Exactly(core, l.credit, fe, done.x, TRUE)
                         /\ Untouched(core, done.x.n, TRUE),
                   done.x.n = 0 \/ TryReversible(done.c, core, done.x.n, fe).x.n # 0)

CommitSpan ==
    \E l \in Limits, fe \in FetchPhases :
        \E done \in {TryCommitted(jit, core, l.most, l.credit, fe)} :
            Called(done, /\ Exactly(core, l.credit, fe, done.x, TRUE)
                         /\ Untouched(core, done.x.n, TRUE), TRUE)

ReplayStep ==
    \E l \in Limits :
        \E done \in {TryReversible(jit, core, l.most, 0)} :
            Called(done, /\ Exactly(core, 0, 0, done.x, FALSE)
                         /\ Untouched(core, done.x.n, TRUE), TRUE)

CheckedSingleStep ==
    \E l \in Limits, fe \in FetchPhases :
        \E x \in {TryCheckedSingle(core, l.credit, fe)} :
            Called([x |-> x, c |-> jit], Exactly(core, l.credit, fe, x, TRUE), TRUE)

BlockStep ==
    \E l \in Limits :
        \E done \in {TryJitBlock(jit, core, l.most, 0)} :
            Called(done, /\ Exactly(core, 0, 0, done.x, FALSE)
                         /\ Untouched(core, done.x.n, FALSE)
                         /\ done.x.n # 0 => PreviewHolds(Block(done.c, core), done.x), TRUE)

(* stepFast, the reference itself; its cost was predicted or bounded. *)
PlainStep ==
    LET i == Here(core)
        ok == IF i.op = "ret" THEN StepCost(i, core) <= PeekCycles(i, core)
              ELSE StepCost(i, core) = PeekCycles(i, core)
    IN  Called([x |-> Stepped(core, 0, 0, 1), c |-> jit], ok, TRUE)

JitNext == SpeculateStep \/ CommitSpan \/ ReplayStep \/ CheckedSingleStep \/ BlockStep \/ PlainStep

-----------------------------------------------------------------------------
(* Whatever engine runs and however it was cut by its credit, a taken      *)
(* branch, a declined access or a store into code, the CPU, its memory and *)
(* the cycles charged are those of single steps; an engine that declines   *)
(* leaves everything alone, and the credit is never overdrawn.             *)
SpansExact == span.exact

(* An interrupted capsule replays what it had retired (board.cpp:1416-1418 *)
(* "The same path also makes every chained block cut replayable").         *)
CutsReplay == span.replays
=============================================================================
