----------------------------- MODULE WorldExact -----------------------------
(***************************************************************************)
(* World::run, the exact scheduler: one shared clock, every board a lane   *)
(* with at most one instruction in flight.  Events due at a time run       *)
(* first, then every completion, then every start in board order.          *)
(*                                                                         *)
(* With RAM capsules a lane may instead admit a certified private prefix:  *)
(* several instructions evaluated ahead, whose effects can be taken back   *)
(* and whose completion times are known.  An observer - an event callback, *)
(* or a bus delivery in the middle of another lane's instruction - first   *)
(* materialises the part of each prefix that instruction-by-instruction    *)
(* dispatch would have started by then; the rest is rolled back.  Firmware *)
(* is a cyclic program of durations and kinds.                             *)
(***************************************************************************)
EXTENDS Integers, Sequences, FiniteSets

CONSTANTS
    Lanes,          \* 0 .. n-1, in board order
    Programs,       \* choices of one program per lane
    RunOptions,     \* the WorldRunOptions tried
    EventDelay,     \* MMIO that schedules an event does so this far ahead
    MaxPrefix,      \* the longest prefix a lane admits
    MaxClock        \* bound: an unlimited run is followed up to this time

ASSUME WorldExactAssumption ==
    /\ Lanes = 0..(Cardinality(Lanes) - 1) /\ EventDelay \in Nat \ {0} /\ MaxPrefix \in Nat
    /\ \A ps \in Programs : \A b \in Lanes : \A k \in DOMAIN ps[b] : ps[b][k].d \in Nat

VARIABLE wx

N == Cardinality(Lanes)
Lowest(S) == CHOOSE x \in S : \A y \in S : x <= y
None == -1

(* Instruction k (from 0) of a lane.                                       *)
Instr(w, b, k) == w.prog[b][(k % Len(w.prog[b])) + 1]
Deferrable(i) == i.k = "pure" /\ i.d > 0

(* exec counts the instructions started for good, done the retired ones;   *)
(* cap is the completion times of an admitted prefix.                      *)
NewLane(t) == [exec |-> 0, done |-> 0, phase |-> "ready", ready |-> t, cap |-> <<>>,
               same |-> 0, why |-> "instruction_budget"]

Stopped(lane, why) == [lane EXCEPT !.phase = "stopped", !.why = why]

(* Only the debugger's board is subject to debug_run.                      *)
LimitOf(w, b) == IF w.opt.debug = b THEN w.opt.debugLimit ELSE w.opt.limit

ExactInit ==
    \E prog \in Programs, opt \in RunOptions :
        wx = [prog |-> prog, opt |-> opt, phase |-> "complete", now |-> 0, at |-> 0,
              until |-> 0, events |-> {}, seq |-> 0, dispatchTime |-> 0,
              lane |-> [b \in Lanes |->
                 IF opt.debug = b /\ opt.held THEN Stopped(NewLane(0), "halted")
                 ELSE IF opt.limit = 0 THEN Stopped(NewLane(0), "instruction_budget")
                 ELSE NewLane(0)],
              stop |-> FALSE, timeUp |-> FALSE, failed |-> FALSE, result |-> "none",
              seen |-> [t |-> None], waited |-> [b \in Lanes |-> 0]]

InFlight(lane) == lane.phase \in {"step", "deferred"}
Runnable(lane) == lane.phase # "stopped"

-----------------------------------------------------------------------------
(* Seeded fault: a boundary exactly at the observation is left out.        *)
CutCountLate(cap, at) ==
    LET before == Cardinality({k \in 1..Len(cap) : cap[k] <= at})
    IN  IF before = Len(cap) THEN before ELSE before + 1

(* cutCount: the completions before a time, and the instruction under way. *)
CutCount(cap, at) ==
    LET before == Cardinality({k \in 1..Len(cap) : cap[k] < at})
    IN  IF before = Len(cap) THEN before ELSE before + 1

(* materialize_deferred for one lane.  At a delivery, dispatcher is the    *)
(* lane whose instruction delivers: a boundary at this very time has been  *)
(* completed already, and lanes before it in board order have started      *)
(* their next instruction.                                                 *)
Materialized(w, b, at, dispatcher) ==
    LET lane == w.lane[b]
        n == CutCount(lane.cap, at)
        cut == [lane EXCEPT !.exec = @ + n, !.ready = lane.cap[n], !.cap = <<>>]
    IN  IF dispatcher = N \/ lane.cap[n] # at THEN cut
        ELSE LET done == [cut EXCEPT !.phase = "ready", !.done = cut.exec]
             IN  IF done.done >= w.opt.limit THEN Stopped(done, "instruction_budget")
                 ELSE IF b < dispatcher
                 THEN [done EXCEPT !.phase = "step", !.exec = @ + 1, !.same = @ + 1,
                                   !.ready = at + Instr(w, b, done.exec).d]
                 ELSE done

(* The lanes in set S that hold a prefix are materialised, either all of   *)
(* them or only those whose prefix ends by then.                           *)
Materialize(w, S, at, all, dispatcher) ==
    [w EXCEPT !.lane = [b \in Lanes |->
        IF b \in S /\ w.lane[b].cap # <<>> /\ (all \/ w.lane[b].ready <= at)
        THEN Materialized(w, b, at, dispatcher) ELSE @[b]]]

(* What an observer sees of the lanes it may look at.                      *)
Observe(w, S, at, by) ==
    [w EXCEPT !.seen = [t |-> at, by |-> by, lanes |-> S, exec |-> [b \in S |-> w.lane[b].exec]]]

-----------------------------------------------------------------------------
Failures == {"fault", "lockup"}

(* One lane's completion at the frontier.  A step that did not complete    *)
(* ends its board: "fail" is a fetch or decode that faulted and retired    *)
(* nothing, "halt" a BKPT, which counts as retired and is a success.       *)
Completed(w, b) ==
    LET lane == w.lane[b]
        i == Instr(w, b, lane.exec - 1)
        isDebug == w.opt.debug = b
        done == [lane EXCEPT !.phase = "ready", !.done = lane.exec]
    IN  IF i.k = "fail"
        THEN [w EXCEPT !.lane[b] = Stopped([lane EXCEPT !.done = lane.exec - 1], "fault"),
                       !.failed = TRUE, !.stop = @ \/ isDebug \/ w.opt.stopOnFailure]
        ELSE IF i.k = "halt"
        THEN [w EXCEPT !.lane[b] = Stopped(done, "breakpoint"), !.stop = @ \/ isDebug]
        ELSE IF i.k = "lockup"     \* settling the boundary failed
        THEN [w EXCEPT !.lane[b] = Stopped(done, "lockup"), !.failed = TRUE,
                       !.stop = @ \/ w.opt.stopOnFailure]
        ELSE IF isDebug /\ i.k = "watch"
        THEN [w EXCEPT !.lane[b] = Stopped(done, "watchpoint"), !.stop = TRUE]
        ELSE IF w.opt.deadline # 0 /\ w.now >= w.opt.deadline
        THEN [w EXCEPT !.lane[b] = Stopped(done, "time_budget"), !.timeUp = TRUE]
        ELSE IF done.done >= LimitOf(w, b)
        THEN [w EXCEPT !.lane[b] = Stopped(done, "instruction_budget"), !.stop = @ \/ isDebug]
        ELSE [w EXCEPT !.lane[b] = done]

(* A failure that stops the run settles the other lanes' prefixes at once. *)
CompleteLane(w, b) ==
    IF ~InFlight(w.lane[b]) \/ w.lane[b].ready # w.now THEN w
    ELSE LET c == Completed(w, b)
         IN  IF w.opt.deferred /\ c.lane[b].why \in Failures /\ c.stop
             THEN Materialize(c, Lanes, w.now, TRUE, N) ELSE c

(* The deadline also stops the lanes that are ready and did not complete.  *)
Expire(w) ==
    IF w.opt.deadline = 0 \/ w.now < w.opt.deadline THEN w
    ELSE [w EXCEPT !.timeUp = TRUE,
             !.lane = [b \in Lanes |-> IF @[b].phase = "ready"
                                       THEN Stopped(@[b], "time_budget") ELSE @[b]]]

(* The same-time counters restart when the clock has moved.                *)
NewTime(w) ==
    IF w.now = w.dispatchTime THEN w
    ELSE [w EXCEPT !.dispatchTime = w.now, !.waited = [b \in Lanes |-> 0],
                   !.lane = [b \in Lanes |-> [@[b] EXCEPT !.same = 0]]]

Complete ==
    /\ wx.phase = "complete"
    /\ LET after[b \in -1..(N - 1)] ==
             IF b = -1 THEN NewTime(wx) ELSE LET w == after[b - 1] IN CompleteLane(w, b)
           w == Expire(after[N - 1])
       IN  wx' = [w EXCEPT !.at = 0, !.seen = [t |-> None],
                           !.phase = IF w.stop \/ w.timeUp THEN "advance" ELSE "dispatch"]

-----------------------------------------------------------------------------
(* beginConcurrentStep: the instruction's effects happen at its start.     *)
(* MMIO may schedule an event, or transmit on an immediate bus, which      *)
(* delivers to the other boards before the instruction returns; a timed    *)
(* bus arbitrates in a zero-delay event and delivers later.                *)
Executed(w, b) ==
    LET i == Instr(w, b, w.lane[b].exec)
        event(kind, owner, t) == [kind |-> kind, owner |-> owner, t |-> t, seq |-> w.seq]
        started == [w EXCEPT !.lane[b] = [@ EXCEPT !.phase = "step", !.ready = w.now + i.d,
                                              !.exec = @ + 1, !.same = @ + 1]]
    IN  CASE i.k \in {"shared", "local", "relay"} ->
               [started EXCEPT !.seq = @ + 1,
                   !.events = @ \cup {event(i.k, IF i.k = "shared" THEN None ELSE b,
                                            w.now + EventDelay)}]
          [] i.k = "arbitrate" ->
               [started EXCEPT !.seq = @ + 1, !.events = @ \cup {event("arbitrate", None, w.now)}]
          [] i.k = "send" ->
               Observe(Materialize(started, Lanes, w.now, TRUE, b), Lanes, w.now, b)
          [] OTHER -> started

(* A debugger's breakpoint is an instruction count here: the lane is about *)
(* to start that instruction.                                              *)
AtBreakpoint(w, b) == w.opt.debug = b /\ w.opt.breakpoint = w.lane[b].exec

(* Prefix lengths a lane may admit: private instructions within the budget *)
(* that complete strictly before the deadline and before every event that  *)
(* is known to observe this lane.                                          *)
PrefixTimes(w, b, n) ==
    LET t[k \in 0..n] == IF k = 0 THEN w.now ELSE t[k - 1] + Instr(w, b, w.lane[b].exec + k - 1).d
    IN  [k \in 1..n |-> t[k]]

Admissions(w, b) ==
    LET left == w.opt.limit - w.lane[b].done
        horizon == {e.t : e \in {x \in w.events : x.owner \in {None, b}}}
                       \cup (IF w.opt.deadline = 0 THEN {} ELSE {w.opt.deadline})
    IN  {n \in 1..MaxPrefix :
            /\ w.opt.deferred /\ left >= 2 /\ n <= left
            /\ \A k \in 0..(n - 1) : Deferrable(Instr(w, b, w.lane[b].exec + k))
            /\ \A h \in horizon : PrefixTimes(w, b, n)[n] < h}

(* A prefix of one instruction is executed, not deferred.                  *)
Admitted(w, b, n) ==
    LET cap == PrefixTimes(w, b, n)
    IN  IF n = 1 THEN [w EXCEPT !.lane[b] = [@ EXCEPT !.phase = "step", !.exec = @ + 1,
                                                     !.ready = cap[1]]]
        ELSE [w EXCEPT !.lane[b] = [@ EXCEPT !.phase = "deferred", !.cap = cap,
                                            !.ready = cap[n], !.same = @ + 1]]

NextLane(w) == IF w.at = N - 1 THEN [w EXCEPT !.phase = "advance"] ELSE [w EXCEPT !.at = @ + 1]

(* waited is a history: the starts of other lanes at this time while a     *)
(* lane was in the middle of an instruction.                               *)
Started(w, b) ==
    [w EXCEPT !.waited = [c \in Lanes |->
        IF c = b THEN 0
        ELSE IF InFlight(w.lane[c]) /\ w.lane[c].ready > w.now THEN @[c] + 1 ELSE @[c]]]

(* One lane's turn to start.                                               *)
Dispatch ==
    /\ wx.phase = "dispatch"
    /\ LET b == wx.at
           lane == wx.lane[b]
           isDebug == wx.opt.debug = b
       IN  IF lane.phase # "ready" \/ lane.same >= wx.opt.quantum THEN wx' = NextLane(wx)
           ELSE IF AtBreakpoint(wx, b)
           THEN wx' = [wx EXCEPT !.lane[b] = Stopped(@, "target_reached"), !.stop = TRUE,
                                 !.phase = "advance"]
           ELSE IF lane.done >= LimitOf(wx, b)
           THEN wx' = NextLane([wx EXCEPT !.lane[b] = Stopped(@, "instruction_budget"),
                                          !.stop = @ \/ isDebug])
           ELSE \/ \E n \in Admissions(wx, b) : wx' = NextLane(Started(Admitted(wx, b, n), b))
                \/ wx' = NextLane(Started(Executed(wx, b), b))

-----------------------------------------------------------------------------
(* Why the run ended: the strongest reason that applies.                   *)
WorldResult(w) ==
    IF w.failed THEN "board_failure"
    ELSE IF w.timeUp THEN "time_budget"
    ELSE IF \A b \in Lanes : w.lane[b].why = "instruction_budget" THEN "instruction_budget"
    ELSE "all_boards_stopped"

(* Nothing in flight ends the run, or opens another fairness pass; a held  *)
(* debugger lets the events run to the deadline.                           *)
Settle ==
    /\ wx.phase = "advance" /\ \A b \in Lanes : ~InFlight(wx.lane[b])
    /\ IF wx.stop \/ wx.timeUp \/ \A b \in Lanes : ~Runnable(wx.lane[b])
       THEN IF wx.opt.debug # None /\ ~wx.stop /\ ~wx.timeUp /\ wx.opt.deadline # 0
            THEN wx' = [wx EXCEPT !.phase = "events", !.until = wx.opt.deadline]
            ELSE wx' = [wx EXCEPT !.phase = "end", !.result = WorldResult(wx)]
       ELSE wx' = [wx EXCEPT !.phase = "complete",
                             !.lane = [b \in Lanes |-> [@[b] EXCEPT !.same = 0]]]

(* The next frontier: the earliest completion, or an event before it.  The *)
(* compact scheduler visits every event time, the deferred one every event *)
(* at or before the next completion, the general one runs through.         *)
Frontier(w) ==
    LET done == Lowest({w.lane[b].ready : b \in {c \in Lanes : InFlight(w.lane[c])}})
        times == {e.t : e \in w.events}
        next == IF times = {} THEN done + 1 ELSE Lowest(times)
        fast == w.opt.debug = None /\ ~w.opt.deferred /\ ~w.opt.general
    IN  IF (fast /\ next < done) \/ (w.opt.deferred /\ next <= done) THEN next ELSE done

Advance ==
    /\ wx.phase = "advance" /\ \E b \in Lanes : InFlight(wx.lane[b]) /\ wx.lane[b].ready <= MaxClock
    /\ LET until == Frontier(wx)
           due == \E e \in wx.events : e.t <= until
           w == [wx EXCEPT !.phase = "events", !.until = until]
       IN  wx' = IF wx.opt.deferred /\ ~due THEN Materialize(w, Lanes, until, FALSE, N) ELSE w

(* The observation barrier: which lanes are settled before a callback.     *)
SettledBefore(e) == IF e.owner = None THEN Lanes ELSE {e.owner}

(* One due event: the barrier settles what its callback may observe.  A    *)
(* relayed transfer of a board's own event ends in a bus delivery.         *)
RunEvent ==
    /\ wx.phase = "events" /\ \E e \in wx.events : e.t <= wx.until
    /\ LET due == {e \in wx.events : e.t <= wx.until}
           e == CHOOSE x \in due : \A y \in due : x.t < y.t \/ (x.t = y.t /\ x.seq <= y.seq)
           S == SettledBefore(e)
           w0 == [wx EXCEPT !.events = @ \ {e}, !.now = e.t]
           w1 == Materialize(w0, S, e.t, TRUE, N)
       IN  wx' = CASE e.kind = "arbitrate" ->
                        [w1 EXCEPT !.seq = @ + 1, !.events = @ \cup
                            {[kind |-> "shared", owner |-> None, t |-> e.t + EventDelay, seq |-> w1.seq]}]
                   [] e.kind = "relay" ->
                        Observe(Materialize(w1, Lanes, e.t, TRUE, N), Lanes, e.t, N)
                   [] OTHER -> Observe(w1, S, e.t, N)

(* The clock reaches the frontier and prefixes that end there complete.    *)
EventsDone ==
    /\ wx.phase = "events" /\ \A e \in wx.events : e.t > wx.until
    /\ LET w == [wx EXCEPT !.now = wx.until, !.phase = "complete",
                           !.timeUp = @ \/ (\A b \in Lanes : ~InFlight(wx.lane[b]))]
       IN  wx' = IF wx.opt.deferred THEN Materialize(w, Lanes, wx.until, FALSE, N) ELSE w

ExactNext == Complete \/ Dispatch \/ Settle \/ Advance \/ RunEvent \/ EventsDone

-----------------------------------------------------------------------------
(* The reference: when exact dispatch starts each instruction.  It is      *)
(* defined for programs whose instructions take time.                      *)
TakesTime(w) == \A b \in Lanes : \A k \in DOMAIN w.prog[b] : w.prog[b][k].d > 0

StartTimes(w, b) ==
    LET t[k \in 0..(MaxClock + 1)] == IF k = 0 THEN 0 ELSE t[k - 1] + Instr(w, b, k - 1).d
    IN  t

(* A lane runs up to its limit, its first terminal stop and the deadline.  *)
Reach(w, b) ==
    LET ends == {k \in 0..MaxClock : Instr(w, b, k).k \in {"fail", "lockup", "halt"}}
        last == IF ends = {} THEN MaxClock ELSE Lowest(ends)
    IN  {k \in 0..last : k < LimitOf(w, b) /\ (w.opt.deadline # 0 => StartTimes(w, b)[k] < w.opt.deadline)}

(* The first failure that ends the whole run, when the option says so.     *)
FailureTime(w) ==
    LET failing(b) == {k \in Reach(w, b) : Instr(w, b, k).k \in {"fail", "lockup"}}
        fails == UNION {{StartTimes(w, b)[k] + Instr(w, b, k).d : k \in failing(b)} : b \in Lanes}
    IN  IF w.opt.stopOnFailure /\ fails # {} THEN Lowest(fails) ELSE MaxClock + 2

(* Executed by an observation at t.  A delivery from lane i at t also sees *)
(* the starts at t of the lanes before i, and its own.                     *)
Reference(w, b, t, by) ==
    Cardinality({k \in Reach(w, b) :
        LET start == StartTimes(w, b)[k]
        IN  /\ start < FailureTime(w)
            /\ start < t \/ (start = t /\ by # N /\ b <= by)})

(* Deferral is invisible: whoever looks at a lane, however its prefixes    *)
(* were chosen, finds exactly the instructions executed that plain         *)
(* dispatch would have started by then.                                    *)
ObservedExactly ==
    wx.seen.t # None /\ TakesTime(wx) /\ wx.opt.debug = None =>
        \A b \in wx.seen.lanes : wx.seen.exec[b] = Reference(wx, b, wx.seen.t, wx.seen.by)

(* A run ends with nothing in flight or deferred, every executed           *)
(* instruction retired, each board where the reference stops, and a        *)
(* failure never hidden.  A run without a debugger reports that its boards *)
(* stopped only when each is at its own end and one of them is at a BKPT.  *)
EndsSettled ==
    wx.phase = "end" =>
        /\ \A b \in Lanes :
              /\ ~InFlight(wx.lane[b]) /\ wx.lane[b].cap = <<>>
              /\ wx.lane[b].exec - wx.lane[b].done = (IF wx.lane[b].why = "fault" THEN 1 ELSE 0)
        /\ wx.result = "board_failure" <=> \E b \in Lanes : wx.lane[b].why \in Failures
        /\ TakesTime(wx) /\ wx.opt.debug = None =>
              \A b \in Lanes : wx.lane[b].exec = Reference(wx, b, MaxClock + 1, N)
        /\ wx.result = "all_boards_stopped" /\ wx.opt.debug = None =>
              /\ \E b \in Lanes : wx.lane[b].why = "breakpoint"
              /\ \A b \in Lanes :
                    \/ wx.lane[b].why = "breakpoint" /\ Instr(wx, b, wx.lane[b].done - 1).k = "halt"
                    \/ wx.lane[b].why = "instruction_budget" /\ wx.lane[b].done = wx.opt.limit

(* Under the debugger the selected board stops where it was told to: not   *)
(* one instruction past its breakpoint, its limit or a watched access.     *)
DebuggerStops ==
    LET d == wx.opt.debug
    IN  d # None =>
          LET lane == wx.lane[d]
          IN  /\ wx.opt.held => lane.exec = 0
              /\ lane.exec <= wx.opt.debugLimit
              /\ lane.exec <= wx.opt.breakpoint \/ wx.opt.breakpoint = None
              /\ \A k \in 0..(lane.exec - 2) : Instr(wx, d, k).k # "watch"

(* Instructions that take no time cannot hold the clock: while a board is  *)
(* in the middle of an instruction, the others start at most a quantum     *)
(* each before time moves towards its completion.                          *)
NoMonopoly ==
    \A b \in Lanes :
        InFlight(wx.lane[b]) /\ wx.lane[b].ready > wx.now =>
            wx.waited[b] <= (N - 1) * wx.opt.quantum

WorldExactCorrect == ObservedExactly /\ EndsSettled /\ DebuggerStops /\ NoMonopoly
=============================================================================
