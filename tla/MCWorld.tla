------------------------------ MODULE MCWorld -------------------------------
(***************************************************************************)
(* The schedulers of a world and of a board, checked in one run.  They are *)
(* models of different paths through the same program and share no state,  *)
(* so a behaviour exercises one of them, chosen at the start.              *)
(***************************************************************************)
EXTENDS WorldWindows, WorldExact, LockstepBurst, LaneDomains, BoardRun

CONSTANT DomainBudget   \* bound: operations on a split event loop

VARIABLES
    part,     \* the scheduler this behaviour exercises
    budget    \* operations left

WorldParts == {"windows", "exact", "burst", "domains", "board"}

(* Options of independent windows: parallel lanes that stop on a failure,  *)
(* boards in turn, parallel lanes under a window control, a held debugger  *)
(* and a running one.                                                      *)
WindowOption(parallel, stopOnFailure, limited, control, debug) ==
    [parallel |-> parallel, stopOnFailure |-> stopOnFailure, limited |-> limited,
     control |-> control, debug |-> debug]
MCWindowOptions ==
    {WindowOption(TRUE, TRUE, TRUE, FALSE, "none"), WindowOption(FALSE, TRUE, TRUE, FALSE, "none"),
     WindowOption(TRUE, FALSE, FALSE, TRUE, "none"), WindowOption(TRUE, TRUE, TRUE, FALSE, "held"),
     WindowOption(FALSE, FALSE, FALSE, FALSE, "run")}

(* Programs of the exact scheduler: <<duration, kind>> pairs.              *)
Program(s) == [k \in 1..Len(s) |-> [d |-> s[k][1], k |-> s[k][2]]]
TimedPrograms ==
    {Program(<<<<1, "pure">>, <<1, "pure">>, <<1, "pure">>, <<2, "pure">>>>),
     Program(<<<<2, "pure">>, <<1, "shared">>, <<2, "pure">>>>),
     Program(<<<<1, "pure">>, <<2, "send">>, <<2, "pure">>, <<1, "pure">>>>),
     Program(<<<<1, "local">>, <<3, "pure">>, <<1, "pure">>>>),
     Program(<<<<1, "pure">>, <<1, "pure">>, <<1, "fail">>>>),
     Program(<<<<2, "pure">>, <<1, "lockup">>>>),
     Program(<<<<1, "pure">>, <<1, "pure">>, <<1, "halt">>>>),
     Program(<<<<1, "pure">>, <<1, "relay">>, <<1, "pure">>>>),
     Program(<<<<1, "arbitrate">>, <<1, "pure">>, <<2, "pure">>>>)}
UntimedPrograms ==
    {Program(<<<<0, "x">>, <<0, "x">>, <<1, "x">>>>), Program(<<<<1, "pure">>, <<1, "watch">>>>)}
MCPrograms == [Lanes -> TimedPrograms] \cup [Lanes -> UntimedPrograms]

Plain == [stopOnFailure |-> TRUE, deadline |-> 7, limit |-> 6, quantum |-> 2, deferred |-> FALSE,
          general |-> FALSE, debug |-> -1, held |-> FALSE, breakpoint |-> -1, debugLimit |-> 4]
MCRunOptions ==
    {Plain, [Plain EXCEPT !.general = TRUE, !.quantum = 1],
     [Plain EXCEPT !.deferred = TRUE],
     [Plain EXCEPT !.deferred = TRUE, !.stopOnFailure = FALSE, !.deadline = 0],
     [Plain EXCEPT !.deferred = TRUE, !.limit = 0],
     [Plain EXCEPT !.debug = 1, !.breakpoint = 2], [Plain EXCEPT !.debug = 1, !.held = TRUE],
     [Plain EXCEPT !.debug = 0], [Plain EXCEPT !.debug = 0, !.debugLimit = 0]}

(* Block forecasts: the instructions of each prefix and its cost.          *)
Forecast(s) == [k \in 1..Len(s) |-> [n |-> s[k][1], num |-> s[k][2]]]
MCForecasts ==
    {<<>>, Forecast(<<<<1, 2>>, <<2, 4>>, <<3, 7>>>>), Forecast(<<<<1, 3>>, <<3, 4>>, <<4, 7>>>>),
     Forecast(<<<<1, 4>>>>), Forecast(<<<<1, 1>>, <<2, 2>>, <<3, 3>>, <<4, 4>>>>),
     Forecast(<<<<2, 5>>, <<3, 7>>>>)}
MCBurstRemaining == {-1, 3, 4}

(* Firmware of one board; spans are where the region compiler put them.    *)
Insn(op, c) == [op |-> op, c |-> c, tc |-> c, to |-> 0, spans |-> {}]
Jump(op, c, taken, to) == [op |-> op, c |-> c, tc |-> taken, to |-> to, spans |-> {}]
Spans(p, s) == [p EXCEPT ![1].spans = s]
MCFirmware ==
    {Spans(<<Insn("alu", 1), Insn("load", 2), Insn("alu", 1), Insn("count", 1),
             Jump("cond", 1, 3, 3), Jump("event", 2, 2, 3), Insn("alu", 1),
             Jump("jump", 2, 2, 1), Insn("return", 2)>>, {1}),
     Spans(<<Insn("alu", 1), Insn("clock", 2), Insn("alu", 1), Insn("load", 1), Insn("alu", 1),
             Insn("acr", 1), Jump("jump", 1, 2, 3), Insn("return", 2)>>, {3}),
     <<Insn("count", 2), Jump("cond", 1, 2, 1), Insn("pend", 1), Jump("event", 1, 1, 1),
       Jump("jump", 1, 2, 1), Insn("return", 1)>>,
     Spans(<<Insn("acr", 1), Insn("load", 1), Insn("load", 2), Insn("alu", 1),
             Jump("event", 1, 1, 2), Insn("alu", 1), Jump("jump", 1, 2, 2),
             Insn("return", 1)>>, {2})}
MCClocks == <<3, 2>>

Held(p) ==
    /\ p # "windows" => UNCHANGED win
    /\ p # "exact" => UNCHANGED wx
    /\ p # "burst" => UNCHANGED burst
    /\ p # "domains" => UNCHANGED LaneDomainsVars
    /\ p # "board" => UNCHANGED BoardRunVars

(* Only the part under test starts in every one of its initial states.     *)
WorldInit ==
    /\ part \in WorldParts
    /\ budget = IF part = "domains" THEN DomainBudget ELSE 0
    /\ LaneDomainsInit
    /\ IF part = "windows" THEN WindowsInit ELSE win = [deadline |-> 0, phase |-> "between"]
    /\ IF part = "exact" THEN ExactInit ELSE wx = <<>>
    /\ IF part = "burst" THEN BurstInit ELSE burst = <<>>
    /\ IF part = "board" THEN BoardRunInit ELSE m = 0 /\ ref = 0 /\ frame = 0 /\ run = 0

WorldNext ==
    /\ \/ part = "windows" /\ WindowsNext /\ UNCHANGED budget
       \/ part = "exact" /\ ExactNext /\ UNCHANGED budget
       \/ part = "burst" /\ BurstNext /\ UNCHANGED budget
       \/ part = "domains" /\ budget > 0 /\ budget' = budget - 1 /\ LaneDomainsNext
       \/ part = "board" /\ BoardRunNext /\ UNCHANGED budget
    /\ Held(part) /\ UNCHANGED part

WorldVars == <<win, wx, burst, LaneDomainsVars, BoardRunVars, part, budget>>

(* The coordinator and every lane it dispatched keep running: a window is  *)
(* never abandoned (LaneWorkers shows that its calls end), and the exact   *)
(* scheduler is one loop in one thread.                                    *)
WorldSpec ==
    WorldInit /\ [][WorldNext]_WorldVars /\ WF_<<win, wx>>(part \in {"windows", "exact"} /\ WorldNext)

-----------------------------------------------------------------------------
(* Independent windows keep every staged command, in order, and never let  *)
(* a lane drift (World::runIndependent).                                   *)
WindowsCorrect == part = "windows" => WindowsExact

(* A run that has to end, and that it has.                                 *)
Underway == (part = "windows" /\ win.deadline # 0) \/ part = "exact"
RunIsOver ==
    CASE part = "windows" -> win.phase = "stopped"
      [] part = "exact" -> wx.phase = "end"
      [] OTHER -> TRUE

(* A run ends: windows with a deadline advance even when every CPU is held *)
(* or stopped (World::runIndependent), and the exact scheduler leaves no   *)
(* board starved, no event time visited for ever and no prefix waiting     *)
(* (World::run; its runs have an instruction limit).                       *)
RunsEnd == Underway ~> RunIsOver

(* Deferral, the debugger and the same-time quantum of World::run.         *)
ExactCorrect == part = "exact" => WorldExactCorrect

(* The lockstep burst is the best admissible one.                          *)
BurstCorrect == part = "burst" => BurstIsBest

(* Splitting and merging the event loop loses nothing.                     *)
DomainsCorrect == part = "domains" => LaneDomainsExact

(* Blocks and native regions of Board::run equal single steps.             *)
BoardCorrect == part = "board" => BatchingInvisible
=============================================================================
