---------------------------- MODULE WorldWindows ----------------------------
(***************************************************************************)
(* World::runIndependent: boards run ahead of each other inside a bounded  *)
(* window, on worker threads or in turn.  What a lane does to the CAN bus  *)
(* is staged in its outbox; when every lane is parked the coordinator      *)
(* merges the outboxes and replays the commands between the shared events. *)
(* What a lane executes is abstract: how far it gets, why it stops and     *)
(* when it stages commands are chosen freely.                              *)
(***************************************************************************)
EXTENDS Integers, Sequences, FiniteSets, SequencesExt

CONSTANTS
    WindowBoards,     \* 0 .. n-1
    WindowOptions,    \* the option records tried
    WindowLength,     \* cross_board_window_ns
    Overshoot,        \* the longest an instruction may run past the window
    BusDelay,         \* a replayed command completes this much later
    WindowDeadline,   \* bound: the deadline, and the last window end
    MaxCommands       \* bound: commands staged in a behaviour

ASSUME WindowsAssumption ==
    /\ IsFiniteSet(WindowBoards) /\ WindowBoards = 0..(Cardinality(WindowBoards) - 1)
    /\ WindowLength \in Nat \ {0} /\ WindowDeadline \in Nat \ {0}
    /\ Overshoot \in Nat /\ BusDelay \in Nat
    /\ WindowOptions \subseteq [parallel : BOOLEAN, stopOnFailure : BOOLEAN, limited : BOOLEAN,
                                control : BOOLEAN, debug : {"none", "held", "run"}]

VARIABLE win   \* with history: the commands issued and replayed, and whether the
               \* bus ever saw time step back

(* Why a lane's last slice ended; a run result starts as the budget.       *)
SliceEnds == {"time_budget", "instruction_budget", "halted", "fault"}
Succeeded(reason) == reason # "fault"

(* The board under the debugger, if any, is board 0; a debugger that holds *)
(* it needs a deadline to bound the event-only windows.                    *)
Debug == {"none", "held", "run"}

WindowsInit ==
    \E o \in WindowOptions :
        /\ o.debug \in Debug /\ (o.debug = "held" => o.limited)
        /\ win = [parallel |-> o.parallel, stopOnFailure |-> o.stopOnFailure,
              deadline |-> IF o.limited THEN WindowDeadline ELSE 0,
              control |-> o.control, debug |-> o.debug,
              phase |-> "between", now |-> 0, end |-> 0, waiting |-> {},
              local |-> [b \in WindowBoards |-> 0],
              runnable |-> {b \in WindowBoards : ~(o.debug = "held" /\ b = 0)},
              reason |-> [b \in WindowBoards |->
                  IF o.debug = "held" /\ b = 0 THEN "halted" ELSE "instruction_budget"],
              dispatched |-> {}, outbox |-> [b \in WindowBoards |-> <<>>],
              pending |-> <<>>, at |-> 0, shared |-> {}, handed |-> {},
              failed |-> FALSE, result |-> "none", issued |-> 0,
              replayed |-> <<>>, seen |-> 0, backwards |-> FALSE]

-----------------------------------------------------------------------------
(* Seeded fault: event-only windows under a held debugger ignore the       *)
(* deadline.                                                               *)
HeldNeverFinishes(w) ==
    IF w.runnable = {} THEN w.debug # "held" \/ w.deadline = 0
    ELSE w.deadline # 0 /\ w.now >= w.deadline

(* The loop's head: does another window start, and where does it end?      *)
Finished(w) ==
    IF w.runnable = {} THEN w.debug # "held" \/ w.deadline = 0 \/ w.now >= w.deadline
    ELSE w.deadline # 0 /\ w.now >= w.deadline

WindowEnd(w) ==
    IF w.deadline # 0 /\ w.now + WindowLength > w.deadline THEN w.deadline
    ELSE w.now + WindowLength

StartWindow ==
    /\ win.phase = "between" /\ ~Finished(win) /\ win.now < WindowDeadline
    /\ win' = [win EXCEPT !.phase = "lanes", !.end = WindowEnd(win), !.waiting = WindowBoards]

(* Commands a lane stages in one scope: times do not decrease, and the     *)
(* lane sequence starts from zero in every window.                         *)
Stagings(b, from, to) ==
    LET command(ts, seq) == [ts |-> ts, board |-> b, seq |-> seq, nth |-> win.issued + seq,
                              win |-> win.end]
    IN  {<<>>} \cup {<<command(t, 0)>> : t \in from..to}
        \cup {<<command(t, 0), command(u, 1)>> : t \in from..to, u \in from..to}

StagedInOrder(staged) ==
    /\ \A i \in 1..(Len(staged) - 1) : staged[i].ts <= staged[i + 1].ts
    /\ win.issued + Len(staged) <= MaxCommands

(* execute_lane.  A lane whose CPU does not run only drains its events; a  *)
(* lane that is already past the window end does nothing more.             *)
LaneReturns(b, until, reason, staged, ran) ==
    /\ StagedInOrder(staged)
    /\ win' = [win EXCEPT
          !.waiting = IF ~win.parallel /\ win.stopOnFailure /\ ~Succeeded(reason)
                      THEN {} ELSE @ \ {b},
          !.local[b] = until, !.reason[b] = reason,
          !.dispatched = IF ran THEN @ \cup {b} ELSE @,
          !.outbox[b] = @ \o staged, !.issued = @ + Len(staged)]

MayExecute(b) ==
    /\ win.phase = "lanes" /\ b \in win.waiting
    /\ ~win.parallel => \A c \in win.waiting : b <= c    \* in turn

ParkedSlice(b) ==
    /\ MayExecute(b) /\ (b \notin win.runnable \/ win.local[b] >= win.end)
    /\ LET until == IF win.local[b] < win.end THEN win.end ELSE win.local[b]
       IN  \E staged \in Stagings(b, win.local[b], until) :
              LaneReturns(b, until, win.reason[b], staged, FALSE)

OwnerSlice(b) ==
    /\ MayExecute(b) /\ b \in win.runnable /\ win.local[b] < win.end
    /\ \E reason \in SliceEnds, until \in win.local[b]..(win.end + Overshoot) :
          /\ reason = "time_budget" => until >= win.end
          /\ \E staged \in Stagings(b, win.local[b], until) :
                LaneReturns(b, until, reason, staged, TRUE)

-----------------------------------------------------------------------------
(* Seeded fault: commands are merged by time and board only.               *)
PrecedesWithoutTime(a, c) == a.board < c.board \/ (a.board = c.board /\ a.seq < c.seq)

(* The order of std::stable_sort over the merged outboxes.                 *)
Precedes(a, c) ==
    \/ a.ts < c.ts
    \/ a.ts = c.ts /\ a.board < c.board
    \/ a.ts = c.ts /\ a.board = c.board /\ a.seq < c.seq

(* A stable sort keeps the positions of entries neither of which precedes. *)
SortRank(s, i) ==
    1 + Cardinality({j \in 1..Len(s) : Precedes(s[j], s[i]) \/ (~Precedes(s[i], s[j]) /\ j < i)})

StableSort(s) == [k \in 1..Len(s) |-> s[CHOOSE i \in 1..Len(s) : SortRank(s, i) = k]]

Merged(w) ==
    LET all[n \in 0..Cardinality(WindowBoards)] ==
          IF n = 0 THEN w.pending ELSE all[n - 1] \o w.outbox[n - 1]
    IN  StableSort(all[Cardinality(WindowBoards)])

(* drain_shared: completions due by a time run, in time order.             *)
DrainShared(w, at) ==
    LET due == {e \in w.shared : e.t <= at}
    IN  [w EXCEPT !.shared = @ \ due,
            !.seen = IF at > @ THEN at ELSE @,
            !.backwards = @ \/ \E e \in due : e.t < w.seen]

(* Every lane has parked: publish who still runs and merge the outboxes.   *)
(* Boards run in turn stop at once when one failed.                        *)
ParkLanes ==
    /\ win.phase = "lanes" /\ win.waiting = {}
    /\ LET failed == \E b \in WindowBoards : ~Succeeded(win.reason[b])
       IN  win' = [win EXCEPT
              !.runnable = {b \in @ : ~(b \in win.dispatched /\ win.reason[b] # "time_budget")},
              !.failed = failed,
              !.pending = Merged(win), !.outbox = [b \in WindowBoards |-> <<>>],
              !.at = -1,
              !.phase = IF ~win.parallel /\ failed /\ win.stopOnFailure
                        THEN "stopping" ELSE "replay"]

Due(w) == w.pending # <<>> /\ Head(w.pending).ts <= w.end

(* The replay loop, one command at a time.  A command that opens a group   *)
(* drains the completions up to its time; the others contend with it.      *)
ReplayCommand ==
    /\ win.phase = "replay" /\ Due(win)
    /\ LET c == Head(win.pending)
           opens == c.ts > win.at
           at == IF ~opens THEN win.at ELSE IF c.ts > win.now THEN c.ts ELSE win.now
           w == IF opens THEN DrainShared(DrainShared(win, win.at), at) ELSE win
       IN  win' = [w EXCEPT !.pending = Tail(@), !.at = at,
                            !.shared = @ \cup {[t |-> at + BusDelay, nth |-> c.nth]},
                            !.replayed = Append(@, [t |-> at, from |-> win.now, c |-> c])]

(* No command is due any more: drain to the window end and decide whether  *)
(* the debugger, a failure or the window control stops the run here.       *)
DebugStopped(w) == w.debug = "run" /\ w.reason[0] # "time_budget"

EndWindow ==
    /\ win.phase = "replay" /\ ~Due(win)
    /\ LET w == [DrainShared(win, win.end) EXCEPT !.now = win.end]
       IN  IF DebugStopped(w) \/ (w.failed /\ w.stopOnFailure)
           THEN win' = [w EXCEPT !.phase = "stopping"]
           ELSE \/ win' = [w EXCEPT !.phase = "between"]
                \/ w.control /\ win' = [w EXCEPT !.phase = "yielding"]

(* After the loop: the domains are closed, leftover commands become shared *)
(* events, and the results of the run are settled.                         *)
StopReason(w) ==
    IF w.failed THEN "board_failure"
    ELSE IF w.phase = "yielding" \/ (w.deadline # 0 /\ w.now >= w.deadline) THEN "time_budget"
    ELSE IF \E b \in WindowBoards : w.reason[b] = "instruction_budget" THEN "instruction_budget"
    ELSE "all_boards_stopped"

StopWorld ==
    /\ win.phase \in {"stopping", "yielding"} \/ (win.phase = "between" /\ Finished(win))
    /\ win' = [win EXCEPT
          !.phase = "stopped", !.result = StopReason(win), !.pending = <<>>,
          !.handed = {[at |-> IF c.ts > win.now THEN c.ts ELSE win.now, nth |-> c.nth] :
                      c \in Range(win.pending)},
          !.reason = [b \in WindowBoards |->
              IF b \notin win.runnable THEN @[b]
              ELSE IF win.failed /\ win.stopOnFailure THEN "synchronization_required"
              ELSE "time_budget"]]

WindowsNext ==
    \/ StartWindow \/ ParkLanes \/ ReplayCommand \/ EndWindow \/ StopWorld
    \/ \E b \in WindowBoards : ParkedSlice(b) \/ OwnerSlice(b)

-----------------------------------------------------------------------------
Numbers(s) == {s[i].nth : i \in 1..Len(s)}
ReplayedNumbers == {win.replayed[i].c.nth : i \in 1..Len(win.replayed)}

(* A staged command reaches the bus exactly once or is handed to the event *)
(* loop when the run stops; none is dropped at a window boundary, by a     *)
(* failure, a debugger stop or a yield.                                    *)
CommandsKept ==
    LET staged == UNION {Numbers(win.outbox[b]) : b \in WindowBoards}
        handed == {h.nth : h \in win.handed}
    IN  /\ ReplayedNumbers \cup Numbers(win.pending) \cup staged \cup handed = 0..(win.issued - 1)
        /\ Len(win.replayed) + Len(win.pending) + Cardinality(staged \cup handed) = win.issued

(* The bus sees simulated time move forward, across windows too: a replay  *)
(* is neither before an earlier one nor before a completion that already   *)
(* ran, and each command takes effect at the time its lane staged it, or   *)
(* at the start of the window when that is later.  Commands staged in one  *)
(* window for one time are in board order.  The bus sees the commands of a *)
(* board in the order the board staged them, whatever windows they belong  *)
(* to, with one exception the code has: the lane sequence restarts in      *)
(* every window, so a command carried into the next window and one of that *)
(* window for the very same time may change places.                        *)
BusInOrder ==
    /\ ~win.backwards
    /\ \A i \in 1..Len(win.replayed) :
          LET a == win.replayed[i] IN a.t = IF a.c.ts > a.from THEN a.c.ts ELSE a.from
    /\ \A i, j \in 1..Len(win.replayed) :
          LET a == win.replayed[i]
              z == win.replayed[j]
          IN  i < j => /\ a.t <= z.t
                       /\ a.c.win = z.c.win /\ a.c.ts = z.c.ts => a.c.board <= z.c.board
                       /\ a.c.board = z.c.board =>
                             a.c.nth < z.c.nth \/ (a.c.win # z.c.win /\ a.c.ts = z.c.ts)

(* Between windows a running lane is never behind the shared clock nor     *)
(* further ahead than the instruction it had in flight; a lane that        *)
(* stopped catches up with its events within one window.                   *)
BoundedSkew ==
    win.phase = "between" =>
        \A b \in WindowBoards :
            /\ win.local[b] <= win.now + Overshoot
            /\ win.local[b] >= win.now - (IF b \in win.runnable THEN 0 ELSE WindowLength)

(* The reported reason is the strongest that applies: a failure is never   *)
(* hidden, and only a debugger stop ends a run early with every board      *)
(* "stopped" while a peer could still have run.                            *)
WindowsReported ==
    win.phase = "stopped" =>
        /\ win.result = "board_failure" <=> \E b \in WindowBoards : win.reason[b] = "fault"
        /\ win.result = "all_boards_stopped" =>
              \/ \A b \in WindowBoards : win.reason[b] = "halted"
              \/ win.debug = "run" /\ win.reason[0] = "halted"
        /\ \A h \in win.handed : h.at >= win.now

WindowsExact == CommandsKept /\ BusInOrder /\ BoundedSkew /\ WindowsReported
=============================================================================
