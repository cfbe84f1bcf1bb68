--------------------------- MODULE StimulusPlayer ---------------------------
(***************************************************************************)
(* Stimulus scripts, their expectations and the trace they are judged by   *)
(* (src/sim/stimulus.cpp, trace.cpp, and runNetworkCommand of cli.cpp): a  *)
(* script is parsed and scheduled before the run, each expectation becomes *)
(* a check with a deadline event, and every record the firmware and the    *)
(* buses produce is offered to the checks, at once or, while lanes run in  *)
(* parallel, when the window's buffers are merged.                         *)
(*                                                                         *)
(* Times of scripts are milliseconds, of the loop nanoseconds.  What a     *)
(* record says is its type, its source and one value.                      *)
(***************************************************************************)
EXTENDS Integers, Sequences, FiniteSets

CONSTANTS
    Scripts,        \* scripts a network may name
    PlayedScripts,  \* those whose run is explored
    Declared,       \* buses, boards and peripherals of the world
    NsPerMs,        \* ns_per_ms
    MaxNs,          \* largest SimTimeNs
    MaxRepeat,      \* maximum_repeat_count
    LargestId, LargestStandardId, ClassicLength, FdLengths,
    TraceLanes,     \* boards
    RunLength,      \* duration_ns
    WindowNs,       \* cross_board_window_ns
    RecordTypes,    \* types of records that firmware and buses produce
    MaxRecorded     \* bound: records produced

ASSUME StimulusAssumption ==
    /\ NsPerMs \in Nat \ {0} /\ WindowNs \in Nat \ {0} /\ MaxNs \in Nat
    /\ PlayedScripts \subseteq Scripts

VARIABLES
    play,     \* the run: its mode, the loop's clock and events, the window
    judge,    \* ExpectationEvaluator
    trace,    \* TraceRecorder
    made      \* history: events applied and records produced

StimulusVars == <<play, judge, trace, made>>

-----------------------------------------------------------------------------
(* parseEvent.  A CAN frame's format follows from its identifier and its   *)
(* length unless the script says otherwise.                                *)
MaxMs == MaxNs \div NsPerMs

Count(e) == IF e.repeat THEN e.count ELSE 1
Every(e) == IF e.repeat THEN e.every ELSE 0

RepeatAccepted(e) == e.repeat => e.every > 0 /\ e.count \in 2..MaxRepeat

(* Seeded fault: the last of the repeats is not looked at. *)
TimeRepresentable_FirstOnly(e) == e.at <= MaxMs

TimeRepresentable(e) ==
    /\ e.at <= MaxMs
    /\ Count(e) > 1 => Every(e) <= (MaxMs - e.at) \div (Count(e) - 1)

Extended(e) == IF e.extended = "absent" THEN e.id > LargestStandardId ELSE e.extended = "yes"
Fd(e) == IF e.fd = "absent" THEN e.length > ClassicLength ELSE e.fd = "yes"

CanAccepted(e) ==
    /\ e.id <= LargestId /\ (~Extended(e) => e.id <= LargestStandardId)
    /\ IF Fd(e) THEN e.length \in FdLengths ELSE e.length <= ClassicLength
    /\ e.brs => Fd(e)

EventAccepted(e) ==
    /\ RepeatAccepted(e) /\ TimeRepresentable(e)
    /\ e.type = "can" => CanAccepted(e)
    /\ e.type \in {"gpio", "adc", "usart"} => e.legal
    /\ e.type \in {"can", "gpio", "adc", "usart"}

(* parseExpectation: the same rules, and a window that can be represented. *)
WindowRepresentable(x) == x.at <= MaxMs /\ x.window <= MaxMs - x.at

ExpectationAccepted(x) == x.legal /\ WindowRepresentable(x) /\ x.type \in {"can_tx", "gpio_output"}

ScriptAccepted(s) ==
    /\ s.events # <<>>
    /\ \A k \in DOMAIN s.events : EventAccepted(s.events[k])
    /\ \A k \in DOMAIN s.expect : ExpectationAccepted(s.expect[k])

-----------------------------------------------------------------------------
(* scheduleStimulusScript: every time, target and expectation is checked   *)
(* before the first event is scheduled.  Times are 64 bits wide.           *)
Wrapped(ns) == ns % (MaxNs + 1)

FrameValid(e) == e.type = "can" => (Fd(e) \/ e.length <= ClassicLength) /\ (e.brs => Fd(e))

Schedulable(s) ==
    /\ \A k \in DOMAIN s.events :
          LET e == s.events[k]
          IN  /\ Count(e) > 0 /\ (Count(e) > 1 => Every(e) > 0) /\ TimeRepresentable(e)
              /\ e.target \in Declared /\ FrameValid(e)
    /\ \A k \in DOMAIN s.expect : s.expect[k].target \in Declared

RepeatAt(e, i) == Wrapped(Wrapped(e.at * NsPerMs) + i * Wrapped(Every(e) * NsPerMs))

(* The repeats in the order in which they are scheduled.                   *)
Scheduled(s) ==
    LET all == {<<k, i>> : k \in DOMAIN s.events, i \in 0 .. MaxRepeat - 1}
        used == {p \in all : p[2] < Count(s.events[p[1]])}
        before(p, q) == p[1] < q[1] \/ (p[1] = q[1] /\ p[2] < q[2])
    IN  {[at |-> RepeatAt(s.events[p[1]], p[2]), n |-> Cardinality({q \in used : before(q, p)}),
          what |-> "stimulus", of |-> p] : p \in used}

-----------------------------------------------------------------------------
(* TraceRecorder.  A record of a type nobody selected takes a sequence     *)
(* number only while records are live.                                     *)
Selected(t, type) == t.allow = {} \/ type \in t.allow

Appended(t, r) == [t EXCEPT !.next = @ + 1, !.out = Append(@, [r EXCEPT !.sequence = t.next])]

NewRecord(time, type, target, value) ==
    [time |-> time, type |-> type, target |-> target, value |-> value, external |-> FALSE,
     sequence |-> 0, lane |-> 0, k |-> 0, window |-> 0]

Ns(ms) == ms * NsPerMs
WindowEnd(x) == Ns(x.at + x.window)

(* matchesExpectation: the window includes both of its ends; a frame that  *)
(* was injected from outside does not count.                               *)
Matches(x, r) ==
    /\ r.type = x.type /\ r.target = x.target /\ r.value = x.value /\ ~r.external
    /\ r.time \in Ns(x.at) .. WindowEnd(x)

(* emit: an expectation_* record through the same recorder; the observer   *)
(* sees it too and, as it is neither can_tx nor gpio_output, ignores it.   *)
Emit(t, i, status, time) == Appended(t, NewRecord(time, status, "expectation", i))

Pending(j) == {i \in DOMAIN j.status : j.status[i] = "pending"}

(* The checks of a set receive a verdict, in index order.                  *)
Judged(s, chosen, verdict, time) ==
    LET after[i \in 0..Len(s.judge.checks)] ==
            IF i = 0 THEN s
            ELSE LET p == after[i - 1]
                 IN  IF i \notin chosen THEN p
                     ELSE [p EXCEPT !.judge.status[i] = verdict,
                                    !.trace = Emit(@, i, verdict, time)]
    IN  after[Len(s.judge.checks)]

(* Seeded fault: a verdict is given again by a later record. *)
Observe_Again(s, r) ==
    IF s.judge.life # "running" \/ r.type \notin {"can_tx", "gpio_output"} THEN s
    ELSE Judged(s, {i \in DOMAIN s.judge.checks : Matches(s.judge.checks[i], r)}, "pass", r.time)

(* observe: the record passes every pending check it matches.              *)
Observe(s, r) ==
    IF s.judge.life # "running" \/ r.type \notin {"can_tx", "gpio_output"} THEN s
    ELSE Judged(s, {i \in Pending(s.judge) : Matches(s.judge.checks[i], r)}, "pass", r.time)

AppendRecord(s, r) == Observe([s EXCEPT !.trace = Appended(@, r)], r)

(* record(), outside a lane.                                               *)
RecordLive(s, r) ==
    IF Selected(s.trace, r.type) THEN AppendRecord(s, r)
    ELSE [s EXCEPT !.trace.next = @ + 1]

(* Seeded fault: lanes are appended one after another. *)
Sooner_LaneFirst(a, b) == a.lane < b.lane \/ (a.lane = b.lane /\ a.k < b.k)

(* flushLaneCapture: stable by time over the lanes in their order.         *)
Sooner(a, b) ==
    \/ a.time < b.time
    \/ a.time = b.time /\ (a.lane < b.lane \/ (a.lane = b.lane /\ a.k < b.k))

FlushLaneCapture(s) ==
    LET buffered == UNION {{s.trace.lanes[l][k] : k \in DOMAIN s.trace.lanes[l]} : l \in TraceLanes}
        nth(n) == CHOOSE r \in buffered : Cardinality({q \in buffered : Sooner(q, r)}) = n - 1
        after[n \in 0..Cardinality(buffered)] ==
            IF n = 0 THEN [s EXCEPT !.trace.mode = "live",
                                    !.trace.lanes = [l \in TraceLanes |-> <<>>]]
            ELSE AppendRecord(after[n - 1], nth(n))
    IN  after[Cardinality(buffered)]

-----------------------------------------------------------------------------
(* ExpectationEvaluator's lifecycle.                                       *)
(* Seeded fault: the window's end is excluded. *)
Expired_AtEnd(x, now) == now >= WindowEnd(x)

Expired(x, now) == now > WindowEnd(x)

(* advance: a check whose window has passed fails.                         *)
Advance(s, now) ==
    IF s.judge.life # "running" THEN s
    ELSE Judged(s, {i \in Pending(s.judge) : Expired(s.judge.checks[i], now)}, "fail", now)

(* begin: every check is announced, its deadline is the first nanosecond   *)
(* after its window, and windows that have passed fail at once.            *)
DeadlineEvents(checks, now) ==
    {[at |-> WindowEnd(checks[i]) + 1, n |-> 1000 + i, what |-> "deadline", of |-> <<i, 0>>] :
        i \in {c \in DOMAIN checks : WindowEnd(checks[c]) + 1 > now}}

Begin(s, now) ==
    LET announced[i \in 0..Len(s.judge.checks)] ==
            IF i = 0 THEN s.trace ELSE Emit(announced[i - 1], i, "pending", now)
    IN  Advance([s EXCEPT !.judge.life = "running", !.trace = announced[Len(s.judge.checks)]], now)

(* finish: what is still pending is incomplete, and no deadline is left.   *)
Finish(s, now) ==
    LET passed == Advance(s, now)
    IN  [Judged(passed, Pending(passed.judge), "incomplete", now) EXCEPT !.judge.life = "finished"]

-----------------------------------------------------------------------------
(* runNetworkCommand.  A run without a trace file selects the types that   *)
(* the checks need.                                                        *)
ExpectationRecordTypes(checks) ==
    {"pending", "pass", "fail", "incomplete"} \cup {checks[i].type : i \in DOMAIN checks}

State == [judge |-> judge, trace |-> trace]

Becomes(s) == judge' = s.judge /\ trace' = s.trace

StimulusInit ==
    /\ \E s \in Scripts, mode \in {"exact", "serial", "parallel"}, artifact \in BOOLEAN :
          /\ s \notin PlayedScripts => mode = "exact" /\ artifact
          /\ play = [script |-> s, mode |-> mode, artifact |-> artifact, phase |-> "load", now |-> 0,
                     start |-> 0, end |-> 0, window |-> 0, events |-> {}]
    /\ judge = [checks |-> <<>>, status |-> <<>>, life |-> "created"]
    /\ trace = [mode |-> "live", lanes |-> [l \in TraceLanes |-> <<>>], next |-> 0, out |-> <<>>,
                allow |-> {}]
    /\ made = [applied |-> {}, records |-> {}]

Load ==
    /\ play.phase = "load"
    /\ IF ScriptAccepted(play.script) /\ Schedulable(play.script)
       THEN /\ play' = [play EXCEPT !.phase = "loaded", !.events = Scheduled(play.script)]
            /\ judge' = [judge EXCEPT !.checks = play.script.expect,
                                      !.status = [i \in DOMAIN play.script.expect |-> "pending"]]
            /\ trace' = [trace EXCEPT !.allow =
                            IF play.artifact THEN {} ELSE ExpectationRecordTypes(play.script.expect)]
       ELSE play' = [play EXCEPT !.phase = "refused"] /\ UNCHANGED <<judge, trace>>
    /\ UNCHANGED made

BeginRun ==
    /\ play.phase = "loaded" /\ play.script \in PlayedScripts
    /\ Becomes(Begin(State, play.now))
    /\ play' = [play EXCEPT !.events = @ \cup DeadlineEvents(judge.checks, play.now),
                            !.phase = IF play.mode = "exact" THEN "drain" ELSE "window",
                            !.end = RunLength]
    /\ UNCHANGED made

(* The independent scheduler: a window, its lanes, then the shared events. *)
BeginWindow ==
    /\ play.phase = "window" /\ play.now < RunLength
    /\ play' = [play EXCEPT !.phase = "lanes", !.start = play.now, !.window = @ + 1,
                            !.end = IF play.now + WindowNs < RunLength THEN play.now + WindowNs
                                    ELSE RunLength]
    /\ trace' = IF play.mode = "parallel" THEN [trace EXCEPT !.mode = "lane_buffered"] ELSE trace
    /\ UNCHANGED <<judge, made>>

Produced(r) == made' = [made EXCEPT !.records = @ \cup {r}]

Room == Cardinality(made.records) < MaxRecorded

LaneLatest(l) ==
    LET own == {r \in made.records : r.lane = l /\ r.window > 0}
    IN  IF own = {} THEN play.start
        ELSE LET t == CHOOSE x \in {r.time : r \in own} : \A r \in own : r.time <= x
             IN  IF t < play.start THEN play.start ELSE t

(* A record of a lane, at the lane's own time, which may overshoot the     *)
(* window by the rest of an instruction.                                   *)
LaneRecord(l, type, value) ==
    /\ play.phase = "lanes" /\ Room /\ type # "can_tx"
    /\ \E time \in LaneLatest(l) .. play.end + 1 :
          LET r == [NewRecord(time, type, "board", value)
                        EXCEPT !.lane = l, !.window = play.window, !.k = Cardinality(made.records) + 1]
          IN  /\ Produced(r)
              /\ IF trace.mode = "live" THEN Becomes(RecordLive(State, r))
                 ELSE /\ trace' = IF Selected(trace, type)
                                  THEN [trace EXCEPT !.lanes[l] = Append(@, r)] ELSE trace
                      /\ UNCHANGED judge
    /\ UNCHANGED play

LanesJoin ==
    /\ play.phase = "lanes"
    /\ Becomes(IF trace.mode = "live" THEN State ELSE FlushLaneCapture(State))
    /\ play' = [play EXCEPT !.phase = "drain"]
    /\ UNCHANGED made

(* Events of the loop in (time, sequence) order; a bus reports a frame     *)
(* when its event starts it, and in exact mode so does the firmware.       *)
DueEvents == {e \in play.events : e.at = play.now}

RunEvent ==
    /\ play.phase = "drain" /\ DueEvents # {}
    /\ \E e \in DueEvents :
          /\ \A f \in DueEvents : e.n <= f.n
          /\ play' = [play EXCEPT !.events = @ \ {e}]
          /\ IF e.what = "deadline" THEN Becomes(Advance(State, e.at)) /\ UNCHANGED made
             ELSE LET event == play.script.events[e.of[1]]
                      r == [NewRecord(play.now, "can_tx", event.target, event.value)
                                EXCEPT !.external = TRUE, !.k = 100 * e.of[1] + e.of[2]]
                  IN  /\ made' = [made EXCEPT !.applied = @ \cup {<<e.of, play.now>>}]
                      /\ IF event.type = "can" THEN Becomes(RecordLive(State, r))
                         ELSE UNCHANGED <<judge, trace>>

SharedRecord(type, value) ==
    /\ play.phase = "drain" /\ Room /\ (play.mode # "exact" => type = "can_tx")
    /\ LET r == [NewRecord(play.now, type, IF type = "can_tx" THEN "bus" ELSE "board", value)
                     EXCEPT !.k = Cardinality(made.records) + 1]
       IN  Produced(r) /\ Becomes(RecordLive(State, r))
    /\ UNCHANGED play

Drain ==
    /\ play.phase = "drain" /\ DueEvents = {} /\ play.now < play.end
    /\ play' = [play EXCEPT !.now = @ + 1]
    /\ UNCHANGED <<judge, trace, made>>

Drained ==
    /\ play.phase = "drain" /\ play.mode # "exact" /\ DueEvents = {} /\ play.now = play.end
    /\ play' = [play EXCEPT !.phase = "window"]
    /\ UNCHANGED <<judge, trace, made>>

(* The run ends at its deadline, or earlier: a board failed or all have    *)
(* stopped.  A serial window that failed is left before its events.        *)
FinishRun ==
    /\ \/ play.phase = "drain" /\ play.mode = "exact"
       \/ play.phase = "window"
       \/ play.phase = "lanes" /\ play.mode = "serial"
    /\ Becomes(Finish(State, play.now))
    /\ play' = [play EXCEPT !.phase = "finished", !.events = {e \in @ : e.what # "deadline"}]
    /\ UNCHANGED made

StimulusNext ==
    \/ Load \/ BeginRun \/ BeginWindow \/ LanesJoin \/ RunEvent \/ Drain \/ Drained \/ FinishRun
    \/ \E type \in RecordTypes, value \in {0, 1} :
          SharedRecord(type, value) \/ \E l \in TraceLanes : LaneRecord(l, type, value)

-----------------------------------------------------------------------------
(* A script is refused, and leaves nothing scheduled, exactly when one of  *)
(* its injections cannot be made or one of its checks cannot be judged;    *)
(* an accepted one is played at the times it says, none of them wrapped.   *)
SomeFormatCarries(e) ==
    \E extended, fd \in BOOLEAN :
        /\ e.extended # "absent" => extended = (e.extended = "yes")
        /\ e.fd # "absent" => fd = (e.fd = "yes")
        /\ e.id <= (IF extended THEN LargestId ELSE LargestStandardId)
        /\ e.length \in (IF fd THEN FdLengths ELSE 0..ClassicLength)
        /\ e.brs => fd /\ (e.fd = "yes" \/ e.length > ClassicLength)

PlayableEvent(e) ==
    /\ e.type \in {"can", "gpio", "adc", "usart"}
    /\ e.repeat => e.every > 0 /\ e.count \in 2..MaxRepeat
    /\ \A i \in 0 .. Count(e) - 1 : (e.at + i * Every(e)) * NsPerMs <= MaxNs
    /\ e.target \in Declared /\ (e.type = "can" => SomeFormatCarries(e)) /\ (e.type # "can" => e.legal)

Playable(s) ==
    /\ s.events # <<>> /\ \A k \in DOMAIN s.events : PlayableEvent(s.events[k])
    /\ \A k \in DOMAIN s.expect :
          LET x == s.expect[k]
          IN  x.legal /\ (x.at + x.window) * NsPerMs <= MaxNs /\ x.target \in Declared

TimesOf(s) ==
    {<<<<k, i>>, (s.events[k].at + i * Every(s.events[k])) * NsPerMs>> :
        k \in DOMAIN s.events, i \in 0 .. MaxRepeat - 1}

Played(s) == {p \in TimesOf(s) : p[1][2] < Count(s.events[p[1][1]])}

StillToPlay == {<<e.of, e.at>> : e \in {x \in play.events : x.what = "stimulus"}}

ScriptPlayed ==
    /\ play.phase = "refused" => ~Playable(play.script) /\ play.events = {}
    /\ play.phase \notin {"load", "refused"} =>
          /\ Playable(play.script)
          /\ StillToPlay \cup made.applied = Played(play.script)
          /\ StillToPlay \cap made.applied = {}

(* A check is judged once and by the whole run: it passes when the run     *)
(* produced a matching record, in whichever lane and however it reached    *)
(* the recorder, fails in the first nanosecond after its window, and is    *)
(* incomplete when the run ended before.                                   *)
Verdict(x, now) ==
    IF \E r \in made.records : Matches(x, r) THEN "pass"
    ELSE IF now > WindowEnd(x) THEN "fail" ELSE "incomplete"

Announced(i, kinds) ==
    {n \in DOMAIN trace.out : trace.out[n].type \in kinds /\ trace.out[n].target = "expectation"
                                /\ trace.out[n].value = i}

ChecksExact ==
    \A i \in DOMAIN judge.checks :
        /\ Cardinality(Announced(i, {"pass", "fail", "incomplete"}))
              = (IF judge.status[i] = "pending" THEN 0 ELSE 1)
        /\ judge.life # "created" => Cardinality(Announced(i, {"pending"})) = 1
        /\ judge.life = "finished" => judge.status[i] = Verdict(judge.checks[i], play.now)
        /\ \A n \in Announced(i, {"fail"}) : trace.out[n].time = WindowEnd(judge.checks[i]) + 1
        /\ play.phase # "lanes" /\ judge.status[i] = "pending" =>
              \A r \in made.records : ~Matches(judge.checks[i], r)

(* The trace has every record of a selected type once, numbers them in the *)
(* order it has them, without a gap when nothing is filtered, and orders a *)
(* parallel window by time and then by lane.                               *)
TraceExact ==
    /\ \A n \in 1 .. Len(trace.out) - 1 : trace.out[n].sequence < trace.out[n + 1].sequence
    /\ trace.allow = {} => \A n \in DOMAIN trace.out : trace.out[n].sequence = n - 1
    /\ trace.mode = "live" =>
          \A r \in made.records :
              Cardinality({n \in DOMAIN trace.out : trace.out[n].k = r.k})
                  = (IF Selected(trace, r.type) THEN 1 ELSE 0)
    /\ play.mode = "parallel" =>
          \A n \in DOMAIN trace.out : \A o \in 1 .. n - 1 :
              LET a == trace.out[o]
                  b == trace.out[n]
              IN  a.window > 0 /\ a.window = b.window =>
                      a.time < b.time \/ (a.time = b.time /\ (a.lane < b.lane \/ a.k < b.k))

StimulusCorrect == ScriptPlayed /\ ChecksExact /\ TraceExact
=============================================================================
