------------------------------- MODULE CanBus -------------------------------
(***************************************************************************)
(* fil::devices::VirtualCanBus outside a staging scope: attachment,        *)
(* submission, arbitration, transmission and delivery, in the immediate or *)
(* the timed mode.                                                         *)
(*                                                                         *)
(* The bus runs user code (trace sinks, receivers, completions), which may *)
(* call it again.  "stack" holds the bus functions that wait for user code *)
(* to return; user code runs when the stack is empty or its top waits.     *)
(* The event loop is the set of armed events and a clock (EventQueue is    *)
(* what EventLoop promises); the bus is not told of its own cancelled      *)
(* events, so an event the bus forgot would still fire.                    *)
(***************************************************************************)
EXTENDS Integers, Sequences, FiniteSets

CONSTANTS
    Frames,            \* CAN frames: [base, extended, low, bits]
    LowIds,            \* number of values of the low identifier bits
    Modes,             \* values of mode_: subset of DeliveryMode
    QueueCapacity,     \* queue_capacity_
    Bitrate,           \* bitrate_
    Second,            \* time units of a second (1'000'000'000)
    IntermissionBits,  \* bits of the intermission (3)
    MaxTime,           \* numeric_limits<uint64_t>::max()
    Ahead,             \* request times a client may name, relative to now
    MaxNodes,          \* bound on attach calls
    MaxSends,          \* bound on admitted transmissions
    MaxCancels,        \* bound on cancelSender and detach calls
    MaxDepth           \* bound on nested bus calls

DeliveryMode == {"immediate", "timed"}

ASSUME FrameAssumption ==
    /\ LowIds \in Nat \ {0}
    /\ Frames \subseteq [base : Nat, extended : BOOLEAN,
                         low : 0..(LowIds - 1), bits : Nat \ {0}]
ASSUME RateAssumption ==
    /\ Bitrate \in Nat \ {0} /\ Second \in Nat \ {0}
    /\ IntermissionBits \in Nat
ASSUME BoundAssumption ==
    /\ Modes \subseteq DeliveryMode /\ QueueCapacity \in Nat /\ MaxTime \in Nat
    /\ Ahead \subseteq Int
    /\ {MaxNodes, MaxSends, MaxCancels, MaxDepth} \subseteq Nat

Time == 0..MaxTime
NodeId == 1..MaxNodes
External == 0
TxId == 1..MaxSends
NoTx == 0

VARIABLES
    bus,     \* the members of VirtualCanBus and its armed events
    now,     \* event_loop_->now()
    stack,   \* bus functions waiting for user code, innermost last
    fate,    \* history: what became of each transmission
    calls,   \* history: completion calls of each transmission
    air,     \* history: bits put on the wire and the time they took
    cancels  \* bound: cancelSender and detach calls so far

vars == <<bus, now, stack, fate, calls, air, cancels>>

Transmission == [id : TxId, frame : Frames, sender : NodeId \cup {External},
                 requested_ns : Time]

(* A bus function waiting for user code.  "todo" are the deliveries that   *)
(* are left, the current one first; "owed" (history) the nodes that have   *)
(* been attached since the delivery began and have not received.           *)
Call == [phase : {"sof", "traced", "receiving", "completing", "failing"},
         tx : Transmission, todo : Seq(NodeId), owed : SUBSET NodeId]

Bus == [mode_ : DeliveryMode, nodes_ : Seq(NodeId),
        loopback : SUBSET NodeId, next_node_id_ : Nat,
        pending_ : Seq(Transmission), in_flight_ : SUBSET Transmission,
        timed_state_ : {"idle", "arbitrating", "in_flight"},
        timed_event_id_ : Nat, next_start_ns_ : Time,
        fractional_numerator_ : Nat,
        in_flight_fraction_before_start_ : Nat,
        next_transmission_sequence_ : Nat,
        events : SUBSET [id : Nat, at : Time,
                         run : {"arbitration", "completion"}]]

TypeOK ==
    /\ bus \in Bus
    /\ Cardinality(bus.in_flight_) <= 1
    /\ bus.fractional_numerator_ < Bitrate
    /\ now \in Time
    /\ stack \in Seq(Call)
    /\ fate \in [TxId -> {"unused", "queued", "on_wire", "delivered",
                          "cancelled", "failed"}]
    /\ calls \in [TxId -> Nat]
    /\ air \in [bits : Nat, time : Nat, old_bits : Nat, old_time : Nat]
    /\ cancels \in 0..MaxCancels

Init ==
    /\ \E mode \in Modes : bus =
             [mode_ |-> mode, nodes_ |-> <<>>, loopback |-> {},
              next_node_id_ |-> 1,
              pending_ |-> <<>>, in_flight_ |-> {}, timed_state_ |-> "idle",
              timed_event_id_ |-> 0, next_start_ns_ |-> 0,
              fractional_numerator_ |-> 0,
              in_flight_fraction_before_start_ |-> 0,
              next_transmission_sequence_ |-> 1, events |-> {}]
    /\ now = 0
    /\ stack = <<>>
    /\ fate = [t \in TxId |-> "unused"]
    /\ calls = [t \in TxId |-> 0]
    /\ air = [bits |-> 0, time |-> 0, old_bits |-> 0, old_time |-> 0]
    /\ cancels = 0

-----------------------------------------------------------------------------
(* Arbitration. *)

(* The bits of the arbitration field compared from the first: base         *)
(* identifier, SRR and IDE, low identifier.                                *)
ArbitrationKey(frame) ==
    frame.base * 2 * LowIds
        + (IF frame.extended THEN LowIds + frame.low ELSE 0)

(* Seeded fault: every queued frame competes. *)
Heads_All(pending) == DOMAIN pending

(* Only the oldest transmission of a sender competes. *)
Heads(pending) ==
    {i \in DOMAIN pending :
        \A j \in 1..(i - 1) : pending[j].sender # pending[i].sender}

Beats(t, u) ==
    LET k == ArbitrationKey(t.frame)
        l == ArbitrationKey(u.frame)
    IN  k < l \/ (k = l /\ t.id < u.id)

(* Seeded fault: a frame requested for the very start has to wait. *)
Eligible_Strict(pending, start) ==
    {i \in Heads(pending) : pending[i].requested_ns < start}

Eligible(pending, start) ==
    {i \in Heads(pending) : pending[i].requested_ns <= start}

Winner(pending, start) ==
    CHOOSE i \in Eligible(pending, start) :
        \A j \in Eligible(pending, start) \ {i} : Beats(pending[i], pending[j])

Without(pending, i) ==
    SubSeq(pending, 1, i - 1) \o SubSeq(pending, i + 1, Len(pending))

(* The elements of s at the given places, in their order.                  *)
Ascending(places) ==
    CHOOSE f \in [1..Cardinality(places) -> places] :
        \A i, j \in 1..Cardinality(places) : i < j => f[i] < f[j]

Sublist(s, places) ==
    LET at == Ascending(places)
    IN  [k \in 1..Cardinality(places) |-> s[at[k]]]

WithoutSender(pending, sender) ==
    Sublist(pending, {i \in DOMAIN pending : pending[i].sender # sender})

MaxOf(S) == CHOOSE x \in S : \A y \in S : y <= x

MinOf(S) == CHOOSE x \in S : \A y \in S : x <= y

-----------------------------------------------------------------------------
(* The event loop as the bus uses it, and the timed state. *)

(* Identifiers are never reused.  The bus and the loop only compare them,  *)
(* so any number that neither of them still holds stands for a new one.    *)
NewEventId(b) ==
    MinOf((1..(Cardinality(b.events) + 2))
            \ ({e.id : e \in b.events} \cup {b.timed_event_id_}))

Arm(b, at, run) ==
    [b EXCEPT !.events = @ \cup {[id |-> NewEventId(b), at |-> at,
                                  run |-> run]},
              !.timed_event_id_ = NewEventId(b)]

(* Seeded fault: the armed event stays in the loop. *)
Disarm_Forgets(b) ==
    [b EXCEPT !.timed_event_id_ = 0, !.timed_state_ = "idle"]

Disarm(b) ==
    [b EXCEPT !.events = {e \in @ : e.id # b.timed_event_id_},
              !.timed_event_id_ = 0,
              !.timed_state_ = "idle"]

ScheduleArbitration(b) ==
    LET earliest == MinOf({b.pending_[i].requested_ns : i \in Heads(b.pending_)})
    IN  IF b.timed_state_ # "idle" \/ b.mode_ # "timed" \/ b.pending_ = <<>> THEN b
        ELSE [Arm(b, MaxOf({b.next_start_ns_, earliest, now}), "arbitration")
                EXCEPT !.timed_state_ = "arbitrating"]

(* Seeded fault: the frame on the wire is left alone. *)
CancelTransmissions_QueueOnly(b, sender) ==
    ScheduleArbitration(
        [b EXCEPT !.pending_ = WithoutSender(@, sender)])

(* Seeded fault: the remainder of the aborted frame is kept. *)
CancelTransmissions_KeepsFraction(b, sender) ==
    LET kept == [b EXCEPT !.pending_ = WithoutSender(@, sender)]
        owned == \E t \in b.in_flight_ : t.sender = sender
    IN  ScheduleArbitration(
          CASE b.timed_state_ = "in_flight" /\ owned ->
                 [Disarm(kept) EXCEPT !.in_flight_ = {}, !.next_start_ns_ = now]
            [] b.timed_state_ = "arbitrating" -> Disarm(kept)
            [] OTHER -> kept)

(* cancelSender. *)
CancelTransmissions(b, sender) ==
    LET kept == [b EXCEPT !.pending_ = WithoutSender(@, sender)]
        owned == \E t \in b.in_flight_ : t.sender = sender
    IN  ScheduleArbitration(
          CASE b.timed_state_ = "in_flight" /\ owned ->
                 [Disarm(kept) EXCEPT
                    !.in_flight_ = {},
                    !.fractional_numerator_ = b.in_flight_fraction_before_start_,
                    !.next_start_ns_ = now]
            [] b.timed_state_ = "arbitrating" -> Disarm(kept)
            [] OTHER -> kept)

-----------------------------------------------------------------------------
(* Delivery. *)
TopCall == stack[Len(stack)]

Popped == SubSeq(stack, 1, Len(stack) - 1)

Attached(b) == {b.nodes_[i] : i \in DOMAIN b.nodes_}

Waiting(phase, tx, todo, owed) ==
    [phase |-> phase, tx |-> tx, todo |-> todo, owed |-> owed]

(* Seeded fault: the sender never hears itself. *)
Receivers_NoLoopback(tx) ==
    Sublist(bus.nodes_, {i \in DOMAIN bus.nodes_ : bus.nodes_[i] # tx.sender})

(* The snapshot deliver() takes of the nodes that are to receive tx. *)
Receivers(tx) ==
    Sublist(bus.nodes_, {i \in DOMAIN bus.nodes_ :
                            \/ bus.nodes_[i] # tx.sender
                            \/ bus.nodes_[i] \in bus.loopback})

Expected(tx) ==
    {n \in Attached(bus) : n = tx.sender => n \in bus.loopback}

(* Receivers that are gone by now are passed over. *)
DropDetached(todo) ==
    LET alive == {i \in DOMAIN todo : todo[i] \in Attached(bus)}
    IN  IF alive = {} THEN <<>> ELSE SubSeq(todo, MinOf(alive), Len(todo))

SenderAttached(tx) == tx.sender = External \/ tx.sender \in Attached(bus)

(* The end of completeInFlight or submit: the completion, if the sender is *)
(* still there, then the next arbitration.                                 *)
FinishDelivery(below, b, tx, owed) ==
    /\ fate' = [fate EXCEPT ![tx.id] =
                   IF @ = "cancelled" THEN @ ELSE "delivered"]
    /\ IF SenderAttached(tx)
       THEN /\ calls' = [calls EXCEPT ![tx.id] = @ + 1]
            /\ stack' = Append(below, Waiting("completing", tx, <<>>, owed))
            /\ bus' = b
       ELSE /\ stack' = below
            /\ bus' = ScheduleArbitration(b)
            /\ UNCHANGED calls
    /\ UNCHANGED <<now, air, cancels>>

(* deliver() goes on with the nodes of its snapshot that are left; "below" *)
(* is the rest of the stack.                                               *)
Deliver(below, b, tx, todo, owed) ==
    LET rest == DropDetached(todo)
    IN  IF rest = <<>> THEN FinishDelivery(below, b, tx, owed)
        ELSE /\ stack' = Append(below, Waiting("traced", tx, rest, owed))
             /\ bus' = b
             /\ UNCHANGED <<now, fate, calls, air, cancels>>

-----------------------------------------------------------------------------
(* Calls of user code. *)
Attach(loopback) ==
    /\ bus.next_node_id_ <= MaxNodes
    /\ bus' = [bus EXCEPT
                 !.nodes_ = Append(@, bus.next_node_id_),
                 !.loopback = IF loopback THEN @ \cup {bus.next_node_id_} ELSE @,
                 !.next_node_id_ = @ + 1]
    /\ UNCHANGED <<now, stack, fate, calls, air, cancels>>

FateAfterCancel(sender) ==
    [t \in TxId |->
        IF \/ \E i \in DOMAIN bus.pending_ :
                 bus.pending_[i].id = t /\ bus.pending_[i].sender = sender
           \/ \E u \in bus.in_flight_ : u.id = t /\ u.sender = sender
        THEN "cancelled" ELSE fate[t]]

(* A frame that is taken off the wire has not occupied it. *)
AirAfterCancel(b) ==
    IF b.in_flight_ # bus.in_flight_
    THEN [air EXCEPT !.bits = air.old_bits, !.time = air.old_time]
    ELSE air

CancelSender(sender) ==
    /\ cancels < MaxCancels
    /\ cancels' = cancels + 1
    /\ bus' = CancelTransmissions(bus, sender)
    /\ fate' = FateAfterCancel(sender)
    /\ air' = AirAfterCancel(CancelTransmissions(bus, sender))
    /\ UNCHANGED <<now, stack, calls>>

Detach(id) ==
    /\ cancels < MaxCancels
    /\ cancels' = cancels + 1
    /\ bus' = [CancelTransmissions(bus, id) EXCEPT
                 !.nodes_ = Sublist(@, {i \in DOMAIN @ : @[i] # id})]
    /\ fate' = FateAfterCancel(id)
    /\ air' = AirAfterCancel(CancelTransmissions(bus, id))
    /\ stack' = [l \in DOMAIN stack |->
                    [stack[l] EXCEPT !.owed = @ \ {id}]]
    /\ UNCHANGED <<now, calls>>

Request(sender, frame, requested) ==
    [id |-> bus.next_transmission_sequence_, frame |-> frame, sender |-> sender,
     requested_ns |-> requested]

Queued(b) == Len(b.pending_) + Cardinality(b.in_flight_)

(* submit() in the timed mode.  A rejected call changes nothing. *)
SubmitTimed(sender, frame, requested) ==
    LET tx == Request(sender, frame, requested)
        queued == [bus EXCEPT !.pending_ = Append(@, tx),
                              !.next_transmission_sequence_ = @ + 1]
    IN  /\ bus.mode_ = "timed"
        /\ tx.id \in TxId
        /\ Queued(bus) < QueueCapacity
        /\ bus' = ScheduleArbitration(
                      IF bus.timed_state_ = "arbitrating" THEN Disarm(queued)
                                                          ELSE queued)
        /\ fate' = [fate EXCEPT ![tx.id] = "queued"]
        /\ UNCHANGED <<now, stack, calls, air, cancels>>

(* submit() in the immediate mode: the transmit trace comes first. *)
SubmitImmediate(sender, frame) ==
    LET tx == Request(sender, frame, now)
    IN  /\ bus.mode_ = "immediate"
        /\ tx.id \in TxId
        /\ Len(stack) < MaxDepth
        /\ stack' = Append(stack, Waiting("sof", tx, <<>>, {}))
        /\ bus' = [bus EXCEPT !.next_transmission_sequence_ = @ + 1]
        /\ fate' = [fate EXCEPT ![tx.id] = "on_wire"]
        /\ UNCHANGED <<now, calls, air, cancels>>

(* send() from an attached node, or inject(). *)
Send(sender, frame, requested) ==
    /\ sender \in Attached(bus) \cup {External}
    /\ \/ SubmitTimed(sender, frame, requested)
       \/ SubmitImmediate(sender, frame)

(* User code does nothing more and returns to the bus. *)
SofReturns ==
    /\ stack # <<>>
    /\ TopCall.phase = "sof"
    /\ IF bus.mode_ = "timed"
       THEN stack' = Popped /\ UNCHANGED <<bus, now, fate, calls, air, cancels>>
       ELSE Deliver(Popped, bus, TopCall.tx, Receivers(TopCall.tx),
                    Expected(TopCall.tx))

(* Seeded fault: the receiver is not looked up again after the trace. *)
TraceReturns_Trusting ==
    /\ stack # <<>>
    /\ TopCall.phase = "traced"
    /\ stack' = [stack EXCEPT ![Len(stack)] =
                    [TopCall EXCEPT !.phase = "receiving",
                                    !.owed = @ \ {Head(TopCall.todo)}]]
    /\ UNCHANGED <<bus, now, fate, calls, air, cancels>>

(* The receive trace returns; it may have detached the receiver. *)
TraceReturns ==
    /\ stack # <<>>
    /\ TopCall.phase = "traced"
    /\ IF Head(TopCall.todo) \in Attached(bus)
       THEN /\ stack' = [stack EXCEPT ![Len(stack)] =
                            [TopCall EXCEPT !.phase = "receiving",
                                            !.owed = @ \ {Head(TopCall.todo)}]]
            /\ UNCHANGED <<bus, now, fate, calls, air, cancels>>
       ELSE Deliver(Popped, bus, TopCall.tx, Tail(TopCall.todo), TopCall.owed)

ReceiveReturns ==
    /\ stack # <<>>
    /\ TopCall.phase = "receiving"
    /\ Deliver(Popped, bus, TopCall.tx, Tail(TopCall.todo), TopCall.owed)

CompletionReturns ==
    /\ stack # <<>>
    /\ TopCall.phase \in {"completing", "failing"}
    /\ stack' = Popped
    /\ bus' = ScheduleArbitration(bus)
    /\ UNCHANGED <<now, fate, calls, air, cancels>>

-----------------------------------------------------------------------------
(* Events of the timed mode. *)
EventDue(e) == e.at <= now /\ \A f \in bus.events : e.at <= f.at

Fired(e) == [bus EXCEPT !.events = @ \ {e}, !.timed_event_id_ = 0]

(* What a division of a duration by the bit rate leaves. *)
Remainder(numerator) == numerator % Bitrate

(* arbitrate(): the winner goes on the wire until start + frame_duration.  *)
(* Durations carry the remainder of the division by the bit rate.          *)
Transmit(b, start) ==
    LET i == Winner(b.pending_, start)
        tx == b.pending_[i]
        frame_numerator == tx.frame.bits * Second + b.fractional_numerator_
        frame_duration == frame_numerator \div Bitrate
        intermission_numerator ==
            IntermissionBits * Second + Remainder(frame_numerator)
        intermission == intermission_numerator \div Bitrate
        taken == [b EXCEPT !.pending_ = Without(@, i)]
        free == start + frame_duration + intermission
    IN  IF free > MaxTime
        THEN /\ stack' = Append(stack, Waiting("failing", tx, <<>>, {}))
             /\ bus' = taken
             /\ fate' = [fate EXCEPT ![tx.id] = "failed"]
             /\ calls' = [calls EXCEPT ![tx.id] = @ + 1]
             /\ UNCHANGED air
        ELSE /\ stack' = Append(stack, Waiting("sof", tx, <<>>, {}))
             /\ bus' = [Arm(taken, start + frame_duration, "completion") EXCEPT
                          !.in_flight_ = {tx},
                          !.timed_state_ = "in_flight",
                          !.fractional_numerator_ =
                              Remainder(intermission_numerator),
                          !.in_flight_fraction_before_start_ =
                              b.fractional_numerator_,
                          !.next_start_ns_ = free]
             /\ fate' = [fate EXCEPT ![tx.id] = "on_wire"]
             /\ air' = [bits |-> air.bits + tx.frame.bits + IntermissionBits,
                        time |-> air.time + (free - start),
                        old_bits |-> air.bits, old_time |-> air.time]
             /\ UNCHANGED calls

ArbitrationEvent(e) ==
    LET b == [Fired(e) EXCEPT !.timed_state_ = "idle"]
        start == MaxOf({bus.next_start_ns_, now})
    IN  /\ stack = <<>>
        /\ e.run = "arbitration"
        /\ EventDue(e)
        /\ IF b.pending_ # <<>> /\ Eligible(b.pending_, start) # {}
           THEN Transmit(b, start)
           ELSE bus' = ScheduleArbitration(b) /\ UNCHANGED <<stack, fate, calls, air>>
        /\ UNCHANGED <<now, cancels>>

(* completeInFlight() up to the first piece of user code. *)
CompletionEvent(e) ==
    LET b == [Fired(e) EXCEPT !.in_flight_ = {}, !.timed_state_ = "idle"]
        tx == CHOOSE t \in bus.in_flight_ : TRUE
    IN  /\ stack = <<>>
        /\ e.run = "completion"
        /\ EventDue(e)
        /\ IF bus.in_flight_ = {}
           THEN bus' = Fired(e) /\ UNCHANGED <<now, stack, fate, calls, air, cancels>>
           ELSE Deliver(<<>>, b, tx, Receivers(tx), Expected(tx))

(* Simulated time goes on while nothing is due. *)
Advance ==
    /\ stack = <<>>
    /\ \A e \in bus.events : e.at > now
    /\ now < MaxTime
    /\ now' = now + 1
    /\ UNCHANGED <<bus, stack, fate, calls, air, cancels>>

-----------------------------------------------------------------------------
ClientStep ==
    \/ \E loopback \in BOOLEAN : Attach(loopback)
    \/ \E n \in Attached(bus) : CancelSender(n) \/ Detach(n)
    \/ \E sender \in Attached(bus) \cup {External}, frame \in Frames,
          requested \in {t \in Time : t - now \in Ahead} :
          Send(sender, frame, requested)

BusStep ==
    \/ SofReturns \/ TraceReturns \/ ReceiveReturns \/ CompletionReturns
    \/ \E e \in bus.events : ArbitrationEvent(e) \/ CompletionEvent(e)

Next == ClientStep \/ BusStep \/ Advance

(* User code returns, and World runs due events and lets time pass. *)
Spec == Init /\ [][Next]_vars /\ WF_vars(BusStep) /\ WF_vars(Advance)

-----------------------------------------------------------------------------
(* Properties. *)

(* timed_state_, in_flight_, timed_event_id_ and the armed events tell the *)
(* same story, in callbacks too: no event of a cancelled or finished       *)
(* transmission is left to complete another one, and a bus that is not     *)
(* inside user code never sits idle on a queue.                            *)
BusConsistent ==
    /\ TypeOK
    /\ bus.mode_ = "timed" /\ stack = <<>> /\ bus.pending_ # <<>>
          => bus.timed_state_ # "idle"
    /\ bus.timed_state_ = "idle" =>
          bus.events = {} /\ bus.in_flight_ = {} /\ bus.timed_event_id_ = 0
    /\ bus.timed_state_ = "arbitrating" =>
          /\ bus.in_flight_ = {}
          /\ \E e \in bus.events : /\ bus.events = {e}
                                   /\ e.id = bus.timed_event_id_
                                   /\ e.run = "arbitration"
    /\ bus.timed_state_ = "in_flight" =>
          /\ Cardinality(bus.in_flight_) = 1
          /\ \E e \in bus.events : /\ bus.events = {e}
                                   /\ e.id = bus.timed_event_id_
                                   /\ e.run = "completion"
                                   /\ e.at <= bus.next_start_ns_

(* A sender's transmissions go on the wire in the order it submitted them, *)
(* whatever their priorities.                                              *)
SenderFifo ==
    \A i \in DOMAIN bus.pending_ :
        LET waiting == bus.pending_[i]
        IN  /\ \A t \in bus.in_flight_ :
                  t.sender = waiting.sender => t.id < waiting.id
            /\ \A l \in DOMAIN stack :
                  stack[l].tx.sender = waiting.sender
                      => stack[l].tx.id < waiting.id

(* A completion is called at most once, never for a cancelled transmission *)
(* and only when the frame was delivered or could not be sent.             *)
CompletedOnce ==
    \A t \in TxId :
        /\ calls[t] <= 1
        /\ calls[t] = 1 => fate[t] \in {"delivered", "failed"}

(* Every node attached from the beginning of a delivery to its turn        *)
(* receives the frame, whoever else is attached or detached meanwhile.     *)
AllReceive ==
    \A l \in DOMAIN stack :
        stack[l].owed \subseteq
            IF stack[l].phase = "traced"
            THEN {stack[l].todo[i] : i \in DOMAIN stack[l].todo}
            ELSE {stack[l].todo[i] : i \in DOMAIN stack[l].todo \ {1}}

(* What the bus has queued or on the wire. *)
OnBus(b) == {b.pending_[i] : i \in DOMAIN b.pending_} \cup b.in_flight_

(* The node whose callback a frame of the stack is in. *)
CalledNode(c) == IF c.phase = "receiving" THEN Head(c.todo) ELSE c.tx.sender

(* The step enters the receive callback or a completion of a node.         *)
CallbackBegins ==
    /\ stack' # <<>>
    /\ stack'[Len(stack')].phase \in {"receiving", "completing", "failing"}
    /\ \/ Len(stack') > Len(stack)
       \/ Len(stack') = Len(stack) /\ stack'[Len(stack)].phase # TopCall.phase

(* Detaching a node, from a callback of a delivery too, ends its part: the *)
(* bus keeps nothing queued or on the wire for it, so that no arbitration  *)
(* transmits for it, nor reports a frame that does not fit the clock to a  *)
(* completion it never looks up; and no delivery still under way enters a  *)
(* callback of it.  (A send that a lane staged is answered at its replay.) *)
DetachIsFinal ==
    [][/\ \A tx \in OnBus(bus)' : SenderAttached(tx)'
       /\ CallbackBegins => CalledNode(stack'[Len(stack')])
                               \in Attached(bus) \cup {External}]_vars

(* The carried remainder makes the occupied time exact: no frame sequence, *)
(* aborted frames included, drifts from bits * second / bitrate.           *)
TimingExact ==
    air.time * Bitrate + bus.fractional_numerator_ = air.bits * Second

(* Every accepted transmission is delivered, fails or is cancelled. *)
EveryFrameSettles ==
    \A t \in TxId :
        (fate[t] \in {"queued", "on_wire"})
            ~> (fate[t] \in {"delivered", "cancelled", "failed"})

(* What every sender and receiver may rely on: frames in submission order, *)
(* one completion each, none missed by an attached node, and air time that *)
(* never drifts, aborted frames included.                                  *)
FramesExact == SenderFifo /\ CompletedOnce /\ AllReceive /\ TimingExact
=============================================================================
