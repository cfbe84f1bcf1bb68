---------------------------- MODULE CanBusProofs ----------------------------
(***************************************************************************)
(* For every set of frames, bit rate, queue capacity and any number of     *)
(* nodes, transmissions and nested calls: the timed state of the bus is    *)
(* consistent in callbacks too, a sender's frames keep their order, a      *)
(* completion is called at most once, no attached node misses a frame and  *)
(* the occupied time never drifts.                                         *)
(***************************************************************************)
EXTENDS CanBus, FiniteSetTheorems, SequenceTheorems, TLAPS

(* timed_state_, in_flight_, timed_event_id_ and the armed events.         *)
TimedOK(b) ==
    /\ b.timed_state_ = "idle" =>
          b.events = {} /\ b.in_flight_ = {} /\ b.timed_event_id_ = 0
    /\ b.timed_state_ = "arbitrating" =>
          /\ b.in_flight_ = {}
          /\ \E e \in b.events : /\ b.events = {e}
                                 /\ e.id = b.timed_event_id_
                                 /\ e.run = "arbitration"
    /\ b.timed_state_ = "in_flight" =>
          /\ \E t \in b.in_flight_ : b.in_flight_ = {t}
          /\ \E e \in b.events : /\ b.events = {e}
                                 /\ e.id = b.timed_event_id_
                                 /\ e.run = "completion"
                                 /\ e.at <= b.next_start_ns_

(* The queue is in submission order, and what is on the wire was submitted *)
(* before what the same sender still waits for.                            *)
QueueOK(b) ==
    /\ b.mode_ = "immediate" => b.pending_ = <<>>
    /\ \A i, j \in DOMAIN b.pending_ :
          i < j => b.pending_[i].id < b.pending_[j].id
    /\ \A i \in DOMAIN b.pending_ :
          b.pending_[i].id < b.next_transmission_sequence_
    /\ \A t \in b.in_flight_ : t.id < b.next_transmission_sequence_
    /\ \A t \in b.in_flight_ : \A i \in DOMAIN b.pending_ :
          /\ t.id # b.pending_[i].id
          /\ t.sender = b.pending_[i].sender => t.id < b.pending_[i].id

BusOK(b) ==
    /\ b \in Bus /\ b.next_node_id_ > 0
    /\ b.fractional_numerator_ < Bitrate
    /\ b.in_flight_fraction_before_start_ < Bitrate
    /\ TimedOK(b) /\ QueueOK(b)

(* A delivery whose end is still to come; a timed bus delivers in          *)
(* completeInFlight and its arbitrate() only traces.                       *)
Delivering(b, c) ==
    \/ c.phase \in {"traced", "receiving"}
    \/ c.phase = "sof" /\ b.mode_ = "immediate"

(* The completion of a transmission that is being delivered is still to be *)
(* called, and no cancellation reaches it.                                 *)
Unsettled(b, called, became, id) ==
    /\ called[id] = 0 /\ became[id] # "cancelled"
    /\ \A i \in DOMAIN b.pending_ : b.pending_[i].id # id
    /\ \A t \in b.in_flight_ : t.id # id

ToReceive(c) ==
    IF c.phase = "traced" THEN {c.todo[i] : i \in DOMAIN c.todo}
    ELSE {c.todo[i] : i \in DOMAIN c.todo \ {1}}

CallOK(b, called, became, c) ==
    /\ c \in Call
    /\ c.tx.id < b.next_transmission_sequence_
    /\ c.owed \subseteq Attached(b) /\ c.owed \subseteq ToReceive(c)
    /\ c.phase \in {"traced", "receiving"} => c.todo # <<>>
    /\ \A i \in DOMAIN b.pending_ :
          c.tx.sender = b.pending_[i].sender => c.tx.id < b.pending_[i].id
    /\ Delivering(b, c) => Unsettled(b, called, became, c.tx.id)

CallsOK(s, b, called, became) ==
    /\ s \in Seq(Call)
    /\ \A l \in DOMAIN s : CallOK(b, called, became, s[l])
    /\ \A k, l \in DOMAIN s :
          Delivering(b, s[k]) /\ Delivering(b, s[l])
            /\ s[k].tx.id = s[l].tx.id => k = l

StackOK ==
    /\ CallsOK(stack, bus, calls, fate)
    /\ bus.mode_ = "timed" => Len(stack) <= 1

(* Only a callback that reschedules when it returns leaves the bus idle    *)
(* on a queue.                                                             *)
Awake ==
    bus.mode_ = "timed" /\ bus.pending_ # <<>>
      /\ (\A l \in DOMAIN stack : stack[l].phase = "sof")
        => bus.timed_state_ # "idle"

(* The completion of what is queued or on the wire has not been called.    *)
FatesOK(b, called, became) ==
    /\ \A t \in TxId : t >= b.next_transmission_sequence_ => called[t] = 0
    /\ \A i \in DOMAIN b.pending_ : called[b.pending_[i].id] = 0
    /\ \A t \in b.in_flight_ : called[t.id] = 0 /\ became[t.id] # "cancelled"

TimingOK ==
    /\ TimingExact
    /\ bus.in_flight_ # {} =>
          air.old_time * Bitrate + bus.in_flight_fraction_before_start_
              = air.old_bits * Second

(* The inductive invariant.                                                *)
IInv ==
    /\ TypeOK /\ BusOK(bus) /\ StackOK /\ Awake
    /\ FatesOK(bus, calls, fate) /\ CompletedOnce /\ TimingOK

-----------------------------------------------------------------------------
(* Sequences: the sublist at given places.                                 *)

(* Every non-empty set of natural numbers has a least element.             *)
LEMMA LeastExists ==
    ASSUME NEW T \in SUBSET Nat, T # {}
    PROVE  \E x \in T : \A y \in T : x <= y
  <1>1. PICK x \in T : \A y \in T : ~(<<y, x>> \in OpToRel(<, Nat))
    BY WFMin, NatLessThanWellFounded
  <1>2. ASSUME NEW y \in T PROVE x <= y
    <2>1. <<y, x>> \in Nat \X Nat /\ <<y, x>>[1] = y /\ <<y, x>>[2] = x
      OBVIOUS
    <2>2. y < x => <<y, x>> \in OpToRel(<, Nat)
      BY <2>1, Zenon DEF OpToRel
    <2>3. ~(y < x)
      BY <1>1, <2>2, Zenon
    <2> QED
      BY <2>3
  <1> QED
    BY <1>2

Enumerates(f, I) ==
    /\ f \in [1..Cardinality(I) -> I]
    /\ \A i, j \in 1..Cardinality(I) : i < j => f[i] < f[j]

(* Every finite set of places can be listed in ascending order: its least  *)
(* element, then the list of the others.                                   *)
LEMMA EnumerationExists ==
    ASSUME NEW I \in SUBSET Nat, IsFiniteSet(I)
    PROVE  \E f : Enumerates(f, I)
  <1> DEFINE Listed(n) == \A J \in SUBSET Nat :
                 IsFiniteSet(J) /\ Cardinality(J) = n => \E f : Enumerates(f, J)
             Bad == {n \in Nat : ~Listed(n)}
  <1>1. Listed(0)
    <2> SUFFICES ASSUME NEW J \in SUBSET Nat, IsFiniteSet(J), Cardinality(J) = 0
                 PROVE  \E f : Enumerates(f, J)
      OBVIOUS
    <2>1. J = {}
      BY FS_EmptySet
    <2>2. 1..0 = {}
      OBVIOUS
    <2>3. Enumerates([k \in 1..0 |-> 0], J)
      BY <2>1, <2>2 DEF Enumerates
    <2> QED
      BY <2>3
  <1>2. ASSUME NEW n \in Nat, n # 0, Listed(n - 1) PROVE Listed(n)
    <2> SUFFICES ASSUME NEW J \in SUBSET Nat, IsFiniteSet(J), Cardinality(J) = n
                 PROVE  \E f : Enumerates(f, J)
      OBVIOUS
    <2>1. J # {}
      BY <1>2, FS_EmptySet
    <2>2. PICK m \in J : \A y \in J : m <= y
      BY <2>1, LeastExists
    <2>3. IsFiniteSet(J \ {m}) /\ Cardinality(J \ {m}) = n - 1
      BY FS_RemoveElement
    <2>4. PICK g : Enumerates(g, J \ {m})
      BY <1>2, <2>3
    <2>5. g \in [1..(n - 1) -> J \ {m}]
      BY <2>3, <2>4 DEF Enumerates
    <2>6. \A i, j \in 1..(n - 1) : i < j => g[i] < g[j]
      BY <2>3, <2>4 DEF Enumerates
    <2>7. ASSUME NEW i \in 1..(n - 1) PROVE m < g[i]
      <3>1. g[i] \in Nat /\ m \in Nat /\ g[i] # m /\ m <= g[i]
        BY <2>2, <2>5
      <3> QED
        BY <3>1
    <2> DEFINE f == [k \in 1..n |-> IF k = 1 THEN m ELSE g[k - 1]]
    <2>8. f \in [1..n -> J]
      BY <2>5
    <2>9. ASSUME NEW i \in 1..n, NEW j \in 1..n, i < j PROVE f[i] < f[j]
      <3>1. j - 1 \in 1..(n - 1) /\ f[j] = g[j - 1]
        BY <2>9
      <3>2. CASE i = 1
        BY <3>1, <3>2, <2>7
      <3>3. CASE i # 1
        <4>1. i - 1 \in 1..(n - 1) /\ f[i] = g[i - 1] /\ i - 1 < j - 1
          BY <3>3, <2>9
        <4> QED
          BY <3>1, <4>1, <2>6
      <3> QED
        BY <3>2, <3>3
    <2>10. Enumerates(f, J)
      BY <2>8, <2>9 DEF Enumerates
    <2> QED
      BY <2>10
  <1>3. Bad = {}
    <2> SUFFICES ASSUME Bad # {} PROVE FALSE
      OBVIOUS
    <2>1. PICK n \in Bad : \A y \in Bad : n <= y
      <3>1. Bad \in SUBSET Nat
        OBVIOUS
      <3> HIDE DEF Bad
      <3> QED
        BY <3>1, LeastExists
    <2>2. n \in Nat /\ ~Listed(n) /\ n # 0
      BY <1>1
    <2>3. n - 1 \in Nat /\ ~(n <= n - 1)
      BY <2>2
    <2>4. Listed(n - 1)
      BY <2>1, <2>3
    <2> QED
      BY <1>2, <2>2, <2>4
  <1>4. Cardinality(I) \in Nat
    BY FS_CardinalityType
  <1>5. Listed(Cardinality(I))
    BY <1>3, <1>4
  <1> QED
    BY <1>5

(* r lists the elements of s at the places I, each once and in their order.*)
IsSublist(r, s, I) ==
    /\ I = {} => r = <<>>
    /\ \E f \in [DOMAIN r -> I] :
          /\ \A i, j \in DOMAIN r : i < j => f[i] < f[j]
          /\ \A k \in DOMAIN r : r[k] = s[f[k]]
          /\ \A x \in I : \E k \in DOMAIN r : f[k] = x

LEMMA SublistElements ==
    ASSUME NEW S, NEW s \in Seq(S), NEW I \in SUBSET DOMAIN s
    PROVE  Sublist(s, I) \in Seq(S) /\ IsSublist(Sublist(s, I), s, I)
  <1> DEFINE n == Cardinality(I)
             f == Ascending(I)
             r == Sublist(s, I)
  <1>1. DOMAIN s = 1..Len(s) /\ Len(s) \in Nat /\ IsFiniteSet(DOMAIN s)
    BY FS_Interval
  <1>2. IsFiniteSet(I) /\ I \in SUBSET Nat
    BY <1>1, FS_Subset
  <1>3. n \in Nat
    BY <1>2, FS_CardinalityType
  <1>4. Enumerates(f, I)
    BY <1>2, EnumerationExists DEF Enumerates, Ascending
  <1>5. f \in [1..n -> I] /\ \A i, j \in 1..n : i < j => f[i] < f[j]
    BY <1>4 DEF Enumerates
  <1>6. r = [k \in 1..n |-> s[f[k]]]
    BY DEF Sublist
  <1> HIDE DEF f, r, n
  <1>7. \A k \in 1..n : s[f[k]] \in S
    BY <1>1, <1>5
  <1>8. r \in Seq(S) /\ Len(r) = n /\ DOMAIN r = 1..n
    BY <1>3, <1>6, <1>7, IsASeq
  <1>9. I = {} => r = <<>>
    BY <1>8, FS_EmptySet DEF n
  <1>10. \A x \in I : \E k \in 1..n : f[k] = x
    <2>1. f \in Injection(1..n, I)
      <3>1. ASSUME NEW i \in 1..n, NEW j \in 1..n, f[i] = f[j] PROVE i = j
        <4>1. f[i] \in Nat /\ f[j] \in Nat
          BY <1>2, <1>5
        <4>2. ~(f[i] < f[j]) /\ ~(f[j] < f[i])
          BY <3>1, <4>1
        <4>3. ~(i < j) /\ ~(j < i)
          BY <4>2, <1>5
        <4> QED
          BY <4>3, <1>3
      <3> QED
        BY <3>1, <1>5 DEF Injection, IsInjective
    <2>2. Cardinality(1..n) = Cardinality(I)
      BY <1>3, FS_Interval DEF n
    <2>3. f \in Surjection(1..n, I)
      BY <1>2, <2>1, <2>2, FS_Injection
    <2> QED
      BY <2>3 DEF Surjection
  <1>11. \E g \in [DOMAIN r -> I] :
            /\ \A i, j \in DOMAIN r : i < j => g[i] < g[j]
            /\ \A k \in DOMAIN r : r[k] = s[g[k]]
            /\ \A x \in I : \E k \in DOMAIN r : g[k] = x
    BY <1>5, <1>6, <1>8, <1>10
  <1> QED
    BY <1>8, <1>9, <1>11 DEF IsSublist, r

-----------------------------------------------------------------------------
(* The timed state.                                                        *)

(* What arming and disarming leave alone.                                  *)
SameQueue(b, c) ==
    /\ c.mode_ = b.mode_ /\ c.nodes_ = b.nodes_ /\ c.loopback = b.loopback
    /\ c.next_node_id_ = b.next_node_id_
    /\ c.pending_ = b.pending_ /\ c.in_flight_ = b.in_flight_
    /\ c.next_start_ns_ = b.next_start_ns_
    /\ c.fractional_numerator_ = b.fractional_numerator_
    /\ c.in_flight_fraction_before_start_ = b.in_flight_fraction_before_start_
    /\ c.next_transmission_sequence_ = b.next_transmission_sequence_

LEMMA MinOfNat ==
    ASSUME NEW T \in SUBSET Nat, T # {}
    PROVE  MinOf(T) \in T /\ \A y \in T : MinOf(T) <= y
  <1>1. PICK x \in T : \A y \in T : x <= y
    BY LeastExists
  <1> QED
    BY <1>1 DEF MinOf

LEMMA MaxOfThree ==
    ASSUME NEW x \in Nat, NEW y \in Nat, NEW z \in Nat
    PROVE  /\ MaxOf({x, y, z}) \in {x, y, z}
           /\ x <= MaxOf({x, y, z}) /\ y <= MaxOf({x, y, z})
           /\ z <= MaxOf({x, y, z})
  <1>1. \E m \in {x, y, z} : \A k \in {x, y, z} : k <= m
    <2>1. CASE x <= y /\ z <= y
      BY <2>1
    <2>2. CASE y <= x /\ z <= x
      BY <2>2
    <2>3. CASE x <= z /\ y <= z
      BY <2>3
    <2> QED
      BY <2>1, <2>2, <2>3
  <1> QED
    BY <1>1 DEF MaxOf

(* The first transmission of the queue competes.                           *)
LEMMA FirstCompetes ==
    ASSUME NEW pending \in Seq(Transmission), pending # <<>>
    PROVE  1 \in Heads(pending)
  BY DEF Heads

LEMMA EarliestRequest ==
    ASSUME NEW pending \in Seq(Transmission), pending # <<>>
    PROVE  MinOf({pending[i].requested_ns : i \in Heads(pending)}) \in Time
  <1> DEFINE T == {pending[i].requested_ns : i \in Heads(pending)}
  <1>1. T # {}
    BY FirstCompetes
  <1>2. \A t \in T : t \in Time
    <2> SUFFICES ASSUME NEW i \in Heads(pending)
                 PROVE  pending[i].requested_ns \in Time
      OBVIOUS
    <2>1. pending[i] \in Transmission
      BY DEF Heads
    <2> QED
      BY <2>1 DEF Transmission
  <1>3. T \in SUBSET Nat
    BY <1>2, BoundAssumption DEF Time
  <1> HIDE DEF T
  <1> QED
    BY <1>1, <1>2, <1>3, MinOfNat DEF T

(* With no event armed the next identifier is a fresh one.                 *)
LEMMA FreshEvent ==
    ASSUME NEW b, b.events = {}, b.timed_event_id_ = 0
    PROVE  NewEventId(b) \in Nat \ {0}
  <1> DEFINE T == (1..(Cardinality(b.events) + 2))
                     \ ({e.id : e \in b.events} \cup {b.timed_event_id_})
  <1>1. Cardinality(b.events) = 0
    BY FS_EmptySet
  <1>2. T \in SUBSET Nat /\ 1 \in T
    BY <1>1
  <1>3. MinOf(T) \in T
    <2> HIDE DEF T
    <2> QED
      BY <1>2, MinOfNat
  <1> QED
    BY <1>1, <1>3 DEF NewEventId

(* scheduleArbitration() keeps the bus consistent, and awake.              *)
LEMMA ScheduleOK ==
    ASSUME NEW b, BusOK(b), now \in Time
    PROVE  LET c == ScheduleArbitration(b)
           IN  /\ BusOK(c) /\ SameQueue(b, c)
               /\ c.mode_ = "timed" /\ c.pending_ # <<>> => c.timed_state_ # "idle"
  <1> DEFINE c == ScheduleArbitration(b)
             earliest == MinOf({b.pending_[i].requested_ns : i \in Heads(b.pending_)})
             at == MaxOf({b.next_start_ns_, earliest, now})
             idle == b.timed_state_ = "idle" /\ b.mode_ = "timed" /\ b.pending_ # <<>>
  <1> USE DEF BusOK, Bus
  <1>1. CASE ~idle
    <2>1. c = b
      BY <1>1 DEF ScheduleArbitration
    <2> QED
      BY <1>1, <2>1 DEF SameQueue
  <1>2. CASE idle
    <2>1. b.events = {} /\ b.timed_event_id_ = 0 /\ b.in_flight_ = {}
      BY <1>2 DEF TimedOK
    <2>2. NewEventId(b) \in Nat
      BY <2>1, FreshEvent
    <2>3. earliest \in Time
      BY <1>2, EarliestRequest
    <2>4. at \in Time
      <3> HIDE DEF earliest
      <3>1. b.next_start_ns_ \in Time /\ Time \subseteq Nat
        BY BoundAssumption DEF Time
      <3>2. at \in {b.next_start_ns_, earliest, now}
        BY <2>3, <3>1, MaxOfThree
      <3> QED
        BY <2>3, <3>1, <3>2
    <2> HIDE DEF at
    <2> DEFINE e == [id |-> NewEventId(b), at |-> at, run |-> "arbitration"]
    <2>5. c = [[b EXCEPT !.events = {e}, !.timed_event_id_ = NewEventId(b)]
                 EXCEPT !.timed_state_ = "arbitrating"]
      BY <1>2, <2>1 DEF ScheduleArbitration, Arm, at
    <2>6. /\ c \in Bus /\ SameQueue(b, c) /\ c.events = {e}
          /\ c.timed_event_id_ = NewEventId(b) /\ c.timed_state_ = "arbitrating"
      <3>1. {e} \in SUBSET [id : Nat, at : Time, run : {"arbitration", "completion"}]
        BY <2>2, <2>4
      <3> HIDE DEF e, c
      <3> QED
        BY <2>2, <2>5, <3>1 DEF SameQueue
    <2>7. TimedOK(c)
      <3> HIDE DEF c, Bus, BusOK
      <3> QED
        BY <2>1, <2>6 DEF TimedOK, SameQueue
    <2>8. QueueOK(c)
      <3> HIDE DEF c, Bus
      <3> QED
        BY <2>6 DEF QueueOK, SameQueue
    <2> QED
      BY <2>6, <2>7, <2>8 DEF SameQueue
  <1> QED
    BY <1>1, <1>2

(* An armed bus that is disarmed has no event left.                        *)
LEMMA DisarmOK ==
    ASSUME NEW b \in Bus, TimedOK(b), b.timed_state_ # "idle"
    PROVE  LET c == Disarm(b)
           IN  /\ c \in Bus /\ SameQueue(b, c) /\ c.events = {}
               /\ c.timed_event_id_ = 0 /\ c.timed_state_ = "idle"
  <1> DEFINE c == Disarm(b)
  <1>1. \E e \in b.events : b.events = {e} /\ e.id = b.timed_event_id_
    BY DEF TimedOK, Bus
  <1>2. {e \in b.events : e.id # b.timed_event_id_} = {}
    BY <1>1
  <1>3. c = [b EXCEPT !.events = {}, !.timed_event_id_ = 0, !.timed_state_ = "idle"]
    BY <1>2 DEF Disarm
  <1>4. /\ c \in Bus /\ SameQueue(b, c) /\ c.events = {}
        /\ c.timed_event_id_ = 0 /\ c.timed_state_ = "idle"
    <2> HIDE DEF c
    <2> QED
      BY <1>3 DEF Bus, SameQueue
  <1> QED
    BY <1>4

(* What the queue of the others is.                                        *)
LEMMA OthersKept ==
    ASSUME NEW pending \in Seq(Transmission), NEW sender
    PROVE  LET r == WithoutSender(pending, sender)
           IN  /\ r \in Seq(Transmission)
               /\ pending = <<>> => r = <<>>
               /\ \A k \in DOMAIN r : /\ r[k].sender # sender
                                      /\ \E i \in DOMAIN pending : r[k] = pending[i]
               /\ (\A i, j \in DOMAIN pending : i < j => pending[i].id < pending[j].id)
                    => \A k, l \in DOMAIN r : k < l => r[k].id < r[l].id
  <1> DEFINE I == {i \in DOMAIN pending : pending[i].sender # sender}
             r == Sublist(pending, I)
  <1>1. I \in SUBSET DOMAIN pending
    OBVIOUS
  <1>2. r \in Seq(Transmission) /\ IsSublist(r, pending, I)
    BY <1>1, SublistElements
  <1>3. PICK f \in [DOMAIN r -> I] :
              /\ \A i, j \in DOMAIN r : i < j => f[i] < f[j]
              /\ \A k \in DOMAIN r : r[k] = pending[f[k]]
    BY <1>2 DEF IsSublist
  <1>4. WithoutSender(pending, sender) = r
    BY DEF WithoutSender
  <1>5. pending = <<>> => r = <<>>
    BY <1>2 DEF IsSublist
  <1>6. \A k \in DOMAIN r : f[k] \in DOMAIN pending /\ pending[f[k]].sender # sender
    OBVIOUS
  <1> HIDE DEF r, I
  <1>7. \A k \in DOMAIN r : /\ r[k].sender # sender
                            /\ \E i \in DOMAIN pending : r[k] = pending[i]
    BY <1>3, <1>6
  <1>8. (\A i, j \in DOMAIN pending : i < j => pending[i].id < pending[j].id)
            => \A k, l \in DOMAIN r : k < l => r[k].id < r[l].id
    BY <1>3, <1>6
  <1> QED
    BY <1>2, <1>4, <1>5, <1>7, <1>8

(* cancelSender() keeps the bus consistent and removes exactly what the    *)
(* sender had queued or on the wire.                                       *)
LEMMA CancelOK ==
    ASSUME NEW b, BusOK(b), now \in Time, NEW sender
    PROVE  LET c == CancelTransmissions(b, sender)
               owned == \E t \in b.in_flight_ : t.sender = sender
           IN  /\ BusOK(c)
               /\ c.mode_ = b.mode_ /\ c.nodes_ = b.nodes_ /\ c.loopback = b.loopback
               /\ c.next_node_id_ = b.next_node_id_
               /\ c.next_transmission_sequence_ = b.next_transmission_sequence_
               /\ c.pending_ = WithoutSender(b.pending_, sender)
               /\ c.in_flight_ = IF owned THEN {} ELSE b.in_flight_
               /\ c.fractional_numerator_ =
                     IF owned THEN b.in_flight_fraction_before_start_
                              ELSE b.fractional_numerator_
               /\ c.in_flight_fraction_before_start_
                     = b.in_flight_fraction_before_start_
               /\ c.mode_ = "timed" /\ c.pending_ # <<>> => c.timed_state_ # "idle"
  <1> DEFINE c == CancelTransmissions(b, sender)
             rest == WithoutSender(b.pending_, sender)
             owned == \E t \in b.in_flight_ : t.sender = sender
             k == [b EXCEPT !.pending_ = WithoutSender(@, sender)]
             x == CASE b.timed_state_ = "in_flight" /\ owned ->
                         [Disarm(k) EXCEPT
                            !.in_flight_ = {},
                            !.fractional_numerator_ = b.in_flight_fraction_before_start_,
                            !.next_start_ns_ = now]
                    [] b.timed_state_ = "arbitrating" -> Disarm(k)
                    [] OTHER -> k
  <1>0. c = ScheduleArbitration(x)
    BY DEF CancelTransmissions
  <1>1. b \in Bus /\ TimedOK(b) /\ QueueOK(b) /\ b.pending_ \in Seq(Transmission)
    BY DEF BusOK, Bus
  <1>2. /\ rest \in Seq(Transmission) /\ (b.pending_ = <<>> => rest = <<>>)
        /\ \A i \in DOMAIN rest : /\ rest[i].sender # sender
                                  /\ \E j \in DOMAIN b.pending_ : rest[i] = b.pending_[j]
        /\ \A i, j \in DOMAIN rest : i < j => rest[i].id < rest[j].id
    BY <1>1, OthersKept DEF QueueOK
  <1> HIDE DEF rest
  <1>3. /\ k \in Bus /\ k.pending_ = rest /\ k.mode_ = b.mode_ /\ k.nodes_ = b.nodes_
        /\ k.loopback = b.loopback /\ k.next_node_id_ = b.next_node_id_
        /\ k.in_flight_ = b.in_flight_ /\ k.timed_state_ = b.timed_state_
        /\ k.events = b.events /\ k.timed_event_id_ = b.timed_event_id_
        /\ k.next_start_ns_ = b.next_start_ns_
        /\ k.fractional_numerator_ = b.fractional_numerator_
        /\ k.in_flight_fraction_before_start_ = b.in_flight_fraction_before_start_
        /\ k.next_transmission_sequence_ = b.next_transmission_sequence_
    BY <1>1, <1>2 DEF Bus, rest
  <1>4. TimedOK(k)
    <2> HIDE DEF k
    <2> QED
      BY <1>1, <1>3 DEF TimedOK
  <1>5. QueueOK(k)
    <2> HIDE DEF k
    <2> QED
      BY <1>1, <1>2, <1>3 DEF QueueOK
  <1>6. b.in_flight_ # {} => b.timed_state_ = "in_flight"
    BY <1>1 DEF TimedOK, Bus
  <1>7. /\ BusOK(x) /\ x.mode_ = b.mode_ /\ x.nodes_ = b.nodes_
        /\ x.loopback = b.loopback /\ x.next_node_id_ = b.next_node_id_
        /\ x.next_transmission_sequence_ = b.next_transmission_sequence_
        /\ x.pending_ = rest
        /\ x.in_flight_ = IF owned THEN {} ELSE b.in_flight_
        /\ x.fractional_numerator_ =
              IF owned THEN b.in_flight_fraction_before_start_
                       ELSE b.fractional_numerator_
        /\ x.in_flight_fraction_before_start_ = b.in_flight_fraction_before_start_
    <2> HIDE DEF k
    <2>1. CASE owned
      <3>1. b.timed_state_ = "in_flight"
        BY <2>1, <1>6
      <3> DEFINE d == Disarm(k)
      <3>2. /\ d \in Bus /\ SameQueue(k, d) /\ d.events = {}
            /\ d.timed_event_id_ = 0 /\ d.timed_state_ = "idle"
        BY <3>1, <1>3, <1>4, DisarmOK
      <3>3. x = [d EXCEPT
                   !.in_flight_ = {},
                   !.fractional_numerator_ = b.in_flight_fraction_before_start_,
                   !.next_start_ns_ = now]
        BY <2>1, <3>1
      <3> HIDE DEF d, x
      <3>4. b.in_flight_fraction_before_start_ \in Nat
        BY <1>1 DEF Bus
      <3>5. /\ x \in Bus /\ x.mode_ = d.mode_ /\ x.nodes_ = d.nodes_
            /\ x.loopback = d.loopback /\ x.next_node_id_ = d.next_node_id_
            /\ x.next_transmission_sequence_ = d.next_transmission_sequence_
            /\ x.pending_ = d.pending_ /\ x.in_flight_ = {} /\ x.events = {}
            /\ x.timed_event_id_ = 0 /\ x.timed_state_ = "idle"
            /\ x.fractional_numerator_ = b.in_flight_fraction_before_start_
            /\ x.in_flight_fraction_before_start_
                  = d.in_flight_fraction_before_start_
        BY <3>2, <3>3, <3>4 DEF Bus
      <3>6. TimedOK(x)
        BY <3>5 DEF TimedOK
      <3>7. QueueOK(x)
        BY <3>5, <3>2, <1>5 DEF QueueOK, SameQueue
      <3> QED
        BY <3>2, <3>5, <3>6, <3>7, <2>1, <1>3 DEF SameQueue, BusOK
    <2>2. CASE ~owned /\ b.timed_state_ = "arbitrating"
      <3>1. x = Disarm(k)
        BY <2>2
      <3> HIDE DEF x
      <3>2. /\ x \in Bus /\ SameQueue(k, x) /\ x.events = {}
            /\ x.timed_event_id_ = 0 /\ x.timed_state_ = "idle"
        BY <3>1, <2>2, <1>3, <1>4, DisarmOK
      <3>3. TimedOK(x)
        BY <3>2, <2>2, <1>3, <1>4 DEF TimedOK, SameQueue
      <3>4. QueueOK(x)
        BY <3>2, <1>5 DEF QueueOK, SameQueue
      <3> QED
        BY <3>2, <3>3, <3>4, <2>2, <1>3 DEF SameQueue, BusOK
    <2>3. CASE ~owned /\ b.timed_state_ # "arbitrating"
      <3>1. x = k
        BY <2>3
      <3> HIDE DEF x
      <3> QED
        BY <3>1, <2>3, <1>3, <1>4, <1>5 DEF BusOK
    <2> QED
      BY <2>1, <2>2, <2>3
  <1> HIDE DEF x
  <1>8. /\ BusOK(c) /\ SameQueue(x, c)
        /\ c.mode_ = "timed" /\ c.pending_ # <<>> => c.timed_state_ # "idle"
    BY <1>0, <1>7, ScheduleOK
  <1> HIDE DEF c
  <1> QED
    BY <1>7, <1>8 DEF SameQueue, rest, c

-----------------------------------------------------------------------------
(* Calls on the stack.                                                     *)

(* d is what b may become while a call waits: the queue loses entries or   *)
(* gains newer ones, and only the queue goes on the wire.                  *)
Later(b, d) ==
    /\ d.mode_ = b.mode_
    /\ Attached(b) \subseteq Attached(d)
    /\ b.next_transmission_sequence_ <= d.next_transmission_sequence_
    /\ \A i \in DOMAIN d.pending_ :
          \/ \E j \in DOMAIN b.pending_ : d.pending_[i] = b.pending_[j]
          \/ d.pending_[i].id >= b.next_transmission_sequence_
    /\ d.in_flight_ \subseteq b.in_flight_

LEMMA CallKept ==
    ASSUME NEW b \in Bus, NEW d \in Bus, Later(b, d),
           NEW called, NEW became, NEW called2, NEW became2,
           NEW c, CallOK(b, called, became, c),
           Delivering(b, c) => /\ called2[c.tx.id] = called[c.tx.id]
                               /\ became2[c.tx.id] = became[c.tx.id]
    PROVE  CallOK(d, called2, became2, c)
  <1>1. c \in Call /\ c.tx \in Transmission /\ c.tx.id \in Nat
    BY DEF CallOK, Call, Transmission, TxId
  <1>2. /\ b.next_transmission_sequence_ \in Nat
        /\ d.next_transmission_sequence_ \in Nat
        /\ \A i \in DOMAIN d.pending_ : d.pending_[i].id \in Nat
    <2>1. d.pending_ \in Seq(Transmission)
      BY DEF Bus
    <2>2. \A i \in DOMAIN d.pending_ : d.pending_[i] \in Transmission
      BY <2>1
    <2> QED
      BY <2>2 DEF Bus, Transmission, TxId
  <1>3. c.tx.id < d.next_transmission_sequence_
    BY <1>1, <1>2 DEF CallOK, Later
  <1>4. ASSUME NEW i \in DOMAIN d.pending_, c.tx.sender = d.pending_[i].sender
        PROVE  c.tx.id < d.pending_[i].id
    BY <1>1, <1>2, <1>4 DEF CallOK, Later
  <1>5. ASSUME Delivering(d, c) PROVE Unsettled(d, called2, became2, c.tx.id)
    <2>1. Delivering(b, c)
      BY <1>5 DEF Delivering, Later
    <2>2. Unsettled(b, called, became, c.tx.id)
      BY <2>1 DEF CallOK
    <2>3. ASSUME NEW i \in DOMAIN d.pending_ PROVE d.pending_[i].id # c.tx.id
      BY <2>2, <1>1, <1>2 DEF Unsettled, Later, CallOK
    <2> QED
      BY <2>1, <2>2, <2>3 DEF Unsettled, Later
  <1> QED
    BY <1>1, <1>3, <1>4, <1>5 DEF CallOK, Later

LEMMA PushOK ==
    ASSUME NEW s, NEW b, NEW called, NEW became, CallsOK(s, b, called, became),
           NEW c, CallOK(b, called, became, c),
           \A l \in DOMAIN s : Delivering(b, s[l]) /\ Delivering(b, c)
                                   => s[l].tx.id # c.tx.id
    PROVE  CallsOK(Append(s, c), b, called, became)
  <1>1. s \in Seq(Call) /\ c \in Call
    BY DEF CallsOK, CallOK
  <1> DEFINE r == Append(s, c)
  <1>2. /\ r \in Seq(Call) /\ Len(s) \in Nat /\ DOMAIN s = 1..Len(s)
        /\ \A l \in DOMAIN r : \/ l \in DOMAIN s /\ r[l] = s[l]
                               \/ l = Len(s) + 1 /\ l \notin DOMAIN s /\ r[l] = c
    BY <1>1
  <1> HIDE DEF r
  <1>3. \A l \in DOMAIN r : CallOK(b, called, became, r[l])
    BY <1>2 DEF CallsOK
  <1>4. ASSUME NEW k \in DOMAIN r, NEW l \in DOMAIN r,
               Delivering(b, r[k]), Delivering(b, r[l]), r[k].tx.id = r[l].tx.id
        PROVE  k = l
    BY <1>2, <1>4 DEF CallsOK
  <1>5. CallsOK(r, b, called, became)
    BY <1>2, <1>3, <1>4 DEF CallsOK
  <1> QED
    BY <1>5 DEF r

LEMMA PopOK ==
    ASSUME NEW s, s # <<>>, NEW b, NEW called, NEW became,
           CallsOK(s, b, called, became)
    PROVE  LET r == SubSeq(s, 1, Len(s) - 1)
           IN  /\ CallsOK(r, b, called, became) /\ Len(r) = Len(s) - 1
               /\ \A l \in DOMAIN r : l \in DOMAIN s /\ l # Len(s) /\ r[l] = s[l]
               /\ Len(s) \in DOMAIN s
  <1> DEFINE r == SubSeq(s, 1, Len(s) - 1)
  <1>1. s \in Seq(Call) /\ Len(s) \in Nat \ {0} /\ DOMAIN s = 1..Len(s)
    BY DEF CallsOK
  <1>2. /\ r \in Seq(Call) /\ Len(r) = Len(s) - 1 /\ DOMAIN r = 1..(Len(s) - 1)
        /\ \A l \in 1..(Len(s) - 1) : r[l] = s[l]
    BY <1>1
  <1> HIDE DEF r
  <1>3. \A l \in DOMAIN r : l \in DOMAIN s /\ l # Len(s) /\ r[l] = s[l]
    BY <1>1, <1>2
  <1>4. CallsOK(r, b, called, became)
    BY <1>2, <1>3 DEF CallsOK
  <1> QED
    BY <1>1, <1>2, <1>3, <1>4 DEF r

(* At most one transmission is on the wire.                                *)
LEMMA OneOnWire ==
    ASSUME NEW b, BusOK(b)
    PROVE  Cardinality(b.in_flight_) <= 1
  <1>1. b.in_flight_ = {} \/ \E t \in b.in_flight_ : b.in_flight_ = {t}
    BY DEF BusOK, TimedOK, Bus
  <1>2. CASE b.in_flight_ = {}
    BY <1>2, FS_EmptySet
  <1>3. ASSUME NEW t \in b.in_flight_, b.in_flight_ = {t}
        PROVE  Cardinality(b.in_flight_) = 1
    BY <1>3, FS_Singleton
  <1> QED
    BY <1>1, <1>2, <1>3

-----------------------------------------------------------------------------
(* Every step keeps the invariant.                                         *)
LEMMA InitIInv == Init => IInv
  <1> SUFFICES ASSUME Init PROVE IInv
    OBVIOUS
  <1>1. bus \in Bus
    BY BoundAssumption DEF Init, Bus, DeliveryMode, Time
  <1>2. /\ bus.events = {} /\ bus.in_flight_ = {} /\ bus.timed_event_id_ = 0
        /\ bus.timed_state_ = "idle" /\ bus.pending_ = <<>>
        /\ bus.next_node_id_ = 1 /\ bus.fractional_numerator_ = 0
        /\ bus.in_flight_fraction_before_start_ = 0
    BY DEF Init
  <1>3. BusOK(bus)
    BY <1>1, <1>2, RateAssumption DEF BusOK, TimedOK, QueueOK
  <1>4. stack = <<>> /\ StackOK
    BY DEF Init, StackOK, CallsOK
  <1>5. TypeOK
    <2>1. now \in Time /\ cancels \in 0..MaxCancels
      BY BoundAssumption DEF Init, Time
    <2> QED
      BY <1>3, <1>4, <2>1, OneOnWire DEF Init, StackOK, CallsOK, TypeOK, BusOK
  <1>6. Awake /\ FatesOK(bus, calls, fate) /\ CompletedOnce
    BY <1>2 DEF Init, Awake, FatesOK, CompletedOnce
  <1>7. TimingOK
    BY <1>2, RateAssumption DEF Init, TimingOK, TimingExact
  <1> QED
    BY <1>3, <1>4, <1>5, <1>6, <1>7 DEF IInv

(* attach() adds a receiver.                                               *)
LEMMA AttachStep ==
    ASSUME IInv, NEW loopback \in BOOLEAN, Attach(loopback)
    PROVE  IInv'
  <1> DEFINE n == bus.next_node_id_
  <1>1. /\ bus \in Bus /\ BusOK(bus) /\ n \in NodeId
        /\ UNCHANGED <<now, stack, fate, calls, air, cancels>>
    BY DEF IInv, BusOK, Attach, Bus, NodeId
  <1>2. /\ bus' \in Bus /\ bus'.nodes_ = Append(bus.nodes_, n)
        /\ bus'.next_node_id_ = n + 1 /\ bus'.mode_ = bus.mode_
        /\ bus'.pending_ = bus.pending_ /\ bus'.in_flight_ = bus.in_flight_
        /\ bus'.timed_state_ = bus.timed_state_ /\ bus'.events = bus.events
        /\ bus'.timed_event_id_ = bus.timed_event_id_
        /\ bus'.next_start_ns_ = bus.next_start_ns_
        /\ bus'.fractional_numerator_ = bus.fractional_numerator_
        /\ bus'.in_flight_fraction_before_start_
              = bus.in_flight_fraction_before_start_
        /\ bus'.next_transmission_sequence_ = bus.next_transmission_sequence_
    <2>1. Append(bus.nodes_, n) \in Seq(NodeId)
      BY <1>1 DEF Bus
    <2>2. (IF loopback THEN bus.loopback \cup {n} ELSE bus.loopback) \in SUBSET NodeId
      BY <1>1 DEF Bus
    <2>3. n + 1 \in Nat
      BY <1>1 DEF Bus
    <2> QED
      BY <1>1, <2>1, <2>2, <2>3 DEF Attach, Bus
  <1>3. BusOK(bus')
    <2>1. TimedOK(bus')
      BY <1>1, <1>2 DEF BusOK, TimedOK
    <2>2. QueueOK(bus')
      BY <1>1, <1>2 DEF BusOK, QueueOK
    <2>3. n + 1 > 0
      BY <1>1 DEF NodeId
    <2> QED
      BY <1>1, <1>2, <2>1, <2>2, <2>3 DEF BusOK
  <1>4. Later(bus, bus')
    <2>1. Attached(bus) \subseteq Attached(bus')
      <3>1. bus.nodes_ \in Seq(NodeId)
        BY <1>1 DEF Bus
      <3>2. \A i \in DOMAIN bus.nodes_ : /\ i \in DOMAIN bus'.nodes_
                                         /\ bus'.nodes_[i] = bus.nodes_[i]
        BY <1>1, <1>2, <3>1
      <3> QED
        BY <3>2 DEF Attached
    <2>2. bus.next_transmission_sequence_ \in Nat
      BY <1>1 DEF Bus
    <2> QED
      BY <1>2, <2>1, <2>2 DEF Later
  <1>5. StackOK'
    BY <1>1, <1>2, <1>4, CallKept DEF IInv, StackOK, CallsOK, Delivering
  <1>6. TypeOK'
    BY <1>1, <1>2, <1>3 DEF IInv, TypeOK, BusOK
  <1>7. Awake' /\ FatesOK(bus, calls, fate)' /\ CompletedOnce'
    BY <1>1, <1>2 DEF IInv, Awake, FatesOK, CompletedOnce
  <1>8. TimingOK'
    BY <1>1, <1>2 DEF IInv, TimingOK, TimingExact
  <1> QED
    BY <1>3, <1>5, <1>6, <1>7, <1>8 DEF IInv

(* What cancelSender() does to the invariant, whoever calls it: c is the   *)
(* bus it leaves.                                                          *)
LEMMA CancelStep ==
    ASSUME IInv, NEW n,
           fate' = FateAfterCancel(n),
           air' = AirAfterCancel(CancelTransmissions(bus, n)),
           UNCHANGED <<now, calls>>
    PROVE  LET c == CancelTransmissions(bus, n)
           IN  /\ BusOK(c) /\ c.mode_ = bus.mode_ /\ c.nodes_ = bus.nodes_
               /\ Later(bus, c)
               /\ c.mode_ = "timed" /\ c.pending_ # <<>> => c.timed_state_ # "idle"
               /\ \A l \in DOMAIN stack : CallOK(c, calls', fate', stack[l])
               /\ FatesOK(c, calls', fate') /\ CompletedOnce'
               /\ fate' \in [TxId -> {"unused", "queued", "on_wire", "delivered",
                                      "cancelled", "failed"}]
               /\ air' \in [bits : Nat, time : Nat, old_bits : Nat, old_time : Nat]
               /\ air'.time * Bitrate + c.fractional_numerator_ = air'.bits * Second
               /\ c.in_flight_ # {} =>
                     air'.old_time * Bitrate + c.in_flight_fraction_before_start_
                         = air'.old_bits * Second
  <1> DEFINE c == CancelTransmissions(bus, n)
             owned == \E t \in bus.in_flight_ : t.sender = n
             rest == WithoutSender(bus.pending_, n)
  <1>1. /\ TypeOK /\ BusOK(bus) /\ bus \in Bus /\ StackOK
        /\ FatesOK(bus, calls, fate) /\ CompletedOnce /\ TimingOK
        /\ bus.pending_ \in Seq(Transmission)
    BY DEF IInv, BusOK, Bus
  <1>2. /\ BusOK(c) /\ c.mode_ = bus.mode_ /\ c.nodes_ = bus.nodes_
        /\ c.next_transmission_sequence_ = bus.next_transmission_sequence_
        /\ c.pending_ = rest /\ c.in_flight_ = IF owned THEN {} ELSE bus.in_flight_
        /\ c.fractional_numerator_ =
              IF owned THEN bus.in_flight_fraction_before_start_
                       ELSE bus.fractional_numerator_
        /\ c.in_flight_fraction_before_start_ = bus.in_flight_fraction_before_start_
        /\ c.mode_ = "timed" /\ c.pending_ # <<>> => c.timed_state_ # "idle"
    BY <1>1, CancelOK DEF TypeOK
  <1>3. \A k \in DOMAIN rest : /\ rest[k].sender # n
                               /\ \E i \in DOMAIN bus.pending_ : rest[k] = bus.pending_[i]
    BY <1>1, OthersKept
  <1> HIDE DEF c, rest
  <1>4. c \in Bus /\ bus.next_transmission_sequence_ \in Nat
    BY <1>1, <1>2 DEF BusOK, Bus
  <1>5. Later(bus, c)
    BY <1>2, <1>3, <1>4 DEF Later, Attached
  <1>6. \A t \in TxId : \/ fate'[t] = fate[t]
                        \/ /\ fate'[t] = "cancelled" /\ calls[t] = 0
                           /\ \/ \E i \in DOMAIN bus.pending_ :
                                    bus.pending_[i].id = t /\ bus.pending_[i].sender = n
                              \/ \E u \in bus.in_flight_ : u.id = t /\ u.sender = n
    BY <1>1 DEF FateAfterCancel, FatesOK
  <1>7. fate' \in [TxId -> {"unused", "queued", "on_wire", "delivered",
                           "cancelled", "failed"}]
    BY <1>1 DEF FateAfterCancel, TypeOK
  <1>8. ASSUME NEW l \in DOMAIN stack PROVE CallOK(c, calls', fate', stack[l])
    <2>1. CallOK(bus, calls, fate, stack[l]) /\ stack[l].tx.id \in TxId
      BY <1>1, <1>8 DEF StackOK, CallsOK, CallOK, Call, Transmission
    <2>2. Delivering(bus, stack[l]) => fate'[stack[l].tx.id] = fate[stack[l].tx.id]
      BY <2>1, <1>6 DEF CallOK, Unsettled
    <2> QED
      BY <2>1, <2>2, <1>1, <1>4, <1>5, CallKept
  <1>9. FatesOK(c, calls', fate')
    <2>1. \A i \in DOMAIN rest : calls'[rest[i].id] = 0
      BY <1>1, <1>3 DEF FatesOK
    <2>2. ASSUME NEW t \in c.in_flight_
          PROVE  calls'[t.id] = 0 /\ fate'[t.id] # "cancelled"
      <3>1. t \in bus.in_flight_ /\ ~owned /\ t.id \in TxId
        BY <1>1, <1>2, <2>2 DEF Bus, Transmission
      <3>2. \A u \in bus.in_flight_ : u = t
        BY <3>1, <1>1 DEF BusOK, TimedOK, Bus
      <3>3. \A i \in DOMAIN bus.pending_ : bus.pending_[i].id # t.id
        BY <3>1, <1>1 DEF BusOK, QueueOK
      <3> QED
        BY <3>1, <3>2, <3>3, <1>1, <1>6 DEF FatesOK
    <2> QED
      BY <2>1, <2>2, <1>1, <1>2 DEF FatesOK
  <1>10. CompletedOnce'
    BY <1>1, <1>6 DEF CompletedOnce
  <1>11. /\ air' \in [bits : Nat, time : Nat, old_bits : Nat, old_time : Nat]
         /\ air'.time * Bitrate + c.fractional_numerator_ = air'.bits * Second
         /\ c.in_flight_ # {} =>
              air'.old_time * Bitrate + c.in_flight_fraction_before_start_
                  = air'.old_bits * Second
    <2>1. CASE owned
      <3>1. bus.in_flight_ # {} /\ c.in_flight_ = {}
        BY <2>1, <1>2
      <3>2. air' = [air EXCEPT !.bits = air.old_bits, !.time = air.old_time]
        BY <3>1 DEF AirAfterCancel, c
      <3>3. /\ air' \in [bits : Nat, time : Nat, old_bits : Nat, old_time : Nat]
            /\ air'.bits = air.old_bits /\ air'.time = air.old_time
        BY <3>2, <1>1 DEF TypeOK
      <3> QED
        BY <3>1, <3>3, <2>1, <1>1, <1>2 DEF TimingOK
    <2>2. CASE ~owned
      <3>1. c.in_flight_ = bus.in_flight_
        BY <2>2, <1>2
      <3>2. air' = air
        BY <3>1 DEF AirAfterCancel, c
      <3> QED
        BY <3>1, <3>2, <2>2, <1>1, <1>2 DEF TimingOK, TimingExact, TypeOK
    <2> QED
      BY <2>1, <2>2
  <1> QED
    BY <1>2, <1>5, <1>7, <1>8, <1>9, <1>10, <1>11 DEF c

(* cancelSender().                                                         *)
LEMMA CancelSenderStep ==
    ASSUME IInv, NEW n, CancelSender(n)
    PROVE  IInv'
  <1> DEFINE c == CancelTransmissions(bus, n)
  <1>1. /\ bus' = c /\ cancels' \in 0..MaxCancels /\ UNCHANGED <<now, stack, calls>>
        /\ fate' = FateAfterCancel(n) /\ air' = AirAfterCancel(c)
    BY BoundAssumption DEF CancelSender, IInv, TypeOK
  <1> HIDE DEF c
  <1>2. /\ BusOK(c) /\ c.mode_ = bus.mode_
        /\ c.mode_ = "timed" /\ c.pending_ # <<>> => c.timed_state_ # "idle"
        /\ \A l \in DOMAIN stack : CallOK(c, calls', fate', stack[l])
        /\ FatesOK(c, calls', fate') /\ CompletedOnce'
        /\ fate' \in [TxId -> {"unused", "queued", "on_wire", "delivered",
                               "cancelled", "failed"}]
        /\ air' \in [bits : Nat, time : Nat, old_bits : Nat, old_time : Nat]
        /\ air'.time * Bitrate + c.fractional_numerator_ = air'.bits * Second
        /\ c.in_flight_ # {} =>
              air'.old_time * Bitrate + c.in_flight_fraction_before_start_
                  = air'.old_bits * Second
    BY <1>1, CancelStep DEF c
  <1>3. StackOK'
    BY <1>1, <1>2 DEF IInv, StackOK, CallsOK, Delivering
  <1>4. TypeOK'
    <2>1. /\ now' \in Time /\ stack' \in Seq(Call) /\ calls' \in [TxId -> Nat]
      BY <1>1 DEF IInv, TypeOK
    <2> QED
      BY <2>1, <1>1, <1>2, OneOnWire DEF TypeOK, BusOK
  <1>5. Awake'
    BY <1>1, <1>2 DEF Awake
  <1>6. TimingOK'
    BY <1>1, <1>2 DEF TimingOK, TimingExact
  <1> QED
    BY <1>1, <1>2, <1>3, <1>4, <1>5, <1>6 DEF IInv

(* detach() cancels and removes the receiver; deliveries in progress owe   *)
(* it nothing more.                                                        *)
LEMMA DetachStep ==
    ASSUME IInv, NEW n, Detach(n)
    PROVE  IInv'
  <1> DEFINE c == CancelTransmissions(bus, n)
             I == {i \in DOMAIN c.nodes_ : c.nodes_[i] # n}
  <1>1. /\ bus' = [c EXCEPT !.nodes_ = Sublist(@, I)]
        /\ cancels' \in 0..MaxCancels /\ UNCHANGED <<now, calls>>
        /\ fate' = FateAfterCancel(n) /\ air' = AirAfterCancel(c)
        /\ stack' = [l \in DOMAIN stack |-> [stack[l] EXCEPT !.owed = @ \ {n}]]
    BY BoundAssumption DEF Detach, IInv, TypeOK
  <1>2. /\ BusOK(c) /\ c.mode_ = bus.mode_ /\ c.nodes_ = bus.nodes_
        /\ c.mode_ = "timed" /\ c.pending_ # <<>> => c.timed_state_ # "idle"
        /\ \A l \in DOMAIN stack : CallOK(c, calls', fate', stack[l])
        /\ FatesOK(c, calls', fate') /\ CompletedOnce'
        /\ fate' \in [TxId -> {"unused", "queued", "on_wire", "delivered",
                               "cancelled", "failed"}]
        /\ air' \in [bits : Nat, time : Nat, old_bits : Nat, old_time : Nat]
        /\ air'.time * Bitrate + c.fractional_numerator_ = air'.bits * Second
        /\ c.in_flight_ # {} =>
              air'.old_time * Bitrate + c.in_flight_fraction_before_start_
                  = air'.old_bits * Second
    BY <1>1, CancelStep
  <1>3. c \in Bus /\ c.nodes_ \in Seq(NodeId)
    BY <1>2 DEF BusOK, Bus
  <1> HIDE DEF c
  <1>4. Sublist(c.nodes_, I) \in Seq(NodeId) /\ IsSublist(Sublist(c.nodes_, I), c.nodes_, I)
    <2>1. I \in SUBSET DOMAIN c.nodes_
      OBVIOUS
    <2> HIDE DEF I
    <2> QED
      BY <1>3, <2>1, SublistElements
  <1>5. /\ bus' \in Bus /\ bus'.nodes_ = Sublist(c.nodes_, I)
        /\ bus'.mode_ = c.mode_ /\ bus'.next_node_id_ = c.next_node_id_
        /\ bus'.pending_ = c.pending_ /\ bus'.in_flight_ = c.in_flight_
        /\ bus'.timed_state_ = c.timed_state_ /\ bus'.events = c.events
        /\ bus'.timed_event_id_ = c.timed_event_id_
        /\ bus'.next_start_ns_ = c.next_start_ns_
        /\ bus'.fractional_numerator_ = c.fractional_numerator_
        /\ bus'.in_flight_fraction_before_start_
              = c.in_flight_fraction_before_start_
        /\ bus'.next_transmission_sequence_ = c.next_transmission_sequence_
    <2> HIDE DEF I
    <2> QED
      BY <1>1, <1>3, <1>4 DEF Bus
  <1>6. \A m \in Attached(c) : m # n => m \in Attached(bus')
    <2> SUFFICES ASSUME NEW i \in DOMAIN c.nodes_, c.nodes_[i] # n
                 PROVE  c.nodes_[i] \in Attached(bus')
      BY DEF Attached
    <2>1. i \in I
      OBVIOUS
    <2> HIDE DEF I
    <2>2. \E k \in DOMAIN bus'.nodes_ : bus'.nodes_[k] = c.nodes_[i]
      BY <2>1, <1>4, <1>5 DEF IsSublist
    <2> QED
      BY <2>2 DEF Attached
  <1>7. BusOK(bus')
    <2>1. TimedOK(bus')
      BY <1>2, <1>5 DEF BusOK, TimedOK
    <2>2. QueueOK(bus')
      BY <1>2, <1>5 DEF BusOK, QueueOK
    <2> QED
      BY <2>1, <2>2, <1>2, <1>5 DEF BusOK
  <1>8. stack \in Seq(Call) /\ DOMAIN stack' = DOMAIN stack
    BY <1>1 DEF IInv, StackOK, CallsOK
  <1>9. ASSUME NEW l \in DOMAIN stack
        PROVE  /\ stack'[l] \in Call /\ stack'[l].phase = stack[l].phase
               /\ stack'[l].tx = stack[l].tx /\ stack'[l].todo = stack[l].todo
               /\ stack'[l].owed = stack[l].owed \ {n}
    <2>1. stack[l] \in Call
      BY <1>8
    <2> QED
      BY <2>1, <1>1 DEF Call
  <1>10. ASSUME NEW l \in DOMAIN stack PROVE CallOK(bus', calls', fate', stack'[l])
    <2>1. CallOK(c, calls', fate', stack[l])
      BY <1>2
    <2>2. ToReceive(stack'[l]) = ToReceive(stack[l])
      <3>1. stack'[l].phase = stack[l].phase /\ stack'[l].todo = stack[l].todo
        BY <1>9
      <3>2. PICK now_ : now_ = stack'[l]
        OBVIOUS
      <3>3. PICK then_ : then_ = stack[l]
        OBVIOUS
      <3>4. ToReceive(now_) = ToReceive(then_)
        BY <3>1, <3>2, <3>3, Zenon DEF ToReceive
      <3> QED
        BY <3>2, <3>3, <3>4, Zenon
    <2>3. Delivering(bus', stack'[l]) => Unsettled(bus', calls', fate', stack'[l].tx.id)
      BY <2>1, <1>5, <1>9 DEF CallOK, Delivering, Unsettled
    <2> QED
      BY <2>1, <2>2, <2>3, <1>5, <1>6, <1>9 DEF CallOK
  <1>11. stack' \in Seq(Call) /\ Len(stack') = Len(stack)
    <2>1. DOMAIN stack = 1..Len(stack) /\ Len(stack) \in Nat
      BY <1>8
    <2>2. stack' = [l \in 1..Len(stack) |-> stack'[l]]
      BY <2>1, <1>1
    <2> QED
      BY <2>1, <2>2, <1>9, IsASeq
  <1>12. StackOK'
    <2>1. \A k, l \in DOMAIN stack' :
             Delivering(bus', stack'[k]) /\ Delivering(bus', stack'[l])
               /\ stack'[k].tx.id = stack'[l].tx.id => k = l
      BY <1>2, <1>5, <1>8, <1>9 DEF IInv, StackOK, CallsOK, Delivering
    <2>2. bus'.mode_ = "timed" => Len(stack') <= 1
      BY <1>2, <1>5, <1>11 DEF IInv, StackOK, CallsOK
    <2> QED
      BY <2>1, <2>2, <1>8, <1>10, <1>11 DEF StackOK, CallsOK
  <1>13. TypeOK'
    <2>1. now' \in Time /\ calls' \in [TxId -> Nat]
      BY <1>1 DEF IInv, TypeOK
    <2> QED
      BY <2>1, <1>1, <1>2, <1>7, <1>11, OneOnWire DEF TypeOK, BusOK
  <1>14. Awake'
    BY <1>2, <1>5 DEF Awake
  <1>15. FatesOK(bus, calls, fate)' /\ TimingOK'
    BY <1>2, <1>5 DEF FatesOK, TimingOK, TimingExact
  <1> QED
    BY <1>2, <1>7, <1>12, <1>13, <1>14, <1>15 DEF IInv

(* submit() in the timed mode.                                             *)
LEMMA SubmitTimedStep ==
    ASSUME IInv, NEW sender \in Attached(bus) \cup {External}, NEW frame \in Frames,
           NEW requested \in Time, SubmitTimed(sender, frame, requested)
    PROVE  IInv'
  <1> DEFINE tx == Request(sender, frame, requested)
             q == [bus EXCEPT !.pending_ = Append(@, tx),
                              !.next_transmission_sequence_ = @ + 1]
             x == IF bus.timed_state_ = "arbitrating" THEN Disarm(q) ELSE q
  <1>1. /\ TypeOK /\ BusOK(bus) /\ bus \in Bus /\ StackOK /\ TimedOK(bus) /\ QueueOK(bus)
        /\ FatesOK(bus, calls, fate) /\ CompletedOnce /\ TimingOK
        /\ bus.pending_ \in Seq(Transmission) /\ now \in Time
        /\ bus.next_transmission_sequence_ \in Nat /\ bus.mode_ = "timed"
    BY DEF IInv, BusOK, Bus, TypeOK, SubmitTimed
  <1>2. /\ bus' = ScheduleArbitration(x)
        /\ fate' = [fate EXCEPT ![tx.id] = "queued"]
        /\ UNCHANGED <<now, stack, calls, air, cancels>>
    BY DEF SubmitTimed
  <1>3. tx \in Transmission /\ tx.id = bus.next_transmission_sequence_
    <2>1. sender \in NodeId \cup {External}
      BY <1>1 DEF Attached, Bus
    <2>2. tx.id \in TxId
      BY DEF SubmitTimed
    <2> QED
      BY <2>1, <2>2 DEF Request, Transmission
  <1> HIDE DEF tx
  <1>4. /\ q \in Bus /\ q.pending_ = Append(bus.pending_, tx)
        /\ q.next_transmission_sequence_ = bus.next_transmission_sequence_ + 1
        /\ q.mode_ = bus.mode_ /\ q.nodes_ = bus.nodes_
        /\ q.next_node_id_ = bus.next_node_id_
        /\ q.in_flight_ = bus.in_flight_ /\ q.timed_state_ = bus.timed_state_
        /\ q.events = bus.events /\ q.timed_event_id_ = bus.timed_event_id_
        /\ q.next_start_ns_ = bus.next_start_ns_
        /\ q.fractional_numerator_ = bus.fractional_numerator_
        /\ q.in_flight_fraction_before_start_ = bus.in_flight_fraction_before_start_
    <2>1. /\ Append(bus.pending_, tx) \in Seq(Transmission)
          /\ bus.next_transmission_sequence_ + 1 \in Nat
      BY <1>1, <1>3
    <2> QED
      BY <1>1, <2>1 DEF Bus
  <1> HIDE DEF q
  <1>5. /\ DOMAIN q.pending_ = 1..(Len(bus.pending_) + 1) /\ Len(bus.pending_) \in Nat
        /\ \A i \in 1..Len(bus.pending_) : q.pending_[i] = bus.pending_[i]
        /\ q.pending_[Len(bus.pending_) + 1] = tx
        /\ DOMAIN bus.pending_ = 1..Len(bus.pending_)
    BY <1>1, <1>3, <1>4
  <1>6. \A i \in DOMAIN q.pending_ :
           (i \in DOMAIN bus.pending_ /\ q.pending_[i] = bus.pending_[i])
             \/ (i = Len(bus.pending_) + 1 /\ q.pending_[i] = tx)
    BY <1>5
  <1>7. TimedOK(q)
    BY <1>1, <1>4 DEF TimedOK
  <1>8. QueueOK(q)
    <2>1. \A i \in DOMAIN bus.pending_ : bus.pending_[i].id \in Nat
      <3>1. \A i \in DOMAIN bus.pending_ : bus.pending_[i] \in Transmission
        BY <1>1
      <3> QED
        BY <3>1 DEF Transmission, TxId
    <2>2. \A t \in bus.in_flight_ : t.id \in Nat
      BY <1>1 DEF Bus, Transmission, TxId
    <2>3. \A i \in DOMAIN q.pending_ : /\ q.pending_[i].id \in Nat
                                       /\ q.pending_[i].id < q.next_transmission_sequence_
      BY <2>1, <1>1, <1>3, <1>4, <1>6 DEF QueueOK
    <2>4. ASSUME NEW i \in DOMAIN q.pending_, NEW j \in DOMAIN q.pending_, i < j
          PROVE  q.pending_[i].id < q.pending_[j].id
      <3>1. i \in DOMAIN bus.pending_ /\ q.pending_[i] = bus.pending_[i]
        BY <2>4, <1>5
      <3>2. CASE j \in DOMAIN bus.pending_
        BY <3>1, <3>2, <2>4, <1>1, <1>5 DEF QueueOK
      <3>3. CASE q.pending_[j] = tx
        BY <3>1, <3>3, <1>1, <1>3 DEF QueueOK
      <3> QED
        BY <3>2, <3>3, <1>6
    <2>5. ASSUME NEW t \in q.in_flight_, NEW i \in DOMAIN q.pending_
          PROVE  /\ t.id # q.pending_[i].id
                 /\ t.sender = q.pending_[i].sender => t.id < q.pending_[i].id
      BY <2>2, <2>5, <1>1, <1>3, <1>4, <1>6 DEF QueueOK
    <2>6. \A t \in q.in_flight_ : t.id < q.next_transmission_sequence_
      BY <2>2, <1>1, <1>4 DEF QueueOK
    <2> QED
      BY <2>3, <2>4, <2>5, <2>6, <1>1, <1>4 DEF QueueOK
  <1>9. BusOK(x) /\ SameQueue(q, x)
    <2>1. CASE bus.timed_state_ = "arbitrating"
      <3>1. x = Disarm(q) /\ q.timed_state_ # "idle" /\ q.in_flight_ = {}
        BY <2>1, <1>1, <1>4 DEF TimedOK
      <3> HIDE DEF x
      <3>2. /\ x \in Bus /\ SameQueue(q, x) /\ x.events = {}
            /\ x.timed_event_id_ = 0 /\ x.timed_state_ = "idle"
        BY <3>1, <1>4, <1>7, DisarmOK
      <3>3. TimedOK(x)
        BY <3>1, <3>2 DEF TimedOK, SameQueue
      <3>4. QueueOK(x)
        BY <3>2, <1>8 DEF QueueOK, SameQueue
      <3> QED
        BY <3>2, <3>3, <3>4, <1>1, <1>4 DEF BusOK, SameQueue
    <2>2. CASE bus.timed_state_ # "arbitrating"
      <3>1. x = q
        BY <2>2
      <3> QED
        BY <3>1, <1>1, <1>4, <1>7, <1>8 DEF BusOK, SameQueue
    <2> QED
      BY <2>1, <2>2
  <1> HIDE DEF x
  <1>10. /\ BusOK(bus') /\ SameQueue(x, bus')
         /\ bus'.mode_ = "timed" /\ bus'.pending_ # <<>> => bus'.timed_state_ # "idle"
    BY <1>1, <1>2, <1>9, ScheduleOK
  <1>11. /\ bus' \in Bus /\ bus'.mode_ = bus.mode_ /\ bus'.nodes_ = bus.nodes_
         /\ bus'.pending_ = q.pending_ /\ bus'.in_flight_ = bus.in_flight_
         /\ bus'.next_transmission_sequence_ = bus.next_transmission_sequence_ + 1
         /\ bus'.fractional_numerator_ = bus.fractional_numerator_
         /\ bus'.in_flight_fraction_before_start_
               = bus.in_flight_fraction_before_start_
    BY <1>4, <1>9, <1>10 DEF SameQueue, BusOK
  <1>12. Later(bus, bus')
    BY <1>1, <1>3, <1>6, <1>11 DEF Later, Attached
  <1>13. ASSUME NEW l \in DOMAIN stack PROVE CallOK(bus', calls', fate', stack[l])
    <2>1. CallOK(bus, calls, fate, stack[l]) /\ stack[l].tx.id \in Nat
      BY <1>1 DEF StackOK, CallsOK, CallOK, Call, Transmission, TxId
    <2>2. stack[l].tx.id # tx.id
      BY <2>1, <1>1, <1>3 DEF CallOK
    <2>3. /\ fate'[stack[l].tx.id] = fate[stack[l].tx.id]
          /\ calls'[stack[l].tx.id] = calls[stack[l].tx.id]
      BY <2>2, <1>1, <1>2 DEF TypeOK
    <2> QED
      BY <2>1, <2>3, <1>1, <1>11, <1>12, CallKept
  <1>14. StackOK'
    BY <1>1, <1>2, <1>11, <1>13 DEF StackOK, CallsOK, Delivering
  <1>15. TypeOK'
    BY <1>1, <1>2, <1>10, OneOnWire DEF TypeOK, BusOK
  <1>16. Awake'
    BY <1>10 DEF Awake
  <1>17. FatesOK(bus, calls, fate)'
    <2>1. tx.id \in TxId /\ calls[tx.id] = 0
      BY <1>1, <1>3 DEF FatesOK, Transmission
    <2>2. \A i \in DOMAIN bus'.pending_ : calls[bus'.pending_[i].id] = 0
      BY <2>1, <1>1, <1>6, <1>11 DEF FatesOK
    <2>3. \A t \in bus'.in_flight_ : calls[t.id] = 0 /\ fate'[t.id] # "cancelled"
      <3>1. \A t \in bus.in_flight_ : t.id \in TxId /\ t.id # tx.id
        BY <1>1, <1>3 DEF QueueOK, Bus, Transmission, TxId
      <3> QED
        BY <3>1, <1>1, <1>2, <1>11 DEF FatesOK
    <2>4. \A t \in TxId : t >= bus'.next_transmission_sequence_ => calls[t] = 0
      BY <1>1, <1>11 DEF FatesOK, TxId
    <2> QED
      BY <2>2, <2>3, <2>4, <1>2 DEF FatesOK
  <1>18. CompletedOnce'
    <2>1. calls[tx.id] = 0
      BY <1>1, <1>3 DEF FatesOK, Transmission
    <2> QED
      BY <2>1, <1>1, <1>2 DEF CompletedOnce
  <1>19. TimingOK'
    BY <1>1, <1>2, <1>11 DEF TimingOK, TimingExact
  <1> QED
    BY <1>10, <1>14, <1>15, <1>16, <1>17, <1>18, <1>19 DEF IInv

(* submit() in the immediate mode.                                         *)
LEMMA SubmitImmediateStep ==
    ASSUME IInv, NEW sender \in Attached(bus) \cup {External}, NEW frame \in Frames,
           SubmitImmediate(sender, frame)
    PROVE  IInv'
  <1> DEFINE tx == Request(sender, frame, now)
             c == Waiting("sof", tx, <<>>, {})
  <1>1. /\ TypeOK /\ BusOK(bus) /\ bus \in Bus /\ StackOK /\ TimedOK(bus) /\ QueueOK(bus)
        /\ CallsOK(stack, bus, calls, fate)
        /\ FatesOK(bus, calls, fate) /\ CompletedOnce /\ TimingOK
        /\ bus.next_transmission_sequence_ \in Nat /\ bus.mode_ = "immediate"
        /\ bus.pending_ = <<>> /\ stack \in Seq(Call)
    BY DEF IInv, BusOK, Bus, StackOK, CallsOK, QueueOK, SubmitImmediate
  <1>2. /\ bus' = [bus EXCEPT !.next_transmission_sequence_ = @ + 1]
        /\ stack' = Append(stack, c)
        /\ fate' = [fate EXCEPT ![tx.id] = "on_wire"]
        /\ UNCHANGED <<now, calls, air, cancels>>
    BY DEF SubmitImmediate
  <1>3. tx \in Transmission /\ tx.id = bus.next_transmission_sequence_
    <2>1. sender \in NodeId \cup {External}
      BY <1>1 DEF Attached, Bus
    <2>2. tx.id \in TxId /\ now \in Time
      BY <1>1 DEF SubmitImmediate, TypeOK
    <2> QED
      BY <2>1, <2>2 DEF Request, Transmission
  <1> HIDE DEF tx
  <1>4. /\ bus' \in Bus /\ bus'.mode_ = bus.mode_ /\ bus'.nodes_ = bus.nodes_
        /\ bus'.next_transmission_sequence_ = bus.next_transmission_sequence_ + 1
        /\ bus'.next_node_id_ = bus.next_node_id_
        /\ bus'.pending_ = <<>> /\ bus'.in_flight_ = bus.in_flight_
        /\ bus'.timed_state_ = bus.timed_state_ /\ bus'.events = bus.events
        /\ bus'.timed_event_id_ = bus.timed_event_id_
        /\ bus'.next_start_ns_ = bus.next_start_ns_
        /\ bus'.fractional_numerator_ = bus.fractional_numerator_
        /\ bus'.in_flight_fraction_before_start_
              = bus.in_flight_fraction_before_start_
    <2>1. bus.next_transmission_sequence_ + 1 \in Nat
      BY <1>1
    <2>2. bus'.pending_ = bus.pending_
      BY <1>1, <1>2 DEF Bus
    <2>3. bus' \in Bus
      BY <1>1, <1>2, <2>1 DEF Bus
    <2> QED
      BY <1>1, <1>2, <2>2, <2>3 DEF Bus
  <1>5. \A t \in bus.in_flight_ : /\ t.id \in TxId /\ t.id \in Nat /\ t.id # tx.id
                                  /\ t.id < bus.next_transmission_sequence_
    BY <1>1, <1>3 DEF QueueOK, Bus, Transmission, TxId
  <1>6. BusOK(bus')
    <2>1. TimedOK(bus')
      BY <1>1, <1>4 DEF TimedOK
    <2>2. QueueOK(bus')
      BY <1>1, <1>4, <1>5 DEF QueueOK
    <2> QED
      BY <2>1, <2>2, <1>1, <1>4 DEF BusOK
  <1>7. tx.id \in TxId /\ calls[tx.id] = 0
    BY <1>1, <1>3 DEF FatesOK, Transmission
  <1>8. CallsOK(stack, bus', calls', fate')
    <2>1. Later(bus, bus')
      BY <1>1, <1>4 DEF Later, Attached
    <2>2. ASSUME NEW l \in DOMAIN stack PROVE CallOK(bus', calls', fate', stack[l])
      <3>1. CallOK(bus, calls, fate, stack[l]) /\ stack[l].tx.id \in Nat
        BY <1>1 DEF CallsOK, CallOK, Call, Transmission, TxId
      <3>2. stack[l].tx.id # tx.id
        BY <3>1, <1>1, <1>3 DEF CallOK
      <3>3. /\ fate'[stack[l].tx.id] = fate[stack[l].tx.id]
            /\ calls'[stack[l].tx.id] = calls[stack[l].tx.id]
        BY <3>2, <1>1, <1>2 DEF TypeOK
      <3> QED
        BY <3>1, <3>3, <2>1, <1>1, <1>4, CallKept
    <2> QED
      BY <2>2, <1>1, <1>4 DEF CallsOK, Delivering
  <1>9. CallOK(bus', calls', fate', c)
    <2>1. /\ c \in Call /\ c.phase = "sof" /\ c.tx = tx /\ c.todo = <<>> /\ c.owed = {}
      BY <1>3 DEF Waiting, Call
    <2>2. Unsettled(bus', calls', fate', tx.id)
      BY <1>1, <1>2, <1>4, <1>5, <1>7 DEF Unsettled, TypeOK
    <2> HIDE DEF c
    <2> QED
      BY <2>1, <2>2, <1>1, <1>3, <1>4 DEF CallOK
  <1>10. CallsOK(stack', bus', calls', fate')
    <2>1. \A l \in DOMAIN stack : stack[l].tx.id # c.tx.id
      <3>1. c.tx = tx
        BY DEF Waiting
      <3> QED
        BY <3>1, <1>1, <1>3 DEF CallsOK, CallOK, Call, Transmission, TxId
    <2> HIDE DEF c
    <2> QED
      BY <2>1, <1>2, <1>8, <1>9, PushOK
  <1>11. StackOK'
    BY <1>1, <1>4, <1>10 DEF StackOK
  <1>12. TypeOK'
    BY <1>1, <1>2, <1>6, <1>10, OneOnWire DEF TypeOK, BusOK, CallsOK
  <1>13. Awake'
    BY <1>1, <1>4 DEF Awake
  <1>14. FatesOK(bus, calls, fate)'
    BY <1>1, <1>2, <1>4, <1>5 DEF FatesOK, TypeOK, TxId
  <1>15. CompletedOnce'
    BY <1>1, <1>2, <1>7 DEF CompletedOnce
  <1>16. TimingOK'
    BY <1>1, <1>2, <1>4 DEF TimingOK, TimingExact
  <1> QED
    BY <1>6, <1>11, <1>12, <1>13, <1>14, <1>15, <1>16 DEF IInv

(* Passing over detached receivers loses no one who is owed the frame.     *)
LEMMA DropOK ==
    ASSUME NEW todo \in Seq(NodeId), NEW owed,
           owed \subseteq Attached(bus), owed \subseteq {todo[i] : i \in DOMAIN todo}
    PROVE  LET r == DropDetached(todo)
           IN  /\ r \in Seq(NodeId)
               /\ owed \subseteq {r[i] : i \in DOMAIN r}
               /\ r = <<>> => owed = {}
  <1> DEFINE alive == {i \in DOMAIN todo : todo[i] \in Attached(bus)}
             r == DropDetached(todo)
  <1>1. CASE alive = {}
    <2>1. r = <<>>
      BY <1>1 DEF DropDetached
    <2>2. owed = {}
      BY <1>1
    <2> QED
      BY <2>1, <2>2
  <1>2. CASE alive # {}
    <2>1. /\ alive \in SUBSET Nat /\ alive \subseteq 1..Len(todo) /\ Len(todo) \in Nat
          /\ DOMAIN todo = 1..Len(todo)
      OBVIOUS
    <2> DEFINE m == MinOf(alive)
    <2>2. m \in alive /\ \A y \in alive : m <= y
      <3> HIDE DEF alive
      <3> QED
        BY <1>2, <2>1, MinOfNat
    <2>3. r = SubSeq(todo, m, Len(todo))
      BY <1>2 DEF DropDetached
    <2>4. m \in 1..Len(todo)
      BY <2>1, <2>2
    <2> HIDE DEF r, m
    <2>5. /\ r \in Seq(NodeId) /\ Len(r) = Len(todo) - m + 1
          /\ \A k \in 1..Len(r) : r[k] = todo[m + k - 1]
      BY <2>1, <2>3, <2>4, SubSeqProperties
    <2>6. ASSUME NEW n \in owed PROVE \E k \in DOMAIN r : r[k] = n
      <3>1. PICK i \in DOMAIN todo : todo[i] = n
        OBVIOUS
      <3>2. i \in alive
        BY <3>1
      <3>3. m <= i /\ i \in 1..Len(todo)
        BY <2>1, <2>2, <3>2
      <3>4. i - m + 1 \in 1..Len(r) /\ m + (i - m + 1) - 1 = i
        BY <2>1, <2>4, <2>5, <3>3
      <3>5. r[i - m + 1] = n
        BY <3>1, <3>4, <2>5
      <3>6. i - m + 1 \in DOMAIN r
        BY <3>4, <2>5
      <3> QED
        BY <3>5, <3>6
    <2>7. r # <<>>
      BY <2>1, <2>4, <2>5
    <2> QED
      BY <2>5, <2>6, <2>7 DEF r
  <1> QED
    BY <1>1, <1>2

(* deliver() goes on with the receivers that are left, or ends.            *)
LEMMA DeliverStep ==
    ASSUME IInv, NEW below, NEW b, NEW tx \in Transmission,
           NEW todo \in Seq(NodeId), NEW owed,
           BusOK(b), b.mode_ = bus.mode_, b.nodes_ = bus.nodes_,
           b.pending_ = bus.pending_, b.in_flight_ \subseteq bus.in_flight_,
           b.next_transmission_sequence_ = bus.next_transmission_sequence_,
           b.fractional_numerator_ = bus.fractional_numerator_,
           b.in_flight_fraction_before_start_ = bus.in_flight_fraction_before_start_,
           CallsOK(below, bus, calls, fate), bus.mode_ = "timed" => below = <<>>,
           tx.id < bus.next_transmission_sequence_,
           Unsettled(b, calls, fate, tx.id),
           \A l \in DOMAIN below : Delivering(bus, below[l]) => below[l].tx.id # tx.id,
           \A i \in DOMAIN bus.pending_ :
               tx.sender = bus.pending_[i].sender => tx.id < bus.pending_[i].id,
           owed \subseteq Attached(bus), owed \subseteq {todo[i] : i \in DOMAIN todo},
           Deliver(below, b, tx, todo, owed)
    PROVE  IInv'
  <1> DEFINE rest == DropDetached(todo)
  <1>1. /\ TypeOK /\ StackOK /\ CompletedOnce /\ TimingOK /\ bus \in Bus /\ b \in Bus
        /\ FatesOK(bus, calls, fate) /\ FatesOK(b, calls, fate)
        /\ Attached(b) = Attached(bus) /\ tx.id \in TxId /\ tx.id \in Nat
        /\ b.next_transmission_sequence_ \in Nat /\ below \in Seq(Call)
    BY DEF IInv, FatesOK, BusOK, Attached, Transmission, TxId, Bus, CallsOK
  <1>2. /\ rest \in Seq(NodeId) /\ (rest = <<>> => owed = {})
        /\ owed \subseteq {rest[i] : i \in DOMAIN rest}
    BY DropOK
  <1>3. owed \in SUBSET NodeId
    BY <1>1 DEF Attached, Bus
  <1>4. Later(bus, b)
    BY <1>1 DEF Later, Attached
  <1>5. /\ \A l \in DOMAIN below : CallOK(b, calls, fate, below[l])
        /\ CallsOK(below, b, calls, fate)
    BY <1>1, <1>4, CallKept DEF CallsOK, Delivering
  <1> HIDE DEF rest
  <1>6. CASE rest # <<>>
    <2> DEFINE c == Waiting("traced", tx, rest, owed)
    <2>1. /\ stack' = Append(below, c) /\ bus' = b
          /\ UNCHANGED <<now, fate, calls, air, cancels>>
      BY <1>6 DEF Deliver, rest
    <2>2. /\ c \in Call /\ c.phase = "traced" /\ c.tx = tx /\ c.todo = rest
          /\ c.owed = owed
      BY <1>2, <1>3 DEF Waiting, Call
    <2> HIDE DEF c
    <2>3. CallOK(b, calls, fate, c)
      BY <2>2, <1>1, <1>2, <1>6 DEF CallOK, ToReceive
    <2>4. CallsOK(stack', b, calls, fate)
      BY <2>1, <2>2, <2>3, <1>5, PushOK DEF Delivering
    <2>5. /\ Len(stack') = Len(below) + 1 /\ Len(below) \in Nat
          /\ Len(below) + 1 \in DOMAIN stack' /\ stack'[Len(below) + 1] = c
      BY <2>1, <2>2, <1>1
    <2>6. StackOK'
      BY <2>1, <2>4, <2>5 DEF StackOK
    <2>7. Awake'
      BY <2>2, <2>5 DEF Awake
    <2>8. TypeOK'
      BY <2>1, <2>4, <1>1, OneOnWire DEF TypeOK, BusOK, CallsOK
    <2>9. TimingOK' /\ CompletedOnce' /\ FatesOK(bus, calls, fate)'
      BY <2>1, <1>1 DEF TimingOK, TimingExact, CompletedOnce
    <2> QED
      BY <2>1, <2>6, <2>7, <2>8, <2>9 DEF IInv
  <1>7. CASE rest = <<>>
    <2>1. FinishDelivery(below, b, tx, owed) /\ owed = {}
      BY <1>2, <1>7 DEF Deliver, rest
    <2>2. /\ fate' = [fate EXCEPT ![tx.id] = "delivered"]
          /\ calls' = calls \/ calls' = [calls EXCEPT ![tx.id] = @ + 1]
          /\ UNCHANGED <<now, air, cancels>>
      BY <2>1, <1>1 DEF FinishDelivery, Unsettled
    <2>3. /\ fate' \in [TxId -> {"unused", "queued", "on_wire", "delivered",
                                "cancelled", "failed"}]
          /\ calls' \in [TxId -> Nat] /\ fate'[tx.id] = "delivered"
          /\ calls'[tx.id] <= 1
          /\ \A t \in TxId : t # tx.id => calls'[t] = calls[t] /\ fate'[t] = fate[t]
      <3>1. PICK id : id = tx.id
        OBVIOUS
      <3>2. /\ id \in TxId /\ calls[id] = 0 /\ calls \in [TxId -> Nat]
            /\ fate \in [TxId -> {"unused", "queued", "on_wire", "delivered",
                                   "cancelled", "failed"}]
        BY <3>1, <1>1 DEF TypeOK, Unsettled
      <3>3. /\ fate' = [fate EXCEPT ![id] = "delivered"]
            /\ calls' = calls \/ calls' = [calls EXCEPT ![id] = @ + 1]
        BY <3>1, <2>2
      <3>4. /\ fate' \in [TxId -> {"unused", "queued", "on_wire", "delivered",
                                    "cancelled", "failed"}]
            /\ fate'[id] = "delivered"
            /\ \A t \in TxId : t # id => fate'[t] = fate[t]
        BY <3>2, <3>3
      <3>5. /\ calls' \in [TxId -> Nat] /\ calls'[id] <= 1
            /\ \A t \in TxId : t # id => calls'[t] = calls[t]
        BY <3>2, <3>3
      <3> QED
        BY <3>1, <3>4, <3>5
    <2>4. CompletedOnce'
      BY <2>3, <1>1 DEF CompletedOnce, TypeOK
    <2>5. \A d : BusOK(d) /\ d.pending_ = b.pending_ /\ d.in_flight_ = b.in_flight_
                   /\ d.next_transmission_sequence_ = b.next_transmission_sequence_
                     => FatesOK(d, calls', fate')
      <3> SUFFICES ASSUME NEW d, BusOK(d), d.pending_ = b.pending_,
                          d.in_flight_ = b.in_flight_,
                          d.next_transmission_sequence_
                              = b.next_transmission_sequence_
                   PROVE  FatesOK(d, calls', fate')
        OBVIOUS
      <3>1. \A i \in DOMAIN b.pending_ : b.pending_[i].id \in TxId
        <4>1. b.pending_ \in Seq(Transmission)
          BY <1>1 DEF Bus
        <4>2. \A i \in DOMAIN b.pending_ : b.pending_[i] \in Transmission
          BY <4>1
        <4> QED
          BY <4>2 DEF Transmission
      <3>2. \A t \in b.in_flight_ : t.id \in TxId
        BY <1>1 DEF Bus, Transmission
      <3>3. \A t \in TxId : t >= b.next_transmission_sequence_ => t # tx.id
        BY <1>1
      <3>4. \A t \in TxId : t >= b.next_transmission_sequence_ => calls'[t] = 0
        BY <3>3, <2>3, <1>1 DEF FatesOK
      <3>5. \A i \in DOMAIN b.pending_ : calls'[b.pending_[i].id] = 0
        BY <3>1, <2>3, <1>1 DEF FatesOK, Unsettled
      <3>6. \A t \in b.in_flight_ : calls'[t.id] = 0 /\ fate'[t.id] # "cancelled"
        <4>1. \A t \in b.in_flight_ : t.id # tx.id
          BY <1>1 DEF Unsettled
        <4>2. \A t \in b.in_flight_ : calls[t.id] = 0 /\ fate[t.id] # "cancelled"
          BY <1>1 DEF FatesOK
        <4> QED
          BY <4>1, <4>2, <3>2, <2>3
      <3> QED
        BY <3>4, <3>5, <3>6 DEF FatesOK
    <2>6. CallsOK(below, b, calls', fate')
      <3>1. ASSUME NEW l \in DOMAIN below PROVE CallOK(b, calls', fate', below[l])
        <4>1. CallOK(b, calls, fate, below[l]) /\ below[l].tx.id \in TxId
          BY <1>5 DEF CallOK, Call, Transmission
        <4>2. Delivering(b, below[l]) => below[l].tx.id # tx.id
          BY DEF Delivering
        <4>3. Later(b, b)
          BY <1>1 DEF Later
        <4> QED
          BY <4>1, <4>2, <4>3, <2>3, <1>1, CallKept
      <3> QED
        BY <3>1, <1>5 DEF CallsOK
    <2>7. CASE SenderAttached(tx)
      <3> DEFINE c == Waiting("completing", tx, <<>>, {})
      <3>1. stack' = Append(below, c) /\ bus' = b
        BY <2>1, <2>7 DEF FinishDelivery
      <3>2. /\ c \in Call /\ c.phase = "completing" /\ c.tx = tx /\ c.todo = <<>>
            /\ c.owed = {}
        BY DEF Waiting, Call
      <3> HIDE DEF c
      <3>3. CallOK(b, calls', fate', c)
        BY <3>2, <1>1 DEF CallOK, Delivering
      <3>4. CallsOK(stack', b, calls', fate')
        BY <3>1, <3>2, <3>3, <2>6, PushOK DEF Delivering
      <3>5. /\ Len(stack') = Len(below) + 1 /\ Len(below) \in Nat
            /\ Len(below) + 1 \in DOMAIN stack' /\ stack'[Len(below) + 1] = c
        BY <3>1, <3>2, <1>1
      <3>6. StackOK' /\ Awake'
        BY <3>1, <3>2, <3>4, <3>5 DEF StackOK, Awake
      <3>7. TypeOK'
        BY <3>1, <3>4, <2>2, <2>3, <1>1, OneOnWire DEF TypeOK, BusOK, CallsOK
      <3>8. TimingOK' /\ FatesOK(bus, calls, fate)'
        BY <3>1, <2>2, <2>5, <1>1 DEF TimingOK, TimingExact
      <3> QED
        BY <3>1, <3>6, <3>7, <3>8, <2>4 DEF IInv
    <2>8. CASE ~SenderAttached(tx)
      <3>1. stack' = below /\ bus' = ScheduleArbitration(b)
        BY <2>1, <2>8 DEF FinishDelivery
      <3>2. /\ BusOK(bus') /\ SameQueue(b, bus')
            /\ bus'.mode_ = "timed" /\ bus'.pending_ # <<>> => bus'.timed_state_ # "idle"
        BY <3>1, <1>1, ScheduleOK DEF TypeOK
      <3>3. CallsOK(stack', bus', calls', fate')
        <4>1. Later(b, bus') /\ bus' \in Bus
          BY <3>2, <1>1 DEF Later, SameQueue, Attached, BusOK
        <4> QED
          BY <4>1, <3>1, <3>2, <2>6, <1>1, CallKept DEF CallsOK, SameQueue, Delivering
      <3>4. StackOK' /\ Awake'
        BY <3>1, <3>2, <3>3 DEF StackOK, Awake, SameQueue
      <3>5. TypeOK'
        BY <3>1, <3>2, <3>3, <2>2, <2>3, <1>1, OneOnWire DEF TypeOK, BusOK, CallsOK
      <3>6. TimingOK' /\ FatesOK(bus, calls, fate)'
        BY <3>2, <2>2, <2>5, <1>1 DEF TimingOK, TimingExact, SameQueue
      <3> QED
        BY <3>2, <3>4, <3>5, <3>6, <2>4 DEF IInv
    <2> QED
      BY <2>7, <2>8
  <1> QED
    BY <1>6, <1>7

(* The call user code returns to, and those below it.                      *)
LEMMA TopOK ==
    ASSUME IInv, stack # <<>>
    PROVE  /\ CallOK(bus, calls, fate, TopCall) /\ TopCall \in Call
           /\ TopCall.tx \in Transmission /\ TopCall.todo \in Seq(NodeId)
           /\ CallsOK(Popped, bus, calls, fate)
           /\ Len(Popped) = Len(stack) - 1 /\ Len(stack) \in Nat
           /\ Len(stack) \in DOMAIN stack
           /\ bus.mode_ = "timed" => Popped = <<>>
           /\ \A l \in DOMAIN Popped : l \in DOMAIN stack /\ Popped[l] = stack[l]
           /\ \A l \in DOMAIN Popped :
                 Delivering(bus, Popped[l]) /\ Delivering(bus, TopCall)
                     => Popped[l].tx.id # TopCall.tx.id
  <1>1. CallsOK(stack, bus, calls, fate) /\ stack \in Seq(Call)
    BY DEF IInv, StackOK, CallsOK
  <1>2. /\ CallsOK(Popped, bus, calls, fate) /\ Len(Popped) = Len(stack) - 1
        /\ \A l \in DOMAIN Popped : /\ l \in DOMAIN stack /\ l # Len(stack)
                                    /\ Popped[l] = stack[l]
        /\ Len(stack) \in DOMAIN stack
    BY <1>1, PopOK DEF Popped
  <1>3. CallOK(bus, calls, fate, TopCall)
    BY <1>1, <1>2 DEF CallsOK, TopCall
  <1>4. bus.mode_ = "timed" => Popped = <<>>
    <2> SUFFICES ASSUME bus.mode_ = "timed" PROVE Popped = <<>>
      OBVIOUS
    <2>1. Len(stack) \in Nat /\ Len(stack) <= 1 /\ Len(stack) # 0
      BY <1>1 DEF IInv, StackOK
    <2>2. Popped \in Seq(Call) /\ Len(Popped) = 0
      BY <2>1, <1>2 DEF CallsOK
    <2> QED
      BY <2>2
  <1>5. \A l \in DOMAIN Popped :
           Delivering(bus, Popped[l]) /\ Delivering(bus, TopCall)
               => Popped[l].tx.id # TopCall.tx.id
    BY <1>1, <1>2 DEF CallsOK, TopCall
  <1> QED
    BY <1>1, <1>2, <1>3, <1>4, <1>5 DEF CallOK, Call

LEMMA TailElements ==
    ASSUME NEW s \in Seq(NodeId), s # <<>>
    PROVE  /\ Tail(s) \in Seq(NodeId)
           /\ \A i \in DOMAIN s : s[i] = Head(s) \/ i # 1
           /\ {Tail(s)[i] : i \in DOMAIN Tail(s)} = {s[i] : i \in DOMAIN s \ {1}}
  <1>1. /\ Tail(s) \in Seq(NodeId) /\ Len(s) \in Nat \ {0} /\ DOMAIN s = 1..Len(s)
        /\ DOMAIN Tail(s) = 1..(Len(s) - 1) /\ Head(s) = s[1]
        /\ \A i \in 1..(Len(s) - 1) : Tail(s)[i] = s[i + 1]
    BY HeadTailProperties
  <1>2. \A i \in DOMAIN Tail(s) : i + 1 \in DOMAIN s \ {1} /\ Tail(s)[i] = s[i + 1]
    BY <1>1
  <1>3. \A i \in DOMAIN s \ {1} : i - 1 \in DOMAIN Tail(s) /\ Tail(s)[i - 1] = s[i]
    BY <1>1
  <1>4. {Tail(s)[i] : i \in DOMAIN Tail(s)} \subseteq {s[i] : i \in DOMAIN s \ {1}}
    BY <1>2
  <1>5. {s[i] : i \in DOMAIN s \ {1}} \subseteq {Tail(s)[i] : i \in DOMAIN Tail(s)}
    BY <1>3
  <1>6. \A i \in DOMAIN s : s[i] = Head(s) \/ i # 1
    BY <1>1
  <1> QED
    BY <1>1, <1>4, <1>5, <1>6

(* The snapshot deliver() takes holds everyone who is owed the frame.      *)
LEMMA SnapshotOK ==
    ASSUME bus \in Bus, NEW tx
    PROVE  /\ Receivers(tx) \in Seq(NodeId)
           /\ Expected(tx) \subseteq Attached(bus)
           /\ Expected(tx) \subseteq {Receivers(tx)[i] : i \in DOMAIN Receivers(tx)}
  <1> DEFINE I == {i \in DOMAIN bus.nodes_ : \/ bus.nodes_[i] # tx.sender
                                             \/ bus.nodes_[i] \in bus.loopback}
             r == Receivers(tx)
  <1>1. bus.nodes_ \in Seq(NodeId) /\ I \in SUBSET DOMAIN bus.nodes_
    BY DEF Bus
  <1>2. r = Sublist(bus.nodes_, I)
    BY DEF Receivers
  <1>3. r \in Seq(NodeId) /\ IsSublist(r, bus.nodes_, I)
    <2> HIDE DEF I, r
    <2> QED
      BY <1>1, <1>2, SublistElements
  <1>4. ASSUME NEW n \in Expected(tx) PROVE \E k \in DOMAIN r : r[k] = n
    <2>1. PICK i \in DOMAIN bus.nodes_ : bus.nodes_[i] = n
      BY <1>4 DEF Expected, Attached
    <2>2. i \in I
      BY <1>4, <2>1 DEF Expected
    <2> HIDE DEF I, r
    <2> QED
      BY <2>1, <2>2, <1>3 DEF IsSublist
  <1>5. Expected(tx) \subseteq Attached(bus)
    BY DEF Expected
  <1> QED
    BY <1>3, <1>4, <1>5

(* The transmit trace returns.                                             *)
LEMMA SofStep ==
    ASSUME IInv, SofReturns
    PROVE  IInv'
  <1>1. /\ stack # <<>> /\ TopCall.phase = "sof" /\ BusOK(bus) /\ bus \in Bus
    BY DEF SofReturns, IInv, BusOK
  <1>2. CASE bus.mode_ = "timed"
    <2>1. stack' = <<>> /\ UNCHANGED <<bus, now, fate, calls, air, cancels>>
      BY <1>1, <1>2, TopOK DEF SofReturns
    <2>2. \A l \in DOMAIN stack : stack[l].phase = "sof"
      <3>1. stack \in Seq(Call) /\ Len(stack) <= 1
        BY <1>2 DEF IInv, StackOK, CallsOK
      <3> QED
        BY <3>1, <1>1 DEF TopCall
    <2>3. Awake'
      BY <2>1, <2>2 DEF IInv, Awake
    <2>4. StackOK' /\ TypeOK'
      BY <2>1 DEF IInv, StackOK, CallsOK, TypeOK
    <2>5. FatesOK(bus, calls, fate)' /\ CompletedOnce' /\ TimingOK'
      BY <2>1 DEF IInv, FatesOK, CompletedOnce, TimingOK, TimingExact
    <2> QED
      BY <2>1, <2>3, <2>4, <2>5, <1>1 DEF IInv
  <1>3. CASE bus.mode_ # "timed"
    <2>1. bus.mode_ = "immediate"
      BY <1>1, <1>3 DEF Bus, DeliveryMode
    <2>2. Deliver(Popped, bus, TopCall.tx, Receivers(TopCall.tx), Expected(TopCall.tx))
      BY <1>3 DEF SofReturns
    <2>3. Delivering(bus, TopCall)
      BY <2>1, <1>1 DEF Delivering
    <2>4. /\ TopCall.tx \in Transmission /\ CallOK(bus, calls, fate, TopCall)
          /\ CallsOK(Popped, bus, calls, fate)
          /\ \A l \in DOMAIN Popped :
                Delivering(bus, Popped[l]) => Popped[l].tx.id # TopCall.tx.id
      BY <2>3, <1>1, TopOK
    <2>5. /\ Receivers(TopCall.tx) \in Seq(NodeId)
          /\ Expected(TopCall.tx) \subseteq Attached(bus)
          /\ Expected(TopCall.tx) \subseteq
                {Receivers(TopCall.tx)[i] : i \in DOMAIN Receivers(TopCall.tx)}
      BY <1>1, SnapshotOK
    <2>6. /\ TopCall.tx.id < bus.next_transmission_sequence_
          /\ Unsettled(bus, calls, fate, TopCall.tx.id)
          /\ \A i \in DOMAIN bus.pending_ :
               TopCall.tx.sender = bus.pending_[i].sender
                   => TopCall.tx.id < bus.pending_[i].id
      BY <2>3, <2>4 DEF CallOK
    <2> QED
      BY <2>1, <2>2, <2>4, <2>5, <2>6, <1>1, DeliverStep
  <1> QED
    BY <1>2, <1>3

(* The receive trace returns: the receiver is called if it is still there. *)
LEMMA TraceStep ==
    ASSUME IInv, TraceReturns
    PROVE  IInv'
  <1> DEFINE c == TopCall
  <1>1. /\ stack # <<>> /\ c.phase = "traced" /\ BusOK(bus) /\ bus \in Bus
        /\ Delivering(bus, c)
    BY DEF TraceReturns, IInv, BusOK, Delivering
  <1>2. /\ c \in Call /\ c.tx \in Transmission /\ CallOK(bus, calls, fate, c)
        /\ c.todo \in Seq(NodeId) /\ c.todo # <<>>
        /\ CallsOK(Popped, bus, calls, fate) /\ Len(stack) \in Nat
        /\ Len(stack) \in DOMAIN stack /\ (bus.mode_ = "timed" => Popped = <<>>)
        /\ \A l \in DOMAIN Popped :
              Delivering(bus, Popped[l]) => Popped[l].tx.id # c.tx.id
    BY <1>1, TopOK DEF CallOK
  <1>3. /\ c.owed \subseteq Attached(bus)
        /\ c.owed \subseteq {c.todo[i] : i \in DOMAIN c.todo}
        /\ c.tx.id < bus.next_transmission_sequence_
        /\ Unsettled(bus, calls, fate, c.tx.id)
        /\ \A i \in DOMAIN bus.pending_ :
              c.tx.sender = bus.pending_[i].sender => c.tx.id < bus.pending_[i].id
    BY <1>1, <1>2 DEF CallOK, ToReceive
  <1>4. /\ Tail(c.todo) \in Seq(NodeId)
        /\ \A i \in DOMAIN c.todo : c.todo[i] = Head(c.todo) \/ i # 1
        /\ {Tail(c.todo)[i] : i \in DOMAIN Tail(c.todo)}
              = {c.todo[i] : i \in DOMAIN c.todo \ {1}}
    BY <1>2, TailElements
  <1>5. c.owed \ {Head(c.todo)} \subseteq {c.todo[i] : i \in DOMAIN c.todo \ {1}}
    BY <1>3, <1>4
  <1>6. CASE Head(c.todo) \in Attached(bus)
    <2> DEFINE d == [c EXCEPT !.phase = "receiving", !.owed = @ \ {Head(c.todo)}]
    <2>1. /\ stack' = [stack EXCEPT ![Len(stack)] = d]
          /\ UNCHANGED <<bus, now, fate, calls, air, cancels>>
      BY <1>6 DEF TraceReturns
    <2>2. /\ d \in Call /\ d.phase = "receiving" /\ d.tx = c.tx /\ d.todo = c.todo
          /\ d.owed = c.owed \ {Head(c.todo)}
      BY <1>2 DEF Call
    <2> HIDE DEF d, c
    <2>3. CallOK(bus, calls, fate, d)
      BY <2>2, <1>2, <1>3, <1>5 DEF CallOK, ToReceive
    <2>4. stack \in Seq(Call) /\ CallsOK(stack, bus, calls, fate)
      BY DEF IInv, StackOK, CallsOK
    <2>5. /\ stack' \in Seq(Call) /\ Len(stack') = Len(stack)
          /\ DOMAIN stack' = DOMAIN stack
          /\ stack'[Len(stack)] = d
          /\ \A l \in DOMAIN stack : l # Len(stack) => stack'[l] = stack[l]
      BY <2>1, <2>2, <2>4, <1>2
    <2>6. c = stack[Len(stack)]
      BY DEF c, TopCall
    <2>7. ASSUME NEW k \in DOMAIN stack', NEW l \in DOMAIN stack',
                 Delivering(bus, stack'[k]), Delivering(bus, stack'[l]),
                 stack'[k].tx.id = stack'[l].tx.id
          PROVE  k = l
      <3>1. \A m \in DOMAIN stack' :
               Delivering(bus, stack'[m]) =>
                   /\ m \in DOMAIN stack /\ Delivering(bus, stack[m])
                   /\ stack'[m].tx = stack[m].tx
        BY <2>2, <2>5, <2>6, <1>1
      <3> QED
        BY <3>1, <2>4, <2>7 DEF CallsOK
    <2>8. CallsOK(stack', bus, calls, fate)
      <3>1. \A l \in DOMAIN stack' : CallOK(bus, calls, fate, stack'[l])
        BY <2>3, <2>4, <2>5 DEF CallsOK
      <3> QED
        BY <3>1, <2>5, <2>7 DEF CallsOK
    <2>9. StackOK'
      BY <2>1, <2>5, <2>8 DEF IInv, StackOK
    <2>10. Awake'
      BY <2>2, <2>5, <1>2 DEF Awake
    <2>11. TypeOK' /\ FatesOK(bus, calls, fate)' /\ CompletedOnce' /\ TimingOK'
      BY <2>1, <2>5 DEF IInv, TypeOK, FatesOK, CompletedOnce, TimingOK, TimingExact
    <2> QED
      BY <2>1, <2>9, <2>10, <2>11, <1>1 DEF IInv
  <1>7. CASE Head(c.todo) \notin Attached(bus)
    <2>1. Deliver(Popped, bus, c.tx, Tail(c.todo), c.owed)
      BY <1>7 DEF TraceReturns
    <2>2. /\ Tail(c.todo) \in Seq(NodeId)
          /\ c.owed \subseteq {Tail(c.todo)[i] : i \in DOMAIN Tail(c.todo)}
      BY <1>3, <1>4, <1>5, <1>7
    <2> HIDE DEF c
    <2> QED
      BY <2>1, <2>2, <1>1, <1>2, <1>3, DeliverStep
  <1> QED
    BY <1>6, <1>7

(* A receiver returns.                                                     *)
LEMMA ReceiveStep ==
    ASSUME IInv, ReceiveReturns
    PROVE  IInv'
  <1> DEFINE c == TopCall
  <1>1. /\ stack # <<>> /\ c.phase = "receiving" /\ BusOK(bus) /\ bus \in Bus
        /\ Delivering(bus, c)
        /\ Deliver(Popped, bus, c.tx, Tail(c.todo), c.owed)
    BY DEF ReceiveReturns, IInv, BusOK, Delivering
  <1>2. /\ c \in Call /\ c.tx \in Transmission /\ CallOK(bus, calls, fate, c)
        /\ c.todo \in Seq(NodeId) /\ c.todo # <<>>
        /\ CallsOK(Popped, bus, calls, fate)
        /\ (bus.mode_ = "timed" => Popped = <<>>)
        /\ \A l \in DOMAIN Popped :
              Delivering(bus, Popped[l]) => Popped[l].tx.id # c.tx.id
    BY <1>1, TopOK DEF CallOK
  <1>3. /\ c.owed \subseteq Attached(bus)
        /\ c.owed \subseteq {c.todo[i] : i \in DOMAIN c.todo \ {1}}
        /\ c.tx.id < bus.next_transmission_sequence_
        /\ Unsettled(bus, calls, fate, c.tx.id)
        /\ \A i \in DOMAIN bus.pending_ :
              c.tx.sender = bus.pending_[i].sender => c.tx.id < bus.pending_[i].id
    BY <1>1, <1>2 DEF CallOK, ToReceive
  <1>4. /\ Tail(c.todo) \in Seq(NodeId)
        /\ c.owed \subseteq {Tail(c.todo)[i] : i \in DOMAIN Tail(c.todo)}
    BY <1>2, <1>3, TailElements
  <1> HIDE DEF c
  <1> QED
    BY <1>1, <1>2, <1>3, <1>4, DeliverStep

(* The completion returns, and the next arbitration is scheduled.          *)
LEMMA CompletionReturnsStep ==
    ASSUME IInv, CompletionReturns
    PROVE  IInv'
  <1>1. /\ stack # <<>> /\ stack' = Popped /\ bus' = ScheduleArbitration(bus)
        /\ UNCHANGED <<now, fate, calls, air, cancels>>
        /\ BusOK(bus) /\ bus \in Bus /\ now \in Time
    BY DEF CompletionReturns, IInv, BusOK, TypeOK
  <1>2. /\ BusOK(bus') /\ SameQueue(bus, bus') /\ bus' \in Bus
        /\ bus'.mode_ = "timed" /\ bus'.pending_ # <<>> => bus'.timed_state_ # "idle"
    BY <1>1, ScheduleOK DEF BusOK
  <1>3. CallsOK(Popped, bus, calls, fate) /\ (bus.mode_ = "timed" => Popped = <<>>)
    BY <1>1, TopOK
  <1>4. Later(bus, bus')
    BY <1>1, <1>2 DEF Later, SameQueue, Attached, Bus
  <1>5. CallsOK(stack', bus', calls', fate')
    BY <1>1, <1>2, <1>3, <1>4, CallKept DEF CallsOK, SameQueue, Delivering
  <1>6. StackOK' /\ Awake'
    BY <1>1, <1>2, <1>3, <1>5 DEF StackOK, Awake, SameQueue
  <1>7. TypeOK'
    BY <1>1, <1>2, <1>5, OneOnWire DEF IInv, TypeOK, BusOK, CallsOK
  <1>8. FatesOK(bus, calls, fate)' /\ CompletedOnce' /\ TimingOK'
    BY <1>1, <1>2 DEF IInv, FatesOK, CompletedOnce, TimingOK, TimingExact, SameQueue
  <1> QED
    BY <1>2, <1>6, <1>7, <1>8 DEF IInv

(* Time goes on.                                                           *)
LEMMA AdvanceStep ==
    ASSUME IInv, Advance
    PROVE  IInv'
  <1>1. UNCHANGED <<bus, stack, fate, calls, air, cancels>> /\ now' \in Time
    BY BoundAssumption DEF Advance, IInv, TypeOK, Time
  <1> QED
    BY <1>1 DEF IInv, TypeOK, StackOK, CallsOK, Awake, FatesOK, CompletedOnce,
                TimingOK, TimingExact

-----------------------------------------------------------------------------
(* Arbitration and the time a frame takes.                                 *)
LEMMA Product == ASSUME NEW a \in Nat, NEW b \in Nat PROVE a * b \in Nat
  OBVIOUS

LEMMA DivMod ==
    ASSUME NEW a \in Nat, NEW b \in Nat \ {0}
    PROVE  /\ a \div b \in Nat /\ a % b \in Nat /\ a % b < b
           /\ (a \div b) * b + (a % b) = a
  OBVIOUS

(* The two divisions of a transmission carry what the bit rate leaves.     *)
LEMMA CarriedRemainder ==
    ASSUME NEW rate \in Nat, NEW second \in Nat, NEW time \in Nat, NEW bits \in Nat,
           NEW frame \in Nat, NEW pause \in Nat, NEW length \in Nat, NEW gap \in Nat,
           NEW before \in Nat, NEW between \in Nat, NEW after \in Nat,
           time * rate + before = bits * second,
           frame * rate + between = length * second + before,
           pause * rate + after = gap * second + between
    PROVE  (time + (frame + pause)) * rate + after = (bits + length + gap) * second
  <1>1. (time + (frame + pause)) * rate = time * rate + frame * rate + pause * rate
    OBVIOUS
  <1>2. (bits + length + gap) * second = bits * second + length * second + gap * second
    OBVIOUS
  <1>3. /\ time * rate \in Nat /\ frame * rate \in Nat /\ pause * rate \in Nat
        /\ bits * second \in Nat /\ length * second \in Nat /\ gap * second \in Nat
    BY Product
  <1> QED
    BY <1>1, <1>2, <1>3

LEMMA KeyType ==
    ASSUME NEW frame \in Frames
    PROVE  ArbitrationKey(frame) \in Nat
  <1>1. /\ frame.base \in Nat /\ frame.low \in Nat /\ LowIds \in Nat
    BY FrameAssumption
  <1>2. frame.base * 2 \in Nat
    BY <1>1
  <1>3. frame.base * 2 * LowIds \in Nat
    BY <1>1, <1>2, Product
  <1>4. (IF frame.extended THEN LowIds + frame.low ELSE 0) \in Nat
    BY <1>1
  <1> QED
    BY <1>3, <1>4 DEF ArbitrationKey

(* Arbitration has a winner: the least key, and the oldest of equal ones.  *)
LEMMA WinnerOK ==
    ASSUME NEW b, BusOK(b), NEW start, Eligible(b.pending_, start) # {}
    PROVE  Winner(b.pending_, start) \in Eligible(b.pending_, start)
  <1> DEFINE p == b.pending_
             E == Eligible(p, start)
             Key(i) == ArbitrationKey(p[i].frame)
             K == {Key(i) : i \in E}
  <1>1. /\ p \in Seq(Transmission) /\ DOMAIN p \subseteq Nat /\ E \subseteq DOMAIN p
        /\ \A i, j \in DOMAIN p : i < j => p[i].id < p[j].id
    BY DEF BusOK, Bus, QueueOK, Eligible, Heads
  <1>2. \A i \in E : Key(i) \in Nat
    <2> SUFFICES ASSUME NEW i \in E PROVE Key(i) \in Nat
      OBVIOUS
    <2>1. p[i] \in Transmission
      BY <1>1
    <2> QED
      BY <2>1, KeyType DEF Transmission
  <1>3. E # {}
    OBVIOUS
  <1> HIDE DEF E, Key, p
  <1>4. PICK m \in K : \A y \in K : m <= y
    <2>1. K \in SUBSET Nat /\ K # {}
      BY <1>2, <1>3
    <2> HIDE DEF K
    <2> QED
      BY <2>1, LeastExists
  <1> DEFINE C == {i \in E : Key(i) = m}
  <1>5. PICK w \in C : \A y \in C : w <= y
    <2>1. C \in SUBSET Nat /\ C # {}
      BY <1>1, <1>4
    <2> HIDE DEF C
    <2> QED
      BY <2>1, LeastExists
  <1>6. ASSUME NEW j \in E \ {w} PROVE Beats(p[w], p[j])
    <2>1. Key(j) \in Nat /\ Key(w) = m /\ Key(w) <= Key(j) /\ Key(w) \in Nat
      BY <1>2, <1>4, <1>5
    <2>2. CASE Key(w) = Key(j)
      <3>1. w <= j /\ w \in DOMAIN p /\ j \in DOMAIN p /\ w # j
        BY <2>1, <2>2, <1>1, <1>5
      <3>2. w < j
        BY <3>1, <1>1
      <3>3. p[w].id < p[j].id
        BY <3>1, <3>2, <1>1
      <3> QED
        BY <2>2, <3>3 DEF Beats, Key
    <2>3. CASE Key(w) # Key(j)
      <3>1. Key(w) < Key(j)
        BY <2>1, <2>3
      <3> QED
        BY <3>1 DEF Beats, Key
    <2> QED
      BY <2>2, <2>3
  <1>7. \E i \in E : \A j \in E \ {i} : Beats(p[i], p[j])
    BY <1>5, <1>6
  <1> QED
    BY <1>7 DEF Winner, E, p

(* r is p without its element i.                                           *)
Removed(r, p, i) ==
    /\ r \in Seq(Transmission)
    /\ \A k \in DOMAIN r : IF k < i THEN k \in DOMAIN p /\ r[k] = p[k]
                                    ELSE k + 1 \in DOMAIN p /\ r[k] = p[k + 1]
    /\ DOMAIN r \subseteq Nat

LEMMA WithoutElements ==
    ASSUME NEW p \in Seq(Transmission), NEW i \in DOMAIN p
    PROVE  Removed(Without(p, i), p, i)
  <1> DEFINE s == SubSeq(p, 1, i - 1)
             t == SubSeq(p, i + 1, Len(p))
             r == Without(p, i)
  <1>1. Len(p) \in Nat /\ i \in 1..Len(p) /\ DOMAIN p = 1..Len(p)
    OBVIOUS
  <1>2. /\ s \in Seq(Transmission) /\ Len(s) = i - 1
        /\ \A k \in 1..(i - 1) : s[k] = p[k]
    BY <1>1
  <1>3. /\ t \in Seq(Transmission) /\ Len(t) = Len(p) - i
        /\ \A k \in 1..(Len(p) - i) : t[k] = p[i + k]
    BY <1>1
  <1>4. r = s \o t
    BY DEF Without
  <1> HIDE DEF s, t, r
  <1>5. /\ r \in Seq(Transmission) /\ Len(r) = Len(p) - 1 /\ DOMAIN r = 1..(Len(p) - 1)
        /\ \A k \in 1..(i - 1) : r[k] = s[k]
        /\ \A k \in i..(Len(p) - 1) : r[k] = t[k - (i - 1)]
    <2>1. /\ r \in Seq(Transmission) /\ Len(r) = Len(s) + Len(t)
          /\ \A k \in 1..(Len(s) + Len(t)) :
                r[k] = IF k <= Len(s) THEN s[k] ELSE t[k - Len(s)]
      BY <1>2, <1>3, <1>4, ConcatProperties
    <2>2. Len(s) + Len(t) = Len(p) - 1
      BY <1>1, <1>2, <1>3
    <2>3. DOMAIN r = 1..(Len(p) - 1)
      BY <2>1, <2>2
    <2>4. \A k \in 1..(i - 1) : k \in 1..(Len(p) - 1) /\ k <= i - 1
      BY <1>1
    <2>5. \A k \in i..(Len(p) - 1) : k \in 1..(Len(p) - 1) /\ ~(k <= i - 1)
      BY <1>1
    <2> QED
      BY <2>1, <2>2, <2>3, <2>4, <2>5, <1>2
  <1>6. ASSUME NEW k \in DOMAIN r
        PROVE  IF k < i THEN k \in DOMAIN p /\ r[k] = p[k]
                        ELSE k + 1 \in DOMAIN p /\ r[k] = p[k + 1]
    <2>1. CASE k < i
      <3>1. k \in 1..(i - 1) /\ k \in DOMAIN p
        BY <2>1, <1>1, <1>5
      <3> QED
        BY <2>1, <3>1, <1>2, <1>5
    <2>2. CASE ~(k < i)
      <3>1. k \in i..(Len(p) - 1) /\ k - (i - 1) \in 1..(Len(p) - i)
        BY <2>2, <1>1, <1>5
      <3>2. r[k] = p[i + (k - (i - 1))] /\ i + (k - (i - 1)) = k + 1
        BY <3>1, <1>1, <1>3, <1>5
      <3> QED
        BY <2>2, <3>1, <3>2, <1>1
    <2> QED
      BY <2>1, <2>2
  <1>7. Removed(r, p, i)
    BY <1>5, <1>6 DEF Removed
  <1> QED
    BY <1>7 DEF r

(* An event fires: the armed one, and no other is left.                    *)
LEMMA FiredOK ==
    ASSUME IInv, NEW e \in bus.events
    PROVE  LET b == [Fired(e) EXCEPT !.timed_state_ = "idle"]
               c == [Fired(e) EXCEPT !.in_flight_ = {}, !.timed_state_ = "idle"]
           IN  /\ e.run = "arbitration" => BusOK(b) /\ bus.in_flight_ = {}
               /\ b.mode_ = bus.mode_ /\ b.nodes_ = bus.nodes_
               /\ b.pending_ = bus.pending_ /\ b.in_flight_ = bus.in_flight_
               /\ b.next_transmission_sequence_ = bus.next_transmission_sequence_
               /\ b.fractional_numerator_ = bus.fractional_numerator_
               /\ b.in_flight_fraction_before_start_
                     = bus.in_flight_fraction_before_start_
               /\ b.events = {} /\ b.timed_event_id_ = 0 /\ b.timed_state_ = "idle"
               /\ b.next_start_ns_ = bus.next_start_ns_
               /\ b.next_node_id_ = bus.next_node_id_
               /\ e.run = "completion" =>
                     BusOK(c) /\ \E t \in bus.in_flight_ : bus.in_flight_ = {t}
               /\ c.mode_ = bus.mode_ /\ c.nodes_ = bus.nodes_
               /\ c.pending_ = bus.pending_ /\ c.in_flight_ = {}
               /\ c.next_transmission_sequence_ = bus.next_transmission_sequence_
               /\ c.fractional_numerator_ = bus.fractional_numerator_
               /\ c.in_flight_fraction_before_start_
                     = bus.in_flight_fraction_before_start_
  <1> DEFINE b == [Fired(e) EXCEPT !.timed_state_ = "idle"]
             c == [Fired(e) EXCEPT !.in_flight_ = {}, !.timed_state_ = "idle"]
  <1>1. BusOK(bus) /\ bus \in Bus /\ TimedOK(bus) /\ QueueOK(bus)
    BY DEF IInv, BusOK
  <1>2. /\ bus.events = {e}
        /\ e.run = "arbitration" => bus.in_flight_ = {}
        /\ e.run = "completion" => \E t \in bus.in_flight_ : bus.in_flight_ = {t}
    BY <1>1 DEF TimedOK, Bus
  <1>3. bus.events \ {e} = {}
    BY <1>2
  <1>4. /\ b = [bus EXCEPT !.events = {}, !.timed_event_id_ = 0, !.timed_state_ = "idle"]
        /\ c = [bus EXCEPT !.events = {}, !.timed_event_id_ = 0, !.in_flight_ = {},
                           !.timed_state_ = "idle"]
    BY <1>1, <1>3 DEF Fired, Bus
  <1> HIDE DEF b, c
  <1>5. /\ b \in Bus /\ b.mode_ = bus.mode_ /\ b.nodes_ = bus.nodes_
        /\ b.pending_ = bus.pending_ /\ b.in_flight_ = bus.in_flight_
        /\ b.next_transmission_sequence_ = bus.next_transmission_sequence_
        /\ b.fractional_numerator_ = bus.fractional_numerator_
        /\ b.in_flight_fraction_before_start_ = bus.in_flight_fraction_before_start_
        /\ b.events = {} /\ b.timed_event_id_ = 0 /\ b.timed_state_ = "idle"
        /\ b.next_start_ns_ = bus.next_start_ns_ /\ b.next_node_id_ = bus.next_node_id_
    BY <1>1, <1>4 DEF Bus
  <1>6. /\ c \in Bus /\ c.mode_ = bus.mode_ /\ c.nodes_ = bus.nodes_
        /\ c.pending_ = bus.pending_ /\ c.in_flight_ = {}
        /\ c.next_transmission_sequence_ = bus.next_transmission_sequence_
        /\ c.fractional_numerator_ = bus.fractional_numerator_
        /\ c.in_flight_fraction_before_start_ = bus.in_flight_fraction_before_start_
        /\ c.events = {} /\ c.timed_event_id_ = 0 /\ c.timed_state_ = "idle"
        /\ c.next_node_id_ = bus.next_node_id_
    BY <1>1, <1>4 DEF Bus
  <1>7. e.run = "arbitration" => BusOK(b)
    BY <1>1, <1>2, <1>5 DEF BusOK, TimedOK, QueueOK
  <1>8. BusOK(c)
    BY <1>1, <1>6 DEF BusOK, TimedOK, QueueOK
  <1> QED
    BY <1>2, <1>5, <1>6, <1>7, <1>8 DEF b, c

(* completeInFlight().                                                     *)
LEMMA CompletionEventStep ==
    ASSUME IInv, NEW e \in bus.events, CompletionEvent(e)
    PROVE  IInv'
  <1> DEFINE b == [Fired(e) EXCEPT !.in_flight_ = {}, !.timed_state_ = "idle"]
             tx == CHOOSE t \in bus.in_flight_ : TRUE
  <1>1. e.run = "completion"
    BY DEF CompletionEvent
  <1>2. /\ BusOK(b) /\ b.mode_ = bus.mode_ /\ b.nodes_ = bus.nodes_
        /\ b.pending_ = bus.pending_ /\ b.in_flight_ = {}
        /\ b.next_transmission_sequence_ = bus.next_transmission_sequence_
        /\ b.fractional_numerator_ = bus.fractional_numerator_
        /\ b.in_flight_fraction_before_start_ = bus.in_flight_fraction_before_start_
        /\ bus.in_flight_ # {}
    BY <1>1, FiredOK
  <1>3. tx \in bus.in_flight_ /\ Deliver(<<>>, b, tx, Receivers(tx), Expected(tx))
    BY <1>2 DEF CompletionEvent
  <1> HIDE DEF b, tx
  <1>4. bus \in Bus /\ QueueOK(bus) /\ FatesOK(bus, calls, fate)
    BY DEF IInv, BusOK
  <1>5. /\ tx \in Transmission /\ tx.id < bus.next_transmission_sequence_
        /\ \A i \in DOMAIN bus.pending_ :
              /\ tx.id # bus.pending_[i].id
              /\ tx.sender = bus.pending_[i].sender => tx.id < bus.pending_[i].id
    BY <1>3, <1>4 DEF Bus, QueueOK
  <1>6. Unsettled(b, calls, fate, tx.id)
    BY <1>2, <1>3, <1>4, <1>5 DEF Unsettled, FatesOK
  <1>7. CallsOK(<<>>, bus, calls, fate)
    BY DEF CallsOK
  <1>8. /\ Receivers(tx) \in Seq(NodeId) /\ Expected(tx) \subseteq Attached(bus)
        /\ Expected(tx) \subseteq {Receivers(tx)[i] : i \in DOMAIN Receivers(tx)}
    BY <1>4, SnapshotOK
  <1> DEFINE below == <<>>
  <1>9. \A l \in DOMAIN below : Delivering(bus, below[l]) => below[l].tx.id # tx.id
    OBVIOUS
  <1>10. b.in_flight_ \subseteq bus.in_flight_ /\ (bus.mode_ = "timed" => below = <<>>)
    BY <1>2
  <1>11. CallsOK(below, bus, calls, fate)
         /\ Deliver(below, b, tx, Receivers(tx), Expected(tx))
    BY <1>3, <1>7
  <1> HIDE DEF below
  <1> QED
    BY <1>2, <1>5, <1>6, <1>8, <1>9, <1>10, <1>11, DeliverStep

(* A stack of one call.                                                    *)
LEMMA SingleCall ==
    ASSUME NEW c, NEW b, NEW called, NEW became, CallOK(b, called, became, c)
    PROVE  CallsOK(<<c>>, b, called, became) /\ Len(<<c>>) = 1
  <1>1. c \in Call
    BY DEF CallOK
  <1> DEFINE s == <<c>>
  <1>2. s \in Seq(Call) /\ Len(s) = 1 /\ DOMAIN s = {1} /\ s[1] = c
    BY <1>1
  <1> HIDE DEF s
  <1>3. CallsOK(s, b, called, became)
    BY <1>2 DEF CallsOK
  <1> QED
    BY <1>2, <1>3 DEF s

(* arbitrate() with a winner: the frame goes on the wire, or cannot.       *)
LEMMA TransmitStep ==
    ASSUME IInv, stack = <<>>, NEW b, BusOK(b), b.mode_ = bus.mode_,
           b.nodes_ = bus.nodes_, b.pending_ = bus.pending_, b.in_flight_ = {},
           b.next_transmission_sequence_ = bus.next_transmission_sequence_,
           b.fractional_numerator_ = bus.fractional_numerator_,
           b.events = {}, b.timed_event_id_ = 0, b.timed_state_ = "idle",
           NEW start \in Time, Eligible(b.pending_, start) # {},
           Transmit(b, start), UNCHANGED <<now, cancels>>
    PROVE  IInv'
  <1> DEFINE i == Winner(b.pending_, start)
             tx == b.pending_[i]
             frame_numerator == tx.frame.bits * Second + b.fractional_numerator_
             frame_duration == frame_numerator \div Bitrate
             intermission_numerator ==
                 IntermissionBits * Second + Remainder(frame_numerator)
             intermission == intermission_numerator \div Bitrate
             taken == [b EXCEPT !.pending_ = Without(@, i)]
             free == start + frame_duration + intermission
             rest == Without(b.pending_, i)
  <1>0. IF free > MaxTime
        THEN /\ stack' = Append(stack, Waiting("failing", tx, <<>>, {}))
             /\ bus' = taken
             /\ fate' = [fate EXCEPT ![tx.id] = "failed"]
             /\ calls' = [calls EXCEPT ![tx.id] = @ + 1]
             /\ UNCHANGED air
        ELSE /\ stack' = Append(stack, Waiting("sof", tx, <<>>, {}))
             /\ bus' = [Arm(taken, start + frame_duration, "completion") EXCEPT
                          !.in_flight_ = {tx},
                          !.timed_state_ = "in_flight",
                          !.fractional_numerator_ = Remainder(intermission_numerator),
                          !.in_flight_fraction_before_start_ = b.fractional_numerator_,
                          !.next_start_ns_ = free]
             /\ fate' = [fate EXCEPT ![tx.id] = "on_wire"]
             /\ air' = [bits |-> air.bits + tx.frame.bits + IntermissionBits,
                        time |-> air.time + (free - start),
                        old_bits |-> air.bits, old_time |-> air.time]
             /\ UNCHANGED calls
    BY Zenon DEF Transmit
  <1>1. /\ TypeOK /\ CompletedOnce /\ TimingOK /\ bus \in Bus /\ b \in Bus /\ QueueOK(b)
        /\ FatesOK(b, calls, fate) /\ b.pending_ \in Seq(Transmission)
        /\ b.next_transmission_sequence_ \in Nat /\ b.fractional_numerator_ \in Nat
    BY DEF IInv, BusOK, FatesOK, Bus
  <1>2. i \in Heads(b.pending_) /\ i \in DOMAIN b.pending_
    BY WinnerOK DEF Eligible, Heads
  <1>3. /\ tx \in Transmission /\ tx.id \in TxId /\ tx.id \in Nat
        /\ tx.frame \in Frames /\ tx.frame.bits \in Nat
        /\ tx.id < b.next_transmission_sequence_ /\ calls[tx.id] = 0
        /\ b.mode_ = "timed"
    <2>1. tx \in Transmission
      BY <1>1, <1>2
    <2>2. b.mode_ = "timed"
      BY <1>1, <1>2 DEF QueueOK, Bus, DeliveryMode
    <2>3. tx.id < b.next_transmission_sequence_ /\ calls[tx.id] = 0
      BY <1>1, <1>2 DEF QueueOK, FatesOK
    <2> HIDE DEF tx
    <2>4. tx.id \in TxId /\ tx.id \in Nat /\ tx.frame \in Frames
      BY <2>1 DEF Transmission, TxId
    <2>5. tx.frame.bits \in Nat
      BY <2>4, FrameAssumption
    <2> QED
      BY <2>1, <2>2, <2>3, <2>4, <2>5
  <1>4. Removed(rest, b.pending_, i)
    BY <1>1, <1>2, WithoutElements
  <1>5. \A j \in 1..(i - 1) : b.pending_[j].sender # tx.sender
    BY <1>2 DEF Heads
  <1> HIDE DEF tx, rest, i
  <1>6. ASSUME NEW k \in DOMAIN rest
        PROVE  \E j \in DOMAIN b.pending_ :
                  /\ j # i /\ rest[k] = b.pending_[j]
                  /\ tx.sender = b.pending_[j].sender => i < j
    <2>0. DOMAIN b.pending_ = 1..Len(b.pending_) /\ Len(b.pending_) \in Nat
      BY <1>1
    <2>1. CASE k < i
      <3>1. k \in DOMAIN b.pending_ /\ rest[k] = b.pending_[k] /\ k # i
        BY <2>0, <2>1, <1>2, <1>4 DEF Removed
      <3>2. k \in 1..(i - 1)
        BY <2>0, <2>1, <3>1, <1>2
      <3> QED
        BY <3>1, <3>2, <1>5
    <2>2. CASE ~(k < i)
      <3>1. /\ k + 1 \in DOMAIN b.pending_ /\ rest[k] = b.pending_[k + 1]
            /\ k \in Nat
        BY <2>2, <1>4 DEF Removed
      <3>2. k + 1 # i /\ i < k + 1
        BY <2>0, <2>2, <3>1, <1>2
      <3> QED
        BY <3>1, <3>2
    <2> QED
      BY <2>1, <2>2
  <1>7. ASSUME NEW k \in DOMAIN rest
        PROVE  /\ rest[k].id # tx.id /\ rest[k].id < b.next_transmission_sequence_
               /\ tx.sender = rest[k].sender => tx.id < rest[k].id
               /\ calls[rest[k].id] = 0 /\ rest[k].id \in TxId
    <2>1. PICK j \in DOMAIN b.pending_ :
                  /\ j # i /\ rest[k] = b.pending_[j]
                  /\ tx.sender = b.pending_[j].sender => i < j
      BY <1>6
    <2>2. b.pending_[j] \in Transmission /\ i \in Nat /\ j \in Nat
      BY <1>1, <1>2
    <2>3. i < j \/ j < i
      BY <2>1, <2>2
    <2>4. /\ i < j => tx.id < b.pending_[j].id
          /\ j < i => b.pending_[j].id < tx.id
      BY <1>1, <1>2 DEF QueueOK, tx
    <2>5. b.pending_[j].id \in TxId /\ b.pending_[j].id \in Nat
      BY <2>2 DEF Transmission, TxId
    <2> QED
      BY <2>1, <2>3, <2>4, <2>5, <1>1, <1>3 DEF QueueOK, FatesOK
  <1>8. \A k, l \in DOMAIN rest : k < l => rest[k].id < rest[l].id
    <2> SUFFICES ASSUME NEW k \in DOMAIN rest, NEW l \in DOMAIN rest, k < l
                 PROVE  rest[k].id < rest[l].id
      OBVIOUS
    <2>1. k \in Nat /\ l \in Nat /\ i \in Nat
      BY <1>1, <1>2, <1>4 DEF Removed
    <2>2. PICK x \in DOMAIN b.pending_ :
             rest[k] = b.pending_[x] /\ x = IF k < i THEN k ELSE k + 1
      BY <1>4 DEF Removed
    <2>3. PICK y \in DOMAIN b.pending_ :
             rest[l] = b.pending_[y] /\ y = IF l < i THEN l ELSE l + 1
      BY <1>4 DEF Removed
    <2>4. x < y
      BY <2>1, <2>2, <2>3
    <2> QED
      BY <2>2, <2>3, <2>4, <1>1 DEF QueueOK
  <1>9. rest \in Seq(Transmission)
    BY <1>4 DEF Removed
  <1>10. taken = [b EXCEPT !.pending_ = rest]
    BY DEF rest
  <1> HIDE DEF taken
  <1>11. /\ taken \in Bus /\ taken.pending_ = rest /\ taken.mode_ = "timed"
         /\ taken.nodes_ = b.nodes_ /\ taken.in_flight_ = {} /\ taken.events = {}
         /\ taken.timed_event_id_ = 0 /\ taken.timed_state_ = "idle"
         /\ taken.next_node_id_ = b.next_node_id_
         /\ taken.next_transmission_sequence_ = b.next_transmission_sequence_
         /\ taken.fractional_numerator_ = b.fractional_numerator_
         /\ taken.in_flight_fraction_before_start_
               = b.in_flight_fraction_before_start_
    BY <1>1, <1>3, <1>9, <1>10 DEF Bus
  <1>12. CASE free > MaxTime
    <2> DEFINE c == Waiting("failing", tx, <<>>, {})
    <2>1. /\ stack' = <<c>> /\ bus' = taken
          /\ fate' = [fate EXCEPT ![tx.id] = "failed"]
          /\ calls' = [calls EXCEPT ![tx.id] = @ + 1]
          /\ UNCHANGED <<air, now, cancels>>
      <3> HIDE DEF free, frame_duration, intermission, frame_numerator,
                   intermission_numerator, c
      <3>1. Append(stack, c) = <<c>>
        OBVIOUS
      <3> QED
        BY <1>0, <1>12, <3>1, Zenon DEF c
    <2> HIDE DEF free
    <2>2. /\ c \in Call /\ c.phase = "failing" /\ c.tx = tx /\ c.todo = <<>>
          /\ c.owed = {}
      BY <1>3 DEF Waiting, Call
    <2> HIDE DEF c
    <2>3. BusOK(bus')
      <3>1. TimedOK(taken)
        BY <1>11 DEF TimedOK
      <3>2. QueueOK(taken)
        BY <1>7, <1>8, <1>11 DEF QueueOK
      <3> QED
        BY <3>1, <3>2, <2>1, <1>11 DEF BusOK
    <2>4. CallOK(bus', calls', fate', c)
      BY <2>1, <2>2, <1>3, <1>7, <1>11 DEF CallOK, Delivering, ToReceive
    <2>5. CallsOK(stack', bus', calls', fate') /\ StackOK'
      BY <2>1, <2>2, <2>4, SingleCall DEF StackOK
    <2>6. /\ fate' \in [TxId -> {"unused", "queued", "on_wire", "delivered",
                                 "cancelled", "failed"}]
          /\ calls' \in [TxId -> Nat] /\ fate'[tx.id] = "failed" /\ calls'[tx.id] = 1
          /\ \A t \in TxId : t # tx.id => calls'[t] = calls[t] /\ fate'[t] = fate[t]
      BY <2>1, <1>1, <1>3 DEF TypeOK
    <2>7. TypeOK'
      BY <2>1, <2>3, <2>5, <2>6, <1>1, OneOnWire DEF TypeOK, BusOK, CallsOK
    <2>8. Awake'
      BY <2>1, <2>2 DEF Awake
    <2>9. FatesOK(bus, calls, fate)'
      <3>1. \A t \in TxId : t >= b.next_transmission_sequence_ => calls'[t] = 0
        <4>1. \A t \in TxId : t >= b.next_transmission_sequence_ => t # tx.id
          BY <1>1, <1>3 DEF TxId
        <4> QED
          BY <4>1, <2>6, <1>1 DEF FatesOK
      <3>2. \A k \in DOMAIN rest : calls'[rest[k].id] = 0
        BY <2>6, <1>7
      <3> QED
        BY <3>1, <3>2, <2>1, <1>11 DEF FatesOK
    <2>10. CompletedOnce'
      <3>1. \A t \in TxId : calls[t] <= 1
        BY <1>1 DEF CompletedOnce
      <3>2. \A t \in TxId : calls'[t] <= 1
        BY <3>1, <2>6
      <3>3. \A t \in TxId : calls'[t] = 1 => fate'[t] \in {"delivered", "failed"}
        BY <2>6, <1>1 DEF CompletedOnce
      <3> QED
        BY <3>2, <3>3 DEF CompletedOnce
    <2>11. TimingOK'
      BY <2>1, <1>1, <1>11 DEF TimingOK, TimingExact
    <2> QED
      BY <2>3, <2>5, <2>7, <2>8, <2>9, <2>10, <2>11 DEF IInv
  <1>13. CASE ~(free > MaxTime)
    <2> DEFINE c == Waiting("sof", tx, <<>>, {})
               e == [id |-> NewEventId(taken), at |-> start + frame_duration,
                     run |-> "completion"]
    <2>1. /\ stack' = <<c>>
          /\ bus' = [Arm(taken, start + frame_duration, "completion") EXCEPT
                       !.in_flight_ = {tx},
                       !.timed_state_ = "in_flight",
                       !.fractional_numerator_ = Remainder(intermission_numerator),
                       !.in_flight_fraction_before_start_ = b.fractional_numerator_,
                       !.next_start_ns_ = free]
          /\ fate' = [fate EXCEPT ![tx.id] = "on_wire"]
          /\ air' = [bits |-> air.bits + tx.frame.bits + IntermissionBits,
                     time |-> air.time + (free - start),
                     old_bits |-> air.bits, old_time |-> air.time]
          /\ UNCHANGED <<calls, now, cancels>>
      <3> HIDE DEF free, frame_duration, intermission, frame_numerator,
                   intermission_numerator, c, e
      <3>1. Append(stack, c) = <<c>>
        OBVIOUS
      <3> QED
        BY <1>0, <1>13, <3>1, Zenon DEF c
    <2>2. /\ frame_numerator \in Nat
          /\ frame_duration \in Nat /\ Remainder(frame_numerator) \in Nat
          /\ frame_duration * Bitrate + Remainder(frame_numerator)
                = tx.frame.bits * Second + b.fractional_numerator_
      <3>1. frame_numerator \in Nat
        <4>1. tx.frame.bits * Second \in Nat
          BY <1>3, RateAssumption, Product
        <4>2. \A x, y \in Nat : x + y \in Nat
          OBVIOUS
        <4> QED
          BY <4>1, <4>2, <1>1, Zenon
      <3> HIDE DEF frame_numerator
      <3>2. /\ frame_numerator \div Bitrate \in Nat /\ frame_numerator % Bitrate \in Nat
            /\ (frame_numerator \div Bitrate) * Bitrate + (frame_numerator % Bitrate)
                  = frame_numerator
        BY <3>1, RateAssumption, DivMod
      <3> QED
        BY <3>1, <3>2 DEF frame_numerator, Remainder
    <2> HIDE DEF frame_numerator, frame_duration
    <2>3. /\ intermission_numerator \in Nat
          /\ intermission \in Nat /\ Remainder(intermission_numerator) \in Nat
          /\ Remainder(intermission_numerator) < Bitrate
          /\ intermission * Bitrate + Remainder(intermission_numerator)
                = IntermissionBits * Second + Remainder(frame_numerator)
      <3>1. intermission_numerator \in Nat
        BY <2>2, RateAssumption, Product
      <3> HIDE DEF intermission_numerator
      <3>2. /\ intermission_numerator \div Bitrate \in Nat
            /\ intermission_numerator % Bitrate \in Nat
            /\ intermission_numerator % Bitrate < Bitrate
            /\ (intermission_numerator \div Bitrate) * Bitrate
                  + (intermission_numerator % Bitrate) = intermission_numerator
        BY <3>1, RateAssumption, DivMod
      <3> QED
        BY <3>1, <3>2 DEF intermission_numerator, Remainder
    <2> HIDE DEF intermission_numerator, intermission
    <2>4. /\ start \in Nat /\ free \in Time /\ start + frame_duration \in Time
          /\ start + frame_duration <= free /\ free - start = frame_duration + intermission
      BY <2>2, <2>3, <1>13, BoundAssumption DEF Time
    <2>5. NewEventId(taken) \in Nat
      BY <1>11, FreshEvent
    <2>6. Arm(taken, start + frame_duration, "completion")
            = [taken EXCEPT !.events = {e}, !.timed_event_id_ = NewEventId(taken)]
      BY <1>11 DEF Arm
    <2>7. e \in [id : Nat, at : Time, run : {"arbitration", "completion"}]
      BY <2>4, <2>5
    <2>8. /\ e.id = NewEventId(taken) /\ e.run = "completion"
          /\ e.at = start + frame_duration
      OBVIOUS
    <2> HIDE DEF e, free
    <2>9. /\ bus' \in Bus /\ bus'.mode_ = "timed" /\ bus'.nodes_ = b.nodes_
          /\ bus'.next_node_id_ = b.next_node_id_
          /\ bus'.pending_ = rest /\ bus'.in_flight_ = {tx}
          /\ bus'.timed_state_ = "in_flight" /\ bus'.events = {e}
          /\ bus'.timed_event_id_ = NewEventId(taken) /\ bus'.next_start_ns_ = free
          /\ bus'.fractional_numerator_ = Remainder(intermission_numerator)
          /\ bus'.in_flight_fraction_before_start_ = b.fractional_numerator_
          /\ bus'.next_transmission_sequence_ = b.next_transmission_sequence_
      <3> DEFINE d == Arm(taken, start + frame_duration, "completion")
      <3>1. /\ d \in Bus /\ d.mode_ = "timed" /\ d.nodes_ = b.nodes_
            /\ d.next_node_id_ = b.next_node_id_ /\ d.pending_ = rest
            /\ d.events = {e} /\ d.timed_event_id_ = NewEventId(taken)
            /\ d.next_transmission_sequence_ = b.next_transmission_sequence_
        <4>1. {e} \in SUBSET [id : Nat, at : Time, run : {"arbitration", "completion"}]
          BY <2>7
        <4>2. d = [taken EXCEPT !.events = {e}, !.timed_event_id_ = NewEventId(taken)]
          BY <2>6
        <4> HIDE DEF d
        <4> QED
          BY <4>1, <4>2, <2>5, <1>11 DEF Bus
      <3> HIDE DEF d
      <3>2. bus' = [d EXCEPT
                       !.in_flight_ = {tx},
                       !.timed_state_ = "in_flight",
                       !.fractional_numerator_ = Remainder(intermission_numerator),
                       !.in_flight_fraction_before_start_ = b.fractional_numerator_,
                       !.next_start_ns_ = free]
        BY <2>1 DEF d
      <3> QED
        BY <3>1, <3>2, <2>3, <2>4, <1>1, <1>3 DEF Bus
    <2>10. BusOK(bus')
      <3>1. TimedOK(bus')
        BY <2>4, <2>8, <2>9 DEF TimedOK
      <3>2. QueueOK(bus')
        BY <2>9, <1>3, <1>7, <1>8 DEF QueueOK
      <3> QED
        BY <3>1, <3>2, <2>3, <2>9 DEF BusOK
    <2>11. /\ c \in Call /\ c.phase = "sof" /\ c.tx = tx /\ c.todo = <<>>
           /\ c.owed = {}
      BY <1>3 DEF Waiting, Call
    <2> HIDE DEF c
    <2>12. CallOK(bus', calls', fate', c)
      BY <2>9, <2>11, <1>3, <1>7 DEF CallOK, Delivering, ToReceive
    <2>13. CallsOK(stack', bus', calls', fate') /\ StackOK'
      BY <2>1, <2>11, <2>12, SingleCall DEF StackOK
    <2>14. fate' \in [TxId -> {"unused", "queued", "on_wire", "delivered",
                               "cancelled", "failed"}]
           /\ fate'[tx.id] = "on_wire"
           /\ \A t \in TxId : t # tx.id => fate'[t] = fate[t]
      BY <2>1, <1>1, <1>3 DEF TypeOK
    <2>15. /\ air.bits \in Nat /\ air.time \in Nat
           /\ air' \in [bits : Nat, time : Nat, old_bits : Nat, old_time : Nat]
           /\ air'.bits = air.bits + tx.frame.bits + IntermissionBits
           /\ air'.time = air.time + (frame_duration + intermission)
           /\ air'.old_bits = air.bits /\ air'.old_time = air.time
      <3>1. air.bits \in Nat /\ air.time \in Nat
        BY <1>1 DEF TypeOK
      <3>2. /\ air.bits + tx.frame.bits + IntermissionBits \in Nat
            /\ air.time + (frame_duration + intermission) \in Nat
        <4>1. /\ frame_duration \in Nat /\ intermission \in Nat /\ tx.frame.bits \in Nat
              /\ IntermissionBits \in Nat
          BY <2>2, <2>3, <1>3, RateAssumption
        <4>2. \A x, y \in Nat : x + y \in Nat
          OBVIOUS
        <4> QED
          BY <3>1, <4>1, <4>2, Zenon
      <3> QED
        BY <3>1, <3>2, <2>1, <2>4
    <2>16. TypeOK'
      BY <2>1, <2>10, <2>13, <2>14, <2>15, <1>1, OneOnWire DEF TypeOK, BusOK, CallsOK
    <2>17. Awake'
      BY <2>9 DEF Awake
    <2>18. FatesOK(bus, calls, fate)'
      BY <2>1, <2>9, <2>14, <1>1, <1>3, <1>7 DEF FatesOK
    <2>19. CompletedOnce'
      BY <2>1, <2>14, <1>1, <1>3 DEF CompletedOnce
    <2>20. TimingOK'
      <3>1. air.time * Bitrate + b.fractional_numerator_ = air.bits * Second
        BY <1>1 DEF TimingOK, TimingExact
      <3>2. (air.time + (frame_duration + intermission)) * Bitrate
                + Remainder(intermission_numerator)
              = (air.bits + tx.frame.bits + IntermissionBits) * Second
        <4> DEFINE time == air.time
                   bits == air.bits
                   length == tx.frame.bits
                   before == b.fractional_numerator_
                   between == Remainder(frame_numerator)
                   after == Remainder(intermission_numerator)
        <4>1. /\ Bitrate \in Nat /\ Second \in Nat /\ IntermissionBits \in Nat
              /\ time \in Nat /\ bits \in Nat /\ length \in Nat
              /\ before \in Nat /\ between \in Nat /\ after \in Nat
              /\ frame_duration \in Nat /\ intermission \in Nat
          BY <2>2, <2>3, <2>15, <1>1, <1>3, RateAssumption
        <4>2. /\ time * Bitrate + before = bits * Second
              /\ frame_duration * Bitrate + between = length * Second + before
              /\ intermission * Bitrate + after = IntermissionBits * Second + between
          BY <3>1, <2>2, <2>3
        <4> HIDE DEF time, bits, length, before, between, after
        <4>3. (time + (frame_duration + intermission)) * Bitrate + after
                = (bits + length + IntermissionBits) * Second
          BY ONLY <4>1, <4>2, CarriedRemainder
        <4> QED
          BY <4>3 DEF time, bits, length, after
      <3> QED
        BY <3>1, <3>2, <2>9, <2>15 DEF TimingOK, TimingExact
    <2> QED
      BY <2>10, <2>13, <2>16, <2>17, <2>18, <2>19, <2>20 DEF IInv
  <1> QED
    BY <1>12, <1>13

(* arbitrate(): a winner, or the next arbitration.                         *)
LEMMA ArbitrationStep ==
    ASSUME IInv, NEW e \in bus.events, ArbitrationEvent(e)
    PROVE  IInv'
  <1> DEFINE b == [Fired(e) EXCEPT !.timed_state_ = "idle"]
             start == MaxOf({bus.next_start_ns_, now})
  <1>1. stack = <<>> /\ e.run = "arbitration" /\ UNCHANGED <<now, cancels>>
    BY DEF ArbitrationEvent
  <1>2. /\ BusOK(b) /\ b.mode_ = bus.mode_ /\ b.nodes_ = bus.nodes_
        /\ b.pending_ = bus.pending_ /\ b.in_flight_ = {} /\ bus.in_flight_ = {}
        /\ b.next_transmission_sequence_ = bus.next_transmission_sequence_
        /\ b.fractional_numerator_ = bus.fractional_numerator_
        /\ b.events = {} /\ b.timed_event_id_ = 0 /\ b.timed_state_ = "idle"
    BY <1>1, FiredOK
  <1>3. start \in Time
    <2>1. /\ bus.next_start_ns_ \in Time /\ now \in Time /\ Time \subseteq Nat
      BY BoundAssumption DEF IInv, TypeOK, Bus, Time
    <2>2. {bus.next_start_ns_, now} = {bus.next_start_ns_, now, now}
      OBVIOUS
    <2>3. start \in {bus.next_start_ns_, now, now}
      BY <2>1, <2>2, MaxOfThree
    <2> QED
      BY <2>1, <2>3
  <1>4. CASE b.pending_ # <<>> /\ Eligible(b.pending_, start) # {}
    <2>1. Transmit(b, start)
      BY <1>4 DEF ArbitrationEvent
    <2> HIDE DEF b, start
    <2> QED
      BY <2>1, <1>1, <1>2, <1>3, <1>4, TransmitStep
  <1>5. CASE ~(b.pending_ # <<>> /\ Eligible(b.pending_, start) # {})
    <2>1. bus' = ScheduleArbitration(b) /\ UNCHANGED <<stack, fate, calls, air>>
      BY <1>5 DEF ArbitrationEvent
    <2> HIDE DEF b, start
    <2>2. /\ BusOK(bus') /\ SameQueue(b, bus')
          /\ bus'.mode_ = "timed" /\ bus'.pending_ # <<>> => bus'.timed_state_ # "idle"
      BY <2>1, <1>2, ScheduleOK DEF IInv, TypeOK
    <2>3. StackOK' /\ Awake'
      BY <2>1, <2>2, <1>1 DEF StackOK, CallsOK, Awake
    <2>4. TypeOK'
      BY <2>1, <2>2, <1>1, OneOnWire DEF IInv, TypeOK, BusOK
    <2>5. FatesOK(bus, calls, fate)'
      BY <2>1, <2>2, <1>2 DEF IInv, FatesOK, SameQueue
    <2>6. CompletedOnce' /\ TimingOK'
      BY <2>1, <2>2, <1>2 DEF IInv, CompletedOnce, TimingOK, TimingExact, SameQueue
    <2> QED
      BY <2>2, <2>3, <2>4, <2>5, <2>6 DEF IInv
  <1> QED
    BY <1>4, <1>5

LEMMA NextIInv == IInv /\ [Next]_vars => IInv'
  <1> SUFFICES ASSUME IInv, [Next]_vars PROVE IInv'
    OBVIOUS
  <1>1. ASSUME NEW loopback \in BOOLEAN, Attach(loopback) PROVE IInv'
    BY <1>1, AttachStep
  <1>2. ASSUME NEW n \in Attached(bus), CancelSender(n) PROVE IInv'
    BY <1>2, CancelSenderStep
  <1>3. ASSUME NEW n \in Attached(bus), Detach(n) PROVE IInv'
    BY <1>3, DetachStep
  <1>4. ASSUME NEW sender \in Attached(bus) \cup {External}, NEW frame \in Frames,
               NEW requested \in Time, Send(sender, frame, requested)
        PROVE  IInv'
    BY <1>4, SubmitTimedStep, SubmitImmediateStep DEF Send
  <1>5. ASSUME SofReturns \/ TraceReturns \/ ReceiveReturns \/ CompletionReturns
        PROVE  IInv'
    BY <1>5, SofStep, TraceStep, ReceiveStep, CompletionReturnsStep
  <1>6. ASSUME NEW e \in bus.events, ArbitrationEvent(e) \/ CompletionEvent(e)
        PROVE  IInv'
    BY <1>6, ArbitrationStep, CompletionEventStep
  <1>7. CASE Advance
    BY <1>7, AdvanceStep
  <1>8. CASE UNCHANGED vars
    BY <1>8 DEF vars, IInv, TypeOK, StackOK, CallsOK, Awake, FatesOK, CompletedOnce,
                TimingOK, TimingExact
  <1> QED
    BY <1>1, <1>2, <1>3, <1>4, <1>5, <1>6, <1>7, <1>8 DEF Next, ClientStep, BusStep

-----------------------------------------------------------------------------
(* A node that detaches.  Only a receive trace that returns enters a       *)
(* receive callback, and only the end of a delivery or a frame that cannot *)
(* be sent enters a completion; the last does not look the sender up, so   *)
(* it rests on the queue holding frames of attached nodes alone.           *)
QueueAttached(b) ==
    \A tx \in OnBus(b) : tx.sender \in Attached(b) \cup {External}

EntersAttached ==
    CallbackBegins => CalledNode(stack'[Len(stack')]) \in Attached(bus) \cup {External}

(* A step that enters no callback: the stack keeps its phases or shrinks,  *)
(* or its top waits in a trace.                                            *)
EntersNone ==
    \/ Len(stack') < Len(stack)
    \/ Len(stack') = Len(stack) /\ \A l \in DOMAIN stack : stack'[l].phase = stack[l].phase
    \/ stack' # <<>> /\ stack'[Len(stack')].phase \in {"sof", "traced"}
    \/ stack' = <<>>

LEMMA NoneEntered ==
    ASSUME IInv, EntersNone, stack' \in Seq(Call)
    PROVE  EntersAttached
  <1> SUFFICES ASSUME CallbackBegins PROVE FALSE
    BY DEF EntersAttached
  <1>1. stack \in Seq(Call) /\ Len(stack) \in Nat /\ Len(stack') \in Nat
    BY DEF IInv, TypeOK
  <1>2. CASE Len(stack') = Len(stack) /\ \A l \in DOMAIN stack : stack'[l].phase = stack[l].phase
    <2>1. stack' # <<>> /\ Len(stack) \in DOMAIN stack
      BY <1>1, <1>2 DEF CallbackBegins
    <2> QED
      BY <1>1, <1>2, <2>1 DEF CallbackBegins, TopCall
  <1> QED
    BY <1>1, <1>2 DEF CallbackBegins, EntersNone

(* Frames that leave the queue or the wire leave only attached senders.    *)
LEMMA FewerOnBus ==
    ASSUME QueueAttached(bus), OnBus(bus') \subseteq OnBus(bus),
           Attached(bus) \subseteq Attached(bus')
    PROVE  QueueAttached(bus')
  BY DEF QueueAttached

LEMMA ScheduledSame ==
    ASSUME NEW b, BusOK(b), now \in Time
    PROVE  LET c == ScheduleArbitration(b)
           IN  OnBus(c) = OnBus(b) /\ Attached(c) = Attached(b)
  BY ScheduleOK DEF SameQueue, OnBus, Attached

(* deliver() from here on: the next trace, the completion of a sender that *)
(* is there, or none.                                                      *)
LEMMA DeliverEnters ==
    ASSUME IInv, IInv', NEW below \in Seq(Call), below = <<>> \/ Len(below) < Len(stack),
           NEW b, BusOK(b), NEW tx \in Transmission, NEW todo, NEW owed,
           Attached(b) = Attached(bus), OnBus(b) \subseteq OnBus(bus),
           QueueAttached(bus), Deliver(below, b, tx, todo, owed)
    PROVE  EntersAttached /\ QueueAttached(bus')
  <1> DEFINE rest == DropDetached(todo)
  <1>0. /\ stack \in Seq(Call) /\ stack' \in Seq(Call) /\ now \in Time
        /\ Len(stack) \in Nat /\ Len(below) \in Nat
    BY DEF IInv, TypeOK
  <1>1. CASE rest # <<>>
    <2> DEFINE c == Waiting("traced", tx, rest, owed)
    <2>1. stack' = Append(below, c) /\ bus' = b /\ c.phase = "traced"
      BY <1>1 DEF Deliver, Waiting
    <2> HIDE DEF c
    <2>2. stack' # <<>> /\ stack'[Len(stack')] = c
      BY <2>1
    <2>3. EntersNone
      BY <2>1, <2>2 DEF EntersNone
    <2> QED
      BY <2>1, <2>3, <1>0, NoneEntered, FewerOnBus
  <1>2. CASE rest = <<>> /\ SenderAttached(tx)
    <2> DEFINE c == Waiting("completing", tx, <<>>, owed)
    <2>1. stack' = Append(below, c) /\ bus' = b /\ c.phase = "completing" /\ c.tx = tx
      BY <1>2 DEF Deliver, FinishDelivery, Waiting
    <2> HIDE DEF c
    <2>2. stack'[Len(stack')] = c
      BY <2>1
    <2>3. CalledNode(c) \in Attached(bus) \cup {External}
      BY <2>1, <1>2 DEF CalledNode, SenderAttached
    <2> QED
      BY <2>1, <2>2, <2>3, FewerOnBus DEF EntersAttached
  <1>3. CASE rest = <<>> /\ ~SenderAttached(tx)
    <2>1. stack' = below /\ bus' = ScheduleArbitration(b)
      BY <1>3 DEF Deliver, FinishDelivery
    <2>2. QueueAttached(bus')
      BY <2>1, <1>0, ScheduledSame, FewerOnBus
    <2>3. EntersNone
      BY <2>1 DEF EntersNone
    <2> QED
      BY <2>2, <2>3, <1>0, NoneEntered
  <1> QED
    BY <1>1, <1>2, <1>3

LEMMA ClientAttached ==
    ASSUME IInv, IInv', QueueAttached(bus), ClientStep
    PROVE  EntersAttached /\ QueueAttached(bus')
  <1>0. /\ stack \in Seq(Call) /\ stack' \in Seq(Call) /\ bus \in Bus /\ BusOK(bus)
        /\ now \in Time /\ bus.pending_ \in Seq(Transmission)
        /\ bus.nodes_ \in Seq(NodeId) /\ TimedOK(bus) /\ bus' \in Bus
    BY DEF IInv, TypeOK, BusOK, Bus
  <1>1. ASSUME NEW loopback \in BOOLEAN, Attach(loopback)
        PROVE  EntersNone /\ QueueAttached(bus')
    <2> DEFINE nodes == Append(bus.nodes_, bus.next_node_id_)
    <2>1. /\ bus'.pending_ = bus.pending_ /\ bus'.in_flight_ = bus.in_flight_
          /\ bus'.nodes_ = nodes /\ UNCHANGED stack
      BY <1>0, <1>1 DEF Attach, Bus
    <2>2. Attached(bus) \subseteq Attached(bus')
      <3>1. \A i \in DOMAIN bus.nodes_ : i \in DOMAIN nodes /\ nodes[i] = bus.nodes_[i]
        BY <1>0
      <3> QED
        BY <2>1, <3>1 DEF Attached
    <2>3. OnBus(bus') = OnBus(bus)
      BY <2>1 DEF OnBus
    <2> QED
      BY <2>1, <2>2, <2>3, FewerOnBus DEF EntersNone
  <1>2. ASSUME NEW n
        PROVE  LET c == CancelTransmissions(bus, n)
               IN  /\ OnBus(c) \subseteq OnBus(bus) /\ c.nodes_ = bus.nodes_
                   /\ \A tx \in OnBus(c) : tx.sender # n
    <2> DEFINE c == CancelTransmissions(bus, n)
               owned == \E t \in bus.in_flight_ : t.sender = n
    <2>1. /\ c.pending_ = WithoutSender(bus.pending_, n) /\ c.nodes_ = bus.nodes_
          /\ c.in_flight_ = IF owned THEN {} ELSE bus.in_flight_
      BY <1>0, CancelOK
    <2>2. \A k \in DOMAIN c.pending_ :
             /\ c.pending_[k].sender # n
             /\ \E i \in DOMAIN bus.pending_ : c.pending_[k] = bus.pending_[i]
      BY <2>1, <1>0, OthersKept
    <2> HIDE DEF c
    <2>3. OnBus(c) \subseteq OnBus(bus) /\ \A tx \in OnBus(c) : tx.sender # n
      BY <2>1, <2>2 DEF OnBus
    <2> QED
      BY <2>1, <2>3 DEF c
  <1>3. ASSUME NEW n \in Attached(bus), CancelSender(n)
        PROVE  EntersNone /\ QueueAttached(bus')
    <2>1. bus' = CancelTransmissions(bus, n) /\ UNCHANGED stack
      BY <1>3 DEF CancelSender
    <2>2. OnBus(bus') \subseteq OnBus(bus) /\ Attached(bus) = Attached(bus')
      BY <1>2, <2>1 DEF Attached
    <2> QED
      BY <2>1, <2>2, FewerOnBus DEF EntersNone
  <1>4. ASSUME NEW n \in Attached(bus), Detach(n)
        PROVE  EntersNone /\ QueueAttached(bus')
    <2> DEFINE c == CancelTransmissions(bus, n)
               I == {i \in DOMAIN c.nodes_ : c.nodes_[i] # n}
               left == Sublist(c.nodes_, I)
    <2>0. c \in Bus /\ c.nodes_ = bus.nodes_
      BY <1>0, CancelOK DEF BusOK
    <2>1. /\ bus' = [c EXCEPT !.nodes_ = left]
          /\ stack' = [l \in DOMAIN stack |-> [stack[l] EXCEPT !.owed = @ \ {n}]]
      BY <1>4 DEF Detach
    <2>2. OnBus(c) \subseteq OnBus(bus) /\ \A tx \in OnBus(c) : tx.sender # n
      BY <1>2
    <2>3. IsSublist(left, c.nodes_, I)
      <3>1. I \in SUBSET DOMAIN c.nodes_ /\ c.nodes_ \in Seq(NodeId)
        BY <2>0, <1>0
      <3> QED
        BY <3>1, SublistElements
    <2> HIDE DEF left, c
    <2>4. bus'.nodes_ = left /\ OnBus(bus') = OnBus(c)
      BY <2>0, <2>1 DEF Bus, OnBus
    <2>5. Attached(bus) \ {n} \subseteq Attached(bus')
      <3> SUFFICES ASSUME NEW i \in DOMAIN bus.nodes_, bus.nodes_[i] # n
                   PROVE  \E k \in DOMAIN left : left[k] = bus.nodes_[i]
        BY <2>4 DEF Attached
      <3>1. i \in I
        BY <2>0
      <3> QED
        BY <3>1, <2>0, <2>3 DEF IsSublist
    <2>6. QueueAttached(bus')
      BY <2>2, <2>4, <2>5 DEF QueueAttached
    <2>7. EntersNone
      <3>1. \A l \in DOMAIN stack : stack[l] \in Call
        BY <1>0
      <3>2. \A l \in DOMAIN stack : stack'[l].phase = stack[l].phase
        BY <2>1, <3>1 DEF Call
      <3>3. Len(stack') = Len(stack)
        BY <1>0, <2>1
      <3> QED
        BY <3>2, <3>3 DEF EntersNone
    <2> QED
      BY <2>6, <2>7
  <1>5. ASSUME NEW sender \in Attached(bus) \cup {External}, NEW frame \in Frames,
               NEW requested \in Time, SubmitTimed(sender, frame, requested)
        PROVE  EntersNone /\ QueueAttached(bus')
    <2> DEFINE tx == Request(sender, frame, requested)
               queued == [bus EXCEPT !.pending_ = Append(@, tx),
                                     !.next_transmission_sequence_ = @ + 1]
               b == IF bus.timed_state_ = "arbitrating" THEN Disarm(queued) ELSE queued
    <2>1. bus' = ScheduleArbitration(b) /\ UNCHANGED stack
      BY <1>5 DEF SubmitTimed
    <2>2. tx \in Transmission /\ tx.sender = sender
      <3>1. sender \in NodeId \cup {External}
        BY <1>0 DEF Attached
      <3>2. tx.id \in TxId
        BY <1>5 DEF SubmitTimed
      <3> QED
        BY <3>1, <3>2 DEF Request, Transmission
    <2> HIDE DEF tx
    <2>3. /\ queued.pending_ = Append(bus.pending_, tx)
          /\ queued.in_flight_ = bus.in_flight_ /\ queued.nodes_ = bus.nodes_
      BY <1>0 DEF Bus
    <2>4. /\ b.pending_ = queued.pending_ /\ b.in_flight_ = queued.in_flight_
          /\ b.nodes_ = queued.nodes_
      BY <1>0 DEF Disarm, Bus
    <2>5. /\ bus'.pending_ = b.pending_ /\ bus'.in_flight_ = b.in_flight_
          /\ bus'.nodes_ = b.nodes_
      <3> HIDE DEF b
      <3>1. ScheduleArbitration(b) = b \/
            \E at, run : ScheduleArbitration(b) = [Arm(b, at, run) EXCEPT !.timed_state_ = "arbitrating"]
        BY DEF ScheduleArbitration
      <3>2. b \in Bus
        <4>1. queued \in Bus
          <5>1. /\ Append(bus.pending_, tx) \in Seq(Transmission)
                /\ bus.next_transmission_sequence_ + 1 \in Nat
            BY <2>2, <1>0 DEF Bus
          <5> QED
            BY <5>1, <1>0 DEF Bus
        <4> QED
          BY <4>1 DEF b, Disarm, Bus
      <3> QED
        BY <2>1, <3>1, <3>2 DEF Arm, Bus
    <2> HIDE DEF queued, b
    <2>6. OnBus(bus') = OnBus(bus) \cup {tx}
      <3>1. {bus'.pending_[i] : i \in DOMAIN bus'.pending_}
              = {bus.pending_[i] : i \in DOMAIN bus.pending_} \cup {tx}
        <4> DEFINE p == bus.pending_
                   q == Append(p, tx)
        <4>1. /\ DOMAIN q = DOMAIN p \cup {Len(p) + 1} /\ q[Len(p) + 1] = tx
              /\ \A i \in DOMAIN p : q[i] = p[i]
          BY <2>2, <1>0
        <4>2. bus'.pending_ = q
          BY <2>3, <2>4, <2>5
        <4> HIDE DEF p, q
        <4>3. {q[i] : i \in DOMAIN q} = {p[i] : i \in DOMAIN p} \cup {tx}
          BY <4>1
        <4> QED
          BY <4>2, <4>3 DEF p
      <3> QED
        BY <3>1, <2>3, <2>4, <2>5 DEF OnBus
    <2>7. Attached(bus') = Attached(bus)
      BY <2>3, <2>4, <2>5 DEF Attached
    <2> QED
      BY <2>1, <2>2, <2>6, <2>7 DEF QueueAttached, EntersNone
  <1>6. ASSUME NEW sender, NEW frame, SubmitImmediate(sender, frame)
        PROVE  EntersNone /\ QueueAttached(bus')
    <2>1. PICK tx : stack' = Append(stack, Waiting("sof", tx, <<>>, {}))
      BY <1>6 DEF SubmitImmediate
    <2>2. /\ bus'.pending_ = bus.pending_ /\ bus'.in_flight_ = bus.in_flight_
          /\ bus'.nodes_ = bus.nodes_
      BY <1>0, <1>6 DEF SubmitImmediate, Bus
    <2> DEFINE c == Waiting("sof", tx, <<>>, {})
    <2>3. c.phase = "sof"
      BY DEF Waiting
    <2> HIDE DEF c
    <2>4. stack' = Append(stack, c)
      BY <2>1 DEF c
    <2>5. EntersNone
      BY <2>3, <2>4, <1>0 DEF EntersNone
    <2>6. OnBus(bus') = OnBus(bus) /\ Attached(bus') = Attached(bus)
      BY <2>2 DEF OnBus, Attached
    <2> QED
      BY <2>5, <2>6, FewerOnBus
  <1>7. EntersNone /\ QueueAttached(bus')
    BY <1>1, <1>3, <1>4, <1>5, <1>6 DEF ClientStep, Send
  <1> QED
    BY <1>0, <1>7, NoneEntered

(* The winner of an arbitration comes from the queue, so its sender is     *)
(* attached also where its completion is called without a look.            *)
LEMMA ArbitrationAttached ==
    ASSUME IInv, IInv', QueueAttached(bus), NEW e \in bus.events, ArbitrationEvent(e)
    PROVE  EntersAttached /\ QueueAttached(bus')
  <1> DEFINE b == [Fired(e) EXCEPT !.timed_state_ = "idle"]
             start == MaxOf({bus.next_start_ns_, now})
  <1>0. /\ stack = <<>> /\ stack' \in Seq(Call) /\ now \in Time /\ Len(stack) = 0
        /\ e.run = "arbitration"
    BY DEF ArbitrationEvent, IInv, TypeOK
  <1>1. /\ BusOK(b) /\ b.nodes_ = bus.nodes_ /\ b.pending_ = bus.pending_
        /\ b.in_flight_ = bus.in_flight_ /\ bus.in_flight_ = {}
    BY <1>0, FiredOK
  <1>2. OnBus(b) = OnBus(bus) /\ Attached(b) = Attached(bus)
    BY <1>1 DEF OnBus, Attached
  <1>3. \/ bus' = ScheduleArbitration(b) /\ UNCHANGED stack
        \/ Eligible(b.pending_, start) # {} /\ Transmit(b, start)
    BY DEF ArbitrationEvent
  <1> HIDE DEF b, start
  <1>4. CASE bus' = ScheduleArbitration(b) /\ UNCHANGED stack
    <2>1. QueueAttached(bus')
      BY <1>0, <1>1, <1>2, <1>4, ScheduledSame, FewerOnBus
    <2>2. EntersNone
      BY <1>0, <1>4 DEF EntersNone
    <2> QED
      BY <2>1, <2>2, <1>0, NoneEntered
  <1>5. CASE Eligible(b.pending_, start) # {} /\ Transmit(b, start)
    <2> DEFINE i == Winner(b.pending_, start)
               tx == b.pending_[i]
    <2>1. i \in DOMAIN b.pending_ /\ b.pending_ \in Seq(Transmission) /\ b \in Bus
      <3>1. i \in Eligible(b.pending_, start)
        BY <1>1, <1>5, WinnerOK
      <3> QED
        BY <3>1, <1>1 DEF Eligible, Heads, BusOK, Bus
    <2> HIDE DEF i
    <2>2. Removed(Without(b.pending_, i), b.pending_, i)
      BY <2>1, WithoutElements
    <2>3. tx \in OnBus(b)
      BY <2>1 DEF OnBus
    <2>4. PICK c : /\ stack' = Append(stack, c) /\ c.tx = tx
                   /\ c.phase \in {"failing", "sof"}
      BY <1>5 DEF Transmit, Waiting, i
    <2>5. /\ bus'.pending_ = Without(b.pending_, i) /\ bus'.nodes_ = b.nodes_
          /\ bus'.in_flight_ \subseteq {tx}
      <3> DEFINE taken == [b EXCEPT !.pending_ = Without(@, i)]
                 whole == tx.frame.bits * Second + b.fractional_numerator_
                 gap == IntermissionBits * Second + Remainder(whole)
                 free == start + (whole \div Bitrate) + (gap \div Bitrate)
      <3>1. \/ bus' = taken
            \/ bus' = [Arm(taken, start + (whole \div Bitrate), "completion") EXCEPT
                         !.in_flight_ = {tx}, !.timed_state_ = "in_flight",
                         !.fractional_numerator_ = Remainder(gap),
                         !.in_flight_fraction_before_start_ = b.fractional_numerator_,
                         !.next_start_ns_ = free]
        BY <1>5, Zenon DEF Transmit, i
      <3> HIDE DEF whole, gap, free
      <3>2. /\ taken.pending_ = Without(b.pending_, i) /\ taken.nodes_ = b.nodes_
            /\ taken.in_flight_ = {}
            /\ taken \in [DOMAIN b -> UNION {{taken[f]} : f \in DOMAIN b}]
            /\ {"pending_", "nodes_", "in_flight_"} \subseteq DOMAIN b
        BY <1>1, <2>1 DEF Bus
      <3> HIDE DEF taken, tx
      <3> QED
        BY <3>1, <3>2 DEF Arm
    <2> HIDE DEF tx
    <2>6. OnBus(bus') \subseteq OnBus(b)
      <3> SUFFICES ASSUME NEW k \in DOMAIN bus'.pending_
                   PROVE  bus'.pending_[k] \in OnBus(b)
        BY <2>3, <2>5 DEF OnBus
      <3> DEFINE r == Without(b.pending_, i)
      <3>1. k \in DOMAIN r /\ bus'.pending_[k] = r[k]
        BY <2>5
      <3> HIDE DEF r
      <3>2. \E j \in DOMAIN b.pending_ : r[k] = b.pending_[j]
        <4>1. IF k < i THEN k \in DOMAIN b.pending_ /\ r[k] = b.pending_[k]
                       ELSE k + 1 \in DOMAIN b.pending_ /\ r[k] = b.pending_[k + 1]
          BY <3>1, <2>2 DEF Removed, r
        <4> QED
          BY <4>1
      <3> QED
        BY <3>1, <3>2 DEF OnBus
    <2>7. QueueAttached(bus')
      BY <2>5, <2>6, <1>2, FewerOnBus DEF Attached
    <2>8. stack'[Len(stack')] = c
      BY <2>4, <1>0
    <2>9. CASE c.phase = "sof"
      <3>1. EntersNone
        BY <2>4, <2>8, <2>9 DEF EntersNone
      <3> QED
        BY <3>1, <2>7, <1>0, NoneEntered
    <2>10. CASE c.phase = "failing"
      <3>1. CalledNode(c) \in Attached(bus) \cup {External}
        BY <2>3, <2>4, <2>10, <1>2 DEF CalledNode, QueueAttached
      <3> QED
        BY <3>1, <2>7, <2>8 DEF EntersAttached
    <2> QED
      BY <2>4, <2>9, <2>10
  <1> QED
    BY <1>3, <1>4, <1>5

LEMMA StepAttached ==
    ASSUME IInv, IInv', QueueAttached(bus), [Next]_vars
    PROVE  [EntersAttached]_vars /\ QueueAttached(bus')
  <1>0. /\ stack \in Seq(Call) /\ stack' \in Seq(Call) /\ BusOK(bus) /\ now \in Time
        /\ bus \in Bus
    BY DEF IInv, TypeOK, BusOK
  <1>1. stack # <<>> => /\ Popped \in Seq(Call) /\ Len(Popped) < Len(stack)
                        /\ TopCall \in Call /\ TopCall.tx \in Transmission
                        /\ Len(stack) \in DOMAIN stack
    BY TopOK DEF CallsOK
  <1>2. ASSUME NEW tx \in Transmission, NEW todo, NEW owed, stack # <<>>,
               Deliver(Popped, bus, tx, todo, owed)
        PROVE  EntersAttached /\ QueueAttached(bus')
    BY <1>0, <1>1, <1>2, DeliverEnters
  <1>3. CASE ClientStep
    BY <1>3, ClientAttached
  <1>4. CASE SofReturns
    <2>1. stack # <<>>
      BY <1>4 DEF SofReturns
    <2>2. CASE bus.mode_ = "timed"
      <3>1. stack' = Popped /\ UNCHANGED bus
        BY <1>4, <2>2 DEF SofReturns
      <3>2. EntersNone
        BY <3>1, <2>1, <1>1 DEF EntersNone
      <3> QED
        BY <3>1, <3>2, <1>0, NoneEntered
    <2>3. CASE bus.mode_ # "timed"
      BY <1>1, <1>2, <1>4, <2>1, <2>3 DEF SofReturns
    <2> QED
      BY <2>2, <2>3
  <1>5. CASE TraceReturns
    <2> DEFINE c == TopCall
    <2>1. stack # <<>> /\ c.phase = "traced"
      BY <1>5 DEF TraceReturns
    <2>2. CASE Head(c.todo) \in Attached(bus)
      <3> DEFINE d == [c EXCEPT !.phase = "receiving", !.owed = @ \ {Head(c.todo)}]
      <3>1. stack' = [stack EXCEPT ![Len(stack)] = d] /\ UNCHANGED bus
        BY <1>5, <2>2 DEF TraceReturns
      <3>2. d.todo = c.todo /\ d.phase = "receiving"
        BY <1>1, <2>1 DEF Call
      <3> HIDE DEF d
      <3>3. stack'[Len(stack')] = d
        BY <3>1, <2>1, <1>0, <1>1
      <3>4. CalledNode(d) \in Attached(bus)
        BY <3>2, <2>2 DEF CalledNode
      <3> QED
        BY <3>1, <3>3, <3>4 DEF EntersAttached
    <2>3. CASE Head(c.todo) \notin Attached(bus)
      BY <1>1, <1>2, <1>5, <2>1, <2>3 DEF TraceReturns
    <2> QED
      BY <2>2, <2>3
  <1>6. CASE ReceiveReturns
    BY <1>1, <1>2, <1>6 DEF ReceiveReturns
  <1>7. CASE CompletionReturns
    <2>1. stack # <<>> /\ stack' = Popped /\ bus' = ScheduleArbitration(bus)
      BY <1>7 DEF CompletionReturns
    <2>2. EntersNone
      BY <2>1, <1>1 DEF EntersNone
    <2>3. QueueAttached(bus')
      BY <2>1, <1>0, ScheduledSame, FewerOnBus
    <2> QED
      BY <2>2, <2>3, <1>0, NoneEntered
  <1>8. ASSUME NEW e \in bus.events, CompletionEvent(e)
        PROVE  EntersAttached /\ QueueAttached(bus')
    <2> DEFINE b == [Fired(e) EXCEPT !.in_flight_ = {}, !.timed_state_ = "idle"]
               tx == CHOOSE t \in bus.in_flight_ : TRUE
    <2>1. e.run = "completion" /\ stack = <<>>
      BY <1>8 DEF CompletionEvent
    <2>2. /\ BusOK(b) /\ b.nodes_ = bus.nodes_ /\ b.pending_ = bus.pending_
          /\ b.in_flight_ = {} /\ bus.in_flight_ # {}
      BY <2>1, FiredOK
    <2>3. tx \in bus.in_flight_ /\ Deliver(<<>>, b, tx, Receivers(tx), Expected(tx))
      BY <1>8, <2>2 DEF CompletionEvent
    <2> HIDE DEF b, tx
    <2>4. tx \in Transmission
      BY <2>3, <1>0 DEF Bus
    <2>5. Attached(b) = Attached(bus) /\ OnBus(b) \subseteq OnBus(bus)
      BY <2>2 DEF Attached, OnBus
    <2>6. PICK below \in Seq(Call) : below = <<>>
      BY <1>0, <2>1
    <2> QED
      BY <2>2, <2>3, <2>4, <2>5, <2>6, DeliverEnters
  <1>9. CASE Advance \/ UNCHANGED vars
    <2>1. UNCHANGED <<bus, stack>>
      BY <1>9 DEF Advance, vars
    <2>2. EntersNone
      BY <2>1 DEF EntersNone
    <2> QED
      BY <2>1, <2>2, <1>0, NoneEntered
  <1>10. ASSUME NEW e \in bus.events, ArbitrationEvent(e)
         PROVE  EntersAttached /\ QueueAttached(bus')
    BY <1>10, ArbitrationAttached
  <1> QED
    BY <1>3, <1>4, <1>5, <1>6, <1>7, <1>8, <1>9, <1>10 DEF Next, BusStep

-----------------------------------------------------------------------------
(* The results.                                                            *)

(* The inductive invariant holds in every state of every behaviour of the  *)
(* bus.                                                                    *)
THEOREM BusInvariant == Spec => []IInv
  <1>1. Init => IInv
    BY InitIInv
  <1>2. IInv /\ [Next]_vars => IInv'
    BY NextIInv
  <1> QED
    BY <1>1, <1>2, PTL DEF Spec

(* timed_state_, in_flight_, timed_event_id_ and the armed events agree,   *)
(* in callbacks too: cancelSender, detach and a callback that submits      *)
(* again never leave a stale event or an idle bus with a queue.            *)
THEOREM TimedStateConsistent == Spec => []BusConsistent
  <1>1. IInv => BusConsistent
    <2> SUFFICES ASSUME IInv PROVE BusConsistent
      OBVIOUS
    <2>1. TypeOK /\ TimedOK(bus)
      BY DEF IInv, BusOK
    <2>2. bus.mode_ = "timed" /\ stack = <<>> /\ bus.pending_ # <<>>
             => bus.timed_state_ # "idle"
      BY DEF IInv, Awake
    <2>3. bus.timed_state_ = "in_flight" => Cardinality(bus.in_flight_) = 1
      <3>1. \A t : Cardinality({t}) = 1
        BY FS_Singleton
      <3> QED
        BY <2>1, <3>1, Zenon DEF TimedOK
    <2> QED
      BY <2>1, <2>2, <2>3 DEF BusConsistent, TimedOK
  <1> QED
    BY <1>1, BusInvariant, PTL

(* What senders and receivers rely on: frames in submission order, at most *)
(* one completion each and none for a cancelled frame, none missed by an   *)
(* attached node, and air time that never drifts.                          *)
THEOREM FramesAreExact == Spec => []FramesExact
  <1>1. IInv => FramesExact
    <2> SUFFICES ASSUME IInv PROVE FramesExact
      OBVIOUS
    <2>1. QueueOK(bus) /\ CallsOK(stack, bus, calls, fate)
      BY DEF IInv, BusOK, StackOK
    <2>2. SenderFifo
      BY <2>1 DEF SenderFifo, QueueOK, CallsOK, CallOK
    <2>3. AllReceive
      BY <2>1 DEF AllReceive, CallsOK, CallOK, ToReceive
    <2> QED
      BY <2>2, <2>3 DEF IInv, FramesExact, TimingOK
  <1> QED
    BY <1>1, BusInvariant, PTL
(* For any number of nodes, transmissions and nested calls: after a node   *)
(* has been detached the bus holds nothing of it, and enters neither its   *)
(* receive callback nor one of its completions.                            *)
THEOREM DetachEndsNode == Spec => DetachIsFinal
  <1> DEFINE I == IInv /\ QueueAttached(bus)
  <1>1. Init => I
    <2>1. Init => OnBus(bus) = {}
      BY DEF Init, OnBus
    <2> QED
      BY <2>1, InitIInv DEF QueueAttached
  <1>2. I /\ [Next]_vars => I' /\ [EntersAttached]_vars
    BY NextIInv, StepAttached
  <1>3. I' => (\A tx \in OnBus(bus)' : SenderAttached(tx)')
    BY DEF QueueAttached, SenderAttached
  <1>4. I /\ [Next]_vars =>
          I' /\ [/\ \A tx \in OnBus(bus)' : SenderAttached(tx)'
                 /\ CallbackBegins => CalledNode(stack'[Len(stack')])
                                         \in Attached(bus) \cup {External}]_vars
    BY <1>2, <1>3 DEF EntersAttached
  <1> HIDE DEF I
  <1> QED
    BY <1>1, <1>4, PTL DEF Spec, DetachIsFinal

=============================================================================
