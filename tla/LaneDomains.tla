---------------------------- MODULE LaneDomains ----------------------------
(***************************************************************************)
(* Lane-domain sessions of EventLoop.  While a world runs its boards in    *)
(* parallel the loop is split: every owner below a count gets a store, a   *)
(* clock, a range of sequence numbers and a range of event ids of its own, *)
(* and a worker inside a lane scope touches nothing else.  Closing the     *)
(* session merges the stores back into the root.  EventLoop models what    *)
(* one store does; here a store is the set of its live events.             *)
(***************************************************************************)
EXTENDS Integers, Sequences, FiniteSets

CONSTANTS
    LaneOwners,       \* owners 0 .. n-1
    Partition,        \* sequence_partition: 2^56 sequence numbers per lane
    Delays,           \* delays of scheduled events
    MaxLive,          \* bound: live events
    MaxBorn,          \* bound: events scheduled in a behaviour
    MaxTime           \* bound: simulated time

ASSUME LaneDomainsAssumption ==
    /\ IsFiniteSet(LaneOwners)
    /\ LaneOwners = 0..(Cardinality(LaneOwners) - 1) /\ LaneOwners # {}
    /\ Partition \in Nat \ {0} /\ MaxBorn < Partition
    /\ Delays \subseteq Nat /\ MaxTime \in Nat

VARIABLES
    dom,      \* the loop: the root, its lane domains and the session
    born      \* history: events scheduled, callbacks run and the ids still owed

LaneDomainsVars == <<dom, born>>

Shared == -1
NoClock == -1

(* owner, time and sequence decide dispatch; nth is history (the order in  *)
(* which events were scheduled).  An id names its allocator and counter.   *)
Entry(id, owner, at, seq, nth) ==
    [id |-> id, owner |-> owner, at |-> at, seq |-> seq, nth |-> nth]

EmptyDomain == [live |-> {}, shared |-> 0, clock |-> NoClock, seq |-> 0, nextId |-> 1, ran |-> 0]

LaneDomainsInit ==
    /\ dom = [root |-> {}, nextId |-> 1, seq |-> 0, ran |-> 0, now |-> 0,
              clock |-> [o \in LaneOwners |-> NoClock],
              laneIds |-> [o \in LaneOwners |-> 1],
              lanes |-> [o \in LaneOwners |-> EmptyDomain], count |-> 0,
              baseline |-> 0, open |-> FALSE, orphaned |-> FALSE, scopes |-> {}]
    /\ born = [n |-> 0, ran |-> 0, owed |-> {}, outOfOrder |-> FALSE]

Split(d) == {o \in LaneOwners : o < d.count}
Later(a, b) == IF a > b THEN a ELSE b

(* timeFor: an owner's clock never reads behind the shared clock. *)
LaneNow(lane) == Later(lane.clock, lane.shared)
OwnerNow(d, o) == IF o = Shared THEN d.now
                  ELSE IF d.open /\ o \in Split(d) THEN LaneNow(d.lanes[o])
                  ELSE Later(d.clock[o], d.now)

-----------------------------------------------------------------------------
(* beginLaneDomains: live events move to the store of their owner; a lane  *)
(* continues its owner's clock and id counter and numbers from its range.  *)
BeginLaneDomains(d, count) ==
    [d EXCEPT
        !.open = TRUE, !.orphaned = FALSE, !.count = count, !.baseline = d.ran,
        !.root = {e \in d.root : e.owner \notin 0..(count - 1)},
        !.lanes = [o \in LaneOwners |->
            IF o >= count THEN EmptyDomain
            ELSE [live |-> {e \in d.root : e.owner = o}, shared |-> d.now,
                  clock |-> d.clock[o], seq |-> d.seq + (o + 1) * Partition,
                  nextId |-> d.laneIds[o], ran |-> d.ran]]]

Live(d) == d.root \cup UNION {d.lanes[o].live : o \in Split(d)}

(* Seeded fault: the merge renumbers by time instead of by sequence.       *)
RenumberedByTime(live) ==
    {[e EXCEPT !.seq = Cardinality({f \in live : f.at > e.at \/ (f.at = e.at /\ f.seq > e.seq)})] :
     e \in live}

(* The merge sorts by sequence and renumbers from zero. *)
Renumbered(live) ==
    {[e EXCEPT !.seq = Cardinality({f \in live : f.seq < e.seq})] : e \in live}

(* executedCallbacks: every lane counts on from the baseline of the split, *)
(* and only the callbacks it ran since then are added to the root's.       *)
LaneCallbacks(d) == UNION {{o} \X (d.baseline .. (d.lanes[o].ran - 1)) : o \in Split(d)}
ExecutedCallbacks(d) == d.ran + Cardinality(LaneCallbacks(d))

(* finishLaneDomains: stores, clocks, id counters and callback counts are  *)
(* merged; sequence numbers start again above the merged events.           *)
FinishLaneDomains(d) ==
    LET live == Live(d)
    IN  [d EXCEPT
            !.root = Renumbered(live), !.seq = Cardinality(live),
            !.ran = ExecutedCallbacks(d),
            !.clock = [o \in LaneOwners |-> IF o \in Split(d) THEN d.lanes[o].clock ELSE @[o]],
            !.laneIds = [o \in LaneOwners |-> IF o \in Split(d) THEN d.lanes[o].nextId ELSE @[o]],
            !.lanes = [o \in LaneOwners |-> EmptyDomain],
            !.count = 0, !.open = FALSE, !.orphaned = FALSE]

(* resolvedImpl: an operation on the root first completes a close that     *)
(* failed, and is refused while a worker is inside a lane scope.           *)
Resolved(d) == IF d.orphaned THEN FinishLaneDomains(d) ELSE d
RootMay(d) == d.scopes = {}

-----------------------------------------------------------------------------
(* schedule on the store that owns the event. *)
ScheduleOn(d, o, delay) ==
    LET at == OwnerNow(d, o) + delay
    IN  IF o # Shared /\ d.open /\ o \in Split(d)
        THEN [d EXCEPT !.lanes[o].live = @ \cup
                  {Entry(<<o, d.lanes[o].nextId>>, o, at, d.lanes[o].seq, born.n)},
                       !.lanes[o].nextId = @ + 1, !.lanes[o].seq = @ + 1]
        ELSE [d EXCEPT !.root = @ \cup {Entry(<<Shared, d.nextId>>, o, at, d.seq, born.n)},
                       !.nextId = @ + 1, !.seq = @ + 1]

Fresh(d, e) == Live(e) \ Live(d)
Bounded(d, o) == born.n < MaxBorn /\ Cardinality(Live(d)) < MaxLive /\ OwnerNow(d, o) < MaxTime

Schedule(d, o, delay) ==
    LET after == ScheduleOn(d, o, delay)
    IN  /\ Bounded(d, o) /\ dom' = after
        /\ born' = [born EXCEPT !.n = @ + 1, !.owed = @ \cup {e.id : e \in Fresh(d, after)}]

Without(d, e) ==
    [d EXCEPT !.root = @ \ {e},
              !.lanes = [o \in LaneOwners |-> [d.lanes[o] EXCEPT !.live = @ \ {e}]]]

(* invoke: the store's least (time, sequence) entry of an owner runs.      *)
NextOf(live, o) ==
    {e \in live : e.owner = o /\ \A f \in live : f.owner = o =>
        e.at < f.at \/ (e.at = f.at /\ e.seq <= f.seq)}

Ran(e, live) ==
    [born EXCEPT !.ran = @ + 1, !.owed = @ \ {e.id},
        !.outOfOrder = @ \/ \E f \in live : f.owner = e.owner
            /\ (f.at < e.at \/ (f.at = e.at /\ f.nth < e.nth))]

-----------------------------------------------------------------------------
(* The coordinator. *)
OpenSession(count) ==
    /\ RootMay(dom) /\ (~dom.open \/ dom.orphaned) /\ Resolved(dom).seq < Partition
    /\ dom' = BeginLaneDomains(Resolved(dom), count) /\ UNCHANGED born

CloseSession == dom.open /\ RootMay(dom) /\ dom' = FinishLaneDomains(dom) /\ UNCHANGED born

(* The destructor of LaneDomainsScope when close() throws: a worker is     *)
(* still inside a lane scope, or the merge could not allocate.             *)
OrphanSession ==
    /\ dom.open /\ ~dom.orphaned
    /\ dom' = [dom EXCEPT !.orphaned = TRUE] /\ UNCHANGED born

RootSchedule(o, delay) ==
    /\ RootMay(dom) /\ Schedule(Resolved(dom), o, delay)

RootCancel ==
    \E e \in Live(Resolved(dom)) :
        /\ RootMay(dom) /\ dom' = Without(Resolved(dom), e)
        /\ born' = [born EXCEPT !.owed = @ \ {e.id}]

(* runSharedEvents on a split loop, one callback or the final setTime; the *)
(* lanes then see the shared clock.                                        *)
SharedStep(d, at, ran) ==
    [d EXCEPT !.now = at, !.ran = @ + ran,
        !.lanes = [o \in LaneOwners |->
            IF d.open /\ o \in Split(d) THEN [d.lanes[o] EXCEPT !.shared = at] ELSE @[o]]]

SharedRun ==
    LET d == Resolved(dom)
    IN  /\ RootMay(dom)
        /\ \E e \in NextOf(d.root, Shared) :
             /\ dom' = SharedStep(Without(d, e), Later(e.at, d.now), 1)
             /\ born' = Ran(e, Live(d))

SharedPass(at) ==
    LET d == Resolved(dom)
    IN  /\ RootMay(dom) /\ at > d.now /\ \A e \in NextOf(d.root, Shared) : e.at > at
        /\ dom' = SharedStep(d, at, 0) /\ UNCHANGED born

(* runDueEvents on an unsplit loop dispatches every owner's events; it is  *)
(* refused while a session is open.                                        *)
GlobalRun ==
    LET d == Resolved(dom)
    IN  /\ RootMay(dom) /\ ~d.open
        /\ \E e \in {e \in d.root : \A f \in d.root :
                       e.at < f.at \/ (e.at = f.at /\ e.seq <= f.seq)} :
             /\ dom' = [Without(d, e) EXCEPT !.now = Later(e.at, d.now), !.ran = @ + 1]
             /\ born' = Ran(e, d.root)

(* A worker inside its lane scope. *)
EnterLane(o) ==
    /\ dom.open /\ o \in Split(dom) /\ o \notin dom.scopes
    /\ dom' = [dom EXCEPT !.scopes = @ \cup {o},
                          !.lanes[o].shared = Later(@, dom.now)]
    /\ UNCHANGED born

LeaveLane(o) == o \in dom.scopes /\ dom' = [dom EXCEPT !.scopes = @ \ {o}] /\ UNCHANGED born

LaneSchedule(o, delay) == o \in dom.scopes /\ Schedule(dom, o, delay)

LaneCancel(o) ==
    \E e \in dom.lanes[o].live :
        /\ o \in dom.scopes /\ dom' = Without(dom, e)
        /\ born' = [born EXCEPT !.owed = @ \ {e.id}]

LaneRun(o) ==
    \E e \in NextOf(dom.lanes[o].live, o) :
        /\ o \in dom.scopes
        /\ dom' = [Without(dom, e) EXCEPT !.lanes[o].clock = Later(e.at, LaneNow(dom.lanes[o])),
                                          !.lanes[o].ran = @ + 1]
        /\ born' = Ran(e, dom.lanes[o].live)

LanePass(o, at) ==
    /\ o \in dom.scopes /\ at > LaneNow(dom.lanes[o])
    /\ \A e \in NextOf(dom.lanes[o].live, o) : e.at > at
    /\ dom' = [dom EXCEPT !.lanes[o].clock = at] /\ UNCHANGED born

LaneDomainsNext ==
    \/ \E count \in 1..Cardinality(LaneOwners) : OpenSession(count)
    \/ CloseSession \/ OrphanSession \/ RootCancel \/ SharedRun \/ GlobalRun
    \/ \E o \in LaneOwners \cup {Shared}, delay \in Delays : RootSchedule(o, delay)
    \/ \E at \in 1..MaxTime : SharedPass(at)
    \/ \E o \in LaneOwners :
          \/ EnterLane(o) \/ LeaveLane(o) \/ LaneCancel(o) \/ LaneRun(o)
          \/ \E delay \in Delays : LaneSchedule(o, delay)
          \/ \E at \in 1..MaxTime : LanePass(o, at)

-----------------------------------------------------------------------------
(* Splitting and merging, closing that fails and is retried: no event is   *)
(* lost, duplicated or revived, handles stay unique, an owner's events     *)
(* keep the (time, scheduling) order they would have had in one store, and *)
(* the callbacks of every lane are counted once.                           *)
LaneDomainsExact ==
    LET live == Live(dom)
    IN  /\ {e.id : e \in live} = born.owed /\ Cardinality(live) = Cardinality(born.owed)
        /\ \A o \in Split(dom) : /\ \A e \in dom.lanes[o].live : e.owner = o
                                 /\ \A e \in dom.root : e.owner # o
        /\ \A e, f \in live : e.owner = f.owner /\ e.nth < f.nth => e.seq < f.seq
        /\ ~born.outOfOrder
        /\ born.ran = ExecutedCallbacks(dom)
=============================================================================
