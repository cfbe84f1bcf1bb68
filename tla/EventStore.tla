----------------------------- MODULE EventStore -----------------------------
(***************************************************************************)
(* The event storage of one EventLoop::Impl as a value, and the operations *)
(* that change it: recycled slots with a LIFO free list, the live_events   *)
(* index, and three priority queues whose dead entries are dropped only    *)
(* when they reach the front.  Slots are numbered from 1.  A priority      *)
(* queue is the set of its entries.                                        *)
(***************************************************************************)
EXTENDS Integers, Sequences

CONSTANTS Owners,      \* event owners other than the shared domain
          Shared,      \* shared_event_owner
          Handles,     \* the ScheduledEvent objects of the clients
          NoHandle,    \* marks a callback that belongs to no ScheduledEvent
          MaxTime,     \* largest SimTimeNs (numeric_limits<SimTimeNs>::max())
          MaxId        \* largest identifier allocateId hands out

ASSUME SharedAssumption == Shared \notin Owners
ASSUME HandleAssumption == NoHandle \notin Handles
ASSUME BoundAssumption == MaxTime \in Nat /\ MaxId \in Nat

EventOwner == Owners \cup {Shared}
Time == 0..MaxTime
EventId == 1..MaxId
Binding == Handles \cup {NoHandle}

Slot == [state : {"free", "queued"}, id : EventId, at : Time, sequence : Nat,
         owner : EventOwner, observed : BOOLEAN, handle : Binding]

Entry == [at : Time, sequence : Nat, slot : Nat, id : EventId]

Store == [slots : Seq(Slot), free_slots : Seq(Nat),
          live_events : [EventId -> Nat],
          events : SUBSET Entry,
          owner_events : [EventOwner -> SUBSET Entry],
          globally_observed_events : SUBSET Entry,
          next_id : Nat, next_sequence : Nat]

(* live_events maps an identifier to its slot, to 0 when it is not in the  *)
(* map.                                                                    *)
NoEvents == [i \in EventId |-> 0]

EmptyStore ==
    [slots |-> <<>>, free_slots |-> <<>>, live_events |-> NoEvents,
     events |-> {}, owner_events |-> [o \in EventOwner |-> {}],
     globally_observed_events |-> {}, next_id |-> 1, next_sequence |-> 0]

-----------------------------------------------------------------------------
(* Queues. *)

(* Later, read the other way round. *)
Before(e, f) ==
    \/ e.at < f.at
    \/ e.at = f.at /\ e.sequence < f.sequence

(* Seeded fault: the stored identifier is not compared. *)
EntryLive_AnyUse(slots, e) ==
    e.slot \in 1..Len(slots) /\ slots[e.slot].state = "queued"

EntryLive(slots, e) ==
    /\ e.slot \in 1..Len(slots)
    /\ slots[e.slot].state = "queued"
    /\ slots[e.slot].id = e.id

(* Seeded fault: the front is looked at without dropping dead entries. *)
DiscardDeadFront_Kept(slots, queue) == queue

(* Dead entries are popped until the top is live: an entry stays when some *)
(* live entry does not come after it.                                      *)
DiscardDeadFront(slots, queue) ==
    {e \in queue : \E l \in queue : EntryLive(slots, l) /\ ~Before(e, l)}

(* Seeded fault: equal times run last in, first out. *)
Top_LastIn(queue) ==
    CHOOSE e \in queue : \A f \in queue \ {e} :
        e.at < f.at \/ (e.at = f.at /\ e.sequence > f.sequence)

Top(queue) == CHOOSE e \in queue : \A f \in queue \ {e} : Before(e, f)

EntryOf(slots, i) ==
    [at |-> slots[i].at, sequence |-> slots[i].sequence, slot |-> i,
     id |-> slots[i].id]

-----------------------------------------------------------------------------
(* Operations. *)
Live(s) == {id \in EventId : s.live_events[id] # 0}

LiveSlot(s, id) == s.slots[s.live_events[id]]

(* releaseSlot, or its inline copy in invoke, and what both callers do     *)
(* next: the event leaves the index and, when it was at its front, the     *)
(* observation queue; its other entries stay behind, dead.                 *)
Retire(s, i, id) ==
    LET slots == [s.slots EXCEPT ![i].state = "free"]
    IN  [s EXCEPT !.slots = slots,
                  !.free_slots = Append(@, i),
                  !.live_events = [@ EXCEPT ![id] = 0],
                  !.globally_observed_events = DiscardDeadFront(slots, @)]

(* An identifier that is not live, 0 included, is ignored. *)
CancelId(s, id) == 
    IF id \in Live(s) THEN Retire(s, s.live_events[id], id) ELSE s

CanAllocate(s) == s.next_id <= MaxId

(* The free list is a stack; a new slot is appended when it is empty. *)
AcquiredSlot(s) ==
    IF s.free_slots # <<>> THEN s.free_slots[Len(s.free_slots)]
                           ELSE Len(s.slots) + 1

FreeAfterAcquire(s) ==
    IF s.free_slots # <<>> THEN SubSeq(s.free_slots, 1, Len(s.free_slots) - 1)
                           ELSE s.free_slots

NewSlot(s, at, owner, local, handle) ==
    [state |-> "queued", id |-> s.next_id, at |-> at,
     sequence |-> s.next_sequence, owner |-> owner,
     observed |-> ~local \/ owner = Shared, handle |-> handle]

SlotsAfterAcquire(s, new) ==
    IF s.free_slots # <<>> THEN [s.slots EXCEPT ![AcquiredSlot(s)] = new]
                           ELSE Append(s.slots, new)

Insert(s, at, owner, local, handle) ==
    LET new   == NewSlot(s, at, owner, local, handle)
        index == AcquiredSlot(s)
        slots == SlotsAfterAcquire(s, new)
        entry == [at |-> at, sequence |-> s.next_sequence, slot |-> index,
                  id |-> s.next_id]
    IN  [slots |-> slots,
         free_slots |-> FreeAfterAcquire(s),
         live_events |-> [s.live_events EXCEPT ![s.next_id] = index],
         events |-> s.events \cup {entry},
         owner_events |->
             [s.owner_events EXCEPT
                ![owner] = DiscardDeadFront(slots, @) \cup {entry}],
         globally_observed_events |->
             IF new.observed THEN s.globally_observed_events \cup {entry}
                             ELSE s.globally_observed_events,
         next_id |-> s.next_id + 1,
         next_sequence |-> s.next_sequence + 1]

ClearStore(s) ==
    [s EXCEPT !.slots = [i \in 1..Len(s.slots) |->
                          [s.slots[i] EXCEPT !.state = "free"]],
              !.free_slots = [i \in 1..Len(s.slots) |-> i],
              !.live_events = NoEvents,
              !.events = {},
              !.owner_events = [o \in EventOwner |-> {}],
              !.globally_observed_events = {}]

(* Looking at the front of a queue drops its dead entries. *)
SettleEvents(s) == [s EXCEPT !.events = DiscardDeadFront(s.slots, @)]

SettleOwner(s, owner) ==
    [s EXCEPT !.owner_events[owner] = DiscardDeadFront(s.slots, @)]

SettleObserved(s) ==
    [s EXCEPT !.globally_observed_events = DiscardDeadFront(s.slots, @)]

PopEvents(s, e) == [s EXCEPT !.events = @ \ {e}]

PopOwner(s, owner, e) ==
    [s EXCEPT !.owner_events[owner] = @ \ {e}]
-----------------------------------------------------------------------------
(* What the storage must satisfy between operations. *)

(* Every entry anywhere in the three queues. *)
Entries(s) ==
    s.events \cup s.globally_observed_events
        \cup UNION {s.owner_events[o] : o \in EventOwner}

(* live_events and the queued slots name each other. *)
IndexExact(s) ==
    /\ \A id \in Live(s) :
          /\ s.live_events[id] \in 1..Len(s.slots)
          /\ LiveSlot(s, id).state = "queued"
          /\ LiveSlot(s, id).id = id
    /\ \A i \in 1..Len(s.slots) :
          s.slots[i].state = "queued" =>
              s.slots[i].id \in Live(s) /\ s.live_events[s.slots[i].id] = i

(* The free list holds every free slot, and no slot twice. *)
FreeListExact(s) ==
    /\ \A k \in 1..Len(s.free_slots) :
          /\ s.free_slots[k] \in 1..Len(s.slots)
          /\ s.slots[s.free_slots[k]].state = "free"
    /\ \A i \in 1..Len(s.slots) :
          s.slots[i].state = "free" =>
              \E k \in 1..Len(s.free_slots) : s.free_slots[k] = i
    /\ \A k, l \in 1..Len(s.free_slots) :
          s.free_slots[k] = s.free_slots[l] => k = l

(* A queued slot has its entry in every queue that must see it. *)
QueuesComplete(s) ==
    \A i \in 1..Len(s.slots) :
        s.slots[i].state = "queued" =>
            /\ EntryOf(s.slots, i) \in s.events
            /\ EntryOf(s.slots, i) \in s.owner_events[s.slots[i].owner]
            /\ s.slots[i].observed =>
                  EntryOf(s.slots, i) \in s.globally_observed_events

(* An entry left behind by an earlier use of its slot is never taken for   *)
(* the event that uses the slot now.                                       *)
QueuesSound(s) ==
    /\ \A e \in Entries(s) :
          EntryLive(s.slots, e) => e = EntryOf(s.slots, e.slot)
    /\ \A o \in EventOwner : \A e \in s.owner_events[o] :
          EntryLive(s.slots, e) => s.slots[e.slot].owner = o
    /\ \A e \in s.globally_observed_events :
          EntryLive(s.slots, e) => s.slots[e.slot].observed

(* Identifiers and sequence numbers in use are behind the allocators, and  *)
(* a sequence number belongs to one entry, dead or alive.                  *)
NumbersFresh(s) ==
    /\ \A e \in Entries(s) : e.id < s.next_id /\ e.sequence < s.next_sequence
    /\ \A e, f \in Entries(s) : e.sequence = f.sequence => e = f
    /\ \A i \in 1..Len(s.slots) : s.slots[i].id < s.next_id
    /\ s.next_id <= MaxId + 1
    /\ s.next_sequence < s.next_id

StoreConsistent(s) ==
    /\ IndexExact(s)
    /\ FreeListExact(s)
    /\ QueuesComplete(s)
    /\ QueuesSound(s)
    /\ NumbersFresh(s)
=============================================================================
