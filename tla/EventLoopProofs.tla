--------------------------- MODULE EventLoopProofs ---------------------------
(***************************************************************************)
(* Theorems about EventLoop for any owners, handles, bounds and clients.   *)
(* The first part is about the storage as a value: its operations keep it  *)
(* consistent, and the front of a cleaned queue is its first live event.   *)
(* The second part applies that to the steps of the loop.                  *)
(***************************************************************************)
EXTENDS MCEventLoop, TLAPS, WellFoundedInduction, SequenceTheorems

-----------------------------------------------------------------------------
(* The storage *)

StoreOK(s) == s \in Store /\ StoreConsistent(s)

(* The empty storage of a new loop is consistent. *)
LEMMA EmptyOK == StoreOK(EmptyStore)
<1>1. EmptyStore \in Store
  BY BoundAssumption DEF EmptyStore, Store, NoEvents, EventOwner
<1>2. IndexExact(EmptyStore) /\ FreeListExact(EmptyStore)
        /\ QueuesComplete(EmptyStore)
  BY DEF EmptyStore, NoEvents, IndexExact, FreeListExact, QueuesComplete, Live
<1>3. Entries(EmptyStore) = {}
  BY DEF EmptyStore, Entries
<1>4. /\ EmptyStore.slots = <<>>
      /\ EmptyStore.globally_observed_events = {}
      /\ EmptyStore.owner_events = [o \in EventOwner |-> {}]
      /\ EmptyStore.next_id = 1
      /\ EmptyStore.next_sequence = 0
  BY DEF EmptyStore
<1>5. QueuesSound(EmptyStore)
  BY <1>3, <1>4 DEF QueuesSound
<1>6. NumbersFresh(EmptyStore)
  BY <1>3, <1>4, BoundAssumption DEF NumbersFresh
<1> QED BY <1>1, <1>2, <1>5, <1>6 DEF StoreOK, StoreConsistent

(* Cleaning the front of a queue keeps every live entry. *)
LEMMA DiscardKeepsLive ==
    ASSUME NEW slots, NEW queue \in SUBSET Entry,
           NEW e \in queue, EntryLive(slots, e)
    PROVE  e \in DiscardDeadFront(slots, queue)
BY DEF DiscardDeadFront, Before, Entry, Time

(* Cleaning only removes. *)
LEMMA DiscardSubset ==
    ASSUME NEW slots, NEW queue
    PROVE  DiscardDeadFront(slots, queue) \subseteq queue
BY DEF DiscardDeadFront

(* Every non-empty set of natural numbers has a least element. *)
LEMMA LeastNatural ==
    ASSUME NEW T \in SUBSET Nat, T # {}
    PROVE  \E x \in T : \A y \in T : x <= y
<1>1. PICK x \in T : \A y \in T : ~(<<y, x>> \in OpToRel(<, Nat))
  BY WFMin, NatLessThanWellFounded
<1>2. ASSUME NEW y \in T PROVE x <= y
  <2>1. <<y, x>> \in Nat \X Nat /\ <<y, x>>[1] = y /\ <<y, x>>[2] = x
    OBVIOUS
  <2>2. y < x => <<y, x>> \in OpToRel(<, Nat)
    BY <2>1, Zenon DEF OpToRel
  <2>3. ~(y < x)
    BY <1>1, <2>2, Zenon
  <2> QED BY <2>3
<1> QED BY <1>2

(* The front of a queue whose entries have distinct sequence numbers comes *)
(* before all the others.                                                  *)
LEMMA TopIsFirst ==
    ASSUME NEW queue \in SUBSET Entry, queue # {},
           \A e, f \in queue : e.sequence = f.sequence => e = f
    PROVE  /\ Top(queue) \in queue
           /\ \A f \in queue \ {Top(queue)} : Before(Top(queue), f)
<1> DEFINE times == {e.at : e \in queue}
<1>1. times \in SUBSET Nat /\ times # {}
  BY DEF Entry, Time
<1>2. PICK t \in times : \A u \in times : t <= u
  BY <1>1, LeastNatural
<1> DEFINE now == {e \in queue : e.at = t}
           numbers == {e.sequence : e \in now}
<1>3. numbers \in SUBSET Nat /\ numbers # {}
  BY <1>2 DEF Entry
<1>4. PICK n \in numbers : \A k \in numbers : n <= k
  BY <1>3, LeastNatural
<1>5. PICK e \in now : e.sequence = n
  BY <1>4
<1>6. ASSUME NEW f \in queue \ {e} PROVE Before(e, f)
  <2>1. e \in queue /\ e.at = t /\ t <= f.at /\ e.at \in Nat /\ f.at \in Nat
          /\ e.sequence \in Nat /\ f.sequence \in Nat
    BY <1>2, <1>5 DEF Entry, Time
  <2>2. f.at = t => n <= f.sequence
    BY <1>4
  <2>3. e.sequence # f.sequence
    BY <2>1
  <2> QED BY <2>1, <2>2, <2>3, <1>5 DEF Before
<1>7. \E x \in queue : \A f \in queue \ {x} : Before(x, f)
  BY <1>5, <1>6
<1> QED BY <1>7 DEF Top

(* Replacing one element of a sequence. *)
LEMMA SeqUpdate ==
    ASSUME NEW T, NEW q \in Seq(T), NEW i \in 1..Len(q), NEW v \in T
    PROVE  LET u == [q EXCEPT ![i] = v]
           IN  /\ u \in Seq(T) /\ Len(u) = Len(q) /\ u[i] = v
               /\ \A j \in 1..Len(q) \ {i} : u[j] = q[j]
OBVIOUS

LEMMA SeqElement ==
    ASSUME NEW T, NEW q \in Seq(T), NEW j \in 1..Len(q)
    PROVE  q[j] \in T
OBVIOUS

-----------------------------------------------------------------------------
(* Everything but that the queues hold the entry of slot i: the state      *)
(* between popping an entry and releasing its slot.                        *)
ConsistentBut(s, i) ==
    /\ s \in Store
    /\ IndexExact(s)
    /\ FreeListExact(s)
    /\ \A j \in 1..Len(s.slots) \ {i} :
          s.slots[j].state = "queued" =>
            /\ EntryOf(s.slots, j) \in s.events
            /\ EntryOf(s.slots, j) \in s.owner_events[s.slots[j].owner]
            /\ s.slots[j].observed =>
                  EntryOf(s.slots, j) \in s.globally_observed_events
    /\ QueuesSound(s)
    /\ NumbersFresh(s)

LEMMA OKIsConsistentBut ==
    ASSUME NEW s, StoreOK(s), NEW i PROVE ConsistentBut(s, i)
BY DEF StoreOK, StoreConsistent, ConsistentBut, QueuesComplete

(* Retiring an event takes it, and nothing else, out of the live events:   *)
(* both cancelId and the release in invoke keep the storage consistent.    *)
LEMMA RetireOK ==
    ASSUME NEW s, NEW i \in 1..Len(s.slots), ConsistentBut(s, i),
           s.slots[i].state = "queued"
    PROVE  LET id == s.slots[i].id
               r  == Retire(s, i, id)
           IN  /\ StoreOK(r)
               /\ Live(r) = Live(s) \ {id}
               /\ \A k \in Live(r) : LiveSlot(r, k) = LiveSlot(s, k)
               /\ r.next_id = s.next_id
<1> DEFINE id == s.slots[i].id
           r  == Retire(s, i, id)
           sl == [s.slots EXCEPT ![i].state = "free"]
<1>s. /\ s \in Store /\ s.slots \in Seq(Slot) /\ s.free_slots \in Seq(Nat)
      /\ s.live_events \in [EventId -> Nat]
      /\ s.owner_events \in [EventOwner -> SUBSET Entry]
      /\ s.events \in SUBSET Entry
      /\ s.globally_observed_events \in SUBSET Entry
      /\ s.next_id \in Nat /\ s.next_sequence \in Nat
  BY DEF ConsistentBut, Store
<1> HIDE DEF r, sl
<1>i1. s.slots[i] \in Slot
  BY <1>s
<1>i. /\ id \in EventId /\ id \in Live(s) /\ s.live_events[id] = i
      /\ s.slots[i] \in Slot
  BY <1>i1 DEF ConsistentBut, IndexExact, Slot
<1>sl. /\ sl \in Seq(Slot)
       /\ Len(sl) = Len(s.slots)
       /\ sl[i].state = "free" /\ sl[i].id = id
       /\ \A j \in 1..Len(s.slots) \ {i} : sl[j] = s.slots[j]
       /\ \A j \in 1..Len(s.slots) : sl[j].id = s.slots[j].id
  <2>1. [s.slots[i] EXCEPT !.state = "free"] \in Slot
    BY <1>i DEF Slot
  <2>2. sl = [s.slots EXCEPT ![i] = [s.slots[i] EXCEPT !.state = "free"]]
    BY DEF sl
  <2>3. /\ sl \in Seq(Slot) /\ Len(sl) = Len(s.slots)
        /\ sl[i] = [s.slots[i] EXCEPT !.state = "free"]
        /\ \A j \in 1..Len(s.slots) \ {i} : sl[j] = s.slots[j]
    BY <2>1, <2>2, <1>s, SeqUpdate
  <2>4. sl[i].state = "free" /\ sl[i].id = id
    BY <2>3, <1>i DEF Slot
  <2> QED BY <2>3, <2>4
<1>f. /\ r.slots = sl /\ r.free_slots = Append(s.free_slots, i)
      /\ r.live_events = [s.live_events EXCEPT ![id] = 0]
      /\ r.events = s.events /\ r.owner_events = s.owner_events
      /\ r.globally_observed_events =
            DiscardDeadFront(sl, s.globally_observed_events)
      /\ r.next_id = s.next_id /\ r.next_sequence = s.next_sequence
  BY <1>s DEF r, sl, Retire, Store
<1>t. r \in Store
  <2>1. DiscardDeadFront(sl, s.globally_observed_events) \in SUBSET Entry
    BY <1>s, DiscardSubset
  <2>2. Append(s.free_slots, i) \in Seq(Nat)
    BY <1>s
  <2>3. [s.live_events EXCEPT ![id] = 0] \in [EventId -> Nat]
    BY <1>s
  <2> QED BY <1>s, <1>sl, <2>1, <2>2, <2>3 DEF r, sl, Retire, Store
<1>l. /\ Live(r) = Live(s) \ {id}
      /\ \A k \in Live(r) : r.live_events[k] = s.live_events[k]
  BY <1>f, <1>s, <1>i DEF Live
<1>d. \A k \in Live(r) : s.live_events[k] \in 1..Len(s.slots) \ {i}
                            /\ s.slots[s.live_events[k]].id = k
  BY <1>l, <1>i DEF ConsistentBut, IndexExact, LiveSlot
<1>ls. \A k \in Live(r) : LiveSlot(r, k) = LiveSlot(s, k)
  BY <1>l, <1>d, <1>f, <1>sl DEF LiveSlot
<1>1. IndexExact(r)
  <2>1. ASSUME NEW k \in Live(r)
        PROVE  /\ r.live_events[k] \in 1..Len(r.slots)
               /\ LiveSlot(r, k).state = "queued"
               /\ LiveSlot(r, k).id = k
    BY <1>l, <1>d, <1>ls, <1>f, <1>sl DEF ConsistentBut, IndexExact
  <2>2. ASSUME NEW j \in 1..Len(r.slots), r.slots[j].state = "queued"
        PROVE  r.slots[j].id \in Live(r) /\ r.live_events[r.slots[j].id] = j
    <3>1. j # i /\ j \in 1..Len(s.slots) /\ r.slots[j] = s.slots[j]
      BY <2>2, <1>f, <1>sl
    <3>2. s.slots[j].id \in Live(s) /\ s.live_events[s.slots[j].id] = j
      BY <2>2, <3>1 DEF ConsistentBut, IndexExact
    <3>3. s.slots[j].id # id
      BY <3>1, <3>2, <1>i
    <3> QED BY <3>1, <3>2, <3>3, <1>l
  <2> QED BY <2>1, <2>2 DEF IndexExact
<1>2. FreeListExact(r)
  <2> DEFINE n == Len(s.free_slots)
  <2>1. /\ Len(r.free_slots) = n + 1
        /\ \A k \in 1..n : r.free_slots[k] = s.free_slots[k]
        /\ r.free_slots[n + 1] = i
        /\ n \in Nat
        /\ 1..Len(r.free_slots) = (1..n) \cup {n + 1}
    BY <1>f, <1>s
  <2>2. \A k \in 1..n : /\ s.free_slots[k] \in 1..Len(s.slots)
                        /\ s.slots[s.free_slots[k]].state = "free"
                        /\ s.free_slots[k] # i
    BY DEF ConsistentBut, FreeListExact
  <2>u. \A k, l \in 1..n : s.free_slots[k] = s.free_slots[l] => k = l
    BY DEF ConsistentBut, FreeListExact
  <2>c. \A j \in 1..Len(s.slots) : s.slots[j].state = "free" =>
          \E k \in 1..n : s.free_slots[k] = j
    BY DEF ConsistentBut, FreeListExact
  <2> HIDE DEF n
  <2>3. \A k \in 1..Len(r.free_slots) :
          /\ r.free_slots[k] \in 1..Len(r.slots)
          /\ r.slots[r.free_slots[k]].state = "free"
    BY <2>1, <2>2, <1>f, <1>sl
  <2>4. \A j \in 1..Len(r.slots) :
          r.slots[j].state = "free" =>
              \E k \in 1..Len(r.free_slots) : r.free_slots[k] = j
    <3> SUFFICES ASSUME NEW j \in 1..Len(r.slots), r.slots[j].state = "free"
                 PROVE  \E k \in 1..Len(r.free_slots) : r.free_slots[k] = j
      OBVIOUS
    <3>1. CASE j = i
      BY <3>1, <2>1
    <3>2. CASE j # i
      <4>1. \E k \in 1..n : s.free_slots[k] = j
        BY <3>2, <2>c, <1>f, <1>sl
      <4> QED BY <4>1, <2>1
    <3> QED BY <3>1, <3>2
  <2>5. \A k, l \in 1..Len(r.free_slots) :
          r.free_slots[k] = r.free_slots[l] => k = l
    BY <2>1, <2>2, <2>u
  <2> QED BY <2>3, <2>4, <2>5 DEF FreeListExact
<1>e. Entries(r) \subseteq Entries(s)
  BY <1>f, DiscardSubset DEF Entries
<1>v. \A e \in Entry : EntryLive(r.slots, e) =>
          EntryLive(s.slots, e) /\ e.slot # i /\ r.slots[e.slot] = s.slots[e.slot]
  BY <1>f, <1>sl DEF EntryLive
<1>x. Entries(s) \subseteq Entry
  BY <1>s DEF Entries
<1>3. QueuesComplete(r)
  <2> SUFFICES ASSUME NEW j \in 1..Len(r.slots), r.slots[j].state = "queued"
               PROVE  /\ EntryOf(r.slots, j) \in r.events
                      /\ EntryOf(r.slots, j) \in r.owner_events[r.slots[j].owner]
                      /\ r.slots[j].observed =>
                           EntryOf(r.slots, j) \in r.globally_observed_events
    BY DEF QueuesComplete
  <2>1. j # i /\ j \in 1..Len(s.slots) /\ r.slots[j] = s.slots[j]
    BY <1>f, <1>sl
  <2>2. EntryOf(r.slots, j) = EntryOf(s.slots, j)
    BY <2>1 DEF EntryOf
  <2>3. EntryLive(sl, EntryOf(s.slots, j))
    BY <2>1, <1>f DEF EntryLive, EntryOf
  <2>4. s.slots[j].observed =>
          EntryOf(s.slots, j) \in DiscardDeadFront(sl, s.globally_observed_events)
    BY <2>1, <2>3, <1>s, DiscardKeepsLive DEF ConsistentBut
  <2> QED BY <2>1, <2>2, <2>4, <1>f DEF ConsistentBut
<1>4. QueuesSound(r)
  <2>1. \A e \in Entries(r) :
          EntryLive(r.slots, e) => e = EntryOf(r.slots, e.slot)
    BY <1>e, <1>v, <1>x DEF ConsistentBut, QueuesSound, EntryOf
  <2>2. \A o \in EventOwner : \A e \in r.owner_events[o] :
          EntryLive(r.slots, e) => r.slots[e.slot].owner = o
    BY <1>f, <1>v, <1>s DEF ConsistentBut, QueuesSound
  <2>3. \A e \in r.globally_observed_events :
          EntryLive(r.slots, e) => r.slots[e.slot].observed
    <3>1. \A e \in r.globally_observed_events : e \in s.globally_observed_events
      BY <1>f, <1>s, DiscardSubset DEF ConsistentBut
    <3>2. \A e \in s.globally_observed_events :
            EntryLive(s.slots, e) => s.slots[e.slot].observed
      BY DEF ConsistentBut, QueuesSound
    <3>3. \A e \in s.globally_observed_events : e \in Entry
      BY <1>x DEF Entries
    <3>4. \A e \in r.globally_observed_events : EntryLive(r.slots, e) =>
            EntryLive(s.slots, e) /\ r.slots[e.slot] = s.slots[e.slot]
      BY <3>1, <3>3, <1>v, Zenon
    <3> QED BY <3>1, <3>2, <3>4, Zenon
  <2> QED BY <2>1, <2>2, <2>3 DEF QueuesSound
<1>5. NumbersFresh(r)
  BY <1>e, <1>f, <1>sl DEF ConsistentBut, NumbersFresh
<1> QED
  BY <1>t, <1>l, <1>ls, <1>f, <1>1, <1>2, <1>3, <1>4, <1>5
  DEF StoreOK, StoreConsistent, r

(* cancelId of any identifier, 0 and stale ones included. *)
LEMMA CancelOK ==
    ASSUME NEW s, StoreOK(s), NEW id
    PROVE  LET r == CancelId(s, id)
           IN  /\ StoreOK(r)
               /\ Live(r) = Live(s) \ {id}
               /\ \A k \in Live(r) : LiveSlot(r, k) = LiveSlot(s, k)
               /\ r.next_id = s.next_id
<1>1. CASE id \in Live(s)
  <2> DEFINE i == s.live_events[id]
  <2>1. i \in 1..Len(s.slots) /\ s.slots[i].state = "queued" /\ s.slots[i].id = id
    BY <1>1 DEF StoreOK, StoreConsistent, IndexExact, LiveSlot
  <2>2. ConsistentBut(s, i)
    BY OKIsConsistentBut
  <2>3. CancelId(s, id) = Retire(s, i, id)
    BY <1>1 DEF CancelId
  <2> HIDE DEF i
  <2> QED BY <2>1, <2>2, <2>3, RetireOK
<1>2. CASE id \notin Live(s)
  BY <1>2 DEF CancelId
<1> QED BY <1>1, <1>2

(* Scheduling adds one live event, in a fresh or a recycled slot. *)
LEMMA InsertOK ==
    ASSUME NEW s, StoreOK(s), CanAllocate(s), NEW at \in Time,
           NEW owner \in EventOwner, NEW local \in BOOLEAN,
           NEW handle \in Binding
    PROVE  LET r == Insert(s, at, owner, local, handle)
           IN  /\ StoreOK(r)
               /\ s.next_id \in EventId \ Live(s)
               /\ Live(r) = Live(s) \cup {s.next_id}
               /\ \A k \in Live(s) : LiveSlot(r, k) = LiveSlot(s, k)
               /\ LiveSlot(r, s.next_id) = NewSlot(s, at, owner, local, handle)
               /\ r.next_id = s.next_id + 1
<1> DEFINE id == s.next_id
           new == NewSlot(s, at, owner, local, handle)
           i == AcquiredSlot(s)
           sl == SlotsAfterAcquire(s, new)
           fr == FreeAfterAcquire(s)
           entry == [at |-> at, sequence |-> s.next_sequence, slot |-> i, id |-> id]
           r == Insert(s, at, owner, local, handle)
<1>s. /\ s \in Store /\ s.slots \in Seq(Slot) /\ s.free_slots \in Seq(Nat)
      /\ s.live_events \in [EventId -> Nat]
      /\ s.owner_events \in [EventOwner -> SUBSET Entry]
      /\ s.events \in SUBSET Entry
      /\ s.globally_observed_events \in SUBSET Entry
      /\ s.next_id \in Nat /\ s.next_sequence \in Nat
  BY DEF StoreOK, Store
<1>c. /\ IndexExact(s) /\ FreeListExact(s) /\ QueuesComplete(s)
      /\ QueuesSound(s) /\ NumbersFresh(s)
  BY DEF StoreOK, StoreConsistent
<1>n. id \in EventId
  BY <1>s, <1>c, BoundAssumption DEF CanAllocate, NumbersFresh, EventId
<1>new. /\ new \in Slot /\ new.state = "queued" /\ new.id = id
        /\ new.at = at /\ new.sequence = s.next_sequence /\ new.owner = owner
  BY <1>n, <1>s DEF NewSlot, Slot
<1> HIDE DEF new
<1>f. /\ r.slots = sl /\ r.free_slots = fr
      /\ r.live_events = [s.live_events EXCEPT ![id] = i]
      /\ r.events = s.events \cup {entry}
      /\ r.owner_events = [s.owner_events EXCEPT
              ![owner] = DiscardDeadFront(sl, s.owner_events[owner]) \cup {entry}]
      /\ r.globally_observed_events =
            IF new.observed THEN s.globally_observed_events \cup {entry}
                            ELSE s.globally_observed_events
      /\ r.next_id = id + 1 /\ r.next_sequence = s.next_sequence + 1
  BY DEF Insert, new
<1>d. r = [slots |-> r.slots, free_slots |-> r.free_slots,
           live_events |-> r.live_events, events |-> r.events,
           owner_events |-> r.owner_events,
           globally_observed_events |-> r.globally_observed_events,
           next_id |-> r.next_id, next_sequence |-> r.next_sequence]
  BY DEF Insert
<1> HIDE DEF r
(* The slot: recycled from the free list or appended. *)
<1>a. /\ i \in Nat \ {0} /\ i \in 1..Len(sl) /\ sl \in Seq(Slot) /\ sl[i] = new
      /\ Len(s.slots) <= Len(sl) /\ Len(sl) \in Nat
      /\ \A j \in 1..Len(sl) \ {i} : j \in 1..Len(s.slots) /\ sl[j] = s.slots[j]
      /\ i \in 1..Len(s.slots) => s.slots[i].state = "free"
  <2>1. CASE s.free_slots # <<>>
    <3>1. /\ i = s.free_slots[Len(s.free_slots)]
          /\ Len(s.free_slots) \in 1..Len(s.free_slots)
          /\ sl = [s.slots EXCEPT ![i] = new]
      BY <2>1, <1>s DEF AcquiredSlot, SlotsAfterAcquire
    <3>2. i \in 1..Len(s.slots) /\ s.slots[i].state = "free"
      BY <3>1, <1>c DEF FreeListExact
    <3> HIDE DEF i, sl
    <3>3. /\ sl \in Seq(Slot) /\ Len(sl) = Len(s.slots) /\ sl[i] = new
          /\ \A j \in 1..Len(s.slots) \ {i} : sl[j] = s.slots[j]
      BY <3>1, <3>2, <1>new, <1>s, SeqUpdate
    <3> QED BY <3>2, <3>3, <1>s
  <2>2. CASE s.free_slots = <<>>
    <3>1. i = Len(s.slots) + 1 /\ sl = Append(s.slots, new)
      BY <2>2 DEF AcquiredSlot, SlotsAfterAcquire
    <3> HIDE DEF i, sl
    <3> QED BY <3>1, <1>s, <1>new
  <2> QED BY <2>1, <2>2
<1>fr. /\ fr \in Seq(Nat)
       /\ \A k \in 1..Len(fr) : /\ k \in 1..Len(s.free_slots)
                                /\ fr[k] = s.free_slots[k] /\ fr[k] # i
       /\ \A k \in 1..Len(s.free_slots) : s.free_slots[k] # i => k \in 1..Len(fr)
  <2>1. CASE s.free_slots # <<>>
    <3> DEFINE n == Len(s.free_slots)
    <3>1. /\ n \in Nat \ {0} /\ i = s.free_slots[n]
          /\ fr = SubSeq(s.free_slots, 1, n - 1)
      BY <2>1, <1>s DEF AcquiredSlot, FreeAfterAcquire
    <3>2. /\ fr \in Seq(Nat) /\ Len(fr) = n - 1
          /\ \A k \in 1..(n - 1) : fr[k] = s.free_slots[k]
      <4>1. PICK q : q = s.free_slots
        OBVIOUS
      <4>2. q \in Seq(Nat) /\ n \in Nat \ {0} /\ n = Len(q)
        BY <4>1, <3>1, <1>s
      <4> HIDE DEF n
      <4>3. n - 1 \in Int /\ 1 \in Int /\ \A k \in 1..(n - 1) : q[k] \in Nat
        BY <4>2
      <4>4. /\ SubSeq(q, 1, n - 1) \in Seq(Nat)
            /\ Len(SubSeq(q, 1, n - 1)) = IF 1 <= n - 1 THEN (n - 1) - 1 + 1 ELSE 0
            /\ \A k \in 1..((n - 1) - 1 + 1) : SubSeq(q, 1, n - 1)[k] = q[1 + k - 1]
        BY <4>3, SubSeqProperties
      <4>5. /\ (n - 1) - 1 + 1 = n - 1 /\ (IF 1 <= n - 1 THEN (n - 1) - 1 + 1 ELSE 0) = n - 1
            /\ \A k \in 1..(n - 1) : 1 + k - 1 = k
        BY <4>2
      <4> QED BY <4>1, <4>4, <4>5, <3>1
    <3>3. \A k \in 1..(n - 1) : s.free_slots[k] # s.free_slots[n]
      <4>1. \A k, l \in 1..n : s.free_slots[k] = s.free_slots[l] => k = l
        BY <1>c DEF FreeListExact
      <4>2. n \in 1..n /\ \A k \in 1..(n - 1) : k \in 1..n /\ k # n
        BY <3>1
      <4> HIDE DEF n
      <4> QED BY <4>1, <4>2
    <3> HIDE DEF n, fr, i
    <3> QED BY <3>1, <3>2, <3>3 DEF n
  <2>2. CASE s.free_slots = <<>>
    BY <2>2 DEF FreeAfterAcquire
  <2> QED BY <2>1, <2>2
<1> HIDE DEF i, sl, fr
<1>e. /\ entry \in Entry /\ entry.slot = i /\ entry.id = id
      /\ entry.sequence = s.next_sequence
      /\ entry = EntryOf(sl, i)
  BY <1>a, <1>n, <1>s, <1>new DEF Entry, EntryOf
<1> HIDE DEF entry
<1>t. r \in Store
  <2>1. DiscardDeadFront(sl, s.owner_events[owner]) \cup {entry} \in SUBSET Entry
    BY <1>s, <1>e, DiscardSubset
  <2>2. /\ r.slots \in Seq(Slot) /\ r.free_slots \in Seq(Nat)
        /\ r.live_events \in [EventId -> Nat]
        /\ r.events \in SUBSET Entry
        /\ r.owner_events \in [EventOwner -> SUBSET Entry]
        /\ r.globally_observed_events \in SUBSET Entry
        /\ r.next_id \in Nat /\ r.next_sequence \in Nat
    <3>1. r.slots \in Seq(Slot) /\ r.free_slots \in Seq(Nat)
      BY <1>f, <1>a, <1>fr
    <3>2. r.live_events \in [EventId -> Nat]
      BY <1>f, <1>s, <1>a, <1>n
    <3>3. r.events \in SUBSET Entry /\ r.globally_observed_events \in SUBSET Entry
      BY <1>f, <1>s, <1>e
    <3>4. r.owner_events \in [EventOwner -> SUBSET Entry]
      BY <2>1, <1>f, <1>s
    <3>5. r.next_id \in Nat /\ r.next_sequence \in Nat
      BY <1>f, <1>s
    <3> QED BY <3>1, <3>2, <3>3, <3>4, <3>5
  <2> QED BY <2>2, <1>d DEF Store
<1>l. Live(r) = Live(s) \cup {id} /\ id \notin Live(s)
  <2>1. Live(r) = Live(s) \cup {id}
    BY <1>f, <1>s, <1>n, <1>a DEF Live
  <2>2. id \notin Live(s)
    <3> SUFFICES ASSUME id \in Live(s) PROVE FALSE
      OBVIOUS
    <3>1. s.live_events[id] \in 1..Len(s.slots) /\ LiveSlot(s, id).id = id
      BY <1>c DEF IndexExact
    <3>2. LiveSlot(s, id).id < s.next_id
      BY <3>1, <1>c DEF NumbersFresh, LiveSlot
    <3> QED BY <3>1, <3>2, <1>s
  <2> QED BY <2>1, <2>2
<1>ls. \A k \in Live(s) : /\ s.live_events[k] # i
                          /\ r.live_events[k] = s.live_events[k]
                          /\ LiveSlot(r, k) = LiveSlot(s, k)
  <2> SUFFICES ASSUME NEW k \in Live(s)
               PROVE  /\ s.live_events[k] # i
                      /\ r.live_events[k] = s.live_events[k]
                      /\ LiveSlot(r, k) = LiveSlot(s, k)
    OBVIOUS
  <2>1. /\ s.live_events[k] \in 1..Len(s.slots)
        /\ s.slots[s.live_events[k]].state = "queued"
    BY <1>c DEF IndexExact, LiveSlot
  <2>2. s.live_events[k] # i
    BY <2>1, <1>a
  <2>3. r.live_events[k] = s.live_events[k]
    BY <1>f, <1>l, <1>s DEF Live
  <2>4. s.live_events[k] \in 1..Len(sl) \ {i}
    BY <2>1, <2>2, <1>a, <1>s
  <2> QED BY <2>2, <2>3, <2>4, <1>f, <1>a DEF LiveSlot
<1>li. r.live_events[id] = i /\ LiveSlot(r, id) = new
  BY <1>f, <1>s, <1>n, <1>a DEF LiveSlot
<1>1. IndexExact(r)
  <2>1. ASSUME NEW k \in Live(r)
        PROVE  /\ r.live_events[k] \in 1..Len(r.slots)
               /\ LiveSlot(r, k).state = "queued"
               /\ LiveSlot(r, k).id = k
    <3>1. CASE k = id
      BY <3>1, <1>li, <1>a, <1>new, <1>f
    <3>2. CASE k \in Live(s)
      BY <3>2, <1>ls, <1>c, <1>a, <1>f, <1>s DEF IndexExact
    <3> QED BY <3>1, <3>2, <1>l
  <2>2. ASSUME NEW j \in 1..Len(r.slots), r.slots[j].state = "queued"
        PROVE  r.slots[j].id \in Live(r) /\ r.live_events[r.slots[j].id] = j
    <3>1. CASE j = i
      BY <3>1, <1>f, <1>a, <1>new, <1>li, <1>l
    <3>2. CASE j # i
      <4>1. j \in 1..Len(s.slots) /\ r.slots[j] = s.slots[j]
        BY <3>2, <1>f, <1>a
      <4>2. s.slots[j].id \in Live(s) /\ s.live_events[s.slots[j].id] = j
        BY <4>1, <2>2, <1>c DEF IndexExact
      <4> QED BY <4>1, <4>2, <1>l, <1>ls
    <3> QED BY <3>1, <3>2
  <2> QED BY <2>1, <2>2 DEF IndexExact
<1>2. FreeListExact(r)
  <2>1. \A k \in 1..Len(r.free_slots) :
          /\ r.free_slots[k] \in 1..Len(r.slots)
          /\ r.slots[r.free_slots[k]].state = "free"
    <3> SUFFICES ASSUME NEW k \in 1..Len(fr)
                 PROVE  fr[k] \in 1..Len(sl) /\ sl[fr[k]].state = "free"
      BY <1>f
    <3>1. /\ fr[k] # i /\ fr[k] \in 1..Len(s.slots)
          /\ s.slots[fr[k]].state = "free"
      <4>1. /\ k \in 1..Len(s.free_slots) /\ fr[k] = s.free_slots[k] /\ fr[k] # i
        BY <1>fr
      <4>2. /\ s.free_slots[k] \in 1..Len(s.slots)
            /\ s.slots[s.free_slots[k]].state = "free"
        BY <4>1, <1>c DEF FreeListExact
      <4> QED
        BY <4>1, <4>2
    <3>2. fr[k] \in 1..Len(sl) \ {i}
      BY <3>1, <1>a, <1>s
    <3> QED BY <3>1, <3>2, <1>a
  <2>2. \A j \in 1..Len(r.slots) :
          r.slots[j].state = "free" =>
              \E k \in 1..Len(r.free_slots) : r.free_slots[k] = j
    <3> SUFFICES ASSUME NEW j \in 1..Len(sl), sl[j].state = "free"
                 PROVE  \E k \in 1..Len(fr) : fr[k] = j
      BY <1>f
    <3>1. j # i
      BY <1>a, <1>new
    <3>2. PICK k \in 1..Len(s.free_slots) : s.free_slots[k] = j
      BY <3>1, <1>a, <1>c DEF FreeListExact
    <3> QED BY <3>1, <3>2, <1>fr
  <2>3. \A k, l \in 1..Len(r.free_slots) :
          r.free_slots[k] = r.free_slots[l] => k = l
    BY <1>f, <1>fr, <1>c DEF FreeListExact
  <2> QED BY <2>1, <2>2, <2>3 DEF FreeListExact
<1>x. Entries(s) \subseteq Entry /\ entry \notin Entries(s)
  BY <1>s, <1>e, <1>c DEF Entries, NumbersFresh
<1>y. Entries(r) \subseteq Entries(s) \cup {entry}
  <2>1. \A o \in EventOwner :
          r.owner_events[o] \subseteq s.owner_events[o] \cup {entry}
    BY <1>f, <1>s, DiscardSubset
  <2> QED BY <2>1, <1>f DEF Entries
(* No entry from before is live in the recycled slot. *)
<1>v. \A e \in Entries(s) : EntryLive(sl, e) =>
          EntryLive(s.slots, e) /\ e.slot # i /\ sl[e.slot] = s.slots[e.slot]
  <2> SUFFICES ASSUME NEW e \in Entries(s), EntryLive(sl, e)
               PROVE  EntryLive(s.slots, e) /\ e.slot # i
                        /\ sl[e.slot] = s.slots[e.slot]
    OBVIOUS
  <2>1. e.id < id /\ e.id \in Nat
    BY <1>c, <1>x DEF NumbersFresh, Entry, EventId
  <2>2. e.slot # i
    BY <2>1, <1>a, <1>new, <1>s DEF EntryLive
  <2> QED BY <2>2, <1>a DEF EntryLive
<1>w. \A j \in 1..Len(s.slots) : s.slots[j].state = "queued" =>
          /\ j # i /\ j \in 1..Len(sl) /\ sl[j] = s.slots[j]
          /\ EntryOf(sl, j) = EntryOf(s.slots, j)
          /\ EntryLive(sl, EntryOf(s.slots, j))
  BY <1>a, <1>s DEF EntryOf, EntryLive
<1>3. QueuesComplete(r)
  <2> SUFFICES ASSUME NEW j \in 1..Len(sl), sl[j].state = "queued"
               PROVE  /\ EntryOf(sl, j) \in r.events
                      /\ EntryOf(sl, j) \in r.owner_events[sl[j].owner]
                      /\ sl[j].observed =>
                           EntryOf(sl, j) \in r.globally_observed_events
    BY <1>f DEF QueuesComplete
  <2>1. CASE j = i
    BY <2>1, <1>f, <1>e, <1>a, <1>new, <1>s
  <2>2. CASE j # i
    <3>1. /\ j \in 1..Len(s.slots) /\ sl[j] = s.slots[j] /\ s.slots[j] \in Slot
          /\ s.slots[j].owner \in EventOwner
      <4>1. j \in 1..Len(s.slots) /\ sl[j] = s.slots[j]
        BY <2>2, <1>a
      <4>2. s.slots[j] \in Slot
        BY <4>1, <1>s, SeqElement
      <4> QED BY <4>1, <4>2 DEF Slot
    <3>2. /\ EntryOf(sl, j) = EntryOf(s.slots, j)
          /\ EntryLive(sl, EntryOf(sl, j))
      BY <3>1, <1>w
    <3>3. /\ EntryOf(sl, j) \in s.events
          /\ EntryOf(sl, j) \in s.owner_events[sl[j].owner]
          /\ sl[j].observed => EntryOf(sl, j) \in s.globally_observed_events
      BY <3>1, <3>2, <1>c DEF QueuesComplete
    <3>4. EntryOf(sl, j) \in r.owner_events[sl[j].owner]
      <4>1. CASE sl[j].owner = owner
        <5>1. EntryOf(sl, j) \in DiscardDeadFront(sl, s.owner_events[owner])
          BY <4>1, <3>2, <3>3, <1>s, DiscardKeepsLive
        <5> QED BY <4>1, <5>1, <1>f, <1>s
      <4>2. CASE sl[j].owner # owner
        BY <4>2, <3>1, <3>3, <1>f, <1>s
      <4> QED BY <4>1, <4>2
    <3> QED BY <3>3, <3>4, <1>f
  <2> QED BY <2>1, <2>2
<1>4. QueuesSound(r)
  <2>1. \A e \in Entries(r) : EntryLive(sl, e) => e = EntryOf(sl, e.slot)
    <3> SUFFICES ASSUME NEW e \in Entries(s), EntryLive(sl, e)
                 PROVE  e = EntryOf(sl, e.slot)
      BY <1>y, <1>e
    <3> QED BY <1>v, <1>c DEF QueuesSound, EntryOf
  <2>2. \A o \in EventOwner : \A e \in r.owner_events[o] :
          EntryLive(sl, e) => sl[e.slot].owner = o
    <3> SUFFICES ASSUME NEW o \in EventOwner, NEW e \in r.owner_events[o],
                        EntryLive(sl, e)
                 PROVE  sl[e.slot].owner = o
      OBVIOUS
    <3>1. CASE e \in s.owner_events[o]
      <4>1. e \in Entries(s)
        BY <3>1 DEF Entries
      <4> QED BY <3>1, <4>1, <1>v, <1>c DEF QueuesSound
    <3>2. CASE e = entry /\ o = owner
      BY <3>2, <1>e, <1>a, <1>new
    <3> QED BY <3>1, <3>2, <1>f, <1>s, DiscardSubset
  <2>3. \A e \in r.globally_observed_events :
          EntryLive(sl, e) => sl[e.slot].observed
    <3> SUFFICES ASSUME NEW e \in r.globally_observed_events, EntryLive(sl, e)
                 PROVE  sl[e.slot].observed
      OBVIOUS
    <3>1. CASE e \in s.globally_observed_events
      <4>1. e \in Entries(s)
        BY <3>1 DEF Entries
      <4> QED BY <3>1, <4>1, <1>v, <1>c DEF QueuesSound
    <3>2. CASE e = entry /\ new.observed
      BY <3>2, <1>e, <1>a
    <3> QED BY <3>1, <3>2, <1>f
  <2> QED BY <2>1, <2>2, <2>3, <1>f DEF QueuesSound
<1>5. NumbersFresh(r)
  <2>1. \A e \in Entries(r) : e.id < r.next_id /\ e.sequence < r.next_sequence
    <3>1. \A e \in Entries(s) : /\ e.id < id /\ e.sequence < s.next_sequence
                                /\ e.id \in Nat /\ e.sequence \in Nat
      BY <1>c, <1>x DEF NumbersFresh, Entry, EventId
    <3> QED BY <3>1, <1>y, <1>e, <1>f, <1>s
  <2>2. \A e, f \in Entries(r) : e.sequence = f.sequence => e = f
    <3>1. \A e \in Entries(s) : e.sequence < s.next_sequence /\ e.sequence \in Nat
      BY <1>c, <1>x DEF NumbersFresh, Entry
    <3>2. \A e, f \in Entries(s) : e.sequence = f.sequence => e = f
      BY <1>c DEF NumbersFresh
    <3> QED BY <3>1, <3>2, <1>y, <1>e, <1>s
  <2>3. \A j \in 1..Len(r.slots) : r.slots[j].id < r.next_id
    <3> SUFFICES ASSUME NEW j \in 1..Len(sl) PROVE sl[j].id < id + 1
      BY <1>f
    <3>1. CASE j = i
      BY <3>1, <1>a, <1>new, <1>s
    <3>2. CASE j # i
      <4>0. sl[j] \in Slot
        BY <1>a, SeqElement
      <4>1. sl[j].id \in Nat
        BY <4>0 DEF Slot, EventId
      <4> QED BY <3>2, <4>1, <1>a, <1>c, <1>s DEF NumbersFresh
    <3> QED BY <3>1, <3>2
  <2>4. r.next_id <= MaxId + 1 /\ r.next_sequence < r.next_id
    BY <1>f, <1>c, <1>s, BoundAssumption DEF NumbersFresh, CanAllocate
  <2> QED BY <2>1, <2>2, <2>3, <2>4 DEF NumbersFresh
<1> QED
  BY <1>t, <1>n, <1>l, <1>ls, <1>li, <1>f, <1>1, <1>2, <1>3, <1>4, <1>5
  DEF StoreOK, StoreConsistent, r, new

(* clear() leaves no event and every slot on the free list, once. *)
LEMMA ClearOK ==
    ASSUME NEW s, StoreOK(s)
    PROVE  LET r == ClearStore(s)
           IN  StoreOK(r) /\ Live(r) = {} /\ r.next_id = s.next_id
<1> DEFINE r == ClearStore(s)
           sl == [i \in 1..Len(s.slots) |-> [s.slots[i] EXCEPT !.state = "free"]]
           fr == [i \in 1..Len(s.slots) |-> i]
<1> HIDE DEF r, sl, fr
<1>s. /\ s \in Store /\ s.slots \in Seq(Slot) /\ Len(s.slots) \in Nat
      /\ s.next_id \in Nat /\ s.next_sequence \in Nat
  BY DEF StoreOK, Store
<1>f. /\ r.slots = sl /\ r.free_slots = fr /\ r.live_events = NoEvents
      /\ r.events = {} /\ r.owner_events = [o \in EventOwner |-> {}]
      /\ r.globally_observed_events = {}
      /\ r.next_id = s.next_id /\ r.next_sequence = s.next_sequence
  BY <1>s DEF r, sl, fr, ClearStore, Store
<1>1. /\ sl \in Seq(Slot) /\ Len(sl) = Len(s.slots)
      /\ \A i \in 1..Len(s.slots) : sl[i].state = "free" /\ sl[i].id = s.slots[i].id
  <2>1. ASSUME NEW i \in 1..Len(s.slots)
        PROVE  /\ [s.slots[i] EXCEPT !.state = "free"] \in Slot
               /\ [s.slots[i] EXCEPT !.state = "free"].state = "free"
               /\ [s.slots[i] EXCEPT !.state = "free"].id = s.slots[i].id
    <3>1. s.slots[i] \in Slot
      BY <1>s, SeqElement
    <3> QED BY <3>1 DEF Slot
  <2> QED BY <2>1, <1>s DEF sl
<1>2. fr \in Seq(Nat) /\ Len(fr) = Len(s.slots) /\ \A i \in 1..Len(s.slots) : fr[i] = i
  BY <1>s DEF fr
<1>t. r \in Store
  <2>1. NoEvents \in [EventId -> Nat]
    BY DEF NoEvents
  <2> QED BY <1>s, <1>1, <1>2, <2>1 DEF r, sl, fr, ClearStore, Store
<1>3. Live(r) = {}
  BY <1>f DEF Live, NoEvents
<1>4. Entries(r) = {}
  BY <1>f DEF Entries
<1>5. IndexExact(r) /\ FreeListExact(r) /\ QueuesComplete(r)
  BY <1>1, <1>2, <1>3, <1>f, <1>s DEF IndexExact, FreeListExact, QueuesComplete
<1>6. QueuesSound(r)
  BY <1>4, <1>f DEF QueuesSound
<1>7. NumbersFresh(r)
  BY <1>1, <1>4, <1>f DEF NumbersFresh, StoreOK, StoreConsistent
<1> QED BY <1>t, <1>3, <1>5, <1>6, <1>7, <1>f DEF StoreOK, StoreConsistent, r

(* A change that only takes dead entries out of the queues. *)
LEMMA ShrinkOK ==
    ASSUME NEW s, NEW i, ConsistentBut(s, i), NEW r \in Store,
           r.slots = s.slots, r.free_slots = s.free_slots,
           r.live_events = s.live_events, r.next_id = s.next_id,
           r.next_sequence = s.next_sequence,
           r.events \subseteq s.events,
           r.globally_observed_events \subseteq s.globally_observed_events,
           \A o \in EventOwner : r.owner_events[o] \subseteq s.owner_events[o],
           \A e \in s.events :
               EntryLive(s.slots, e) /\ e.slot # i => e \in r.events,
           \A e \in s.globally_observed_events :
               EntryLive(s.slots, e) /\ e.slot # i =>
                   e \in r.globally_observed_events,
           \A o \in EventOwner : \A e \in s.owner_events[o] :
               EntryLive(s.slots, e) /\ e.slot # i => e \in r.owner_events[o]
    PROVE  /\ ConsistentBut(r, i)
           /\ Live(r) = Live(s)
           /\ \A k \in Live(r) : LiveSlot(r, k) = LiveSlot(s, k)
<1>s. s \in Store /\ s.slots \in Seq(Slot)
  BY DEF ConsistentBut, Store
<1>1. IndexExact(r) /\ FreeListExact(r)
  BY DEF ConsistentBut, IndexExact, FreeListExact, Live, LiveSlot
<1>2. Entries(r) \subseteq Entries(s)
  BY DEF Entries
<1>3. QueuesSound(r)
  BY <1>2 DEF ConsistentBut, QueuesSound
<1>4. NumbersFresh(r)
  BY <1>2 DEF ConsistentBut, NumbersFresh
<1>5. ASSUME NEW j \in 1..Len(r.slots) \ {i}, r.slots[j].state = "queued"
      PROVE  /\ EntryOf(r.slots, j) \in r.events
             /\ EntryOf(r.slots, j) \in r.owner_events[r.slots[j].owner]
             /\ r.slots[j].observed =>
                   EntryOf(r.slots, j) \in r.globally_observed_events
  <2>1. /\ EntryLive(s.slots, EntryOf(s.slots, j))
        /\ EntryOf(s.slots, j).slot # i
    BY <1>5 DEF EntryLive, EntryOf
  <2>2. s.slots[j].owner \in EventOwner
    <3>1. s.slots[j] \in Slot
      BY <1>s, SeqElement
    <3> QED BY <3>1 DEF Slot
  <2>3. /\ EntryOf(s.slots, j) \in s.events
        /\ EntryOf(s.slots, j) \in s.owner_events[s.slots[j].owner]
        /\ s.slots[j].observed =>
              EntryOf(s.slots, j) \in s.globally_observed_events
    BY <1>5 DEF ConsistentBut
  <2> QED BY <2>1, <2>2, <2>3
<1>6. Live(r) = Live(s) /\ \A k \in Live(r) : LiveSlot(r, k) = LiveSlot(s, k)
  BY DEF Live, LiveSlot
<1> QED BY <1>1, <1>3, <1>4, <1>5, <1>6 DEF ConsistentBut

LEMMA ConsistentButIsOK ==
    ASSUME NEW s, ConsistentBut(s, 0) PROVE StoreOK(s)
BY DEF StoreOK, StoreConsistent, ConsistentBut, QueuesComplete

(* Cleaning a queue, as every run and query does, changes no event. *)
LEMMA SettleEventsOK ==
    ASSUME NEW s, StoreOK(s)
    PROVE  LET r == SettleEvents(s)
           IN  /\ StoreOK(r) /\ r.slots = s.slots /\ r.next_id = s.next_id
               /\ r.events = DiscardDeadFront(s.slots, s.events)
               /\ Live(r) = Live(s)
               /\ \A k \in Live(r) : LiveSlot(r, k) = LiveSlot(s, k)
<1> DEFINE r == SettleEvents(s)
<1> HIDE DEF r
<1>s. s \in Store /\ ConsistentBut(s, 0) /\ s.events \in SUBSET Entry
  BY OKIsConsistentBut DEF StoreOK, Store
<1>d. DiscardDeadFront(s.slots, s.events) \subseteq s.events
  BY DiscardSubset
<1>f. /\ r.slots = s.slots /\ r.free_slots = s.free_slots
      /\ r.live_events = s.live_events /\ r.next_id = s.next_id
      /\ r.next_sequence = s.next_sequence
      /\ r.events = DiscardDeadFront(s.slots, s.events)
      /\ r.owner_events = s.owner_events
      /\ r.globally_observed_events = s.globally_observed_events
  BY <1>s DEF r, SettleEvents, Store
<1>t. r \in Store
  BY <1>s, <1>d DEF r, SettleEvents, Store
<1>k. \A e \in s.events : EntryLive(s.slots, e) => e \in r.events
  BY <1>s, <1>f, DiscardKeepsLive
<1>c. /\ ConsistentBut(r, 0) /\ Live(r) = Live(s)
      /\ \A k \in Live(r) : LiveSlot(r, k) = LiveSlot(s, k)
  BY <1>s, <1>d, <1>f, <1>t, <1>k, ShrinkOK
<1> QED BY <1>c, <1>f, ConsistentButIsOK DEF r

LEMMA SettleOwnerOK ==
    ASSUME NEW s, StoreOK(s), NEW owner \in EventOwner
    PROVE  LET r == SettleOwner(s, owner)
           IN  /\ StoreOK(r) /\ r.slots = s.slots /\ r.next_id = s.next_id
               /\ r.owner_events[owner] =
                     DiscardDeadFront(s.slots, s.owner_events[owner])
               /\ Live(r) = Live(s)
               /\ \A k \in Live(r) : LiveSlot(r, k) = LiveSlot(s, k)
<1> DEFINE r == SettleOwner(s, owner)
           q == DiscardDeadFront(s.slots, s.owner_events[owner])
<1> HIDE DEF r, q
<1>s. /\ s \in Store /\ ConsistentBut(s, 0)
      /\ s.owner_events \in [EventOwner -> SUBSET Entry]
  BY OKIsConsistentBut DEF StoreOK, Store
<1>d. q \subseteq s.owner_events[owner]
  BY DiscardSubset DEF q
<1>f. /\ r.slots = s.slots /\ r.free_slots = s.free_slots
      /\ r.live_events = s.live_events /\ r.next_id = s.next_id
      /\ r.next_sequence = s.next_sequence
      /\ r.events = s.events
      /\ r.owner_events = [s.owner_events EXCEPT ![owner] = q]
      /\ r.globally_observed_events = s.globally_observed_events
  BY <1>s DEF r, q, SettleOwner, Store
<1>g. [s.owner_events EXCEPT ![owner] = q] \in [EventOwner -> SUBSET Entry]
  BY <1>s, <1>d
<1>t. r \in Store
  BY <1>s, <1>g DEF r, q, SettleOwner, Store
<1>k. \A e \in s.owner_events[owner] : EntryLive(s.slots, e) => e \in q
  BY <1>s, DiscardKeepsLive DEF q
<1>o. \A o \in EventOwner : /\ r.owner_events[o] \subseteq s.owner_events[o]
                            /\ \A e \in s.owner_events[o] :
                                 EntryLive(s.slots, e) => e \in r.owner_events[o]
  BY <1>s, <1>d, <1>f, <1>k
<1>c. /\ ConsistentBut(r, 0) /\ Live(r) = Live(s)
      /\ \A k \in Live(r) : LiveSlot(r, k) = LiveSlot(s, k)
  BY <1>s, <1>o, <1>f, <1>t, ShrinkOK
<1> QED BY <1>c, <1>f, <1>s, ConsistentButIsOK DEF r, q

LEMMA SettleObservedOK ==
    ASSUME NEW s, StoreOK(s)
    PROVE  LET r == SettleObserved(s)
           IN  /\ StoreOK(r) /\ r.slots = s.slots /\ r.next_id = s.next_id
               /\ Live(r) = Live(s)
               /\ \A k \in Live(r) : LiveSlot(r, k) = LiveSlot(s, k)
<1> DEFINE r == SettleObserved(s)
<1> HIDE DEF r
<1>s. s \in Store /\ ConsistentBut(s, 0) /\ s.globally_observed_events \in SUBSET Entry
  BY OKIsConsistentBut DEF StoreOK, Store
<1>d. DiscardDeadFront(s.slots, s.globally_observed_events)
        \subseteq s.globally_observed_events
  BY DiscardSubset
<1>f. /\ r.slots = s.slots /\ r.free_slots = s.free_slots
      /\ r.live_events = s.live_events /\ r.next_id = s.next_id
      /\ r.next_sequence = s.next_sequence
      /\ r.events = s.events
      /\ r.owner_events = s.owner_events
      /\ r.globally_observed_events =
            DiscardDeadFront(s.slots, s.globally_observed_events)
  BY <1>s DEF r, SettleObserved, Store
<1>t. r \in Store
  BY <1>s, <1>d DEF r, SettleObserved, Store
<1>k. \A e \in s.globally_observed_events :
        EntryLive(s.slots, e) => e \in r.globally_observed_events
  BY <1>s, <1>f, DiscardKeepsLive
<1>c. /\ ConsistentBut(r, 0) /\ Live(r) = Live(s)
      /\ \A k \in Live(r) : LiveSlot(r, k) = LiveSlot(s, k)
  BY <1>s, <1>d, <1>f, <1>t, <1>k, ShrinkOK
<1> QED BY <1>c, <1>f, ConsistentButIsOK DEF r

(* The front of a cleaned queue is live, and comes before every other live *)
(* entry of the queue; when nothing is left, nothing in it was live.       *)
LEMMA FrontIsFirst ==
    ASSUME NEW slots, NEW queue \in SUBSET Entry,
           \A e, f \in queue : e.sequence = f.sequence => e = f
    PROVE  LET q == DiscardDeadFront(slots, queue)
           IN  /\ q = {} => \A f \in queue : ~EntryLive(slots, f)
               /\ q # {} => /\ Top(q) \in queue
                            /\ EntryLive(slots, Top(q))
                            /\ \A f \in queue : EntryLive(slots, f) =>
                                   f = Top(q) \/ Before(Top(q), f)
<1> DEFINE q == DiscardDeadFront(slots, queue)
<1>1. q \subseteq queue /\ \A f \in queue : EntryLive(slots, f) => f \in q
  BY DiscardSubset, DiscardKeepsLive
<1>2. ASSUME q # {}
      PROVE  /\ Top(q) \in queue
             /\ EntryLive(slots, Top(q))
             /\ \A f \in queue : EntryLive(slots, f) =>
                    f = Top(q) \/ Before(Top(q), f)
  <2>1. /\ Top(q) \in q
        /\ \A f \in q \ {Top(q)} : Before(Top(q), f)
    <3> HIDE DEF q
    <3>1. q \in SUBSET Entry /\ \A e, f \in q : e.sequence = f.sequence => e = f
      BY <1>1
    <3> QED BY <1>2, <3>1, TopIsFirst
  <2>2. PICK l \in queue : EntryLive(slots, l) /\ ~Before(Top(q), l)
    BY <2>1 DEF DiscardDeadFront
  <2>3. l = Top(q)
    BY <2>1, <2>2, <1>1
  <2> QED BY <1>1, <2>1, <2>2, <2>3
<1> QED BY <1>1, <1>2

(* Popping a live entry and retiring its event, as invoke does, from the   *)
(* queue of all events.                                                    *)
LEMMA TakeEventsOK ==
    ASSUME NEW s, StoreOK(s), NEW e \in s.events, EntryLive(s.slots, e)
    PROVE  LET r == Retire(PopEvents(s, e), e.slot, s.slots[e.slot].id)
           IN  /\ StoreOK(r)
               /\ Live(r) = Live(s) \ {s.slots[e.slot].id}
               /\ \A k \in Live(r) : LiveSlot(r, k) = LiveSlot(s, k)
               /\ r.next_id = s.next_id
<1> DEFINE p == PopEvents(s, e)
           i == e.slot
<1> HIDE DEF p, i
<1>s. s \in Store /\ ConsistentBut(s, i) /\ s.events \in SUBSET Entry
  BY OKIsConsistentBut DEF StoreOK, Store
<1>i. i \in 1..Len(s.slots) /\ s.slots[i].state = "queued"
  BY DEF EntryLive, i
<1>f. /\ p.slots = s.slots /\ p.free_slots = s.free_slots
      /\ p.live_events = s.live_events /\ p.next_id = s.next_id
      /\ p.next_sequence = s.next_sequence
      /\ p.events = s.events \ {e}
      /\ p.owner_events = s.owner_events
      /\ p.globally_observed_events = s.globally_observed_events
  BY <1>s DEF p, PopEvents, Store
<1>t. p \in Store
  BY <1>s DEF p, PopEvents, Store
<1>c. /\ ConsistentBut(p, i) /\ Live(p) = Live(s)
      /\ \A k \in Live(p) : LiveSlot(p, k) = LiveSlot(s, k)
  <2>1. \A x \in s.events : EntryLive(s.slots, x) /\ x.slot # i => x \in p.events
    BY <1>f DEF i
  <2> QED BY <2>1, <1>s, <1>f, <1>t, ShrinkOK
<1> DEFINE r == Retire(p, i, p.slots[i].id)
<1>r. /\ StoreOK(r)
      /\ Live(r) = Live(p) \ {p.slots[i].id}
      /\ \A k \in Live(r) : LiveSlot(r, k) = LiveSlot(p, k)
      /\ r.next_id = p.next_id
  <2>1. i \in 1..Len(p.slots) /\ p.slots[i].state = "queued"
    BY <1>i, <1>f
  <2> QED BY <2>1, <1>c, RetireOK
<1>e. r = Retire(PopEvents(s, e), e.slot, s.slots[e.slot].id)
  BY <1>f DEF p, i
<1>z. p.slots[i].id = s.slots[e.slot].id
  BY <1>f DEF i
<1> HIDE DEF r
<1> QED BY <1>c, <1>f, <1>r, <1>e, <1>z

(* The same for the queue of one owner. *)
LEMMA TakeOwnerOK ==
    ASSUME NEW s, StoreOK(s), NEW owner \in EventOwner,
           NEW e \in s.owner_events[owner], EntryLive(s.slots, e)
    PROVE  LET r == Retire(PopOwner(s, owner, e), e.slot, s.slots[e.slot].id)
           IN  /\ StoreOK(r)
               /\ Live(r) = Live(s) \ {s.slots[e.slot].id}
               /\ \A k \in Live(r) : LiveSlot(r, k) = LiveSlot(s, k)
               /\ r.next_id = s.next_id
<1> DEFINE p == PopOwner(s, owner, e)
           i == e.slot
<1> HIDE DEF p, i
<1>s. /\ s \in Store /\ ConsistentBut(s, i)
      /\ s.owner_events \in [EventOwner -> SUBSET Entry]
  BY OKIsConsistentBut DEF StoreOK, Store
<1>i. i \in 1..Len(s.slots) /\ s.slots[i].state = "queued"
  BY DEF EntryLive, i
<1>f. /\ p.slots = s.slots /\ p.free_slots = s.free_slots
      /\ p.live_events = s.live_events /\ p.next_id = s.next_id
      /\ p.next_sequence = s.next_sequence
      /\ p.events = s.events
      /\ p.owner_events =
            [s.owner_events EXCEPT ![owner] = s.owner_events[owner] \ {e}]
      /\ p.globally_observed_events = s.globally_observed_events
  BY <1>s DEF p, PopOwner, Store
<1>g. [s.owner_events EXCEPT ![owner] = s.owner_events[owner] \ {e}]
        \in [EventOwner -> SUBSET Entry]
  BY <1>s
<1>t. p \in Store
  BY <1>s, <1>g DEF p, PopOwner, Store
<1>o. \A o \in EventOwner : /\ p.owner_events[o] \subseteq s.owner_events[o]
                            /\ \A x \in s.owner_events[o] :
                                 EntryLive(s.slots, x) /\ x.slot # i =>
                                     x \in p.owner_events[o]
  BY <1>s, <1>f DEF i
<1>c. /\ ConsistentBut(p, i) /\ Live(p) = Live(s)
      /\ \A k \in Live(p) : LiveSlot(p, k) = LiveSlot(s, k)
  BY <1>s, <1>o, <1>f, <1>t, ShrinkOK
<1> DEFINE r == Retire(p, i, p.slots[i].id)
<1>r. /\ StoreOK(r)
      /\ Live(r) = Live(p) \ {p.slots[i].id}
      /\ \A k \in Live(r) : LiveSlot(r, k) = LiveSlot(p, k)
      /\ r.next_id = p.next_id
  <2>1. i \in 1..Len(p.slots) /\ p.slots[i].state = "queued"
    BY <1>i, <1>f
  <2> QED BY <2>1, <1>c, RetireOK
<1>e. r = Retire(PopOwner(s, owner, e), e.slot, s.slots[e.slot].id)
  BY <1>f DEF p, i
<1>z. p.slots[i].id = s.slots[e.slot].id
  BY <1>f DEF i
<1> HIDE DEF r
<1> QED BY <1>c, <1>f, <1>r, <1>e, <1>z

-----------------------------------------------------------------------------
(* The loop *)

Inv == TypeOK /\ StoreInvariant

LEMMA InvStore == ASSUME Inv PROVE StoreOK(store) /\ store \in Store
BY DEF Inv, TypeOK, StoreInvariant, StoreOK

(* Live identifiers and their slots are well typed. *)
LEMMA LiveTyped ==
    ASSUME NEW s, StoreOK(s), NEW id \in Live(s)
    PROVE  /\ id \in EventId /\ id < s.next_id
           /\ s.live_events[id] \in 1..Len(s.slots)
           /\ LiveSlot(s, id) = s.slots[s.live_events[id]]
           /\ LiveSlot(s, id) \in Slot
           /\ LiveSlot(s, id).id = id
           /\ LiveSlot(s, id).state = "queued"
<1>1. /\ id \in EventId
      /\ s.live_events[id] \in 1..Len(s.slots)
      /\ LiveSlot(s, id) = s.slots[s.live_events[id]]
      /\ LiveSlot(s, id).id = id
      /\ LiveSlot(s, id).state = "queued"
  BY DEF Live, StoreOK, StoreConsistent, IndexExact, LiveSlot
<1>2. s.slots[s.live_events[id]] \in Slot
  BY <1>1, SeqElement DEF StoreOK, Store
<1>3. id < s.next_id
  BY <1>1 DEF StoreOK, StoreConsistent, NumbersFresh
<1> QED BY <1>1, <1>2, <1>3

(* Frames. *)
LEMMA RunFrameTyped ==
    ASSUME NEW kind \in {"global", "owner"}, NEW owner \in EventOwner,
           NEW deadline \in Time
    PROVE  RunFrame(kind, owner, deadline) \in Frame
<1>1. 0 \in Time /\ Shared \in EventOwner
  BY BoundAssumption DEF Time, EventOwner
<1> QED BY <1>1 DEF RunFrame, Frame

LEMMA ContextFrameTyped ==
    ASSUME TypeOK, NEW kind \in {"callback", "scope"}, NEW owner \in EventOwner
    PROVE  ContextFrame(kind, owner) \in Frame
<1>1. 0 \in Time
  BY BoundAssumption DEF Time
<1> QED BY <1>1 DEF ContextFrame, Frame, TypeOK

LEMMA TopFrameTyped ==
    ASSUME TypeOK, stack # <<>>
    PROVE  /\ TopFrame \in Frame /\ Len(stack) \in 1..Len(stack)
           /\ TopFrame = stack[Len(stack)]
           /\ TopFrame.kind \in {"global", "owner", "callback", "scope"}
           /\ TopFrame.owner \in EventOwner /\ TopFrame.previous \in EventOwner
           /\ TopFrame.deadline \in Time /\ TopFrame.counted \in Time
           /\ TopFrame.count \in Nat
<1>1. stack \in Seq(Frame) /\ Len(stack) \in 1..Len(stack)
  BY DEF TypeOK
<1>2. TopFrame \in Frame
  BY <1>1, SeqElement DEF TopFrame
<1> QED BY <1>1, <1>2 DEF Frame, TopFrame

(* Dropping the innermost frames. *)
LEMMA ShorterStack ==
    ASSUME TypeOK, NEW n \in {1, 2}
    PROVE  SubSeq(stack, 1, Len(stack) - n) \in Seq(Frame)
<1>1. stack \in Seq(Frame) /\ Len(stack) \in Nat
  BY DEF TypeOK
<1>2. 1 \in Int /\ Len(stack) - n \in Int
      /\ \A i \in 1..(Len(stack) - n) : stack[i] \in Frame
  BY <1>1
<1> QED BY <1>2, SubSeqProperties

(* What a run sees at the front of its queue: the first of the live events *)
(* it looks at, or none that is due.                                       *)
LEMMA RunFacts ==
    ASSUME Inv, RunOnStack
    PROVE  /\ StoreOK(Settled) /\ Settled.slots = store.slots
           /\ Settled.next_id = store.next_id
           /\ Live(Settled) = Live(store)
           /\ \A k \in Live(store) : LiveSlot(Settled, k) = LiveSlot(store, k)
           /\ ~Due => \A k \in Live(store) :
                        Seen(k) => LiveSlot(store, k).at > TopFrame.deadline
           /\ Due => LET e == Top(RunQueue)
                     IN  /\ e \in RunQueue /\ EntryLive(store.slots, e)
                         /\ e = EntryOf(store.slots, e.slot)
                         /\ e.id \in Live(store) /\ Seen(e.id)
                         /\ LiveSlot(store, e.id) = store.slots[e.slot]
                         /\ store.slots[e.slot].id = e.id
                         /\ e.at = store.slots[e.slot].at
                         /\ e.at <= TopFrame.deadline
                         /\ \A k \in Live(store) \ {e.id} : Seen(k) =>
                              Before(LiveSlot(store, e.id), LiveSlot(store, k))
<1>o. StoreOK(store) /\ store \in Store
  BY InvStore
<1>f. /\ stack # <<>> /\ TopFrame.kind \in {"global", "owner"}
      /\ TopFrame.owner \in EventOwner /\ TopFrame.deadline \in Time
  BY TopFrameTyped DEF Inv, RunOnStack
<1> DEFINE q0 == IF TopFrame.kind = "global" THEN store.events
                 ELSE store.owner_events[TopFrame.owner]
<1>1. /\ StoreOK(Settled) /\ Settled.slots = store.slots
      /\ Settled.next_id = store.next_id
      /\ Live(Settled) = Live(store)
      /\ \A k \in Live(store) : LiveSlot(Settled, k) = LiveSlot(store, k)
      /\ RunQueue = DiscardDeadFront(store.slots, q0)
  <2>1. CASE TopFrame.kind = "global"
    BY <2>1, <1>o, SettleEventsOK DEF Settled, RunQueue
  <2>2. CASE TopFrame.kind = "owner"
    BY <2>2, <1>o, <1>f, SettleOwnerOK DEF Settled, RunQueue
  <2> QED BY <2>1, <2>2, <1>f
<1>2. q0 \in SUBSET Entry /\ q0 \subseteq Entries(store)
  BY <1>o, <1>f DEF Store, Entries
<1>3. \A e, f \in q0 : e.sequence = f.sequence => e = f
  BY <1>2, <1>o DEF StoreOK, StoreConsistent, NumbersFresh
(* The entry of a live event that the run looks at is in its queue. *)
<1>4. ASSUME NEW k \in Live(store), Seen(k)
      PROVE  LET i == store.live_events[k]
             IN  /\ EntryOf(store.slots, i) \in q0
                 /\ EntryLive(store.slots, EntryOf(store.slots, i))
                 /\ EntryOf(store.slots, i).at = LiveSlot(store, k).at
                 /\ EntryOf(store.slots, i).sequence = LiveSlot(store, k).sequence
                 /\ EntryOf(store.slots, i).id = k
  <2> DEFINE i == store.live_events[k]
  <2>1. /\ i \in 1..Len(store.slots) /\ store.slots[i].state = "queued"
        /\ store.slots[i].id = k /\ LiveSlot(store, k) = store.slots[i]
    BY <1>o, LiveTyped
  <2> HIDE DEF i
  <2>2. /\ EntryOf(store.slots, i) \in store.events
        /\ EntryOf(store.slots, i) \in store.owner_events[store.slots[i].owner]
    BY <2>1, <1>o DEF StoreOK, StoreConsistent, QueuesComplete
  <2>3. EntryOf(store.slots, i) \in q0
    BY <2>1, <2>2, <1>4, <1>f DEF Seen
  <2>4. EntryLive(store.slots, EntryOf(store.slots, i))
    BY <2>1 DEF EntryLive, EntryOf
  <2> QED BY <2>1, <2>3, <2>4 DEF EntryOf, i
(* A live entry of the queue is the entry of a live event it looks at. *)
<1>5. ASSUME NEW e \in q0, EntryLive(store.slots, e)
      PROVE  /\ e = EntryOf(store.slots, e.slot)
             /\ e.id \in Live(store) /\ Seen(e.id)
             /\ LiveSlot(store, e.id) = store.slots[e.slot]
             /\ store.slots[e.slot].id = e.id
             /\ e.at = store.slots[e.slot].at
             /\ e.sequence = store.slots[e.slot].sequence
  <2>1. e = EntryOf(store.slots, e.slot)
    BY <1>2, <1>5, <1>o DEF StoreOK, StoreConsistent, QueuesSound
  <2>2. /\ e.slot \in 1..Len(store.slots) /\ store.slots[e.slot].state = "queued"
        /\ store.slots[e.slot].id = e.id
    BY <1>5 DEF EntryLive
  <2>3. e.id \in Live(store) /\ store.live_events[e.id] = e.slot
    BY <2>2, <1>o DEF StoreOK, StoreConsistent, IndexExact
  <2>4. LiveSlot(store, e.id) = store.slots[e.slot]
    BY <2>3 DEF LiveSlot
  <2>5. Seen(e.id)
    <3>1. CASE TopFrame.kind = "global"
      BY <3>1 DEF Seen
    <3>2. CASE TopFrame.kind = "owner"
      BY <3>2, <2>4, <1>5, <1>f, <1>o DEF Seen, StoreOK, StoreConsistent, QueuesSound
    <3> QED BY <3>1, <3>2, <1>f
  <2>6. e.at = store.slots[e.slot].at /\ e.sequence = store.slots[e.slot].sequence
    BY <2>1 DEF EntryOf
  <2> QED BY <2>1, <2>2, <2>3, <2>4, <2>5, <2>6
<1> HIDE DEF q0
<1>6. /\ RunQueue = {} => \A f \in q0 : ~EntryLive(store.slots, f)
      /\ RunQueue # {} => /\ Top(RunQueue) \in q0
                          /\ EntryLive(store.slots, Top(RunQueue))
                          /\ \A f \in q0 : EntryLive(store.slots, f) =>
                               f = Top(RunQueue) \/ Before(Top(RunQueue), f)
  BY <1>1, <1>2, <1>3, FrontIsFirst
<1>7. RunQueue # {} => Top(RunQueue) \in RunQueue
  BY <1>1, <1>2, <1>6, DiscardKeepsLive
<1>8. ASSUME RunQueue # {}, NEW k \in Live(store) \ {Top(RunQueue).id}, Seen(k)
      PROVE  Before(LiveSlot(store, Top(RunQueue).id), LiveSlot(store, k))
  <2> DEFINE e == Top(RunQueue)
             f == EntryOf(store.slots, store.live_events[k])
  <2>1. e \in q0 /\ EntryLive(store.slots, e)
    BY <1>6, <1>8
  <2>2. /\ e.at = LiveSlot(store, e.id).at
        /\ e.sequence = LiveSlot(store, e.id).sequence
    BY <2>1, <1>5
  <2>3. /\ f \in q0 /\ EntryLive(store.slots, f) /\ f.id = k
        /\ f.at = LiveSlot(store, k).at /\ f.sequence = LiveSlot(store, k).sequence
    BY <1>4, <1>8
  <2>4. Before(e, f)
    BY <2>3, <1>6, <1>8
  <2> QED BY <2>2, <2>3, <2>4 DEF Before
<1>9. ASSUME ~Due, NEW k \in Live(store), Seen(k)
      PROVE  LiveSlot(store, k).at > TopFrame.deadline
  <2> DEFINE f == EntryOf(store.slots, store.live_events[k])
  <2>1. /\ f \in q0 /\ EntryLive(store.slots, f) /\ f.at = LiveSlot(store, k).at
    BY <1>4, <1>9
  <2>2. RunQueue # {} /\ Top(RunQueue) \in q0
    BY <2>1, <1>6
  <2>3. ~(Top(RunQueue).at <= TopFrame.deadline)
    BY <2>2, <1>9 DEF Due
  <2>4. f = Top(RunQueue) \/ Before(Top(RunQueue), f)
    BY <2>1, <2>2, <1>6
  <2>5. /\ Top(RunQueue).at \in Nat /\ f.at \in Nat
        /\ TopFrame.deadline \in Nat
    BY <2>1, <2>2, <1>2, <1>f DEF Entry, Time
  <2> QED BY <2>1, <2>3, <2>4, <2>5 DEF Before
<1> QED BY <1>1, <1>5, <1>6, <1>7, <1>8, <1>9 DEF Due

(* What invoke does to the events: the first one due leaves, nothing else  *)
(* changes.                                                                *)
LEMMA InvokeFacts ==
    ASSUME Inv, Invoke
    PROVE  LET id == Top(RunQueue).id
               slot == LiveSlot(store, id)
           IN  /\ RunOnStack /\ Due /\ stack # <<>>
               /\ id \in Live(store) /\ Seen(id) /\ slot \in Slot /\ slot.id = id
               /\ slot = Settled.slots[Top(RunQueue).slot]
               /\ Top(RunQueue).at = slot.at
               /\ slot.at <= TopFrame.deadline
               /\ \A k \in Live(store) \ {id} : Seen(k) =>
                    Before(slot, LiveSlot(store, k))
               /\ StoreOK(store')
               /\ Live(store') = Live(store) \ {id}
               /\ \A k \in Live(store') : LiveSlot(store', k) = LiveSlot(store, k)
               /\ store'.next_id = store.next_id
               /\ fate' = [fate EXCEPT ![id] = "ran"]
<1> DEFINE e == Top(RunQueue)
           slot == Settled.slots[e.slot]
<1>1. RunOnStack /\ Due /\ stack # <<>>
  BY DEF Invoke, RunOnStack
<1>2. /\ StoreOK(Settled) /\ Settled.slots = store.slots
      /\ Settled.next_id = store.next_id
      /\ Live(Settled) = Live(store)
      /\ \A k \in Live(store) : LiveSlot(Settled, k) = LiveSlot(store, k)
      /\ e \in RunQueue /\ EntryLive(Settled.slots, e)
      /\ e.id \in Live(store) /\ Seen(e.id)
      /\ LiveSlot(store, e.id) = slot /\ slot.id = e.id
      /\ e.at = slot.at /\ e.at <= TopFrame.deadline
      /\ \A k \in Live(store) \ {e.id} : Seen(k) =>
           Before(LiveSlot(store, e.id), LiveSlot(store, k))
  BY <1>1, RunFacts
<1>3. LiveSlot(store, e.id) \in Slot
  BY <1>2, InvStore, LiveTyped
<1>4. /\ StoreOK(store')
      /\ Live(store') = Live(Settled) \ {slot.id}
      /\ \A k \in Live(store') : LiveSlot(store', k) = LiveSlot(Settled, k)
      /\ store'.next_id = Settled.next_id
  <2>1. CASE TopFrame.kind = "global"
    <3>1. /\ store' = Retire(PopEvents(Settled, e), e.slot, Settled.slots[e.slot].id)
          /\ e \in Settled.events
      BY <2>1, <1>2 DEF Invoke, RunQueue
    <3> QED BY <3>1, <1>2, TakeEventsOK
  <2>2. CASE TopFrame.kind = "owner"
    <3>1. /\ store' = Retire(PopOwner(Settled, TopFrame.owner, e), e.slot,
                             Settled.slots[e.slot].id)
          /\ e \in Settled.owner_events[TopFrame.owner]
          /\ TopFrame.owner \in EventOwner
      BY <2>2, <1>1, <1>2, TopFrameTyped DEF Invoke, RunQueue, Inv
    <3> QED BY <3>1, <1>2, TakeOwnerOK
  <2> QED BY <2>1, <2>2, <1>1 DEF RunOnStack
<1>5. fate' = [fate EXCEPT ![e.id] = "ran"]
  BY <1>2 DEF Invoke
<1> HIDE DEF e
<1> QED BY <1>1, <1>2, <1>3, <1>4, <1>5 DEF e

(* What each client call does to the events. *)
LEMMA ScheduleFacts ==
    ASSUME Inv, NEW at \in Time, NEW local \in Localities,
           NEW h \in Binding, NEW old \in {0} \cup EventId,
           CanAllocate(store),
           store' = Insert(CancelId(store, old), at, serial_active_owner, local, h)
    PROVE  /\ StoreOK(store') /\ store.next_id \in EventId
           /\ store.next_id \notin Live(store)
           /\ Live(store') = (Live(store) \ {old}) \cup {store.next_id}
           /\ \A k \in Live(store) \ {old} : LiveSlot(store', k) = LiveSlot(store, k)
           /\ LiveSlot(store', store.next_id).at = at
           /\ LiveSlot(store', store.next_id).owner = serial_active_owner
           /\ LiveSlot(store', store.next_id).handle = h
           /\ store'.next_id = store.next_id + 1
<1> DEFINE c == CancelId(store, old)
<1>1. /\ StoreOK(c) /\ Live(c) = Live(store) \ {old}
      /\ \A k \in Live(c) : LiveSlot(c, k) = LiveSlot(store, k)
      /\ c.next_id = store.next_id
  BY InvStore, CancelOK
<1>2. CanAllocate(c) /\ local \in BOOLEAN /\ serial_active_owner \in EventOwner
  BY <1>1, LocalityAssumption DEF CanAllocate, Inv, TypeOK
<1> HIDE DEF c
<1>3. /\ StoreOK(store')
      /\ c.next_id \in EventId \ Live(c)
      /\ Live(store') = Live(c) \cup {c.next_id}
      /\ \A k \in Live(c) : LiveSlot(store', k) = LiveSlot(c, k)
      /\ LiveSlot(store', c.next_id) = NewSlot(c, at, serial_active_owner, local, h)
      /\ store'.next_id = c.next_id + 1
  BY <1>1, <1>2, InsertOK DEF c
<1>4. store.next_id \notin Live(store)
  <2>1. ASSUME store.next_id \in Live(store) PROVE FALSE
    <3>1. store.next_id < store.next_id /\ store.next_id \in Nat
      BY <2>1, InvStore, LiveTyped DEF Store
    <3> QED BY <3>1
  <2> QED BY <2>1
<1> QED BY <1>1, <1>3, <1>4 DEF NewSlot

LEMMA InitInv == Init => Inv
<1> SUFFICES ASSUME Init PROVE Inv
  OBVIOUS
<1>1. StoreOK(store)
  BY EmptyOK DEF Init
<1>2. 0 \in Time /\ Shared \in EventOwner
  BY BoundAssumption DEF Time, EventOwner
<1>3. <<>> \in Seq(Frame)
  OBVIOUS
<1> QED BY <1>1, <1>2, <1>3 DEF Init, Inv, TypeOK, StoreInvariant, StoreOK

(* One step of any client or of the dispatcher. *)
LEMMA NextInv == Inv /\ [Next]_vars => Inv'
<1> SUFFICES ASSUME Inv, [Next]_vars PROVE Inv'
  OBVIOUS
<1>o. StoreOK(store) /\ store \in Store /\ TypeOK
  BY InvStore DEF Inv
<1> USE DEF Inv, StoreInvariant
<1>1. ASSUME NEW at \in Time, NEW local \in Localities, Schedule(at, local)
      PROVE  Inv'
  <2>1. store' = Insert(CancelId(store, 0), at, serial_active_owner, local, NoHandle)
    BY <1>1 DEF Schedule, CancelId, Live, EventId
  <2>2. StoreOK(store') /\ store.next_id \in EventId
    BY <2>1, <1>1, ScheduleFacts DEF Schedule, Binding
  <2> QED BY <2>2, <1>1, <1>o DEF Schedule, ClientUnchanged, TypeOK, StoreOK
<1>2. ASSUME NEW id \in EventId, Cancel(id) PROVE Inv'
  <2>1. StoreOK(store')
    BY <1>2, <1>o, CancelOK DEF Cancel
  <2> QED BY <2>1, <1>2, <1>o
          DEF Cancel, FateAfterCancel, ClientUnchanged, TypeOK, StoreOK
<1>3. ASSUME NEW h \in Handles, HandleCancel(h) PROVE Inv'
  <2>1. StoreOK(store')
    BY <1>3, <1>o, CancelOK DEF HandleCancel
  <2>2. fate' \in [EventId -> {"unused", "pending", "ran", "cancelled"}]
    BY <1>3, <1>o DEF HandleCancel, FateAfterCancel, TypeOK
  <2>3. handles' \in [Handles -> {0} \cup EventId]
    BY <1>3, <1>o DEF HandleCancel, TypeOK
  <2> QED BY <2>1, <2>2, <2>3, <1>3, <1>o
          DEF HandleCancel, ClientUnchanged, TypeOK, StoreOK
<1>4. ASSUME NEW h \in Handles, NEW at \in Time, NEW local \in Localities,
             HandleSchedule(h, at, local)
      PROVE  Inv'
  <2>1. StoreOK(store') /\ store.next_id \in EventId
    <3>1. handles[h] \in {0} \cup EventId /\ h \in Binding
      BY <1>o DEF TypeOK, Binding
    <3> QED BY <3>1, <1>4, ScheduleFacts DEF HandleSchedule
  <2>2. fate' \in [EventId -> {"unused", "pending", "ran", "cancelled"}]
    BY <2>1, <1>4, <1>o DEF HandleSchedule, FateAfterCancel, TypeOK
  <2>3. handles' \in [Handles -> {0} \cup EventId]
    BY <2>1, <1>4, <1>o DEF HandleSchedule, TypeOK
  <2> QED BY <2>1, <2>2, <2>3, <1>4, <1>o
          DEF HandleSchedule, ClientUnchanged, TypeOK, StoreOK
<1>5. CASE Clear
  <2>1. StoreOK(store')
    BY <1>5, <1>o, ClearOK DEF Clear
  <2> QED BY <2>1, <1>5, <1>o DEF Clear, ClientUnchanged, TypeOK, StoreOK
<1>6. ASSUME NEW m \in SameTimeLimits, SetMaximumSameTimeEvents(m) PROVE Inv'
  BY <1>6, <1>o DEF SetMaximumSameTimeEvents, TypeOK, StoreOK
<1>7. CASE NextScheduledTime
  <2>1. StoreOK(store')
    BY <1>7, <1>o, SettleEventsOK DEF NextScheduledTime, Query
  <2> QED BY <2>1, <1>7, <1>o
          DEF NextScheduledTime, Query, ClientUnchanged, TypeOK, StoreOK
<1>8. ASSUME NEW o \in EventOwner, NextScheduledTimeOf(o) PROVE Inv'
  <2>1. StoreOK(store')
    BY <1>8, <1>o, SettleOwnerOK DEF NextScheduledTimeOf, Query
  <2> QED BY <2>1, <1>8, <1>o
          DEF NextScheduledTimeOf, Query, ClientUnchanged, TypeOK, StoreOK
<1>9. ASSUME NEW o \in EventOwner, NextObservationTime(o) PROVE Inv'
  <2>1. StoreOK(SettleOwner(store, o))
    BY <1>o, SettleOwnerOK
  <2>2. StoreOK(store')
    BY <2>1, <1>9, SettleObservedOK DEF NextObservationTime, Query
  <2> QED BY <2>2, <1>9, <1>o
          DEF NextObservationTime, Query, ClientUnchanged, TypeOK, StoreOK
<1>10. ASSUME NEW o \in EventOwner, UseOwner(o) PROVE Inv'
  <2>1. ContextFrame("scope", o) \in Frame
    BY <1>o, ContextFrameTyped
  <2>2. stack' \in Seq(Frame)
    BY <2>1, <1>10, <1>o DEF UseOwner, Push, TypeOK
  <2> QED BY <2>2, <1>10, <1>o DEF UseOwner, TypeOK, StoreOK
<1>11. CASE EndOwnerScope \/ CallbackReturns \/ CallbackThrows
  <2>1. stack # <<>> /\ serial_active_owner' = TopFrame.previous
    BY <1>11 DEF EndOwnerScope, CallbackReturns, CallbackThrows, RunOnTop
  <2>2. serial_active_owner' \in EventOwner
    BY <2>1, <1>o, TopFrameTyped
  <2>3. stack' \in Seq(Frame)
    BY <1>11, <1>o, ShorterStack
       DEF EndOwnerScope, CallbackReturns, CallbackThrows, Popped
  <2>4. UNCHANGED <<store, shared_now, owner_now, maximum_same_time_events,
                    handles, fate>>
    BY <1>11 DEF EndOwnerScope, CallbackReturns, CallbackThrows
  <2> QED BY <2>2, <2>3, <2>4, <1>o DEF TypeOK, StoreOK
<1>12. ASSUME NEW d \in Time, RunDueEvents(d) PROVE Inv'
  <2>1. RunFrame("global", Shared, d) \in Frame
    BY RunFrameTyped DEF EventOwner
  <2>2. stack' \in Seq(Frame)
    BY <2>1, <1>12, <1>o DEF RunDueEvents, Push, TypeOK
  <2> QED BY <2>2, <1>12, <1>o DEF RunDueEvents, TypeOK, StoreOK
<1>13. ASSUME NEW o \in EventOwner, NEW d \in Time, RunOwnedEvents(o, d)
       PROVE  Inv'
  <2>1. RunFrame("owner", o, d) \in Frame
    BY RunFrameTyped
  <2>2. stack' \in Seq(Frame)
    BY <2>1, <1>13, <1>o DEF RunOwnedEvents, Push, TypeOK
  <2> QED BY <2>2, <1>13, <1>o DEF RunOwnedEvents, TypeOK, StoreOK
<1>14. CASE RunCompletes \/ RunStopsAtLimit
  <2>1. RunOnStack /\ stack # <<>>
    BY <1>14 DEF RunCompletes, RunStopsAtLimit, RunOnStack
  <2>2. PICK t \in Time : ReturnAt(t)
    <3>1. CASE RunCompletes
      BY <3>1, <2>1, <1>o, TopFrameTyped DEF RunCompletes
    <3>2. CASE RunStopsAtLimit
      <4>1. /\ Due /\ ReturnAt(Top(RunQueue).at)
        BY <3>2 DEF RunStopsAtLimit
      <4>2. /\ Top(RunQueue).id \in Live(store)
            /\ LiveSlot(store, Top(RunQueue).id).at = Top(RunQueue).at
        BY <4>1, <2>1, RunFacts
      <4>3. LiveSlot(store, Top(RunQueue).id) \in Slot
        BY <4>2, <1>o, LiveTyped
      <4> QED BY <4>1, <4>2, <4>3 DEF Slot
    <3> QED BY <3>1, <3>2, <1>14
  <2>3. StoreOK(store')
    BY <2>1, <2>2, RunFacts DEF ReturnAt
  <2>4. stack' \in Seq(Frame)
    BY <2>2, <1>o, ShorterStack DEF ReturnAt, Popped
  <2>5. TopFrame.owner \in EventOwner
    BY <2>1, <1>o, TopFrameTyped
  <2>6. shared_now' \in Time /\ owner_now' \in [Owners -> Time]
    BY <2>2, <2>5, <1>o DEF ReturnAt, SetTime, TypeOK, EventOwner
  <2> QED BY <2>2, <2>3, <2>4, <2>6, <1>o DEF ReturnAt, TypeOK, StoreOK
<1>15. CASE Invoke
  <2> DEFINE e == Top(RunQueue)
             slot == LiveSlot(store, e.id)
  <2>1. /\ stack # <<>> /\ e.id \in Live(store) /\ slot \in Slot /\ slot.id = e.id
        /\ slot = Settled.slots[e.slot] /\ e.at = slot.at
        /\ StoreOK(store') /\ fate' = [fate EXCEPT ![e.id] = "ran"]
    BY <1>15, InvokeFacts
  <2>2. /\ handles' = HandlesAfter(slot)
        /\ shared_now' \in {slot.at, shared_now}
        /\ owner_now' = OwnerClocksAfter(slot)
        /\ serial_active_owner' = slot.owner
        /\ stack' = Append([stack EXCEPT ![Len(stack)].counted = e.at,
                                         ![Len(stack)].count = CountAt(e.at) + 1],
                           ContextFrame("callback", slot.owner))
        /\ maximum_same_time_events' = maximum_same_time_events
    BY <2>1, <1>15 DEF Invoke
  <2> HIDE DEF slot, e
  <2>3. /\ slot.at \in Time /\ slot.owner \in EventOwner
        /\ slot.handle \in Binding /\ slot.id \in EventId
    BY <2>1 DEF Slot
  <2>4. fate' \in [EventId -> {"unused", "pending", "ran", "cancelled"}]
    BY <2>1, <2>3, <1>o DEF TypeOK
  <2>5. handles' \in [Handles -> {0} \cup EventId]
    BY <2>2, <2>3, <1>o DEF HandlesAfter, TypeOK, Binding
  <2>6. shared_now' \in Time /\ owner_now' \in [Owners -> Time]
    BY <2>2, <2>3, <1>o DEF OwnerClocksAfter, TypeOK, EventOwner
  <2>7. stack' \in Seq(Frame)
    <3> DEFINE n == Len(stack)
               top == [stack[n] EXCEPT !.counted = e.at, !.count = CountAt(e.at) + 1]
               u == [stack EXCEPT ![n].counted = e.at, ![n].count = CountAt(e.at) + 1]
    <3>1. /\ TopFrame \in Frame /\ n \in 1..n /\ TopFrame = stack[n]
          /\ TopFrame.count \in Nat
      BY <2>1, <1>o, TopFrameTyped
    <3>2. CountAt(e.at) + 1 \in Nat
      BY <3>1 DEF CountAt
    <3>3. top \in Frame
      BY <3>1, <3>2, <2>1, <2>3 DEF Frame
    <3>4. u = [stack EXCEPT ![n] = top]
      BY <3>1, <1>o DEF TypeOK
    <3>a. stack \in Seq(Frame)
      BY <1>o DEF TypeOK
    <3> HIDE DEF top, u
    <3>b. n \in 1..Len(stack)
      BY <3>1
    <3>5. u \in Seq(Frame)
      BY <3>a, <3>b, <3>3, <3>4, SeqUpdate
    <3>6. ContextFrame("callback", slot.owner) \in Frame
      BY <2>3, <1>o, ContextFrameTyped
    <3>7. stack' = Append(u, ContextFrame("callback", slot.owner))
      BY <2>2 DEF u
    <3> HIDE DEF n
    <3> QED BY <3>5, <3>6, <3>7
  <2> QED BY <2>1, <2>2, <2>3, <2>4, <2>5, <2>6, <2>7, <1>o DEF TypeOK, StoreOK
<1>16. CASE UNCHANGED vars
  BY <1>16, <1>o DEF vars, TypeOK, StoreOK
<1> QED
  BY <1>1, <1>2, <1>3, <1>4, <1>5, <1>6, <1>7, <1>8, <1>9, <1>10, <1>11, <1>12,
     <1>13, <1>14, <1>15, <1>16 DEF Next, ClientStep, DispatchStep

(* For every client, every number of owners, handles and events, and any   *)
(* depth of nested runs, the event loop keeps its types, and slots, free   *)
(* list, live_events and queues stay consistent.                           *)
THEOREM StorageCorrect == Spec => [](TypeOK /\ StoreInvariant)
BY InitInv, NextInv, PTL DEF Spec, Inv

-----------------------------------------------------------------------------
(* The effect of a step on the events and the handles: every step of every *)
(* client is one of these five.                                            *)
SlotsKept == \A k \in Live(store) \cap Live(store') :
                 LiveSlot(store', k) = LiveSlot(store, k)

Quiet ==
    /\ Live(store') = Live(store) /\ store'.next_id = store.next_id
    /\ fate' = fate /\ handles' = handles

Dropped(id) ==
    /\ Live(store') = Live(store) \ {id} /\ store'.next_id = store.next_id
    /\ fate' = FateAfterCancel(id)
    /\ \/ handles' = handles
       \/ \E h \in Handles : /\ handles[h] = id
                             /\ handles' = [handles EXCEPT ![h] = 0]

(* The new event belongs to the current owner and is not in its past.      *)
NewEventAhead ==
    /\ LiveSlot(store', store.next_id).owner = serial_active_owner
    /\ LiveSlot(store', store.next_id).at >= TimeFor(serial_active_owner)

Added(h, old) ==
    /\ NewEventAhead
    /\ store.next_id \in EventId /\ store.next_id \notin Live(store)
    /\ Live(store') = (Live(store) \ {old}) \cup {store.next_id}
    /\ store'.next_id = store.next_id + 1
    /\ LiveSlot(store', store.next_id).handle = h
    /\ fate' = [FateAfterCancel(old) EXCEPT ![store.next_id] = "pending"]
    /\ IF h = NoHandle THEN old = 0 /\ handles' = handles
       ELSE old = handles[h] /\ handles' = [handles EXCEPT ![h] = store.next_id]

Cleared ==
    /\ Live(store') = {} /\ store'.next_id = store.next_id
    /\ fate' = [i \in EventId |->
                  IF fate[i] = "pending" THEN "cancelled" ELSE fate[i]]
    /\ handles' = handles

Ran(id) ==
    /\ id \in Live(store)
    /\ Live(store') = Live(store) \ {id} /\ store'.next_id = store.next_id
    /\ fate' = [fate EXCEPT ![id] = "ran"]
    /\ handles' = HandlesAfter(LiveSlot(store, id))

Effects ==
    \/ Quiet
    \/ \E id \in EventId : Dropped(id)
    \/ \E h \in Binding, old \in {0} \cup EventId : Added(h, old)
    \/ Cleared
    \/ Invoke /\ Ran(Top(RunQueue).id)

LEMMA StepEffects ==
    ASSUME Inv, [Next]_vars PROVE SlotsKept /\ Effects
<1>o. StoreOK(store) /\ store \in Store /\ TypeOK
  BY InvStore DEF Inv
<1>1. ASSUME NEW at \in Time, NEW local \in Localities, Schedule(at, local)
      PROVE  SlotsKept /\ Added(NoHandle, 0)
  <2>1. store' = Insert(CancelId(store, 0), at, serial_active_owner, local, NoHandle)
    BY <1>1 DEF Schedule, CancelId, Live, EventId
  <2>2. 0 \notin Live(store) /\ 0 \notin EventId
    BY DEF Live, EventId
  <2>3. /\ store.next_id \in EventId /\ store.next_id \notin Live(store)
        /\ Live(store') = (Live(store) \ {0}) \cup {store.next_id}
        /\ \A k \in Live(store) \ {0} : LiveSlot(store', k) = LiveSlot(store, k)
        /\ store'.next_id = store.next_id + 1
        /\ LiveSlot(store', store.next_id).handle = NoHandle
        /\ NewEventAhead
    BY <2>1, <1>1, ScheduleFacts DEF Schedule, Binding, NewEventAhead
  <2> QED BY <2>2, <2>3, <1>1 DEF Schedule, SlotsKept, Added, FateAfterCancel
<1>2. ASSUME NEW id \in EventId, Cancel(id) PROVE SlotsKept /\ Dropped(id)
  BY <1>2, <1>o, CancelOK DEF Cancel, SlotsKept, Dropped
<1>3. ASSUME NEW h \in Handles, HandleCancel(h)
      PROVE  SlotsKept /\ Dropped(handles[h]) /\ handles[h] \in EventId
  BY <1>3, <1>o, CancelOK DEF HandleCancel, SlotsKept, Dropped, TypeOK
<1>4. ASSUME NEW h \in Handles, NEW at \in Time, NEW local \in Localities,
             HandleSchedule(h, at, local)
      PROVE  /\ SlotsKept /\ Added(h, handles[h])
             /\ h \in Binding /\ handles[h] \in {0} \cup EventId
  <2>1. handles[h] \in {0} \cup EventId /\ h \in Binding /\ h # NoHandle
    BY <1>o, HandleAssumption DEF TypeOK, Binding
  <2>2. /\ store.next_id \in EventId /\ store.next_id \notin Live(store)
        /\ Live(store') = (Live(store) \ {handles[h]}) \cup {store.next_id}
        /\ \A k \in Live(store) \ {handles[h]} :
              LiveSlot(store', k) = LiveSlot(store, k)
        /\ store'.next_id = store.next_id + 1
        /\ LiveSlot(store', store.next_id).handle = h
        /\ NewEventAhead
    BY <2>1, <1>4, ScheduleFacts DEF HandleSchedule, NewEventAhead
  <2> QED BY <2>1, <2>2, <1>4 DEF HandleSchedule, SlotsKept, Added
<1>5. CASE Clear
  BY <1>5, <1>o, ClearOK DEF Clear, SlotsKept, Effects, Cleared
<1>6. CASE NextScheduledTime
  BY <1>6, <1>o, SettleEventsOK
     DEF NextScheduledTime, Query, SlotsKept, Effects, Quiet
<1>7. ASSUME NEW o \in EventOwner, NextScheduledTimeOf(o)
      PROVE  SlotsKept /\ Effects
  BY <1>7, <1>o, SettleOwnerOK
     DEF NextScheduledTimeOf, Query, SlotsKept, Effects, Quiet
<1>8. ASSUME NEW o \in EventOwner, NextObservationTime(o)
      PROVE  SlotsKept /\ Effects
  <2>1. /\ StoreOK(SettleOwner(store, o))
        /\ SettleOwner(store, o).next_id = store.next_id
        /\ Live(SettleOwner(store, o)) = Live(store)
        /\ \A k \in Live(store) :
              LiveSlot(SettleOwner(store, o), k) = LiveSlot(store, k)
    BY <1>o, SettleOwnerOK
  <2> QED BY <2>1, <1>8, SettleObservedOK
          DEF NextObservationTime, Query, SlotsKept, Effects, Quiet
<1>9. CASE RunCompletes \/ RunStopsAtLimit
  <2>1. RunOnStack /\ store' = Settled /\ fate' = fate /\ handles' = handles
    BY <1>9 DEF RunCompletes, RunStopsAtLimit, ReturnAt
  <2> QED BY <2>1, RunFacts DEF SlotsKept, Effects, Quiet
<1>10. CASE Invoke
  <2>1. /\ Top(RunQueue).id \in Live(store)
        /\ LiveSlot(store, Top(RunQueue).id) = Settled.slots[Top(RunQueue).slot]
        /\ Live(store') = Live(store) \ {Top(RunQueue).id}
        /\ \A k \in Live(store') : LiveSlot(store', k) = LiveSlot(store, k)
        /\ store'.next_id = store.next_id
        /\ fate' = [fate EXCEPT ![Top(RunQueue).id] = "ran"]
    BY <1>10, InvokeFacts
  <2>2. handles' = HandlesAfter(LiveSlot(store, Top(RunQueue).id))
    BY <2>1, <1>10 DEF Invoke
  <2> QED BY <2>1, <2>2, <1>10 DEF SlotsKept, Effects, Ran
<1>11. ASSUME UNCHANGED <<store, handles, fate>> PROVE SlotsKept /\ Effects
  BY <1>11 DEF SlotsKept, Effects, Quiet
<1>12. ASSUME \/ \E m \in SameTimeLimits : SetMaximumSameTimeEvents(m)
              \/ \E o \in EventOwner : UseOwner(o)
              \/ EndOwnerScope \/ CallbackReturns \/ CallbackThrows
              \/ \E d \in Time : RunDueEvents(d)
              \/ \E o \in EventOwner, d \in Time : RunOwnedEvents(o, d)
              \/ UNCHANGED vars
       PROVE  UNCHANGED <<store, handles, fate>>
  BY <1>12 DEF SetMaximumSameTimeEvents, UseOwner, EndOwnerScope, CallbackReturns,
               CallbackThrows, RunDueEvents, RunOwnedEvents, vars
<1>13. NoHandle \in Binding /\ 0 \in {0} \cup EventId
  BY DEF Binding
<1>14. CASE ClientStep
  <2>1. CASE \E at \in Time, local \in Localities : Schedule(at, local)
    BY <2>1, <1>1, <1>13 DEF Effects
  <2>2. CASE \E id \in EventId : Cancel(id)
    BY <2>2, <1>2 DEF Effects
  <2>3. CASE \E h \in Handles : HandleCancel(h)
    BY <2>3, <1>3 DEF Effects
  <2>4. CASE \E h \in Handles, at \in Time, local \in Localities :
                HandleSchedule(h, at, local)
    BY <2>4, <1>4 DEF Effects
  <2> QED BY <1>14, <2>1, <2>2, <2>3, <2>4, <1>5, <1>6, <1>7, <1>8, <1>11, <1>12
          DEF ClientStep
<1> QED BY <1>9, <1>10, <1>11, <1>12, <1>14 DEF Next, DispatchStep

-----------------------------------------------------------------------------
(* An event runs only in invoke, and it is the one at the front.           *)
LEMMA RunsInInvoke ==
    ASSUME Inv, [Next]_vars, NEW id \in EventId, RunsNow(id)
    PROVE  Invoke /\ id = Top(RunQueue).id
<1>2. fate[id] = "pending" /\ fate'[id] = "ran"
  BY DEF RunsNow
<1>3. fate \in [EventId -> {"unused", "pending", "ran", "cancelled"}]
  BY DEF Inv, TypeOK
<1>4. Invoke /\ Ran(Top(RunQueue).id)
  <2>1. Effects
    BY StepEffects
  <2>2. ~Quiet
    BY <1>2, <1>3 DEF Quiet
  <2>3. ASSUME NEW k \in EventId PROVE ~Dropped(k)
    BY <1>2, <1>3 DEF Dropped, FateAfterCancel
  <2>4. ASSUME NEW h \in Binding, NEW old \in {0} \cup EventId
        PROVE  ~Added(h, old)
    BY <1>2, <1>3 DEF Added, FateAfterCancel
  <2>5. ~Cleared
    BY <1>2, <1>3 DEF Cleared
  <2> QED BY <2>1, <2>2, <2>3, <2>4, <2>5 DEF Effects
<1> QED BY <1>2, <1>3, <1>4 DEF Ran

(* Every run of every client invokes the first of the live events it looks *)
(* at, and only events that are due.                                       *)
THEOREM DispatchInOrder == Spec => DispatchOrder
<1> DEFINE Step ==
        \A id \in EventId : RunsNow(id) =>
          /\ Seen(id)
          /\ LiveSlot(store, id).at <= TopFrame.deadline
          /\ \A other \in Live(store) \ {id} :
                Seen(other) => Before(LiveSlot(store, id), LiveSlot(store, other))
<1>1. ASSUME Inv, [Next]_vars PROVE Step
  <2>1. SUFFICES ASSUME NEW id \in EventId, RunsNow(id)
                 PROVE  /\ Seen(id)
                        /\ LiveSlot(store, id).at <= TopFrame.deadline
                        /\ \A other \in Live(store) \ {id} : Seen(other) =>
                             Before(LiveSlot(store, id), LiveSlot(store, other))
    OBVIOUS
  <2>2. Invoke /\ id = Top(RunQueue).id
    BY <1>1, <2>1, RunsInInvoke
  <2> QED BY <1>1, <2>2, InvokeFacts
<1> QED BY <1>1, InitInv, NextInv, PTL DEF Spec, DispatchOrder

(* What the storage holds, what the histories say and what the handles     *)
(* hold agree, and stay so.                                                *)
EventInv == Inv /\ FateExact /\ HandleExact

LEMMA EventInit == Init => EventInv
<1> SUFFICES ASSUME Init PROVE EventInv
  OBVIOUS
<1>1. Inv
  BY InitInv
<1>2. Live(store) = {} /\ store.next_id = 1
  BY DEF Init, EmptyStore, NoEvents, Live
<1> QED BY <1>1, <1>2 DEF Init, EventInv, FateExact, HandleExact, EventId

LEMMA EventNext == EventInv /\ [Next]_vars => EventInv'
<1> SUFFICES ASSUME EventInv, [Next]_vars PROVE EventInv'
  OBVIOUS
<1>i. Inv /\ Inv' /\ SlotsKept /\ Effects
  BY NextInv, StepEffects DEF EventInv
<1>t. /\ fate \in [EventId -> {"unused", "pending", "ran", "cancelled"}]
      /\ handles \in [Handles -> {0} \cup EventId]
      /\ store.next_id \in Nat /\ Live(store) \subseteq EventId
      /\ Live(store') \subseteq EventId
  BY <1>i DEF Inv, TypeOK, Store, Live
<1>b. /\ \A k \in Live(store) : k < store.next_id /\ LiveSlot(store, k) \in Slot
      /\ 0 \notin EventId /\ NoHandle \notin Handles
      /\ EventId \subseteq Nat
  BY <1>i, InvStore, LiveTyped, HandleAssumption DEF EventId
<1>f. /\ \A k \in EventId : fate[k] = "pending" <=> k \in Live(store)
      /\ \A k \in EventId : fate[k] = "unused" <=> k >= store.next_id
  BY DEF EventInv, FateExact
<1>h. /\ \A k \in Live(store) : LiveSlot(store, k).handle # NoHandle =>
            handles[LiveSlot(store, k).handle] = k
      /\ \A h \in Handles : handles[h] # 0 =>
            \/ fate[handles[h]] = "cancelled"
            \/ handles[h] \in Live(store) /\ LiveSlot(store, handles[h]).handle = h
  BY DEF EventInv, HandleExact
<1>s. \A k \in Live(store) \cap Live(store') :
          LiveSlot(store', k) = LiveSlot(store, k)
  BY <1>i DEF SlotsKept
<1> SUFFICES FateExact' /\ HandleExact'
  BY <1>i DEF EventInv
<1>1. CASE Quiet
  BY <1>1, <1>t, <1>f, <1>h, <1>s DEF Quiet, FateExact, HandleExact
<1>2. ASSUME NEW id \in EventId, Dropped(id) PROVE FateExact' /\ HandleExact'
  <2>1. FateExact'
    BY <1>2, <1>t, <1>f, <1>b DEF Dropped, FateAfterCancel, FateExact
  <2>2. \A k \in Live(store') : LiveSlot(store', k).handle # NoHandle =>
            handles'[LiveSlot(store', k).handle] = k
    BY <1>2, <1>t, <1>h, <1>s, <1>b DEF Dropped, Slot, Binding
  <2>3. ASSUME NEW h \in Handles, handles'[h] # 0
        PROVE  \/ fate'[handles'[h]] = "cancelled"
               \/ /\ handles'[h] \in Live(store')
                  /\ LiveSlot(store', handles'[h]).handle = h
    <3>1. handles'[h] = handles[h]
      BY <1>2, <2>3, <1>t DEF Dropped
    <3>2. \A k \in EventId : fate[k] = "cancelled" => fate'[k] = "cancelled"
      BY <1>2, <1>t DEF Dropped, FateAfterCancel
    <3>3. \A k \in Live(store) : k \in Live(store') \/ fate'[k] = "cancelled"
      BY <1>2, <1>t DEF Dropped, FateAfterCancel
    <3> QED BY <3>1, <3>2, <3>3, <2>3, <1>h, <1>s, <1>t
  <2> QED BY <2>1, <2>2, <2>3 DEF HandleExact
<1>3. ASSUME NEW h \in Binding, NEW old \in {0} \cup EventId, Added(h, old)
      PROVE  FateExact' /\ HandleExact'
  <2> DEFINE new == store.next_id
  <2>0. /\ new \in EventId /\ new \notin Live(store)
        /\ Live(store') = (Live(store) \ {old}) \cup {new}
        /\ store'.next_id = new + 1
        /\ fate' = [FateAfterCancel(old) EXCEPT ![new] = "pending"]
    BY <1>3 DEF Added
  <2>1. FateExact'
    BY <2>0, <1>t, <1>f, <1>b DEF FateAfterCancel, FateExact
  <2>2. /\ new \in EventId /\ fate[new] = "unused" /\ fate'[new] = "pending"
        /\ new \in Live(store') /\ LiveSlot(store', new).handle = h
        /\ Live(store') = (Live(store) \ {old}) \cup {new}
        /\ \A k \in EventId : fate[k] = "cancelled" => fate'[k] = "cancelled"
        /\ old \in Live(store) => fate'[old] = "cancelled"
    BY <1>3, <1>t, <1>f, <1>b DEF Added, FateAfterCancel
  <2>3. CASE h = NoHandle
    <3>1. old = 0 /\ handles' = handles
      BY <2>3, <1>3 DEF Added
    <3>2. Live(store') = Live(store) \cup {new}
      BY <3>1, <2>2, <1>t, <1>b
    <3>3. HandleExact'
      BY <3>1, <3>2, <2>2, <2>3, <1>h, <1>s, <1>t DEF HandleExact
    <3> QED BY <2>1, <3>3
  <2>4. CASE h \in Handles
    <3>1. old = handles[h] /\ handles' = [handles EXCEPT ![h] = new]
      BY <2>4, <1>3, <1>b DEF Added
    <3>2. \A k \in Live(store') : LiveSlot(store', k).handle # NoHandle =>
              handles'[LiveSlot(store', k).handle] = k
      BY <3>1, <2>2, <2>4, <1>h, <1>s, <1>t, <1>b DEF Slot, Binding
    <3>3. ASSUME NEW g \in Handles, handles'[g] # 0
          PROVE  \/ fate'[handles'[g]] = "cancelled"
                 \/ /\ handles'[g] \in Live(store')
                    /\ LiveSlot(store', handles'[g]).handle = g
      <4>1. CASE g = h
        BY <4>1, <3>1, <2>2, <2>4, <1>t
      <4>2. CASE g # h
        <5>1. handles'[g] = handles[g] /\ handles[g] \in EventId
          BY <4>2, <3>1, <3>3, <1>t
        <5>2. CASE fate[handles[g]] = "cancelled"
          BY <5>1, <5>2, <2>2
        <5>3. CASE handles[g] \in Live(store) /\ LiveSlot(store, handles[g]).handle = g
          <6>1. handles[g] \in Live(store') \/ fate'[handles[g]] = "cancelled"
            BY <5>3, <2>2
          <6> QED BY <6>1, <5>1, <5>3, <1>s
        <5> QED BY <5>1, <5>2, <5>3, <3>3, <1>h
      <4> QED BY <4>1, <4>2
    <3> QED BY <2>1, <3>2, <3>3 DEF HandleExact
  <2> QED BY <2>3, <2>4 DEF Binding
<1>4. CASE Cleared
  <2>1. FateExact'
    BY <1>4, <1>t, <1>f DEF Cleared, FateExact
  <2>2. \A k \in EventId : fate[k] \in {"cancelled", "pending"} => fate'[k] = "cancelled"
    BY <1>4, <1>t DEF Cleared
  <2>3. HandleExact'
    BY <2>2, <1>4, <1>t, <1>f, <1>h DEF Cleared, HandleExact
  <2> QED BY <2>1, <2>3
<1>5. ASSUME NEW id, Ran(id) PROVE FateExact' /\ HandleExact'
  <2>1. FateExact' /\ id \in EventId
    BY <1>5, <1>t, <1>f, <1>b DEF Ran, FateExact
  <2> DEFINE g == LiveSlot(store, id).handle
  <2>2. CASE g = NoHandle
    <3>1. handles' = handles
      BY <2>2, <1>5 DEF Ran, HandlesAfter
    <3>2. \A h \in Handles : handles[h] # id \/ fate[id] = "cancelled"
      BY <2>2, <2>1, <1>h, <1>b
    <3>3. HandleExact'
      BY <3>1, <3>2, <2>1, <1>5, <1>f, <1>h, <1>s, <1>t DEF Ran, HandleExact
    <3> QED BY <2>1, <3>3
  <2>3. CASE g # NoHandle
    <3>1. g \in Handles /\ handles[g] = id /\ handles' = [handles EXCEPT ![g] = 0]
      BY <2>3, <1>5, <1>h, <1>b DEF Ran, HandlesAfter, Slot, Binding
    <3>2. \A h \in Handles \ {g} : handles[h] # id
      BY <3>1, <2>1, <1>5, <1>h, <1>f, <1>b, <1>t DEF Ran
    <3>3. \A k \in Live(store') : LiveSlot(store', k).handle # NoHandle =>
              handles'[LiveSlot(store', k).handle] = k
      BY <3>1, <1>5, <1>h, <1>s, <1>t, <1>b DEF Ran, Slot, Binding
    <3>4. ASSUME NEW h \in Handles, handles'[h] # 0
          PROVE  \/ fate'[handles'[h]] = "cancelled"
                 \/ /\ handles'[h] \in Live(store')
                    /\ LiveSlot(store', handles'[h]).handle = h
      <4>1. h # g /\ handles'[h] = handles[h] /\ handles[h] # id
        BY <3>1, <3>2, <3>4, <1>t
      <4>2. /\ \A k \in EventId \ {id} : fate'[k] = fate[k]
            /\ Live(store') = Live(store) \ {id}
        BY <1>5, <1>t DEF Ran
      <4> QED BY <4>1, <4>2, <3>4, <1>h, <1>s, <1>t
    <3> QED BY <2>1, <3>3, <3>4 DEF HandleExact
  <2> QED BY <2>2, <2>3
<1> QED BY <1>i, <1>1, <1>2, <1>3, <1>4, <1>5 DEF Effects

(* An identifier is pending exactly while its event is live, is never      *)
(* handed out twice, and never both runs and is cancelled.                 *)
THEOREM FatesExact == Spec => []FateExact
BY EventInit, EventNext, PTL DEF Spec, EventInv

(* A ScheduledEvent never names an event that ran or that another handle   *)
(* scheduled.                                                              *)
THEOREM HandlesExact == Spec => []HandleExact
BY EventInit, EventNext, PTL DEF Spec, EventInv

-----------------------------------------------------------------------------
(* The refinement of EventQueue. *)
EventOf(s, id) ==
    [id |-> id, at |-> LiveSlot(s, id).at, sequence |-> LiveSlot(s, id).sequence,
     owner |-> LiveSlot(s, id).owner]

Pending(s) == {EventOf(s, id) : id \in Live(s)}

LEMMA EventTyped ==
    ASSUME NEW s, StoreOK(s), NEW id \in Live(s)
    PROVE  EventOf(s, id) \in Queue!Event
<1> DEFINE i == s.live_events[id]
<1>1. /\ id \in EventId /\ i \in 1..Len(s.slots)
      /\ LiveSlot(s, id) = s.slots[i] /\ LiveSlot(s, id) \in Slot
      /\ s.slots[i].state = "queued"
  BY LiveTyped
<1> HIDE DEF i
<1>2. EntryOf(s.slots, i) \in s.events
  BY <1>1 DEF StoreOK, StoreConsistent, QueuesComplete
<1>3. /\ EntryOf(s.slots, i).sequence < s.next_sequence
      /\ s.next_sequence < s.next_id /\ s.next_id <= MaxId + 1
      /\ s.next_sequence \in Nat /\ s.next_id \in Nat
  BY <1>2 DEF StoreOK, StoreConsistent, NumbersFresh, Entries, Store
<1>4. s.slots[i].sequence \in Nat /\ s.slots[i].sequence < s.next_sequence
  BY <1>1, <1>3 DEF EntryOf, Slot
<1>5. LiveSlot(s, id).sequence \in 0..MaxId
  BY <1>1, <1>3, <1>4, BoundAssumption
<1> QED BY <1>1, <1>5
        DEF EventOf, Slot, Queue!Event, Queue!EventId, Queue!Time,
            Queue!EventOwner, EventId, Time, EventOwner

LEMMA QueueStep == EventInv /\ [Next]_vars => [Queue!Next]_(Queue!vars)
<1> SUFFICES ASSUME EventInv, [Next]_vars PROVE [Queue!Next]_(Queue!vars)
  OBVIOUS
<1> DEFINE P == Pending(store)
           Q == Pending(store')
<1>p. P = {[id |-> id, at |-> LiveSlot(store, id).at,
            sequence |-> LiveSlot(store, id).sequence,
            owner |-> LiveSlot(store, id).owner] : id \in Live(store)}
  BY DEF Pending, EventOf
<1>q. Q = {[id |-> id, at |-> LiveSlot(store', id).at,
            sequence |-> LiveSlot(store', id).sequence,
            owner |-> LiveSlot(store', id).owner] : id \in Live(store')}
  BY DEF Pending, EventOf
<1>i. Inv /\ Inv' /\ SlotsKept /\ Effects
  BY NextInv, StepEffects DEF EventInv
<1>o. StoreOK(store) /\ StoreOK(store')
  BY <1>i DEF Inv, TypeOK, StoreInvariant, StoreOK
<1>t. /\ fate \in [EventId -> {"unused", "pending", "ran", "cancelled"}]
      /\ Live(store) \subseteq EventId /\ EventId = Queue!EventId
      /\ store.next_id \in Nat
  BY <1>i DEF Inv, TypeOK, Live, EventId, Queue!EventId, Store
<1>f. \A k \in EventId : fate[k] = "unused" <=> k >= store.next_id
  BY DEF EventInv, FateExact
(* Events that stay keep their data; the identifier identifies the event. *)
<1>s. \A k \in Live(store) \cap Live(store') : EventOf(store', k) = EventOf(store, k)
  BY <1>i DEF SlotsKept, EventOf
<1>u. \A k \in Live(store) : EventOf(store, k) \in P /\ EventOf(store, k).id = k
  BY DEF EventOf, Pending
<1>d. ASSUME NEW id \in Live(store), Live(store') = Live(store) \ {id}
      PROVE  Q = P \ {EventOf(store, id)}
  BY <1>d, <1>s, <1>u DEF Pending
<1>v. Queue!vars = <<P, fate>> /\ Queue!vars' = <<Q, fate'>>
  BY <1>p, <1>q DEF Queue!vars
<1>1. CASE Quiet
  <2>1. Q = P
    BY <1>1, <1>s DEF Quiet, Pending
  <2> QED BY <2>1, <1>1, <1>v DEF Quiet
<1>2. ASSUME NEW id \in EventId, Dropped(id) PROVE [Queue!Next]_(Queue!vars)
  <2>1. CASE id \in Live(store)
    <3>1. Q = P \ {EventOf(store, id)} /\ fate' = [fate EXCEPT ![id] = "cancelled"]
      BY <2>1, <1>2, <1>d DEF Dropped, FateAfterCancel
    <3>2. EventOf(store, id) \in P /\ EventOf(store, id).id = id
      BY <2>1, <1>u
    <3> HIDE DEF P, Q
    <3>3. PICK x \in P : x = EventOf(store, id)
      BY <3>2
    <3>4. Queue!Cancel(x)
      BY <3>1, <3>2, <3>3, <1>p, <1>q DEF Queue!Cancel
    <3> QED BY <3>4, <1>p DEF Queue!Next
  <2>2. CASE id \notin Live(store)
    <3>1. Q = P /\ fate' = fate
      BY <2>2, <1>2, <1>s DEF Dropped, FateAfterCancel, Pending
    <3> QED BY <3>1, <1>v
  <2> QED BY <2>1, <2>2
<1>3. ASSUME NEW h \in Binding, NEW old \in {0} \cup EventId, Added(h, old)
      PROVE  [Queue!Next]_(Queue!vars)
  <2> DEFINE new == store.next_id
             e == EventOf(store', new)
  <2>1. /\ new \in EventId /\ new \notin Live(store)
        /\ Live(store') = (Live(store) \ {old}) \cup {new}
        /\ fate' = [FateAfterCancel(old) EXCEPT ![new] = "pending"]
    BY <1>3 DEF Added
  <2>2. e \in Queue!Event /\ e.id = new
    BY <2>1, <1>o, EventTyped DEF EventOf
  <2>3. fate[new] = "unused"
    BY <2>1, <1>f, <1>t
  <2>4. CASE old \in Live(store)
    <3>1. Q = (P \ {EventOf(store, old)}) \cup {e}
      BY <2>1, <2>4, <1>s, <1>u DEF Pending
    <3>2. /\ EventOf(store, old) \in P /\ EventOf(store, old).id = old
      BY <2>4, <1>u
    <3>3. fate' = [fate EXCEPT ![old] = "cancelled", ![new] = "pending"]
      BY <2>1, <2>4 DEF FateAfterCancel
    <3> HIDE DEF P, Q, e
    <3>4. PICK x \in P, y \in Queue!Event : x = EventOf(store, old) /\ y = e
      BY <3>2, <2>2
    <3>5. Queue!Replace(x, y)
      BY <3>1, <3>2, <3>3, <3>4, <2>2, <2>3, <1>p, <1>q DEF Queue!Replace
    <3> QED BY <3>5, <1>p DEF Queue!Next
  <2>5. CASE old \notin Live(store)
    <3>1. Q = P \cup {e}
      BY <2>1, <2>5, <1>s DEF Pending
    <3>2. fate' = [fate EXCEPT ![new] = "pending"]
      BY <2>1, <2>5 DEF FateAfterCancel
    <3> HIDE DEF P, Q, e
    <3>3. PICK x \in Queue!Event : x = e
      BY <2>2
    <3>4. Queue!Schedule(x)
      BY <3>1, <3>2, <3>3, <2>2, <2>3, <1>p, <1>q DEF Queue!Schedule
    <3> QED BY <3>4 DEF Queue!Next
  <2> QED BY <2>4, <2>5
<1>4. CASE Cleared
  <2>1. Q = {}
    BY <1>4 DEF Cleared, Pending
  <2> HIDE DEF P, Q
  <2>2. Queue!Clear
    BY <2>1, <1>4, <1>q, <1>t DEF Cleared, Queue!Clear
  <2> QED BY <2>2 DEF Queue!Next
<1>5. CASE Invoke /\ Ran(Top(RunQueue).id)
  <2> DEFINE id == Top(RunQueue).id
             e == EventOf(store, id)
  <2>1. /\ id \in Live(store) /\ Q = P \ {e} /\ fate' = [fate EXCEPT ![id] = "ran"]
    BY <1>5, <1>d DEF Ran
  <2>2. e \in P /\ e.id = id
    BY <2>1, <1>u
  <2>3. ASSUME NEW f \in P \ {e}, f.owner = e.owner PROVE Queue!Precedes(e, f)
    <3>1. PICK k \in Live(store) : f = EventOf(store, k)
      BY <2>3 DEF Pending
    <3>2. k # id
      BY <3>1, <2>3
    <3>3. /\ Seen(id)
          /\ \A j \in Live(store) \ {id} : Seen(j) =>
                Before(LiveSlot(store, id), LiveSlot(store, j))
      BY <1>5, <1>i, InvokeFacts
    <3>4. Seen(k)
      BY <3>1, <3>3, <2>3 DEF Seen, EventOf
    <3>5. Before(LiveSlot(store, id), LiveSlot(store, k))
      BY <3>2, <3>3, <3>4
    <3> QED BY <3>1, <3>5 DEF Queue!Precedes, Before, EventOf
  <2> HIDE DEF P, Q, e, id
  <2>4. PICK x \in P : x = e
    BY <2>2
  <2>5. Queue!Dispatch(x)
    BY <2>1, <2>2, <2>3, <2>4, <1>p, <1>q DEF Queue!Dispatch
  <2> QED BY <2>5, <1>p DEF Queue!Next
<1> QED BY <1>i, <1>1, <1>2, <1>3, <1>4, <1>5 DEF Effects

(* The recycled slots, the lazily cleaned heaps and the handles together   *)
(* behave as a set of pending events, each run at most once, in order      *)
(* within its owner, and never after it was cancelled.                     *)
THEOREM LoopImplementsQueue == Spec => ImplementsQueue
<1>1. Init => Queue!Init
  <2>1. Init => Live(store) = {}
    BY DEF Init, EmptyStore, NoEvents, Live
  <2> QED BY <2>1 DEF Init, Queue!Init, EventId, Queue!EventId
<1> QED BY <1>1, EventInit, EventNext, QueueStep, PTL
        DEF Spec, ImplementsQueue, Queue!Spec

-----------------------------------------------------------------------------
(* The answers of the queries.                                             *)
LEMMA EarliestIs ==
    ASSUME NEW T \in SUBSET Nat, NEW t \in T, \A u \in T : t <= u
    PROVE  Earliest(T) = {t}
<1>1. \A x \in T : (\A u \in T : x <= u) => x = t
  <2> SUFFICES ASSUME NEW x \in T, \A u \in T : x <= u PROVE x = t
    OBVIOUS
  <2>1. x <= t /\ t <= x /\ x \in Nat /\ t \in Nat
    OBVIOUS
  <2> QED BY <2>1
<1>2. (CHOOSE x \in T : \A u \in T : x <= u) = t
  BY <1>1
<1> QED BY <1>2 DEF Earliest

(* Two answers combined are the answer for both.                           *)
LEMMA EarliestOfBoth ==
    ASSUME NEW T \in SUBSET Nat, NEW U \in SUBSET Nat
    PROVE  Earliest(Earliest(T) \cup Earliest(U)) = Earliest(T \cup U)
<1>1. CASE T = {} /\ U = {}
  BY <1>1 DEF Earliest
<1>2. ASSUME NEW t \in T, \A x \in T : t <= x, U = {}
      PROVE  Earliest(Earliest(T) \cup Earliest(U)) = Earliest(T \cup U)
  <2>1. Earliest(T) = {t} /\ Earliest(U) = {} /\ T \cup U = T
    BY <1>2, EarliestIs DEF Earliest
  <2>2. Earliest({t}) = {t}
    BY EarliestIs
  <2> QED BY <2>1, <2>2
<1>3. ASSUME NEW u \in U, \A x \in U : u <= x, T = {}
      PROVE  Earliest(Earliest(T) \cup Earliest(U)) = Earliest(T \cup U)
  <2>1. Earliest(U) = {u} /\ Earliest(T) = {} /\ T \cup U = U
    BY <1>3, EarliestIs DEF Earliest
  <2>2. Earliest({u}) = {u}
    BY EarliestIs
  <2> QED BY <2>1, <2>2
<1>4. ASSUME NEW t \in T, \A x \in T : t <= x, NEW u \in U, \A x \in U : u <= x
      PROVE  Earliest(Earliest(T) \cup Earliest(U)) = Earliest(T \cup U)
  <2>1. Earliest(T) \cup Earliest(U) = {t, u}
    BY <1>4, EarliestIs
  <2>2. \E m \in {t, u} : m <= t /\ m <= u
    <3>1. t \in Nat /\ u \in Nat
      OBVIOUS
    <3> QED BY <3>1
  <2>3. PICK m \in {t, u} : m <= t /\ m <= u
    BY <2>2
  <2>4. Earliest({t, u}) = {m}
    BY <2>3, EarliestIs
  <2>5. \A x \in T \cup U : m <= x
    <3>1. m \in Nat /\ t \in Nat /\ u \in Nat
      OBVIOUS
    <3>2. \A x \in T : x \in Nat /\ t <= x
      BY <1>4
    <3>3. \A x \in U : x \in Nat /\ u <= x
      BY <1>4
    <3> QED BY <2>3, <3>1, <3>2, <3>3
  <2>6. Earliest(T \cup U) = {m}
    <3>1. T \cup U \in SUBSET Nat /\ m \in T \cup U
      OBVIOUS
    <3> QED BY <2>5, <3>1, EarliestIs
  <2> QED BY <2>1, <2>4, <2>6
<1>5. T # {} => \E t \in T : \A x \in T : t <= x
  BY LeastNatural
<1>6. U # {} => \E u \in U : \A x \in U : u <= x
  BY LeastNatural
<1> QED BY <1>1, <1>2, <1>3, <1>4, <1>5, <1>6

(* A queue whose live entries are those of the events in "ids" answers,    *)
(* once its dead front is dropped, with the earliest of their times.       *)
LEMMA FrontIsEarliest ==
    ASSUME StoreOK(store), NEW q \in SUBSET Entry, q \subseteq Entries(store),
           NEW ids \in SUBSET Live(store),
           \A k \in ids : EntryOf(store.slots, store.live_events[k]) \in q,
           \A e \in q : EntryLive(store.slots, e) => e.id \in ids
    PROVE  FrontTime(DiscardDeadFront(store.slots, q))
              = Earliest({LiveSlot(store, k).at : k \in ids})
<1> DEFINE d == DiscardDeadFront(store.slots, q)
           T == {LiveSlot(store, k).at : k \in ids}
<1>1. \A e, f \in q : e.sequence = f.sequence => e = f
  BY DEF StoreOK, StoreConsistent, NumbersFresh
<1>2. ASSUME NEW k \in ids
      PROVE  LET f == EntryOf(store.slots, store.live_events[k])
             IN  /\ f \in q /\ EntryLive(store.slots, f)
                 /\ f.at = LiveSlot(store, k).at /\ f.at \in Nat
  <2> DEFINE i == store.live_events[k]
  <2>1. /\ i \in 1..Len(store.slots) /\ store.slots[i].state = "queued"
        /\ LiveSlot(store, k) = store.slots[i] /\ LiveSlot(store, k) \in Slot
    BY LiveTyped
  <2> HIDE DEF i
  <2>2. EntryLive(store.slots, EntryOf(store.slots, i))
    BY <2>1 DEF EntryLive, EntryOf
  <2> QED BY <2>1, <2>2 DEF EntryOf, i, Slot, Time
<1>3. ASSUME NEW e \in q, EntryLive(store.slots, e)
      PROVE  e.id \in ids /\ e.at = LiveSlot(store, e.id).at
  <2>1. e = EntryOf(store.slots, e.slot) /\ e.id \in ids
    BY <1>3 DEF StoreOK, StoreConsistent, QueuesSound
  <2>2. store.live_events[e.id] = e.slot
    BY <1>3 DEF EntryLive, StoreOK, StoreConsistent, IndexExact
  <2> QED BY <2>1, <2>2 DEF LiveSlot, EntryOf
<1>4. T \in SUBSET Nat
  BY <1>2
<1> HIDE DEF d
<1>5. /\ d = {} => \A f \in q : ~EntryLive(store.slots, f)
      /\ d # {} => /\ Top(d) \in q /\ EntryLive(store.slots, Top(d))
                   /\ \A f \in q : EntryLive(store.slots, f) =>
                        f = Top(d) \/ Before(Top(d), f)
  BY <1>1, FrontIsFirst DEF d
<1>6. CASE d = {}
  <2>1. ids = {}
    BY <1>2, <1>5, <1>6
  <2>2. T = {}
    BY <2>1
  <2> QED BY <2>2, <1>6 DEF FrontTime, Earliest, d
<1>7. CASE d # {}
  <2>1. Top(d) \in q /\ Top(d).id \in ids /\ Top(d).at = LiveSlot(store, Top(d).id).at
    BY <1>3, <1>5, <1>7
  <2>2. Top(d).at \in T /\ Top(d).at \in Nat
    BY <2>1, <1>4
  <2>3. ASSUME NEW k \in ids PROVE Top(d).at <= LiveSlot(store, k).at
    <3> DEFINE f == EntryOf(store.slots, store.live_events[k])
    <3>1. /\ f \in q /\ EntryLive(store.slots, f)
          /\ f.at = LiveSlot(store, k).at /\ f.at \in Nat
      BY <1>2
    <3> HIDE DEF f
    <3>2. f = Top(d) \/ Before(Top(d), f)
      BY <3>1, <1>5, <1>7
    <3> QED BY <3>1, <3>2, <2>2 DEF Before
  <2>4. \A x \in T : Top(d).at <= x
    BY <2>3
  <2>5. Earliest(T) = {Top(d).at}
    <3> HIDE DEF T
    <3> QED BY <2>2, <2>4, <1>4, EarliestIs
  <2> QED BY <2>5, <1>7 DEF FrontTime, d
<1> QED BY <1>6, <1>7

LEMMA QueriesAnswer == Inv => QueriesExact
<1> SUFFICES ASSUME Inv PROVE QueriesExact
  OBVIOUS
<1>o. StoreOK(store) /\ store \in Store
  BY InvStore
<1> DEFINE All == Live(store)
           Of(o) == {i \in Live(store) : LiveSlot(store, i).owner = o}
           Obs == {i \in Live(store) : LiveSlot(store, i).observed}
           Times(ids) == {LiveSlot(store, k).at : k \in ids}
           seen == store.globally_observed_events
<1>1. ASSUME NEW k \in Live(store)
      PROVE  LET f == EntryOf(store.slots, store.live_events[k])
             IN  /\ f \in store.events
                 /\ f \in store.owner_events[LiveSlot(store, k).owner]
                 /\ LiveSlot(store, k).observed => f \in seen
                 /\ LiveSlot(store, k).at \in Nat
  <2> DEFINE i == store.live_events[k]
  <2>1. /\ i \in 1..Len(store.slots) /\ store.slots[i].state = "queued"
        /\ LiveSlot(store, k) = store.slots[i] /\ LiveSlot(store, k) \in Slot
    BY <1>o, LiveTyped
  <2> HIDE DEF i
  <2>2. /\ EntryOf(store.slots, i) \in store.events
        /\ EntryOf(store.slots, i) \in store.owner_events[store.slots[i].owner]
        /\ store.slots[i].observed => EntryOf(store.slots, i) \in seen
    BY <2>1, <1>o DEF StoreOK, StoreConsistent, QueuesComplete
  <2> QED BY <2>1, <2>2 DEF i, Slot, Time
<1>2. ASSUME NEW e, EntryLive(store.slots, e)
      PROVE  e.id \in Live(store) /\ LiveSlot(store, e.id) = store.slots[e.slot]
  <2>1. e.id \in Live(store) /\ store.live_events[e.id] = e.slot
    BY <1>2, <1>o DEF EntryLive, StoreOK, StoreConsistent, IndexExact
  <2> QED BY <2>1 DEF LiveSlot
<1>3. FrontTime(DiscardDeadFront(store.slots, store.events)) = Earliest(Times(All))
  <2>1. store.events \in SUBSET Entry /\ store.events \subseteq Entries(store)
    BY <1>o DEF Store, Entries
  <2> QED BY <2>1, <1>o, <1>1, <1>2, FrontIsEarliest
<1>4. ASSUME NEW o \in EventOwner
      PROVE  FrontTime(DiscardDeadFront(store.slots, store.owner_events[o]))
                = Earliest(Times(Of(o)))
  <2>1. /\ store.owner_events[o] \in SUBSET Entry
        /\ store.owner_events[o] \subseteq Entries(store)
    BY <1>o DEF Store, Entries
  <2>2. \A e \in store.owner_events[o] : EntryLive(store.slots, e) => e.id \in Of(o)
    BY <1>o, <1>2 DEF StoreOK, StoreConsistent, QueuesSound
  <2>3. /\ Of(o) \in SUBSET Live(store)
        /\ \A k \in Of(o) : EntryOf(store.slots, store.live_events[k])
                               \in store.owner_events[o]
    BY <1>1
  <2> HIDE DEF Of
  <2> QED BY <2>1, <2>2, <2>3, <1>o, FrontIsEarliest
<1>5. FrontTime(DiscardDeadFront(store.slots, seen)) = Earliest(Times(Obs))
  <2>1. seen \in SUBSET Entry /\ seen \subseteq Entries(store)
    BY <1>o DEF Store, Entries
  <2>2. \A e \in seen : EntryLive(store.slots, e) => e.id \in Obs
    BY <1>o, <1>2 DEF StoreOK, StoreConsistent, QueuesSound
  <2>3. /\ Obs \in SUBSET Live(store)
        /\ \A k \in Obs : EntryOf(store.slots, store.live_events[k]) \in seen
    BY <1>1
  <2> HIDE DEF Obs, seen
  <2> QED BY <2>1, <2>2, <2>3, <1>o, FrontIsEarliest
<1>6. /\ SettleEvents(store).events = DiscardDeadFront(store.slots, store.events)
      /\ \A o \in EventOwner : SettleOwner(store, o).owner_events[o]
             = DiscardDeadFront(store.slots, store.owner_events[o])
      /\ SettleObserved(store).globally_observed_events
             = DiscardDeadFront(store.slots, seen)
  BY <1>o, SettleEventsOK, SettleOwnerOK DEF SettleObserved, Store
<1>7. /\ LiveTimes(LAMBDA s : TRUE) = Times(All)
      /\ \A o \in EventOwner :
            /\ LiveTimes(LAMBDA s : s.owner = o) = Times(Of(o))
            /\ LiveTimes(LAMBDA s : s.owner = o \/ s.observed)
                  = Times(Of(o)) \cup Times(Obs)
  BY DEF LiveTimes
<1>8. /\ \A o \in EventOwner : Times(Of(o)) \in SUBSET Nat
      /\ Times(Obs) \in SUBSET Nat
  BY <1>1
<1> HIDE DEF Times, All, Of, Obs, seen
<1>9. \A o \in EventOwner :
        Earliest(Earliest(Times(Of(o))) \cup Earliest(Times(Obs)))
            = Earliest(Times(Of(o)) \cup Times(Obs))
  BY <1>8, EarliestOfBoth
<1> QED BY <1>3, <1>4, <1>5, <1>6, <1>7, <1>9 DEF QueriesExact
-----------------------------------------------------------------------------
(* The stack of runs, callbacks and owner scopes.                          *)
IsContext(f) == f.kind \in {"callback", "scope"}

IsRun(f) == f.kind \in {"global", "owner"}

ContextsOf(s, i) == {j \in 1..i : IsContext(s[j])}

OwnerOf(s, i) ==
    IF ContextsOf(s, i) = {} THEN Shared
    ELSE s[CHOOSE j \in ContextsOf(s, i) : \A k \in ContextsOf(s, i) : k <= j].owner

(* What OwnerContext says, and that a callback lies right above the run    *)
(* that invoked it, so that an exception leaves exactly these two.         *)
ContextOK(s, active) ==
    /\ active = OwnerOf(s, Len(s))
    /\ \A i \in 1..Len(s) : IsContext(s[i]) => s[i].previous = OwnerOf(s, i - 1)
    /\ \A i \in 1..Len(s) : s[i].kind = "callback" => i > 1 /\ IsRun(s[i - 1])

(* Two stacks whose first n frames are of the same kinds and owners.       *)
Alike(s, t, n) ==
    \A j \in 1..n : /\ t[j].kind = s[j].kind /\ t[j].owner = s[j].owner
                    /\ t[j].previous = s[j].previous
                    /\ t[j].deadline = s[j].deadline

LEMMA OwnerAlike ==
    ASSUME NEW s, NEW t, NEW n \in Nat, Alike(s, t, n), NEW i \in 0..n
    PROVE  OwnerOf(t, i) = OwnerOf(s, i)
<1>1. \A j \in 1..i : j \in 1..n
  OBVIOUS
<1>2. ContextsOf(t, i) = ContextsOf(s, i)
  BY <1>1 DEF ContextsOf, IsContext, Alike
<1>3. CASE ContextsOf(s, i) = {}
  BY <1>2, <1>3 DEF OwnerOf
<1>4. CASE ContextsOf(s, i) # {}
  <2> DEFINE C == ContextsOf(s, i)
             m == CHOOSE j \in C : \A k \in C : k <= j
  <2>1. \E j \in C : \A k \in C : k <= j
    <3> DEFINE D == {i - k : k \in C}
    <3>1. D \in SUBSET Nat /\ D # {}
      BY <1>4 DEF ContextsOf
    <3>2. PICK x \in D : \A y \in D : x <= y
      <4> HIDE DEF D
      <4> QED BY <3>1, LeastNatural
    <3>3. PICK j \in C : x = i - j
      OBVIOUS
    <3>4. ASSUME NEW k \in C PROVE k <= j
      <4>1. i - k \in D /\ k \in Nat /\ j \in Nat /\ i \in Nat
        BY <1>1 DEF ContextsOf
      <4>2. i - j <= i - k
        BY <4>1, <3>2, <3>3
      <4> QED BY <4>1, <4>2
    <3> QED BY <3>4
  <2>2. m \in 1..n
    <3>1. m \in C
      BY <2>1
    <3> QED BY <3>1, <1>1 DEF ContextsOf
  <2> HIDE DEF m
  <2>3. OwnerOf(s, i) = s[m].owner /\ OwnerOf(t, i) = t[m].owner
    BY <1>2, <1>4 DEF OwnerOf, m
  <2> QED BY <2>2, <2>3 DEF Alike
<1> QED BY <1>3, <1>4

(* The innermost context names the owner, and a run changes nothing.       *)
LEMMA OwnerAtTop ==
    ASSUME NEW s, NEW i \in Nat \ {0}
    PROVE  /\ IsContext(s[i]) => OwnerOf(s, i) = s[i].owner
           /\ ~IsContext(s[i]) => OwnerOf(s, i) = OwnerOf(s, i - 1)
<1>1. CASE IsContext(s[i])
  <2> DEFINE C == ContextsOf(s, i)
  <2>1. i \in C /\ \A k \in C : k <= i /\ k \in Nat
    BY <1>1 DEF ContextsOf
  <2> HIDE DEF C
  <2>2. \A j \in C : (\A k \in C : k <= j) => j = i
    <3> SUFFICES ASSUME NEW j \in C, \A k \in C : k <= j PROVE j = i
      OBVIOUS
    <3>1. i <= j /\ j <= i /\ j \in Nat
      BY <2>1
    <3> QED BY <3>1
  <2>3. (CHOOSE j \in C : \A k \in C : k <= j) = i
    BY <2>1, <2>2
  <2> QED BY <1>1, <2>1, <2>3 DEF OwnerOf, C
<1>2. CASE ~IsContext(s[i])
  <2>1. \A j \in 1..i : IsContext(s[j]) => j \in 1..(i - 1)
    BY <1>2
  <2>2. \A j \in 1..(i - 1) : j \in 1..i
    OBVIOUS
  <2>3. ContextsOf(s, i) = ContextsOf(s, i - 1)
    BY <2>1, <2>2 DEF ContextsOf
  <2> QED BY <1>2, <2>3 DEF OwnerOf
<1> QED BY <1>1, <1>2

(* A longer stack: a run keeps the owner, a context names its own.         *)
LEMMA PushContext ==
    ASSUME NEW s \in Seq(Frame), NEW t \in Seq(Frame), NEW active, NEW f \in Frame,
           ContextOK(s, active), Len(t) = Len(s), Alike(s, t, Len(s)),
           IsContext(f) => f.previous = active,
           f.kind = "callback" => s # <<>> /\ IsRun(s[Len(s)])
    PROVE  LET u == Append(t, f)
           IN  ContextOK(u, IF IsContext(f) THEN f.owner ELSE active)
<1> DEFINE u == Append(t, f)
           n == Len(s)
<1>1. /\ n \in Nat /\ Len(u) = n + 1 /\ u[n + 1] = f
      /\ \A i \in 1..n : u[i] = t[i]
  OBVIOUS
<1> HIDE DEF u
<1>2. Alike(s, u, n)
  BY <1>1 DEF Alike
<1>3. \A i \in 0..n : OwnerOf(u, i) = OwnerOf(s, i)
  BY <1>1, <1>2, OwnerAlike
<1>4. OwnerOf(u, n) = active
  BY <1>1, <1>3 DEF ContextOK
<1>5. OwnerOf(u, n + 1) = IF IsContext(f) THEN f.owner ELSE active
  <2>1. n + 1 \in Nat \ {0} /\ (n + 1) - 1 = n
    BY <1>1
  <2> QED BY <2>1, <1>1, <1>4, OwnerAtTop
<1>6. ASSUME NEW i \in 1..(n + 1)
      PROVE  /\ IsContext(u[i]) => u[i].previous = OwnerOf(u, i - 1)
             /\ u[i].kind = "callback" => i > 1 /\ IsRun(u[i - 1])
  <2>1. CASE i = n + 1
    <3>1. i - 1 = n /\ u[i] = f
      BY <2>1, <1>1
    <3>2. f.kind = "callback" => n > 0 /\ n \in 1..n
      BY <1>1
    <3>3. n \in 1..n => (IsRun(s[n]) => IsRun(u[n]))
      BY <1>2 DEF Alike, IsRun
    <3> QED BY <2>1, <3>1, <3>2, <3>3, <1>1, <1>4
  <2>2. CASE i # n + 1
    <3>1. i \in 1..n /\ i - 1 \in 0..n
      BY <2>2, <1>1
    <3>2. /\ u[i].kind = s[i].kind /\ u[i].previous = s[i].previous
          /\ OwnerOf(u, i - 1) = OwnerOf(s, i - 1)
      BY <3>1, <1>2, <1>3 DEF Alike
    <3>3. s[i].kind = "callback" => i > 1 /\ IsRun(s[i - 1])
      BY <3>1 DEF ContextOK
    <3>4. i > 1 => u[i - 1].kind = s[i - 1].kind
      BY <3>1, <1>1, <1>2 DEF Alike
    <3> QED BY <3>1, <3>2, <3>3, <3>4 DEF ContextOK, IsContext, IsRun
  <2> QED BY <2>1, <2>2
<1>7. ContextOK(u, IF IsContext(f) THEN f.owner ELSE active)
  BY <1>1, <1>5, <1>6 DEF ContextOK
<1> QED BY <1>7 DEF u

(* A shorter stack: the owner is the one the topmost frame remembers.      *)
LEMMA PopContext ==
    ASSUME NEW s \in Seq(Frame), NEW active, ContextOK(s, active),
           NEW n \in 0..Len(s)
    PROVE  ContextOK(SubSeq(s, 1, n), OwnerOf(s, n))
<1> DEFINE u == SubSeq(s, 1, n)
<1>1. /\ Len(s) \in Nat /\ n \in Nat /\ Len(u) = n /\ \A i \in 1..n : u[i] = s[i]
      /\ \A i \in 1..n : i \in 1..Len(s)
  OBVIOUS
<1> HIDE DEF u
<1>2. Alike(s, u, n)
  BY <1>1 DEF Alike
<1>3. \A i \in 0..n : OwnerOf(u, i) = OwnerOf(s, i)
  BY <1>1, <1>2, OwnerAlike
<1>4. ASSUME NEW i \in 1..n
      PROVE  /\ IsContext(u[i]) => u[i].previous = OwnerOf(u, i - 1)
             /\ u[i].kind = "callback" => i > 1 /\ IsRun(u[i - 1])
  <2>1. i - 1 \in 0..n /\ u[i] = s[i] /\ (i > 1 => u[i - 1] = s[i - 1])
    BY <1>1
  <2> QED BY <2>1, <1>1, <1>3 DEF ContextOK
<1>5. OwnerOf(u, n) = OwnerOf(s, n)
  BY <1>1, <1>3
<1>6. ContextOK(u, OwnerOf(s, n))
  BY <1>1, <1>4, <1>5 DEF ContextOK
<1> QED BY <1>6 DEF u
(* What a step does to the stack and the active owner: nothing, a run that *)
(* starts, a context that is entered, a run that returns, a context that   *)
(* is left, or an exception that leaves a callback and its run.            *)
StackKept == UNCHANGED <<stack, serial_active_owner>>

RunStarts ==
    \E f \in Frame : /\ IsRun(f) /\ stack' = Append(stack, f)
                     /\ UNCHANGED serial_active_owner

ContextEntered ==
    \E t \in Seq(Frame), f \in Frame :
        /\ IsContext(f) /\ f.previous = serial_active_owner
        /\ f.kind = "callback" => stack # <<>> /\ IsRun(stack[Len(stack)])
        /\ Len(t) = Len(stack) /\ Alike(stack, t, Len(stack))
        /\ stack' = Append(t, f)
        /\ serial_active_owner' = f.owner

RunReturns ==
    /\ stack # <<>> /\ IsRun(TopFrame) /\ stack' = Popped
    /\ UNCHANGED serial_active_owner

ContextLeft ==
    /\ stack # <<>> /\ IsContext(TopFrame) /\ serial_active_owner' = TopFrame.previous
    /\ \/ stack' = Popped
       \/ TopFrame.kind = "callback" /\ stack' = SubSeq(stack, 1, Len(stack) - 2)

InnerSteps == StackKept \/ ContextEntered \/ RunReturns \/ ContextLeft

StackSteps == InnerSteps \/ RunStarts

(* invoke counts the event in its run's frame and enters the callback.     *)
LEMMA InvokeStack ==
    ASSUME Inv, Invoke
    PROVE  \E t \in Seq(Frame), f \in Frame :
              /\ f.kind = "callback" /\ f.previous = serial_active_owner
              /\ stack # <<>> /\ IsRun(stack[Len(stack)])
              /\ Len(t) = Len(stack) /\ Alike(stack, t, Len(stack))
              /\ stack' = Append(t, f)
              /\ serial_active_owner' = f.owner
<1> DEFINE e == Top(RunQueue)
           slot == LiveSlot(store, e.id)
           n == Len(stack)
           top == [stack[n] EXCEPT !.counted = e.at, !.count = CountAt(e.at) + 1]
           u == [stack EXCEPT ![n].counted = e.at, ![n].count = CountAt(e.at) + 1]
           f == ContextFrame("callback", slot.owner)
<1>1. /\ stack # <<>> /\ slot \in Slot /\ slot = Settled.slots[e.slot]
      /\ e.at = slot.at /\ RunOnStack /\ TypeOK
  BY InvokeFacts DEF Inv
<1>2. serial_active_owner' = slot.owner /\ stack' = Append(u, f)
  BY <1>1 DEF Invoke
<1>3. slot.at \in Time /\ slot.owner \in EventOwner
  BY <1>1 DEF Slot
<1>4. /\ TopFrame \in Frame /\ n \in 1..n /\ TopFrame = stack[n]
      /\ TopFrame.count \in Nat
  BY <1>1, TopFrameTyped
<1>5. CountAt(e.at) + 1 \in Nat
  BY <1>4 DEF CountAt
<1> HIDE DEF e, slot
<1>6. /\ top \in Frame /\ top.kind = stack[n].kind /\ top.owner = stack[n].owner
      /\ top.previous = stack[n].previous /\ top.deadline = stack[n].deadline
  BY <1>1, <1>3, <1>4, <1>5 DEF Frame
<1>7. u = [stack EXCEPT ![n] = top] /\ stack \in Seq(Frame)
  BY <1>1, <1>4 DEF TypeOK
<1>8. /\ f \in Frame /\ f.kind = "callback" /\ f.owner = slot.owner
      /\ f.previous = serial_active_owner
  BY <1>1, <1>3, ContextFrameTyped DEF ContextFrame
<1> HIDE DEF top, u, f
<1>9. /\ u \in Seq(Frame) /\ Len(u) = n
      /\ \A j \in 1..n : u[j] = stack[j] \/ (j = n /\ u[j] = top)
  BY <1>4, <1>6, <1>7, SeqUpdate
<1>10. Alike(stack, u, n)
  BY <1>6, <1>9 DEF Alike
<1>11. IsRun(stack[n])
  BY <1>1, <1>4 DEF RunOnStack, IsRun
<1> QED BY <1>1, <1>2, <1>8, <1>9, <1>10, <1>11

(* Steps that start no run. *)
LEMMA InnerStack ==
    ASSUME Inv, [ClientStep \/ DispatchStep]_vars PROVE InnerSteps
<1>t. TypeOK /\ stack \in Seq(Frame)
  BY DEF Inv, TypeOK
<1>1. ASSUME ClientUnchanged \/ UNCHANGED vars
             \/ \E m \in SameTimeLimits : SetMaximumSameTimeEvents(m)
      PROVE  InnerSteps
  BY <1>1 DEF ClientUnchanged, vars, SetMaximumSameTimeEvents, InnerSteps, StackKept
<1>2. ASSUME NEW o \in EventOwner, UseOwner(o) PROVE InnerSteps
  <2> DEFINE f == ContextFrame("scope", o)
  <2>1. /\ f \in Frame /\ f.kind = "scope" /\ f.owner = o
        /\ f.previous = serial_active_owner
    BY <1>t, ContextFrameTyped DEF ContextFrame
  <2>2. stack' = Append(stack, f) /\ serial_active_owner' = o
    BY <1>2 DEF UseOwner, Push
  <2> HIDE DEF f
  <2>3. ContextEntered
    BY <2>1, <2>2, <1>t DEF ContextEntered, IsContext, Alike
  <2> QED BY <2>3 DEF InnerSteps
<1>3. CASE EndOwnerScope \/ CallbackReturns \/ CallbackThrows
  BY <1>3 DEF EndOwnerScope, CallbackReturns, CallbackThrows, RunOnTop, InnerSteps,
              ContextLeft, IsContext
<1>5. CASE RunCompletes \/ RunStopsAtLimit
  BY <1>5 DEF RunCompletes, RunStopsAtLimit, ReturnAt, RunOnStack, InnerSteps,
              RunReturns, IsRun
<1>6. CASE Invoke
  <2>1. ContextEntered
    BY <1>6, InvokeStack DEF ContextEntered, IsContext
  <2> QED BY <2>1 DEF InnerSteps
<1>7. CASE ClientStep
  <2>1. ASSUME NEW at, NEW local, NEW h,
               Schedule(at, local) \/ HandleCancel(h) \/ HandleSchedule(h, at, local)
        PROVE  ClientUnchanged
    BY <2>1 DEF Schedule, HandleCancel, HandleSchedule
  <2>2. ASSUME NEW id, NEW o,
               \/ Cancel(id) \/ Clear \/ NextScheduledTime
               \/ NextScheduledTimeOf(o) \/ NextObservationTime(o)
        PROVE  ClientUnchanged
    BY <2>2 DEF Cancel, Clear, NextScheduledTime, NextScheduledTimeOf,
                NextObservationTime, Query
  <2> QED BY <2>1, <2>2, <1>1, <1>2, <1>3, <1>7 DEF ClientStep
<1> QED BY <1>1, <1>3, <1>5, <1>6, <1>7 DEF DispatchStep

LEMMA StepStack == ASSUME Inv, [Next]_vars PROVE StackSteps
<1>1. ASSUME NEW o \in EventOwner, NEW d \in Time, RunDueEvents(d) \/ RunOwnedEvents(o, d)
      PROVE  StackSteps
  <2>1. PICK kind \in {"global", "owner"}, x \in EventOwner :
           stack' = Append(stack, RunFrame(kind, x, d)) /\ UNCHANGED serial_active_owner
    BY <1>1 DEF RunDueEvents, RunOwnedEvents, Push, EventOwner
  <2> DEFINE f == RunFrame(kind, x, d)
  <2>2. f \in Frame
    BY RunFrameTyped
  <2>3. f.kind \in {"global", "owner"}
    BY DEF RunFrame
  <2> HIDE DEF f
  <2>4. RunStarts
    BY <2>1, <2>2, <2>3 DEF RunStarts, IsRun, f
  <2> QED BY <2>4 DEF StackSteps
<1>2. CASE [ClientStep \/ DispatchStep]_vars
  BY <1>2, InnerStack DEF StackSteps
<1>3. Shared \in EventOwner
  BY DEF EventOwner
<1> QED BY <1>1, <1>2, <1>3 DEF Next

(* Entering and leaving callbacks and scopes keeps the owner context,      *)
(* exceptions included.                                                    *)
LEMMA ContextStep ==
    ASSUME Inv, ContextOK(stack, serial_active_owner), [Next]_vars
    PROVE  ContextOK(stack', serial_active_owner')
<1>1. stack \in Seq(Frame) /\ Len(stack) \in Nat
  BY DEF Inv, TypeOK
<1>2. CASE StackKept
  BY <1>2 DEF StackKept
<1>3. CASE RunStarts
  <2>1. PICK f \in Frame : /\ IsRun(f) /\ stack' = Append(stack, f)
                           /\ UNCHANGED serial_active_owner
    BY <1>3 DEF RunStarts
  <2>2. ~IsContext(f) /\ f.kind # "callback" /\ Alike(stack, stack, Len(stack))
    BY <2>1 DEF IsRun, IsContext, Alike
  <2> QED BY <2>1, <2>2, <1>1, PushContext
<1>4. CASE ContextEntered
  <2>1. PICK t \in Seq(Frame), f \in Frame :
          /\ IsContext(f) /\ f.previous = serial_active_owner
          /\ f.kind = "callback" => stack # <<>> /\ IsRun(stack[Len(stack)])
          /\ Len(t) = Len(stack) /\ Alike(stack, t, Len(stack))
          /\ stack' = Append(t, f)
          /\ serial_active_owner' = f.owner
    BY <1>4 DEF ContextEntered
  <2> QED BY <2>1, <1>1, PushContext
<1>5. CASE RunReturns
  <2> DEFINE n == Len(stack)
  <2>1. /\ n \in Nat \ {0} /\ n - 1 \in 0..n /\ ~IsContext(stack[n])
        /\ stack' = SubSeq(stack, 1, n - 1) /\ UNCHANGED serial_active_owner
    BY <1>1, <1>5 DEF RunReturns, IsRun, IsContext, TopFrame, Popped
  <2>2. OwnerOf(stack, n - 1) = serial_active_owner
    BY <2>1, OwnerAtTop DEF ContextOK
  <2> QED BY <2>1, <2>2, <1>1, PopContext
<1>6. CASE ContextLeft
  <2> DEFINE n == Len(stack)
  <2>1. /\ n \in Nat \ {0} /\ n - 1 \in 0..n /\ n \in 1..n /\ IsContext(stack[n])
        /\ serial_active_owner' = stack[n].previous
    BY <1>1, <1>6 DEF ContextLeft, TopFrame
  <2>2. serial_active_owner' = OwnerOf(stack, n - 1)
    BY <2>1 DEF ContextOK
  <2>3. CASE stack' = Popped
    BY <2>1, <2>2, <2>3, <1>1, PopContext DEF Popped
  <2>4. CASE stack[n].kind = "callback" /\ stack' = SubSeq(stack, 1, n - 2)
    <3>1. n > 1 /\ IsRun(stack[n - 1])
      BY <2>1, <2>4 DEF ContextOK
    <3>2. n - 1 \in Nat \ {0} /\ (n - 1) - 1 = n - 2 /\ n - 2 \in 0..n
          /\ ~IsContext(stack[n - 1])
      BY <2>1, <3>1 DEF IsRun, IsContext
    <3>3. OwnerOf(stack, n - 1) = OwnerOf(stack, n - 2)
      BY <3>2, OwnerAtTop
    <3> QED BY <2>2, <2>4, <3>2, <3>3, <1>1, PopContext
  <2> QED BY <2>3, <2>4, <1>6 DEF ContextLeft, TopFrame
<1> QED BY <1>2, <1>3, <1>4, <1>5, <1>6, StepStack DEF StackSteps, InnerSteps

LEMMA ContextGives ==
    ASSUME stack \in Seq(Frame), ContextOK(stack, serial_active_owner)
    PROVE  OwnerContext
<1>2. \A i \in Int : OwnerAt(i) = OwnerOf(stack, i)
  <2> TAKE i \in Int
  <2> QED BY DEF OwnerAt, OwnerOf, ContextFrames, ContextsOf, IsContext
<1>3. Len(stack) \in Int /\ \A i \in 1..Len(stack) : i - 1 \in Int
  OBVIOUS
<1> QED BY <1>2, <1>3 DEF OwnerContext, ContextOK, IsContext

(* For every client: what the queries answer from the cleaned queues is    *)
(* what a scan over the live events gives, and currentOwner() is the owner *)
(* of the innermost callback or scope, whatever an exception left.         *)
THEOREM LoopIsConsistent == Spec => []LoopConsistent
<1> DEFINE I == Inv /\ ContextOK(stack, serial_active_owner)
<1>1. Init => I
  <2> SUFFICES ASSUME Init PROVE I
    OBVIOUS
  <2>1. Len(stack) = 0 /\ serial_active_owner = Shared
    BY DEF Init
  <2>2. ContextsOf(stack, 0) = {}
    BY DEF ContextsOf
  <2> QED BY <2>1, <2>2, InitInv DEF ContextOK, OwnerOf
<1>2. I /\ [Next]_vars => I'
  BY NextInv, ContextStep
<1>3. I => LoopConsistent
  BY QueriesAnswer, ContextGives DEF LoopConsistent, Inv, TypeOK
<1> QED BY <1>1, <1>2, <1>3, PTL DEF Spec

-----------------------------------------------------------------------------
(* The clocks, when World and Board use the loop (SchedulerNext).  What a  *)
(* run assigns to a clock is never behind it, because the runs that can    *)
(* move the same clock do not nest, no clock is past the deadline of a run *)
(* that moves it, and no pending event is in the past of its owner.  Of    *)
(* the events of stopped lanes the last holds for the owner's own clock    *)
(* alone: runSharedEvents may have passed them.                            *)
TimeAt(o, s, ow) ==
    IF o = Shared THEN s ELSE IF ow[o] < s THEN s ELSE ow[o]

MovesShared(f) == f.kind = "global" \/ (f.kind = "owner" /\ f.owner = Shared)

FrameNested(st, j) ==
    /\ MovesShared(st[j]) => \A i \in 1..(j - 1) : st[i].kind = "scope"
    /\ IsRun(st[j]) => \A i \in 1..(j - 1) : st[i].kind # "owner"
    /\ st[j].kind = "global" => st[j].owner = Shared

FrameAhead(S, f, s, ow) ==
    /\ IsRun(f) => TimeAt(f.owner, s, ow) <= f.deadline
    /\ (f.kind = "owner" /\ f.owner = Shared) =>
          \A o \in Owners \ S : ow[o] >= f.deadline

RunsAhead(S, st, s, ow) ==
    \A j \in 1..Len(st) : FrameNested(st, j) /\ FrameAhead(S, st[j], s, ow)

ClockInv(S) == RunsAhead(S, stack, shared_now, owner_now) /\ NoStaleEvent(S)

LEMMA TimeForAt ==
    /\ \A o : TimeFor(o) = TimeAt(o, shared_now, owner_now)
    /\ \A o : TimeFor(o)' = TimeAt(o, shared_now', owner_now')
BY DEF TimeFor, TimeAt

(* Frames that leave the stack, or whose counters change, take nothing     *)
(* from the others.                                                        *)
LEMMA PrefixAhead ==
    ASSUME NEW st \in Seq(Frame), NEW u \in Seq(Frame), Len(u) <= Len(st),
           Alike(st, u, Len(u)), NEW S, NEW s, NEW ow, RunsAhead(S, st, s, ow)
    PROVE  RunsAhead(S, u, s, ow)
<1> SUFFICES ASSUME NEW j \in 1..Len(u)
             PROVE  FrameNested(u, j) /\ FrameAhead(S, u[j], s, ow)
  BY DEF RunsAhead
<1>1. /\ j \in 1..Len(st) /\ \A i \in 1..j : i \in 1..Len(u)
      /\ \A i \in 1..(j - 1) : i \in 1..j
      /\ j \in 1..j
  OBVIOUS
<1>2. FrameNested(st, j) /\ FrameAhead(S, st[j], s, ow)
  BY <1>1 DEF RunsAhead
<1>3. \A i \in 1..j : /\ u[i].kind = st[i].kind /\ u[i].owner = st[i].owner
                      /\ u[i].deadline = st[i].deadline
  BY <1>1 DEF Alike
<1>4. FrameNested(u, j)
  BY <1>1, <1>2, <1>3 DEF FrameNested, MovesShared, IsRun
<1>5. FrameAhead(S, u[j], s, ow)
  BY <1>1, <1>2, <1>3 DEF FrameAhead, IsRun
<1> QED BY <1>4, <1>5

LEMMA PushAhead ==
    ASSUME NEW u \in Seq(Frame), NEW f \in Frame, NEW S, NEW s, NEW ow,
           RunsAhead(S, u, s, ow), FrameAhead(S, f, s, ow),
           MovesShared(f) => \A i \in 1..Len(u) : u[i].kind = "scope",
           IsRun(f) => \A i \in 1..Len(u) : u[i].kind # "owner",
           f.kind = "global" => f.owner = Shared
    PROVE  RunsAhead(S, Append(u, f), s, ow)
<1> DEFINE v == Append(u, f)
           n == Len(u)
<1>1. /\ n \in Nat /\ Len(v) = n + 1 /\ v[n + 1] = f
      /\ \A i \in 1..n : v[i] = u[i]
  OBVIOUS
<1> HIDE DEF v, n
<1>2. ASSUME NEW j \in 1..(n + 1) PROVE FrameNested(v, j) /\ FrameAhead(S, v[j], s, ow)
  <2>1. CASE j = n + 1
    <3>1. v[j] = f /\ \A i \in 1..(j - 1) : i \in 1..n /\ v[i] = u[i]
      BY <2>1, <1>1
    <3> QED BY <3>1 DEF FrameNested, n
  <2>2. CASE j # n + 1
    <3>1. j \in 1..n /\ v[j] = u[j] /\ \A i \in 1..(j - 1) : v[i] = u[i]
      BY <2>2, <1>1
    <3>2. FrameNested(u, j) /\ FrameAhead(S, u[j], s, ow)
      BY <3>1 DEF RunsAhead, n
    <3> QED BY <3>1, <3>2 DEF FrameNested
  <2> QED BY <2>1, <2>2
<1> QED BY <1>1, <1>2 DEF RunsAhead, v

(* Entering or leaving a context and returning from a run.                 *)
LEMMA InnerAhead ==
    ASSUME Inv, Inv', InnerSteps, NEW S, NEW s, NEW ow, RunsAhead(S, stack, s, ow)
    PROVE  RunsAhead(S, stack', s, ow)
<1>1. stack \in Seq(Frame) /\ stack' \in Seq(Frame) /\ Len(stack) \in Nat
  BY DEF Inv, TypeOK
<1>2. CASE StackKept
  BY <1>2 DEF StackKept
<1>3. CASE ContextEntered
  <2>1. PICK t \in Seq(Frame), f \in Frame :
          /\ IsContext(f) /\ Len(t) = Len(stack) /\ Alike(stack, t, Len(stack))
          /\ stack' = Append(t, f)
    BY <1>3 DEF ContextEntered
  <2>2. RunsAhead(S, t, s, ow)
    BY <2>1, <1>1, PrefixAhead
  <2>3. ~IsRun(f) /\ ~MovesShared(f) /\ f.kind # "global" /\ FrameAhead(S, f, s, ow)
    BY <2>1 DEF IsContext, IsRun, MovesShared, FrameAhead
  <2> QED BY <2>1, <2>2, <2>3, PushAhead
<1>4. ASSUME NEW n \in {1, 2}, stack' = SubSeq(stack, 1, Len(stack) - n),
             n <= Len(stack)
      PROVE  RunsAhead(S, stack', s, ow)
  <2>1. /\ Len(stack') = Len(stack) - n /\ Len(stack') <= Len(stack)
        /\ \A i \in 1..Len(stack') : stack'[i] = stack[i]
    BY <1>1, <1>4
  <2>2. Alike(stack, stack', Len(stack'))
    BY <2>1 DEF Alike
  <2> QED BY <2>1, <2>2, <1>1, PrefixAhead
<1>5. CASE stack # <<>> /\ stack' = Popped
  <2>1. 1 <= Len(stack)
    BY <1>1, <1>5
  <2> QED BY <1>4, <1>5, <2>1 DEF Popped
<1>6. CASE ContextLeft /\ stack' = SubSeq(stack, 1, Len(stack) - 2)
  <2>1. CASE 2 <= Len(stack)
    BY <2>1, <1>4, <1>6
  <2>2. CASE Len(stack) < 2
    <3>1. Len(stack') = 0
      BY <2>2, <1>1, <1>6
    <3> QED BY <3>1 DEF RunsAhead
  <2> QED BY <2>1, <2>2, <1>1
<1> QED BY <1>2, <1>3, <1>5, <1>6 DEF InnerSteps, RunReturns, ContextLeft

(* A step that leaves the clocks alone keeps every pending event ahead.    *)
LEMMA QuietClocks ==
    ASSUME Inv, NEW S, NoStaleEvent(S), [Next]_vars, UNCHANGED <<shared_now, owner_now>>
    PROVE  NoStaleEvent(S)'
<1>1. SlotsKept /\ Effects
  BY StepEffects
<1>2. \A o : TimeFor(o)' = TimeFor(o)
  BY TimeForAt DEF TimeAt
<1>3. ASSUME NEW k \in Live(store')
      PROVE  LET slot == LiveSlot(store', k)
             IN  /\ slot.owner \in Owners => slot.at >= owner_now[slot.owner]
                 /\ slot.owner \notin S => slot.at >= TimeFor(slot.owner)
  <2>1. CASE k \in Live(store)
    BY <2>1, <1>1, <1>3 DEF SlotsKept, NoStaleEvent
  <2>2. CASE k \notin Live(store)
    <3>1. PICK h \in Binding, old \in {0} \cup EventId : Added(h, old)
      BY <2>2, <1>1, <1>3 DEF Effects, Quiet, Dropped, Cleared, Ran
    <3>2. k = store.next_id /\ NewEventAhead
      BY <2>2, <3>1, <1>3 DEF Added
    <3> DEFINE slot == LiveSlot(store', k)
    <3>3. slot.at >= TimeFor(slot.owner)
      BY <3>2 DEF NewEventAhead
    <3>4. slot.at \in Nat
      <4>1. Inv'
        BY NextInv
      <4>2. StoreOK(store')
        BY <4>1 DEF Inv, TypeOK, StoreInvariant, StoreOK
      <4> QED BY <4>2, <1>3, LiveTyped DEF Slot, Time
    <3>5. \A o \in Owners : owner_now[o] \in Nat /\ shared_now \in Nat /\ o # Shared
      BY SharedAssumption DEF Inv, TypeOK, Time
    <3> HIDE DEF slot
    <3>6. slot.owner \in Owners => slot.at >= owner_now[slot.owner]
      BY <3>3, <3>4, <3>5 DEF TimeFor
    <3> QED BY <3>3, <3>6 DEF slot
  <2> QED BY <2>1, <2>2
<1>4. \A k \in Live(store') :
        /\ LiveSlot(store', k).owner \in Owners =>
              LiveSlot(store', k).at >= owner_now'[LiveSlot(store', k).owner]
        /\ LiveSlot(store', k).owner \notin S =>
              LiveSlot(store', k).at
                  >= TimeAt(LiveSlot(store', k).owner, shared_now', owner_now')
  <2>1. \A o : TimeAt(o, shared_now', owner_now') = TimeFor(o) /\ owner_now' = owner_now
    BY TimeForAt
  <2> QED BY <2>1, <1>3
<1> QED BY <1>4, TimeForAt DEF NoStaleEvent

(* A run moves its clock: to t, the time of the first event it sees or its *)
(* deadline, and with it the clock of the owner w of the event.            *)
LEMMA ClockStep ==
    ASSUME Inv, NEW S \in SUBSET Owners, ClockInv(S), RunOnStack,
           NEW t \in Time, NEW w \in EventOwner, t <= TopFrame.deadline,
           w \in Owners => owner_now[w] <= t,
           TopFrame.kind = "owner" => TimeFor(w) <= t \/ w \in S,
           TopFrame.kind = "global" => shared_now <= t \/ LeftBehind(S) # {},
           TopFrame.kind = "owner" => w = TopFrame.owner,
           Live(store') \subseteq Live(store), SlotsKept,
           \A k \in Live(store') : Seen(k) => LiveSlot(store, k).at >= t,
           shared_now' = IF TopFrame.kind = "global" \/ w = Shared THEN t ELSE shared_now,
           owner_now' = IF w = Shared THEN owner_now ELSE [owner_now EXCEPT ![w] = t]
    PROVE  /\ ClocksForward(S) /\ NoStaleEvent(S)'
           /\ \/ TimeAt(w, shared_now', owner_now') = t
              \/ /\ w \in S /\ t < shared_now
                 /\ TimeAt(w, shared_now', owner_now') = shared_now
           /\ RunsAhead(S, stack, shared_now', owner_now')
<1> DEFINE n == Len(stack)
           f == stack[n]
<1>1. /\ n \in 1..Len(stack) /\ TopFrame = f /\ IsRun(f)
      /\ f.owner \in EventOwner /\ f.deadline \in Time /\ stack \in Seq(Frame)
  BY TopFrameTyped DEF Inv, RunOnStack, IsRun, TypeOK
<1>2. /\ shared_now \in Nat /\ owner_now \in [Owners -> Time] /\ t \in Nat
      /\ \A o \in Owners : owner_now[o] \in Nat /\ o # Shared
      /\ EventOwner = Owners \cup {Shared} /\ Shared \notin Owners /\ Shared \notin S
      /\ f.deadline \in Nat
  BY <1>1, SharedAssumption DEF Inv, TypeOK, Time, EventOwner
<1>3. /\ FrameNested(stack, n) /\ FrameAhead(S, f, shared_now, owner_now)
      /\ \A j \in 1..n : FrameNested(stack, j) /\ FrameAhead(S, stack[j], shared_now, owner_now)
  BY <1>1 DEF ClockInv, RunsAhead
<1>4. f.kind = "global" \/ (f.kind = "owner" /\ w = f.owner)
  BY <1>1 DEF IsRun
<1>5. t <= f.deadline /\ RunOnTop(f.kind)
  BY <1>1 DEF RunOnTop
<1> HIDE DEF f, n
(* The clocks of the three kinds of run. *)
<1>6. CASE f.kind = "owner" /\ w # Shared
  <2>1. /\ shared_now' = shared_now /\ w \in Owners /\ w \in EventOwner
        /\ owner_now'[w] = t /\ owner_now[w] <= t
        /\ \A o \in Owners : o # w => owner_now'[o] = owner_now[o]
    BY <1>1, <1>2, <1>6
  <2>2. /\ w \notin S => shared_now <= t
        /\ shared_now <= f.deadline
    <3>1. TimeFor(w) >= shared_now /\ TimeFor(w) \in Nat /\ TimeFor(w) <= f.deadline
      BY <1>1, <1>2, <1>3, <1>4, <1>6, <2>1, TimeForAt DEF FrameAhead, TimeFor
    <3>2. TimeFor(w) <= t \/ w \in S
      BY <1>1, <1>6
    <3> QED BY <3>1, <3>2, <1>2
  <2>3. ClocksForward(S)
    <3>1. \A o \in Owners : /\ owner_now'[o] >= owner_now[o]
                            /\ TimeFor(o)' >= TimeFor(o)
      BY <2>1, <1>2 DEF TimeFor
    <3> QED BY <3>1, <2>1, <1>2 DEF ClocksForward
  <2>4. \/ TimeAt(w, shared_now', owner_now') = t
        \/ /\ w \in S /\ t < shared_now
           /\ TimeAt(w, shared_now', owner_now') = shared_now
    BY <2>1, <2>2, <1>2, <1>6 DEF TimeAt
  <2>5. ASSUME NEW k \in Live(store')
        PROVE  LET slot == LiveSlot(store', k)
               IN  /\ slot.owner \in Owners => slot.at >= owner_now'[slot.owner]
                   /\ slot.owner \notin S =>
                         slot.at >= TimeAt(slot.owner, shared_now', owner_now')
    <3> DEFINE slot == LiveSlot(store, k)
    <3>1. /\ k \in Live(store) /\ LiveSlot(store', k) = slot /\ slot \in Slot
          /\ slot.owner \in Owners => slot.at >= owner_now[slot.owner]
          /\ slot.owner \notin S => slot.at >= TimeFor(slot.owner)
      BY <2>5, InvStore, LiveTyped DEF SlotsKept, ClockInv, NoStaleEvent
    <3>2. slot.at \in Nat /\ slot.owner \in EventOwner
      BY <3>1 DEF Slot, Time
    <3>3. slot.owner = w => slot.at >= t
      BY <2>5, <1>1, <1>4, <1>6 DEF Seen
    <3> HIDE DEF slot
    <3>4. CASE slot.owner = w
      BY <3>1, <3>2, <3>3, <3>4, <2>1, <2>2, <1>2, <1>6 DEF TimeAt
    <3>5. CASE slot.owner # w
      BY <3>1, <3>2, <3>5, <2>1, <1>2, TimeForAt DEF TimeAt
    <3> QED BY <3>4, <3>5
  <2>6. NoStaleEvent(S)'
    BY <2>5, TimeForAt DEF NoStaleEvent
  <2>7. RunsAhead(S, stack, shared_now', owner_now')
    <3> SUFFICES ASSUME NEW j \in 1..n
                 PROVE  FrameAhead(S, stack[j], shared_now', owner_now')
      BY <1>3 DEF RunsAhead, n
    <3>1. CASE j = n
      <4>1. TimeAt(f.owner, shared_now', owner_now') <= f.deadline
        BY <2>1, <2>2, <1>2, <1>4, <1>5, <1>6 DEF TimeAt
      <4> QED BY <3>1, <4>1, <1>4, <1>6 DEF FrameAhead, f
    <3>2. CASE j # n
      <4>1. j \in 1..(n - 1)
        BY <3>2, <1>1 DEF n
      <4>2. /\ stack[j].kind # "owner"
            /\ stack[j].kind = "global" => stack[j].owner = Shared
            /\ FrameAhead(S, stack[j], shared_now, owner_now)
        BY <4>1, <1>1, <1>3 DEF FrameNested, f
      <4> QED BY <4>2, <2>1 DEF FrameAhead, IsRun, TimeAt
    <3> QED BY <3>1, <3>2
  <2> QED BY <2>3, <2>4, <2>6, <2>7
<1>7. CASE ~(f.kind = "owner" /\ w # Shared)
  <2>1. /\ shared_now' = t /\ MovesShared(f)
        /\ \A o \in Owners : /\ owner_now'[o] = (IF o = w THEN t ELSE owner_now[o])
                             /\ owner_now'[o] \in Nat /\ owner_now'[o] >= owner_now[o]
    BY <1>1, <1>2, <1>4, <1>7 DEF MovesShared
  <2>2. f.kind = "owner" => /\ shared_now <= t /\ owner_now' = owner_now
                            /\ f.owner = Shared
                            /\ \A o \in Owners \ S : owner_now[o] >= f.deadline
    BY <1>1, <1>2, <1>3, <1>4, <1>7 DEF FrameAhead, TimeFor
  <2>3. ClocksForward(S)
    <3>1. CASE shared_now <= t
      <4>1. \A o \in Owners : TimeFor(o)' >= TimeFor(o)
        BY <3>1, <2>1, <1>2 DEF TimeFor
      <4> QED BY <3>1, <4>1, <2>1 DEF ClocksForward
    <3>2. CASE ~(shared_now <= t)
      <4>1. f.kind = "global" /\ LeftBehind(S) # {}
        BY <3>2, <2>2, <1>1, <1>4
      <4> QED BY <4>1, <2>1, <1>5 DEF ClocksForward
    <3> QED BY <3>1, <3>2
  <2>4. TimeAt(w, shared_now', owner_now') = t
    BY <2>1, <1>2 DEF TimeAt
  <2>5. ASSUME NEW k \in Live(store')
        PROVE  LET slot == LiveSlot(store', k)
               IN  /\ slot.owner \in Owners => slot.at >= owner_now'[slot.owner]
                   /\ slot.owner \notin S =>
                         slot.at >= TimeAt(slot.owner, shared_now', owner_now')
    <3> DEFINE slot == LiveSlot(store, k)
    <3>1. /\ k \in Live(store) /\ LiveSlot(store', k) = slot /\ slot \in Slot
          /\ slot.owner \in Owners => slot.at >= owner_now[slot.owner]
      BY <2>5, InvStore, LiveTyped DEF SlotsKept, ClockInv, NoStaleEvent
    <3>2. slot.at \in Nat /\ slot.owner \in EventOwner
      BY <3>1 DEF Slot, Time
    <3>3. (f.kind = "global" \/ slot.owner = w) => slot.at >= t
      BY <2>5, <1>1, <1>4 DEF Seen
    <3> HIDE DEF slot
    <3>4. slot.owner \in Owners => slot.at >= owner_now'[slot.owner]
      BY <3>1, <3>2, <3>3, <2>1
    <3>5. slot.owner \notin S => slot.at >= t
      <4>1. CASE f.kind = "global" \/ slot.owner = w
        BY <4>1, <3>3
      <4>2. CASE f.kind = "owner" /\ slot.owner # w
        <5>1. slot.owner \in Owners
          BY <4>2, <3>2, <1>2, <1>7
        <5> QED BY <5>1, <4>2, <3>1, <3>2, <2>2, <1>2, <1>5
      <4> QED BY <4>1, <4>2, <1>4
    <3>6. slot.owner \notin S => slot.at >= TimeAt(slot.owner, shared_now', owner_now')
      BY <3>2, <3>4, <3>5, <2>1, <1>2 DEF TimeAt
    <3> QED BY <3>1, <3>4, <3>6
  <2>6. NoStaleEvent(S)'
    BY <2>5, TimeForAt DEF NoStaleEvent
  <2>7. RunsAhead(S, stack, shared_now', owner_now')
    <3> SUFFICES ASSUME NEW j \in 1..n
                 PROVE  FrameAhead(S, stack[j], shared_now', owner_now')
      BY <1>3 DEF RunsAhead, n
    <3>1. CASE j = n
      <4>1. f.owner = Shared
        BY <1>1, <1>3, <2>1 DEF FrameNested, MovesShared, f
      <4>2. TimeAt(f.owner, shared_now', owner_now') <= f.deadline
        BY <4>1, <2>1, <1>5 DEF TimeAt
      <4> QED BY <3>1, <4>2, <2>2 DEF FrameAhead, f
    <3>2. CASE j # n
      <4>1. j \in 1..(n - 1)
        BY <3>2, <1>1 DEF n
      <4>2. stack[j].kind = "scope"
        BY <4>1, <1>3, <2>1 DEF FrameNested, f
      <4> QED BY <4>2 DEF FrameAhead, IsRun
    <3> QED BY <3>1, <3>2
  <2> QED BY <2>3, <2>4, <2>6, <2>7
<1> QED BY <1>6, <1>7

(* The first event a run sees lies behind the clock of its owner, or behind *)
(* the shared clock a global run moves, only if a stopped lane left it.     *)
LEMMA FrontAhead ==
    ASSUME Inv, NEW S \in SUBSET Owners, NoStaleEvent(S),
           NEW id \in Live(store)
    PROVE  LET slot == LiveSlot(store, id)
           IN  /\ slot \in Slot
               /\ slot.owner \in Owners => owner_now[slot.owner] <= slot.at
               /\ TimeFor(slot.owner) <= slot.at \/ slot.owner \in S
               /\ shared_now <= slot.at \/ (LeftBehind(S) # {} /\ id \in LeftBehind(S))
<1> DEFINE slot == LiveSlot(store, id)
<1>1. /\ slot \in Slot
      /\ slot.owner \in Owners => slot.at >= owner_now[slot.owner]
      /\ slot.owner \notin S => slot.at >= TimeFor(slot.owner)
  BY InvStore, LiveTyped DEF NoStaleEvent
<1>2. slot.at \in Nat /\ slot.owner \in EventOwner /\ shared_now \in Nat
      /\ (\A o \in Owners : owner_now[o] \in Nat)
  BY <1>1 DEF Slot, Time, Inv, TypeOK
<1>3. slot.owner \in S /\ slot.at < shared_now => id \in LeftBehind(S)
  BY DEF LeftBehind
<1> HIDE DEF slot
<1>4. TimeFor(slot.owner) \in Nat /\ TimeFor(slot.owner) >= shared_now
  BY <1>2 DEF TimeFor, EventOwner
<1>5. /\ slot.owner \in Owners => owner_now[slot.owner] <= slot.at
      /\ TimeFor(slot.owner) <= slot.at \/ slot.owner \in S
      /\ shared_now <= slot.at \/ id \in LeftBehind(S)
  BY <1>1, <1>2, <1>3, <1>4
<1> QED BY <1>1, <1>5 DEF slot

(* A run that returns, at its deadline or at the same-time limit.          *)
LEMMA ReturnClocks ==
    ASSUME Inv, NEW S \in SUBSET Owners, ClockInv(S), RunCompletes \/ RunStopsAtLimit
    PROVE  /\ ClocksForward(S) /\ NoStaleEvent(S)'
           /\ RunsAhead(S, stack, shared_now', owner_now')
<1>1. RunOnStack /\ stack # <<>>
  BY DEF RunCompletes, RunStopsAtLimit, RunOnStack
<1>2. /\ TopFrame \in Frame /\ TopFrame.owner \in EventOwner
      /\ TopFrame.deadline \in Time /\ TopFrame = stack[Len(stack)]
      /\ Len(stack) \in 1..Len(stack)
  BY <1>1, TopFrameTyped DEF Inv
<1>3. FrameNested(stack, Len(stack)) /\ FrameAhead(S, TopFrame, shared_now, owner_now)
  BY <1>2 DEF ClockInv, RunsAhead
<1>4. /\ TimeFor(TopFrame.owner) <= TopFrame.deadline
      /\ TopFrame.kind = "global" => TopFrame.owner = Shared
      /\ TopFrame.kind \in {"global", "owner"}
  BY <1>1, <1>2, <1>3, TimeForAt DEF FrameNested, FrameAhead, IsRun, RunOnStack
<1>t. /\ shared_now \in Nat /\ Shared \notin Owners /\ TopFrame.deadline \in Nat
      /\ \A o \in Owners : owner_now[o] \in Nat /\ o # Shared
  BY <1>2, SharedAssumption DEF Inv, TypeOK, Time
<1>5. PICK t \in Time :
        /\ ReturnAt(t) /\ t <= TopFrame.deadline
        /\ TopFrame.owner \in Owners => owner_now[TopFrame.owner] <= t
        /\ TopFrame.kind = "owner" => TimeFor(TopFrame.owner) <= t \/ TopFrame.owner \in S
        /\ TopFrame.kind = "global" => shared_now <= t \/ LeftBehind(S) # {}
        /\ \A k \in Live(store) : Seen(k) => LiveSlot(store, k).at >= t
  <2>1. CASE RunCompletes
    <3>1. ~Due /\ ReturnAt(TopFrame.deadline)
      BY <2>1 DEF RunCompletes
    <3>2. \A k \in Live(store) : Seen(k) => LiveSlot(store, k).at > TopFrame.deadline
      BY <3>1, <1>1, RunFacts
    <3>3. \A k \in Live(store) : LiveSlot(store, k).at \in Nat
      BY InvStore, LiveTyped DEF Slot, Time
    <3>4. \A k \in Live(store) : Seen(k) => LiveSlot(store, k).at >= TopFrame.deadline
      BY <3>2, <3>3, <1>t
    <3>5. /\ TopFrame.deadline <= TopFrame.deadline
          /\ TopFrame.owner \in Owners => owner_now[TopFrame.owner] <= TopFrame.deadline
          /\ TopFrame.kind = "global" => shared_now <= TopFrame.deadline
      BY <1>4, <1>t DEF TimeFor
    <3> QED BY <3>1, <3>4, <3>5, <1>2, <1>4
  <2>2. CASE RunStopsAtLimit
    <3> DEFINE id == Top(RunQueue).id
               slot == LiveSlot(store, id)
    <3>1. Due /\ ReturnAt(Top(RunQueue).at)
      BY <2>2 DEF RunStopsAtLimit
    <3>2. /\ id \in Live(store) /\ Seen(id)
          /\ Top(RunQueue).at = slot.at /\ slot.at <= TopFrame.deadline
          /\ \A k \in Live(store) \ {id} : Seen(k) => Before(slot, LiveSlot(store, k))
      BY <3>1, <1>1, RunFacts
    <3>3. \A k \in Live(store) :
            /\ LiveSlot(store, k) \in Slot /\ LiveSlot(store, k).at \in Nat
            /\ LiveSlot(store, k).at \in Time
      BY InvStore, LiveTyped DEF Slot, Time
    <3>4. /\ slot.owner \in Owners => owner_now[slot.owner] <= slot.at
          /\ TimeFor(slot.owner) <= slot.at \/ slot.owner \in S
          /\ shared_now <= slot.at \/ LeftBehind(S) # {}
      BY <3>2, FrontAhead DEF ClockInv
    <3>5. TopFrame.kind = "owner" => slot.owner = TopFrame.owner
      BY <3>2 DEF Seen
    <3>6. \A k \in Live(store) : Seen(k) => LiveSlot(store, k).at >= slot.at
      BY <3>2, <3>3 DEF Before
    <3>7. slot.at \in Time /\ ReturnAt(slot.at)
      BY <3>1, <3>2, <3>3
    <3> HIDE DEF slot
    <3>8. TopFrame.owner \in Owners => TopFrame.kind = "owner"
      BY <1>4, <1>t
    <3> QED BY <3>2, <3>4, <3>5, <3>6, <3>7, <3>8
  <2> QED BY <2>1, <2>2
<1>6. PICK w \in EventOwner : w = TopFrame.owner
  BY <1>2
<1>7. /\ Live(store') = Live(store) /\ SlotsKept
  <2>1. store' = Settled
    BY <1>5 DEF ReturnAt
  <2> QED BY <2>1, <1>1, RunFacts DEF SlotsKept
<1>8. /\ shared_now' = IF TopFrame.kind = "global" \/ w = Shared THEN t ELSE shared_now
      /\ owner_now' = IF w = Shared THEN owner_now ELSE [owner_now EXCEPT ![w] = t]
  BY <1>4, <1>5, <1>6 DEF ReturnAt, SetTime
<1> QED BY <1>1, <1>5, <1>6, <1>7, <1>8, ClockStep

(* A run that invokes an event. *)
LEMMA InvokeClocks ==
    ASSUME Inv, NEW S \in SUBSET Owners, ClockInv(S), Invoke
    PROVE  /\ ClocksForward(S) /\ NoStaleEvent(S)'
           /\ RunsAhead(S, stack, shared_now', owner_now')
           /\ LET id == Top(RunQueue).id
                  slot == LiveSlot(store, id)
              IN  \/ TimeAt(slot.owner, shared_now', owner_now') = slot.at
                  \/ /\ id \in LeftBehind(S)
                     /\ TimeAt(slot.owner, shared_now', owner_now') = shared_now
<1> DEFINE id == Top(RunQueue).id
           slot == LiveSlot(store, id)
<1>1. /\ RunOnStack /\ id \in Live(store) /\ Seen(id) /\ slot \in Slot
      /\ slot = Settled.slots[Top(RunQueue).slot] /\ slot.at <= TopFrame.deadline
      /\ \A k \in Live(store) \ {id} : Seen(k) => Before(slot, LiveSlot(store, k))
      /\ Live(store') = Live(store) \ {id}
      /\ \A k \in Live(store') : LiveSlot(store', k) = LiveSlot(store, k)
  BY InvokeFacts
<1>2. PICK t \in Time, w \in EventOwner : t = slot.at /\ w = slot.owner
  BY <1>1 DEF Slot
<1>3. /\ shared_now' = IF TopFrame.kind = "global" \/ w = Shared THEN t ELSE shared_now
      /\ owner_now' = IF w = Shared THEN owner_now ELSE [owner_now EXCEPT ![w] = t]
  BY <1>1, <1>2 DEF Invoke, OwnerClocksAfter
<1>4. /\ w \in Owners => owner_now[w] <= t
      /\ TimeFor(w) <= t \/ w \in S
      /\ shared_now <= t \/ LeftBehind(S) # {}
  BY <1>1, <1>2, FrontAhead DEF ClockInv
<1>5. TopFrame.kind = "owner" => w = TopFrame.owner
  BY <1>1, <1>2 DEF Seen
<1>6. Live(store') \subseteq Live(store) /\ SlotsKept
  BY <1>1 DEF SlotsKept
<1>7. \A k \in Live(store') : Seen(k) => LiveSlot(store, k).at >= t
  <2>1. \A k \in Live(store) : LiveSlot(store, k).at \in Nat
    BY InvStore, LiveTyped DEF Slot, Time
  <2> QED BY <2>1, <1>1, <1>2 DEF Before, Time
<1>8. t <= TopFrame.deadline
  BY <1>1, <1>2
<1>b. w \in S /\ t < shared_now => id \in LeftBehind(S)
  BY <1>1, <1>2 DEF LeftBehind
<1> HIDE DEF slot, id
<1>9. /\ ClocksForward(S) /\ NoStaleEvent(S)'
      /\ \/ TimeAt(w, shared_now', owner_now') = t
         \/ /\ w \in S /\ t < shared_now
            /\ TimeAt(w, shared_now', owner_now') = shared_now
      /\ RunsAhead(S, stack, shared_now', owner_now')
  BY <1>1, <1>3, <1>4, <1>5, <1>6, <1>7, <1>8, ClockStep
<1> QED BY <1>2, <1>9, <1>b DEF slot, id

LEMMA SchedulerIsClient ==
    ASSUME NEW S, SchedulerNext(S)
    PROVE  Next
<1>1. Shared \in EventOwner /\ \A o \in Owners : o \in EventOwner
  BY DEF EventOwner
<1> QED BY <1>1 DEF SchedulerNext, Next

(* A client call moves no clock. *)
LEMMA ClientClocks ==
    ASSUME [ClientStep \/ CallbackReturns \/ CallbackThrows]_vars
    PROVE  UNCHANGED <<shared_now, owner_now>>
<1>1. ASSUME NEW at, NEW local, NEW h,
             Schedule(at, local) \/ HandleCancel(h) \/ HandleSchedule(h, at, local)
      PROVE  UNCHANGED <<shared_now, owner_now>>
  BY <1>1 DEF Schedule, HandleCancel, HandleSchedule, ClientUnchanged
<1>2. ASSUME NEW id, NEW o,
             \/ Cancel(id) \/ Clear \/ NextScheduledTime
             \/ NextScheduledTimeOf(o) \/ NextObservationTime(o)
      PROVE  UNCHANGED <<shared_now, owner_now>>
  BY <1>2 DEF Cancel, Clear, NextScheduledTime, NextScheduledTimeOf,
              NextObservationTime, Query, ClientUnchanged
<1>3. ASSUME NEW m, NEW o,
             \/ SetMaximumSameTimeEvents(m) \/ UseOwner(o) \/ EndOwnerScope
             \/ CallbackReturns \/ CallbackThrows \/ UNCHANGED vars
      PROVE  UNCHANGED <<shared_now, owner_now>>
  BY <1>3 DEF SetMaximumSameTimeEvents, UseOwner, EndOwnerScope, CallbackReturns,
              CallbackThrows, vars
<1> QED BY <1>1, <1>2, <1>3 DEF ClientStep

(* A run that World or Board starts. *)
LEMMA StartAhead ==
    ASSUME Inv, NEW S, RunsAhead(S, stack, shared_now, owner_now), NEW d \in Time,
           \/ NoRunActive /\ RunDueEvents(d)
           \/ NoRunActive /\ OwnersReached(d, S) /\ RunOwnedEvents(Shared, d)
           \/ \E o \in Owners : RunOwnedEvents(o, d)
    PROVE  /\ UNCHANGED <<shared_now, owner_now>>
           /\ RunsAhead(S, stack', shared_now, owner_now)
<1>1. UNCHANGED <<shared_now, owner_now>>
  BY DEF RunDueEvents, RunOwnedEvents
<1>2. stack \in Seq(Frame) /\ shared_now \in Nat /\ Shared \notin Owners
      /\ owner_now \in [Owners -> Nat]
  BY SharedAssumption DEF Inv, TypeOK, Time
<1>3. CASE NoRunActive /\ RunDueEvents(d)
  <2> DEFINE f == RunFrame("global", Shared, d)
  <2>1. /\ f \in Frame /\ f.kind = "global" /\ f.owner = Shared /\ f.deadline = d
    BY RunFrameTyped DEF EventOwner, RunFrame
  <2>2. stack' = Append(stack, f) /\ shared_now <= d
    BY <1>3 DEF RunDueEvents, Push, Time
  <2>3. \A i \in 1..Len(stack) : stack[i].kind = "scope"
    BY <1>3 DEF NoRunActive
  <2> HIDE DEF f
  <2>4. FrameAhead(S, f, shared_now, owner_now)
    BY <2>1, <2>2 DEF FrameAhead, TimeAt
  <2>5. \A i \in 1..Len(stack) : stack[i].kind # "owner"
    BY <2>3
  <2> QED BY <2>1, <2>2, <2>3, <2>4, <2>5, <1>1, <1>2, PushAhead
<1>4. CASE NoRunActive /\ OwnersReached(d, S) /\ RunOwnedEvents(Shared, d)
  <2> DEFINE f == RunFrame("owner", Shared, d)
  <2>1. /\ f \in Frame /\ f.kind = "owner" /\ f.owner = Shared /\ f.deadline = d
    BY RunFrameTyped DEF EventOwner, RunFrame
  <2>2. stack' = Append(stack, f) /\ shared_now <= d
    BY <1>2, <1>4 DEF RunOwnedEvents, Push, TimeFor, Time
  <2>3. \A i \in 1..Len(stack) : stack[i].kind = "scope"
    BY <1>4 DEF NoRunActive
  <2> HIDE DEF f
  <2>4. FrameAhead(S, f, shared_now, owner_now)
    BY <2>1, <2>2, <1>4 DEF FrameAhead, TimeAt, OwnersReached
  <2>5. \A i \in 1..Len(stack) : stack[i].kind # "owner"
    BY <2>3
  <2> QED BY <2>1, <2>2, <2>3, <2>4, <2>5, <1>1, <1>2, PushAhead
<1>5. ASSUME NEW o \in Owners, RunOwnedEvents(o, d)
      PROVE  RunsAhead(S, stack', shared_now, owner_now)
  <2> DEFINE f == RunFrame("owner", o, d)
  <2>1. /\ f \in Frame /\ f.kind = "owner" /\ f.owner = o /\ f.deadline = d
    BY RunFrameTyped DEF EventOwner, RunFrame
  <2>2. stack' = Append(stack, f) /\ d >= TimeFor(o)
    BY <1>5 DEF RunOwnedEvents, Push
  <2>3. \A i \in 1..Len(stack) : stack[i].kind # "owner"
    BY <1>5 DEF RunOwnedEvents, OwnerDispatchActive
  <2>4. d \in Nat /\ TimeFor(o) \in Nat /\ o # Shared
    BY <1>2 DEF Time, TimeFor
  <2> HIDE DEF f
  <2>5. FrameAhead(S, f, shared_now, owner_now) /\ ~MovesShared(f)
    BY <2>1, <2>2, <2>4, TimeForAt DEF FrameAhead, MovesShared
  <2> QED BY <2>1, <2>2, <2>3, <2>5, <1>2, PushAhead
<1> QED BY <1>1, <1>3, <1>4, <1>5

(* One step of the scheduler's use of the loop. *)
LEMMA SchedulerClocks ==
    ASSUME Inv, NEW S \in SUBSET Owners, ClockInv(S), [SchedulerNext(S)]_vars
    PROVE  ClocksForward(S) /\ CallbacksOnTime(S) /\ ClockInv(S)'
<1>1. [Next]_vars /\ Inv'
  BY SchedulerIsClient, NextInv
<1>2. \A o \in Owners : TimeFor(o) \in Nat /\ owner_now[o] \in Nat
  BY DEF TimeFor, Inv, TypeOK, Time
<1>3. ASSUME UNCHANGED <<shared_now, owner_now>> PROVE ClocksForward(S) /\ NoStaleEvent(S)'
  <2>1. NoStaleEvent(S)'
    BY <1>1, <1>3, QuietClocks DEF ClockInv
  <2>2. \A o \in Owners : TimeFor(o)' = TimeFor(o)
    BY <1>3 DEF TimeFor
  <2>3. ClocksForward(S)
    BY <1>2, <1>3, <2>2 DEF ClocksForward, Inv, TypeOK, Time
  <2> QED BY <2>1, <2>3
<1>c. CallbacksOnTime(S)
  <2> SUFFICES ASSUME NEW id \in EventId, NEW o \in EventOwner, RunsNow(id),
                      LiveSlot(store, id).owner = o
               PROVE  \/ TimeFor(o)' = LiveSlot(store, id).at
                      \/ id \in LeftBehind(S) /\ TimeFor(o)' = shared_now
    BY DEF CallbacksOnTime
  <2>1. Invoke /\ id = Top(RunQueue).id
    BY <1>1, RunsInInvoke
  <2>2. \/ TimeAt(o, shared_now', owner_now') = LiveSlot(store, id).at
        \/ /\ id \in LeftBehind(S)
           /\ TimeAt(o, shared_now', owner_now') = shared_now
    BY <2>1, InvokeClocks
  <2> QED BY <2>2, TimeForAt
<1>4. CASE \/ \E d \in Time : NoRunActive /\ RunDueEvents(d)
           \/ \E d \in Time : NoRunActive /\ OwnersReached(d, S) /\ RunOwnedEvents(Shared, d)
           \/ \E o \in Owners, d \in Time : RunOwnedEvents(o, d)
  <2>1. /\ UNCHANGED <<shared_now, owner_now>>
        /\ RunsAhead(S, stack', shared_now, owner_now)
    BY <1>4, StartAhead DEF ClockInv
  <2> QED BY <2>1, <1>3, <1>c DEF ClockInv
<1>5. CASE [ClientStep \/ DispatchStep]_vars
  <2>1. /\ ClocksForward(S) /\ NoStaleEvent(S)'
        /\ RunsAhead(S, stack, shared_now', owner_now')
    <3>1. CASE [ClientStep \/ CallbackReturns \/ CallbackThrows]_vars
      BY <3>1, <1>3, ClientClocks DEF ClockInv
    <3>2. CASE RunCompletes \/ RunStopsAtLimit
      BY <3>2, ReturnClocks
    <3>3. CASE Invoke
      BY <3>3, InvokeClocks
    <3> QED BY <3>1, <3>2, <3>3, <1>5 DEF DispatchStep
  <2>2. InnerSteps
    BY <1>5, InnerStack
  <2>3. RunsAhead(S, stack', shared_now', owner_now')
    BY <2>1, <2>2, <1>1, InnerAhead
  <2> QED BY <2>1, <2>3, <1>c DEF ClockInv
<1> QED BY <1>4, <1>5 DEF SchedulerNext

LEMMA ClockInit ==
    ASSUME NEW S, Init
    PROVE  ClockInv(S)
<1>1. Live(store) = {}
  BY DEF Init, EmptyStore, NoEvents, Live
<1>2. Len(stack) = 0
  BY DEF Init
<1> QED BY <1>1, <1>2 DEF ClockInv, RunsAhead, NoStaleEvent

(* For any number of owners and events, any depth of nested runs and       *)
(* whichever lanes S stop inside a window: the scheduler's use of the loop *)
(* moves no owner's own clock back, and the shared clock only when         *)
(* runDueEvents takes up an event a stopped lane left behind it; no other  *)
(* event is ever behind the clock its owner reads, and every callback      *)
(* starts at its event's time or, if left behind, at the shared clock.     *)
THEOREM SchedulerKeepsTime ==
    ASSUME NEW S \in SUBSET Owners
    PROVE  SchedulerSpec(S) =>
             [][ClocksForward(S) /\ CallbacksOnTime(S)]_vars /\ []NoStaleEvent(S)
<1> DEFINE I == Inv /\ ClockInv(S)
<1>1. Init => I
  BY InitInv, ClockInit
<1>2. I /\ [SchedulerNext(S)]_vars => I' /\ ClocksForward(S) /\ CallbacksOnTime(S)
  BY NextInv, SchedulerIsClient, SchedulerClocks
<1>3. I => NoStaleEvent(S)
  BY DEF ClockInv
<1> HIDE DEF I
<1> QED BY <1>1, <1>2, <1>3, PTL DEF SchedulerSpec

(* The invariant of a behaviour with either client. *)
ClientInv ==
    /\ Inv
    /\ stopped \in SUBSET Owners
    /\ client = "scheduler" => ClockInv(stopped)

LEMMA ClientStart == ClientInit => ClientInv
<1> SUFFICES ASSUME ClientInit PROVE ClientInv
  OBVIOUS
<1>1. Inv /\ Init
  BY InitInv DEF ClientInit
<1>2. stopped \in SUBSET Owners
  BY StoppedAssumption DEF ClientInit
<1>3. ClockInv(stopped)
  <2>1. PICK S \in SUBSET Owners : S = stopped
    BY <1>2
  <2>2. ClockInv(S)
    BY <1>1, ClockInit
  <2> QED BY <2>1, <2>2
<1> QED BY <1>1, <1>2, <1>3 DEF ClientInv

LEMMA ClientStepClocks ==
    ASSUME ClientInv, [ClientNext]_<<vars, client, stopped>>
    PROVE  /\ ClientInv'
           /\ client = "scheduler" =>
                 [ClocksForward(stopped) /\ CallbacksOnTime(stopped)]_vars
<1>1. client' = client /\ stopped' = stopped /\ [Next]_vars
      /\ (client = "scheduler" => [SchedulerNext(stopped)]_vars)
  BY SchedulerIsClient DEF ClientNext
<1>2. Inv'
  BY <1>1, NextInv DEF ClientInv
<1>3. PICK S \in SUBSET Owners : S = stopped
  BY DEF ClientInv
<1>4. client = "scheduler" => ClocksForward(S) /\ CallbacksOnTime(S) /\ ClockInv(S)'
  <2>1. client = "scheduler" => ClockInv(S) /\ [SchedulerNext(S)]_vars
    BY <1>1, <1>3 DEF ClientInv
  <2> QED BY <2>1, SchedulerClocks DEF ClientInv
<1>5. client = "scheduler" => ClockInv(stopped)'
  BY <1>1, <1>3, <1>4
<1>6. client = "scheduler" => ClocksForward(stopped) /\ CallbacksOnTime(stopped)
  BY <1>3, <1>4
<1> QED BY <1>1, <1>2, <1>3, <1>5, <1>6 DEF ClientInv

(* Used as World and Board use it, for any number of owners, events and    *)
(* nested runs, the loop sets no clock back except where runDueEvents      *)
(* takes up an event that a lane stopped inside a window left behind.      *)
THEOREM TimeNeverGoesBack == ClientSpec => ClocksMonotone
<1>1. ClientInit => ClientInv
  BY ClientStart
<1>2. ClientInv /\ [ClientNext]_<<vars, client, stopped>> =>
        ClientInv' /\ [client = "scheduler" => ClocksForward(stopped)]_vars
  BY ClientStepClocks
<1> QED BY <1>1, <1>2, PTL DEF ClientSpec, ClocksMonotone

(* A callback of the scheduler's behaviours sees the time it was scheduled *)
(* for, or the shared clock when a stopped lane left it behind that, for   *)
(* any number of owners, events and nested runs.                           *)
THEOREM CallbacksRunOnTime == ClientSpec => RunsOnTime
<1>1. ClientInit => ClientInv
  BY ClientStart
<1>2. ClientInv /\ [ClientNext]_<<vars, client, stopped>> =>
        ClientInv' /\ [client = "scheduler" => CallbacksOnTime(stopped)]_vars
  BY ClientStepClocks
<1> QED BY <1>1, <1>2, PTL DEF ClientSpec, RunsOnTime

=============================================================================
