------------------------------ MODULE EventLoop ------------------------------
(***************************************************************************)
(* fil::sim::EventLoop outside a lane-domain session: one thread, a        *)
(* recursive dispatcher, and clients whose callbacks schedule, cancel,     *)
(* clear and start further runs.                                           *)
(*                                                                         *)
(* The C++ call stack of runs, callbacks and OwnerScope objects is the     *)
(* sequence "stack", innermost last.  Client code runs exactly when the    *)
(* top of the stack is not a run; an exception it throws unwinds one run   *)
(* at a time and may be caught by the client that started that run.        *)
(***************************************************************************)
EXTENDS EventStore

CONSTANTS SameTimeLimits, \* the values given to setMaximumSameTimeEvents
          Localities,     \* TRUE: schedule with a locality guard
          MaxDepth,       \* bound on the depth of the C++ call stack
          MaxScopes       \* bound on the OwnerScope objects alive at a time

ASSUME LimitAssumption == SameTimeLimits \subseteq Nat /\ SameTimeLimits # {}
ASSUME LocalityAssumption == Localities \subseteq BOOLEAN
ASSUME DepthAssumption == MaxDepth \in Nat /\ MaxScopes \in Nat

VARIABLES
    store,                      \* slots, index and queues: see EventStore
    shared_now, owner_now,      \* the clocks
    maximum_same_time_events,   \* livelock limit of a run
    serial_active_owner,        \* currentOwner()
    stack,                      \* runs, callbacks and owner scopes
    handles,                    \* ScheduledEvent::id_ of each handle
    fate                        \* history: what became of each identifier

vars == <<store, shared_now, owner_now, maximum_same_time_events,
          serial_active_owner, stack, handles, fate>>

(* A frame of the stack: a run of all events, a run of one owner's events, *)
(* a callback being invoked, or an OwnerScope.                             *)
Frame == [kind : {"global", "owner", "callback", "scope"},
          owner : EventOwner, previous : EventOwner,
          deadline : Time, counted : Time, count : Nat]

RunFrame(kind, owner, deadline) ==
    [kind |-> kind, owner |-> owner, previous |-> Shared,
     deadline |-> deadline, counted |-> 0, count |-> 0]

ContextFrame(kind, owner) ==
    [kind |-> kind, owner |-> owner, previous |-> serial_active_owner,
     deadline |-> 0, counted |-> 0, count |-> 0]

TypeOK ==
    /\ store \in Store
    /\ shared_now \in Time
    /\ owner_now \in [Owners -> Time]
    /\ maximum_same_time_events \in SameTimeLimits
    /\ serial_active_owner \in EventOwner
    /\ stack \in Seq(Frame)
    /\ handles \in [Handles -> {0} \cup EventId]
    /\ fate \in [EventId -> {"unused", "pending", "ran", "cancelled"}]

Init ==
    /\ store = EmptyStore
    /\ shared_now = 0
    /\ owner_now = [o \in Owners |-> 0]
    /\ maximum_same_time_events \in SameTimeLimits
    /\ serial_active_owner = Shared
    /\ stack = <<>>
    /\ handles = [h \in Handles |-> 0]
    /\ fate = [i \in EventId |-> "unused"]

-----------------------------------------------------------------------------
(* Clocks.  An owner's clock is clamped to the shared one when it is read; *)
(* an owner that never ran reads as the shared clock, so 0 stands for the  *)
(* empty optional.                                                         *)
TimeFor(owner) ==
    IF owner = Shared THEN shared_now
    ELSE IF owner_now[owner] < shared_now THEN shared_now
                                          ELSE owner_now[owner]

SetTime(owner, t) ==
    /\ shared_now' = IF owner = Shared THEN t ELSE shared_now
    /\ owner_now' = IF owner = Shared THEN owner_now
                                      ELSE [owner_now EXCEPT ![owner] = t]

-----------------------------------------------------------------------------
(* The stack. *)
TopFrame == stack[Len(stack)]

ClientRuns == stack # <<>> => TopFrame.kind \in {"callback", "scope"}

RunOnTop(kind) == stack # <<>> /\ TopFrame.kind = kind

OwnerDispatchActive == \E i \in 1..Len(stack) : stack[i].kind = "owner"

Scopes == Len(SelectSeq(stack, LAMBDA f : f.kind = "scope"))

Push(frame) == Len(stack) < MaxDepth /\ stack' = Append(stack, frame)

Popped == SubSeq(stack, 1, Len(stack) - 1)

-----------------------------------------------------------------------------
(* Client calls.  A call the loop rejects with an exception before it      *)
(* changed anything is not a step.                                         *)
ClientUnchanged ==
    UNCHANGED <<shared_now, owner_now, maximum_same_time_events,
                serial_active_owner, stack>>

FateAfterCancel(id) ==
    IF id \in Live(store) THEN [fate EXCEPT ![id] = "cancelled"] ELSE fate

(* scheduleAt, scheduleAfter and their built-in and owner-local variants;  *)
(* "local" says that a locality guard was given.                           *)
Schedule(at, local) ==
    /\ ClientRuns
    /\ CanAllocate(store)
    /\ at >= TimeFor(serial_active_owner)
    /\ store' = Insert(store, at, serial_active_owner, local, NoHandle)
    /\ fate' = [fate EXCEPT ![store.next_id] = "pending"]
    /\ UNCHANGED handles
    /\ ClientUnchanged

Cancel(id) ==
    /\ ClientRuns
    /\ id \in Live(store)
    /\ store' = CancelId(store, id)
    /\ fate' = FateAfterCancel(id)
    /\ UNCHANGED handles
    /\ ClientUnchanged

(* ScheduledEvent::cancel and the destructor. *)
HandleCancel(h) ==
    /\ ClientRuns
    /\ handles[h] # 0
    /\ store' = CancelId(store, handles[h])
    /\ fate' = FateAfterCancel(handles[h])
    /\ handles' = [handles EXCEPT ![h] = 0]
    /\ ClientUnchanged

(* ScheduledEvent::scheduleAt and its variants: the previous event is      *)
(* cancelled first.  When the loop then rejects the new one the call has   *)
(* the effect of HandleCancel and throws.                                  *)
HandleSchedule(h, at, local) ==
    /\ ClientRuns
    /\ CanAllocate(store)
    /\ at >= TimeFor(serial_active_owner)
    /\ store' = Insert(CancelId(store, handles[h]), at, serial_active_owner,
                       local, h)
    /\ fate' = [FateAfterCancel(handles[h])
                   EXCEPT ![store.next_id] = "pending"]
    /\ handles' = [handles EXCEPT ![h] = store.next_id]
    /\ ClientUnchanged

Clear ==
    /\ ClientRuns
    /\ store' = ClearStore(store)
    /\ fate' = [i \in EventId |->
                  IF fate[i] = "pending" THEN "cancelled" ELSE fate[i]]
    /\ UNCHANGED handles
    /\ ClientUnchanged

SetMaximumSameTimeEvents(maximum) ==
    /\ ClientRuns
    /\ maximum_same_time_events' = maximum
    /\ UNCHANGED <<store, shared_now, owner_now, serial_active_owner, stack,
                   handles, fate>>

(* The queries nextScheduledTime(), nextScheduledTime(owner) and           *)
(* nextObservationTime(owner) answer from the front of a queue, which they *)
(* clean first.                                                            *)
Query(settled) ==
    /\ ClientRuns
    /\ store' = settled
    /\ UNCHANGED <<handles, fate>>
    /\ ClientUnchanged

NextScheduledTime == Query(SettleEvents(store))

NextScheduledTimeOf(owner) == Query(SettleOwner(store, owner))

NextObservationTime(owner) ==
    Query(SettleObserved(SettleOwner(store, owner)))

UseOwner(owner) ==
    /\ ClientRuns
    /\ Scopes < MaxScopes
    /\ Push(ContextFrame("scope", owner))
    /\ serial_active_owner' = owner
    /\ UNCHANGED <<store, shared_now, owner_now, maximum_same_time_events,
                   handles, fate>>

EndOwnerScope ==
    /\ RunOnTop("scope")
    /\ stack' = Popped
    /\ serial_active_owner' = TopFrame.previous
    /\ UNCHANGED <<store, shared_now, owner_now, maximum_same_time_events,
                   handles, fate>>

(* runDueEvents(deadline), and advanceBy(deadline - shared_now). *)
RunDueEvents(deadline) ==
    /\ ClientRuns
    /\ ~OwnerDispatchActive
    /\ deadline >= shared_now
    /\ Push(RunFrame("global", Shared, deadline))
    /\ UNCHANGED <<store, shared_now, owner_now, maximum_same_time_events,
                   serial_active_owner, handles, fate>>

(* Seeded fault: a deadline behind the owner's clock is accepted. *)
RunOwnedEvents_AnyDeadline(owner, deadline) ==
    /\ ClientRuns
    /\ ~OwnerDispatchActive
    /\ Push(RunFrame("owner", owner, deadline))
    /\ UNCHANGED <<store, shared_now, owner_now, maximum_same_time_events,
                   serial_active_owner, handles, fate>>

(* runOwnedEvents(owner, deadline); runSharedEvents is its shared case. *)
RunOwnedEvents(owner, deadline) ==
    /\ ClientRuns
    /\ ~OwnerDispatchActive
    /\ deadline >= TimeFor(owner)
    /\ Push(RunFrame("owner", owner, deadline))
    /\ UNCHANGED <<store, shared_now, owner_now, maximum_same_time_events,
                   serial_active_owner, handles, fate>>

-----------------------------------------------------------------------------
(* One iteration of the loop of runDueEventsLocked or runOwnedEvents: the  *)
(* front of the run's queue decides whether the run returns, stops at the  *)
(* same-time limit or invokes a callback.                                  *)
Settled ==
    IF TopFrame.kind = "global" THEN SettleEvents(store)
                                ELSE SettleOwner(store, TopFrame.owner)

RunQueue ==
    IF TopFrame.kind = "global" THEN Settled.events
                                ELSE Settled.owner_events[TopFrame.owner]

Due == RunQueue # {} /\ Top(RunQueue).at <= TopFrame.deadline

CountAt(at) ==
    IF TopFrame.count = 0 \/ TopFrame.counted # at THEN 0 ELSE TopFrame.count

LimitReached == CountAt(Top(RunQueue).at) >= maximum_same_time_events

RunOnStack == stack # <<>> /\ TopFrame.kind \in {"global", "owner"}

(* The clock of the run: the shared clock for a global run. *)
ReturnAt(t) ==
    /\ SetTime(TopFrame.owner, t)
    /\ stack' = Popped
    /\ store' = Settled
    /\ UNCHANGED <<maximum_same_time_events, serial_active_owner, handles,
                   fate>>

RunCompletes ==
    /\ RunOnStack
    /\ ~Due
    /\ ReturnAt(TopFrame.deadline)

RunStopsAtLimit ==
    /\ RunOnStack
    /\ Due
    /\ LimitReached
    /\ ReturnAt(Top(RunQueue).at)

(* Seeded fault: the callback does not clear its handle. *)
HandlesAfter_Kept(slot) == handles

(* A callback that belongs to a ScheduledEvent clears its id_ first. *)
HandlesAfter(slot) ==
    IF slot.handle = NoHandle THEN handles
                              ELSE [handles EXCEPT ![slot.handle] = 0]

(* Seeded fault: the owner's clock is not set. *)
OwnerClocksAfter_Kept(slot) == owner_now

OwnerClocksAfter(slot) ==
    IF slot.owner = Shared THEN owner_now
                           ELSE [owner_now EXCEPT ![slot.owner] = slot.at]

(* invoke: the slot is free again before the callback starts, the clocks   *)
(* stand at the event and its owner is the active one.                     *)
Invoke ==
    LET entry  == Top(RunQueue)
        slot   == Settled.slots[entry.slot]
        popped == IF TopFrame.kind = "global"
                  THEN PopEvents(Settled, entry)
                  ELSE PopOwner(Settled, TopFrame.owner, entry)
    IN  /\ RunOnStack
        /\ Due
        /\ ~LimitReached
        /\ Len(stack) < MaxDepth
        /\ store' = Retire(popped, entry.slot, slot.id)
        /\ fate' = [fate EXCEPT ![slot.id] = "ran"]
        /\ handles' = HandlesAfter(slot)
        /\ shared_now' = IF TopFrame.kind = "global" \/ slot.owner = Shared
                         THEN slot.at ELSE shared_now
        /\ owner_now' = OwnerClocksAfter(slot)
        /\ serial_active_owner' = slot.owner
        /\ stack' = Append(
               [stack EXCEPT ![Len(stack)].counted = entry.at,
                             ![Len(stack)].count = CountAt(entry.at) + 1],
               ContextFrame("callback", slot.owner))
        /\ UNCHANGED maximum_same_time_events

CallbackReturns ==
    /\ RunOnTop("callback")
    /\ serial_active_owner' = TopFrame.previous
    /\ stack' = Popped
    /\ UNCHANGED <<store, shared_now, owner_now, maximum_same_time_events,
                   handles, fate>>

(* Seeded fault: the owner is not restored. *)
CallbackThrows_KeepsOwner ==
    /\ RunOnTop("callback")
    /\ stack' = SubSeq(stack, 1, Len(stack) - 2)
    /\ UNCHANGED <<store, shared_now, owner_now, maximum_same_time_events,
                   serial_active_owner, handles, fate>>

(* The exception leaves the callback and the run that invoked it; the      *)
(* clocks stay where they are.                                             *)
CallbackThrows ==
    /\ RunOnTop("callback")
    /\ serial_active_owner' = TopFrame.previous
    /\ stack' = SubSeq(stack, 1, Len(stack) - 2)
    /\ UNCHANGED <<store, shared_now, owner_now, maximum_same_time_events,
                   handles, fate>>

-----------------------------------------------------------------------------
ClientStep ==
    \/ \E at \in Time, local \in Localities : Schedule(at, local)
    \/ \E id \in EventId : Cancel(id)
    \/ \E h \in Handles : HandleCancel(h)
    \/ \E h \in Handles, at \in Time, local \in Localities :
          HandleSchedule(h, at, local)
    \/ Clear
    \/ \E m \in SameTimeLimits : SetMaximumSameTimeEvents(m)
    \/ NextScheduledTime
    \/ \E o \in EventOwner : NextScheduledTimeOf(o) \/ NextObservationTime(o)
    \/ \E o \in EventOwner : UseOwner(o)
    \/ EndOwnerScope

DispatchStep ==
    \/ RunCompletes
    \/ RunStopsAtLimit
    \/ Invoke
    \/ CallbackReturns
    \/ CallbackThrows

Next ==
    \/ ClientStep
    \/ DispatchStep
    \/ \E d \in Time : RunDueEvents(d)
    \/ \E o \in EventOwner, d \in Time : RunOwnedEvents(o, d)

Spec == Init /\ [][Next]_vars

(* How World and Board use the loop: a run that moves the shared clock is  *)
(* never started inside another run, and when runSharedEvents goes to the  *)
(* end of a window every lane is there, except one that its budget, the    *)
(* debugger or a failure stopped on the way: World::runIndependent drains  *)
(* the shared events past the events such a lane has left.  "stopped" are  *)
(* the lanes to which that happens in the behaviour.                       *)
NoRunActive == \A i \in 1..Len(stack) : stack[i].kind = "scope"

OwnersReached(deadline, stopped) ==
    \A o \in Owners \ stopped : owner_now[o] >= deadline

SchedulerNext(stopped) ==
    \/ ClientStep
    \/ DispatchStep
    \/ \E d \in Time : NoRunActive /\ RunDueEvents(d)
    \/ \E d \in Time : /\ NoRunActive
                        /\ OwnersReached(d, stopped)
                        /\ RunOwnedEvents(Shared, d)
    \/ \E o \in Owners, d \in Time : RunOwnedEvents(o, d)

SchedulerSpec(stopped) == Init /\ [][SchedulerNext(stopped)]_vars

-----------------------------------------------------------------------------
(* Properties of every client. *)

(* However callbacks, cancels, clears and nested runs interleave, slots,   *)
(* free list, live_events and the lazily cleaned queues describe the same  *)
(* set of events, and a recycled slot is never mistaken for its previous   *)
(* event (entryLive).                                                      *)
StoreInvariant == StoreConsistent(store)

(* The events that are still to run are exactly the ones in live_events,   *)
(* and no identifier past the allocator was ever handed out.               *)
FateExact ==
    \A id \in EventId :
        /\ fate[id] = "pending" <=> id \in Live(store)
        /\ fate[id] = "unused" <=> id >= store.next_id

(* A ScheduledEvent holds the identifier of the one live event bound to    *)
(* it, and never the identifier of an event that already ran: cancelling   *)
(* or rescheduling it cannot hit another event or leave one behind.        *)
HandleExact ==
    /\ \A id \in Live(store) :
          LET h == LiveSlot(store, id).handle
          IN  h # NoHandle => handles[h] = id
    /\ \A h \in Handles :
          handles[h] # 0 =>
              \/ fate[handles[h]] = "cancelled"
              \/ /\ handles[h] \in Live(store)
                 /\ LiveSlot(store, handles[h]).handle = h

(* currentOwner() is the owner of the innermost callback or OwnerScope,    *)
(* whichever of them were left by an exception.                            *)
ContextFrames(i) ==
    {j \in 1..i : stack[j].kind \in {"callback", "scope"}}

OwnerAt(i) ==
    IF ContextFrames(i) = {} THEN Shared
    ELSE stack[CHOOSE j \in ContextFrames(i) :
                  \A k \in ContextFrames(i) : k <= j].owner

OwnerContext ==
    /\ serial_active_owner = OwnerAt(Len(stack))
    /\ \A i \in 1..Len(stack) :
          stack[i].kind \in {"callback", "scope"} =>
              stack[i].previous = OwnerAt(i - 1)

(* The answers of the queries, computed from the cleaned queues, are the   *)
(* times a scan over the live events gives: the scheduler never sleeps     *)
(* past an event because of a dead entry.                                  *)
TimesOf(queue) == {e.at : e \in queue}

Earliest(times) ==
    IF times = {} THEN {} ELSE {CHOOSE t \in times : \A u \in times : t <= u}

FrontTime(queue) == IF queue = {} THEN {} ELSE {Top(queue).at}

LiveTimes(P(_)) ==
    {LiveSlot(store, id).at : id \in {i \in Live(store) : P(LiveSlot(store, i))}}

QueriesExact ==
    /\ FrontTime(SettleEvents(store).events) = Earliest(LiveTimes(LAMBDA s : TRUE))
    /\ \A o \in EventOwner :
          /\ FrontTime(SettleOwner(store, o).owner_events[o])
                = Earliest(LiveTimes(LAMBDA s : s.owner = o))
          /\ Earliest(FrontTime(SettleOwner(store, o).owner_events[o])
                \cup FrontTime(SettleObserved(store).globally_observed_events))
                = Earliest(LiveTimes(LAMBDA s : s.owner = o \/ s.observed))

(* A run invokes the first of the live events it looks at, in (time,       *)
(* sequence) order, and only events due at its deadline.                   *)
Seen(id) == TopFrame.kind = "global" \/ LiveSlot(store, id).owner = TopFrame.owner

RunsNow(id) == fate[id] = "pending" /\ fate'[id] = "ran"

DispatchOrder ==
    [][\A id \in EventId : RunsNow(id) =>
          /\ Seen(id)
          /\ LiveSlot(store, id).at <= TopFrame.deadline
          /\ \A other \in Live(store) \ {id} :
                Seen(other) => Before(LiveSlot(store, id), LiveSlot(store, other))
      ]_vars

(* The event loop implements the abstract queue of pending events. *)
Queue == INSTANCE EventQueue WITH
    pending <- {[id |-> id, at |-> LiveSlot(store, id).at,
                 sequence |-> LiveSlot(store, id).sequence,
                 owner |-> LiveSlot(store, id).owner] : id \in Live(store)},
    fate <- fate

(* The loop with its slots and lazily cleaned queues does what a set of    *)
(* pending events does: each runs once, in order, never after its cancel.  *)
ImplementsQueue == Queue!Spec

-----------------------------------------------------------------------------
(* Properties of the scheduler's use of the loop (SchedulerSpec). *)

(* No pending event lies in the past of its owner's own clock; only one of *)
(* a lane that stopped inside a window may lie behind the shared clock.    *)
NoStaleEvent(stopped) ==
    \A id \in Live(store) :
        LET slot == LiveSlot(store, id)
        IN  /\ slot.owner \in Owners => slot.at >= owner_now[slot.owner]
            /\ slot.owner \notin stopped => slot.at >= TimeFor(slot.owner)

(* The events of stopped lanes that runSharedEvents has passed.            *)
LeftBehind(stopped) ==
    {id \in Live(store) : /\ LiveSlot(store, id).owner \in stopped
                          /\ LiveSlot(store, id).at < shared_now}

(* A step of the scheduler moves no owner's own clock back, and neither    *)
(* the shared clock nor what any owner reads, unless it is a step of       *)
(* runDueEvents while a stopped lane's event is left behind.               *)
ClocksForward(stopped) ==
    /\ \A o \in Owners : owner_now'[o] >= owner_now[o]
    /\ \/ RunOnTop("global") /\ LeftBehind(stopped) # {}
       \/ /\ shared_now' >= shared_now
          /\ \A o \in Owners : TimeFor(o)' >= TimeFor(o)

(* A callback starts at the time its event was scheduled for, or, when a   *)
(* stopped lane's event was left behind, at the shared clock that passed   *)
(* it (or at its own time, where runDueEvents sets the shared clock back). *)
CallbacksOnTime(stopped) ==
    \A id \in EventId, o \in EventOwner :
        RunsNow(id) /\ LiveSlot(store, id).owner = o =>
            \/ TimeFor(o)' = LiveSlot(store, id).at
            \/ id \in LeftBehind(stopped) /\ TimeFor(o)' = shared_now

(* The clock of event_loop.hpp, "monotonically increasing", for the calls  *)
(* World makes: runSharedEvents asks its callers to leave no owner event   *)
(* behind it that another path could still invoke.                         *)
SharedClockMonotone == [][shared_now' >= shared_now]_vars

(* Queries and callback contexts agree with the live events: the scheduler *)
(* never sleeps past an event because of a dead entry, and an exception    *)
(* out of a callback leaves no other owner's context behind.               *)
LoopConsistent == QueriesExact /\ OwnerContext
=============================================================================
