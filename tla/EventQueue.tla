----------------------------- MODULE EventQueue -----------------------------
(***************************************************************************)
(* What the simulation event loop promises its clients, without slots,     *)
(* heaps or handles: a set of pending events, each run at most once, in    *)
(* (time, scheduling sequence) order among the events of one owner, and  *)
(* never after it was cancelled.  EventLoop implements this specification. *)
(***************************************************************************)
EXTENDS Integers

CONSTANTS Owners,   \* event owners other than the shared domain
          Shared,   \* shared_event_owner
          MaxTime,  \* largest representable SimTimeNs
          MaxId     \* largest event identifier allocateId hands out

EventOwner == Owners \cup {Shared}
Time == 0..MaxTime
EventId == 1..MaxId

(* An event as its scheduler sees it. *)
Event == [id : EventId, at : Time, sequence : 0..MaxId, owner : EventOwner]

VARIABLES pending,  \* the events scheduled and neither run nor cancelled
          fate      \* what became of every identifier

vars == <<pending, fate>>

Fate == {"unused", "pending", "ran", "cancelled"}

TypeOK ==
    /\ pending \subseteq Event
    /\ fate \in [EventId -> Fate]

(* The (time, sequence) order in which due events run. *)
Precedes(e, f) ==
    \/ e.at < f.at
    \/ e.at = f.at /\ e.sequence < f.sequence

Init ==
    /\ pending = {}
    /\ fate = [i \in EventId |-> "unused"]

(* Scheduling introduces an identifier that was never used before. *)
Schedule(e) ==
    /\ fate[e.id] = "unused"
    /\ pending' = pending \cup {e}
    /\ fate' = [fate EXCEPT ![e.id] = "pending"]

Cancel(e) ==
    /\ e \in pending
    /\ pending' = pending \ {e}
    /\ fate' = [fate EXCEPT ![e.id] = "cancelled"]

(* Rescheduling through a handle: the old event goes, a new one comes. *)
Replace(e, f) ==
    /\ e \in pending
    /\ fate[f.id] = "unused"
    /\ pending' = (pending \ {e}) \cup {f}
    /\ fate' = [fate EXCEPT ![e.id] = "cancelled", ![f.id] = "pending"]

Clear ==
    /\ pending' = {}
    /\ fate' = [i \in EventId |->
                  IF fate[i] = "pending" THEN "cancelled" ELSE fate[i]]

(* Whichever run dispatches it, an event never overtakes another event of  *)
(* its own owner.  (A run over all owners keeps the order between owners   *)
(* too: EventLoop states that as the action property DispatchOrder.)       *)
Dispatch(e) ==
    /\ e \in pending
    /\ \A f \in pending \ {e} : f.owner = e.owner => Precedes(e, f)
    /\ pending' = pending \ {e}
    /\ fate' = [fate EXCEPT ![e.id] = "ran"]

Next ==
    \/ \E e \in Event : Schedule(e)
    \/ \E e \in pending : Cancel(e) \/ Dispatch(e)
    \/ \E e \in pending, f \in Event : Replace(e, f)
    \/ Clear

Spec == Init /\ [][Next]_vars
=============================================================================
