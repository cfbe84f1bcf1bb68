---------------------------- MODULE MCEventLoop ----------------------------
(***************************************************************************)
(* EventLoop for TLC: any client of the public interface, over ClientTime, *)
(* or the discipline of World and Board, over the whole of Time, with      *)
(* neither handles nor owner-local events nor cancellations, which do not  *)
(* concern the clocks.                                                     *)
(***************************************************************************)
EXTENDS EventLoop

CONSTANTS
    LoopClients,   \* the clients a behaviour may have
    StoppedLanes,  \* the sets of lanes that may stop inside a window
    ClientTime     \* bound: the last time any client but the scheduler uses

VARIABLES
    client,        \* who uses the loop in this behaviour
    stopped        \* the lanes that stop inside a window in it

ASSUME ClientAssumption == LoopClients \subseteq {"any", "scheduler"} /\ ClientTime \in Time
ASSUME StoppedAssumption == StoppedLanes \subseteq SUBSET Owners

WithinClientTime ==
    /\ shared_now <= ClientTime /\ \A o \in Owners : owner_now[o] <= ClientTime
    /\ \A i \in 1..Len(store.slots) : store.slots[i].at <= ClientTime
    /\ \A i \in 1..Len(stack) : stack[i].deadline <= ClientTime

ObservedOnly ==
    /\ \A i \in 1..Len(store.slots) : store.slots[i].observed
    /\ \A id \in EventId : fate[id] # "cancelled"

ClientInit ==
    /\ Init
    /\ client \in LoopClients
    /\ stopped \in IF client = "scheduler" THEN StoppedLanes ELSE {{}}

ClientNext ==
    /\ \/ client = "any" /\ Next /\ WithinClientTime'
       \/ client = "scheduler" /\ SchedulerNext(stopped) /\ ObservedOnly' /\ UNCHANGED handles
    /\ UNCHANGED <<client, stopped>>

ClientSpec == ClientInit /\ [][ClientNext]_<<vars, client, stopped>>

(* Used as World and Board use it, the loop sets back neither the shared   *)
(* clock nor what any owner reads, although runs assign the clocks from    *)
(* the events they take; the one exception is runDueEvents taking up what  *)
(* a lane that stopped inside a window left behind the shared clock.       *)
ClocksMonotone == [][client = "scheduler" => ClocksForward(stopped)]_vars

(* A callback that reads now() sees exactly the time it was scheduled for; *)
(* the late callback of a stopped lane sees the shared clock instead.      *)
RunsOnTime == [][client = "scheduler" => CallbacksOnTime(stopped)]_vars
=============================================================================
