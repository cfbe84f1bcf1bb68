---------------------------- MODULE LaneWorkers ----------------------------
(***************************************************************************)
(* fil::sim::detail::LaneWorkers: the pool of host threads that executes   *)
(* one job per board in every bounded-skew window.  Thread 0 is the        *)
(* coordinator (World); it calls run() any number of times and finally     *)
(* destroys the pool.  Atomic operations are single steps; a futex wait    *)
(* compares and sleeps in one step and compares again after a wake-up.     *)
(*                                                                         *)
(* Measured costs only order the queue and bound its width, so the order   *)
(* is any permutation of the jobs and the width any useful one.  Spinning  *)
(* stops after an arbitrary time.                                          *)
(***************************************************************************)
EXTENDS Integers, FiniteSets

CONSTANTS Count,        \* count_: jobs of a window, one per board
          WorkerCount,  \* worker_count_: background threads
          MaxWindows    \* bound on the calls of run()

ASSUME CountAssumption == Count \in Nat \ {0}
ASSUME WorkerAssumption == WorkerCount \in 0..Count
ASSUME WindowAssumption == MaxWindows \in Nat

Workers == 1..WorkerCount
Threads == 0..WorkerCount
Jobs == 0..(Count - 1)
NoJob == Count

VARIABLES
    pc,               \* where each thread is
    observed,         \* generation a worker has handled
    claimed,          \* queue position a thread took in drain()
    generation_, remaining_, next_index_, parked_,
    ready_, startup_failed_, stopping_,
    width_limited_,   \* setWidthLimited
    order_,           \* queue position -> job
    execution_slots_, \* executors of the window
    failures_,        \* captured exceptions
    loaded,           \* the coordinator's last load of remaining_ or parked_
    thrown,           \* the job whose exception run() rethrew, or NoJob
    executed, failed  \* history of the window: executions and exceptions

vars == <<pc, observed, claimed, generation_, remaining_, next_index_, parked_,
          ready_, startup_failed_, stopping_, width_limited_, order_,
          execution_slots_, failures_, loaded, thrown, executed, failed>>

atomics == <<generation_, remaining_, next_index_, parked_, ready_,
             startup_failed_, stopping_>>
window == <<width_limited_, order_, execution_slots_, failures_, thrown,
            executed, failed>>

TypeOK ==
    /\ pc \in [Threads -> {"unborn", "construct", "start", "loop", "spin",
                           "wait", "asleep", "unpark", "take", "claim",
                           "work", "ack", "notify_one", "exit", "idle",
                           "publish", "load_parked", "reordered",
                           "notify_all", "await", "park", "update",
                           "collect", "destroy", "wake_all", "join", "gone"}]
    /\ observed \in [Workers -> Nat]
    /\ claimed \in [Threads -> Nat]
    /\ generation_ \in Nat /\ remaining_ \in 0..WorkerCount
    /\ next_index_ \in Nat
    /\ parked_ \in 0..WorkerCount
    /\ {ready_, startup_failed_, stopping_, width_limited_} \subseteq BOOLEAN
    /\ order_ \in [Jobs -> Jobs]
    /\ execution_slots_ \in 1..(WorkerCount + 1)
    /\ failures_ \in SUBSET Jobs /\ failed \in SUBSET Jobs
    /\ loaded \in 0..WorkerCount
    /\ thrown \in 0..Count
    /\ executed \in [Jobs -> Nat]

Init ==
    /\ pc = [t \in Threads |-> IF t = 0 THEN "construct" ELSE "unborn"]
    /\ observed = [w \in Workers |-> 0]
    /\ claimed = [t \in Threads |-> 0]
    /\ generation_ = 0 /\ remaining_ = 0 /\ next_index_ = 0 /\ parked_ = 0
    /\ ready_ = FALSE /\ startup_failed_ = FALSE /\ stopping_ = FALSE
    /\ width_limited_ = FALSE
    /\ order_ = [i \in Jobs |-> i]
    /\ execution_slots_ = 1
    /\ failures_ = {} /\ failed = {}
    /\ loaded = 0
    /\ thrown = NoJob
    /\ executed = [j \in Jobs |-> 0]

Goto(t, from, to) == pc[t] = from /\ pc' = [pc EXCEPT ![t] = to]

-----------------------------------------------------------------------------
(* Construction.  Creating a thread may fail; the workers created so far   *)
(* are then released and joined.                                           *)
Spawn(w) ==
    /\ pc[0] = "construct"
    /\ pc[w] = "unborn"
    /\ \A v \in Workers : v < w => pc[v] # "unborn"
    /\ pc' = [pc EXCEPT ![w] = "start"]
    /\ UNCHANGED <<observed, claimed, atomics, window, loaded>>

SpawnFails ==
    /\ \E w \in Workers : pc[w] = "unborn"
    /\ Goto(0, "construct", "join")
    /\ startup_failed_' = TRUE
    /\ ready_' = TRUE
    /\ UNCHANGED <<observed, claimed, generation_, remaining_, next_index_,
                   parked_, stopping_, window, loaded>>

Constructed ==
    /\ \A w \in Workers : pc[w] # "unborn"
    /\ Goto(0, "construct", "idle")
    /\ ready_' = TRUE
    /\ UNCHANGED <<observed, claimed, generation_, remaining_, next_index_,
                   parked_, startup_failed_, stopping_, window, loaded>>

-----------------------------------------------------------------------------
(* drain(), executed by workers and by the coordinator. *)
AfterDrain(t) == IF t = 0 THEN "await" ELSE "ack"

Claim(t) ==
    /\ Goto(t, "claim", IF next_index_ < Count THEN "work" ELSE AfterDrain(t))
    /\ claimed' = [claimed EXCEPT ![t] = next_index_]
    /\ next_index_' = next_index_ + 1
    /\ UNCHANGED <<observed, generation_, remaining_, parked_, ready_,
                   startup_failed_, stopping_, window, loaded>>

(* work_(index), which may throw. *)
Work(t) ==
    LET job == order_[claimed[t]]
    IN  /\ Goto(t, "work", "claim")
        /\ executed' = [executed EXCEPT ![job] = @ + 1]
        /\ \E throws \in BOOLEAN :
              /\ failures_' = IF throws THEN failures_ \cup {job} ELSE failures_
              /\ failed' = IF throws THEN failed \cup {job} ELSE failed
        /\ UNCHANGED <<observed, claimed, atomics, width_limited_, order_,
                       execution_slots_, loaded, thrown>>

-----------------------------------------------------------------------------
(* A worker. *)
Begin(w) ==
    /\ ready_
    /\ Goto(w, "start", IF startup_failed_ THEN "exit" ELSE "loop")
    /\ UNCHANGED <<observed, claimed, atomics, window, loaded>>

(* Reads spin_cycles_, which is not atomic. *)
ReadSpinCycles(w) ==
    /\ Goto(w, "loop", "spin")
    /\ UNCHANGED <<observed, claimed, atomics, window, loaded>>

Observe(w) ==
    /\ generation_ # observed[w]
    /\ Goto(w, "spin", "take")
    /\ UNCHANGED <<observed, claimed, atomics, window, loaded>>

(* The spin budget is used up. *)
Announce(w) ==
    /\ generation_ = observed[w]
    /\ Goto(w, "spin", "wait")
    /\ parked_' = parked_ + 1
    /\ UNCHANGED <<observed, claimed, generation_, remaining_, next_index_,
                   ready_, startup_failed_, stopping_, window, loaded>>

(* generation_.wait(observed). *)
Wait(w) ==
    /\ Goto(w, "wait", IF generation_ = observed[w] THEN "asleep" ELSE "unpark")
    /\ UNCHANGED <<observed, claimed, atomics, window, loaded>>

Unpark(w) ==
    /\ Goto(w, "unpark", "spin")
    /\ parked_' = parked_ - 1
    /\ UNCHANGED <<observed, claimed, generation_, remaining_, next_index_,
                   ready_, startup_failed_, stopping_, window, loaded>>

Take(w) ==
    /\ Goto(w, "take",
            IF stopping_ THEN "exit"
            ELSE IF width_limited_ => w < execution_slots_ THEN "claim" ELSE "ack")
    /\ observed' = [observed EXCEPT ![w] = generation_]
    /\ UNCHANGED <<claimed, atomics, window, loaded>>

(* Seeded fault: the last acknowledgement notifies nobody. *)
Acknowledge_Silent(w) ==
    /\ Goto(w, "ack", "loop")
    /\ remaining_' = remaining_ - 1
    /\ UNCHANGED <<observed, claimed, generation_, next_index_, parked_,
                   ready_, startup_failed_, stopping_, window, loaded>>

Acknowledge(w) ==
    /\ Goto(w, "ack", IF remaining_ = 1 THEN "notify_one" ELSE "loop")
    /\ remaining_' = remaining_ - 1
    /\ UNCHANGED <<observed, claimed, generation_, next_index_, parked_,
                   ready_, startup_failed_, stopping_, window, loaded>>

(* remaining_.notify_one(): the coordinator, if asleep, compares again. *)
NotifyOne(w) ==
    /\ pc[w] = "notify_one"
    /\ pc' = [pc EXCEPT ![w] = "loop",
                        ![0] = IF @ = "asleep" THEN "park" ELSE @]
    /\ UNCHANGED <<observed, claimed, atomics, window, loaded>>

WorkerStep(w) ==
    \/ Begin(w) \/ ReadSpinCycles(w) \/ Observe(w) \/ Announce(w) \/ Wait(w)
    \/ Unpark(w) \/ Take(w) \/ Claim(w) \/ Work(w) \/ Acknowledge(w)
    \/ NotifyOne(w)

-----------------------------------------------------------------------------
(* run(). *)
Width == IF Count <= WorkerCount THEN Count ELSE WorkerCount + 1

SetWidthLimited(limited) ==
    /\ pc[0] = "idle"
    /\ width_limited_' = limited
    /\ UNCHANGED <<pc, observed, claimed, atomics, order_, execution_slots_,
                   failures_, loaded, thrown, executed, failed>>

(* Seeded fault: the queue position is not reset. *)
Run_KeepsIndex ==
    /\ generation_ < MaxWindows
    /\ Goto(0, "idle", "publish")
    /\ order_' \in {f \in [Jobs -> Jobs] :
                      \A i, j \in Jobs : f[i] = f[j] => i = j}
    /\ execution_slots_' \in IF width_limited_ THEN 1..Width ELSE {Width}
    /\ remaining_' = WorkerCount
    /\ thrown' = NoJob
    /\ executed' = [j \in Jobs |-> 0]
    /\ failed' = {}
    /\ UNCHANGED <<observed, claimed, generation_, next_index_, parked_, ready_,
                   startup_failed_, stopping_, width_limited_, failures_, loaded>>

(* The window is prepared with plain stores. *)
Run ==
    /\ generation_ < MaxWindows
    /\ Goto(0, "idle", "publish")
    /\ order_' \in {f \in [Jobs -> Jobs] :
                      \A i, j \in Jobs : f[i] = f[j] => i = j}
    /\ execution_slots_' \in IF width_limited_ THEN 1..Width ELSE {Width}
    /\ next_index_' = 0
    /\ remaining_' = WorkerCount
    /\ thrown' = NoJob
    /\ executed' = [j \in Jobs |-> 0]
    /\ failed' = {}
    /\ UNCHANGED <<observed, claimed, generation_, parked_, ready_,
                   startup_failed_, stopping_, width_limited_, failures_, loaded>>

Publish ==
    /\ Goto(0, "publish", "load_parked")
    /\ generation_' = generation_ + 1
    /\ UNCHANGED <<observed, claimed, remaining_, next_index_, parked_, ready_,
                   startup_failed_, stopping_, window, loaded>>

LoadParked ==
    /\ Goto(0, "load_parked", IF parked_ # 0 THEN "notify_all" ELSE "claim")
    /\ UNCHANGED <<observed, claimed, atomics, window, loaded>>

(* generation_.notify_all(): the sleepers compare again. *)
WakeWorkers(next) ==
    pc' = [t \in Threads |-> IF t = 0 THEN next
                             ELSE IF pc[t] = "asleep" THEN "wait" ELSE pc[t]]

NotifyAll ==
    /\ pc[0] = "notify_all"
    /\ WakeWorkers("claim")
    /\ UNCHANGED <<observed, claimed, atomics, window, loaded>>

(* Seeded fault: the window ends with the last job of the queue. *)
Await_LastJob ==
    /\ Goto(0, "await", IF next_index_ >= Count THEN "update" ELSE "await")
    /\ UNCHANGED <<observed, claimed, atomics, window, loaded>>

(* The coordinator loads remaining_, goes on when it is 0, and otherwise   *)
(* loads it again or parks.                                                *)
Await ==
    /\ pc[0] = "await"
    /\ loaded' = remaining_
    /\ \E next \in IF remaining_ = 0 THEN {"update"} ELSE {"await", "park"} :
          pc' = [pc EXCEPT ![0] = next]
    /\ UNCHANGED <<observed, claimed, atomics, window>>

Park ==
    /\ Goto(0, "park", IF remaining_ = loaded THEN "asleep" ELSE "await")
    /\ UNCHANGED <<observed, claimed, atomics, window, loaded>>

(* updateSpinCycles writes spin_cycles_. *)
UpdateSpinCycles ==
    /\ Goto(0, "update", "collect")
    /\ UNCHANGED <<observed, claimed, atomics, window, loaded>>

Lowest(jobs) ==
    IF jobs = {} THEN NoJob ELSE CHOOSE j \in jobs : \A k \in jobs : j <= k

(* Seeded fault: only the rethrown exception is cleared. *)
Collect_KeepsOthers ==
    /\ Goto(0, "collect", "idle")
    /\ thrown' = Lowest(failures_)
    /\ failures_' = failures_ \ {Lowest(failures_)}
    /\ UNCHANGED <<observed, claimed, atomics, width_limited_, order_,
                   execution_slots_, loaded, executed, failed>>

Collect ==
    /\ Goto(0, "collect", "idle")
    /\ thrown' = Lowest(failures_)
    /\ failures_' = {}
    /\ UNCHANGED <<observed, claimed, atomics, width_limited_, order_,
                   execution_slots_, loaded, executed, failed>>

-----------------------------------------------------------------------------
(* ~LaneWorkers(). *)
Destroy ==
    /\ Goto(0, "idle", "destroy")
    /\ stopping_' = TRUE
    /\ UNCHANGED <<observed, claimed, generation_, remaining_, next_index_,
                   parked_, ready_, startup_failed_, window, loaded>>

PublishStop ==
    /\ Goto(0, "destroy", "wake_all")
    /\ generation_' = generation_ + 1
    /\ UNCHANGED <<observed, claimed, remaining_, next_index_, parked_, ready_,
                   startup_failed_, stopping_, window, loaded>>

NotifyStop ==
    /\ pc[0] = "wake_all"
    /\ WakeWorkers("join")
    /\ UNCHANGED <<observed, claimed, atomics, window, loaded>>

Joined ==
    /\ \A w \in Workers : pc[w] \in {"exit", "unborn"}
    /\ Goto(0, "join", "gone")
    /\ UNCHANGED <<observed, claimed, atomics, window, loaded>>

CoordinatorStep ==
    \/ \E w \in Workers : Spawn(w)
    \/ SpawnFails \/ Constructed
    \/ Publish \/ LoadParked \/ NotifyAll \/ Claim(0) \/ Work(0)
    \/ Await \/ Park \/ UpdateSpinCycles \/ Collect
    \/ PublishStop \/ NotifyStop \/ Joined

Next ==
    \/ CoordinatorStep
    \/ Run
    \/ \E limited \in BOOLEAN : SetWidthLimited(limited)
    \/ Destroy
    \/ \E w \in Workers : WorkerStep(w)

(* Every thread is scheduled, and the coordinator is obliged to finish a   *)
(* call it started, not to start one.                                      *)
Fairness ==
    /\ WF_vars(CoordinatorStep)
    /\ \A w \in Workers : WF_vars(WorkerStep(w))

Spec == Init /\ [][Next]_vars /\ Fairness

(* The build for hosts where a release read-modify-write may become        *)
(* visible after a later acquire load of another location (AArch64 with    *)
(* -mcpu=native): the load of parked_ may come before the increment of     *)
(* generation_.                                                            *)
LoadParkedEarly ==
    /\ Goto(0, "publish", "reordered")
    /\ loaded' = parked_
    /\ UNCHANGED <<observed, claimed, atomics, window>>

PublishLate ==
    /\ Goto(0, "reordered", IF loaded # 0 THEN "notify_all" ELSE "claim")
    /\ generation_' = generation_ + 1
    /\ UNCHANGED <<observed, claimed, remaining_, next_index_, parked_, ready_,
                   startup_failed_, stopping_, window, loaded>>

WeakSpec == Init /\ [][Next \/ LoadParkedEarly \/ PublishLate]_vars

-----------------------------------------------------------------------------
(* Properties. *)

(* Whatever order the threads claim work in, no job runs twice in a window *)
(* and all have run when run() collects the exceptions.                    *)
ExactlyOnce ==
    /\ TypeOK
    /\ \A j \in Jobs : executed[j] <= 1
    /\ pc[0] \in {"update", "collect"} => \A j \in Jobs : executed[j] = 1

(* "Every worker acknowledges every window before shared mutation": while  *)
(* the coordinator is between windows no worker can reach the queue, the   *)
(* work function or an exception slot.                                     *)
Quiescent ==
    pc[0] \in {"update", "collect", "idle", "publish", "destroy"} =>
        \A w \in Workers : pc[w] \notin {"take", "claim", "work", "ack"}

(* Host scheduling does not choose the exception run() rethrows: it is the *)
(* one of the lowest job that threw in this window, and none is left over. *)
FailurePriority ==
    pc[0] = "idle" => failures_ = {} /\ thrown = Lowest(failed)

(* A worker that sleeps although its generation is over will be woken: the *)
(* coordinator has not skipped its notify_all.                             *)
NoMissedWakeup ==
    \A w \in Workers :
        pc[w] = "asleep" /\ generation_ # observed[w] =>
            pc[0] \in {"load_parked", "notify_all", "wake_all"}

(* run() returns: no acknowledgement and no wake-up is lost.  The          *)
(* destructor, and a constructor that fails half-way, join all threads.    *)
CallsEnd ==
    /\ (pc[0] = "publish") ~> (pc[0] = "idle")
    /\ (pc[0] \in {"destroy", "join"}) ~> (pc[0] = "gone")

(* Between two windows nothing of the last one is left: no worker is still *)
(* inside, and the exception chosen does not depend on host scheduling.    *)
CallSettled == Quiescent /\ FailurePriority
=============================================================================
