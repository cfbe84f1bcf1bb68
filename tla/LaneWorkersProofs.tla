------------------------ MODULE LaneWorkersProofs ------------------------
(***************************************************************************)
(* For every number of jobs, workers and windows: a job runs exactly once  *)
(* in a window, nothing of a window outlives run(), the exception run()    *)
(* rethrows does not depend on host scheduling and no wake-up is missed.   *)
(***************************************************************************)
EXTENDS LaneWorkers, FiniteSetTheorems, FunctionTheorems, TLAPS

(* The coordinator is between the publication of a window and its end.     *)
WindowOpen ==
    {"load_parked", "notify_all", "claim", "work", "await", "park", "asleep"}

(* The coordinator is between two windows.                                 *)
WindowClosed == {"update", "collect", "idle", "publish", "destroy"}

Stopping == {"wake_all", "join", "gone"}

Parked == {w \in Workers : pc[w] \in {"wait", "asleep", "unpark"}}

(* The workers that have not acknowledged the published generation.        *)
Owing == {w \in Workers : \/ observed[w] # generation_
                          \/ pc[w] \in {"claim", "work", "ack"}}

Working(i) == \E t \in Threads : pc[t] = "work" /\ claimed[t] = i

CoordinatorPhase ==
    pc[0] \in {"construct"} \cup WindowOpen \cup WindowClosed \cup Stopping

(* Which phases of a worker go with which of the coordinator's.            *)
WorkerPhase(w) ==
    /\ pc[w] \in {"unborn", "start", "loop", "spin", "wait", "asleep",
                  "unpark", "take", "claim", "work", "ack", "notify_one", "exit"}
    /\ pc[0] = "construct" =>
          pc[w] \in {"unborn", "start"} /\ ~ready_ /\ observed[w] = generation_
    /\ pc[0] \in WindowClosed =>
          /\ pc[w] \notin {"take", "claim", "work", "ack"}
          /\ observed[w] = generation_
    /\ pc[w] \in {"claim", "work", "ack"} =>
          pc[0] \in WindowOpen /\ observed[w] = generation_
    /\ pc[w] = "take" => observed[w] # generation_
    /\ pc[w] \in {"loop", "spin", "wait", "asleep", "unpark", "take",
               "notify_one"} => ~startup_failed_

Phases ==
    /\ CoordinatorPhase
    /\ \A w \in Workers : WorkerPhase(w)
    /\ startup_failed_ => pc[0] \in {"join", "gone"}
    /\ stopping_ => pc[0] \in {"destroy"} \cup Stopping
    /\ pc[0] \in {"destroy"} \cup Stopping => stopping_ \/ startup_failed_

(* remaining_ counts the workers still owing an acknowledgement, parked_   *)
(* those between the announcement and its withdrawal.                      *)
Counters ==
    /\ pc[0] \in WindowOpen => remaining_ = Cardinality(Owing)
    /\ pc[0] = "publish" => remaining_ = WorkerCount
    /\ parked_ = Cardinality(Parked)

(* The queue of the window.                                                *)
Queue ==
    /\ \A i, j \in Jobs : order_[i] = order_[j] => i = j
    /\ \A t \in Threads : pc[t] = "work" =>
          claimed[t] < next_index_ /\ claimed[t] \in Jobs
    /\ \A t, u \in Threads :
          pc[t] = "work" /\ pc[u] = "work" /\ claimed[t] = claimed[u] => t = u
    /\ pc[0] \in {"await", "park", "asleep", "update", "collect"} =>
          next_index_ >= Count
    /\ \A i \in Jobs :
          executed[order_[i]] = IF i < next_index_ /\ ~Working(i) THEN 1 ELSE 0

Exceptional ==
    /\ pc[0] \in WindowOpen \cup {"publish", "update", "collect"} =>
          failures_ = failed
    /\ pc[0] \in {"construct", "idle"} =>
          failures_ = {} /\ thrown = Lowest(failed)
    /\ pc[0] = "publish" => failures_ = {} /\ failed = {}

(* The inductive invariant.                                                *)
IInv ==
    /\ TypeOK /\ Phases /\ Counters /\ Queue /\ Exceptional /\ NoMissedWakeup

-----------------------------------------------------------------------------
(* Thread 0 is the coordinator and every other thread a worker.            *)
LEMMA ThreadFacts ==
    /\ 0 \in Threads /\ 0 \notin Workers /\ Workers \subseteq Threads
    /\ \A t \in Threads : t = 0 \/ t \in Workers
  BY WorkerAssumption, CountAssumption DEF Threads, Workers

(* Counting workers.                                                       *)
LEMMA WorkerSets ==
    ASSUME NEW S \in SUBSET Workers
    PROVE  /\ IsFiniteSet(S) /\ Cardinality(S) \in 0..WorkerCount
           /\ Cardinality(S) = 0 <=> S = {}
           /\ \A w \in Workers : w \notin S =>
                 /\ Cardinality(S \cup {w}) = Cardinality(S) + 1
                 /\ Cardinality(S) < WorkerCount
           /\ \A w \in S : Cardinality(S \ {w}) = Cardinality(S) - 1
           /\ Cardinality(Workers) = WorkerCount
  <1>1. IsFiniteSet(Workers) /\ Cardinality(Workers) = WorkerCount
    BY FS_Interval, WorkerAssumption, CountAssumption DEF Workers
  <1>2. IsFiniteSet(S) /\ Cardinality(S) <= WorkerCount
    BY <1>1, FS_Subset
  <1>3. Cardinality(S) \in 0..WorkerCount
    BY <1>2, FS_CardinalityType, WorkerAssumption, CountAssumption
  <1>4. Cardinality(S) = 0 <=> S = {}
    BY <1>2, FS_EmptySet
  <1>5. \A w \in S : Cardinality(S \ {w}) = Cardinality(S) - 1
    BY <1>2, FS_RemoveElement
  <1>6. ASSUME NEW w \in Workers, w \notin S
        PROVE  /\ Cardinality(S \cup {w}) = Cardinality(S) + 1
               /\ Cardinality(S) < WorkerCount
    <2>1. Cardinality(S \cup {w}) = Cardinality(S) + 1
      BY <1>2, <1>6, FS_AddElement
    <2>2. Cardinality(S \cup {w}) <= WorkerCount
      <3>1. S \cup {w} \in SUBSET Workers
        OBVIOUS
      <3> QED
        BY <1>1, <3>1, FS_Subset
    <2>3. WorkerCount \in Nat
      BY WorkerAssumption, CountAssumption
    <2> QED
      BY <2>1, <2>2, <2>3, <1>3
  <1> QED
    BY <1>1, <1>2, <1>3, <1>4, <1>5, <1>6

(* What run() rethrows is a job, or NoJob.                                 *)
LEMMA LowestType ==
    ASSUME NEW jobs \in SUBSET Jobs
    PROVE  Lowest(jobs) \in 0..Count
  <1>1. CASE jobs = {}
    BY <1>1, CountAssumption DEF Lowest, NoJob
  <1>2. CASE jobs # {}
    <2>1. jobs \subseteq Nat
      BY CountAssumption DEF Jobs
    <2>2. PICK j \in jobs : \A k \in jobs : <<k, j>> \notin OpToRel(<, Nat)
      BY <1>2, <2>1, WFMin, NatLessThanWellFounded
    <2>3. \A k \in jobs : j <= k
      <3> SUFFICES ASSUME NEW k \in jobs, k < j PROVE FALSE
        BY <2>1
      <3> QED
        BY <2>1, <2>2 DEF OpToRel
    <2>4. Lowest(jobs) \in jobs
      BY <1>2, <2>3 DEF Lowest
    <2>5. Lowest(jobs) \in Jobs
      BY <2>4
    <2> QED
      BY <2>5, CountAssumption DEF Jobs
  <1> QED
    BY <1>1, <1>2

(* An order of the queue that repeats no job leaves none out.              *)
LEMMA OrderOnto ==
    ASSUME NEW f \in [Jobs -> Jobs],
           \A i, j \in Jobs : f[i] = f[j] => i = j
    PROVE  \A j \in Jobs : \E i \in Jobs : f[i] = j
  <1>1. IsFiniteSet(Jobs)
    BY FS_Interval, CountAssumption DEF Jobs
  <1>2. f \in Injection(Jobs, Jobs)
    BY DEF Injection, IsInjective
  <1>3. f \in Surjection(Jobs, Jobs)
    BY <1>1, <1>2, FS_Injection
  <1> QED
    BY <1>3 DEF Surjection

-----------------------------------------------------------------------------
(* Initially nothing is counted, queued or failed.                         *)
LEMMA InitIInv == Init => IInv
  <1> SUFFICES ASSUME Init PROVE IInv
    OBVIOUS
  <1> USE ThreadFacts, CountAssumption, WorkerAssumption DEF Init
  <1>1. TypeOK
    <2>1. Count \in 0..Count /\ 0 \in 0..WorkerCount /\ 1 \in 1..(WorkerCount + 1)
      OBVIOUS
    <2>2. order_ \in [Jobs -> Jobs] /\ executed \in [Jobs -> Nat]
      OBVIOUS
    <2>3. observed \in [Workers -> Nat] /\ claimed \in [Threads -> Nat]
      OBVIOUS
    <2> QED
      BY <2>1, <2>2, <2>3 DEF TypeOK, NoJob
  <1>2. Phases
    BY DEF Phases, CoordinatorPhase, WorkerPhase, WindowOpen, WindowClosed, Stopping
  <1>3. Counters
    <2>1. Parked = {}
      BY DEF Parked
    <2> QED
      BY <2>1, FS_EmptySet DEF Counters, WindowOpen
  <1>4. Queue
    BY DEF Queue, Working, Jobs
  <1>5. Exceptional /\ NoMissedWakeup
    BY DEF Exceptional, NoMissedWakeup, Lowest, WindowOpen
  <1> QED
    BY <1>1, <1>2, <1>3, <1>4, <1>5 DEF IInv

(* Every step keeps the types.                                              *)
LEMMA TypeStep == IInv /\ [Next]_vars => TypeOK'
  <1> SUFFICES ASSUME IInv, [Next]_vars PROVE TypeOK'
    OBVIOUS
  <1> USE ThreadFacts, CountAssumption, WorkerAssumption
      DEF Goto, atomics, window, IInv, TypeOK, Phases, CoordinatorPhase,
          WorkerPhase, WindowOpen, WindowClosed, Stopping
  <1>1. ASSUME NEW w \in Workers, Spawn(w) PROVE TypeOK'
    BY <1>1 DEF Spawn
  <1>2. CASE SpawnFails
    BY <1>2 DEF SpawnFails
  <1>3. CASE Constructed
    BY <1>3 DEF Constructed
  <1>4. CASE Publish
    BY <1>4 DEF Publish
  <1>5. CASE LoadParked
    BY <1>5 DEF LoadParked
  <1>6. CASE NotifyAll
    BY <1>6 DEF NotifyAll, WakeWorkers
  <1>7. CASE Await
    BY <1>7 DEF Await
  <1>8. CASE Park
    BY <1>8 DEF Park
  <1>9. CASE UpdateSpinCycles
    BY <1>9 DEF UpdateSpinCycles
  <1>10. CASE Collect
    BY <1>10, LowestType DEF Collect
  <1>11. CASE PublishStop
    BY <1>11 DEF PublishStop
  <1>12. CASE NotifyStop
    BY <1>12 DEF NotifyStop, WakeWorkers
  <1>13. CASE Joined
    BY <1>13 DEF Joined
  <1>14. CASE Run
    <2>1. execution_slots_' \in 1..(WorkerCount + 1)
      BY <1>14 DEF Run, Width
    <2> QED
      BY <1>14, <2>1 DEF Run, NoJob
  <1>15. ASSUME NEW l \in BOOLEAN, SetWidthLimited(l) PROVE TypeOK'
    BY <1>15 DEF SetWidthLimited
  <1>16. CASE Destroy
    BY <1>16 DEF Destroy
  <1>17. ASSUME NEW t \in Threads, Claim(t) PROVE TypeOK'
    BY <1>17 DEF Claim, AfterDrain
  <1>18. ASSUME NEW t \in Threads, Work(t) PROVE TypeOK'
    <2>1. order_[claimed[t]] \in Jobs
      BY <1>18 DEF Work, Queue
    <2> QED
      BY <1>18, <2>1 DEF Work
  <1>19. ASSUME NEW w \in Workers, Begin(w) PROVE TypeOK'
    BY <1>19 DEF Begin
  <1>20. ASSUME NEW w \in Workers, ReadSpinCycles(w) PROVE TypeOK'
    BY <1>20 DEF ReadSpinCycles
  <1>21. ASSUME NEW w \in Workers, Observe(w) PROVE TypeOK'
    BY <1>21 DEF Observe
  <1>22. ASSUME NEW w \in Workers, Announce(w) PROVE TypeOK'
    <2>1. Parked \in SUBSET Workers /\ w \notin Parked
      BY <1>22 DEF Announce, Parked
    <2>2. parked_ < WorkerCount
      BY <2>1, WorkerSets DEF Counters
    <2> QED
      BY <1>22, <2>2 DEF Announce
  <1>23. ASSUME NEW w \in Workers, Wait(w) PROVE TypeOK'
    BY <1>23 DEF Wait
  <1>24. ASSUME NEW w \in Workers, Unpark(w) PROVE TypeOK'
    <2>1. Parked \in SUBSET Workers /\ w \in Parked
      BY <1>24 DEF Unpark, Parked
    <2>2. parked_ > 0
      BY <2>1, WorkerSets DEF Counters
    <2> QED
      BY <1>24, <2>2 DEF Unpark
  <1>25. ASSUME NEW w \in Workers, Take(w) PROVE TypeOK'
    BY <1>25 DEF Take
  <1>26. ASSUME NEW w \in Workers, Acknowledge(w) PROVE TypeOK'
    <2>1. Owing \in SUBSET Workers /\ w \in Owing
      BY <1>26 DEF Acknowledge, Owing
    <2>2. pc[0] \in WindowOpen
      BY <1>26 DEF Acknowledge
    <2>3. remaining_ > 0
      BY <2>1, <2>2, WorkerSets DEF Counters
    <2> QED
      BY <1>26, <2>3 DEF Acknowledge
  <1>27. ASSUME NEW w \in Workers, NotifyOne(w) PROVE TypeOK'
    BY <1>27 DEF NotifyOne
  <1>28. CASE UNCHANGED vars
    BY <1>28 DEF vars
  <1> QED
    BY <1>1, <1>2, <1>3, <1>4, <1>5, <1>6, <1>7, <1>8, <1>9, <1>10, <1>11,
       <1>12, <1>13, <1>14, <1>15, <1>16, <1>17, <1>18, <1>19, <1>20, <1>21,
       <1>22, <1>23, <1>24, <1>25, <1>26, <1>27, <1>28
    DEF Next, CoordinatorStep, WorkerStep

(* When the counter is 0 every worker has acknowledged the window.         *)
LEMMA NobodyOwes ==
    ASSUME IInv, pc[0] \in WindowOpen, remaining_ = 0
    PROVE  \A w \in Workers : /\ observed[w] = generation_
                               /\ pc[w] \notin {"take", "claim", "work", "ack"}
  <1>1. Owing \in SUBSET Workers
    BY DEF Owing
  <1>2. Owing = {}
    BY <1>1, WorkerSets DEF IInv, Counters
  <1> QED
    BY <1>2 DEF Owing, IInv, Phases, WorkerPhase

(* Every step keeps the phases of the threads in step.                     *)
LEMMA PhasesStep == IInv /\ [Next]_vars => Phases'
  <1> SUFFICES ASSUME IInv, [Next]_vars PROVE Phases'
    OBVIOUS
  <1> USE ThreadFacts, CountAssumption, WorkerAssumption
      DEF Goto, atomics, window, IInv, TypeOK, Phases, CoordinatorPhase,
          WorkerPhase, WindowOpen, WindowClosed, Stopping
  <1>1. ASSUME NEW w \in Workers, Spawn(w) PROVE Phases'
    BY <1>1 DEF Spawn
  <1>2. CASE SpawnFails
    BY <1>2 DEF SpawnFails
  <1>3. CASE Constructed
    BY <1>3 DEF Constructed
  <1>4. CASE Publish
    BY <1>4 DEF Publish
  <1>5. CASE LoadParked
    BY <1>5 DEF LoadParked
  <1>6. CASE NotifyAll
    BY <1>6 DEF NotifyAll, WakeWorkers
  <1>7. CASE Await
    <2>1. CASE remaining_ = 0
      BY <1>7, <2>1, NobodyOwes DEF Await
    <2>2. CASE remaining_ # 0
      BY <1>7, <2>2 DEF Await
    <2> QED
      BY <2>1, <2>2
  <1>8. CASE Park
    BY <1>8 DEF Park
  <1>9. CASE UpdateSpinCycles
    BY <1>9 DEF UpdateSpinCycles
  <1>10. CASE Collect
    BY <1>10 DEF Collect
  <1>11. CASE PublishStop
    BY <1>11 DEF PublishStop
  <1>12. CASE NotifyStop
    BY <1>12 DEF NotifyStop, WakeWorkers
  <1>13. CASE Joined
    BY <1>13 DEF Joined
  <1>14. CASE Run
    BY <1>14 DEF Run, Width
  <1>15. ASSUME NEW l \in BOOLEAN, SetWidthLimited(l) PROVE Phases'
    BY <1>15 DEF SetWidthLimited
  <1>16. CASE Destroy
    BY <1>16 DEF Destroy
  <1>17. ASSUME NEW t \in Threads, Claim(t) PROVE Phases'
    BY <1>17 DEF Claim, AfterDrain
  <1>18. ASSUME NEW t \in Threads, Work(t) PROVE Phases'
    BY <1>18 DEF Work
  <1>19. ASSUME NEW w \in Workers, Begin(w) PROVE Phases'
    BY <1>19 DEF Begin
  <1>20. ASSUME NEW w \in Workers, ReadSpinCycles(w) PROVE Phases'
    BY <1>20 DEF ReadSpinCycles
  <1>21. ASSUME NEW w \in Workers, Observe(w) PROVE Phases'
    BY <1>21 DEF Observe
  <1>22. ASSUME NEW w \in Workers, Announce(w) PROVE Phases'
    BY <1>22 DEF Announce
  <1>23. ASSUME NEW w \in Workers, Wait(w) PROVE Phases'
    BY <1>23 DEF Wait
  <1>24. ASSUME NEW w \in Workers, Unpark(w) PROVE Phases'
    BY <1>24 DEF Unpark
  <1>25. ASSUME NEW w \in Workers, Take(w) PROVE Phases'
    BY <1>25 DEF Take
  <1>26. ASSUME NEW w \in Workers, Acknowledge(w) PROVE Phases'
    BY <1>26 DEF Acknowledge
  <1>27. ASSUME NEW w \in Workers, NotifyOne(w) PROVE Phases'
    BY <1>27 DEF NotifyOne
  <1>28. CASE UNCHANGED vars
    BY <1>28 DEF vars
  <1> QED
    BY <1>1, <1>2, <1>3, <1>4, <1>5, <1>6, <1>7, <1>8, <1>9, <1>10, <1>11,
       <1>12, <1>13, <1>14, <1>15, <1>16, <1>17, <1>18, <1>19, <1>20, <1>21,
       <1>22, <1>23, <1>24, <1>25, <1>26, <1>27, <1>28
    DEF Next, CoordinatorStep, WorkerStep

(* A step that leaves the owed acknowledgements of an open window alone.   *)
WindowKept ==
    pc'[0] \in WindowOpen =>
        pc[0] \in WindowOpen /\ Owing' = Owing /\ remaining_' = remaining_

(* Every step keeps the two counters exact.                                *)
LEMMA CountersStep == IInv /\ [Next]_vars => Counters'
  <1> SUFFICES ASSUME IInv, [Next]_vars PROVE Counters'
    OBVIOUS
  <1> USE ThreadFacts, CountAssumption, WorkerAssumption
      DEF Goto, atomics, window, IInv, TypeOK, Phases, CoordinatorPhase,
          WorkerPhase, WindowOpen, WindowClosed, Stopping
  <1>1. ASSUME NEW w \in Workers, Spawn(w) PROVE Counters'
    <2>1. Parked' = Parked
      BY <1>1 DEF Spawn, Parked
    <2>2. WindowKept
      BY <1>1 DEF Spawn, WindowKept, Owing
    <2> QED
      BY <1>1, <2>1, <2>2 DEF Spawn, Counters, WindowKept
  <1>2. CASE SpawnFails
    <2>1. Parked' = Parked
      BY <1>2 DEF SpawnFails, Parked
    <2>2. WindowKept
      BY <1>2 DEF SpawnFails, WindowKept, Owing
    <2> QED
      BY <1>2, <2>1, <2>2 DEF SpawnFails, Counters, WindowKept
  <1>3. CASE Constructed
    <2>1. Parked' = Parked
      BY <1>3 DEF Constructed, Parked
    <2>2. WindowKept
      BY <1>3 DEF Constructed, WindowKept, Owing
    <2> QED
      BY <1>3, <2>1, <2>2 DEF Constructed, Counters, WindowKept
  <1>4. CASE Publish
    <2>1. Parked' = Parked
      BY <1>4 DEF Publish, Parked
    <2>2. Owing' = Workers
      BY <1>4 DEF Publish, Owing
    <2>3. remaining_' = Cardinality(Owing')
      BY <1>4, <2>2, WorkerSets DEF Publish, Counters
    <2> QED
      BY <1>4, <2>1, <2>3 DEF Publish, Counters
  <1>5. CASE LoadParked
    <2>1. Parked' = Parked
      BY <1>5 DEF LoadParked, Parked
    <2>2. WindowKept
      BY <1>5 DEF LoadParked, WindowKept, Owing
    <2> QED
      BY <1>5, <2>1, <2>2 DEF LoadParked, Counters, WindowKept
  <1>6. CASE NotifyAll
    <2>1. Parked' = Parked
      BY <1>6 DEF NotifyAll, WakeWorkers, Parked
    <2>2. WindowKept
      BY <1>6 DEF NotifyAll, WakeWorkers, WindowKept, Owing
    <2> QED
      BY <1>6, <2>1, <2>2 DEF NotifyAll, WakeWorkers, Counters, WindowKept
  <1>7. CASE Await
    <2>1. Parked' = Parked
      BY <1>7 DEF Await, Parked
    <2>2. WindowKept
      BY <1>7 DEF Await, WindowKept, Owing
    <2> QED
      BY <1>7, <2>1, <2>2 DEF Await, Counters, WindowKept
  <1>8. CASE Park
    <2>1. Parked' = Parked
      BY <1>8 DEF Park, Parked
    <2>2. WindowKept
      BY <1>8 DEF Park, WindowKept, Owing
    <2> QED
      BY <1>8, <2>1, <2>2 DEF Park, Counters, WindowKept
  <1>9. CASE UpdateSpinCycles
    <2>1. Parked' = Parked
      BY <1>9 DEF UpdateSpinCycles, Parked
    <2>2. WindowKept
      BY <1>9 DEF UpdateSpinCycles, WindowKept, Owing
    <2> QED
      BY <1>9, <2>1, <2>2 DEF UpdateSpinCycles, Counters, WindowKept
  <1>10. CASE Collect
    <2>1. Parked' = Parked
      BY <1>10 DEF Collect, Parked
    <2>2. WindowKept
      BY <1>10 DEF Collect, WindowKept, Owing
    <2> QED
      BY <1>10, <2>1, <2>2 DEF Collect, Counters, WindowKept
  <1>11. CASE PublishStop
    <2>1. Parked' = Parked
      BY <1>11 DEF PublishStop, Parked
    <2>2. WindowKept
      BY <1>11 DEF PublishStop, WindowKept, Owing
    <2> QED
      BY <1>11, <2>1, <2>2 DEF PublishStop, Counters, WindowKept
  <1>12. CASE NotifyStop
    <2>1. Parked' = Parked
      BY <1>12 DEF NotifyStop, WakeWorkers, Parked
    <2>2. WindowKept
      BY <1>12 DEF NotifyStop, WakeWorkers, WindowKept, Owing
    <2> QED
      BY <1>12, <2>1, <2>2 DEF NotifyStop, WakeWorkers, Counters, WindowKept
  <1>13. CASE Joined
    <2>1. Parked' = Parked
      BY <1>13 DEF Joined, Parked
    <2>2. WindowKept
      BY <1>13 DEF Joined, WindowKept, Owing
    <2> QED
      BY <1>13, <2>1, <2>2 DEF Joined, Counters, WindowKept
  <1>14. CASE Run
    <2>1. Parked' = Parked
      BY <1>14 DEF Run, Parked
    <2> QED
      BY <1>14, <2>1 DEF Run, Counters
  <1>15. ASSUME NEW l \in BOOLEAN, SetWidthLimited(l) PROVE Counters'
    <2>1. Parked' = Parked
      BY <1>15 DEF SetWidthLimited, Parked
    <2>2. WindowKept
      BY <1>15 DEF SetWidthLimited, WindowKept, Owing
    <2> QED
      BY <1>15, <2>1, <2>2 DEF SetWidthLimited, Counters, WindowKept
  <1>16. CASE Destroy
    <2>1. Parked' = Parked
      BY <1>16 DEF Destroy, Parked
    <2>2. WindowKept
      BY <1>16 DEF Destroy, WindowKept, Owing
    <2> QED
      BY <1>16, <2>1, <2>2 DEF Destroy, Counters, WindowKept
  <1>17. ASSUME NEW t \in Threads, Claim(t) PROVE Counters'
    <2>1. Parked' = Parked
      BY <1>17 DEF Claim, AfterDrain, Parked
    <2>2. WindowKept
      BY <1>17 DEF Claim, AfterDrain, WindowKept, Owing
    <2> QED
      BY <1>17, <2>1, <2>2 DEF Claim, AfterDrain, Counters, WindowKept
  <1>18. ASSUME NEW t \in Threads, Work(t) PROVE Counters'
    <2>1. Parked' = Parked
      BY <1>18 DEF Work, Parked
    <2>2. WindowKept
      BY <1>18 DEF Work, WindowKept, Owing
    <2> QED
      BY <1>18, <2>1, <2>2 DEF Work, Counters, WindowKept
  <1>19. ASSUME NEW w \in Workers, Begin(w) PROVE Counters'
    <2>1. Parked' = Parked
      BY <1>19 DEF Begin, Parked
    <2>2. WindowKept
      BY <1>19 DEF Begin, WindowKept, Owing
    <2> QED
      BY <1>19, <2>1, <2>2 DEF Begin, Counters, WindowKept
  <1>20. ASSUME NEW w \in Workers, ReadSpinCycles(w) PROVE Counters'
    <2>1. Parked' = Parked
      BY <1>20 DEF ReadSpinCycles, Parked
    <2>2. WindowKept
      BY <1>20 DEF ReadSpinCycles, WindowKept, Owing
    <2> QED
      BY <1>20, <2>1, <2>2 DEF ReadSpinCycles, Counters, WindowKept
  <1>21. ASSUME NEW w \in Workers, Observe(w) PROVE Counters'
    <2>1. Parked' = Parked
      BY <1>21 DEF Observe, Parked
    <2>2. WindowKept
      BY <1>21 DEF Observe, WindowKept, Owing
    <2> QED
      BY <1>21, <2>1, <2>2 DEF Observe, Counters, WindowKept
  <1>22. ASSUME NEW w \in Workers, Announce(w) PROVE Counters'
    <2>1. Parked \in SUBSET Workers /\ w \notin Parked /\ Parked' = Parked \cup {w}
      BY <1>22 DEF Announce, Parked
    <2>2. Cardinality(Parked') = Cardinality(Parked) + 1
      BY <2>1, WorkerSets
    <2>3. WindowKept
      BY <1>22 DEF Announce, WindowKept, Owing
    <2> QED
      BY <1>22, <2>2, <2>3 DEF Announce, Counters, WindowKept
  <1>23. ASSUME NEW w \in Workers, Wait(w) PROVE Counters'
    <2>1. Parked' = Parked
      BY <1>23 DEF Wait, Parked
    <2>2. WindowKept
      BY <1>23 DEF Wait, WindowKept, Owing
    <2> QED
      BY <1>23, <2>1, <2>2 DEF Wait, Counters, WindowKept
  <1>24. ASSUME NEW w \in Workers, Unpark(w) PROVE Counters'
    <2>1. Parked \in SUBSET Workers /\ w \in Parked /\ Parked' = Parked \ {w}
      BY <1>24 DEF Unpark, Parked
    <2>2. Cardinality(Parked') = Cardinality(Parked) - 1
      BY <2>1, WorkerSets
    <2>3. WindowKept
      BY <1>24 DEF Unpark, WindowKept, Owing
    <2> QED
      BY <1>24, <2>2, <2>3 DEF Unpark, Counters, WindowKept
  <1>25. ASSUME NEW w \in Workers, Take(w) PROVE Counters'
    <2>1. Parked' = Parked
      BY <1>25 DEF Take, Parked
    <2>2. WindowKept
      BY <1>25 DEF Take, WindowKept, Owing
    <2> QED
      BY <1>25, <2>1, <2>2 DEF Take, Counters, WindowKept
  <1>26. ASSUME NEW w \in Workers, Acknowledge(w) PROVE Counters'
    <2>1. Parked' = Parked
      BY <1>26 DEF Acknowledge, Parked
    <2>2. Owing \in SUBSET Workers /\ w \in Owing /\ Owing' = Owing \ {w}
      BY <1>26 DEF Acknowledge, Owing
    <2>3. Cardinality(Owing') = Cardinality(Owing) - 1
      BY <2>2, WorkerSets
    <2> QED
      BY <1>26, <2>1, <2>3 DEF Acknowledge, Counters
  <1>27. ASSUME NEW w \in Workers, NotifyOne(w) PROVE Counters'
    <2>1. Parked' = Parked
      BY <1>27 DEF NotifyOne, Parked
    <2>2. WindowKept
      BY <1>27 DEF NotifyOne, WindowKept, Owing
    <2> QED
      BY <1>27, <2>1, <2>2 DEF NotifyOne, Counters, WindowKept
  <1>28. CASE UNCHANGED vars
    BY <1>28 DEF vars, Counters, Parked, Owing
  <1> QED
    BY <1>1, <1>2, <1>3, <1>4, <1>5, <1>6, <1>7, <1>8, <1>9, <1>10, <1>11,
       <1>12, <1>13, <1>14, <1>15, <1>16, <1>17, <1>18, <1>19, <1>20, <1>21,
       <1>22, <1>23, <1>24, <1>25, <1>26, <1>27, <1>28
    DEF Next, CoordinatorStep, WorkerStep

(* Every step keeps the queue, its claims and the executions in step.      *)
LEMMA QueueStep == IInv /\ [Next]_vars => Queue'
  <1> SUFFICES ASSUME IInv, [Next]_vars PROVE Queue'
    OBVIOUS
  <1> USE ThreadFacts, CountAssumption, WorkerAssumption
      DEF Goto, atomics, window, IInv, TypeOK, Phases, CoordinatorPhase,
          WorkerPhase, WindowOpen, WindowClosed, Stopping, Queue, Working
  <1>1. ASSUME NEW w \in Workers, Spawn(w) PROVE Queue'
    BY <1>1 DEF Spawn
  <1>2. CASE SpawnFails
    BY <1>2 DEF SpawnFails
  <1>3. CASE Constructed
    BY <1>3 DEF Constructed
  <1>4. CASE Publish
    BY <1>4 DEF Publish
  <1>5. CASE LoadParked
    BY <1>5 DEF LoadParked
  <1>6. CASE NotifyAll
    BY <1>6 DEF NotifyAll, WakeWorkers
  <1>7. CASE Await
    BY <1>7 DEF Await
  <1>8. CASE Park
    BY <1>8 DEF Park
  <1>9. CASE UpdateSpinCycles
    BY <1>9 DEF UpdateSpinCycles
  <1>10. CASE Collect
    BY <1>10 DEF Collect
  <1>11. CASE PublishStop
    BY <1>11 DEF PublishStop
  <1>12. CASE NotifyStop
    BY <1>12 DEF NotifyStop, WakeWorkers
  <1>13. CASE Joined
    BY <1>13 DEF Joined
  <1>14. CASE Run
    <2>1. \A t \in Threads : pc'[t] # "work"
      BY <1>14 DEF Run
    <2>2. \A i \in Jobs : order_'[i] \in Jobs /\ ~(i < next_index_')
      <3>1. order_' \in [Jobs -> Jobs] /\ next_index_' = 0
        BY <1>14 DEF Run
      <3>2. \A i \in Jobs : ~(i < 0)
        BY DEF Jobs
      <3> QED
        BY <3>1, <3>2
    <2>3. \A i \in Jobs : executed'[order_'[i]] = 0
      BY <1>14, <2>2 DEF Run
    <2> QED
      BY <1>14, <2>1, <2>2, <2>3 DEF Run
  <1>15. ASSUME NEW l \in BOOLEAN, SetWidthLimited(l) PROVE Queue'
    BY <1>15 DEF SetWidthLimited
  <1>16. CASE Destroy
    BY <1>16 DEF Destroy
  <1>17. ASSUME NEW t \in Threads, Claim(t) PROVE Queue'
    <2>1. CASE next_index_ < Count
      <3>1. next_index_ \in Jobs
        BY <2>1 DEF Jobs
      <3>2. pc' = [pc EXCEPT ![t] = "work"] /\ pc[t] = "claim"
        BY <1>17, <2>1 DEF Claim
      <3>3. \A i \in Jobs : Working(i)' <=> (Working(i) \/ i = next_index_)
        BY <1>17, <3>2 DEF Claim
      <3>4. \A i \in Jobs : i < next_index_ + 1 <=> (i < next_index_ \/ i = next_index_)
        <4>1. \A i, n \in Nat : i < n + 1 <=> (i < n \/ i = n)
          OBVIOUS
        <4>2. next_index_ \in Nat /\ Jobs \subseteq Nat
          BY <2>1 DEF Jobs
        <4> QED
          BY <4>1, <4>2, Zenon
      <3>5. \A i \in Jobs :
                executed'[order_'[i]]
                  = IF i < next_index_' /\ ~Working(i)' THEN 1 ELSE 0
        <4> SUFFICES ASSUME NEW i \in Jobs
                     PROVE  executed'[order_'[i]]
                              = IF i < next_index_' /\ ~Working(i)' THEN 1 ELSE 0
          OBVIOUS
        <4> HIDE DEF Working
        <4>1. ~(next_index_ < next_index_)
          OBVIOUS
        <4> QED
          BY <1>17, <3>3, <3>4, <4>1 DEF Claim
      <3> QED
        BY <1>17, <3>1, <3>2, <3>5 DEF Claim
    <2>2. CASE ~(next_index_ < Count)
      <3>1. \A u \in Threads : pc'[u] = "work" <=> pc[u] = "work" /\ u # t
        BY <1>17, <2>2 DEF Claim, AfterDrain
      <3>2. \A i \in Jobs : Working(i)' <=> Working(i)
        BY <1>17, <3>1 DEF Claim
      <3>3. \A i \in Jobs : i < next_index_ /\ i < next_index_ + 1
        BY <2>2 DEF Jobs
      <3> QED
        BY <1>17, <2>2, <3>1, <3>2, <3>3 DEF Claim, AfterDrain
    <2> QED
      BY <2>1, <2>2
  <1>18. ASSUME NEW t \in Threads, Work(t) PROVE Queue'
    BY <1>18 DEF Work
  <1>19. ASSUME NEW w \in Workers, Begin(w) PROVE Queue'
    BY <1>19 DEF Begin
  <1>20. ASSUME NEW w \in Workers, ReadSpinCycles(w) PROVE Queue'
    BY <1>20 DEF ReadSpinCycles
  <1>21. ASSUME NEW w \in Workers, Observe(w) PROVE Queue'
    BY <1>21 DEF Observe
  <1>22. ASSUME NEW w \in Workers, Announce(w) PROVE Queue'
    BY <1>22 DEF Announce
  <1>23. ASSUME NEW w \in Workers, Wait(w) PROVE Queue'
    BY <1>23 DEF Wait
  <1>24. ASSUME NEW w \in Workers, Unpark(w) PROVE Queue'
    BY <1>24 DEF Unpark
  <1>25. ASSUME NEW w \in Workers, Take(w) PROVE Queue'
    BY <1>25 DEF Take
  <1>26. ASSUME NEW w \in Workers, Acknowledge(w) PROVE Queue'
    BY <1>26 DEF Acknowledge
  <1>27. ASSUME NEW w \in Workers, NotifyOne(w) PROVE Queue'
    BY <1>27 DEF NotifyOne
  <1>28. CASE UNCHANGED vars
    BY <1>28 DEF vars
  <1> QED
    BY <1>1, <1>2, <1>3, <1>4, <1>5, <1>6, <1>7, <1>8, <1>9, <1>10, <1>11,
       <1>12, <1>13, <1>14, <1>15, <1>16, <1>17, <1>18, <1>19, <1>20, <1>21,
       <1>22, <1>23, <1>24, <1>25, <1>26, <1>27, <1>28
    DEF Next, CoordinatorStep, WorkerStep

(* Every step keeps the exceptions captured those of the window.           *)
LEMMA ExceptionalStep == IInv /\ [Next]_vars => Exceptional'
  <1> SUFFICES ASSUME IInv, [Next]_vars PROVE Exceptional'
    OBVIOUS
  <1> USE ThreadFacts, CountAssumption, WorkerAssumption
      DEF Goto, atomics, window, IInv, TypeOK, Phases, CoordinatorPhase,
          WorkerPhase, WindowOpen, WindowClosed, Stopping, Exceptional
  <1>1. ASSUME NEW w \in Workers, Spawn(w) PROVE Exceptional'
    BY <1>1 DEF Spawn
  <1>2. CASE SpawnFails
    BY <1>2 DEF SpawnFails
  <1>3. CASE Constructed
    BY <1>3 DEF Constructed
  <1>4. CASE Publish
    BY <1>4 DEF Publish
  <1>5. CASE LoadParked
    BY <1>5 DEF LoadParked
  <1>6. CASE NotifyAll
    BY <1>6 DEF NotifyAll, WakeWorkers
  <1>7. CASE Await
    BY <1>7 DEF Await
  <1>8. CASE Park
    BY <1>8 DEF Park
  <1>9. CASE UpdateSpinCycles
    BY <1>9 DEF UpdateSpinCycles
  <1>10. CASE Collect
    BY <1>10 DEF Collect
  <1>11. CASE PublishStop
    BY <1>11 DEF PublishStop
  <1>12. CASE NotifyStop
    BY <1>12 DEF NotifyStop, WakeWorkers
  <1>13. CASE Joined
    BY <1>13 DEF Joined
  <1>14. CASE Run
    BY <1>14 DEF Run, Width
  <1>15. ASSUME NEW l \in BOOLEAN, SetWidthLimited(l) PROVE Exceptional'
    BY <1>15 DEF SetWidthLimited
  <1>16. CASE Destroy
    BY <1>16 DEF Destroy
  <1>17. ASSUME NEW t \in Threads, Claim(t) PROVE Exceptional'
    BY <1>17 DEF Claim, AfterDrain
  <1>18. ASSUME NEW t \in Threads, Work(t) PROVE Exceptional'
    BY <1>18 DEF Work
  <1>19. ASSUME NEW w \in Workers, Begin(w) PROVE Exceptional'
    BY <1>19 DEF Begin
  <1>20. ASSUME NEW w \in Workers, ReadSpinCycles(w) PROVE Exceptional'
    BY <1>20 DEF ReadSpinCycles
  <1>21. ASSUME NEW w \in Workers, Observe(w) PROVE Exceptional'
    BY <1>21 DEF Observe
  <1>22. ASSUME NEW w \in Workers, Announce(w) PROVE Exceptional'
    BY <1>22 DEF Announce
  <1>23. ASSUME NEW w \in Workers, Wait(w) PROVE Exceptional'
    BY <1>23 DEF Wait
  <1>24. ASSUME NEW w \in Workers, Unpark(w) PROVE Exceptional'
    BY <1>24 DEF Unpark
  <1>25. ASSUME NEW w \in Workers, Take(w) PROVE Exceptional'
    BY <1>25 DEF Take
  <1>26. ASSUME NEW w \in Workers, Acknowledge(w) PROVE Exceptional'
    BY <1>26 DEF Acknowledge
  <1>27. ASSUME NEW w \in Workers, NotifyOne(w) PROVE Exceptional'
    BY <1>27 DEF NotifyOne
  <1>28. CASE UNCHANGED vars
    BY <1>28 DEF vars
  <1> QED
    BY <1>1, <1>2, <1>3, <1>4, <1>5, <1>6, <1>7, <1>8, <1>9, <1>10, <1>11,
       <1>12, <1>13, <1>14, <1>15, <1>16, <1>17, <1>18, <1>19, <1>20, <1>21,
       <1>22, <1>23, <1>24, <1>25, <1>26, <1>27, <1>28
    DEF Next, CoordinatorStep, WorkerStep

(* No step lets a worker sleep through a generation.                       *)
LEMMA WakeupStep == IInv /\ [Next]_vars => NoMissedWakeup'
  <1> SUFFICES ASSUME IInv, [Next]_vars PROVE NoMissedWakeup'
    OBVIOUS
  <1> USE ThreadFacts, CountAssumption, WorkerAssumption
      DEF Goto, atomics, window, IInv, TypeOK, Phases, CoordinatorPhase,
          WorkerPhase, WindowOpen, WindowClosed, Stopping, NoMissedWakeup
  <1>1. ASSUME NEW w \in Workers, Spawn(w) PROVE NoMissedWakeup'
    BY <1>1 DEF Spawn
  <1>2. CASE SpawnFails
    BY <1>2 DEF SpawnFails
  <1>3. CASE Constructed
    BY <1>3 DEF Constructed
  <1>4. CASE Publish
    BY <1>4 DEF Publish
  <1>5. CASE LoadParked
    <2>1. Parked \in SUBSET Workers
      BY DEF Parked
    <2>2. parked_ = 0 => \A w \in Workers : pc[w] # "asleep"
      <3>1. parked_ = 0 => Parked = {}
        BY <2>1, WorkerSets DEF Counters
      <3>2. Parked = {} => \A w \in Workers : pc[w] # "asleep"
        BY Zenon DEF Parked
      <3> QED
        BY <3>1, <3>2, Zenon
    <2> QED
      BY <1>5, <2>2 DEF LoadParked
  <1>6. CASE NotifyAll
    BY <1>6 DEF NotifyAll, WakeWorkers
  <1>7. CASE Await
    BY <1>7 DEF Await
  <1>8. CASE Park
    BY <1>8 DEF Park
  <1>9. CASE UpdateSpinCycles
    BY <1>9 DEF UpdateSpinCycles
  <1>10. CASE Collect
    BY <1>10 DEF Collect
  <1>11. CASE PublishStop
    BY <1>11 DEF PublishStop
  <1>12. CASE NotifyStop
    BY <1>12 DEF NotifyStop, WakeWorkers
  <1>13. CASE Joined
    BY <1>13 DEF Joined
  <1>14. CASE Run
    BY <1>14 DEF Run, Width
  <1>15. ASSUME NEW l \in BOOLEAN, SetWidthLimited(l) PROVE NoMissedWakeup'
    BY <1>15 DEF SetWidthLimited
  <1>16. CASE Destroy
    BY <1>16 DEF Destroy
  <1>17. ASSUME NEW t \in Threads, Claim(t) PROVE NoMissedWakeup'
    BY <1>17 DEF Claim, AfterDrain
  <1>18. ASSUME NEW t \in Threads, Work(t) PROVE NoMissedWakeup'
    BY <1>18 DEF Work
  <1>19. ASSUME NEW w \in Workers, Begin(w) PROVE NoMissedWakeup'
    BY <1>19 DEF Begin
  <1>20. ASSUME NEW w \in Workers, ReadSpinCycles(w) PROVE NoMissedWakeup'
    BY <1>20 DEF ReadSpinCycles
  <1>21. ASSUME NEW w \in Workers, Observe(w) PROVE NoMissedWakeup'
    BY <1>21 DEF Observe
  <1>22. ASSUME NEW w \in Workers, Announce(w) PROVE NoMissedWakeup'
    BY <1>22 DEF Announce
  <1>23. ASSUME NEW w \in Workers, Wait(w) PROVE NoMissedWakeup'
    BY <1>23 DEF Wait
  <1>24. ASSUME NEW w \in Workers, Unpark(w) PROVE NoMissedWakeup'
    BY <1>24 DEF Unpark
  <1>25. ASSUME NEW w \in Workers, Take(w) PROVE NoMissedWakeup'
    BY <1>25 DEF Take
  <1>26. ASSUME NEW w \in Workers, Acknowledge(w) PROVE NoMissedWakeup'
    BY <1>26 DEF Acknowledge
  <1>27. ASSUME NEW w \in Workers, NotifyOne(w) PROVE NoMissedWakeup'
    BY <1>27 DEF NotifyOne
  <1>28. CASE UNCHANGED vars
    BY <1>28 DEF vars
  <1> QED
    BY <1>1, <1>2, <1>3, <1>4, <1>5, <1>6, <1>7, <1>8, <1>9, <1>10, <1>11,
       <1>12, <1>13, <1>14, <1>15, <1>16, <1>17, <1>18, <1>19, <1>20, <1>21,
       <1>22, <1>23, <1>24, <1>25, <1>26, <1>27, <1>28
    DEF Next, CoordinatorStep, WorkerStep

-----------------------------------------------------------------------------
(* What the invariant says of a window that is over.                       *)
LEMMA WindowComplete ==
    ASSUME IInv
    PROVE  ExactlyOnce /\ CallSettled
  <1> USE ThreadFacts DEF IInv
  <1>1. \A j \in Jobs : \E i \in Jobs : order_[i] = j
    BY OrderOnto DEF TypeOK, Queue
  <1>2. ASSUME NEW j \in Jobs PROVE executed[j] <= 1
    <2>1. PICK i \in Jobs : order_[i] = j
      BY <1>1
    <2> QED
      BY <2>1 DEF Queue
  <1>3. ASSUME NEW j \in Jobs, pc[0] \in {"update", "collect"}
        PROVE  executed[j] = 1
    <2>1. PICK i \in Jobs : order_[i] = j
      BY <1>1
    <2>2. \A t \in Threads : pc[t] # "work"
      BY <1>3 DEF Phases, WorkerPhase, WindowClosed
    <2>3. i < next_index_
      <3>1. next_index_ >= Count /\ next_index_ \in Nat
        BY <1>3 DEF Queue, TypeOK
      <3> QED
        BY <3>1, CountAssumption DEF Jobs
    <2> QED
      BY <2>1, <2>2, <2>3 DEF Queue, Working
  <1>4. Quiescent
    BY DEF Quiescent, Phases, WorkerPhase, WindowClosed
  <1>5. FailurePriority
    BY DEF FailurePriority, Exceptional
  <1> QED
    BY <1>2, <1>3, <1>4, <1>5 DEF ExactlyOnce, CallSettled

(* The invariant holds in every state of the pool.                         *)
THEOREM PoolInvariant == Spec => []IInv
  <1>1. IInv /\ [Next]_vars => IInv'
    BY TypeStep, PhasesStep, CountersStep, QueueStep, ExceptionalStep, WakeupStep
    DEF IInv
  <1> QED
    BY <1>1, InitIInv, PTL DEF Spec

(* LaneWorkers::run: for every number of jobs and threads, no job runs     *)
(* twice in a window and all have run when the exceptions are collected.   *)
THEOREM JobsRunExactlyOnce == Spec => []ExactlyOnce
  BY PoolInvariant, WindowComplete, PTL

(* LaneWorkers::run: when it returns no worker is left inside the window,  *)
(* and the exception rethrown is that of the lowest job that threw.        *)
THEOREM CallsSettle == Spec => []CallSettled
  BY PoolInvariant, WindowComplete, PTL

(* With the ordering the source asks for, a worker that sleeps through a   *)
(* published generation is about to be woken: the load of parked_ that     *)
(* skips notify_all never misses it.                                       *)
THEOREM WakeupsReachSleepers == Spec => []NoMissedWakeup
  <1>1. IInv => NoMissedWakeup
    BY DEF IInv
  <1> QED
    BY <1>1, PoolInvariant, PTL

=============================================================================
