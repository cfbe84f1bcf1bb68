--------------------------- MODULE LockstepBurst ----------------------------
(***************************************************************************)
(* The lockstep bursts of World::run.  When every lane is ready at the     *)
(* same time, each forecasts the exact costs of the prefixes of its next   *)
(* block; a multiway merge looks for a common completion time at which     *)
(* every lane is at an instruction boundary of a pure prefix, so that one  *)
(* dispatch per lane reaches it.  Costs are numerators over the clock      *)
(* frequency all lanes must share.                                         *)
(***************************************************************************)
EXTENDS Integers, Sequences, FiniteSets

CONSTANTS
    BurstLanes,      \* 0 .. n-1
    Forecasts,       \* the forecasts a lane may make: sequences of [n, num]
    PureCounts,      \* how many leading instructions of a block are pure
    BurstHz,         \* the common frequency
    BurstRemaining,  \* nanoseconds to the deadline, or -1
    MaxRounds        \* the bound on rounds of one burst (64)

ASSUME BurstAssumption ==
    /\ IsFiniteSet(BurstLanes) /\ BurstLanes # {}
    /\ BurstLanes = 0..(Cardinality(BurstLanes) - 1) /\ BurstHz \in Nat \ {0}
    /\ PureCounts \subseteq Nat /\ BurstRemaining \subseteq Nat \cup {-1}
    /\ \A f \in Forecasts : f \in Seq([n : Nat, num : Nat])
    /\ \A f \in Forecasts : \A i, j \in DOMAIN f : i < j => f[i].num < f[j].num

VARIABLE burst

NoChoice == [score |-> 0, elapsed |-> 0, limits |-> [b \in BurstLanes |-> 1]]

(* A forecast round.                                                       *)
Round(rounds, left) ==
    \E fc \in [BurstLanes -> Forecasts], pure \in [BurstLanes -> PureCounts] :
        burst' = [phase |-> "merge", fc |-> fc, pure |-> pure, left |-> left,
                  idx |-> [b \in BurstLanes |-> 1], best |-> NoChoice, rounds |-> rounds]

BurstInit ==
    \E left \in BurstRemaining :
        burst = [phase |-> "round", left |-> left, rounds |-> 0]

(* leave_burst: an event ran, a lane stopped, took an exception, or ran    *)
(* out of time; otherwise the next round starts from the new frontier.     *)
NextRound ==
    /\ burst.phase = "round"
    /\ burst.rounds < MaxRounds
    /\ Round(burst.rounds, burst.left)

Cost(b, i) == burst.fc[b][i]

(* Lanes without a forecast, or at another frequency, make the round fail. *)
AllHaveCosts == \A b \in BurstLanes : burst.fc[b] # <<>>

(* Every lane skips the prefixes that end before the target.               *)
Skipped(b, target) ==
    burst.idx[b] + Cardinality({i \in burst.idx[b]..Len(burst.fc[b]) : Cost(b, i).num < target})

(* A candidate counts when each lane's prefix is pure and at least one     *)
(* lane retires several instructions; it must end by the deadline.         *)
Better(c) ==
    /\ c.elapsed # 0 /\ (burst.left = -1 \/ c.elapsed <= burst.left)
    /\ c.score > burst.best.score
       \/ (c.score = burst.best.score /\ c.elapsed > burst.best.elapsed)

(* Seeded fault: a candidate may include a lane's impure instruction.      *)
PureIgnored(idx) == TRUE

AllPrefixesPure(idx) == \A b \in BurstLanes : Cost(b, idx[b]).n <= burst.pure[b]

(* The score of a candidate: the instructions all lanes retire together.   *)
Score(limits) == Cardinality(UNION {{b} \X (1..limits[b]) : b \in BurstLanes})

MergeStep ==
    /\ burst.phase = "merge" /\ AllHaveCosts
    /\ LET nums == {Cost(b, burst.idx[b]).num : b \in BurstLanes}
           target == CHOOSE x \in nums : \A y \in nums : y <= x
           idx == [b \in BurstLanes |-> Skipped(b, target)]
           past == \E b \in BurstLanes : idx[b] > Len(burst.fc[b])
       IN  IF past THEN burst' = [burst EXCEPT !.phase = "chosen"]
           ELSE LET shared == \A b \in BurstLanes : Cost(b, idx[b]).num = target
                    limits == [b \in BurstLanes |-> Cost(b, idx[b]).n]
                    c == [score |-> Score(limits), elapsed |-> target \div BurstHz,
                          limits |-> limits]
                    on == [b \in BurstLanes |-> idx[b] + 1]
                    best == IF shared /\ AllPrefixesPure(idx)
                               /\ (\E b \in BurstLanes : limits[b] > 1) /\ Better(c)
                            THEN c ELSE burst.best
                IN  burst' = [burst EXCEPT !.best = best,
                          !.idx = IF shared THEN on ELSE idx,
                          !.phase = IF shared /\ \E b \in BurstLanes : on[b] > Len(burst.fc[b])
                                    THEN "chosen" ELSE "merge"]

NoForecast ==
    /\ burst.phase = "merge" /\ ~AllHaveCosts
    /\ burst' = [burst EXCEPT !.phase = "chosen"]

(* Every lane runs its block, the events up to the frontier run, and every *)
(* lane is settled there.                                                  *)
RunRound ==
    /\ burst.phase = "chosen" /\ burst.best.score # 0
    /\ \E leave \in BOOLEAN :
          LET left == IF burst.left = -1 THEN -1 ELSE burst.left - burst.best.elapsed
          IN  burst' = [phase |-> IF leave \/ left = 0 THEN "left" ELSE "round",
                        left |-> left, rounds |-> burst.rounds + 1]

(* Nothing was proved: the exact scheduler dispatches instead.             *)
FallBack ==
    /\ burst.phase = "chosen" /\ burst.best.score = 0
    /\ burst' = [phase |-> "left", left |-> burst.left, rounds |-> burst.rounds]

BurstNext == NextRound \/ MergeStep \/ NoForecast \/ RunRound \/ FallBack

-----------------------------------------------------------------------------
(* The reference: every choice of one forecast prefix per lane.            *)
PrefixChoices ==
    {s \in [BurstLanes -> UNION {DOMAIN f : f \in Forecasts}] :
        \A b \in BurstLanes : s[b] <= Len(burst.fc[b])}

Admissible(s) ==
    /\ \A b, c \in BurstLanes : Cost(b, s[b]).num = Cost(c, s[c]).num
    /\ \A b \in BurstLanes : Cost(b, s[b]).n <= burst.pure[b]
    /\ \E b \in BurstLanes : Cost(b, s[b]).n > 1
    /\ Cost(0, s[0]).num >= BurstHz
    /\ burst.left # -1 => Cost(0, s[0]).num \div BurstHz <= burst.left

(* The merge finds the admissible common frontier that retires the most    *)
(* instructions, and finds one whenever there is one: no lane is taken     *)
(* past an impure instruction, the deadline, or a time at which another    *)
(* lane is in the middle of an instruction.                                *)
BurstIsBest ==
    burst.phase = "chosen" =>
        LET good == {s \in PrefixChoices : Admissible(s)}
            score(s) == Score([b \in BurstLanes |-> Cost(b, s[b]).n])
        IN  IF good = {} THEN burst.best = NoChoice
            ELSE \E s \in good :
                    /\ \A t \in good : score(t) <= score(s)
                    /\ burst.best = [score |-> score(s),
                           elapsed |-> Cost(0, s[0]).num \div BurstHz,
                           limits |-> [b \in BurstLanes |-> Cost(b, s[b]).n]]
=============================================================================
