---------------------------- MODULE MCExceptions ----------------------------
(* Small instances of Exceptions: levels 0 (most urgent) to 3.             *)
EXTENDS Exceptions

NoMasks == {}
SomeMasks == {Unmasked, [Unmasked EXCEPT !.primask = TRUE],
             [Unmasked EXCEPT !.basepri = 2]}

OneLevel == {[e \in Exceptions |-> 0]}
(* SVC and SysTick above two interrupts of different levels, PendSV lowest. *)
Nested == {[e \in Exceptions |-> CASE e = 16 -> 2 [] e = 17 -> 1
                                   [] e = SVCall -> 0 [] e = SysTick -> 0
                                   [] OTHER -> 3]}
TwoMaps == Nested \cup {[e \in Exceptions |-> 1]}
Interrupts == {[e \in Exceptions |-> CASE e = 16 -> 1 [] e = 17 -> 0
                                       [] OTHER -> 2]}

AllMaps == TwoMaps \cup OneLevel \cup Interrupts

Eager == {{}, {"ASPEN"}}
Lazy == {{"ASPEN", "LSPEN"}}
NoFp == {{}}
AllFpModes == Eager \cup Lazy

(* One behaviour explores one part of the exception path, with the inputs  *)
(* and bounds that part needs.                                             *)
VARIABLE part

(* Every write, mask and priority change; one line with two sources.       *)
FreeStart == sys.priority \in TwoMaps /\ fpccr \in NoFp
Free ==
    /\ Next
    /\ sys'.enable \cup sys'.pending \cup sys'.lines \subseteq {16}
    /\ \A e \in Exceptions :
          sys'.priority[e] \in {sys.priority[e]} \cup
              {p[e] : p \in IF e \in {16, PendSV} THEN TwoMaps ELSE {}}
    /\ cpu'.fp = cpu.fp /\ Len(frames') <= 2

(* Disciplined firmware with unshared lines and no masks.                  *)
Plain ==
    /\ Next /\ Disciplined
    /\ cpu'.masks = Unmasked /\ UNCHANGED sys.priority
    /\ \A q \in Irqs : sources'[q] \subseteq {CHOOSE p \in Sources : TRUE}

(* Two interrupts and three levels, no floating point.                     *)
NestingStart == sys.priority \in Nested /\ fpccr \in NoFp
Nesting == Plain /\ cpu'.fp = cpu.fp

(* Handlers that use the FPU, eager and nested or lazy and not preempted.  *)
EagerStart == sys.priority \in Interrupts /\ fpccr \in Eager
LazyStart == sys.priority \in OneLevel /\ fpccr \in Lazy

PartInit ==
    /\ Init
    /\ \/ part = "free" /\ FreeStart
       \/ part = "nesting" /\ NestingStart
       \/ part = "fp" /\ (EagerStart \/ LazyStart)

PartNext ==
    /\ \/ part = "free" /\ Free
       \/ part = "nesting" /\ Nesting
       \/ part = "fp" /\ Plain
    /\ UNCHANGED part

PartSpec == PartInit /\ [][PartNext]_<<vars, part>>

(* Lazy stacking with handlers that are preempted and use no FPU.          *)
PreemptedSpec ==
    /\ Init /\ part = "preempted"
    /\ [][Next /\ Disciplined /\ UNCHANGED part]_<<vars, part>>

(* NestingOrdered and ThreadFpKept are about disciplined firmware.         *)
NestedByUrgency == part # "free" => NestingOrdered
FpKept == part = "fp" => ThreadFpKept

(* Disciplined firmware: handlers nest by urgency, and the thread finds    *)
(* its floating point registers as it left them.                           *)
HandlersTransparent == NestedByUrgency /\ FpKept
=============================================================================
