------------------------------ MODULE MCCanBus ------------------------------
(* An instance of CanBus for TLC, bounded differently in the two modes.    *)
EXTENDS CanBus

Standard(base) == [base |-> base, extended |-> FALSE, low |-> 0, bits |-> 1]
Extended(base) == [base |-> base, extended |-> TRUE, low |-> 0, bits |-> 2]

(* A standard frame beats an extended one with the same base identifier. *)
TwoFrames == {Standard(0), Extended(0)}

(* Timed: time and arbitration matter.  Immediate: nested deliveries and   *)
(* attachment changes do, time does not.                                   *)
Bounded ==
    IF bus.mode_ = "timed"
      THEN bus'.next_node_id_ <= 2 /\ cancels' <= 1
      ELSE /\ now' = now /\ bus'.next_transmission_sequence_ <= 3
           /\ \A l \in DOMAIN stack' : ~ stack'[l].tx.frame.extended

BoundedSpec ==
    /\ Init /\ [][Next /\ Bounded]_vars
    /\ WF_vars(BusStep) /\ WF_vars(bus.mode_ = "timed" /\ Advance)
=============================================================================
