------------------------------- MODULE RxFifo -------------------------------
(***************************************************************************)
(* What RX FIFO 0 of an FDCAN controller promises: a bounded queue of      *)
(* frames in arrival order.  An arriving frame takes the slot after the    *)
(* last one, round robin; acknowledging a slot frees that frame and every  *)
(* older one.                                                              *)
(***************************************************************************)
EXTENDS Integers, Sequences

CONSTANTS Frame,  \* what is stored of a frame
          Slots   \* capacity

VARIABLES queue,  \* stored frames with their slots, oldest first
          next    \* slot of the next frame

vars == <<queue, next>>

Init == queue = <<>> /\ next = 0

(* With every slot taken, either the arriving frame or the oldest is lost. *)
Arrive ==
    /\ queue' # <<>>
    /\ LET last == queue'[Len(queue')]
       IN  /\ last.frame \in Frame /\ last.slot = next
           /\ queue' = Append(IF Len(queue) = Slots THEN Tail(queue)
                                                    ELSE queue, last)
    /\ next' = (next + 1) % Slots

Acknowledge ==
    /\ \E k \in DOMAIN queue : queue' = SubSeq(queue, k + 1, Len(queue))
    /\ UNCHANGED next

Reset == queue' = <<>> /\ next' = 0

Next == Reset \/ Acknowledge \/ Arrive

Spec == Init /\ [][Next]_vars
=============================================================================
