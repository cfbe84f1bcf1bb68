--------------------------- MODULE SystemControl ---------------------------
(***************************************************************************)
(* fil::cortexm::SystemControl: the pure state transformers of the NVIC    *)
(* and of the pending bits of the SCB.  A register of one bit per IRQ is a *)
(* set of exception numbers; a priority byte is its implemented level.     *)
(***************************************************************************)
EXTENDS Integers

CONSTANTS
    Irqs,    \* external exception numbers (16..255)
    Levels   \* priority levels: the implemented bits 7:4 of a priority byte

ASSUME IrqAssumption == Irqs \subseteq 16..255
ASSUME LevelAssumption == Levels \subseteq 0..15 /\ 0 \in Levels

Thread == 0
SVCall == 11
PendSV == 14
SysTick == 15
SystemExceptions == {SVCall, PendSV, SysTick}
Exceptions == SystemExceptions \cup Irqs

(* The NVIC registers, the SCB pending bits, the active exception and the  *)
(* cached "some enabled external interrupt is pending".                    *)
SystemState ==
    [enable : SUBSET Irqs, pending : SUBSET Irqs, active : SUBSET Irqs,
     lines : SUBSET Irqs, priority : [Exceptions -> Levels],
     system : SUBSET {PendSV, SysTick}, summary : BOOLEAN,
     current : Exceptions \cup {Thread}, resetRequested : BOOLEAN]

(* SystemControl::reset *)
ResetState ==
    [enable |-> {}, pending |-> {}, active |-> {}, lines |-> {},
     priority |-> [e \in Exceptions |-> 0], system |-> {}, summary |-> FALSE,
     current |-> Thread, resetRequested |-> FALSE]

RefreshPendingSummary(s) ==
    LET pending == s.pending \cup (s.lines \ s.active)
    IN  [s EXCEPT !.pending = pending,
                  !.summary = (pending \cap s.enable) # {}]

Pend(s, e) ==
    IF e \in {PendSV, SysTick} THEN [s EXCEPT !.system = @ \cup {e}]
    ELSE IF e \in Irqs
         THEN RefreshPendingSummary([s EXCEPT !.pending = @ \cup {e}])
         ELSE s

ClearPending(s, e) ==
    IF e \in {PendSV, SysTick} THEN [s EXCEPT !.system = @ \ {e}]
    ELSE IF e \in Irqs
         THEN RefreshPendingSummary([s EXCEPT !.pending = @ \ {e}])
         ELSE s

(* Only a rising edge latches; a level is sampled by the refresh.          *)
SetInterruptLine(s, irq, asserted) ==
    RefreshPendingSummary(
        [s EXCEPT !.lines = IF asserted THEN @ \cup {irq} ELSE @ \ {irq},
                  !.pending = IF asserted /\ irq \notin s.lines
                              THEN @ \cup {irq} ELSE @])

EnterException(s, e) ==
    ClearPending([s EXCEPT !.current = e,
                           !.active = @ \cup ({e} \cap Irqs)], e)

(* Seeded fault: a level still asserted is not sampled again. *)
LeaveWithoutSampling(s, e) ==
    [s EXCEPT !.active = @ \ {e}, !.current = IF @ = e THEN Thread ELSE @]

(* Seeded fault: the active bit stays set. *)
LeaveStillActive(s, e) ==
    RefreshPendingSummary([s EXCEPT !.current = IF @ = e THEN Thread ELSE @])

LeaveException(s, e) ==
    RefreshPendingSummary(
        [s EXCEPT !.active = @ \ {e},
                  !.current = IF @ = e THEN Thread ELSE @])

(* Seeded fault: the preempted exception is not active again. *)
ResumeForgotten(s, e) == s

ResumeException(s, e) == [s EXCEPT !.current = e]

HasEnabledPending(s) == s.system # {} \/ s.summary

IsPending(s, e) == e \in s.system \cup s.pending
IsEnabled(s, e) == e \in SystemExceptions \cup s.enable

Preempts(s, e) ==
    s.current # Thread => s.priority[e] < s.priority[s.current]

(* The lambda "consider" of nextPending: e is not masked and preempts what *)
(* is active.  No NMI or HardFault is ever pended, so every candidate has  *)
(* a configurable priority.                                                *)
Takable(s, masks, e) ==
    /\ IsPending(s, e) /\ IsEnabled(s, e)
    /\ ~masks.faultmask /\ ~masks.primask
    /\ Preempts(s, e)
    /\ masks.basepri # 0 => s.priority[e] < masks.basepri

(* Seeded fault: the exception number decides alone. *)
MoreUrgentByNumber(s, e, f) == e < f

MoreUrgent(s, e, f) ==
    \/ s.priority[e] < s.priority[f]
    \/ s.priority[e] = s.priority[f] /\ e < f

(* nextPending: the exception taken next, or Thread for none.              *)
NextPending(s, masks) ==
    LET takable == {e \in Exceptions : Takable(s, masks, e)}
    IN  IF HasEnabledPending(s) /\ takable # {}
        THEN CHOOSE e \in takable :
                 \A f \in takable \ {e} : MoreUrgent(s, e, f)
        ELSE Thread

(* writeWord, by register.                                                 *)
WriteISER(s, bits) ==
    RefreshPendingSummary([s EXCEPT !.enable = @ \cup bits])

WriteICER(s, bits) ==
    RefreshPendingSummary([s EXCEPT !.enable = @ \ bits])
WriteISPR(s, bits) ==
    RefreshPendingSummary([s EXCEPT !.pending = @ \cup bits])
WriteICPR(s, bits) ==
    RefreshPendingSummary([s EXCEPT !.pending = @ \ bits])
WriteSTIR(s, irq) == Pend(s, irq)
WritePriority(s, e, level) == [s EXCEPT !.priority[e] = level]
(* ICSR: the set bits act before the clear bits.                           *)
WriteICSR(s, set, clear) == [s EXCEPT !.system = (@ \cup set) \ clear]
WriteAIRCR(s) == [s EXCEPT !.resetRequested = TRUE]
=============================================================================
