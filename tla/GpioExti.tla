------------------------------ MODULE GpioExti ------------------------------
(***************************************************************************)
(* The pins of a board and the interrupt controller behind them:           *)
(* GpioPeripheral (levels from MODER, ODR and external drivers),           *)
(* SyscfgPeripheral (which port feeds an EXTI line) and ExtiPeripheral     *)
(* (edge latches, masks, and the seven NVIC lines).  The wiring is that of *)
(* Stm32G4::wireInterrupts: every level change a port announces reaches    *)
(* notifyGpioEdge.  EXTI keeps a state per line beside PR and IMR.         *)
(***************************************************************************)
EXTENDS Integers

CONSTANTS
    Lines,      \* EXTI lines, which are also pin numbers: a subset of 0..15
    Ports,      \* GPIO ports, a subset of 0..6
    Pads,       \* the pins that exist: a subset of Ports \X Lines
    Modes       \* MODER values firmware writes

ASSUME PadAssumption == Lines \subseteq 0..15 /\ Pads \subseteq Ports \X Lines

VARIABLES gpio, exti

GpioExtiVars == <<gpio, exti>>

Unrouted == 7       \* EXTICR fields above 6 select no port
Analog == 3

(* A pad: its MODER field, its ODR bit, and what a test or a stimulus      *)
(* drives from outside (external_input_mask_ and external_input_value_).   *)
Pad == [mode : 0..3, odr : BOOLEAN, ext : {"none", "low", "high"}]

LineState == {"idle", "armed", "pending", "pending_masked"}

Exti == [route : [Lines -> Ports \cup {Unrouted}],
         imr : SUBSET Lines, rtsr : SUBSET Lines, ftsr : SUBSET Lines,
         pr : SUBSET Lines, state : [Lines -> LineState], level : SUBSET (0..6)]

GpioExtiInit ==
    /\ gpio = [p \in Pads |-> [mode |-> Analog, odr |-> FALSE, ext |-> "none"]]
    /\ exti = [route |-> [l \in Lines |-> 0],
               imr |-> {}, rtsr |-> {}, ftsr |-> {}, pr |-> {},
               state |-> [l \in Lines |-> "idle"], level |-> {}]

(* GpioPeripheral::inputValue, one bit *)
InputValue(pad) ==
    IF pad.ext # "none" THEN pad.ext = "high" ELSE pad.mode \in {1, 2} /\ pad.odr

-----------------------------------------------------------------------------
(* The NVIC line of an EXTI line: 0 to 4 have their own, 5 to 9 share one  *)
(* and 10 to 15 another.                                                   *)
IrqOf(line) == IF line < 5 THEN line ELSE IF line < 10 THEN 5 ELSE 6

(* Seeded fault: a shared line follows its first member only. *)
LevelsOfFirst(e) ==
    [e EXCEPT !.level = {IrqOf(l) : l \in {k \in Lines :
        e.state[k] = "pending" /\ \A j \in Lines : j < k => IrqOf(j) # IrqOf(k)}}]

UpdateLevels(e) ==
    [e EXCEPT !.level = {IrqOf(l) : l \in {k \in Lines : e.state[k] = "pending"}}]

(* transitionLine: the explicit state follows the events one by one.       *)
Transition(s, event) ==
    CASE s = "idle" /\ event = "request" -> "pending_masked"
      [] s = "idle" /\ event = "unmask" -> "armed"
      [] s = "armed" /\ event = "request" -> "pending"
      [] s = "armed" /\ event = "mask" -> "idle"
      [] s = "pending" /\ event = "cleared" -> "armed"
      [] s = "pending" /\ event = "mask" -> "pending_masked"
      [] s = "pending_masked" /\ event = "cleared" -> "idle"
      [] s = "pending_masked" /\ event = "unmask" -> "pending"
      [] OTHER -> s

TransitionLines(e, lines, event) ==
    [e EXCEPT !.state = [l \in Lines |-> IF l \in lines THEN Transition(@[l], event) ELSE @[l]]]

(* resyncPendingLines: the state re-derived from PR and IMR.               *)
StateOf(latched, unmasked) ==
    IF latched THEN IF unmasked THEN "pending" ELSE "pending_masked"
    ELSE IF unmasked THEN "armed" ELSE "idle"

ResyncPendingLines(e) ==
    [e EXCEPT !.state = [l \in Lines |-> StateOf(l \in e.pr, l \in e.imr)]]

(* notifyGpioEdge, for the pins of one port whose level changed: the lines *)
(* routed to the port and armed for the direction are latched.             *)
NotifyEdges(e, port, rising, falling) ==
    LET hit == {l \in (rising \cap e.rtsr) \cup (falling \cap e.ftsr) : e.route[l] = port}
    IN  IF hit = {} THEN e
        ELSE UpdateLevels([TransitionLines(e, hit, "request") EXCEPT !.pr = @ \cup hit])

(* The edge callbacks of a change of the pads of a port.                   *)
Announce(port, before, after) ==
    LET changed == {l \in Lines : <<port, l>> \in Pads
                       /\ InputValue(before[<<port, l>>]) # InputValue(after[<<port, l>>])}
        rising == {l \in changed : InputValue(after[<<port, l>>])}
    IN  NotifyEdges(exti, port, rising, changed \ rising)

-----------------------------------------------------------------------------
(* GpioPeripheral::setInput and releaseInput *)
SetInput ==
    \E p \in Pads, level \in {"low", "high"} :
        /\ gpio' = [gpio EXCEPT ![p].ext = level]
        /\ exti' = Announce(p[1], gpio, gpio')

ReleaseInput ==
    \E p \in Pads :
        /\ gpio' = [gpio EXCEPT ![p].ext = "none"]
        /\ exti' = Announce(p[1], gpio, gpio')

(* ODR, BSRR and BRR writes end in applyOutput with the new image; BSRR    *)
(* gives setting priority over resetting, so any image can be produced.    *)
ApplyOutput ==
    \E port \in Ports : \E high \in SUBSET {p \in Pads : p[1] = port} :
        /\ gpio' = [p \in Pads |-> IF p[1] = port THEN [gpio[p] EXCEPT !.odr = p \in high]
                                   ELSE gpio[p]]
        /\ exti' = Announce(port, gpio, gpio')

(* MODER is plain storage: a level that changes with it is not announced.  *)
WriteModer ==
    \E p \in Pads, m \in Modes :
        gpio' = [gpio EXCEPT ![p].mode = m] /\ UNCHANGED exti

WriteExticr ==
    \E l \in Lines, port \in Ports \cup {Unrouted} :
        exti' = [exti EXCEPT !.route[l] = port] /\ UNCHANGED gpio

WriteSwier ==
    \E set \in SUBSET Lines :
        /\ exti' = UpdateLevels(ResyncPendingLines([exti EXCEPT !.pr = @ \cup set]))
        /\ UNCHANGED gpio

(* PR is cleared by ones; the base is the image before the write.          *)
ClearPending(e, clear) ==
    UpdateLevels([TransitionLines(e, clear, "cleared") EXCEPT !.pr = @ \ clear])

WritePr == \E clear \in SUBSET Lines : exti' = ClearPending(exti, clear) /\ UNCHANGED gpio

WriteImr ==
    \E mask \in SUBSET Lines :
        /\ exti' = UpdateLevels(TransitionLines(TransitionLines(
                      [exti EXCEPT !.imr = mask], mask, "unmask"), Lines \ mask, "mask"))
        /\ UNCHANGED gpio

WriteTriggers ==
    \E l \in Lines, r, f \in BOOLEAN :
        /\ exti' = UpdateLevels([exti EXCEPT
                      !.rtsr = IF r THEN @ \cup {l} ELSE @ \ {l},
                      !.ftsr = IF f THEN @ \cup {l} ELSE @ \ {l}])
        /\ UNCHANGED gpio

(* Stm32G4::reset: SYSCFG, EXTI, then the ports, whose external drivers    *)
(* stay and whose change of level is not announced.                        *)
ResetPins ==
    /\ exti' = ResyncPendingLines([exti EXCEPT
                  !.imr = {}, !.rtsr = {}, !.ftsr = {}, !.pr = {}, !.level = {},
                  !.route = [l \in Lines |-> 0]])
    /\ gpio' = [p \in Pads |-> [gpio[p] EXCEPT !.mode = Analog, !.odr = FALSE]]

GpioExtiNext ==
    \/ SetInput \/ ReleaseInput \/ ApplyOutput \/ WriteModer
    \/ WriteExticr \/ WriteSwier \/ WritePr \/ WriteImr \/ WriteTriggers \/ ResetPins

GpioExtiSpec == GpioExtiInit /\ [][GpioExtiNext]_GpioExtiVars

-----------------------------------------------------------------------------
GpioExtiTypeOK == gpio \in [Pads -> Pad] /\ exti \in Exti

(* The explicit state of a line and the PR and IMR registers say the same, *)
(* whichever of the two a write updated, and a NVIC line is asserted       *)
(* exactly while one of its lines is latched and unmasked.                 *)
ExtiMirrored ==
    /\ \A l \in Lines : exti.state[l] = StateOf(l \in exti.pr, l \in exti.imr)
    /\ \A irq \in 0..6 : irq \in exti.level <=>
          \E l \in exti.pr \cap exti.imr : IrqOf(l) = irq
=============================================================================
