----------------------------- MODULE Exceptions -----------------------------
(***************************************************************************)
(* The exception path of a board: fil::cortexm::ExceptionController with   *)
(* SystemControl under it, the CPU state it stacks and unstacks, and       *)
(* Board::settleInstructionBoundary, which runs it after every             *)
(* instruction.                                                            *)
(*                                                                         *)
(* A board alternates: one instruction ("fetch"), then the time it took,   *)
(* during which devices drive interrupt lines ("settle"), then the         *)
(* boundary.  The two stacks are one last-in first-out sequence of frames  *)
(* because firmware returns with the EXC_RETURN value it was given;        *)
(* floating-point registers are one value.                                 *)
(***************************************************************************)
EXTENDS SystemControl, Sequences, SequencesExt

CONSTANTS
    Sources,         \* peripherals that may share an interrupt line
    Masks,           \* [primask, basepri, faultmask] values firmware writes
    PriorityMaps,    \* priorities firmware may start from
    FpValues,        \* contents of S0-S15 and FPSCR
    Stale,           \* what a stack area holds that nobody wrote
    FpModes,         \* FPCCR values: subsets of {"ASPEN", "LSPEN"}
    HandlersUseFp,   \* whether handlers execute floating-point instructions
    MaxFrames        \* frames that fit in writable stack memory

ASSUME MaskAssumption ==
    Masks \subseteq [primask : BOOLEAN, basepri : Levels, faultmask : BOOLEAN]
ASSUME PriorityAssumption == PriorityMaps \subseteq [Exceptions -> Levels]
ASSUME FpAssumption ==
    /\ FpModes \subseteq SUBSET {"ASPEN", "LSPEN"}
    /\ Stale \notin FpValues /\ FpValues # {}
    /\ HandlersUseFp \in BOOLEAN
ASSUME FrameAssumption == MaxFrames \in Nat

VARIABLES
    sys,           \* SystemControl
    sources,       \* irq_sources_ of Stm32G4: asserting peripherals
    cpu,           \* CpuState: masks, IPSR, CONTROL.FPCA, FP, requests
    activeStack,   \* active_stack_
    frames,        \* the exception frames in stack memory, oldest first
    fpccr,         \* fpccr_
    phase,         \* "fetch", "settle", or the reason the board stopped
    threadFp       \* history: the FP registers as thread code left them

vars == <<sys, sources, cpu, activeStack, frames, fpccr, phase, threadFp>>

Fp == FpValues \cup {Stale}
Mask == [primask : BOOLEAN, basepri : Levels, faultmask : BOOLEAN]
Unmasked == [primask |-> FALSE, basepri |-> 0, faultmask |-> FALSE]

CpuState ==
    [ipsr : Exceptions \cup {Thread}, masks : Mask, fpca : BOOLEAN, fp : Fp,
     lazyActive : BOOLEAN, lazyBase : 0..MaxFrames,
     excReturn : BOOLEAN, svc : BOOLEAN]

(* What an exception frame keeps: the stacked IPSR, whether EXC_RETURN     *)
(* names an extended frame, whether a handler was preempted, and the FP    *)
(* area.                                                                   *)
Frame == [ipsr : Exceptions \cup {Thread}, extended : BOOLEAN,
          fromHandler : BOOLEAN, area : Fp]

Reset ==
    [ipsr |-> Thread, masks |-> Unmasked, fpca |-> FALSE,
     fp |-> CHOOSE v \in FpValues : TRUE,
     lazyActive |-> FALSE, lazyBase |-> 0, excReturn |-> FALSE, svc |-> FALSE]

Init ==
    /\ \E p \in PriorityMaps : sys = [ResetState EXCEPT !.priority = p]
    /\ sources = [q \in Irqs |-> {}]
    /\ cpu = Reset
    /\ activeStack = <<>> /\ frames = <<>>
    /\ fpccr \in FpModes
    /\ phase = "fetch"
    /\ threadFp = Reset.fp

InHandlerMode(c) == c.ipsr # Thread

-----------------------------------------------------------------------------
(* ExceptionController, as functions of the machine record k.              *)

Machine == [sys |-> sys, cpu |-> cpu, activeStack |-> activeStack,
            frames |-> frames, phase |-> phase]

(* validateStackRange on entry.                                            *)
StackFits(k) == Len(k.frames) < MaxFrames

(* Every check precedes every write, so a failed entry leaves no trace.    *)
Enter(k, e) ==
    LET extended == k.cpu.fpca
        lazy == extended /\ "LSPEN" \in fpccr /\ ~k.cpu.lazyActive
        frame == [ipsr |-> k.cpu.ipsr, extended |-> extended,
                  fromHandler |-> InHandlerMode(k.cpu),
                  area |-> IF extended /\ ~lazy THEN k.cpu.fp ELSE Stale]
    IN  IF StackFits(k)
        THEN [k EXCEPT !.frames = Append(@, frame),
                       !.cpu.ipsr = e,
                       !.cpu.lazyActive = lazy,
                       !.cpu.lazyBase = IF lazy THEN Len(k.frames) + 1 ELSE @,
                       !.activeStack = Append(@, e),
                       !.sys = EnterException(@, e)]
        ELSE [k EXCEPT !.phase = "architectural_fault"]

EnterPending(k) ==
    LET e == NextPending(k.sys, k.cpu.masks)
    IN  IF e = Thread THEN k ELSE Enter(k, e)

(* Seeded fault: a pending reservation is unstacked like a full frame. *)
UnstackReserved(c, frame) == IF frame.extended THEN frame.area ELSE c.fp

(* A pending reservation means this level never stacked its FP state.      *)
UnstackFp(c, frame) ==
    IF frame.extended /\ ~c.lazyActive THEN frame.area ELSE c.fp

ExceptionReturn(k) ==
    LET frame == Last(k.frames)
        leaving == Last(k.activeStack)
        rest == Front(k.activeStack)
        left == LeaveException(k.sys, leaving)
    IN  IF k.activeStack = <<>> \/ ~InHandlerMode(k.cpu)
        THEN [k EXCEPT !.phase = "architectural_fault"]
        ELSE [k EXCEPT
                 !.frames = Front(@),
                 !.activeStack = rest,
                 !.sys = IF rest = <<>> THEN left
                         ELSE ResumeException(left, Last(rest)),
                 !.cpu.fp = UnstackFp(k.cpu, frame),
                 !.cpu.lazyActive = FALSE,
                 !.cpu.ipsr = frame.ipsr,
                 !.cpu.fpca = IF frame.fromHandler THEN @ ELSE frame.extended]

Running(k) == k.phase \in {"fetch", "settle"}

(* The stages of settleInstructionBoundarySlow; a stage that stops the     *)
(* board skips the later ones.                                             *)
SettleReturn(k) ==
    IF k.cpu.excReturn THEN ExceptionReturn([k EXCEPT !.cpu.excReturn = FALSE])
    ELSE k
SettleException(k) ==
    IF Running(k) /\ k.cpu.svc THEN Enter([k EXCEPT !.cpu.svc = FALSE], SVCall)
    ELSE k
SettlePending(k) ==
    IF Running(k) /\ HasEnabledPending(k.sys) THEN EnterPending(k) ELSE k
SettleReset(k) ==
    IF Running(k) /\ k.sys.resetRequested
    THEN [k EXCEPT !.sys.resetRequested = FALSE, !.phase = "reset_requested"]
    ELSE k

SettleInstructionBoundary ==
    /\ phase = "settle"
    /\ LET k == SettleReset(SettlePending(SettleException(SettleReturn(Machine))))
       IN  /\ sys' = k.sys /\ cpu' = k.cpu /\ frames' = k.frames
           /\ activeStack' = k.activeStack
           /\ phase' = IF k.phase = "settle" THEN "fetch" ELSE k.phase
    /\ UNCHANGED <<sources, fpccr, threadFp>>

-----------------------------------------------------------------------------
(* Instructions: each ends with the boundary.                              *)

Retire == phase = "fetch" /\ phase' = "settle"

(* An instruction whose only effect is on SystemControl.                   *)
Store(s) == Retire /\ sys' = s
            /\ UNCHANGED <<sources, cpu, activeStack, frames, fpccr, threadFp>>
(* An instruction whose only effect is on CpuState.                        *)
Execute(c) == Retire /\ cpu' = c
              /\ UNCHANGED <<sys, sources, activeStack, frames, fpccr>>

(* An instruction that touches none of the modelled state, or the start of *)
(* a slice.                                                                *)
Other == Execute(cpu) /\ UNCHANGED threadFp

WriteEnable == \E q \in Irqs : \/ Store(WriteISER(sys, {q}))
                               \/ Store(WriteICER(sys, {q}))
WritePending == \E q \in Irqs : \/ Store(WriteISPR(sys, {q}))
                                \/ Store(WriteICPR(sys, {q}))
                                \/ Store(WriteSTIR(sys, q))
WriteSystemPending ==
    \E e \in {PendSV, SysTick} : \/ Store(WriteICSR(sys, {e}, {}))
                                 \/ Store(WriteICSR(sys, {}, {e}))
WritePriorities == \E e \in Exceptions, p \in PriorityMaps :
                       Store(WritePriority(sys, e, p[e]))
RequestReset == Store(WriteAIRCR(sys))

WriteMasks == \E m \in Masks :
    Execute([cpu EXCEPT !.masks = m]) /\ UNCHANGED threadFp

SupervisorCall == Execute([cpu EXCEPT !.svc = TRUE]) /\ UNCHANGED threadFp
BranchExcReturn == Execute([cpu EXCEPT !.excReturn = TRUE]) /\ UNCHANGED threadFp

(* MSR CONTROL.                                                            *)
WriteControl == \E fpca \in BOOLEAN :
    /\ Execute([cpu EXCEPT !.fpca = fpca])
    /\ threadFp' = IF InHandlerMode(cpu) THEN threadFp ELSE cpu.fp

(* An FP register access: FPCA is claimed, and a pending reservation is    *)
(* stacked before the instruction's own effect.                            *)
AccessFp(v) ==
    LET stacks == InHandlerMode(cpu) /\ cpu.lazyActive IN
    /\ Retire
    /\ InHandlerMode(cpu) => HandlersUseFp
    /\ cpu' = [cpu EXCEPT !.fpca = @ \/ "ASPEN" \in fpccr, !.fp = v,
                          !.lazyActive = @ /\ ~stacks]
    /\ frames' = IF stacks THEN [frames EXCEPT ![cpu.lazyBase].area = cpu.fp]
                 ELSE frames
    /\ threadFp' = IF InHandlerMode(cpu) THEN threadFp ELSE v
    /\ UNCHANGED <<sys, sources, activeStack, fpccr>>

FpInstruction == \E v \in FpValues : AccessFp(v)

-----------------------------------------------------------------------------
(* Devices, while the time of the instruction passes.                      *)

(* The interrupt callback wired by Stm32G4::wireInterrupts.                *)
DriveLine(q, p, asserted) ==
    /\ phase = "settle"
    /\ sources' = [sources EXCEPT ![q] = IF asserted THEN @ \cup {p} ELSE @ \ {p}]
    /\ sys' = SetInterruptLine(sys, q, sources'[q] # {})
    /\ UNCHANGED <<cpu, activeStack, frames, fpccr, phase, threadFp>>

DeviceLine == \E q \in Irqs, p \in Sources, b \in BOOLEAN : DriveLine(q, p, b)

(* The effect of advanceCycles on this machine: the SysTick bit.           *)
SysTickWraps ==
    /\ phase = "settle"
    /\ sys' = [sys EXCEPT !.system = @ \cup {SysTick}]
    /\ UNCHANGED <<sources, cpu, activeStack, frames, fpccr, phase, threadFp>>

Next ==
    \/ SettleInstructionBoundary
    \/ Other \/ WriteEnable \/ WritePending \/ WriteSystemPending
    \/ WritePriorities \/ RequestReset \/ WriteMasks
    \/ SupervisorCall \/ BranchExcReturn \/ WriteControl \/ FpInstruction
    \/ DeviceLine \/ SysTickWraps

Spec == Init /\ [][Next]_vars

-----------------------------------------------------------------------------
(* Firmware that changes priorities and CONTROL only in thread mode, and   *)
(* makes a supervisor call only where it preempts, as the architecture     *)
(* asks (the model, like the code, does not escalate to HardFault).        *)
Disciplined ==
    /\ InHandlerMode(cpu) =>
          /\ sys'.priority = sys.priority
          /\ phase = "fetch" /\ cpu'.fpca # cpu.fpca => cpu'.fpca
    /\ cpu'.svc /\ InHandlerMode(cpu) =>
          sys.priority[SVCall] < sys.priority[sys.current]

DisciplinedSpec == Init /\ [][Next /\ Disciplined]_vars

-----------------------------------------------------------------------------
(* Properties.                                                             *)

(* Every field holds a value of its type.                                  *)
TypeOK ==
    /\ sys \in SystemState
    /\ sources \in [Irqs -> SUBSET Sources]
    /\ cpu \in CpuState
    /\ activeStack \in Seq(Exceptions)
    /\ frames \in Seq(Frame) /\ Len(frames) <= MaxFrames
    /\ fpccr \in SUBSET {"ASPEN", "LSPEN"}
    /\ phase \in {"fetch", "settle", "architectural_fault", "reset_requested"}
    /\ threadFp \in Fp

(* The NVIC's active exception, the controller's stack, the IPSR and the   *)
(* stacked IPSRs tell one story at every nesting depth: leave() and        *)
(* resume() of exceptionReturn put back exactly what enter() replaced.     *)
ActiveAgrees ==
    LET below(i) == IF i = 1 THEN Thread ELSE activeStack[i - 1]
        top == IF activeStack = <<>> THEN Thread ELSE Last(activeStack)
    IN  /\ Len(frames) = Len(activeStack)
        /\ \A i \in DOMAIN frames :
              /\ frames[i].ipsr = below(i)
              /\ frames[i].fromHandler <=> i > 1
        /\ cpu.ipsr = top /\ sys.current = top

(* The cached summary that guards nextPending ("fast conservative test")   *)
(* is exact after any sequence of register writes, line changes, entries   *)
(* and returns: no enabled pending interrupt is ever overlooked.           *)
SummaryExact == sys.summary <=> (sys.pending \cap sys.enable) # {}

(* A peripheral that asserts an inactive interrupt keeps it pending,       *)
(* whatever ICPR writes, entries and returns happened (the refresh in      *)
(* leave() re-pends it), also when another peripheral sharing the line     *)
(* deasserts.                                                              *)
LevelsRepend == \A q \in Irqs : sources[q] # {} /\ q \notin sys.active
                                    => q \in sys.pending

(* When an instruction starts, nothing pending could preempt what runs:    *)
(* the boundary took the most urgent exception, so one entry per boundary  *)
(* is enough.                                                              *)
BoundarySettled ==
    phase = "fetch" => \A e \in Exceptions : ~Takable(sys, cpu.masks, e)

(* Under disciplined firmware no exception preempts itself or a more       *)
(* urgent one, and the NVIC active bits are the external exceptions on the *)
(* controller's stack.                                                     *)
NestingOrdered ==
    /\ \A i, j \in DOMAIN activeStack : i < j =>
          sys.priority[activeStack[j]] < sys.priority[activeStack[i]]
    /\ sys.active = ToSet(activeStack) \cap Irqs

(* Thread code that owns the FP registers finds in them what it left       *)
(* there, however many handlers ran and whatever they did to the           *)
(* registers: exact FP preservation by enter, the FP touch and             *)
(* exceptionReturn.                                                        *)
ThreadFpKept ==
    phase = "fetch" /\ ~InHandlerMode(cpu) /\ cpu.fpca => cpu.fp = threadFp
=============================================================================
