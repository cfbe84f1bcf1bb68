--------------------------- MODULE GdbRegisters ----------------------------
(***************************************************************************)
(* The register file as GDB sees it (src/debug/registers.cpp): single      *)
(* reads and writes by index and the whole file in one packet.  The banked *)
(* stack pointer is visible three times (sp, msp, psp) and mirrored in     *)
(* r[13]; xPSR carries the mode that selects the bank.                     *)
(***************************************************************************)
EXTENDS Naturals, Sequences

CONSTANTS
    Words,      \* values of a register
    StatusWords \* values of xPSR: [ipsr, t, it]

VARIABLE
    core        \* CpuState

(* The registers in packet order; one of each kind stands for its group.   *)
Registers == <<"r0", "sp", "lr", "pc", "xpsr", "msp", "psp", "control", "primask", "d0", "fpscr">>
Index == 1..Len(Registers)

RegistersInit ==
    core = [r0 |-> 0, mirror |-> 0, lr |-> 0, pc |-> 0,
            xpsr |-> [ipsr |-> 0, t |-> TRUE, it |-> 0], thumb |-> TRUE, it_state |-> 0,
            msp |-> 0, psp |-> 0, control |-> 0, primask |-> 0, s0 |-> 0, s1 |-> 0, fpscr |-> 0]

(* CpuState::activeSp: handlers and CONTROL.SPSEL = 0 use MSP.             *)
OnMsp(c) == c.xpsr.ipsr # 0 \/ (c.control \div 2) % 2 = 0
ActiveSp(c) == IF OnMsp(c) THEN c.msp ELSE c.psp

Even(v) == v - (v % 2)

ReadSingleRegister(c, i) ==
    CASE Registers[i] = "sp" -> ActiveSp(c)
      [] Registers[i] = "pc" -> Even(c.pc)
      [] Registers[i] = "d0" -> <<c.s0, c.s1>>
      [] OTHER -> c[Registers[i]]

(* Seeded fault: the mirror stays with the bank it had. *)
RefreshActiveSpMirror_None(c) == c

RefreshActiveSpMirror(c) == [c EXCEPT !.mirror = ActiveSp(c)]

WriteRegister13(c, v) ==
    IF OnMsp(c) THEN [c EXCEPT !.msp = v, !.mirror = v] ELSE [c EXCEPT !.psp = v, !.mirror = v]

WriteSingleRegister(c, i, v) ==
    CASE Registers[i] = "sp" -> WriteRegister13(c, v)
      [] Registers[i] = "pc" -> [c EXCEPT !.pc = Even(v)]
      [] Registers[i] = "xpsr" ->
            RefreshActiveSpMirror([c EXCEPT !.xpsr = v, !.thumb = v.t, !.it_state = v.it])
      [] Registers[i] \in {"msp", "psp", "control"} ->
            RefreshActiveSpMirror([c EXCEPT ![Registers[i]] = v])
      [] Registers[i] = "d0" -> [c EXCEPT !.s0 = v[1], !.s1 = v[2]]
      [] OTHER -> [c EXCEPT ![Registers[i]] = v]

Values(i) ==
    IF Registers[i] = "xpsr" THEN StatusWords
    ELSE IF Registers[i] = "d0" THEN Words \X Words
    ELSE IF Registers[i] = "control" THEN 0..3
    ELSE IF Registers[i] \in {"primask", "fpscr"} THEN {0, 1}
    ELSE Words

(* readAllRegisters and writeAllRegisters, in packet order; a packet that  *)
(* is too short has written the registers before its end.                  *)
ReadAllRegisters(c) == [i \in Index |-> ReadSingleRegister(c, i)]

WriteAllRegisters(c, text) ==
    LET after[i \in 0..Len(text)] ==
            IF i = 0 THEN c ELSE WriteSingleRegister(after[i - 1], i, text[i])
    IN  [c |-> after[Len(text)], ok |-> Len(text) = Len(Registers)]

WriteOne == \E i \in Index : \E v \in Values(i) : core' = WriteSingleRegister(core, i, v)

(* G with a file the debugger read earlier and edited in one place.        *)
WriteAll ==
    \E i \in Index : \E v \in Values(i), upto \in {i, Len(Registers)} :
        core' = WriteAllRegisters(core,
                    SubSeq([ReadAllRegisters(core) EXCEPT ![i] = v], 1, upto)).c

GdbRegistersNext == WriteOne \/ WriteAll

-----------------------------------------------------------------------------
(* A register that was written reads back (pc without its Thumb bit), the  *)
(* mirror of the stack pointer follows every change of bank, thumb and IT  *)
(* follow xPSR, and writing back what was read changes nothing.            *)
RegistersCoherent ==
    /\ core.mirror = ActiveSp(core)
    /\ core.thumb = core.xpsr.t /\ core.it_state = core.xpsr.it
    /\ WriteAllRegisters(core, ReadAllRegisters(core)) = [c |-> core, ok |-> TRUE]
    /\ \A i \in Index : \A v \in Values(i) :
          ReadSingleRegister(WriteSingleRegister(core, i, v), i)
              = IF Registers[i] = "pc" THEN Even(v) ELSE v
=============================================================================
