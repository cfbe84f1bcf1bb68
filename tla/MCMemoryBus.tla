---------------------------- MODULE MCMemoryBus ----------------------------
(***************************************************************************)
(* A board's memory and the block engines that run from it, checked in one *)
(* run; a behaviour exercises one of them.                                 *)
(*                                                                         *)
(* The bus: a boot alias at 0, two bytes of RAM in two footprint words (so *)
(* that an unaligned access spans both), one byte of executable flash      *)
(* behind the alias, and one device register.                              *)
(***************************************************************************)
EXTENDS MemoryBus, MCJit

VARIABLE part

Area(kind, base, size, writable, executable, target) ==
    [kind |-> kind, base |-> base, size |-> size, writable |-> writable,
     executable |-> executable, target |-> target]

MCRegions == {Area("alias", 0, 1, TRUE, TRUE, 3),
              Area("ram", 1, 2, TRUE, FALSE, 0),
              Area("flash", 3, 1, TRUE, TRUE, 0),
              Area("mmio", 4, 1, TRUE, FALSE, 0)}

(* The two bits of each word's hash; neighbours share one. *)
MCFootprintBits == [w \in 0 .. 2 |-> {w, w + 1}]

MemoryInit ==
    /\ part \in {"bus", "jit"}
    /\ Init
    /\ IF part = "jit" THEN CallsInit
       ELSE core = 0 /\ jit = 0 /\ span = NothingSpanned /\ calls = 0

MemoryNext ==
    /\ \/ part = "bus" /\ Next /\ UNCHANGED CallsVars
       \/ part = "jit" /\ CallsNext /\ UNCHANGED vars
    /\ UNCHANGED part

MemorySpec == MemoryInit /\ [][MemoryNext]_<<vars, CallsVars, part>>
=============================================================================
