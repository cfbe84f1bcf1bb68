------------------------------- MODULE MCJit -------------------------------
(***************************************************************************)
(* Programs for the block engines: loops with loads, stores, branches and  *)
(* a pointer that moves between RAM, a device and the code itself; an IT   *)
(* block, a division and a generic instruction; and a return whose target  *)
(* is in memory.                                                           *)
(***************************************************************************)
EXTENDS JitBlocks

CONSTANT JitBudget   \* bound on the calls of a behaviour

VARIABLE calls

Op(op, c) == [op |-> op, c |-> c, pen |-> 0, to |-> 0]
Branch(op, c, pen, to) == [op |-> op, c |-> c, pen |-> pen, to |-> to]

MCCodes ==
    <<<<Op("load", 2), Op("alu", 1), Op("store", 2), Branch("bc", 2, 2, 1), Op("ptr", 1),
        Branch("b", 1, 2, 1)>>,
      <<Op("alu", 1), Branch("bc", 2, 2, 4), Op("store", 1), Op("alu", 1), Op("ptr", 1),
        Branch("b", 1, 2, 1)>>,
      <<Op("it", 1), Op("alu", 1), Op("div", 2), Op("generic", 1), Branch("bc", 2, 2, 1),
        Branch("b", 1, 2, 3)>>,
      <<Op("alu", 1), Op("store", 2), Branch("ret", 2, 2, 5), Op("generic", 1), Branch("b", 1, 2, 6),
        Branch("b", 1, 2, 1)>>>>

MCLimits == {[credit |-> 1, most |-> 4], [credit |-> 5, most |-> 4],
             [credit |-> 9, most |-> 2], [credit |-> 9, most |-> 4]}

CallsVars == <<JitVars, calls>>

CallsInit == JitInit /\ calls = JitBudget
CallsNext == calls > 0 /\ calls' = calls - 1 /\ JitNext
CallsSpec == CallsInit /\ [][CallsNext]_CallsVars
=============================================================================
