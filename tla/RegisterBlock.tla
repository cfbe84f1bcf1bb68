--------------------------- MODULE RegisterBlock ---------------------------
(***************************************************************************)
(* What every register-backed peripheral shares: RegisterPeripheral's      *)
(* little-endian block of 32-bit words accessed at any width, its          *)
(* interrupt levels and their one callback, and Stm32G4's wiring of those  *)
(* callbacks onto NVIC lines that several peripherals may share.  Beside   *)
(* it UnknownMmioDevice, the sparse fallback for unmapped addresses.       *)
(***************************************************************************)
EXTENDS Integers, FiniteSets, Sequences

CONSTANTS
    BlockWords,   \* words of the register block
    Patterns,     \* values written: functions from 0..7 to byte values
    AccessWidths, \* access widths in bytes
    Devices,      \* peripherals that share interrupt wiring
    IrqOfLine     \* [Devices -> sequence of NVIC lines], by level number

ASSUME BlockAssumption == BlockWords \in Nat \ {0} /\ AccessWidths \subseteq {1, 2, 4, 8}

VARIABLES
    block,      \* registers_: bytes by word and lane
    sparse,     \* bytes_ and strict_ of UnknownMmioDevice
    plain,      \* what a byte array given the same writes would hold
    irq         \* interrupt_levels_, callbacks, irq_sources_ and NVIC lines

RegisterBlockVars == <<block, sparse, plain, irq>>

Offsets == 0..(4 * BlockWords - 1)
ZeroBlock == [w \in 0..(BlockWords - 1) |-> [lane \in 0..3 |-> 0]]
Least(a, b) == IF a < b THEN a ELSE b

-----------------------------------------------------------------------------
(* The bytes of one step of the walk: up to the end of the word.           *)
CountInWord(address, left) == Least(left, 4 - (address % 4))

(* The walk of RegisterPeripheral::read and write over an access: for each *)
(* word in turn, the bytes consumed before it, its first lane and its      *)
(* byte count.  A word is visited once, so a register that is cleared by   *)
(* reading is not read again for its later lanes.                          *)
Walk(offset, width) ==
    LET steps[n \in 0..width] ==
          IF n = 0 THEN [pieces |-> <<>>, consumed |-> 0]
          ELSE LET s == steps[n - 1]
                   address == offset + s.consumed
                   count == CountInWord(address, width - s.consumed)
               IN  IF s.consumed >= width THEN s
                   ELSE [pieces |-> Append(s.pieces,
                             [word |-> address \div 4, lane |-> address % 4,
                              count |-> count, consumed |-> s.consumed]),
                         consumed |-> s.consumed + count]
    IN  steps[width].pieces

(* The merge of one stored word: the masked lanes take the written bytes.  *)
MergeWord(word, piece, value) ==
    [lane \in 0..3 |->
        IF lane \in piece.lane..(piece.lane + piece.count - 1)
        THEN value[piece.consumed + lane - piece.lane] ELSE word[lane]]

StoreBlock(regs, offset, width, value) ==
    LET pieces == Walk(offset, width)
    IN  [w \in DOMAIN regs |->
            LET mine == {i \in DOMAIN pieces : pieces[i].word = w}
            IN  IF mine = {} THEN regs[w]
                ELSE MergeWord(regs[w], pieces[CHOOSE i \in mine : TRUE], value)]

LoadBlock(regs, offset, width) ==
    LET pieces == Walk(offset, width)
    IN  [i \in 0..(width - 1) |->
            LET p == CHOOSE q \in {pieces[k] : k \in DOMAIN pieces} :
                        i \in q.consumed..(q.consumed + q.count - 1)
            IN  regs[p.word][p.lane + i - p.consumed]]

(* UnknownMmioDevice::write and read: bytes written are kept and others    *)
(* read the default; a strict device records, faults and stores nothing.   *)
StoreSparse(s, offset, width, value) ==
    IF s.strict THEN s
    ELSE LET span == offset..(offset + width - 1)
         IN  [s EXCEPT !.bytes = [a \in DOMAIN @ \cup span |->
                 IF a \in span THEN value[a - offset] ELSE @[a]]]

LoadSparse(s, offset, width) ==
    [i \in 0..(width - 1) |-> IF offset + i \in DOMAIN s.bytes THEN s.bytes[offset + i] ELSE 0]

(* One write, to both devices; accesses that do not fit the block fault.   *)
WriteAccess ==
    \E offset \in Offsets, width \in AccessWidths, value \in Patterns :
        /\ offset + width <= 4 * BlockWords
        /\ block' = StoreBlock(block, offset, width, value)
        /\ sparse' = StoreSparse(sparse, offset, width, value)
        /\ plain' = [a \in Offsets |-> IF a \in offset..(offset + width - 1)
                                       THEN value[a - offset] ELSE plain[a]]
        /\ UNCHANGED irq

(* RegisterPeripheral::reset and UnknownMmioDevice::clear *)
ClearAccesses ==
    /\ block' = ZeroBlock /\ plain' = [a \in Offsets |-> 0]
    /\ sparse' = [sparse EXCEPT !.bytes = <<>>]
    /\ UNCHANGED irq

-----------------------------------------------------------------------------
(* Interrupt wiring.  levels[d]: interrupt_levels_ of a device; wired[d]:  *)
(* whether its level callback is installed, local[d]: whether it was       *)
(* installed as device local; sources[n]: the devices that assert NVIC     *)
(* line n; line: the NVIC lines driven high.                               *)
LevelLines(d) == 1..Len(IrqOfLine[d])
NvicLines == UNION {{IrqOfLine[d][l] : l \in LevelLines(d)} : d \in Devices}

(* Seeded fault: the last source to speak decides. *)
PublishAlone(i, d, l, asserted) ==
    LET n == IrqOfLine[d][l]
    IN  [i EXCEPT !.sources[n] = IF asserted THEN @ \cup {d} ELSE @ \ {d},
                  !.line = IF asserted THEN @ \cup {n} ELSE @ \ {n}]

(* The callback of Stm32G4::wireInterrupts, for the levels "levels" of d.  *)
PublishLevel(i, d, l, asserted) ==
    LET n == IrqOfLine[d][l]
        sources == IF asserted THEN i.sources[n] \cup {d} ELSE i.sources[n] \ {d}
    IN  [i EXCEPT !.sources[n] = sources,
                  !.line = IF sources # {} THEN @ \cup {n} ELSE @ \ {n}]

(* setInterruptLevel: only a change is published.                          *)
SetInterruptLevel ==
    \E d \in Devices : \E l \in LevelLines(d), asserted \in BOOLEAN :
        /\ (l \in irq.levels[d]) # asserted
        /\ LET set == [irq EXCEPT !.levels[d] = IF asserted THEN @ \cup {l} ELSE @ \ {l}]
           IN  irq' = IF d \in irq.wired THEN PublishLevel(set, d, l, asserted) ELSE set
        /\ UNCHANGED <<block, sparse, plain>>

(* setInterruptLevelCallback publishes every level anew, and an ordinary   *)
(* callback revokes the device-local permission.                           *)
InstallCallback ==
    \E d \in Devices, deviceLocal \in BOOLEAN :
        LET publish[l \in 0..Len(IrqOfLine[d])] ==
              IF l = 0 THEN irq
              ELSE PublishLevel(publish[l - 1], d, l, l \in irq.levels[d])
        IN  /\ irq' = [publish[Len(IrqOfLine[d])] EXCEPT
                          !.wired = @ \cup {d},
                          !.local = IF deviceLocal THEN @ \cup {d} ELSE @ \ {d}]
            /\ UNCHANGED <<block, sparse, plain>>

(* Stm32G4::reset: shared sources are dropped together (clearInterruptLines) *)
(* before the devices reset and deassert their own levels.                 *)
ResetDevice ==
    /\ irq' = [irq EXCEPT !.levels = [d \in Devices |-> {}],
                          !.sources = [n \in NvicLines |-> {}], !.line = {}]
    /\ UNCHANGED <<block, sparse, plain>>

RegisterBlockInit ==
    /\ block = ZeroBlock /\ plain = [a \in Offsets |-> 0]
    /\ sparse \in {[bytes |-> <<>>, strict |-> b] : b \in BOOLEAN}
    /\ irq = [levels |-> [d \in Devices |-> {}], wired |-> {}, local |-> {},
              sources |-> [n \in NvicLines |-> {}], line |-> {}]

AccessNext == WriteAccess \/ ClearAccesses
WiringNext == SetInterruptLevel \/ InstallCallback \/ ResetDevice

-----------------------------------------------------------------------------
(* Whatever mix of widths and alignments wrote it, an access of any width  *)
(* reads the bytes a plain byte array would hold, from the register block  *)
(* and from the sparse fallback alike; a strict fallback holds nothing.    *)
LanesExact ==
    \A offset \in Offsets, width \in AccessWidths :
        offset + width <= 4 * BlockWords =>
            LET expected == [i \in 0..(width - 1) |-> plain[offset + i]]
            IN  /\ LoadBlock(block, offset, width) = expected
                /\ ~sparse.strict => LoadSparse(sparse, offset, width) = expected
                /\ sparse.strict => sparse.bytes = <<>>

(* A NVIC line that peripherals share is high exactly while one of the     *)
(* wired ones asserts it, across reinstalled callbacks and resets.         *)
SharedLinesExact ==
    \A n \in NvicLines : n \in irq.line <=>
        \E d \in irq.wired : \E l \in irq.levels[d] : IrqOfLine[d][l] = n
=============================================================================
