-------------------------------- MODULE Dma --------------------------------
(***************************************************************************)
(* DmaPeripheral and DmamuxPeripheral: channels that move one item per     *)
(* request, their flags and interrupt levels, and the direct path that     *)
(* compiled code uses to clear flags instead of a write of IFCR.  The      *)
(* operators take and return the controller's state, because the serial    *)
(* devices drive it from inside their own register accesses (SerialDma).   *)
(***************************************************************************)
EXTENDS Integers, Sequences, FiniteSets

CONSTANTS
    Channels,        \* 1..channel_count_
    AddressSpan,     \* 2^32: addresses are computed modulo this
    CountSpan,       \* 2^16: values of CNDTR
    Readable,        \* addresses the bus can read
    Writable,        \* addresses the bus can write
    Controls,        \* CCR images firmware writes
    Counts,          \* CNDTR values firmware writes
    Bases,           \* CPAR and CMAR values firmware writes
    MaxMoves         \* bound on the items a channel's history keeps

ASSUME DmaAssumption ==
    /\ AddressSpan \in Nat \ {0} /\ Counts \subseteq 0..(CountSpan - 1)
    /\ Readable \cup Writable \cup Bases \subseteq 0..(AddressSpan - 1)

VARIABLES
    dma,        \* the controller
    dmaMoves    \* per channel: the memory addresses of the items it moved since
                \* it was enabled, and whether its registers are still the same

DmaVars == <<dma, dmaMoves>>

(* A CCR image: EN, the enabled interrupts, DIR (memory to peripheral),    *)
(* CIRC, PINC, MINC, the widths and MEM2MEM.                               *)
Ccr == [en : BOOLEAN, ie : SUBSET {"tc", "ht", "te"}, m2p : BOOLEAN, circ : BOOLEAN,
        pinc : BOOLEAN, minc : BOOLEAN, psize : {1, 2, 4}, msize : {1, 2, 4},
        m2m : BOOLEAN]

ResetCcr == [en |-> FALSE, ie |-> {}, m2p |-> FALSE, circ |-> FALSE, pinc |-> FALSE,
             minc |-> FALSE, psize |-> 1, msize |-> 1, m2m |-> FALSE]

ChannelState == {"disabled", "armed", "active", "completed", "failed"}

(* One channel: its registers, its nibble of ISR (GIF apart), the count    *)
(* latched when it was enabled, its lifecycle and its interrupt level.     *)
Channel == [ccr : Ccr, cndtr : 0..(CountSpan - 1), cpar : Nat, cmar : Nat,
            flags : SUBSET {"tc", "ht", "te"}, gif : BOOLEAN,
            reload : 0..(CountSpan - 1), state : ChannelState, level : BOOLEAN]

ResetChannel == [ccr |-> ResetCcr, cndtr |-> 0, cpar |-> 0, cmar |-> 0,
                 flags |-> {}, gif |-> FALSE, reload |-> 0,
                 state |-> "disabled", level |-> FALSE]

NoMoves == [whole |-> FALSE, at |-> <<>>]

DmaInit ==
    /\ dma = [c \in Channels |-> ResetChannel]
    /\ dmaMoves = [c \in Channels |-> NoMoves]

-----------------------------------------------------------------------------
(* updateInterruptLevels, refreshStoppedChannelStates, setChannelFlag *)
LevelOf(ch) == ch.flags \cap ch.ccr.ie # {}
UpdateDmaLevels(d) == [c \in Channels |-> [d[c] EXCEPT !.level = LevelOf(d[c])]]

StoppedState(ch) ==
    CASE ch.state = "completed" /\ "tc" \notin ch.flags -> "disabled"
      [] ch.state = "failed" /\ "te" \notin ch.flags -> "disabled"
      [] OTHER -> ch.state
RefreshStopped(d) == [c \in Channels |-> [d[c] EXCEPT !.state = StoppedState(d[c])]]

SetChannelFlag(ch, flag) ==
    LET set == [ch EXCEPT !.flags = @ \cup {flag}, !.gif = TRUE]
    IN  [set EXCEPT !.level = LevelOf(set)]

(* Where the next item of a channel comes from and goes to: the offset is  *)
(* what the latched count says was transferred, in unsigned arithmetic.    *)
Transferred(ch) == (ch.reload - ch.cndtr) % AddressSpan
PeripheralAddress(ch) ==
    (ch.cpar + IF ch.ccr.pinc THEN Transferred(ch) * ch.ccr.psize ELSE 0) % AddressSpan
MemoryAddress(ch) ==
    (ch.cmar + IF ch.ccr.minc THEN Transferred(ch) * ch.ccr.msize ELSE 0) % AddressSpan
SourceOf(ch) == IF ch.ccr.m2p THEN MemoryAddress(ch) ELSE PeripheralAddress(ch)
DestinationOf(ch) == IF ch.ccr.m2p THEN PeripheralAddress(ch) ELSE MemoryAddress(ch)

(* request: the channel takes requests; runChannelRequest may still return *)
(* without moving anything when the latched count is zero.                 *)
Accepts(ch) == ch.ccr.en /\ ch.cndtr # 0
Moves(ch) == Accepts(ch) /\ ch.reload # 0

(* The rest of runChannelRequest, once the bus has answered.               *)
AfterItem(ch, success) ==
    LET left == ch.cndtr - 1
    IN  IF ~success
        THEN [SetChannelFlag(ch, "te") EXCEPT !.ccr.en = FALSE, !.state = "failed"]
        ELSE IF left = 0
        THEN [SetChannelFlag(ch, "tc") EXCEPT
                 !.cndtr = IF ch.ccr.circ THEN ch.reload ELSE 0,
                 !.ccr.en = ch.ccr.circ,
                 !.state = IF ch.ccr.circ THEN "armed" ELSE "completed"]
        ELSE [ch EXCEPT !.cndtr = left, !.state = "active"]

BusAnswers(ch) == SourceOf(ch) \in Readable /\ DestinationOf(ch) \in Writable

-----------------------------------------------------------------------------
Moved(m, address) ==
    IF m.whole /\ Len(m.at) < MaxMoves THEN [m EXCEPT !.at = Append(@, address)] ELSE NoMoves

(* One request on plain memory, with the items moved so far.               *)
RunRequest(s, c) ==
    LET ch == s.d[c]
    IN  IF ~Moves(ch) THEN s
        ELSE [d |-> [s.d EXCEPT ![c] = AfterItem(ch, BusAnswers(ch))],
              moves |-> IF BusAnswers(ch)
                        THEN [s.moves EXCEPT ![c] = Moved(@, MemoryAddress(ch))]
                        ELSE s.moves]

(* storeRegister of a CCR.  A memory-to-memory channel moves its whole     *)
(* count before the write returns.                                         *)
Enable(s, c) ==
    LET armed == [s.d[c] EXCEPT !.reload = s.d[c].cndtr, !.state = "armed"]
        start == [d |-> [s.d EXCEPT ![c] = armed],
                  moves |-> [s.moves EXCEPT ![c] = [whole |-> TRUE, at |-> <<>>]]]
        burst[n \in 0..(CountSpan - 1)] ==
          IF n = 0 THEN start
          ELSE IF ~Accepts(burst[n - 1].d[c]) THEN burst[n - 1] ELSE RunRequest(burst[n - 1], c)
    IN  IF armed.ccr.m2m THEN burst[armed.reload] ELSE start

StoreCcr(s, c, value) ==
    LET was == s.d[c].ccr.en
        written == [s EXCEPT !.d[c].ccr = value, !.moves[c] = NoMoves]
        applied == CASE ~was /\ value.en -> Enable(written, c)
                     [] was /\ ~value.en -> [written EXCEPT !.d[c].state = "disabled"]
                     [] OTHER -> written
    IN  [applied EXCEPT !.d = UpdateDmaLevels(@)]

(* A write of IFCR: "clear" gives per channel the flags written as ones,   *)
(* "all" the channels whose CGIF bit is.                                   *)
ClearFlags(ch, clear, all) ==
    LET flags == IF all THEN {} ELSE ch.flags \ clear
    IN  [ch EXCEPT !.flags = flags, !.gif = @ /\ ~all /\ flags # {}]

StoreIfcr(d, clear, all) ==
    RefreshStopped(UpdateDmaLevels(
        [c \in Channels |-> ClearFlags(d[c], clear[c], c \in all)]))

(* directClearFlags: nibble arithmetic over the whole register.  It        *)
(* declines when a level would rise, or when one would fall through wiring *)
(* that is not device local.                                               *)
DirectStatus(ch, clear, all) ==
    LET cleared == IF all THEN {"tc", "ht", "te"} ELSE clear
        flags == ch.flags \ cleared
    IN  [ch EXCEPT !.flags = flags, !.gif = @ /\ ~all /\ flags # {}]

(* Seeded fault: the direct path leaves the channel states alone.          *)
DirectClearWithoutRefresh(d, clear, all, deviceLocal) ==
    LET next == [c \in Channels |-> DirectStatus(d[c], clear[c], c \in all)]
        levels == {c \in Channels : LevelOf(next[c])}
        previous == {c \in Channels : d[c].level}
    IN  IF ~(levels \subseteq previous) \/ (levels # previous /\ ~deviceLocal)
        THEN [done |-> FALSE, d |-> d]
        ELSE [done |-> TRUE,
              d |-> [c \in Channels |-> [next[c] EXCEPT !.level = c \in levels]]]

DirectClear(d, clear, all, deviceLocal) ==
    LET next == [c \in Channels |-> DirectStatus(d[c], clear[c], c \in all)]
        levels == {c \in Channels : LevelOf(next[c])}
        previous == {c \in Channels : d[c].level}
    IN  IF ~(levels \subseteq previous) \/ (levels # previous /\ ~deviceLocal)
        THEN [done |-> FALSE, d |-> d]
        ELSE [done |-> TRUE,
              d |-> RefreshStopped(
                 [c \in Channels |-> [next[c] EXCEPT !.level = c \in levels]])]

(* ownerLocalAdcTransferSafe: the next item is certain to land in RAM.     *)
(* Halfword peripheral-to-memory items with a fixed source only.           *)
TransferSafe(ch, source) ==
    /\ ch.ccr.en /\ ch.cndtr # 0 /\ ch.reload # 0 /\ ch.cndtr <= ch.reload
    /\ ~ch.ccr.m2p /\ ch.ccr.psize = 2 /\ ch.ccr.msize = 2 /\ ~ch.ccr.pinc
    /\ ch.cpar = source
    /\ LET next == ch.cmar + IF ch.ccr.minc THEN (ch.reload - ch.cndtr) * 2 ELSE 0
       IN  next < AddressSpan /\ next \in Writable

-----------------------------------------------------------------------------
(* Values written to IFCR: flags of one channel, and any CGIF bits.        *)
ClearWrites == {[c \in Channels |-> IF c = k THEN flags ELSE {}] :
                   k \in Channels, flags \in SUBSET {"tc", "te"}}

DmaRequest == \E c \in Channels :
    LET s == RunRequest([d |-> dma, moves |-> dmaMoves], c)
    IN  Accepts(dma[c]) /\ dma' = s.d /\ dmaMoves' = s.moves

WriteCcr == \E c \in Channels, value \in Controls :
    LET s == StoreCcr([d |-> dma, moves |-> dmaMoves], c, value)
    IN  dma' = s.d /\ dmaMoves' = s.moves

(* CNDTR, CPAR and CMAR are plain storage, also while EN is set.           *)
WriteCndtr == \E c \in Channels, n \in Counts :
    dma' = [dma EXCEPT ![c].cndtr = n] /\ dmaMoves' = [dmaMoves EXCEPT ![c] = NoMoves]
WriteCpar == \E c \in Channels, a \in Bases :
    dma' = [dma EXCEPT ![c].cpar = a] /\ dmaMoves' = [dmaMoves EXCEPT ![c] = NoMoves]
WriteCmar == \E c \in Channels, a \in Bases :
    dma' = [dma EXCEPT ![c].cmar = a] /\ dmaMoves' = [dmaMoves EXCEPT ![c] = NoMoves]

WriteIfcr == \E clear \in ClearWrites, all \in SUBSET Channels :
    dma' = StoreIfcr(dma, clear, all) /\ UNCHANGED dmaMoves

DirectWriteIfcr == \E clear \in ClearWrites, all \in SUBSET Channels :
    LET r == DirectClear(dma, clear, all, TRUE)
    IN  r.done /\ dma' = r.d /\ UNCHANGED dmaMoves

(* reset: every register and level; the latched counts are left alone.     *)
ResetDma ==
    /\ dma' = [c \in Channels |-> [ResetChannel EXCEPT !.reload = dma[c].reload]]
    /\ dmaMoves' = [c \in Channels |-> NoMoves]

DmaNext ==
    \/ DmaRequest \/ WriteCcr \/ WriteCndtr \/ WriteCpar \/ WriteCmar
    \/ WriteIfcr \/ DirectWriteIfcr \/ ResetDma

DmaSpec == DmaInit /\ [][DmaNext]_DmaVars

-----------------------------------------------------------------------------
DmaTypeOK == dma \in [Channels -> Channel]

(* The lifecycle agrees with EN and the flags that ended it, GIF           *)
(* summarises the other flags, and the level of a channel is what its      *)
(* flags and enables say, after any mix of requests and register writes.   *)
ChannelsSound ==
    \A c \in Channels : LET ch == dma[c] IN
        /\ ch.ccr.en <=> ch.state \in {"armed", "active"}
        /\ ch.state = "completed" => "tc" \in ch.flags
        /\ ch.state = "failed" => "te" \in ch.flags
        /\ ch.gif <=> ch.flags # {}
        /\ ch.level <=> LevelOf(ch)

(* Clearing flags on the direct path is indistinguishable from the write   *)
(* of IFCR it replaces, for every value written; when it declines, the     *)
(* state is untouched.                                                     *)
DirectClearExact ==
    \A clear \in ClearWrites, all \in SUBSET Channels, deviceLocal \in BOOLEAN :
        LET r == DirectClear(dma, clear, all, deviceLocal)
        IN  r.d = IF r.done THEN StoreIfcr(dma, clear, all) ELSE dma

(* A block is moved item by item without a gap or a repetition: while its  *)
(* registers stay as they were when the channel was enabled, item k uses   *)
(* the address the width and increment give it, starting over with the     *)
(* latched count, and a channel that completed moved exactly that count.   *)
BlockExact ==
    \A c \in Channels : LET ch == dma[c]
                            at == dmaMoves[c].at IN
        dmaMoves[c].whole =>
            /\ \A k \in DOMAIN at :
                  at[k] = (ch.cmar + IF ch.ccr.minc THEN ((k - 1) % ch.reload) * ch.ccr.msize
                                     ELSE 0) % AddressSpan
            /\ ch.state = "completed" => Len(at) = ch.reload

(* The certificate that lets a conversion run on its owner's lane is       *)
(* sound: the item it speaks of is accepted, is moved without a fault and  *)
(* lands in writable memory, even when CNDTR was raised above the latched  *)
(* count while the channel ran.                                            *)
CertificateSound ==
    \A c \in Channels, source \in Readable :
        TransferSafe(dma[c], source) =>
            Moves(dma[c]) /\ BusAnswers(dma[c]) /\ SourceOf(dma[c]) = source

(* DMA channels in one statement each: what they are, what they do.        *)
DmaSound == ChannelsSound /\ CertificateSound
DmaExact == DirectClearExact /\ BlockExact
=============================================================================
