----------------------------- MODULE MemoryBus -----------------------------
(***************************************************************************)
(* The memory bus of one board (src/mem/memory_bus.cpp): the address map,  *)
(* loads and stores through it, the journal that makes backed-memory       *)
(* writes reversible, the footprints of the bytes a span of instructions   *)
(* touched, and the generations by which caches notice that what they hold *)
(* is stale.                                                               *)
(*                                                                         *)
(* The bus is one record and every operation an operator on it.  The       *)
(* actions are the bus with its clients: the CPU, agents without an        *)
(* instruction (the debugger, DMA, the loader), a reversible capsule of    *)
(* the board with the certificate it may build, and one reader that holds  *)
(* a checkpoint of the past.  The memory a checkpoint was taken in is      *)
(* history.                                                                *)
(*                                                                         *)
(* Left out: what only dead code reads (the side-effect generation, the    *)
(* origin of a mutation, the shared-MMIO trap), and the debugger's         *)
(* watchpoint log.                                                         *)
(***************************************************************************)
EXTENDS Integers, Sequences, FiniteSets

CONSTANTS Regions,       \* the mapped regions
          Top,           \* the last address
          Values,        \* byte values, 0 and the erased value among them
          Erased,        \* the erased value (0xff)
          Widths,        \* access widths in bytes
          WordBytes,     \* bytes of a footprint word
          FootprintBits, \* word number -> its two bits of the footprint
          Capacity,      \* journal slots (mutation_journal_capacity)
          MaxCapsule,    \* mutations of one reversible capsule
          MaxSequence,   \* bound on the mutations
          MaxGenerations \* bound on the generation changes, of all kinds

Address == 0 .. Top
RegionKind == {"ram", "rom", "flash", "alias", "mmio"}
NoRegion == [kind |-> "none"]

Contains(r, a) == a >= r.base /\ a < r.base + r.size
ContainsRange(r, a, width) == a >= r.base /\ a + width <= r.base + r.size

(* Regions are non-empty, do not wrap and never overlap. *)
AddsWithoutOverlap(map) ==
    /\ \A r \in map : r.size > 0 /\ r.base + r.size - 1 <= Top
    /\ \A r, s \in map, a \in Address : Contains(r, a) /\ Contains(s, a) => r = s

(* An alias translates into one mapped region and inherits its rights. *)
AliasesContained(map) ==
    \A r \in map : r.kind = "alias" =>
        \E t \in map : /\ ContainsRange(t, r.target, r.size)
                       /\ r.writable = t.writable
                       /\ r.executable = t.executable

Find(a) == IF \E r \in Regions : Contains(r, a)
           THEN CHOOSE r \in Regions : Contains(r, a) ELSE NoRegion

DirectlyBacked(r) == r.kind \in {"ram", "rom", "flash"}
Backed == {a \in Address : DirectlyBacked(Find(a))}
ExecutableBytes == {a \in Backed : Find(a).executable}

ASSUME MapAssumption ==
    /\ Top \in Nat /\ Widths \subseteq Nat \ {0} /\ IsFiniteSet(Regions)
    /\ \A r \in Regions :
          /\ r.kind \in RegionKind /\ r.base \in Nat /\ r.size \in Nat
          /\ r.writable \in BOOLEAN /\ r.executable \in BOOLEAN
          /\ r.kind = "alias" => r.target \in Nat
    /\ AddsWithoutOverlap(Regions)
    /\ AliasesContained(Regions)

(* The boot alias covers address 0 of every board, so an empty journal     *)
(* slot names an address that is not directly backed.                      *)
BootAliasMapped == Find(0).kind = "alias"

ASSUME BootAlias == BootAliasMapped

ASSUME JournalAssumption ==
    /\ Capacity \in Nat \ {0}
    /\ MaxCapsule \in 1 .. Capacity
    /\ MaxSequence \in Nat /\ MaxGenerations \in Nat /\ WordBytes \in Nat \ {0}
    /\ {0, Erased} \subseteq Values

-----------------------------------------------------------------------------
(* Routing an access to the region that serves it. *)

MaximumAliasDepth == 8

Fault(reason) == [fault |-> reason, region |-> NoRegion, address |-> 0]

(* The address an access goes to next: an alias that serves it translates. *)
Hop(a, width) ==
    LET r == Find(a)
    IN  IF r # NoRegion /\ ContainsRange(r, a, width) /\ r.kind = "alias"
        THEN r.target + (a - r.base) ELSE a

(* The address after each level of the recursion of read and write. *)
Hops(start, width) ==
    LET at[n \in 0 .. MaximumAliasDepth] ==
            IF n = 0 THEN start ELSE Hop(at[n - 1], width)
    IN  at

Route(start, width) ==
    LET a == Hops(start, width)[MaximumAliasDepth]
        r == Find(a)
    IN  IF a + width - 1 > Top THEN Fault("address_overflow")
        ELSE IF r = NoRegion THEN Fault("unmapped")
        ELSE IF ~ContainsRange(r, a, width) THEN Fault("cross_region")
        ELSE IF r.kind = "alias" THEN Fault("alias_cycle")
        ELSE [fault |-> "none", region |-> r, address |-> a]

(* Every access, with where it goes: the map never changes. *)
Accesses == {[start |-> x[1], width |-> x[2], to |-> Route(x[1], x[2])] :
                x \in Address \X Widths}

-----------------------------------------------------------------------------
(* The bus *)

(* A journal slot; which mutation it belongs to is implicit. *)
EmptySlot == [address |-> 0, old |-> 0]
Slot(number) == (number - 1) % Capacity

EmptyFootprint == [bits |-> {}, complete |-> TRUE]

(* A freshly mapped bus: RAM is zero, ROM and flash are erased. *)
MappedBus ==
    [bytes |-> [a \in Backed |-> IF Find(a).kind = "ram" THEN 0 ELSE Erased],
     sequence |-> 0,
     journal |-> [s \in 0 .. Capacity - 1 |-> EmptySlot],
     execution |-> 1 + Cardinality(Regions), \* execution_generation_
     mmio |-> 1,                             \* mmio_generation_
     tracking |-> 1,                         \* journal_generation_
     restoration |-> 0,                      \* restoration_generation_
     journaling |-> TRUE,                    \* write_journal_tracking_
     reading |-> TRUE,                       \* read_footprint_tracking_
     storing |-> FALSE,                      \* store_footprint_tracking_
     footprint |-> EmptyFootprint,           \* read_footprint_
     trapAll |-> FALSE, ramOnly |-> FALSE]

(* Seeded fault: an access marks the word of its first byte. *)
FirstWord(a, width) == {a \div WordBytes}

Words(a, width) == {x \div WordBytes : x \in a .. a + width - 1}
BitsOf(words) == UNION {FootprintBits[w] : w \in words}

AddFootprint(b, a, width) ==
    [b EXCEPT !.footprint.bits = @ \cup BitsOf(Words(a, width))]

FootprintContains(footprint, a) ==
    FootprintBits[a \div WordBytes] \subseteq footprint.bits

(* Seeded fault: an interval without tracking counts as complete. *)
TrackingForgotten(b, enabled) ==
    IF b.reading = enabled THEN b
    ELSE [b EXCEPT !.reading = enabled, !.footprint = EmptyFootprint]

SetReadFootprintTracking(b, enabled) ==
    IF b.reading = enabled THEN b
    ELSE [b EXCEPT !.reading = enabled,
                   !.footprint = [bits |-> {}, complete |-> enabled]]

(* Seeded fault: the journal keeps its generation across untracked stores. *)
JournalResumed(b, enabled) == [b EXCEPT !.journaling = enabled]

SetWriteJournalTracking(b, enabled) ==
    IF b.journaling = enabled THEN b
    ELSE [b EXCEPT !.journaling = enabled, !.tracking = @ + 1]

(* The bus after the footprint was taken. *)
TakenFootprint(b) ==
    [b EXCEPT !.footprint = [bits |-> {}, complete |-> b.reading]]

RestoreReadFootprint(b, footprint) ==
    [b EXCEPT !.footprint =
        IF b.reading THEN footprint ELSE [bits |-> {}, complete |-> FALSE]]

RecordMutation(b, a) ==
    [b EXCEPT !.sequence = @ + 1,
              !.journal = IF b.journaling
                          THEN [@ EXCEPT ![b.sequence % Capacity] =
                                   [address |-> a, old |-> b.bytes[a]]]
                          ELSE @]

(* Only a byte that changes is journalled. *)
StoreByte(b, a, value) ==
    IF b.bytes[a] = value THEN b
    ELSE [RecordMutation(b, a) EXCEPT !.bytes[a] = value]

StoreBytes(b, a, data) ==
    LET stored[n \in 0 .. Len(data)] ==
            IF n = 0 THEN b ELSE StoreByte(stored[n - 1], a + n - 1, data[n])
    IN  stored[Len(data)]

(* Seeded fault: the generation follows the journalled stores only. *)
NewCodeJournalled(b, r) ==
    IF r.executable /\ b.journaling THEN [b EXCEPT !.execution = @ + 1] ELSE b

NewCode(b, r) == IF r.executable THEN [b EXCEPT !.execution = @ + 1] ELSE b

Refused(b, reason) == [fault |-> reason, bus |-> b]
Done(b) == [fault |-> "none", bus |-> b]
Dispatched(b) == Done([b EXCEPT !.mmio = @ + 1])

(* One store, routed.  The fast paths for backed regions decide and store alike. *)
Write(b, to, data) ==
    LET r == to.region
    IN  IF to.fault # "none" THEN Refused(b, to.fault)
        ELSE IF ~r.writable THEN Refused(b, "write_protected")
        ELSE IF b.ramOnly /\ (r.kind # "ram" \/ r.executable)
             THEN Refused(b, "synchronization_required")
        ELSE IF r.kind = "mmio"
             THEN IF b.trapAll THEN Refused(b, "synchronization_required")
                  ELSE Dispatched(b)
        ELSE LET noted == IF b.storing
                          THEN AddFootprint(b, to.address, Len(data)) ELSE b
             IN  Done(NewCode(StoreBytes(noted, to.address, data), r))

(* One data load of an instruction, routed. *)
Read(b, to, width) ==
    LET r == to.region
    IN  IF to.fault # "none" THEN Refused(b, to.fault)
        ELSE IF r.kind = "mmio"
             THEN IF b.trapAll THEN Refused(b, "synchronization_required")
                  ELSE Dispatched(b)
        ELSE Done(IF b.reading
                  THEN AddFootprint(b, to.address, width) ELSE b)

(* The loader writes ROM too, but neither devices nor aliases. *)
LoadBytes(b, a, data) ==
    LET r == Find(a)
    IN  IF r = NoRegion \/ ~ContainsRange(r, a, Len(data)) \/ ~DirectlyBacked(r)
        THEN Refused(b, "invalid_argument")
        ELSE Done(NewCode(StoreBytes(b, a, data), r))

-----------------------------------------------------------------------------
(* Checkpoints *)

SideEffectCheckpoint(b) ==
    [sequence |-> b.sequence, mmio |-> b.mmio, tracking |-> b.tracking]

Window(b, at) == at.sequence + 1 .. b.sequence
Entry(b, number) == b.journal[Slot(number)]

WindowLive(b, at) ==
    /\ b.journaling
    /\ at.sequence <= b.sequence
    /\ b.sequence - at.sequence <= Capacity

FirstForAddress(b, at, number) ==
    \A prior \in Window(b, at) :
        prior < number => Entry(b, prior).address # Entry(b, number).address

Unchanged(b, e) == e.address \in Backed /\ b.bytes[e.address] = e.old

(* No MMIO occurred and every changed byte has its value again. *)
SideEffectsRestoredSince(b, at) ==
    /\ at.mmio = b.mmio /\ at.tracking = b.tracking
    /\ \/ at.sequence = b.sequence
       \/ /\ WindowLive(b, at)
          /\ \A n \in Window(b, at) :
                FirstForAddress(b, at, n) => Unchanged(b, Entry(b, n))

(* Every byte the footprint may cover has the value it had. *)
RamInputsCompatibleSince(b, at, footprint) ==
    /\ at.tracking = b.tracking
    /\ footprint.complete /\ b.reading /\ WindowLive(b, at)
    /\ \A n \in Window(b, at) :
          LET e == Entry(b, n)
          IN  /\ e.address \in Backed
              /\ FootprintContains(footprint, e.address)
                    /\ FirstForAddress(b, at, n) => b.bytes[e.address] = e.old

CanRestoreSideEffects(b, at) ==
    /\ at.mmio = b.mmio /\ at.tracking = b.tracking
    /\ at.sequence <= b.sequence
    /\ at.sequence = b.sequence \/ WindowLive(b, at)

(* Seeded fault: the slot is emptied before its old value is used. *)
UndoEmptied(b, number) ==
    [b EXCEPT !.bytes[Entry(b, number).address] = EmptySlot.old,
              !.journal[Slot(number)] = EmptySlot]

(* Undoes one mutation, newest first, and empties its slot. *)
UndoMutation(b, number) ==
    LET e == Entry(b, number)
    IN  [b EXCEPT !.bytes[e.address] = e.old,
                  !.journal[Slot(number)] = EmptySlot]

(* The mutations after number low are undone. *)
UndoneTo(b, low) ==
    LET back[k \in 0 .. b.sequence - low] ==
            IF k = 0 THEN b ELSE UndoMutation(back[k - 1], b.sequence - k + 1)
    IN  back[b.sequence - low]

(* The walk stops at a slot that names no backed byte and then leaves what *)
(* it has undone.                                                          *)
RestoreSideEffects(b, at) ==
    LET bad == {n \in Window(b, at) : Entry(b, n).address \notin Backed}
        low == CHOOSE n \in {at.sequence} \cup bad :
                  \A m \in {at.sequence} \cup bad : m <= n
        undone == UndoneTo(b, low)
        code == \E n \in Window(b, at) : Entry(b, n).address \in ExecutableBytes
    IN  IF ~CanRestoreSideEffects(b, at) THEN [ok |-> FALSE, bus |-> b]
        ELSE IF bad # {} THEN [ok |-> FALSE, bus |-> undone]
        ELSE [ok |-> TRUE,
              bus |-> [undone EXCEPT
                          !.sequence = at.sequence,
                          !.execution = IF code THEN @ + 1 ELSE @,
                          !.restoration = @ + 1]]

-----------------------------------------------------------------------------
(* The clients *)

VARIABLES bus,     \* the memory bus
          capsule, \* the reversible capsule the board evaluates
          held     \* the checkpoint a reader keeps

vars == <<bus, capsule, held>>

None == [client |-> "none"]
Idle == capsule = None
Certifying == ~Idle /\ capsule.building

Init == bus = MappedBus /\ capsule = None /\ held = None

Generations(b) == b.mmio + b.tracking + b.restoration + b.execution

(* The counters of the bus are bounded. *)
Becomes(b) ==
    /\ b.sequence <= MaxSequence
    /\ Generations(b) - Generations(MappedBus) <= MaxGenerations
    /\ bus' = b

(* The other accesses fault and change nothing. *)
Routed == {x \in Accesses : x.to.fault = "none"}

(* What an access that was served touched. *)
Touch(result, x) ==
    LET bytes == {a \in x.to.address .. x.to.address + x.width - 1 : a \in Backed}
    IN  capsule' = IF Certifying /\ result.fault = "none"
                   THEN [capsule EXCEPT !.touched = @ \cup bytes] ELSE capsule

(* A capsule stays within its share of the journal. *)
WithinCapsule(width) ==
    ~Idle => bus.sequence + width - capsule.at.sequence <= MaxCapsule

(* A store of an instruction.  Outside a capsule it stands for stores of   *)
(* the debugger and of DMA too: they differ in leaving no footprint, and   *)
(* no footprint of stores is kept there.                                   *)
CpuWrite ==
    \E x \in Routed : \E data \in [1 .. x.width -> Values] :
        /\ WithinCapsule(x.width)
        /\ LET done == Write(bus, x.to, data)
           IN  Becomes(done.bus) /\ Touch(done, x)
        /\ UNCHANGED held

(* A load from memory only adds to the footprint, and only a certificate   *)
(* reads the footprint: other loads from memory are left out.              *)
CpuRead ==
    \E x \in Routed :
        /\ Certifying \/ Find(x.start).kind = "mmio"
        /\ LET done == Read(bus, x.to, x.width)
           IN  Becomes(done.bus) /\ Touch(done, x)
        /\ UNCHANGED held

(* Events, and so the loader, wait for the capsule to be settled. *)
Load ==
    /\ Idle
    /\ \E x \in Routed : \E data \in [1 .. x.width -> Values] :
          Becomes(LoadBytes(bus, x.start, data).bus)
    /\ UNCHANGED <<capsule, held>>

(* A scheduler that needs neither proofs nor capsules runs untracked. *)
EnterUntracked ==
    /\ Idle /\ bus.journaling
    /\ Becomes(SetWriteJournalTracking(SetReadFootprintTracking(bus, FALSE), FALSE))
    /\ UNCHANGED <<capsule, held>>

LeaveUntracked ==
    /\ Idle /\ ~bus.journaling
    /\ Becomes(SetReadFootprintTracking(SetWriteJournalTracking(bus, TRUE), TRUE))
    /\ UNCHANGED <<capsule, held>>

-----------------------------------------------------------------------------
(* Capsules *)

Guarded(b, on) == [b EXCEPT !.trapAll = on, !.ramOnly = on]

BeginCapsule ==
    /\ Idle /\ bus.journaling
    /\ capsule' = [client |-> "capsule", at |-> SideEffectCheckpoint(bus),
                   entry |-> bus.footprint, was |-> bus.bytes,
                   building |-> FALSE]
    /\ bus' = Guarded(bus, TRUE)
    /\ UNCHANGED held

CommitCapsule ==
    /\ ~Idle /\ ~Certifying
    /\ bus' = Guarded(bus, FALSE)
    /\ capsule' = None
    /\ UNCHANGED held

(* Whatever was written goes back; without a write there is no restoration. *)
Rewound(b, at) ==
    IF b.sequence = at.sequence THEN b ELSE RestoreSideEffects(b, at).bus

CancelCapsule ==
    /\ ~Idle /\ ~Certifying
    /\ LET rewound == Rewound(bus, capsule.at)
       IN  Becomes(Guarded(RestoreReadFootprint(rewound, capsule.entry), FALSE))
    /\ capsule' = None
    /\ UNCHANGED held

(* The board replays a period to record what it touches.  The reader will  *)
(* hold this certificate; one that holds another meanwhile sees writes and *)
(* a rollback as those of any capsule.                                     *)
BeginCertificate ==
    /\ ~Idle /\ ~Certifying /\ bus.reading
    /\ capsule' = [client |-> "capsule", at |-> capsule.at, entry |-> capsule.entry,
                   was |-> capsule.was, building |-> TRUE,
                   start |-> SideEffectCheckpoint(bus),
                   endpoint |-> bus.footprint, touched |-> {}]
    /\ bus' = [RestoreReadFootprint(bus, EmptyFootprint) EXCEPT !.storing = TRUE]
    /\ held' = None

Certificate ==
    [client |-> "certificate", at |-> SideEffectCheckpoint(bus),
     restoration |-> bus.restoration, footprint |-> bus.footprint,
     touched |-> capsule.touched,
     was |-> [a \in capsule.touched |-> bus.bytes[a]]]

(* Only a period that leaves every byte as it found it is certified. *)
EndCertificate ==
    /\ Certifying
    /\ LET valid == /\ capsule.endpoint.complete /\ bus.footprint.complete
                    /\ SideEffectsRestoredSince(bus, capsule.start)
           settled == IF valid THEN bus ELSE Rewound(bus, capsule.start)
       IN  /\ held' = IF valid THEN Certificate ELSE None
           /\ Becomes([RestoreReadFootprint(settled, capsule.endpoint)
                         EXCEPT !.storing = FALSE])
    /\ capsule' = [client |-> "capsule", at |-> capsule.at, entry |-> capsule.entry,
                   was |-> capsule.was, building |-> FALSE]

-----------------------------------------------------------------------------
(* Readers of the past *)

(* Spin detection looks at a loop boundary: never within a capsule. *)
Observe ==
    /\ Idle
    /\ held' = [client |-> "observation", at |-> SideEffectCheckpoint(bus),
                was |-> bus.bytes]
    /\ bus' = TakenFootprint(bus)
    /\ UNCHANGED capsule

(* The decode and block caches stamp what they decoded. *)
FillCode ==
    /\ held' = [client |-> "code", execution |-> bus.execution,
                was |-> [a \in ExecutableBytes |-> bus.bytes[a]]]
    /\ UNCHANGED <<bus, capsule>>

CertificateValid ==
    /\ held.client = "certificate"
    /\ bus.restoration = held.restoration
    /\ RamInputsCompatibleSince(bus, held.at, held.footprint)

(* A hit validates from here on; a miss leaves or drops the certificate. *)
UseCertificate ==
    /\ Idle /\ bus.journaling /\ CertificateValid
    /\ held' = [held EXCEPT !.at = SideEffectCheckpoint(bus)]
    /\ UNCHANGED <<bus, capsule>>

Next ==
    \/ CpuWrite \/ CpuRead \/ Load
    \/ EnterUntracked \/ LeaveUntracked
    \/ BeginCapsule \/ CommitCapsule \/ CancelCapsule
    \/ BeginCertificate \/ EndCertificate
    \/ Observe \/ FillCode \/ UseCertificate

Spec == Init /\ [][Next]_vars

-----------------------------------------------------------------------------
(* Properties *)

(* Every byte, slot and counter of the bus has its type, and the tracking  *)
(* flags of a capsule are those of its guard (memory_bus.hpp:700-716).     *)
TypeOK ==
    /\ bus.bytes \in [Backed -> Values]
    /\ \A s \in 0 .. Capacity - 1 :
          /\ bus.journal[s].address \in Backed \cup {0}
          /\ bus.journal[s].old \in Values
    /\ bus.sequence \in 0 .. MaxSequence
    /\ bus.footprint.complete => bus.reading
    /\ bus.trapAll = ~Idle /\ bus.ramOnly = ~Idle
    /\ bus.storing = Certifying

(* sideEffectsRestoredSince never accepts a checkpoint whose memory is not *)
(* back, whatever capsules were rolled back and whatever slots of the ring *)
(* were reused since: spin detection ends a run on this answer.            *)
RestoredSound ==
    held.client = "observation" /\ SideEffectsRestoredSince(bus, held.at)
        => bus.bytes = held.was

(* A capsule can be rolled back at any point of its evaluation, and the    *)
(* rollback gives exactly the memory it started from (board.cpp:861-872    *)
(* throws otherwise).                                                      *)
RestoreExact ==
    ~Idle /\ bus.sequence # capsule.at.sequence =>
        LET restored == RestoreSideEffects(bus, capsule.at)
        IN  restored.ok /\ restored.bus.bytes = capsule.was

(* A certificate the board would use is about the memory as it is: every   *)
(* byte its replay loaded or stored has the value it had, although the     *)
(* footprint is a hash and the checkpoint has moved with earlier hits.     *)
InputsSound ==
    held.client = "certificate" /\ CertificateValid =>
        \A a \in held.touched : bus.bytes[a] = held.was[a]

(* Decoded code is reused only while no executable byte changed, by a      *)
(* store through any path, a load or a rollback (cortex_m4.cpp:1377).      *)
CodeFresh ==
    held.client = "code" /\ held.execution = bus.execution =>
        \A a \in ExecutableBytes : bus.bytes[a] = held.was[a]

(* The journal answers for memory: a checkpoint reported restored is back, *)
(* and a rollback gives exactly the memory the capsule started from.       *)
JournalExact == TypeOK /\ RestoredSound /\ RestoreExact
=============================================================================
