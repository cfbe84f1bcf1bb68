-------------------------- MODULE MemoryBusProofs --------------------------
(***************************************************************************)
(* Proofs about the memory bus: for every map, journal capacity and set of *)
(* widths, a checkpoint that is reported restored is back, a capsule can   *)
(* always be rolled back exactly, a certificate is used only on unchanged  *)
(* inputs, and decoded code is never stale.                                *)
(*                                                                         *)
(* The journal is a ring that rollbacks partly empty, so it says nothing   *)
(* by itself: what it says is said for a checkpoint.  The inductive        *)
(* invariant holds, for each checkpoint that somebody keeps, the closed    *)
(* form Tracks: as long as no slot of its window was reused, either a slot *)
(* of it was emptied (and every query refuses the checkpoint), or a byte   *)
(* without an entry is as it was and the first entry for any other byte    *)
(* holds the value it had.                                                 *)
(***************************************************************************)
EXTENDS MemoryBus, NaturalsInduction, WellFoundedInduction, FiniteSetTheorems,
        SequenceTheorems, TLAPS

-----------------------------------------------------------------------------
(* Iteration over a finite number of steps.                                *)

(* Every non-empty set of natural numbers has a least element.             *)
LEMMA LeastExists ==
    ASSUME NEW T \in SUBSET Nat, T # {}
    PROVE  \E x \in T : \A y \in T : x <= y
  <1>1. PICK x \in T : \A y \in T : ~(<<y, x>> \in OpToRel(<, Nat))
    BY WFMin, NatLessThanWellFounded
  <1>2. ASSUME NEW y \in T PROVE x <= y
    <2>1. <<y, x>> \in Nat \X Nat /\ <<y, x>>[1] = y /\ <<y, x>>[2] = x
      OBVIOUS
    <2>2. y < x => <<y, x>> \in OpToRel(<, Nat)
      BY <2>1, Zenon DEF OpToRel
    <2>3. ~(y < x)
      BY <1>1, <2>2, Zenon
    <2> QED
      BY <2>3
  <1> QED
    BY <1>2

(* What starts in the first of a chain of sets and passes from each to the *)
(* next ends in the last.                                                  *)
LEMMA IterationStays ==
    ASSUME NEW N \in Nat, NEW f, NEW Good, f[0] \in Good[0],
           \A n \in 1 .. N : f[n - 1] \in Good[n - 1] => f[n] \in Good[n]
    PROVE  \A n \in 0 .. N : f[n] \in Good[n]
  <1> DEFINE Bad == {n \in 0 .. N : f[n] \notin Good[n]}
  <1>1. SUFFICES ASSUME Bad # {} PROVE FALSE
    OBVIOUS
  <1>0. Bad \in SUBSET Nat
    OBVIOUS
  <1>2. PICK n \in Bad : \A m \in Bad : n <= m
    <2> HIDE DEF Bad
    <2> QED
      BY <1>0, <1>1, LeastExists
  <1>3. n \in 1 .. N
    BY <1>2
  <1>4. n - 1 \in 0 .. N /\ n - 1 \notin Bad
    BY <1>2, <1>3
  <1> QED
    BY <1>2, <1>3, <1>4

Iteration(f, S, x, N, step) ==
    /\ f \in [0 .. N -> S] /\ f[0] = x
    /\ \A n \in 1 .. N : f[n] = step[n][f[n - 1]]

(* A function can be iterated any finite number of times.                  *)
LEMMA IterationExists ==
    ASSUME NEW S, NEW x \in S, NEW N \in Nat, NEW step \in [1 .. N -> [S -> S]]
    PROVE  \E f : Iteration(f, S, x, N, step)
  <1> DEFINE Iterates(m, f) ==
                 f[0] = x /\ \A n \in 1 .. m : f[n] = step[n][f[n - 1]]
             Bad == {m \in 0 .. N : ~ \E f \in [0 .. m -> S] : Iterates(m, f)}
  <1>1. SUFFICES ASSUME Bad # {} PROVE FALSE
    <2>1. ASSUME Bad = {} PROVE \E f : Iteration(f, S, x, N, step)
      <3>1. N \in 0 .. N /\ N \notin Bad
        <4> HIDE DEF Bad
        <4> QED
          BY <2>1
      <3>2. PICK f \in [0 .. N -> S] : Iterates(N, f)
        BY <3>1
      <3> QED
        BY <3>2 DEF Iteration
    <2> QED
      BY <2>1
  <1>0. Bad \in SUBSET Nat
    OBVIOUS
  <1>2. PICK m \in Bad : \A k \in Bad : m <= k
    <2> HIDE DEF Bad
    <2> QED
      BY <1>0, <1>1, LeastExists
  <1>3. m # 0
    <2> DEFINE f == [k \in 0 .. 0 |-> x]
    <2>1. f \in [0 .. 0 -> S] /\ Iterates(0, f)
      OBVIOUS
    <2> HIDE DEF f, Iterates
    <2>2. 0 \notin Bad
      BY <2>1
    <2> HIDE DEF Bad
    <2> QED
      BY <1>2, <2>2
  <1>4. m - 1 \in 0 .. N /\ m - 1 \notin Bad
    <2>1. m \in 0 .. N
      BY <1>2
    <2> HIDE DEF Bad
    <2> QED
      BY <1>2, <1>3, <2>1
  <1>5. PICK g \in [0 .. m - 1 -> S] : Iterates(m - 1, g)
    BY <1>4
  <1> DEFINE f == [k \in 0 .. m |-> IF k = m THEN step[m][g[m - 1]] ELSE g[k]]
  <1>6. m \in 1 .. N /\ g[m - 1] \in S /\ step[m][g[m - 1]] \in S
    BY <1>2, <1>3, <1>5
  <1>7. f \in [0 .. m -> S]
    BY <1>5, <1>6
  <1>8. Iterates(m, f)
    BY <1>5, <1>6
  <1> QED
    BY <1>2, <1>7, <1>8

-----------------------------------------------------------------------------
(* The slots of the ring.                                                  *)

LEMMA SlotInRange ==
    ASSUME NEW n \in Nat \ {0}
    PROVE  Slot(n) \in 0 .. Capacity - 1
  BY JournalAssumption DEF Slot

(* Numbers less than a capacity apart have different slots.                *)
LEMMA SlotsDistinct ==
    ASSUME NEW i \in Nat \ {0}, NEW j \in Nat \ {0}, i < j, j - i < Capacity
    PROVE  Slot(i) # Slot(j)
  <1> DEFINE p == (i - 1) \div Capacity
             q == (j - 1) \div Capacity
  <1>1. Capacity \in Nat \ {0}
    BY JournalAssumption
  <1>2. p \in Int /\ q \in Int /\ i - 1 = Capacity * p + Slot(i) /\ j - 1 = Capacity * q + Slot(j)
    BY <1>1 DEF Slot
  <1>3. SUFFICES ASSUME Slot(i) = Slot(j) PROVE FALSE
    OBVIOUS
  <1>4. j - i = Capacity * (q - p)
    BY <1>1, <1>2, <1>3, SlotInRange
  <1>5. q - p >= 1
    BY <1>1, <1>2, <1>4
  <1>6. Capacity * (q - p) >= Capacity
    BY <1>1, <1>2, <1>5
  <1> QED
    BY <1>4, <1>6, <1>1

(* A number and the one a capacity later share their slot.                 *)
LEMMA SlotShared ==
    ASSUME NEW i \in Nat \ {0}
    PROVE  Slot(i + Capacity) = Slot(i)
  <1> DEFINE p == (i - 1) \div Capacity
             q == (i + Capacity - 1) \div Capacity
  <1>1. Capacity \in Nat \ {0}
    BY JournalAssumption
  <1>2. /\ p \in Int /\ q \in Int
        /\ i - 1 = Capacity * p + Slot(i)
        /\ i + Capacity - 1 = Capacity * q + Slot(i + Capacity)
    BY <1>1 DEF Slot
  <1>3. Slot(i) \in 0 .. Capacity - 1 /\ Slot(i + Capacity) \in 0 .. Capacity - 1
    BY <1>1, SlotInRange
  <1> DEFINE d == p + 1 - q
  <1>4. d \in Int /\ Slot(i + Capacity) - Slot(i) = Capacity * d
    <2> HIDE DEF p, q
    <2>1. Capacity * d = (Capacity * p + Capacity) - Capacity * q
      BY <1>1, <1>2
    <2> DEFINE cp == Capacity * p
               cq == Capacity * q
               cd == Capacity * d
    <2>2. cp \in Int /\ cq \in Int /\ d \in Int /\ cd = (cp + Capacity) - cq
      BY <1>1, <1>2, <2>1
    <2>3. i - 1 = cp + Slot(i) /\ i + Capacity - 1 = cq + Slot(i + Capacity)
      BY <1>2
    <2> HIDE DEF cp, cq, cd
    <2>4. Slot(i + Capacity) - Slot(i) = cd
      <3>1. PICK s \in Int, t \in Int : s = Slot(i) /\ t = Slot(i + Capacity)
        BY <1>3
      <3>2. i - 1 = cp + s /\ i + Capacity - 1 = cq + t
        BY <2>3, <3>1
      <3>3. t - s = (cp + Capacity) - cq
        BY <1>1, <2>2, <3>2
      <3> QED
        BY <2>2, <3>1, <3>3
    <2> QED
      BY <2>2, <2>4 DEF cd
  <1> HIDE DEF d
  <1>5. ~(d >= 1)
    <2>1. d >= 1 => Capacity * d >= Capacity
      BY <1>1, <1>4
    <2> QED
      BY <1>1, <1>3, <1>4, <2>1
  <1>6. ~(d <= -1)
    <2>1. d <= -1 => Capacity * (-d) >= Capacity
      BY <1>1, <1>4
    <2>2. Capacity * (-d) = -(Capacity * d)
      BY <1>1, <1>4
    <2> QED
      BY <1>1, <1>3, <1>4, <2>1, <2>2
  <1>7. d = 0
    BY <1>4, <1>5, <1>6
  <1> QED
    BY <1>1, <1>3, <1>4, <1>7

-----------------------------------------------------------------------------
(* The address map.                                                        *)

(* Address 0 belongs to the boot alias: an emptied slot names no byte.     *)
LEMMA NoByteAtZero == 0 \notin Backed
  BY BootAlias DEF BootAliasMapped, Backed, DirectlyBacked

LEMMA FindContains ==
    ASSUME NEW a, Find(a) # NoRegion
    PROVE  Find(a) \in Regions /\ Contains(Find(a), a)
  <1>1. \E r \in Regions : Contains(r, a)
    BY DEF Find
  <1>2. Find(a) = CHOOSE r \in Regions : Contains(r, a)
    BY <1>1 DEF Find
  <1> QED
    BY <1>1, <1>2

(* Regions do not overlap: the one that contains an address is found.      *)
LEMMA FindUnique ==
    ASSUME NEW r \in Regions, NEW a \in Address, Contains(r, a)
    PROVE  Find(a) = r
  <1>1. \E s \in Regions : Contains(s, a)
    OBVIOUS
  <1>2. Find(a) = CHOOSE s \in Regions : Contains(s, a)
    BY <1>1 DEF Find
  <1>3. Find(a) \in Regions /\ Contains(Find(a), a)
    BY <1>1, <1>2
  <1>4. AddsWithoutOverlap(Regions)
    BY MapAssumption
  <1> QED
    BY <1>3, <1>4, Zenon DEF AddsWithoutOverlap

(* The bytes of a range inside a directly backed region.                   *)
LEMMA RangeInRegion ==
    ASSUME NEW r \in Regions, NEW start \in Nat, NEW width \in Nat,
           ContainsRange(r, start, width)
    PROVE  \A a \in start .. start + width - 1 :
              /\ a \in Address /\ Find(a) = r
              /\ DirectlyBacked(r) => a \in Backed
  <1> TAKE a \in start .. start + width - 1
  <1>1. /\ r.base \in Nat /\ r.size \in Nat /\ r.base + r.size - 1 <= Top
        /\ Top \in Nat
    BY MapAssumption DEF AddsWithoutOverlap
  <1>2. a \in Address /\ Contains(r, a)
    BY <1>1 DEF Address, Contains, ContainsRange
  <1>3. Find(a) = r
    BY <1>2, FindUnique
  <1> QED
    BY <1>2, <1>3 DEF Backed

LEMMA HopTyped ==
    ASSUME NEW a \in Nat, NEW width
    PROVE  Hop(a, width) \in Nat
  <1> DEFINE r == Find(a)
  <1>1. CASE r # NoRegion /\ ContainsRange(r, a, width) /\ r.kind = "alias"
    <2>1. r \in Regions /\ Contains(r, a)
      BY <1>1, FindContains
    <2>2. r.target \in Nat /\ r.base \in Nat /\ r.size \in Nat
      BY <1>1, <2>1, MapAssumption
    <2>3. a >= r.base
      BY <2>1 DEF Contains
    <2>4. Hop(a, width) = r.target + (a - r.base)
      BY <1>1 DEF Hop
    <2> QED
      BY <2>2, <2>3, <2>4
  <1>2. CASE ~(r # NoRegion /\ ContainsRange(r, a, width) /\ r.kind = "alias")
    BY <1>2 DEF Hop
  <1> QED
    BY <1>1, <1>2

LEMMA HopsTyped ==
    ASSUME NEW start \in Nat, NEW width
    PROVE  Hops(start, width)[MaximumAliasDepth] \in Nat
  <1> DEFINE D == MaximumAliasDepth
             Is(f) == f = [n \in 0 .. D |->
                             IF n = 0 THEN start ELSE Hop(f[n - 1], width)]
             step == [n \in 1 .. D |-> [a \in Nat |-> Hop(a, width)]]
             at == Hops(start, width)
  <1>1. D \in Nat /\ D = 8
    BY DEF MaximumAliasDepth
  <1>2. step \in [1 .. D -> [Nat -> Nat]]
    BY HopTyped
  <1>3. PICK f : Iteration(f, Nat, start, D, step)
    <2> HIDE DEF D, step
    <2> QED
      BY <1>1, <1>2, IterationExists
  <1>4. Is(f)
    <2>1. \A n \in 1 .. D : n - 1 \in 0 .. D /\ f[n] = Hop(f[n - 1], width)
      BY <1>1, <1>3 DEF Iteration
    <2> QED
      BY <1>1, <1>3, <2>1 DEF Iteration
  <1>5. at = CHOOSE g : Is(g)
    BY DEF Hops
  <1>6. Is(at)
    BY <1>4, <1>5
  <1> DEFINE Good == [n \in 0 .. D |-> Nat]
  <1>7. at[0] \in Good[0]
    BY <1>1, <1>6
  <1>8. \A n \in 1 .. D : at[n - 1] \in Good[n - 1] => at[n] \in Good[n]
    <2> TAKE n \in 1 .. D
    <2>1. at[n] = Hop(at[n - 1], width)
      BY <1>1, <1>6
    <2>2. n \in 0 .. D /\ n - 1 \in 0 .. D
      BY <1>1
    <2> QED
      BY <2>1, <2>2, HopTyped
  <1>9. \A n \in 0 .. D : at[n] \in Good[n]
    <2> HIDE DEF at, Good, D
    <2> QED
      BY <1>1, <1>7, <1>8, IterationStays
  <1> QED
    BY <1>1, <1>9

(* What a routed access reaches. *)
Serves(x) ==
    /\ x.width \in Nat \ {0} /\ x.to.address \in Nat
    /\ x.to.region \in Regions /\ x.to.region.kind # "alias"
    /\ x.start \in Address
    /\ ContainsRange(x.to.region, x.to.address, x.width)

LEMMA RoutedServes ==
    ASSUME NEW x \in Routed
    PROVE  Serves(x)
  <1>1. PICK y \in Address \X Widths :
           x = [start |-> y[1], width |-> y[2], to |-> Route(y[1], y[2])]
    BY DEF Routed, Accesses
  <1>2. PICK start \in Address, width \in Widths : y[1] = start /\ y[2] = width
    BY <1>1
  <1>3. /\ x.start = start /\ x.width = width /\ x.to = Route(start, width)
        /\ x.to.fault = "none"
    BY <1>1, <1>2 DEF Routed
  <1> DEFINE a == Hops(start, width)[MaximumAliasDepth]
             r == Find(a)
  <1>4. start \in Nat /\ width \in Nat \ {0}
    BY MapAssumption DEF Address
  <1>5. a \in Nat
    BY <1>4, HopsTyped
  <1>6. /\ r # NoRegion /\ ContainsRange(r, a, width) /\ r.kind # "alias"
        /\ x.to = [fault |-> "none", region |-> r, address |-> a]
    BY <1>3 DEF Route, Fault
  <1>7. r \in Regions
    BY <1>6, FindContains
  <1> QED
    BY <1>3, <1>4, <1>5, <1>6, <1>7 DEF Serves

(* The length of the data of a store.                                      *)
LEMMA DataLength ==
    ASSUME NEW width \in Nat, NEW data \in [1 .. width -> Values]
    PROVE  Len(data) = width
  <1>1. data \in Seq(Values)
    BY SeqDef
  <1> QED
    BY <1>1, LenProperties

-----------------------------------------------------------------------------
(* The inductive invariant.                                                *)

(* A footprint, a checkpoint, a slot of the journal and the bus. *)
Footprints == [bits : SUBSET BitsOf(Nat), complete : BOOLEAN]
Checkpoints == [sequence : Nat, mmio : Nat, tracking : Nat]
Slots == [address : Backed \cup {0}, old : Values]
Journals == [0 .. Capacity - 1 -> Slots]
Buses ==
    [bytes : [Backed -> Values], sequence : Nat, journal : Journals,
     execution : Nat, mmio : Nat, tracking : Nat, restoration : Nat,
     journaling : BOOLEAN, reading : BOOLEAN, storing : BOOLEAN,
     footprint : Footprints, trapAll : BOOLEAN, ramOnly : BOOLEAN]

Plain == [client : {"capsule"}, at : Checkpoints, entry : Footprints,
          was : [Backed -> Values], building : {FALSE}]
Building == [client : {"capsule"}, at : Checkpoints, entry : Footprints,
             was : [Backed -> Values], building : {TRUE}, start : Checkpoints,
             endpoint : Footprints, touched : SUBSET Backed]
Observations == [client : {"observation"}, at : Checkpoints, was : [Backed -> Values]]
Certificates == [client : {"certificate"}, at : Checkpoints, restoration : Nat,
                 footprint : Footprints, touched : SUBSET Backed,
                 was : UNION {[T -> Values] : T \in SUBSET Backed}]
CodeStamps == [client : {"code"}, execution : Nat, was : [ExecutableBytes -> Values]]

Typed(b, c, o) ==
    /\ b \in Buses
    /\ b.sequence <= MaxSequence
    /\ b.footprint.complete => b.reading
    /\ b.trapAll <=> c # None
    /\ b.ramOnly <=> c # None
    /\ b.storing <=> c \in Building
    /\ c \in {None} \cup Plain \cup Building
    /\ o \in {None} \cup Observations \cup Certificates \cup CodeStamps

(* What the journal says of number h and of the values that the bytes had  *)
(* then: a slot after h was emptied, or a byte without an entry after h is *)
(* as it was and the first entry for any other byte holds its value.       *)
Hollow(b, h) == \E n \in h + 1 .. b.sequence : Entry(b, n).address \notin Backed

FirstOf(b, h, n, a) ==
    /\ Entry(b, n).address = a
    /\ \A m \in h + 1 .. n - 1 : Entry(b, m).address # a

ClosedAt(b, h, was, a) ==
    /\ (\A n \in h + 1 .. b.sequence : Entry(b, n).address # a) => b.bytes[a] = was[a]
    /\ \A n \in h + 1 .. b.sequence : FirstOf(b, h, n, a) => Entry(b, n).old = was[a]

Tracks(b, h, was, T) ==
    b.sequence - h <= Capacity => Hollow(b, h) \/ \A a \in T : ClosedAt(b, h, was, a)

Reversible(b, c) ==
    /\ b.journaling
    /\ c.at.tracking = b.tracking /\ c.at.mmio = b.mmio
    /\ c.at.sequence <= b.sequence
    /\ b.sequence - c.at.sequence <= MaxCapsule
    /\ ~Hollow(b, c.at.sequence)
    /\ Tracks(b, c.at.sequence, c.was, Backed)

Replaying(b, c) ==
    /\ b.reading
    /\ c.start.tracking = b.tracking /\ c.start.mmio = b.mmio
    /\ c.at.sequence <= c.start.sequence /\ c.start.sequence <= b.sequence
    /\ \A a \in c.touched : FootprintContains(b.footprint, a)

StillObserved(b, o) ==
    /\ o.at.tracking <= b.tracking
    /\ o.at.tracking = b.tracking =>
          /\ o.at.sequence <= b.sequence
          /\ b.journaling => Tracks(b, o.at.sequence, o.was, Backed)
          /\ o.at.sequence = b.sequence => b.bytes = o.was

StillCertified(b, o) ==
    /\ o.restoration <= b.restoration /\ o.at.tracking <= b.tracking
    /\ \A a \in o.touched : FootprintContains(o.footprint, a)
    /\ o.restoration = b.restoration /\ o.at.tracking = b.tracking =>
          /\ b.journaling
          /\ o.at.sequence <= b.sequence
          /\ Tracks(b, o.at.sequence, o.was, o.touched)

StillDecoded(b, o) ==
    /\ o.execution <= b.execution
    /\ o.execution = b.execution =>
          \A a \in ExecutableBytes : b.bytes[a] = o.was[a]

HeldOK(b, o) ==
    /\ o \in Observations => StillObserved(b, o)
    /\ o \in Certificates => StillCertified(b, o)
    /\ o \in CodeStamps => StillDecoded(b, o)

(* An observation is from before the capsule. *)
Earlier(b, c, o) ==
    c # None /\ o \in Observations /\ o.at.tracking = b.tracking
        => o.at.sequence <= c.at.sequence

Inv(b, c, o) ==
    /\ Typed(b, c, o)
    /\ c # None => Reversible(b, c)
    /\ c \in Building => Replaying(b, c)
    /\ HeldOK(b, o)
    /\ Earlier(b, c, o)

JournalInv == Inv(bus, capsule, held)

-----------------------------------------------------------------------------
(* One mutation of memory.                                                 *)

(* The fields of the bus that stores of bytes leave alone.                 *)
SameControl(b, c) ==
    /\ c.execution = b.execution /\ c.mmio = b.mmio /\ c.tracking = b.tracking
    /\ c.restoration = b.restoration /\ c.journaling = b.journaling
    /\ c.reading = b.reading /\ c.storing = b.storing
    /\ c.footprint = b.footprint
    /\ c.trapAll = b.trapAll /\ c.ramOnly = b.ramOnly

(* The mutation of byte a by a store of another value.                     *)
Mutated(b, c, a, value) ==
    /\ c.sequence = b.sequence + 1
    /\ c.bytes = [b.bytes EXCEPT ![a] = value]
    /\ c.journal = IF b.journaling
                   THEN [b.journal EXCEPT ![Slot(b.sequence + 1)] =
                            [address |-> a, old |-> b.bytes[a]]]
                   ELSE b.journal

LEMMA StoreByteFields ==
    ASSUME NEW b \in Buses, NEW a \in Backed, NEW value \in Values
    PROVE  LET c == StoreByte(b, a, value)
           IN  /\ c \in Buses /\ SameControl(b, c)
               /\ IF b.bytes[a] = value THEN c = b ELSE Mutated(b, c, a, value)
  <1> DEFINE c == StoreByte(b, a, value)
  <1>1. CASE b.bytes[a] = value
    BY <1>1 DEF StoreByte, SameControl
  <1>2. CASE b.bytes[a] # value
    <2> DEFINE j == IF b.journaling
                    THEN [b.journal EXCEPT ![b.sequence % Capacity] =
                             [address |-> a, old |-> b.bytes[a]]]
                    ELSE b.journal
    <2>0. b.sequence \in Nat /\ b.bytes \in [Backed -> Values] /\ b.journal \in Journals
      BY DEF Buses
    <2>1. c = [[b EXCEPT !.sequence = b.sequence + 1, !.journal = j]
                  EXCEPT !.bytes = [b.bytes EXCEPT ![a] = value]]
      BY <1>2 DEF StoreByte, RecordMutation, Buses
    <2>2. Slot(b.sequence + 1) = b.sequence % Capacity
      BY <2>0 DEF Slot
    <2>3. b.sequence % Capacity \in 0 .. Capacity - 1
      BY <2>0, JournalAssumption
    <2>4. j \in Journals
      BY <2>0, <2>3 DEF Journals, Slots
    <2>5. [b.bytes EXCEPT ![a] = value] \in [Backed -> Values]
      BY <2>0
    <2> HIDE DEF j, c
    <2>6. c.sequence = b.sequence + 1 /\ c.bytes = [b.bytes EXCEPT ![a] = value] /\ c.journal = j
      BY <2>0, <2>1 DEF Buses
    <2>7. SameControl(b, c)
      BY <2>1 DEF Buses, SameControl
    <2>8. c \in Buses
      <3> DEFINE y == [b.bytes EXCEPT ![a] = value]
                 s == b.sequence + 1
      <3>1. c = [[b EXCEPT !.sequence = s, !.journal = j] EXCEPT !.bytes = y]
        BY <2>1
      <3>2. y \in [Backed -> Values] /\ s \in Nat
        BY <2>0, <2>5
      <3> HIDE DEF y, s
      <3>3. [b EXCEPT !.sequence = s, !.journal = j] \in Buses
        BY <2>4, <3>2 DEF Buses
      <3> QED
        BY <3>1, <3>2, <3>3 DEF Buses
    <2> QED
      BY <1>2, <2>2, <2>6, <2>7, <2>8 DEF j, c, Mutated
  <1> QED
    BY <1>1, <1>2

Appended(b, c, h, a) ==
    /\ \A n \in h + 1 .. b.sequence : Entry(c, n) = Entry(b, n)
    /\ Entry(c, b.sequence + 1) = [address |-> a, old |-> b.bytes[a]]

(* A mutation leaves the entries of a window it does not overflow.         *)
LEMMA MutationEntries ==
    ASSUME NEW b \in Buses, NEW c \in Buses, NEW a \in Backed, NEW value \in Values,
           b.journaling, Mutated(b, c, a, value),
           NEW h \in 0 .. b.sequence, c.sequence - h <= Capacity
    PROVE  Appended(b, c, h, a)
  <1>1. /\ b.sequence \in Nat /\ b.journal \in Journals /\ Capacity \in Nat \ {0}
        /\ h \in Nat /\ c.sequence = b.sequence + 1
    BY JournalAssumption DEF Buses, Mutated
  <1>2. c.journal = [b.journal EXCEPT ![Slot(b.sequence + 1)] =
                        [address |-> a, old |-> b.bytes[a]]]
    BY DEF Mutated
  <1>3. Slot(b.sequence + 1) \in 0 .. Capacity - 1
    BY <1>1, SlotInRange
  <1>4. ASSUME NEW n \in h + 1 .. b.sequence PROVE Entry(c, n) = Entry(b, n)
    <2>1. n \in Nat \ {0} /\ n < b.sequence + 1 /\ b.sequence + 1 - n < Capacity
      BY <1>1
    <2>2. Slot(n) # Slot(b.sequence + 1) /\ Slot(n) \in 0 .. Capacity - 1
      BY <1>1, <2>1, SlotInRange, SlotsDistinct
    <2> QED
      BY <1>1, <1>2, <2>2 DEF Entry, Journals
  <1>5. Entry(c, b.sequence + 1) = [address |-> a, old |-> b.bytes[a]]
    BY <1>1, <1>2, <1>3 DEF Entry, Journals
  <1> QED
    BY <1>4, <1>5 DEF Appended

LEMMA MutationHollow ==
    ASSUME NEW b \in Buses, NEW c \in Buses, NEW a \in Backed, NEW value \in Values,
           b.journaling, Mutated(b, c, a, value),
           NEW h \in 0 .. b.sequence, c.sequence - h <= Capacity
    PROVE  Hollow(c, h) <=> Hollow(b, h)
  <1>1. b.sequence \in Nat /\ h \in Nat /\ c.sequence = b.sequence + 1
    BY DEF Buses, Mutated
  <1>2. /\ \A n \in h + 1 .. b.sequence : Entry(c, n) = Entry(b, n)
        /\ Entry(c, b.sequence + 1).address = a
    <2>1. Appended(b, c, h, a)
      BY MutationEntries
    <2> QED
      BY <2>1 DEF Appended
  <1> QED
    BY <1>1, <1>2 DEF Hollow

LEMMA MutationCloses ==
    ASSUME NEW b \in Buses, NEW c \in Buses, NEW a \in Backed, NEW value \in Values,
           b.journaling, Mutated(b, c, a, value),
           NEW h \in 0 .. b.sequence, c.sequence - h <= Capacity,
           NEW was, NEW x \in Backed, ClosedAt(b, h, was, x)
    PROVE  ClosedAt(c, h, was, x)
  <1> DEFINE q == b.sequence
  <1>1. q \in Nat /\ h \in Nat /\ c.sequence = q + 1 /\ b.bytes \in [Backed -> Values]
    BY DEF Buses, Mutated
  <1>2. /\ \A n \in h + 1 .. q : Entry(c, n) = Entry(b, n)
        /\ Entry(c, q + 1).address = a /\ Entry(c, q + 1).old = b.bytes[a]
    <2>1. Appended(b, c, h, a)
      BY MutationEntries
    <2> QED
      BY <2>1 DEF Appended
  <1>3. ASSUME \A n \in h + 1 .. q + 1 : Entry(c, n).address # x
        PROVE  c.bytes[x] = was[x]
    <2>1. q + 1 \in h + 1 .. q + 1 /\ \A n \in h + 1 .. q : n \in h + 1 .. q + 1
      BY <1>1
    <2>2. x # a
      BY <1>2, <1>3, <2>1
    <2>3. \A n \in h + 1 .. q : Entry(b, n).address # x
      BY <1>2, <1>3, <2>1
    <2>4. c.bytes[x] = b.bytes[x]
      BY <1>1, <2>2 DEF Mutated
    <2> QED
      BY <2>3, <2>4 DEF ClosedAt
  <1>4. ASSUME NEW n \in h + 1 .. q + 1, FirstOf(c, h, n, x)
        PROVE  Entry(c, n).old = was[x]
    <2>1. \A m \in h + 1 .. n - 1 : m \in h + 1 .. q
      BY <1>1
    <2>2. \A m \in h + 1 .. n - 1 : Entry(b, m).address # x
      BY <1>2, <1>4, <2>1 DEF FirstOf
    <2>3. CASE n = q + 1
      <3>1. x = a /\ \A m \in h + 1 .. q : Entry(b, m).address # x
        BY <1>1, <1>2, <1>4, <2>2, <2>3 DEF FirstOf
      <3> QED
        BY <1>2, <2>3, <3>1 DEF ClosedAt
    <2>4. CASE n # q + 1
      <3>1. n \in h + 1 .. q
        BY <1>1, <2>4
      <3>2. FirstOf(b, h, n, x)
        BY <1>2, <1>4, <2>2, <3>1 DEF FirstOf
      <3> QED
        BY <1>2, <3>1, <3>2 DEF ClosedAt
    <2> QED
      BY <2>3, <2>4
  <1> QED
    BY <1>1, <1>3, <1>4 DEF ClosedAt

(* The journal keeps its word to every checkpoint when bytes are stored.   *)
JournalKept(b, c) ==
    \A h \in 0 .. b.sequence :
        /\ \A T \in SUBSET Backed : \A was :
              Tracks(b, h, was, T) => Tracks(c, h, was, T)
        /\ ~Hollow(b, h) /\ c.sequence - h <= Capacity => ~Hollow(c, h)

LEMMA MutationKept ==
    ASSUME NEW b \in Buses, NEW c \in Buses, NEW a \in Backed, NEW value \in Values,
           b.journaling, Mutated(b, c, a, value)
    PROVE  JournalKept(b, c)
  <1>1. b.sequence \in Nat /\ c.sequence = b.sequence + 1 /\ Capacity \in Nat
    BY JournalAssumption DEF Buses, Mutated
  <1>2. SUFFICES ASSUME NEW h \in 0 .. b.sequence
                 PROVE  /\ \A T \in SUBSET Backed : \A was :
                              Tracks(b, h, was, T) => Tracks(c, h, was, T)
                        /\ ~Hollow(b, h) /\ c.sequence - h <= Capacity => ~Hollow(c, h)
    BY Zenon DEF JournalKept
  <1>3. CASE ~(c.sequence - h <= Capacity)
    BY <1>3, Zenon DEF Tracks
  <1>4. CASE c.sequence - h <= Capacity
    <2>1. Hollow(c, h) <=> Hollow(b, h)
      BY <1>4, MutationHollow
    <2>2. b.sequence - h <= Capacity
      BY <1>1, <1>4
    <2>3. ASSUME NEW T \in SUBSET Backed, NEW was, Tracks(b, h, was, T)
          PROVE  Tracks(c, h, was, T)
      <3>1. CASE Hollow(b, h)
        BY <2>1, <3>1, Zenon DEF Tracks
      <3>2. CASE \A x \in T : ClosedAt(b, h, was, x)
        <4>1. \A x \in T : ClosedAt(c, h, was, x)
          BY <1>4, <3>2, MutationCloses
        <4> QED
          BY <4>1, Zenon DEF Tracks
      <3> QED
        BY <2>2, <2>3, <3>1, <3>2, Zenon DEF Tracks
    <2> QED
      BY <2>1, <2>3, Zenon
  <1> QED
    BY <1>3, <1>4

LEMMA KeptTransitive ==
    ASSUME NEW b \in Buses, NEW c \in Buses, NEW d \in Buses,
           b.sequence <= c.sequence, c.sequence <= d.sequence,
           JournalKept(b, c), JournalKept(c, d)
    PROVE  JournalKept(b, d)
  <1>1. b.sequence \in Nat /\ c.sequence \in Nat /\ d.sequence \in Nat /\ Capacity \in Nat
    BY JournalAssumption DEF Buses
  <1>2. ASSUME NEW h \in 0 .. b.sequence
        PROVE  /\ h \in 0 .. c.sequence
               /\ d.sequence - h <= Capacity => c.sequence - h <= Capacity
    BY <1>1
  <1> QED
    BY <1>2, Zenon DEF JournalKept

(* What storing at most n bytes, all of them in A, makes of bus b.         *)
Stored(b, c, A, n) ==
    /\ c \in Buses /\ SameControl(b, c)
    /\ b.sequence <= c.sequence /\ c.sequence <= b.sequence + n
    /\ c.sequence = b.sequence => c.bytes = b.bytes
    /\ \A a \in Backed \ A : c.bytes[a] = b.bytes[a]
    /\ b.journaling => JournalKept(b, c)

LEMMA StoreByteStored ==
    ASSUME NEW b \in Buses, NEW c, NEW A \in SUBSET Backed, NEW n \in Nat,
           Stored(b, c, A, n), NEW a \in A, NEW value \in Values
    PROVE  Stored(b, StoreByte(c, a, value), A, n + 1)
  <1> DEFINE d == StoreByte(c, a, value)
  <1>0. c \in Buses /\ a \in Backed
    BY DEF Stored
  <1>1. /\ d \in Buses /\ SameControl(c, d)
        /\ IF c.bytes[a] = value THEN d = c ELSE Mutated(c, d, a, value)
    BY <1>0, StoreByteFields
  <1>2. b.sequence \in Nat /\ c.sequence \in Nat /\ c.bytes \in [Backed -> Values]
    BY <1>0 DEF Buses
  <1>3. SameControl(b, d)
    BY <1>1 DEF Stored, SameControl
  <1> HIDE DEF d
  <1>4. CASE c.bytes[a] = value
    <2>1. d = c
      BY <1>1, <1>4
    <2>2. c.sequence <= b.sequence + (n + 1)
      BY <1>2 DEF Stored
    <2> QED
      BY <2>1, <2>2 DEF Stored, d
  <1>5. CASE c.bytes[a] # value
    <2>1. Mutated(c, d, a, value)
      BY <1>1, <1>5
    <2>2. d.sequence = c.sequence + 1 /\ b.sequence <= c.sequence /\ c.sequence <= b.sequence + n
      BY <2>1 DEF Mutated, Stored
    <2>3. ASSUME NEW x \in Backed \ A PROVE d.bytes[x] = b.bytes[x]
      <3>1. x # a
        OBVIOUS
      <3>2. d.bytes[x] = c.bytes[x]
        BY <1>2, <2>1, <3>1 DEF Mutated
      <3> QED
        BY <3>2 DEF Stored
    <2>4. ASSUME b.journaling PROVE JournalKept(b, d)
      <3>1. c.journaling /\ JournalKept(b, c)
        BY <2>4 DEF Stored, SameControl
      <3>2. JournalKept(c, d)
        BY <1>0, <1>1, <2>1, <3>1, MutationKept
      <3>3. c.sequence <= d.sequence
        BY <1>2, <2>2
      <3> QED
        BY <1>0, <1>1, <2>2, <3>1, <3>2, <3>3, KeptTransitive
    <2>5. /\ b.sequence <= d.sequence /\ d.sequence <= b.sequence + (n + 1)
          /\ d.sequence # b.sequence
      BY <1>2, <2>2
    <2> QED
      BY <1>1, <1>3, <2>3, <2>4, <2>5 DEF Stored, d
  <1> QED
    BY <1>4, <1>5

LEMMA StoreBytesStored ==
    ASSUME NEW b \in Buses, NEW start \in Nat, NEW width \in Nat,
           NEW data \in [1 .. width -> Values],
           \A a \in start .. start + width - 1 : a \in Backed
    PROVE  Stored(b, StoreBytes(b, start, data), start .. start + width - 1, width)
  <1> DEFINE A == start .. start + width - 1
             Is(f) == f = [n \in 0 .. width |->
                             IF n = 0 THEN b
                             ELSE StoreByte(f[n - 1], start + n - 1, data[n])]
             step == [n \in 1 .. width |->
                         [c \in Buses |-> StoreByte(c, start + n - 1, data[n])]]
  <1>1. Len(data) = width
    BY DataLength
  <1>2. \A n \in 1 .. width : start + n - 1 \in A /\ data[n] \in Values
    OBVIOUS
  <1>3. A \in SUBSET Backed
    OBVIOUS
  <1>4. step \in [1 .. width -> [Buses -> Buses]]
    <2>1. ASSUME NEW n \in 1 .. width, NEW c \in Buses
          PROVE  StoreByte(c, start + n - 1, data[n]) \in Buses
      <3>1. start + n - 1 \in Backed
        BY <1>2, <1>3
      <3> QED
        BY <1>2, <3>1, StoreByteFields
    <2> QED
      BY <2>1
  <1>5. PICK f : Iteration(f, Buses, b, width, step)
    <2> HIDE DEF step
    <2> QED
      BY <1>4, IterationExists
  <1>6. Is(f)
    <2>1. ASSUME NEW n \in 1 .. width
          PROVE  f[n] = StoreByte(f[n - 1], start + n - 1, data[n])
      <3>1. n - 1 \in 0 .. width
        OBVIOUS
      <3>2. f[n - 1] \in Buses /\ f[n] = step[n][f[n - 1]]
        BY <1>5, <3>1 DEF Iteration
      <3> QED
        BY <3>2
    <2>2. f \in [0 .. width -> Buses] /\ f[0] = b
      BY <1>5 DEF Iteration
    <2> QED
      BY <2>1, <2>2
  <1> DEFINE at == CHOOSE g : Is(g)
  <1>7. Is(at)
    BY <1>6
  <1>8. StoreBytes(b, start, data) = at[width]
    BY <1>1 DEF StoreBytes
  <1> HIDE DEF at
  <1> DEFINE Good == [n \in 0 .. width |-> {c \in Buses : Stored(b, c, A, n)}]
  <1>9. at[0] \in Good[0]
    <2>1. at[0] = b /\ 0 \in 0 .. width
      BY <1>7
    <2>2. b.sequence \in Nat
      BY DEF Buses
    <2>3. JournalKept(b, b)
      BY DEF JournalKept
    <2>4. Stored(b, b, A, 0)
      BY <2>2, <2>3 DEF Stored, SameControl
    <2> QED
      BY <2>1, <2>4
  <1>10. \A n \in 1 .. width : at[n - 1] \in Good[n - 1] => at[n] \in Good[n]
    <2> SUFFICES ASSUME NEW n \in 1 .. width, at[n - 1] \in Good[n - 1]
                 PROVE  at[n] \in Good[n]
      OBVIOUS
    <2>1. at[n] = StoreByte(at[n - 1], start + n - 1, data[n])
      BY <1>7
    <2>2. n - 1 \in 0 .. width /\ n \in 0 .. width /\ n - 1 \in Nat /\ (n - 1) + 1 = n
      OBVIOUS
    <2>3. Stored(b, at[n - 1], A, n - 1)
      BY <2>2
    <2> HIDE DEF A
    <2>4. Stored(b, at[n], A, (n - 1) + 1)
      BY <1>2, <1>3, <2>1, <2>2, <2>3, StoreByteStored
    <2>5. Stored(b, at[n], A, n) /\ at[n] \in Buses
      BY <2>2, <2>4 DEF Stored
    <2> QED
      BY <2>2, <2>5
  <1>11. \A n \in 0 .. width : at[n] \in Good[n]
    <2> HIDE DEF Good
    <2> QED
      BY <1>9, <1>10, IterationStays
  <1> QED
    BY <1>8, <1>11

-----------------------------------------------------------------------------
(* Rolling back.                                                           *)

(* Bus c is bus b with the mutations after number low undone.              *)
UndoneOf(b, c, low) ==
    /\ c \in Buses /\ SameControl(b, c) /\ c.sequence = b.sequence
    /\ \A n \in low + 1 .. b.sequence : c.journal[Slot(n)] = EmptySlot
    /\ \A i \in 0 .. Capacity - 1 :
          (\A n \in low + 1 .. b.sequence : Slot(n) # i) => c.journal[i] = b.journal[i]
    /\ \A a \in Backed :
          (\A n \in low + 1 .. b.sequence : Entry(b, n).address # a)
              => c.bytes[a] = b.bytes[a]
    /\ \A a \in Backed : \A n \in low + 1 .. b.sequence :
          FirstOf(b, low, n, a) => c.bytes[a] = Entry(b, n).old

LEMMA UndoFields ==
    ASSUME NEW b \in Buses, NEW n \in Nat \ {0}
    PROVE  LET c == UndoMutation(b, n)
           IN  /\ c \in Buses /\ SameControl(b, c) /\ c.sequence = b.sequence
               /\ c.bytes = [b.bytes EXCEPT ![Entry(b, n).address] = Entry(b, n).old]
               /\ c.journal = [b.journal EXCEPT ![Slot(n)] = EmptySlot]
  <1> DEFINE e == Entry(b, n)
             y == [b.bytes EXCEPT ![e.address] = e.old]
             j == [b.journal EXCEPT ![Slot(n)] = EmptySlot]
             c == UndoMutation(b, n)
  <1>1. b.bytes \in [Backed -> Values] /\ b.journal \in Journals
    BY DEF Buses
  <1>2. Slot(n) \in 0 .. Capacity - 1
    BY SlotInRange
  <1>3. e \in Slots
    BY <1>1, <1>2 DEF Entry, Journals
  <1>4. y \in [Backed -> Values]
    BY <1>1, <1>3 DEF Slots
  <1>5. j \in Journals
    BY <1>1, <1>2, JournalAssumption DEF Journals, Slots, EmptySlot
  <1>6. c = [b EXCEPT !.bytes = y, !.journal = j]
    BY DEF UndoMutation, Buses
  <1> HIDE DEF y, j, c
  <1>7. c \in Buses
    BY <1>4, <1>5, <1>6 DEF Buses
  <1>8. SameControl(b, c)
    BY <1>6 DEF Buses, SameControl
  <1>9. c.sequence = b.sequence /\ c.bytes = y /\ c.journal = j
    BY <1>6 DEF Buses
  <1> QED
    BY <1>7, <1>8, <1>9 DEF y, j, c

LEMMA UndoOneMore ==
    ASSUME NEW b \in Buses, NEW low \in Nat, low + 1 <= b.sequence,
           b.sequence - low <= Capacity, ~Hollow(b, low),
           NEW c, UndoneOf(b, c, low + 1)
    PROVE  UndoneOf(b, UndoMutation(c, low + 1), low)
  <1> DEFINE q == b.sequence
             d == UndoMutation(c, low + 1)
             e == Entry(b, low + 1)
  <1>1. q \in Nat /\ low + 1 \in Nat \ {0} /\ Capacity \in Nat \ {0}
    BY JournalAssumption DEF Buses
  <1>2. c \in Buses /\ SameControl(b, c) /\ c.sequence = q
    BY DEF UndoneOf
  <1>3. Slot(low + 1) \in 0 .. Capacity - 1
    BY <1>1, SlotInRange
  <1>4. \A n \in (low + 1) + 1 .. q : Slot(n) # Slot(low + 1)
    <2> TAKE n \in (low + 1) + 1 .. q
    <2>1. n \in Nat \ {0} /\ low + 1 < n /\ n - (low + 1) < Capacity
      BY <1>1
    <2> QED
      BY <1>1, <2>1, SlotsDistinct
  <1>5. Entry(c, low + 1) = e
    BY <1>3, <1>4 DEF UndoneOf, Entry
  <1>6. e.address \in Backed
    <2>1. low + 1 \in low + 1 .. q
      BY <1>1
    <2> QED
      BY <2>1 DEF Hollow
  <1>7. /\ d \in Buses /\ SameControl(c, d) /\ d.sequence = c.sequence
        /\ d.bytes = [c.bytes EXCEPT ![e.address] = e.old]
        /\ d.journal = [c.journal EXCEPT ![Slot(low + 1)] = EmptySlot]
    <2>1. /\ d \in Buses /\ SameControl(c, d) /\ d.sequence = c.sequence
          /\ d.bytes = [c.bytes EXCEPT ![Entry(c, low + 1).address] = Entry(c, low + 1).old]
          /\ d.journal = [c.journal EXCEPT ![Slot(low + 1)] = EmptySlot]
      BY <1>1, <1>2, UndoFields
    <2> QED
      BY <1>5, <2>1
  <1> HIDE DEF d
  <1>8. /\ c.bytes \in [Backed -> Values] /\ c.journal \in [0 .. Capacity - 1 -> Slots]
    BY <1>2 DEF Buses, Journals
  <1>9. SameControl(b, d) /\ d.sequence = b.sequence
    BY <1>2, <1>7 DEF SameControl
  <1>10. \A n \in low + 1 .. q : n = low + 1 \/ n \in (low + 1) + 1 .. q
    BY <1>1
  <1>11. ASSUME NEW n \in low + 1 .. q PROVE d.journal[Slot(n)] = EmptySlot
    <2>1. CASE n = low + 1
      BY <1>3, <1>7, <1>8, <2>1
    <2>2. CASE n \in (low + 1) + 1 .. q
      <3>1. c.journal[Slot(n)] = EmptySlot
        BY <2>2 DEF UndoneOf
      <3>2. Slot(n) \in 0 .. Capacity - 1
        BY <1>1, <2>2, SlotInRange
      <3> QED
        BY <1>7, <1>8, <3>1, <3>2
    <2> QED
      BY <1>10, <2>1, <2>2
  <1>12. ASSUME NEW i \in 0 .. Capacity - 1, \A n \in low + 1 .. q : Slot(n) # i
         PROVE  d.journal[i] = b.journal[i]
    <2>1. low + 1 \in low + 1 .. q /\ \A n \in (low + 1) + 1 .. q : n \in low + 1 .. q
      BY <1>1
    <2>2. c.journal[i] = b.journal[i]
      BY <1>12, <2>1 DEF UndoneOf
    <2>3. Slot(low + 1) # i
      BY <1>12, <2>1
    <2> QED
      BY <1>7, <1>8, <2>2, <2>3
  <1>13. ASSUME NEW a \in Backed, \A n \in low + 1 .. q : Entry(b, n).address # a
         PROVE  d.bytes[a] = b.bytes[a]
    <2>1. low + 1 \in low + 1 .. q /\ \A n \in (low + 1) + 1 .. q : n \in low + 1 .. q
      BY <1>1
    <2>2. c.bytes[a] = b.bytes[a]
      BY <1>13, <2>1 DEF UndoneOf
    <2>3. e.address # a
      BY <1>13, <2>1
    <2> QED
      BY <1>7, <1>8, <2>2, <2>3
  <1>14. ASSUME NEW a \in Backed, NEW n \in low + 1 .. q, FirstOf(b, low, n, a)
         PROVE  d.bytes[a] = Entry(b, n).old
    <2>1. CASE n = low + 1
      <3>1. e.address = a /\ Entry(b, n).old = e.old
        BY <1>14, <2>1 DEF FirstOf
      <3> QED
        BY <1>7, <1>8, <3>1
    <2>2. CASE n \in (low + 1) + 1 .. q
      <3>1. /\ low + 1 \in low + 1 .. n - 1
            /\ \A m \in (low + 1) + 1 .. n - 1 : m \in low + 1 .. n - 1
        BY <1>1, <2>2
      <3>2. FirstOf(b, low + 1, n, a) /\ e.address # a
        BY <1>14, <3>1 DEF FirstOf
      <3>3. c.bytes[a] = Entry(b, n).old
        BY <2>2, <3>2 DEF UndoneOf
      <3> QED
        BY <1>7, <1>8, <3>2, <3>3
    <2> QED
      BY <1>10, <2>1, <2>2
  <1> QED
    BY <1>7, <1>9, <1>11, <1>12, <1>13, <1>14 DEF UndoneOf, d

LEMMA UndoneToUndone ==
    ASSUME NEW b \in Buses, NEW low \in 0 .. b.sequence,
           b.sequence - low <= Capacity, ~Hollow(b, low)
    PROVE  UndoneOf(b, UndoneTo(b, low), low)
  <1> DEFINE q == b.sequence
             N == q - low
             Is(f) == f = [k \in 0 .. N |->
                             IF k = 0 THEN b
                             ELSE UndoMutation(f[k - 1], q - k + 1)]
             step == [k \in 1 .. N |-> [c \in Buses |-> UndoMutation(c, q - k + 1)]]
  <1>1. q \in Nat /\ low \in Nat /\ N \in Nat
    BY DEF Buses
  <1>2. step \in [1 .. N -> [Buses -> Buses]]
    <2>1. \A k \in 1 .. N : q - k + 1 \in Nat \ {0}
      BY <1>1
    <2> QED
      BY <2>1, UndoFields
  <1>3. PICK f : Iteration(f, Buses, b, N, step)
    <2> HIDE DEF step, N
    <2> QED
      BY <1>1, <1>2, IterationExists
  <1>4. Is(f)
    <2>1. ASSUME NEW k \in 1 .. N PROVE f[k] = UndoMutation(f[k - 1], q - k + 1)
      <3>1. k - 1 \in 0 .. N
        BY <1>1
      <3>2. f[k - 1] \in Buses /\ f[k] = step[k][f[k - 1]]
        BY <1>3, <3>1 DEF Iteration
      <3> QED
        BY <3>2
    <2>2. f \in [0 .. N -> Buses] /\ f[0] = b
      BY <1>3 DEF Iteration
    <2> HIDE DEF N
    <2> QED
      BY <1>1, <2>1, <2>2
  <1> DEFINE at == CHOOSE g : Is(g)
  <1>5. Is(at)
    BY <1>4
  <1>6. UndoneTo(b, low) = at[N]
    BY DEF UndoneTo
  <1> HIDE DEF at
  <1> DEFINE Good == [k \in 0 .. N |-> {c \in Buses : UndoneOf(b, c, q - k)}]
  <1>7. at[0] \in Good[0]
    <2>1. at[0] = b /\ 0 \in 0 .. N
      BY <1>1, <1>5
    <2>2. q - 0 = q /\ q + 1 .. q = {}
      BY <1>1
    <2>3. UndoneOf(b, b, q)
      BY <2>2 DEF UndoneOf, SameControl
    <2> QED
      BY <2>1, <2>2, <2>3
  <1>8. \A k \in 1 .. N : at[k - 1] \in Good[k - 1] => at[k] \in Good[k]
    <2> SUFFICES ASSUME NEW k \in 1 .. N, at[k - 1] \in Good[k - 1]
                 PROVE  at[k] \in Good[k]
      OBVIOUS
    <2> DEFINE l == q - k
    <2>1. /\ k \in 0 .. N /\ k - 1 \in 0 .. N /\ l \in Nat /\ low <= l /\ l + 1 <= q
          /\ q - (k - 1) = l + 1 /\ q - k + 1 = l + 1 /\ q - l <= Capacity
      BY <1>1, JournalAssumption
    <2>2. at[k] = UndoMutation(at[k - 1], l + 1)
      <3>1. at[k] = UndoMutation(at[k - 1], q - k + 1)
        BY <1>1, <1>5
      <3> QED
        BY <3>1, <2>1, Zenon
    <2>3. UndoneOf(b, at[k - 1], l + 1)
      BY <2>1
    <2>4. ~Hollow(b, l)
      <3>1. \A n \in l + 1 .. q : n \in low + 1 .. q
        BY <1>1, <2>1
      <3> QED
        BY <3>1 DEF Hollow
    <2> HIDE DEF l
    <2>5. UndoneOf(b, at[k], l)
      BY <2>1, <2>2, <2>3, <2>4, UndoOneMore
    <2>6. at[k] \in Buses
      BY <2>5 DEF UndoneOf
    <2> QED
      BY <2>1, <2>5, <2>6 DEF l
  <1>9. \A k \in 0 .. N : at[k] \in Good[k]
    <2> HIDE DEF Good, N
    <2> QED
      BY <1>1, <1>7, <1>8, IterationStays
  <1>10. q - N = low /\ N \in 0 .. N
    BY <1>1
  <1> QED
    BY <1>6, <1>9, <1>10

(* Bus d is bus b rolled back to number s.                                 *)
RolledBack(b, d, s) ==
    /\ d \in Buses /\ d.sequence = s /\ d.restoration = b.restoration + 1
    /\ d.mmio = b.mmio /\ d.tracking = b.tracking /\ d.journaling = b.journaling
    /\ d.reading = b.reading /\ d.storing = b.storing /\ d.footprint = b.footprint
    /\ d.trapAll = b.trapAll /\ d.ramOnly = b.ramOnly
    /\ \/ d.execution = b.execution + 1
       \/ /\ d.execution = b.execution
          /\ \A a \in ExecutableBytes : d.bytes[a] = b.bytes[a]

(* A rollback to s undoes nothing a checkpoint at or before s relies on:   *)
(* its window is intact or holds an emptied slot.                          *)
LEMMA UndoneTracks ==
    ASSUME NEW b \in Buses, NEW c \in Buses, NEW s \in 0 .. b.sequence,
           b.sequence - s <= Capacity, ~Hollow(b, s), UndoneOf(b, c, s),
           NEW d \in Buses, d.sequence = s, d.bytes = c.bytes, d.journal = c.journal,
           NEW h \in 0 .. s
    PROVE  /\ \A T \in SUBSET Backed : \A was :
                 Tracks(b, h, was, T) => Tracks(d, h, was, T)
           /\ ~Hollow(b, h) /\ b.sequence - h <= Capacity => ~Hollow(d, h)
  <1> DEFINE q == b.sequence
  <1>1. /\ q \in Nat /\ s \in Nat /\ h \in Nat /\ h <= s /\ s <= q
        /\ Capacity \in Nat \ {0}
    BY JournalAssumption DEF Buses
  <1>2. CASE ~(q - h <= Capacity)
    <2>1. CASE ~(s - h <= Capacity)
      BY <1>2, <2>1, Zenon DEF Tracks
    <2>2. CASE s - h <= Capacity
      <3> DEFINE n == q - Capacity
      <3>1. n \in h + 1 .. s /\ n + Capacity = q /\ n \in Nat \ {0} /\ q \in s + 1 .. q
        BY <1>1, <1>2, <2>2
      <3>2. Slot(n) = Slot(q)
        BY <3>1, SlotShared
      <3>3. c.journal[Slot(q)] = EmptySlot
        BY <3>1 DEF UndoneOf
      <3>4. Entry(d, n).address \notin Backed
        BY <3>2, <3>3, NoByteAtZero DEF Entry, EmptySlot
      <3>5. Hollow(d, h)
        BY <3>1, <3>4 DEF Hollow
      <3> QED
        BY <1>2, <3>5, Zenon DEF Tracks
    <2> QED
      BY <2>1, <2>2
  <1>3. CASE q - h <= Capacity
    <2>1. ASSUME NEW n \in h + 1 .. s PROVE Entry(d, n) = Entry(b, n)
      <3>1. n \in Nat \ {0} /\ Slot(n) \in 0 .. Capacity - 1
        BY <1>1, SlotInRange
      <3>2. ASSUME NEW m \in s + 1 .. q PROVE Slot(m) # Slot(n)
        <4>1. m \in Nat \ {0} /\ n < m /\ m - n < Capacity
          BY <1>1, <1>3
        <4> QED
          BY <3>1, <4>1, SlotsDistinct
      <3> QED
        BY <3>1, <3>2 DEF UndoneOf, Entry
    <2>2. \A n \in h + 1 .. q : n \in h + 1 .. s \/ n \in s + 1 .. q
      BY <1>1
    <2>3. \A n \in h + 1 .. s : n \in h + 1 .. q
      BY <1>1
    <2>4. \A n \in s + 1 .. q : n \in h + 1 .. q
      BY <1>1
    <2>5. Hollow(b, h) => Hollow(d, h)
      BY <2>1, <2>2 DEF Hollow
    <2>6. Hollow(d, h) => Hollow(b, h)
      BY <2>1, <2>3 DEF Hollow
    <2>7. ASSUME NEW a \in Backed, NEW was, ClosedAt(b, h, was, a)
          PROVE  ClosedAt(d, h, was, a)
      <3>1. ASSUME \A n \in h + 1 .. s : Entry(d, n).address # a
            PROVE  d.bytes[a] = was[a]
        <4>0. \A n \in h + 1 .. s : Entry(b, n).address # a
          BY <2>1, <3>1
        <4>1. CASE \A n \in s + 1 .. q : Entry(b, n).address # a
          <5>1. \A n \in h + 1 .. q : Entry(b, n).address # a
            BY <2>2, <4>0, <4>1
          <5>2. d.bytes[a] = b.bytes[a]
            BY <4>1 DEF UndoneOf
          <5> QED
            BY <2>7, <5>1, <5>2 DEF ClosedAt
        <4>2. CASE \E n \in s + 1 .. q : Entry(b, n).address = a
          <5> DEFINE Hits == {n \in s + 1 .. q : Entry(b, n).address = a}
          <5>1. Hits \in SUBSET Nat /\ Hits # {}
            BY <1>1, <4>2
          <5>2. PICK n \in Hits : \A m \in Hits : n <= m
            <6> HIDE DEF Hits
            <6> QED
              BY <5>1, LeastExists
          <5>3. \A m \in s + 1 .. n - 1 : m \in s + 1 .. q /\ ~(n <= m)
            BY <1>1, <5>2
          <5>4. \A m \in s + 1 .. n - 1 : Entry(b, m).address # a
            BY <5>2, <5>3
          <5>5. n \in s + 1 .. q /\ FirstOf(b, s, n, a)
            BY <5>2, <5>4 DEF FirstOf
          <5>6. \A m \in h + 1 .. n - 1 : m \in h + 1 .. s \/ m \in s + 1 .. n - 1
            BY <1>1, <5>5
          <5>7. FirstOf(b, h, n, a)
            BY <4>0, <5>4, <5>5, <5>6 DEF FirstOf
          <5>8. Entry(b, n).old = was[a]
            BY <2>4, <2>7, <5>5, <5>7 DEF ClosedAt
          <5>9. c.bytes[a] = Entry(b, n).old
            BY <5>5 DEF UndoneOf
          <5> QED
            BY <5>8, <5>9
        <4> QED
          BY <4>1, <4>2
      <3>2. ASSUME NEW n \in h + 1 .. s, FirstOf(d, h, n, a)
            PROVE  Entry(d, n).old = was[a]
        <4>1. \A m \in h + 1 .. n - 1 : m \in h + 1 .. s
          BY <1>1
        <4>2. FirstOf(b, h, n, a)
          BY <2>1, <3>2, <4>1 DEF FirstOf
        <4> QED
          BY <2>1, <2>3, <2>7, <4>2 DEF ClosedAt
      <3> QED
        BY <3>1, <3>2 DEF ClosedAt
    <2>8. ASSUME NEW T \in SUBSET Backed, NEW was, Tracks(b, h, was, T)
          PROVE  Tracks(d, h, was, T)
      <3>1. CASE Hollow(b, h)
        BY <2>5, <3>1, Zenon DEF Tracks
      <3>2. CASE \A a \in T : ClosedAt(b, h, was, a)
        <4>1. \A a \in T : ClosedAt(d, h, was, a)
          BY <2>7, <3>2
        <4> QED
          BY <4>1, Zenon DEF Tracks
      <3> QED
        BY <1>3, <2>8, <3>1, <3>2, Zenon DEF Tracks
    <2> QED
      BY <2>6, <2>8, Zenon
  <1> QED
    BY <1>2, <1>3

(* What restoreSideEffects does of a capsule's window: it succeeds.        *)
RestoreGood(b, d, s) ==
    /\ RolledBack(b, d, s)
    /\ \A h \in 0 .. s :
          /\ \A T \in SUBSET Backed : \A was :
                Tracks(b, h, was, T) => Tracks(d, h, was, T)
          /\ ~Hollow(b, h) /\ b.sequence - h <= Capacity => ~Hollow(d, h)

LEMMA RestoreSucceeds ==
    ASSUME NEW b \in Buses, NEW at \in Checkpoints, b.journaling,
           at.tracking = b.tracking, at.mmio = b.mmio,
           at.sequence <= b.sequence, b.sequence - at.sequence <= Capacity,
           ~Hollow(b, at.sequence)
    PROVE  LET restored == RestoreSideEffects(b, at)
           IN  restored.ok = TRUE /\ RestoreGood(b, restored.bus, at.sequence)
  <1> DEFINE s == at.sequence
             bad == {n \in Window(b, at) : Entry(b, n).address \notin Backed}
             low == CHOOSE n \in {s} \cup bad : \A m \in {s} \cup bad : m <= n
             code == \E n \in Window(b, at) : Entry(b, n).address \in ExecutableBytes
             c == UndoneTo(b, s)
             d == [c EXCEPT !.sequence = s,
                            !.execution = IF code THEN @ + 1 ELSE @,
                            !.restoration = @ + 1]
  <1>1. /\ b.sequence \in Nat /\ s \in Nat /\ s \in 0 .. b.sequence
        /\ b.execution \in Nat /\ b.restoration \in Nat
    BY DEF Buses, Checkpoints
  <1>2. bad = {}
    BY DEF Hollow, Window
  <1>3. low = s
    <2>1. {s} \cup bad = {s}
      BY <1>2
    <2>2. \E n \in {s} : \A m \in {s} : m <= n
      BY <1>1
    <2> HIDE DEF bad
    <2> QED
      BY <2>1, <2>2
  <1>4. CanRestoreSideEffects(b, at)
    BY DEF CanRestoreSideEffects, WindowLive
  <1>5. RestoreSideEffects(b, at) = [ok |-> TRUE, bus |-> d]
    <2>1. UndoneTo(b, low) = c
      BY <1>3
    <2>2. RestoreSideEffects(b, at) =
             IF ~CanRestoreSideEffects(b, at) THEN [ok |-> FALSE, bus |-> b]
             ELSE IF bad # {} THEN [ok |-> FALSE, bus |-> UndoneTo(b, low)]
             ELSE [ok |-> TRUE,
                   bus |-> [UndoneTo(b, low) EXCEPT
                               !.sequence = s,
                               !.execution = IF code THEN @ + 1 ELSE @,
                               !.restoration = @ + 1]]
      BY Zenon DEF RestoreSideEffects
    <2> HIDE DEF c, low, bad, code
    <2> QED
      BY <1>2, <1>4, <2>1, <2>2
  <1>6. UndoneOf(b, c, s)
    BY <1>1, UndoneToUndone
  <1> HIDE DEF c
  <1>7. c \in Buses /\ SameControl(b, c) /\ c.sequence = b.sequence
    BY <1>6 DEF UndoneOf
  <1> DEFINE x == IF code THEN b.execution + 1 ELSE b.execution
             r == b.restoration + 1
  <1>8. d = [c EXCEPT !.sequence = s, !.execution = x, !.restoration = r]
    BY <1>7 DEF SameControl
  <1>9. x \in Nat /\ r \in Nat
    BY <1>1
  <1>10. code => x = b.execution + 1
    OBVIOUS
  <1>11. ~code => x = b.execution
    OBVIOUS
  <1> HIDE DEF x, r, d
  <1>12. d \in Buses
    BY <1>1, <1>7, <1>8, <1>9 DEF Buses
  <1>13. /\ d.sequence = s /\ d.execution = x /\ d.restoration = r
         /\ d.bytes = c.bytes /\ d.journal = c.journal
    BY <1>7, <1>8 DEF Buses
  <1>14. /\ d.mmio = b.mmio /\ d.tracking = b.tracking /\ d.journaling = b.journaling
         /\ d.reading = b.reading /\ d.storing = b.storing
         /\ d.footprint = b.footprint /\ d.trapAll = b.trapAll
         /\ d.ramOnly = b.ramOnly
    BY <1>7, <1>8 DEF Buses, SameControl
  <1>15. ASSUME ~code, NEW a \in ExecutableBytes PROVE d.bytes[a] = b.bytes[a]
    <2>1. a \in Backed
      BY DEF ExecutableBytes
    <2>2. \A n \in s + 1 .. b.sequence : Entry(b, n).address # a
      BY <1>15 DEF Window
    <2> QED
      BY <1>6, <1>13, <2>1, <2>2 DEF UndoneOf
  <1>16. RolledBack(b, d, s)
    <2>1. CASE code
      BY <1>10, <1>12, <1>13, <1>14, <2>1 DEF RolledBack, r
    <2>2. CASE ~code
      BY <1>11, <1>12, <1>13, <1>14, <1>15, <2>2 DEF RolledBack, r
    <2> QED
      BY <2>1, <2>2
  <1>17. ASSUME NEW h \in 0 .. s
         PROVE  /\ \A T \in SUBSET Backed : \A was :
                      Tracks(b, h, was, T) => Tracks(d, h, was, T)
                /\ ~Hollow(b, h) /\ b.sequence - h <= Capacity => ~Hollow(d, h)
    BY <1>1, <1>6, <1>7, <1>12, <1>13, UndoneTracks
  <1>18. RestoreGood(b, d, s)
    BY <1>16, <1>17, Zenon DEF RestoreGood
  <1> QED
    BY <1>5, <1>18

-----------------------------------------------------------------------------
(* Steps that do not roll back.                                            *)

(* Memory moves on from b to d, and the journal and the generations with it. *)
Evolves(b, d) ==
    /\ d \in Buses
    /\ b.sequence <= d.sequence
    /\ d.tracking = b.tracking /\ d.restoration = b.restoration
    /\ d.journaling = b.journaling
    /\ d.sequence = b.sequence => d.bytes = b.bytes
    /\ b.journaling => JournalKept(b, d)
    /\ \/ d.execution = b.execution + 1
       \/ /\ d.execution = b.execution
          /\ \A a \in ExecutableBytes : d.bytes[a] = b.bytes[a]

SameMemory(b, d) ==
    /\ d.bytes = b.bytes /\ d.journal = b.journal /\ d.sequence = b.sequence
    /\ d.execution = b.execution /\ d.tracking = b.tracking
    /\ d.restoration = b.restoration /\ d.journaling = b.journaling

LEMMA SameJournalKept ==
    ASSUME NEW b, NEW d, d.bytes = b.bytes, d.journal = b.journal,
           d.sequence = b.sequence
    PROVE  JournalKept(b, d)
  <1>1. \A n : Entry(d, n) = Entry(b, n)
    BY DEF Entry
  <1>2. \A h : Hollow(d, h) <=> Hollow(b, h)
    BY <1>1 DEF Hollow
  <1>3. ASSUME NEW h, NEW was, NEW a, ClosedAt(b, h, was, a)
        PROVE  ClosedAt(d, h, was, a)
    BY <1>1, <1>3 DEF ClosedAt, FirstOf
  <1>4. \A h, was, T : Tracks(b, h, was, T) => Tracks(d, h, was, T)
    BY <1>2, <1>3, Zenon DEF Tracks
  <1> QED
    BY <1>2, <1>4, Zenon DEF JournalKept

LEMMA SameEvolves ==
    ASSUME NEW b \in Buses, NEW d \in Buses, SameMemory(b, d)
    PROVE  Evolves(b, d)
  <1>1. JournalKept(b, d)
    BY SameJournalKept DEF SameMemory
  <1>2. b.sequence \in Nat
    BY DEF Buses
  <1> QED
    BY <1>1, <1>2 DEF Evolves, SameMemory

(* A checkpoint with an empty window: memory is what it was.               *)
LEMMA EmptyWindow ==
    ASSUME NEW b \in Buses, NEW was, NEW T
    PROVE  Tracks(b, b.sequence, was, T) <=> \A a \in T : b.bytes[a] = was[a]
  <1>1. b.sequence \in Nat /\ Capacity \in Nat
    BY JournalAssumption DEF Buses
  <1>2. b.sequence + 1 .. b.sequence = {} /\ b.sequence - b.sequence <= Capacity
    BY <1>1
  <1>3. ~Hollow(b, b.sequence)
    BY <1>2 DEF Hollow
  <1>4. \A a : ClosedAt(b, b.sequence, was, a) <=> b.bytes[a] = was[a]
    BY <1>2 DEF ClosedAt
  <1> QED
    BY <1>2, <1>3, <1>4 DEF Tracks

LEMMA EvolvesObserved ==
    ASSUME NEW b \in Buses, NEW d, Evolves(b, d), NEW o \in Observations,
           StillObserved(b, o)
    PROVE  StillObserved(d, o)
  <1>1. d \in Buses /\ d.tracking = b.tracking /\ d.journaling = b.journaling
    BY DEF Evolves
  <1>2. o.at.tracking <= d.tracking
    BY <1>1 DEF StillObserved
  <1>3. ASSUME o.at.tracking = d.tracking
        PROVE  /\ o.at.sequence <= d.sequence
               /\ d.journaling => Tracks(d, o.at.sequence, o.was, Backed)
               /\ o.at.sequence = d.sequence => d.bytes = o.was
    <2>1. /\ o.at.sequence \in Nat /\ b.sequence \in Nat /\ d.sequence \in Nat
          /\ o.at.sequence <= b.sequence /\ b.sequence <= d.sequence
      BY <1>1, <1>3 DEF StillObserved, Buses, Observations, Checkpoints, Evolves
    <2>2. o.at.sequence \in 0 .. b.sequence /\ o.at.sequence <= d.sequence
      BY <2>1
    <2>3. ASSUME d.journaling PROVE Tracks(d, o.at.sequence, o.was, Backed)
      <3>1. JournalKept(b, d) /\ Tracks(b, o.at.sequence, o.was, Backed)
        BY <1>1, <1>3, <2>3 DEF Evolves, StillObserved
      <3> QED
        BY <2>2, <3>1, Zenon DEF JournalKept
    <2>4. ASSUME o.at.sequence = d.sequence PROVE d.bytes = o.was
      <3>1. d.sequence = b.sequence
        BY <2>1, <2>4
      <3> QED
        BY <1>1, <1>3, <2>4, <3>1 DEF StillObserved, Evolves
    <2> QED
      BY <2>2, <2>3, <2>4
  <1> QED
    BY <1>2, <1>3 DEF StillObserved

LEMMA EvolvesCertified ==
    ASSUME NEW b \in Buses, NEW d, Evolves(b, d), NEW o \in Certificates,
           StillCertified(b, o)
    PROVE  StillCertified(d, o)
  <1>1. /\ d \in Buses /\ d.tracking = b.tracking /\ d.journaling = b.journaling
        /\ d.restoration = b.restoration
    BY DEF Evolves
  <1>2. /\ o.restoration <= d.restoration /\ o.at.tracking <= d.tracking
        /\ \A a \in o.touched : FootprintContains(o.footprint, a)
    BY <1>1 DEF StillCertified
  <1>3. ASSUME o.restoration = d.restoration, o.at.tracking = d.tracking
        PROVE  /\ d.journaling
               /\ o.at.sequence <= d.sequence
               /\ Tracks(d, o.at.sequence, o.was, o.touched)
    <2>1. /\ o.at.sequence \in Nat /\ b.sequence \in Nat /\ d.sequence \in Nat
          /\ o.at.sequence <= b.sequence /\ b.sequence <= d.sequence
          /\ o.touched \in SUBSET Backed
      BY <1>1, <1>3 DEF StillCertified, Buses, Certificates, Checkpoints, Evolves
    <2>2. o.at.sequence \in 0 .. b.sequence /\ o.at.sequence <= d.sequence
      BY <2>1
    <2>3. /\ JournalKept(b, d) /\ Tracks(b, o.at.sequence, o.was, o.touched)
          /\ b.journaling
      BY <1>1, <1>3 DEF Evolves, StillCertified
    <2>4. Tracks(d, o.at.sequence, o.was, o.touched)
      BY <2>1, <2>2, <2>3, Zenon DEF JournalKept
    <2> QED
      BY <1>1, <2>2, <2>3, <2>4
  <1> QED
    BY <1>2, <1>3, Zenon DEF StillCertified

LEMMA EvolvesDecoded ==
    ASSUME NEW b \in Buses, NEW d \in Buses, NEW o \in CodeStamps,
           \/ d.execution = b.execution + 1
           \/ /\ d.execution = b.execution
              /\ \A a \in ExecutableBytes : d.bytes[a] = b.bytes[a],
           StillDecoded(b, o)
    PROVE  StillDecoded(d, o)
  <1>1. b.execution \in Nat /\ d.execution \in Nat /\ o.execution \in Nat
    BY DEF Buses, CodeStamps
  <1> QED
    BY <1>1 DEF StillDecoded

LEMMA EvolvesHeld ==
    ASSUME NEW b \in Buses, NEW d, Evolves(b, d), NEW o, HeldOK(b, o)
    PROVE  HeldOK(d, o)
  <1>1. o \in Observations => StillObserved(d, o)
    BY EvolvesObserved DEF HeldOK
  <1>2. o \in Certificates => StillCertified(d, o)
    BY EvolvesCertified DEF HeldOK
  <1>3. o \in CodeStamps => StillDecoded(d, o)
    BY EvolvesDecoded DEF HeldOK, Evolves
  <1> QED
    BY <1>1, <1>2, <1>3 DEF HeldOK

LEMMA CapsuleTyped ==
    ASSUME NEW c \in Plain \cup Building
    PROVE  /\ c.at \in Checkpoints /\ c.entry \in Footprints
           /\ c.was \in [Backed -> Values] /\ c # None
           /\ c.at.sequence \in Nat
           /\ c.building <=> c \in Building
  <1>1. /\ c.client = "capsule" /\ c.at \in Checkpoints /\ c.entry \in Footprints
        /\ c.was \in [Backed -> Values]
    <2>1. CASE c \in Plain
      BY <2>1 DEF Plain
    <2>2. CASE c \in Building
      BY <2>2 DEF Building
    <2> QED
      BY <2>1, <2>2
  <1>2. c # None
    BY <1>1 DEF None
  <1>3. c.at.sequence \in Nat
    BY <1>1 DEF Checkpoints
  <1>4. c.building <=> c \in Building
    <2>1. CASE c \in Plain
      <3>1. c.building = FALSE
        BY <2>1 DEF Plain
      <3>2. c \notin Building
        BY <3>1 DEF Building
      <3> QED
        BY <3>1, <3>2
    <2>2. CASE c \in Building
      BY <2>2 DEF Building
    <2> QED
      BY <2>1, <2>2
  <1> QED
    BY <1>1, <1>2, <1>3, <1>4

LEMMA EvolvesReversible ==
    ASSUME NEW b \in Buses, NEW d, Evolves(b, d), d.mmio = b.mmio,
           NEW c \in Plain \cup Building, Reversible(b, c),
           d.sequence - c.at.sequence <= MaxCapsule
    PROVE  Reversible(d, c)
  <1>1. /\ d \in Buses /\ d.tracking = b.tracking /\ d.journaling = b.journaling
    BY DEF Evolves
  <1>2. /\ c.at.sequence \in Nat /\ b.sequence \in Nat /\ d.sequence \in Nat
        /\ c.at.sequence <= b.sequence /\ b.sequence <= d.sequence
        /\ MaxCapsule \in Nat /\ Capacity \in Nat /\ MaxCapsule <= Capacity
    BY <1>1, CapsuleTyped, JournalAssumption DEF Reversible, Buses, Evolves
  <1>3. c.at.sequence \in 0 .. b.sequence /\ c.at.sequence <= d.sequence
        /\ d.sequence - c.at.sequence <= Capacity
    BY <1>2
  <1>4. JournalKept(b, d)
    BY DEF Reversible, Evolves
  <1>5. ~Hollow(d, c.at.sequence)
    BY <1>3, <1>4, Zenon DEF JournalKept, Reversible
  <1>6. Tracks(d, c.at.sequence, c.was, Backed)
    BY <1>3, <1>4, Zenon DEF JournalKept, Reversible
  <1> QED
    BY <1>1, <1>3, <1>5, <1>6 DEF Reversible

-----------------------------------------------------------------------------
(* Loads and stores.                                                       *)

SameMode(b, d) ==
    /\ d.reading = b.reading /\ d.storing = b.storing
    /\ d.trapAll = b.trapAll /\ d.ramOnly = b.ramOnly

LEMMA SameThenEvolves ==
    ASSUME NEW b \in Buses, NEW c \in Buses, NEW d, SameMemory(b, c), Evolves(c, d)
    PROVE  Evolves(b, d)
  <1>1. d \in Buses /\ c.sequence = b.sequence /\ b.sequence \in Nat /\ d.sequence \in Nat
    BY DEF SameMemory, Evolves, Buses
  <1>2. JournalKept(b, c)
    BY SameJournalKept DEF SameMemory
  <1>3. b.journaling => JournalKept(b, d)
    <2>1. SUFFICES ASSUME b.journaling PROVE JournalKept(b, d)
      OBVIOUS
    <2>2. JournalKept(c, d)
      BY <2>1 DEF SameMemory, Evolves
    <2>3. b.sequence <= c.sequence /\ c.sequence <= d.sequence
      BY <1>1 DEF Evolves
    <2> QED
      BY <1>1, <1>2, <2>2, <2>3, KeptTransitive
  <1> QED
    BY <1>1, <1>3 DEF SameMemory, Evolves

(* A store of bytes into a backed region: code is renewed with them.       *)
LEMMA StoreEvolves ==
    ASSUME NEW b \in Buses, NEW r \in Regions, DirectlyBacked(r),
           NEW start \in Nat, NEW width \in Nat, NEW data \in [1 .. width -> Values],
           ContainsRange(r, start, width)
    PROVE  LET d == NewCode(StoreBytes(b, start, data), r)
           IN  /\ Evolves(b, d) /\ SameMode(b, d)
               /\ d.mmio = b.mmio /\ d.footprint = b.footprint
               /\ d.sequence <= b.sequence + width
  <1> DEFINE A == start .. start + width - 1
             c == StoreBytes(b, start, data)
             d == NewCode(c, r)
  <1>1. \A a \in A : a \in Address /\ Find(a) = r /\ a \in Backed
    BY RangeInRegion
  <1>2. Stored(b, c, A, width)
    BY <1>1, StoreBytesStored
  <1> HIDE DEF c, A
  <1>3. c \in Buses /\ SameControl(b, c) /\ c.execution \in Nat
    BY <1>2 DEF Stored, Buses
  <1>4. CASE r.executable
    <2>1. d = [c EXCEPT !.execution = c.execution + 1]
      BY <1>3, <1>4 DEF NewCode
    <2>2. d \in Buses
      <3> DEFINE e == c.execution + 1
      <3>1. e \in Nat /\ d = [c EXCEPT !.execution = e]
        BY <1>3, <2>1
      <3> HIDE DEF e, d
      <3> QED
        BY <1>3, <3>1 DEF Buses
    <2>3. /\ d.bytes = c.bytes /\ d.journal = c.journal /\ d.sequence = c.sequence
          /\ d.execution = c.execution + 1
      BY <1>3, <2>1 DEF Buses
    <2>4. /\ d.mmio = b.mmio /\ d.footprint = b.footprint /\ d.tracking = b.tracking
          /\ d.restoration = b.restoration /\ d.journaling = b.journaling
          /\ SameMode(b, d)
      BY <1>3, <2>1 DEF Buses, SameControl, SameMode
    <2>5. JournalKept(c, d)
      BY <2>3, SameJournalKept
    <2>6. b.journaling => JournalKept(b, d)
      <3>1. b.sequence \in Nat /\ c.sequence \in Nat /\ b.sequence <= c.sequence /\ c.sequence <= d.sequence
        BY <1>2, <1>3, <2>3 DEF Stored, Buses
      <3> QED
        BY <1>2, <1>3, <2>2, <2>5, <3>1, KeptTransitive DEF Stored
    <2>7. d.execution = b.execution + 1
      BY <1>3, <2>3 DEF SameControl
    <2>8. b.sequence <= d.sequence /\ d.sequence <= b.sequence + width
      BY <1>2, <2>3 DEF Stored
    <2>9. d.sequence = b.sequence => d.bytes = b.bytes
      BY <1>2, <2>3 DEF Stored
    <2> HIDE DEF d
    <2>10. Evolves(b, d)
      BY <2>2, <2>4, <2>6, <2>7, <2>8, <2>9 DEF Evolves
    <2> QED
      BY <2>4, <2>8, <2>10 DEF d, c
  <1>5. CASE ~r.executable
    <2>1. d = c
      BY <1>5 DEF NewCode
    <2>2. \A a \in ExecutableBytes : a \in Backed \ A
      BY <1>1, <1>5 DEF ExecutableBytes
    <2>3. \A a \in ExecutableBytes : d.bytes[a] = b.bytes[a]
      BY <1>2, <2>1, <2>2 DEF Stored
    <2> HIDE DEF d
    <2>4. Evolves(b, d)
      BY <1>2, <2>1, <2>3 DEF Evolves, Stored, SameControl
    <2>5. /\ SameMode(b, d) /\ d.mmio = b.mmio /\ d.footprint = b.footprint
          /\ d.sequence <= b.sequence + width
      BY <1>2, <2>1 DEF Stored, SameControl, SameMode
    <2> QED
      BY <2>4, <2>5 DEF d, c
  <1> QED
    BY <1>4, <1>5

(* What marking the bytes of an access does to the bus.                    *)
Marks(b, d, start, width) ==
    /\ d \in Buses /\ SameMemory(b, d) /\ SameMode(b, d) /\ d.mmio = b.mmio
    /\ d.footprint.complete = b.footprint.complete
    /\ \A a : FootprintContains(b.footprint, a) => FootprintContains(d.footprint, a)
    /\ \A a \in start .. start + width - 1 : FootprintContains(d.footprint, a)

(* A footprint only grows, and covers what was added.                      *)
LEMMA FootprintAdded ==
    ASSUME NEW b \in Buses, NEW start \in Nat, NEW width \in Nat
    PROVE  Marks(b, AddFootprint(b, start, width), start, width)
  <1> DEFINE X == BitsOf(Words(start, width))
             f == [b.footprint EXCEPT !.bits = b.footprint.bits \cup X]
             d == AddFootprint(b, start, width)
  <1>1. b.footprint \in Footprints
    BY DEF Buses
  <1>2. Words(start, width) \in SUBSET Nat
    BY JournalAssumption DEF Words
  <1>3. X \in SUBSET BitsOf(Nat)
    BY <1>2 DEF BitsOf
  <1>4. \A a \in start .. start + width - 1 : FootprintBits[a \div WordBytes] \subseteq X
    BY DEF BitsOf, Words
  <1>5. d = [b EXCEPT !.footprint = f]
    BY <1>1 DEF AddFootprint, Buses
  <1> HIDE DEF X
  <1>6. /\ f \in Footprints /\ f.bits = b.footprint.bits \cup X
        /\ f.complete = b.footprint.complete
    BY <1>1, <1>3 DEF Footprints
  <1> HIDE DEF f, d
  <1>7. d \in Buses /\ d.footprint = f
    BY <1>5, <1>6 DEF Buses
  <1>8. SameMemory(b, d) /\ SameMode(b, d) /\ d.mmio = b.mmio
    BY <1>5 DEF Buses, SameMemory, SameMode
  <1>9. \A a : FootprintContains(b.footprint, a) => FootprintContains(d.footprint, a)
    BY <1>6, <1>7 DEF FootprintContains
  <1>10. \A a \in start .. start + width - 1 : FootprintContains(d.footprint, a)
    BY <1>4, <1>6, <1>7 DEF FootprintContains
  <1>11. Marks(b, d, start, width)
    BY <1>6, <1>7, <1>8, <1>9, <1>10 DEF Marks
  <1> QED
    BY <1>11 DEF d

(* What any access makes of the bus: at most n bytes are stored, a device  *)
(* is reached only where none is trapped, the footprint grows.             *)
AccessOf(b, d, n) ==
    /\ Evolves(b, d) /\ SameMode(b, d)
    /\ d.sequence <= b.sequence + n
    /\ b.trapAll => d.mmio = b.mmio
    /\ d.footprint.complete = b.footprint.complete
    /\ \A a : FootprintContains(b.footprint, a) => FootprintContains(d.footprint, a)

TouchedBytes(x) ==
    {a \in x.to.address .. x.to.address + x.width - 1 : a \in Backed}

Covers(d, x) == \A a \in TouchedBytes(x) : FootprintContains(d.footprint, a)

LEMMA RefusedAccess ==
    ASSUME NEW b \in Buses, NEW n \in Nat
    PROVE  AccessOf(b, b, n)
  <1>1. SameMemory(b, b) /\ SameMode(b, b)
    BY DEF SameMemory, SameMode
  <1>2. Evolves(b, b)
    BY <1>1, SameEvolves
  <1>3. b.sequence <= b.sequence + n
    BY DEF Buses
  <1> QED
    BY <1>1, <1>2, <1>3 DEF AccessOf

LEMMA DispatchedAccess ==
    ASSUME NEW b \in Buses, ~b.trapAll, NEW n \in Nat
    PROVE  AccessOf(b, [b EXCEPT !.mmio = @ + 1], n)
  <1> DEFINE d == [b EXCEPT !.mmio = b.mmio + 1]
  <1>1. d \in Buses
    BY DEF Buses
  <1>2. SameMemory(b, d) /\ SameMode(b, d) /\ d.footprint = b.footprint
    BY DEF Buses, SameMemory, SameMode
  <1> HIDE DEF d
  <1>3. Evolves(b, d)
    BY <1>1, <1>2, SameEvolves
  <1>4. d.sequence <= b.sequence + n
    BY <1>1, <1>2 DEF Buses, SameMemory
  <1>5. AccessOf(b, d, n)
    BY <1>2, <1>3, <1>4 DEF AccessOf
  <1> QED
    BY <1>5 DEF d

(* No byte of a device register is backed.                                 *)
LEMMA DeviceTouchesNothing ==
    ASSUME NEW x, Serves(x), x.to.region.kind = "mmio"
    PROVE  TouchedBytes(x) = {}
  <1>1. \A a \in x.to.address .. x.to.address + x.width - 1 : Find(a) = x.to.region
    BY RangeInRegion DEF Serves
  <1> QED
    BY <1>1 DEF TouchedBytes, Backed, DirectlyBacked

LEMMA WriteAccess ==
    ASSUME NEW b \in Buses, NEW x, Serves(x), x.to.fault = "none",
           NEW data \in [1 .. x.width -> Values]
    PROVE  LET done == Write(b, x.to, data)
           IN  /\ AccessOf(b, done.bus, x.width)
               /\ done.fault = "none" /\ b.storing => Covers(done.bus, x)
  <1> DEFINE r == x.to.region
             done == Write(b, x.to, data)
             noted == IF b.storing
                      THEN AddFootprint(b, x.to.address, Len(data)) ELSE b
             stored == NewCode(StoreBytes(noted, x.to.address, data), r)
  <1>1. /\ x.width \in Nat /\ x.to.address \in Nat /\ r \in Regions
        /\ r.kind # "alias" /\ r.kind \in RegionKind
        /\ ContainsRange(r, x.to.address, x.width)
    BY MapAssumption DEF Serves
  <1>2. CASE \/ ~r.writable
             \/ b.ramOnly /\ (r.kind # "ram" \/ r.executable)
             \/ r.kind = "mmio" /\ b.trapAll
    <2>1. done.bus = b /\ done.fault # "none"
      BY <1>2 DEF Write, Refused
    <2> QED
      BY <1>1, <2>1, RefusedAccess
  <1>3. CASE /\ r.writable /\ ~(b.ramOnly /\ (r.kind # "ram" \/ r.executable))
             /\ r.kind = "mmio" /\ ~b.trapAll
    <2>1. done.bus = [b EXCEPT !.mmio = @ + 1]
      BY <1>3 DEF Write, Dispatched, Done
    <2>2. TouchedBytes(x) = {}
      BY <1>3, DeviceTouchesNothing
    <2>3. AccessOf(b, done.bus, x.width)
      BY <1>1, <1>3, <2>1, DispatchedAccess
    <2> QED
      BY <2>2, <2>3 DEF Covers
  <1>4. CASE /\ r.writable /\ ~(b.ramOnly /\ (r.kind # "ram" \/ r.executable))
             /\ r.kind # "mmio"
    <2>1. done.bus = stored
      BY <1>4 DEF Write, Done
    <2>2. DirectlyBacked(r)
      BY <1>1, <1>4 DEF RegionKind, DirectlyBacked
    <2>3. Len(data) = x.width
      BY <1>1, DataLength
    <2>4. /\ noted \in Buses /\ SameMemory(b, noted) /\ SameMode(b, noted)
          /\ noted.mmio = b.mmio /\ noted.footprint.complete = b.footprint.complete
          /\ \A a : FootprintContains(b.footprint, a) => FootprintContains(noted.footprint, a)
          /\ b.storing => \A a \in x.to.address .. x.to.address + x.width - 1 :
                             FootprintContains(noted.footprint, a)
      <3>1. CASE b.storing
        <4>1. noted = AddFootprint(b, x.to.address, x.width)
          BY <2>3, <3>1
        <4> HIDE DEF noted
        <4>2. Marks(b, noted, x.to.address, x.width)
          BY <1>1, <4>1, FootprintAdded
        <4> QED
          BY <4>2, Zenon DEF Marks
      <3>2. CASE ~b.storing
        BY <3>2 DEF SameMemory, SameMode
      <3> QED
        BY <3>1, <3>2
    <2> HIDE DEF noted
    <2>5. /\ Evolves(noted, stored) /\ SameMode(noted, stored)
          /\ stored.mmio = noted.mmio /\ stored.footprint = noted.footprint
          /\ stored.sequence <= noted.sequence + x.width
      BY <1>1, <2>2, <2>4, StoreEvolves
    <2> HIDE DEF stored, done
    <2>6. Evolves(b, stored)
      BY <2>4, <2>5, SameThenEvolves
    <2>7. SameMode(b, stored) /\ stored.mmio = b.mmio
      BY <2>4, <2>5 DEF SameMode
    <2>8. stored.sequence <= b.sequence + x.width
      BY <2>4, <2>5 DEF SameMemory
    <2>9. stored.footprint.complete = b.footprint.complete
      BY <2>4, <2>5
    <2>10. AccessOf(b, stored, x.width)
      BY <2>4, <2>5, <2>6, <2>7, <2>8, <2>9 DEF AccessOf
    <2>11. b.storing => Covers(stored, x)
      BY <2>4, <2>5 DEF Covers, TouchedBytes
    <2> QED
      BY <2>1, <2>10, <2>11 DEF done
  <1> QED
    BY <1>2, <1>3, <1>4

LEMMA ReadAccess ==
    ASSUME NEW b \in Buses, NEW x, Serves(x), x.to.fault = "none"
    PROVE  LET done == Read(b, x.to, x.width)
           IN  /\ AccessOf(b, done.bus, 0)
               /\ done.fault = "none" /\ b.reading => Covers(done.bus, x)
  <1> DEFINE r == x.to.region
             done == Read(b, x.to, x.width)
             noted == AddFootprint(b, x.to.address, x.width)
  <1>1. x.width \in Nat /\ x.to.address \in Nat /\ b.sequence \in Nat
    BY DEF Serves, Buses
  <1>2. CASE r.kind = "mmio" /\ b.trapAll
    <2>1. done.bus = b /\ done.fault # "none"
      BY <1>2 DEF Read, Refused
    <2> QED
      BY <2>1, RefusedAccess
  <1>3. CASE r.kind = "mmio" /\ ~b.trapAll
    <2>1. done.bus = [b EXCEPT !.mmio = @ + 1]
      BY <1>3 DEF Read, Dispatched, Done
    <2>2. TouchedBytes(x) = {}
      BY <1>3, DeviceTouchesNothing
    <2>3. AccessOf(b, done.bus, 0)
      BY <1>3, <2>1, DispatchedAccess
    <2> QED
      BY <2>2, <2>3 DEF Covers
  <1>4. CASE r.kind # "mmio" /\ b.reading
    <2>1. done.bus = noted
      BY <1>4 DEF Read, Done
    <2>2. /\ noted \in Buses /\ SameMemory(b, noted) /\ SameMode(b, noted)
          /\ noted.mmio = b.mmio /\ noted.footprint.complete = b.footprint.complete
          /\ \A a : FootprintContains(b.footprint, a) => FootprintContains(noted.footprint, a)
          /\ \A a \in x.to.address .. x.to.address + x.width - 1 :
                FootprintContains(noted.footprint, a)
      <3>1. Marks(b, noted, x.to.address, x.width)
        BY <1>1, FootprintAdded
      <3> HIDE DEF noted
      <3> QED
        BY <3>1, Zenon DEF Marks
    <2> HIDE DEF noted, done
    <2>3. Evolves(b, noted)
      BY <2>2, SameEvolves
    <2>4. noted.sequence <= b.sequence + 0
      BY <1>1, <2>2 DEF SameMemory
    <2>5. AccessOf(b, noted, 0)
      BY <2>2, <2>3, <2>4 DEF AccessOf
    <2>6. Covers(noted, x)
      BY <2>2 DEF Covers, TouchedBytes
    <2> QED
      BY <2>1, <2>5, <2>6 DEF done
  <1>5. CASE r.kind # "mmio" /\ ~b.reading
    <2>1. done.bus = b
      BY <1>5 DEF Read, Done
    <2> QED
      BY <1>5, <2>1, RefusedAccess
  <1> QED
    BY <1>2, <1>3, <1>4, <1>5

LEMMA LoadAccess ==
    ASSUME NEW b \in Buses, NEW start \in Nat, NEW width \in Nat,
           NEW data \in [1 .. width -> Values]
    PROVE  AccessOf(b, LoadBytes(b, start, data).bus, width)
  <1> DEFINE r == Find(start)
             stored == NewCode(StoreBytes(b, start, data), r)
  <1>1. Len(data) = width
    BY DataLength
  <1>2. CASE r = NoRegion \/ ~ContainsRange(r, start, width) \/ ~DirectlyBacked(r)
    <2>1. LoadBytes(b, start, data).bus = b
      BY <1>1, <1>2 DEF LoadBytes, Refused
    <2> QED
      BY <2>1, RefusedAccess
  <1>3. CASE r # NoRegion /\ ContainsRange(r, start, width) /\ DirectlyBacked(r)
    <2>1. LoadBytes(b, start, data).bus = stored
      BY <1>1, <1>3 DEF LoadBytes, Done
    <2>2. r \in Regions
      BY <1>3, FindContains
    <2>3. /\ Evolves(b, stored) /\ SameMode(b, stored)
          /\ stored.mmio = b.mmio /\ stored.footprint = b.footprint
          /\ stored.sequence <= b.sequence + width
      BY <1>3, <2>2, StoreEvolves
    <2> HIDE DEF stored
    <2>4. AccessOf(b, stored, width)
      BY <2>3 DEF AccessOf
    <2> QED
      BY <2>1, <2>4
  <1> QED
    BY <1>2, <1>3

(* The capsule records what an access of its replay touched.               *)
TouchOf(c, e, d) ==
    \/ e = c
    \/ /\ c \in Building
       /\ \E B \in SUBSET Backed :
             /\ e = [c EXCEPT !.touched = c.touched \cup B]
             /\ \A a \in B : FootprintContains(d.footprint, a)

LEMMA AccessKeeps ==
    ASSUME NEW b, NEW c, NEW o, Inv(b, c, o), NEW n \in Nat, NEW d, AccessOf(b, d, n),
           d.sequence <= MaxSequence,
           c # None => d.sequence - c.at.sequence <= MaxCapsule,
           NEW e, TouchOf(c, e, d)
    PROVE  Inv(d, e, o)
  <1>1. /\ b \in Buses /\ d \in Buses /\ Evolves(b, d) /\ SameMode(b, d)
        /\ c \in {None} \cup Plain \cup Building
        /\ b.trapAll <=> c # None
    BY DEF Inv, Typed, AccessOf, Evolves
  <1>2. /\ e \in {None} \cup Plain \cup Building
        /\ e # None <=> c # None
        /\ e \in Building <=> c \in Building
        /\ c # None => e.at = c.at /\ e.was = c.was
        /\ c \in Building => e.start = c.start
        /\ c \in Building => \A a \in e.touched :
              a \in c.touched \/ FootprintContains(d.footprint, a)
    <2>1. CASE e = c
      BY <1>1, <2>1
    <2>2. CASE e # c
      <3>1. PICK B \in SUBSET Backed :
               /\ e = [c EXCEPT !.touched = c.touched \cup B]
               /\ \A a \in B : FootprintContains(d.footprint, a)
        BY <2>2 DEF TouchOf
      <3>2. c \in Building
        BY <2>2 DEF TouchOf
      <3>3. /\ e \in Building /\ e.at = c.at /\ e.was = c.was /\ e.start = c.start
            /\ e.touched = c.touched \cup B
        BY <3>1, <3>2 DEF Building
      <3>4. e # None /\ c # None
        BY <3>2, <3>3, CapsuleTyped
      <3> QED
        BY <3>1, <3>2, <3>3, <3>4
    <2> QED
      BY <2>1, <2>2
  <1>3. Typed(d, e, o)
    <2>1. d.footprint.complete => d.reading
      BY DEF Inv, Typed, AccessOf, SameMode
    <2>2. (d.trapAll <=> e # None) /\ (d.ramOnly <=> e # None) /\ (d.storing <=> e \in Building)
      BY <1>1, <1>2 DEF Inv, Typed, SameMode
    <2>3. o \in {None} \cup Observations \cup Certificates \cup CodeStamps
      BY DEF Inv, Typed
    <2> QED
      BY <1>1, <1>2, <2>1, <2>2, <2>3 DEF Typed
  <1>4. ASSUME c # None PROVE Reversible(d, c) /\ Reversible(d, e)
    <2>1. d.mmio = b.mmio
      BY <1>1, <1>4 DEF AccessOf
    <2>2. Reversible(b, c) /\ c \in Plain \cup Building
      BY <1>1, <1>4 DEF Inv
    <2>3. Reversible(d, c)
      BY <1>1, <1>4, <2>1, <2>2, EvolvesReversible
    <2> QED
      BY <1>2, <1>4, <2>3 DEF Reversible
  <1>5. ASSUME c \in Building PROVE Replaying(d, e)
    <2>1. c # None /\ Replaying(b, c)
      BY <1>5, CapsuleTyped DEF Inv
    <2>2. d.mmio = b.mmio /\ d.reading = b.reading /\ d.tracking = b.tracking
      BY <1>1, <2>1 DEF AccessOf, SameMode, Evolves
    <2>3. \A a \in e.touched : FootprintContains(d.footprint, a)
      BY <1>2, <1>5, <2>1 DEF AccessOf, Replaying
    <2>4. c.start.sequence \in Nat /\ b.sequence \in Nat /\ d.sequence \in Nat
          /\ b.sequence <= d.sequence
      BY <1>1, <1>5 DEF Building, Checkpoints, Buses, Evolves
    <2>5. c.start.sequence <= d.sequence
      BY <2>1, <2>4 DEF Replaying
    <2> QED
      BY <1>2, <1>5, <2>1, <2>2, <2>3, <2>5 DEF Replaying
  <1>6. HeldOK(d, o)
    BY <1>1, EvolvesHeld DEF Inv
  <1>7. Earlier(d, e, o)
    BY <1>1, <1>2 DEF Inv, Earlier, Evolves
  <1> QED
    BY <1>2, <1>3, <1>4, <1>5, <1>6, <1>7 DEF Inv

-----------------------------------------------------------------------------
(* Each step keeps the invariant.                                          *)

LEMMA NoneIsNothing ==
    /\ None \notin Observations /\ None \notin Certificates /\ None \notin CodeStamps
    /\ None \notin Plain /\ None \notin Building
  <1>1. None.client = "none"
    BY DEF None
  <1> QED
    BY <1>1 DEF Observations, Certificates, CodeStamps, Plain, Building

LEMMA NothingHeld ==
    ASSUME NEW b, NEW c
    PROVE  HeldOK(b, None) /\ Earlier(b, c, None)
  BY NoneIsNothing DEF HeldOK, Earlier

LEMMA InitKeeps ==
    ASSUME Init
    PROVE  JournalInv
  <1>1. Cardinality(Regions) \in Nat
    BY MapAssumption, FS_CardinalityType
  <1>2. /\ 0 \in Values /\ Erased \in Values /\ Capacity \in Nat \ {0}
        /\ MaxSequence \in Nat
    BY JournalAssumption
  <1> DEFINE y == [a \in Backed |-> IF Find(a).kind = "ram" THEN 0 ELSE Erased]
             j == [s \in 0 .. Capacity - 1 |-> EmptySlot]
             x == 1 + Cardinality(Regions)
  <1>3. y \in [Backed -> Values]
    BY <1>2
  <1>4. j \in Journals
    BY <1>2 DEF Journals, Slots, EmptySlot
  <1>5. x \in Nat
    BY <1>1
  <1>6. EmptyFootprint \in Footprints
    BY DEF EmptyFootprint, Footprints
  <1>7. MappedBus = [bytes |-> y, sequence |-> 0, journal |-> j, execution |-> x,
                     mmio |-> 1, tracking |-> 1, restoration |-> 0,
                     journaling |-> TRUE, reading |-> TRUE, storing |-> FALSE,
                     footprint |-> EmptyFootprint, trapAll |-> FALSE,
                     ramOnly |-> FALSE]
    BY DEF MappedBus
  <1> HIDE DEF y, j, x
  <1>8. MappedBus \in Buses
    BY <1>3, <1>4, <1>5, <1>6, <1>7 DEF Buses
  <1>9. /\ MappedBus.sequence = 0 /\ MappedBus.reading /\ ~MappedBus.trapAll
        /\ ~MappedBus.ramOnly /\ ~MappedBus.storing
    BY <1>7
  <1>10. Typed(MappedBus, None, None)
    BY <1>2, <1>8, <1>9, NoneIsNothing DEF Typed
  <1>11. Inv(MappedBus, None, None)
    BY <1>10, NoneIsNothing, NothingHeld DEF Inv
  <1> QED
    BY <1>11 DEF Init, JournalInv

(* The capsule after an access.                                            *)
LEMMA TouchTouches ==
    ASSUME JournalInv, NEW x, NEW result, NEW d,
           Touch(result, x),
           result.fault = "none" /\ capsule \in Building => Covers(d, x)
    PROVE  TouchOf(capsule, capsule', d)
  <1>1. capsule \in {None} \cup Plain \cup Building
    BY DEF JournalInv, Inv, Typed
  <1>2. Certifying <=> capsule \in Building
    <2>1. CASE capsule = None
      BY <2>1, NoneIsNothing DEF Certifying, Idle
    <2>2. CASE capsule \in Plain \cup Building
      BY <2>2, CapsuleTyped DEF Certifying, Idle
    <2> QED
      BY <1>1, <2>1, <2>2
  <1>3. CASE Certifying /\ result.fault = "none"
    <2>1. capsule' = [capsule EXCEPT !.touched = capsule.touched \cup TouchedBytes(x)]
      BY <1>3 DEF Touch, TouchedBytes
    <2>2. TouchedBytes(x) \in SUBSET Backed
      BY DEF TouchedBytes
    <2>3. \A a \in TouchedBytes(x) : FootprintContains(d.footprint, a)
      BY <1>2, <1>3 DEF Covers
    <2> QED
      BY <1>2, <1>3, <2>1, <2>2, <2>3 DEF TouchOf
  <1>4. CASE ~(Certifying /\ result.fault = "none")
    BY <1>4 DEF Touch, TouchOf
  <1> QED
    BY <1>3, <1>4

LEMMA CpuWriteKeeps ==
    ASSUME JournalInv, CpuWrite
    PROVE  JournalInv'
  <1>1. PICK x \in Routed : \E data \in [1 .. x.width -> Values] :
           /\ WithinCapsule(x.width)
           /\ Becomes(Write(bus, x.to, data).bus)
           /\ Touch(Write(bus, x.to, data), x)
           /\ UNCHANGED held
    BY DEF CpuWrite
  <1>2. PICK data \in [1 .. x.width -> Values] :
           /\ WithinCapsule(x.width)
           /\ Becomes(Write(bus, x.to, data).bus)
           /\ Touch(Write(bus, x.to, data), x)
           /\ UNCHANGED held
    BY <1>1
  <1>3. Serves(x) /\ x.to.fault = "none" /\ x.width \in Nat
    BY RoutedServes DEF Routed, Serves
  <1>4. PICK done : done = Write(bus, x.to, data)
    OBVIOUS
  <1>5. /\ bus \in Buses /\ capsule \in {None} \cup Plain \cup Building
        /\ bus.storing <=> capsule \in Building
    BY DEF JournalInv, Inv, Typed
  <1>6. /\ AccessOf(bus, done.bus, x.width)
        /\ done.fault = "none" /\ bus.storing => Covers(done.bus, x)
    BY <1>3, <1>4, <1>5, WriteAccess
  <1>7. /\ bus' = done.bus /\ done.bus.sequence <= MaxSequence /\ held' = held
        /\ Touch(done, x)
    BY <1>2, <1>4 DEF Becomes
  <1>8. TouchOf(capsule, capsule', done.bus)
    BY <1>5, <1>6, <1>7, TouchTouches
  <1>9. ASSUME capsule # None
        PROVE  done.bus.sequence - capsule.at.sequence <= MaxCapsule
    <2>1. bus.sequence + x.width - capsule.at.sequence <= MaxCapsule
      BY <1>2, <1>9 DEF WithinCapsule, Idle
    <2>2. /\ done.bus.sequence <= bus.sequence + x.width
          /\ done.bus.sequence \in Nat /\ bus.sequence \in Nat
          /\ capsule.at.sequence \in Nat /\ MaxCapsule \in Nat
      BY <1>5, <1>6, <1>9, CapsuleTyped, JournalAssumption DEF AccessOf, Evolves, Buses
    <2> QED
      BY <1>3, <2>1, <2>2
  <1>10. Inv(done.bus, capsule', held)
    BY <1>3, <1>6, <1>7, <1>8, <1>9, AccessKeeps DEF JournalInv
  <1> QED
    BY <1>7, <1>10 DEF JournalInv

LEMMA CpuReadKeeps ==
    ASSUME JournalInv, CpuRead
    PROVE  JournalInv'
  <1>1. PICK x \in Routed :
           /\ Becomes(Read(bus, x.to, x.width).bus)
           /\ Touch(Read(bus, x.to, x.width), x)
           /\ UNCHANGED held
    BY DEF CpuRead
  <1>2. Serves(x) /\ x.to.fault = "none"
    BY RoutedServes DEF Routed
  <1>3. PICK done : done = Read(bus, x.to, x.width)
    OBVIOUS
  <1>4. /\ bus \in Buses /\ capsule \in {None} \cup Plain \cup Building
        /\ capsule \in Building => bus.reading
    BY DEF JournalInv, Inv, Typed, Replaying
  <1>5. /\ AccessOf(bus, done.bus, 0)
        /\ done.fault = "none" /\ bus.reading => Covers(done.bus, x)
    BY <1>2, <1>3, <1>4, ReadAccess
  <1>6. /\ bus' = done.bus /\ done.bus.sequence <= MaxSequence /\ held' = held
        /\ Touch(done, x)
    BY <1>1, <1>3 DEF Becomes
  <1>7. TouchOf(capsule, capsule', done.bus)
    BY <1>4, <1>5, <1>6, TouchTouches
  <1>8. ASSUME capsule # None
        PROVE  done.bus.sequence - capsule.at.sequence <= MaxCapsule
    <2>1. bus.sequence - capsule.at.sequence <= MaxCapsule
      BY <1>8 DEF JournalInv, Inv, Reversible
    <2>2. /\ done.bus.sequence <= bus.sequence + 0
          /\ done.bus.sequence \in Nat /\ bus.sequence \in Nat
          /\ capsule.at.sequence \in Nat /\ MaxCapsule \in Nat
      BY <1>4, <1>5, <1>8, CapsuleTyped, JournalAssumption DEF AccessOf, Evolves, Buses
    <2> QED
      BY <2>1, <2>2
  <1>9. Inv(done.bus, capsule', held)
    BY <1>5, <1>6, <1>7, <1>8, AccessKeeps DEF JournalInv
  <1> QED
    BY <1>6, <1>9 DEF JournalInv

LEMMA LoadKeeps ==
    ASSUME JournalInv, Load
    PROVE  JournalInv'
  <1>1. PICK x \in Routed : \E data \in [1 .. x.width -> Values] :
           Becomes(LoadBytes(bus, x.start, data).bus)
    BY DEF Load
  <1>2. PICK data \in [1 .. x.width -> Values] :
           Becomes(LoadBytes(bus, x.start, data).bus)
    BY <1>1
  <1>3. capsule = None /\ capsule' = capsule /\ held' = held
    BY DEF Load, Idle
  <1>4. Serves(x)
    BY RoutedServes
  <1>5. x.start \in Nat /\ x.width \in Nat
    BY <1>4 DEF Serves, Address
  <1>6. PICK d : d = LoadBytes(bus, x.start, data).bus
    OBVIOUS
  <1>7. bus \in Buses
    BY DEF JournalInv, Inv, Typed
  <1>8. AccessOf(bus, d, x.width)
    BY <1>5, <1>6, <1>7, LoadAccess
  <1>9. bus' = d /\ d.sequence <= MaxSequence
    BY <1>2, <1>6 DEF Becomes
  <1>10. TouchOf(capsule, capsule, d)
    BY DEF TouchOf
  <1>11. Inv(d, capsule, held)
    BY <1>3, <1>5, <1>8, <1>9, <1>10, AccessKeeps DEF JournalInv
  <1> QED
    BY <1>3, <1>9, <1>11 DEF JournalInv

LEMMA CertifyingBuilds ==
    ASSUME JournalInv
    PROVE  /\ Certifying <=> capsule \in Building
           /\ Idle <=> capsule = None
           /\ ~Idle /\ ~Certifying => capsule \in Plain
           /\ capsule \in {None} \cup Plain \cup Building
  <1>1. capsule \in {None} \cup Plain \cup Building
    BY DEF JournalInv, Inv, Typed
  <1>2. CASE capsule = None
    BY <1>2, NoneIsNothing DEF Certifying, Idle
  <1>3. CASE capsule \in Plain \cup Building
    BY <1>3, CapsuleTyped DEF Certifying, Idle
  <1> QED
    BY <1>1, <1>2, <1>3

(* The journal is switched on or off: nothing held counts any more.        *)
LEMMA TrackingTurned ==
    ASSUME NEW b \in Buses, NEW o, Inv(b, None, o), NEW d \in Buses,
           d.bytes = b.bytes, d.sequence = b.sequence, d.execution = b.execution,
           d.restoration = b.restoration, d.tracking = b.tracking + 1,
           d.trapAll = b.trapAll, d.ramOnly = b.ramOnly, d.storing = b.storing,
           d.footprint.complete => d.reading
    PROVE  Inv(d, None, o)
  <1>1. Typed(d, None, o)
    BY DEF Inv, Typed
  <1>2. b.tracking \in Nat /\ d.tracking \in Nat
    BY DEF Buses
  <1>3. ASSUME o \in Observations PROVE StillObserved(d, o)
    <2>1. o.at.tracking <= b.tracking /\ o.at.tracking \in Nat
      BY <1>3 DEF Inv, HeldOK, StillObserved, Observations, Checkpoints
    <2>2. o.at.tracking <= d.tracking /\ o.at.tracking # d.tracking
      BY <1>2, <2>1
    <2> QED
      BY <2>2 DEF StillObserved
  <1>4. ASSUME o \in Certificates PROVE StillCertified(d, o)
    <2>1. /\ o.at.tracking <= b.tracking /\ o.at.tracking \in Nat
          /\ o.restoration <= b.restoration
          /\ \A a \in o.touched : FootprintContains(o.footprint, a)
      BY <1>4 DEF Inv, HeldOK, StillCertified, Certificates, Checkpoints
    <2>2. o.at.tracking <= d.tracking /\ o.at.tracking # d.tracking
      BY <1>2, <2>1
    <2> QED
      BY <2>1, <2>2 DEF StillCertified
  <1>5. ASSUME o \in CodeStamps PROVE StillDecoded(d, o)
    BY <1>5 DEF Inv, HeldOK, StillDecoded
  <1> QED
    BY <1>1, <1>3, <1>4, <1>5, NoneIsNothing DEF Inv, HeldOK, Earlier

LEMMA ReadTrackingFields ==
    ASSUME NEW b \in Buses, NEW on \in BOOLEAN, b.footprint.complete => b.reading
    PROVE  LET d == SetReadFootprintTracking(b, on)
           IN  /\ d \in Buses /\ SameMemory(b, d) /\ d.mmio = b.mmio
               /\ d.trapAll = b.trapAll /\ d.ramOnly = b.ramOnly /\ d.storing = b.storing
               /\ (d.footprint.complete => d.reading)
  <1> DEFINE d == SetReadFootprintTracking(b, on)
             f == [bits |-> {}, complete |-> on]
  <1>1. CASE b.reading = on
    BY <1>1 DEF SetReadFootprintTracking, SameMemory
  <1>2. CASE b.reading # on
    <2>1. d = [b EXCEPT !.reading = on, !.footprint = f]
      BY <1>2 DEF SetReadFootprintTracking
    <2>2. f \in Footprints /\ f.complete = on
      BY DEF Footprints
    <2> HIDE DEF f, d
    <2>3. d \in Buses
      BY <2>1, <2>2 DEF Buses
    <2>4. d.reading = on /\ d.footprint = f
      BY <2>1 DEF Buses
    <2>5. SameMemory(b, d) /\ d.mmio = b.mmio /\ d.trapAll = b.trapAll
          /\ d.ramOnly = b.ramOnly /\ d.storing = b.storing
      BY <2>1 DEF Buses, SameMemory
    <2> QED
      BY <2>2, <2>3, <2>4, <2>5 DEF d
  <1> QED
    BY <1>1, <1>2

LEMMA WriteTrackingFields ==
    ASSUME NEW b \in Buses, NEW on \in BOOLEAN, b.journaling # on
    PROVE  LET d == SetWriteJournalTracking(b, on)
           IN  /\ d \in Buses /\ d.bytes = b.bytes /\ d.sequence = b.sequence
               /\ d.execution = b.execution /\ d.restoration = b.restoration
               /\ d.tracking = b.tracking + 1 /\ d.mmio = b.mmio
               /\ d.trapAll = b.trapAll /\ d.ramOnly = b.ramOnly /\ d.storing = b.storing
               /\ d.footprint = b.footprint /\ d.reading = b.reading
  <1> DEFINE d == SetWriteJournalTracking(b, on)
             t == b.tracking + 1
  <1>1. d = [b EXCEPT !.journaling = on, !.tracking = t]
    BY DEF SetWriteJournalTracking
  <1>2. t \in Nat
    BY DEF Buses
  <1> HIDE DEF t, d
  <1>3. d \in Buses
    BY <1>1, <1>2 DEF Buses
  <1>4. /\ d.bytes = b.bytes /\ d.sequence = b.sequence
        /\ d.execution = b.execution /\ d.restoration = b.restoration
        /\ d.tracking = t /\ d.mmio = b.mmio
        /\ d.trapAll = b.trapAll /\ d.ramOnly = b.ramOnly /\ d.storing = b.storing
        /\ d.footprint = b.footprint /\ d.reading = b.reading
    BY <1>1 DEF Buses
  <1> QED
    BY <1>3, <1>4 DEF d, t

LEMMA EnterUntrackedKeeps ==
    ASSUME JournalInv, EnterUntracked
    PROVE  JournalInv'
  <1>1. /\ bus \in Buses /\ capsule = None /\ bus.journaling # FALSE
        /\ (bus.footprint.complete => bus.reading)
        /\ capsule' = None /\ held' = held
    BY DEF JournalInv, Inv, Typed, EnterUntracked, Idle
  <1>2. PICK c : c = SetReadFootprintTracking(bus, FALSE)
    OBVIOUS
  <1>3. PICK d : d = SetWriteJournalTracking(c, FALSE)
    OBVIOUS
  <1>4. bus' = d
    BY <1>2, <1>3 DEF EnterUntracked, Becomes
  <1>5. /\ c \in Buses /\ SameMemory(bus, c) /\ c.mmio = bus.mmio
        /\ c.trapAll = bus.trapAll /\ c.ramOnly = bus.ramOnly
        /\ c.storing = bus.storing /\ (c.footprint.complete => c.reading)
    BY <1>1, <1>2, ReadTrackingFields
  <1>6. c.journaling # FALSE
    BY <1>1, <1>5 DEF SameMemory
  <1>7. /\ d \in Buses /\ d.bytes = c.bytes /\ d.sequence = c.sequence
        /\ d.execution = c.execution /\ d.restoration = c.restoration
        /\ d.tracking = c.tracking + 1 /\ d.trapAll = c.trapAll
        /\ d.ramOnly = c.ramOnly /\ d.storing = c.storing
        /\ d.footprint = c.footprint /\ d.reading = c.reading
    BY <1>3, <1>5, <1>6, WriteTrackingFields
  <1>8. /\ d.bytes = bus.bytes /\ d.sequence = bus.sequence
        /\ d.execution = bus.execution /\ d.restoration = bus.restoration
        /\ d.tracking = bus.tracking + 1 /\ d.trapAll = bus.trapAll
        /\ d.ramOnly = bus.ramOnly /\ d.storing = bus.storing
        /\ (d.footprint.complete => d.reading)
    BY <1>5, <1>7 DEF SameMemory
  <1>9. Inv(bus, None, held)
    BY <1>1 DEF JournalInv
  <1>10. Inv(d, None, held)
    BY <1>1, <1>7, <1>8, <1>9, TrackingTurned
  <1> QED
    BY <1>1, <1>4, <1>10 DEF JournalInv

LEMMA LeaveUntrackedKeeps ==
    ASSUME JournalInv, LeaveUntracked
    PROVE  JournalInv'
  <1>1. /\ bus \in Buses /\ capsule = None /\ bus.journaling # TRUE
        /\ (bus.footprint.complete => bus.reading)
        /\ capsule' = None /\ held' = held
    BY DEF JournalInv, Inv, Typed, LeaveUntracked, Idle
  <1>2. PICK c : c = SetWriteJournalTracking(bus, TRUE)
    OBVIOUS
  <1>3. PICK d : d = SetReadFootprintTracking(c, TRUE)
    OBVIOUS
  <1>4. bus' = d
    BY <1>2, <1>3 DEF LeaveUntracked, Becomes
  <1>5. /\ c \in Buses /\ c.bytes = bus.bytes /\ c.sequence = bus.sequence
        /\ c.execution = bus.execution /\ c.restoration = bus.restoration
        /\ c.tracking = bus.tracking + 1 /\ c.trapAll = bus.trapAll
        /\ c.ramOnly = bus.ramOnly /\ c.storing = bus.storing
        /\ c.footprint = bus.footprint /\ c.reading = bus.reading
    BY <1>1, <1>2, WriteTrackingFields
  <1>6. c.footprint.complete => c.reading
    BY <1>1, <1>5
  <1>7. /\ d \in Buses /\ SameMemory(c, d)
        /\ d.trapAll = c.trapAll /\ d.ramOnly = c.ramOnly
        /\ d.storing = c.storing /\ (d.footprint.complete => d.reading)
    BY <1>3, <1>5, <1>6, ReadTrackingFields
  <1>8. /\ d.bytes = bus.bytes /\ d.sequence = bus.sequence
        /\ d.execution = bus.execution /\ d.restoration = bus.restoration
        /\ d.tracking = bus.tracking + 1 /\ d.trapAll = bus.trapAll
        /\ d.ramOnly = bus.ramOnly /\ d.storing = bus.storing
        /\ (d.footprint.complete => d.reading)
    BY <1>5, <1>7 DEF SameMemory
  <1>9. Inv(bus, None, held)
    BY <1>1 DEF JournalInv
  <1>10. Inv(d, None, held)
    BY <1>1, <1>7, <1>8, <1>9, TrackingTurned
  <1> QED
    BY <1>1, <1>4, <1>10 DEF JournalInv

LEMMA GuardedFields ==
    ASSUME NEW b \in Buses, NEW on \in BOOLEAN
    PROVE  LET d == Guarded(b, on)
           IN  /\ d \in Buses /\ SameMemory(b, d) /\ d.mmio = b.mmio
               /\ d.reading = b.reading /\ d.storing = b.storing
               /\ d.footprint = b.footprint
               /\ d.trapAll = on /\ d.ramOnly = on
  <1> DEFINE d == Guarded(b, on)
  <1>1. d = [b EXCEPT !.trapAll = on, !.ramOnly = on]
    BY DEF Guarded
  <1> HIDE DEF d
  <1>2. d \in Buses
    BY <1>1 DEF Buses
  <1>3. SameMemory(b, d) /\ d.mmio = b.mmio /\ d.reading = b.reading
        /\ d.storing = b.storing /\ d.footprint = b.footprint
    BY <1>1 DEF Buses, SameMemory
  <1>4. d.trapAll = on /\ d.ramOnly = on
    BY <1>1 DEF Buses
  <1> QED
    BY <1>2, <1>3, <1>4 DEF d

LEMMA FootprintFields ==
    ASSUME NEW b \in Buses, NEW f \in Footprints
    PROVE  LET d == RestoreReadFootprint(b, f)
           IN  /\ d \in Buses /\ SameMemory(b, d) /\ SameMode(b, d) /\ d.mmio = b.mmio
               /\ (d.footprint.complete => d.reading)
               /\ (b.reading => d.footprint = f)
  <1> DEFINE d == RestoreReadFootprint(b, f)
             g == IF b.reading THEN f ELSE [bits |-> {}, complete |-> FALSE]
  <1>1. d = [b EXCEPT !.footprint = g]
    BY DEF RestoreReadFootprint
  <1>2. g \in Footprints /\ (g.complete => b.reading) /\ (b.reading => g = f)
    BY DEF Footprints
  <1> HIDE DEF d, g
  <1>3. d \in Buses
    BY <1>1, <1>2 DEF Buses
  <1>4. SameMemory(b, d) /\ SameMode(b, d) /\ d.mmio = b.mmio
    BY <1>1 DEF Buses, SameMemory, SameMode
  <1>5. d.footprint = g
    BY <1>1 DEF Buses
  <1>6. d.footprint.complete => d.reading
    BY <1>2, <1>4, <1>5 DEF SameMode
  <1> QED
    BY <1>2, <1>3, <1>4, <1>5, <1>6 DEF d

LEMMA StoringFields ==
    ASSUME NEW b \in Buses, NEW on \in BOOLEAN
    PROVE  LET d == [b EXCEPT !.storing = on]
           IN  /\ d \in Buses /\ SameMemory(b, d) /\ d.mmio = b.mmio
               /\ d.reading = b.reading /\ d.storing = on
               /\ d.footprint = b.footprint
               /\ d.trapAll = b.trapAll /\ d.ramOnly = b.ramOnly
  <1> DEFINE d == [b EXCEPT !.storing = on]
  <1>1. d \in Buses
    BY DEF Buses
  <1>2. SameMemory(b, d) /\ d.mmio = b.mmio /\ d.reading = b.reading
        /\ d.footprint = b.footprint
        /\ d.trapAll = b.trapAll /\ d.ramOnly = b.ramOnly
    BY DEF Buses, SameMemory
  <1>3. d.storing = on
    BY DEF Buses
  <1> QED
    BY <1>1, <1>2, <1>3

LEMMA CheckpointTyped ==
    ASSUME NEW b \in Buses
    PROVE  /\ SideEffectCheckpoint(b) \in Checkpoints
           /\ SideEffectCheckpoint(b).sequence = b.sequence
           /\ SideEffectCheckpoint(b).mmio = b.mmio
           /\ SideEffectCheckpoint(b).tracking = b.tracking
  BY DEF SideEffectCheckpoint, Checkpoints, Buses

LEMMA BeginCapsuleKeeps ==
    ASSUME JournalInv, BeginCapsule
    PROVE  JournalInv'
  <1> DEFINE c == capsule'
             d == bus'
  <1>1. /\ bus \in Buses /\ capsule = None /\ bus.journaling /\ held' = held
        /\ bus.sequence <= MaxSequence /\ (bus.footprint.complete => bus.reading)
        /\ d = Guarded(bus, TRUE)
        /\ c = [client |-> "capsule", at |-> SideEffectCheckpoint(bus),
                entry |-> bus.footprint, was |-> bus.bytes, building |-> FALSE]
    BY DEF JournalInv, Inv, Typed, BeginCapsule, Idle
  <1>2. /\ d \in Buses /\ SameMemory(bus, d) /\ d.mmio = bus.mmio
        /\ d.reading = bus.reading /\ d.storing = bus.storing
        /\ d.footprint = bus.footprint /\ d.trapAll = TRUE /\ d.ramOnly = TRUE
    BY <1>1, GuardedFields
  <1>3. c \in Plain /\ c.was = bus.bytes
    BY <1>1, CheckpointTyped DEF Plain, Buses
  <1>4. /\ c.at.sequence = bus.sequence /\ c.at.mmio = bus.mmio
        /\ c.at.tracking = bus.tracking
    BY <1>1, CheckpointTyped
  <1> HIDE DEF c, d
  <1>5. c # None /\ c \notin Building
    <2>1. c.building = FALSE
      BY <1>3 DEF Plain
    <2> QED
      BY <1>3, <2>1, CapsuleTyped DEF Building
  <1>6. ~bus.storing
    BY <1>1, NoneIsNothing DEF JournalInv, Inv, Typed
  <1>7. Typed(d, c, held)
    <2>1. held \in {None} \cup Observations \cup Certificates \cup CodeStamps
      BY DEF JournalInv, Inv, Typed
    <2>2. d.sequence <= MaxSequence
      BY <1>1, <1>2 DEF SameMemory
    <2>3. d.footprint.complete => d.reading
      BY <1>1, <1>2
    <2>4. ~d.storing
      BY <1>2, <1>6
    <2> QED
      BY <1>2, <1>3, <1>5, <2>1, <2>2, <2>3, <2>4 DEF Typed
  <1>8. Reversible(d, c)
    <2>1. /\ d.sequence = bus.sequence /\ d.bytes = bus.bytes
          /\ d.tracking = bus.tracking /\ d.journaling = bus.journaling
          /\ bus.sequence \in Nat
      BY <1>1, <1>2 DEF SameMemory, Buses
    <2>2. Tracks(d, d.sequence, c.was, Backed)
      BY <1>2, <1>3, <2>1, EmptyWindow
    <2>3. ~Hollow(d, d.sequence)
      <3>1. d.sequence + 1 .. d.sequence = {}
        BY <2>1
      <3> QED
        BY <3>1 DEF Hollow
    <2>4. d.sequence - d.sequence <= MaxCapsule /\ d.sequence <= d.sequence
      BY <2>1, JournalAssumption
    <2> QED
      BY <1>1, <1>2, <1>4, <2>1, <2>2, <2>3, <2>4 DEF Reversible
  <1>9. HeldOK(d, held)
    BY <1>1, <1>2, SameEvolves, EvolvesHeld DEF JournalInv, Inv
  <1>10. Earlier(d, c, held)
    <2>1. ASSUME held \in Observations, held.at.tracking = d.tracking
          PROVE  held.at.sequence <= c.at.sequence
      BY <1>2, <1>4, <2>1 DEF JournalInv, Inv, HeldOK, StillObserved, SameMemory
    <2> QED
      BY <2>1 DEF Earlier
  <1>11. Inv(d, c, held)
    BY <1>5, <1>7, <1>8, <1>9, <1>10 DEF Inv
  <1> QED
    BY <1>1, <1>11 DEF JournalInv, c, d

LEMMA CommitCapsuleKeeps ==
    ASSUME JournalInv, CommitCapsule
    PROVE  JournalInv'
  <1>1. /\ bus \in Buses /\ capsule \in Plain /\ held' = held /\ capsule' = None
        /\ bus.sequence <= MaxSequence /\ (bus.footprint.complete => bus.reading)
        /\ bus' = Guarded(bus, FALSE)
        /\ held \in {None} \cup Observations \cup Certificates \cup CodeStamps
    BY CertifyingBuilds DEF JournalInv, Inv, Typed, CommitCapsule
  <1>2. /\ bus' \in Buses /\ SameMemory(bus, bus') /\ bus'.mmio = bus.mmio
        /\ bus'.reading = bus.reading /\ bus'.storing = bus.storing
        /\ bus'.footprint = bus.footprint /\ bus'.trapAll = FALSE
        /\ bus'.ramOnly = FALSE
    BY <1>1, GuardedFields
  <1>3. ~bus.storing
    <2>1. capsule.building = FALSE
      BY <1>1 DEF Plain
    <2>2. capsule \notin Building
      BY <2>1 DEF Building
    <2> QED
      BY <2>2 DEF JournalInv, Inv, Typed
  <1>4. Typed(bus', None, held)
    <2>1. bus'.sequence <= MaxSequence /\ (bus'.footprint.complete => bus'.reading)
      BY <1>1, <1>2 DEF SameMemory
    <2> QED
      BY <1>1, <1>2, <1>3, <2>1, NoneIsNothing DEF Typed
  <1>5. HeldOK(bus', held)
    BY <1>1, <1>2, SameEvolves, EvolvesHeld DEF JournalInv, Inv
  <1>6. Inv(bus', None, held)
    BY <1>4, <1>5, NoneIsNothing DEF Inv, Earlier
  <1> QED
    BY <1>1, <1>6 DEF JournalInv

(* What a reader holds survives a rollback.                                *)
LEMMA RestoreHeld ==
    ASSUME NEW b, NEW c \in Plain \cup Building, NEW o, Inv(b, c, o), NEW d,
           RestoreGood(b, d, c.at.sequence)
    PROVE  HeldOK(d, o)
  <1> DEFINE s == c.at.sequence
  <1>1. /\ b \in Buses /\ c # None /\ s \in Nat /\ b.journaling
        /\ d \in Buses /\ d.sequence = s /\ d.tracking = b.tracking
        /\ d.journaling = b.journaling /\ d.restoration = b.restoration + 1
        /\ b.restoration \in Nat
    BY CapsuleTyped DEF Inv, Typed, Reversible, RestoreGood, RolledBack, Buses
  <1>2. ASSUME o \in Observations PROVE StillObserved(d, o)
    <2>1. StillObserved(b, o) /\ o.at.sequence \in Nat /\ o.was \in [Backed -> Values]
      BY <1>2 DEF Inv, HeldOK, Observations, Checkpoints
    <2>2. o.at.tracking <= d.tracking
      BY <1>1, <2>1 DEF StillObserved
    <2>3. ASSUME o.at.tracking = d.tracking
          PROVE  /\ o.at.sequence <= d.sequence
                 /\ Tracks(d, o.at.sequence, o.was, Backed)
                 /\ o.at.sequence = d.sequence => d.bytes = o.was
      <3>1. o.at.sequence <= s
        BY <1>1, <1>2, <2>3 DEF Inv, Earlier
      <3>2. o.at.sequence \in 0 .. s
        BY <1>1, <2>1, <3>1
      <3>3. Tracks(b, o.at.sequence, o.was, Backed)
        BY <1>1, <2>1, <2>3 DEF StillObserved
      <3>4. Tracks(d, o.at.sequence, o.was, Backed)
        BY <3>2, <3>3, Zenon DEF RestoreGood
      <3>5. ASSUME o.at.sequence = d.sequence PROVE d.bytes = o.was
        <4>0. PICK w : w = o.was
          OBVIOUS
        <4>1. \A a \in Backed : d.bytes[a] = w[a]
          <5>1. d \in Buses /\ Tracks(d, d.sequence, w, Backed)
            BY <1>1, <3>4, <3>5, <4>0
          <5> QED
            BY <5>1, EmptyWindow
        <4>2. d.bytes \in [Backed -> Values]
          BY <1>1 DEF Buses
        <4> QED
          BY <2>1, <4>0, <4>1, <4>2
      <3> QED
        BY <1>1, <3>1, <3>4, <3>5
    <2> QED
      BY <2>2, <2>3 DEF StillObserved
  <1>3. ASSUME o \in Certificates PROVE StillCertified(d, o)
    <2>1. /\ o.restoration <= b.restoration /\ o.restoration \in Nat
          /\ o.at.tracking <= b.tracking
          /\ \A a \in o.touched : FootprintContains(o.footprint, a)
      BY <1>3 DEF Inv, HeldOK, StillCertified, Certificates
    <2>2. o.restoration <= d.restoration /\ o.restoration # d.restoration
      BY <1>1, <2>1
    <2> QED
      BY <1>1, <2>1, <2>2 DEF StillCertified
  <1>4. ASSUME o \in CodeStamps PROVE StillDecoded(d, o)
    BY <1>1, <1>4, EvolvesDecoded DEF Inv, HeldOK, RestoreGood, RolledBack
  <1> QED
    BY <1>2, <1>3, <1>4 DEF HeldOK

LEMMA CancelCapsuleKeeps ==
    ASSUME JournalInv, CancelCapsule
    PROVE  JournalInv'
  <1>1. /\ bus \in Buses /\ capsule \in Plain /\ held' = held /\ capsule' = None
        /\ held \in {None} \cup Observations \cup Certificates \cup CodeStamps
        /\ Reversible(bus, capsule)
    BY CertifyingBuilds, CapsuleTyped DEF JournalInv, Inv, Typed, CancelCapsule
  <1>2. /\ capsule.at \in Checkpoints /\ capsule.entry \in Footprints
        /\ capsule # None /\ capsule.at.sequence \in Nat
    BY <1>1, CapsuleTyped
  <1>3. ~bus.storing
    <2>1. capsule.building = FALSE
      BY <1>1 DEF Plain
    <2>2. capsule \notin Building
      BY <2>1 DEF Building
    <2> QED
      BY <2>2 DEF JournalInv, Inv, Typed
  <1>4. PICK c : c = Rewound(bus, capsule.at)
    OBVIOUS
  <1>5. c \in Buses /\ HeldOK(c, held) /\ c.storing = bus.storing
    <2>1. CASE bus.sequence = capsule.at.sequence
      BY <1>1, <1>4, <2>1 DEF Rewound, JournalInv, Inv
    <2>2. CASE bus.sequence # capsule.at.sequence
      <3>1. c = RestoreSideEffects(bus, capsule.at).bus
        BY <1>4, <2>2 DEF Rewound
      <3>2. bus.sequence - capsule.at.sequence <= Capacity
        <4>1. bus.sequence \in Nat /\ MaxCapsule \in 1 .. Capacity /\ Capacity \in Nat
          BY <1>1, JournalAssumption DEF Buses
        <4> QED
          BY <1>1, <1>2, <4>1 DEF Reversible
      <3>3. RestoreGood(bus, c, capsule.at.sequence)
        BY <1>1, <1>2, <3>1, <3>2, RestoreSucceeds DEF Reversible
      <3>4. HeldOK(c, held)
        BY <1>1, <3>3, RestoreHeld DEF JournalInv
      <3> QED
        BY <3>3, <3>4 DEF RestoreGood, RolledBack
    <2> QED
      BY <2>1, <2>2
  <1>6. PICK f : f = RestoreReadFootprint(c, capsule.entry)
    OBVIOUS
  <1>7. PICK d : d = Guarded(f, FALSE)
    OBVIOUS
  <1>8. bus' = d /\ d.sequence <= MaxSequence
    BY <1>4, <1>6, <1>7 DEF CancelCapsule, Becomes
  <1>9. /\ f \in Buses /\ SameMemory(c, f) /\ SameMode(c, f)
        /\ (f.footprint.complete => f.reading)
    BY <1>2, <1>5, <1>6, FootprintFields
  <1>10. /\ d \in Buses /\ SameMemory(f, d) /\ d.reading = f.reading
         /\ d.storing = f.storing /\ d.footprint = f.footprint
         /\ d.trapAll = FALSE /\ d.ramOnly = FALSE
    BY <1>7, <1>9, GuardedFields
  <1>11. Typed(d, None, held)
    <2>1. ~d.storing
      BY <1>3, <1>5, <1>9, <1>10 DEF SameMode
    <2>2. d.footprint.complete => d.reading
      BY <1>9, <1>10
    <2> QED
      BY <1>1, <1>8, <1>10, <2>1, <2>2, NoneIsNothing DEF Typed
  <1>12. HeldOK(d, held)
    <2>1. SameMemory(c, d)
      BY <1>9, <1>10 DEF SameMemory
    <2> QED
      BY <1>5, <1>10, <2>1, SameEvolves, EvolvesHeld
  <1>13. Inv(d, None, held)
    BY <1>11, <1>12, NoneIsNothing DEF Inv, Earlier
  <1> QED
    BY <1>1, <1>8, <1>13 DEF JournalInv

LEMMA BeginCertificateKeeps ==
    ASSUME JournalInv, BeginCertificate
    PROVE  JournalInv'
  <1> DEFINE c == capsule'
  <1>1. /\ bus \in Buses /\ capsule \in Plain /\ held' = None /\ bus.reading
        /\ bus.sequence <= MaxSequence /\ bus.trapAll /\ bus.ramOnly
        /\ Reversible(bus, capsule)
        /\ c = [client |-> "capsule", at |-> capsule.at, entry |-> capsule.entry,
                was |-> capsule.was, building |-> TRUE,
                start |-> SideEffectCheckpoint(bus),
                endpoint |-> bus.footprint, touched |-> {}]
    BY CertifyingBuilds, CapsuleTyped DEF JournalInv, Inv, Typed, BeginCertificate
  <1>2. /\ capsule.at \in Checkpoints /\ capsule.entry \in Footprints
        /\ capsule.was \in [Backed -> Values] /\ capsule.at.sequence \in Nat
    BY <1>1, CapsuleTyped
  <1>3. PICK f : f = RestoreReadFootprint(bus, EmptyFootprint)
    OBVIOUS
  <1>4. PICK d : d = [f EXCEPT !.storing = TRUE]
    OBVIOUS
  <1>5. bus' = d
    BY <1>3, <1>4 DEF BeginCertificate
  <1>6. EmptyFootprint \in Footprints
    BY DEF EmptyFootprint, Footprints
  <1>7. /\ f \in Buses /\ SameMemory(bus, f) /\ SameMode(bus, f) /\ f.mmio = bus.mmio
        /\ (f.footprint.complete => f.reading)
    BY <1>1, <1>3, <1>6, FootprintFields
  <1>8. /\ d \in Buses /\ SameMemory(f, d) /\ d.mmio = f.mmio /\ d.reading = f.reading
        /\ d.storing = TRUE /\ d.footprint = f.footprint
        /\ d.trapAll = f.trapAll /\ d.ramOnly = f.ramOnly
    BY <1>4, <1>7, StoringFields
  <1>9. SameMemory(bus, d) /\ d.mmio = bus.mmio /\ d.reading
    BY <1>1, <1>7, <1>8 DEF SameMemory, SameMode
  <1>10. c \in Building
    BY <1>1, <1>2, CheckpointTyped DEF Building, Buses
  <1>11. /\ c.at = capsule.at /\ c.was = capsule.was /\ c.touched = {}
         /\ c.start = SideEffectCheckpoint(bus)
    BY <1>1
  <1>12. /\ c.start.sequence = bus.sequence /\ c.start.mmio = bus.mmio
         /\ c.start.tracking = bus.tracking
    BY <1>1, <1>11, CheckpointTyped
  <1> HIDE DEF c
  <1>13. c # None
    BY <1>10, CapsuleTyped
  <1>14. Typed(d, c, None)
    <2>1. d.sequence <= MaxSequence
      BY <1>1, <1>9 DEF SameMemory
    <2>2. d.trapAll /\ d.ramOnly
      BY <1>1, <1>7, <1>8 DEF SameMode
    <2> QED
      BY <1>8, <1>9, <1>10, <1>13, <2>1, <2>2 DEF Typed
  <1>15. Reversible(d, c)
    <2>1. Evolves(bus, d)
      BY <1>1, <1>8, <1>9, SameEvolves
    <2>2. d.sequence - capsule.at.sequence <= MaxCapsule
      BY <1>1, <1>9 DEF SameMemory, Reversible
    <2>3. Reversible(d, capsule)
      BY <1>1, <1>9, <2>1, <2>2, EvolvesReversible
    <2> QED
      BY <1>11, <2>3 DEF Reversible
  <1>16. Replaying(d, c)
    <2>1. bus.sequence \in Nat /\ d.sequence = bus.sequence /\ d.tracking = bus.tracking
      BY <1>1, <1>9 DEF Buses, SameMemory
    <2>2. c.start.sequence <= d.sequence
      BY <1>12, <2>1
    <2>3. c.at.sequence <= c.start.sequence
      BY <1>1, <1>11, <1>12 DEF Reversible
    <2> QED
      BY <1>9, <1>11, <1>12, <2>1, <2>2, <2>3 DEF Replaying
  <1>17. Inv(d, c, None)
    BY <1>14, <1>15, <1>16, NothingHeld DEF Inv
  <1> QED
    BY <1>1, <1>5, <1>17 DEF JournalInv, c

(* The bus and the capsule once a replay has ended and memory is settled.  *)
LEMMA ReplayEnded ==
    ASSUME NEW b, NEW c \in Building, NEW e \in Plain, e.at = c.at, e.was = c.was,
           b \in Buses, Reversible(b, c), b.trapAll, b.ramOnly,
           NEW d, d = [RestoreReadFootprint(b, c.endpoint) EXCEPT !.storing = FALSE],
           d.sequence <= MaxSequence,
           NEW o \in {None} \cup Certificates, HeldOK(b, o)
    PROVE  Inv(d, e, o)
  <1>1. c.endpoint \in Footprints
    BY DEF Building
  <1>2. PICK f : f = RestoreReadFootprint(b, c.endpoint)
    OBVIOUS
  <1>3. /\ f \in Buses /\ SameMemory(b, f) /\ SameMode(b, f) /\ f.mmio = b.mmio
        /\ (f.footprint.complete => f.reading)
    BY <1>1, <1>2, FootprintFields
  <1>4. /\ d \in Buses /\ SameMemory(f, d) /\ d.mmio = f.mmio /\ d.reading = f.reading
        /\ d.storing = FALSE /\ d.footprint = f.footprint
        /\ d.trapAll = f.trapAll /\ d.ramOnly = f.ramOnly
    <2>1. d = [f EXCEPT !.storing = FALSE]
      BY <1>2
    <2>2. f \in Buses /\ FALSE \in BOOLEAN
      BY <1>3
    <2>3. LET g == [f EXCEPT !.storing = FALSE]
          IN  /\ g \in Buses /\ SameMemory(f, g) /\ g.mmio = f.mmio
              /\ g.reading = f.reading /\ g.storing = FALSE
              /\ g.footprint = f.footprint
              /\ g.trapAll = f.trapAll /\ g.ramOnly = f.ramOnly
      BY <2>2, StoringFields
    <2> QED
      BY <2>1, <2>3
  <1>5. SameMemory(b, d) /\ d.mmio = b.mmio
    BY <1>3, <1>4 DEF SameMemory
  <1>6. e # None /\ e \notin Building
    <2>1. e.building = FALSE
      BY DEF Plain
    <2> QED
      BY <2>1, CapsuleTyped DEF Building
  <1>7. Typed(d, e, o)
    <2>1. d.trapAll /\ d.ramOnly /\ ~d.storing /\ (d.footprint.complete => d.reading)
      BY <1>3, <1>4 DEF SameMode
    <2> QED
      BY <1>4, <1>6, <2>1 DEF Typed
  <1>8. Evolves(b, d)
    BY <1>4, <1>5, SameEvolves
  <1>9. Reversible(d, e)
    <2>1. d.sequence - c.at.sequence <= MaxCapsule
      BY <1>5 DEF SameMemory, Reversible
    <2>2. Reversible(d, c)
      BY <1>5, <1>8, <2>1, EvolvesReversible
    <2> QED
      BY <2>2 DEF Reversible
  <1>10. HeldOK(d, o)
    BY <1>8, EvolvesHeld
  <1>11. o \notin Observations
    <2>1. o.client = "none" \/ o.client = "certificate"
      BY DEF None, Certificates
    <2> QED
      BY <2>1 DEF Observations
  <1> QED
    BY <1>6, <1>7, <1>9, <1>10, <1>11 DEF Inv, Earlier

LEMMA CertificateTyped ==
    ASSUME JournalInv, capsule \in Building
    PROVE  Certificate \in Certificates /\ HeldOK(bus, Certificate)
  <1> DEFINE o == Certificate
  <1>1. /\ bus \in Buses /\ Reversible(bus, capsule) /\ Replaying(bus, capsule)
    BY CapsuleTyped DEF JournalInv, Inv, Typed
  <1>2. capsule.touched \in SUBSET Backed
    BY DEF Building
  <1>3. [a \in capsule.touched |-> bus.bytes[a]] \in [capsule.touched -> Values]
    BY <1>1, <1>2 DEF Buses
  <1>4. [a \in capsule.touched |-> bus.bytes[a]] \in UNION {[T -> Values] : T \in SUBSET Backed}
    BY <1>2, <1>3
  <1>5. o \in Certificates
    <2>1. bus.restoration \in Nat /\ bus.footprint \in Footprints
      BY <1>1 DEF Buses
    <2>2. PICK w : w = [a \in capsule.touched |-> bus.bytes[a]]
      OBVIOUS
    <2>3. o = [client |-> "certificate", at |-> SideEffectCheckpoint(bus),
               restoration |-> bus.restoration, footprint |-> bus.footprint,
               touched |-> capsule.touched, was |-> w]
      BY <2>2 DEF Certificate
    <2> QED
      BY <1>1, <1>2, <1>4, <2>1, <2>2, <2>3, CheckpointTyped DEF Certificates
  <1>6. /\ o.at = SideEffectCheckpoint(bus) /\ o.restoration = bus.restoration
        /\ o.footprint = bus.footprint /\ o.touched = capsule.touched
        /\ o.was = [a \in capsule.touched |-> bus.bytes[a]]
    BY DEF Certificate
  <1>7. o.at.sequence = bus.sequence /\ o.at.tracking = bus.tracking
    BY <1>1, <1>6, CheckpointTyped
  <1> HIDE DEF o
  <1>8. Tracks(bus, bus.sequence, o.was, o.touched)
    <2>1. \A a \in o.touched : bus.bytes[a] = o.was[a]
      BY <1>6
    <2> QED
      BY <1>1, <2>1, EmptyWindow
  <1>9. StillCertified(bus, o)
    <2>1. /\ bus.sequence \in Nat /\ bus.restoration \in Nat /\ bus.tracking \in Nat
          /\ bus.journaling
      BY <1>1 DEF Buses, Reversible
    <2>2. \A a \in o.touched : FootprintContains(o.footprint, a)
      BY <1>1, <1>6 DEF Replaying
    <2>3. Tracks(bus, o.at.sequence, o.was, o.touched)
      BY <1>7, <1>8
    <2>4. /\ o.restoration <= bus.restoration /\ o.at.tracking <= bus.tracking
          /\ o.at.sequence <= bus.sequence
      BY <1>6, <1>7, <2>1
    <2> QED
      BY <2>1, <2>2, <2>3, <2>4 DEF StillCertified
  <1>10. o.client = "certificate"
    BY <1>5 DEF Certificates
  <1> QED
    BY <1>5, <1>9, <1>10 DEF HeldOK, Observations, CodeStamps, o

LEMMA EndCertificateKeeps ==
    ASSUME JournalInv, EndCertificate
    PROVE  JournalInv'
  <1> DEFINE c == capsule
             e == capsule'
             valid == /\ capsule.endpoint.complete /\ bus.footprint.complete
                      /\ SideEffectsRestoredSince(bus, capsule.start)
             settled == IF valid THEN bus ELSE Rewound(bus, capsule.start)
  <1>1. c \in Building /\ c # None
    BY CertifyingBuilds, CapsuleTyped DEF EndCertificate
  <1>2. /\ bus \in Buses /\ bus.trapAll /\ bus.ramOnly
        /\ Reversible(bus, c) /\ Replaying(bus, c)
    BY <1>1 DEF JournalInv, Inv, Typed
  <1>3. /\ held' = IF valid THEN Certificate ELSE None
        /\ bus' = [RestoreReadFootprint(settled, capsule.endpoint) EXCEPT !.storing = FALSE]
        /\ bus'.sequence <= MaxSequence
        /\ e = [client |-> "capsule", at |-> c.at, entry |-> c.entry,
                was |-> c.was, building |-> FALSE]
    BY DEF EndCertificate, Becomes
  <1>4. /\ c.at \in Checkpoints /\ c.entry \in Footprints
        /\ c.was \in [Backed -> Values] /\ c.at.sequence \in Nat
    BY <1>1, CapsuleTyped
  <1>5. e \in Plain /\ e.at = c.at /\ e.was = c.was
    BY <1>3, <1>4 DEF Plain
  <1>6. CASE valid
    <2>1. settled = bus /\ held' = Certificate
      BY <1>3, <1>6
    <2>2. Certificate \in Certificates /\ HeldOK(bus, Certificate)
      BY <1>1, CertificateTyped
    <2> HIDE DEF settled, valid
    <2>3. Inv(bus', e, held')
      BY <1>1, <1>2, <1>3, <1>5, <2>1, <2>2, ReplayEnded
    <2> QED
      BY <2>3 DEF JournalInv
  <1>7. CASE ~valid
    <2>1. PICK d : d = Rewound(bus, c.start)
      OBVIOUS
    <2>2. settled = d /\ held' = None
      BY <1>3, <1>7, <2>1
    <2> HIDE DEF settled, valid
    <2>3. d \in Buses /\ Reversible(d, c) /\ d.trapAll /\ d.ramOnly
      <3>1. CASE bus.sequence = c.start.sequence
        BY <1>2, <2>1, <3>1 DEF Rewound
      <3>2. CASE bus.sequence # c.start.sequence
        <4>1. /\ c.start \in Checkpoints /\ c.start.sequence \in Nat
              /\ bus.sequence \in Nat /\ Capacity \in Nat /\ MaxCapsule \in Nat
              /\ MaxCapsule <= Capacity
          BY <1>1, <1>2, JournalAssumption DEF Building, Checkpoints, Buses
        <4>2. /\ c.at.sequence <= c.start.sequence /\ c.start.sequence <= bus.sequence
              /\ bus.sequence - c.at.sequence <= MaxCapsule
          BY <1>2 DEF Reversible, Replaying
        <4>3. /\ bus.sequence - c.start.sequence <= Capacity
              /\ bus.sequence - c.at.sequence <= Capacity
              /\ c.start.sequence - c.at.sequence <= MaxCapsule
          BY <1>4, <4>1, <4>2
        <4>4. ~Hollow(bus, c.start.sequence)
          <5>1. \A n \in c.start.sequence + 1 .. bus.sequence :
                   n \in c.at.sequence + 1 .. bus.sequence
            BY <1>4, <4>1, <4>2
          <5> QED
            BY <1>2, <5>1 DEF Reversible, Hollow
        <4>5. d = RestoreSideEffects(bus, c.start).bus
          BY <2>1, <3>2 DEF Rewound
        <4>6. RestoreGood(bus, d, c.start.sequence)
          BY <1>2, <4>1, <4>2, <4>3, <4>4, <4>5, RestoreSucceeds DEF Reversible, Replaying
        <4>7. c.at.sequence \in 0 .. c.start.sequence
          BY <1>4, <4>1, <4>2
        <4>8. ~Hollow(d, c.at.sequence)
          BY <1>2, <4>3, <4>6, <4>7, Zenon DEF RestoreGood, Reversible
        <4>9. Tracks(d, c.at.sequence, c.was, Backed)
          BY <1>2, <4>6, <4>7, Zenon DEF RestoreGood, Reversible
        <4>10. /\ d \in Buses /\ d.sequence = c.start.sequence
               /\ d.tracking = bus.tracking /\ d.mmio = bus.mmio
               /\ d.journaling = bus.journaling
               /\ d.trapAll = bus.trapAll /\ d.ramOnly = bus.ramOnly
          BY <4>6 DEF RestoreGood, RolledBack
        <4> QED
          BY <1>2, <4>2, <4>3, <4>8, <4>9, <4>10 DEF Reversible
      <3> QED
        BY <3>1, <3>2
    <2>4. HeldOK(d, None)
      BY NothingHeld
    <2>5. Inv(bus', e, None)
      BY <1>1, <1>3, <1>5, <2>2, <2>3, <2>4, ReplayEnded
    <2> QED
      BY <2>2, <2>5 DEF JournalInv
  <1> QED
    BY <1>6, <1>7

(* The queries look at the first entry for an address.                     *)
LEMMA FirstExists ==
    ASSUME NEW b \in Buses, NEW at \in Checkpoints, NEW a,
           \E n \in at.sequence + 1 .. b.sequence : Entry(b, n).address = a
    PROVE  \E n \in at.sequence + 1 .. b.sequence :
              /\ FirstOf(b, at.sequence, n, a)
              /\ n \in Window(b, at) /\ FirstForAddress(b, at, n)
  <1> DEFINE h == at.sequence
             Hits == {n \in h + 1 .. b.sequence : Entry(b, n).address = a}
  <1>1. h \in Nat /\ b.sequence \in Nat
    BY DEF Checkpoints, Buses
  <1>2. Hits \in SUBSET Nat /\ Hits # {}
    BY <1>1
  <1>3. PICK n \in Hits : \A m \in Hits : n <= m
    <2> HIDE DEF Hits
    <2> QED
      BY <1>2, LeastExists
  <1>4. \A m \in h + 1 .. n - 1 : m \in h + 1 .. b.sequence /\ ~(n <= m)
    BY <1>1, <1>3
  <1>5. FirstOf(b, h, n, a)
    BY <1>3, <1>4 DEF FirstOf
  <1>6. \A m \in h + 1 .. b.sequence : m < n => ~(n <= m)
    BY <1>1, <1>3
  <1>7. FirstForAddress(b, at, n)
    BY <1>3, <1>6 DEF FirstForAddress, Window
  <1> QED
    BY <1>3, <1>5, <1>7 DEF Window

(* A certificate that is found valid is about memory as it is.             *)
LEMMA ValidInputs ==
    ASSUME NEW b \in Buses, NEW o \in Certificates, StillCertified(b, o),
           b.restoration = o.restoration,
           RamInputsCompatibleSince(b, o.at, o.footprint)
    PROVE  \A a \in o.touched : b.bytes[a] = o.was[a]
  <1> DEFINE h == o.at.sequence
  <1>1. o.at \in Checkpoints /\ h \in Nat /\ b.sequence \in Nat
    BY DEF Certificates, Checkpoints, Buses
  <1>2. /\ b.sequence - h <= Capacity /\ Tracks(b, h, o.was, o.touched)
        /\ \A a \in o.touched : FootprintContains(o.footprint, a)
    BY DEF StillCertified, RamInputsCompatibleSince, WindowLive
  <1>3. ~Hollow(b, h)
    BY DEF RamInputsCompatibleSince, Hollow, Window
  <1>4. \A a \in o.touched : ClosedAt(b, h, o.was, a)
    BY <1>2, <1>3 DEF Tracks
  <1>5. TAKE a \in o.touched
  <1>6. CASE \A n \in h + 1 .. b.sequence : Entry(b, n).address # a
    BY <1>4, <1>6 DEF ClosedAt
  <1>7. CASE \E n \in h + 1 .. b.sequence : Entry(b, n).address = a
    <2>1. PICK n \in h + 1 .. b.sequence :
             /\ FirstOf(b, h, n, a) /\ n \in Window(b, o.at)
             /\ FirstForAddress(b, o.at, n)
      BY <1>1, <1>7, FirstExists
    <2>2. Entry(b, n).address = a /\ Entry(b, n).old = o.was[a]
      BY <1>4, <2>1 DEF ClosedAt, FirstOf
    <2>3. b.bytes[a] = Entry(b, n).old
      BY <1>2, <2>1, <2>2 DEF RamInputsCompatibleSince
    <2> QED
      BY <2>2, <2>3
  <1> QED
    BY <1>6, <1>7

(* A checkpoint that is reported restored is back.                         *)
LEMMA ReportedRestored ==
    ASSUME NEW b \in Buses, NEW o \in Observations, StillObserved(b, o),
           SideEffectsRestoredSince(b, o.at)
    PROVE  b.bytes = o.was
  <1> DEFINE h == o.at.sequence
  <1>1. /\ o.at \in Checkpoints /\ h \in Nat /\ b.sequence \in Nat
        /\ o.was \in [Backed -> Values] /\ b.bytes \in [Backed -> Values]
        /\ o.at.tracking = b.tracking
    BY DEF Observations, Checkpoints, Buses, SideEffectsRestoredSince
  <1>2. CASE h = b.sequence
    BY <1>1, <1>2 DEF StillObserved
  <1>3. CASE h # b.sequence
    <2>1. /\ WindowLive(b, o.at)
          /\ \A n \in Window(b, o.at) :
                FirstForAddress(b, o.at, n) => Unchanged(b, Entry(b, n))
      BY <1>3 DEF SideEffectsRestoredSince
    <2>2. b.sequence - h <= Capacity /\ Tracks(b, h, o.was, Backed)
      BY <1>1, <2>1 DEF WindowLive, StillObserved
    <2>3. ~Hollow(b, h)
      <3>1. SUFFICES ASSUME NEW m \in h + 1 .. b.sequence,
                            Entry(b, m).address \notin Backed
                     PROVE  FALSE
        BY DEF Hollow
      <3>2. PICK a : a = Entry(b, m).address
        OBVIOUS
      <3>3. PICK n \in h + 1 .. b.sequence :
               /\ FirstOf(b, h, n, a) /\ n \in Window(b, o.at)
               /\ FirstForAddress(b, o.at, n)
        BY <1>1, <3>2, FirstExists
      <3>4. Entry(b, n).address \in Backed
        BY <2>1, <3>3 DEF Unchanged
      <3> QED
        BY <3>1, <3>2, <3>3, <3>4 DEF FirstOf
    <2>4. \A a \in Backed : ClosedAt(b, h, o.was, a)
      BY <2>2, <2>3 DEF Tracks
    <2>5. ASSUME NEW a \in Backed PROVE b.bytes[a] = o.was[a]
      <3>1. CASE \A n \in h + 1 .. b.sequence : Entry(b, n).address # a
        BY <2>4, <3>1 DEF ClosedAt
      <3>2. CASE \E n \in h + 1 .. b.sequence : Entry(b, n).address = a
        <4>1. PICK n \in h + 1 .. b.sequence :
                 /\ FirstOf(b, h, n, a) /\ n \in Window(b, o.at)
                 /\ FirstForAddress(b, o.at, n)
          BY <1>1, <3>2, FirstExists
        <4>2. Entry(b, n).address = a /\ Entry(b, n).old = o.was[a]
          BY <2>4, <4>1 DEF ClosedAt, FirstOf
        <4>3. b.bytes[a] = Entry(b, n).old
          BY <2>1, <4>1, <4>2 DEF Unchanged
        <4> QED
          BY <4>2, <4>3
      <3> QED
        BY <3>1, <3>2
    <2> QED
      BY <1>1, <2>5
  <1> QED
    BY <1>2, <1>3

LEMMA ObserveKeeps ==
    ASSUME JournalInv, Observe
    PROVE  JournalInv'
  <1> DEFINE d == bus'
             o == held'
             f == [bits |-> {}, complete |-> bus.reading]
  <1>1. /\ bus \in Buses /\ capsule = None /\ capsule' = None
        /\ bus.sequence <= MaxSequence /\ ~bus.trapAll /\ ~bus.ramOnly /\ ~bus.storing
    BY NoneIsNothing DEF JournalInv, Inv, Typed, Observe, Idle
  <1>2. /\ d = [bus EXCEPT !.footprint = f]
        /\ o = [client |-> "observation", at |-> SideEffectCheckpoint(bus),
                was |-> bus.bytes]
    BY DEF Observe, TakenFootprint
  <1>3. f \in Footprints /\ f.complete = bus.reading
    BY <1>1 DEF Footprints, Buses
  <1>4. o \in Observations /\ o.was = bus.bytes /\ o.client = "observation"
    BY <1>1, <1>2, CheckpointTyped DEF Observations, Buses
  <1>5. o.at.sequence = bus.sequence /\ o.at.tracking = bus.tracking
    BY <1>1, <1>2, CheckpointTyped
  <1> HIDE DEF d, o, f
  <1>6. d \in Buses
    BY <1>1, <1>2, <1>3 DEF Buses
  <1>7. SameMemory(bus, d) /\ SameMode(bus, d) /\ d.footprint = f
    BY <1>1, <1>2 DEF Buses, SameMemory, SameMode
  <1>8. Typed(d, None, o)
    <2>1. /\ d.sequence <= MaxSequence /\ ~d.trapAll /\ ~d.ramOnly /\ ~d.storing
          /\ (d.footprint.complete => d.reading)
      BY <1>1, <1>3, <1>7 DEF SameMemory, SameMode
    <2> QED
      BY <1>4, <1>6, <2>1, NoneIsNothing DEF Typed
  <1>9. StillObserved(d, o)
    <2>1. /\ d.sequence = bus.sequence /\ d.bytes = bus.bytes
          /\ d.tracking = bus.tracking /\ bus.sequence \in Nat /\ bus.tracking \in Nat
      BY <1>1, <1>7 DEF SameMemory, Buses
    <2>2. PICK w : w = o.was
      OBVIOUS
    <2>3. Tracks(d, d.sequence, w, Backed)
      BY <1>4, <1>6, <2>1, <2>2, EmptyWindow
    <2> QED
      BY <1>4, <1>5, <2>1, <2>2, <2>3 DEF StillObserved
  <1>10. HeldOK(d, o)
    BY <1>4, <1>9 DEF HeldOK, Certificates, CodeStamps
  <1>11. Inv(d, None, o)
    BY <1>8, <1>10, NoneIsNothing DEF Inv, Earlier
  <1> QED
    BY <1>1, <1>11 DEF JournalInv, d, o

LEMMA FillCodeKeeps ==
    ASSUME JournalInv, FillCode
    PROVE  JournalInv'
  <1> DEFINE o == held'
             w == [a \in ExecutableBytes |-> bus.bytes[a]]
  <1>1. /\ bus \in Buses /\ bus' = bus /\ capsule' = capsule
        /\ o = [client |-> "code", execution |-> bus.execution, was |-> w]
    BY DEF JournalInv, Inv, Typed, FillCode
  <1>2. w \in [ExecutableBytes -> Values]
    BY <1>1 DEF Buses, ExecutableBytes
  <1>3. \A a \in ExecutableBytes : bus.bytes[a] = w[a]
    OBVIOUS
  <1> HIDE DEF w
  <1>4. o \in CodeStamps /\ o.client = "code" /\ o.execution = bus.execution /\ o.was = w
    BY <1>1, <1>2 DEF CodeStamps, Buses
  <1> HIDE DEF o
  <1>5. StillDecoded(bus, o)
    BY <1>1, <1>3, <1>4 DEF StillDecoded, Buses
  <1>6. HeldOK(bus, o) /\ Earlier(bus, capsule, o)
    BY <1>4, <1>5 DEF HeldOK, Earlier, Observations, Certificates
  <1>7. Typed(bus, capsule, o)
    BY <1>4 DEF JournalInv, Inv, Typed
  <1>8. Inv(bus, capsule, o)
    BY <1>6, <1>7 DEF JournalInv, Inv
  <1> QED
    BY <1>1, <1>8 DEF JournalInv, o

LEMMA HeldByClient ==
    ASSUME NEW o \in {None} \cup Observations \cup Certificates \cup CodeStamps
    PROVE  /\ o.client = "observation" => o \in Observations
           /\ o.client = "certificate" => o \in Certificates
           /\ o.client = "code" => o \in CodeStamps
  BY DEF None, Observations, Certificates, CodeStamps

LEMMA UseCertificateKeeps ==
    ASSUME JournalInv, UseCertificate
    PROVE  JournalInv'
  <1> DEFINE o == held'
  <1>1. /\ bus \in Buses /\ bus' = bus /\ capsule' = capsule /\ capsule = None
        /\ bus.journaling /\ held.client = "certificate"
        /\ bus.restoration = held.restoration
        /\ RamInputsCompatibleSince(bus, held.at, held.footprint)
        /\ o = [held EXCEPT !.at = SideEffectCheckpoint(bus)]
    BY DEF JournalInv, Inv, Typed, UseCertificate, CertificateValid, Idle
  <1>2. held \in Certificates /\ StillCertified(bus, held)
    BY <1>1, HeldByClient DEF JournalInv, Inv, Typed, HeldOK
  <1>3. \A a \in held.touched : bus.bytes[a] = held.was[a]
    BY <1>1, <1>2, ValidInputs
  <1>4. PICK at : at = SideEffectCheckpoint(bus)
    OBVIOUS
  <1>5. /\ at \in Checkpoints /\ at.sequence = bus.sequence /\ at.tracking = bus.tracking
    BY <1>1, <1>4, CheckpointTyped
  <1>6. /\ o \in Certificates /\ o.at = at /\ o.restoration = held.restoration
        /\ o.footprint = held.footprint /\ o.touched = held.touched
        /\ o.was = held.was
    BY <1>1, <1>2, <1>4, <1>5 DEF Certificates
  <1> HIDE DEF o
  <1>7. StillCertified(bus, o)
    <2>1. bus.sequence \in Nat /\ bus.restoration \in Nat /\ bus.tracking \in Nat
      BY <1>1 DEF Buses
    <2>2. PICK w, T : w = o.was /\ T = o.touched
      OBVIOUS
    <2>3. Tracks(bus, bus.sequence, w, T)
      BY <1>1, <1>3, <1>6, <2>2, EmptyWindow
    <2>4. Tracks(bus, o.at.sequence, o.was, o.touched)
      BY <1>5, <1>6, <2>2, <2>3
    <2>5. \A a \in o.touched : FootprintContains(o.footprint, a)
      BY <1>2, <1>6 DEF StillCertified
    <2>6. /\ o.restoration <= bus.restoration /\ o.at.tracking <= bus.tracking
          /\ o.at.sequence <= bus.sequence
      BY <1>1, <1>5, <1>6, <2>1
    <2> QED
      BY <1>1, <2>4, <2>5, <2>6 DEF StillCertified
  <1>8. o.client = "certificate"
    BY <1>6 DEF Certificates
  <1>9. HeldOK(bus, o)
    BY <1>6, <1>7, <1>8 DEF HeldOK, Observations, CodeStamps
  <1>10. Typed(bus, None, o)
    BY <1>1, <1>6 DEF JournalInv, Inv, Typed
  <1>11. Inv(bus, None, o)
    BY <1>9, <1>10, NoneIsNothing DEF Inv, Earlier
  <1> QED
    BY <1>1, <1>11 DEF JournalInv, o

-----------------------------------------------------------------------------
(* The theorems.                                                           *)

LEMMA NextKeeps ==
    ASSUME JournalInv, [Next]_vars
    PROVE  JournalInv'
  <1>1. CASE UNCHANGED vars
    BY <1>1 DEF vars, JournalInv
  <1>2. CASE CpuWrite \/ CpuRead \/ Load
    BY <1>2, CpuWriteKeeps, CpuReadKeeps, LoadKeeps
  <1>3. CASE EnterUntracked \/ LeaveUntracked
    BY <1>3, EnterUntrackedKeeps, LeaveUntrackedKeeps
  <1>4. CASE BeginCapsule \/ CommitCapsule \/ CancelCapsule
    BY <1>4, BeginCapsuleKeeps, CommitCapsuleKeeps, CancelCapsuleKeeps
  <1>5. CASE BeginCertificate \/ EndCertificate
    BY <1>5, BeginCertificateKeeps, EndCertificateKeeps
  <1>6. CASE Observe \/ FillCode \/ UseCertificate
    BY <1>6, ObserveKeeps, FillCodeKeeps, UseCertificateKeeps
  <1> QED
    BY <1>1, <1>2, <1>3, <1>4, <1>5, <1>6 DEF Next

(* Every checkpoint that the board or a reader keeps is one the journal    *)
(* tracks, across stores by any path, untracked intervals, rollbacks and   *)
(* reuse of the ring's slots (memory_bus.cpp:121-130, 1195-1218).          *)
THEOREM JournalTracksCheckpoints == Spec => []JournalInv
  <1>1. Init => JournalInv
    BY InitKeeps
  <1>2. JournalInv /\ [Next]_vars => JournalInv'
    BY NextKeeps
  <1> QED
    BY <1>1, <1>2, PTL DEF Spec

LEMMA InvRestoreExact ==
    ASSUME JournalInv, ~Idle, bus.sequence # capsule.at.sequence
    PROVE  LET restored == RestoreSideEffects(bus, capsule.at)
           IN  restored.ok /\ restored.bus.bytes = capsule.was
  <1>1. /\ bus \in Buses /\ capsule \in Plain \cup Building
        /\ Reversible(bus, capsule)
    BY CertifyingBuilds, CapsuleTyped DEF JournalInv, Inv, Typed
  <1>2. /\ capsule.at \in Checkpoints /\ capsule.at.sequence \in Nat
        /\ capsule.was \in [Backed -> Values]
    BY <1>1, CapsuleTyped
  <1>3. bus.sequence - capsule.at.sequence <= Capacity
    <2>1. bus.sequence \in Nat /\ MaxCapsule \in 1 .. Capacity /\ Capacity \in Nat
      BY <1>1, JournalAssumption DEF Buses
    <2> QED
      BY <1>1, <1>2, <2>1 DEF Reversible
  <1>4. PICK restored : restored = RestoreSideEffects(bus, capsule.at)
    OBVIOUS
  <1>5. PICK d : d = restored.bus
    OBVIOUS
  <1>6. restored.ok = TRUE /\ RestoreGood(bus, d, capsule.at.sequence)
    BY <1>1, <1>2, <1>3, <1>4, <1>5, RestoreSucceeds DEF Reversible
  <1>7. PICK w, s : w = capsule.was /\ s = capsule.at.sequence
    OBVIOUS
  <1>8. d \in Buses /\ d.sequence = s
    BY <1>6, <1>7 DEF RestoreGood, RolledBack
  <1>9. Tracks(d, s, w, Backed)
    <2>1. s \in 0 .. s /\ Tracks(bus, s, w, Backed)
      BY <1>1, <1>2, <1>7 DEF Reversible
    <2> QED
      BY <1>6, <1>7, <2>1, Zenon DEF RestoreGood
  <1>10. Tracks(d, d.sequence, w, Backed)
    BY <1>8, <1>9
  <1>11. \A a \in Backed : d.bytes[a] = w[a]
    BY <1>8, <1>10, EmptyWindow
  <1>12. d.bytes = w
    BY <1>2, <1>7, <1>8, <1>11 DEF Buses
  <1> QED
    BY <1>4, <1>5, <1>6, <1>7, <1>12

(* The journal answers for memory (sideEffectsRestoredSince and            *)
(* restoreSideEffects): a checkpoint that is reported restored is back,    *)
(* and a capsule can be rolled back at every point of its evaluation to    *)
(* exactly the memory it started from.                                     *)
THEOREM JournalIsExact == Spec => []JournalExact
  <1>1. JournalInv => JournalExact
    <2> SUFFICES ASSUME JournalInv PROVE JournalExact
      OBVIOUS
    <2>1. /\ bus \in Buses /\ bus.sequence <= MaxSequence
          /\ (bus.footprint.complete => bus.reading)
          /\ (bus.trapAll <=> capsule # None) /\ (bus.ramOnly <=> capsule # None)
          /\ (bus.storing <=> capsule \in Building)
          /\ held \in {None} \cup Observations \cup Certificates \cup CodeStamps
      BY DEF JournalInv, Inv, Typed
    <2>2. TypeOK
      <3>1. bus.bytes \in [Backed -> Values]
        BY <2>1 DEF Buses
      <3>2. \A s \in 0 .. Capacity - 1 :
               /\ bus.journal[s].address \in Backed \cup {0}
               /\ bus.journal[s].old \in Values
        BY <2>1 DEF Buses, Journals, Slots
      <3>3. bus.sequence \in 0 .. MaxSequence
        BY <2>1, JournalAssumption DEF Buses
      <3>4. /\ bus.trapAll \in BOOLEAN /\ bus.ramOnly \in BOOLEAN
            /\ bus.storing \in BOOLEAN
        BY <2>1 DEF Buses
      <3>5. bus.trapAll = ~Idle /\ bus.ramOnly = ~Idle /\ bus.storing = Certifying
        <4>1. /\ (bus.trapAll <=> ~Idle) /\ (bus.ramOnly <=> ~Idle)
              /\ (bus.storing <=> Certifying)
          BY <2>1, CertifyingBuilds
        <4>2. (~Idle) \in BOOLEAN /\ Certifying \in BOOLEAN
          <5>1. capsule.building \in BOOLEAN \/ Idle
            BY CertifyingBuilds DEF Plain, Building
          <5> QED
            BY <5>1, Zenon DEF Certifying, Idle
        <4> QED
          BY <3>4, <4>1, <4>2, Zenon
      <3> QED
        BY <2>1, <3>1, <3>2, <3>3, <3>5 DEF TypeOK
    <2>3. RestoredSound
      <3>1. SUFFICES ASSUME held.client = "observation",
                            SideEffectsRestoredSince(bus, held.at)
                     PROVE  bus.bytes = held.was
        BY DEF RestoredSound
      <3>2. held \in Observations
        BY <2>1, <3>1, HeldByClient
      <3>3. StillObserved(bus, held)
        BY <3>2 DEF JournalInv, Inv, HeldOK
      <3> QED
        BY <2>1, <3>1, <3>2, <3>3, ReportedRestored
    <2>4. RestoreExact
      BY InvRestoreExact DEF RestoreExact
    <2> QED
      BY <2>2, <2>3, <2>4 DEF JournalExact
  <1> QED
    BY <1>1, JournalTracksCheckpoints, PTL

(* A certificate the board would use (restoration_generation_ and          *)
(* ramInputsCompatibleSince, board.cpp:883-898) is about memory as it is:  *)
(* every byte its replay loaded or stored has the value it had.            *)
THEOREM CertificatesAreSound == Spec => []InputsSound
  <1>1. JournalInv => InputsSound
    <2> SUFFICES ASSUME JournalInv, held.client = "certificate", CertificateValid
                 PROVE  \A a \in held.touched : bus.bytes[a] = held.was[a]
      BY DEF InputsSound
    <2>1. /\ bus \in Buses
          /\ held \in {None} \cup Observations \cup Certificates \cup CodeStamps
      BY DEF JournalInv, Inv, Typed
    <2>2. held \in Certificates
      BY <2>1, HeldByClient
    <2>3. StillCertified(bus, held)
      BY <2>2 DEF JournalInv, Inv, HeldOK
    <2> QED
      BY <2>1, <2>2, <2>3, ValidInputs DEF CertificateValid
  <1> QED
    BY <1>1, JournalTracksCheckpoints, PTL

(* Decoded code whose stamp is the execution generation is the code in     *)
(* memory, whatever stored, loaded or rolled back an executable byte       *)
(* (memory_bus.cpp:536-538, cortex_m4.cpp:1377).                           *)
THEOREM DecodedCodeIsFresh == Spec => []CodeFresh
  <1>1. JournalInv => CodeFresh
    <2> SUFFICES ASSUME JournalInv, held.client = "code",
                        held.execution = bus.execution
                 PROVE  \A a \in ExecutableBytes : bus.bytes[a] = held.was[a]
      BY DEF CodeFresh
    <2>1. held \in {None} \cup Observations \cup Certificates \cup CodeStamps
      BY DEF JournalInv, Inv, Typed
    <2>2. held \in CodeStamps
      BY <2>1, HeldByClient
    <2> QED
      BY <2>2 DEF JournalInv, Inv, HeldOK, StillDecoded
  <1> QED
    BY <1>1, JournalTracksCheckpoints, PTL
=============================================================================
