------------------------------ MODULE FlashCrc ------------------------------
(***************************************************************************)
(* FlashPeripheral (unlock sequences, page erase, the generation of ACR    *)
(* that compiled loops are checked against) and CrcPeripheral, its word    *)
(* narrowed to CrcWidth bits in bytes of CrcByte.                          *)
(***************************************************************************)
EXTENDS Integers, Sequences, FiniteSets

CONSTANTS
    Pages,          \* page numbers that CR can name
    FlashPages,     \* the pages that exist
    AcrImages,      \* values of LATENCY, PRFTEN, ICEN and DCEN
    MaxGeneration,  \* bound on acr_generation_
    CrcWidth,       \* 32
    CrcByte,        \* 8
    CrcInits,       \* values firmware writes to INIT
    Polynomials,    \* values firmware writes to POL
    MaxFed          \* bound on the bits fed since INIT

ASSUME FlashCrcAssumption ==
    /\ FlashPages \subseteq Pages /\ CrcWidth % CrcByte = 0 /\ AcrImages # {}

VARIABLES
    flash,   \* registers, key sequences and the erased pages
    crc      \* INIT, POL, the remainder, the image of DR and the bits fed
             \* since the last INIT

FlashCrcVars == <<flash, crc>>

Keys == {"key1", "key2", "other"}
AcrReset == CHOOSE a \in AcrImages : TRUE

(* "seen" is the history the unlock rule speaks of: the last key written.  *)
FlashInit ==
    flash = [sequence |-> "idle", optionSequence |-> "idle", locked |-> TRUE,
             optionLocked |-> TRUE, eop |-> FALSE, erased |-> {},
             acr |-> AcrReset, generation |-> 1, proof |-> [acr |-> AcrReset, generation |-> 1],
             seen |-> "other", entitled |-> FALSE]

(* Seeded fault: a wrong key in between does not restart the sequence.     *)
AdvanceKeyForgiving(sequence, key) ==
    IF sequence = "first_key_seen" /\ key = "key2" THEN [sequence |-> "idle", unlocked |-> TRUE]
    ELSE [sequence |-> IF key = "key1" THEN "first_key_seen" ELSE sequence, unlocked |-> FALSE]

(* advanceKeySequence *)
AdvanceKeySequence(sequence, key) ==
    IF sequence = "first_key_seen" /\ key = "key2" THEN [sequence |-> "idle", unlocked |-> TRUE]
    ELSE [sequence |-> IF key = "key1" THEN "first_key_seen" ELSE "idle", unlocked |-> FALSE]

WriteKeyr == \E key \in Keys :
    LET step == AdvanceKeySequence(flash.sequence, key)
    IN  flash' = [flash EXCEPT !.sequence = step.sequence,
                     !.locked = @ /\ ~step.unlocked, !.seen = key,
                     !.entitled = @ \/ (key = "key2" /\ flash.seen = "key1")]
WriteOptkeyr == \E key \in Keys :
    LET step == AdvanceKeySequence(flash.optionSequence, key)
    IN  flash' = [flash EXCEPT !.optionSequence = step.sequence,
                     !.optionLocked = @ /\ ~step.unlocked]

(* CR: ignored while locked; PER with STRT erases before the write ends,   *)
(* and EOP tells whether the page existed.  The image also sets the locks. *)
WriteFlashCr == \E lock, optionLock, erase \in BOOLEAN, page \in Pages :
    /\ ~flash.locked
    /\ flash' = [flash EXCEPT !.locked = lock, !.optionLocked = optionLock,
                    !.entitled = @ /\ ~lock,
                    !.erased = IF erase /\ page \in FlashPages THEN @ \cup {page} ELSE @,
                    !.eop = @ \/ (erase /\ page \in FlashPages)]
ClearEop == flash' = [flash EXCEPT !.eop = FALSE]

(* ACR: a change moves the generation, and so does a reset.  A loop proof  *)
(* remembers both.                                                         *)
Stepped(f) == [f EXCEPT !.generation = @ + 1]
WriteAcr == \E image \in AcrImages :
    /\ flash.generation < MaxGeneration
    /\ flash' = IF image = flash.acr THEN flash ELSE Stepped([flash EXCEPT !.acr = image])
ProveLoop == flash' = [flash EXCEPT !.proof = [acr |-> flash.acr, generation |-> flash.generation]]
ResetFlash ==
    /\ flash.generation < MaxGeneration
    /\ flash' = Stepped([flash EXCEPT !.sequence = "idle", !.optionSequence = "idle",
                   !.locked = TRUE, !.optionLocked = TRUE, !.eop = FALSE, !.acr = AcrReset,
                   !.seen = "other", !.entitled = FALSE])

FlashNext ==
    /\ \/ WriteKeyr \/ WriteOptkeyr \/ WriteFlashCr \/ ClearEop \/ WriteAcr \/ ProveLoop
       \/ ResetFlash
    /\ UNCHANGED crc

-----------------------------------------------------------------------------
ResetState == [init |-> 2^CrcWidth - 1, poly |-> CHOOSE p \in Polynomials : TRUE,
               value |-> 2^CrcWidth - 1, image |-> 0, from |-> 2^CrcWidth - 1, fed |-> <<>>]
CrcInit == crc = ResetState

Bit(v, i) == (v \div 2^i) % 2
XorOf(a, b) ==
    LET sum[i \in 0..(2 * CrcWidth)] ==
          IF i = 0 THEN 0
          ELSE sum[i - 1] + 2^(i - 1) * ((Bit(a, i - 1) + Bit(b, i - 1)) % 2)
    IN  sum[2 * CrcWidth]

(* Seeded fault: the bytes of an access are taken low byte first.          *)
UpdateCrcLowFirst(value, poly, data, bytes) ==
    LET top == 2^(CrcWidth - 1)
        shifted[v \in 0..(2^CrcWidth - 1)] ==
          IF v >= top THEN XorOf((v * 2) % 2^CrcWidth, poly) ELSE v * 2
        rounds[n \in 0..CrcByte, v \in 0..(2^CrcWidth - 1)] ==
          IF n = 0 THEN v ELSE shifted[rounds[n - 1, v]]
        take[i \in 0..bytes] ==
          IF i = 0 THEN value
          ELSE rounds[CrcByte, XorOf(take[i - 1],
                 ((data \div 2^((i - 1) * CrcByte)) % 2^CrcByte) * 2^(CrcWidth - CrcByte))]
    IN  take[bytes]

(* updateCrc: high byte first, each byte shifted through bit by bit.       *)
UpdateCrc(value, poly, data, bytes) ==
    LET top == 2^(CrcWidth - 1)
        shifted[v \in 0..(2^CrcWidth - 1)] ==
          IF v >= top THEN XorOf((v * 2) % 2^CrcWidth, poly) ELSE v * 2
        rounds[n \in 0..CrcByte, v \in 0..(2^CrcWidth - 1)] ==
          IF n = 0 THEN v ELSE shifted[rounds[n - 1, v]]
        take[i \in 0..bytes] ==
          IF i = 0 THEN value
          ELSE rounds[CrcByte, XorOf(take[i - 1],
                 ((data \div 2^((bytes - i) * CrcByte)) % 2^CrcByte) * 2^(CrcWidth - CrcByte))]
    IN  take[bytes]

(* Accesses of one byte up to the whole word.  A narrow access at offset 0 *)
(* feeds its own bytes; at any other offset the whole register image is    *)
(* fed: the bytes written, merged with what DR was last written with.      *)
WriteDr == \E offset \in 0..(CrcWidth \div CrcByte - 1) :
    \E bytes \in 1..(CrcWidth \div CrcByte - offset) :
    \E data \in 0..(2^(bytes * CrcByte) - 1) :
        LET low == 2^(offset * CrcByte)
            high == 2^((offset + bytes) * CrcByte)
            merged == (crc.image \div high) * high + data * low + (crc.image % low)
            count == IF offset = 0 THEN bytes ELSE CrcWidth \div CrcByte
            bits == count * CrcByte
        IN  /\ Len(crc.fed) + bits <= MaxFed
            /\ crc' = [crc EXCEPT !.value = UpdateCrc(@, crc.poly, merged, count),
                  !.image = merged,
                  !.fed = @ \o [i \in 1..bits |-> Bit(merged, bits - i)]]
WriteCrcReset == crc' = [crc EXCEPT !.value = crc.init, !.from = crc.init, !.fed = <<>>]
WriteInit == \E v \in CrcInits :
    crc' = [crc EXCEPT !.init = v, !.value = v, !.from = v, !.fed = <<>>]
WritePol == \E p \in Polynomials :
    crc' = [crc EXCEPT !.poly = p, !.from = crc.value, !.fed = <<>>]

ResetCrc == crc' = ResetState

CrcNext == (WriteDr \/ WriteCrcReset \/ WriteInit \/ WritePol \/ ResetCrc) /\ UNCHANGED flash

-----------------------------------------------------------------------------
(* Flash is unlocked only by the two keys written one right after the      *)
(* other, with no other key in between, whatever was written before: the   *)
(* second of them since the last lock or reset, both since the last reset  *)
(* or unlock.  A write of LOCK does not restart the key sequence, so the   *)
(* first key may have been written before it.  And a loop proved under   *)
(* one wait-state setting is never taken for valid under another: the same *)
(* generation means the same ACR.                                          *)
FlashGuarded ==
    /\ ~flash.locked => flash.entitled
    /\ flash.proof.generation = flash.generation => flash.proof.acr = flash.acr

(* Long division: the remainder of from * x^n + message * x^width.         *)
Remainder(from, message, poly) ==
    LET top == 2^(CrcWidth - 1)
        rest[k \in 0..Len(message)] ==
          IF k = 0 THEN from
          ELSE LET high == IF rest[k - 1] >= top THEN 1 ELSE 0
                   low == (rest[k - 1] * 2) % 2^CrcWidth
               IN  IF (high + message[k]) % 2 = 1 THEN XorOf(low, poly) ELSE low
    IN  rest[Len(message)]

(* The data register holds the remainder of the whole message since INIT,  *)
(* however firmware cut it into byte, halfword and word writes.  The       *)
(* message is what the accesses feed, see WriteDr.                         *)
CrcExact == crc.value = Remainder(crc.from, crc.fed, crc.poly)
=============================================================================
