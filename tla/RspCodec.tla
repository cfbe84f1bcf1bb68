------------------------------ MODULE RspCodec -----------------------------
(***************************************************************************)
(* The encodings of the remote serial protocol (src/debug/rsp.cpp) over a  *)
(* digit of Radix values: little-endian register text, plain hexadecimal   *)
(* numbers, escaped binary data, and the framing with its checksum.        *)
(***************************************************************************)
EXTENDS Integers, Sequences

CONSTANTS
    Radix,      \* values of a digit; a byte is two digits
    Dollar, Hash, Brace, Plus, Minus,   \* the bytes the framing knows
    EscapeBit,  \* the bit an escaped byte has inverted
    MaxDigits,  \* the digits of the widest number parsed
    PacketLimit, \* maximum_packet_bytes
    Payloads,   \* packets to be framed
    Noise,      \* what may precede a packet
    Numbers     \* values to be printed and parsed

VARIABLE
    text        \* the input under test

Byte == 0 .. Radix * Radix - 1

(* hexValue: least significant byte first, its high digit before its low.  *)
HexValue(value, bytes) ==
    [k \in 1 .. 2 * bytes |->
        LET byte == (value \div (Radix * Radix)^((k - 1) \div 2)) % (Radix * Radix)
        IN  IF k % 2 = 1 THEN byte \div Radix ELSE byte % Radix]

(* hexNumber: most significant digit first, at least one, zeros to fill.   *)
RECURSIVE Digits(_)
Digits(value) == IF value < Radix THEN 1 ELSE 1 + Digits(value \div Radix)

HexNumber(value, minimum) ==
    LET length == IF Digits(value) > minimum THEN Digits(value) ELSE minimum
    IN  [k \in 1..length |-> (value \div Radix^(length - k)) % Radix]

(* parseHex and parseLittleEndianHex; a digit that is none is refused, and *)
(* so is a number that is too long.                                        *)
Refused == -1
IsDigit(d) == d \in 0 .. Radix - 1
AllDigits(s) == \A k \in DOMAIN s : IsDigit(s[k])

RECURSIVE ParseHex(_)
ParseHex(s) ==
    IF s = <<>> \/ Len(s) > MaxDigits \/ ~AllDigits(s) THEN Refused
    ELSE IF Len(s) = 1 THEN s[1]
    ELSE ParseHex(SubSeq(s, 1, Len(s) - 1)) * Radix + s[Len(s)]

DecodeHexBytes(s) ==
    IF Len(s) % 2 # 0 \/ ~AllDigits(s) THEN <<Refused>>
    ELSE [k \in 1 .. Len(s) \div 2 |-> s[2 * k - 1] * Radix + s[2 * k]]

RECURSIVE LittleEndian(_)
LittleEndian(bytes) ==
    IF bytes = <<>> THEN 0 ELSE Head(bytes) + Radix * Radix * LittleEndian(Tail(bytes))

(* Seeded fault: the digits are read as they stand. *)
ParseLittleEndianHex_AsHex(s) == ParseHex(s)

ParseLittleEndianHex(s) ==
    IF s = <<>> \/ Len(s) > MaxDigits \/ DecodeHexBytes(s) = <<Refused>> THEN Refused
    ELSE LittleEndian(DecodeHexBytes(s))

(* decodeBinaryBytes: '}' inverts a bit of the byte after it.              *)
Inverted(byte) == IF (byte \div EscapeBit) % 2 = 1 THEN byte - EscapeBit ELSE byte + EscapeBit

RECURSIVE DecodeBinaryBytes(_)
DecodeBinaryBytes(s) ==
    IF s = <<>> THEN <<>>
    ELSE IF Head(s) # Brace THEN <<Head(s)>> \o DecodeBinaryBytes(Tail(s))
    ELSE IF Len(s) = 1 THEN <<Refused>>
    ELSE <<Inverted(s[2])>> \o DecodeBinaryBytes(SubSeq(s, 3, Len(s)))

(* GDB's side of the escape: the bytes the framing would take for its own. *)
RECURSIVE EncodeBinaryBytes(_)
EncodeBinaryBytes(s) ==
    IF s = <<>> THEN <<>>
    ELSE (IF Head(s) \in {Dollar, Hash, Brace} THEN <<Brace, Inverted(Head(s))>> ELSE <<Head(s)>>)
             \o EncodeBinaryBytes(Tail(s))

(* The checksum is the sum of the bytes, one byte wide; in the frame its   *)
(* digits are bytes like any other.                                        *)
RECURSIVE Checksum(_)
Checksum(s) == IF s = <<>> THEN 0 ELSE (Head(s) + Checksum(Tail(s))) % (Radix * Radix)

FrameOf(payload) ==
    <<Dollar>> \o payload \o <<Hash>> \o <<Checksum(payload) \div Radix, Checksum(payload) % Radix>>

(* readPacket over the bytes that have arrived: the packet, what it wrote, *)
(* and the bytes left; noise is skipped, a bad checksum answered with '-'. *)
(* A packet that is cut short or too long ends the connection.             *)
ReadEnded == [payload |-> <<Refused>>, wrote |-> <<>>, rest |-> <<>>]

RECURSIVE ReadFrame(_, _)
ReadFrame(s, wrote) ==
    IF s = <<>> THEN [ReadEnded EXCEPT !.wrote = wrote]
    ELSE IF Head(s) # Dollar THEN ReadFrame(Tail(s), wrote)
    ELSE LET ends == {k \in 2..Len(s) : s[k] = Hash}
             end == CHOOSE k \in ends : \A j \in ends : k <= j
         IN  IF ends = {} \/ end - 2 > PacketLimit \/ end + 2 > Len(s) THEN [ReadEnded EXCEPT !.wrote = wrote]
             ELSE LET payload == SubSeq(s, 2, end - 1)
                      digit(k) == IF IsDigit(s[k]) THEN s[k] ELSE 0
                      rest == SubSeq(s, end + 3, Len(s))
                  IN  IF digit(end + 1) * Radix + digit(end + 2) = Checksum(payload)
                      THEN [payload |-> payload, wrote |-> Append(wrote, Plus), rest |-> rest]
                      ELSE ReadFrame(rest, Append(wrote, Minus))

-----------------------------------------------------------------------------
CodecInit == text \in [bytes : Payloads, noise : Noise, number : Numbers, damaged : BOOLEAN]

(* A frame with one digit of its checksum changed.                         *)
Damaged(frame) == [frame EXCEPT ![Len(frame)] = (@ + 1) % Radix]

(* What one side writes the other reads: numbers and registers, binary     *)
(* data with any of the framing's bytes in it, and packets behind noise    *)
(* or behind a damaged copy of themselves, which is rejected exactly once. *)
(* A number or a packet past its limit is refused, not cut.                *)
CodecExact ==
    LET encoded == EncodeBinaryBytes(text.bytes)
        stream == text.noise \o (IF text.damaged THEN Damaged(FrameOf(encoded)) ELSE <<>>)
                      \o FrameOf(encoded)
    IN  /\ ParseHex(HexNumber(text.number, 2)) = text.number
        /\ ParseHex(HexNumber(text.number, MaxDigits + 1)) = Refused
        /\ ParseLittleEndianHex(HexValue(text.number, 2)) = text.number
        /\ ParseLittleEndianHex(HexValue(text.number, 2 + MaxDigits)) = Refused
        /\ DecodeBinaryBytes(encoded) = text.bytes
        /\ ReadFrame(stream, <<>>) =
              IF Len(encoded) > PacketLimit THEN ReadEnded ELSE
              [payload |-> encoded, rest |-> <<>>,
               wrote |-> IF text.damaged THEN <<Minus, Plus>> ELSE <<Plus>>]
=============================================================================
