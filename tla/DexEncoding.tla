---------------------------- MODULE DexEncoding ----------------------------
(***************************************************************************)
(* The variable-length encodings of a .dex image: LEB128 numbers           *)
(* (slicer/dex_leb128.h, pushed by slicer/buffer.h) and the integer and    *)
(* floating point forms of an encoded value (reader.cc, writer.cc).  A     *)
(* number is a sequence of digits, the least significant one first; a      *)
(* LEB128 digit carries the continuation bit as an addition of Group.      *)
(* Group is 128, Byte is 256 and U4 is 2^32 in the code; they are          *)
(* constants so that TLC can cross every boundary with small numbers.      *)
(***************************************************************************)
EXTENDS Integers, Sequences, FiniteSetsExt

CONSTANTS Group,   \* the values of the low bits of a LEB128 byte
          Byte,    \* the values of a byte of an encoded value
          U4,      \* the values of a 32-bit word
          U2       \* the values of a 16-bit word: indexes inside items and instructions

ASSUME EncodingAssumption ==
  /\ Group \in Nat /\ Byte \in Nat /\ U4 \in Nat /\ U2 \in Nat
  /\ Group > 1 /\ Group % 2 = 0 /\ Byte > 1 /\ Byte % 2 = 0 /\ U4 % 2 = 0
  /\ Group * Group * Group * Group < U4
  /\ U4 <= Group * Group * Group * Group * Group
  /\ U4 <= Byte * Byte * Byte * Byte

NoIndex == U4 - 1   \* dex::kNoIndex, all the bits of a word

Pow(b, n) == CASE n = 0 -> 1
               [] n = 1 -> b
               [] n = 2 -> b * b
               [] n = 3 -> b * b * b
               [] n = 4 -> b * b * b * b
               [] OTHER -> b ^ n

Digits(v, base, n) == [i \in 1..n |-> (v \div Pow(base, i - 1)) % base]

Number(digits, base) ==
  MapThenSumSet(LAMBDA i : digits[i] * Pow(base, i - 1), DOMAIN digits)

FitsSigned(v, base, n) == 2 * v < Pow(base, n) /\ 2 * v >= -Pow(base, n)

\* The shortest of the lengths 1..max that fits.
Shortest(Fits(_), max) == CHOOSE n \in 1..max : Fits(n) /\ \A k \in 1..(n - 1) : ~Fits(k)

SignExtended(v, base, n) == IF 2 * v >= Pow(base, n) THEN v - Pow(base, n) ELSE v

-----------------------------------------------------------------------------
(* LEB128 *)

Continued(digits) ==
  [i \in DOMAIN digits |-> digits[i] + (IF i < Len(digits) THEN Group ELSE 0)]

WriteULeb128(v) ==
  Continued(Digits(v, Group, Shortest(LAMBDA n : v < Pow(Group, n), 5)))

WriteSLeb128(v) ==
  Continued(Digits(v, Group, Shortest(LAMBDA n : FitsSigned(v, Group, n), 5)))

\* The bytes of a number: up to the first without the continuation bit, at
\* most five; the fifth is not masked and keeps the bits that fit a word.
LebBytes(b) ==
  LET n == Shortest(LAMBDA k : k = 5 \/ b[k] < Group, 5)
  IN  [i \in 1..n |-> IF i = 5 THEN b[i] ELSE b[i] % Group]

ReadULeb128(b) == Number(LebBytes(b), Group) % U4

ReadSLeb128(b) ==
  LET d == LebBytes(b)
      v == Number(d, Group)
  IN  IF Len(d) < 5 THEN SignExtended(v, Group, Len(d))
      ELSE IF 2 * (v % U4) >= U4 THEN (v % U4) - U4 ELSE v % U4

-----------------------------------------------------------------------------
(* Encoded values *)

Signed == {"byte", "short", "int", "long"}
Widths(type) ==
  CASE type = "byte" -> 1
    [] type \in {"short", "char"} -> 2
    [] type \in {"long", "double"} -> 8
    [] OTHER -> 4

WriteIntValue(type, v) ==
  Digits(v, Byte,
         Shortest(LAMBDA n : IF type \in Signed THEN FitsSigned(v, Byte, n)
                             ELSE v < Pow(Byte, n), Widths(type)))

ParseIntValue(type, b) ==
  IF type \in Signed THEN SignExtended(Number(b, Byte), Byte, Len(b))
  ELSE Number(b, Byte)

\* The low zero bytes of a floating point value are left out, never the last.
WriteFloatValue(bits) ==
  LET first == Shortest(LAMBDA n : n = Len(bits) \/ bits[n] # 0, Len(bits))
  IN  SubSeq(bits, first, Len(bits))

ParseFloatValue(type, b) ==
  [i \in 1..(Widths(type) - Len(b)) |-> 0] \o b
=============================================================================
