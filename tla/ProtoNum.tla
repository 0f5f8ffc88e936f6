------------------------------- MODULE ProtoNum -------------------------------
(***************************************************************************)
(* Heads and integers of the tagged format that proto.cpp and the Java     *)
(* package org.gtdev.oc.server.protocol write and read.  An integer of w   *)
(* bytes is the sequence of its bytes in two's complement, most            *)
(* significant byte first, so that every width of the code keeps its       *)
(* range.  A language is "cpp" (proto.cpp, on a platform whose char is     *)
(* signed and whose long has eight bytes) or "java".                       *)
(***************************************************************************)
EXTENDS Integers, Sequences

Byte == 0 .. 255
Langs == {"cpp", "java"}

BYTE == 0
SHORT == 1
INT == 2
LONG == 3
FLOAT == 4
DOUBLE == 5
STRING1 == 6
STRING4 == 7
MAP == 8
LIST == 9
STRUCT_BEGIN == 10
STRUCT_END == 11
ZERO_TAG == 12
SIMPLE_LIST == 13

\* The sizes of byte, short, int and long.
Widths == {1, 2, 4, 8}
Number(w) == [1 .. w -> Byte]
TypeOfWidth == [w \in Widths |-> CASE w = 1 -> BYTE
                                   [] w = 2 -> SHORT
                                   [] w = 4 -> INT
                                   [] w = 8 -> LONG]
IntegerTypes == {BYTE, SHORT, INT, LONG}
WidthOfType == [t \in IntegerTypes |-> CASE t = BYTE  -> 1
                                         [] t = SHORT -> 2
                                         [] t = INT   -> 4
                                         [] t = LONG  -> 8]

Zero(w) == [i \in 1 .. w |-> 0]

\* The w lowest bytes of a number of n bytes: a cast to a narrower type.
Low(v, n, w) == [i \in 1 .. w |-> v[i + n - w]]

\* A number of n bytes in w bytes, the new ones equal to fill.
Extend(v, n, w, fill) == [i \in 1 .. w |-> IF i <= w - n THEN fill ELSE v[i - (w - n)]]

Negative(v) == v[1] >= 128
SignExtend(v, n, w) == Extend(v, n, w, IF Negative(v) THEN 255 ELSE 0)
ZeroExtend(v, n, w) == Extend(v, n, w, 0)

\* Faulty variant: the range of the narrower type is taken for unsigned.
Fits_Bug(v, n, w) == v = ZeroExtend(Low(v, n, w), w, n)

\* v lies within the range of a signed type of w bytes: the comparisons with
\* SCHAR_MIN..SCHAR_MAX, SHRT_MIN..SHRT_MAX and INT_MIN..INT_MAX.
Fits(v, n, w) == v = SignExtend(Low(v, n, w), w, n)

(***************************************************************************)
(* The chain write(long) -> write(int) -> write(short) -> write(char):     *)
(* each passes a value on that fits the next narrower type, and zero is a  *)
(* head alone.  The result is a type and the bytes behind the head.        *)
(***************************************************************************)
ShortestWidth(v, n) ==
    IF n > 4 /\ ~ Fits(v, n, 4) THEN 8
    ELSE IF n > 2 /\ ~ Fits(v, n, 2) THEN 4
    ELSE IF n > 1 /\ ~ Fits(v, n, 1) THEN 2
    ELSE 1

EncodeNum(v, n) ==
    IF v = Zero(n) THEN [type |-> ZERO_TAG, payload |-> << >>]
    ELSE LET w == ShortestWidth(v, n)
         IN  [type |-> TypeOfWidth[w], payload |-> Low(v, n, w)]

(***************************************************************************)
(* Reading into a variable of w bytes takes every type that is not wider.  *)
(* The C++ reader gets the bytes as an unsigned number and assigns it, so  *)
(* that only a number of the variable's own width keeps its sign; the Java *)
(* reader widens signed numbers.                                           *)
(***************************************************************************)
ReadableAs(type, w) == type = ZERO_TAG \/ (type \in IntegerTypes /\ WidthOfType[type] <= w)

DecodeNum(lang, type, payload, w) ==
    IF type = ZERO_TAG THEN Zero(w)
    ELSE IF lang = "cpp" THEN ZeroExtend(payload, WidthOfType[type], w)
    ELSE SignExtend(payload, WidthOfType[type], w)

\* One byte for tags below 15 and two for others.  C++ takes the tag as a
\* char: from 128 on it is negative, so below 15.
WriteHead(lang, type, tag) ==
    IF tag < 15 \/ (lang = "cpp" /\ tag >= 128)
    THEN <<(tag * 16 + type) % 256>>
    ELSE <<240 + type, tag>>
=============================================================================
