-------------------------- MODULE ProtoStreamProofs --------------------------
(***************************************************************************)
(* What a number, a string or a byte vector is after it has been written   *)
(* by either language and read by either, and where the position is then,  *)
(* for every value and every place in a stream: TLC can only try a few of  *)
(* the 2^64 longs and a few lengths.                                       *)
(***************************************************************************)
EXTENDS ProtoStream, SequenceTheorems, TLAPS

-----------------------------------------------------------------------------
(***************************************************************************)
(* Integers                                                                *)
(***************************************************************************)

(***************************************************************************)
(* The width the chain of writers stops at is one of the code's widths,    *)
(* not wider than the number, and the number lies in its range.            *)
(***************************************************************************)
LEMMA ShortestWidthFits ==
    ASSUME NEW w \in Widths, NEW v \in Number(w)
    PROVE  LET k == ShortestWidth(v, w)
           IN  k \in Widths /\ k <= w /\ (k < w => Fits(v, w, k))
  BY DEF Widths, ShortestWidth

(***************************************************************************)
(* Casting a number to its own width changes nothing.                      *)
(***************************************************************************)
LEMMA SameWidth ==
    ASSUME NEW w \in Widths, NEW v \in Number(w)
    PROVE  /\ Low(v, w, w) = v
           /\ \A fill : Extend(v, w, w, fill) = v
  <1>1. w \in Nat
    BY DEF Widths
  <1>2. \A i \in 1 .. w : i + w - w = i /\ i - (w - w) = i /\ i <= w /\ (i <= w - w <=> FALSE)
    BY <1>1
  <1>3. v = [i \in 1 .. w |-> v[i]]
    BY DEF Number
  <1>4. Low(v, w, w) = v
    BY <1>2, <1>3 DEF Low
  <1>5. ASSUME NEW fill
        PROVE  Extend(v, w, w, fill) = v
    BY <1>2, <1>3 DEF Extend
  <1> QED
    BY <1>4, <1>5

(***************************************************************************)
(* The types of the widths and the widths of the types belong together.    *)
(***************************************************************************)
LEMMA TypesOfWidths ==
    ASSUME NEW k \in Widths
    PROVE  /\ TypeOfWidth[k] \in IntegerTypes
           /\ WidthOfType[TypeOfWidth[k]] = k
           /\ TypeOfWidth[k] # ZERO_TAG
  BY DEF Widths, TypeOfWidth, IntegerTypes, WidthOfType, BYTE, SHORT, INT, LONG, ZERO_TAG

(***************************************************************************)
(* A number that has been passed on to a narrower writer is the sign       *)
(* extension of the bytes written.                                         *)
(***************************************************************************)
LEMMA ExtensionOfWritten ==
    ASSUME NEW w \in Widths, NEW v \in Number(w)
    PROVE  LET k == ShortestWidth(v, w)
           IN  SignExtend(Low(v, w, k), k, w) = v
  <1> DEFINE k == ShortestWidth(v, w)
  <1>1. k \in Widths /\ k <= w /\ (k < w => Fits(v, w, k))
    BY ShortestWidthFits
  <1>2. CASE k < w
    BY <1>1, <1>2 DEF Fits
  <1>3. CASE k = w
    <2>1. Low(v, w, w) = v
      BY SameWidth
    <2>2. SignExtend(v, w, w) = v
      BY SameWidth DEF SignExtend
    <2> QED
      BY <1>3, <2>1, <2>2
  <1>4. k \in Int /\ w \in Int
    BY <1>1 DEF Widths
  <1> QED
    BY <1>1, <1>2, <1>3, <1>4

(***************************************************************************)
(* ProtoInputStream reads back every number that either writer wrote of a  *)
(* variable of the same width.                                             *)
(***************************************************************************)
THEOREM JavaReadsBack ==
    ASSUME NEW w \in Widths, NEW v \in Number(w)
    PROVE  LET e == EncodeNum(v, w)
           IN  /\ ReadableAs(e.type, w)
               /\ DecodeNum("java", e.type, e.payload, w) = v
  <1> DEFINE k == ShortestWidth(v, w)
             e == EncodeNum(v, w)
  <1>1. CASE v = Zero(w)
    BY <1>1 DEF EncodeNum, ReadableAs, DecodeNum
  <1>2. CASE v # Zero(w)
    <2>1. k \in Widths /\ k <= w
      BY ShortestWidthFits
    <2>2. e = [type |-> TypeOfWidth[k], payload |-> Low(v, w, k)]
      BY <1>2 DEF EncodeNum
    <2>3. WidthOfType[e.type] = k /\ e.type \in IntegerTypes /\ e.type # ZERO_TAG
      BY <2>1, <2>2, TypesOfWidths
    <2>4. SignExtend(Low(v, w, k), k, w) = v
      BY ExtensionOfWritten
    <2>5. DecodeNum("java", e.type, e.payload, w) = SignExtend(Low(v, w, k), k, w)
      BY <2>2, <2>3 DEF DecodeNum
    <2> QED
      BY <2>1, <2>3, <2>4, <2>5 DEF ReadableAs
  <1> QED
    BY <1>1, <1>2

(***************************************************************************)
(* A number and what is left of it after the cast have the same sign.      *)
(***************************************************************************)
LEMMA SignOfWritten ==
    ASSUME NEW w \in Widths, NEW v \in Number(w)
    PROVE  Negative(v) <=> Negative(Low(v, w, ShortestWidth(v, w)))
  <1> DEFINE k == ShortestWidth(v, w)
             low == Low(v, w, k)
  <1>1. k \in Widths /\ k <= w /\ (k < w => Fits(v, w, k))
    BY ShortestWidthFits
  <1>2. k \in Nat /\ w \in Nat /\ 1 \in 1 .. w
    BY <1>1 DEF Widths
  <1>3. CASE k = w
    BY <1>3, SameWidth
  <1>4. CASE k < w
    <2>1. v = Extend(low, k, w, IF Negative(low) THEN 255 ELSE 0)
      BY ExtensionOfWritten DEF SignExtend
    <2>2. 1 <= w - k
      BY <1>2, <1>4
    <2>3. Extend(low, k, w, IF Negative(low) THEN 255 ELSE 0)[1]
            = IF Negative(low) THEN 255 ELSE 0
      BY <1>2, <2>2 DEF Extend
    <2>4. v[1] = IF Negative(low) THEN 255 ELSE 0
      BY <2>1, <2>3
    <2> QED
      BY <2>4 DEF Negative
  <1> QED
    BY <1>1, <1>2, <1>3, <1>4

(***************************************************************************)
(* ProtoIn reads a number back exactly when it is not negative or was      *)
(* written in the full width of the variable: an int of -5 comes back as   *)
(* 251.                                                                    *)
(***************************************************************************)
THEOREM CppReadsBack ==
    ASSUME NEW w \in Widths, NEW v \in Number(w)
    PROVE  LET e == EncodeNum(v, w)
           IN  /\ ReadableAs(e.type, w)
               /\ DecodeNum("cpp", e.type, e.payload, w) = v
                    <=> (~ Negative(v) \/ ShortestWidth(v, w) = w)
  <1> DEFINE k == ShortestWidth(v, w)
             e == EncodeNum(v, w)
             low == Low(v, w, k)
  <1>0. ReadableAs(e.type, w)
    BY JavaReadsBack
  <1>a. k \in Widths /\ k <= w /\ k \in Nat /\ w \in Nat /\ 1 \in 1 .. w
    BY ShortestWidthFits DEF Widths
  <1>1. CASE v = Zero(w)
    <2>1. ~ Negative(v)
      BY <1>1, <1>a DEF Zero, Negative
    <2> QED
      BY <1>0, <1>1, <2>1 DEF EncodeNum, DecodeNum
  <1>2. CASE v # Zero(w)
    <2>1. e = [type |-> TypeOfWidth[k], payload |-> low]
      BY <1>2 DEF EncodeNum
    <2>2. WidthOfType[e.type] = k /\ e.type # ZERO_TAG
      BY <1>a, <2>1, TypesOfWidths
    <2>3. DecodeNum("cpp", e.type, e.payload, w) = Extend(low, k, w, 0)
      BY <2>1, <2>2 DEF DecodeNum, ZeroExtend
    <2>4. v = Extend(low, k, w, IF Negative(low) THEN 255 ELSE 0)
      BY ExtensionOfWritten DEF SignExtend
    <2>5. CASE ~ Negative(v)
      <3>1. ~ Negative(low)
        BY <2>5, SignOfWritten
      <3> QED
        BY <1>0, <2>3, <2>4, <2>5, <3>1
    <2>6. CASE k = w
      <3>1. low = v
        BY <2>6, SameWidth
      <3>2. Extend(low, k, w, 0) = v
        BY <2>6, <3>1, SameWidth
      <3> QED
        BY <1>0, <2>3, <2>6, <3>2
    <2>7. CASE Negative(v) /\ k # w
      <3>1. 1 <= w - k
        BY <1>a, <2>7
      <3>2. Extend(low, k, w, 0)[1] = 0
        BY <1>a, <3>1 DEF Extend
      <3>3. v[1] # 0
        BY <2>7 DEF Negative
      <3> QED
        BY <1>0, <2>3, <2>7, <3>2, <3>3
    <2> QED
      BY <2>5, <2>6, <2>7
  <1> QED
    BY <1>1, <1>2
-----------------------------------------------------------------------------
(***************************************************************************)
(* Bytes in a stream                                                       *)
(***************************************************************************)
\* The bytes x stand in b behind position p.
Holds(b, p, x) ==
    /\ p + Len(x) <= Len(b)
    /\ \A i \in 1 .. Len(x) : b[p + i] = x[i]

\* A stream that has not failed.
Good(b, p, t, g, l, v) ==
    [buf |-> b, pos |-> p, st |-> "good", type |-> t, tag |-> g, len |-> l, val |-> v]

LEMMA GoodStream ==
    ASSUME NEW b, NEW p, NEW t, NEW g, NEW l, NEW v
    PROVE  LET s == Good(b, p, t, g, l, v)
           IN  /\ s.buf = b /\ s.pos = p /\ s.st = "good"
               /\ s.type = t /\ s.tag = g /\ s.len = l /\ s.val = v
    BY DEF Good

LEMMA HoldsParts ==
    ASSUME NEW b \in Seq(Byte), NEW p \in Nat, NEW x \in Seq(Byte), NEW y \in Seq(Byte),
           Holds(b, p, x \o y)
    PROVE  /\ Len(x \o y) = Len(x) + Len(y)
           /\ Holds(b, p, x)
           /\ Holds(b, p + Len(x), y)
<1> DEFINE xy == x \o y
<1>1. /\ Len(xy) = Len(x) + Len(y)
      /\ \A i \in 1 .. Len(x) + Len(y) : xy[i] = IF i <= Len(x) THEN x[i] ELSE y[i - Len(x)]
    BY ConcatProperties
<1>2. Len(x) \in Nat /\ Len(y) \in Nat /\ Len(b) \in Nat
    BY LenProperties
<1>3. p + Len(xy) <= Len(b) /\ \A i \in 1 .. Len(xy) : b[p + i] = xy[i]
    BY DEF Holds
<1> HIDE DEF xy
<1>4. ASSUME NEW i \in 1 .. Len(x) PROVE b[p + i] = x[i]
  <2>1. i \in 1 .. Len(xy) /\ i \in 1 .. Len(x) + Len(y) /\ i <= Len(x)
      BY <1>1, <1>2
  <2> QED
      BY <1>1, <1>3, <2>1
<1>5. ASSUME NEW i \in 1 .. Len(y) PROVE b[(p + Len(x)) + i] = y[i]
  <2> DEFINE j == Len(x) + i
  <2>1. /\ j \in 1 .. Len(xy) /\ j \in 1 .. Len(x) + Len(y) /\ ~ (j <= Len(x))
        /\ j - Len(x) = i /\ p + j = (p + Len(x)) + i
      BY <1>1, <1>2
  <2> HIDE DEF j
  <2>2. b[p + j] = xy[j] /\ xy[j] = y[j - Len(x)]
      BY <1>1, <1>3, <2>1
  <2> QED
      BY <2>1, <2>2
<1>6. p + Len(x) <= Len(b) /\ (p + Len(x)) + Len(y) <= Len(b)
    BY <1>1, <1>2, <1>3
<1> QED
    BY <1>1, <1>4, <1>5, <1>6 DEF Holds, xy

LEMMA HoldsPart ==
    ASSUME NEW b \in Seq(Byte), NEW p \in Nat, NEW x \in Seq(Byte), Holds(b, p, x)
    PROVE  SubSeq(b, p + 1, p + Len(x)) = x
<1> DEFINE m == p + 1
           n == p + Len(x)
           y == SubSeq(b, m, n)
<1>1. Len(x) \in Nat /\ Len(b) \in Nat /\ p + Len(x) <= Len(b)
    BY LenProperties DEF Holds
<1>2. m \in Int /\ n \in Int /\ 1 <= m /\ n <= Len(b) /\ n - m + 1 = Len(x)
    BY <1>1
<1>3. \A i \in m .. n : b[i] \in Byte
  <2> SUFFICES ASSUME NEW i \in m .. n PROVE b[i] \in Byte
      OBVIOUS
  <2>1. i \in 1 .. Len(b)
      BY <1>1
  <2> QED
      BY <2>1, ElementOfSeq
<1> HIDE DEF m, n
<1>4. /\ y \in Seq(Byte)
      /\ Len(y) = IF m <= n THEN n - m + 1 ELSE 0
      /\ \A i \in 1 .. n - m + 1 : y[i] = b[m + i - 1]
    BY <1>2, <1>3, SubSeqProperties
<1>5. Len(y) = Len(x)
    BY <1>1, <1>2, <1>4
<1>6. \A i \in 1 .. Len(y) : y[i] = x[i]
  <2> SUFFICES ASSUME NEW i \in 1 .. Len(y) PROVE y[i] = x[i]
      OBVIOUS
  <2>1. i \in 1 .. n - m + 1 /\ i \in 1 .. Len(x) /\ m + i - 1 = p + i
      BY <1>1, <1>2, <1>5 DEF m
  <2> QED
      BY <1>4, <2>1 DEF Holds
<1>7. y = x
    BY <1>4, <1>5, <1>6, SeqEqual
<1> QED
    BY <1>7 DEF y, m, n

\* The bytes of a value are taken from the stream as they stand there.
LEMMA TakeHeld ==
    ASSUME NEW lang \in Langs, NEW b \in Seq(Byte), NEW p \in Nat, NEW x \in Seq(Byte),
           NEW t, NEW g, NEW l, NEW v, Holds(b, p, x)
    PROVE  Take(lang, Good(b, p, t, g, l, v), Len(x)) = Good(b, p + Len(x), t, g, l, x)
<1>1. ~ (p + Len(x) > Len(b))
    BY LenProperties DEF Holds
<1>2. SubSeq(b, p + 1, p + Len(x)) = x
    BY HoldsPart
<1> QED
    BY <1>1, <1>2 DEF Take, Good

\* Bytes that are there can be skipped.
LEMMA AdvanceHeld ==
    ASSUME NEW lang \in Langs, NEW b \in Seq(Byte), NEW p \in Nat, NEW x \in Seq(Byte),
           NEW t, NEW g, NEW l, NEW v, Holds(b, p, x)
    PROVE  Advance(lang, Good(b, p, t, g, l, v), Len(x)) = Good(b, p + Len(x), t, g, l, v)
<1>1. p + Len(x) \in 0 .. Len(b)
    BY LenProperties DEF Holds
<1> QED
    BY <1>1 DEF Advance, Seek, Tell, Good
-----------------------------------------------------------------------------
(***************************************************************************)
(* Heads                                                                   *)
(***************************************************************************)
HeadLen(tag) == IF tag < 15 THEN 1 ELSE 2

\* The two languages agree on a tag.
TagAgreed(writer, reader, tag) == tag < 128 \/ (writer = "java" /\ reader = "java")

\* The bytes of a head and what is read back from them.
HeadIs(writer, type, tag) ==
    LET x == WriteHead(writer, type, tag)
    IN  /\ x \in Seq(Byte)
        /\ Len(x) = HeadLen(tag)
        /\ HeadLen(tag) \in {1, 2}
        /\ tag < 15 => /\ x[1] = tag * 16 + type
                       /\ (tag * 16 + type) \div 16 = tag
                       /\ (tag * 16 + type) % 16 = type
        /\ ~ (tag < 15) => /\ x[1] = 240 + type
                           /\ x[2] = tag
                           /\ (240 + type) \div 16 = 15
                           /\ (240 + type) % 16 = type

LEMMA HeadBytes ==
    ASSUME NEW writer \in Langs, NEW reader \in Langs, NEW type \in 0 .. 13, NEW tag \in Byte,
           TagAgreed(writer, reader, tag)
    PROVE  HeadIs(writer, type, tag)
<1>1. CASE tag < 15
  <2>1. tag * 16 + type \in Byte /\ (tag * 16 + type) % 256 = tag * 16 + type
      BY <1>1 DEF Byte
  <2>2. WriteHead(writer, type, tag) = <<tag * 16 + type>>
      BY <1>1, <2>1 DEF WriteHead
  <2>3. (tag * 16 + type) \div 16 = tag /\ (tag * 16 + type) % 16 = type
      BY <1>1 DEF Byte
  <2>4. HeadLen(tag) = 1
      BY <1>1 DEF HeadLen
  <2> QED
      BY <1>1, <2>1, <2>2, <2>3, <2>4 DEF HeadIs
<1>2. CASE ~ (tag < 15)
  <2>1. 240 + type \in Byte /\ (240 + type) \div 16 = 15 /\ (240 + type) % 16 = type
      BY DEF Byte
  <2>2. ~ (writer = "cpp" /\ tag >= 128)
      BY DEF TagAgreed, Byte
  <2>3. WriteHead(writer, type, tag) = <<240 + type, tag>>
      BY <1>2, <2>2 DEF WriteHead
  <2>4. HeadLen(tag) = 2
      BY <1>2 DEF HeadLen
  <2> QED
      BY <1>2, <2>1, <2>3, <2>4 DEF HeadIs
<1> QED
    BY <1>1, <1>2

\* readHead yields the type and the tag that were written.
LEMMA HeadHeld ==
    ASSUME NEW writer \in Langs, NEW reader \in Langs, NEW type \in 0 .. 13, NEW tag \in Byte,
           TagAgreed(writer, reader, tag), NEW b \in Seq(Byte), NEW p \in Nat,
           NEW t, NEW g, NEW l, NEW v, Holds(b, p, WriteHead(writer, type, tag))
    PROVE  ReadHead(reader, Good(b, p, t, g, l, v))
             = Good(b, p + HeadLen(tag), type, tag, HeadLen(tag), v)
<1> DEFINE x == WriteHead(writer, type, tag)
           s == Good(b, p, t, g, l, v)
<1>1. /\ s.buf = b /\ s.pos = p /\ s.st = "good"
    BY GoodStream
<1>a. HeadIs(writer, type, tag)
    BY HeadBytes
<1>2. /\ Len(x) = HeadLen(tag) /\ HeadLen(tag) \in {1, 2}
      /\ tag < 15 => /\ x[1] = tag * 16 + type
                     /\ (tag * 16 + type) \div 16 = tag
                     /\ (tag * 16 + type) % 16 = type
      /\ ~ (tag < 15) => /\ x[1] = 240 + type /\ x[2] = tag
                         /\ (240 + type) \div 16 = 15 /\ (240 + type) % 16 = type
    BY <1>a, Zenon DEF HeadIs
<1>3. p + Len(x) <= Len(b) /\ \A i \in 1 .. Len(x) : b[p + i] = x[i]
    BY DEF Holds
<1>4. Len(b) \in Nat /\ tag \in Nat
    BY LenProperties DEF Byte
<1> HIDE DEF x
<1>5. ~ (p >= Len(b)) /\ b[p + 1] = x[1]
    BY <1>2, <1>3, <1>4
<1>6. CASE tag < 15
  <2>1. HeadLen(tag) = 1
      BY <1>6 DEF HeadLen
  <2>2. b[p + 1] \div 16 = tag /\ b[p + 1] % 16 = type /\ b[p + 1] \div 16 < 15
      BY <1>2, <1>5, <1>6
  <2> QED
      BY <1>1, <1>5, <2>1, <2>2 DEF ReadHead, Good
<1>7. CASE ~ (tag < 15)
  <2>1. HeadLen(tag) = 2
      BY <1>7 DEF HeadLen
  <2>2. b[p + 1] \div 16 = 15 /\ b[p + 1] % 16 = type /\ ~ (b[p + 1] \div 16 < 15)
      BY <1>2, <1>5, <1>7
  <2>3. b[p + 2] = tag /\ ~ (p + 2 > Len(b))
      BY <1>2, <1>3, <1>4, <1>7, <2>1
  <2>4. (IF reader = "cpp" THEN SignedChar(tag) ELSE tag) = tag
    <3>1. reader = "cpp" => ~ (tag >= 128)
        BY <1>4 DEF TagAgreed
    <3> QED
        BY <3>1 DEF SignedChar
  <2> QED
      BY <1>1, <1>5, <2>1, <2>2, <2>3, <2>4 DEF ReadHead, Good
<1> QED
    BY <1>6, <1>7
-----------------------------------------------------------------------------
(***************************************************************************)
(* Numbers in a stream                                                     *)
(***************************************************************************)
LEMMA NumberIsSeq ==
    ASSUME NEW w \in Widths, NEW v \in Number(w)
    PROVE  v \in Seq(Byte) /\ Len(v) = w
<1>1. w \in Nat /\ v \in [1 .. w -> Byte]
    BY DEF Widths, Number
<1>2. v \in Seq(Byte)
    BY <1>1, SeqDef
<1> QED
    BY <1>1, <1>2, LenProperties

LEMMA LowIsNumber ==
    ASSUME NEW w \in Widths, NEW v \in Number(w), NEW k \in Widths, k <= w
    PROVE  Low(v, w, k) \in Number(k)
<1>1. w \in Nat /\ k \in Nat /\ v \in [1 .. w -> Byte]
    BY DEF Widths, Number
<1>2. ASSUME NEW i \in 1 .. k PROVE v[i + w - k] \in Byte
  <2>1. i + w - k \in 1 .. w
      BY <1>1
  <2> QED
      BY <1>1, <2>1
<1> QED
    BY <1>2 DEF Low, Number

LEMMA ExtendIsNumber ==
    ASSUME NEW n \in Widths, NEW v \in Number(n), NEW w \in Widths, n <= w, NEW fill \in Byte
    PROVE  Extend(v, n, w, fill) \in Number(w)
<1>1. w \in Nat /\ n \in Nat /\ v \in [1 .. n -> Byte]
    BY DEF Widths, Number
<1>2. ASSUME NEW i \in 1 .. w PROVE (IF i <= w - n THEN fill ELSE v[i - (w - n)]) \in Byte
  <2>1. ~ (i <= w - n) => i - (w - n) \in 1 .. n
      BY <1>1
  <2> QED
      BY <1>1, <2>1
<1> QED
    BY <1>2 DEF Extend, Number

\* What stands behind the head of a type.
Behind(type, x) ==
    /\ type \in IntegerTypes \union {ZERO_TAG}
    /\ x \in Seq(Byte)
    /\ type = ZERO_TAG => x = << >>
    /\ type # ZERO_TAG => Len(x) = WidthOfType[type]

LEMMA EncodedBehind ==
    ASSUME NEW n \in Widths, NEW v \in Number(n)
    PROVE  Behind(EncodeNum(v, n).type, EncodeNum(v, n).payload)
<1> DEFINE k == ShortestWidth(v, n)
<1>1. CASE v = Zero(n)
  <2>1. EncodeNum(v, n) = [type |-> ZERO_TAG, payload |-> << >>]
      BY <1>1 DEF EncodeNum
  <2>2. << >> \in Seq(Byte)
      BY EmptySeq
  <2> QED
      BY <2>1, <2>2 DEF Behind
<1>2. CASE v # Zero(n)
  <2>1. EncodeNum(v, n) = [type |-> TypeOfWidth[k], payload |-> Low(v, n, k)]
      BY <1>2 DEF EncodeNum
  <2>2. k \in Widths /\ k <= n
      BY ShortestWidthFits
  <2>3. Low(v, n, k) \in Seq(Byte) /\ Len(Low(v, n, k)) = k
      BY <2>2, LowIsNumber, NumberIsSeq
  <2>4. TypeOfWidth[k] \in IntegerTypes /\ WidthOfType[TypeOfWidth[k]] = k /\ TypeOfWidth[k] # ZERO_TAG
      BY <2>2, TypesOfWidths
  <2> QED
      BY <2>1, <2>3, <2>4 DEF Behind
<1> QED
    BY <1>1, <1>2

LEMMA TypeIsType == IntegerTypes \union {ZERO_TAG} \subseteq 0 .. 13
    BY DEF IntegerTypes, BYTE, SHORT, INT, LONG, ZERO_TAG

\* The bytes behind a head are the number they stand for.
LEMMA NumHeld ==
    ASSUME NEW lang \in Langs, NEW b \in Seq(Byte), NEW p \in Nat, NEW ty, NEW x,
           NEW g, NEW l, NEW v, NEW w, Behind(ty, x), Holds(b, p, x), ReadableAs(ty, w)
    PROVE  NumAfterHead(lang, Good(b, p, ty, g, l, v), w)
             = Good(b, p + Len(x), ty, g, l, DecodeNum(lang, ty, x, w))
<1> DEFINE s == Good(b, p, ty, g, l, v)
           q == IF ty = ZERO_TAG THEN [s EXCEPT !.val = << >>] ELSE Take(lang, s, WidthOfType[ty])
<1>1. s.type = ty /\ s.st = "good"
    BY GoodStream
<1>2. q = Good(b, p + Len(x), ty, g, l, x)
  <2>1. CASE ty = ZERO_TAG
    <3>1. x = << >> /\ Len(x) = 0
        BY <2>1, EmptySeq DEF Behind
    <3>2. p + Len(x) = p
        BY <3>1
    <3> QED
        BY <2>1, <3>1, <3>2 DEF Good
  <2>2. CASE ty # ZERO_TAG
    <3>1. x \in Seq(Byte) /\ Len(x) = WidthOfType[ty]
        BY <2>2 DEF Behind
    <3>2. Take(lang, s, Len(x)) = Good(b, p + Len(x), ty, g, l, x)
        BY <3>1, TakeHeld
    <3> QED
        BY <2>2, <3>1, <3>2
  <2> QED
      BY <2>1, <2>2
<1>3. NumAfterHead(lang, s, w) = IF q.st = "good" THEN Value(q, DecodeNum(lang, ty, q.val, w)) ELSE q
    BY <1>1 DEF NumAfterHead
<1>4. q.st = "good" /\ q.val = x
    BY <1>2 DEF Good
<1>5. Value(q, DecodeNum(lang, ty, x, w)) = Good(b, p + Len(x), ty, g, l, DecodeNum(lang, ty, x, w))
    BY <1>2 DEF Good, Value
<1> HIDE DEF q
<1> QED
    BY <1>3, <1>4, <1>5

\* A number that was written is there with its head.
LEMMA WriteNumParts ==
    ASSUME NEW writer \in Langs, NEW reader \in Langs, NEW n \in Widths, NEW v \in Number(n),
           NEW tag \in Byte, TagAgreed(writer, reader, tag),
           NEW b \in Seq(Byte), NEW p \in Nat, Holds(b, p, WriteNum(writer, v, n, tag))
    PROVE  LET e == EncodeNum(v, n)
           IN  /\ Behind(e.type, e.payload)
               /\ e.type \in 0 .. 13
               /\ WriteNum(writer, v, n, tag) = WriteHead(writer, e.type, tag) \o e.payload
               /\ Len(WriteNum(writer, v, n, tag)) = HeadLen(tag) + Len(e.payload)
               /\ Holds(b, p, WriteHead(writer, e.type, tag))
               /\ Holds(b, p + HeadLen(tag), e.payload)
<1> DEFINE e == EncodeNum(v, n)
           ty == e.type
           x == e.payload
           h == WriteHead(writer, ty, tag)
<1>1. Behind(ty, x)
    BY EncodedBehind
<1>2. ty \in 0 .. 13
    BY <1>1, TypeIsType DEF Behind
<1>3. WriteNum(writer, v, n, tag) = h \o x
    BY DEF WriteNum
<1> HIDE DEF ty, x
<1>4. h \in Seq(Byte) /\ Len(h) = HeadLen(tag)
  <2>1. HeadIs(writer, ty, tag)
      BY <1>2, HeadBytes
  <2> QED
      BY <2>1 DEF HeadIs
<1>5. x \in Seq(Byte)
    BY <1>1 DEF Behind
<1> HIDE DEF h
<1>6. Holds(b, p, h \o x)
    BY <1>3
<1>7. Len(h \o x) = Len(h) + Len(x) /\ Holds(b, p, h) /\ Holds(b, p + Len(h), x)
  <2>1. b \in Seq(Byte) /\ p \in Nat /\ h \in Seq(Byte) /\ x \in Seq(Byte) /\ Holds(b, p, h \o x)
      BY <1>4, <1>5, <1>6
  <2> QED
      BY ONLY <2>1, HoldsParts
<1> QED
    BY <1>1, <1>2, <1>3, <1>4, <1>7 DEF ty, x, h

\* Reading a number that was written gives what DecodeNum makes of its bytes.
LEMMA NumRead ==
    ASSUME NEW writer \in Langs, NEW reader \in Langs, NEW n \in Widths, NEW v \in Number(n),
           NEW tag \in Byte, TagAgreed(writer, reader, tag), NEW w,
           ReadableAs(EncodeNum(v, n).type, w),
           NEW b \in Seq(Byte), NEW p \in Nat, Holds(b, p, WriteNum(writer, v, n, tag)),
           NEW t, NEW g, NEW l, NEW vl
    PROVE  LET e == EncodeNum(v, n)
               h == ReadHead(reader, Good(b, p, t, g, l, vl))
           IN  /\ h = Good(b, p + HeadLen(tag), e.type, tag, HeadLen(tag), vl)
               /\ NumAfterHead(reader, h, w)
                    = Good(b, p + Len(WriteNum(writer, v, n, tag)), e.type, tag, HeadLen(tag),
                           DecodeNum(reader, e.type, e.payload, w))
<1> DEFINE e == EncodeNum(v, n)
           ty == e.type
           x == e.payload
           k == HeadLen(tag)
           m == Len(WriteNum(writer, v, n, tag))
<1>1. /\ Behind(ty, x) /\ ty \in 0 .. 13 /\ m = k + Len(x)
      /\ Holds(b, p, WriteHead(writer, ty, tag)) /\ Holds(b, p + k, x)
    BY WriteNumParts
<1>2. ReadableAs(ty, w)
    OBVIOUS
<1>a. k \in Nat
    BY DEF HeadLen
<1> HIDE DEF ty, x, k, m
<1>3. ReadHead(reader, Good(b, p, t, g, l, vl)) = Good(b, p + k, ty, tag, k, vl)
  <2>1. /\ writer \in Langs /\ reader \in Langs /\ ty \in 0 .. 13 /\ tag \in Byte
        /\ TagAgreed(writer, reader, tag) /\ b \in Seq(Byte) /\ p \in Nat
        /\ Holds(b, p, WriteHead(writer, ty, tag))
      BY <1>1
  <2> QED
      BY ONLY <2>1, HeadHeld DEF k
<1>4. p + k \in Nat /\ Len(x) \in Nat /\ (p + k) + Len(x) = p + m
    BY <1>1, <1>a, LenProperties DEF Behind
<1>5. NumAfterHead(reader, Good(b, p + k, ty, tag, k, vl), w)
        = Good(b, (p + k) + Len(x), ty, tag, k, DecodeNum(reader, ty, x, w))
    BY <1>1, <1>2, <1>4, NumHeld
<1> QED
    BY <1>3, <1>4, <1>5 DEF ty, x, k, m

\* A value of a fixed size is skipped by its size.
LEMMA SkipFixed ==
    ASSUME NEW lang, NEW s, s.type \in DOMAIN FixedSize
    PROVE  SkipFlat(lang, s) = Advance(lang, s, FixedSize[s.type])
<1>1. s.type \notin {STRING1, STRING4, SIMPLE_LIST, STRUCT_END, ZERO_TAG}
    BY DEF FixedSize, STRING1, STRING4, SIMPLE_LIST, STRUCT_END, ZERO_TAG
<1> QED
    BY <1>1 DEF SkipFlat

\* Skipping it leaves the position behind it.
LEMMA NumSkipped ==
    ASSUME NEW writer \in Langs, NEW reader \in Langs, NEW n \in Widths, NEW v \in Number(n),
           NEW tag \in Byte, TagAgreed(writer, reader, tag),
           NEW b \in Seq(Byte), NEW p \in Nat, Holds(b, p, WriteNum(writer, v, n, tag)),
           NEW t, NEW g, NEW l, NEW vl
    PROVE  SkipFlat(reader, ReadHead(reader, Good(b, p, t, g, l, vl)))
             = Good(b, p + Len(WriteNum(writer, v, n, tag)), EncodeNum(v, n).type, tag,
                    HeadLen(tag), vl)
<1> DEFINE e == EncodeNum(v, n)
           ty == e.type
           x == e.payload
           k == HeadLen(tag)
           m == Len(WriteNum(writer, v, n, tag))
           s == Good(b, p + k, ty, tag, k, vl)
<1>1. /\ Behind(ty, x) /\ ty \in 0 .. 13 /\ m = k + Len(x)
      /\ Holds(b, p, WriteHead(writer, ty, tag)) /\ Holds(b, p + k, x)
    BY WriteNumParts
<1>a. k \in Nat
    BY DEF HeadLen
<1> HIDE DEF ty, x, k, m
<1>2. ReadHead(reader, Good(b, p, t, g, l, vl)) = s
  <2>1. /\ writer \in Langs /\ reader \in Langs /\ ty \in 0 .. 13 /\ tag \in Byte
        /\ TagAgreed(writer, reader, tag) /\ b \in Seq(Byte) /\ p \in Nat
        /\ Holds(b, p, WriteHead(writer, ty, tag))
      BY <1>1
  <2> QED
      BY ONLY <2>1, HeadHeld DEF k, s
<1>3. p + k \in Nat /\ Len(x) \in Nat /\ (p + k) + Len(x) = p + m
    BY <1>1, <1>a, LenProperties DEF Behind
<1>4. s.type = ty
    BY GoodStream
<1> HIDE DEF s
<1>5. CASE ty = ZERO_TAG
  <2>1. SkipFlat(reader, s) = s
      BY <1>4, <1>5 DEF SkipFlat, FixedSize, STRING1, STRING4, SIMPLE_LIST, STRUCT_END, ZERO_TAG
  <2>2. Len(x) = 0
      BY <1>1, <1>5, EmptySeq DEF Behind
  <2>3. p + k = p + m
      BY <1>3, <2>2
  <2> QED
      BY <1>2, <2>1, <2>3 DEF s, ty, k, m
<1>6. CASE ty # ZERO_TAG
  <2>1. x \in Seq(Byte) /\ ty \in IntegerTypes /\ Len(x) = WidthOfType[ty]
      BY <1>1, <1>6 DEF Behind
  <2>2. ty \in DOMAIN FixedSize /\ FixedSize[ty] = WidthOfType[ty]
      BY <2>1 DEF FixedSize, WidthOfType, IntegerTypes, BYTE, SHORT, INT, LONG, FLOAT, DOUBLE
  <2>3. SkipFlat(reader, s) = Advance(reader, s, Len(x))
      BY <1>4, <2>1, <2>2, SkipFixed
  <2>4. Advance(reader, s, Len(x)) = Good(b, (p + k) + Len(x), ty, tag, k, vl)
      BY <1>1, <1>3, <2>1, AdvanceHeld DEF s
  <2> QED
      BY <1>2, <1>3, <2>3, <2>4 DEF ty, k, m
<1> QED
    BY <1>5, <1>6
-----------------------------------------------------------------------------
(***************************************************************************)
(* Lengths of strings and byte vectors                                     *)
(***************************************************************************)
LEMMA DivModOf ==
    ASSUME NEW n \in Nat, NEW d \in Nat \ {0}
    PROVE  /\ n \div d \in Nat /\ n % d \in Nat /\ n % d < d
           /\ n = (d * (n \div d)) + (n % d)
    OBVIOUS

\* The four bytes of a length, and the length of the four bytes.
LEMMA LengthBytes ==
    ASSUME NEW n, IsLength(n)
    PROVE  /\ BytesOf(n) \in Number(4)
           /\ ~ Negative(BytesOf(n))
           /\ IntOf(BytesOf(n)) = n
<1> DEFINE n1 == n \div 256
           n2 == n \div 65536
           n3 == n \div 16777216
           v == BytesOf(n)
<1>0. n \in Nat /\ n < 2147483648
    BY SMT DEF IsLength
<1>1. /\ n = (256 * n1) + (n % 256) /\ n1 \in Nat /\ n % 256 \in Nat /\ n % 256 < 256
    BY <1>0, DivModOf, SMT
<1>2. /\ n2 \in Nat /\ n3 \in Nat /\ n2 = n1 \div 256 /\ n3 = n2 \div 256
    BY <1>0, SMT
<1> HIDE DEF n1, n2, n3
<1>3. /\ n1 = (256 * n2) + (n1 % 256) /\ n1 % 256 \in Nat /\ n1 % 256 < 256
    BY <1>1, <1>2, DivModOf
<1>4. /\ n2 = (256 * n3) + (n2 % 256) /\ n2 % 256 \in Nat /\ n2 % 256 < 256
    BY <1>2, DivModOf
<1>5. n = (16777216 * n3) + (65536 * (n2 % 256)) + (256 * (n1 % 256)) + (n % 256)
    BY <1>1, <1>2, <1>3, <1>4, SMT
<1>6. n3 < 128
    BY <1>0, <1>1, <1>2, <1>3, <1>4, <1>5, SMT
<1>7. v = <<n3, n2 % 256, n1 % 256, n % 256>>
    BY SMT DEF BytesOf, n1, n2, n3
<1>8. v[1] = n3 /\ v[2] = n2 % 256 /\ v[3] = n1 % 256 /\ v[4] = n % 256
    BY <1>7
<1>9. n3 \in Byte /\ n2 % 256 \in Byte /\ n1 % 256 \in Byte /\ n % 256 \in Byte
    BY <1>1, <1>2, <1>3, <1>4, <1>6 DEF Byte
<1>10. v \in Number(4)
    BY <1>7, <1>9 DEF Number
<1> HIDE DEF v
<1>11. ~ Negative(v)
    BY <1>2, <1>6, <1>8 DEF Negative
<1>12. IntOf(v) = (n3 * 16777216) + ((((n2 % 256) * 65536) + ((n1 % 256) * 256)) + (n % 256))
    BY <1>8, <1>11, SMT DEF IntOf
<1>13. IntOf(v) = n
    BY <1>1, <1>2, <1>3, <1>4, <1>5, <1>12, SMT
<1> QED
    BY <1>10, <1>11, <1>13 DEF v

\* A number that is not negative is read back in both languages.
LEMMA PlainReadBack ==
    ASSUME NEW lang \in Langs, NEW w \in Widths, NEW v \in Number(w), ~ Negative(v)
    PROVE  LET e == EncodeNum(v, w)
           IN  ReadableAs(e.type, w) /\ DecodeNum(lang, e.type, e.payload, w) = v
<1>1. CASE lang = "java"
    BY <1>1, JavaReadsBack
<1>2. CASE lang = "cpp"
    BY <1>2, CppReadsBack
<1> QED
    BY <1>1, <1>2 DEF Langs

\* What a call that reads the length n makes of the stream.
ReadsSize(reader, b, p, q, n, t, g, l, v) ==
    \E ty, u : /\ ReadSize(reader, Good(b, p, t, g, l, v)) = Good(b, q, ty, 0, 1, u)
               /\ IntOf(u) = n

LEMMA SizeOfNum ==
    ASSUME NEW writer \in Langs, NEW reader \in Langs, NEW n \in Widths, NEW x \in Number(n),
           ReadableAs(EncodeNum(x, n).type, 4),
           NEW b \in Seq(Byte), NEW p \in Nat, Holds(b, p, WriteNum(writer, x, n, 0)),
           NEW t, NEW g, NEW l, NEW v
    PROVE  LET e == EncodeNum(x, n)
           IN  ReadSize(reader, Good(b, p, t, g, l, v))
                 = Good(b, p + Len(WriteNum(writer, x, n, 0)), e.type, 0, 1,
                        DecodeNum(reader, e.type, e.payload, 4))
<1> DEFINE e == EncodeNum(x, n)
           ty == e.type
           u == DecodeNum(reader, ty, e.payload, 4)
           q == p + Len(WriteNum(writer, x, n, 0))
           s == Good(b, p, t, g, l, v)
           h == ReadHead(reader, s)
<1>0. 0 \in Byte /\ TagAgreed(writer, reader, 0) /\ HeadLen(0) = 1
    BY DEF Byte, TagAgreed, HeadLen
<1>1. h = Good(b, p + 1, ty, 0, 1, v) /\ NumAfterHead(reader, h, 4) = Good(b, q, ty, 0, 1, u)
  <2>1. /\ h = Good(b, p + HeadLen(0), ty, 0, HeadLen(0), v)
        /\ NumAfterHead(reader, h, 4) = Good(b, q, ty, 0, HeadLen(0), u)
      BY <1>0, NumRead
  <2> QED
      BY <1>0, <2>1
<1>2. ty \in IntegerTypes \union {ZERO_TAG}
    BY EncodedBehind DEF Behind
<1>3. ty # STRUCT_END
    BY <1>2 DEF IntegerTypes, BYTE, SHORT, INT, LONG, ZERO_TAG, STRUCT_END
<1>4. h.tag = 0 /\ h.type = ty
    BY <1>1 DEF Good
<1> HIDE DEF ty, u, q, s, h
<1>5. ReadSize(reader, s) = NumAfterHead(reader, h, 4)
    BY <1>3, <1>4 DEF ReadSize, h
<1> QED
    BY <1>1, <1>5 DEF ty, u, q, s

\* The length of a byte vector is read as it was, with the code's exceptions.
LEMMA BlobSizeRead ==
    ASSUME NEW writer \in Langs, NEW reader \in Langs, NEW n, IsLength(n),
           writer = "cpp" => IF reader = "java" THEN n < 128 ELSE n < 256,
           NEW b \in Seq(Byte), NEW p \in Nat, Holds(b, p, BlobSize(writer, n)),
           NEW t, NEW g, NEW l, NEW v
    PROVE  ReadsSize(reader, b, p, p + Len(BlobSize(writer, n)), n, t, g, l, v)
<1>1. CASE writer = "java"
  <2> DEFINE x == BytesOf(n)
             e == EncodeNum(x, 4)
  <2>1. x \in Number(4) /\ ~ Negative(x) /\ IntOf(x) = n
      BY LengthBytes
  <2>2. BlobSize(writer, n) = WriteNum(writer, x, 4, 0)
      BY <1>1 DEF BlobSize, WriteSize
  <2> HIDE DEF x
  <2>3. 4 \in Widths
      BY DEF Widths
  <2>4. ReadableAs(e.type, 4) /\ DecodeNum(reader, e.type, e.payload, 4) = x
      BY <2>1, <2>3, PlainReadBack
  <2>5. ReadSize(reader, Good(b, p, t, g, l, v))
          = Good(b, p + Len(WriteNum(writer, x, 4, 0)), e.type, 0, 1,
                 DecodeNum(reader, e.type, e.payload, 4))
      BY <2>1, <2>2, <2>3, <2>4, SizeOfNum
  <2> QED
      BY <2>1, <2>2, <2>4, <2>5 DEF ReadsSize
<1>2. CASE writer = "cpp"
  <2> DEFINE x == <<n % 256>>
             e == EncodeNum(x, 1)
             u == DecodeNum(reader, e.type, e.payload, 4)
  <2>1. n \in Nat /\ n < 256 /\ n % 256 = n /\ (reader = "java" => n < 128)
    <3>1. n \in Nat
        BY SMT DEF IsLength
    <3>2. n < 256 /\ (reader = "java" => n < 128)
        BY <1>2, <3>1
    <3> QED
        BY <3>1, <3>2
  <2>2. x = <<n>>
      BY <2>1
  <2>4. BlobSize(writer, n) = WriteNum(writer, x, 1, 0)
      BY <1>2 DEF BlobSize
  <2>a. n \in Byte
      BY <2>1 DEF Byte
  <2> HIDE DEF x
  <2>3. x[1] = n /\ x \in Number(1)
    <3>1. x = [i \in 1 .. 1 |-> n]
        BY <2>2
    <3> QED
        BY <2>a, <3>1 DEF Number
  <2>5. 1 \in Widths /\ 4 \in Widths
      BY DEF Widths
  <2>6. ReadableAs(e.type, 4) /\ IntOf(u) = n
    <3>1. CASE x = Zero(1)
      <4>1. e = [type |-> ZERO_TAG, payload |-> << >>] /\ n = 0
          BY <2>3, <3>1 DEF EncodeNum, Zero
      <4>2. u = Zero(4)
          BY <4>1 DEF DecodeNum
      <4>3. u[1] = 0 /\ u[2] = 0 /\ u[3] = 0 /\ u[4] = 0
          BY <4>2 DEF Zero
      <4> HIDE DEF u
      <4>4. IntOf(u) = 0
          BY <4>3, SMT DEF IntOf, Negative
      <4> QED
          BY <4>1, <4>4 DEF ReadableAs
    <3>2. CASE x # Zero(1)
      <4>1. ShortestWidth(x, 1) = 1
          BY DEF ShortestWidth
      <4>2. Low(x, 1, 1) = x
          BY <2>3, <2>5, SameWidth
      <4>3. e = [type |-> TypeOfWidth[1], payload |-> x]
          BY <3>2, <4>1, <4>2 DEF EncodeNum
      <4>4. TypeOfWidth[1] \in IntegerTypes /\ WidthOfType[TypeOfWidth[1]] = 1 /\ TypeOfWidth[1] # ZERO_TAG
          BY <2>5, TypesOfWidths
      <4>5. reader = "java" => ~ Negative(x)
          BY <2>1, <2>3 DEF Negative
      <4>6. u = Extend(x, 1, 4, 0)
          BY <4>3, <4>4, <4>5 DEF DecodeNum, SignExtend, ZeroExtend, Langs
      <4>7. u[1] = 0 /\ u[2] = 0 /\ u[3] = 0 /\ u[4] = n
          BY <2>3, <4>6 DEF Extend
      <4> HIDE DEF u
      <4>8. IntOf(u) = n
          BY <2>1, <4>7, SMT DEF IntOf, Negative
      <4> QED
          BY <4>3, <4>4, <4>8 DEF ReadableAs
    <3> QED
        BY <3>1, <3>2
  <2>7. ReadSize(reader, Good(b, p, t, g, l, v))
          = Good(b, p + Len(WriteNum(writer, x, 1, 0)), e.type, 0, 1, u)
      BY <2>3, <2>4, <2>5, <2>6, SizeOfNum
  <2> QED
      BY <2>4, <2>6, <2>7 DEF ReadsSize
<1> QED
    BY <1>1, <1>2 DEF Langs
-----------------------------------------------------------------------------
(***************************************************************************)
(* Fields                                                                  *)
(***************************************************************************)
\* The two languages agree on the tag, and Java on the length of a vector<char>.
FieldAgreed(writer, reader, f) ==
    /\ TagAgreed(writer, reader, f.tag)
    /\ (writer = "cpp" /\ reader = "java" /\ f.kind = "blob") => Len(f.val) < 128

\* The stream s is good and at q, and the last call read v.
Yields(s, b, q, v) == \E t, g, l : s = Good(b, q, t, g, l, v)

LEMMA GoodYields ==
    ASSUME NEW b, NEW p, NEW t, NEW g, NEW l, NEW v
    PROVE  Yields(Good(b, p, t, g, l, v), b, p, v)
    BY DEF Yields

LEMMA KindsDiffer ==
    ASSUME NEW kind
    PROVE  /\ kind \in NumKinds =>
                kind \notin DOMAIN FloatWidth /\ kind # "string" /\ kind # "blob"
           /\ kind \in DOMAIN FloatWidth => kind # "string" /\ kind # "blob"
    BY DEF NumKinds, FloatWidth

LEMMA WidthsOfKinds ==
    ASSUME NEW kind \in NumKinds
    PROVE  /\ WidthOfKind[kind] \in Widths /\ WrittenWidth[kind] \in Widths
           /\ WidthOfKind[kind] <= WrittenWidth[kind]
    BY DEF NumKinds, WidthOfKind, WrittenWidth, Widths

LEMMA WrittenIsNumber ==
    ASSUME NEW kind \in NumKinds, NEW v \in Number(WidthOfKind[kind])
    PROVE  Written(kind, v) \in Number(WrittenWidth[kind])
<1>1. 0 \in Byte
    BY DEF Byte
<1> QED
    BY <1>1, WidthsOfKinds, ExtendIsNumber DEF Written, ZeroExtend

(***************************************************************************)
(* A number that CppGets names is widened by the writer and read in the    *)
(* variable's own width, and is the number that it was.                    *)
(***************************************************************************)
LEMMA CppNumber ==
    ASSUME NEW writer \in Langs, NEW f, f.kind \in NumKinds,
           f.val \in Number(WidthOfKind[f.kind]), CppGets(writer, f)
    PROVE  LET e == EncodeNum(Written(f.kind, f.val), WrittenWidth[f.kind])
           IN  /\ ReadableAs(e.type, WidthOfKind[f.kind])
               /\ DecodeNum("cpp", e.type, e.payload, WidthOfKind[f.kind]) = f.val
<1> DEFINE W == WidthOfKind[f.kind]
           n == WrittenWidth[f.kind]
           x == f.val
           v == Written(f.kind, x)
           k == ShortestWidth(v, n)
           low == Low(v, n, k)
           e == EncodeNum(v, n)
<1>1. W \in Widths /\ n \in Widths /\ W <= n /\ v \in Number(n) /\ x \in Number(W)
    BY WidthsOfKinds, WrittenIsNumber
<1>2. k = W \/ (k < W /\ ~ Negative(v))
  <2>1. CppGets(writer, f) = (k = W \/ (k < W /\ ~ Negative(v)))
      BY KindsDiffer DEF CppGets
  <2> QED
      BY <2>1
<1>3. k \in Widths
    BY <1>1, ShortestWidthFits
<1>4. v = Extend(low, k, n, IF Negative(low) THEN 255 ELSE 0) /\ (Negative(v) <=> Negative(low))
    BY <1>1, ExtensionOfWritten, SignOfWritten DEF SignExtend
<1>5. v = [i \in 1 .. n |-> IF i <= n - W THEN 0 ELSE x[i - (n - W)]]
    BY DEF Written, ZeroExtend, Extend
<1>6. W \in Nat /\ n \in Nat /\ k \in Nat /\ k <= W
    BY <1>1, <1>2, <1>3 DEF Widths
<1>a. x = [i \in 1 .. W |-> x[i]]
    BY <1>1 DEF Number
<1>b. e = IF v = Zero(n) THEN [type |-> ZERO_TAG, payload |-> << >>]
          ELSE [type |-> TypeOfWidth[k], payload |-> low]
    BY DEF EncodeNum
<1>c. low = [i \in 1 .. k |-> v[i + n - k]]
    BY DEF Low
<1>7. \A i \in 1 .. W : x[i] = v[i + (n - W)]
  <2> SUFFICES ASSUME NEW i \in 1 .. W PROVE x[i] = v[i + (n - W)]
      OBVIOUS
  <2>1. i + (n - W) \in 1 .. n /\ ~ (i + (n - W) <= n - W) /\ (i + (n - W)) - (n - W) = i
      BY <1>1, <1>6
  <2> QED
      BY <1>5, <2>1
<1> HIDE DEF W, n, x, v, k, low, e
<1>8. CASE v = Zero(n)
  <2>1. e = [type |-> ZERO_TAG, payload |-> << >>]
      BY <1>8, <1>b
  <2>2. DecodeNum("cpp", e.type, e.payload, W) = Zero(W)
      BY <2>1 DEF DecodeNum
  <2>3. \A i \in 1 .. W : x[i] = 0
    <3> SUFFICES ASSUME NEW i \in 1 .. W PROVE x[i] = 0
        OBVIOUS
    <3>1. i + (n - W) \in 1 .. n
        BY <1>1, <1>6
    <3> QED
        BY <1>7, <1>8, <3>1 DEF Zero
  <2>4. x = Zero(W)
      BY <1>a, <2>3 DEF Zero
  <2> QED
      BY <2>1, <2>2, <2>4 DEF ReadableAs, W, n, x, v, e
<1>9. CASE v # Zero(n)
  <2>1. e = [type |-> TypeOfWidth[k], payload |-> low]
      BY <1>9, <1>b
  <2>2. TypeOfWidth[k] \in IntegerTypes /\ WidthOfType[TypeOfWidth[k]] = k /\ TypeOfWidth[k] # ZERO_TAG
      BY <1>3, TypesOfWidths
  <2>3. DecodeNum("cpp", e.type, e.payload, W) = Extend(low, k, W, 0)
      BY <2>1, <2>2 DEF DecodeNum, ZeroExtend
  <2>4. \A i \in 1 .. W : x[i] = IF i <= W - k THEN 0 ELSE low[i - (W - k)]
    <3> SUFFICES ASSUME NEW i \in 1 .. W
                 PROVE  x[i] = IF i <= W - k THEN 0 ELSE low[i - (W - k)]
        OBVIOUS
    <3> DEFINE j == i + (n - W)
    <3>1. x[i] = v[j]
        BY <1>7
    <3>2. j \in 1 .. n
        BY <1>1, <1>6
    <3>3. CASE i <= W - k
      <4>1. k # W /\ j <= n - k
          BY <1>1, <1>6, <3>3
      <4>2. ~ Negative(low)
          BY <1>2, <1>4, <4>1
      <4> HIDE DEF j
      <4>3. v = [m \in 1 .. n |-> IF m <= n - k THEN 0 ELSE low[m - (n - k)]]
          BY <1>4, <4>2 DEF Extend
      <4> QED
          BY <3>1, <3>2, <3>3, <4>1, <4>3
    <3>4. CASE ~ (i <= W - k)
      <4> DEFINE m == i - (W - k)
      <4>1. m \in 1 .. k /\ m + n - k = j
          BY <1>1, <1>6, <3>4
      <4> HIDE DEF j, m
      <4>2. low[m] = v[m + n - k]
          BY <1>c, <4>1
      <4> QED
          BY <3>1, <3>4, <4>1, <4>2 DEF m
    <3> QED
        BY <3>3, <3>4
  <2>5. x = Extend(low, k, W, 0)
      BY <1>a, <2>4 DEF Extend
  <2> QED
      BY <1>6, <2>1, <2>2, <2>3, <2>5 DEF ReadableAs, W, n, x, v, e
<1> QED
    BY <1>8, <1>9

\* A head and what is behind it.
LEMMA HeadParts ==
    ASSUME NEW writer \in Langs, NEW reader \in Langs, NEW ty \in 0 .. 13, NEW tag \in Byte,
           TagAgreed(writer, reader, tag), NEW x \in Seq(Byte),
           NEW b \in Seq(Byte), NEW p \in Nat, Holds(b, p, WriteHead(writer, ty, tag) \o x)
    PROVE  /\ WriteHead(writer, ty, tag) \o x \in Seq(Byte)
           /\ Len(WriteHead(writer, ty, tag) \o x) = HeadLen(tag) + Len(x)
           /\ Holds(b, p, WriteHead(writer, ty, tag))
           /\ Holds(b, p + HeadLen(tag), x)
           /\ HeadLen(tag) \in Nat
<1> DEFINE h == WriteHead(writer, ty, tag)
<1>1. h \in Seq(Byte) /\ Len(h) = HeadLen(tag)
  <2>1. HeadIs(writer, ty, tag)
      BY HeadBytes
  <2> QED
      BY <2>1 DEF HeadIs
<1> HIDE DEF h
<1>2. Holds(b, p, h \o x)
    BY DEF h
<1>3. Len(h \o x) = Len(h) + Len(x) /\ Holds(b, p, h) /\ Holds(b, p + Len(h), x)
  <2>1. b \in Seq(Byte) /\ p \in Nat /\ h \in Seq(Byte) /\ x \in Seq(Byte) /\ Holds(b, p, h \o x)
      BY <1>1, <1>2
  <2> QED
      BY ONLY <2>1, HoldsParts
<1>5. h \o x \in Seq(Byte)
    BY <1>1, ConcatProperties
<1>6. HeadLen(tag) \in Nat
    BY DEF HeadLen
<1> QED
    BY <1>1, <1>3, <1>5, <1>6 DEF h

\* The stream s is at p, a head and x are there, and the next call reads the
\* head: it leaves the position at x.
HeadRead(writer, reader, ty, tag, x, b, p, s, v) ==
    /\ ReadHead(reader, s) = Good(b, p + HeadLen(tag), ty, tag, HeadLen(tag), v)
    /\ Holds(b, p + HeadLen(tag), x)
    /\ HeadLen(tag) \in Nat
    /\ WriteHead(writer, ty, tag) \o x \in Seq(Byte)
    /\ Len(WriteHead(writer, ty, tag) \o x) = HeadLen(tag) + Len(x)

LEMMA HeadThenRest ==
    ASSUME NEW writer \in Langs, NEW reader \in Langs, NEW ty \in 0 .. 13, NEW tag \in Byte,
           TagAgreed(writer, reader, tag), NEW x \in Seq(Byte),
           NEW b \in Seq(Byte), NEW p \in Nat, Holds(b, p, WriteHead(writer, ty, tag) \o x),
           NEW t, NEW g, NEW l, NEW v
    PROVE  HeadRead(writer, reader, ty, tag, x, b, p, Good(b, p, t, g, l, v), v)
<1>1. /\ WriteHead(writer, ty, tag) \o x \in Seq(Byte)
      /\ Len(WriteHead(writer, ty, tag) \o x) = HeadLen(tag) + Len(x)
      /\ Holds(b, p, WriteHead(writer, ty, tag))
      /\ Holds(b, p + HeadLen(tag), x)
      /\ HeadLen(tag) \in Nat
    BY HeadParts
<1>2. ReadHead(reader, Good(b, p, t, g, l, v))
        = Good(b, p + HeadLen(tag), ty, tag, HeadLen(tag), v)
  <2>1. /\ writer \in Langs /\ reader \in Langs /\ ty \in 0 .. 13 /\ tag \in Byte
        /\ TagAgreed(writer, reader, tag) /\ b \in Seq(Byte) /\ p \in Nat
        /\ Holds(b, p, WriteHead(writer, ty, tag))
      BY <1>1
  <2> QED
      BY ONLY <2>1, HeadHeld
<1> QED
    BY <1>1, <1>2 DEF HeadRead

LEMMA NumberFieldRead ==
    ASSUME NEW writer \in Langs, NEW reader \in Langs, NEW f, FlatField(f), f.kind \in NumKinds,
           FieldAgreed(writer, reader, f), reader = "cpp" => CppGets(writer, f),
           NEW b \in Seq(Byte), NEW p \in Nat, Holds(b, p, WriteFlat(writer, f)),
           NEW t, NEW g, NEW l, NEW v
    PROVE  Yields(ReadFlat(reader, ReadHead(reader, Good(b, p, t, g, l, v)), f),
                  b, p + Len(WriteFlat(writer, f)), ValueOf(reader, f))
<1> DEFINE n == WrittenWidth[f.kind]
           x == Written(f.kind, f.val)
           e == EncodeNum(x, n)
           w == ReadWidth(reader, f.kind)
           h == ReadHead(reader, Good(b, p, t, g, l, v))
           u == DecodeNum(reader, e.type, e.payload, w)
<1>1. n \in Widths /\ x \in Number(n)
    BY WidthsOfKinds, WrittenIsNumber DEF FlatField
<1>2. f.tag \in Byte /\ TagAgreed(writer, reader, f.tag) /\ f.val \in Number(WidthOfKind[f.kind])
    BY DEF FlatField, FieldAgreed
<1>3. ReadableAs(e.type, w) /\ u = ValueOf(reader, f)
  <2>1. CASE reader = "java"
    <3>1. w = n /\ ValueOf(reader, f) = x
        BY <2>1 DEF ReadWidth, ValueOf
    <3> QED
        BY <1>1, <2>1, <3>1, JavaReadsBack
  <2>2. CASE reader = "cpp"
    <3>1. w = WidthOfKind[f.kind] /\ ValueOf(reader, f) = f.val
        BY <2>2 DEF ReadWidth, ValueOf
    <3>2. CppGets(writer, f)
        BY <2>2
    <3> QED
        BY <1>2, <2>2, <3>1, <3>2, CppNumber
  <2> QED
      BY <2>1, <2>2 DEF Langs
<1>4. WriteFlat(writer, f) = WriteNum(writer, x, n, f.tag)
    BY KindsDiffer DEF WriteFlat
<1>5. ReadFlat(reader, h, f) = NumAfterHead(reader, h, w)
    BY KindsDiffer DEF ReadFlat
<1> HIDE DEF n, x, w
<1>6. NumAfterHead(reader, h, w)
        = Good(b, p + Len(WriteNum(writer, x, n, f.tag)), e.type, f.tag, HeadLen(f.tag), u)
    BY <1>1, <1>2, <1>3, <1>4, NumRead
<1> QED
    BY <1>3, <1>4, <1>5, <1>6, GoodYields

LEMMA FloatWritten ==
    ASSUME NEW writer \in Langs, NEW f, FlatField(f), f.kind \in DOMAIN FloatWidth
    PROVE  /\ WriteFlat(writer, f) = WriteHead(writer, FloatType[f.kind], f.tag) \o f.val
           /\ FloatType[f.kind] \in 0 .. 13 /\ FloatType[f.kind] # ZERO_TAG
           /\ FloatType[f.kind] \in DOMAIN FixedSize
           /\ f.val \in Seq(Byte) /\ Len(f.val) = FixedSize[FloatType[f.kind]]
<1>1. WriteFlat(writer, f) = WriteHead(writer, FloatType[f.kind], f.tag) \o f.val
  <2>1. f.kind \notin NumKinds /\ f.kind # "string" /\ f.kind # "blob"
      BY KindsDiffer
  <2> QED
      BY <2>1 DEF WriteFlat
<1>2. FloatWidth[f.kind] \in Widths
    BY DEF FloatWidth, Widths
<1>3. /\ FloatType[f.kind] \in DOMAIN FixedSize
      /\ FixedSize[FloatType[f.kind]] = FloatWidth[f.kind]
      /\ FloatType[f.kind] \in 0 .. 13 /\ FloatType[f.kind] # ZERO_TAG
  <2>1. CASE f.kind = "float"
      BY <2>1 DEF FloatWidth, FloatType, FixedSize, BYTE, SHORT, INT, LONG, FLOAT, DOUBLE, ZERO_TAG
  <2>2. CASE f.kind = "double"
      BY <2>2 DEF FloatWidth, FloatType, FixedSize, BYTE, SHORT, INT, LONG, FLOAT, DOUBLE, ZERO_TAG
  <2> QED
      BY <2>1, <2>2 DEF FloatWidth
<1>4. f.val \in Number(FloatWidth[f.kind])
    BY DEF FlatField
<1>5. f.val \in Seq(Byte) /\ Len(f.val) = FloatWidth[f.kind]
    BY <1>2, <1>4, NumberIsSeq
<1> QED
    BY <1>1, <1>3, <1>5

LEMMA FloatFieldRead ==
    ASSUME NEW writer \in Langs, NEW reader \in Langs, NEW f, FlatField(f),
           f.kind \in DOMAIN FloatWidth, FieldAgreed(writer, reader, f),
           NEW b \in Seq(Byte), NEW p \in Nat, Holds(b, p, WriteFlat(writer, f)),
           NEW t, NEW g, NEW l, NEW v
    PROVE  Yields(ReadFlat(reader, ReadHead(reader, Good(b, p, t, g, l, v)), f),
                  b, p + Len(WriteFlat(writer, f)), ValueOf(reader, f))
<1> DEFINE ty == FloatType[f.kind]
           k == HeadLen(f.tag)
           x == f.val
           s == Good(b, p + k, ty, f.tag, k, v)
<1>1. /\ WriteFlat(writer, f) = WriteHead(writer, ty, f.tag) \o x
      /\ ty \in 0 .. 13 /\ ty # ZERO_TAG
      /\ x \in Seq(Byte) /\ Len(x) = FixedSize[ty]
    BY FloatWritten
<1>2. f.tag \in Byte /\ TagAgreed(writer, reader, f.tag)
    BY DEF FlatField, FieldAgreed
<1>3. f.kind \notin NumKinds /\ f.kind # "string" /\ f.kind # "blob"
    BY KindsDiffer
<1>4. ValueOf(reader, f) = x
    BY <1>3 DEF ValueOf
<1>5. /\ Len(WriteFlat(writer, f)) = k + Len(x) /\ Holds(b, p + k, x) /\ k \in Nat
      /\ ReadHead(reader, Good(b, p, t, g, l, v)) = s
  <2> HIDE DEF ty, x
  <2>1. /\ writer \in Langs /\ reader \in Langs /\ ty \in 0 .. 13 /\ f.tag \in Byte
        /\ TagAgreed(writer, reader, f.tag) /\ x \in Seq(Byte) /\ b \in Seq(Byte) /\ p \in Nat
        /\ Holds(b, p, WriteHead(writer, ty, f.tag) \o x)
      BY <1>1, <1>2
  <2>2. HeadRead(writer, reader, ty, f.tag, x, b, p, Good(b, p, t, g, l, v), v)
      BY ONLY <2>1, HeadThenRest
  <2> QED
      BY <1>1, <2>2 DEF HeadRead
<1>6. s.type = ty
    BY GoodStream
<1>7. ReadFlat(reader, s, f) = Take(reader, s, Len(x))
  <2> HIDE DEF s
  <2>1. ReadFlat(reader, s, f)
          = IF s.type = ZERO_TAG THEN Value(s, Zero(FloatWidth[f.kind]))
            ELSE IF s.type \in {FLOAT, ty} THEN Take(reader, s, FixedSize[s.type])
            ELSE Stop(s, "error")
      BY <1>3 DEF ReadFlat
  <2> QED
      BY <1>1, <1>6, <2>1
<1>8. p + k \in Nat /\ (p + k) + Len(x) = p + (k + Len(x))
    BY <1>1, <1>5, LenProperties
<1> HIDE DEF ty, k, x
<1>9. Take(reader, s, Len(x)) = Good(b, (p + k) + Len(x), ty, f.tag, k, x)
  <2>1. reader \in Langs /\ b \in Seq(Byte) /\ p + k \in Nat /\ x \in Seq(Byte) /\ Holds(b, p + k, x)
      BY <1>1, <1>5, <1>8
  <2> QED
      BY ONLY <2>1, TakeHeld
<1> QED
    BY <1>4, <1>5, <1>7, <1>8, <1>9, GoodYields

LEMMA FloatFieldSkipped ==
    ASSUME NEW writer \in Langs, NEW reader \in Langs, NEW f, FlatField(f),
           f.kind \in DOMAIN FloatWidth, FieldAgreed(writer, reader, f),
           NEW b \in Seq(Byte), NEW p \in Nat, Holds(b, p, WriteFlat(writer, f)),
           NEW t, NEW g, NEW l, NEW v
    PROVE  \E u : Yields(SkipFlat(reader, ReadHead(reader, Good(b, p, t, g, l, v))),
                         b, p + Len(WriteFlat(writer, f)), u)
<1> DEFINE ty == FloatType[f.kind]
           k == HeadLen(f.tag)
           x == f.val
           s == Good(b, p + k, ty, f.tag, k, v)
<1>1. /\ WriteFlat(writer, f) = WriteHead(writer, ty, f.tag) \o x
      /\ ty \in 0 .. 13 /\ ty \in DOMAIN FixedSize
      /\ x \in Seq(Byte) /\ Len(x) = FixedSize[ty]
    BY FloatWritten
<1>2. f.tag \in Byte /\ TagAgreed(writer, reader, f.tag)
    BY DEF FlatField, FieldAgreed
<1>5. /\ Len(WriteFlat(writer, f)) = k + Len(x) /\ Holds(b, p + k, x) /\ k \in Nat
      /\ ReadHead(reader, Good(b, p, t, g, l, v)) = s
  <2> HIDE DEF ty, x
  <2>1. /\ writer \in Langs /\ reader \in Langs /\ ty \in 0 .. 13 /\ f.tag \in Byte
        /\ TagAgreed(writer, reader, f.tag) /\ x \in Seq(Byte) /\ b \in Seq(Byte) /\ p \in Nat
        /\ Holds(b, p, WriteHead(writer, ty, f.tag) \o x)
      BY <1>1, <1>2
  <2>2. HeadRead(writer, reader, ty, f.tag, x, b, p, Good(b, p, t, g, l, v), v)
      BY ONLY <2>1, HeadThenRest
  <2> QED
      BY <1>1, <2>2 DEF HeadRead
<1>6. s.type = ty
    BY GoodStream
<1> HIDE DEF ty, k, x
<1>7. SkipFlat(reader, s) = Advance(reader, s, Len(x))
  <2> HIDE DEF s
  <2> QED
      BY <1>1, <1>6, SkipFixed
<1>8. p + k \in Nat /\ (p + k) + Len(x) = p + (k + Len(x))
    BY <1>1, <1>5, LenProperties
<1>9. Advance(reader, s, Len(x)) = Good(b, (p + k) + Len(x), ty, f.tag, k, v)
  <2>1. reader \in Langs /\ b \in Seq(Byte) /\ p + k \in Nat /\ x \in Seq(Byte) /\ Holds(b, p + k, x)
      BY <1>1, <1>5, <1>8
  <2> QED
      BY ONLY <2>1, AdvanceHeld
<1> QED
    BY <1>5, <1>7, <1>8, <1>9, GoodYields

\* A text's length and the text behind a head: the reader's steps over them.
TextRead(reader, h, ty, m, lb, x, b, q, g, l) ==
    /\ Take(reader, h, m) = Good(b, h.pos + m, ty, g, l, lb)
    /\ Take(reader, Good(b, h.pos + m, ty, g, l, lb), Len(x)) = Good(b, q, ty, g, l, x)
    /\ Advance(reader, Good(b, h.pos + m, ty, g, l, lb), Len(x)) = Good(b, q, ty, g, l, lb)

LEMMA TextTaken ==
    ASSUME NEW reader \in Langs, NEW ty, NEW lb \in Seq(Byte), NEW x \in Seq(Byte),
           NEW b \in Seq(Byte), NEW p \in Nat, NEW g, NEW l, NEW v,
           Holds(b, p, lb), Holds(b, p + Len(lb), x)
    PROVE  TextRead(reader, Good(b, p, ty, g, l, v), ty, Len(lb), lb, x, b,
                    p + Len(lb) + Len(x), g, l)
<1> DEFINE q == p + Len(lb)
<1>1. Len(lb) \in Nat /\ Len(x) \in Nat /\ q \in Nat
    BY LenProperties
<1>2. Take(reader, Good(b, p, ty, g, l, v), Len(lb)) = Good(b, q, ty, g, l, lb)
  <2>1. reader \in Langs /\ b \in Seq(Byte) /\ p \in Nat /\ lb \in Seq(Byte) /\ Holds(b, p, lb)
      OBVIOUS
  <2> QED
      BY ONLY <2>1, TakeHeld DEF q
<1>3. reader \in Langs /\ b \in Seq(Byte) /\ q \in Nat /\ x \in Seq(Byte) /\ Holds(b, q, x)
    BY <1>1
<1> HIDE DEF q
<1>4. Take(reader, Good(b, q, ty, g, l, lb), Len(x)) = Good(b, q + Len(x), ty, g, l, x)
    BY ONLY <1>3, TakeHeld
<1>5. Advance(reader, Good(b, q, ty, g, l, lb), Len(x)) = Good(b, q + Len(x), ty, g, l, lb)
    BY ONLY <1>3, AdvanceHeld
<1>6. Good(b, p, ty, g, l, v).pos = p
    BY GoodStream
<1> QED
    BY <1>2, <1>4, <1>5, <1>6 DEF TextRead, q

\* The type of a text's head, and the bytes of its length.
TextType(n) == IF n > 255 THEN STRING4 ELSE STRING1
TextLength(n) == IF n > 255 THEN BytesOf(n) ELSE <<n>>

LEMMA TextWritten ==
    ASSUME NEW writer \in Langs, NEW f, FlatField(f), f.kind = "string"
    PROVE  LET x == Encoded(writer, f.val)
               n == Len(x)
           IN  /\ WriteFlat(writer, f)
                    = (WriteHead(writer, TextType(n), f.tag) \o TextLength(n)) \o x
               /\ x \in Seq(Byte) /\ IsLength(n)
               /\ TextType(n) \in 0 .. 13 /\ TextLength(n) \in Seq(Byte)
               /\ Len(TextLength(n)) = IF TextType(n) = STRING1 THEN 1 ELSE 4
<1> DEFINE x == Encoded(writer, f.val)
           n == Len(x)
<1>1. x \in Seq(Byte) /\ n <= 104857600
    BY DEF FlatField, Proto_MAX_STRING_LENGTH
<1>2. f.kind \notin NumKinds /\ f.kind \notin DOMAIN FloatWidth /\ f.kind # "blob"
    BY KindsDiffer
<1>3. n \in Nat
    BY <1>1, LenProperties
<1>a. WriteFlat(writer, f) = WriteText(writer, x, f.tag)
    BY <1>2 DEF WriteFlat
<1> HIDE DEF x
<1>b. IsLength(n)
    BY <1>1, <1>3 DEF IsLength
<1>4. CASE n > 255
  <2>1. TextType(n) = STRING4 /\ TextLength(n) = BytesOf(n)
      BY <1>4 DEF TextType, TextLength
  <2>3. WriteFlat(writer, f) = (WriteHead(writer, STRING4, f.tag) \o BytesOf(n)) \o x
      BY <1>a, <1>4 DEF WriteText
  <2>4. BytesOf(n) \in Seq(Byte) /\ Len(BytesOf(n)) = 4
    <3>1. 4 \in Widths
        BY DEF Widths
    <3>2. BytesOf(n) \in Number(4)
        BY <1>b, LengthBytes
    <3> QED
        BY ONLY <3>1, <3>2, NumberIsSeq
  <2>5. STRING4 \in 0 .. 13 /\ STRING4 # STRING1
      BY DEF STRING1, STRING4
  <2> QED
      BY <1>1, <1>b, <2>1, <2>3, <2>4, <2>5 DEF x
<1>5. CASE n <= 255
  <2>1. ~ (n > 255)
      BY <1>3, <1>5
  <2>2. TextType(n) = STRING1 /\ TextLength(n) = <<n>>
      BY <2>1 DEF TextType, TextLength
  <2>3. WriteFlat(writer, f) = (WriteHead(writer, STRING1, f.tag) \o <<n>>) \o x
      BY <1>a, <2>1 DEF WriteText
  <2>4. n \in Byte
    <3> HIDE DEF n
    <3> QED
        BY <1>3, <1>5 DEF Byte
  <2>5. <<n>> \in Seq(Byte) /\ Len(<<n>>) = 1
      BY <2>4
  <2>6. STRING1 \in 0 .. 13
      BY DEF STRING1
  <2> QED
      BY <1>1, <1>b, <2>2, <2>3, <2>5, <2>6 DEF x
<1>6. n > 255 \/ n <= 255
    BY <1>3
<1> QED
    BY <1>4, <1>5, <1>6

\* The head, the length and the text of a string field, one behind the other.
TextField(writer, reader, f, b, p, t, g, l, v) ==
    LET x == Encoded(writer, f.val)
        n == Len(x)
        k == HeadLen(f.tag)
        lb == TextLength(n)
        h == Good(b, p + k, TextType(n), f.tag, k, v)
    IN  /\ ReadHead(reader, Good(b, p, t, g, l, v)) = h
        /\ TextRead(reader, h, TextType(n), Len(lb), lb, x, b,
                    p + Len(WriteFlat(writer, f)), f.tag, k)

LEMMA TextBehindHead ==
    ASSUME NEW writer \in Langs, NEW reader \in Langs, NEW f, FlatField(f), f.kind = "string",
           FieldAgreed(writer, reader, f),
           NEW b \in Seq(Byte), NEW p \in Nat, Holds(b, p, WriteFlat(writer, f)),
           NEW t, NEW g, NEW l, NEW v
    PROVE  TextField(writer, reader, f, b, p, t, g, l, v)
<1> DEFINE x == Encoded(writer, f.val)
           n == Len(x)
           ty == TextType(n)
           k == HeadLen(f.tag)
           lb == TextLength(n)
           wh == WriteHead(writer, ty, f.tag)
           hl == wh \o lb
           q == p + k
<1>1. /\ WriteFlat(writer, f) = hl \o x /\ x \in Seq(Byte)
      /\ ty \in 0 .. 13 /\ lb \in Seq(Byte)
    BY TextWritten
<1>2. f.tag \in Byte /\ TagAgreed(writer, reader, f.tag)
    BY DEF FlatField, FieldAgreed
<1>3. hl \in Seq(Byte)
  <2>1. HeadIs(writer, ty, f.tag)
    <3>1. /\ writer \in Langs /\ reader \in Langs /\ ty \in 0 .. 13 /\ f.tag \in Byte
          /\ TagAgreed(writer, reader, f.tag)
        BY <1>1, <1>2
    <3> HIDE DEF ty
    <3> QED
        BY ONLY <3>1, HeadBytes
  <2>2. wh \in Seq(Byte)
      BY <2>1 DEF HeadIs
  <2> HIDE DEF wh, lb
  <2> QED
      BY <1>1, <2>2, ConcatProperties
<1> HIDE DEF n, ty, k, lb, x, hl
<1>4. Holds(b, p, hl) /\ Holds(b, p + Len(hl), x) /\ Len(hl \o x) = Len(hl) + Len(x)
  <2>1. b \in Seq(Byte) /\ p \in Nat /\ hl \in Seq(Byte) /\ x \in Seq(Byte) /\ Holds(b, p, hl \o x)
      BY <1>1, <1>3
  <2> QED
      BY ONLY <2>1, HoldsParts
<1>5. HeadRead(writer, reader, ty, f.tag, lb, b, p, Good(b, p, t, g, l, v), v)
  <2>1. /\ writer \in Langs /\ reader \in Langs /\ ty \in 0 .. 13 /\ f.tag \in Byte
        /\ TagAgreed(writer, reader, f.tag) /\ lb \in Seq(Byte) /\ b \in Seq(Byte) /\ p \in Nat
        /\ Holds(b, p, wh \o lb)
      BY <1>1, <1>2, <1>4 DEF hl
  <2> QED
      BY ONLY <2>1, HeadThenRest DEF wh
<1>6. /\ ReadHead(reader, Good(b, p, t, g, l, v)) = Good(b, q, ty, f.tag, k, v)
      /\ Holds(b, q, lb) /\ k \in Nat /\ Len(hl) = k + Len(lb)
    BY <1>5 DEF HeadRead, k, hl
<1>7. q \in Nat /\ Len(lb) \in Nat /\ Len(x) \in Nat
    BY <1>1, <1>6, LenProperties
<1>8. p + Len(hl) = q + Len(lb) /\ q + Len(lb) + Len(x) = p + Len(hl \o x)
    BY <1>4, <1>6, <1>7
<1>9. TextRead(reader, Good(b, q, ty, f.tag, k, v), ty, Len(lb), lb, x, b,
               q + Len(lb) + Len(x), f.tag, k)
  <2>1. /\ reader \in Langs /\ lb \in Seq(Byte) /\ x \in Seq(Byte) /\ b \in Seq(Byte) /\ q \in Nat
        /\ Holds(b, q, lb) /\ Holds(b, q + Len(lb), x)
      BY <1>1, <1>4, <1>6, <1>7, <1>8
  <2> HIDE DEF q
  <2> QED
      BY ONLY <2>1, TextTaken
<1> QED
    BY <1>1, <1>6, <1>8, <1>9 DEF TextField, n, ty, k, lb, x

LEMMA SkipVector ==
    ASSUME NEW lang, NEW s
    PROVE  /\ s.type = STRING1 =>
                SkipFlat(lang, s)
                  = LET l == Take(lang, s, 1)
                    IN  IF l.st = "good" THEN Advance(lang, l, l.val[1]) ELSE l
           /\ s.type = STRING4 =>
                SkipFlat(lang, s)
                  = LET l == Take(lang, s, 4)
                    IN  IF l.st = "good" THEN Advance(lang, l, IntOf(l.val)) ELSE l
           /\ s.type = SIMPLE_LIST =>
                SkipFlat(lang, s)
                  = LET h == ReadHead(lang, s)
                        l == ReadSize(lang, h)
                    IN  IF h.st = "good" /\ h.type # BYTE THEN Stop(h, "error")
                        ELSE IF l.st = "good" THEN Advance(lang, l, IntOf(l.val)) ELSE l
<1>1. \A ty \in {STRING1, STRING4, SIMPLE_LIST} :
        ty \notin DOMAIN FixedSize /\ ty \notin {STRUCT_END, ZERO_TAG}
    BY DEF FixedSize, STRING1, STRING4, SIMPLE_LIST, STRUCT_END, ZERO_TAG
<1>2. STRING1 # STRING4 /\ STRING1 # SIMPLE_LIST /\ STRING4 # SIMPLE_LIST
    BY DEF STRING1, STRING4, SIMPLE_LIST
<1>3. CASE s.type = STRING1
  <2>1. /\ s.type \notin DOMAIN FixedSize /\ s.type \notin {STRUCT_END, ZERO_TAG}
        /\ s.type # STRING4 /\ s.type # SIMPLE_LIST
      BY <1>1, <1>2, <1>3
  <2> QED
      BY <1>3, <2>1 DEF SkipFlat
<1>4. CASE s.type = STRING4
  <2>1. /\ s.type \notin DOMAIN FixedSize /\ s.type \notin {STRUCT_END, ZERO_TAG}
        /\ s.type # STRING1 /\ s.type # SIMPLE_LIST
      BY <1>1, <1>2, <1>4
  <2> QED
      BY <1>4, <2>1 DEF SkipFlat
<1>5. CASE s.type = SIMPLE_LIST
  <2>1. /\ s.type \notin DOMAIN FixedSize /\ s.type \notin {STRUCT_END, ZERO_TAG}
        /\ s.type # STRING1 /\ s.type # STRING4
      BY <1>1, <1>2, <1>5
  <2> QED
      BY <1>5, <2>1 DEF SkipFlat
<1> QED
    BY <1>3, <1>4, <1>5

\* What a field comes as: a text through the two character sets.
Got(writer, reader, f) ==
    IF f.kind = "string" THEN Decoded(reader, Encoded(writer, f.val)) ELSE ValueOf(reader, f)

LEMMA StringFieldRead ==
    ASSUME NEW writer \in Langs, NEW reader \in Langs, NEW f, FlatField(f), f.kind = "string",
           FieldAgreed(writer, reader, f), reader = "cpp" => CppGets(writer, f),
           NEW b \in Seq(Byte), NEW p \in Nat, Holds(b, p, WriteFlat(writer, f)),
           NEW t, NEW g, NEW l, NEW v
    PROVE  Yields(ReadFlat(reader, ReadHead(reader, Good(b, p, t, g, l, v)), f),
                  b, p + Len(WriteFlat(writer, f)), Got(writer, reader, f))
<1> DEFINE x == Encoded(writer, f.val)
           n == Len(x)
           ty == TextType(n)
           k == HeadLen(f.tag)
           lb == TextLength(n)
           h == Good(b, p + k, ty, f.tag, k, v)
           m == Good(b, h.pos + Len(lb), ty, f.tag, k, lb)
           q == p + Len(WriteFlat(writer, f))
<1>1. f.kind \notin NumKinds /\ f.kind \notin DOMAIN FloatWidth /\ f.kind # "blob"
    BY KindsDiffer
<1>2. /\ ReadHead(reader, Good(b, p, t, g, l, v)) = h
      /\ Take(reader, h, Len(lb)) = m
      /\ Take(reader, m, n) = Good(b, q, ty, f.tag, k, x)
  <2>1. TextField(writer, reader, f, b, p, t, g, l, v)
      BY TextBehindHead
  <2> QED
      BY <2>1 DEF TextField, TextRead
<1>3. Len(lb) = (IF ty = STRING1 THEN 1 ELSE 4) /\ IsLength(n)
    BY TextWritten
<1>4. h.type = ty /\ m.st = "good" /\ m.val = lb
    BY GoodStream
<1>5. reader = "cpp" => n \notin 128 .. 255
    BY <1>1 DEF CppGets
<1>6. n \in Nat
    BY <1>3 DEF IsLength
<1>7. ty = STRING1 <=> n <= 255
    BY <1>6 DEF TextType, STRING1, STRING4
<1>8. ty \in {STRING1, STRING4}
    BY DEF TextType
<1> DEFINE y == Good(b, q, ty, f.tag, k, x)
<1>a. y.st = "good" /\ y.val = x /\ Value(y, Decoded(reader, x)) = Good(b, q, ty, f.tag, k, Decoded(reader, x))
    BY GoodStream, Zenon DEF Value, Good
<1> HIDE DEF x, n, ty, k, lb, h, m, q, y
<1>9. StringSize(reader, h) = n
  <2>1. CASE ty = STRING1
    <3>1. lb[1] = n
        BY <1>6, <1>7, <2>1 DEF lb, TextLength
    <3>2. StringSize(reader, h) = IF reader = "cpp" THEN SignedChar(n) ELSE n
        BY <1>2, <1>3, <1>4, <2>1, <3>1 DEF StringSize
    <3>3. reader = "cpp" => SignedChar(n) = n
        BY <1>5, <1>6, <1>7, <2>1 DEF SignedChar
    <3> QED
        BY <3>2, <3>3
  <2>2. CASE ty # STRING1
    <3>1. lb = BytesOf(n)
        BY <1>6, <1>7, <2>2 DEF lb, TextLength
    <3>2. StringSize(reader, h) = IntOf(lb)
        BY <1>2, <1>3, <1>4, <2>2 DEF StringSize
    <3> QED
        BY <1>3, <3>1, <3>2, LengthBytes
  <2> QED
      BY <2>1, <2>2
<1>10. ReadString(reader, h) = Value(y, Decoded(reader, x))
  <2>1. ~ (n < 0)
      BY <1>6
  <2> QED
      BY <1>2, <1>3, <1>4, <1>8, <1>9, <1>a, <2>1 DEF ReadString, y
<1>11. ReadFlat(reader, h, f) = ReadString(reader, h) /\ Got(writer, reader, f) = Decoded(reader, x)
    BY <1>1 DEF ReadFlat, Got, x
<1> QED
    BY <1>2, <1>10, <1>11, <1>a, GoodYields DEF q

LEMMA StringFieldSkipped ==
    ASSUME NEW writer \in Langs, NEW reader \in Langs, NEW f, FlatField(f), f.kind = "string",
           FieldAgreed(writer, reader, f),
           NEW b \in Seq(Byte), NEW p \in Nat, Holds(b, p, WriteFlat(writer, f)),
           NEW t, NEW g, NEW l, NEW v
    PROVE  \E u : Yields(SkipFlat(reader, ReadHead(reader, Good(b, p, t, g, l, v))),
                         b, p + Len(WriteFlat(writer, f)), u)
<1> DEFINE n == Len(Encoded(writer, f.val))
           ty == TextType(n)
           k == HeadLen(f.tag)
           lb == TextLength(n)
           h == Good(b, p + k, ty, f.tag, k, v)
           m == Good(b, h.pos + Len(lb), ty, f.tag, k, lb)
           q == p + Len(WriteFlat(writer, f))
<1>2. /\ ReadHead(reader, Good(b, p, t, g, l, v)) = h
      /\ Take(reader, h, Len(lb)) = m
      /\ Advance(reader, m, n) = Good(b, q, ty, f.tag, k, lb)
  <2>1. TextField(writer, reader, f, b, p, t, g, l, v)
      BY TextBehindHead
  <2> QED
      BY <2>1 DEF TextField, TextRead
<1>3. Len(lb) = (IF ty = STRING1 THEN 1 ELSE 4) /\ IsLength(n)
    BY TextWritten
<1>4. h.type = ty /\ m.st = "good" /\ m.val = lb
    BY GoodStream
<1>6. n \in Nat
    BY <1>3 DEF IsLength
<1> HIDE DEF k, lb, h, m, q
<1>7. CASE n <= 255
  <2>1. ty = STRING1 /\ lb[1] = n
      BY <1>6, <1>7 DEF TextType, lb, TextLength
  <2> HIDE DEF n, ty
  <2>3. SkipFlat(reader, h) = Advance(reader, m, n)
      BY <1>2, <1>3, <1>4, <2>1, SkipVector
  <2> QED
      BY <1>2, <2>3, GoodYields DEF q
<1>8. CASE n > 255
  <2>1. ty = STRING4 /\ lb = BytesOf(n)
      BY <1>6, <1>8 DEF TextType, lb, TextLength
  <2> HIDE DEF n, ty
  <2>3. IntOf(lb) = n
      BY <1>3, <2>1, LengthBytes
  <2>4. SkipFlat(reader, h) = Advance(reader, m, n)
    <3>1. Len(lb) = 4
        BY <1>3, <2>1 DEF STRING1, STRING4
    <3> QED
        BY <1>2, <1>4, <2>1, <2>3, <3>1, SkipVector
  <2> QED
      BY <1>2, <2>4, GoodYields DEF q
<1> QED
    BY <1>6, <1>7, <1>8

LEMMA NumIsSeq ==
    ASSUME NEW writer \in Langs, NEW n \in Widths, NEW v \in Number(n)
    PROVE  WriteNum(writer, v, n, 0) \in Seq(Byte)
<1> DEFINE ty == EncodeNum(v, n).type
           x == EncodeNum(v, n).payload
           wh == WriteHead(writer, ty, 0)
<1>1. Behind(ty, x)
    BY EncodedBehind
<1>2. ty \in 0 .. 13 /\ x \in Seq(Byte)
    BY <1>1 DEF Behind, IntegerTypes, ZERO_TAG, BYTE, SHORT, INT, LONG
<1>3. writer \in Langs /\ 0 \in Byte /\ TagAgreed(writer, writer, 0)
    BY DEF Byte, TagAgreed
<1>4. HeadIs(writer, ty, 0)
  <2> HIDE DEF ty
  <2> QED
      BY ONLY <1>2, <1>3, HeadBytes
<1>5. wh \in Seq(Byte)
    BY <1>4 DEF HeadIs
<1>6. WriteNum(writer, v, n, 0) = wh \o x
    BY DEF WriteNum
<1> HIDE DEF wh, x
<1> QED
    BY <1>2, <1>5, <1>6, ConcatProperties

LEMMA BlobSizeIsSeq ==
    ASSUME NEW writer \in Langs, NEW n, IsLength(n)
    PROVE  BlobSize(writer, n) \in Seq(Byte)
<1>1. CASE writer = "cpp"
  <2> DEFINE x == <<n % 256>>
  <2>1. n % 256 \in Byte
      BY DivModOf DEF IsLength, Byte
  <2>2. x \in Number(1)
    <3>1. x = [i \in 1 .. 1 |-> n % 256]
        OBVIOUS
    <3> QED
        BY <2>1, <3>1 DEF Number
  <2>3. 1 \in Widths
      BY DEF Widths
  <2>4. BlobSize(writer, n) = WriteNum(writer, x, 1, 0)
      BY <1>1 DEF BlobSize
  <2> HIDE DEF x
  <2> QED
      BY <2>2, <2>3, <2>4, NumIsSeq
<1>2. CASE writer = "java"
  <2>1. BytesOf(n) \in Number(4)
      BY LengthBytes
  <2>2. 4 \in Widths
      BY DEF Widths
  <2>3. BlobSize(writer, n) = WriteNum(writer, BytesOf(n), 4, 0)
      BY <1>2 DEF BlobSize, WriteSize
  <2> QED
      BY <2>1, <2>2, <2>3, NumIsSeq
<1> QED
    BY <1>1, <1>2 DEF Langs

\* The two heads, the size and the bytes of a vector, one behind the other.
BlobField(writer, reader, f, b, p, t, g, l, v) ==
    LET n == Len(f.val)
        k == HeadLen(f.tag)
        q == p + Len(WriteFlat(writer, f))
        h == Good(b, p + k, SIMPLE_LIST, f.tag, k, v)
        inner == Good(b, p + k + 1, BYTE, 0, 1, v)
    IN  /\ ReadHead(reader, Good(b, p, t, g, l, v)) = h
        /\ ReadHead(reader, h) = inner
        /\ \E r, ty, u :
             /\ ReadSize(reader, inner) = Good(b, r, ty, 0, 1, u) /\ IntOf(u) = n
             /\ Take(reader, Good(b, r, ty, 0, 1, u), n) = Good(b, q, ty, 0, 1, f.val)
             /\ Advance(reader, Good(b, r, ty, 0, 1, u), n) = Good(b, q, ty, 0, 1, u)

LEMMA BlobBehindHeads ==
    ASSUME NEW writer \in Langs, NEW reader \in Langs, NEW f, FlatField(f), f.kind = "blob",
           FieldAgreed(writer, reader, f), reader = "cpp" => CppGets(writer, f),
           NEW b \in Seq(Byte), NEW p \in Nat, Holds(b, p, WriteFlat(writer, f)),
           NEW t, NEW g, NEW l, NEW v
    PROVE  BlobField(writer, reader, f, b, p, t, g, l, v)
<1> DEFINE x == f.val
           n == Len(x)
           k == HeadLen(f.tag)
           wa == WriteHead(writer, SIMPLE_LIST, f.tag)
           wb == WriteHead(writer, BYTE, 0)
           wc == BlobSize(writer, n)
           ab == wa \o wb
           abc == ab \o wc
           h == Good(b, p + k, SIMPLE_LIST, f.tag, k, v)
           inner == Good(b, p + k + 1, BYTE, 0, 1, v)
<1>1. f.kind \notin NumKinds /\ f.kind \notin DOMAIN FloatWidth /\ f.kind # "string"
    BY KindsDiffer
<1>2. x \in Seq(Byte) /\ IsLength(n) /\ f.tag \in Byte /\ TagAgreed(writer, reader, f.tag)
    BY <1>1 DEF FlatField, FieldAgreed
<1>3. writer = "cpp" => IF reader = "java" THEN n < 128 ELSE n < 256
  <2>1. CASE reader = "java"
      BY <2>1 DEF FieldAgreed
  <2>2. CASE reader = "cpp"
      BY <1>1, <2>2 DEF CppGets
  <2> QED
      BY <2>1, <2>2 DEF Langs
<1>4. WriteFlat(writer, f) = abc \o x
    BY <1>1 DEF WriteFlat
<1>5. SIMPLE_LIST \in 0 .. 13 /\ BYTE \in 0 .. 13 /\ 0 \in Byte
    BY DEF SIMPLE_LIST, BYTE, Byte
<1>6. TagAgreed(writer, reader, 0) /\ HeadLen(0) = 1
    BY DEF TagAgreed, HeadLen
<1>7. wa \in Seq(Byte)
  <2>1. HeadIs(writer, SIMPLE_LIST, f.tag)
      BY <1>2, <1>5, HeadBytes
  <2> QED
      BY <2>1 DEF HeadIs
<1>8. wb \in Seq(Byte) /\ Len(wb) = 1
  <2>1. HeadIs(writer, BYTE, 0)
      BY <1>5, <1>6, HeadBytes
  <2> QED
      BY <1>6, <2>1 DEF HeadIs
<1>9. wc \in Seq(Byte)
    BY <1>2, BlobSizeIsSeq
<1> HIDE DEF x, n, k, wa, wb, wc, ab, abc
<1>10. ab \in Seq(Byte) /\ abc \in Seq(Byte)
    BY <1>7, <1>8, <1>9, ConcatProperties DEF ab, abc
<1>11. Holds(b, p, abc) /\ Holds(b, p + Len(abc), x) /\ Len(abc \o x) = Len(abc) + Len(x)
  <2>1. b \in Seq(Byte) /\ p \in Nat /\ abc \in Seq(Byte) /\ x \in Seq(Byte)
        /\ Holds(b, p, abc \o x)
      BY <1>2, <1>4, <1>10
  <2> QED
      BY ONLY <2>1, HoldsParts
<1>12. Holds(b, p, ab) /\ Holds(b, p + Len(ab), wc) /\ Len(abc) = Len(ab) + Len(wc)
  <2>1. b \in Seq(Byte) /\ p \in Nat /\ ab \in Seq(Byte) /\ wc \in Seq(Byte)
        /\ Holds(b, p, ab \o wc)
      BY <1>9, <1>10, <1>11 DEF abc
  <2>2. Holds(b, p, ab) /\ Holds(b, p + Len(ab), wc) /\ Len(ab \o wc) = Len(ab) + Len(wc)
      BY ONLY <2>1, HoldsParts
  <2> QED
      BY <2>2 DEF abc
<1>13. /\ ReadHead(reader, Good(b, p, t, g, l, v)) = h
       /\ Holds(b, p + k, wb) /\ k \in Nat /\ Len(ab) = k + 1
  <2>1. /\ writer \in Langs /\ reader \in Langs /\ SIMPLE_LIST \in 0 .. 13 /\ f.tag \in Byte
        /\ TagAgreed(writer, reader, f.tag) /\ wb \in Seq(Byte) /\ b \in Seq(Byte) /\ p \in Nat
        /\ Holds(b, p, WriteHead(writer, SIMPLE_LIST, f.tag) \o wb)
      BY <1>2, <1>5, <1>8, <1>12 DEF ab, wa
  <2>2. HeadRead(writer, reader, SIMPLE_LIST, f.tag, wb, b, p, Good(b, p, t, g, l, v), v)
      BY ONLY <2>1, HeadThenRest
  <2> QED
      BY <1>8, <2>2 DEF HeadRead, k, ab, wa
<1> HIDE DEF h, inner
<1>14. ReadHead(reader, h) = inner
  <2> DEFINE q == p + k
  <2>1. q \in Nat
      BY <1>13
  <2>2. /\ writer \in Langs /\ reader \in Langs /\ BYTE \in 0 .. 13 /\ 0 \in Byte
        /\ TagAgreed(writer, reader, 0) /\ b \in Seq(Byte) /\ q \in Nat
        /\ Holds(b, q, WriteHead(writer, BYTE, 0))
      BY <1>5, <1>6, <1>13, <2>1 DEF wb
  <2> HIDE DEF q
  <2>3. ReadHead(reader, Good(b, q, SIMPLE_LIST, f.tag, k, v))
          = Good(b, q + HeadLen(0), BYTE, 0, HeadLen(0), v)
      BY ONLY <2>2, HeadHeld
  <2> QED
      BY <1>6, <2>3 DEF h, inner, q
<1> DEFINE q == p + k + 1
           r == q + Len(wc)
<1>15. /\ q \in Nat /\ r \in Nat /\ Len(wc) \in Nat /\ Len(x) \in Nat
       /\ q = p + Len(ab) /\ r = p + Len(abc) /\ r + Len(x) = p + Len(abc \o x)
    BY <1>2, <1>9, <1>11, <1>12, <1>13, LenProperties
<1> HIDE DEF q, r
<1>16. PICK ty, u : ReadSize(reader, inner) = Good(b, r, ty, 0, 1, u) /\ IntOf(u) = n
  <2>1. /\ writer \in Langs /\ reader \in Langs /\ IsLength(n)
        /\ (writer = "cpp" => IF reader = "java" THEN n < 128 ELSE n < 256)
        /\ b \in Seq(Byte) /\ q \in Nat /\ Holds(b, q, BlobSize(writer, n))
      BY <1>2, <1>3, <1>12, <1>15 DEF wc
  <2>2. ReadsSize(reader, b, q, q + Len(BlobSize(writer, n)), n, BYTE, 0, 1, v)
      BY ONLY <2>1, BlobSizeRead
  <2> QED
      BY <2>2 DEF ReadsSize, inner, q, r, wc
<1>17. reader \in Langs /\ b \in Seq(Byte) /\ r \in Nat /\ x \in Seq(Byte) /\ Holds(b, r, x)
    BY <1>2, <1>11, <1>15
<1>18. Take(reader, Good(b, r, ty, 0, 1, u), Len(x)) = Good(b, r + Len(x), ty, 0, 1, x)
    BY ONLY <1>17, TakeHeld
<1>19. Advance(reader, Good(b, r, ty, 0, 1, u), Len(x)) = Good(b, r + Len(x), ty, 0, 1, u)
    BY ONLY <1>17, AdvanceHeld
<1> QED
  <2>1. r + Len(x) = p + Len(WriteFlat(writer, f)) /\ n = Len(x)
      BY <1>4, <1>15 DEF n
  <2>2. /\ ReadSize(reader, inner) = Good(b, r, ty, 0, 1, u) /\ IntOf(u) = Len(x)
        /\ Take(reader, Good(b, r, ty, 0, 1, u), Len(x))
             = Good(b, p + Len(WriteFlat(writer, f)), ty, 0, 1, x)
        /\ Advance(reader, Good(b, r, ty, 0, 1, u), Len(x))
             = Good(b, p + Len(WriteFlat(writer, f)), ty, 0, 1, u)
      BY <1>16, <1>18, <1>19, <2>1
  <2> QED
      BY <1>13, <1>14, <2>2 DEF BlobField, k, h, inner, x

LEMMA BlobFieldRead ==
    ASSUME NEW writer \in Langs, NEW reader \in Langs, NEW f, FlatField(f), f.kind = "blob",
           FieldAgreed(writer, reader, f), reader = "cpp" => CppGets(writer, f),
           NEW b \in Seq(Byte), NEW p \in Nat, Holds(b, p, WriteFlat(writer, f)),
           NEW t, NEW g, NEW l, NEW v
    PROVE  Yields(ReadFlat(reader, ReadHead(reader, Good(b, p, t, g, l, v)), f),
                  b, p + Len(WriteFlat(writer, f)), ValueOf(reader, f))
<1> DEFINE n == Len(f.val)
           k == HeadLen(f.tag)
           q == p + Len(WriteFlat(writer, f))
           h == Good(b, p + k, SIMPLE_LIST, f.tag, k, v)
           inner == Good(b, p + k + 1, BYTE, 0, 1, v)
<1>1. f.kind \notin NumKinds /\ f.kind \notin DOMAIN FloatWidth /\ f.kind # "string"
    BY KindsDiffer
<1>2. BlobField(writer, reader, f, b, p, t, g, l, v)
    BY BlobBehindHeads
<1>3. /\ ReadHead(reader, Good(b, p, t, g, l, v)) = h
      /\ ReadHead(reader, h) = inner
    BY <1>2 DEF BlobField
<1>4. PICK r, ty, u :
        /\ ReadSize(reader, inner) = Good(b, r, ty, 0, 1, u) /\ IntOf(u) = n
        /\ Take(reader, Good(b, r, ty, 0, 1, u), n) = Good(b, q, ty, 0, 1, f.val)
    BY <1>2 DEF BlobField
<1> DEFINE m == Good(b, r, ty, 0, 1, u)
<1>5. h.type = SIMPLE_LIST /\ inner.type = BYTE /\ m.st = "good" /\ m.val = u
    BY GoodStream
<1>6. ~ (n < 0)
  <2>1. IsLength(n)
      BY <1>1 DEF FlatField
  <2> QED
      BY <2>1 DEF IsLength
<1> HIDE DEF n, k, q, h, inner, m
<1>7. ReadBlob(reader, h) = Take(reader, m, n)
  <2>1. ReadSize(reader, inner) = m
      BY <1>4 DEF m
  <2> QED
      BY <1>3, <1>4, <1>5, <1>6, <2>1 DEF ReadBlob
<1>8. ReadFlat(reader, h, f) = ReadBlob(reader, h) /\ ValueOf(reader, f) = f.val
    BY <1>1 DEF ReadFlat, ValueOf
<1> QED
    BY <1>3, <1>4, <1>7, <1>8, GoodYields DEF q, m

LEMMA BlobFieldSkipped ==
    ASSUME NEW writer \in Langs, NEW reader \in Langs, NEW f, FlatField(f), f.kind = "blob",
           FieldAgreed(writer, reader, f), reader = "cpp" => CppGets(writer, f),
           NEW b \in Seq(Byte), NEW p \in Nat, Holds(b, p, WriteFlat(writer, f)),
           NEW t, NEW g, NEW l, NEW v
    PROVE  \E u : Yields(SkipFlat(reader, ReadHead(reader, Good(b, p, t, g, l, v))),
                         b, p + Len(WriteFlat(writer, f)), u)
<1> DEFINE n == Len(f.val)
           k == HeadLen(f.tag)
           q == p + Len(WriteFlat(writer, f))
           h == Good(b, p + k, SIMPLE_LIST, f.tag, k, v)
           inner == Good(b, p + k + 1, BYTE, 0, 1, v)
<1>2. BlobField(writer, reader, f, b, p, t, g, l, v)
    BY BlobBehindHeads
<1>3. /\ ReadHead(reader, Good(b, p, t, g, l, v)) = h
      /\ ReadHead(reader, h) = inner
    BY <1>2 DEF BlobField
<1>4. PICK r, ty, u :
        /\ ReadSize(reader, inner) = Good(b, r, ty, 0, 1, u) /\ IntOf(u) = n
        /\ Advance(reader, Good(b, r, ty, 0, 1, u), n) = Good(b, q, ty, 0, 1, u)
    BY <1>2 DEF BlobField
<1> DEFINE m == Good(b, r, ty, 0, 1, u)
<1>5. h.type = SIMPLE_LIST /\ inner.type = BYTE /\ m.st = "good" /\ m.val = u
    BY GoodStream
<1> HIDE DEF n, k, q, h, inner, m
<1>7. SkipFlat(reader, h) = Advance(reader, m, n)
  <2>1. ReadSize(reader, inner) = m
      BY <1>4 DEF m
  <2>2. SkipFlat(reader, h)
          = IF inner.st = "good" /\ inner.type # BYTE THEN Stop(inner, "error")
            ELSE IF m.st = "good" THEN Advance(reader, m, IntOf(m.val)) ELSE m
      BY <1>3, <1>5, <2>1, SkipVector
  <2> QED
      BY <1>4, <1>5, <2>2
<1> QED
    BY <1>3, <1>4, <1>7, GoodYields DEF q, m
-----------------------------------------------------------------------------
LEMMA NumberFieldSkipped ==
    ASSUME NEW writer \in Langs, NEW reader \in Langs, NEW f, FlatField(f), f.kind \in NumKinds,
           FieldAgreed(writer, reader, f),
           NEW b \in Seq(Byte), NEW p \in Nat, Holds(b, p, WriteFlat(writer, f)),
           NEW t, NEW g, NEW l, NEW v
    PROVE  \E u : Yields(SkipFlat(reader, ReadHead(reader, Good(b, p, t, g, l, v))),
                         b, p + Len(WriteFlat(writer, f)), u)
<1> DEFINE n == WrittenWidth[f.kind]
           x == Written(f.kind, f.val)
<1>1. n \in Widths /\ x \in Number(n)
    BY WidthsOfKinds, WrittenIsNumber DEF FlatField
<1>2. f.tag \in Byte /\ TagAgreed(writer, reader, f.tag)
    BY DEF FlatField, FieldAgreed
<1>3. WriteFlat(writer, f) = WriteNum(writer, x, n, f.tag)
    BY KindsDiffer DEF WriteFlat
<1> HIDE DEF n, x
<1>4. SkipFlat(reader, ReadHead(reader, Good(b, p, t, g, l, v)))
        = Good(b, p + Len(WriteNum(writer, x, n, f.tag)), EncodeNum(x, n).type, f.tag,
               HeadLen(f.tag), v)
    BY <1>1, <1>2, <1>3, NumSkipped
<1> QED
    BY <1>3, <1>4, GoodYields

(***************************************************************************)
(* A field that either language wrote, wherever it stands in a stream, is  *)
(* read by either as the value it is for the reader's variable, and the    *)
(* reader is then at the byte behind it: the next field's head is read     *)
(* whole.  A text comes as what the reader's character set makes of the    *)
(* writer's bytes (FieldKept says when that is the text itself).           *)
(* ProtoOutputStream and ProtoOut with ProtoInputStream and ProtoIn; for   *)
(* the C++ reader only what CppGets says it gets, and only tags and        *)
(* lengths of vectors that the two languages agree on (FieldAgreed).       *)
(***************************************************************************)
THEOREM FieldRead ==
    ASSUME NEW writer \in Langs, NEW reader \in Langs, NEW f, FlatField(f),
           FieldAgreed(writer, reader, f), reader = "cpp" => CppGets(writer, f),
           NEW b \in Seq(Byte), NEW p \in Nat, Holds(b, p, WriteFlat(writer, f)),
           NEW t, NEW g, NEW l, NEW v
    PROVE  Yields(ReadFlat(reader, ReadHead(reader, Good(b, p, t, g, l, v)), f),
                  b, p + Len(WriteFlat(writer, f)), Got(writer, reader, f))
<1>1. CASE f.kind \in NumKinds
  <2>1. Got(writer, reader, f) = ValueOf(reader, f)
      BY <1>1, KindsDiffer DEF Got
  <2> QED
      BY <1>1, <2>1, NumberFieldRead
<1>2. CASE f.kind \in DOMAIN FloatWidth
  <2>1. Got(writer, reader, f) = ValueOf(reader, f)
      BY <1>2, KindsDiffer DEF Got
  <2> QED
      BY <1>2, <2>1, FloatFieldRead
<1>3. CASE f.kind = "string"
    BY <1>3, StringFieldRead
<1>4. CASE f.kind = "blob"
  <2>1. Got(writer, reader, f) = ValueOf(reader, f)
      BY <1>4, KindsDiffer DEF Got
  <2> QED
      BY <1>4, <2>1, BlobFieldRead
<1> QED
    BY <1>1, <1>2, <1>3, <1>4 DEF FlatField, FlatKinds

(***************************************************************************)
(* What comes is the value written, for every field but a text that is not *)
(* kept: an ASCII text comes back as it was between any two languages, and *)
(* so does a text of a C++ writer if it is read by C++, or by Java and     *)
(* UTF-8.  A Java text with other characters, which ProtoOutputStream      *)
(* writes in GBK, is not among them.                                       *)
(***************************************************************************)
LEMMA FieldKept ==
    ASSUME NEW writer \in Langs, NEW reader \in Langs, NEW f,
           f.kind = "string" => TextKept(writer, reader, f.val)
    PROVE  Got(writer, reader, f) = ValueOf(reader, f)
<1>1. CASE f.kind = "string"
  <2>1. ValueOf(reader, f) = f.val
      BY <1>1, KindsDiffer DEF ValueOf
  <2>2. TextKept(writer, reader, f.val)
      BY <1>1
  <2>3. CASE Ascii(f.val)
      BY <1>1, <2>1, <2>3 DEF Got, Encoded, Decoded
  <2>4. CASE writer = "cpp" /\ (reader = "java" => Utf8(f.val) = f.val)
      BY <1>1, <2>1, <2>4 DEF Got, Encoded, Decoded
  <2> QED
      BY <2>2, <2>3, <2>4 DEF TextKept
<1>2. CASE f.kind # "string"
    BY <1>2 DEF Got
<1> QED
    BY <1>1, <1>2

(***************************************************************************)
(* skipField passes over exactly the bytes of a field that nobody asked    *)
(* for, whichever language wrote it and whatever its value.  A vector that *)
(* C++ wrote is the exception: its size is a char, which C++ reads         *)
(* unsigned (so 256 bytes or more are lost) and Java signed (128 or more). *)
(***************************************************************************)
THEOREM FieldSkipped ==
    ASSUME NEW writer \in Langs, NEW reader \in Langs, NEW f, FlatField(f),
           FieldAgreed(writer, reader, f),
           (reader = "cpp" /\ f.kind = "blob") => CppGets(writer, f),
           NEW b \in Seq(Byte), NEW p \in Nat, Holds(b, p, WriteFlat(writer, f)),
           NEW t, NEW g, NEW l, NEW v
    PROVE  \E u : Yields(SkipFlat(reader, ReadHead(reader, Good(b, p, t, g, l, v))),
                         b, p + Len(WriteFlat(writer, f)), u)
<1>1. CASE f.kind \in NumKinds
    BY <1>1, NumberFieldSkipped
<1>2. CASE f.kind \in DOMAIN FloatWidth
    BY <1>2, FloatFieldSkipped
<1>3. CASE f.kind = "string"
    BY <1>3, StringFieldSkipped
<1>4. CASE f.kind = "blob"
    BY <1>4, BlobFieldSkipped
<1> QED
    BY <1>1, <1>2, <1>3, <1>4 DEF FlatField, FlatKinds
=============================================================================
