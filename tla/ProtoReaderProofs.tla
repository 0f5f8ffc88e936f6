-------------------------- MODULE ProtoReaderProofs --------------------------
(***************************************************************************)
(* A reader of a message, for every message: where its fields lie, how one *)
(* call of a reader leaves the stream, and from these what skipToTag and   *)
(* the reads after it answer.                                              *)
(***************************************************************************)
EXTENDS ProtoReader, ProtoStreamProofs, WellFoundedInduction

-----------------------------------------------------------------------------
(***************************************************************************)
(* Sequences one behind the other                                          *)
(***************************************************************************)
\* A set of natural numbers that is not empty has a least element.
LEMMA LeastOf ==
    ASSUME NEW T, T \subseteq Nat, T # {}
    PROVE  \E x \in T : \A y \in T : x <= y
<1>1. PICK x \in T : \A y \in T : <<y, x>> \notin OpToRel(<, Nat)
    BY WFMin, NatLessThanWellFounded, Zenon
<1>2. \A y \in T : ~ (y < x)
    BY <1>1 DEF OpToRel
<1> QED
    BY <1>2

\* Induction from a number up to another.
LEMMA UpTo ==
    ASSUME NEW m \in Nat, NEW n \in Nat, NEW T,
           \A i \in m .. n : (\A j \in m .. i - 1 : j \in T) => i \in T
    PROVE  \A i \in m .. n : i \in T
<1> DEFINE U == {i \in m .. n : i \notin T}
<1>1. SUFFICES ASSUME U # {} PROVE FALSE
    BY <1>1
<1>2. U \subseteq Nat
    OBVIOUS
<1>3. PICK i \in U : \A j \in U : i <= j
  <2> HIDE DEF U
  <2> QED
      BY <1>1, <1>2, LeastOf
<1>4. i \in m .. n /\ i \notin T /\ i \in Nat
    BY <1>3
<1>5. ASSUME NEW j \in m .. i - 1 PROVE j \in T
  <2>1. j \in m .. n /\ ~ (i <= j)
      BY <1>4
  <2>2. j \notin U
      BY <1>3, <2>1
  <2> QED
      BY <2>1, <2>2
<1> QED
    BY <1>4, <1>5

\* The body of the recursive function in FlattenSeq.
JoinAt(ws, g, i) == IF i = 1 THEN ws[i] ELSE g[i - 1] \o ws[i]

\* What FlattenSeq yields are the values of a function that joins one
\* sequence after the other.
LEMMA JoinExists ==
    ASSUME NEW n \in Nat \ {0}, NEW ws, Len(ws) = n
    PROVE  \E g : FlattenSeq(ws) = g[n] /\ \A i \in 1 .. n : g[i] = JoinAt(ws, g, i)
<1> DEFINE Whole(f) == f = [i \in 1 .. n |-> JoinAt(ws, f, i)]
           f1 == CHOOSE f : Whole(f)
           P(m) == \E g : \A i \in 1 .. m : g[i] = JoinAt(ws, g, i)
           T == {m \in 0 .. n : P(m)}
<1>1. FlattenSeq(ws) = f1[n]
  <2>1. ~ (Len(ws) = 0)
      OBVIOUS
  <2> QED
      BY <2>1 DEF FlattenSeq, JoinAt
<1>2. \A m \in 0 .. n : (\A j \in 0 .. m - 1 : j \in T) => m \in T
  <2> SUFFICES ASSUME NEW m \in 0 .. n, \A j \in 0 .. m - 1 : j \in T PROVE P(m)
      OBVIOUS
  <2>1. PICK g : \A i \in 1 .. m - 1 : g[i] = JoinAt(ws, g, i)
    <3>1. CASE m = 0
      <4>1. 1 .. m - 1 = {}
          BY <3>1
      <4> QED
          BY <4>1
    <3>2. CASE m # 0
      <4>1. m - 1 \in 0 .. m - 1
          BY <3>2
      <4> QED
          BY <4>1
    <3> QED
        BY <3>1, <3>2
  <2> DEFINE h == [i \in 1 .. n |-> IF i = m THEN JoinAt(ws, g, m) ELSE g[i]]
  <2>2. /\ m \in 1 .. n => h[m] = JoinAt(ws, g, m)
        /\ \A i \in 1 .. m - 1 : h[i] = g[i]
      OBVIOUS
  <2> HIDE DEF h
  <2>3. ASSUME NEW i \in 1 .. m PROVE h[i] = JoinAt(ws, h, i)
    <3>1. i = 1 \/ i - 1 \in 1 .. m - 1
        OBVIOUS
    <3>2. JoinAt(ws, h, i) = JoinAt(ws, g, i)
        BY <2>2, <3>1 DEF JoinAt
    <3>3. (i = m /\ m \in 1 .. n) \/ i \in 1 .. m - 1
        OBVIOUS
    <3> QED
        BY <2>1, <2>2, <3>2, <3>3
  <2> QED
      BY <2>3
<1>3. n \in T
  <2> HIDE DEF T
  <2>1. 0 \in Nat /\ n \in Nat /\ n \in 0 .. n
      OBVIOUS
  <2>2. \A m \in 0 .. n : m \in T
      BY ONLY <1>2, <2>1, UpTo
  <2> QED
      BY <2>1, <2>2
<1>4. \E f : Whole(f)
  <2>1. PICK g : \A i \in 1 .. n : g[i] = JoinAt(ws, g, i)
      BY <1>3
  <2> DEFINE f == [i \in 1 .. n |-> g[i]]
  <2>2. \A i \in 1 .. n : f[i] = g[i]
      OBVIOUS
  <2>3. f = [i \in 1 .. n |-> f[i]]
      OBVIOUS
  <2> HIDE DEF f
  <2>4. \A i \in 1 .. n : f[i] = JoinAt(ws, f, i)
    <3> SUFFICES ASSUME NEW i \in 1 .. n PROVE f[i] = JoinAt(ws, f, i)
        OBVIOUS
    <3>1. i = 1 \/ i - 1 \in 1 .. n
        OBVIOUS
    <3>2. JoinAt(ws, f, i) = JoinAt(ws, g, i)
        BY <2>2, <3>1 DEF JoinAt
    <3> QED
        BY <2>1, <2>2, <3>2
  <2> QED
      BY <2>3, <2>4
<1>5. Whole(f1)
    BY <1>4
<1> DEFINE k == f1
<1>6. \A i \in 1 .. n : k[i] = JoinAt(ws, k, i)
  <2> HIDE DEF f1
  <2> QED
      BY <1>5
<1>7. FlattenSeq(ws) = k[n]
    BY <1>1
<1> QED
    BY <1>6, <1>7

\* Bytes behind others do not change what is held.
LEMMA HoldsMore ==
    ASSUME NEW b \in Seq(Byte), NEW p \in Nat, NEW x \in Seq(Byte), NEW y \in Seq(Byte),
           Holds(b, p, x)
    PROVE  Holds(b \o y, p, x)
<1>1. /\ Len(b \o y) = Len(b) + Len(y)
      /\ \A i \in 1 .. Len(b) + Len(y) : (b \o y)[i] = IF i <= Len(b) THEN b[i] ELSE y[i - Len(b)]
    BY ConcatProperties
<1>2. Len(b) \in Nat /\ Len(y) \in Nat /\ Len(x) \in Nat
    BY LenProperties
<1>3. p + Len(x) <= Len(b) /\ \A i \in 1 .. Len(x) : b[p + i] = x[i]
    BY DEF Holds
<1>4. ASSUME NEW i \in 1 .. Len(x) PROVE (b \o y)[p + i] = x[i]
  <2>1. p + i \in 1 .. Len(b) + Len(y) /\ p + i <= Len(b)
      BY <1>2, <1>3
  <2> QED
      BY <1>1, <1>3, <2>1
<1> QED
    BY <1>1, <1>2, <1>3, <1>4 DEF Holds

\* A sequence is held at the end of one it is joined to.
LEMMA HoldsEnd ==
    ASSUME NEW b \in Seq(Byte), NEW y \in Seq(Byte)
    PROVE  Holds(b \o y, Len(b), y)
<1>1. /\ Len(b \o y) = Len(b) + Len(y)
      /\ \A i \in 1 .. Len(b) + Len(y) : (b \o y)[i] = IF i <= Len(b) THEN b[i] ELSE y[i - Len(b)]
    BY ConcatProperties
<1>2. Len(b) \in Nat /\ Len(y) \in Nat
    BY LenProperties
<1>3. ASSUME NEW i \in 1 .. Len(y) PROVE (b \o y)[Len(b) + i] = y[i]
  <2>1. /\ Len(b) + i \in 1 .. Len(b) + Len(y) /\ ~ (Len(b) + i <= Len(b))
        /\ Len(b) + i - Len(b) = i
      BY <1>2
  <2> QED
      BY <1>1, <2>1
<1> QED
    BY <1>1, <1>2, <1>3 DEF Holds

\* What is held within something that is held.
LEMMA HoldsWithin ==
    ASSUME NEW b \in Seq(Byte), NEW p \in Nat, NEW x \in Seq(Byte), NEW q \in Nat,
           NEW y \in Seq(Byte), Holds(b, p, x), Holds(x, q, y)
    PROVE  Holds(b, p + q, y)
<1>1. Len(b) \in Nat /\ Len(x) \in Nat /\ Len(y) \in Nat
    BY LenProperties
<1>2. p + Len(x) <= Len(b) /\ \A i \in 1 .. Len(x) : b[p + i] = x[i]
    BY DEF Holds
<1>3. q + Len(y) <= Len(x) /\ \A i \in 1 .. Len(y) : x[q + i] = y[i]
    BY DEF Holds
<1>4. ASSUME NEW i \in 1 .. Len(y) PROVE b[(p + q) + i] = y[i]
  <2>1. q + i \in 1 .. Len(x) /\ p + (q + i) = (p + q) + i
      BY <1>1, <1>3
  <2> QED
      BY <1>2, <1>3, <2>1
<1> QED
    BY <1>1, <1>2, <1>3, <1>4 DEF Holds

\* The positions at which the n sequences ws lie in b from p on.
Lies(b, p, n, ws, st) ==
    /\ st \in [1 .. n + 1 -> Nat]
    /\ st[1] = p
    /\ \A i \in 1 .. n : st[i + 1] = st[i] + Len(ws[i]) /\ Holds(b, st[i], ws[i])

(***************************************************************************)
(* FlattenSeq lays its sequences one behind the other, without a gap.      *)
(***************************************************************************)
LEMMA FlattenLies ==
    ASSUME NEW n \in Nat, NEW ws \in [1 .. n -> Seq(Byte)]
    PROVE  LET x == FlattenSeq(ws)
           IN  x \in Seq(Byte) /\ \E st : Lies(x, 0, n, ws, st) /\ st[n + 1] = Len(x)
<1> DEFINE x == FlattenSeq(ws)
<1>1. ws \in Seq(Seq(Byte)) /\ Len(ws) = n
  <2>1. ws \in Seq(Seq(Byte))
      BY SeqDef
  <2>2. DOMAIN ws = 1 .. n /\ DOMAIN ws = 1 .. Len(ws) /\ Len(ws) \in Nat
      BY <2>1, LenProperties
  <2> QED
      BY <2>1, <2>2
<1>2. CASE n = 0
  <2>1. x = ws
      BY <1>1, <1>2 DEF FlattenSeq
  <2>2. ws \in Seq(Byte) /\ Len(ws) = 0
    <3>1. ws \in Seq(Seq(Byte)) /\ Len(ws) = 0
        BY <1>1, <1>2
    <3>2. ws = << >>
        BY <3>1, EmptySeq
    <3> QED
        BY <1>1, <1>2, <3>2
  <2> DEFINE st == [i \in 1 .. n + 1 |-> 0]
  <2>3. Lies(x, 0, n, ws, st) /\ st[n + 1] = 0
      BY <1>2 DEF Lies
  <2> QED
      BY <2>1, <2>2, <2>3
<1>3. CASE n # 0
  <2>1. PICK g : x = g[n] /\ \A i \in 1 .. n : g[i] = JoinAt(ws, g, i)
      BY <1>1, <1>3, JoinExists
  <2> DEFINE T == {i \in 1 .. n : g[i] \in Seq(Byte)}
  <2>2. \A i \in 1 .. n : i \in T
    <3>1. \A i \in 1 .. n : (\A j \in 1 .. i - 1 : j \in T) => i \in T
      <4> SUFFICES ASSUME NEW i \in 1 .. n, \A j \in 1 .. i - 1 : j \in T PROVE g[i] \in Seq(Byte)
          OBVIOUS
      <4>1. CASE i = 1
          BY <2>1, <4>1 DEF JoinAt
      <4>2. CASE i # 1
        <5>1. i - 1 \in 1 .. i - 1
            BY <4>2
        <5>2. g[i - 1] \in Seq(Byte) /\ ws[i] \in Seq(Byte)
            BY <5>1
        <5>3. g[i - 1] \o ws[i] \in Seq(Byte)
            BY <5>2, ConcatProperties
        <5> QED
            BY <2>1, <4>2, <5>3 DEF JoinAt
      <4> QED
          BY <4>1, <4>2
    <3> HIDE DEF T
    <3>2. 1 \in Nat /\ n \in Nat
        OBVIOUS
    <3> QED
        BY ONLY <3>1, <3>2, UpTo
  <2>3. \A i \in 1 .. n : g[i] \in Seq(Byte) /\ Len(g[i]) \in Nat
      BY <2>2, LenProperties
  <2> HIDE DEF T
  <2> DEFINE st == [i \in 1 .. n + 1 |-> IF i = 1 THEN 0 ELSE Len(g[i - 1])]
  <2>4. st \in [1 .. n + 1 -> Nat]
    <3>1. ASSUME NEW i \in 1 .. n + 1 PROVE (IF i = 1 THEN 0 ELSE Len(g[i - 1])) \in Nat
      <4>1. i = 1 \/ i - 1 \in 1 .. n
          OBVIOUS
      <4> QED
          BY <2>3, <4>1
    <3> QED
        BY <3>1
  <2>5. /\ st[1] = 0
        /\ \A i \in 1 .. n : st[i + 1] = Len(g[i])
    <3>1. 1 \in 1 .. n + 1
        OBVIOUS
    <3>2. ASSUME NEW i \in 1 .. n PROVE st[i + 1] = Len(g[i])
      <4>1. i + 1 \in 1 .. n + 1 /\ i + 1 # 1 /\ (i + 1) - 1 = i
          OBVIOUS
      <4> QED
          BY <4>1
    <3> QED
        BY <3>1, <3>2
  <2> HIDE DEF st
  <2>6. ASSUME NEW i \in 1 .. n
        PROVE  st[i + 1] = st[i] + Len(ws[i]) /\ Holds(g[i], st[i], ws[i])
    <3>1. CASE i = 1
      <4>1. g[i] = ws[i] /\ st[i] = 0 /\ st[i + 1] = Len(ws[i]) /\ ws[i] \in Seq(Byte)
          BY <2>1, <2>5, <3>1 DEF JoinAt
      <4>2. Len(ws[i]) \in Nat
          BY <4>1, LenProperties
      <4> QED
          BY <4>1, <4>2 DEF Holds
    <3>2. CASE i # 1
      <4>1. i - 1 \in 1 .. n /\ (i - 1) + 1 = i
          BY <3>2
      <4>2. g[i] = g[i - 1] \o ws[i] /\ st[i] = Len(g[i - 1]) /\ st[i + 1] = Len(g[i])
          BY <2>1, <2>5, <3>2, <4>1 DEF JoinAt
      <4>3. g[i - 1] \in Seq(Byte) /\ ws[i] \in Seq(Byte)
          BY <2>3, <4>1
      <4> QED
          BY <4>2, <4>3, ConcatProperties, HoldsEnd
    <3> QED
        BY <3>1, <3>2
  <2>7. ASSUME NEW i \in 1 .. n PROVE Holds(x, st[i], ws[i])
    <3> DEFINE U == {j \in i .. n : Holds(g[j], st[i], ws[i])}
    <3>1. \A j \in i .. n : (\A k \in i .. j - 1 : k \in U) => j \in U
      <4> SUFFICES ASSUME NEW j \in i .. n, \A k \in i .. j - 1 : k \in U
                   PROVE  Holds(g[j], st[i], ws[i])
          OBVIOUS
      <4>1. CASE j = i
          BY <2>6, <4>1
      <4>2. CASE j # i
        <5>1. j - 1 \in i .. j - 1 /\ j - 1 \in 1 .. n /\ j \in 1 .. n /\ j # 1 /\ i \in 1 .. n + 1
            BY <4>2
        <5>2. Holds(g[j - 1], st[i], ws[i])
            BY <5>1
        <5>3. g[j] = g[j - 1] \o ws[j]
            BY <2>1, <5>1 DEF JoinAt
        <5>4. /\ g[j - 1] \in Seq(Byte) /\ ws[j] \in Seq(Byte) /\ ws[i] \in Seq(Byte)
              /\ st[i] \in Nat
            BY <2>3, <2>4, <5>1
        <5> QED
            BY <5>2, <5>3, <5>4, HoldsMore
      <4> QED
          BY <4>1, <4>2
    <3> HIDE DEF U
    <3>2. i \in Nat /\ n \in Nat /\ n \in i .. n
        OBVIOUS
    <3>3. n \in U
      <4>1. \A j \in i .. n : j \in U
          BY ONLY <3>1, <3>2, UpTo
      <4> QED
          BY <3>2, <4>1
    <3> QED
        BY <2>1, <3>3 DEF U
  <2>8. n \in 1 .. n
      BY <1>3
  <2>9. x \in Seq(Byte) /\ st[n + 1] = Len(x)
      BY <2>1, <2>3, <2>5, <2>8
  <2> QED
      BY <2>4, <2>5, <2>6, <2>7, <2>9 DEF Lies
<1> QED
    BY <1>2, <1>3

-----------------------------------------------------------------------------
(***************************************************************************)
(* One field                                                               *)
(***************************************************************************)
LEMMA KindsApart ==
    ASSUME NEW k
    PROVE  /\ k \in FlatKinds => k \notin {"map", "list"} /\ k # "struct"
           /\ k \in {"map", "list"} => k \notin FlatKinds /\ k # "struct"
    BY DEF FlatKinds, NumKinds, FloatWidth

LEMMA ByteIsInt == \A x \in Byte : x \in Int /\ x > -1
    BY DEF Byte

LEMMA HeadIsSeq ==
    ASSUME NEW wr \in Langs, NEW ty \in 0 .. 13, NEW tag \in Byte
    PROVE  WriteHead(wr, ty, tag) \in Seq(Byte) /\ Len(WriteHead(wr, ty, tag)) \in {1, 2}
<1>1. CASE tag < 15 \/ (wr = "cpp" /\ tag >= 128)
  <2> DEFINE c == (tag * 16 + ty) % 256
  <2>1. c \in Byte
      BY DEF Byte
  <2>2. WriteHead(wr, ty, tag) = <<c>>
      BY <1>1 DEF WriteHead
  <2> HIDE DEF c
  <2> QED
      BY <2>1, <2>2
<1>2. CASE ~ (tag < 15 \/ (wr = "cpp" /\ tag >= 128))
  <2> DEFINE c == 240 + ty
  <2>1. c \in Byte
      BY DEF Byte
  <2>2. WriteHead(wr, ty, tag) = <<c, tag>>
      BY <1>2 DEF WriteHead
  <2> HIDE DEF c
  <2> QED
      BY <2>1, <2>2
<1> QED
    BY <1>1, <1>2

LEMMA JoinThree ==
    ASSUME NEW x \in Seq(Byte), NEW y \in Seq(Byte), NEW z \in Seq(Byte)
    PROVE  y \o z \in Seq(Byte) /\ (x \o y) \o z = x \o (y \o z)
<1>1. y \o z \in Seq(Byte)
    BY ConcatProperties
<1>2. (x \o y) \o z = x \o (y \o z)
    BY ConcatAssociative
<1> QED
    BY <1>1, <1>2

\* The types of heads of fields that hold no other fields, and of all fields.
FlatTypes == 0 .. 7 \union {ZERO_TAG, SIMPLE_LIST}
NotEnd == 0 .. 13 \ {STRUCT_END}

\* A field begins with a head of its tag.
Headed(wr, types, tag, x) ==
    \E ty \in types, y \in Seq(Byte) : x = WriteHead(wr, ty, tag) \o y

LEMMA NumHeaded ==
    ASSUME NEW wr \in Langs, NEW n \in Widths, NEW v \in Number(n), NEW tag \in Byte
    PROVE  Headed(wr, FlatTypes, tag, WriteNum(wr, v, n, tag))
<1> DEFINE ty == EncodeNum(v, n).type
           x == EncodeNum(v, n).payload
<1>1. Behind(ty, x)
    BY EncodedBehind
<1>2. ty \in FlatTypes /\ x \in Seq(Byte)
    BY <1>1 DEF Behind, FlatTypes, IntegerTypes, ZERO_TAG, BYTE, SHORT, INT, LONG
<1>3. WriteNum(wr, v, n, tag) = WriteHead(wr, ty, tag) \o x
    BY DEF WriteNum
<1> HIDE DEF ty, x
<1> QED
    BY <1>2, <1>3 DEF Headed

LEMMA FlatHeaded ==
    ASSUME NEW wr \in Langs, NEW f, FlatField(f)
    PROVE  Headed(wr, FlatTypes, f.tag, WriteFlat(wr, f))
<1>a. f.tag \in Byte
    BY DEF FlatField
<1>1. CASE f.kind \in NumKinds
  <2> DEFINE n == WrittenWidth[f.kind]
             v == Written(f.kind, f.val)
  <2>1. n \in Widths /\ v \in Number(n)
      BY <1>1, WidthsOfKinds, WrittenIsNumber DEF FlatField
  <2>2. WriteFlat(wr, f) = WriteNum(wr, v, n, f.tag)
      BY <1>1, KindsDiffer DEF WriteFlat
  <2> HIDE DEF n, v
  <2> QED
      BY <1>a, <2>1, <2>2, NumHeaded
<1>2. CASE f.kind \in DOMAIN FloatWidth
  <2>1. /\ WriteFlat(wr, f) = WriteHead(wr, FloatType[f.kind], f.tag) \o f.val
        /\ f.val \in Seq(Byte)
      BY <1>2, FloatWritten
  <2>2. FloatType[f.kind] \in FlatTypes
      BY <1>2 DEF FloatWidth, FloatType, FlatTypes, FLOAT, DOUBLE
  <2> QED
      BY <2>1, <2>2 DEF Headed
<1>3. CASE f.kind = "string"
  <2> DEFINE z == Encoded(wr, f.val)
             ty == TextType(Len(z))
             y == TextLength(Len(z))
             h == WriteHead(wr, ty, f.tag)
  <2>1. /\ WriteFlat(wr, f) = (h \o y) \o z
        /\ z \in Seq(Byte) /\ ty \in 0 .. 13 /\ y \in Seq(Byte)
      BY <1>3, TextWritten
  <2>2. ty \in FlatTypes
      BY DEF TextType, FlatTypes, STRING1, STRING4
  <2>3. h \in Seq(Byte)
    <3> HIDE DEF ty
    <3> QED
        BY <1>a, <2>1, HeadIsSeq
  <2>4. y \o z \in Seq(Byte) /\ (h \o y) \o z = h \o (y \o z)
    <3>1. h \in Seq(Byte) /\ y \in Seq(Byte) /\ z \in Seq(Byte)
        BY <2>1, <2>3
    <3> HIDE DEF h, y, z
    <3> QED
        BY ONLY <3>1, JoinThree
  <2> HIDE DEF z, ty, y
  <2> QED
      BY <2>1, <2>2, <2>4 DEF Headed
<1>4. CASE f.kind = "blob"
  <2> DEFINE a == WriteHead(wr, SIMPLE_LIST, f.tag)
             b == WriteHead(wr, BYTE, 0)
             c == BlobSize(wr, Len(f.val))
  <2>1. f.val \in Seq(Byte) /\ IsLength(Len(f.val))
      BY <1>4 DEF FlatField
  <2>2. SIMPLE_LIST \in FlatTypes /\ SIMPLE_LIST \in 0 .. 13 /\ BYTE \in 0 .. 13 /\ 0 \in Byte
      BY DEF FlatTypes, SIMPLE_LIST, BYTE, Byte
  <2>3. a \in Seq(Byte) /\ b \in Seq(Byte) /\ c \in Seq(Byte)
      BY <1>a, <2>1, <2>2, HeadIsSeq, BlobSizeIsSeq
  <2>4. WriteFlat(wr, f) = ((a \o b) \o c) \o f.val
    <3>1. f.kind \notin NumKinds /\ f.kind \notin DOMAIN FloatWidth /\ f.kind # "string"
        BY <1>4, KindsDiffer
    <3> QED
        BY <1>4, <3>1 DEF WriteFlat
  <2> HIDE DEF a, b, c
  <2> DEFINE d == b \o c
             e == d \o f.val
  <2>5. d \in Seq(Byte) /\ (a \o b) \o c = a \o d
      BY <2>3, JoinThree
  <2>6. e \in Seq(Byte) /\ (a \o d) \o f.val = a \o e
    <3> DEFINE z == f.val
    <3>1. a \in Seq(Byte) /\ d \in Seq(Byte) /\ z \in Seq(Byte)
        BY <2>1, <2>3, <2>5
    <3> HIDE DEF a, d, z
    <3>2. d \o z \in Seq(Byte) /\ (a \o d) \o z = a \o (d \o z)
        BY ONLY <3>1, JoinThree
    <3> QED
        BY <3>2 DEF z
  <2> HIDE DEF d, e
  <2>7. WriteFlat(wr, f) = a \o e
      BY <2>4, <2>5, <2>6
  <2> QED
      BY <2>2, <2>6, <2>7 DEF Headed, a
<1> QED
    BY <1>1, <1>2, <1>3, <1>4 DEF FlatField, FlatKinds

\* A field of a message that a reader meets behind p in b, where the bytes of
\* the field are x: the head shows what it is.
ShowsHead(rd, types, f, b, p) ==
    \A t, g, l, v : \E ty \in types :
        ReadHead(rd, Good(b, p, t, g, l, v))
          = Good(b, p + HeadLen(f.tag), ty, f.tag, HeadLen(f.tag), v)

LEMMA HeadShown ==
    ASSUME NEW wr \in Langs, NEW rd \in Langs, NEW types, types \subseteq 0 .. 13,
           NEW f, f.tag \in Byte, TagAgreed(wr, rd, f.tag),
           NEW x, Headed(wr, types, f.tag, x),
           NEW b \in Seq(Byte), NEW p \in Nat, Holds(b, p, x)
    PROVE  ShowsHead(rd, types, f, b, p)
<1>1. PICK ty \in types, y \in Seq(Byte) : x = WriteHead(wr, ty, f.tag) \o y
    BY DEF Headed
<1>2. ty \in 0 .. 13
    BY <1>1
<1>3. ASSUME NEW t, NEW g, NEW l, NEW v
      PROVE  ReadHead(rd, Good(b, p, t, g, l, v))
               = Good(b, p + HeadLen(f.tag), ty, f.tag, HeadLen(f.tag), v)
  <2> DEFINE tag == f.tag
  <2>1. /\ wr \in Langs /\ rd \in Langs /\ ty \in 0 .. 13 /\ tag \in Byte
        /\ TagAgreed(wr, rd, tag) /\ y \in Seq(Byte) /\ b \in Seq(Byte) /\ p \in Nat
        /\ Holds(b, p, WriteHead(wr, ty, tag) \o y)
      BY <1>1, <1>2
  <2> HIDE DEF tag
  <2>2. HeadRead(wr, rd, ty, tag, y, b, p, Good(b, p, t, g, l, v), v)
      BY ONLY <2>1, HeadThenRest
  <2> QED
      BY <2>2 DEF HeadRead, tag
<1> QED
    BY <1>3 DEF ShowsHead

\* A field is at least one byte long.
LEMMA HeadedIsSeq ==
    ASSUME NEW wr \in Langs, NEW types, types \subseteq 0 .. 13, NEW tag \in Byte,
           NEW x, Headed(wr, types, tag, x)
    PROVE  x \in Seq(Byte) /\ Len(x) \in Nat /\ Len(x) >= 1
<1>1. PICK ty \in types, y \in Seq(Byte) : x = WriteHead(wr, ty, tag) \o y
    BY DEF Headed
<1> DEFINE h == WriteHead(wr, ty, tag)
<1>2. h \in Seq(Byte) /\ Len(h) \in {1, 2}
  <2>1. ty \in 0 .. 13
      BY <1>1
  <2> QED
      BY <2>1, HeadIsSeq
<1> HIDE DEF h
<1>3. h \o y \in Seq(Byte) /\ Len(h \o y) = Len(h) + Len(y) /\ Len(y) \in Nat
    BY <1>2, ConcatProperties, LenProperties
<1>4. x = h \o y
    BY <1>1 DEF h
<1> QED
    BY <1>2, <1>3, <1>4


-----------------------------------------------------------------------------
(***************************************************************************)
(* Structs within structs: what the functions of the depth are             *)
(***************************************************************************)
LEMMA LowFields == \A f \in Fields[0] : f.kind # "struct"
<1>1. Depth \in Nat
    BY FieldsAssumption
<1>2. 0 \in 0 .. Depth /\ ~ (0 > 0)
    BY <1>1
<1> QED
    BY <1>2, FieldsAssumption

\* What each is at a depth, G being what it is one less deep.
WriteBody(G, d) == [lang \in Langs |-> [f \in Fields[d] |-> WriteOf(lang, G[lang], f)]]
ReadBody(G, d) ==
    [lang \in Langs |-> [f \in Fields[d] |-> [s \in Streams |-> ReadOf(lang, G[lang], f, s)]]]
ValueBody(G, d) == [lang \in Langs |-> [f \in Fields[d] |-> ValueIn(lang, G[lang], f)]]
PartsBody(G, d) ==
    [f \in Fields[d] |->
       {f} \union (IF f.kind = "struct"
                   THEN UNION {G[f.val[i]] : i \in 1 .. Len(f.val)} ELSE {})]

LEMMA WriteBodyLow ==
    ASSUME NEW G, NEW H
    PROVE  WriteBody(G, 0) = WriteBody(H, 0)
<1>1. \A f \in Fields[0] : f.kind # "struct"
    BY LowFields
<1> QED
    BY <1>1 DEF WriteBody, WriteOf

LEMMA WriteAtIs == \A d \in 0 .. Depth : WriteAt[d] = WriteBody(WriteAt[d - 1], d)
<1> DEFINE Whole(f) == f = [d \in 0 .. Depth |-> WriteBody(f[d - 1], d)]
           P(m) == \E g : \A i \in 0 .. m : g[i] = WriteBody(g[i - 1], i)
           T == {m \in 0 .. Depth : P(m)}
<1>1. Depth \in Nat
    BY FieldsAssumption
<1>2. ASSUME NEW g, NEW h, NEW i \in 0 .. Depth, i > 0 => g[i - 1] = h[i - 1]
      PROVE  WriteBody(g[i - 1], i) = WriteBody(h[i - 1], i)
  <2>1. CASE i = 0
      BY <2>1, WriteBodyLow
  <2>2. CASE i # 0
    <3>1. g[i - 1] = h[i - 1]
        BY <1>2, <2>2
    <3> QED
        BY <3>1
  <2> QED
      BY <2>1, <2>2
<1>3. \A m \in 0 .. Depth : (\A j \in 0 .. m - 1 : j \in T) => m \in T
  <2> SUFFICES ASSUME NEW m \in 0 .. Depth, \A j \in 0 .. m - 1 : j \in T PROVE P(m)
      OBVIOUS
  <2>1. PICK g : \A i \in 0 .. m - 1 : g[i] = WriteBody(g[i - 1], i)
    <3>1. CASE m = 0
      <4>1. 0 .. m - 1 = {}
          BY <3>1
      <4> QED
          BY <4>1
    <3>2. CASE m # 0
      <4>1. m - 1 \in 0 .. m - 1
          BY <3>2
      <4> QED
          BY <4>1
    <3> QED
        BY <3>1, <3>2
  <2> DEFINE h == [i \in 0 .. Depth |-> IF i = m THEN WriteBody(g[m - 1], m) ELSE g[i]]
  <2>2. /\ h[m] = WriteBody(g[m - 1], m)
        /\ \A i \in 0 .. m - 1 : h[i] = g[i]
      BY <1>1
  <2> HIDE DEF h
  <2>3. ASSUME NEW i \in 0 .. m PROVE h[i] = WriteBody(h[i - 1], i)
    <3>1. i \in 0 .. Depth /\ (i > 0 => i - 1 \in 0 .. m - 1)
        BY <1>1
    <3>2. i > 0 => g[i - 1] = h[i - 1]
        BY <2>2, <3>1
    <3>3. WriteBody(g[i - 1], i) = WriteBody(h[i - 1], i)
        BY <1>2, <3>1, <3>2
    <3>4. i = m \/ i \in 0 .. m - 1
        OBVIOUS
    <3> QED
        BY <2>1, <2>2, <3>3, <3>4
  <2> QED
      BY <2>3
<1>4. Depth \in T
  <2> HIDE DEF T
  <2>1. 0 \in Nat /\ Depth \in 0 .. Depth
      BY <1>1
  <2>2. \A m \in 0 .. Depth : m \in T
      BY ONLY <1>1, <1>3, <2>1, UpTo
  <2> QED
      BY <2>1, <2>2
<1>5. \E f : Whole(f)
  <2>1. PICK g : \A i \in 0 .. Depth : g[i] = WriteBody(g[i - 1], i)
      BY <1>4
  <2> DEFINE f == [i \in 0 .. Depth |-> g[i]]
  <2>2. \A i \in 0 .. Depth : f[i] = g[i]
      OBVIOUS
  <2>3. f = [i \in 0 .. Depth |-> f[i]]
      OBVIOUS
  <2> HIDE DEF f
  <2>4. \A i \in 0 .. Depth : f[i] = WriteBody(f[i - 1], i)
    <3> SUFFICES ASSUME NEW i \in 0 .. Depth PROVE f[i] = WriteBody(f[i - 1], i)
        OBVIOUS
    <3>1. i > 0 => i - 1 \in 0 .. Depth
        BY <1>1
    <3>2. i > 0 => g[i - 1] = f[i - 1]
        BY <2>2, <3>1
    <3>3. WriteBody(g[i - 1], i) = WriteBody(f[i - 1], i)
        BY <1>2, <3>2
    <3> QED
        BY <2>1, <2>2, <3>3
  <2> QED
      BY <2>3, <2>4
<1>6. WriteAt = CHOOSE f : Whole(f)
    BY DEF WriteAt, WriteBody
<1> DEFINE w == WriteAt
<1>7. Whole(w)
    BY <1>5, <1>6
<1> HIDE DEF w
<1>8. \A d \in 0 .. Depth : w[d] = WriteBody(w[d - 1], d)
    BY <1>7
<1> QED
    BY <1>8 DEF w

LEMMA ReadBodyLow ==
    ASSUME NEW G, NEW H
    PROVE  ReadBody(G, 0) = ReadBody(H, 0)
<1>1. \A f \in Fields[0] : f.kind # "struct"
    BY LowFields
<1> QED
    BY <1>1 DEF ReadBody, ReadOf

LEMMA ReadAtIs == \A d \in 0 .. Depth : ReadAt[d] = ReadBody(ReadAt[d - 1], d)
<1> DEFINE Whole(f) == f = [d \in 0 .. Depth |-> ReadBody(f[d - 1], d)]
           P(m) == \E g : \A i \in 0 .. m : g[i] = ReadBody(g[i - 1], i)
           T == {m \in 0 .. Depth : P(m)}
<1>1. Depth \in Nat
    BY FieldsAssumption
<1>2. ASSUME NEW g, NEW h, NEW i \in 0 .. Depth, i > 0 => g[i - 1] = h[i - 1]
      PROVE  ReadBody(g[i - 1], i) = ReadBody(h[i - 1], i)
  <2>1. CASE i = 0
      BY <2>1, ReadBodyLow
  <2>2. CASE i # 0
    <3>1. g[i - 1] = h[i - 1]
        BY <1>2, <2>2
    <3> QED
        BY <3>1
  <2> QED
      BY <2>1, <2>2
<1>3. \A m \in 0 .. Depth : (\A j \in 0 .. m - 1 : j \in T) => m \in T
  <2> SUFFICES ASSUME NEW m \in 0 .. Depth, \A j \in 0 .. m - 1 : j \in T PROVE P(m)
      OBVIOUS
  <2>1. PICK g : \A i \in 0 .. m - 1 : g[i] = ReadBody(g[i - 1], i)
    <3>1. CASE m = 0
      <4>1. 0 .. m - 1 = {}
          BY <3>1
      <4> QED
          BY <4>1
    <3>2. CASE m # 0
      <4>1. m - 1 \in 0 .. m - 1
          BY <3>2
      <4> QED
          BY <4>1
    <3> QED
        BY <3>1, <3>2
  <2> DEFINE h == [i \in 0 .. Depth |-> IF i = m THEN ReadBody(g[m - 1], m) ELSE g[i]]
  <2>2. /\ h[m] = ReadBody(g[m - 1], m)
        /\ \A i \in 0 .. m - 1 : h[i] = g[i]
      BY <1>1
  <2> HIDE DEF h
  <2>3. ASSUME NEW i \in 0 .. m PROVE h[i] = ReadBody(h[i - 1], i)
    <3>1. i \in 0 .. Depth /\ (i > 0 => i - 1 \in 0 .. m - 1)
        BY <1>1
    <3>2. i > 0 => g[i - 1] = h[i - 1]
        BY <2>2, <3>1
    <3>3. ReadBody(g[i - 1], i) = ReadBody(h[i - 1], i)
        BY <1>2, <3>1, <3>2
    <3>4. i = m \/ i \in 0 .. m - 1
        OBVIOUS
    <3> QED
        BY <2>1, <2>2, <3>3, <3>4
  <2> QED
      BY <2>3
<1>4. Depth \in T
  <2> HIDE DEF T
  <2>1. 0 \in Nat /\ Depth \in 0 .. Depth
      BY <1>1
  <2>2. \A m \in 0 .. Depth : m \in T
      BY ONLY <1>1, <1>3, <2>1, UpTo
  <2> QED
      BY <2>1, <2>2
<1>5. \E f : Whole(f)
  <2>1. PICK g : \A i \in 0 .. Depth : g[i] = ReadBody(g[i - 1], i)
      BY <1>4
  <2> DEFINE f == [i \in 0 .. Depth |-> g[i]]
  <2>2. \A i \in 0 .. Depth : f[i] = g[i]
      OBVIOUS
  <2>3. f = [i \in 0 .. Depth |-> f[i]]
      OBVIOUS
  <2> HIDE DEF f
  <2>4. \A i \in 0 .. Depth : f[i] = ReadBody(f[i - 1], i)
    <3> SUFFICES ASSUME NEW i \in 0 .. Depth PROVE f[i] = ReadBody(f[i - 1], i)
        OBVIOUS
    <3>1. i > 0 => i - 1 \in 0 .. Depth
        BY <1>1
    <3>2. i > 0 => g[i - 1] = f[i - 1]
        BY <2>2, <3>1
    <3>3. ReadBody(g[i - 1], i) = ReadBody(f[i - 1], i)
        BY <1>2, <3>2
    <3> QED
        BY <2>1, <2>2, <3>3
  <2> QED
      BY <2>3, <2>4
<1>6. ReadAt = CHOOSE f : Whole(f)
    BY DEF ReadAt, ReadBody
<1> DEFINE w == ReadAt
<1>7. Whole(w)
    BY <1>5, <1>6
<1> HIDE DEF w
<1>8. \A d \in 0 .. Depth : w[d] = ReadBody(w[d - 1], d)
    BY <1>7
<1> QED
    BY <1>8 DEF w

LEMMA ValueBodyLow ==
    ASSUME NEW G, NEW H
    PROVE  ValueBody(G, 0) = ValueBody(H, 0)
<1>1. \A f \in Fields[0] : f.kind # "struct"
    BY LowFields
<1> QED
    BY <1>1 DEF ValueBody, ValueIn

LEMMA ValueAtIs == \A d \in 0 .. Depth : ValueAt[d] = ValueBody(ValueAt[d - 1], d)
<1> DEFINE Whole(f) == f = [d \in 0 .. Depth |-> ValueBody(f[d - 1], d)]
           P(m) == \E g : \A i \in 0 .. m : g[i] = ValueBody(g[i - 1], i)
           T == {m \in 0 .. Depth : P(m)}
<1>1. Depth \in Nat
    BY FieldsAssumption
<1>2. ASSUME NEW g, NEW h, NEW i \in 0 .. Depth, i > 0 => g[i - 1] = h[i - 1]
      PROVE  ValueBody(g[i - 1], i) = ValueBody(h[i - 1], i)
  <2>1. CASE i = 0
      BY <2>1, ValueBodyLow
  <2>2. CASE i # 0
    <3>1. g[i - 1] = h[i - 1]
        BY <1>2, <2>2
    <3> QED
        BY <3>1
  <2> QED
      BY <2>1, <2>2
<1>3. \A m \in 0 .. Depth : (\A j \in 0 .. m - 1 : j \in T) => m \in T
  <2> SUFFICES ASSUME NEW m \in 0 .. Depth, \A j \in 0 .. m - 1 : j \in T PROVE P(m)
      OBVIOUS
  <2>1. PICK g : \A i \in 0 .. m - 1 : g[i] = ValueBody(g[i - 1], i)
    <3>1. CASE m = 0
      <4>1. 0 .. m - 1 = {}
          BY <3>1
      <4> QED
          BY <4>1
    <3>2. CASE m # 0
      <4>1. m - 1 \in 0 .. m - 1
          BY <3>2
      <4> QED
          BY <4>1
    <3> QED
        BY <3>1, <3>2
  <2> DEFINE h == [i \in 0 .. Depth |-> IF i = m THEN ValueBody(g[m - 1], m) ELSE g[i]]
  <2>2. /\ h[m] = ValueBody(g[m - 1], m)
        /\ \A i \in 0 .. m - 1 : h[i] = g[i]
      BY <1>1
  <2> HIDE DEF h
  <2>3. ASSUME NEW i \in 0 .. m PROVE h[i] = ValueBody(h[i - 1], i)
    <3>1. i \in 0 .. Depth /\ (i > 0 => i - 1 \in 0 .. m - 1)
        BY <1>1
    <3>2. i > 0 => g[i - 1] = h[i - 1]
        BY <2>2, <3>1
    <3>3. ValueBody(g[i - 1], i) = ValueBody(h[i - 1], i)
        BY <1>2, <3>1, <3>2
    <3>4. i = m \/ i \in 0 .. m - 1
        OBVIOUS
    <3> QED
        BY <2>1, <2>2, <3>3, <3>4
  <2> QED
      BY <2>3
<1>4. Depth \in T
  <2> HIDE DEF T
  <2>1. 0 \in Nat /\ Depth \in 0 .. Depth
      BY <1>1
  <2>2. \A m \in 0 .. Depth : m \in T
      BY ONLY <1>1, <1>3, <2>1, UpTo
  <2> QED
      BY <2>1, <2>2
<1>5. \E f : Whole(f)
  <2>1. PICK g : \A i \in 0 .. Depth : g[i] = ValueBody(g[i - 1], i)
      BY <1>4
  <2> DEFINE f == [i \in 0 .. Depth |-> g[i]]
  <2>2. \A i \in 0 .. Depth : f[i] = g[i]
      OBVIOUS
  <2>3. f = [i \in 0 .. Depth |-> f[i]]
      OBVIOUS
  <2> HIDE DEF f
  <2>4. \A i \in 0 .. Depth : f[i] = ValueBody(f[i - 1], i)
    <3> SUFFICES ASSUME NEW i \in 0 .. Depth PROVE f[i] = ValueBody(f[i - 1], i)
        OBVIOUS
    <3>1. i > 0 => i - 1 \in 0 .. Depth
        BY <1>1
    <3>2. i > 0 => g[i - 1] = f[i - 1]
        BY <2>2, <3>1
    <3>3. ValueBody(g[i - 1], i) = ValueBody(f[i - 1], i)
        BY <1>2, <3>2
    <3> QED
        BY <2>1, <2>2, <3>3
  <2> QED
      BY <2>3, <2>4
<1>6. ValueAt = CHOOSE f : Whole(f)
    BY DEF ValueAt, ValueBody
<1> DEFINE w == ValueAt
<1>7. Whole(w)
    BY <1>5, <1>6
<1> HIDE DEF w
<1>8. \A d \in 0 .. Depth : w[d] = ValueBody(w[d - 1], d)
    BY <1>7
<1> QED
    BY <1>8 DEF w

LEMMA PartsBodyLow ==
    ASSUME NEW G, NEW H
    PROVE  PartsBody(G, 0) = PartsBody(H, 0)
<1>1. \A f \in Fields[0] : f.kind # "struct"
    BY LowFields
<1> QED
    BY <1>1 DEF PartsBody

LEMMA PartsAtIs == \A d \in 0 .. Depth : PartsAt[d] = PartsBody(PartsAt[d - 1], d)
<1> DEFINE Whole(f) == f = [d \in 0 .. Depth |-> PartsBody(f[d - 1], d)]
           P(m) == \E g : \A i \in 0 .. m : g[i] = PartsBody(g[i - 1], i)
           T == {m \in 0 .. Depth : P(m)}
<1>1. Depth \in Nat
    BY FieldsAssumption
<1>2. ASSUME NEW g, NEW h, NEW i \in 0 .. Depth, i > 0 => g[i - 1] = h[i - 1]
      PROVE  PartsBody(g[i - 1], i) = PartsBody(h[i - 1], i)
  <2>1. CASE i = 0
      BY <2>1, PartsBodyLow
  <2>2. CASE i # 0
    <3>1. g[i - 1] = h[i - 1]
        BY <1>2, <2>2
    <3> QED
        BY <3>1
  <2> QED
      BY <2>1, <2>2
<1>3. \A m \in 0 .. Depth : (\A j \in 0 .. m - 1 : j \in T) => m \in T
  <2> SUFFICES ASSUME NEW m \in 0 .. Depth, \A j \in 0 .. m - 1 : j \in T PROVE P(m)
      OBVIOUS
  <2>1. PICK g : \A i \in 0 .. m - 1 : g[i] = PartsBody(g[i - 1], i)
    <3>1. CASE m = 0
      <4>1. 0 .. m - 1 = {}
          BY <3>1
      <4> QED
          BY <4>1
    <3>2. CASE m # 0
      <4>1. m - 1 \in 0 .. m - 1
          BY <3>2
      <4> QED
          BY <4>1
    <3> QED
        BY <3>1, <3>2
  <2> DEFINE h == [i \in 0 .. Depth |-> IF i = m THEN PartsBody(g[m - 1], m) ELSE g[i]]
  <2>2. /\ h[m] = PartsBody(g[m - 1], m)
        /\ \A i \in 0 .. m - 1 : h[i] = g[i]
      BY <1>1
  <2> HIDE DEF h
  <2>3. ASSUME NEW i \in 0 .. m PROVE h[i] = PartsBody(h[i - 1], i)
    <3>1. i \in 0 .. Depth /\ (i > 0 => i - 1 \in 0 .. m - 1)
        BY <1>1
    <3>2. i > 0 => g[i - 1] = h[i - 1]
        BY <2>2, <3>1
    <3>3. PartsBody(g[i - 1], i) = PartsBody(h[i - 1], i)
        BY <1>2, <3>1, <3>2
    <3>4. i = m \/ i \in 0 .. m - 1
        OBVIOUS
    <3> QED
        BY <2>1, <2>2, <3>3, <3>4
  <2> QED
      BY <2>3
<1>4. Depth \in T
  <2> HIDE DEF T
  <2>1. 0 \in Nat /\ Depth \in 0 .. Depth
      BY <1>1
  <2>2. \A m \in 0 .. Depth : m \in T
      BY ONLY <1>1, <1>3, <2>1, UpTo
  <2> QED
      BY <2>1, <2>2
<1>5. \E f : Whole(f)
  <2>1. PICK g : \A i \in 0 .. Depth : g[i] = PartsBody(g[i - 1], i)
      BY <1>4
  <2> DEFINE f == [i \in 0 .. Depth |-> g[i]]
  <2>2. \A i \in 0 .. Depth : f[i] = g[i]
      OBVIOUS
  <2>3. f = [i \in 0 .. Depth |-> f[i]]
      OBVIOUS
  <2> HIDE DEF f
  <2>4. \A i \in 0 .. Depth : f[i] = PartsBody(f[i - 1], i)
    <3> SUFFICES ASSUME NEW i \in 0 .. Depth PROVE f[i] = PartsBody(f[i - 1], i)
        OBVIOUS
    <3>1. i > 0 => i - 1 \in 0 .. Depth
        BY <1>1
    <3>2. i > 0 => g[i - 1] = f[i - 1]
        BY <2>2, <3>1
    <3>3. PartsBody(g[i - 1], i) = PartsBody(f[i - 1], i)
        BY <1>2, <3>2
    <3> QED
        BY <2>1, <2>2, <3>3
  <2> QED
      BY <2>3, <2>4
<1>6. PartsAt = CHOOSE f : Whole(f)
    BY DEF PartsAt, PartsBody
<1> DEFINE w == PartsAt
<1>7. Whole(w)
    BY <1>5, <1>6
<1> HIDE DEF w
<1>8. \A d \in 0 .. Depth : w[d] = PartsBody(w[d - 1], d)
    BY <1>7
<1> QED
    BY <1>8 DEF w
-----------------------------------------------------------------------------
(***************************************************************************)
(* The loops of skipField and skipToStructEnd                              *)
(***************************************************************************)
\* A stream between two calls.
At(b, p) == Good(b, p, 0, 0, 0, << >>)

LEMMA Forgotten ==
    ASSUME NEW b, NEW q, NEW t, NEW g, NEW l, NEW v
    PROVE  Forget(Good(b, q, t, g, l, v)) = At(b, q)
<1>1. [Good(b, q, t, g, l, v) EXCEPT !.type = 0] = Good(b, q, 0, g, l, v)
    BY DEF Good
<1>2. [Good(b, q, 0, g, l, v) EXCEPT !.tag = 0] = Good(b, q, 0, 0, l, v)
    BY DEF Good
<1>3. [Good(b, q, 0, 0, l, v) EXCEPT !.len = 0] = Good(b, q, 0, 0, 0, v)
    BY DEF Good
<1>4. [Good(b, q, 0, 0, 0, v) EXCEPT !.val = << >>] = Good(b, q, 0, 0, 0, << >>)
    BY DEF Good
<1> QED
    BY <1>1, <1>2, <1>3, <1>4 DEF Forget, At

LEMMA ForgetYields ==
    ASSUME NEW s, NEW b, NEW q, NEW v, Yields(s, b, q, v)
    PROVE  Forget(s) = At(b, q) /\ s.st = "good" /\ s.val = v /\ s.pos = q /\ s.buf = b
<1>1. PICK t, g, l : s = Good(b, q, t, g, l, v)
    BY DEF Yields
<1> QED
    BY <1>1, Forgotten, GoodStream

LEMMA AtIsStream ==
    ASSUME NEW b \in Seq(Byte), NEW p \in Nat
    PROVE  /\ At(b, p) \in Streams /\ Forget(At(b, p)) = At(b, p)
           /\ At(b, p).st = "good" /\ At(b, p).buf = b /\ At(b, p).pos = p
<1>1. Forget(At(b, p)) = At(b, p)
    BY Forgotten DEF At
<1> QED
    BY <1>1 DEF At, Good, Streams

\* A stack of loop counts.
LEMMA StackIs ==
    ASSUME NEW n \in Int, NEW rest \in Seq(Int)
    PROVE  /\ <<n>> \o rest \in Seq(Int) /\ <<n>> \o rest # << >>
           /\ Head(<<n>> \o rest) = n /\ Tail(<<n>> \o rest) = rest
    OBVIOUS

\* k passes lead from r to r2.
SkipRun(lang, g, k) == \A i \in 1 .. k : g[i] = SkipPass1(lang, g[i - 1])
Goes(lang, r, r2, k) == \E g : g[0] = r /\ g[k] = r2 /\ SkipRun(lang, g, k)

LEMMA GoesNowhere ==
    ASSUME NEW lang, NEW r
    PROVE  Goes(lang, r, r, 0)
<1> DEFINE g == [i \in 0 .. 0 |-> r]
<1>1. g[0] = r /\ 1 .. 0 = {}
    OBVIOUS
<1> HIDE DEF g
<1> QED
    BY <1>1 DEF Goes, SkipRun

LEMMA GoesOnce ==
    ASSUME NEW lang, NEW r
    PROVE  Goes(lang, r, SkipPass1(lang, r), 1)
<1> DEFINE q == SkipPass1(lang, r)
           g == [i \in 0 .. 1 |-> IF i = 0 THEN r ELSE q]
<1>1. g[0] = r /\ g[1] = q
    OBVIOUS
<1> HIDE DEF g
<1>2. ASSUME NEW i \in 1 .. 1 PROVE g[i] = SkipPass1(lang, g[i - 1])
  <2>1. i = 1 /\ i - 1 = 0
      OBVIOUS
  <2> QED
      BY <1>1, <2>1
<1> QED
    BY <1>1, <1>2 DEF Goes, SkipRun

LEMMA GoesOn ==
    ASSUME NEW lang, NEW r, NEW r2, NEW r3, NEW k \in Nat, NEW m \in Nat,
           Goes(lang, r, r2, k), Goes(lang, r2, r3, m)
    PROVE  Goes(lang, r, r3, k + m)
<1>1. PICK g : g[0] = r /\ g[k] = r2 /\ SkipRun(lang, g, k)
    BY DEF Goes
<1>2. PICK h : h[0] = r2 /\ h[m] = r3 /\ SkipRun(lang, h, m)
    BY DEF Goes
<1> DEFINE j == [i \in 0 .. k + m |-> IF i <= k THEN g[i] ELSE h[i - k]]
<1>3. /\ \A i \in 0 .. k : j[i] = g[i]
      /\ \A i \in k + 1 .. k + m : j[i] = h[i - k]
    OBVIOUS
<1> HIDE DEF j
<1>4. \A i \in k .. k + m : j[i] = h[i - k]
  <2> SUFFICES ASSUME NEW i \in k .. k + m PROVE j[i] = h[i - k]
      OBVIOUS
  <2>1. CASE i = k
    <3>1. k \in 0 .. k /\ k - k = 0
        OBVIOUS
    <3> QED
        BY <1>1, <1>2, <1>3, <2>1, <3>1
  <2>2. CASE i # k
    <3>1. i \in k + 1 .. k + m
        BY <2>2
    <3> QED
        BY <1>3, <3>1
  <2> QED
      BY <2>1, <2>2
<1>5. ASSUME NEW i \in 1 .. k + m PROVE j[i] = SkipPass1(lang, j[i - 1])
  <2>1. CASE i <= k
    <3>1. i \in 0 .. k /\ i - 1 \in 0 .. k /\ i \in 1 .. k
        BY <2>1
    <3> QED
        BY <1>1, <1>3, <3>1 DEF SkipRun
  <2>2. CASE ~ (i <= k)
    <3>1. i \in k .. k + m /\ i - 1 \in k .. k + m /\ i - k \in 1 .. m /\ (i - k) - 1 = (i - 1) - k
        BY <2>2
    <3> QED
        BY <1>2, <1>4, <3>1 DEF SkipRun
  <2> QED
      BY <2>1, <2>2
<1>6. 0 \in 0 .. k /\ k + m \in k .. k + m /\ (k + m) - k = m
    OBVIOUS
<1> QED
    BY <1>1, <1>2, <1>3, <1>4, <1>5, <1>6 DEF Goes, SkipRun

\* A run is what its passes make it; it stays where there is nothing to skip.
LEMMA RunGoes ==
    ASSUME NEW lang, NEW g, NEW n \in Nat, SkipRun(lang, g, n),
           NEW s, NEW k \in 0 .. n, Goes(lang, g[0], [s |-> s, todo |-> << >>], k)
    PROVE  g[n] = [s |-> s, todo |-> << >>]
<1> DEFINE e == [s |-> s, todo |-> << >>]
<1>1. PICK h : h[0] = g[0] /\ h[k] = e /\ SkipRun(lang, h, k)
    BY DEF Goes
<1>2. SkipPass1(lang, e) = e
    BY DEF SkipPass1
<1> HIDE DEF e
<1> DEFINE T == {i \in 0 .. k : g[i] = h[i]}
<1>3. k \in T
  <2>1. \A i \in 0 .. k : (\A j \in 0 .. i - 1 : j \in T) => i \in T
    <3> SUFFICES ASSUME NEW i \in 0 .. k, \A j \in 0 .. i - 1 : j \in T PROVE g[i] = h[i]
        OBVIOUS
    <3>1. CASE i = 0
        BY <1>1, <3>1
    <3>2. CASE i # 0
      <4>1. i - 1 \in 0 .. i - 1 /\ i \in 1 .. k /\ i \in 1 .. n
          BY <3>2
      <4>2. g[i - 1] = h[i - 1]
          BY <4>1
      <4> QED
          BY <1>1, <4>1, <4>2 DEF SkipRun
    <3> QED
        BY <3>1, <3>2
  <2> HIDE DEF T
  <2>2. 0 \in Nat /\ k \in Nat /\ k \in 0 .. k
      OBVIOUS
  <2>3. \A i \in 0 .. k : i \in T
      BY ONLY <2>1, <2>2, UpTo
  <2> QED
      BY <2>2, <2>3
<1> DEFINE U == {i \in k .. n : g[i] = e}
<1>4. n \in U
  <2>1. \A i \in k .. n : (\A j \in k .. i - 1 : j \in U) => i \in U
    <3> SUFFICES ASSUME NEW i \in k .. n, \A j \in k .. i - 1 : j \in U PROVE g[i] = e
        OBVIOUS
    <3>1. CASE i = k
        BY <1>1, <1>3, <3>1
    <3>2. CASE i # k
      <4>1. i - 1 \in k .. i - 1 /\ i \in 1 .. n
          BY <3>2
      <4>2. g[i - 1] = e
          BY <4>1
      <4> QED
          BY <1>2, <4>1, <4>2 DEF SkipRun
    <3> QED
        BY <3>1, <3>2
  <2> HIDE DEF U
  <2>2. k \in Nat /\ n \in Nat /\ n \in k .. n
      OBVIOUS
  <2>3. \A i \in k .. n : i \in U
      BY ONLY <2>1, <2>2, UpTo
  <2> QED
      BY <2>2, <2>3
<1> QED
    BY <1>4 DEF e

\* The passes that SkipMany makes.
LEMMA SkipManyRuns ==
    ASSUME NEW lang, NEW s, NEW n, Passes(s) \in Nat
    PROVE  \E g : /\ \A i \in 0 .. Passes(s) : g[i] = IF i = 0 THEN [s |-> Forget(s), todo |-> <<n>>] ELSE SkipPass1(lang, g[i - 1])
                 /\ SkipMany(lang, s, n) = SkipEnds(g[Passes(s)])
<1> DEFINE m == Passes(s)
           Body(g, i) == IF i = 0 THEN [s |-> Forget(s), todo |-> <<n>>] ELSE SkipPass1(lang, g[i - 1])
           Whole(f) == f = [i \in 0 .. m |-> Body(f, i)]
           f1 == CHOOSE f : Whole(f)
           P(l) == \E g : \A i \in 0 .. l : g[i] = Body(g, i)
           T == {l \in 0 .. m : P(l)}
<1>1. m \in Nat
    OBVIOUS
<1>2. SkipMany(lang, s, n) = SkipEnds(f1[m])
    BY DEF SkipMany
<1> HIDE DEF m
<1>3. ASSUME NEW g, NEW h, NEW i \in 0 .. m, i > 0 => g[i - 1] = h[i - 1]
      PROVE  Body(g, i) = Body(h, i)
  <2>1. i = 0 \/ g[i - 1] = h[i - 1]
      BY <1>3
  <2> QED
      BY <2>1
<1> HIDE DEF Body
<1>4. \A l \in 0 .. m : (\A j \in 0 .. l - 1 : j \in T) => l \in T
  <2> SUFFICES ASSUME NEW l \in 0 .. m, \A j \in 0 .. l - 1 : j \in T PROVE P(l)
      OBVIOUS
  <2>1. PICK g : \A i \in 0 .. l - 1 : g[i] = Body(g, i)
    <3>1. CASE l = 0
      <4>1. 0 .. l - 1 = {}
          BY <3>1
      <4> QED
          BY <4>1
    <3>2. CASE l # 0
      <4>1. l - 1 \in 0 .. l - 1
          BY <3>2
      <4> QED
          BY <4>1
    <3> QED
        BY <3>1, <3>2
  <2> DEFINE h == [i \in 0 .. m |-> IF i = l THEN Body(g, l) ELSE g[i]]
  <2>2. h[l] = Body(g, l) /\ \A i \in 0 .. l - 1 : h[i] = g[i]
      BY <1>1
  <2> HIDE DEF h
  <2>3. ASSUME NEW i \in 0 .. l PROVE h[i] = Body(h, i)
    <3>1. i \in 0 .. m /\ (i > 0 => i - 1 \in 0 .. l - 1)
        BY <1>1
    <3>2. i > 0 => g[i - 1] = h[i - 1]
        BY <2>2, <3>1
    <3>3. Body(g, i) = Body(h, i)
        BY <1>3, <3>1, <3>2
    <3>4. i = l \/ i \in 0 .. l - 1
        OBVIOUS
    <3> QED
        BY <2>1, <2>2, <3>3, <3>4
  <2> QED
      BY <2>3
<1>5. m \in T
  <2> HIDE DEF T
  <2>1. 0 \in Nat /\ m \in 0 .. m
      BY <1>1
  <2>2. \A l \in 0 .. m : l \in T
      BY ONLY <1>1, <1>4, <2>1, UpTo
  <2> QED
      BY <2>1, <2>2
<1>6. \E f : Whole(f)
  <2>1. PICK g : \A i \in 0 .. m : g[i] = Body(g, i)
      BY <1>5
  <2> DEFINE f == [i \in 0 .. m |-> g[i]]
  <2>2. (\A i \in 0 .. m : f[i] = g[i]) /\ f = [i \in 0 .. m |-> f[i]]
      OBVIOUS
  <2> HIDE DEF f
  <2>3. \A i \in 0 .. m : f[i] = Body(f, i)
    <3> SUFFICES ASSUME NEW i \in 0 .. m PROVE f[i] = Body(f, i)
        OBVIOUS
    <3>1. i > 0 => i - 1 \in 0 .. m
        BY <1>1
    <3>2. i > 0 => g[i - 1] = f[i - 1]
        BY <2>2, <3>1
    <3>3. Body(g, i) = Body(f, i)
        BY <1>3, <3>2
    <3> QED
        BY <2>1, <2>2, <3>3
  <2> QED
      BY <2>2, <2>3
<1>7. Whole(f1)
    BY <1>6
<1> DEFINE k == f1
<1>8. \A i \in 0 .. m : k[i] = Body(k, i)
  <2> HIDE DEF f1
  <2> QED
      BY <1>7
<1>9. SkipMany(lang, s, n) = SkipEnds(k[m])
    BY <1>2
<1> HIDE DEF k
<1> QED
    BY <1>8, <1>9 DEF m, Body

\* Skipping ends where the passes have led to when nothing is left to skip.
LEMMA SkipManyGoes ==
    ASSUME NEW lang, NEW s, NEW n, Passes(s) \in Nat, NEW t,
           NEW k \in 0 .. Passes(s),
           Goes(lang, [s |-> Forget(s), todo |-> <<n>>], [s |-> t, todo |-> << >>], k)
    PROVE  SkipMany(lang, s, n) = t
<1> DEFINE r == [s |-> Forget(s), todo |-> <<n>>]
           m == Passes(s)
<1>1. PICK g : /\ \A i \in 0 .. m : g[i] = IF i = 0 THEN r ELSE SkipPass1(lang, g[i - 1])
               /\ SkipMany(lang, s, n) = SkipEnds(g[m])
    BY SkipManyRuns
<1> HIDE DEF r, m
<1>2. m \in Nat /\ k \in 0 .. m /\ Goes(lang, r, [s |-> t, todo |-> << >>], k)
    BY DEF r, m
<1>3. g[0] = r /\ SkipRun(lang, g, m)
    BY <1>1, <1>2 DEF SkipRun
<1>4. g[m] = [s |-> t, todo |-> << >>]
    BY <1>2, <1>3, RunGoes
<1> QED
    BY <1>1, <1>4 DEF SkipEnds

-----------------------------------------------------------------------------
(***************************************************************************)
(* Fields read one after the other                                         *)
(***************************************************************************)
\* The passes that FindTag makes.
LEMMA FindTagRuns ==
    ASSUME NEW lang, NEW s, NEW tag, Passes(s) \in Nat
    PROVE  \E g : /\ \A i \in 0 .. Passes(s) : g[i] = IF i = 0 THEN [s |-> s, res |-> "more"] ELSE PassOn(lang, g[i - 1], tag)
                 /\ FindTag(lang, s, tag) = FindEnds(s, g[Passes(s)])
<1> DEFINE m == Passes(s)
           Body(g, i) == IF i = 0 THEN [s |-> s, res |-> "more"] ELSE PassOn(lang, g[i - 1], tag)
           Whole(f) == f = [i \in 0 .. m |-> Body(f, i)]
           f1 == CHOOSE f : Whole(f)
           P(l) == \E g : \A i \in 0 .. l : g[i] = Body(g, i)
           T == {l \in 0 .. m : P(l)}
<1>1. m \in Nat
    OBVIOUS
<1>2. FindTag(lang, s, tag) = FindEnds(s, f1[m])
    BY DEF FindTag
<1> HIDE DEF m
<1>3. ASSUME NEW g, NEW h, NEW i \in 0 .. m, i > 0 => g[i - 1] = h[i - 1]
      PROVE  Body(g, i) = Body(h, i)
  <2>1. i = 0 \/ g[i - 1] = h[i - 1]
      BY <1>3
  <2> QED
      BY <2>1
<1> HIDE DEF Body
<1>4. \A l \in 0 .. m : (\A j \in 0 .. l - 1 : j \in T) => l \in T
  <2> SUFFICES ASSUME NEW l \in 0 .. m, \A j \in 0 .. l - 1 : j \in T PROVE P(l)
      OBVIOUS
  <2>1. PICK g : \A i \in 0 .. l - 1 : g[i] = Body(g, i)
    <3>1. CASE l = 0
      <4>1. 0 .. l - 1 = {}
          BY <3>1
      <4> QED
          BY <4>1
    <3>2. CASE l # 0
      <4>1. l - 1 \in 0 .. l - 1
          BY <3>2
      <4> QED
          BY <4>1
    <3> QED
        BY <3>1, <3>2
  <2> DEFINE h == [i \in 0 .. m |-> IF i = l THEN Body(g, l) ELSE g[i]]
  <2>2. h[l] = Body(g, l) /\ \A i \in 0 .. l - 1 : h[i] = g[i]
      BY <1>1
  <2> HIDE DEF h
  <2>3. ASSUME NEW i \in 0 .. l PROVE h[i] = Body(h, i)
    <3>1. i \in 0 .. m /\ (i > 0 => i - 1 \in 0 .. l - 1)
        BY <1>1
    <3>2. i > 0 => g[i - 1] = h[i - 1]
        BY <2>2, <3>1
    <3>3. Body(g, i) = Body(h, i)
        BY <1>3, <3>1, <3>2
    <3>4. i = l \/ i \in 0 .. l - 1
        OBVIOUS
    <3> QED
        BY <2>1, <2>2, <3>3, <3>4
  <2> QED
      BY <2>3
<1>5. m \in T
  <2> HIDE DEF T
  <2>1. 0 \in Nat /\ m \in 0 .. m
      BY <1>1
  <2>2. \A l \in 0 .. m : l \in T
      BY ONLY <1>1, <1>4, <2>1, UpTo
  <2> QED
      BY <2>1, <2>2
<1>6. \E f : Whole(f)
  <2>1. PICK g : \A i \in 0 .. m : g[i] = Body(g, i)
      BY <1>5
  <2> DEFINE f == [i \in 0 .. m |-> g[i]]
  <2>2. (\A i \in 0 .. m : f[i] = g[i]) /\ f = [i \in 0 .. m |-> f[i]]
      OBVIOUS
  <2> HIDE DEF f
  <2>3. \A i \in 0 .. m : f[i] = Body(f, i)
    <3> SUFFICES ASSUME NEW i \in 0 .. m PROVE f[i] = Body(f, i)
        OBVIOUS
    <3>1. i > 0 => i - 1 \in 0 .. m
        BY <1>1
    <3>2. i > 0 => g[i - 1] = f[i - 1]
        BY <2>2, <3>1
    <3>3. Body(g, i) = Body(f, i)
        BY <1>3, <3>2
    <3> QED
        BY <2>1, <2>2, <3>3
  <2> QED
      BY <2>2, <2>3
<1>7. Whole(f1)
    BY <1>6
<1> DEFINE k == f1
<1>8. \A i \in 0 .. m : k[i] = Body(k, i)
  <2> HIDE DEF f1
  <2> QED
      BY <1>7
<1>9. FindTag(lang, s, tag) = FindEnds(s, k[m])
    BY <1>2
<1> HIDE DEF k
<1> QED
    BY <1>8, <1>9 DEF m, Body

\* The fields that ReadEach reads.
LEMMA ReadEachRuns ==
    ASSUME NEW lang, NEW s, NEW fs, NEW one, NEW n \in Nat, Len(fs) = n
    PROVE  \E g : /\ \A i \in 0 .. n : g[i] = IF i = 0 THEN [s |-> s, vals |-> << >>] ELSE NextRead(lang, g[i - 1], fs[i], one)
                 /\ ReadEach(lang, s, fs, one) = Value(g[n].s, g[n].vals)
<1> DEFINE m == n
           Body(g, i) == IF i = 0 THEN [s |-> s, vals |-> << >>] ELSE NextRead(lang, g[i - 1], fs[i], one)
           Whole(f) == f = [i \in 0 .. m |-> Body(f, i)]
           f1 == CHOOSE f : Whole(f)
           P(l) == \E g : \A i \in 0 .. l : g[i] = Body(g, i)
           T == {l \in 0 .. m : P(l)}
<1>1. m \in Nat
    OBVIOUS
<1>2. ReadEach(lang, s, fs, one) = Value(f1[m].s, f1[m].vals)
    BY DEF ReadEach, Gathered
<1> HIDE DEF m
<1>3. ASSUME NEW g, NEW h, NEW i \in 0 .. m, i > 0 => g[i - 1] = h[i - 1]
      PROVE  Body(g, i) = Body(h, i)
  <2>1. i = 0 \/ g[i - 1] = h[i - 1]
      BY <1>3
  <2> QED
      BY <2>1
<1> HIDE DEF Body
<1>4. \A l \in 0 .. m : (\A j \in 0 .. l - 1 : j \in T) => l \in T
  <2> SUFFICES ASSUME NEW l \in 0 .. m, \A j \in 0 .. l - 1 : j \in T PROVE P(l)
      OBVIOUS
  <2>1. PICK g : \A i \in 0 .. l - 1 : g[i] = Body(g, i)
    <3>1. CASE l = 0
      <4>1. 0 .. l - 1 = {}
          BY <3>1
      <4> QED
          BY <4>1
    <3>2. CASE l # 0
      <4>1. l - 1 \in 0 .. l - 1
          BY <3>2
      <4> QED
          BY <4>1
    <3> QED
        BY <3>1, <3>2
  <2> DEFINE h == [i \in 0 .. m |-> IF i = l THEN Body(g, l) ELSE g[i]]
  <2>2. h[l] = Body(g, l) /\ \A i \in 0 .. l - 1 : h[i] = g[i]
      BY <1>1
  <2> HIDE DEF h
  <2>3. ASSUME NEW i \in 0 .. l PROVE h[i] = Body(h, i)
    <3>1. i \in 0 .. m /\ (i > 0 => i - 1 \in 0 .. l - 1)
        BY <1>1
    <3>2. i > 0 => g[i - 1] = h[i - 1]
        BY <2>2, <3>1
    <3>3. Body(g, i) = Body(h, i)
        BY <1>3, <3>1, <3>2
    <3>4. i = l \/ i \in 0 .. l - 1
        OBVIOUS
    <3> QED
        BY <2>1, <2>2, <3>3, <3>4
  <2> QED
      BY <2>3
<1>5. m \in T
  <2> HIDE DEF T
  <2>1. 0 \in Nat /\ m \in 0 .. m
      BY <1>1
  <2>2. \A l \in 0 .. m : l \in T
      BY ONLY <1>1, <1>4, <2>1, UpTo
  <2> QED
      BY <2>1, <2>2
<1>6. \E f : Whole(f)
  <2>1. PICK g : \A i \in 0 .. m : g[i] = Body(g, i)
      BY <1>5
  <2> DEFINE f == [i \in 0 .. m |-> g[i]]
  <2>2. (\A i \in 0 .. m : f[i] = g[i]) /\ f = [i \in 0 .. m |-> f[i]]
      OBVIOUS
  <2> HIDE DEF f
  <2>3. \A i \in 0 .. m : f[i] = Body(f, i)
    <3> SUFFICES ASSUME NEW i \in 0 .. m PROVE f[i] = Body(f, i)
        OBVIOUS
    <3>1. i > 0 => i - 1 \in 0 .. m
        BY <1>1
    <3>2. i > 0 => g[i - 1] = f[i - 1]
        BY <2>2, <3>1
    <3>3. Body(g, i) = Body(f, i)
        BY <1>3, <3>2
    <3> QED
        BY <2>1, <2>2, <3>3
  <2> QED
      BY <2>2, <2>3
<1>7. Whole(f1)
    BY <1>6
<1> DEFINE k == f1
<1>8. \A i \in 0 .. m : k[i] = Body(k, i)
  <2> HIDE DEF f1
  <2> QED
      BY <1>7
<1>9. ReadEach(lang, s, fs, one) = Value(k[m].s, k[m].vals)
    BY <1>2
<1> HIDE DEF k
<1> QED
    BY <1>8, <1>9 DEF m, Body

-----------------------------------------------------------------------------
(***************************************************************************)
(* Skipping over fields                                                    *)
(***************************************************************************)
NextLeft(n) == IF n = ToEnd THEN ToEnd ELSE n - 1

LeftIn(n, type, rest) ==
    IF n = ToEnd /\ type = STRUCT_END THEN rest ELSE <<NextLeft(n)>> \o rest

\* One pass, where a head is read and there is something left to skip.
PassedHere(lang, b, p, n, rest) ==
    LET h == ReadHead(lang, At(b, p))
        i == Inside(lang, h)
        r == SkipPass1(lang, [s |-> At(b, p), todo |-> <<n>> \o rest])
        left == LeftIn(n, h.type, rest)
    IN  /\ h.type \in Holders => r = [s |-> Forget(i.s), todo |-> <<i.n>> \o left]
        /\ h.type \notin Holders => r = [s |-> Forget(SkipFlat(lang, h)), todo |-> left]

LEMMA PassHere ==
    ASSUME NEW lang \in Langs, NEW b \in Seq(Byte), NEW p \in 0 .. Len(b), NEW rest \in Seq(Int),
           NEW n, n = ToEnd \/ n \in 1 .. Len(b) - p,
           ReadHead(lang, At(b, p)).st = "good"
    PROVE  PassedHere(lang, b, p, n, rest)
<1> DEFINE h == ReadHead(lang, At(b, p))
           todo == <<n>> \o rest
           s == At(b, p)
           r == [s |-> s, todo |-> todo]
           left == LeftIn(n, h.type, rest)
<1>1. n \in Int /\ n # 0 /\ ~ (n > Len(b) - p)
  <2>1. Len(b) \in Nat
      BY LenProperties
  <2> QED
      BY <2>1 DEF ToEnd
<1>2. todo # << >> /\ Head(todo) = n /\ Tail(todo) = rest
    BY <1>1, StackIs
<1>3. s.st = "good" /\ s.buf = b /\ s.pos = p
    BY AtIsStream
<1>4. left = IF n # ToEnd THEN <<n - 1>> \o Tail(todo)
             ELSE IF h.type = STRUCT_END THEN Tail(todo) ELSE todo
    BY <1>2 DEF NextLeft, LeftIn
<1> HIDE DEF todo, s, left
<1>5. r.s = s /\ r.todo = todo
    OBVIOUS
<1> HIDE DEF r
<1>6. h = ReadHead(lang, r.s) /\ h.st # "eof"
    BY <1>5 DEF s
<1> HIDE DEF h
<1>7. SkipPass1(lang, r)
        = IF h.type \in Holders
          THEN [s |-> Forget(Inside(lang, h).s), todo |-> <<Inside(lang, h).n>> \o left]
          ELSE [s |-> Forget(SkipFlat(lang, h)), todo |-> left]
  <2>1. ~ (r.s.st # "good" \/ r.todo = << >>) /\ Head(r.todo) = n /\ n # 0
      BY <1>1, <1>2, <1>3, <1>5
  <2>2. ~ (n > Len(r.s.buf) - r.s.pos \/ (n = ToEnd /\ h.st = "eof"))
      BY <1>1, <1>3, <1>5, <1>6
  <2>3. left = IF n # ToEnd THEN <<n - 1>> \o Tail(r.todo)
               ELSE IF h.type = STRUCT_END THEN Tail(r.todo) ELSE r.todo
      BY <1>4, <1>5
  <2> QED
      BY ONLY <1>6, <2>1, <2>2, <2>3, Zenon DEF SkipPass1
<1> QED
    BY <1>7, Zenon DEF PassedHere, r, s, todo, left, h

\* A loop that has run out.
LEMMA PassOut ==
    ASSUME NEW lang \in Langs, NEW b \in Seq(Byte), NEW p \in Nat, NEW rest \in Seq(Int)
    PROVE  SkipPass1(lang, [s |-> At(b, p), todo |-> <<0>> \o rest]) = [s |-> At(b, p), todo |-> rest]
<1> DEFINE todo == <<0>> \o rest
           s == At(b, p)
           r == [s |-> s, todo |-> todo]
<1>1. todo # << >> /\ Head(todo) = 0 /\ Tail(todo) = rest
    BY StackIs
<1>2. s.st = "good"
    BY AtIsStream
<1> HIDE DEF todo, s
<1>3. r.s = s /\ r.todo = todo /\ [r EXCEPT !.todo = Tail(@)] = [s |-> s, todo |-> rest]
  <2>1. r.s = s /\ r.todo = todo /\ [r EXCEPT !.todo = rest] = [s |-> s, todo |-> rest]
      OBVIOUS
  <2> HIDE DEF r
  <2> QED
      BY <1>1, <2>1
<1> HIDE DEF r
<1>4. ~ (r.s.st # "good" \/ r.todo = << >>) /\ Head(r.todo) = 0
    BY <1>1, <1>2, <1>3
<1>5. SkipPass1(lang, r) = [r EXCEPT !.todo = Tail(@)]
    BY ONLY <1>4, Zenon DEF SkipPass1
<1> QED
    BY <1>3, <1>5 DEF r, s, todo

\* The loops pass over the field whose bytes are x, wherever it stands in them.
GoesOver(lang, b, p, x) ==
    \A n : \A rest \in Seq(Int) :
      n = ToEnd \/ n \in 1 .. Len(b) - p =>
        \E k \in 1 .. Len(x) :
          Goes(lang, [s |-> At(b, p), todo |-> <<n>> \o rest],
               [s |-> At(b, p + Len(x)), todo |-> <<NextLeft(n)>> \o rest], k)

\* Sequences that lie one behind the other and are not empty leave room.
LEMMA LiesRoom ==
    ASSUME NEW b \in Seq(Byte), NEW p \in Nat, NEW n \in Nat, NEW ws \in [1 .. n -> Seq(Byte)],
           NEW st, Lies(b, p, n, ws, st), \A i \in 1 .. n : Len(ws[i]) >= 1
    PROVE  /\ \A i \in 1 .. n + 1 : st[i] \in Nat /\ p + (i - 1) <= st[i]
           /\ \A i \in 1 .. n : st[i] + Len(ws[i]) = st[i + 1] /\ Len(ws[i]) \in Nat
           /\ \A i \in 1 .. n : st[i] + ((n + 1) - i) <= Len(b)
<1>1. /\ \A i \in 1 .. n + 1 : st[i] \in Nat
      /\ st[1] = p
      /\ \A i \in 1 .. n : st[i + 1] = st[i] + Len(ws[i]) /\ Holds(b, st[i], ws[i])
    BY DEF Lies
<1>2. \A i \in 1 .. n : ws[i] \in Seq(Byte) /\ Len(ws[i]) \in Nat
    BY LenProperties
<1>3. ASSUME NEW i \in 1 .. n + 1 PROVE \A j \in i .. n + 1 : st[i] + (j - i) <= st[j]
  <2> DEFINE T == {j \in i .. n + 1 : st[i] + (j - i) <= st[j]}
  <2>1. \A j \in i .. n + 1 : (\A k \in i .. j - 1 : k \in T) => j \in T
    <3> SUFFICES ASSUME NEW j \in i .. n + 1, \A k \in i .. j - 1 : k \in T
                 PROVE  st[i] + (j - i) <= st[j]
        OBVIOUS
    <3>1. CASE j = i
        BY <1>1, <3>1
    <3>2. CASE j # i
      <4>1. j - 1 \in i .. j - 1 /\ j - 1 \in 1 .. n /\ (j - 1) + 1 = j
          BY <3>2
      <4>2. st[i] + ((j - 1) - i) <= st[j - 1]
          BY <4>1
      <4>3. st[j] = st[j - 1] + Len(ws[j - 1]) /\ Len(ws[j - 1]) >= 1 /\ Len(ws[j - 1]) \in Nat
          BY <1>1, <1>2, <4>1
      <4>4. st[i] \in Nat /\ st[j - 1] \in Nat
          BY <1>1, <4>1
      <4> QED
          BY <4>2, <4>3, <4>4
    <3> QED
        BY <3>1, <3>2
  <2> HIDE DEF T
  <2>2. i \in Nat /\ n + 1 \in Nat
      OBVIOUS
  <2>3. \A j \in i .. n + 1 : j \in T
      BY ONLY <2>1, <2>2, UpTo
  <2> QED
      BY <2>3 DEF T
<1>4. \A i \in 1 .. n + 1 : p + (i - 1) <= st[i]
  <2>1. 1 \in 1 .. n + 1
      OBVIOUS
  <2> QED
      BY <1>1, <1>3, <2>1
<1>5. ASSUME NEW i \in 1 .. n PROVE st[i] + ((n + 1) - i) <= Len(b)
  <2>1. i \in 1 .. n + 1 /\ n + 1 \in i .. n + 1 /\ n \in 1 .. n
      OBVIOUS
  <2>2. st[i] + ((n + 1) - i) <= st[n + 1]
      BY <1>3, <2>1
  <2>3. st[n + 1] <= Len(b)
      BY <1>1, <2>1 DEF Holds
  <2>4. st[i] \in Nat /\ st[n + 1] \in Nat /\ Len(b) \in Nat
      BY <1>1, <2>1, LenProperties
  <2> QED
      BY <2>2, <2>3, <2>4
<1> QED
    BY <1>1, <1>2, <1>4, <1>5

\* The loops pass over fields one behind the other.  c is the count of the
\* inner loop: all of them, or up to STRUCT_END.
LEMMA GoesOverEach ==
    ASSUME NEW lang \in Langs, NEW b \in Seq(Byte), NEW p \in Nat, NEW n \in Nat,
           NEW ws \in [1 .. n -> Seq(Byte)], NEW st, Lies(b, p, n, ws, st),
           \A i \in 1 .. n : Len(ws[i]) >= 1 /\ GoesOver(lang, b, st[i], ws[i]),
           NEW c \in {n, ToEnd}, NEW rest \in Seq(Int)
    PROVE  \E k \in 0 .. st[n + 1] - p :
             Goes(lang, [s |-> At(b, p), todo |-> <<c>> \o rest],
                  [s |-> At(b, st[n + 1]), todo |-> <<IF c = ToEnd THEN ToEnd ELSE 0>> \o rest], k)
<1> DEFINE Left(i) == IF c = ToEnd THEN ToEnd ELSE (n + 1) - i
           R(i) == [s |-> At(b, st[i]), todo |-> <<Left(i)>> \o rest]
           P(i) == \E k \in 0 .. st[i] - p : Goes(lang, R(1), R(i), k)
           T == {i \in 1 .. n + 1 : P(i)}
<1>1. /\ \A i \in 1 .. n + 1 : st[i] \in Nat /\ p + (i - 1) <= st[i]
      /\ \A i \in 1 .. n : st[i] + Len(ws[i]) = st[i + 1] /\ Len(ws[i]) \in Nat
      /\ \A i \in 1 .. n : st[i] + ((n + 1) - i) <= Len(b)
    BY LiesRoom
<1>2. \A i \in 1 .. n + 1 : (\A j \in 1 .. i - 1 : j \in T) => i \in T
  <2> SUFFICES ASSUME NEW i \in 1 .. n + 1, \A j \in 1 .. i - 1 : j \in T PROVE P(i)
      OBVIOUS
  <2>1. CASE i = 1
    <3>1. 0 \in 0 .. st[1] - p
        BY <1>1
    <3>2. Goes(lang, R(1), R(1), 0)
      <4> HIDE DEF R
      <4> QED
          BY GoesNowhere
    <3> QED
        BY <2>1, <3>1, <3>2
  <2>2. CASE i # 1
    <3> DEFINE j == i - 1
    <3>1. j \in 1 .. i - 1 /\ j \in 1 .. n /\ j + 1 = i /\ j \in 1 .. n + 1
        BY <2>2
    <3>2. PICK k \in 0 .. st[j] - p : Goes(lang, R(1), R(j), k)
        BY <3>1
    <3>3. Left(j) = ToEnd \/ Left(j) \in 1 .. Len(b) - st[j]
      <4>1. st[j] + ((n + 1) - j) <= Len(b) /\ Len(b) \in Nat /\ st[j] \in Nat
          BY <1>1, <3>1, LenProperties
      <4> QED
          BY <3>1, <4>1
    <3>4. NextLeft(Left(j)) = Left(i)
        BY <3>1 DEF NextLeft, ToEnd
    <3>5. GoesOver(lang, b, st[j], ws[j]) /\ st[j] + Len(ws[j]) = st[i]
        BY <1>1, <3>1
    <3>6. PICK m \in 1 .. Len(ws[j]) : Goes(lang, R(j), R(i), m)
      <4> HIDE DEF j, Left
      <4> QED
          BY <3>3, <3>4, <3>5 DEF GoesOver
    <3>7. k \in Nat /\ m \in Nat /\ k + m \in 0 .. st[i] - p
      <4> HIDE DEF j
      <4>1. st[j] \in Nat /\ p + (j - 1) <= st[j] /\ Len(ws[j]) \in Nat
          BY <1>1, <3>1
      <4> QED
          BY <3>1, <3>5, <4>1
    <3>8. Goes(lang, R(1), R(i), k + m)
      <4> HIDE DEF R, j
      <4> QED
          BY <3>2, <3>6, <3>7, GoesOn
    <3> QED
        BY <3>7, <3>8
  <2> QED
      BY <2>1, <2>2
<1>3. n + 1 \in T
  <2> HIDE DEF T
  <2>1. 1 \in Nat /\ n + 1 \in Nat /\ n + 1 \in 1 .. n + 1
      OBVIOUS
  <2>2. \A i \in 1 .. n + 1 : i \in T
      BY ONLY <1>2, <2>1, UpTo
  <2> QED
      BY <2>1, <2>2
<1>4. R(1) = [s |-> At(b, p), todo |-> <<c>> \o rest]
  <2>1. st[1] = p /\ Left(1) = c
      BY DEF Lies
  <2> HIDE DEF Left
  <2> QED
      BY <2>1
<1>5. R(n + 1) = [s |-> At(b, st[n + 1]), todo |-> <<IF c = ToEnd THEN ToEnd ELSE 0>> \o rest]
  <2>1. Left(n + 1) = IF c = ToEnd THEN ToEnd ELSE 0
      OBVIOUS
  <2> HIDE DEF Left
  <2> QED
      BY <2>1
<1> QED
    BY <1>3, <1>4, <1>5

LEMMA ValueYields ==
    ASSUME NEW s, NEW b, NEW q, NEW u, NEW v, Yields(s, b, q, u)
    PROVE  Yields(Value(s, v), b, q, v)
<1>1. PICK t, g, l : s = Good(b, q, t, g, l, u)
    BY DEF Yields
<1>2. Value(Good(b, q, t, g, l, u), v) = Good(b, q, t, g, l, v)
    BY DEF Value, Good
<1> QED
    BY <1>1, <1>2, GoodYields

\* Java's search ends at once where the field stands that it is for.
LEMMA FindTagHere ==
    ASSUME NEW b \in Seq(Byte), NEW p \in 0 .. Len(b), NEW s, NEW v, Yields(s, b, p, v),
           NEW f, f.tag \in Byte, ShowsHead("java", NotEnd, f, b, p)
    PROVE  Forget(FindTag("java", s, f.tag)) = At(b, p)
<1> DEFINE tag == f.tag
           k == HeadLen(tag)
           h == ReadHead("java", At(b, p))
           m == Passes(s)
<1>0. f.tag \in Byte
    OBVIOUS
<1>1. PICK ty \in NotEnd : h = Good(b, p + k, ty, tag, k, << >>)
    BY DEF ShowsHead, At
<1>2. Forget(s) = At(b, p) /\ s.st = "good" /\ s.pos = p /\ s.buf = b
    BY ForgetYields
<1>3. At(b, p).pos = p
    BY AtIsStream
<1> DEFINE e == [s |-> Good(b, p, ty, tag, k, << >>), res |-> "found"]
<1>4. Pass("java", At(b, p), tag) = e
  <2>1. h.st = "good" /\ h.type # STRUCT_END /\ h.tag = tag /\ tag <= h.tag
    <3>1. h.st = "good" /\ h.type = ty /\ h.tag = tag
      <4> HIDE DEF h
      <4> QED
          BY <1>1, GoodStream
    <3>2. ty # STRUCT_END /\ tag \in Int
      <4>1. ty # STRUCT_END
          BY Zenon DEF NotEnd
      <4>2. tag \in Int
          BY <1>0, ByteIsInt DEF tag
      <4> QED
          BY <4>1, <4>2
    <3> HIDE DEF h, tag
    <3> QED
        BY <3>1, <3>2
  <2>2. [Good(b, p + k, ty, tag, k, << >>) EXCEPT !.pos = p] = Good(b, p, ty, tag, k, << >>)
      BY DEF Good
  <2>3. [h EXCEPT !.pos = At(b, p).pos] = Good(b, p, ty, tag, k, << >>)
      BY <1>1, <1>3, <2>2
  <2>4. JavaPass(At(b, p), tag) = e
    <3> DEFINE z == At(b, p)
    <3>1. /\ ~ (ReadHead("java", z).st # "good" \/ ReadHead("java", z).type = STRUCT_END)
          /\ tag <= ReadHead("java", z).tag /\ tag = ReadHead("java", z).tag
        BY <2>1
    <3> DEFINE y == [ReadHead("java", z) EXCEPT !.pos = z.pos]
    <3>2. y = Good(b, p, ty, tag, k, << >>)
        BY <2>3
    <3> HIDE DEF tag
    <3>3. JavaPass(z, tag)
            = [s |-> y, res |-> IF tag = ReadHead("java", z).tag THEN "found" ELSE "absent"]
      <4> HIDE DEF z
      <4> QED
          BY <3>1, Zenon DEF JavaPass
    <3> HIDE DEF y, z
    <3> QED
        BY <3>1, <3>2, <3>3 DEF z
  <2> QED
      BY <2>4 DEF Pass
<1>5. \A l : Pass(l, At(b, p), tag) = Pass(l, Forget(s), tag)
    BY <1>2
<1>6. m \in Nat /\ m >= 1
  <2>1. Len(b) \in Nat /\ p \in Nat /\ p <= Len(b)
      BY LenProperties
  <2> QED
      BY <1>2, <2>1 DEF Passes
<1> DEFINE a == [s |-> s, res |-> "more"]
<1>7. PICK g : /\ \A i \in 0 .. m : g[i] = IF i = 0 THEN a ELSE PassOn("java", g[i - 1], tag)
               /\ FindTag("java", s, tag) = FindEnds(s, g[m])
    BY <1>6, FindTagRuns
<1>8. PassOn("java", a, tag) = e /\ PassOn("java", e, tag) = e
  <2>1. e.res # "more" /\ a.res = "more" /\ a.s = s
      OBVIOUS
  <2> HIDE DEF e, a
  <2> QED
      BY <1>2, <1>4, <2>1, Zenon DEF PassOn
<1> HIDE DEF m, e, a, tag
<1> DEFINE T == {i \in 1 .. m : g[i] = e}
<1>9. m \in T
  <2>1. \A i \in 1 .. m : (\A j \in 1 .. i - 1 : j \in T) => i \in T
    <3> SUFFICES ASSUME NEW i \in 1 .. m, \A j \in 1 .. i - 1 : j \in T PROVE g[i] = e
        OBVIOUS
    <3>1. i \in 0 .. m /\ i # 0 /\ 0 \in 0 .. m
        BY <1>6
    <3>2. CASE i = 1
        BY <1>7, <1>8, <3>1, <3>2
    <3>3. CASE i # 1
      <4>1. i - 1 \in 1 .. i - 1
          BY <3>3
      <4>2. g[i - 1] = e
          BY <4>1
      <4> QED
          BY <1>7, <1>8, <3>1, <4>2
    <3> QED
        BY <3>2, <3>3
  <2> HIDE DEF T
  <2>2. 1 \in Nat /\ m \in Nat /\ m \in 1 .. m
      BY <1>6
  <2>3. \A i \in 1 .. m : i \in T
      BY ONLY <2>1, <2>2, UpTo
  <2> QED
      BY <2>2, <2>3
<1>10. FindTag("java", s, tag) = e.s
  <2>1. g[m] = e /\ e.res = "found" /\ s.st = "good"
      BY <1>2, <1>9 DEF e
  <2>2. FindEnds(s, e) = e.s
      BY <2>1, Zenon DEF FindEnds
  <2> QED
      BY <1>7, <2>1, <2>2
<1> QED
    BY <1>10, Forgotten DEF e, tag

\* The run of ReadEach.
EachRun(lang, s, fs, one, n, g) ==
    /\ \A i \in 0 .. n :
         g[i] = IF i = 0 THEN [s |-> s, vals |-> << >>] ELSE NextRead(lang, g[i - 1], fs[i], one)
    /\ ReadEach(lang, s, fs, one) = Value(g[n].s, g[n].vals)

LEMMA EachRunExists ==
    ASSUME NEW lang, NEW s, NEW fs, NEW one, NEW n \in Nat, Len(fs) = n
    PROVE  \E g : EachRun(lang, s, fs, one, n, g)
    BY ReadEachRuns DEF EachRun

\* one reads the fields that lie in b, and this is what it yields of each.
OneReads(lang, b, n, ws, st, fs, one, vals) ==
    \A i \in 1 .. n : /\ Len(ws[i]) >= 1 /\ fs[i].tag \in Byte
                      /\ ShowsHead(lang, NotEnd, fs[i], b, st[i])
                      /\ Yields(one[fs[i]][At(b, st[i])], b, st[i + 1], vals[i])
FirstOf(vals, n) == [j \in 1 .. n |-> vals[j]]

\* Fields that lie one behind the other, each of which one reads back.
LEMMA EachRead ==
    ASSUME NEW lang \in Langs, NEW b \in Seq(Byte), NEW p \in Nat, NEW n \in Nat,
           NEW ws \in [1 .. n -> Seq(Byte)], NEW st, Lies(b, p, n, ws, st),
           NEW fs, Len(fs) = n, NEW one, NEW vals,
           OneReads(lang, b, n, ws, st, fs, one, vals),
           NEW s, NEW v, Yields(s, b, p, v)
    PROVE  Yields(ReadEach(lang, s, fs, one), b, st[n + 1], FirstOf(vals, n))
<1>0. \A i \in 1 .. n : /\ Len(ws[i]) >= 1 /\ fs[i].tag \in Byte
                        /\ ShowsHead(lang, NotEnd, fs[i], b, st[i])
                        /\ Yields(one[fs[i]][At(b, st[i])], b, st[i + 1], vals[i])
    BY DEF OneReads
<1> DEFINE V(i) == [j \in 1 .. i |-> vals[j]]
           a == [s |-> s, vals |-> << >>]
           S == {vals[j] : j \in 1 .. n}
<1>1. PICK g : /\ \A i \in 0 .. n : g[i] = IF i = 0 THEN a ELSE NextRead(lang, g[i - 1], fs[i], one)
               /\ ReadEach(lang, s, fs, one) = Value(g[n].s, g[n].vals)
  <2>1. PICK g : EachRun(lang, s, fs, one, n, g)
      BY EachRunExists
  <2> QED
      BY <2>1 DEF EachRun
<1>2. /\ st[1] = p
      /\ \A i \in 1 .. n : st[i] \in 0 .. Len(b)
  <2>1. ASSUME NEW i \in 1 .. n PROVE st[i] \in 0 .. Len(b)
    <3>1. \A j \in 1 .. n : Len(ws[j]) >= 1
        BY <1>0
    <3>2. /\ \A j \in 1 .. n + 1 : st[j] \in Nat
          /\ \A j \in 1 .. n : st[j] + ((n + 1) - j) <= Len(b)
        BY <3>1, LiesRoom
    <3>3. st[i] \in Nat /\ st[i] + ((n + 1) - i) <= Len(b) /\ Len(b) \in Nat
        BY <3>2, LenProperties
    <3> QED
        BY <3>3
  <2> QED
      BY <2>1 DEF Lies
<1>3. ASSUME NEW i \in 0 .. n PROVE V(i) \in Seq(S) /\ Len(V(i)) = i
  <2>1. V(i) \in [1 .. i -> S]
      OBVIOUS
  <2>2. DOMAIN V(i) = 1 .. i /\ i \in Nat
      OBVIOUS
  <2> HIDE DEF V, S
  <2>3. V(i) \in Seq(S)
      BY <2>1, <2>2, SeqDef
  <2>4. DOMAIN V(i) = 1 .. Len(V(i)) /\ Len(V(i)) \in Nat
      BY <2>3, LenProperties
  <2> QED
      BY <2>2, <2>3, <2>4
<1>4. ASSUME NEW i \in 1 .. n PROVE Append(V(i - 1), vals[i]) = V(i)
  <2>1. i - 1 \in 0 .. n /\ i \in 0 .. n /\ (i - 1) + 1 = i /\ vals[i] \in S
      OBVIOUS
  <2>2. V(i - 1) \in Seq(S) /\ Len(V(i - 1)) = i - 1 /\ V(i) \in Seq(S) /\ Len(V(i)) = i
      BY <1>3, <2>1
  <2>3. \A j \in 1 .. i : V(i)[j] = vals[j]
      OBVIOUS
  <2>4. \A j \in 1 .. i - 1 : V(i - 1)[j] = vals[j]
      OBVIOUS
  <2> HIDE DEF V, S
  <2> DEFINE x == Append(V(i - 1), vals[i])
  <2>5. /\ x \in Seq(S) /\ Len(x) = i /\ x[i] = vals[i]
        /\ \A j \in 1 .. i - 1 : x[j] = V(i - 1)[j]
      BY <2>1, <2>2, AppendProperties
  <2> HIDE DEF x
  <2>6. ASSUME NEW j \in 1 .. i PROVE x[j] = V(i)[j]
    <3>1. j = i \/ j \in 1 .. i - 1
        OBVIOUS
    <3> QED
        BY <2>3, <2>4, <2>5, <3>1
  <2>7. x = V(i)
      BY <2>2, <2>5, <2>6, SeqEqual
  <2> QED
      BY <2>7 DEF x
<1> DEFINE P(i) == (\E u : Yields(g[i].s, b, st[i + 1], u)) /\ g[i].vals = V(i)
           T == {i \in 0 .. n : P(i)}
<1>5. \A i \in 0 .. n : (\A j \in 0 .. i - 1 : j \in T) => i \in T
  <2> SUFFICES ASSUME NEW i \in 0 .. n, \A j \in 0 .. i - 1 : j \in T PROVE P(i)
      OBVIOUS
  <2>1. CASE i = 0
    <3>1. g[i] = a
        BY <1>1, <2>1
    <3>2. V(0) = << >>
      <4>1. V(0) \in Seq(S) /\ Len(V(0)) = 0
          BY <1>3
      <4> HIDE DEF V, S
      <4> QED
          BY <4>1, EmptySeq
    <3> QED
        BY <1>2, <2>1, <3>1, <3>2
  <2>2. CASE i # 0
    <3>1. i - 1 \in 0 .. i - 1 /\ i \in 1 .. n /\ (i - 1) + 1 = i
        BY <2>2
    <3>2. PICK u : Yields(g[i - 1].s, b, st[i], u)
      <4>1. P(i - 1)
          BY <3>1
      <4> QED
          BY <3>1, <4>1
    <3>3. g[i - 1].vals = V(i - 1)
        BY <3>1
    <3> HIDE DEF V
    <3> DEFINE r == g[i - 1]
               q == IF lang = "cpp" THEN r.s ELSE FindTag(lang, r.s, fs[i].tag)
               w == one[fs[i]][Forget(q)]
    <3>4. Forget(q) = At(b, st[i])
      <4>1. CASE lang = "cpp"
          BY <3>2, <4>1, ForgetYields
      <4>2. CASE lang # "cpp"
        <5>1. lang = "java"
            BY <4>2 DEF Langs
        <5>2. /\ st[i] \in 0 .. Len(b) /\ fs[i].tag \in Byte
              /\ ShowsHead("java", NotEnd, fs[i], b, st[i])
            BY <1>0, <1>2, <3>1, <5>1
        <5>3. Forget(FindTag("java", r.s, fs[i].tag)) = At(b, st[i])
          <6> DEFINE p1 == st[i]
                     f == fs[i]
                     s1 == r.s
          <6>1. b \in Seq(Byte) /\ p1 \in 0 .. Len(b) /\ Yields(s1, b, p1, u) /\ f.tag \in Byte
                /\ ShowsHead("java", NotEnd, f, b, p1)
              BY <3>2, <5>2
          <6> HIDE DEF p1, f, s1
          <6>2. Forget(FindTag("java", s1, f.tag)) = At(b, p1)
              BY ONLY <6>1, FindTagHere
          <6> QED
              BY <6>2 DEF p1, f, s1
        <5> QED
            BY <4>2, <5>1, <5>3
      <4> QED
          BY <4>1, <4>2
    <3>5. Yields(w, b, st[i + 1], vals[i])
        BY <1>0, <3>1, <3>4
    <3>6. g[i] = [s |-> w, vals |-> Append(r.vals, w.val)]
      <4>1. g[i] = NextRead(lang, g[i - 1], fs[i], one)
          BY <1>1, <2>2
      <4> QED
          BY <4>1 DEF NextRead, Gather
    <3>7. w.val = vals[i]
      <4> HIDE DEF w
      <4> QED
          BY <3>5, ForgetYields
    <3>8. Append(r.vals, w.val) = V(i)
      <4> HIDE DEF w
      <4> QED
          BY <1>4, <3>1, <3>3, <3>7
    <3> HIDE DEF w, r
    <3> QED
        BY <3>5, <3>6, <3>8
  <2> QED
      BY <2>1, <2>2
<1>6. P(n)
  <2> HIDE DEF P
  <2>0. \A i \in 0 .. n : i \in T => P(i)
      OBVIOUS
  <2> HIDE DEF T
  <2>1. 0 \in Nat /\ n \in Nat /\ n \in 0 .. n
      OBVIOUS
  <2>2. \A i \in 0 .. n : i \in T
      BY ONLY <1>5, <2>1, UpTo
  <2> QED
      BY <2>0, <2>1, <2>2
<1>7. PICK u : Yields(g[n].s, b, st[n + 1], u)
    BY <1>6
<1>8. g[n].vals = FirstOf(vals, n)
    BY <1>6 DEF FirstOf
<1> QED
    BY <1>1, <1>7, <1>8, ValueYields

-----------------------------------------------------------------------------
(***************************************************************************)
(* Fields that hold no other fields                                        *)
(***************************************************************************)
LEMMA FlatTypesAre ==
    /\ FlatTypes \subseteq 0 .. 13 /\ FlatTypes \subseteq NotEnd
    /\ FlatTypes \intersect Holders = {} /\ STRUCT_END \notin FlatTypes
    BY DEF FlatTypes, NotEnd, Holders, MAP, LIST, STRUCT_BEGIN, STRUCT_END, ZERO_TAG, SIMPLE_LIST

LEMMA FlatHead ==
    ASSUME NEW wr \in Langs, NEW rd \in Langs, NEW f, FlatField(f), FieldAgreed(wr, rd, f),
           NEW b \in Seq(Byte), NEW p \in Nat, Holds(b, p, WriteFlat(wr, f)),
           NEW t, NEW g, NEW l, NEW v
    PROVE  \E ty \in FlatTypes :
             ReadHead(rd, Good(b, p, t, g, l, v)) = Good(b, p + HeadLen(f.tag), ty, f.tag, HeadLen(f.tag), v)
<1> DEFINE x == WriteFlat(wr, f)
<1>1. Headed(wr, FlatTypes, f.tag, x)
    BY FlatHeaded
<1>2. TagAgreed(wr, rd, f.tag) /\ f.tag \in Byte
    BY DEF FieldAgreed, FlatField
<1> HIDE DEF x
<1>3. ShowsHead(rd, FlatTypes, f, b, p)
    BY <1>1, <1>2, FlatTypesAre, HeadShown DEF x
<1> QED
    BY <1>3 DEF ShowsHead

\* FieldRead and FieldSkipped for a field and its head.
LEMMA FlatRead ==
    ASSUME NEW wr \in Langs, NEW rd \in Langs, NEW f, FlatField(f),
           FieldAgreed(wr, rd, f), rd = "cpp" => CppGets(wr, f),
           NEW b \in Seq(Byte), NEW p \in Nat, Holds(b, p, WriteFlat(wr, f)),
           NEW t, NEW g, NEW l, NEW v
    PROVE  Yields(ReadFlatField(rd, Good(b, p, t, g, l, v), f), b, p + Len(WriteFlat(wr, f)),
                  Got(wr, rd, f))
<1> DEFINE s == Good(b, p, t, g, l, v)
<1>1. PICK ty \in FlatTypes :
        ReadHead(rd, s) = Good(b, p + HeadLen(f.tag), ty, f.tag, HeadLen(f.tag), v)
    BY FlatHead
<1>2. Yields(ReadFlat(rd, ReadHead(rd, s), f), b, p + Len(WriteFlat(wr, f)), Got(wr, rd, f))
    BY FieldRead
<1>3. ReadFlatField(rd, s, f) = ReadFlat(rd, ReadHead(rd, s), f)
  <2>1. ReadHead(rd, s).st = "good"
      BY <1>1, GoodStream
  <2> HIDE DEF s
  <2> QED
      BY <2>1 DEF ReadFlatField, HeadOf
<1> QED
    BY <1>2, <1>3

LEMMA FlatSkip ==
    ASSUME NEW wr \in Langs, NEW rd \in Langs, NEW f, FlatField(f),
           FieldAgreed(wr, rd, f), (rd = "cpp" /\ f.kind = "blob") => CppGets(wr, f),
           NEW b \in Seq(Byte), NEW p \in Nat, Holds(b, p, WriteFlat(wr, f)),
           NEW t, NEW g, NEW l, NEW v
    PROVE  LET h == ReadHead(rd, Good(b, p, t, g, l, v))
           IN  /\ h.st = "good" /\ h.type \notin Holders /\ h.type # STRUCT_END
               /\ SkipField(rd, h) = SkipFlat(rd, h)
               /\ \E u : Yields(SkipFlat(rd, h), b, p + Len(WriteFlat(wr, f)), u)
<1> DEFINE s == Good(b, p, t, g, l, v)
           h == ReadHead(rd, s)
<1>1. PICK ty \in FlatTypes : h = Good(b, p + HeadLen(f.tag), ty, f.tag, HeadLen(f.tag), v)
    BY FlatHead
<1>2. \E u : Yields(SkipFlat(rd, h), b, p + Len(WriteFlat(wr, f)), u)
    BY FieldSkipped
<1>3. h.st = "good" /\ h.type = ty
    BY <1>1, GoodStream
<1> HIDE DEF h
<1>4. h.type \notin Holders /\ h.type # STRUCT_END
    BY <1>3, FlatTypesAre
<1>5. SkipField(rd, h) = SkipFlat(rd, h)
    BY <1>4 DEF SkipField
<1> QED
    BY <1>2, <1>3, <1>4, <1>5 DEF h

LEMMA FlatGoesOver ==
    ASSUME NEW wr \in Langs, NEW f, FlatField(f), FieldAgreed(wr, "java", f),
           NEW b \in Seq(Byte), NEW p \in Nat, Holds(b, p, WriteFlat(wr, f))
    PROVE  GoesOver("java", b, p, WriteFlat(wr, f))
<1> DEFINE x == WriteFlat(wr, f)
           h == ReadHead("java", At(b, p))
<1>1. "java" \in Langs
    BY DEF Langs
<1>2. x \in Seq(Byte) /\ Len(x) \in Nat /\ Len(x) >= 1
  <2>1. Headed(wr, FlatTypes, f.tag, x) /\ f.tag \in Byte
      BY FlatHeaded DEF FlatField
  <2> HIDE DEF x
  <2> QED
      BY <2>1, FlatTypesAre, HeadedIsSeq
<1>3. /\ h.st = "good" /\ h.type \notin Holders /\ h.type # STRUCT_END
      /\ \E u : Yields(SkipFlat("java", h), b, p + Len(x), u)
    BY <1>1, FlatSkip DEF At
<1>4. Forget(SkipFlat("java", h)) = At(b, p + Len(x))
    BY <1>3, ForgetYields
<1>5. p \in 0 .. Len(b)
  <2>1. p + Len(x) <= Len(b) /\ Len(b) \in Nat
      BY LenProperties DEF Holds
  <2> HIDE DEF x
  <2> QED
      BY <1>2, <2>1
<1>6. ASSUME NEW n, NEW rest \in Seq(Int), n = ToEnd \/ n \in 1 .. Len(b) - p
      PROVE  SkipPass1("java", [s |-> At(b, p), todo |-> <<n>> \o rest])
               = [s |-> At(b, p + Len(x)), todo |-> <<NextLeft(n)>> \o rest]
  <2> DEFINE r == SkipPass1("java", [s |-> At(b, p), todo |-> <<n>> \o rest])
             left == LeftIn(n, h.type, rest)
  <2>0. PassedHere("java", b, p, n, rest)
    <3>1. /\ "java" \in Langs /\ b \in Seq(Byte) /\ p \in 0 .. Len(b) /\ rest \in Seq(Int)
          /\ (n = ToEnd \/ n \in 1 .. Len(b) - p) /\ ReadHead("java", At(b, p)).st = "good"
        BY <1>1, <1>3, <1>5, <1>6
    <3> QED
        BY ONLY <3>1, PassHere
  <2>1. h.type \notin Holders => r = [s |-> Forget(SkipFlat("java", h)), todo |-> left]
      BY <2>0 DEF PassedHere
  <2>2. left = <<NextLeft(n)>> \o rest
      BY <1>3 DEF LeftIn
  <2> HIDE DEF r, left, h, x
  <2>3. r = [s |-> At(b, p + Len(x)), todo |-> <<NextLeft(n)>> \o rest]
      BY <1>3, <1>4, <2>1, <2>2
  <2> QED
      BY <2>3 DEF r
<1> HIDE DEF x, h
<1>7. 1 \in 1 .. Len(x)
    BY <1>2
<1>8. GoesOver("java", b, p, x)
  <2> SUFFICES ASSUME NEW n, NEW rest \in Seq(Int), n = ToEnd \/ n \in 1 .. Len(b) - p
               PROVE  Goes("java", [s |-> At(b, p), todo |-> <<n>> \o rest],
                           [s |-> At(b, p + Len(x)), todo |-> <<NextLeft(n)>> \o rest], 1)
      BY <1>7 DEF GoesOver
  <2> QED
      BY <1>6, GoesOnce
<1> QED
    BY <1>8 DEF x

-----------------------------------------------------------------------------
(***************************************************************************)
(* Fields that hold others                                                 *)
(***************************************************************************)
\* What Java's loops do with a field whose head has been read: it holds fields,
\* and they pass over these.
SkipsInside(b, p, x) ==
    \A t, g, l, v :
      LET h == ReadHead("java", Good(b, p, t, g, l, v))
          i == Inside("java", h)
      IN  /\ h.st = "good" /\ h.type \in Holders
          /\ \E q, u :
               /\ q \in Nat /\ Yields(i.s, b, q, u) /\ q <= Len(b) /\ i.n \in Int
               /\ \A rest \in Seq(Int) : \E k \in 0 .. Len(b) - q + 1 :
                    /\ k < Len(x)
                    /\ Goes("java", [s |-> At(b, q), todo |-> <<i.n>> \o rest],
                            [s |-> At(b, p + Len(x)), todo |-> rest], k)

LEMMA InsideSkipped ==
    ASSUME NEW b \in Seq(Byte), NEW p \in Nat, NEW x, SkipsInside(b, p, x),
           NEW t, NEW g, NEW l, NEW v
    PROVE  SkipField("java", ReadHead("java", Good(b, p, t, g, l, v))) = At(b, p + Len(x))
<1> DEFINE h == ReadHead("java", Good(b, p, t, g, l, v))
           i == Inside("java", h)
<1>1. /\ h.st = "good" /\ h.type \in Holders
      /\ \E q, u :
               /\ q \in Nat /\ Yields(i.s, b, q, u) /\ q <= Len(b) /\ i.n \in Int
               /\ \A rest \in Seq(Int) : \E k \in 0 .. Len(b) - q + 1 :
                    /\ k < Len(x)
                    /\ Goes("java", [s |-> At(b, q), todo |-> <<i.n>> \o rest],
                            [s |-> At(b, p + Len(x)), todo |-> rest], k)
    BY DEF SkipsInside
<1> HIDE DEF i
<1>2. PICK q, u :
               /\ q \in Nat /\ Yields(i.s, b, q, u) /\ q <= Len(b) /\ i.n \in Int
               /\ \A rest \in Seq(Int) : \E k \in 0 .. Len(b) - q + 1 :
                    /\ k < Len(x)
                    /\ Goes("java", [s |-> At(b, q), todo |-> <<i.n>> \o rest],
                            [s |-> At(b, p + Len(x)), todo |-> rest], k)
    BY <1>1
<1>3. << >> \in Seq(Int) /\ <<i.n>> \o << >> = <<i.n>>
    BY <1>2
<1>4. PICK k \in 0 .. Len(b) - q + 1 :
        Goes("java", [s |-> At(b, q), todo |-> <<i.n>>], [s |-> At(b, p + Len(x)), todo |-> << >>], k)
    BY <1>2, <1>3
<1>5. Forget(i.s) = At(b, q) /\ i.s.pos = q /\ i.s.buf = b
    BY <1>2, ForgetYields
<1>6. Passes(i.s) \in Nat /\ k \in 0 .. Passes(i.s)
  <2>1. Len(b) \in Nat /\ q \in Nat /\ q <= Len(b)
      BY <1>2, LenProperties
  <2>2. Passes(i.s) = 2 * (Len(b) - q) + 3
      BY <1>5 DEF Passes
  <2> QED
      BY <2>1, <2>2
<1>7. SkipMany("java", i.s, i.n) = At(b, p + Len(x))
    BY <1>4, <1>5, <1>6, SkipManyGoes
<1> HIDE DEF h
<1>8. SkipField("java", h) = SkipMany("java", i.s, i.n)
    BY <1>1 DEF SkipField, i
<1> QED
    BY <1>7, <1>8 DEF h

LEMMA InsideGoesOver ==
    ASSUME NEW b \in Seq(Byte), NEW p \in 0 .. Len(b), NEW x \in Seq(Byte), SkipsInside(b, p, x)
    PROVE  GoesOver("java", b, p, x)
<1> DEFINE h == ReadHead("java", At(b, p))
           i == Inside("java", h)
<1>0. "java" \in Langs /\ p \in Nat /\ Len(x) \in Nat
    BY LenProperties DEF Langs
<1>1. /\ h.st = "good" /\ h.type \in Holders
      /\ \E q, u :
               /\ q \in Nat /\ Yields(i.s, b, q, u) /\ q <= Len(b) /\ i.n \in Int
               /\ \A rest \in Seq(Int) : \E k \in 0 .. Len(b) - q + 1 :
                    /\ k < Len(x)
                    /\ Goes("java", [s |-> At(b, q), todo |-> <<i.n>> \o rest],
                            [s |-> At(b, p + Len(x)), todo |-> rest], k)
    BY DEF SkipsInside, At
<1>2. h.type # STRUCT_END
    BY <1>1 DEF Holders, MAP, LIST, STRUCT_BEGIN, STRUCT_END
<1> SUFFICES ASSUME NEW n, NEW rest \in Seq(Int), n = ToEnd \/ n \in 1 .. Len(b) - p
             PROVE  \E k \in 1 .. Len(x) :
                      Goes("java", [s |-> At(b, p), todo |-> <<n>> \o rest],
                           [s |-> At(b, p + Len(x)), todo |-> <<NextLeft(n)>> \o rest], k)
    BY DEF GoesOver
<1> DEFINE r == [s |-> At(b, p), todo |-> <<n>> \o rest]
           left == <<NextLeft(n)>> \o rest
<1>3. SkipPass1("java", r) = [s |-> Forget(i.s), todo |-> <<i.n>> \o left]
  <2> DEFINE left1 == LeftIn(n, h.type, rest)
  <2>0. PassedHere("java", b, p, n, rest)
    <3>1. /\ "java" \in Langs /\ b \in Seq(Byte) /\ p \in 0 .. Len(b) /\ rest \in Seq(Int)
          /\ (n = ToEnd \/ n \in 1 .. Len(b) - p) /\ ReadHead("java", At(b, p)).st = "good"
        BY <1>0, <1>1
    <3> QED
        BY ONLY <3>1, PassHere
  <2>1. h.type \in Holders => SkipPass1("java", r) = [s |-> Forget(i.s), todo |-> <<i.n>> \o left1]
      BY <2>0 DEF PassedHere
  <2>2. left1 = left
      BY <1>2 DEF LeftIn
  <2> HIDE DEF left, left1, r, i
  <2> QED
      BY <1>1, <2>1, <2>2
<1>4. left \in Seq(Int)
  <2>1. NextLeft(n) \in Int
    <3>1. Len(b) \in Nat
        BY LenProperties
    <3> QED
        BY <3>1 DEF NextLeft, ToEnd
  <2> QED
      BY <2>1, StackIs
<1> HIDE DEF i
<1>5. PICK q, u :
               /\ q \in Nat /\ Yields(i.s, b, q, u) /\ q <= Len(b) /\ i.n \in Int
               /\ \A rest1 \in Seq(Int) : \E k \in 0 .. Len(b) - q + 1 :
                    /\ k < Len(x)
                    /\ Goes("java", [s |-> At(b, q), todo |-> <<i.n>> \o rest1],
                            [s |-> At(b, p + Len(x)), todo |-> rest1], k)
    BY <1>1
<1> HIDE DEF left
<1>6. PICK k \in 0 .. Len(b) - q + 1 :
               /\ k < Len(x)
               /\ Goes("java", [s |-> At(b, q), todo |-> <<i.n>> \o left],
                       [s |-> At(b, p + Len(x)), todo |-> left], k)
    BY <1>4, <1>5
<1>7. Forget(i.s) = At(b, q)
    BY <1>5, ForgetYields
<1> DEFINE r2 == [s |-> At(b, q), todo |-> <<i.n>> \o left]
           r3 == [s |-> At(b, p + Len(x)), todo |-> left]
<1>8. Goes("java", r, r2, 1)
  <2>1. SkipPass1("java", r) = r2
      BY <1>3, <1>7
  <2> HIDE DEF r, r2
  <2> QED
      BY <2>1, GoesOnce
<1>9. k \in Nat /\ 1 + k \in 1 .. Len(x)
    BY <1>0, <1>6
<1>10. Goes("java", r, r3, 1 + k)
  <2>1. Goes("java", r2, r3, k)
      BY <1>6
  <2> HIDE DEF r, r2, r3
  <2> QED
      BY <1>8, <1>9, <2>1, GoesOn
<1> QED
    BY <1>9, <1>10 DEF left

\* What lies within something that is held.
LEMMA LiesWithin ==
    ASSUME NEW b \in Seq(Byte), NEW p \in Nat, NEW x \in Seq(Byte), Holds(b, p, x), NEW n \in Nat,
           NEW ws \in [1 .. n -> Seq(Byte)], NEW st, Lies(x, 0, n, ws, st), st[n + 1] = Len(x)
    PROVE  \E st2 : Lies(b, p, n, ws, st2) /\ st2[n + 1] = p + Len(x)
<1> DEFINE st2 == [i \in 1 .. n + 1 |-> p + st[i]]
<1>1. /\ st \in [1 .. n + 1 -> Nat] /\ st[1] = 0
      /\ \A i \in 1 .. n : st[i + 1] = st[i] + Len(ws[i]) /\ Holds(x, st[i], ws[i])
    BY DEF Lies
<1>2. \A i \in 1 .. n + 1 : st2[i] = p + st[i]
    OBVIOUS
<1>3. st2 \in [1 .. n + 1 -> Nat]
    BY <1>1
<1> HIDE DEF st2
<1>4. 1 \in 1 .. n + 1 /\ n + 1 \in 1 .. n + 1
    OBVIOUS
<1>5. ASSUME NEW i \in 1 .. n
      PROVE  st2[i + 1] = st2[i] + Len(ws[i]) /\ Holds(b, st2[i], ws[i])
  <2>1. i \in 1 .. n + 1 /\ i + 1 \in 1 .. n + 1
      OBVIOUS
  <2>2. ws[i] \in Seq(Byte) /\ Len(ws[i]) \in Nat /\ st[i] \in Nat
      BY <1>1, <2>1, LenProperties
  <2>3. Holds(b, p + st[i], ws[i])
      BY <1>1, <2>2, HoldsWithin
  <2>4. st2[i + 1] = p + (st[i] + Len(ws[i])) /\ st2[i] = p + st[i]
      BY <1>1, <1>2, <2>1
  <2> QED
      BY <2>2, <2>3, <2>4
<1>6. st2[1] = p /\ st2[n + 1] = p + Len(x)
    BY <1>1, <1>2, <1>4
<1> QED
    BY <1>3, <1>5, <1>6 DEF Lies

-----------------------------------------------------------------------------
(***************************************************************************)
(* Maps and lists                                                          *)
(***************************************************************************)
LEMMA SizeBytes ==
    ASSUME NEW wr \in Langs, NEW n, IsLength(n)
    PROVE  /\ WriteSize(wr, n) \in Seq(Byte) /\ Len(WriteSize(wr, n)) \in Nat
           /\ Len(WriteSize(wr, n)) >= 1
<1> DEFINE x == WriteSize(wr, n)
<1>1. BytesOf(n) \in Number(4) /\ 4 \in Widths /\ 0 \in Byte
    BY LengthBytes DEF Widths, Byte
<1>2. Headed(wr, FlatTypes, 0, x)
    BY <1>1, NumHeaded DEF WriteSize
<1> HIDE DEF x
<1>3. x \in Seq(Byte) /\ Len(x) \in Nat /\ Len(x) >= 1
    BY <1>1, <1>2, FlatTypesAre, HeadedIsSeq
<1> QED
    BY <1>3 DEF x

\* Both languages write a size in the same bytes.
LEMMA SizeSame ==
    ASSUME NEW wr \in Langs, NEW n
    PROVE  WriteSize(wr, n) = BlobSize("java", n)
<1>1. \A ty : WriteHead(wr, ty, 0) = WriteHead("java", ty, 0)
    BY DEF WriteHead
<1>2. WriteSize(wr, n) = WriteSize("java", n)
    BY <1>1 DEF WriteSize, WriteNum
<1> QED
    BY <1>2 DEF BlobSize

LEMMA SizeRead ==
    ASSUME NEW wr \in Langs, NEW rd \in Langs, NEW n, IsLength(n),
           NEW b \in Seq(Byte), NEW p \in Nat, Holds(b, p, WriteSize(wr, n)),
           NEW t, NEW g, NEW l, NEW v
    PROVE  ReadsSize(rd, b, p, p + Len(WriteSize(wr, n)), n, t, g, l, v)
<1>1. WriteSize(wr, n) = BlobSize("java", n) /\ "java" \in Langs /\ "java" # "cpp"
    BY SizeSame DEF Langs
<1>2. Holds(b, p, BlobSize("java", n))
    BY <1>1
<1>3. ReadsSize(rd, b, p, p + Len(BlobSize("java", n)), n, t, g, l, v)
    BY <1>1, <1>2, BlobSizeRead
<1> QED
    BY <1>1, <1>3

Block(f) == f.kind \in {"map", "list"} /\ HoldsElements(f) /\ f.tag \in Byte
Count(f) == Len(f.val) \div Period(f)
BlockType(f) == IF f.kind = "map" THEN MAP ELSE LIST
ElementBytes(wr, f) == [i \in 1 .. Len(f.val) |-> WriteFlat(wr, f.val[i])]

LEMMA ElementsAre ==
    ASSUME NEW f, Block(f)
    PROVE  /\ Len(f.val) \in Nat /\ Period(f) \in {1, 2}
           /\ IsLength(Count(f)) /\ Len(f.val) = Count(f) * Period(f)
           /\ Count(f) \in Nat /\ Count(f) <= Len(f.val)
           /\ \A i \in 1 .. Len(f.val) :
                /\ FlatField(f.val[i]) /\ f.val[i].kind = ElementKind(f)
                /\ f.val[i].tag = (i - 1) % Period(f) /\ f.val[i].tag \in {0, 1}
<1> DEFINE S == [kind : {ElementKind(f)}, tag : {0, 1}, val : Seq(Byte)]
<1>1. /\ f.val \in Seq(S) /\ IsLength(Count(f)) /\ Len(f.val) = Count(f) * Period(f)
      /\ \A i \in 1 .. Len(f.val) : FlatField(f.val[i]) /\ f.val[i].tag = (i - 1) % Period(f)
    BY DEF Block, HoldsElements, Count
<1>2. Len(f.val) \in Nat /\ \A i \in 1 .. Len(f.val) : f.val[i] \in S
  <2> HIDE DEF S
  <2> QED
      BY <1>1, LenProperties
<1>3. Count(f) \in Nat
    BY <1>1 DEF IsLength
<1>4. Period(f) \in {1, 2}
    BY DEF Period
<1>5. Count(f) <= Len(f.val)
    BY <1>1, <1>3, <1>4
<1> QED
    BY <1>1, <1>2, <1>3, <1>4, <1>5

LEMMA ElementBytesAre ==
    ASSUME NEW wr \in Langs, NEW f, Block(f)
    PROVE  /\ ElementBytes(wr, f) \in [1 .. Len(f.val) -> Seq(Byte)]
           /\ \A i \in 1 .. Len(f.val) : ElementBytes(wr, f)[i] = WriteFlat(wr, f.val[i])
           /\ \A i \in 1 .. Len(f.val) : Len(ElementBytes(wr, f)[i]) >= 1
<1>1. ASSUME NEW i \in 1 .. Len(f.val)
      PROVE  WriteFlat(wr, f.val[i]) \in Seq(Byte) /\ Len(WriteFlat(wr, f.val[i])) >= 1
  <2> DEFINE e == f.val[i]
             x == WriteFlat(wr, e)
  <2>1. FlatField(e)
      BY ElementsAre
  <2> HIDE DEF e
  <2>2. Headed(wr, FlatTypes, e.tag, x) /\ e.tag \in Byte
      BY <2>1, FlatHeaded DEF FlatField
  <2> HIDE DEF x
  <2>3. x \in Seq(Byte) /\ Len(x) >= 1
      BY <2>2, FlatTypesAre, HeadedIsSeq
  <2> QED
      BY <2>3 DEF x, e
<1> QED
    BY <1>1 DEF ElementBytes

\* The bytes of a map or list.
LEMMA BlockBytes ==
    ASSUME NEW wr \in Langs, NEW f, Block(f)
    PROVE  LET h == WriteHead(wr, BlockType(f), f.tag)
               z == WriteSize(wr, Count(f))
               y == WriteElements(wr, f.val)
           IN  /\ WriteBlock(wr, f) = h \o (z \o y)
               /\ h \in Seq(Byte) /\ z \in Seq(Byte) /\ y \in Seq(Byte) /\ z \o y \in Seq(Byte)
               /\ y = FlattenSeq(ElementBytes(wr, f))
               /\ BlockType(f) \in NotEnd /\ BlockType(f) \in Holders /\ BlockType(f) \in 0 .. 13
<1> DEFINE h == WriteHead(wr, BlockType(f), f.tag)
           z == WriteSize(wr, Count(f))
           y == WriteElements(wr, f.val)
<1>1. BlockType(f) \in NotEnd /\ BlockType(f) \in Holders /\ BlockType(f) \in 0 .. 13
    BY DEF BlockType, NotEnd, Holders, MAP, LIST, STRUCT_END
<1>2. y = FlattenSeq(ElementBytes(wr, f))
    BY DEF WriteElements, ElementBytes
<1>3. Len(f.val) \in Nat /\ IsLength(Count(f)) /\ f.tag \in Byte
    BY ElementsAre DEF Block
<1>4. y \in Seq(Byte)
  <2> DEFINE ws == ElementBytes(wr, f)
             n == Len(f.val)
  <2>1. ws \in [1 .. n -> Seq(Byte)] /\ n \in Nat
      BY <1>3, ElementBytesAre
  <2> HIDE DEF ws, n
  <2>2. FlattenSeq(ws) \in Seq(Byte)
      BY <2>1, FlattenLies
  <2> QED
      BY <1>2, <2>2 DEF ws
<1>5. h \in Seq(Byte) /\ z \in Seq(Byte)
    BY <1>1, <1>3, HeadIsSeq, SizeBytes
<1>6. WriteBlock(wr, f) = (h \o z) \o y
    BY DEF WriteBlock, BlockType, Count
<1> HIDE DEF h, z, y
<1>7. z \o y \in Seq(Byte) /\ (h \o z) \o y = h \o (z \o y)
    BY <1>4, <1>5, JoinThree
<1> QED
    BY <1>1, <1>2, <1>4, <1>5, <1>6, <1>7 DEF h, z, y

\* Where the parts of a map or list lie.
BlockLaid(wr, rd, f, b, p, st) ==
    LET k == HeadLen(f.tag)
        z == WriteSize(wr, Count(f))
    IN  /\ \A t, g, l, v :
             ReadHead(rd, Good(b, p, t, g, l, v)) = Good(b, p + k, BlockType(f), f.tag, k, v)
        /\ k \in Nat /\ k >= 1 /\ Len(z) \in Nat /\ Len(z) >= 1
        /\ Holds(b, p + k, z)
        /\ Lies(b, p + k + Len(z), Len(f.val), ElementBytes(wr, f), st)
        /\ st[Len(f.val) + 1] = p + Len(WriteBlock(wr, f))
        /\ Len(WriteBlock(wr, f)) \in Nat /\ p + Len(WriteBlock(wr, f)) <= Len(b)

LEMMA BlockLies ==
    ASSUME NEW wr \in Langs, NEW rd \in Langs, NEW f, Block(f), TagAgreed(wr, rd, f.tag),
           NEW b \in Seq(Byte), NEW p \in Nat, Holds(b, p, WriteBlock(wr, f))
    PROVE  \E st : BlockLaid(wr, rd, f, b, p, st)
<1> DEFINE ty == BlockType(f)
           tag == f.tag
           k == HeadLen(tag)
           h == WriteHead(wr, ty, tag)
           z == WriteSize(wr, Count(f))
           y == WriteElements(wr, f.val)
           zy == z \o y
           ws == ElementBytes(wr, f)
           n == Len(f.val)
           x == WriteBlock(wr, f)
<1>1. /\ x = h \o zy
      /\ h \in Seq(Byte) /\ z \in Seq(Byte) /\ y \in Seq(Byte) /\ zy \in Seq(Byte)
      /\ y = FlattenSeq(ws) /\ ty \in 0 .. 13
    BY BlockBytes
<1>2. n \in Nat /\ tag \in Byte /\ Len(z) \in Nat /\ Len(z) >= 1
    BY ElementsAre, SizeBytes DEF Block
<1>3. ws \in [1 .. n -> Seq(Byte)]
    BY ElementBytesAre
<1>4. Holds(b, p, x) /\ TagAgreed(wr, rd, tag)
    OBVIOUS
<1>k. k \in Nat /\ k >= 1
    BY DEF HeadLen
<1> HIDE DEF ty, tag, k, z, y, zy, ws, n, x
<1>5. \A t, g, l, v : HeadRead(wr, rd, ty, tag, zy, b, p, Good(b, p, t, g, l, v), v)
  <2> SUFFICES ASSUME NEW t, NEW g, NEW l, NEW v
               PROVE  HeadRead(wr, rd, ty, tag, zy, b, p, Good(b, p, t, g, l, v), v)
      OBVIOUS
  <2>1. /\ wr \in Langs /\ rd \in Langs /\ ty \in 0 .. 13 /\ tag \in Byte
        /\ TagAgreed(wr, rd, tag) /\ zy \in Seq(Byte) /\ b \in Seq(Byte) /\ p \in Nat
        /\ Holds(b, p, WriteHead(wr, ty, tag) \o zy)
      BY <1>1, <1>2, <1>4
  <2> QED
      BY ONLY <2>1, HeadThenRest
<1>6. /\ \A t, g, l, v : ReadHead(rd, Good(b, p, t, g, l, v)) = Good(b, p + k, ty, tag, k, v)
      /\ Holds(b, p + k, zy)
      /\ x \in Seq(Byte) /\ Len(x) = k + Len(zy)
    BY <1>1, <1>5 DEF HeadRead, k
<1>7. Len(zy) = Len(z) + Len(y) /\ Holds(b, p + k, z) /\ Holds(b, p + k + Len(z), y)
  <2> DEFINE q == p + k
  <2>1. q \in Nat /\ Holds(b, q, z \o y)
      BY <1>6, <1>k DEF zy
  <2> HIDE DEF q
  <2>2. Len(z \o y) = Len(z) + Len(y) /\ Holds(b, q, z) /\ Holds(b, q + Len(z), y)
      BY <1>1, <2>1, HoldsParts
  <2> QED
      BY <2>2 DEF q, zy
<1>8. PICK st0 : Lies(y, 0, n, ws, st0) /\ st0[n + 1] = Len(y)
    BY <1>1, <1>2, <1>3, FlattenLies
<1>9. PICK st : /\ Lies(b, p + k + Len(z), n, ws, st)
                /\ st[n + 1] = (p + k + Len(z)) + Len(y)
  <2> DEFINE q == p + k + Len(z)
  <2>1. q \in Nat /\ Holds(b, q, y)
      BY <1>2, <1>7, <1>k
  <2> HIDE DEF q
  <2>2. \E st : Lies(b, q, n, ws, st) /\ st[n + 1] = q + Len(y)
    <3>1. /\ b \in Seq(Byte) /\ q \in Nat /\ y \in Seq(Byte) /\ Holds(b, q, y) /\ n \in Nat
          /\ ws \in [1 .. n -> Seq(Byte)] /\ Lies(y, 0, n, ws, st0) /\ st0[n + 1] = Len(y)
        BY <1>1, <1>2, <1>3, <1>8, <2>1
    <3> QED
        BY ONLY <3>1, LiesWithin
  <2> QED
      BY <2>2 DEF q
<1>10. st[n + 1] = p + Len(x) /\ Len(x) \in Nat
  <2>1. Len(y) \in Nat
      BY <1>1, LenProperties
  <2> QED
      BY <1>2, <1>6, <1>7, <1>9, <1>k, <2>1
<1>11. p + Len(x) <= Len(b)
    BY <1>4 DEF Holds
<1> QED
    BY <1>2, <1>6, <1>7, <1>9, <1>10, <1>11, <1>k DEF BlockLaid, ty, tag, k, z, n, ws, x

LEMMA BlockHeaded ==
    ASSUME NEW wr \in Langs, NEW f, Block(f)
    PROVE  Headed(wr, NotEnd, f.tag, WriteBlock(wr, f))
    BY BlockBytes DEF Headed

\* The elements as the reader sees them.
LEMMA ElementsRead ==
    ASSUME NEW wr \in Langs, NEW rd \in Langs, NEW f, Block(f),
           rd = "cpp" => \A i \in 1 .. Len(f.val) : CppGets(wr, f.val[i]),
           NEW b \in Seq(Byte), NEW q \in Nat,
           NEW st, Lies(b, q, Len(f.val), ElementBytes(wr, f), st),
           NEW i \in 1 .. Len(f.val)
    PROVE  LET e == Elements(f, Count(f))[i]
           IN  /\ e.tag \in Byte
               /\ ShowsHead(rd, NotEnd, e, b, st[i])
               /\ Yields(ReadElement[rd][e][At(b, st[i])], b, st[i + 1], Got(wr, rd, f.val[i]))
<1> DEFINE e == Elements(f, Count(f))[i]
           w == f.val[i]
           x == WriteFlat(wr, w)
           p == st[i]
<1>1. /\ Len(f.val) \in Nat /\ Period(f) \in {1, 2}
      /\ Len(f.val) = Count(f) * Period(f) /\ Count(f) \in Nat
      /\ FlatField(w) /\ w.kind = ElementKind(f) /\ w.tag = (i - 1) % Period(f) /\ w.tag \in {0, 1}
    BY ElementsAre
<1>2. e = [kind |-> ElementKind(f), tag |-> w.tag, val |-> << >>]
  <2>1. i \in 1 .. Count(f) * Period(f)
      BY <1>1
  <2>2. e = [kind |-> ElementKind(f), tag |-> (i - 1) % Period(f), val |-> << >>]
      BY <2>1 DEF Elements
  <2> HIDE DEF e, w
  <2> QED
      BY <1>1, <2>2
<1>3. /\ p \in Nat /\ st[i + 1] = p + Len(x) /\ Holds(b, p, x)
  <2>1. ElementBytes(wr, f)[i] = x /\ i \in 1 .. Len(f.val) + 1
      BY <1>1, ElementBytesAre
  <2> HIDE DEF x
  <2> QED
      BY <2>1 DEF Lies
<1> HIDE DEF e, w, p
<1>4. ElementKind(f) \in {"string", "int"}
    BY DEF ElementKind
<1>5. e.kind = w.kind /\ e.tag = w.tag /\ w.kind \in {"string", "int"} /\ w.tag < 128 /\ w.tag \in Byte
    BY <1>1, <1>2, <1>4 DEF Byte
<1>6. TagAgreed(wr, rd, w.tag) /\ FieldAgreed(wr, rd, w)
    BY <1>5 DEF TagAgreed, FieldAgreed
<1>7. ShowsHead(rd, NotEnd, e, b, p)
  <2>1. Headed(wr, FlatTypes, e.tag, x)
    <3>1. Headed(wr, FlatTypes, w.tag, x)
        BY <1>1, FlatHeaded
    <3> HIDE DEF x
    <3> QED
        BY <1>5, <3>1
  <2> HIDE DEF x
  <2>2. /\ wr \in Langs /\ rd \in Langs /\ FlatTypes \subseteq 0 .. 13 /\ e.tag \in Byte
        /\ TagAgreed(wr, rd, e.tag) /\ Headed(wr, FlatTypes, e.tag, x)
        /\ b \in Seq(Byte) /\ p \in Nat /\ Holds(b, p, x)
      BY <1>3, <1>5, <1>6, <2>1, FlatTypesAre
  <2>3. ShowsHead(rd, FlatTypes, e, b, p)
      BY ONLY <2>2, HeadShown
  <2>4. FlatTypes \subseteq NotEnd
      BY FlatTypesAre
  <2> QED
      BY <2>3, <2>4 DEF ShowsHead
<1>8. Yields(ReadElement[rd][e][At(b, p)], b, p + Len(x), Got(wr, rd, w))
  <2>1. Yields(ReadFlatField(rd, At(b, p), w), b, p + Len(x), Got(wr, rd, w))
    <3>1. rd = "cpp" => CppGets(wr, w)
        BY DEF w
    <3> QED
        BY <1>1, <1>3, <1>6, <3>1, FlatRead DEF At
  <2>2. ReadFlatField(rd, At(b, p), e) = ReadFlatField(rd, At(b, p), w)
    <3>1. \A h : ReadFlat(rd, h, e) = ReadFlat(rd, h, w)
        BY <1>5, Zenon DEF ReadFlat
    <3> QED
        BY <3>1, Zenon DEF ReadFlatField
  <2>3. ReadElement[rd][e][At(b, p)] = ReadFlatField(rd, At(b, p), e)
    <3>1. At(b, p) \in Streams
        BY <1>3, AtIsStream
    <3>2. e \in [kind : {"string", "int"}, tag : {0, 1}, val : {<< >>}]
        BY <1>1, <1>2, <1>4
    <3> DEFINE z == At(b, p)
    <3> HIDE DEF z
    <3> QED
        BY <3>1, <3>2 DEF ReadElement
  <2> HIDE DEF x
  <2> QED
      BY <2>1, <2>2, <2>3
<1> HIDE DEF x
<1>9. Yields(ReadElement[rd][e][At(b, p)], b, st[i + 1], Got(wr, rd, w))
    BY <1>3, <1>8
<1> QED
    BY <1>5, <1>7, <1>9 DEF e, p, w

LEMMA BlockRead ==
    ASSUME NEW wr \in Langs, NEW rd \in Langs, NEW f, Block(f), TagAgreed(wr, rd, f.tag),
           rd = "cpp" => \A i \in 1 .. Len(f.val) : CppGets(wr, f.val[i]),
           NEW b \in Seq(Byte), NEW p \in Nat, Holds(b, p, WriteBlock(wr, f))
    PROVE  Yields(ReadBlock(rd, At(b, p), f), b, p + Len(WriteBlock(wr, f)),
                  [i \in 1 .. Len(f.val) |-> Got(wr, rd, f.val[i])])
<1> DEFINE k == HeadLen(f.tag)
           z == WriteSize(wr, Count(f))
           q == p + k + Len(z)
           n == Len(f.val)
           ws == ElementBytes(wr, f)
           s == At(b, p)
           h == HeadOf(rd, s)
           l == ReadSize(rd, h)
           fs == Elements(f, Count(f))
           one == ReadElement[rd]
           vals == [i \in 1 .. n |-> Got(wr, rd, f.val[i])]
<1>1. PICK st : BlockLaid(wr, rd, f, b, p, st)
    BY BlockLies
<1>2. /\ ReadHead(rd, s) = Good(b, p + k, BlockType(f), f.tag, k, << >>)
      /\ k \in Nat /\ Len(z) \in Nat /\ Holds(b, p + k, z)
      /\ Lies(b, q, n, ws, st) /\ st[n + 1] = p + Len(WriteBlock(wr, f))
    BY <1>1 DEF BlockLaid, At
<1>3. /\ n \in Nat /\ IsLength(Count(f)) /\ Count(f) \in Nat /\ Count(f) <= n
      /\ n = Count(f) * Period(f)
    BY ElementsAre
<1>4. h = Good(b, p + k, BlockType(f), f.tag, k, << >>) /\ h.st = "good" /\ h.type = BlockType(f)
  <2>1. ReadHead(rd, s).st = "good"
      BY <1>2, GoodStream
  <2>2. h = ReadHead(rd, s)
    <3> HIDE DEF s
    <3> QED
        BY <2>1 DEF HeadOf
  <2> HIDE DEF h
  <2> QED
      BY <1>2, <2>2, GoodStream
<1>5. PICK ty, u : l = Good(b, q, ty, 0, 1, u) /\ IntOf(u) = Count(f)
  <2>1. ReadsSize(rd, b, p + k, (p + k) + Len(z), Count(f), BlockType(f), f.tag, k, << >>)
    <3> DEFINE p1 == p + k
               m == Count(f)
    <3>1. p1 \in Nat /\ Holds(b, p1, WriteSize(wr, m)) /\ IsLength(m)
        BY <1>2, <1>3
    <3> HIDE DEF p1, m
    <3>2. \A t1, g1, l1, v1 : ReadsSize(rd, b, p1, p1 + Len(WriteSize(wr, m)), m, t1, g1, l1, v1)
        BY <3>1, SizeRead
    <3> QED
        BY <3>2 DEF p1, m
  <2> HIDE DEF h, z
  <2> QED
      BY <1>4, <2>1 DEF ReadsSize
<1> HIDE DEF h, l, k, z, q
<1>6. l.st = "good" /\ l.val = u /\ l.buf = b /\ Yields(l, b, q, u)
    BY <1>5, GoodStream, GoodYields
<1>7. q \in Nat
    BY <1>2 DEF q
<1>8. /\ ws \in [1 .. n -> Seq(Byte)] /\ \A i \in 1 .. n : Len(ws[i]) >= 1
    BY ElementBytesAre
<1>9. ~ (Count(f) > Len(b)) /\ ~ (Count(f) < 0)
  <2>1. CASE n = 0
      BY <1>3, <2>1, LenProperties
  <2>2. CASE n # 0
    <3> HIDE DEF ws, n
    <3>1. /\ \A i \in 1 .. n + 1 : st[i] \in Nat
          /\ \A i \in 1 .. n : st[i] + ((n + 1) - i) <= Len(b)
        BY <1>2, <1>3, <1>7, <1>8, LiesRoom
    <3>2. 1 \in 1 .. n /\ 1 \in 1 .. n + 1
        BY <1>3, <2>2
    <3>3. st[1] \in Nat /\ st[1] + ((n + 1) - 1) <= Len(b) /\ Len(b) \in Nat
        BY <3>1, <3>2, LenProperties
    <3> QED
        BY <1>3, <3>3
  <2> QED
      BY <2>1, <2>2
<1>10. ReadBlock(rd, s, f) = ReadEach(rd, l, fs, one)
  <2>1. IntOf(l.val) = Count(f)
      BY <1>5, <1>6
  <2>2. h.type = (IF f.kind = "map" THEN MAP ELSE LIST)
      BY <1>4 DEF BlockType
  <2> HIDE DEF s
  <2>3. /\ ~ (HeadOf(rd, s).st # "good") /\ ~ (HeadOf(rd, s).type # (IF f.kind = "map" THEN MAP ELSE LIST))
        /\ ~ (ReadSize(rd, HeadOf(rd, s)).st # "good")
        /\ IntOf(ReadSize(rd, HeadOf(rd, s)).val) = Count(f)
        /\ ReadSize(rd, HeadOf(rd, s)).buf = b /\ ReadSize(rd, HeadOf(rd, s)) = l
      BY <1>4, <1>6, <2>1, <2>2 DEF h, l
  <2> HIDE DEF fs, one
  <2>4. ReadBlock(rd, s, f) = ReadEach(rd, ReadSize(rd, HeadOf(rd, s)), Elements(f, Count(f)), ReadElement[rd])
      BY ONLY <1>9, <2>3, Zenon DEF ReadBlock
  <2> QED
      BY <2>3, <2>4 DEF fs, one
<1>11. Len(fs) = n
    BY <1>3 DEF Elements
<1>12. \A i \in 1 .. n :
         /\ Len(ws[i]) >= 1 /\ fs[i].tag \in Byte
         /\ ShowsHead(rd, NotEnd, fs[i], b, st[i])
         /\ Yields(one[fs[i]][At(b, st[i])], b, st[i + 1], vals[i])
  <2> SUFFICES ASSUME NEW i \in 1 .. n
               PROVE  /\ Len(ws[i]) >= 1 /\ fs[i].tag \in Byte
                      /\ ShowsHead(rd, NotEnd, fs[i], b, st[i])
                      /\ Yields(one[fs[i]][At(b, st[i])], b, st[i + 1], vals[i])
      OBVIOUS
  <2>1. /\ fs[i].tag \in Byte
        /\ ShowsHead(rd, NotEnd, fs[i], b, st[i])
        /\ Yields(one[fs[i]][At(b, st[i])], b, st[i + 1], Got(wr, rd, f.val[i]))
      BY <1>2, <1>7, ElementsRead
  <2>2. vals[i] = Got(wr, rd, f.val[i])
      OBVIOUS
  <2> HIDE DEF fs, one, vals, ws
  <2> QED
      BY <1>8, <2>1, <2>2
<1>13. Yields(ReadEach(rd, l, fs, one), b, st[n + 1], FirstOf(vals, n))
  <2> HIDE DEF fs, one, vals, ws, n
  <2>1. /\ rd \in Langs /\ b \in Seq(Byte) /\ q \in Nat /\ n \in Nat
        /\ ws \in [1 .. n -> Seq(Byte)] /\ Lies(b, q, n, ws, st) /\ Len(fs) = n
        /\ Yields(l, b, q, u) /\ OneReads(rd, b, n, ws, st, fs, one, vals)
      BY <1>2, <1>3, <1>6, <1>7, <1>8, <1>11, <1>12 DEF OneReads
  <2> QED
      BY ONLY <2>1, EachRead
<1>14. FirstOf(vals, n) = vals
    BY DEF FirstOf
<1> HIDE DEF vals, fs, one, n, s
<1>15. Yields(ReadBlock(rd, s, f), b, p + Len(WriteBlock(wr, f)), vals)
    BY <1>2, <1>10, <1>13, <1>14
<1> QED
    BY <1>15 DEF vals, s, n

LEMMA BlockSkip ==
    ASSUME NEW wr \in Langs, NEW f, Block(f), TagAgreed(wr, "java", f.tag),
           NEW b \in Seq(Byte), NEW p \in Nat, Holds(b, p, WriteBlock(wr, f))
    PROVE  SkipsInside(b, p, WriteBlock(wr, f))
<1> DEFINE k == HeadLen(f.tag)
           z == WriteSize(wr, Count(f))
           q == p + k + Len(z)
           n == Len(f.val)
           ws == ElementBytes(wr, f)
           x == WriteBlock(wr, f)
<1>0. "java" \in Langs
    BY DEF Langs
<1>1. PICK st : BlockLaid(wr, "java", f, b, p, st)
    BY <1>0, BlockLies
<1>2. /\ \A t, g, l, v :
           ReadHead("java", Good(b, p, t, g, l, v)) = Good(b, p + k, BlockType(f), f.tag, k, v)
      /\ k \in Nat /\ k >= 1 /\ Len(z) \in Nat /\ Len(z) >= 1 /\ Holds(b, p + k, z)
      /\ Lies(b, q, n, ws, st) /\ st[n + 1] = p + Len(x)
      /\ Len(x) \in Nat /\ p + Len(x) <= Len(b)
    BY <1>1 DEF BlockLaid
<1>3. /\ n \in Nat /\ IsLength(Count(f)) /\ Count(f) \in Nat /\ Count(f) <= n
      /\ n = Count(f) * Period(f)
    BY ElementsAre
<1>4. BlockType(f) \in Holders /\ BlockType(f) # STRUCT_BEGIN
    BY BlockBytes DEF BlockType, MAP, LIST, STRUCT_BEGIN
<1>7. q \in Nat
    BY <1>2
<1>8. /\ ws \in [1 .. n -> Seq(Byte)] /\ \A i \in 1 .. n : Len(ws[i]) >= 1
    BY ElementBytesAre
<1>9. /\ \A i \in 1 .. n + 1 : st[i] \in Nat /\ q + (i - 1) <= st[i]
      /\ \A i \in 1 .. n : st[i] + ((n + 1) - i) <= Len(b)
  <2> HIDE DEF ws, n, q
  <2> QED
      BY <1>2, <1>3, <1>7, <1>8, LiesRoom
<1>10. q + n <= p + Len(x)
  <2>1. n + 1 \in 1 .. n + 1
      BY <1>3
  <2>2. q + ((n + 1) - 1) <= st[n + 1]
      BY <1>9, <2>1
  <2> HIDE DEF q, x, n
  <2> QED
      BY <1>2, <1>3, <1>7, <2>2
<1>11. ~ (Count(f) > Len(b)) /\ ~ (Count(f) < 0) /\ q <= Len(b)
  <2>1. Len(b) \in Nat
      BY LenProperties
  <2> HIDE DEF q, x, n
  <2> QED
      BY <1>2, <1>3, <1>7, <1>10, <2>1
<1>12. \A i \in 1 .. n : Len(ws[i]) >= 1 /\ GoesOver("java", b, st[i], ws[i])
  <2> SUFFICES ASSUME NEW i \in 1 .. n PROVE GoesOver("java", b, st[i], ws[i])
      BY <1>8
  <2> DEFINE w == f.val[i]
             pi == st[i]
  <2>1. FlatField(w) /\ w.kind = ElementKind(f) /\ w.tag \in {0, 1}
      BY ElementsAre
  <2>2. FieldAgreed(wr, "java", w)
      BY <2>1 DEF FieldAgreed, TagAgreed, ElementKind
  <2>3. ws[i] = WriteFlat(wr, w)
      BY ElementBytesAre
  <2>4. pi \in Nat /\ Holds(b, pi, ws[i])
      BY <1>2, <1>9 DEF Lies
  <2> HIDE DEF w, pi, ws
  <2>5. Holds(b, pi, WriteFlat(wr, w))
      BY <2>3, <2>4
  <2>6. GoesOver("java", b, pi, WriteFlat(wr, w))
      BY <2>1, <2>2, <2>4, <2>5, FlatGoesOver
  <2> QED
      BY <2>3, <2>6 DEF pi
<1>13. ASSUME NEW rest \in Seq(Int)
       PROVE  \E m \in 0 .. Len(b) - q + 1 :
                /\ m < Len(x)
                /\ Goes("java", [s |-> At(b, q), todo |-> <<n>> \o rest],
                        [s |-> At(b, p + Len(x)), todo |-> rest], m)
  <2> DEFINE r1 == [s |-> At(b, q), todo |-> <<n>> \o rest]
             r2 == [s |-> At(b, st[n + 1]), todo |-> <<0>> \o rest]
             r3 == [s |-> At(b, st[n + 1]), todo |-> rest]
  <2>1. PICK m \in 0 .. st[n + 1] - q : Goes("java", r1, r2, m)
    <3>1. n \in {n, ToEnd} /\ n # ToEnd
        BY <1>3 DEF ToEnd
    <3>2. \E m \in 0 .. st[n + 1] - q :
            Goes("java", [s |-> At(b, q), todo |-> <<n>> \o rest],
                 [s |-> At(b, st[n + 1]), todo |-> <<IF n = ToEnd THEN ToEnd ELSE 0>> \o rest], m)
      <4> HIDE DEF ws, n, q
      <4>1. /\ "java" \in Langs /\ b \in Seq(Byte) /\ q \in Nat /\ n \in Nat
            /\ ws \in [1 .. n -> Seq(Byte)] /\ Lies(b, q, n, ws, st)
            /\ n \in {n, ToEnd} /\ rest \in Seq(Int)
          BY <1>0, <1>2, <1>3, <1>7, <1>8, <3>1
      <4> QED
          BY ONLY <1>12, <4>1, GoesOverEach
    <3> HIDE DEF n, q
    <3> QED
        BY <3>1, <3>2
  <2>2. Goes("java", r2, r3, 1)
    <3>1. st[n + 1] \in Nat
        BY <1>3, <1>9
    <3>2. SkipPass1("java", r2) = r3
        BY <1>0, <3>1, PassOut
    <3> HIDE DEF r2, r3
    <3> QED
        BY <3>2, GoesOnce
  <2>3. m \in Nat /\ m + 1 \in 0 .. Len(b) - q + 1 /\ m + 1 < Len(x)
    <3>1. Len(b) \in Nat /\ st[n + 1] = p + Len(x)
        BY <1>2, LenProperties
    <3>2. p + k + Len(z) = q
        OBVIOUS
    <3> HIDE DEF q, x, k, z, n
    <3> QED
        BY <1>2, <1>7, <1>11, <2>1, <3>1, <3>2
  <2>4. Goes("java", r1, r3, m + 1)
    <3> HIDE DEF r1, r2, r3
    <3> QED
        BY <2>1, <2>2, <2>3, GoesOn
  <2>5. r3 = [s |-> At(b, p + Len(x)), todo |-> rest]
      BY <1>2
  <2> HIDE DEF r3, x
  <2> QED
      BY <2>3, <2>4, <2>5
<1>14. ASSUME NEW t, NEW g, NEW l, NEW v
       PROVE  LET h == ReadHead("java", Good(b, p, t, g, l, v))
                  i == Inside("java", h)
              IN  /\ h.st = "good" /\ h.type \in Holders
                  /\ \E u : Yields(i.s, b, q, u)
                  /\ i.n = n
  <2> DEFINE h == ReadHead("java", Good(b, p, t, g, l, v))
             y == ReadSize("java", h)
             i == Inside("java", h)
  <2>1. h = Good(b, p + k, BlockType(f), f.tag, k, v) /\ h.st = "good" /\ h.type = BlockType(f)
      BY <1>2, GoodStream
  <2>2. PICK ty, u : y = Good(b, q, ty, 0, 1, u) /\ IntOf(u) = Count(f)
    <3>1. ReadsSize("java", b, p + k, (p + k) + Len(z), Count(f), BlockType(f), f.tag, k, v)
      <4> DEFINE p1 == p + k
                 m == Count(f)
      <4>1. p1 \in Nat /\ Holds(b, p1, WriteSize(wr, m)) /\ IsLength(m)
          BY <1>2, <1>3
      <4> HIDE DEF p1, m
      <4>2. \A t1, g1, l1, v1 :
              ReadsSize("java", b, p1, p1 + Len(WriteSize(wr, m)), m, t1, g1, l1, v1)
          BY <1>0, <4>1, SizeRead
      <4> QED
          BY <4>2 DEF p1, m
    <3> HIDE DEF h, z
    <3> QED
        BY <2>1, <3>1 DEF ReadsSize
  <2> HIDE DEF h, q
  <2>3. y.st = "good" /\ y.val = u /\ y.buf = b /\ Yields(y, b, q, u)
      BY <2>2, GoodStream, GoodYields
  <2>4. SkippedSize("java", h) = y
      BY DEF SkippedSize
  <2> HIDE DEF y
  <2>5. i = [s |-> y, n |-> IF Count(f) < 0 THEN 0 ELSE IF h.type = MAP THEN Count(f) * 2 ELSE Count(f)]
      BY <1>4, <1>11, <2>1, <2>2, <2>3, <2>4 DEF Inside, Counted
  <2>6. n = IF h.type = MAP THEN Count(f) * 2 ELSE Count(f)
    <3>1. h.type = MAP => f.kind = "map"
        BY <2>1 DEF BlockType, MAP, LIST
    <3>2. f.kind = "map" => h.type = MAP
        BY <2>1 DEF BlockType
    <3> QED
        BY <1>3, <3>1, <3>2 DEF Period
  <2> HIDE DEF n
  <2>7. i.s = y /\ i.n = n
      BY <1>11, <2>5, <2>6
  <2> HIDE DEF i
  <2> QED
      BY <1>4, <2>1, <2>3, <2>7 DEF h, i
<1> HIDE DEF x, q, n
<1>15. SkipsInside(b, p, x)
  <2> SUFFICES ASSUME NEW t, NEW g, NEW l, NEW v
               PROVE  LET h == ReadHead("java", Good(b, p, t, g, l, v))
                          i == Inside("java", h)
                      IN  /\ h.st = "good" /\ h.type \in Holders
                          /\ \E q1, u :
                               /\ q1 \in Nat /\ Yields(i.s, b, q1, u) /\ q1 <= Len(b) /\ i.n \in Int
                               /\ \A rest \in Seq(Int) : \E k1 \in 0 .. Len(b) - q1 + 1 :
                                    /\ k1 < Len(x)
                                    /\ Goes("java", [s |-> At(b, q1), todo |-> <<i.n>> \o rest],
                                            [s |-> At(b, p + Len(x)), todo |-> rest], k1)
      BY DEF SkipsInside
  <2> DEFINE h == ReadHead("java", Good(b, p, t, g, l, v))
             i == Inside("java", h)
  <2>1. /\ h.st = "good" /\ h.type \in Holders
        /\ \E u : Yields(i.s, b, q, u)
        /\ i.n = n
      BY <1>14
  <2> HIDE DEF h, i
  <2>2. i.n \in Int
      BY <1>3, <2>1
  <2>3. \E q1, u :
          /\ q1 \in Nat /\ Yields(i.s, b, q1, u) /\ q1 <= Len(b) /\ i.n \in Int
          /\ \A rest \in Seq(Int) : \E k1 \in 0 .. Len(b) - q1 + 1 :
               /\ k1 < Len(x)
               /\ Goes("java", [s |-> At(b, q1), todo |-> <<i.n>> \o rest],
                       [s |-> At(b, p + Len(x)), todo |-> rest], k1)
      BY <1>7, <1>11, <1>13, <2>1, <2>2
  <2> QED
      BY <2>1, <2>3 DEF h, i
<1> QED
    BY <1>15 DEF x


-----------------------------------------------------------------------------
(***************************************************************************)
(* Structs, whose members are written and read by one each                 *)
(***************************************************************************)
EndTag(wr, f) == IF wr = "cpp" THEN f.tag ELSE 0
MemberBytes(f, one) == [i \in 1 .. Len(f.val) |-> one[f.val[i]]]
StructBytes(wr, f, one) ==
    WriteHead(wr, STRUCT_BEGIN, f.tag) \o FlattenSeq(MemberBytes(f, one))
      \o WriteHead(wr, STRUCT_END, EndTag(wr, f))

\* A struct each of whose members is written with a head in front.
Struct(wr, f, one) ==
    /\ f.tag \in Byte /\ Len(f.val) \in Nat
    /\ \A i \in 1 .. Len(f.val) :
         f.val[i].tag \in Byte /\ Headed(wr, NotEnd, f.val[i].tag, one[f.val[i]])

LEMMA StructTypes ==
    /\ STRUCT_BEGIN \in NotEnd /\ STRUCT_BEGIN \in Holders /\ STRUCT_BEGIN \in 0 .. 13
    /\ STRUCT_END \notin Holders /\ STRUCT_END \in 0 .. 13 /\ NotEnd \subseteq 0 .. 13
    BY DEF NotEnd, Holders, MAP, LIST, STRUCT_BEGIN, STRUCT_END

LEMMA MemberBytesAre ==
    ASSUME NEW wr \in Langs, NEW f, NEW one, Struct(wr, f, one)
    PROVE  /\ MemberBytes(f, one) \in [1 .. Len(f.val) -> Seq(Byte)]
           /\ \A i \in 1 .. Len(f.val) :
                MemberBytes(f, one)[i] = one[f.val[i]] /\ Len(MemberBytes(f, one)[i]) >= 1
<1>1. ASSUME NEW i \in 1 .. Len(f.val)
      PROVE  one[f.val[i]] \in Seq(Byte) /\ Len(one[f.val[i]]) >= 1
  <2> DEFINE m == f.val[i]
             x == one[m]
  <2>1. m.tag \in Byte /\ Headed(wr, NotEnd, m.tag, x)
      BY DEF Struct
  <2> HIDE DEF m, x
  <2>2. x \in Seq(Byte) /\ Len(x) >= 1
      BY <2>1, StructTypes, HeadedIsSeq
  <2> QED
      BY <2>2 DEF m, x
<1> QED
    BY <1>1 DEF MemberBytes

LEMMA EndTagAgrees ==
    ASSUME NEW wr \in Langs, NEW rd \in Langs, NEW f, f.tag \in Byte, TagAgreed(wr, rd, f.tag)
    PROVE  EndTag(wr, f) \in Byte /\ TagAgreed(wr, rd, EndTag(wr, f))
    BY DEF EndTag, TagAgreed, Byte

\* The bytes of a struct.
LEMMA StructBytesAre ==
    ASSUME NEW wr \in Langs, NEW f, NEW one, Struct(wr, f, one)
    PROVE  LET h == WriteHead(wr, STRUCT_BEGIN, f.tag)
               y == FlattenSeq(MemberBytes(f, one))
               e == WriteHead(wr, STRUCT_END, EndTag(wr, f))
           IN  /\ StructBytes(wr, f, one) = h \o (y \o e)
               /\ h \in Seq(Byte) /\ y \in Seq(Byte) /\ e \in Seq(Byte) /\ y \o e \in Seq(Byte)
<1> DEFINE h == WriteHead(wr, STRUCT_BEGIN, f.tag)
           ws == MemberBytes(f, one)
           n == Len(f.val)
           y == FlattenSeq(ws)
           e == WriteHead(wr, STRUCT_END, EndTag(wr, f))
<1>1. f.tag \in Byte /\ EndTag(wr, f) \in Byte /\ n \in Nat
    BY DEF Struct, EndTag, Byte
<1>2. h \in Seq(Byte) /\ e \in Seq(Byte)
    BY <1>1, StructTypes, HeadIsSeq
<1>3. y \in Seq(Byte)
  <2>1. ws \in [1 .. n -> Seq(Byte)]
      BY MemberBytesAre
  <2> HIDE DEF ws, n
  <2> QED
      BY <1>1, <2>1, FlattenLies
<1>4. StructBytes(wr, f, one) = (h \o y) \o e
    BY DEF StructBytes
<1> HIDE DEF h, y, e
<1>5. y \o e \in Seq(Byte) /\ (h \o y) \o e = h \o (y \o e)
    BY <1>2, <1>3, JoinThree
<1> QED
    BY <1>2, <1>3, <1>4, <1>5 DEF h, y, e, ws

LEMMA StructHeaded ==
    ASSUME NEW wr \in Langs, NEW f, NEW one, Struct(wr, f, one)
    PROVE  Headed(wr, NotEnd, f.tag, StructBytes(wr, f, one))
    BY StructBytesAre, StructTypes DEF Headed

\* Where the parts of a struct lie.
StructLaid(wr, rd, f, one, b, p, st) ==
    LET k == HeadLen(f.tag)
        n == Len(f.val)
        e == EndTag(wr, f)
        x == StructBytes(wr, f, one)
    IN  /\ \A t, g, l, v :
             ReadHead(rd, Good(b, p, t, g, l, v)) = Good(b, p + k, STRUCT_BEGIN, f.tag, k, v)
        /\ k \in Nat /\ k >= 1
        /\ Lies(b, p + k, n, MemberBytes(f, one), st)
        /\ \A t, g, l, v : ReadHead(rd, Good(b, st[n + 1], t, g, l, v))
                             = Good(b, p + Len(x), STRUCT_END, e, HeadLen(e), v)
        /\ Len(x) \in Nat /\ p + Len(x) <= Len(b) /\ st[n + 1] < p + Len(x)

LEMMA StructLies ==
    ASSUME NEW wr \in Langs, NEW rd \in Langs, NEW f, NEW one, Struct(wr, f, one),
           TagAgreed(wr, rd, f.tag),
           NEW b \in Seq(Byte), NEW p \in Nat, Holds(b, p, StructBytes(wr, f, one))
    PROVE  \E st : StructLaid(wr, rd, f, one, b, p, st)
<1> DEFINE tag == f.tag
           k == HeadLen(tag)
           h == WriteHead(wr, STRUCT_BEGIN, tag)
           ws == MemberBytes(f, one)
           n == Len(f.val)
           y == FlattenSeq(ws)
           et == EndTag(wr, f)
           ek == HeadLen(et)
           e == WriteHead(wr, STRUCT_END, et)
           ye == y \o e
           x == StructBytes(wr, f, one)
<1>1. /\ x = h \o ye
      /\ h \in Seq(Byte) /\ y \in Seq(Byte) /\ e \in Seq(Byte) /\ ye \in Seq(Byte)
    BY StructBytesAre
<1>2. n \in Nat /\ tag \in Byte /\ et \in Byte /\ TagAgreed(wr, rd, et)
    BY EndTagAgrees DEF Struct
<1>3. ws \in [1 .. n -> Seq(Byte)]
    BY MemberBytesAre
<1>4. Holds(b, p, x) /\ TagAgreed(wr, rd, tag)
    OBVIOUS
<1>k. k \in Nat /\ k >= 1 /\ ek \in Nat /\ ek >= 1
    BY DEF HeadLen
<1>y. y = FlattenSeq(ws)
    OBVIOUS
<1> HIDE DEF tag, k, h, ws, n, y, et, ek, e, ye, x
<1>5. \A t, g, l, v : HeadRead(wr, rd, STRUCT_BEGIN, tag, ye, b, p, Good(b, p, t, g, l, v), v)
  <2> SUFFICES ASSUME NEW t, NEW g, NEW l, NEW v
               PROVE  HeadRead(wr, rd, STRUCT_BEGIN, tag, ye, b, p, Good(b, p, t, g, l, v), v)
      OBVIOUS
  <2>1. /\ wr \in Langs /\ rd \in Langs /\ STRUCT_BEGIN \in 0 .. 13 /\ tag \in Byte
        /\ TagAgreed(wr, rd, tag) /\ ye \in Seq(Byte) /\ b \in Seq(Byte) /\ p \in Nat
        /\ Holds(b, p, WriteHead(wr, STRUCT_BEGIN, tag) \o ye)
      BY <1>1, <1>2, <1>4, StructTypes DEF h
  <2> QED
      BY ONLY <2>1, HeadThenRest
<1>6. /\ \A t, g, l, v : ReadHead(rd, Good(b, p, t, g, l, v)) = Good(b, p + k, STRUCT_BEGIN, tag, k, v)
      /\ Holds(b, p + k, ye)
      /\ x \in Seq(Byte) /\ Len(x) = k + Len(ye)
    BY <1>1, <1>5 DEF HeadRead, k, h
<1>7. Len(ye) = Len(y) + Len(e) /\ Holds(b, p + k, y) /\ Holds(b, p + k + Len(y), e)
  <2> DEFINE q == p + k
  <2>1. q \in Nat /\ Holds(b, q, y \o e)
      BY <1>6, <1>k DEF ye
  <2> HIDE DEF q
  <2>2. Len(y \o e) = Len(y) + Len(e) /\ Holds(b, q, y) /\ Holds(b, q + Len(y), e)
      BY <1>1, <2>1, HoldsParts
  <2> QED
      BY <2>2 DEF q, ye
<1>8. PICK st0 : Lies(y, 0, n, ws, st0) /\ st0[n + 1] = Len(y)
    BY <1>2, <1>3, <1>y, FlattenLies
<1>9. PICK st : Lies(b, p + k, n, ws, st) /\ st[n + 1] = (p + k) + Len(y)
  <2> DEFINE q == p + k
  <2>1. q \in Nat /\ Holds(b, q, y)
      BY <1>7, <1>k
  <2> HIDE DEF q
  <2>2. \E st : Lies(b, q, n, ws, st) /\ st[n + 1] = q + Len(y)
    <3>1. /\ b \in Seq(Byte) /\ q \in Nat /\ y \in Seq(Byte) /\ Holds(b, q, y) /\ n \in Nat
          /\ ws \in [1 .. n -> Seq(Byte)] /\ Lies(y, 0, n, ws, st0) /\ st0[n + 1] = Len(y)
        BY <1>1, <1>2, <1>3, <1>8, <2>1
    <3> QED
        BY ONLY <3>1, LiesWithin
  <2> QED
      BY <2>2 DEF q
<1> DEFINE q == st[n + 1]
<1>10. q \in Nat /\ Len(y) \in Nat /\ Holds(b, q, e)
  <2>1. Len(y) \in Nat
      BY <1>1, LenProperties
  <2> QED
      BY <1>7, <1>9, <1>k, <2>1
<1>11. /\ \A t, g, l, v : ReadHead(rd, Good(b, q, t, g, l, v)) = Good(b, q + ek, STRUCT_END, et, ek, v)
       /\ Len(e) = ek
  <2> HIDE DEF q
  <2>1. \A t, g, l, v : HeadRead(wr, rd, STRUCT_END, et, << >>, b, q, Good(b, q, t, g, l, v), v)
    <3> SUFFICES ASSUME NEW t, NEW g, NEW l, NEW v
                 PROVE  HeadRead(wr, rd, STRUCT_END, et, << >>, b, q, Good(b, q, t, g, l, v), v)
        OBVIOUS
    <3>1. << >> \in Seq(Byte) /\ e \o << >> = e
        BY <1>1, ConcatEmptySeq
    <3> DEFINE none == << >>
    <3>2. none \in Seq(Byte) /\ Holds(b, q, WriteHead(wr, STRUCT_END, et) \o none)
        BY <1>10, <3>1 DEF e
    <3> HIDE DEF none
    <3>3. /\ wr \in Langs /\ rd \in Langs /\ STRUCT_END \in 0 .. 13 /\ et \in Byte
          /\ TagAgreed(wr, rd, et) /\ none \in Seq(Byte) /\ b \in Seq(Byte) /\ q \in Nat
          /\ Holds(b, q, WriteHead(wr, STRUCT_END, et) \o none)
        BY <1>2, <1>10, <3>2, StructTypes
    <3>4. HeadRead(wr, rd, STRUCT_END, et, none, b, q, Good(b, q, t, g, l, v), v)
        BY ONLY <3>3, HeadThenRest
    <3> QED
        BY <3>4 DEF none
  <2>2. e \o << >> = e /\ Len(<< >>) = 0
      BY <1>1, ConcatEmptySeq
  <2>3. Len(e \o << >>) = ek + Len(<< >>)
      BY <2>1 DEF HeadRead, e, ek
  <2>4. Len(e) = ek
      BY <1>k, <2>2, <2>3
  <2>5. \A t, g, l, v : ReadHead(rd, Good(b, q, t, g, l, v)) = Good(b, q + ek, STRUCT_END, et, ek, v)
      BY <2>1 DEF HeadRead, ek
  <2> QED
      BY <2>4, <2>5
<1>12. Len(x) \in Nat /\ q + ek = p + Len(x) /\ q < p + Len(x)
  <2> HIDE DEF q
  <2>1. q = (p + k) + Len(y)
      BY <1>9 DEF q
  <2> QED
      BY <1>6, <1>7, <1>10, <1>11, <1>k, <2>1
<1>13. p + Len(x) <= Len(b)
    BY <1>4 DEF Holds
<1>14. \A t, g, l, v : ReadHead(rd, Good(b, q, t, g, l, v)) = Good(b, p + Len(x), STRUCT_END, et, ek, v)
    BY <1>11, <1>12
<1> QED
    BY <1>6, <1>9, <1>12, <1>13, <1>14, <1>k DEF StructLaid, tag, k, n, ws, et, ek, x

\* The head that ends a struct ends a loop up to STRUCT_END.
LEMMA EndSkipped ==
    ASSUME NEW lang \in Langs, NEW b \in Seq(Byte), NEW q \in 0 .. Len(b), NEW r, NEW tag, NEW k,
           ReadHead(lang, At(b, q)) = Good(b, r, STRUCT_END, tag, k, << >>),
           NEW rest \in Seq(Int)
    PROVE  Goes(lang, [s |-> At(b, q), todo |-> <<ToEnd>> \o rest], [s |-> At(b, r), todo |-> rest], 1)
<1> DEFINE h == ReadHead(lang, At(b, q))
           a == SkipPass1(lang, [s |-> At(b, q), todo |-> <<ToEnd>> \o rest])
           left == LeftIn(ToEnd, h.type, rest)
           f == SkipFlat(lang, h)
<1>1. h.st = "good" /\ h.type = STRUCT_END
    BY GoodStream
<1>2. PassedHere(lang, b, q, ToEnd, rest)
  <2>1. /\ lang \in Langs /\ b \in Seq(Byte) /\ q \in 0 .. Len(b) /\ rest \in Seq(Int)
        /\ (ToEnd = ToEnd \/ ToEnd \in 1 .. Len(b) - q) /\ ReadHead(lang, At(b, q)).st = "good"
      BY <1>1
  <2> QED
      BY ONLY <2>1, PassHere
<1>3. h.type \notin Holders => a = [s |-> Forget(f), todo |-> left]
    BY <1>2 DEF PassedHere
<1>4. left = rest
    BY <1>1 DEF LeftIn
<1>5. f = h
  <2>1. STRUCT_END \notin DOMAIN FixedSize /\ STRUCT_END # STRING1 /\ STRUCT_END # STRING4
        /\ STRUCT_END # SIMPLE_LIST
      BY DEF FixedSize, STRUCT_END, STRING1, STRING4, SIMPLE_LIST, BYTE, SHORT, INT, LONG, FLOAT, DOUBLE
  <2> HIDE DEF h
  <2> QED
      BY <1>1, <2>1, Zenon DEF SkipFlat
<1>6. Forget(h) = At(b, r)
    BY Forgotten
<1> HIDE DEF h, left, f
<1>7. a = [s |-> At(b, r), todo |-> rest]
    BY <1>1, <1>3, <1>4, <1>5, <1>6, StructTypes
<1> HIDE DEF a
<1> QED
    BY <1>7, GoesOnce DEF a

\* r reads back each member that w wrote.
MembersRead(wr, rd, f, w, r, vals, b) ==
    \A i \in 1 .. Len(f.val) :
      /\ TagAgreed(wr, rd, f.val[i].tag)
      /\ \A p \in Nat : Holds(b, p, w[f.val[i]]) =>
           Yields(r[f.val[i]][At(b, p)], b, p + Len(w[f.val[i]]), vals[i])

LEMMA MembersReady ==
    ASSUME NEW wr \in Langs, NEW rd \in Langs, NEW f, NEW w, NEW r, NEW vals, Struct(wr, f, w),
           NEW b \in Seq(Byte), MembersRead(wr, rd, f, w, r, vals, b),
           NEW q \in Nat, NEW st, Lies(b, q, Len(f.val), MemberBytes(f, w), st)
    PROVE  OneReads(rd, b, Len(f.val), MemberBytes(f, w), st, f.val, r, vals)
<1> DEFINE n == Len(f.val)
           ws == MemberBytes(f, w)
<1> SUFFICES ASSUME NEW i \in 1 .. n
             PROVE  /\ Len(ws[i]) >= 1 /\ f.val[i].tag \in Byte
                    /\ ShowsHead(rd, NotEnd, f.val[i], b, st[i])
                    /\ Yields(r[f.val[i]][At(b, st[i])], b, st[i + 1], vals[i])
    BY DEF OneReads
<1> DEFINE m == f.val[i]
           x == w[m]
           p == st[i]
<1>1. n \in Nat /\ m.tag \in Byte /\ Headed(wr, NotEnd, m.tag, x)
    BY DEF Struct
<1>2. ws[i] = x /\ Len(x) >= 1
  <2>1. /\ \A j \in 1 .. n : ws[j] = w[f.val[j]] /\ Len(ws[j]) >= 1
      BY MemberBytesAre
  <2> HIDE DEF ws
  <2> QED
      BY <2>1
<1>3. p \in Nat /\ Holds(b, p, x) /\ st[i + 1] = p + Len(x)
  <2>1. i \in 1 .. n + 1
      BY <1>1
  <2> HIDE DEF n, x
  <2> QED
      BY <1>2, <2>1 DEF Lies, n
<1>4. TagAgreed(wr, rd, m.tag)
      /\ (Holds(b, p, x) => Yields(r[m][At(b, p)], b, p + Len(x), vals[i]))
  <2> HIDE DEF p
  <2> QED
      BY <1>3 DEF MembersRead
<1> HIDE DEF m, x, p
<1>5. ShowsHead(rd, NotEnd, m, b, p)
    BY <1>1, <1>3, <1>4, StructTypes, HeadShown
<1>6. Yields(r[m][At(b, p)], b, st[i + 1], vals[i])
    BY <1>3, <1>4
<1> QED
    BY <1>1, <1>2, <1>5, <1>6 DEF m, p

LEMMA StructRead ==
    ASSUME NEW wr \in Langs, NEW rd \in Langs, NEW f, NEW w, NEW r, NEW vals, Struct(wr, f, w),
           TagAgreed(wr, rd, f.tag),
           NEW b \in Seq(Byte), MembersRead(wr, rd, f, w, r, vals, b),
           NEW p \in Nat, Holds(b, p, StructBytes(wr, f, w))
    PROVE  LET h == HeadOf(rd, At(b, p))
           IN  /\ h.st = "good" /\ h.type = STRUCT_BEGIN
               /\ Yields(EndStruct(rd, ReadEach(rd, h, f.val, r)), b,
                         p + Len(StructBytes(wr, f, w)), FirstOf(vals, Len(f.val)))
<1> DEFINE k == HeadLen(f.tag)
           n == Len(f.val)
           ws == MemberBytes(f, w)
           e == EndTag(wr, f)
           x == StructBytes(wr, f, w)
           s == At(b, p)
           h == HeadOf(rd, s)
           v == FirstOf(vals, n)
           y == ReadEach(rd, h, f.val, r)
<1>1. PICK st : StructLaid(wr, rd, f, w, b, p, st)
    BY StructLies
<1> DEFINE q == st[n + 1]
<1>2. /\ ReadHead(rd, s) = Good(b, p + k, STRUCT_BEGIN, f.tag, k, << >>)
      /\ k \in Nat /\ Lies(b, p + k, n, ws, st)
      /\ ReadHead(rd, At(b, q)) = Good(b, p + Len(x), STRUCT_END, e, HeadLen(e), << >>)
      /\ Len(x) \in Nat /\ p + Len(x) <= Len(b) /\ q < p + Len(x)
    BY <1>1 DEF StructLaid, At
<1>3. h = Good(b, p + k, STRUCT_BEGIN, f.tag, k, << >>) /\ h.st = "good" /\ h.type = STRUCT_BEGIN
  <2>1. ReadHead(rd, s).st = "good"
      BY <1>2, GoodStream
  <2>2. h = ReadHead(rd, s)
    <3> HIDE DEF s
    <3> QED
        BY <2>1 DEF HeadOf
  <2> HIDE DEF h
  <2> QED
      BY <1>2, <2>2, GoodStream
<1> HIDE DEF h, k, x, e
<1>4. n \in Nat /\ ws \in [1 .. n -> Seq(Byte)] /\ p + k \in Nat /\ Yields(h, b, p + k, << >>)
  <2>1. n \in Nat
      BY DEF Struct
  <2>2. Yields(h, b, p + k, << >>)
      BY <1>3, GoodYields
  <2> QED
      BY <1>2, <2>1, <2>2, MemberBytesAre
<1>5. q \in 0 .. Len(b)
  <2>1. q \in Nat
    <3>1. st \in [1 .. n + 1 -> Nat] /\ n + 1 \in 1 .. n + 1
        BY <1>2, <1>4 DEF Lies
    <3> HIDE DEF n
    <3> QED
        BY <3>1
  <2> HIDE DEF q
  <2> QED
      BY <1>2, <2>1, LenProperties
<1>6. OneReads(rd, b, n, ws, st, f.val, r, vals)
    BY <1>2, <1>4, MembersReady
<1>7. Yields(y, b, q, v)
  <2> DEFINE c == p + k
             fs == f.val
  <2>1. /\ rd \in Langs /\ b \in Seq(Byte) /\ c \in Nat /\ n \in Nat
        /\ ws \in [1 .. n -> Seq(Byte)] /\ Lies(b, c, n, ws, st) /\ Len(fs) = n
        /\ Yields(h, b, c, << >>) /\ OneReads(rd, b, n, ws, st, fs, r, vals)
      BY <1>2, <1>4, <1>6
  <2> HIDE DEF c, fs, n, ws
  <2>2. Yields(ReadEach(rd, h, fs, r), b, st[n + 1], FirstOf(vals, n))
      BY ONLY <2>1, EachRead
  <2> QED
      BY <2>2 DEF fs
<1> HIDE DEF y, q, v
<1>8. y.st = "good" /\ y.val = v /\ Forget(y) = At(b, q) /\ y.pos = q /\ y.buf = b
    BY <1>7, ForgetYields
<1>9. SkipToStructEnd(rd, y) = At(b, p + Len(x))
  <2>1. << >> \in Seq(Int) /\ <<ToEnd>> \o << >> = <<ToEnd>>
      BY DEF ToEnd
  <2>2. Goes(rd, [s |-> At(b, q), todo |-> <<ToEnd>>], [s |-> At(b, p + Len(x)), todo |-> << >>], 1)
      BY <1>2, <1>5, <2>1, EndSkipped
  <2>3. Passes(y) \in Nat /\ 1 \in 0 .. Passes(y)
    <3>1. Len(b) \in Nat
        BY LenProperties
    <3> QED
        BY <1>5, <1>8, <3>1 DEF Passes
  <2>4. SkipMany(rd, y, ToEnd) = At(b, p + Len(x))
      BY <1>8, <2>2, <2>3, SkipManyGoes
  <2> QED
      BY <2>4 DEF SkipToStructEnd
<1>10. EndStruct(rd, y) = Value(At(b, p + Len(x)), v)
    BY <1>8, <1>9 DEF EndStruct
<1>11. Yields(At(b, p + Len(x)), b, p + Len(x), << >>)
    BY GoodYields DEF At
<1>12. Yields(EndStruct(rd, y), b, p + Len(x), v)
    BY <1>10, <1>11, ValueYields
<1> QED
    BY <1>3, <1>12 DEF h, x, y, v, s

\* Java's loops pass over each member that w wrote.
MembersSkipped(f, w, b) ==
    \A i \in 1 .. Len(f.val) : \A p \in Nat :
      Holds(b, p, w[f.val[i]]) => GoesOver("java", b, p, w[f.val[i]])

LEMMA StructSkip ==
    ASSUME NEW wr \in Langs, NEW f, NEW w, Struct(wr, f, w), TagAgreed(wr, "java", f.tag),
           NEW b \in Seq(Byte), MembersSkipped(f, w, b),
           NEW p \in Nat, Holds(b, p, StructBytes(wr, f, w))
    PROVE  SkipsInside(b, p, StructBytes(wr, f, w))
<1> DEFINE k == HeadLen(f.tag)
           n == Len(f.val)
           ws == MemberBytes(f, w)
           e == EndTag(wr, f)
           x == StructBytes(wr, f, w)
           q == p + k
<1>0. "java" \in Langs /\ "java" # "cpp"
    BY DEF Langs
<1>1. PICK st : StructLaid(wr, "java", f, w, b, p, st)
    BY <1>0, StructLies
<1> DEFINE u == st[n + 1]
<1>2. /\ \A t, g, l, v :
           ReadHead("java", Good(b, p, t, g, l, v)) = Good(b, q, STRUCT_BEGIN, f.tag, k, v)
      /\ k \in Nat /\ k >= 1 /\ Lies(b, q, n, ws, st)
      /\ ReadHead("java", At(b, u)) = Good(b, p + Len(x), STRUCT_END, e, HeadLen(e), << >>)
      /\ Len(x) \in Nat /\ p + Len(x) <= Len(b) /\ u < p + Len(x)
    BY <1>1 DEF StructLaid, At
<1>3. /\ n \in Nat /\ ws \in [1 .. n -> Seq(Byte)] /\ q \in Nat
      /\ \A i \in 1 .. n : ws[i] = w[f.val[i]] /\ Len(ws[i]) >= 1
  <2>1. n \in Nat
      BY DEF Struct
  <2>2. q \in Nat
      BY <1>2
  <2> QED
      BY <2>1, <2>2, MemberBytesAre
<1>4. /\ \A i \in 1 .. n + 1 : st[i] \in Nat /\ q + (i - 1) <= st[i]
  <2> HIDE DEF ws, n, q
  <2> QED
      BY <1>2, <1>3, LiesRoom
<1>5. u \in 0 .. Len(b) /\ q <= u /\ q <= Len(b)
  <2>1. n + 1 \in 1 .. n + 1
      BY <1>3
  <2>2. u \in Nat /\ q + ((n + 1) - 1) <= u
      BY <1>4, <2>1
  <2>3. Len(b) \in Nat
      BY LenProperties
  <2> HIDE DEF u, n, q, x
  <2> QED
      BY <1>2, <1>3, <2>2, <2>3
<1>6. \A i \in 1 .. n : Len(ws[i]) >= 1 /\ GoesOver("java", b, st[i], ws[i])
  <2> SUFFICES ASSUME NEW i \in 1 .. n PROVE GoesOver("java", b, st[i], ws[i])
      BY <1>3
  <2>1. st[i] \in Nat /\ Holds(b, st[i], ws[i]) /\ ws[i] = w[f.val[i]]
    <3>1. i \in 1 .. n + 1
        BY <1>3
    <3> HIDE DEF ws
    <3> QED
        BY <1>2, <1>3, <1>4, <3>1 DEF Lies
  <2> HIDE DEF ws
  <2> QED
      BY <2>1 DEF MembersSkipped
<1>7. ASSUME NEW rest \in Seq(Int)
      PROVE  \E m \in 0 .. Len(b) - q + 1 :
               /\ m < Len(x)
               /\ Goes("java", [s |-> At(b, q), todo |-> <<ToEnd>> \o rest],
                       [s |-> At(b, p + Len(x)), todo |-> rest], m)
  <2> DEFINE r1 == [s |-> At(b, q), todo |-> <<ToEnd>> \o rest]
             r2 == [s |-> At(b, u), todo |-> <<ToEnd>> \o rest]
             r3 == [s |-> At(b, p + Len(x)), todo |-> rest]
  <2>1. PICK m \in 0 .. u - q : Goes("java", r1, r2, m)
    <3>1. \E m \in 0 .. st[n + 1] - q :
            Goes("java", [s |-> At(b, q), todo |-> <<ToEnd>> \o rest],
                 [s |-> At(b, st[n + 1]),
                  todo |-> <<IF ToEnd = ToEnd THEN ToEnd ELSE 0>> \o rest], m)
      <4> HIDE DEF ws, n, q
      <4>1. /\ "java" \in Langs /\ b \in Seq(Byte) /\ q \in Nat /\ n \in Nat
            /\ ws \in [1 .. n -> Seq(Byte)] /\ Lies(b, q, n, ws, st)
            /\ ToEnd \in {n, ToEnd} /\ rest \in Seq(Int)
          BY <1>0, <1>2, <1>3
      <4> QED
          BY ONLY <1>6, <4>1, GoesOverEach
    <3> HIDE DEF n, q
    <3> QED
        BY <3>1
  <2>2. Goes("java", r2, r3, 1)
    <3> HIDE DEF u, x
    <3> QED
        BY <1>0, <1>2, <1>5, EndSkipped
  <2>3. m \in Nat /\ m + 1 \in 0 .. Len(b) - q + 1 /\ m + 1 < Len(x)
    <3>1. Len(b) \in Nat /\ p + k = q
        BY LenProperties
    <3>2. /\ k \in Nat /\ k >= 1 /\ Len(x) \in Nat /\ u < p + Len(x) /\ q \in Nat
          /\ u \in 0 .. Len(b) /\ q <= u /\ m \in 0 .. u - q
        BY <1>2, <1>3, <1>5, <2>1
    <3> HIDE DEF q, x, k, u
    <3> DEFINE lb == Len(b)
               lx == Len(x)
    <3>3. lb \in Nat /\ lx \in Nat /\ u < p + lx /\ u \in 0 .. lb
        BY <3>1, <3>2
    <3> HIDE DEF lb, lx
    <3>4. m \in Nat /\ m + 1 \in 0 .. lb - q + 1 /\ m + 1 < lx
        BY <3>1, <3>2, <3>3
    <3> QED
        BY <3>4 DEF lb, lx
  <2>4. Goes("java", r1, r3, m + 1)
    <3> HIDE DEF r1, r2, r3
    <3> QED
        BY <2>1, <2>2, <2>3, GoesOn
  <2> QED
      BY <2>3, <2>4
<1>8. ASSUME NEW t, NEW g, NEW l, NEW v
      PROVE  LET h == ReadHead("java", Good(b, p, t, g, l, v))
                 i == Inside("java", h)
             IN  /\ h.st = "good" /\ h.type \in Holders
                 /\ Yields(i.s, b, q, v)
                 /\ i.n = ToEnd
  <2> DEFINE h == ReadHead("java", Good(b, p, t, g, l, v))
             i == Inside("java", h)
  <2>1. h = Good(b, q, STRUCT_BEGIN, f.tag, k, v) /\ h.st = "good" /\ h.type = STRUCT_BEGIN
      BY <1>2, GoodStream
  <2>2. Yields(h, b, q, v)
      BY <2>1, GoodYields
  <2> HIDE DEF h
  <2>3. i = [s |-> h, n |-> ToEnd]
      BY <1>0, <2>1 DEF Inside
  <2>4. i.s = h /\ i.n = ToEnd
      BY <2>3
  <2> QED
      BY <2>1, <2>2, <2>4, StructTypes DEF h
<1> HIDE DEF x, q
<1>9. SkipsInside(b, p, x)
  <2> SUFFICES ASSUME NEW t, NEW g, NEW l, NEW v
               PROVE  LET h == ReadHead("java", Good(b, p, t, g, l, v))
                          i == Inside("java", h)
                      IN  /\ h.st = "good" /\ h.type \in Holders
                          /\ \E q1, u1 :
                               /\ q1 \in Nat /\ Yields(i.s, b, q1, u1) /\ q1 <= Len(b) /\ i.n \in Int
                               /\ \A rest \in Seq(Int) : \E k1 \in 0 .. Len(b) - q1 + 1 :
                                    /\ k1 < Len(x)
                                    /\ Goes("java", [s |-> At(b, q1), todo |-> <<i.n>> \o rest],
                                            [s |-> At(b, p + Len(x)), todo |-> rest], k1)
      BY DEF SkipsInside
  <2> DEFINE h == ReadHead("java", Good(b, p, t, g, l, v))
             i == Inside("java", h)
  <2>1. h.st = "good" /\ h.type \in Holders /\ Yields(i.s, b, q, v) /\ i.n = ToEnd
      BY <1>8
  <2> HIDE DEF h, i
  <2>2. i.n \in Int
      BY <2>1 DEF ToEnd
  <2>3. \E q1, u1 :
          /\ q1 \in Nat /\ Yields(i.s, b, q1, u1) /\ q1 <= Len(b) /\ i.n \in Int
          /\ \A rest \in Seq(Int) : \E k1 \in 0 .. Len(b) - q1 + 1 :
               /\ k1 < Len(x)
               /\ Goes("java", [s |-> At(b, q1), todo |-> <<i.n>> \o rest],
                       [s |-> At(b, p + Len(x)), todo |-> rest], k1)
      BY <1>3, <1>5, <1>7, <2>1, <2>2
  <2> QED
      BY <2>1, <2>3 DEF h, i
<1> QED
    BY <1>9 DEF x

-----------------------------------------------------------------------------
(***************************************************************************)
(* Every field, by induction on the depth of structs in it                 *)
(***************************************************************************)
\* What the functions are at a depth.
LEMMA Unfolded ==
    ASSUME NEW d \in 0 .. Depth, NEW f \in Fields[d], NEW lang \in Langs
    PROVE  /\ WriteAt[d][lang][f] = WriteOf(lang, WriteAt[d - 1][lang], f)
           /\ \A s \in Streams : ReadAt[d][lang][f][s] = ReadOf(lang, ReadAt[d - 1][lang], f, s)
           /\ ValueAt[d][lang][f] = ValueIn(lang, ValueAt[d - 1][lang], f)
           /\ PartsAt[d][f]
                = {f} \union (IF f.kind = "struct"
                              THEN UNION {PartsAt[d - 1][f.val[i]] : i \in 1 .. Len(f.val)} ELSE {})
<1>1. WriteAt[d][lang][f] = WriteOf(lang, WriteAt[d - 1][lang], f)
  <2> DEFINE w == WriteAt[d]
             G == WriteAt[d - 1]
  <2>1. w = WriteBody(G, d)
      BY WriteAtIs
  <2> HIDE DEF w, G
  <2>2. w[lang][f] = WriteOf(lang, G[lang], f)
      BY <2>1 DEF WriteBody
  <2> QED
      BY <2>2 DEF w, G
<1>2. \A s \in Streams : ReadAt[d][lang][f][s] = ReadOf(lang, ReadAt[d - 1][lang], f, s)
  <2> DEFINE w == ReadAt[d]
             G == ReadAt[d - 1]
  <2>1. w = ReadBody(G, d)
      BY ReadAtIs
  <2> HIDE DEF w, G
  <2>2. \A s \in Streams : w[lang][f][s] = ReadOf(lang, G[lang], f, s)
      BY <2>1 DEF ReadBody
  <2> QED
      BY <2>2 DEF w, G
<1>3. ValueAt[d][lang][f] = ValueIn(lang, ValueAt[d - 1][lang], f)
  <2> DEFINE w == ValueAt[d]
             G == ValueAt[d - 1]
  <2>1. w = ValueBody(G, d)
      BY ValueAtIs
  <2> HIDE DEF w, G
  <2>2. w[lang][f] = ValueIn(lang, G[lang], f)
      BY <2>1 DEF ValueBody
  <2> QED
      BY <2>2 DEF w, G
<1>4. PartsAt[d][f]
        = {f} \union (IF f.kind = "struct"
                      THEN UNION {PartsAt[d - 1][f.val[i]] : i \in 1 .. Len(f.val)} ELSE {})
  <2> DEFINE w == PartsAt[d]
             G == PartsAt[d - 1]
  <2>1. w = PartsBody(G, d)
      BY PartsAtIs
  <2> HIDE DEF w, G
  <2>2. w[f] = {f} \union (IF f.kind = "struct"
                           THEN UNION {G[f.val[i]] : i \in 1 .. Len(f.val)} ELSE {})
      BY <2>1 DEF PartsBody
  <2> QED
      BY <2>2 DEF w, G
<1> QED
    BY <1>1, <1>2, <1>3, <1>4

\* The reader gets a field, its members left aside.
Fine(wr, rd, g) ==
    /\ FieldAgreed(wr, rd, g)
    /\ rd = "cpp" =>
         /\ g.kind \in FlatKinds => CppGets(wr, g)
         /\ g.kind \in {"map", "list"} => \A i \in 1 .. Len(g.val) : CppGets(wr, g.val[i])

\* Its own texts are ones that rd gets as they were.
OwnTextsKept(wr, rd, g) ==
    /\ g.kind = "string" => TextKept(wr, rd, g.val)
    /\ g.kind = "map" => \A i \in 1 .. Len(g.val) : TextKept(wr, rd, g.val[i].val)

\* v is what f should be read as, unless a text in it, or in ps, is not kept.
RightValue(wr, rd, d, f, v, ps) ==
    (\A g \in ps : OwnTextsKept(wr, rd, g)) => v = ValueAt[d][rd][f]

\* The bytes x of a field are read back as v by r, and Java's loops pass over
\* them, if that is so for each of ps.
PartRead(wr, rd, x, r, v, ps) ==
    (\A g \in ps : Fine(wr, rd, g)) =>
      \A b \in Seq(Byte) : \A p \in Nat :
        Holds(b, p, x) => Yields(r[At(b, p)], b, p + Len(x), v)
PartSkipped(wr, f, x, ps) ==
    (\A g \in ps : FieldAgreed(wr, "java", g)) =>
      \A b \in Seq(Byte) : \A p \in Nat :
        Holds(b, p, x) =>
          /\ GoesOver("java", b, p, x)
          /\ f.kind \notin FlatKinds => SkipsInside(b, p, x)

WorksAt(wr, rd, d, f) ==
    LET x == WriteAt[d][wr][f]
    IN  /\ f.tag \in Byte /\ f \in PartsAt[d][f] /\ Headed(wr, NotEnd, f.tag, x)
        /\ \E v : /\ PartRead(wr, rd, x, ReadAt[d][rd][f], v, PartsAt[d][f])
                  /\ RightValue(wr, rd, d, f, v, PartsAt[d][f])
        /\ PartSkipped(wr, f, x, PartsAt[d][f])

\* What a field is made of.
LEMMA FieldIs ==
    ASSUME NEW d \in 0 .. Depth, NEW f \in Fields[d]
    PROVE  /\ f.tag \in Byte
           /\ f.kind \in FlatKinds \/ f.kind \in {"map", "list"} \/ f.kind = "struct"
           /\ f.kind \in FlatKinds => FlatField(f)
           /\ f.kind \in {"map", "list"} => Block(f)
           /\ f.kind = "struct" => d - 1 \in 0 .. Depth /\ f.val \in Seq(Fields[d - 1])
<1>1. /\ f.kind \in Kinds /\ f.tag \in Byte
      /\ f.kind \in FlatKinds => FlatField(f)
      /\ f.kind \in {"map", "list"} => HoldsElements(f)
      /\ f.kind = "struct" => d > 0 /\ f.val \in Seq(Fields[d - 1])
      /\ Depth \in Nat
    BY FieldsAssumption
<1>2. f.kind = "struct" => d - 1 \in 0 .. Depth
    BY <1>1
<1> QED
    BY <1>1, <1>2 DEF Kinds, Block

LEMMA FlatWorksAt ==
    ASSUME NEW wr \in Langs, NEW rd \in Langs, NEW d \in 0 .. Depth, NEW f \in Fields[d],
           f.kind \in FlatKinds
    PROVE  WorksAt(wr, rd, d, f)
<1> DEFINE x == WriteFlat(wr, f)
           r == ReadAt[d][rd][f]
           v == Got(wr, rd, f)
<1>1. FlatField(f) /\ f.tag \in Byte /\ f.kind \notin {"map", "list"} /\ f.kind # "struct"
    BY FieldIs, KindsApart
<1>2. /\ WriteAt[d][wr][f] = x
      /\ \A s \in Streams : r[s] = ReadFlatField(rd, s, f)
      /\ ValueAt[d][rd][f] = ValueOf(rd, f)
      /\ PartsAt[d][f] = {f}
  <2>1. WriteAt[d][wr][f] = x
    <3>1. \A one : WriteOf(wr, one, f) = WriteFlat(wr, f)
        BY <1>1, Zenon DEF WriteOf
    <3> QED
        BY <3>1, Unfolded
  <2>2. \A s \in Streams : r[s] = ReadFlatField(rd, s, f)
    <3>1. \A one, s : ReadOf(rd, one, f, s) = ReadFlatField(rd, s, f)
        BY <1>1, Zenon DEF ReadOf
    <3> QED
        BY <3>1, Unfolded
  <2>3. ValueAt[d][rd][f] = ValueOf(rd, f)
    <3>1. \A one : ValueIn(rd, one, f) = ValueOf(rd, f)
        BY <1>1, Zenon DEF ValueIn
    <3> QED
        BY <3>1, Unfolded
  <2>4. PartsAt[d][f] = {f}
      BY <1>1, Unfolded
  <2> QED
      BY <2>1, <2>2, <2>3, <2>4
<1>3. Headed(wr, NotEnd, f.tag, x)
    BY <1>1, FlatHeaded, FlatTypesAre DEF Headed
<1> HIDE DEF r, v
<1>4. PartRead(wr, rd, x, r, v, {f})
  <2> SUFFICES ASSUME Fine(wr, rd, f), NEW b \in Seq(Byte), NEW p \in Nat, Holds(b, p, x)
               PROVE  Yields(r[At(b, p)], b, p + Len(x), v)
      BY DEF PartRead
  <2>1. FieldAgreed(wr, rd, f) /\ (rd = "cpp" => CppGets(wr, f))
      BY DEF Fine
  <2>2. r[At(b, p)] = ReadFlatField(rd, At(b, p), f)
      BY <1>2, AtIsStream
  <2>3. Yields(ReadFlatField(rd, At(b, p), f), b, p + Len(x), v)
      BY <1>1, <2>1, FlatRead DEF At, v
  <2> QED
      BY <2>2, <2>3
<1>5. PartSkipped(wr, f, x, {f})
  <2> SUFFICES ASSUME FieldAgreed(wr, "java", f), NEW b \in Seq(Byte), NEW p \in Nat, Holds(b, p, x)
               PROVE  GoesOver("java", b, p, x)
      BY DEF PartSkipped
  <2> QED
      BY <1>1, FlatGoesOver
<1>6. RightValue(wr, rd, d, f, v, {f})
  <2>1. (\A g \in {f} : OwnTextsKept(wr, rd, g)) => v = ValueOf(rd, f)
      BY FieldKept DEF OwnTextsKept, v
  <2> QED
      BY <1>2, <2>1 DEF RightValue
<1> HIDE DEF x
<1> QED
    BY <1>1, <1>2, <1>3, <1>4, <1>5, <1>6 DEF WorksAt, r

LEMMA BlockWorksAt ==
    ASSUME NEW wr \in Langs, NEW rd \in Langs, NEW d \in 0 .. Depth, NEW f \in Fields[d],
           f.kind \in {"map", "list"}
    PROVE  WorksAt(wr, rd, d, f)
<1> DEFINE x == WriteBlock(wr, f)
           r == ReadAt[d][rd][f]
           v == [i \in 1 .. Len(f.val) |-> Got(wr, rd, f.val[i])]
           v1 == [i \in 1 .. Len(f.val) |-> ValueOf(rd, f.val[i])]
<1>1. Block(f) /\ f.tag \in Byte /\ f.kind \notin FlatKinds /\ f.kind # "struct"
    BY FieldIs, KindsApart
<1>2. /\ WriteAt[d][wr][f] = x
      /\ \A s \in Streams : r[s] = ReadBlock(rd, s, f)
      /\ ValueAt[d][rd][f] = v1
      /\ PartsAt[d][f] = {f}
  <2>1. WriteAt[d][wr][f] = x
    <3>1. \A one : WriteOf(wr, one, f) = WriteBlock(wr, f)
        BY <1>1, Zenon DEF WriteOf
    <3> QED
        BY <3>1, Unfolded
  <2>2. \A s \in Streams : r[s] = ReadBlock(rd, s, f)
    <3>1. \A one, s : ReadOf(rd, one, f, s) = ReadBlock(rd, s, f)
        BY <1>1, Zenon DEF ReadOf
    <3> QED
        BY <3>1, Unfolded
  <2>3. ValueAt[d][rd][f] = v1
    <3>1. \A one : ValueIn(rd, one, f) = v1
        BY <1>1, Zenon DEF ValueIn
    <3> HIDE DEF v1
    <3> QED
        BY <3>1, Unfolded
  <2>4. PartsAt[d][f] = {f}
      BY <1>1, Unfolded
  <2> QED
      BY <2>1, <2>2, <2>3, <2>4
<1>3. Headed(wr, NotEnd, f.tag, x)
    BY <1>1, BlockHeaded
<1> HIDE DEF r
<1>4. PartRead(wr, rd, x, r, v, {f})
  <2> SUFFICES ASSUME Fine(wr, rd, f), NEW b \in Seq(Byte), NEW p \in Nat, Holds(b, p, x)
               PROVE  Yields(r[At(b, p)], b, p + Len(x), v)
      BY DEF PartRead
  <2>1. /\ TagAgreed(wr, rd, f.tag)
        /\ rd = "cpp" => \A i \in 1 .. Len(f.val) : CppGets(wr, f.val[i])
      BY DEF Fine, FieldAgreed
  <2>2. r[At(b, p)] = ReadBlock(rd, At(b, p), f)
      BY <1>2, AtIsStream
  <2>3. Yields(ReadBlock(rd, At(b, p), f), b, p + Len(x), v)
      BY <1>1, <2>1, BlockRead
  <2> HIDE DEF v
  <2> QED
      BY <2>2, <2>3
<1>5. PartSkipped(wr, f, x, {f})
  <2> SUFFICES ASSUME FieldAgreed(wr, "java", f), NEW b \in Seq(Byte), NEW p \in Nat, Holds(b, p, x)
               PROVE  GoesOver("java", b, p, x) /\ SkipsInside(b, p, x)
      BY DEF PartSkipped
  <2>1. TagAgreed(wr, "java", f.tag)
      BY DEF FieldAgreed
  <2>2. SkipsInside(b, p, x)
      BY <1>1, <2>1, BlockSkip
  <2>3. x \in Seq(Byte) /\ Len(x) \in Nat
    <3> HIDE DEF x
    <3> QED
        BY <1>1, <1>3, StructTypes, HeadedIsSeq
  <2>4. p \in 0 .. Len(b)
    <3>1. p + Len(x) <= Len(b) /\ Len(b) \in Nat
        BY LenProperties DEF Holds
    <3> HIDE DEF x
    <3> QED
        BY <2>3, <3>1
  <2> HIDE DEF x
  <2> QED
      BY <2>2, <2>3, <2>4, InsideGoesOver
<1>6. RightValue(wr, rd, d, f, v, {f})
  <2> SUFFICES ASSUME OwnTextsKept(wr, rd, f) PROVE v = v1
      BY <1>2 DEF RightValue
  <2>1. ASSUME NEW i \in 1 .. Len(f.val) PROVE Got(wr, rd, f.val[i]) = ValueOf(rd, f.val[i])
    <3>1. f.val[i].kind = ElementKind(f)
        BY <1>1, ElementsAre
    <3>2. f.val[i].kind = "string" => TextKept(wr, rd, f.val[i].val)
        BY <3>1 DEF ElementKind, OwnTextsKept
    <3> QED
        BY <3>2, FieldKept
  <2> QED
      BY <2>1
<1> HIDE DEF x, v
<1> QED
    BY <1>1, <1>2, <1>3, <1>4, <1>5, <1>6 DEF WorksAt, r

LEMMA StructWorksAt ==
    ASSUME NEW wr \in Langs, NEW rd \in Langs, NEW d \in 0 .. Depth, NEW f \in Fields[d],
           f.kind = "struct", \A m \in Fields[d - 1] : WorksAt(wr, rd, d - 1, m)
    PROVE  WorksAt(wr, rd, d, f)
<1> DEFINE w == WriteAt[d - 1][wr]
           one == ReadAt[d - 1][rd]
           x == StructBytes(wr, f, w)
           r == ReadAt[d][rd][f]
           n == Len(f.val)
           RightRead(m, v) ==
               /\ PartRead(wr, rd, w[m], one[m], v, PartsAt[d - 1][m])
               /\ RightValue(wr, rd, d - 1, m, v, PartsAt[d - 1][m])
           vals == [i \in 1 .. n |-> CHOOSE v : RightRead(f.val[i], v)]
           vals1 == [i \in 1 .. n |-> ValueAt[d - 1][rd][f.val[i]]]
           ps == PartsAt[d][f]
<1>1. /\ f.tag \in Byte /\ f.kind \notin FlatKinds /\ f.kind \notin {"map", "list"}
      /\ d - 1 \in 0 .. Depth /\ f.val \in Seq(Fields[d - 1])
    BY FieldIs, KindsApart
<1>2. n \in Nat /\ \A i \in 1 .. n : f.val[i] \in Fields[d - 1]
    BY <1>1, LenProperties
<1>3. \A i \in 1 .. n : WorksAt(wr, rd, d - 1, f.val[i])
    BY <1>2
<1>4. /\ WriteAt[d][wr][f] = x
      /\ ValueAt[d][rd][f] = vals1
      /\ ps = {f} \union UNION {PartsAt[d - 1][f.val[i]] : i \in 1 .. Len(f.val)}
  <2>1. WriteAt[d][wr][f] = x
    <3>1. \A one1 : WriteOf(wr, one1, f) = StructBytes(wr, f, one1)
        BY <1>1, Zenon DEF WriteOf, StructBytes, MemberBytes, EndTag
    <3> QED
        BY <3>1, Unfolded
  <2>2. ValueAt[d][rd][f] = vals1
    <3>1. \A one1 : ValueIn(rd, one1, f) = [i \in 1 .. Len(f.val) |-> one1[f.val[i]]]
        BY <1>1, Zenon DEF ValueIn
    <3>2. ValueAt[d][rd][f] = ValueIn(rd, ValueAt[d - 1][rd], f)
        BY Unfolded
    <3> QED
        BY <3>1, <3>2
  <2>3. ps = {f} \union UNION {PartsAt[d - 1][f.val[i]] : i \in 1 .. Len(f.val)}
      BY Unfolded
  <2> QED
      BY <2>1, <2>2, <2>3
<1>5. Struct(wr, f, w)
  <2>1. ASSUME NEW i \in 1 .. n
        PROVE  f.val[i].tag \in Byte /\ Headed(wr, NotEnd, f.val[i].tag, w[f.val[i]])
      BY <1>3 DEF WorksAt
  <2> HIDE DEF w
  <2> QED
      BY <1>1, <1>2, <2>1 DEF Struct
<1>6. f \in ps /\ \A i \in 1 .. n : \A g \in PartsAt[d - 1][f.val[i]] : g \in ps
  <2> DEFINE G(i) == PartsAt[d - 1][f.val[i]]
             S == 1 .. Len(f.val)
  <2>1. ps = {f} \union UNION {G(i) : i \in S}
      BY <1>4
  <2> HIDE DEF ps, G, S
  <2>2. f \in ps /\ \A i \in S : \A g \in G(i) : g \in ps
      BY <2>1, Zenon
  <2> QED
      BY <2>2 DEF G, S
<1>7. \A i \in 1 .. n :
        /\ f.val[i] \in ps
        /\ RightRead(f.val[i], vals[i])
        /\ PartSkipped(wr, f.val[i], w[f.val[i]], PartsAt[d - 1][f.val[i]])
  <2> SUFFICES ASSUME NEW i \in 1 .. n
               PROVE  /\ f.val[i] \in ps
                      /\ RightRead(f.val[i], vals[i])
                      /\ PartSkipped(wr, f.val[i], w[f.val[i]], PartsAt[d - 1][f.val[i]])
      OBVIOUS
  <2>1. vals[i] = CHOOSE v : RightRead(f.val[i], v)
    <3> HIDE DEF RightRead
    <3> QED
        OBVIOUS
  <2>2. WorksAt(wr, rd, d - 1, f.val[i])
      BY <1>3
  <2>3. f.val[i] \in PartsAt[d - 1][f.val[i]]
      BY <2>2 DEF WorksAt
  <2>4. f.val[i] \in ps
    <3> HIDE DEF ps
    <3> QED
        BY <1>6, <2>3
  <2>5. \E v : RightRead(f.val[i], v)
      BY <2>2 DEF WorksAt
  <2> HIDE DEF vals, ps, RightRead
  <2>6. RightRead(f.val[i], vals[i])
      BY <2>1, <2>5
  <2> QED
      BY <2>2, <2>4, <2>6 DEF WorksAt
<1>8. Headed(wr, NotEnd, f.tag, x)
    BY <1>5, StructHeaded
<1>11. RightValue(wr, rd, d, f, vals, ps)
  <2> SUFFICES ASSUME \A g \in ps : OwnTextsKept(wr, rd, g) PROVE vals = vals1
      BY <1>4 DEF RightValue
  <2>1. ASSUME NEW i \in 1 .. n PROVE vals[i] = ValueAt[d - 1][rd][f.val[i]]
    <3>1. \A g \in PartsAt[d - 1][f.val[i]] : OwnTextsKept(wr, rd, g)
        BY <1>6
    <3>2. RightValue(wr, rd, d - 1, f.val[i], vals[i], PartsAt[d - 1][f.val[i]])
        BY <1>7
    <3> HIDE DEF vals
    <3> QED
        BY <3>1, <3>2 DEF RightValue
  <2>2. vals = [i \in 1 .. n |-> vals[i]]
      OBVIOUS
  <2> HIDE DEF vals
  <2> QED
      BY <2>1, <2>2
<1>12. vals = [i \in 1 .. n |-> vals[i]]
    OBVIOUS
<1> HIDE DEF w, one, vals, ps
<1>9. PartRead(wr, rd, x, r, vals, ps)
  <2> SUFFICES ASSUME \A g \in ps : Fine(wr, rd, g),
                      NEW b \in Seq(Byte), NEW p \in Nat, Holds(b, p, x)
               PROVE  Yields(r[At(b, p)], b, p + Len(x), vals)
      BY DEF PartRead
  <2>1. TagAgreed(wr, rd, f.tag) /\ \A i \in 1 .. n : TagAgreed(wr, rd, f.val[i].tag)
      BY <1>6, <1>7 DEF Fine, FieldAgreed
  <2>2. MembersRead(wr, rd, f, w, one, vals, b)
    <3> SUFFICES ASSUME NEW i \in 1 .. n, NEW p1 \in Nat, Holds(b, p1, w[f.val[i]])
                 PROVE  Yields(one[f.val[i]][At(b, p1)], b, p1 + Len(w[f.val[i]]), vals[i])
        BY <2>1 DEF MembersRead
    <3>1. \A g \in PartsAt[d - 1][f.val[i]] : Fine(wr, rd, g)
        BY <1>6
    <3>2. PartRead(wr, rd, w[f.val[i]], one[f.val[i]], vals[i], PartsAt[d - 1][f.val[i]])
        BY <1>7
    <3> QED
        BY <3>1, <3>2 DEF PartRead
  <2> DEFINE s == At(b, p)
             h == HeadOf(rd, s)
             y == EndStruct(rd, ReadEach(rd, h, f.val, one))
  <2>3. h.st = "good" /\ h.type = STRUCT_BEGIN /\ Yields(y, b, p + Len(x), FirstOf(vals, n))
    <3> HIDE DEF n
    <3>1. /\ wr \in Langs /\ rd \in Langs /\ Struct(wr, f, w) /\ TagAgreed(wr, rd, f.tag)
          /\ b \in Seq(Byte) /\ MembersRead(wr, rd, f, w, one, vals, b) /\ p \in Nat
          /\ Holds(b, p, StructBytes(wr, f, w))
        BY <1>5, <2>1, <2>2
    <3> HIDE DEF x, y, h, s
    <3>2. LET h1 == HeadOf(rd, At(b, p))
          IN  /\ h1.st = "good" /\ h1.type = STRUCT_BEGIN
              /\ Yields(EndStruct(rd, ReadEach(rd, h1, f.val, one)), b,
                        p + Len(StructBytes(wr, f, w)), FirstOf(vals, Len(f.val)))
        BY ONLY <3>1, StructRead
    <3> QED
        BY <3>2 DEF x, y, h, s, n
  <2>4. r[s] = ReadOf(rd, one, f, s)
    <3> DEFINE one1 == ReadAt[d - 1][rd]
    <3>1. s \in Streams
        BY AtIsStream
    <3>2. \A s1 \in Streams : r[s1] = ReadOf(rd, one1, f, s1)
        BY Unfolded
    <3> HIDE DEF r, s, one1
    <3>3. r[s] = ReadOf(rd, one1, f, s)
        BY <3>1, <3>2
    <3> QED
        BY <3>3 DEF one, one1
  <2>5. ReadOf(rd, one, f, s) = y
    <3> HIDE DEF s
    <3>1. /\ ~ (HeadOf(rd, s).st # "good") /\ ~ (HeadOf(rd, s).type # STRUCT_BEGIN)
        BY <2>3
    <3>2. ReadOf(rd, one, f, s) = EndStruct(rd, ReadEach(rd, HeadOf(rd, s), f.val, one))
        BY ONLY <1>1, <3>1, f.kind = "struct", Zenon DEF ReadOf
    <3> QED
        BY <3>2
  <2>6. FirstOf(vals, n) = vals
      BY <1>12 DEF FirstOf
  <2> HIDE DEF y, r, s, x
  <2>7. Yields(r[s], b, p + Len(x), vals)
      BY <2>3, <2>4, <2>5, <2>6
  <2> QED
      BY <2>7 DEF s
<1>10. PartSkipped(wr, f, x, ps)
  <2> SUFFICES ASSUME \A g \in ps : FieldAgreed(wr, "java", g),
                      NEW b \in Seq(Byte), NEW p \in Nat, Holds(b, p, x)
               PROVE  GoesOver("java", b, p, x) /\ SkipsInside(b, p, x)
      BY DEF PartSkipped
  <2>1. TagAgreed(wr, "java", f.tag)
      BY <1>6 DEF FieldAgreed
  <2>2. MembersSkipped(f, w, b)
    <3> SUFFICES ASSUME NEW i \in 1 .. n, NEW p1 \in Nat, Holds(b, p1, w[f.val[i]])
                 PROVE  GoesOver("java", b, p1, w[f.val[i]])
        BY DEF MembersSkipped
    <3>1. \A g \in PartsAt[d - 1][f.val[i]] : FieldAgreed(wr, "java", g)
        BY <1>6
    <3>2. PartSkipped(wr, f.val[i], w[f.val[i]], PartsAt[d - 1][f.val[i]])
        BY <1>7
    <3> QED
        BY <3>1, <3>2 DEF PartSkipped
  <2>3. SkipsInside(b, p, x)
    <3>1. /\ wr \in Langs /\ Struct(wr, f, w) /\ TagAgreed(wr, "java", f.tag)
          /\ b \in Seq(Byte) /\ MembersSkipped(f, w, b) /\ p \in Nat
          /\ Holds(b, p, StructBytes(wr, f, w))
        BY <1>5, <2>1, <2>2
    <3>2. SkipsInside(b, p, StructBytes(wr, f, w))
        BY ONLY <3>1, StructSkip
    <3> QED
        BY <3>2
  <2>4. x \in Seq(Byte) /\ Len(x) \in Nat
    <3> HIDE DEF x
    <3> QED
        BY <1>1, <1>8, StructTypes, HeadedIsSeq
  <2>5. p \in 0 .. Len(b)
    <3>1. p + Len(x) <= Len(b) /\ Len(b) \in Nat
        BY LenProperties DEF Holds
    <3> HIDE DEF x
    <3> QED
        BY <2>4, <3>1
  <2> HIDE DEF x
  <2> QED
      BY <2>3, <2>4, <2>5, InsideGoesOver
<1> HIDE DEF x, r
<1> QED
    BY <1>1, <1>4, <1>6, <1>8, <1>9, <1>10, <1>11 DEF WorksAt, r, ps

(***************************************************************************)
(* A reader gets every field whose parts it gets, and Java passes over     *)
(* every one, however deep structs are nested in it.                       *)
(***************************************************************************)
LEMMA AllWorkAt ==
    ASSUME NEW wr \in Langs, NEW rd \in Langs
    PROVE  \A d \in 0 .. Depth : \A f \in Fields[d] : WorksAt(wr, rd, d, f)
<1> DEFINE T == {d \in 0 .. Depth : \A f \in Fields[d] : WorksAt(wr, rd, d, f)}
<1>1. Depth \in Nat /\ 0 \in Nat
    BY FieldsAssumption
<1>2. \A d \in 0 .. Depth : (\A j \in 0 .. d - 1 : j \in T) => d \in T
  <2> SUFFICES ASSUME NEW d \in 0 .. Depth, \A j \in 0 .. d - 1 : j \in T, NEW f \in Fields[d]
               PROVE  WorksAt(wr, rd, d, f)
      OBVIOUS
  <2>1. CASE f.kind \in FlatKinds
      BY <2>1, FlatWorksAt
  <2>2. CASE f.kind \in {"map", "list"}
      BY <2>2, BlockWorksAt
  <2>3. CASE f.kind = "struct"
    <3>1. d - 1 \in 0 .. d - 1
        BY <2>3, FieldIs
    <3>2. \A m \in Fields[d - 1] : WorksAt(wr, rd, d - 1, m)
        BY <3>1
    <3> QED
        BY <2>3, <3>2, StructWorksAt
  <2> QED
      BY <2>1, <2>2, <2>3, FieldIs
<1> HIDE DEF T
<1>3. \A d \in 0 .. Depth : d \in T
    BY ONLY <1>1, <1>2, UpTo
<1> QED
    BY <1>3 DEF T

-----------------------------------------------------------------------------
(***************************************************************************)
(* What a reader of messages relies on                                     *)
(***************************************************************************)
\* Reading a field whose bytes are x yields its value if its texts are kept,
\* and leads behind it; so does skipping it.
ReadsBack(wr, rd, f, x, b, p) ==
    \A t, g, l, v : \E u :
        /\ Yields(ReadField(rd, Good(b, p, t, g, l, v), f), b, p + Len(x), u)
        /\ TextsKept(wr, rd, f) => u = Expected(rd, f)
SkipsOver(rd, f, x, b, p) ==
    \A t, g, l, v : \E u :
        Yields(SkipField(rd, ReadHead(rd, Good(b, p, t, g, l, v))), b, p + Len(x), u)

\* The two languages agree on a field and its members.
Agreed(wr, rd, f) == \A g \in Parts(f) : FieldAgreed(wr, rd, g)

\* A field that wr writes is one that rd recognises, reads and skips wherever
\* it stands, if the two agree on it.
FieldWorks(wr, rd, f) ==
    LET x == WriteField(wr, f)
    IN  /\ x \in Seq(Byte) /\ Len(x) \in Nat /\ Len(x) >= 1
        /\ \A b \in Seq(Byte), p \in Nat : Holds(b, p, x) =>
             /\ TagAgreed(wr, rd, f.tag) => ShowsHead(rd, NotEnd, f, b, p)
             /\ (Agreed(wr, rd, f) /\ (rd = "cpp" => CppReads(wr, f)))
                    => ReadsBack(wr, rd, f, x, b, p)
             /\ (Agreed(wr, rd, f) /\ (rd = "cpp" => CppSkips(wr, f)))
                    => SkipsOver(rd, f, x, b, p)

LEMMA AllWork ==
    ASSUME NEW wr \in Langs, NEW rd \in Langs, NEW f \in Fields[Depth]
    PROVE  FieldWorks(wr, rd, f) /\ f.tag \in Byte /\ f \in Parts(f)
<1> DEFINE x == WriteField(wr, f)
           r == ReadAt[Depth][rd][f]
           ps == Parts(f)
<1>1. Depth \in Nat /\ Depth \in 0 .. Depth
    BY FieldsAssumption
<1>a. WorksAt(wr, rd, Depth, f)
    BY <1>1, AllWorkAt
<1>b. PICK v0 : PartRead(wr, rd, x, r, v0, ps) /\ RightValue(wr, rd, Depth, f, v0, ps)
    BY <1>a DEF WorksAt, WriteField, Parts
<1>2. /\ f.tag \in Byte /\ f \in ps /\ Headed(wr, NotEnd, f.tag, x)
      /\ PartRead(wr, rd, x, r, v0, ps)
      /\ PartSkipped(wr, f, x, ps)
    BY <1>a, <1>b DEF WorksAt, WriteField, Parts
<1>c. TextsKept(wr, rd, f) => v0 = Expected(rd, f)
    BY <1>b DEF TextsKept, OwnTextsKept, RightValue, Expected
<1>3. /\ f.kind \in FlatKinds => FlatField(f)
    BY <1>1, FieldIs
<1> HIDE DEF r, ps
<1>4. f.kind \in FlatKinds => x = WriteFlat(wr, f) /\ Expected(rd, f) = ValueOf(rd, f)
  <2> SUFFICES ASSUME f.kind \in FlatKinds
               PROVE  x = WriteFlat(wr, f) /\ Expected(rd, f) = ValueOf(rd, f)
      OBVIOUS
  <2>1. \A one : WriteOf(wr, one, f) = WriteFlat(wr, f) /\ ValueIn(rd, one, f) = ValueOf(rd, f)
      BY KindsApart, Zenon DEF WriteOf, ValueIn
  <2>2. x = WriteOf(wr, WriteAt[Depth - 1][wr], f)
    <3>1. WriteAt[Depth][wr][f] = WriteOf(wr, WriteAt[Depth - 1][wr], f)
        BY <1>1, Unfolded
    <3> QED
        BY <3>1 DEF WriteField
  <2>3. Expected(rd, f) = ValueIn(rd, ValueAt[Depth - 1][rd], f)
    <3>1. ValueAt[Depth][rd][f] = ValueIn(rd, ValueAt[Depth - 1][rd], f)
        BY <1>1, Unfolded
    <3> QED
        BY <3>1 DEF Expected
  <2> QED
      BY <2>1, <2>2, <2>3
<1> HIDE DEF x
<1>5. x \in Seq(Byte) /\ Len(x) \in Nat /\ Len(x) >= 1
    BY <1>2, StructTypes, HeadedIsSeq
<1>6. ASSUME NEW b \in Seq(Byte), NEW p \in Nat, Holds(b, p, x)
      PROVE  /\ TagAgreed(wr, rd, f.tag) => ShowsHead(rd, NotEnd, f, b, p)
             /\ (Agreed(wr, rd, f) /\ (rd = "cpp" => CppReads(wr, f)))
                    => ReadsBack(wr, rd, f, x, b, p)
             /\ (Agreed(wr, rd, f) /\ (rd = "cpp" => CppSkips(wr, f)))
                    => SkipsOver(rd, f, x, b, p)
  <2>1. ASSUME TagAgreed(wr, rd, f.tag) PROVE ShowsHead(rd, NotEnd, f, b, p)
      BY <1>2, <1>6, <2>1, StructTypes, HeadShown
  <2>2. ASSUME Agreed(wr, rd, f), rd = "cpp" => CppReads(wr, f)
        PROVE  ReadsBack(wr, rd, f, x, b, p)
    <3>1. \A g \in ps : Fine(wr, rd, g)
        BY <2>2 DEF Agreed, CppReads, Fine, ps
    <3>2. Yields(r[At(b, p)], b, p + Len(x), v0)
        BY <1>2, <1>6, <3>1 DEF PartRead
    <3>3. SUFFICES ASSUME NEW t, NEW g, NEW l, NEW v
                   PROVE  \E u :
                            /\ Yields(ReadField(rd, Good(b, p, t, g, l, v), f), b, p + Len(x), u)
                            /\ TextsKept(wr, rd, f) => u = Expected(rd, f)
        BY DEF ReadsBack
    <3> DEFINE s == Good(b, p, t, g, l, v)
    <3>4. CASE f.kind \in FlatKinds
      <4>1. ReadField(rd, s, f) = ReadFlatField(rd, s, f)
        <5> HIDE DEF s
        <5> QED
            BY <3>4, Zenon DEF ReadField
      <4>2. FieldAgreed(wr, rd, f) /\ (rd = "cpp" => CppGets(wr, f))
          BY <1>2, <3>1, <3>4 DEF Fine
      <4>3. Holds(b, p, WriteFlat(wr, f))
          BY <1>4, <1>6, <3>4
      <4>4. Yields(ReadFlatField(rd, s, f), b, p + Len(WriteFlat(wr, f)), Got(wr, rd, f))
          BY <1>3, <3>4, <4>2, <4>3, FlatRead
      <4>6. TextsKept(wr, rd, f) => Got(wr, rd, f) = Expected(rd, f)
        <5>1. TextsKept(wr, rd, f) => (f.kind = "string" => TextKept(wr, rd, f.val))
            BY <1>2 DEF TextsKept, ps
        <5> QED
            BY <1>4, <3>4, <5>1, FieldKept
      <4> HIDE DEF s
      <4>5. Yields(ReadField(rd, s, f), b, p + Len(x), Got(wr, rd, f))
          BY <1>4, <3>4, <4>1, <4>4
      <4> QED
          BY <4>5, <4>6 DEF s
    <3>5. CASE f.kind \notin FlatKinds
      <4>1. ReadField(rd, s, f) = r[Forget(s)]
        <5> HIDE DEF s
        <5> QED
            BY <3>5, Zenon DEF ReadField, r
      <4>2. Forget(s) = At(b, p)
          BY Forgotten
      <4> HIDE DEF s
      <4>3. Yields(ReadField(rd, s, f), b, p + Len(x), v0)
          BY <3>2, <4>1, <4>2
      <4> QED
          BY <1>c, <4>3 DEF s
    <3> QED
        BY <3>4, <3>5
  <2>3. ASSUME Agreed(wr, rd, f), rd = "cpp" => CppSkips(wr, f)
        PROVE  SkipsOver(rd, f, x, b, p)
    <3>1. SUFFICES ASSUME NEW t, NEW g, NEW l, NEW v
                   PROVE  \E u : Yields(SkipField(rd, ReadHead(rd, Good(b, p, t, g, l, v))),
                                        b, p + Len(x), u)
        BY DEF SkipsOver
    <3> DEFINE s == Good(b, p, t, g, l, v)
               h == ReadHead(rd, s)
    <3>2. FieldAgreed(wr, rd, f)
        BY <1>2, <2>3 DEF Agreed, ps
    <3>3. CASE f.kind \in FlatKinds
      <4>1. (rd = "cpp" /\ f.kind = "blob") => CppGets(wr, f)
        <5>1. (rd = "cpp" /\ f.kind = "blob") => CppReads(wr, f)
            BY <2>3 DEF CppSkips
        <5>2. CppReads(wr, f) => CppGets(wr, f)
            BY <1>2, <3>3 DEF CppReads, ps
        <5> QED
            BY <5>1, <5>2
      <4>2. Holds(b, p, WriteFlat(wr, f))
          BY <1>4, <1>6, <3>3
      <4>3. /\ FlatField(f) /\ FieldAgreed(wr, rd, f) /\ wr \in Langs /\ rd \in Langs
            /\ (rd = "cpp" /\ f.kind = "blob") => CppGets(wr, f)
            /\ b \in Seq(Byte) /\ p \in Nat /\ Holds(b, p, WriteFlat(wr, f))
          BY <1>3, <1>6, <3>2, <3>3, <4>1, <4>2
      <4>5. /\ h.st = "good" /\ h.type \notin Holders /\ h.type # STRUCT_END
            /\ SkipField(rd, h) = SkipFlat(rd, h)
            /\ \E u : Yields(SkipFlat(rd, h), b, p + Len(WriteFlat(wr, f)), u)
          BY ONLY <4>3, FlatSkip DEF h, s
      <4> HIDE DEF h
      <4>4. \E u : Yields(SkipField(rd, h), b, p + Len(x), u)
          BY <1>4, <3>3, <4>5
      <4> QED
          BY <4>4 DEF h
    <3>4. CASE f.kind \notin FlatKinds
      <4>1. rd = "java"
          BY <2>3, <3>4 DEF CppSkips, Langs
      <4>2. \A g1 \in ps : FieldAgreed(wr, "java", g1)
          BY <2>3, <4>1 DEF Agreed, ps
      <4>3. SkipsInside(b, p, x)
          BY <1>2, <1>6, <3>4, <4>2 DEF PartSkipped
      <4>4. SkipField(rd, h) = At(b, p + Len(x))
          BY <4>1, <4>3, InsideSkipped
      <4>5. Yields(At(b, p + Len(x)), b, p + Len(x), << >>)
          BY GoodYields DEF At
      <4> HIDE DEF h
      <4>6. \E u : Yields(SkipField(rd, h), b, p + Len(x), u)
          BY <4>4, <4>5
      <4> QED
          BY <4>6 DEF h
    <3> QED
        BY <3>3, <3>4
  <2> QED
      BY <2>1, <2>2, <2>3
<1> QED
    BY <1>2, <1>5, <1>6 DEF FieldWorks, x, ps

-----------------------------------------------------------------------------
(***************************************************************************)
(* The reader of a message                                                 *)
(***************************************************************************)
Written1 == [i \in 1 .. Len(fields) |-> WriteField(writer, fields[i])]
Bytes == WriteFields(writer, fields)

\* The fields lie in the buffer from these positions on.
Lay(st) == Lies(Bytes, 0, Len(fields), Written1, st)

\* The tags asked for come in ascending order.
AskedInOrder ==
    /\ writer \in Langs /\ reader \in Langs
    /\ fields \in Messages
    /\ pc \in {"idle", "skip", "found", "failed"}
    /\ want \in Int
    /\ asked \subseteq Int
    /\ want \in asked \union {-1}
    /\ \A t \in asked : t <= want
    /\ pc \in {"skip", "found"} => want \in asked

\* The reader is at the field i: in idle all fields before it are behind the
\* tag asked for last and the others ahead of it; a search has passed over
\* the fields before it, and the others have not been asked for before.
AtField(i) ==
    /\ pc = "idle" =>
         /\ \A j \in 1 .. i - 1 : fields[j].tag <= want
         /\ \A j \in i .. Len(fields) : fields[j].tag > want
         /\ asked # {} => Right
    /\ pc = "skip" =>
         /\ \A j \in 1 .. i - 1 : fields[j].tag < want
         /\ \A j \in i .. Len(fields) : fields[j].tag \in asked => fields[j].tag = want
    /\ pc = "found" => i \in 1 .. Len(fields) /\ fields[i].tag = want
    /\ pc # "failed"

\* The position in front of the field i.
Before(st, i) == i \in 1 .. Len(fields) + 1 /\ in = Good(Bytes, st[i], 0, 0, 0, << >>)

\* The C++ reader has asked for a field that is not there.
GoneOn == reader = "cpp" /\ answer.out = "absent" /\ pc = "idle" /\ Right

Placed == GoneOn \/ \E st, i : Lay(st) /\ Before(st, i) /\ AtField(i)

\* The inductive invariant.
RInv == AskedInOrder /\ (InStep => Placed)

LEMMA MessageFacts ==
    ASSUME fields \in Messages
    PROVE  /\ fields \in Seq(Fields[Depth]) /\ Len(fields) \in Nat
           /\ \A i \in 1 .. Len(fields) :
                fields[i] \in Fields[Depth] /\ fields[i].tag \in Byte
                /\ fields[i].tag \in Int /\ fields[i].tag > -1
           /\ \A i, j \in 1 .. Len(fields) : i < j => fields[i].tag < fields[j].tag
           /\ ToSet(fields) = {fields[i] : i \in 1 .. Len(fields)}
<1>1. fields \in Seq(Fields[Depth]) /\ Ascending(fields)
    BY MessagesAssumption
<1>2. Len(fields) \in Nat /\ DOMAIN fields = 1 .. Len(fields) /\ fields \in [1 .. Len(fields) -> Fields[Depth]]
    BY <1>1, LenProperties
<1>3. ASSUME NEW i \in 1 .. Len(fields)
      PROVE  fields[i] \in Fields[Depth] /\ fields[i].tag \in Byte
                /\ fields[i].tag \in Int /\ fields[i].tag > -1
  <2>1. fields[i] \in Fields[Depth]
      BY <1>2
  <2>2. fields[i].tag \in Byte
      BY <2>1, AllWork DEF Langs
  <2>3. \A x \in Byte : x \in Int /\ x > -1
      BY DEF Byte
  <2> QED
      BY <2>1, <2>2, <2>3
<1> QED
    BY <1>1, <1>2, <1>3 DEF Ascending, ToSet

\* A tag is that of one field.
LEMMA FieldOfTag ==
    ASSUME fields \in Messages, NEW i \in 1 .. Len(fields)
    PROVE  FieldOf(fields[i].tag) = fields[i] /\ fields[i].tag \in TagsWritten
<1>1. /\ \A k, j \in 1 .. Len(fields) : k < j => fields[k].tag < fields[j].tag
      /\ \A k \in 1 .. Len(fields) : fields[k].tag \in Int
      /\ ToSet(fields) = {fields[k] : k \in 1 .. Len(fields)}
      /\ Len(fields) \in Nat
    BY MessageFacts
<1>2. ASSUME NEW f \in ToSet(fields), f.tag = fields[i].tag PROVE f = fields[i]
  <2>1. PICK j \in 1 .. Len(fields) : f = fields[j]
      BY <1>1
  <2>2. ~ (i < j) /\ ~ (j < i)
      BY <1>1, <1>2, <2>1
  <2>3. i = j
      BY <2>2
  <2> QED
      BY <2>1, <2>3
<1>3. fields[i] \in ToSet(fields)
    BY <1>1
<1> QED
    BY <1>2, <1>3, Zenon DEF FieldOf, TagsWritten

\* What holds of a field of the message.
LEMMA FieldHere ==
    ASSUME AskedInOrder, NEW i \in 1 .. Len(fields)
    PROVE  FieldWorks(writer, reader, fields[i]) /\ fields[i] \in Parts(fields[i])
<1>1. fields[i] \in Fields[Depth] /\ writer \in Langs /\ reader \in Langs
    BY MessageFacts DEF AskedInOrder
<1> QED
    BY <1>1, AllWork

LEMMA InStepAgreed ==
    ASSUME AskedInOrder, InStep, NEW i \in 1 .. Len(fields)
    PROVE  Agreed(writer, reader, fields[i]) /\ TagAgreed(writer, reader, fields[i].tag)
<1>1. fields[i] \in ToSet(fields) /\ fields[i] \in Parts(fields[i])
    BY MessageFacts, FieldHere DEF AskedInOrder
<1>2. ASSUME NEW g \in Parts(fields[i])
      PROVE  FieldAgreed(writer, reader, g) /\ TagAgreed(writer, reader, g.tag)
  <2>1. g \in AllParts
      BY <1>1 DEF AllParts
  <2>2. CASE reader = "cpp"
    <3>1. g.tag < 128
        BY <2>1, <2>2 DEF InStep, CppInStep, OneByteTags
    <3> QED
        BY <2>2, <3>1 DEF FieldAgreed, TagAgreed
  <2>3. CASE reader = "java"
    <3>1. JavaInStep
        BY <2>3 DEF InStep
    <3>2. (writer = "java" /\ reader = "java") \/ g.tag < 128
        BY <2>1, <2>3, <3>1 DEF JavaInStep, OneByteTags
    <3>3. writer = "java" \/ (g.kind = "blob" => Len(g.val) < 128)
        BY <2>1, <3>1 DEF JavaInStep, BlobsSmall
    <3> QED
        BY <3>2, <3>3 DEF FieldAgreed, TagAgreed
  <2> QED
      BY <2>2, <2>3 DEF AskedInOrder, Langs
<1> QED
    BY <1>1, <1>2 DEF Agreed

\* The positions of the fields in the buffer.
LEMMA LayExists ==
    ASSUME AskedInOrder
    PROVE  /\ Bytes \in Seq(Byte)
           /\ \E st : Lay(st) /\ st[Len(fields) + 1] = Len(Bytes)
<1> DEFINE n == Len(fields)
<1>1. n \in Nat
    BY MessageFacts DEF AskedInOrder
<1>2. ASSUME NEW i \in 1 .. n PROVE WriteField(writer, fields[i]) \in Seq(Byte)
  <2>1. FieldWorks(writer, reader, fields[i])
      BY FieldHere
  <2> QED
      BY <2>1 DEF FieldWorks
<1>3. Written1 \in [1 .. n -> Seq(Byte)]
    BY <1>2 DEF Written1
<1>4. Bytes = FlattenSeq(Written1)
    BY DEF Bytes, Written1, WriteFields
<1> DEFINE ws == Written1
<1> HIDE DEF n, ws
<1>5. LET x == FlattenSeq(ws)
      IN  x \in Seq(Byte) /\ \E st : Lies(x, 0, n, ws, st) /\ st[n + 1] = Len(x)
  <2>1. n \in Nat /\ ws \in [1 .. n -> Seq(Byte)]
      BY <1>1, <1>3 DEF ws
  <2> QED
      BY ONLY <2>1, FlattenLies
<1> QED
    BY <1>4, <1>5 DEF Lay, n, ws

\* The positions are determined by the first of them.
LEMMA LayUnique ==
    ASSUME NEW n \in Nat, NEW b, NEW c, NEW p, NEW ws, NEW st, NEW sv,
           Lies(b, p, n, ws, st), Lies(c, p, n, ws, sv)
    PROVE  st[n + 1] = sv[n + 1]
<1> DEFINE T == {i \in 1 .. n + 1 : st[i] = sv[i]}
<1>1. \A i \in 1 .. n + 1 : (\A j \in 1 .. i - 1 : j \in T) => i \in T
  <2> SUFFICES ASSUME NEW i \in 1 .. n + 1, \A j \in 1 .. i - 1 : j \in T PROVE st[i] = sv[i]
      OBVIOUS
  <2>1. CASE i = 1
      BY <2>1 DEF Lies
  <2>2. CASE i # 1
    <3>1. i - 1 \in 1 .. i - 1 /\ i - 1 \in 1 .. n /\ (i - 1) + 1 = i
        BY <2>2
    <3>2. st[i - 1] = sv[i - 1]
        BY <3>1
    <3> QED
        BY <3>1, <3>2 DEF Lies
  <2> QED
      BY <2>1, <2>2
<1>2. 1 \in Nat /\ n + 1 \in Nat /\ n + 1 \in 1 .. n + 1
    OBVIOUS
<1> HIDE DEF T
<1>3. \A i \in 1 .. n + 1 : i \in T
    BY ONLY <1>1, <1>2, UpTo
<1> QED
    BY <1>2, <1>3 DEF T

\* At a field: it is there, and it works.
LEMMA FieldThere ==
    ASSUME AskedInOrder, NEW st, Lay(st), NEW i \in 1 .. Len(fields)
    PROVE  LET x == WriteField(writer, fields[i])
           IN  /\ st[i] \in Nat /\ st[i + 1] \in Nat /\ st[i + 1] = st[i] + Len(x) /\ st[i + 1] > st[i]
               /\ Bytes \in Seq(Byte) /\ Len(Bytes) \in Nat /\ st[i] <= Len(Bytes)
               /\ Holds(Bytes, st[i], x)
               /\ FieldWorks(writer, reader, fields[i])
<1> DEFINE n == Len(fields)
           x == WriteField(writer, fields[i])
<1>1. n \in Nat
    BY MessageFacts DEF AskedInOrder
<1>2. FieldWorks(writer, reader, fields[i])
    BY FieldHere
<1>3. x \in Seq(Byte) /\ Len(x) \in Nat /\ Len(x) >= 1
    BY <1>2 DEF FieldWorks
<1>4. Written1[i] = x
    BY DEF Written1
<1>5. Bytes \in Seq(Byte) /\ Len(Bytes) \in Nat
    BY LayExists, LenProperties
<1> HIDE DEF x
<1>6. /\ st \in [1 .. n + 1 -> Nat]
      /\ st[i + 1] = st[i] + Len(x) /\ Holds(Bytes, st[i], x)
    BY <1>4 DEF Lay, Lies
<1>7. st[i] \in Nat /\ st[i + 1] \in Nat
    BY <1>1, <1>6
<1>8. st[i] + Len(x) <= Len(Bytes)
    BY <1>6 DEF Holds
<1> QED
    BY <1>2, <1>3, <1>5, <1>6, <1>7, <1>8 DEF x

LEMMA RInit == Init => RInv
<1> SUFFICES ASSUME Init PROVE RInv
    OBVIOUS
<1>1. AskedInOrder
    BY DEF Init, AskedInOrder
<1>2. PICK st : Lay(st)
    BY <1>1, LayExists
<1>3. Len(fields) \in Nat /\ \A i \in 1 .. Len(fields) : fields[i].tag > -1
    BY MessageFacts DEF Init
<1>4. Before(st, 1)
  <2>1. st[1] = 0
      BY <1>2 DEF Lay, Lies
  <2>2. in = Good(Bytes, 0, 0, 0, 0, << >>)
      BY DEF Init, Stream, Good, Bytes
  <2> QED
      BY <1>3, <2>1, <2>2 DEF Before
<1>5. AtField(1)
  <2>1. pc = "idle" /\ want = -1 /\ asked = {}
      BY DEF Init
  <2>2. \A j \in 1 .. Len(fields) : fields[j].tag > want
      BY <1>3, <2>1
  <2>3. 1 .. 1 - 1 = {}
      OBVIOUS
  <2> QED
      BY <2>1, <2>2, <2>3 DEF AtField
<1> QED
    BY <1>1, <1>2, <1>4, <1>5 DEF RInv, Placed

\* Every step asks for tags in ascending order.
LEMMA OrderKept == ASSUME AskedInOrder, [Next]_vars PROVE AskedInOrder'
<1> USE DEF AskedInOrder
<1>1. ASSUME NEW tag \in AskTags, Ask(tag) PROVE AskedInOrder'
  <2>1. tag \in Int
      BY AskTagsAssumption DEF Byte
  <2> QED
      BY <1>1, <2>1 DEF Ask
<1>2. CASE SkipPass
  <2>1. PICK p : Passed(p)
      BY <1>2 DEF SkipPass
  <2>2. pc' \in {"idle", "skip", "found", "failed"} /\ (pc' \in {"skip", "found"} => pc = "skip")
    <3>1. Pass(reader, in, want).res \in {"more", "found", "absent", "lost"}
        BY DEF Pass, CppPass, JavaPass, AfterSkip
    <3>2. pc = "skip" /\ Passed(Pass(reader, in, want))
        BY <1>2 DEF SkipPass
    <3> DEFINE r == Pass(reader, in, want)
    <3> HIDE DEF r
    <3> QED
        BY <3>1, <3>2 DEF Passed, r
  <2> QED
      BY <1>2, <2>2 DEF SkipPass
<1>3. CASE ReadWanted
  <2>1. pc' \in {"idle", "failed"}
      BY <1>3 DEF ReadWanted, Read, HasRead
  <2> QED
      BY <1>3, <2>1 DEF ReadWanted
<1>4. CASE ReadNext
  <2>1. PICK f \in ToSet(fields) :
          /\ {t \in TagsWritten : t < f.tag} = asked
          /\ Read(f)
          /\ want' = f.tag
          /\ asked' = asked \union {f.tag}
      BY <1>4 DEF ReadNext
  <2>2. f.tag \in Int
      BY MessageFacts, <2>1
  <2>3. pc' \in {"idle", "failed"}
      BY <2>1 DEF Read, HasRead
  <2>4. asked' \subseteq Int /\ \A t \in asked' : t <= want'
    <3>1. \A t \in asked : t < f.tag
        BY <2>1
    <3>2. ASSUME NEW t \in asked PROVE t \in Int /\ t <= f.tag
      <4>1. t \in Int /\ f.tag \in Int /\ t < f.tag
          BY <2>2, <3>1
      <4> QED
          BY ONLY <4>1
    <3>3. want' = f.tag /\ asked' = asked \union {f.tag} /\ f.tag \in Int
        BY <2>1, <2>2
    <3> QED
        BY ONLY <3>2, <3>3
  <2>5. UNCHANGED <<writer, reader, fields>>
      BY <1>4 DEF ReadNext
  <2>6. want' \in Int /\ want' \in asked'
      BY <2>1, <2>2
  <2> QED
      BY <2>3, <2>4, <2>5, <2>6
<1>5. CASE UNCHANGED vars
    BY <1>5 DEF vars
<1> QED
    BY <1>1, <1>2, <1>3, <1>4, <1>5 DEF Next

\* A reader that is in step has been so all the time.
LEMMA InStepBefore ==
    ASSUME AskedInOrder, [Next]_vars, InStep'
    PROVE  InStep
<1>1. UNCHANGED <<writer, reader, fields>>
    BY DEF Next, vars, Ask, SkipPass, ReadWanted, ReadNext
<1>2. TagsWritten' = TagsWritten
    BY <1>1 DEF TagsWritten
<1>3. \/ want' = want /\ asked' = asked
      \/ want' > want /\ want' \in Int /\ asked' = asked \union {want'}
  <2>1. ASSUME NEW tag \in AskTags, Ask(tag)
        PROVE  want' > want /\ want' \in Int /\ asked' = asked \union {want'}
      BY <2>1, AskTagsAssumption DEF Ask, Byte
  <2>2. CASE ReadNext
    <3>1. PICK f \in ToSet(fields) :
            /\ {t \in TagsWritten : t < f.tag} = asked
            /\ want' = f.tag
            /\ asked' = asked \union {f.tag}
        BY <2>2 DEF ReadNext
    <3>2. f.tag \in Byte /\ f.tag \in Int
        BY MessageFacts, <3>1 DEF AskedInOrder
    <3>3. f.tag > want
      <4>1. \A t \in asked : t < f.tag
          BY <3>1
      <4>2. -1 < f.tag
          BY <3>2 DEF Byte
      <4> QED
          BY <4>1, <4>2 DEF AskedInOrder
    <3> QED
        BY <3>1, <3>2, <3>3
  <2> QED
      BY <2>1, <2>2 DEF Next, vars, SkipPass, ReadWanted
<1>4. asked \subseteq asked' /\ want' >= want /\ want \in Int
    BY <1>3 DEF AskedInOrder
<1>5. OneByteTags' => OneByteTags
    BY <1>1, <1>4 DEF OneByteTags, AllParts
<1>6. CASE reader = "java"
  <2>1. JavaInStep'
      BY <1>1, <1>6 DEF InStep
  <2>2. BlobsSmall' = BlobsSmall
      BY <1>1 DEF BlobsSmall, AllParts
  <2>3. JavaInStep
      BY <1>1, <1>5, <2>1, <2>2 DEF JavaInStep
  <2> QED
      BY <1>6, <2>3 DEF InStep
<1>7. CASE reader = "cpp"
  <2>1. CppInStep'
      BY <1>1, <1>7 DEF InStep
  <2>2. FieldAhead
    <3>1. PICK t \in TagsWritten : t >= want'
        BY <1>2, <2>1 DEF CppInStep, FieldAhead
    <3>2. t \in Int
        BY <3>1, MessageFacts DEF AskedInOrder, TagsWritten
    <3>3. t >= want
        BY <1>3, <1>4, <3>1, <3>2
    <3> QED
        BY <3>1, <3>3 DEF FieldAhead
  <2>3. asked \ {want} \subseteq TagsWritten
    <3>1. asked' \ {want'} \subseteq TagsWritten
        BY <1>2, <2>1 DEF CppInStep
    <3>2. want' > want => want' \notin asked
        BY <1>3 DEF AskedInOrder
    <3> QED
        BY <1>3, <3>1, <3>2
  <2>4. ASSUME NEW f \in ToSet(fields), f.tag \in asked PROVE CppReads(writer, f)
    <3>1. \A h \in ToSet(fields) : h.tag \in asked' => CppReads(writer, h)
        BY <1>1, <2>1 DEF CppInStep
    <3> QED
        BY <1>4, <2>4, <3>1
  <2>5. ASSUME NEW f \in SkippedFields PROVE CppSkips(writer, f)
    <3>1. f \in ToSet(fields) /\ f.tag < want /\ f.tag \notin asked
        BY DEF SkippedFields
    <3>2. f.tag \in Int
        BY <3>1, MessageFacts DEF AskedInOrder
    <3>3. f.tag < want' /\ f.tag \notin asked'
        BY <1>3, <1>4, <3>1, <3>2
    <3>4. f \in SkippedFields'
        BY <1>1, <3>1, <3>3 DEF SkippedFields
    <3>5. \A h \in SkippedFields' : CppSkips(writer, h)
        BY <1>1, <2>1 DEF CppInStep
    <3> QED
        BY <3>4, <3>5
  <2>6. OneByteTags
      BY <1>5, <2>1 DEF CppInStep
  <2>7. CppInStep
      BY <2>2, <2>3, <2>4, <2>5, <2>6 DEF CppInStep
  <2> QED
      BY <1>7, <2>7 DEF InStep
<1> QED
    BY <1>6, <1>7 DEF AskedInOrder, Langs

-----------------------------------------------------------------------------
(* The steps *)

LEMMA AskPlaced ==
    ASSUME RInv, InStep, NEW tag \in AskTags, Ask(tag)
    PROVE  Placed'
<1>1. /\ pc = "idle" /\ InPlace /\ tag > want /\ pc' = "skip" /\ want' = tag
      /\ asked' = asked \union {tag}
      /\ writer' = writer /\ reader' = reader /\ fields' = fields /\ in' = in
    BY DEF Ask
<1>2. AskedInOrder /\ ~ GoneOn
    BY <1>1 DEF RInv, GoneOn, InPlace
<1>3. PICK st, i : Lay(st) /\ Before(st, i) /\ AtField(i)
    BY <1>2 DEF RInv, Placed
<1>4. Lay(st)' /\ Before(st, i)'
    BY <1>1, <1>3 DEF Lay, Before, Bytes, Written1
<1>5. /\ Len(fields) \in Nat /\ \A j \in 1 .. Len(fields) : fields[j].tag \in Int
      /\ tag \in Int /\ want \in Int /\ i \in 1 .. Len(fields) + 1
    BY <1>2, <1>3, MessageFacts, AskTagsAssumption DEF AskedInOrder, Before, Byte
<1>6. ASSUME NEW j \in 1 .. i - 1 PROVE fields[j].tag < tag
  <2>1. fields[j].tag <= want /\ j \in 1 .. Len(fields)
      BY <1>1, <1>3, <1>5 DEF AtField
  <2>2. fields[j].tag \in Int /\ fields[j].tag <= want /\ want < tag
      BY <1>1, <1>5, <2>1
  <2> QED
      BY <1>5, <2>2
<1>7. ASSUME NEW j \in i .. Len(fields), fields[j].tag \in asked \union {tag}
      PROVE  fields[j].tag = tag
  <2>1. fields[j].tag > want /\ j \in 1 .. Len(fields)
      BY <1>1, <1>3, <1>5 DEF AtField
  <2>2. fields[j].tag \in Int /\ ~ (fields[j].tag <= want)
      BY <1>5, <2>1
  <2>3. \A t \in asked : t <= want
      BY <1>2 DEF AskedInOrder
  <2> QED
      BY <1>7, <2>2, <2>3
<1>8. AtField(i)'
    BY <1>1, <1>6, <1>7 DEF AtField
<1> QED
    BY <1>4, <1>8 DEF Placed

\* The two ways in which the loop of skipToTag goes on when it has read the
\* head of the field i.
LEMMA Missing ==
    ASSUME RInv, NEW i \in 1 .. Len(fields) + 1,
           pc = "skip", AtField(i), i \in 1 .. Len(fields) => fields[i].tag > want
    PROVE  /\ want \notin TagsWritten
           /\ \A j \in 1 .. i - 1 : fields[j].tag < want
           /\ \A j \in i .. Len(fields) : fields[j].tag > want
<1>1. fields \in Messages /\ want \in Int
    BY DEF RInv, AskedInOrder
<1>2. /\ Len(fields) \in Nat /\ \A j \in 1 .. Len(fields) : fields[j].tag \in Int
      /\ \A k, j \in 1 .. Len(fields) : k < j => fields[k].tag < fields[j].tag
    BY <1>1, MessageFacts
<1>3. \A j \in 1 .. i - 1 : fields[j].tag < want
    BY DEF AtField
<1>4. ASSUME NEW j \in i .. Len(fields) PROVE fields[j].tag > want
  <2>1. i \in 1 .. Len(fields) /\ j \in 1 .. Len(fields) /\ (i = j \/ i < j)
      BY <1>2
  <2>2. fields[i].tag > want /\ fields[i].tag \in Int /\ fields[j].tag \in Int
      BY <1>2, <2>1
  <2>3. i < j => fields[i].tag < fields[j].tag
      BY <1>2, <2>1
  <2> QED
      BY <1>1, <2>1, <2>2, <2>3
<1>5. ASSUME NEW j \in 1 .. Len(fields) PROVE fields[j].tag # want
  <2>1. j \in 1 .. i - 1 \/ j \in i .. Len(fields)
      BY <1>2
  <2> QED
      BY <1>1, <1>2, <1>3, <1>4, <2>1
<1> QED
    BY <1>3, <1>4, <1>5 DEF TagsWritten

\* A search from the field i: what the pass yields.
PassAt(st, i, p) ==
    \/ /\ p.res = "more" /\ i \in 1 .. Len(fields) /\ fields[i].tag < want
       /\ \E t, g, l, v : p.s = Good(Bytes, st[i + 1], t, g, l, v)
    \/ /\ p.res = "found" /\ i \in 1 .. Len(fields) /\ fields[i].tag = want
       /\ \E t, g, l, v : p.s = Good(Bytes, st[i], t, g, l, v)
    \/ /\ p.res = "absent"
       /\ i \in 1 .. Len(fields) => fields[i].tag > want
       /\ reader = "java" => \E t, g, l, v : p.s = Good(Bytes, st[i], t, g, l, v)

\* In either language the head says which field it is.
LEMMA PassHead ==
    ASSUME RInv, InStep, NEW st, Lay(st), NEW i \in 1 .. Len(fields),
           Before(st, i), AtField(i)
    PROVE  \E ty \in NotEnd : LET k == HeadLen(fields[i].tag)
           IN  ReadHead(reader, in) = Good(Bytes, st[i] + k, ty, fields[i].tag, k, << >>)
<1> DEFINE f == fields[i]
           x == WriteField(writer, f)
<1>1. AskedInOrder
    BY DEF RInv
<1>2. TagAgreed(writer, reader, f.tag)
    BY <1>1, InStepAgreed
<1>3. /\ st[i] \in Nat /\ Bytes \in Seq(Byte) /\ Holds(Bytes, st[i], x)
      /\ FieldWorks(writer, reader, f)
    BY <1>1, FieldThere
<1>4. ShowsHead(reader, NotEnd, f, Bytes, st[i])
    BY <1>2, <1>3 DEF FieldWorks
<1>5. in = Good(Bytes, st[i], 0, 0, 0, << >>)
    BY DEF Before
<1> QED
    BY <1>4, <1>5 DEF ShowsHead

LEMMA PassSkips ==
    ASSUME RInv, InStep, NEW st, Lay(st), NEW i \in 1 .. Len(fields),
           Before(st, i), AtField(i), pc = "skip", fields[i].tag < want
    PROVE  \E t, g, l, v :
             SkipField(reader, ReadHead(reader, in)) = Good(Bytes, st[i + 1], t, g, l, v)
<1> DEFINE f == fields[i]
           x == WriteField(writer, f)
<1>1. AskedInOrder
    BY DEF RInv
<1>2. Agreed(writer, reader, f)
    BY <1>1, InStepAgreed
<1>3. /\ st[i] \in Nat /\ Bytes \in Seq(Byte) /\ Holds(Bytes, st[i], x)
      /\ FieldWorks(writer, reader, f) /\ st[i + 1] = st[i] + Len(x)
    BY <1>1, FieldThere
<1>4. ASSUME reader = "cpp" PROVE CppSkips(writer, f)
  <2>1. f.tag \notin asked
    <3>1. i \in i .. Len(fields) /\ fields[i].tag \in Int /\ want \in Int
        BY <1>1, MessageFacts DEF AskedInOrder
    <3>2. fields[i].tag \in asked => fields[i].tag = want
        BY <3>1 DEF AtField
    <3> QED
        BY <3>1, <3>2
  <2>2. f \in ToSet(fields)
      BY <1>1, MessageFacts DEF AskedInOrder
  <2>3. f \in SkippedFields
      BY <2>1, <2>2 DEF SkippedFields
  <2> QED
      BY <1>4, <2>3 DEF InStep, CppInStep
<1>5. SkipsOver(reader, f, x, Bytes, st[i])
    BY <1>2, <1>3, <1>4 DEF FieldWorks
<1>6. in = Good(Bytes, st[i], 0, 0, 0, << >>)
    BY DEF Before
<1> HIDE DEF f, x
<1>7. \E u : Yields(SkipField(reader, ReadHead(reader, in)), Bytes, st[i] + Len(x), u)
    BY <1>5, <1>6 DEF SkipsOver
<1> QED
    BY <1>3, <1>7 DEF Yields

\* At the end of the message.
LEMMA PassAtEnd ==
    ASSUME RInv, InStep, NEW st, Lay(st), Before(st, Len(fields) + 1),
           AtField(Len(fields) + 1), pc = "skip"
    PROVE  PassAt(st, Len(fields) + 1, Pass(reader, in, want))
<1> DEFINE n == Len(fields)
<1>1. AskedInOrder
    BY DEF RInv
<1>2. n \in Nat /\ fields \in Messages
    BY <1>1, MessageFacts DEF AskedInOrder
<1>3. reader = "java"
  <2>1. ASSUME reader = "cpp" PROVE FALSE
    <3>1. PICK t \in TagsWritten : t >= want
        BY <2>1 DEF InStep, CppInStep, FieldAhead
    <3>2. PICK j \in 1 .. n : t = fields[j].tag
        BY <3>1 DEF TagsWritten
    <3>3. j \in 1 .. (n + 1) - 1 /\ fields[j].tag \in Int /\ want \in Int
        BY <1>1, <1>2, MessageFacts DEF AskedInOrder
    <3>4. fields[j].tag < want
        BY <3>3 DEF AtField
    <3> QED
        BY <3>1, <3>2, <3>3, <3>4
  <2> QED
      BY <1>1, <2>1 DEF AskedInOrder, Langs
<1>4. in = Good(Bytes, st[n + 1], 0, 0, 0, << >>) /\ st[n + 1] = Len(Bytes)
  <2>1. PICK st2 : Lay(st2) /\ st2[n + 1] = Len(Bytes)
      BY <1>1, LayExists
  <2>2. st[n + 1] = st2[n + 1]
      BY <1>2, <2>1, LayUnique DEF Lay
  <2> QED
      BY <2>1, <2>2 DEF Before
<1>5. Len(Bytes) \in Nat
    BY <1>1, LayExists, LenProperties
<1>6. ReadHead("java", in).st = "error"
  <2>1. in.st = "good" /\ in.pos = Len(Bytes) /\ in.buf = Bytes
      BY <1>4, GoodStream
  <2> QED
      BY <1>5, <2>1 DEF ReadHead, Stop
<1>7. Pass(reader, in, want) = [s |-> in, res |-> "absent"]
    BY <1>3, <1>6 DEF Pass, JavaPass, AfterSkip
<1>8. n + 1 \notin 1 .. n
    BY <1>2
<1> QED
    BY <1>4, <1>7, <1>8 DEF PassAt

LEMMA JavaPassAt ==
    ASSUME RInv, InStep, NEW st, Lay(st), NEW i \in 1 .. Len(fields),
           Before(st, i), AtField(i), pc = "skip", reader = "java"
    PROVE  PassAt(st, i, Pass(reader, in, want))
<1> DEFINE tag == fields[i].tag
           k == HeadLen(tag)
           h == ReadHead("java", in)
           t == SkipField("java", h)
<1>1. tag \in Int /\ want \in Int
    BY MessageFacts DEF RInv, AskedInOrder
<1>2. PICK ty \in NotEnd : h = Good(Bytes, st[i] + k, ty, tag, k, << >>)
    BY PassHead
<1>3. in.pos = st[i]
    BY GoodStream DEF Before
<1>4. h.st = "good" /\ h.type # STRUCT_END /\ h.tag = tag
    BY <1>2, GoodStream DEF NotEnd
<1>5. [h EXCEPT !.pos = in.pos] = Good(Bytes, st[i], ty, tag, k, << >>)
    BY <1>2, <1>3 DEF Good
<1>6. Pass(reader, in, want) = JavaPass(in, want)
    BY DEF Pass
<1> HIDE DEF tag, k
<1>7. CASE want <= tag
  <2>1. JavaPass(in, want)
          = [s |-> [h EXCEPT !.pos = in.pos], res |-> IF want = tag THEN "found" ELSE "absent"]
    <3> HIDE DEF t
    <3>1. JavaPass(in, want)
            = IF h.st # "good" \/ h.type = STRUCT_END THEN [s |-> in, res |-> "absent"]
              ELSE IF want <= h.tag
              THEN [s |-> [h EXCEPT !.pos = in.pos],
                    res |-> IF want = h.tag THEN "found" ELSE "absent"]
              ELSE IF t.st = "error" THEN [s |-> [t EXCEPT !.st = "good"], res |-> "absent"]
              ELSE [s |-> t, res |-> IF t.st = "lost" THEN "lost" ELSE "more"]
        BY DEF JavaPass, t, AfterSkip
    <3> HIDE DEF h
    <3> QED
        BY <1>4, <1>7, <3>1
  <2> HIDE DEF h
  <2>2. want = tag \/ tag > want
      BY <1>1, <1>7
  <2> QED
      BY <1>1, <1>5, <1>6, <2>1, <2>2 DEF PassAt, tag
<1>8. CASE ~ (want <= tag)
  <2>1. tag < want
      BY <1>1, <1>8
  <2>2. PICK ty2, g, l, v : t = Good(Bytes, st[i + 1], ty2, g, l, v)
      BY <2>1, PassSkips DEF tag
  <2>3. t.st = "good"
      BY <2>2, GoodStream
  <2>4. JavaPass(in, want) = [s |-> t, res |-> "more"]
    <3>1. JavaPass(in, want)
            = IF h.st # "good" \/ h.type = STRUCT_END THEN [s |-> in, res |-> "absent"]
              ELSE IF want <= h.tag
              THEN [s |-> [h EXCEPT !.pos = in.pos],
                    res |-> IF want = h.tag THEN "found" ELSE "absent"]
              ELSE IF t.st = "error" THEN [s |-> [t EXCEPT !.st = "good"], res |-> "absent"]
              ELSE [s |-> t, res |-> IF t.st = "lost" THEN "lost" ELSE "more"]
        BY DEF JavaPass, AfterSkip
    <3> HIDE DEF h, t
    <3> QED
        BY <1>4, <1>8, <2>3, <3>1
  <2> HIDE DEF h, t
  <2> QED
      BY <1>6, <2>1, <2>2, <2>4 DEF PassAt, tag
<1> QED
    BY <1>7, <1>8

LEMMA CppPassAt ==
    ASSUME RInv, InStep, NEW st, Lay(st), NEW i \in 1 .. Len(fields),
           Before(st, i), AtField(i), pc = "skip", reader = "cpp"
    PROVE  PassAt(st, i, Pass(reader, in, want))
<1> DEFINE tag == fields[i].tag
           k == HeadLen(tag)
           h == ReadHead("cpp", in)
           t == SkipField("cpp", h)
<1>1. tag \in Int /\ want \in Int
    BY MessageFacts DEF RInv, AskedInOrder
<1>2. PICK ty \in NotEnd : h = Good(Bytes, st[i] + k, ty, tag, k, << >>)
    BY PassHead
<1>3. in.st = "good"
    BY GoodStream DEF Before
<1>4. /\ h.st = "good" /\ h.type # STRUCT_END /\ h.tag = tag /\ h.pos = st[i] + k /\ h.len = k
      /\ h.buf = Bytes
    BY <1>2, GoodStream DEF NotEnd
<1>5. Seek(h, Tell(h) - h.len) = Good(Bytes, st[i], ty, tag, k, << >>)
  <2>1. st[i] \in Nat /\ k \in Nat /\ Len(Bytes) \in Nat /\ st[i] <= Len(Bytes)
      BY FieldThere DEF RInv, HeadLen
  <2> HIDE DEF k, h
  <2>2. Tell(h) - h.len = st[i]
      BY <1>4, <2>1 DEF Tell
  <2>3. st[i] \in 0 .. Len(Bytes)
      BY <2>1
  <2>4. Seek(h, st[i]) = [h EXCEPT !.pos = st[i], !.st = "good"]
      BY <1>4, <2>3 DEF Seek
  <2>5. [h EXCEPT !.pos = st[i], !.st = "good"] = Good(Bytes, st[i], ty, tag, k, << >>)
    <3>1. [h EXCEPT !.pos = st[i]] = Good(Bytes, st[i], ty, tag, k, << >>)
        BY <1>2 DEF Good
    <3>2. [[h EXCEPT !.pos = st[i]] EXCEPT !.st = "good"] = Good(Bytes, st[i], ty, tag, k, << >>)
        BY <3>1 DEF Good
    <3> QED
        BY <3>2
  <2> QED
      BY <2>2, <2>4, <2>5
<1>6. Pass(reader, in, want) = CppPass(in, want)
    BY DEF Pass
<1> HIDE DEF tag, k
<1>7. CppPass(in, want)
        = IF in.st # "good" \/ h.type = STRUCT_END
          THEN [s |-> IF in.st # "good" THEN in ELSE h, res |-> "absent"]
          ELSE IF want < h.tag THEN [s |-> h, res |-> "absent"]
          ELSE IF want = h.tag THEN [s |-> Seek(h, Tell(h) - h.len), res |-> "found"]
          ELSE IF t.st = "error" THEN [s |-> [t EXCEPT !.st = "good"], res |-> "absent"]
          ELSE [s |-> t, res |-> IF t.st = "lost" THEN "lost" ELSE "more"]
    BY DEF CppPass, AfterSkip
<1>8. CASE want < tag
  <2>1. CppPass(in, want) = [s |-> h, res |-> "absent"]
    <3> HIDE DEF h, t
    <3> QED
        BY <1>3, <1>4, <1>7, <1>8
  <2>2. tag > want
      BY <1>1, <1>8
  <2> HIDE DEF h
  <2> QED
      BY <1>6, <2>1, <2>2 DEF PassAt, tag
<1>9. CASE want = tag
  <2>1. CppPass(in, want) = [s |-> Good(Bytes, st[i], ty, tag, k, << >>), res |-> "found"]
    <3>1. ~ (want < tag)
        BY <1>1, <1>9
    <3> HIDE DEF h, t
    <3> QED
        BY <1>3, <1>4, <1>5, <1>7, <1>9, <3>1
  <2> QED
      BY <1>6, <1>9, <2>1 DEF PassAt, tag
<1>10. CASE tag < want
  <2>1. ~ (want < tag) /\ want # tag
      BY <1>1, <1>10
  <2>2. PICK ty2, g, l, v : t = Good(Bytes, st[i + 1], ty2, g, l, v)
      BY <1>10, PassSkips DEF tag
  <2>3. t.st = "good"
      BY <2>2, GoodStream
  <2>4. CppPass(in, want) = [s |-> t, res |-> "more"]
    <3> HIDE DEF h, t
    <3> QED
        BY <1>3, <1>4, <1>7, <2>1, <2>3
  <2> HIDE DEF h, t
  <2> QED
      BY <1>6, <1>10, <2>2, <2>4 DEF PassAt, tag
<1> QED
    BY <1>1, <1>8, <1>9, <1>10

\* A pass finds the reader in front of a field, or at the end.
LEMMA PassHas ==
    ASSUME RInv, InStep, pc = "skip"
    PROVE  \E st, i : /\ Lay(st) /\ Before(st, i) /\ AtField(i)
                     /\ PassAt(st, i, Pass(reader, in, want))
<1>2. AskedInOrder /\ ~ GoneOn
    BY DEF RInv, GoneOn
<1>3. PICK st, i : Lay(st) /\ Before(st, i) /\ AtField(i)
    BY <1>2 DEF RInv, Placed
<1>4. Len(fields) \in Nat /\ i \in 1 .. Len(fields) + 1
    BY <1>2, <1>3, MessageFacts DEF AskedInOrder, Before
<1>5. PassAt(st, i, Pass(reader, in, want))
  <2>1. CASE i = Len(fields) + 1
    <3>1. Before(st, Len(fields) + 1) /\ AtField(Len(fields) + 1)
        BY <1>3, <2>1
    <3> QED
        BY <1>3, <2>1, <3>1, PassAtEnd
  <2>2. CASE i # Len(fields) + 1
    <3>1. i \in 1 .. Len(fields)
        BY <1>4, <2>2
    <3>2. reader = "cpp" \/ reader = "java"
        BY <1>2 DEF AskedInOrder, Langs
    <3> QED
        BY <1>2, <1>3, <3>1, <3>2, JavaPassAt, CppPassAt
  <2> QED
      BY <2>1, <2>2
<1> QED
    BY <1>3, <1>5

\* The pass that does not end the loop leaves the reader behind the field.
LEMMA PassMovesOn ==
    ASSUME RInv, InStep, pc = "skip", Pass(reader, in, want).res = "more"
    PROVE  Pass(reader, in, want).s.pos > in.pos
<1> DEFINE p == Pass(reader, in, want)
<1>1. PICK st, i : Lay(st) /\ Before(st, i) /\ AtField(i) /\ PassAt(st, i, p)
    BY PassHas
<1>2. p.res = "more"
    OBVIOUS
<1> HIDE DEF p
<1>3. i \in 1 .. Len(fields) /\ \E t, g, l, v : p.s = Good(Bytes, st[i + 1], t, g, l, v)
    BY <1>1, <1>2 DEF PassAt
<1>4. st[i + 1] > st[i]
    BY <1>1, <1>3, FieldThere DEF RInv
<1>5. in.pos = st[i] /\ p.s.pos = st[i + 1]
    BY <1>1, <1>3, GoodStream DEF Before
<1>6. p.s.pos > in.pos
    BY <1>4, <1>5
<1> QED
    BY <1>6 DEF p

-----------------------------------------------------------------------------
\* A pass leaves the reader in front of a field, or, in C++, behind the head
\* of a greater one.
LEMMA SkipPlaced ==
    ASSUME RInv, InStep, SkipPass
    PROVE  Placed'
<1> DEFINE p == Pass(reader, in, want)
<1>1. /\ pc = "skip" /\ want' = want /\ asked' = asked /\ Passed(p)
      /\ writer' = writer /\ reader' = reader /\ fields' = fields
    BY DEF SkipPass
<1>2. AskedInOrder
    BY DEF RInv
<1>3. PICK st, i : Lay(st) /\ Before(st, i) /\ AtField(i) /\ PassAt(st, i, p)
    BY <1>1, PassHas
<1>4. /\ Len(fields) \in Nat /\ i \in 1 .. Len(fields) + 1
      /\ \A j \in 1 .. Len(fields) : fields[j].tag \in Int
      /\ want \in Int
    BY <1>2, <1>3, MessageFacts DEF AskedInOrder, Before
<1>5. PassAt(st, i, p)
    BY <1>3
<1> HIDE DEF p
<1>6. Lay(st)' /\ Bytes' = Bytes /\ TagsWritten' = TagsWritten
    BY <1>1, <1>3 DEF Lay, Bytes, Written1, TagsWritten
<1>7. CASE /\ p.res = "more" /\ i \in 1 .. Len(fields) /\ fields[i].tag < want
           /\ \E t, g, l, v : p.s = Good(Bytes, st[i + 1], t, g, l, v)
  <2>1. in' = Good(Bytes, st[i + 1], 0, 0, 0, << >>) /\ pc' = "skip"
      BY <1>1, <1>7, Forgotten DEF Passed, At
  <2>2. i + 1 \in 1 .. Len(fields) + 1 /\ (i + 1) - 1 = i
      BY <1>4, <1>7
  <2>3. Before(st, i + 1)'
      BY <1>1, <1>6, <2>1, <2>2 DEF Before
  <2>4. ASSUME NEW j \in 1 .. i PROVE fields[j].tag < want
    <3>1. j = i \/ j \in 1 .. i - 1
        BY <1>4
    <3> QED
        BY <1>1, <1>3, <1>7, <3>1 DEF AtField
  <2>5. ASSUME NEW j \in i + 1 .. Len(fields), fields[j].tag \in asked
        PROVE  fields[j].tag = want
    <3>1. j \in i .. Len(fields)
        BY <1>4
    <3> QED
        BY <1>1, <1>3, <2>5, <3>1 DEF AtField
  <2>6. AtField(i + 1)'
      BY <1>1, <2>1, <2>2, <2>4, <2>5 DEF AtField
  <2> QED
      BY <1>6, <2>3, <2>6 DEF Placed
<1>8. CASE /\ p.res = "found" /\ i \in 1 .. Len(fields) /\ fields[i].tag = want
           /\ \E t, g, l, v : p.s = Good(Bytes, st[i], t, g, l, v)
  <2>1. in' = Good(Bytes, st[i], 0, 0, 0, << >>) /\ pc' = "found"
      BY <1>1, <1>8, Forgotten DEF Passed, At
  <2>2. Before(st, i)'
      BY <1>1, <1>4, <1>6, <2>1 DEF Before
  <2>3. AtField(i)'
      BY <1>1, <1>8, <2>1 DEF AtField
  <2> QED
      BY <1>6, <2>1, <2>2, <2>3 DEF Placed
<1>9. CASE /\ p.res = "absent"
           /\ i \in 1 .. Len(fields) => fields[i].tag > want
           /\ reader = "java" => \E t, g, l, v : p.s = Good(Bytes, st[i], t, g, l, v)
  <2>1. in' = Forget(p.s) /\ pc' = "idle" /\ answer' = [out |-> "absent", val |-> << >>]
      BY <1>1, <1>9 DEF Passed
  <2>2. /\ want \notin TagsWritten
        /\ \A j \in 1 .. i - 1 : fields[j].tag < want
        /\ \A j \in i .. Len(fields) : fields[j].tag > want
      BY <1>1, <1>3, <1>4, <1>9, Missing
  <2>3. Right' /\ answer'.out = "absent"
      BY <1>1, <1>6, <2>1, <2>2 DEF Right
  <2>4. CASE reader = "cpp"
    <3>1. GoneOn'
        BY <1>1, <2>1, <2>3, <2>4 DEF GoneOn
    <3> QED
        BY <2>1, <3>1 DEF Placed
  <2>5. CASE reader = "java"
    <3>1. in' = Good(Bytes, st[i], 0, 0, 0, << >>)
        BY <1>9, <2>1, <2>5, Forgotten DEF At
    <3>2. Before(st, i)'
        BY <1>1, <1>4, <1>6, <3>1 DEF Before
    <3>3. ASSUME NEW j \in 1 .. i - 1 PROVE fields[j].tag <= want
      <4>1. j \in 1 .. Len(fields)
          BY <1>4
      <4>2. fields[j].tag < want /\ fields[j].tag \in Int
          BY <1>4, <2>2, <4>1
      <4> QED
          BY <1>4, <4>2
    <3>4. AtField(i)'
        BY <1>1, <2>1, <2>2, <2>3, <3>3 DEF AtField
    <3> QED
        BY <1>6, <2>1, <3>2, <3>4 DEF Placed
  <2> QED
      BY <1>2, <2>4, <2>5 DEF AskedInOrder, Langs
<1> QED
    BY <1>5, <1>7, <1>8, <1>9 DEF PassAt

\* The answer to come is the value of f, or another if a text in it is not kept.
GetsRight(f) ==
    /\ answer'.out = "value"
    /\ TextsKept(writer, reader, f) => answer'.val = Expected(reader, f)

\* Reading the field in front of it gives the reader its value and leads it
\* behind the field.
LEMMA ReadHere ==
    ASSUME AskedInOrder, InStep, NEW st, Lay(st), NEW i \in 1 .. Len(fields),
           Before(st, i), reader = "cpp" => CppReads(writer, fields[i]),
           Read(fields[i])
    PROVE  /\ in' = Good(Bytes, st[i + 1], 0, 0, 0, << >>)
           /\ pc' = "idle"
           /\ GetsRight(fields[i])
<1> DEFINE f == fields[i]
           x == WriteField(writer, f)
           r == ReadField(reader, in, f)
<1>1. Agreed(writer, reader, f)
    BY InStepAgreed
<1>2. /\ st[i] \in Nat /\ Bytes \in Seq(Byte) /\ Holds(Bytes, st[i], x)
      /\ FieldWorks(writer, reader, f) /\ st[i + 1] = st[i] + Len(x)
    BY FieldThere
<1>3. ReadsBack(writer, reader, f, x, Bytes, st[i])
  <2> HIDE DEF x, f
  <2>1. reader = "cpp" => CppReads(writer, f)
      BY DEF f
  <2> QED
      BY <1>1, <1>2, <2>1 DEF FieldWorks, x
<1>4. PICK u : /\ Yields(r, Bytes, st[i + 1], u)
               /\ TextsKept(writer, reader, f) => u = Expected(reader, f)
  <2> HIDE DEF x, f
  <2>1. in = Good(Bytes, st[i], 0, 0, 0, << >>)
      BY DEF Before
  <2> QED
      BY <1>2, <1>3, <2>1 DEF ReadsBack
<1>5. PICK t, g, l : r = Good(Bytes, st[i + 1], t, g, l, u)
    BY <1>4 DEF Yields
<1>6. r.st = "good" /\ r.val = u
    BY <1>5, GoodStream
<1>7. Forget(r) = Good(Bytes, st[i + 1], 0, 0, 0, << >>)
    BY <1>5, Forgotten DEF At
<1> HIDE DEF r
<1>8. HasRead(r)
    BY DEF Read, r
<1>9. answer' = [out |-> "value", val |-> u]
    BY <1>6, <1>8 DEF HasRead
<1> QED
    BY <1>4, <1>6, <1>7, <1>8, <1>9 DEF HasRead, GetsRight

LEMMA BehindField ==
    ASSUME AskedInOrder, InStep, NEW st, Lay(st), NEW i \in 1 .. Len(fields),
           in' = Good(Bytes, st[i + 1], 0, 0, 0, << >>), pc' = "idle",
           GetsRight(fields[i]),
           UNCHANGED <<writer, reader, fields>>, want' = fields[i].tag
    PROVE  Placed'
<1>1. /\ Len(fields) \in Nat
      /\ \A j \in 1 .. Len(fields) : fields[j].tag \in Int
      /\ \A k, j \in 1 .. Len(fields) : k < j => fields[k].tag < fields[j].tag
    BY MessageFacts DEF AskedInOrder
<1>2. Lay(st)' /\ Bytes' = Bytes /\ TagsWritten' = TagsWritten
    BY DEF Lay, Bytes, Written1, TagsWritten
<1>3. i + 1 \in 1 .. Len(fields) + 1 /\ (i + 1) - 1 = i
    BY <1>1
<1>4. Before(st, i + 1)'
    BY <1>2, <1>3 DEF Before
<1>5. ASSUME NEW j \in 1 .. i PROVE fields[j].tag <= fields[i].tag
  <2>1. j \in 1 .. Len(fields) /\ (j = i \/ j < i)
      BY <1>1
  <2>2. fields[j].tag \in Int /\ fields[i].tag \in Int
      BY <1>1, <2>1
  <2> QED
      BY <1>1, <2>1, <2>2
<1>6. ASSUME NEW j \in i + 1 .. Len(fields) PROVE fields[j].tag > fields[i].tag
  <2>1. j \in 1 .. Len(fields) /\ i < j
      BY <1>1
  <2>2. fields[j].tag \in Int /\ fields[i].tag \in Int
      BY <1>1, <2>1
  <2> QED
      BY <1>1, <2>1, <2>2
<1>7. Right'
  <2>1. FieldOf(fields[i].tag) = fields[i] /\ fields[i].tag \in TagsWritten
      BY FieldOfTag DEF AskedInOrder
  <2>2. want' \in TagsWritten' /\ FieldOf(want)' = fields[i]
      BY <1>2, <2>1 DEF FieldOf
  <2> QED
      BY <2>2 DEF Right, GetsRight
<1>8. AtField(i + 1)'
    BY <1>3, <1>5, <1>6, <1>7 DEF AtField
<1> QED
    BY <1>2, <1>4, <1>8 DEF Placed

\* The field found is read.
LEMMA WantedPlaced ==
    ASSUME RInv, InStep, ReadWanted
    PROVE  Placed' /\ pc' # "skip"
<1>1. /\ pc = "found" /\ want' = want
      /\ writer' = writer /\ reader' = reader /\ fields' = fields
    BY DEF ReadWanted
<1>2. AskedInOrder /\ ~ GoneOn
    BY <1>1 DEF RInv, GoneOn
<1>3. PICK st, i : Lay(st) /\ Before(st, i) /\ AtField(i)
    BY <1>2 DEF RInv, Placed
<1>4. i \in 1 .. Len(fields) /\ fields[i].tag = want
    BY <1>1, <1>3 DEF AtField
<1>5. FieldOf(want) = fields[i] /\ want \in TagsWritten
    BY <1>2, <1>4, FieldOfTag DEF AskedInOrder
<1>6. Read(fields[i])
    BY <1>5 DEF ReadWanted
<1>7. reader = "cpp" => CppReads(writer, fields[i])
  <2>1. fields[i] \in ToSet(fields) /\ fields[i].tag \in asked
      BY <1>1, <1>2, <1>4, MessageFacts DEF AskedInOrder
  <2> QED
      BY <2>1 DEF InStep, CppInStep
<1>8. /\ in' = Good(Bytes, st[i + 1], 0, 0, 0, << >>)
      /\ pc' = "idle"
      /\ GetsRight(fields[i])
    BY <1>2, <1>3, <1>4, <1>6, <1>7, ReadHere
<1> QED
    BY <1>1, <1>2, <1>3, <1>4, <1>8, BehindField

\* The field read without a look at its tag is the one ahead.
LEMMA NextPlaced ==
    ASSUME RInv, InStep, InStep', ReadNext
    PROVE  Placed' /\ pc' # "skip"
<1>1. /\ pc = "idle" /\ reader = "cpp" /\ InPlace
      /\ writer' = writer /\ reader' = reader /\ fields' = fields
    BY DEF ReadNext
<1>2. AskedInOrder /\ ~ GoneOn
    BY <1>1 DEF RInv, GoneOn, InPlace
<1>3. PICK st, i : Lay(st) /\ Before(st, i) /\ AtField(i)
    BY <1>2 DEF RInv, Placed
<1>4. PICK f \in ToSet(fields) :
        /\ {t \in TagsWritten : t < f.tag} = asked
        /\ Read(f)
        /\ want' = f.tag
        /\ asked' = asked \union {f.tag}
    BY DEF ReadNext
<1>5. /\ Len(fields) \in Nat
      /\ \A j \in 1 .. Len(fields) : fields[j].tag \in Int /\ fields[j].tag > -1
      /\ \A k, j \in 1 .. Len(fields) : k < j => fields[k].tag < fields[j].tag
      /\ ToSet(fields) = {fields[j] : j \in 1 .. Len(fields)}
      /\ i \in 1 .. Len(fields) + 1
      /\ want \in Int
    BY <1>2, <1>3, MessageFacts DEF AskedInOrder, Before
<1>6. PICK m \in 1 .. Len(fields) : f = fields[m]
    BY <1>5
<1>7. ASSUME NEW j \in 1 .. i - 1 PROVE j # m
  <2>1. j \in 1 .. Len(fields) /\ fields[j].tag <= want
      BY <1>1, <1>3, <1>5 DEF AtField
  <2>2. want < f.tag
    <3>1. \A t \in asked : t < f.tag
        BY <1>4
    <3>2. f.tag \in Int /\ f.tag > -1
        BY <1>5, <1>6
    <3> QED
        BY <1>2, <3>1, <3>2 DEF AskedInOrder
  <2>3. fields[j].tag \in Int /\ f.tag \in Int
      BY <1>5, <1>6, <2>1
  <2> QED
      BY <1>5, <1>6, <2>1, <2>2, <2>3
<1>8. ASSUME NEW j \in i .. m - 1 PROVE FALSE
  <2>1. j \in 1 .. Len(fields) /\ j < m /\ j \in i .. Len(fields)
      BY <1>5
  <2>2. fields[j].tag > want /\ fields[j].tag < f.tag
      BY <1>1, <1>3, <1>5, <1>6, <2>1 DEF AtField
  <2>3. fields[j].tag \in asked
      BY <1>4, <2>1, <2>2 DEF TagsWritten
  <2>4. fields[j].tag <= want
      BY <1>2, <2>3 DEF AskedInOrder
  <2> QED
      BY <1>5, <2>1, <2>2, <2>4
<1>9. i = m
  <2>1. ASSUME m < i PROVE FALSE
    <3>1. m \in 1 .. i - 1
        BY <1>5, <2>1
    <3> QED
        BY <1>7, <3>1
  <2>2. ASSUME i < m PROVE FALSE
    <3>1. i \in i .. m - 1
        BY <1>5, <2>2
    <3> QED
        BY <1>8, <3>1
  <2> QED
      BY <1>5, <2>1, <2>2
<1>10. i \in 1 .. Len(fields) /\ f = fields[i]
    BY <1>6, <1>9
<1>11. CppReads(writer, fields[i])
  <2>1. CppInStep'
      BY <1>1 DEF InStep
  <2>2. \A g \in ToSet(fields) : g.tag \in asked' => CppReads(writer, g)
      BY <1>1, <2>1 DEF CppInStep
  <2> QED
      BY <1>4, <1>10, <2>2
<1>12. Read(fields[i]) /\ want' = fields[i].tag
    BY <1>4, <1>10
<1>13. /\ in' = Good(Bytes, st[i + 1], 0, 0, 0, << >>)
       /\ pc' = "idle"
       /\ GetsRight(fields[i])
    BY <1>2, <1>3, <1>10, <1>11, <1>12, ReadHere
<1> QED
    BY <1>1, <1>2, <1>3, <1>10, <1>12, <1>13, BehindField
-----------------------------------------------------------------------------
LEMMA StutterPlaced ==
    ASSUME Placed, UNCHANGED vars
    PROVE  Placed'
<1>1. /\ writer' = writer /\ reader' = reader /\ fields' = fields /\ in' = in
      /\ pc' = pc /\ want' = want /\ asked' = asked /\ answer' = answer
    BY DEF vars
<1>2. Right' = Right
    BY <1>1 DEF Right, TagsWritten, FieldOf
<1>3. CASE GoneOn
  <2>1. GoneOn'
      BY <1>1, <1>2, <1>3 DEF GoneOn
  <2> QED
      BY <2>1 DEF Placed
<1>4. CASE \E st, i : Lay(st) /\ Before(st, i) /\ AtField(i)
  <2>1. PICK st, i : Lay(st) /\ Before(st, i) /\ AtField(i)
      BY <1>4
  <2>2. Lay(st)' /\ Before(st, i)'
      BY <1>1, <2>1 DEF Lay, Before, Bytes, Written1
  <2>3. AtField(i)'
      BY <1>1, <1>2, <2>1 DEF AtField
  <2> QED
      BY <2>2, <2>3 DEF Placed
<1> QED
    BY <1>3, <1>4 DEF Placed

LEMMA RNext ==
    ASSUME RInv, [Next]_vars
    PROVE  RInv'
<1>1. AskedInOrder /\ AskedInOrder'
    BY OrderKept DEF RInv
<1>2. ASSUME InStep' PROVE Placed'
  <2>1. InStep /\ Placed
      BY <1>1, <1>2, InStepBefore DEF RInv
  <2>2. ASSUME NEW tag \in AskTags, Ask(tag) PROVE Placed'
      BY <2>1, <2>2, AskPlaced
  <2>3. CASE SkipPass
      BY <2>1, <2>3, SkipPlaced
  <2>4. CASE ReadWanted
      BY <2>1, <2>4, WantedPlaced
  <2>5. CASE ReadNext
      BY <1>2, <2>1, <2>5, NextPlaced
  <2>6. CASE UNCHANGED vars
      BY <2>1, <2>6, StutterPlaced
  <2> QED
      BY <2>2, <2>3, <2>4, <2>5, <2>6 DEF Next
<1> QED
    BY <1>1, <1>2 DEF RInv

LEMMA ReaderInvariant == Spec => []RInv
<1>1. Init => RInv
    BY RInit
<1>2. RInv /\ [Next]_vars => RInv'
    BY RNext
<1> QED
    BY <1>1, <1>2, PTL DEF Spec

\* An answer has been given only in front of a field or past a missing one.
LEMMA PlacedRight ==
    ASSUME RInv, InStep, Answered
    PROVE  Right
<1>1. CASE GoneOn
    BY <1>1 DEF GoneOn
<1>2. ASSUME NEW st, NEW i, AtField(i)
      PROVE  Right
    BY <1>2 DEF Answered, AtField
<1> QED
    BY <1>1, <1>2 DEF RInv, Placed

(***************************************************************************)
(* ProtoInputStream gives the right answer to every question about a       *)
(* message, whatever fields, maps, lists and nested structs it holds, but  *)
(* for the texts in it that two character sets garble (TextsKept).         *)
(***************************************************************************)
THEOREM JavaReaderIsRight == Spec => []JavaReaderRight
<1>2. RInv => JavaReaderRight
    BY PlacedRight DEF JavaReaderRight
<1>3. Spec => []RInv
    BY ReaderInvariant
<1> QED
    BY <1>2, <1>3, PTL

(***************************************************************************)
(* So does ProtoIn, as long as it is in step.                              *)
(***************************************************************************)
THEOREM CppReaderIsRight == Spec => []CppReaderRight
<1>2. RInv => CppReaderRight
    BY PlacedRight DEF CppReaderRight
<1>3. Spec => []RInv
    BY ReaderInvariant
<1> QED
    BY <1>2, <1>3, PTL

(***************************************************************************)
(* Every pass of skipToTag that does not end it moves on, so that the loop *)
(* ends.                                                                   *)
(***************************************************************************)
THEOREM SkippingMovesOn == Spec => []SkipMovesOn
<1>1. RInv => SkipMovesOn
    BY PassMovesOn DEF SkipMovesOn, FurtherOn
<1>2. Spec => []RInv
    BY ReaderInvariant
<1> QED
    BY <1>1, <1>2, PTL

-----------------------------------------------------------------------------
(***************************************************************************)
(* The stream never leaves its bytes, whatever is asked of it              *)
(***************************************************************************)
Statuses == {"good", "eof", "error", "lost"}
Sound(s) ==
    /\ s = [buf |-> s.buf, pos |-> s.pos, st |-> s.st, type |-> s.type, tag |-> s.tag,
            len |-> s.len, val |-> s.val]
    /\ s.buf \in Seq(Byte) /\ s.pos \in 0 .. Len(s.buf) /\ s.st \in Statuses

\* The parts of a stream that can be set without harm.
LEMMA SoundSet ==
    ASSUME NEW s, Sound(s)
    PROVE  /\ \A w \in Statuses : Sound([s EXCEPT !.st = w])
           /\ \A p \in 0 .. Len(s.buf) : Sound([s EXCEPT !.pos = p])
           /\ \A x : Sound([s EXCEPT !.type = x]) /\ Sound([s EXCEPT !.tag = x])
           /\ \A x : Sound([s EXCEPT !.len = x]) /\ Sound([s EXCEPT !.val = x])
           /\ Len(s.buf) \in Nat /\ s.pos \in Nat
<1>1. ASSUME NEW w \in Statuses PROVE Sound([s EXCEPT !.st = w])
    BY DEF Sound
<1>2. ASSUME NEW p \in 0 .. Len(s.buf) PROVE Sound([s EXCEPT !.pos = p])
    BY DEF Sound
<1>3. ASSUME NEW x PROVE Sound([s EXCEPT !.type = x])
    BY DEF Sound
<1>4. ASSUME NEW x PROVE Sound([s EXCEPT !.tag = x])
    BY DEF Sound
<1>5. ASSUME NEW x PROVE Sound([s EXCEPT !.len = x])
    BY DEF Sound
<1>6. ASSUME NEW x PROVE Sound([s EXCEPT !.val = x])
    BY DEF Sound
<1>7. Len(s.buf) \in Nat /\ s.pos \in Nat
    BY LenProperties DEF Sound
<1> QED
    BY <1>1, <1>2, <1>3, <1>4, <1>5, <1>6, <1>7

LEMMA SoundStop ==
    ASSUME NEW s, Sound(s), NEW w \in Statuses
    PROVE  Sound(Stop(s, w)) /\ Stop(s, w).st = w
<1>1. Sound(Stop(s, w))
    BY SoundSet DEF Stop
<1>2. Stop(s, w).st = w
    BY DEF Stop, Sound
<1> QED
    BY <1>1, <1>2

LEMMA SoundValue ==
    ASSUME NEW s, Sound(s), NEW v
    PROVE  Sound(Value(s, v)) /\ (s.st = "good" => Value(s, v).val = v) /\ Value(s, v).st = s.st
<1>1. Sound(Value(s, v))
    BY SoundSet DEF Value
<1>2. (s.st = "good" => Value(s, v).val = v) /\ Value(s, v).st = s.st
    BY DEF Value, Sound
<1> QED
    BY <1>1, <1>2

LEMMA SoundTake ==
    ASSUME NEW lang, NEW s, Sound(s), NEW n \in Nat
    PROVE  /\ Sound(Take(lang, s, n))
           /\ Take(lang, s, n).st = "good" =>
                Take(lang, s, n).val \in Seq(Byte) /\ Len(Take(lang, s, n).val) = n
<1>1. CASE s.st # "good"
    BY <1>1 DEF Take
<1>2. CASE s.st = "good" /\ s.pos + n > Len(s.buf)
  <2>1. Take(lang, s, n) = Stop(s, IF lang = "cpp" THEN "lost" ELSE "error")
      BY <1>2 DEF Take
  <2> DEFINE w == IF lang = "cpp" THEN "lost" ELSE "error"
  <2>2. w \in Statuses /\ w # "good"
      BY DEF Statuses
  <2> HIDE DEF w
  <2>3. Sound(Stop(s, w)) /\ Stop(s, w).st = w
      BY <2>2, SoundStop
  <2> QED
      BY <2>1, <2>2, <2>3 DEF w
<1>3. CASE s.st = "good" /\ ~ (s.pos + n > Len(s.buf))
  <2> DEFINE x == SubSeq(s.buf, s.pos + 1, s.pos + n)
  <2>1. Take(lang, s, n) = [s EXCEPT !.pos = @ + n, !.val = x]
      BY <1>3 DEF Take
  <2>2. s.pos + n \in 0 .. Len(s.buf) /\ s.pos \in Nat /\ Len(s.buf) \in Nat
      BY <1>3, SoundSet
  <2>3. x \in Seq(Byte) /\ Len(x) = n
    <3>1. s.buf \in Seq(Byte)
        BY DEF Sound
    <3> QED
        BY <2>2, <3>1
  <2> HIDE DEF x
  <2>4. Sound([s EXCEPT !.pos = s.pos + n])
      BY <2>2, SoundSet
  <2>5. Sound([[s EXCEPT !.pos = s.pos + n] EXCEPT !.val = x])
      BY <2>4, SoundSet
  <2>6. [s EXCEPT !.pos = @ + n, !.val = x] = [[s EXCEPT !.pos = s.pos + n] EXCEPT !.val = x]
      BY DEF Sound
  <2>7. [[s EXCEPT !.pos = s.pos + n] EXCEPT !.val = x].val = x
      BY DEF Sound
  <2> QED
      BY <2>1, <2>3, <2>5, <2>6, <2>7
<1> QED
    BY <1>1, <1>2, <1>3

LEMMA SoundSeek ==
    ASSUME NEW s, Sound(s), NEW p
    PROVE  Sound(Seek(s, p))
<1>1. CASE s.st \notin {"good", "eof"}
    BY <1>1 DEF Seek
<1>2. CASE s.st \in {"good", "eof"} /\ p \in 0 .. Len(s.buf)
  <2>1. Seek(s, p) = [s EXCEPT !.pos = p, !.st = "good"]
      BY <1>2 DEF Seek
  <2>2. Sound([s EXCEPT !.pos = p])
      BY <1>2, SoundSet
  <2>3. Sound([[s EXCEPT !.pos = p] EXCEPT !.st = "good"])
      BY <2>2, SoundSet DEF Statuses
  <2> QED
      BY <2>1, <2>3
<1>3. CASE s.st \in {"good", "eof"} /\ p \notin 0 .. Len(s.buf)
  <2>1. Seek(s, p) = Stop(s, "eof")
      BY <1>3 DEF Seek
  <2> QED
      BY <2>1, SoundStop DEF Statuses
<1> QED
    BY <1>1, <1>2, <1>3

LEMMA SoundAdvance ==
    ASSUME NEW lang, NEW s, Sound(s), NEW n
    PROVE  Sound(Advance(lang, s, n))
<1>1. Sound(Seek(s, Tell(s) + n)) /\ Sound(Seek(s, s.pos + n))
    BY SoundSeek
<1>2. Sound(Stop(s, "lost"))
    BY SoundStop DEF Statuses
<1> QED
    BY <1>1, <1>2 DEF Advance

LEMMA SoundHead ==
    ASSUME NEW lang, NEW s, Sound(s)
    PROVE  Sound(ReadHead(lang, s))
<1>1. CASE s.st \notin {"good", "eof"}
    BY <1>1 DEF ReadHead
<1>2. CASE s.st \in {"good", "eof"} /\ (s.st = "eof" \/ s.pos >= Len(s.buf))
  <2>1. ReadHead(lang, s)
          = IF lang = "cpp" THEN [s EXCEPT !.st = "eof", !.type = BYTE, !.tag = 0, !.len = 1]
                            ELSE Stop(s, "error")
      BY <1>2 DEF ReadHead
  <2>2. Sound(Stop(s, "error"))
      BY SoundStop DEF Statuses
  <2>3. Sound([s EXCEPT !.st = "eof"])
      BY SoundSet DEF Statuses
  <2>4. Sound([[s EXCEPT !.st = "eof"] EXCEPT !.type = BYTE])
      BY <2>3, SoundSet
  <2>5. Sound([[[s EXCEPT !.st = "eof"] EXCEPT !.type = BYTE] EXCEPT !.tag = 0])
      BY <2>4, SoundSet
  <2>6. Sound([[[[s EXCEPT !.st = "eof"] EXCEPT !.type = BYTE] EXCEPT !.tag = 0] EXCEPT !.len = 1])
      BY <2>5, SoundSet
  <2> QED
      BY <2>1, <2>2, <2>6
<1>3. CASE s.st \in {"good", "eof"} /\ ~ (s.st = "eof" \/ s.pos >= Len(s.buf))
  <2> DEFINE b == s.buf[s.pos + 1]
             t == s.buf[s.pos + 2]
             g == IF lang = "cpp" THEN SignedChar(t) ELSE t
             t1 == b % 16
             g1 == b \div 16
  <2>1. ReadHead(lang, s)
          = IF b \div 16 < 15
            THEN [s EXCEPT !.pos = @ + 1, !.len = 1, !.type = t1, !.tag = g1]
            ELSE IF s.pos + 2 > Len(s.buf) THEN Stop(s, "lost")
            ELSE [s EXCEPT !.pos = @ + 2, !.len = 2, !.type = t1, !.tag = g]
      BY <1>3 DEF ReadHead
  <2>2. /\ s.pos + 1 \in 0 .. Len(s.buf)
        /\ ~ (s.pos + 2 > Len(s.buf)) => s.pos + 2 \in 0 .. Len(s.buf)
      BY <1>3, SoundSet
  <2>3. Sound(Stop(s, "lost"))
      BY SoundStop DEF Statuses
  <2> HIDE DEF b, t, g, t1, g1
  <2>4. ASSUME NEW p \in 0 .. Len(s.buf), NEW l, NEW y, NEW z
        PROVE  Sound([s EXCEPT !.pos = p, !.len = l, !.type = y, !.tag = z])
    <3>1. Sound([s EXCEPT !.pos = p])
        BY SoundSet
    <3>2. Sound([[s EXCEPT !.pos = p] EXCEPT !.len = l])
        BY <3>1, SoundSet
    <3>3. Sound([[[s EXCEPT !.pos = p] EXCEPT !.len = l] EXCEPT !.type = y])
        BY <3>2, SoundSet
    <3>4. Sound([[[[s EXCEPT !.pos = p] EXCEPT !.len = l] EXCEPT !.type = y] EXCEPT !.tag = z])
        BY <3>3, SoundSet
    <3> QED
        BY <3>4
  <2>5. Sound([s EXCEPT !.pos = s.pos + 1, !.len = 1, !.type = t1, !.tag = g1])
      BY <2>2, <2>4
  <2>6. ~ (s.pos + 2 > Len(s.buf)) => Sound([s EXCEPT !.pos = s.pos + 2, !.len = 2, !.type = t1, !.tag = g])
      BY <2>2, <2>4
  <2> QED
      BY <2>1, <2>3, <2>5, <2>6
<1> QED
    BY <1>1, <1>2, <1>3

\* A value of four bytes is an int.
FourBytes(v) == v \in Seq(Byte) /\ Len(v) = 4

LEMMA IntIsInt == ASSUME NEW v, FourBytes(v) PROVE IntOf(v) \in Int
<1>1. v[1] \in Byte /\ v[2] \in Byte /\ v[3] \in Byte /\ v[4] \in Byte
  <2>1. \A i \in 1 .. Len(v) : v[i] \in Byte
      BY ElementOfSeq DEF FourBytes
  <2>2. 1 \in 1 .. Len(v) /\ 2 \in 1 .. Len(v) /\ 3 \in 1 .. Len(v) /\ 4 \in 1 .. Len(v)
      BY DEF FourBytes
  <2> QED
      BY <2>1, <2>2
<1>2. v[1] \in Int /\ v[2] \in Int /\ v[3] \in Int /\ v[4] \in Int
    BY <1>1, ByteIsInt
<1> DEFINE a == v[1]
           b == v[2]
           c == v[3]
           d == v[4]
<1>3. IntOf(v) = IF a >= 128 THEN (a - 256) * 16777216 + (b * 65536 + c * 256 + d)
                 ELSE a * 16777216 + (b * 65536 + c * 256 + d)
    BY DEF IntOf, Negative
<1> HIDE DEF a, b, c, d
<1>4. a \in Int /\ b \in Int /\ c \in Int /\ d \in Int
    BY <1>2 DEF a, b, c, d
<1> QED
    BY <1>3, <1>4

\* A number of n bytes in w: its bytes, and fill for those it has not.
LEMMA ExtendIsSeq ==
    ASSUME NEW n \in Nat, NEW w \in Nat, NEW v \in Seq(Byte), Len(v) = n, n <= w,
           NEW fill \in Byte
    PROVE  Extend(v, n, w, fill) \in Seq(Byte) /\ Len(Extend(v, n, w, fill)) = w
<1>1. ASSUME NEW i \in 1 .. w PROVE (IF i <= w - n THEN fill ELSE v[i - (w - n)]) \in Byte
  <2>1. CASE i <= w - n
      BY <2>1
  <2>2. CASE ~ (i <= w - n)
    <3>1. i - (w - n) \in 1 .. Len(v)
        BY <2>2
    <3>2. v[i - (w - n)] \in Byte
        BY <3>1, ElementOfSeq
    <3> QED
        BY <2>2, <3>2
  <2> QED
      BY <2>1, <2>2
<1>2. Extend(v, n, w, fill) \in [1 .. w -> Byte]
    BY <1>1 DEF Extend
<1> QED
    BY <1>2

LEMMA SoundNum ==
    ASSUME NEW lang, NEW s, Sound(s), NEW w \in Widths
    PROVE  /\ Sound(NumAfterHead(lang, s, w))
           /\ (NumAfterHead(lang, s, w).st = "good" /\ w = 4) => FourBytes(NumAfterHead(lang, s, w).val)
<1> DEFINE r == NumAfterHead(lang, s, w)
           p == IF s.type = ZERO_TAG THEN [s EXCEPT !.val = << >>]
                ELSE Take(lang, s, WidthOfType[s.type])
<1>1. CASE ~ ReadableAs(s.type, w)
  <2>1. r = Stop(s, IF s.st = "good" THEN "error" ELSE s.st)
      BY <1>1 DEF NumAfterHead
  <2> DEFINE why == IF s.st = "good" THEN "error" ELSE s.st
  <2>2. why \in Statuses /\ why # "good"
      BY DEF Statuses, Sound
  <2> HIDE DEF why
  <2>3. Sound(Stop(s, why)) /\ Stop(s, why).st = why
      BY <2>2, SoundStop
  <2> QED
      BY <2>1, <2>2, <2>3 DEF why
<1>2. CASE ReadableAs(s.type, w)
  <2>1. r = IF p.st = "good" THEN Value(p, DecodeNum(lang, s.type, p.val, w)) ELSE p
      BY <1>2 DEF NumAfterHead
  <2>2. CASE s.type = ZERO_TAG
    <3>1. p = [s EXCEPT !.val = << >>] /\ Sound(p)
        BY <2>2, SoundSet
    <3>2. DecodeNum(lang, s.type, p.val, w) = Zero(w)
        BY <2>2 DEF DecodeNum
    <3>3. FourBytes(Zero(4))
      <4> DEFINE z == Zero(4)
      <4>1. z \in Number(4) /\ 4 \in Widths
          BY DEF Zero, Byte, Number, Widths
      <4> HIDE DEF z
      <4>2. z \in Seq(Byte) /\ Len(z) = 4
          BY <4>1, NumberIsSeq
      <4> QED
          BY <4>2 DEF FourBytes, z
    <3> HIDE DEF p
    <3>4. Sound(Value(p, Zero(w))) /\ (p.st = "good" => Value(p, Zero(w)).val = Zero(w))
        BY <3>1, SoundValue
    <3> QED
        BY <2>1, <3>1, <3>2, <3>3, <3>4
  <2>3. CASE s.type # ZERO_TAG
    <3>1. s.type \in IntegerTypes /\ WidthOfType[s.type] <= w
        BY <1>2, <2>3 DEF ReadableAs
    <3>2. WidthOfType[s.type] \in Nat
        BY <3>1 DEF WidthOfType, IntegerTypes, BYTE, SHORT, INT, LONG
    <3> DEFINE n == WidthOfType[s.type]
               x == DecodeNum(lang, s.type, p.val, w)
    <3>3. p = Take(lang, s, n)
        BY <2>3
    <3> HIDE DEF n, p
    <3>4. Sound(p) /\ (p.st = "good" => p.val \in Seq(Byte) /\ Len(p.val) = n)
        BY <3>2, <3>3, SoundTake DEF n
    <3>5. p.st = "good" => (w = 4 => FourBytes(x))
      <4> SUFFICES ASSUME p.st = "good", w = 4 PROVE FourBytes(x)
          OBVIOUS
      <4> DEFINE fill == IF lang = "cpp" THEN 0 ELSE IF Negative(p.val) THEN 255 ELSE 0
      <4>1. x = Extend(p.val, n, 4, fill)
          BY <2>3 DEF DecodeNum, ZeroExtend, SignExtend, n
      <4>2. fill \in Byte
          BY DEF Byte
      <4> HIDE DEF fill, x
      <4>3. n \in Nat /\ n <= 4 /\ 4 \in Nat
          BY <3>1, <3>2 DEF n
      <4> QED
          BY <3>4, <4>1, <4>2, <4>3, ExtendIsSeq DEF FourBytes
    <3> HIDE DEF x
    <3>6. Sound(Value(p, x)) /\ (p.st = "good" => Value(p, x).val = x)
        BY <3>4, SoundValue
    <3> QED
        BY <2>1, <3>4, <3>5, <3>6 DEF x
  <2> QED
      BY <2>2, <2>3
<1> QED
    BY <1>1, <1>2

LEMMA SoundSize ==
    ASSUME NEW lang, NEW s, Sound(s)
    PROVE  /\ Sound(ReadSize(lang, s))
           /\ ReadSize(lang, s).st = "good" =>
                FourBytes(ReadSize(lang, s).val) /\ IntOf(ReadSize(lang, s).val) \in Int
<1> DEFINE h == ReadHead(lang, s)
           bad == lang = "java" /\ h.st = "good" /\ ~ (h.tag = 0 /\ h.type # STRUCT_END)
<1>1. ReadSize(lang, s) = IF bad THEN Stop(s, "error") ELSE NumAfterHead(lang, h, 4)
    BY DEF ReadSize
<1>2. Sound(h)
    BY SoundHead
<1> HIDE DEF h, bad
<1>3. Sound(Stop(s, "error")) /\ Stop(s, "error").st = "error"
    BY SoundStop DEF Statuses
<1>4. 4 \in Widths
    BY DEF Widths
<1>5. /\ Sound(NumAfterHead(lang, h, 4))
      /\ NumAfterHead(lang, h, 4).st = "good" => FourBytes(NumAfterHead(lang, h, 4).val)
    BY <1>2, <1>4, SoundNum
<1> QED
    BY <1>1, <1>3, <1>5, IntIsInt

LEMMA FixedIsNat == \A t \in DOMAIN FixedSize : FixedSize[t] \in Nat
    BY DEF FixedSize, BYTE, SHORT, INT, LONG, FLOAT, DOUBLE

LEMMA OneByte == ASSUME NEW v \in Seq(Byte), Len(v) = 1 PROVE v[1] \in Byte /\ v[1] \in Int
<1>1. v[1] \in Byte
    BY ElementOfSeq
<1> QED
    BY <1>1, ByteIsInt

LEMMA SoundSkipFlat ==
    ASSUME NEW lang, NEW s, Sound(s)
    PROVE  Sound(SkipFlat(lang, s))
<1> DEFINE l1 == Take(lang, s, 1)
           l4 == Take(lang, s, 4)
           h == ReadHead(lang, s)
           l == ReadSize(lang, h)
           r == SkipFlat(lang, s)
<1>1. \/ s.type \in DOMAIN FixedSize /\ r = Advance(lang, s, FixedSize[s.type])
      \/ r = IF l1.st = "good" THEN Advance(lang, l1, l1.val[1]) ELSE l1
      \/ r = IF l4.st = "good" THEN Advance(lang, l4, IntOf(l4.val)) ELSE l4
      \/ r = IF h.st = "good" /\ h.type # BYTE THEN Stop(h, "error")
             ELSE IF l.st = "good" THEN Advance(lang, l, IntOf(l.val)) ELSE l
      \/ r = s
      \/ r = Stop(s, "error")
  <2> HIDE DEF l1, l4, h, l
  <2>1. CASE s.type \in DOMAIN FixedSize
    <3>1. r = Advance(lang, s, FixedSize[s.type])
      <4>1. /\ s.type # STRING1 /\ s.type # STRING4 /\ s.type # SIMPLE_LIST
            /\ s.type \notin {STRUCT_END, ZERO_TAG}
          BY <2>1 DEF FixedSize, STRING1, STRING4, SIMPLE_LIST, STRUCT_END, ZERO_TAG
      <4> QED
          BY ONLY <2>1, <4>1, Zenon DEF SkipFlat, r
    <3> QED
        BY <2>1, <3>1
  <2> DEFINE fixed == s.type \in DOMAIN FixedSize
  <2>2. CASE s.type \notin DOMAIN FixedSize
    <3>1. \/ s.type = STRING1 \/ s.type = STRING4 \/ s.type = SIMPLE_LIST
          \/ s.type \in {STRUCT_END, ZERO_TAG}
          \/ ~ (s.type = STRING1 \/ s.type = STRING4 \/ s.type = SIMPLE_LIST
                \/ s.type \in {STRUCT_END, ZERO_TAG})
        OBVIOUS
    <3>2. CASE s.type = STRING1
      <4>1. r = IF l1.st = "good" THEN Advance(lang, l1, l1.val[1]) ELSE l1
          BY <2>2, <3>2 DEF SkipFlat, l1, STRING1, STRING4, SIMPLE_LIST, STRUCT_END, ZERO_TAG
      <4> QED
          BY <4>1
    <3>3. CASE s.type = STRING4
      <4>1. r = IF l4.st = "good" THEN Advance(lang, l4, IntOf(l4.val)) ELSE l4
          BY <2>2, <3>3 DEF SkipFlat, l4, STRING1, STRING4, SIMPLE_LIST, STRUCT_END, ZERO_TAG
      <4> QED
          BY <4>1
    <3>4. CASE s.type = SIMPLE_LIST
      <4>1. r = IF h.st = "good" /\ h.type # BYTE THEN Stop(h, "error")
                ELSE IF l.st = "good" THEN Advance(lang, l, IntOf(l.val)) ELSE l
          BY <2>2, <3>4 DEF SkipFlat, h, l, STRING1, STRING4, SIMPLE_LIST, STRUCT_END, ZERO_TAG
      <4> QED
          BY <4>1
    <3>5. CASE s.type \in {STRUCT_END, ZERO_TAG}
      <4>1. r = s
          BY <2>2, <3>5 DEF SkipFlat, STRING1, STRING4, SIMPLE_LIST, STRUCT_END, ZERO_TAG
      <4> QED
          BY <4>1
    <3>6. CASE ~ (s.type = STRING1 \/ s.type = STRING4 \/ s.type = SIMPLE_LIST
                  \/ s.type \in {STRUCT_END, ZERO_TAG})
      <4>1. r = Stop(s, "error")
          BY ONLY <2>2, <3>6, Zenon DEF SkipFlat, r
      <4> QED
          BY <4>1
    <3> QED
        BY <3>1, <3>2, <3>3, <3>4, <3>5, <3>6
  <2> QED
      BY <2>1, <2>2
<1>2. Sound(l1) /\ Sound(l4)
  <2>1. 1 \in Nat /\ 4 \in Nat
      OBVIOUS
  <2> QED
      BY <2>1, SoundTake
<1>3. Sound(h)
    BY SoundHead
<1>4. Sound(l)
    BY <1>3, SoundSize
<1>5. Sound(Stop(h, "error")) /\ Sound(Stop(s, "error"))
    BY <1>3, SoundStop DEF Statuses
<1> HIDE DEF l1, l4, h, l
<1>6. /\ Sound(Advance(lang, s, FixedSize[s.type])) /\ Sound(Advance(lang, l1, l1.val[1]))
      /\ Sound(Advance(lang, l4, IntOf(l4.val))) /\ Sound(Advance(lang, l, IntOf(l.val)))
    BY <1>2, <1>4, SoundAdvance
<1> HIDE DEF r
<1>7. Sound(r)
    BY <1>1, <1>2, <1>4, <1>5, <1>6
<1> QED
    BY <1>7 DEF r

LEMMA SoundString ==
    ASSUME NEW lang, NEW s, Sound(s)
    PROVE  Sound(ReadString(lang, s))
<1> DEFINE n == StringSize(lang, s)
           l == Take(lang, s, IF s.type = STRING1 THEN 1 ELSE 4)
           b == Take(lang, l, n)
           r == ReadString(lang, s)
<1>1. Sound(l) /\ (l.st = "good" => l.val \in Seq(Byte) /\ Len(l.val) = IF s.type = STRING1 THEN 1 ELSE 4)
  <2> DEFINE k == IF s.type = STRING1 THEN 1 ELSE 4
  <2>1. k \in Nat
      OBVIOUS
  <2> HIDE DEF k
  <2>2. /\ Sound(Take(lang, s, k))
        /\ Take(lang, s, k).st = "good" => Take(lang, s, k).val \in Seq(Byte) /\ Len(Take(lang, s, k).val) = k
      BY <2>1, SoundTake
  <2> QED
      BY <2>2 DEF k
<1>2. n \in Int
  <2> HIDE DEF l
  <2>1. CASE l.st # "good"
    <3>1. n = 0
        BY <2>1, Zenon DEF StringSize, l
    <3> QED
        BY <3>1
  <2>2. CASE l.st = "good" /\ s.type = STRING1
    <3>1. n = IF lang = "cpp" THEN SignedChar(l.val[1]) ELSE l.val[1]
        BY <2>2, Zenon DEF StringSize, l
    <3>2. l.val[1] \in Int
        BY <1>1, <2>2, OneByte
    <3>3. SignedChar(l.val[1]) \in Int
        BY <3>2 DEF SignedChar
    <3> QED
        BY <3>1, <3>2, <3>3
  <2>3. CASE l.st = "good" /\ s.type # STRING1
    <3>1. n = IntOf(l.val)
        BY <2>3, Zenon DEF StringSize, l
    <3>2. FourBytes(l.val)
        BY <1>1, <2>3 DEF FourBytes
    <3> QED
        BY <3>1, <3>2, IntIsInt
  <2> QED
      BY <2>1, <2>2, <2>3
<1>3. r = IF s.type \in {STRING1, STRING4}
          THEN IF n < 0 THEN Stop(s, "error") ELSE Value(b, Decoded(lang, b.val))
          ELSE IF lang = "java" THEN Stop(s, "error")
          ELSE IF s.type = ZERO_TAG THEN Value(s, << >>)
          ELSE IF s.type \in DOMAIN FixedSize THEN Value(Take(lang, s, FixedSize[s.type]), AsText)
          ELSE Value(s, << >>)
    BY DEF ReadString
<1> HIDE DEF l, n, r
<1>4. ~ (n < 0) => Sound(Value(b, Decoded(lang, b.val)))
  <2>1. ~ (n < 0) => n \in Nat
      BY <1>2
  <2>2. ~ (n < 0) => Sound(b)
      BY <1>1, <2>1, SoundTake
  <2> HIDE DEF b
  <2> QED
      BY <2>2, SoundValue
<1> HIDE DEF b
<1>5. s.type \in DOMAIN FixedSize => Sound(Value(Take(lang, s, FixedSize[s.type]), AsText))
  <2>1. s.type \in DOMAIN FixedSize => Sound(Take(lang, s, FixedSize[s.type]))
      BY FixedIsNat, SoundTake
  <2> QED
      BY <2>1, SoundValue
<1>6. Sound(Stop(s, "error")) /\ Sound(Value(s, << >>))
    BY SoundStop, SoundValue DEF Statuses
<1>7. Sound(r)
    BY <1>3, <1>4, <1>5, <1>6
<1> QED
    BY <1>7 DEF r

LEMMA SoundBlob ==
    ASSUME NEW lang, NEW s, Sound(s)
    PROVE  Sound(ReadBlob(lang, s))
<1> DEFINE inner == IF s.type = SIMPLE_LIST THEN ReadHead(lang, s) ELSE s
           l == ReadSize(lang, inner)
           n == IntOf(l.val)
           bad == \/ s.type = SIMPLE_LIST /\ inner.st = "good" /\ inner.type # BYTE
                  \/ s.type # SIMPLE_LIST /\ lang = "java"
           r == ReadBlob(lang, s)
<1>1. Sound(inner)
    BY SoundHead
<1>2. r = IF bad THEN Stop(s, "error")
          ELSE IF l.st # "good" THEN l
          ELSE IF n < 0 THEN IF lang = "java" THEN Stop(l, "error") ELSE Value(l, << >>)
          ELSE Take(lang, l, n)
    BY DEF ReadBlob
<1> HIDE DEF inner, bad, r
<1>3. Sound(l) /\ (l.st = "good" => n \in Int)
    BY <1>1, SoundSize
<1> HIDE DEF l, n
<1>4. l.st = "good" /\ ~ (n < 0) => Sound(Take(lang, l, n))
  <2>1. l.st = "good" /\ ~ (n < 0) => n \in Nat
      BY <1>3
  <2> QED
      BY <1>3, <2>1, SoundTake
<1>5. Sound(Stop(s, "error")) /\ Sound(Stop(l, "error")) /\ Sound(Value(l, << >>))
    BY <1>3, SoundStop, SoundValue DEF Statuses
<1>6. Sound(r)
    BY <1>2, <1>3, <1>4, <1>5
<1> QED
    BY <1>6 DEF r

LEMMA SoundFlat ==
    ASSUME NEW lang \in Langs, NEW s, Sound(s), NEW f, f.kind \in FlatKinds
    PROVE  Sound(ReadFlat(lang, s, f))
<1> DEFINE r == ReadFlat(lang, s, f)
<1>0. f.kind \in NumKinds \/ f.kind \in DOMAIN FloatWidth \/ f.kind = "string" \/ f.kind = "blob"
    BY DEF FlatKinds
<1>1. CASE f.kind \in NumKinds
  <2>1. r = NumAfterHead(lang, s, ReadWidth(lang, f.kind))
    <3>1. f.kind \notin DOMAIN FloatWidth /\ f.kind # "string" /\ f.kind # "blob"
        BY <1>1, KindsDiffer
    <3> QED
        BY ONLY <1>1, <3>1, Zenon DEF ReadFlat, r
  <2>2. ReadWidth(lang, f.kind) \in Widths
      BY <1>1, WidthsOfKinds DEF ReadWidth
  <2> QED
      BY <2>1, <2>2, SoundNum
<1>2. CASE f.kind \in DOMAIN FloatWidth
  <2>1. r = IF s.type = ZERO_TAG THEN Value(s, Zero(FloatWidth[f.kind]))
            ELSE IF s.type \in {FLOAT, FloatType[f.kind]}
            THEN Take(lang, s, FixedSize[s.type])
            ELSE Stop(s, "error")
    <3>1. f.kind \notin NumKinds /\ f.kind # "string" /\ f.kind # "blob"
        BY <1>2, KindsDiffer
    <3> QED
        BY ONLY <1>2, <3>1, Zenon DEF ReadFlat, r
  <2>2. s.type \in {FLOAT, FloatType[f.kind]} => s.type \in DOMAIN FixedSize
      BY <1>2 DEF FloatWidth, FloatType, FixedSize, FLOAT, DOUBLE
  <2>3. s.type \in {FLOAT, FloatType[f.kind]} => Sound(Take(lang, s, FixedSize[s.type]))
      BY <2>2, FixedIsNat, SoundTake
  <2>4. Sound(Value(s, Zero(FloatWidth[f.kind]))) /\ Sound(Stop(s, "error"))
      BY SoundStop, SoundValue DEF Statuses
  <2> HIDE DEF r
  <2>5. Sound(r)
      BY <2>1, <2>3, <2>4
  <2> QED
      BY <2>5 DEF r
<1>3. CASE f.kind = "string"
  <2>1. f.kind \notin NumKinds /\ f.kind \notin DOMAIN FloatWidth /\ f.kind # "blob"
      BY <1>3, KindsDiffer
  <2>2. r = ReadString(lang, s)
      BY ONLY <1>3, <2>1, Zenon DEF ReadFlat, r
  <2> QED
      BY <2>2, SoundString
<1>4. CASE f.kind = "blob"
  <2>1. f.kind \notin NumKinds /\ f.kind \notin DOMAIN FloatWidth /\ f.kind # "string"
      BY <1>4, KindsDiffer
  <2>2. r = ReadBlob(lang, s)
      BY ONLY <1>4, <2>1, Zenon DEF ReadFlat, r
  <2> QED
      BY <2>2, SoundBlob
<1> QED
    BY <1>0, <1>1, <1>2, <1>3, <1>4

LEMMA SoundForget ==
    ASSUME NEW s, Sound(s)
    PROVE  /\ Sound(Forget(s)) /\ Forget(s) \in Streams
           /\ Forget(s).buf = s.buf /\ Forget(s).st = s.st
           /\ Passes(s) \in Nat
<1> DEFINE s1 == [s EXCEPT !.type = 0]
           s2 == [s1 EXCEPT !.tag = 0]
           s3 == [s2 EXCEPT !.len = 0]
           s4 == [s3 EXCEPT !.val = << >>]
<1>1. Forget(s) = s4
    BY DEF Forget
<1>2. Sound(s1)
    BY SoundSet
<1>3. Sound(s2)
  <2> HIDE DEF s1
  <2> QED
      BY <1>2, SoundSet
<1>4. Sound(s3)
  <2> HIDE DEF s2
  <2> QED
      BY <1>3, SoundSet
<1>5. Sound(s4)
  <2> HIDE DEF s3
  <2> QED
      BY <1>4, SoundSet
<1>6. /\ s4.type = 0 /\ s4.tag = 0 /\ s4.len = 0 /\ s4.val = << >>
      /\ s4.buf = s.buf /\ s4.st = s.st
    BY DEF Sound
<1> HIDE DEF s4
<1>7. s4 \in Streams
  <2>1. /\ s4 = [buf |-> s4.buf, pos |-> s4.pos, st |-> s4.st, type |-> 0, tag |-> 0, len |-> 0, val |-> << >>]
        /\ s4.buf \in Seq(Byte) /\ s4.pos \in Nat /\ s4.st \in {"good", "eof", "error", "lost"}
    <3>1. s4.pos \in Nat
        BY <1>5, SoundSet
    <3> QED
        BY <1>5, <1>6, <3>1 DEF Sound, Statuses
  <2> QED
      BY <2>1 DEF Streams
<1>8. Passes(s) \in Nat
  <2>1. s.pos \in 0 .. Len(s.buf) /\ s.pos \in Nat /\ Len(s.buf) \in Nat
      BY SoundSet DEF Sound
  <2> QED
      BY <2>1 DEF Passes
<1> QED
    BY <1>1, <1>5, <1>6, <1>7, <1>8

LEMMA SoundInside ==
    ASSUME NEW lang, NEW s, Sound(s)
    PROVE  Sound(Inside(lang, s).s)
<1> DEFINE l == SkippedSize(lang, s)
<1>1. Sound(l)
  <2>1. Sound(Take(lang, s, 4))
    <3>1. 4 \in Nat
        OBVIOUS
    <3> QED
        BY <3>1, SoundTake
  <2>2. Sound(ReadSize(lang, s))
      BY SoundSize
  <2> QED
      BY <2>1, <2>2 DEF SkippedSize
<1> HIDE DEF l
<1>2. Sound(Stop(l, "lost"))
    BY <1>1, SoundStop DEF Statuses
<1>3. Counted(s, l).s \in {l, Stop(l, "lost")}
    BY DEF Counted
<1>4. Inside(lang, s).s \in {s, Counted(s, l).s}
    BY DEF Inside, l
<1> QED
    BY <1>1, <1>2, <1>3, <1>4

\* What the loops keep: a stream and how much each has still to skip.
SoundRun(r) == r = [s |-> r.s, todo |-> r.todo] /\ Sound(r.s)

LEMMA SoundSkipPass ==
    ASSUME NEW lang, NEW r, SoundRun(r)
    PROVE  SoundRun(SkipPass1(lang, r))
<1> DEFINE n == Head(r.todo)
           h == ReadHead(lang, r.s)
           i == Inside(lang, h)
           rest == IF n # ToEnd THEN <<n - 1>> \o Tail(r.todo)
                   ELSE IF h.type = STRUCT_END THEN Tail(r.todo) ELSE r.todo
           p == SkipPass1(lang, r)
<1>1. \/ p = r
      \/ p = [r EXCEPT !.todo = Tail(@)]
      \/ p = [r EXCEPT !.s = Stop(@, "lost")]
      \/ p = [s |-> Forget(i.s), todo |-> <<i.n>> \o rest]
      \/ p = [s |-> Forget(SkipFlat(lang, h)), todo |-> rest]
  <2> DEFINE c1 == r.s.st # "good" \/ r.todo = << >>
             c2 == n = 0
             c3 == n > Len(r.s.buf) - r.s.pos \/ (n = ToEnd /\ h.st = "eof")
             c4 == h.type \in Holders
  <2>1. p = IF c1 THEN r
            ELSE IF c2 THEN [r EXCEPT !.todo = Tail(@)]
            ELSE IF c3 THEN [r EXCEPT !.s = Stop(@, "lost")]
            ELSE IF c4 THEN [s |-> Forget(i.s), todo |-> <<i.n>> \o rest]
            ELSE [s |-> Forget(SkipFlat(lang, h)), todo |-> rest]
      BY DEF SkipPass1
  <2> HIDE DEF c1, c2, c3, c4, p, rest, i, h
  <2> QED
      BY <2>1
<1>2. Sound(r.s)
    BY DEF SoundRun
<1>3. Sound(h)
    BY <1>2, SoundHead
<1> HIDE DEF h, rest, n
<1>4. Sound(Forget(i.s))
  <2>1. Sound(i.s)
      BY <1>3, SoundInside
  <2> HIDE DEF i
  <2> QED
      BY <2>1, SoundForget
<1>5. Sound(Forget(SkipFlat(lang, h)))
  <2>1. Sound(SkipFlat(lang, h))
      BY <1>3, SoundSkipFlat
  <2> QED
      BY <2>1, SoundForget
<1>6. Sound(Stop(r.s, "lost"))
    BY <1>2, SoundStop DEF Statuses
<1> HIDE DEF i, p
<1>7. SoundRun([r EXCEPT !.todo = Tail(@)]) /\ SoundRun([r EXCEPT !.s = Stop(@, "lost")])
  <2>1. ASSUME NEW x PROVE SoundRun([r EXCEPT !.todo = x])
    <3>1. [r EXCEPT !.todo = x] = [s |-> r.s, todo |-> x]
        BY DEF SoundRun
    <3> QED
        BY <1>2, <3>1 DEF SoundRun
  <2>2. ASSUME NEW x, Sound(x) PROVE SoundRun([r EXCEPT !.s = x])
    <3>1. [r EXCEPT !.s = x] = [s |-> x, todo |-> r.todo]
        BY DEF SoundRun
    <3> QED
        BY <2>2, <3>1 DEF SoundRun
  <2> QED
      BY <1>6, <2>1, <2>2
<1>8. /\ SoundRun([s |-> Forget(i.s), todo |-> <<i.n>> \o rest])
      /\ SoundRun([s |-> Forget(SkipFlat(lang, h)), todo |-> rest])
    BY <1>4, <1>5 DEF SoundRun
<1>9. SoundRun(p)
    BY <1>1, <1>7, <1>8
<1> QED
    BY <1>9 DEF p

\* What holds at first and after each pass that it holds before, holds at the end.
LEMMA RunKeeps ==
    ASSUME NEW m \in Nat, NEW T, 0 \in T, \A i \in 1 .. m : i - 1 \in T => i \in T
    PROVE  m \in T
<1>1. \A i \in 0 .. m : (\A j \in 0 .. i - 1 : j \in T) => i \in T
  <2> SUFFICES ASSUME NEW i \in 0 .. m, \A j \in 0 .. i - 1 : j \in T PROVE i \in T
      OBVIOUS
  <2>1. CASE i = 0
      BY <2>1
  <2>2. CASE i # 0
    <3>1. i - 1 \in 0 .. i - 1 /\ i \in 1 .. m
        BY <2>2
    <3> QED
        BY <3>1
  <2> QED
      BY <2>1, <2>2
<1>2. 0 \in Nat
    OBVIOUS
<1>3. \A i \in 0 .. m : i \in T
    BY ONLY <1>1, <1>2, m \in Nat, UpTo
<1> QED
    BY <1>3

LEMMA SoundSkipMany ==
    ASSUME NEW lang, NEW s, Sound(s), NEW n
    PROVE  Sound(SkipMany(lang, s, n))
<1> DEFINE m == Passes(s)
<1>1. m \in Nat /\ Sound(Forget(s))
    BY SoundForget
<1>2. PICK g : /\ \A i \in 0 .. m : g[i] = IF i = 0 THEN [s |-> Forget(s), todo |-> <<n>>] ELSE SkipPass1(lang, g[i - 1])
               /\ SkipMany(lang, s, n) = SkipEnds(g[m])
    BY <1>1, SkipManyRuns
<1> HIDE DEF m
<1> DEFINE T == {i \in 0 .. m : SoundRun(g[i])}
<1>3. 0 \in T
  <2>1. g[0] = [s |-> Forget(s), todo |-> <<n>>]
      BY <1>1, <1>2
  <2> QED
      BY <1>1, <2>1 DEF SoundRun
<1>4. \A i \in 1 .. m : i - 1 \in T => i \in T
  <2> SUFFICES ASSUME NEW i \in 1 .. m, SoundRun(g[i - 1]) PROVE SoundRun(g[i])
      BY <1>1
  <2>1. g[i] = SkipPass1(lang, g[i - 1])
      BY <1>1, <1>2
  <2> QED
      BY <2>1, SoundSkipPass
<1> HIDE DEF T
<1>5. m \in T
    BY <1>1, <1>3, <1>4, RunKeeps
<1> DEFINE r == g[m]
<1>6. Sound(r.s)
    BY <1>5 DEF T, SoundRun
<1> HIDE DEF r
<1>7. Sound(Stop(r.s, "lost"))
    BY <1>6, SoundStop DEF Statuses
<1>8. Sound(SkipEnds(r))
    BY <1>6, <1>7 DEF SkipEnds
<1> QED
    BY <1>2, <1>8 DEF r

LEMMA SoundSkipField ==
    ASSUME NEW lang, NEW s, Sound(s)
    PROVE  Sound(SkipField(lang, s))
<1> DEFINE i == Inside(lang, s)
<1>1. Sound(i.s)
    BY SoundInside
<1>2. SkipField(lang, s) = IF s.type \in Holders THEN SkipMany(lang, i.s, i.n) ELSE SkipFlat(lang, s)
    BY DEF SkipField
<1> HIDE DEF i
<1>3. Sound(SkipMany(lang, i.s, i.n))
    BY <1>1, SoundSkipMany
<1> QED
    BY <1>2, <1>3, SoundSkipFlat

LEMMA HeadBuffer == ASSUME NEW lang, NEW s, Sound(s) PROVE ReadHead(lang, s).buf = s.buf
<1>1. \A w : Stop(s, w).buf = s.buf
    BY DEF Stop, Sound
<1>2. \A w, x, y, z : [s EXCEPT !.st = w, !.type = x, !.tag = y, !.len = z].buf = s.buf
    BY DEF Sound
<1>3. \A w, x, y, z : [s EXCEPT !.pos = w, !.len = x, !.type = y, !.tag = z].buf = s.buf
    BY DEF Sound
<1> DEFINE b == s.buf[s.pos + 1]
           t == s.buf[s.pos + 2]
           g == IF lang = "cpp" THEN SignedChar(t) ELSE t
           t1 == b % 16
           g1 == b \div 16
           p1 == s.pos + 1
           p2 == s.pos + 2
           h == ReadHead(lang, s)
<1>4. \/ h = s \/ h = Stop(s, "error") \/ h = Stop(s, "lost")
      \/ h = [s EXCEPT !.st = "eof", !.type = BYTE, !.tag = 0, !.len = 1]
      \/ h = [s EXCEPT !.pos = p1, !.len = 1, !.type = t1, !.tag = g1]
      \/ h = [s EXCEPT !.pos = p2, !.len = 2, !.type = t1, !.tag = g]
    BY DEF ReadHead
<1> HIDE DEF h, b, t, g, t1, g1, p1, p2
<1> DEFINE e1 == [s EXCEPT !.st = "eof", !.type = BYTE, !.tag = 0, !.len = 1]
           e2 == [s EXCEPT !.pos = p1, !.len = 1, !.type = t1, !.tag = g1]
           e3 == [s EXCEPT !.pos = p2, !.len = 2, !.type = t1, !.tag = g]
<1>6. e1.buf = s.buf /\ e2.buf = s.buf /\ e3.buf = s.buf
    BY <1>2, <1>3
<1>7. h \in {s, Stop(s, "error"), Stop(s, "lost"), e1, e2, e3}
    BY <1>4
<1> HIDE DEF e1, e2, e3
<1>5. h.buf = s.buf
    BY <1>1, <1>6, <1>7
<1> QED
    BY <1>5 DEF h

LEMMA SoundAfter ==
    ASSUME NEW t, Sound(t)
    PROVE  Sound(AfterSkip(t).s) /\ AfterSkip(t).res \in {"more", "absent", "lost"}
<1>1. Sound([t EXCEPT !.st = "good"])
    BY SoundSet DEF Statuses
<1>2. AfterSkip(t).s \in {t, [t EXCEPT !.st = "good"]} /\ AfterSkip(t).res \in {"more", "absent", "lost"}
    BY DEF AfterSkip
<1> QED
    BY <1>1, <1>2

\* Outcomes of a pass of skipToTag.
Outcomes == {"more", "found", "absent", "lost"}

LEMMA SoundPass ==
    ASSUME NEW lang, NEW s, Sound(s), NEW tag
    PROVE  Sound(Pass(lang, s, tag).s) /\ Pass(lang, s, tag).res \in Outcomes
<1>1. ASSUME NEW l
      PROVE  /\ Sound(AfterSkip(SkipField(l, ReadHead(l, s))).s)
             /\ AfterSkip(SkipField(l, ReadHead(l, s))).res \in Outcomes
  <2>1. Sound(SkipField(l, ReadHead(l, s)))
      BY SoundHead, SoundSkipField
  <2> QED
      BY <2>1, SoundAfter DEF Outcomes
<1>2. Sound(CppPass(s, tag).s) /\ CppPass(s, tag).res \in Outcomes
  <2> DEFINE h == ReadHead("cpp", s)
             z == Seek(h, Tell(h) - h.len)
             a == AfterSkip(SkipField("cpp", h))
             p == CppPass(s, tag)
  <2>1. Sound(h) /\ Sound(a.s) /\ a.res \in Outcomes
      BY <1>1, SoundHead
  <2>2. Sound(z)
    <3> HIDE DEF h
    <3> QED
        BY <2>1, SoundSeek
  <2>3. p = IF s.st # "good" \/ h.type = STRUCT_END
            THEN [s |-> IF s.st # "good" THEN s ELSE h, res |-> "absent"]
            ELSE IF tag < h.tag THEN [s |-> h, res |-> "absent"]
            ELSE IF tag = h.tag THEN [s |-> z, res |-> "found"]
            ELSE a
      BY DEF CppPass
  <2> HIDE DEF h, z, a, p
  <2>4. \/ p.s \in {s, h, z} /\ p.res \in {"absent", "found"}
        \/ p = a
      BY <2>3
  <2>5. Sound(p.s) /\ p.res \in Outcomes
      BY <2>1, <2>2, <2>4 DEF Outcomes
  <2> QED
      BY <2>5 DEF p
<1>3. Sound(JavaPass(s, tag).s) /\ JavaPass(s, tag).res \in Outcomes
  <2> DEFINE h == ReadHead("java", s)
             z == [h EXCEPT !.pos = s.pos]
             a == AfterSkip(SkipField("java", h))
             p == JavaPass(s, tag)
  <2>1. Sound(h) /\ h.buf = s.buf /\ Sound(a.s) /\ a.res \in Outcomes
      BY <1>1, SoundHead, HeadBuffer
  <2>2. Sound(z)
    <3>1. s.pos \in 0 .. Len(h.buf)
        BY <2>1 DEF Sound
    <3> HIDE DEF h
    <3> QED
        BY <2>1, <3>1, SoundSet
  <2>3. p = IF h.st # "good" \/ h.type = STRUCT_END THEN [s |-> s, res |-> "absent"]
            ELSE IF tag <= h.tag
            THEN [s |-> z, res |-> IF tag = h.tag THEN "found" ELSE "absent"]
            ELSE a
      BY DEF JavaPass
  <2> HIDE DEF h, z, a, p
  <2>4. \/ p.s \in {s, z} /\ p.res \in {"absent", "found"}
        \/ p = a
      BY <2>3
  <2>5. Sound(p.s) /\ p.res \in Outcomes
      BY <2>1, <2>2, <2>4 DEF Outcomes
  <2> QED
      BY <2>5 DEF p
<1> QED
    BY <1>2, <1>3 DEF Pass

LEMMA SoundFind ==
    ASSUME NEW lang, NEW s, Sound(s), NEW tag
    PROVE  Sound(FindTag(lang, s, tag))
<1> DEFINE m == Passes(s)
<1>1. m \in Nat
    BY SoundForget
<1>2. PICK g : /\ \A i \in 0 .. m : g[i] = IF i = 0 THEN [s |-> s, res |-> "more"] ELSE PassOn(lang, g[i - 1], tag)
               /\ FindTag(lang, s, tag) = FindEnds(s, g[m])
    BY <1>1, FindTagRuns
<1> HIDE DEF m
<1> DEFINE T == {i \in 0 .. m : Sound(g[i].s)}
<1>3. 0 \in T
  <2>1. g[0] = [s |-> s, res |-> "more"]
      BY <1>1, <1>2
  <2> QED
      BY <1>1, <2>1
<1>4. \A i \in 1 .. m : i - 1 \in T => i \in T
  <2> SUFFICES ASSUME NEW i \in 1 .. m, Sound(g[i - 1].s) PROVE Sound(g[i].s)
      BY <1>1
  <2> DEFINE p == g[i - 1]
  <2>1. g[i] = PassOn(lang, p, tag)
      BY <1>1, <1>2
  <2> HIDE DEF p
  <2>2. Sound(p.s)
      BY DEF p
  <2>3. Sound(Pass(lang, Forget(p.s), tag).s)
    <3>1. Sound(Forget(p.s))
        BY <2>2, SoundForget
    <3> QED
        BY <3>1, SoundPass
  <2>4. PassOn(lang, p, tag) \in {Pass(lang, Forget(p.s), tag), p}
      BY DEF PassOn
  <2> QED
      BY <2>1, <2>2, <2>3, <2>4
<1> HIDE DEF T
<1>5. m \in T
    BY <1>1, <1>3, <1>4, RunKeeps
<1> DEFINE p == g[m]
<1>6. Sound(p.s)
    BY <1>5 DEF T
<1> HIDE DEF p
<1>7. Sound(Stop(p.s, "lost")) /\ Sound(Stop(p.s, "error"))
    BY <1>6, SoundStop DEF Statuses
<1>8. Sound(FindEnds(s, p))
  <2>1. CASE s.st # "good"
    <3>1. FindEnds(s, p) = s
        BY ONLY <2>1, Zenon DEF FindEnds
    <3> QED
        BY <3>1
  <2>2. CASE s.st = "good" /\ p.res = "absent"
    <3>1. p.res # "more"
        BY <2>2
    <3>2. FindEnds(s, p) = Stop(p.s, "error")
        BY ONLY <2>2, <3>1, Zenon DEF FindEnds
    <3> QED
        BY <1>7, <3>2
  <2>3. CASE s.st = "good" /\ p.res = "more"
    <3>1. p.res # "absent"
        BY <2>3
    <3>2. FindEnds(s, p) = Stop(p.s, "lost")
        BY ONLY <2>3, <3>1, Zenon DEF FindEnds
    <3> QED
        BY <1>7, <3>2
  <2>4. CASE s.st = "good" /\ p.res # "more" /\ p.res # "absent"
    <3>1. FindEnds(s, p) = p.s
        BY ONLY <2>4, Zenon DEF FindEnds
    <3> QED
        BY <1>6, <3>1
  <2> QED
      BY <2>1, <2>2, <2>3, <2>4
<1> QED
    BY <1>2, <1>8 DEF p

LEMMA SoundHeadOf ==
    ASSUME NEW lang, NEW s, Sound(s)
    PROVE  Sound(HeadOf(lang, s))
<1> DEFINE h == ReadHead(lang, s)
<1>1. Sound(h)
    BY SoundHead
<1>2. HeadOf(lang, s) = IF h.st = "eof" THEN Stop(h, "lost") ELSE h
    BY DEF HeadOf
<1> HIDE DEF h
<1>3. Sound(Stop(h, "lost"))
    BY <1>1, SoundStop DEF Statuses
<1> QED
    BY <1>1, <1>2, <1>3

LEMMA SoundFlatField ==
    ASSUME NEW lang \in Langs, NEW s, Sound(s), NEW f, f.kind \in FlatKinds
    PROVE  Sound(ReadFlatField(lang, s, f))
<1> DEFINE h == HeadOf(lang, s)
<1>1. Sound(h)
    BY SoundHeadOf
<1>2. ReadFlatField(lang, s, f) = IF h.st = "good" THEN ReadFlat(lang, h, f) ELSE h
    BY DEF ReadFlatField
<1> HIDE DEF h
<1>3. Sound(ReadFlat(lang, h, f))
    BY <1>1, SoundFlat
<1> QED
    BY <1>1, <1>2, <1>3

\* Fields are read by one, each from where the one before ended.
SoundOne(fs, one) ==
    \A i \in 1 .. Len(fs) : \A s \in Streams : Sound(s) => Sound(one[fs[i]][s])

LEMMA SoundEach ==
    ASSUME NEW lang, NEW s, Sound(s), NEW fs, Len(fs) \in Nat, NEW one, SoundOne(fs, one)
    PROVE  Sound(ReadEach(lang, s, fs, one))
<1> DEFINE m == Len(fs)
<1>2. m \in Nat /\ m = Len(fs)
    OBVIOUS
<1> HIDE DEF m
<1>0. PICK g : EachRun(lang, s, fs, one, m, g)
    BY ONLY <1>2, EachRunExists
<1>1. /\ \A i \in 0 .. m : g[i] = IF i = 0 THEN [s |-> s, vals |-> << >>] ELSE NextRead(lang, g[i - 1], fs[i], one)
      /\ ReadEach(lang, s, fs, one) = Value(g[m].s, g[m].vals)
    BY <1>0 DEF EachRun
<1> DEFINE T == {i \in 0 .. m : Sound(g[i].s)}
<1>3. 0 \in T
  <2>1. g[0] = [s |-> s, vals |-> << >>]
      BY <1>1, <1>2
  <2> QED
      BY <1>2, <2>1
<1>4. \A i \in 1 .. m : i - 1 \in T => i \in T
  <2> SUFFICES ASSUME NEW i \in 1 .. m, Sound(g[i - 1].s) PROVE Sound(g[i].s)
      BY <1>2
  <2> DEFINE r == g[i - 1]
             f == fs[i]
             q == IF lang = "cpp" THEN r.s ELSE FindTag(lang, r.s, f.tag)
             v == one[f][Forget(q)]
  <2>1. g[i] = NextRead(lang, r, f, one)
      BY <1>1, <1>2
  <2>2. NextRead(lang, r, f, one) = Gather(v, r.vals)
      BY DEF NextRead
  <2>3. Sound(q)
    <3>1. Sound(r.s)
        OBVIOUS
    <3> HIDE DEF r, f
    <3>2. Sound(FindTag(lang, r.s, f.tag))
        BY <3>1, SoundFind
    <3> QED
        BY <3>1, <3>2
  <2>4. Sound(v)
    <3> HIDE DEF q
    <3>1. Sound(Forget(q)) /\ Forget(q) \in Streams
        BY <2>3, SoundForget
    <3> QED
        BY <1>2, <3>1 DEF SoundOne, m
  <2> HIDE DEF v
  <2>5. Gather(v, r.vals).s = v
      BY DEF Gather
  <2> QED
      BY <2>1, <2>2, <2>4, <2>5
<1> HIDE DEF T
<1>5. m \in T
    BY <1>2, <1>3, <1>4, RunKeeps
<1>6. Sound(g[m].s)
    BY <1>5 DEF T
<1>7. Sound(Value(g[m].s, g[m].vals))
    BY <1>6, SoundValue
<1> QED
    BY <1>1, <1>7 DEF m

ElementSet == [kind : {"string", "int"}, tag : {0, 1}, val : {<< >>}]

LEMMA SoundElement ==
    ASSUME NEW lang \in Langs, NEW e \in ElementSet, NEW s \in Streams, Sound(s)
    PROVE  Sound(ReadElement[lang][e][s])
<1>1. ReadElement[lang][e][s] = ReadFlatField(lang, s, e)
  <2> DEFINE r == ReadElement[lang]
  <2>1. r = [x \in ElementSet |-> [z \in Streams |-> ReadFlatField(lang, z, x)]]
      BY DEF ReadElement, ElementSet
  <2> HIDE DEF r
  <2>2. r[e] = [z \in Streams |-> ReadFlatField(lang, z, e)]
      BY <2>1
  <2>3. r[e][s] = ReadFlatField(lang, s, e)
      BY <2>2
  <2> QED
      BY <2>3 DEF r
<1>2. e.kind \in FlatKinds
  <2>1. e.kind \in {"string", "int"}
      BY DEF ElementSet
  <2> QED
      BY <2>1 DEF FlatKinds, NumKinds
<1>3. Sound(ReadFlatField(lang, s, e))
    BY <1>2, SoundFlatField
<1> QED
    BY <1>1, <1>3

LEMMA SoundElements ==
    ASSUME NEW lang \in Langs, NEW f, f.kind \in {"map", "list"}, NEW n \in Int
    PROVE  Len(Elements(f, n)) \in Nat /\ SoundOne(Elements(f, n), ReadElement[lang])
<1> DEFINE P == Period(f)
           K == ElementKind(f)
           El(i) == [kind |-> K, tag |-> (i - 1) % P, val |-> << >>]
           m == n * P
           k == IF m < 0 THEN 0 ELSE m
           fs == Elements(f, n)
<1>1. P \in {1, 2} /\ K \in {"string", "int"}
    BY DEF Period, ElementKind
<1>2. m \in Int
  <2>1. n * 1 \in Int /\ n * 2 \in Int
      OBVIOUS
  <2> HIDE DEF P
  <2> QED
      BY <1>1, <2>1
<1>3. fs = [i \in 1 .. m |-> El(i)]
    BY DEF Elements
<1> HIDE DEF m, fs, P, K
<1>4. k \in Nat /\ 1 .. m = 1 .. k
    BY <1>2
<1>5. ASSUME NEW i \in 1 .. k PROVE El(i) \in ElementSet
  <2>1. (i - 1) % P \in {0, 1}
    <3>1. (i - 1) % 1 = 0 /\ (i - 1) % 2 \in {0, 1}
        BY <1>4
    <3> QED
        BY <1>1, <3>1
  <2> QED
      BY <1>1, <2>1 DEF ElementSet
<1> HIDE DEF k
<1>6. fs = [i \in 1 .. k |-> El(i)]
    BY <1>3, <1>4
<1> HIDE DEF El
<1>7. fs \in [1 .. k -> ElementSet]
    BY <1>5, <1>6
<1>8. fs \in Seq(ElementSet) /\ Len(fs) = k
    BY <1>4, <1>7
<1>9. \A i \in 1 .. Len(fs) : fs[i] \in ElementSet
    BY <1>7, <1>8
<1>10. SoundOne(fs, ReadElement[lang])
    BY <1>9, SoundElement DEF SoundOne
<1> QED
    BY <1>4, <1>8, <1>10 DEF fs

LEMMA SoundBlock ==
    ASSUME NEW lang \in Langs, NEW s, Sound(s), NEW f, f.kind \in {"map", "list"}
    PROVE  Sound(ReadBlock(lang, s, f))
<1> DEFINE h == HeadOf(lang, s)
           l == ReadSize(lang, h)
           n == IntOf(l.val)
           e == ReadEach(lang, l, Elements(f, n), ReadElement[lang])
           c1 == h.st # "good"
           c2 == h.type # (IF f.kind = "map" THEN MAP ELSE LIST)
           c3 == l.st # "good"
           c4 == n < 0 /\ ~ (lang = "cpp" /\ f.kind = "map")
           c5 == n > Len(l.buf)
           r == ReadBlock(lang, s, f)
<1>1. r = IF c1 THEN h ELSE IF c2 THEN Stop(h, "error") ELSE IF c3 THEN l
          ELSE IF c4 THEN Stop(l, "error") ELSE IF c5 THEN Stop(l, "lost") ELSE e
    BY DEF ReadBlock
<1>2. Sound(h)
    BY SoundHeadOf
<1> HIDE DEF h
<1>3. Sound(l) /\ (l.st = "good" => n \in Int)
    BY <1>2, SoundSize
<1>4. Sound(Stop(h, "error")) /\ Sound(Stop(l, "error")) /\ Sound(Stop(l, "lost"))
    BY <1>2, <1>3, SoundStop DEF Statuses
<1> HIDE DEF l, n
<1>5. ~ c3 => Sound(e)
  <2> SUFFICES ASSUME n \in Int PROVE Sound(e)
      BY <1>3
  <2> DEFINE fs == Elements(f, n)
             one == ReadElement[lang]
  <2>1. Len(fs) \in Nat /\ SoundOne(fs, one)
      BY SoundElements
  <2> HIDE DEF fs, one
  <2>2. Sound(ReadEach(lang, l, fs, one))
      BY <1>3, <2>1, SoundEach
  <2> QED
      BY <2>2 DEF fs, one
<1> HIDE DEF r, e, c1, c2, c3, c4, c5
<1>6. Sound(r)
    BY <1>1, <1>2, <1>3, <1>4, <1>5
<1> QED
    BY <1>6 DEF r

LEMMA SoundEnd ==
    ASSUME NEW lang, NEW r, Sound(r)
    PROVE  Sound(EndStruct(lang, r))
<1> DEFINE t == SkipMany(lang, r, ToEnd)
<1>1. Sound(t)
    BY SoundSkipMany
<1>2. EndStruct(lang, r) = IF r.st = "good" THEN Value(t, r.val) ELSE r
    BY DEF EndStruct, SkipToStructEnd
<1> HIDE DEF t
<1>3. Sound(Value(t, r.val))
    BY <1>1, SoundValue
<1> QED
    BY <1>2, <1>3

LEMMA SoundReadOf ==
    ASSUME NEW lang \in Langs, NEW s, Sound(s), NEW one, NEW f,
           f.kind \in FlatKinds \/ f.kind \in {"map", "list"} \/ f.kind = "struct",
           f.kind = "struct" => Len(f.val) \in Nat /\ SoundOne(f.val, one)
    PROVE  Sound(ReadOf(lang, one, f, s))
<1> DEFINE r == ReadOf(lang, one, f, s)
<1>1. CASE f.kind \in FlatKinds
  <2>1. f.kind \notin {"map", "list"} /\ f.kind # "struct"
      BY <1>1, KindsApart
  <2>2. r = ReadFlatField(lang, s, f)
      BY ONLY <1>1, <2>1, Zenon DEF ReadOf, r
  <2> QED
      BY <1>1, <2>2, SoundFlatField
<1>2. CASE f.kind \in {"map", "list"}
  <2>1. f.kind \notin FlatKinds /\ f.kind # "struct"
      BY <1>2, KindsApart
  <2>2. r = ReadBlock(lang, s, f)
      BY ONLY <1>2, <2>1, Zenon DEF ReadOf, r
  <2> QED
      BY <1>2, <2>2, SoundBlock
<1>3. CASE f.kind = "struct"
  <2> DEFINE h == HeadOf(lang, s)
             e == ReadEach(lang, h, f.val, one)
             z == EndStruct(lang, e)
  <2>1. f.kind \notin FlatKinds /\ f.kind \notin {"map", "list"}
      BY <1>3, KindsApart
  <2>2. r = IF h.st # "good" THEN h ELSE IF h.type # STRUCT_BEGIN THEN Stop(h, "error") ELSE z
      BY ONLY <1>3, <2>1, Zenon DEF ReadOf, r, h, e, z
  <2>3. Sound(h)
      BY SoundHeadOf
  <2> HIDE DEF h
  <2>4. Sound(e)
      BY <1>3, <2>3, SoundEach
  <2> HIDE DEF e
  <2>5. Sound(z) /\ Sound(Stop(h, "error"))
      BY <2>3, <2>4, SoundEnd, SoundStop DEF Statuses
  <2> HIDE DEF z, r
  <2>6. Sound(r)
      BY <2>2, <2>3, <2>5
  <2> QED
      BY <2>6 DEF r
<1> QED
    BY <1>1, <1>2, <1>3

\* By induction on the depth.
LEMMA SoundReadAt ==
    ASSUME NEW lang \in Langs
    PROVE  \A d \in 0 .. Depth : \A f \in Fields[d] : \A s \in Streams :
             Sound(s) => Sound(ReadAt[d][lang][f][s])
<1> DEFINE Ok(d) == \A f \in Fields[d] : \A s \in Streams : Sound(s) => Sound(ReadAt[d][lang][f][s])
           T == {d \in 0 .. Depth : Ok(d)}
<1>1. Depth \in Nat
    BY FieldsAssumption
<1>2. ASSUME NEW d \in 0 .. Depth, d > 0 => Ok(d - 1) PROVE Ok(d)
  <2> SUFFICES ASSUME NEW f \in Fields[d], NEW s \in Streams, Sound(s)
               PROVE  Sound(ReadAt[d][lang][f][s])
      OBVIOUS
  <2> DEFINE one == ReadAt[d - 1][lang]
  <2>1. ReadAt[d][lang][f][s] = ReadOf(lang, one, f, s)
      BY Unfolded
  <2>2. /\ f.kind \in FlatKinds \/ f.kind \in {"map", "list"} \/ f.kind = "struct"
        /\ f.kind = "struct" => d - 1 \in 0 .. Depth /\ f.val \in Seq(Fields[d - 1])
      BY FieldIs
  <2>3. f.kind = "struct" => Len(f.val) \in Nat /\ SoundOne(f.val, one)
    <3> SUFFICES ASSUME f.kind = "struct" PROVE Len(f.val) \in Nat /\ SoundOne(f.val, one)
        OBVIOUS
    <3>1. Ok(d - 1) /\ f.val \in Seq(Fields[d - 1])
        BY <1>1, <1>2, <2>2
    <3>2. Len(f.val) \in Nat /\ \A i \in 1 .. Len(f.val) : f.val[i] \in Fields[d - 1]
        BY <3>1, LenProperties, ElementOfSeq
    <3> QED
        BY <3>1, <3>2 DEF SoundOne
  <2> HIDE DEF one
  <2>4. Sound(ReadOf(lang, one, f, s))
      BY <2>2, <2>3, SoundReadOf
  <2> QED
      BY <2>1, <2>4
<1> HIDE DEF Ok
<1>3. \A d \in 0 .. Depth : (\A j \in 0 .. d - 1 : j \in T) => d \in T
  <2> SUFFICES ASSUME NEW d \in 0 .. Depth, \A j \in 0 .. d - 1 : j \in T PROVE Ok(d)
      OBVIOUS
  <2>1. d > 0 => d - 1 \in 0 .. d - 1
      BY <1>1
  <2> QED
      BY <1>2, <2>1
<1> HIDE DEF T
<1>4. 0 \in Nat
    OBVIOUS
<1>5. \A d \in 0 .. Depth : d \in T
    BY ONLY <1>1, <1>3, <1>4, UpTo
<1> QED
    BY <1>5 DEF T, Ok

LEMMA SoundRead ==
    ASSUME NEW lang \in Langs, NEW s, Sound(s), NEW f, f.kind \in FlatKinds \/ f \in Fields[Depth]
    PROVE  Sound(ReadField(lang, s, f))
<1>1. CASE f.kind \in FlatKinds
  <2>1. ReadField(lang, s, f) = ReadFlatField(lang, s, f)
      BY <1>1 DEF ReadField
  <2> QED
      BY <1>1, <2>1, SoundFlatField
<1>2. CASE f.kind \notin FlatKinds
  <2>1. ReadField(lang, s, f) = ReadAt[Depth][lang][f][Forget(s)]
      BY <1>2 DEF ReadField
  <2>2. Sound(Forget(s)) /\ Forget(s) \in Streams /\ Depth \in 0 .. Depth /\ f \in Fields[Depth]
      BY <1>2, SoundForget, FieldsAssumption
  <2>3. Sound(ReadAt[Depth][lang][f][Forget(s)])
      BY <2>2, SoundReadAt
  <2> QED
      BY <2>1, <2>3
<1> QED
    BY <1>1, <1>2

-----------------------------------------------------------------------------
\* What every variable holds, whatever the reader asks and wherever it is.
Outs == {"none", "value", "absent", "eof", "error", "lost"}
TInv ==
    /\ writer \in Langs /\ reader \in Langs
    /\ fields \in Messages
    /\ Sound(in)
    /\ pc \in {"idle", "skip", "found", "failed"}
    /\ want \in AskTags \union TagsWritten \union {-1}
    /\ asked \subseteq AskTags \union TagsWritten
    /\ answer.out \in Outs

LEMMA SoundIsTyped == TInv => TypeOK
<1> SUFFICES ASSUME TInv PROVE TypeOK
    OBVIOUS
<1>1. \A f \in ToSet(fields) : f.tag \in Byte /\ f.kind \in Kinds
  <2>1. /\ \A i \in 1 .. Len(fields) : fields[i] \in Fields[Depth]
        /\ ToSet(fields) = {fields[i] : i \in 1 .. Len(fields)}
      BY MessageFacts DEF TInv
  <2>2. \A f \in Fields[Depth] : f.tag \in Byte /\ f.kind \in Kinds
      BY FieldsAssumption
  <2> QED
      BY <2>1, <2>2
<1>2. ToSet(in.buf) \subseteq Byte
  <2>1. in.buf \in Seq(Byte)
      BY DEF TInv, Sound
  <2> DEFINE b == in.buf
  <2> HIDE DEF b
  <2>2. b \in [1 .. Len(b) -> Byte] /\ DOMAIN b = 1 .. Len(b)
      BY <2>1, LenProperties DEF b
  <2>3. ToSet(b) \subseteq Byte
      BY <2>2 DEF ToSet
  <2> QED
      BY <2>3 DEF b
<1>3. in.pos \in 0 .. Len(in.buf) /\ in.st \in {"good", "eof", "error", "lost"}
    BY DEF TInv, Sound, Statuses
<1> QED
    BY <1>1, <1>2, <1>3 DEF TInv, TypeOK, Outs

LEMMA TInit == Init => TInv
<1> SUFFICES ASSUME Init PROVE TInv
    OBVIOUS
<1>1. Bytes \in Seq(Byte)
  <2>1. AskedInOrder
      BY DEF Init, AskedInOrder
  <2> QED
      BY <2>1, LayExists
<1>2. Sound(in)
  <2>1. in = [buf |-> Bytes, pos |-> 0, st |-> "good", type |-> 0, tag |-> 0, len |-> 0, val |-> << >>]
      BY DEF Init, Stream, Bytes
  <2> DEFINE b == Bytes
  <2> HIDE DEF b
  <2>2. b \in Seq(Byte) /\ 0 \in 0 .. Len(b)
      BY <1>1, LenProperties DEF b
  <2> QED
      BY <2>1, <2>2 DEF Sound, Statuses, b
<1> QED
    BY <1>2 DEF Init, TInv, NoAnswer, Outs

\* Reading leaves a stream and an answer.
LEMMA ReadIsSound ==
    ASSUME TInv, NEW f, f.kind \in FlatKinds \/ f \in Fields[Depth], Read(f)
    PROVE  Sound(in') /\ pc' \in {"idle", "failed"} /\ answer'.out \in Outs
<1> DEFINE r == ReadField(reader, in, f)
<1>1. Sound(r)
    BY SoundRead DEF TInv
<1>2. HasRead(r)
    BY DEF Read
<1> HIDE DEF r
<1>3. Sound(Forget(r)) /\ r.st \in {"good", "eof", "error", "lost"}
    BY <1>1, SoundForget DEF Sound, Statuses
<1>4. in' = Forget(r) /\ pc' \in {"idle", "failed"}
    BY <1>2 DEF HasRead
<1>5. answer' \in {[out |-> "value", val |-> r.val], [out |-> r.st, val |-> << >>]}
    BY <1>2 DEF HasRead
<1>6. answer'.out \in {"value", r.st}
    BY <1>5
<1>7. Sound(in')
    BY <1>3, <1>4
<1>8. answer'.out \in Outs
  <2> DEFINE o == answer'.out
             c == r.st
  <2>1. o \in {"value", c} /\ c \in {"good", "eof", "error", "lost"}
      BY <1>3, <1>6
  <2>2. c # "good" \/ o = "value"
      BY <1>2, <2>1 DEF HasRead
  <2> HIDE DEF o, c
  <2>3. o \in Outs
      BY <2>1, <2>2 DEF Outs
  <2> QED
      BY <2>3 DEF o
<1> QED
    BY <1>4, <1>7, <1>8

LEMMA TNext ==
    ASSUME TInv, [Next]_vars
    PROVE  TInv'
<1>1. ASSUME NEW tag \in AskTags, Ask(tag) PROVE TInv'
  <2>1. /\ writer' = writer /\ reader' = reader /\ fields' = fields /\ in' = in
        /\ pc' = "skip" /\ want' = tag /\ asked' = asked \union {tag} /\ answer' = NoAnswer
      BY <1>1 DEF Ask
  <2>2. TagsWritten' = TagsWritten /\ NoAnswer.out \in Outs
      BY <2>1 DEF TagsWritten, NoAnswer, Outs
  <2> QED
      BY <2>1, <2>2 DEF TInv
<1>2. CASE SkipPass
  <2> DEFINE p == Pass(reader, in, want)
  <2>1. /\ writer' = writer /\ reader' = reader /\ fields' = fields
        /\ want' = want /\ asked' = asked /\ Passed(p)
      BY <1>2 DEF SkipPass
  <2>2. Sound(p.s) /\ p.res \in Outcomes
      BY SoundPass DEF TInv
  <2> HIDE DEF p
  <2>3. Sound(in')
      BY <2>1, <2>2, SoundForget DEF Passed
  <2>4. pc' \in {"idle", "skip", "found", "failed"}
      BY <2>1, <2>2 DEF Passed, Outcomes
  <2>5. answer'.out \in Outs
    <3>1. answer' \in {[out |-> "absent", val |-> << >>], answer}
        BY <2>1 DEF Passed
    <3>2. answer'.out \in {"absent", answer.out}
        BY <3>1
    <3> QED
        BY <3>2 DEF TInv, Outs
  <2>6. TagsWritten' = TagsWritten
      BY <2>1 DEF TagsWritten
  <2> QED
      BY <2>1, <2>3, <2>4, <2>5, <2>6 DEF TInv
<1>3. CASE ReadWanted
  <2> DEFINE int == [kind |-> "int", tag |-> want, val |-> << >>]
             f == IF want \in TagsWritten THEN FieldOf(want) ELSE int
  <2>1. /\ writer' = writer /\ reader' = reader /\ fields' = fields
        /\ want' = want /\ asked' = asked /\ Read(f)
      BY <1>3 DEF ReadWanted
  <2>2. f.kind \in FlatKinds \/ f \in Fields[Depth]
    <3>1. CASE want \in TagsWritten
      <4>1. PICK i \in 1 .. Len(fields) : want = fields[i].tag
          BY <3>1 DEF TagsWritten
      <4>2. FieldOf(want) = fields[i] /\ fields[i] \in Fields[Depth]
          BY <4>1, FieldOfTag, MessageFacts DEF TInv
      <4> QED
          BY <3>1, <4>2
    <3>2. CASE want \notin TagsWritten
      <4>1. f = int /\ int.kind = "int"
          BY <3>2
      <4> HIDE DEF f, int
      <4> QED
          BY <4>1 DEF FlatKinds, NumKinds
    <3> QED
        BY <3>1, <3>2
  <2> HIDE DEF f
  <2>3. Sound(in') /\ pc' \in {"idle", "failed"} /\ answer'.out \in Outs
      BY <2>1, <2>2, ReadIsSound
  <2>4. TagsWritten' = TagsWritten
      BY <2>1 DEF TagsWritten
  <2> QED
      BY <2>1, <2>3, <2>4 DEF TInv
<1>4. CASE ReadNext
  <2>1. PICK f \in ToSet(fields) : Read(f) /\ want' = f.tag /\ asked' = asked \union {f.tag}
      BY <1>4 DEF ReadNext
  <2>2. writer' = writer /\ reader' = reader /\ fields' = fields
      BY <1>4 DEF ReadNext
  <2>3. f \in Fields[Depth] /\ f.tag \in TagsWritten
    <3>1. PICK i \in 1 .. Len(fields) : f = fields[i]
        BY MessageFacts DEF TInv
    <3> QED
        BY <3>1, MessageFacts DEF TInv, TagsWritten
  <2>4. Sound(in') /\ pc' \in {"idle", "failed"} /\ answer'.out \in Outs
      BY <2>1, <2>3, ReadIsSound
  <2>5. TagsWritten' = TagsWritten
      BY <2>2 DEF TagsWritten
  <2> QED
      BY <2>1, <2>2, <2>3, <2>4, <2>5 DEF TInv
<1>5. CASE UNCHANGED vars
  <2>1. /\ writer' = writer /\ reader' = reader /\ fields' = fields /\ in' = in
        /\ pc' = pc /\ want' = want /\ asked' = asked /\ answer' = answer
      BY <1>5 DEF vars
  <2>2. TagsWritten' = TagsWritten
      BY <2>1 DEF TagsWritten
  <2> QED
      BY <2>1, <2>2 DEF TInv
<1> QED
    BY <1>1, <1>2, <1>3, <1>4, <1>5 DEF Next

(***************************************************************************)
(* The reader keeps to the bytes it has and every variable has its kind of *)
(* value, also where an answer is not right: after a tag that is absent,   *)
(* at a size that is not one, for a message of any length and depth.       *)
(***************************************************************************)
THEOREM ReaderTypes == Spec => []TypeOK
<1>1. Init => TInv
    BY TInit
<1>2. TInv /\ [Next]_vars => TInv'
    BY TNext
<1>3. TInv => TypeOK
    BY SoundIsTyped
<1> QED
    BY <1>1, <1>2, <1>3, PTL DEF Spec
=============================================================================
