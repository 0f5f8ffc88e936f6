----------------------------- MODULE ProtoStream -----------------------------
(***************************************************************************)
(* Fields that hold no other fields (numbers, strings and byte vectors):   *)
(* how ProtoOut and ProtoOutputStream write them, how ProtoIn and          *)
(* ProtoInputStream read them and skip over them.  A field is a record     *)
(* [kind, tag, val].  A stream is a record: the bytes, the position, a     *)
(* status, and what the last call read (a head's type, tag and length, or  *)
(* a value).                                                               *)
(*                                                                         *)
(*   "good"   reading goes on                                              *)
(*   "eof"    the C++ stream has failed at the end of the bytes            *)
(*   "error"  ProtoError and std::length_error; in Java DecodeException    *)
(*            and BufferUnderflowException                                 *)
(*   "lost"   the reader has lost its place: in C++ a value reaches behind *)
(*            the end, in either language more fields are to be skipped    *)
(*            than there are bytes, or Java is to skip to a position out   *)
(*            of range.  What the code goes on with (variables without a   *)
(*            value, positions from the start again) is left out.          *)
(***************************************************************************)
EXTENDS ProtoNum

\* A text stands for its bytes in UTF-8.  What Java makes of one that is not
\* plain ASCII: its bytes in GBK, in which ProtoOutputStream writes it, and the
\* text for which ProtoInputStream takes the bytes, which it reads as UTF-8.
CONSTANTS Gbk(_), Utf8(_)

NumKinds == {"char", "short", "ushort", "int", "uint", "long"}
WidthOfKind == [k \in NumKinds |-> CASE k = "char" -> 1
                                     [] k \in {"short", "ushort"} -> 2
                                     [] k \in {"int", "uint"} -> 4
                                     [] k = "long" -> 8]
\* write(unsigned short) is write((int)s), write(unsigned int) is write((long)u).
WrittenWidth == [k \in NumKinds |-> CASE k = "ushort" -> 4 [] k = "uint" -> 8
                                      [] OTHER -> WidthOfKind[k]]
Written(kind, v) == ZeroExtend(v, WidthOfKind[kind], WrittenWidth[kind])
\* Java has no unsigned types: such a field is read as the next wider one.
ReadWidth(lang, kind) == IF lang = "cpp" THEN WidthOfKind[kind] ELSE WrittenWidth[kind]

FloatWidth == [float |-> 4, double |-> 8]
FloatType == [float |-> FLOAT, double |-> DOUBLE]
FixedSize == [t \in 0 .. 5 |-> CASE t = BYTE -> 1 [] t = SHORT -> 2
                                 [] t \in {INT, FLOAT} -> 4 [] t \in {LONG, DOUBLE} -> 8]

\* The bytes of an int that is not negative.
BytesOf(n) == <<n \div 16777216, (n \div 65536) % 256, (n \div 256) % 256, n % 256>>
\* A number of four bytes as an int.
IntOf(v) ==
    LET low == v[2] * 65536 + v[3] * 256 + v[4]
    IN  IF Negative(v) THEN (v[1] - 256) * 16777216 + low ELSE v[1] * 16777216 + low

-----------------------------------------------------------------------------
(* Writing *)

WriteNum(lang, v, w, tag) ==
    LET e == EncodeNum(v, w) IN WriteHead(lang, e.type, tag) \o e.payload

\* The size of a map, a list or a Java byte[] is written as an int ...
WriteSize(lang, n) == WriteNum(lang, BytesOf(n), 4, 0)
\* ... the size of a std::vector<char> as a char.
BlobSize(lang, n) ==
    IF lang = "cpp" THEN WriteNum(lang, <<n % 256>>, 1, 0) ELSE WriteSize(lang, n)

Ascii(t) == \A i \in 1 .. Len(t) : t[i] < 128

\* The bytes of a text: C++ writes those of the std::string.
Encoded(lang, t) == IF lang = "java" /\ ~ Ascii(t) THEN Gbk(t) ELSE t
\* The text that bytes are taken for.
Decoded(lang, b) == IF lang = "java" /\ ~ Ascii(b) THEN Utf8(b) ELSE b

WriteText(lang, b, tag) ==
    IF Len(b) > 255
    THEN WriteHead(lang, STRING4, tag) \o BytesOf(Len(b)) \o b
    ELSE WriteHead(lang, STRING1, tag) \o <<Len(b)>> \o b

FlatKinds == NumKinds \union DOMAIN FloatWidth \union {"string", "blob"}

WriteFlat(lang, f) ==
    CASE f.kind \in NumKinds ->
           WriteNum(lang, Written(f.kind, f.val), WrittenWidth[f.kind], f.tag)
      [] f.kind \in DOMAIN FloatWidth ->
           WriteHead(lang, FloatType[f.kind], f.tag) \o f.val
      [] f.kind = "string" -> WriteText(lang, Encoded(lang, f.val), f.tag)
      [] f.kind = "blob" ->
           WriteHead(lang, SIMPLE_LIST, f.tag) \o WriteHead(lang, BYTE, 0)
             \o BlobSize(lang, Len(f.val)) \o f.val

-----------------------------------------------------------------------------
(* The stream *)

Stream(bytes) ==
    [buf |-> bytes, pos |-> 0, st |-> "good", type |-> 0, tag |-> 0, len |-> 0, val |-> << >>]

Stop(s, why) == [s EXCEPT !.st = why]
Value(s, v) == IF s.st = "good" THEN [s EXCEPT !.val = v] ELSE s

\* get_char .. get_double, get_string; ByteBuffer.get, getShort ...
Take(lang, s, n) ==
    IF s.st # "good" THEN s
    ELSE IF s.pos + n > Len(s.buf) THEN Stop(s, IF lang = "cpp" THEN "lost" ELSE "error")
    ELSE [s EXCEPT !.pos = @ + n, !.val = SubSeq(s.buf, s.pos + 1, s.pos + n)]

\* Faulty variant: the position may be set behind the last byte.
Seek_Bug(s, p) ==
    IF s.st \notin {"good", "eof"} THEN s
    ELSE IF p >= 0 THEN [s EXCEPT !.pos = p, !.st = "good"] ELSE Stop(s, "eof")

\* seek clears the stream's error bits first; a position outside sets them.
Seek(s, p) ==
    IF s.st \notin {"good", "eof"} THEN s
    ELSE IF p \in 0 .. Len(s.buf) THEN [s EXCEPT !.pos = p, !.st = "good"]
    ELSE Stop(s, "eof")
Tell(s) == IF s.st = "good" THEN s.pos ELSE -1

\* seek( tell() + n ), and bs.position( bs.position() + n ).
Advance(lang, s, n) ==
    IF lang = "cpp" THEN Seek(s, Tell(s) + n)
    ELSE IF s.st = "good" /\ s.pos + n \notin 0 .. Len(s.buf) THEN Stop(s, "lost")
    ELSE Seek(s, s.pos + n)

\* A char that holds the byte b.
SignedChar(b) == IF b >= 128 THEN b - 256 ELSE b

\* At the end of the bytes the C++ reader gets a head of zeros and a failed
\* stream, the Java reader a BufferUnderflowException.
ReadHead(lang, s) ==
    IF s.st \notin {"good", "eof"} THEN s
    ELSE IF s.st = "eof" \/ s.pos >= Len(s.buf)
    THEN IF lang = "cpp" THEN [s EXCEPT !.st = "eof", !.type = BYTE, !.tag = 0, !.len = 1]
                         ELSE Stop(s, "error")
    ELSE LET b == s.buf[s.pos + 1] IN
         IF b \div 16 < 15
         THEN [s EXCEPT !.pos = @ + 1, !.len = 1, !.type = b % 16, !.tag = b \div 16]
         ELSE IF s.pos + 2 > Len(s.buf) THEN Stop(s, "lost")
         ELSE LET t == s.buf[s.pos + 2] IN
              [s EXCEPT !.pos = @ + 2, !.len = 2, !.type = b % 16,
                        !.tag = IF lang = "cpp" THEN SignedChar(t) ELSE t]

-----------------------------------------------------------------------------
(* Skipping and reading *)

\* The integer behind a head that has been read.
NumAfterHead(lang, s, w) ==
    IF ~ ReadableAs(s.type, w) THEN Stop(s, IF s.st = "good" THEN "error" ELSE s.st)
    ELSE LET p == IF s.type = ZERO_TAG THEN [s EXCEPT !.val = << >>]
                  ELSE Take(lang, s, WidthOfType[s.type])
         IN  IF p.st = "good" THEN Value(p, DecodeNum(lang, s.type, p.val, w)) ELSE p

\* The size of a blob, and in Java of a map or list: read( len ), and
\* read( 0, 0, true ), for which the next head must be one with tag 0.
ReadSize(lang, s) ==
    LET h == ReadHead(lang, s)
        required == h.tag = 0 /\ h.type # STRUCT_END
    IN  IF lang = "java" /\ h.st = "good" /\ ~ required THEN Stop(s, "error")
        ELSE NumAfterHead(lang, h, 4)

\* skipField( type ), the type being that of the head just read.
SkipFlat(lang, s) ==
    CASE s.type \in DOMAIN FixedSize -> Advance(lang, s, FixedSize[s.type])
      [] s.type = STRING1 ->
           LET l == Take(lang, s, 1) IN IF l.st = "good" THEN Advance(lang, l, l.val[1]) ELSE l
      [] s.type = STRING4 ->
           LET l == Take(lang, s, 4) IN IF l.st = "good" THEN Advance(lang, l, IntOf(l.val)) ELSE l
      [] s.type = SIMPLE_LIST ->
           LET h == ReadHead(lang, s)
               l == ReadSize(lang, h)
           IN  IF h.st = "good" /\ h.type # BYTE THEN Stop(h, "error")
               ELSE IF l.st = "good" THEN Advance(lang, l, IntOf(l.val)) ELSE l
      [] s.type \in {STRUCT_END, ZERO_TAG} -> s
      [] OTHER -> Stop(s, "error")

StringSize(lang, s) ==
    LET l == Take(lang, s, IF s.type = STRING1 THEN 1 ELSE 4)
    IN  IF l.st # "good" THEN 0
        ELSE IF s.type # STRING1 THEN IntOf(l.val)
        ELSE IF lang = "cpp" THEN SignedChar(l.val[1]) ELSE l.val[1]

\* The C++ reader turns a number into text and everything else into "";
\* the text itself is left out.
AsText == <<-1>>

ReadString(lang, s) ==
    IF s.type \in {STRING1, STRING4}
    THEN LET n == StringSize(lang, s)
             l == Take(lang, s, IF s.type = STRING1 THEN 1 ELSE 4)
             b == Take(lang, l, n)
         IN  IF n < 0 THEN Stop(s, "error") ELSE Value(b, Decoded(lang, b.val))
    ELSE IF lang = "java" THEN Stop(s, "error")
    ELSE IF s.type = ZERO_TAG THEN Value(s, << >>)
    ELSE IF s.type \in DOMAIN FixedSize THEN Value(Take(lang, s, FixedSize[s.type]), AsText)
    ELSE Value(s, << >>)

\* Java also takes a LIST for a byte[], which no writer makes; left out.
ReadBlob(lang, s) ==
    LET inner == IF s.type = SIMPLE_LIST THEN ReadHead(lang, s) ELSE s
        l == ReadSize(lang, inner)
        n == IntOf(l.val)
    IN  IF \/ s.type = SIMPLE_LIST /\ inner.st = "good" /\ inner.type # BYTE
           \/ s.type # SIMPLE_LIST /\ lang = "java"
        THEN Stop(s, "error")
        ELSE IF l.st # "good" THEN l
        ELSE IF n < 0 THEN IF lang = "java" THEN Stop(l, "error") ELSE Value(l, << >>)
        ELSE Take(lang, l, n)

\* The value behind a head, f being the kind of variable it is for.
ReadFlat(lang, h, f) ==
    CASE f.kind \in NumKinds -> NumAfterHead(lang, h, ReadWidth(lang, f.kind))
      [] f.kind \in DOMAIN FloatWidth ->
           IF h.type = ZERO_TAG THEN Value(h, Zero(FloatWidth[f.kind]))
           ELSE IF h.type \in {FLOAT, FloatType[f.kind]}
           THEN Take(lang, h, FixedSize[h.type])
           ELSE Stop(h, "error")
      [] f.kind = "string" -> ReadString(lang, h)
      [] f.kind = "blob" -> ReadBlob(lang, h)

-----------------------------------------------------------------------------
(* What is right *)

\* A length that an int can hold.
IsLength(n) == n \in Nat /\ n <= 2147483647

\* A longer text is refused by the writers and the readers.
Proto_MAX_STRING_LENGTH == 104857600

\* A field as the code writes it: a number in its variable's width, a text
\* that is not too long, a vector whose length is an int.
FlatField(f) ==
    /\ f.kind \in FlatKinds
    /\ f.tag \in Byte
    /\ f.kind \in NumKinds => f.val \in Number(WidthOfKind[f.kind])
    /\ f.kind \in DOMAIN FloatWidth => f.val \in Number(FloatWidth[f.kind])
    /\ f.kind \in {"string", "blob"} => f.val \in Seq(Byte) /\ IsLength(Len(f.val))
    /\ f.kind = "string" =>
         \A lang \in Langs : /\ Encoded(lang, f.val) \in Seq(Byte)
                             /\ Len(Encoded(lang, f.val)) <= Proto_MAX_STRING_LENGTH

\* The value a reader should get: a number in the reader's width.
ValueOf(lang, f) ==
    IF f.kind \in NumKinds /\ lang = "java" THEN Written(f.kind, f.val) ELSE f.val

\* A text that the reader gets as it was: an ASCII one always; any other only
\* from C++, and in Java only one that is UTF-8.
TextKept(writer, reader, t) ==
    Ascii(t) \/ (writer = "cpp" /\ (reader = "java" => Utf8(t) = t))

(***************************************************************************)
(* What the C++ reader gets right.  A number keeps its sign only in the    *)
(* variable's own width; a string's one-byte length is taken for signed; a *)
(* blob is written with its size modulo 256.                               *)
(***************************************************************************)
CppGets(writer, f) ==
    CASE f.kind \in NumKinds ->
           LET n == WrittenWidth[f.kind]
               v == Written(f.kind, f.val)
               w == ShortestWidth(v, n)
           IN  w = WidthOfKind[f.kind] \/ (w < WidthOfKind[f.kind] /\ ~ Negative(v))
      [] f.kind = "string" -> Len(Encoded(writer, f.val)) \notin 128 .. 255
      [] f.kind = "blob" -> writer = "java" \/ Len(f.val) < 256
      [] OTHER -> TRUE
=============================================================================
