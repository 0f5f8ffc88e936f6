------------------------------ MODULE ProtoCodec ------------------------------
(***************************************************************************)
(* Maps, lists and structs, the fields of the tagged format that hold      *)
(* fields, and skipToTag: both languages' writers, and readers that read a *)
(* field or skip over it.  A map holds strings and a list ints; a struct   *)
(* holds any fields, structs too.  Calls that recur in the code are        *)
(* functions of the depth structs are nested in, the loops functions of    *)
(* the number of passes, at most as many as there are bytes to read.       *)
(***************************************************************************)
EXTENDS ProtoStream, SequencesExt

CONSTANTS Depth,  \* how deep structs are nested
          Fields  \* Fields[d]: fields whose structs are nested up to d deep

Kinds == FlatKinds \union {"map", "list", "struct"}
Ascending(fs) == \A i, j \in 1 .. Len(fs) : i < j => fs[i].tag < fs[j].tag

\* The elements of a map of strings or a list of ints of the size n.
ElementKind(f) == IF f.kind = "map" THEN "string" ELSE "int"
Period(f) == IF f.kind = "map" THEN 2 ELSE 1
Elements(f, n) ==
    [i \in 1 .. n * Period(f) |->
        [kind |-> ElementKind(f), tag |-> (i - 1) % Period(f), val |-> << >>]]

\* A map or list holds such elements, as many as an int can count.
HoldsElements(f) ==
    LET n == Len(f.val) \div Period(f)
    IN  /\ f.val \in Seq([kind : {ElementKind(f)}, tag : {0, 1}, val : Seq(Byte)])
        /\ IsLength(n) /\ Len(f.val) = n * Period(f)
        /\ \A i \in 1 .. Len(f.val) : FlatField(f.val[i]) /\ f.val[i].tag = (i - 1) % Period(f)

\* A field has a tag of one byte and holds what its kind says; the members
\* of a struct are written in ascending order of their tags.
ASSUME FieldsAssumption ==
    /\ Depth \in Nat
    /\ \A d \in 0 .. Depth : \A f \in Fields[d] :
         /\ f.kind \in Kinds /\ f.tag \in Byte
         /\ f.kind \in FlatKinds => FlatField(f)
         /\ f.kind \in {"map", "list"} => HoldsElements(f)
         /\ f.kind = "struct" => d > 0 /\ f.val \in Seq(Fields[d - 1]) /\ Ascending(f.val)

-----------------------------------------------------------------------------
(* Writing *)

WriteElements(lang, fs) == FlattenSeq([i \in 1 .. Len(fs) |-> WriteFlat(lang, fs[i])])

WriteBlock(lang, f) ==
    WriteHead(lang, IF f.kind = "map" THEN MAP ELSE LIST, f.tag)
      \o WriteSize(lang, Len(f.val) \div Period(f)) \o WriteElements(lang, f.val)

\* A struct is its members, each written by one, between two heads.
WriteOf(lang, one, f) ==
    CASE f.kind \in FlatKinds -> WriteFlat(lang, f)
      [] f.kind \in {"map", "list"} -> WriteBlock(lang, f)
      [] f.kind = "struct" ->
           WriteHead(lang, STRUCT_BEGIN, f.tag)
             \o FlattenSeq([i \in 1 .. Len(f.val) |-> one[f.val[i]]])
             \o WriteHead(lang, STRUCT_END, IF lang = "cpp" THEN f.tag ELSE 0)

WriteAt[d \in 0 .. Depth] ==
    [lang \in Langs |-> [f \in Fields[d] |-> WriteOf(lang, WriteAt[d - 1][lang], f)]]

WriteField(lang, f) == WriteAt[Depth][lang][f]
WriteFields(lang, fs) == FlattenSeq([i \in 1 .. Len(fs) |-> WriteField(lang, fs[i])])

-----------------------------------------------------------------------------
(* Skipping *)

\* What is left of a stream between two calls is its position and status.
Forget(s) == [s EXCEPT !.type = 0, !.tag = 0, !.len = 0, !.val = << >>]
Streams ==
    [buf : Seq(Byte), pos : Nat, st : {"good", "eof", "error", "lost"},
     type : {0}, tag : {0}, len : {0}, val : {<< >>}]

\* A loop over fields makes no more passes than this, two for each byte ahead.
Passes(s) == 2 * (Len(s.buf) - s.pos) + 3

\* The C++ reader takes the size of a map or list as four bytes without head.
SkippedSize(lang, s) == IF lang = "cpp" THEN Take(lang, s, 4) ELSE ReadSize(lang, s)

\* How many fields are inside the field whose head has been read: a number,
\* or as many as there are up to STRUCT_END.  The C++ reader passes over the
\* head of a struct alone.
Holders == {MAP, LIST, STRUCT_BEGIN}
ToEnd == -1
Counted(h, l) ==
    LET n == IntOf(l.val)
    IN  IF l.st # "good" THEN [s |-> l, n |-> 0]
        ELSE IF n > Len(l.buf) THEN [s |-> Stop(l, "lost"), n |-> 0]
        ELSE [s |-> l, n |-> IF n < 0 THEN 0 ELSE IF h.type = MAP THEN n * 2 ELSE n]
Inside(lang, h) ==
    IF h.type = STRUCT_BEGIN THEN [s |-> h, n |-> IF lang = "cpp" THEN 0 ELSE ToEnd]
    ELSE Counted(h, SkippedSize(lang, h))

\* The loops of skipField and skipToStructEnd, one in another: todo says how
\* many fields each has still to skip, the innermost first.
SkipPass1(lang, r) ==
    LET n == Head(r.todo)
        h == ReadHead(lang, r.s)
        i == Inside(lang, h)
        rest == IF n # ToEnd THEN <<n - 1>> \o Tail(r.todo)
                ELSE IF h.type = STRUCT_END THEN Tail(r.todo) ELSE r.todo
    IN  IF r.s.st # "good" \/ r.todo = << >> THEN r
        ELSE IF n = 0 THEN [r EXCEPT !.todo = Tail(@)]
        ELSE IF n > Len(r.s.buf) - r.s.pos \/ (n = ToEnd /\ h.st = "eof")
        THEN [r EXCEPT !.s = Stop(@, "lost")]
        ELSE IF h.type \in Holders THEN [s |-> Forget(i.s), todo |-> <<i.n>> \o rest]
        ELSE [s |-> Forget(SkipFlat(lang, h)), todo |-> rest]

\* The reader that still has fields to skip after all passes is behind the end.
SkipEnds(r) == IF r.s.st = "good" /\ r.todo # << >> THEN Stop(r.s, "lost") ELSE r.s

SkipMany(lang, s, n) ==
    LET pass[i \in 0 .. Passes(s)] ==
          IF i = 0 THEN [s |-> Forget(s), todo |-> <<n>>] ELSE SkipPass1(lang, pass[i - 1])
    IN  SkipEnds(pass[Passes(s)])

SkipToStructEnd(lang, s) == SkipMany(lang, s, ToEnd)

\* skipField( type ), the type being that of the head just read.
SkipField(lang, s) ==
    LET i == Inside(lang, s)
    IN  IF s.type \in Holders THEN SkipMany(lang, i.s, i.n) ELSE SkipFlat(lang, s)

\* The loop of skipToTag after a field it has skipped.  An exception of the
\* format's own kind ends the search.
AfterSkip(t) ==
    IF t.st = "error" THEN [s |-> [t EXCEPT !.st = "good"], res |-> "absent"]
    ELSE [s |-> t, res |-> IF t.st = "lost" THEN "lost" ELSE "more"]

\* Faulty variant: the head is not given back when the tag is found.
CppPass_Bug(s, tag) ==
    LET h == ReadHead("cpp", s)
    IN  IF s.st # "good" \/ h.type = STRUCT_END
        THEN [s |-> IF s.st # "good" THEN s ELSE h, res |-> "absent"]
        ELSE IF tag < h.tag THEN [s |-> h, res |-> "absent"]
        ELSE IF tag = h.tag THEN [s |-> h, res |-> "found"]
        ELSE AfterSkip(SkipField("cpp", h))

\* Faulty variant: the field is skipped from its head on, skip(len) left out.
JavaPass_Bug(s, tag) ==
    LET h == ReadHead("java", s)
    IN  IF h.st # "good" \/ h.type = STRUCT_END THEN [s |-> s, res |-> "absent"]
        ELSE IF tag <= h.tag
        THEN [s |-> [h EXCEPT !.pos = s.pos], res |-> IF tag = h.tag THEN "found" ELSE "absent"]
        ELSE AfterSkip(SkipField("java", [h EXCEPT !.pos = s.pos]))

(***************************************************************************)
(* One pass of the loop of skipToTag.  C++ reads the head and goes back    *)
(* only when the tag is found; Java looks at a copy of the buffer.         *)
(***************************************************************************)
CppPass(s, tag) ==
    LET h == ReadHead("cpp", s)
    IN  IF s.st # "good" \/ h.type = STRUCT_END
        THEN [s |-> IF s.st # "good" THEN s ELSE h, res |-> "absent"]
        ELSE IF tag < h.tag THEN [s |-> h, res |-> "absent"]
        ELSE IF tag = h.tag THEN [s |-> Seek(h, Tell(h) - h.len), res |-> "found"]
        ELSE AfterSkip(SkipField("cpp", h))

JavaPass(s, tag) ==
    LET h == ReadHead("java", s)
    IN  IF h.st # "good" \/ h.type = STRUCT_END THEN [s |-> s, res |-> "absent"]
        ELSE IF tag <= h.tag
        THEN [s |-> [h EXCEPT !.pos = s.pos], res |-> IF tag = h.tag THEN "found" ELSE "absent"]
        ELSE AfterSkip(SkipField("java", h))

Pass(lang, s, tag) == IF lang = "cpp" THEN CppPass(s, tag) ELSE JavaPass(s, tag)

\* skipToTag where it runs within another call.
PassOn(lang, p, tag) ==
    IF p.res = "more" /\ p.s.st = "good" THEN Pass(lang, Forget(p.s), tag) ELSE p

\* A required field that is not there is an exception.
FindEnds(s, p) ==
    CASE s.st # "good" -> s
      [] s.st = "good" /\ p.res = "absent" -> Stop(p.s, "error")
      [] s.st = "good" /\ p.res = "more" -> Stop(p.s, "lost")
      [] OTHER -> p.s

FindTag(lang, s, tag) ==
    LET pass[i \in 0 .. Passes(s)] ==
          IF i = 0 THEN [s |-> s, res |-> "more"] ELSE PassOn(lang, pass[i - 1], tag)
    IN  FindEnds(s, pass[Passes(s)])

-----------------------------------------------------------------------------
(* Reading *)

\* The head in front of a value.
HeadOf(lang, s) == LET h == ReadHead(lang, s) IN IF h.st = "eof" THEN Stop(h, "lost") ELSE h

ReadFlatField(lang, s, f) ==
    LET h == HeadOf(lang, s) IN IF h.st = "good" THEN ReadFlat(lang, h, f) ELSE h

\* Fields in their order, each read into the kind it has.  Java looks for
\* each tag; C++ takes the next field.
Gather(v, vals) == [s |-> v, vals |-> Append(vals, v.val)]
NextRead(lang, r, f, one) ==
    Gather(one[f][Forget(IF lang = "cpp" THEN r.s ELSE FindTag(lang, r.s, f.tag))], r.vals)

Gathered(r) == Value(r.s, r.vals)
ReadEach(lang, s, fs, one) ==
    LET read[i \in 0 .. Len(fs)] ==
          IF i = 0 THEN [s |-> s, vals |-> << >>] ELSE NextRead(lang, read[i - 1], fs[i], one)
    IN  Gathered(read[Len(fs)])

ReadElement ==
    [lang \in Langs |->
       [f \in [kind : {"string", "int"}, tag : {0, 1}, val : {<< >>}] |->
          [s \in Streams |-> ReadFlatField(lang, s, f)]]]

\* A map of strings or a list of ints.  An entry with other tags, which no
\* writer makes, is dropped in C++; left out.
ReadBlock(lang, s, f) ==
    LET h == HeadOf(lang, s)
        l == ReadSize(lang, h)
        n == IntOf(l.val)
    IN  IF h.st # "good" THEN h
        ELSE IF h.type # (IF f.kind = "map" THEN MAP ELSE LIST) THEN Stop(h, "error")
        ELSE IF l.st # "good" THEN l
        ELSE IF n < 0 /\ ~ (lang = "cpp" /\ f.kind = "map") THEN Stop(l, "error")
        ELSE IF n > Len(l.buf) THEN Stop(l, "lost")
        ELSE ReadEach(lang, l, Elements(f, n), ReadElement[lang])

EndStruct(lang, r) == IF r.st = "good" THEN Value(SkipToStructEnd(lang, r), r.val) ELSE r

\* f tells the reader which kind to read, and which members a struct has.
ReadOf(lang, one, f, s) ==
    LET h == HeadOf(lang, s)
    IN  CASE f.kind \in FlatKinds -> ReadFlatField(lang, s, f)
          [] f.kind \in {"map", "list"} -> ReadBlock(lang, s, f)
          [] f.kind = "struct" ->
               IF h.st # "good" THEN h
               ELSE IF h.type # STRUCT_BEGIN THEN Stop(h, "error")
               ELSE EndStruct(lang, ReadEach(lang, h, f.val, one))

ReadAt[d \in 0 .. Depth] ==
    [lang \in Langs |->
       [f \in Fields[d] |-> [s \in Streams |-> ReadOf(lang, ReadAt[d - 1][lang], f, s)]]]

ReadField(lang, s, f) ==
    IF f.kind \in FlatKinds THEN ReadFlatField(lang, s, f) ELSE ReadAt[Depth][lang][f][Forget(s)]
=============================================================================
