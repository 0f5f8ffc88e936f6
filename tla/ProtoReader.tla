----------------------------- MODULE ProtoReader -----------------------------
(***************************************************************************)
(* A reader of a message in the tagged format.  A writer has put the       *)
(* fields into the buffer in ascending order of their tags.  The reader    *)
(* asks for tags in ascending order; for each it runs skipToTag, whose     *)
(* loop takes one pass a step, and then reads the field at the position it *)
(* found.  A C++ reader may instead read the next field without a look at  *)
(* its tag, as bufFromMsg and the readFrom methods do.                     *)
(***************************************************************************)
EXTENDS ProtoCodec, FiniteSets

CONSTANTS Messages,  \* the messages: sequences of fields, ascending tags
          AskTags    \* the tags a reader may ask for

ASSUME MessagesAssumption == \A m \in Messages : m \in Seq(Fields[Depth]) /\ Ascending(m)
ASSUME AskTagsAssumption == AskTags \subseteq Byte

VARIABLES writer,  \* the language that wrote the buffer
          reader,  \* the language that reads it
          fields,  \* the fields written
          in,      \* the stream
          pc,      \* "idle", "skip", "found", "failed"
          want,    \* the tag asked for last
          asked,   \* the tags asked for so far
          answer   \* the outcome of the last question and the value it gave

vars == <<writer, reader, fields, in, pc, want, asked, answer>>

NoAnswer == [out |-> "none", val |-> << >>]

Init ==
    /\ writer \in Langs
    /\ reader \in Langs
    /\ fields \in Messages
    /\ in = Stream(WriteFields(writer, fields))
    /\ pc = "idle"
    /\ want = -1
    /\ asked = {}
    /\ answer = NoAnswer

TagsWritten == {fields[i].tag : i \in 1 .. Len(fields)}
FieldOf(tag) == CHOOSE f \in ToSet(fields) : f.tag = tag

\* An absent field costs the C++ reader its place: skipToTag has read the head
\* of the next one.  What it would read from there on is not followed.
InPlace == reader = "cpp" => answer.out # "absent"

\* skipToTag is called.
Ask(tag) ==
    /\ pc = "idle"
    /\ InPlace
    /\ tag > want
    /\ pc' = "skip"
    /\ want' = tag
    /\ asked' = asked \union {tag}
    /\ answer' = NoAnswer
    /\ UNCHANGED <<writer, reader, fields, in>>

\* One pass of its loop.
Passed(p) ==
    /\ in' = Forget(p.s)
    /\ pc' = CASE p.res = "more" -> "skip"
               [] p.res = "found" -> "found"
               [] p.res = "absent" -> "idle"
               [] p.res = "lost" -> "failed"
    /\ answer' = IF p.res = "absent" THEN [out |-> "absent", val |-> << >>] ELSE answer

SkipPass ==
    /\ pc = "skip"
    /\ Passed(Pass(reader, in, want))
    /\ UNCHANGED <<writer, reader, fields, want, asked>>

\* The field at the position is read into a variable of the kind f has.
HasRead(r) ==
    /\ in' = Forget(r)
    /\ pc' = IF r.st = "good" THEN "idle" ELSE "failed"
    /\ answer' = IF r.st = "good" THEN [out |-> "value", val |-> r.val]
                                  ELSE [out |-> r.st, val |-> << >>]
Read(f) == HasRead(ReadField(reader, in, f))

\* The reader knows the kind of a field by its tag.  A field that was not
\* written is asked for as an int.
ReadWanted ==
    /\ pc = "found"
    /\ Read(IF want \in TagsWritten THEN FieldOf(want)
            ELSE [kind |-> "int", tag |-> want, val |-> << >>])
    /\ UNCHANGED <<writer, reader, fields, want, asked>>

\* The next field is read without skipToTag.
ReadNext ==
    /\ pc = "idle"
    /\ reader = "cpp"
    /\ InPlace
    /\ \E f \in ToSet(fields) :
         /\ {t \in TagsWritten : t < f.tag} = asked
         /\ Read(f)
         /\ want' = f.tag
         /\ asked' = asked \union {f.tag}
    /\ UNCHANGED <<writer, reader, fields>>

Next == (\E tag \in AskTags : Ask(tag)) \/ SkipPass \/ ReadWanted \/ ReadNext

Spec == Init /\ [][Next]_vars

-----------------------------------------------------------------------------
\* The value a reader should get: for a map, list or struct those of its elements.
ValueIn(lang, one, f) ==
    CASE f.kind \in FlatKinds -> ValueOf(lang, f)
      [] f.kind \in {"map", "list"} -> [i \in 1 .. Len(f.val) |-> ValueOf(lang, f.val[i])]
      [] f.kind = "struct" -> [i \in 1 .. Len(f.val) |-> one[f.val[i]]]
ValueAt[d \in 0 .. Depth] ==
    [lang \in Langs |-> [f \in Fields[d] |-> ValueIn(lang, ValueAt[d - 1][lang], f)]]
Expected(lang, f) == ValueAt[Depth][lang][f]

\* A field and the members of a struct, of structs among these too.
PartsAt[d \in 0 .. Depth] ==
    [f \in Fields[d] |->
       {f} \union (IF f.kind = "struct"
                   THEN UNION {PartsAt[d - 1][f.val[i]] : i \in 1 .. Len(f.val)} ELSE {})]
Parts(f) == PartsAt[Depth][f]
AllParts == UNION {Parts(f) : f \in ToSet(fields)}

\* The texts of a field, in maps and structs too, are ones the reader gets as
\* they were.
TextsKept(wr, rd, f) ==
    \A g \in Parts(f) :
      /\ g.kind = "string" => TextKept(wr, rd, g.val)
      /\ g.kind = "map" => \A i \in 1 .. Len(g.val) : TextKept(wr, rd, g.val[i].val)

\* The answer is a value for a field that was written, and the value written
\* unless a text in it is not kept.
Right ==
    IF want \in TagsWritten
    THEN /\ answer.out = "value"
         /\ TextsKept(writer, reader, FieldOf(want))
              => answer.val = Expected(reader, FieldOf(want))
    ELSE answer.out = "absent"

\* A question has been answered, by a value or by an exception.
Answered == pc \in {"idle", "failed"} /\ asked # {}

\* std::vector<char> writes its size as a char; Java takes that for signed.
BlobsSmall == writer = "java" \/ \A f \in AllParts : f.kind = "blob" => Len(f.val) < 128
OneByteTags == (\A f \in AllParts : f.tag < 128) /\ (\A t \in asked : t < 128)

\* What the C++ reader gets right, in maps, lists and structs too.
CppReads(wr, f) ==
    \A g \in Parts(f) :
      /\ g.kind \in FlatKinds => CppGets(wr, g)
      /\ g.kind \in {"map", "list"} => \A i \in 1 .. Len(g.val) : CppGets(wr, g.val[i])

SkippedFields == {f \in ToSet(fields) : f.tag < want /\ f.tag \notin asked}
CppSkips(wr, f) == f.kind \in FlatKinds /\ (f.kind = "blob" => CppReads(wr, f))

\* Every variable has its kind of value; the stream never leaves its bytes.
TypeOK ==
    /\ writer \in Langs /\ reader \in Langs
    /\ \A f \in ToSet(fields) : f.tag \in Byte /\ f.kind \in Kinds
    /\ ToSet(in.buf) \subseteq Byte
    /\ in.pos \in 0 .. Len(in.buf)
    /\ in.st \in {"good", "eof", "error", "lost"}
    /\ pc \in {"idle", "skip", "found", "failed"}
    /\ want \in AskTags \union TagsWritten \union {-1}
    /\ asked \subseteq AskTags \union TagsWritten
    /\ answer.out \in {"none", "value", "absent", "eof", "error", "lost"}

\* What an answer rests on: a Java reader needs sizes and tags that mean the
\* same to the writer.  A C++ reader reads and skips only what CppReads and
\* CppSkips name, and looks for a tag only if a field with it or a greater
\* one is still ahead; a missing tag can be its last question only.
JavaInStep == BlobsSmall /\ (writer = "java" \/ OneByteTags)
FieldAhead == \E t \in TagsWritten : t >= want
CppInStep ==
    /\ OneByteTags
    /\ FieldAhead
    /\ asked \ {want} \subseteq TagsWritten
    /\ \A f \in ToSet(fields) : f.tag \in asked => CppReads(writer, f)
    /\ \A f \in SkippedFields : CppSkips(writer, f)
InStep == IF reader = "cpp" THEN CppInStep ELSE JavaInStep

(***************************************************************************)
(* ProtoInputStream gives every question its right answer, whichever       *)
(* fields are skipped on the way and whichever language wrote the message: *)
(* the value written, or that there is none.  A text in it that is not     *)
(* ASCII is the exception: ProtoOutputStream writes it in GBK and          *)
(* ProtoInputStream reads UTF-8, so that another text comes back; the      *)
(* answers after it are right again.  Excepted are also a vector<char> of  *)
(* 128 bytes or more and tags of 128 and above, both written by C++.       *)
(***************************************************************************)
JavaReaderRight == (reader = "java" /\ Answered /\ InStep) => Right

(***************************************************************************)
(* ProtoIn gives the right answer as long as it is in step: skipField      *)
(* leaves the position right behind a field, and reading it does too,      *)
(* whether with skipToTag or without; the head of a greater tag says that  *)
(* there is no field.  A text of a Java writer that is not ASCII arrives   *)
(* as its bytes in GBK.                                                    *)
(***************************************************************************)
CppReaderRight == (reader = "cpp" /\ Answered /\ InStep) => Right

(***************************************************************************)
(* skipToTag returns: each pass of its loop that does not end it leaves    *)
(* the position further ahead.  The C++ loop does so only if a field with  *)
(* the tag or a greater one lies ahead: at the end of the data readHead    *)
(* yields a head of zeros, and the seek over its byte goes back to the     *)
(* start, for ever.  In Java a large vector<char> of a C++ writer has a    *)
(* negative size, and is skipped backwards; so is one at a wrong place, to *)
(* which a tag of 143 written by C++ leads.                                *)
(***************************************************************************)
FurtherOn(p) == p.res = "more" => p.s.pos > in.pos
SkipMovesOn == (pc = "skip" /\ InStep) => FurtherOn(Pass(reader, in, want))
=============================================================================
