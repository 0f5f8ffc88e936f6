---------------------------- MODULE MCProtoReader ----------------------------
(***************************************************************************)
(* Messages of up to three fields: one of each kind and size class first   *)
(* (numbers at the borders of each width, strings and blobs at the borders *)
(* of each length form, text that is not ASCII), then a number, a map or   *)
(* nothing, then a string with a tag of two bytes.                         *)
(***************************************************************************)
EXTENDS ProtoReader

\* A Chinese character, U+4E2D, which has two bytes in GBK.
Han == <<228, 184, 173>>
MCGbk(t) == IF t = Han THEN <<214, 208>> ELSE t
\* Each byte that is not UTF-8 becomes U+FFFD.
MCUtf8(b) ==
    IF b = Han THEN b
    ELSE FlattenSeq([i \in 1 .. Len(b) |-> IF b[i] < 128 THEN <<b[i]>> ELSE <<239, 191, 189>>])

F(kind, tag, val) == [kind |-> kind, tag |-> tag, val |-> val]
Text(n) == [i \in 1 .. n |-> 97]
Str(tag, n) == F("string", tag, Text(n))
\* the number with the last two bytes b and c
Num(w, fill, b, c) ==
    IF w = 1 THEN <<c>> ELSE [i \in 1 .. w |-> IF i = w THEN c ELSE IF i = w - 1 THEN b ELSE fill]

Numbers ==
    UNION {{F(k, 1, Num(WidthOfKind[k], fill, b, c)) :
              fill \in {0, 255}, b \in {0, 127, 128, 255}, c \in {0, 5, 127, 128}} :
           k \in NumKinds}
Large == {F("int", 1, <<1, 2, 3, 4>>), F("uint", 1, <<128, 2, 3, 4>>),
          F("long", 1, <<0, 0, 0, 1, 0, 0, 0, 0>>), F("long", 1, <<255, 0, 0, 0, 0, 0, 0, 1>>)}
Others ==
    {F("float", 1, <<64, 128, 0, 0>>), F("double", 1, <<64, 0, 0, 0, 0, 0, 0, 0>>)}
      \union {Str(1, n) : n \in {0, 3, 127, 128, 255, 256}}
      \union {F("blob", 1, Text(n)) : n \in {0, 3, 127, 128, 200, 255, 256}}
      \union {F("string", 1, Han), F("map", 1, <<F("string", 0, Han), Str(1, 3)>>),
              F("struct", 1, <<F("string", 2, Han), Str(3, 1)>>)}
      \union {F("map", 1, <<Str(0, 2), Str(1, 3)>>), F("map", 1, << >>),
              F("list", 1, <<F("int", 0, <<0, 0, 1, 44>>), F("int", 0, <<0, 1, 0, 0>>)>>),
              F("list", 1, <<F("int", 0, <<255, 255, 255, 251>>)>>),
              F("struct", 1, <<F("int", 1, <<0, 188, 97, 78>>), Str(2, 3),
                               F("blob", 3, <<7, 125>>)>>),
              F("struct", 1, <<F("map", 3, <<Str(0, 1), Str(1, 1)>>), F("long", 16, Num(8, 255, 255, 5))>>),
              F("struct", 1, <<F("struct", 2, <<Str(1, 2), F("blob", 3, <<7>>)>>),
                               F("int", 3, <<0, 0, 1, 44>>)>>)}

Middle == {<< >>, <<F("int", 3, <<0, 0, 1, 44>>)>>, <<F("map", 3, <<Str(0, 2), Str(1, 3)>>)>>}
Final == {Str(16, 3), Str(200, 3)}

\* All these and the members of the structs.
Top == Numbers \union Large \union Others \union Final
         \union UNION {ToSet(m) : m \in Middle}
MembersOf(S) == UNION {ToSet(f.val) : f \in {g \in S : g.kind = "struct"}}
All == Top \union MembersOf(Top) \union MembersOf(MembersOf(Top))
Flat(S) == {f \in S : f.kind # "struct"}
MCFields ==
    [d \in 0 .. 2 |-> CASE d = 0 -> Flat(All)
                         [] d = 1 -> {f \in All : f \notin Flat(All) => ToSet(f.val) \subseteq Flat(All)}
                         [] d = 2 -> All]

MCMessages == {<<f>> \o m \o <<l>> : f \in Numbers \union Large \union Others, m \in Middle, l \in Final}
=============================================================================
