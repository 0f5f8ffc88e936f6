--------------------------- MODULE PacketSyncProofs ---------------------------
(***************************************************************************)
(* Proofs about PacketSync, for every set of streams, every way to cut     *)
(* them into chunks and every size of the buffers: type correctness, that  *)
(* no buffer ever holds more than was allocated for it, that a frame under *)
(* way lies in the two buffers as it was received, that recvdata keeps the *)
(* promise of FrameStream, and that the messages of a peer arrive as they  *)
(* were sent.                                                              *)
(***************************************************************************)
EXTENDS PacketSync, SequenceTheorems, WellFoundedInduction, TLAPS

(***************************************************************************)
(* The strengthening.  While a frame is under way its HEAD byte and header *)
(* are in thread_readdata, what was collected of its data is no more than  *)
(* the data and the TAIL byte, and thread_packetdata has room for these.   *)
(***************************************************************************)
BodyHasFrame == control = "body" => parsetype = "PARSE_HEAD"

FrameFits ==
    parsetype = "PARSE_HEAD" =>
        /\ headpos + 1 + NET_PACKAGE_HEADLEN <= Len(readdata)
        /\ Len(packetdata) <= BodyLen
        /\ BodyLen <= packetcap

BInv ==
    /\ TypeOK
    /\ BufferBounds
    /\ BodyHasFrame
    /\ FrameFits
-----------------------------------------------------------------------------
(***************************************************************************)
(* The operators on sequences and bytes                                    *)
(***************************************************************************)
\* The type, length and elements of a part of a sequence.
LEMMA PartOfSeq ==
    ASSUME NEW S, NEW s \in Seq(S), NEW m \in Nat \ {0}, NEW n \in Nat, n <= Len(s)
    PROVE  /\ SubSeq(s, m, n) \in Seq(S)
           /\ Len(SubSeq(s, m, n)) = IF m <= n THEN n - m + 1 ELSE 0
           /\ \A i \in 1 .. n - m + 1 : SubSeq(s, m, n)[i] = s[m + i - 1]
<1>1. \A i \in m .. n : s[i] \in S
    BY ElementOfSeq
<1> QED
    BY <1>1, SubSeqProperties

\* From drops the bytes before a position.
LEMMA FromProperties ==
    ASSUME NEW S, NEW s \in Seq(S), NEW m \in Nat \ {0}
    PROVE  /\ From(s, m) \in Seq(S)
           /\ Len(From(s, m)) = IF m <= Len(s) THEN Len(s) - m + 1 ELSE 0
    BY PartOfSeq, LenProperties DEF From

\* A set of natural numbers that is not empty has a least element.
LEMMA LeastNat ==
    ASSUME NEW T, T \subseteq Nat, T # {}
    PROVE  \E x \in T : \A y \in T : x <= y
<1>1. \E x \in T : \A y \in T : <<y, x>> \notin OpToRel(<, Nat)
    BY WFMin, NatLessThanWellFounded, Zenon
<1>2. PICK x \in T : \A y \in T : <<y, x>> \notin OpToRel(<, Nat)
    BY <1>1
<1>3. \A y \in T : ~(y < x)
    BY <1>2 DEF OpToRel
<1> QED
    BY <1>3

\* Four bytes make a natural number.
LEMMA CharToInt32Type ==
    ASSUME NEW c, c[1] \in Nat, c[2] \in Nat, c[3] \in Nat, c[4] \in Nat
    PROVE  CharToInt32(c) \in Nat
<1> DEFINE a == c[1] * Radix + c[2]
           b == a * Radix + c[3]
<1>1. Radix \in Nat
    BY NetBaseAssumption
<1>2. a \in Nat
    BY <1>1
<1>3. b \in Nat
    BY <1>1, <1>2
<1>4. b * Radix + c[4] \in Nat
    BY <1>1, <1>3
<1> QED
    BY <1>4 DEF CharToInt32

\* Eight bytes make a packet header.
LEMMA CharToNetPacketType ==
    ASSUME NEW c \in Seq(Byte), Len(c) = NET_PACKAGE_HEADLEN
    PROVE  CharToNetPacket(c) \in Packet
<1>1. \A i \in 1 .. 8 : c[i] \in Byte
    BY ElementOfSeq DEF NET_PACKAGE_HEADLEN
<1>2. \A i \in 1 .. 4 : SubSeq(c, 5, 8)[i] = c[4 + i]
    BY PartOfSeq DEF NET_PACKAGE_HEADLEN
<1>3. \A i \in 1 .. 4 : SubSeq(c, 5, 8)[i] \in Nat
    BY <1>1, <1>2 DEF Byte
<1> DEFINE d == SubSeq(c, 5, 8)
<1>4. d[1] \in Nat /\ d[2] \in Nat /\ d[3] \in Nat /\ d[4] \in Nat
    BY <1>3
<1>5. CharToInt32(d) \in Nat
  <2> HIDE DEF d
  <2> QED
    BY <1>4, CharToInt32Type
<1> QED
    BY <1>1, <1>5 DEF CharToNetPacket, Packet, NET_PACKAGE_HEADLEN
-----------------------------------------------------------------------------
(***************************************************************************)
(* The helpers of recvdata                                                 *)
(***************************************************************************)
\* Filling thread_readdata takes no more than there is, and leaves it within its size.
LEMMA FilledProperties ==
    ASSUME TypeOK, BufferBounds
    PROVE  /\ Room \in Nat
           /\ iret + Room <= Len(chunk)
           /\ Filled \in Seq(Byte)
           /\ Len(Filled) = Len(readdata) + Room
           /\ Len(Filled) <= readcap
<1> USE DEF TypeOK, BufferBounds
<1>1. Room \in Nat /\ Room <= readcap - Len(readdata) /\ Room <= Len(chunk) - iret
    BY LenProperties DEF Room, Smaller
<1>2. /\ SubSeq(chunk, iret + 1, iret + Room) \in Seq(Byte)
      /\ Len(SubSeq(chunk, iret + 1, iret + Room)) = Room
    BY <1>1, PartOfSeq, LenProperties
<1>3. /\ Filled \in Seq(Byte)
      /\ Len(Filled) = Len(readdata) + Room
    BY <1>2, ConcatProperties DEF Filled
<1> QED
    BY <1>1, <1>3, LenProperties

\* memchr's answer is a position of thread_readdata.
LEMMA FirstHeadProperties ==
    ASSUME TypeOK, BufferBounds, HeadPositions # {}
    PROVE  /\ FirstHead \in HeadPositions
           /\ FirstHead \in Nat
           /\ FirstHead < Len(Filled)
           /\ BehindHead = Len(Filled) - FirstHead - 1
           /\ BehindHead \in Nat
<1>1. HeadPositions \subseteq Nat
    BY DEF HeadPositions
<1>2. FirstHead \in HeadPositions
    BY <1>1, LeastNat DEF FirstHead
<1> QED
    BY <1>2, FilledProperties, LenProperties DEF HeadPositions, BehindHead

\* A complete header is a packet.
LEMMA HeadBytesType ==
    ASSUME TypeOK, BufferBounds, HeadPositions # {}, BehindHead >= NET_PACKAGE_HEADLEN
    PROVE  CharToNetPacket(HeadBytes) \in Packet
<1> DEFINE m == FirstHead + 2
           n == FirstHead + 1 + NET_PACKAGE_HEADLEN
<1>1. /\ m \in Nat \ {0} /\ n \in Nat
      /\ m <= n /\ n - m + 1 = NET_PACKAGE_HEADLEN
      /\ Filled \in Seq(Byte) /\ n <= Len(Filled)
    BY FilledProperties, FirstHeadProperties, LenProperties, SMTT(20) DEF NET_PACKAGE_HEADLEN
<1>2. SubSeq(Filled, m, n) \in Seq(Byte) /\ Len(SubSeq(Filled, m, n)) = NET_PACKAGE_HEADLEN
  <2> HIDE DEF m, n
  <2> QED
    BY <1>1, PartOfSeq
<1>3. HeadBytes \in Seq(Byte) /\ Len(HeadBytes) = NET_PACKAGE_HEADLEN
    BY <1>2 DEF HeadBytes
<1> QED
    BY <1>3, CharToNetPacketType

\* The rest of the chunk.
LEMMA UnusedProperties ==
    ASSUME TypeOK
    PROVE  Unused \in Seq(Byte) /\ Len(Unused) = Len(chunk) - iret
<1>1. chunk \in Seq(Byte) /\ Len(chunk) \in Nat /\ iret \in 0 .. Len(chunk)
    BY LenProperties DEF TypeOK
<1>2. iret + 1 \in Nat \ {0}
    BY <1>1
<1>3. /\ From(chunk, iret + 1) \in Seq(Byte)
      /\ Len(From(chunk, iret + 1)) = IF iret + 1 <= Len(chunk) THEN Len(chunk) - (iret + 1) + 1 ELSE 0
    BY <1>1, <1>2, FromProperties
<1> QED
    BY <1>1, <1>3 DEF Unused

\* The bytes of a frame that is complete.
LEMMA CompletedProperties ==
    ASSUME BInv, control = "body", Len(packetdata) + Len(Unused) >= BodyLen
    PROVE  /\ BodyLen \in Nat
           /\ Missing \in Nat
           /\ iret + Missing <= Len(chunk)
           /\ Completed \in Seq(Byte)
           /\ Len(Completed) = BodyLen
<1>1. /\ BodyLen \in Nat /\ Len(packetdata) \in Nat /\ Len(chunk) \in Nat
      /\ packetdata \in Seq(Byte) /\ chunk \in Seq(Byte) /\ iret \in 0 .. Len(chunk)
    BY LenProperties DEF BInv, TypeOK, BodyLen, Packet
<1>2. Missing \in Nat /\ iret + Missing <= Len(chunk) /\ Len(packetdata) + Missing = BodyLen
    BY <1>1, UnusedProperties DEF Missing, BInv, BodyHasFrame, FrameFits
<1> DEFINE s == SubSeq(chunk, iret + 1, iret + Missing)
<1>3. s \in Seq(Byte) /\ Len(s) = Missing
    BY <1>1, <1>2, PartOfSeq
<1>4. packetdata \o s \in Seq(Byte) /\ Len(packetdata \o s) = Len(packetdata) + Len(s)
    BY <1>1, <1>3, ConcatProperties
<1> QED
    BY <1>1, <1>2, <1>3, <1>4 DEF Completed
-----------------------------------------------------------------------------
(***************************************************************************)
(* The steps                                                               *)
(***************************************************************************)
\* The initial states satisfy the invariant.
LEMMA BInit == Init => BInv
<1> SUFFICES ASSUME Init PROVE BInv
    OBVIOUS
<1> USE DEF Init
<1>1. NoPacket \in Packet
    BY NetBaseAssumption DEF NoPacket, Packet, Byte
<1>2. stream \in Seq(Byte) /\ Len(stream) \in Nat
    BY PacketSyncAssumption, LenProperties
<1>3. TypeOK
    BY <1>1, <1>2, PacketSyncAssumption, EmptySeq DEF TypeOK
<1>4. BufferBounds
    BY PacketSyncAssumption, EmptySeq DEF BufferBounds
<1>5. BodyHasFrame /\ FrameFits
    BY DEF BodyHasFrame, FrameFits
<1> QED
    BY <1>3, <1>4, <1>5 DEF BInv

\* A call of recvdata brings bytes of the stream.
LEMMA CallStep == ASSUME BInv, NEW k \in 1 .. Len(stream) - received, recvdata(k) PROVE BInv'
<1> USE DEF recvdata, buffers
<1>1. stream \in Seq(Byte) /\ Len(stream) \in Nat /\ received \in 0 .. Len(stream)
    BY PacketSyncAssumption, LenProperties DEF BInv, TypeOK
<1>2. chunk' \in Seq(Byte) /\ Len(chunk') \in Nat
  <2>1. received + 1 \in Nat \ {0} /\ received + k \in Nat /\ received + k <= Len(stream)
      BY <1>1
  <2> QED
      BY <1>1, <2>1, PartOfSeq, LenProperties
<1>3. TypeOK'
    BY <1>1, <1>2 DEF BInv, TypeOK
<1>4. BufferBounds' /\ BodyHasFrame' /\ FrameFits'
    BY DEF BInv, BufferBounds, BodyHasFrame, FrameFits, BodyLen
<1> QED
    BY <1>3, <1>4 DEF BInv

\* There is no HEAD byte: thread_readdata is emptied.
LEMMA NoHeadStep == ASSUME BInv, NoHead PROVE BInv'
<1>1. Room \in Nat /\ iret + Room <= Len(chunk) /\ iret' = iret + Room
    BY FilledProperties DEF BInv, NoHead, Searching
<1>2. readdata' \in Seq(Byte) /\ Len(readdata') = 0
    BY EmptySeq DEF NoHead
<1>3. TypeOK'
    BY <1>1, <1>2 DEF NoHead, Searching, BInv, TypeOK, io
<1>4. BufferBounds' /\ BodyHasFrame' /\ FrameFits'
    BY <1>2 DEF NoHead, Searching, BInv, TypeOK, BufferBounds, BodyHasFrame, FrameFits
<1> QED
    BY <1>3, <1>4 DEF BInv

\* What a pass leaves of the filled buffer fits it.
LEMMA FromFilled ==
    ASSUME BInv, HeadPositions # {}, NEW m \in Nat \ {0}
    PROVE  From(Filled, m) \in Seq(Byte) /\ Len(From(Filled, m)) <= readcap
<1>1. Filled \in Seq(Byte) /\ Len(Filled) \in Nat /\ Len(Filled) <= readcap /\ readcap \in Nat
    BY FilledProperties, LenProperties DEF BInv, TypeOK
<1>2. /\ From(Filled, m) \in Seq(Byte)
      /\ Len(From(Filled, m)) = IF m <= Len(Filled) THEN Len(Filled) - m + 1 ELSE 0
    BY <1>1, FromProperties
<1> QED
    BY <1>1, <1>2

\* The header is not complete: the bytes before HEAD are dropped.
LEMMA ShortHeaderStep == ASSUME BInv, ShortHeader PROVE BInv'
<1>1. Room \in Nat /\ iret + Room <= Len(chunk) /\ iret' = iret + Room
    BY FilledProperties DEF BInv, ShortHeader, Searching
<1>2. FirstHead \in Nat
    BY FirstHeadProperties DEF BInv, ShortHeader
<1>3. readdata' \in Seq(Byte) /\ Len(readdata') <= readcap
    BY <1>2, FromFilled DEF ShortHeader
<1>4. TypeOK'
    BY <1>1, <1>2, <1>3 DEF ShortHeader, Searching, BInv, TypeOK, io
<1>5. BufferBounds' /\ BodyHasFrame' /\ FrameFits'
    BY <1>3 DEF ShortHeader, Searching, BInv, BufferBounds, BodyHasFrame, FrameFits
<1> QED
    BY <1>4, <1>5 DEF BInv

\* The header does not match: the HEAD byte and what precedes it are dropped.
LEMMA BadHeaderStep == ASSUME BInv, BadHeader PROVE BInv'
<1>1. Room \in Nat /\ iret + Room <= Len(chunk) /\ iret' = iret + Room
    BY FilledProperties DEF BInv, BadHeader, HeaderComplete, Searching
<1>2. FirstHead \in Nat
    BY FirstHeadProperties DEF BInv, BadHeader, HeaderComplete
<1>3. readdata' \in Seq(Byte) /\ Len(readdata') <= readcap
    BY <1>2, FromFilled DEF BadHeader, HeaderComplete
<1>4. theNexPacket' \in Packet
    BY HeadBytesType DEF BInv, BadHeader, HeaderComplete
<1>5. TypeOK'
    BY <1>1, <1>2, <1>3, <1>4 DEF BadHeader, HeaderComplete, Searching, BInv, TypeOK, io
<1>6. BufferBounds' /\ BodyHasFrame' /\ FrameFits'
    BY <1>3 DEF BadHeader, HeaderComplete, Searching, BInv, BufferBounds, BodyHasFrame, FrameFits
<1> QED
    BY <1>5, <1>6 DEF BInv

\* The header matches: thread_packetdata gets room for the frame and what there is of it.
LEMMA GoodHeaderStep == ASSUME BInv, GoodHeader PROVE BInv'
<1> DEFINE body == theNexPacket'.datalen + 1
           m == FirstHead + NET_PACKAGE_HEADLEN + 2
           n == FirstHead + NET_PACKAGE_HEADLEN + 1
                    + Smaller(BehindHead - NET_PACKAGE_HEADLEN, body)
<1>1. /\ Room \in Nat /\ iret + Room <= Len(chunk) /\ iret' = iret + Room
      /\ Filled \in Seq(Byte) /\ Len(Filled) \in Nat /\ Len(Filled) <= readcap
    BY FilledProperties, LenProperties DEF BInv, GoodHeader, HeaderComplete, Searching
<1>2. /\ FirstHead \in Nat /\ BehindHead = Len(Filled) - FirstHead - 1
      /\ BehindHead >= NET_PACKAGE_HEADLEN
    BY FirstHeadProperties DEF BInv, GoodHeader, HeaderComplete
<1>3. theNexPacket' \in Packet /\ body \in Nat
    BY HeadBytesType DEF BInv, GoodHeader, HeaderComplete, Packet
<1>4. /\ m \in Nat \ {0} /\ n \in Nat /\ n <= Len(Filled)
      /\ (IF m <= n THEN n - m + 1 ELSE 0) <= body
    BY <1>1, <1>2, <1>3, SMTT(20) DEF NET_PACKAGE_HEADLEN, Smaller
<1>5. packetdata' = SubSeq(Filled, m, n)
    BY DEF GoodHeader
<1>6. packetdata' \in Seq(Byte) /\ Len(packetdata') <= body
  <2> HIDE DEF m, n, body
  <2> QED
      BY <1>1, <1>4, <1>5, PartOfSeq
<1>7. packetcap' \in Nat /\ body <= packetcap'
    BY <1>3 DEF GoodHeader, Larger, BInv, TypeOK
<1>8. headpos' + 1 + NET_PACKAGE_HEADLEN <= Len(readdata') /\ headpos' \in Nat
    BY <1>1, <1>2 DEF GoodHeader, HeaderComplete, NET_PACKAGE_HEADLEN
<1>9. TypeOK'
    BY <1>1, <1>3, <1>6, <1>7, <1>8 DEF GoodHeader, HeaderComplete, Searching, BInv, TypeOK, io
<1>10. Len(packetdata') \in Nat
    BY <1>6, LenProperties
<1>11. BufferBounds'
    BY <1>1, <1>3, <1>6, <1>7, <1>10 DEF GoodHeader, BufferBounds
<1>12. BodyHasFrame' /\ FrameFits'
    BY <1>6, <1>7, <1>8 DEF GoodHeader, BodyHasFrame, FrameFits, BodyLen
<1> QED
    BY <1>9, <1>11, <1>12 DEF BInv

\* The chunk ends inside the frame.
LEMMA NeedMoreStep == ASSUME BInv, NeedMore PROVE BInv'
<1>1. Unused \in Seq(Byte) /\ Len(Unused) \in Nat
    BY UnusedProperties, LenProperties DEF BInv
<1>2. packetdata \in Seq(Byte) /\ Len(packetdata) \in Nat /\ BodyLen \in Nat
    BY LenProperties DEF BInv, TypeOK, BodyLen, Packet
<1>3. packetdata' \in Seq(Byte) /\ Len(packetdata') = Len(packetdata) + Len(Unused)
    BY <1>1, <1>2, ConcatProperties DEF NeedMore
<1>4. parsetype = "PARSE_HEAD"
    BY DEF NeedMore, BInv, BodyHasFrame
<1>5. TypeOK'
    BY <1>3, EmptySeq DEF NeedMore, BInv, TypeOK, io
<1>6. Len(packetdata') <= BodyLen /\ BodyLen <= packetcap /\ packetcap \in Nat
    BY <1>1, <1>2, <1>3, <1>4 DEF NeedMore, BInv, FrameFits, TypeOK
<1>7. BufferBounds' /\ BodyHasFrame' /\ FrameFits'
    BY <1>1, <1>2, <1>3, <1>6 DEF NeedMore, BInv, BufferBounds, BodyHasFrame, FrameFits, BodyLen
<1> QED
    BY <1>5, <1>7 DEF BInv

\* What completing a frame does to the chunk and to thread_packetdata.
LEMMA CompletingProperties ==
    ASSUME BInv, Completing
    PROVE  /\ iret' \in 0 .. Len(chunk')
           /\ packetdata' \in Seq(Byte) /\ Len(packetdata') <= packetcap'
           /\ chunk' \in Seq(Byte) /\ packetcap' \in Nat
           /\ parsetype' = "PARSE_NOTHING" /\ control' = "loop"
<1>1. /\ BodyLen \in Nat /\ Missing \in Nat /\ iret + Missing <= Len(chunk)
      /\ Completed \in Seq(Byte) /\ Len(Completed) = BodyLen
    BY CompletedProperties DEF Completing
<1>2. BodyLen <= packetcap /\ iret \in 0 .. Len(chunk) /\ chunk \in Seq(Byte) /\ packetcap \in Nat
    BY DEF Completing, BInv, BodyHasFrame, FrameFits, TypeOK
<1> QED
    BY <1>1, <1>2, LenProperties DEF Completing

\* When thread_readdata has its type and fits its buffer after a frame is completed, the
\* invariant holds.
LEMMA CompletingStep ==
    ASSUME BInv, Completing,
           readdata' \in Seq(Byte), readcap' \in Nat, Len(readdata') <= readcap',
           delivered' \in Seq([packet : Packet, data : Seq(Byte)])
    PROVE  BInv'
<1>1. TypeOK'
    BY CompletingProperties DEF Completing, BInv, TypeOK, io
<1>2. BufferBounds' /\ BodyHasFrame' /\ FrameFits'
    BY CompletingProperties DEF BufferBounds, BodyHasFrame, FrameFits
<1> QED
    BY <1>1, <1>2 DEF BInv

\* Dropping bytes from the front of thread_readdata.
LEMMA FromReaddata ==
    ASSUME BInv, NEW m \in Nat \ {0}
    PROVE  From(readdata, m) \in Seq(Byte) /\ Len(From(readdata, m)) <= readcap
<1>1. readdata \in Seq(Byte) /\ Len(readdata) \in Nat /\ Len(readdata) <= readcap /\ readcap \in Nat
    BY LenProperties DEF BInv, TypeOK, BufferBounds
<1>2. /\ From(readdata, m) \in Seq(Byte)
      /\ Len(From(readdata, m)) = IF m <= Len(readdata) THEN Len(readdata) - m + 1 ELSE 0
    BY <1>1, FromProperties
<1> QED
    BY <1>1, <1>2

\* The tail is bad and the frame is still in thread_readdata.
LEMMA BadTailKeptStep == ASSUME BInv, BadTailKept PROVE BInv'
<1>1. headpos + 2 \in Nat \ {0}
    BY DEF BInv, TypeOK
<1>2. readdata' \in Seq(Byte) /\ Len(readdata') <= readcap
    BY <1>1, FromReaddata DEF BadTailKept
<1>3. readcap' = readcap /\ delivered' = delivered
    BY DEF BadTailKept
<1>4. readcap \in Nat /\ delivered \in Seq([packet : Packet, data : Seq(Byte)])
    BY DEF BInv, TypeOK
<1> QED
    BY <1>2, <1>3, <1>4, CompletingStep DEF BadTailKept

\* The tail is bad and the frame is put together again in thread_readdata.
LEMMA BadTailRebuiltStep == ASSUME BInv, BadTailRebuilt PROVE BInv'
<1> DEFINE h == SubSeq(readdata, headpos + 2, headpos + 1 + NET_PACKAGE_HEADLEN)
<1>1. /\ readdata \in Seq(Byte) /\ Len(readdata) \in Nat /\ headpos \in Nat
      /\ headpos + 1 + NET_PACKAGE_HEADLEN <= Len(readdata)
      /\ readcap \in Nat
    BY LenProperties DEF BadTailRebuilt, Completing, BInv, BodyHasFrame, FrameFits, TypeOK
<1>2. h \in Seq(Byte) /\ Len(h) = NET_PACKAGE_HEADLEN
  <2> DEFINE m == headpos + 2
             n == headpos + 1 + NET_PACKAGE_HEADLEN
  <2>1. /\ m \in Nat \ {0} /\ n \in Nat /\ n <= Len(readdata)
        /\ m <= n /\ n - m + 1 = NET_PACKAGE_HEADLEN
      BY <1>1 DEF NET_PACKAGE_HEADLEN
  <2>2. SubSeq(readdata, m, n) \in Seq(Byte) /\ Len(SubSeq(readdata, m, n)) = NET_PACKAGE_HEADLEN
    <3> HIDE DEF m, n
    <3> QED
        BY <1>1, <2>1, PartOfSeq
  <2> QED
      BY <2>2
<1>3. Completed \in Seq(Byte) /\ Len(Completed) = BodyLen /\ BodyLen \in Nat
    BY CompletedProperties DEF BadTailRebuilt, Completing
<1>4. readdata' \in Seq(Byte) /\ Len(readdata') = NET_PACKAGE_HEADLEN + BodyLen
  <2> HIDE DEF h
  <2>1. h \o Completed \in Seq(Byte) /\ Len(h \o Completed) = Len(h) + Len(Completed)
      BY <1>2, <1>3, ConcatProperties
  <2>2. readdata' = h \o Completed
      BY DEF BadTailRebuilt, h
  <2> QED
      BY <1>2, <1>3, <2>1, <2>2
<1>5. readcap' \in Nat /\ NET_PACKAGE_HEADLEN + BodyLen <= readcap'
    BY <1>1, <1>3 DEF BadTailRebuilt, Larger, NET_PACKAGE_HEADLEN
<1>6. delivered' \in Seq([packet : Packet, data : Seq(Byte)])
    BY DEF BadTailRebuilt, BInv, TypeOK
<1> QED
    BY <1>4, <1>5, <1>6, CompletingStep DEF BadTailRebuilt

\* The frame is complete and handed over.
LEMMA DeliverPacketStep == ASSUME BInv, DeliverPacket PROVE BInv'
<1>1. /\ Completed \in Seq(Byte) /\ Len(Completed) = theNexPacket.datalen + 1
      /\ theNexPacket \in Packet /\ theNexPacket.datalen \in Nat
    BY CompletedProperties DEF DeliverPacket, Completing, BodyLen, BInv, TypeOK, Packet
<1>2. SubSeq(Completed, 1, theNexPacket.datalen) \in Seq(Byte)
    BY <1>1, PartOfSeq
<1>3. delivered' \in Seq([packet : Packet, data : Seq(Byte)])
    BY <1>1, <1>2 DEF DeliverPacket, BInv, TypeOK
<1>4. readdata' \in Seq(Byte) /\ Len(readdata') <= readcap
  <2>1. CASE FrameInReadData
    <3>1. headpos \in Nat
        BY DEF BInv, TypeOK
    <3>2. headpos + NET_PACKAGE_HEADLEN + theNexPacket.datalen + 3 \in Nat \ {0}
        BY <1>1, <3>1 DEF NET_PACKAGE_HEADLEN
    <3> QED
        BY <2>1, <3>2, FromReaddata DEF DeliverPacket
  <2>2. CASE ~FrameInReadData
      BY <2>2, EmptySeq DEF DeliverPacket, BInv, TypeOK
  <2> QED
      BY <2>1, <2>2
<1>5. readcap' = readcap /\ readcap \in Nat
    BY DEF DeliverPacket, BInv, TypeOK
<1> QED
    BY <1>3, <1>4, <1>5, CompletingStep DEF DeliverPacket

\* Steps that change no buffer.
LEMMA OtherStep == ASSUME BInv, Return \/ ResumeFrame \/ UNCHANGED vars PROVE BInv'
<1>1. CASE Return
  <2>1. TypeOK'
      BY <1>1, EmptySeq DEF Return, BInv, TypeOK, io, buffers
  <2>2. BufferBounds' /\ BodyHasFrame' /\ FrameFits'
      BY <1>1 DEF Return, BInv, BufferBounds, BodyHasFrame, FrameFits, BodyLen, buffers
  <2> QED
      BY <2>1, <2>2 DEF BInv
<1>2. CASE ResumeFrame
  <2>1. TypeOK'
      BY <1>2 DEF ResumeFrame, BInv, TypeOK, io, buffers
  <2>2. BufferBounds' /\ BodyHasFrame' /\ FrameFits'
      BY <1>2 DEF ResumeFrame, BInv, BufferBounds, BodyHasFrame, FrameFits, BodyLen, buffers
  <2> QED
      BY <2>1, <2>2 DEF BInv
<1>3. CASE UNCHANGED vars
    BY <1>3 DEF vars, BInv, TypeOK, BufferBounds, BodyHasFrame, FrameFits, BodyLen
<1> QED
    BY <1>1, <1>2, <1>3

\* Every step keeps the invariant.
LEMMA BNext == BInv /\ [Next]_vars => BInv'
<1> SUFFICES ASSUME BInv, [Next]_vars PROVE BInv'
    OBVIOUS
<1>1. CASE \E k \in 1 .. Len(stream) - received : recvdata(k)
    BY <1>1, CallStep
<1>2. CASE NoHead
    BY <1>2, NoHeadStep
<1>3. CASE ShortHeader
    BY <1>3, ShortHeaderStep
<1>4. CASE BadHeader
    BY <1>4, BadHeaderStep
<1>5. CASE GoodHeader
    BY <1>5, GoodHeaderStep
<1>6. CASE NeedMore
    BY <1>6, NeedMoreStep
<1>7. CASE BadTailKept
    BY <1>7, BadTailKeptStep
<1>8. CASE BadTailRebuilt
    BY <1>8, BadTailRebuiltStep
<1>9. CASE DeliverPacket
    BY <1>9, DeliverPacketStep
<1>10. CASE Return \/ ResumeFrame \/ UNCHANGED vars
    BY <1>10, OtherStep
<1> QED
    BY <1>1, <1>2, <1>3, <1>4, <1>5, <1>6, <1>7, <1>8, <1>9, <1>10
    DEF Next, LoopStep, Finished

LEMMA BInvariant == Spec => []BInv
    BY BInit, BNext, PTL DEF Spec
-----------------------------------------------------------------------------
\* Every variable of recvdata keeps its type, for every stream a peer may send.
THEOREM ParserTypes == Spec => []TypeOK
<1>1. BInv => TypeOK
    BY DEF BInv
<1> QED
    BY <1>1, BInvariant, PTL

\* No memcpy of recvdata writes behind its buffer, however long the frames are, however
\* they are cut into chunks and whatever the initial size of the buffers is.
THEOREM BuffersBounded == Spec => []BufferBounds
<1>1. BInv => BufferBounds
    BY DEF BInv
<1> QED
    BY <1>1, BInvariant, PTL
-----------------------------------------------------------------------------
(***************************************************************************)
(* The frame under way.  As long as thread_packetdata misses a byte of the *)
(* frame, thread_readdata has none that was not copied to it: that is why  *)
(* what NeedMore adds from the chunk leaves no gap and no overlap.         *)
(***************************************************************************)
ReadDataUsed ==
    (parsetype = "PARSE_HEAD" /\ Len(packetdata) < BodyLen) =>
        Len(readdata) <= headpos + 1 + NET_PACKAGE_HEADLEN + Len(packetdata)

FInv ==
    /\ BInv
    /\ FrameUnderWay
    /\ ReadDataUsed

\* A header that matches starts a frame that satisfies it.
LEMMA FrameStarts == ASSUME BInv, GoodHeader PROVE FrameUnderWay' /\ ReadDataUsed'
<1> DEFINE body == theNexPacket'.datalen + 1
           m == FirstHead + NET_PACKAGE_HEADLEN + 2
           n == FirstHead + NET_PACKAGE_HEADLEN + 1
                    + Smaller(BehindHead - NET_PACKAGE_HEADLEN, body)
<1>1. /\ Filled \in Seq(Byte) /\ Len(Filled) \in Nat
      /\ FirstHead \in HeadPositions /\ FirstHead \in Nat
      /\ BehindHead = Len(Filled) - FirstHead - 1 /\ BehindHead >= NET_PACKAGE_HEADLEN
    BY FilledProperties, FirstHeadProperties, LenProperties
    DEF BInv, GoodHeader, HeaderComplete, Searching
<1>2. theNexPacket' = CharToNetPacket(HeadBytes) /\ body \in Nat
    BY HeadBytesType DEF BInv, GoodHeader, HeaderComplete, Packet
<1>3. headpos' = FirstHead /\ readdata' = Filled
    BY DEF GoodHeader, HeaderComplete
<1>4. readdata'[headpos' + 1] = HEAD
    BY <1>1, <1>3 DEF HeadPositions
<1>5. theNexPacket' = CharToNetPacket(SubSeq(readdata', headpos' + 2,
                                            headpos' + 1 + NET_PACKAGE_HEADLEN))
    BY <1>2, <1>3 DEF HeadBytes
<1>6. /\ m \in Nat \ {0} /\ n \in Nat /\ n <= Len(Filled)
      /\ (IF m <= n THEN n - m + 1 ELSE 0) = Smaller(BehindHead - NET_PACKAGE_HEADLEN, body)
      /\ n - m + 1 = Smaller(BehindHead - NET_PACKAGE_HEADLEN, body)
    BY <1>1, <1>2, SMTT(20) DEF NET_PACKAGE_HEADLEN, Smaller
<1>7. packetdata' = SubSeq(Filled, m, n)
    BY DEF GoodHeader
<1>8. /\ Len(packetdata') = Smaller(BehindHead - NET_PACKAGE_HEADLEN, body)
      /\ \A i \in 1 .. Len(packetdata') : packetdata'[i] = Filled[m + i - 1]
  <2> HIDE DEF m, n
  <2> QED
      BY <1>1, <1>6, <1>7, PartOfSeq
<1>9. \A i \in 1 .. Len(packetdata') :
          packetdata'[i] = readdata'[headpos' + 1 + NET_PACKAGE_HEADLEN + i]
  <2> SUFFICES ASSUME NEW i \in 1 .. Len(packetdata')
               PROVE  packetdata'[i] = readdata'[headpos' + 1 + NET_PACKAGE_HEADLEN + i]
      OBVIOUS
  <2>1. m + i - 1 = headpos' + 1 + NET_PACKAGE_HEADLEN + i
      BY <1>1, <1>2, <1>3, <1>8 DEF NET_PACKAGE_HEADLEN, Smaller
  <2> QED
      BY <1>3, <1>8, <2>1
<1>10. /\ headpos' + 1 + NET_PACKAGE_HEADLEN <= Len(readdata')
       /\ Len(packetdata') <= BodyLen'
       /\ Len(packetdata') < BodyLen' =>
              Len(readdata') <= headpos' + 1 + NET_PACKAGE_HEADLEN + Len(packetdata')
    BY <1>1, <1>2, <1>3, <1>8 DEF BodyLen, NET_PACKAGE_HEADLEN, Smaller
<1> QED
    BY <1>4, <1>5, <1>9, <1>10 DEF FrameUnderWay, ReadDataUsed

\* More bytes of the frame from the chunk continue it.
LEMMA FrameContinues == ASSUME FInv, NeedMore PROVE FrameUnderWay' /\ ReadDataUsed'
<1>1. /\ Unused \in Seq(Byte) /\ Len(Unused) \in Nat
      /\ packetdata \in Seq(Byte) /\ Len(packetdata) \in Nat /\ BodyLen \in Nat
      /\ readdata \in Seq(Byte) /\ Len(readdata) \in Nat /\ headpos \in Nat
    BY UnusedProperties, LenProperties DEF FInv, BInv, TypeOK, BodyLen, Packet
<1>2. parsetype = "PARSE_HEAD" /\ parsetype' = "PARSE_HEAD"
    BY DEF NeedMore, FInv, BInv, BodyHasFrame
<1>3. /\ packetdata' = packetdata \o Unused
      /\ readdata' = readdata /\ headpos' = headpos /\ theNexPacket' = theNexPacket
      /\ BodyLen' = BodyLen
    BY DEF NeedMore, BodyLen
<1>4. /\ Len(packetdata') = Len(packetdata) + Len(Unused)
      /\ \A i \in 1 .. Len(packetdata) : packetdata'[i] = packetdata[i]
    BY <1>1, <1>3, ConcatProperties
<1>5. Len(packetdata') < BodyLen /\ Len(packetdata) < BodyLen
    BY <1>1, <1>4 DEF NeedMore
<1>6. Len(readdata) <= headpos + 1 + NET_PACKAGE_HEADLEN + Len(packetdata)
    BY <1>2, <1>5 DEF FInv, ReadDataUsed
<1>7. \A i \in 1 .. Len(packetdata') :
          headpos + 1 + NET_PACKAGE_HEADLEN + i <= Len(readdata) =>
              packetdata'[i] = readdata[headpos + 1 + NET_PACKAGE_HEADLEN + i]
  <2> SUFFICES ASSUME NEW i \in 1 .. Len(packetdata'),
                      headpos + 1 + NET_PACKAGE_HEADLEN + i <= Len(readdata)
               PROVE  packetdata'[i] = readdata[headpos + 1 + NET_PACKAGE_HEADLEN + i]
      OBVIOUS
  <2>1. i \in 1 .. Len(packetdata)
      BY <1>1, <1>4, <1>6 DEF NET_PACKAGE_HEADLEN
  <2> QED
      BY <1>2, <1>4, <2>1 DEF FInv, FrameUnderWay
<1>8. ReadDataUsed'
    BY <1>1, <1>3, <1>4, <1>6 DEF ReadDataUsed, NET_PACKAGE_HEADLEN
<1> QED
    BY <1>1, <1>2, <1>3, <1>5, <1>7, <1>8 DEF FInv, FrameUnderWay

LEMMA FInit == Init => FInv
    BY BInit DEF Init, FInv, FrameUnderWay, ReadDataUsed

\* Every step keeps the frame under way as it should be.
LEMMA FNext == FInv /\ [Next]_vars => FInv'
<1> SUFFICES ASSUME FInv, [Next]_vars PROVE FInv'
    OBVIOUS
<1>1. BInv'
    BY BNext DEF FInv
<1>2. CASE GoodHeader
    BY <1>1, <1>2, FrameStarts DEF FInv
<1>3. CASE NeedMore
    BY <1>1, <1>3, FrameContinues DEF FInv
<1>4. CASE parsetype' = "PARSE_NOTHING"
    BY <1>1, <1>4 DEF FInv, FrameUnderWay, ReadDataUsed
<1>5. CASE UNCHANGED <<parsetype, readdata, packetdata, headpos, theNexPacket>>
    BY <1>1, <1>5 DEF FInv, FrameUnderWay, ReadDataUsed, BodyLen
<1>6. CASE \E k \in 1 .. Len(stream) - received : recvdata(k)
    BY <1>5, <1>6 DEF recvdata, buffers
<1>7. CASE NoHead \/ ShortHeader \/ BadHeader
    BY <1>4, <1>7 DEF NoHead, ShortHeader, BadHeader, HeaderComplete, Searching
<1>8. CASE BadTailKept \/ BadTailRebuilt \/ DeliverPacket
    BY <1>4, <1>8 DEF BadTailKept, BadTailRebuilt, DeliverPacket, Completing
<1>9. CASE Return \/ ResumeFrame
    BY <1>5, <1>9 DEF Return, ResumeFrame, buffers
<1>10. CASE UNCHANGED vars
    BY <1>5, <1>10 DEF vars
<1> QED
    BY <1>2, <1>3, <1>6, <1>7, <1>8, <1>9, <1>10 DEF Next, LoopStep, Finished

\* While a frame is under way, its header is theNexPacket and still lies in
\* thread_readdata, and thread_packetdata continues it without gap or overlap: what
\* BadTailRebuilt puts back is what was received.
THEOREM FrameKept == Spec => []FrameUnderWay
<1>1. Spec => []FInv
    BY FInit, FNext, PTL DEF Spec
<1>2. FInv => FrameUnderWay
    BY DEF FInv
<1> QED
    BY <1>1, <1>2, PTL
-----------------------------------------------------------------------------
(***************************************************************************)
(* recvdata as FrameStream promises it                                     *)
(***************************************************************************)

(***************************************************************************)
(* The ends of sequences                                                   *)
(***************************************************************************)
LEMMA FromParts ==
    ASSUME NEW S, NEW s \in Seq(S), NEW m \in 1 .. Len(s) + 1
    PROVE  /\ From(s, m) \in Seq(S)
           /\ Len(From(s, m)) = Len(s) - m + 1
           /\ \A i \in 1 .. Len(s) - m + 1 : From(s, m)[i] = s[m + i - 1]
<1>1. Len(s) \in Nat /\ m \in Nat \ {0} /\ (m <= Len(s) \/ m = Len(s) + 1)
    BY LenProperties
<1> QED
    BY <1>1, PartOfSeq DEF From

LEMMA FromConcat ==
    ASSUME NEW S, NEW a \in Seq(S), NEW b \in Seq(S), NEW m \in 1 .. Len(a) + 1
    PROVE  From(a \o b, m) = From(a, m) \o b
<1> DEFINE ab == a \o b
           f == From(a, m)
<1>1. /\ ab \in Seq(S) /\ Len(ab) = Len(a) + Len(b)
      /\ \A i \in 1 .. Len(a) + Len(b) : ab[i] = IF i <= Len(a) THEN a[i] ELSE b[i - Len(a)]
      /\ Len(a) \in Nat /\ Len(b) \in Nat
    BY ConcatProperties, LenProperties
<1>2. /\ f \in Seq(S) /\ Len(f) = Len(a) - m + 1
      /\ \A i \in 1 .. Len(a) - m + 1 : f[i] = a[m + i - 1]
    BY FromParts
<1> HIDE DEF ab, f
<1>3. m \in 1 .. Len(ab) + 1
    BY <1>1
<1>4. /\ From(ab, m) \in Seq(S) /\ Len(From(ab, m)) = Len(ab) - m + 1
      /\ \A i \in 1 .. Len(ab) - m + 1 : From(ab, m)[i] = ab[m + i - 1]
    BY <1>1, <1>3, FromParts
<1>5. /\ f \o b \in Seq(S) /\ Len(f \o b) = Len(f) + Len(b)
      /\ \A i \in 1 .. Len(f) + Len(b) : (f \o b)[i] = IF i <= Len(f) THEN f[i] ELSE b[i - Len(f)]
  <2>1. f \in Seq(S) /\ b \in Seq(S)
      BY <1>2
  <2> QED
      BY ONLY <2>1, ConcatProperties
<1> DEFINE g == From(ab, m)
           h == f \o b
<1> HIDE DEF g, h
<1>6. /\ g \in Seq(S) /\ Len(g) = Len(ab) - m + 1
      /\ h \in Seq(S) /\ Len(h) = Len(f) + Len(b)
    BY <1>4, <1>5 DEF g, h
<1>7. \A i \in 1 .. Len(g) : g[i] = h[i]
  <2> SUFFICES ASSUME NEW i \in 1 .. Len(g) PROVE g[i] = h[i]
      OBVIOUS
  <2>1. /\ i \in 1 .. Len(ab) - m + 1 /\ i \in 1 .. Len(f) + Len(b) /\ m + i - 1 \in 1 .. Len(a) + Len(b)
        /\ i - Len(f) = m + i - 1 - Len(a) /\ (m + i - 1 <= Len(a) <=> i <= Len(f))
    <3>1. /\ Len(a) \in Nat /\ Len(b) \in Nat /\ m \in 1 .. Len(a) + 1
          /\ Len(f) = Len(a) - m + 1 /\ Len(ab) = Len(a) + Len(b)
          /\ i \in 1 .. Len(ab) - m + 1
        BY <1>1, <1>2, <1>6
    <3> QED
        BY ONLY <3>1
  <2>2. g[i] = ab[m + i - 1]
      BY <1>4, <2>1 DEF g
  <2>3. h[i] = IF i <= Len(f) THEN f[i] ELSE b[i - Len(f)]
      BY <1>5, <2>1 DEF h
  <2>4. i <= Len(f) => f[i] = a[m + i - 1]
      BY <1>1, <1>2
  <2>5. ab[m + i - 1] = IF m + i - 1 <= Len(a) THEN a[m + i - 1] ELSE b[m + i - 1 - Len(a)]
      BY <1>1, <2>1, SMTT(20)
  <2>6. b[i - Len(f)] = b[m + i - 1 - Len(a)]
      BY <2>1
  <2> QED
      BY <2>1, <2>2, <2>3, <2>4, <2>5, <2>6
<1>8. Len(g) = Len(h)
    BY <1>1, <1>2, <1>6
<1>9. g = h
    BY <1>6, <1>7, <1>8, SeqEqual
<1> QED
    BY <1>9 DEF g, h, f, ab

LEMMA FromJoin ==
    ASSUME NEW S, NEW s \in Seq(S), NEW m \in 1 .. Len(s) + 1, NEW k \in m - 1 .. Len(s)
    PROVE  SubSeq(s, m, k) \o From(s, k + 1) = From(s, m)
<1>1. Len(s) \in Nat /\ Len(s) \in k .. Len(s)
    BY LenProperties
<1> QED
    BY <1>1, ConcatAdjacentSubSeq DEF From

LEMMA FromPastEnd ==
    ASSUME NEW S, NEW s \in Seq(S), NEW m \in Nat, m > Len(s)
    PROVE  From(s, m) = << >>
<1>1. Len(s) \in Nat
    BY LenProperties
<1> QED
    BY <1>1, SubSeqEmpty DEF From

LEMMA FromEmpty == From(<< >>, 1) = << >>
<1>1. << >> \in Seq(Byte) /\ 1 \in Nat /\ 1 > Len(<< >>)
    BY EmptySeq
<1> QED
    BY <1>1, FromPastEnd

LEMMA FromFrom ==
    ASSUME NEW S, NEW s \in Seq(S), NEW m \in 1 .. Len(s) + 1, NEW n \in 1 .. Len(s) - m + 2
    PROVE  From(From(s, m), n) = From(s, m + n - 1)
<1> DEFINE t == From(s, m)
           k == m + n - 1
<1>1. /\ t \in Seq(S) /\ Len(t) = Len(s) - m + 1 /\ Len(s) \in Nat
      /\ \A i \in 1 .. Len(s) - m + 1 : t[i] = s[m + i - 1]
    BY FromParts, LenProperties
<1> HIDE DEF t
<1>2. n \in 1 .. Len(t) + 1 /\ k \in 1 .. Len(s) + 1
    BY <1>1
<1>3. /\ From(t, n) \in Seq(S) /\ Len(From(t, n)) = Len(t) - n + 1
      /\ \A i \in 1 .. Len(t) - n + 1 : From(t, n)[i] = t[n + i - 1]
    BY <1>1, <1>2, FromParts
<1>4. k = m + n - 1
    OBVIOUS
<1> HIDE DEF k
<1>5. /\ From(s, k) \in Seq(S) /\ Len(From(s, k)) = Len(s) - k + 1
      /\ \A i \in 1 .. Len(s) - k + 1 : From(s, k)[i] = s[k + i - 1]
    BY <1>2, FromParts
<1>6. \A i \in 1 .. Len(s) - k + 1 : From(t, n)[i] = From(s, k)[i]
  <2> SUFFICES ASSUME NEW i \in 1 .. Len(s) - k + 1 PROVE From(t, n)[i] = From(s, k)[i]
      OBVIOUS
  <2>1. /\ i \in 1 .. Len(t) - n + 1 /\ n + i - 1 \in 1 .. Len(s) - m + 1
        /\ m + (n + i - 1) - 1 = k + i - 1
      BY <1>1, <1>4
  <2>2. t[n + i - 1] = s[m + (n + i - 1) - 1]
      BY <1>1, <2>1
  <2> QED
      BY <1>3, <1>5, <2>1, <2>2
<1> DEFINE g == From(t, n)
           h == From(s, k)
<1>7. /\ g \in Seq(S) /\ h \in Seq(S) /\ Len(g) = Len(h)
      /\ \A i \in 1 .. Len(g) : g[i] = h[i]
  <2>1. Len(t) - n + 1 = Len(s) - k + 1
      BY <1>1, <1>4
  <2>2. g \in Seq(S) /\ Len(g) = Len(s) - k + 1
      BY <1>3, <2>1
  <2>3. h \in Seq(S) /\ Len(h) = Len(s) - k + 1
      BY <1>5
  <2>4. \A i \in 1 .. Len(s) - k + 1 : g[i] = h[i]
      BY <1>6
  <2> HIDE DEF g, h
  <2> QED
      BY <2>2, <2>3, <2>4
<1> HIDE DEF g, h
<1>8. g = h
    BY <1>7, SeqEqual
<1> QED
    BY <1>8 DEF g, h, t, k

LEMMA PartOfFrom ==
    ASSUME NEW S, NEW s \in Seq(S), NEW m \in 1 .. Len(s) + 1,
           NEW i \in Nat \ {0}, NEW j \in Nat, m + j - 1 <= Len(s)
    PROVE  SubSeq(From(s, m), i, j) = SubSeq(s, m + i - 1, m + j - 1)
<1>1. /\ From(s, m) \in Seq(S) /\ Len(From(s, m)) = Len(s) - m + 1 /\ Len(s) \in Nat
      /\ \A k \in 1 .. Len(s) - m + 1 : From(s, m)[k] = s[m + k - 1]
    BY FromParts, LenProperties
<1> DEFINE a == SubSeq(From(s, m), i, j)
           b == SubSeq(s, m + i - 1, m + j - 1)
<1>2. /\ a \in Seq(S) /\ Len(a) = IF i <= j THEN j - i + 1 ELSE 0
      /\ \A k \in 1 .. j - i + 1 : a[k] = From(s, m)[i + k - 1]
  <2>1. j <= Len(From(s, m))
      BY <1>1
  <2> QED
      BY <1>1, <2>1, PartOfSeq
<1>3. /\ b \in Seq(S) /\ Len(b) = IF i <= j THEN j - i + 1 ELSE 0
      /\ \A k \in 1 .. j - i + 1 : b[k] = s[m + i - 1 + k - 1]
  <2>1. m + i - 1 \in Nat \ {0} /\ m + j - 1 \in Nat
        /\ (m + i - 1 <= m + j - 1 <=> i <= j) /\ m + j - 1 - (m + i - 1) + 1 = j - i + 1
      BY <1>1
  <2> QED
      BY <2>1, PartOfSeq
<1>4. \A k \in 1 .. j - i + 1 : a[k] = b[k]
  <2> SUFFICES ASSUME NEW k \in 1 .. j - i + 1 PROVE a[k] = b[k]
      OBVIOUS
  <2>1. i + k - 1 \in 1 .. Len(s) - m + 1 /\ m + (i + k - 1) - 1 = m + i - 1 + k - 1
      BY <1>1
  <2> QED
      BY <1>1, <1>2, <1>3, <2>1
<1>5. \A k \in 1 .. Len(a) : a[k] = b[k]
    BY <1>2, <1>4
<1> HIDE DEF a, b
<1>6. a = b
    BY <1>2, <1>3, <1>5, SeqEqual
<1> QED
    BY <1>6 DEF a, b

LEMMA PartOfConcat ==
    ASSUME NEW S, NEW a \in Seq(S), NEW b \in Seq(S), NEW i \in Nat \ {0}, NEW j \in 0 .. Len(a)
    PROVE  SubSeq(a \o b, i, j) = SubSeq(a, i, j)
<1>1. Len(a) \in Nat
    BY LenProperties
<1>2. CASE i <= j
    BY <1>1, <1>2, SubSeqOfConcat1
<1>3. CASE i > j
    BY <1>1, <1>3, SubSeqEmpty
<1> QED
    BY <1>1, <1>2, <1>3
-----------------------------------------------------------------------------
(***************************************************************************)
(* The invariant adds that no chunk is kept when a call has returned, that *)
(* a call which finds a frame under way has bytes to go on with, and that  *)
(* the header of a frame under way matched.                                *)
(***************************************************************************)
CallHasChunk ==
    /\ control = "idle" => chunk = << >> /\ iret = 0
    /\ (control = "loop" /\ parsetype = "PARSE_HEAD") => iret < Len(chunk)

HeaderMatched ==
    parsetype = "PARSE_HEAD" => theNexPacket.header = HEAD /\ theNexPacket.tail = TAIL

SInv == FInv /\ CallHasChunk /\ HeaderMatched

LEMMA SInit == Init => SInv
    BY FInit DEF Init, SInv, CallHasChunk, HeaderMatched

LEMMA HeaderStaysMatched == ASSUME SInv, [Next]_vars PROVE HeaderMatched'
<1>1. CASE GoodHeader
    BY <1>1 DEF GoodHeader, HeaderMatched
<1>2. CASE parsetype' = "PARSE_NOTHING"
    BY <1>2 DEF HeaderMatched
<1>3. CASE UNCHANGED <<parsetype, theNexPacket>>
    BY <1>3 DEF SInv, HeaderMatched
<1>4. CASE \E k \in 1 .. Len(stream) - received : recvdata(k)
    BY <1>3, <1>4 DEF recvdata
<1>5. CASE NoHead \/ ShortHeader \/ BadHeader
    BY <1>2, <1>5 DEF NoHead, ShortHeader, BadHeader, HeaderComplete, Searching
<1>6. CASE BadTailKept \/ BadTailRebuilt \/ DeliverPacket
    BY <1>2, <1>6 DEF BadTailKept, BadTailRebuilt, DeliverPacket, Completing
<1>7. CASE Return \/ ResumeFrame \/ NeedMore
    BY <1>3, <1>7 DEF Return, ResumeFrame, NeedMore
<1>8. CASE UNCHANGED vars
    BY <1>3, <1>8 DEF vars
<1> QED
    BY <1>1, <1>4, <1>5, <1>6, <1>7, <1>8 DEF Next, LoopStep, Finished

LEMMA CallKeepsChunk == ASSUME SInv, [Next]_vars PROVE CallHasChunk'
<1>2. CASE \E k \in 1 .. Len(stream) - received : recvdata(k)
  <2>1. PICK k \in 1 .. Len(stream) - received : recvdata(k)
      BY <1>2
  <2>2. /\ stream \in Seq(Byte) /\ Len(stream) \in Nat /\ received \in 0 .. Len(stream)
        /\ received + 1 \in Nat \ {0} /\ received + k \in Nat /\ received + k <= Len(stream)
      BY PacketSyncAssumption, LenProperties DEF SInv, FInv, BInv, TypeOK
  <2>3. Len(chunk') = k
    <3>1. Len(SubSeq(stream, received + 1, received + k))
             = IF received + 1 <= received + k THEN (received + k) - (received + 1) + 1 ELSE 0
        BY <2>2, PartOfSeq
    <3> QED
        BY <2>1, <2>2, <3>1 DEF recvdata
  <2>4. control' = "loop" /\ iret' = 0 /\ k \in Nat /\ 0 < k
      BY <2>1 DEF recvdata
  <2> QED
      BY <2>3, <2>4 DEF CallHasChunk
<1>3. CASE NoHead \/ ShortHeader \/ BadHeader \/ GoodHeader
    BY <1>3 DEF NoHead, ShortHeader, BadHeader, GoodHeader, HeaderComplete, Searching,
       CallHasChunk
<1>4. CASE BadTailKept \/ BadTailRebuilt \/ DeliverPacket
    BY <1>4 DEF BadTailKept, BadTailRebuilt, DeliverPacket, Completing, CallHasChunk
<1>5. CASE Return \/ ResumeFrame \/ NeedMore
    BY <1>5 DEF Return, ResumeFrame, NeedMore, CallHasChunk
<1>6. CASE UNCHANGED vars
    BY <1>6 DEF vars, SInv, CallHasChunk
<1> QED
    BY <1>2, <1>3, <1>4, <1>5, <1>6 DEF Next, LoopStep, Finished

LEMMA SNext == SInv /\ [Next]_vars => SInv'
    BY FNext, HeaderStaysMatched, CallKeepsChunk DEF SInv

LEMMA SInvariant == Spec => []SInv
    BY SInit, SNext, PTL DEF Spec
-----------------------------------------------------------------------------
(***************************************************************************)
(* The abstract specification's operators, and its steps                   *)
(***************************************************************************)
LEMMA FSOps ==
    /\ \A s, i : FS!From(s, i) = From(s, i)
    /\ \A s : FS!FrontPacket(s) = CharToNetPacket(SubSeq(s, 2, NET_PACKAGE_HEADLEN + 1))
    /\ \A s : FS!HeaderArrived(s) <=> Len(s) >= NET_PACKAGE_HEADLEN + 1
    /\ \A p : FS!FrameLen(p) = NET_PACKAGE_HEADLEN + p.datalen + 2
    BY DEF FS!From, From, FS!FrontPacket, FS!CharToNetPacket, CharToNetPacket, FS!CharToInt32, CharToInt32,
       FS!HeaderArrived, FS!FrameLen, FS!NET_PACKAGE_HEADLEN, NET_PACKAGE_HEADLEN

\* Bytes without a HEAD among them can be dropped.
LEMMA NoHeadNoFrame ==
    ASSUME NEW p \in Seq(Byte), NEW i \in 1 .. Len(p), p[i] # HEAD
    PROVE  FS!NotAFrame(FS!From(p, i))
<1>1. From(p, i)[1] = p[i]
  <2>1. i \in 1 .. Len(p) + 1 /\ 1 \in 1 .. Len(p) - i + 1 /\ i + 1 - 1 = i
      BY LenProperties
  <2>2. From(p, i)[1] = p[i + 1 - 1]
      BY <2>1, FromParts
  <2> QED
      BY <2>1, <2>2
<1> QED
    BY <1>1, FSOps DEF FS!NotAFrame

\* Dropping k such bytes, or none.
LEMMA DropStep ==
    ASSUME Pending \in Seq(Byte), NEW k \in 0 .. Len(Pending), Pending' = From(Pending, k + 1),
           \A i \in 1 .. k : FS!NotAFrame(FS!From(Pending, i)),
           delivered' = delivered
    PROVE  [FS!Discard]_FS!fsVars
<1>1. CASE k = 0
  <2>1. From(Pending, 1) = Pending
      BY SubSeqFull DEF From
  <2>2. Pending' = Pending
      BY <1>1, <2>1
  <2> QED
      BY <2>2 DEF FS!fsVars
<1>2. CASE k # 0
  <2>1. k \in 1 .. Len(Pending) /\ Pending' = FS!From(Pending, k + 1)
      BY <1>2, FSOps, LenProperties
  <2>2. FS!Discard
      BY <2>1 DEF FS!Discard
  <2> QED
      BY <2>2
<1> QED
    BY <1>1, <1>2
-----------------------------------------------------------------------------
(***************************************************************************)
(* Looking for a header                                                    *)
(***************************************************************************)
\* A pass moves bytes from the chunk to thread_readdata and keeps their order.
LEMMA SearchPending ==
    ASSUME SInv, Searching
    PROVE  /\ Pending = Filled \o From(chunk, iret + Room + 1)
           /\ Filled \in Seq(Byte) /\ Len(Filled) \in Nat
           /\ From(chunk, iret + Room + 1) \in Seq(Byte)
           /\ Pending \in Seq(Byte) /\ Len(Pending) \in Nat /\ Len(Pending) >= Len(Filled)
<1> DEFINE s == SubSeq(chunk, iret + 1, iret + Room)
           r == From(chunk, iret + Room + 1)
<1>1. /\ TypeOK /\ BufferBounds /\ chunk \in Seq(Byte) /\ Len(chunk) \in Nat
      /\ iret \in 0 .. Len(chunk) /\ readdata \in Seq(Byte)
    BY LenProperties DEF SInv, FInv, BInv, TypeOK
<1>2. Room \in Nat /\ iret + Room <= Len(chunk) /\ Filled \in Seq(Byte) /\ Len(Filled) \in Nat
    BY <1>1, FilledProperties, LenProperties
<1>3. /\ iret + 1 \in 1 .. Len(chunk) + 1 /\ iret + Room \in (iret + 1) - 1 .. Len(chunk)
      /\ iret + Room + 1 \in Nat \ {0}
    BY <1>1, <1>2
<1>4. s \o r = Unused
    BY <1>1, <1>3, FromJoin DEF Unused
<1>5. s \in Seq(Byte)
    BY <1>1, <1>2, PartOfSeq
<1>6. r \in Seq(Byte)
    BY <1>1, <1>3, FromProperties
<1>7. Filled = readdata \o s
    BY DEF Filled
<1>8. Pending = readdata \o Unused
    BY DEF Pending, Searching
<1> HIDE DEF s, r
<1>9. (readdata \o s) \o r = readdata \o (s \o r)
    BY <1>1, <1>5, <1>6, ConcatAssociative, SMTT(20)
<1>10. Pending = Filled \o r
    BY <1>4, <1>7, <1>8, <1>9
<1>11. Filled \o r \in Seq(Byte) /\ Len(Filled \o r) = Len(Filled) + Len(r) /\ Len(r) \in Nat
    BY <1>2, <1>6, ConcatProperties, LenProperties
<1> QED
    BY <1>2, <1>6, <1>10, <1>11 DEF r

\* memchr finds the first HEAD.
LEMMA NoneBeforeFirstHead ==
    ASSUME HeadPositions # {}
    PROVE  \A i \in HeadPositions : FirstHead <= i
<1>1. HeadPositions \subseteq Nat
    BY DEF HeadPositions
<1> QED
    BY <1>1, LeastNat DEF FirstHead

\* No byte before it can start a frame.
LEMMA BeforeFirstHead ==
    ASSUME SInv, Searching, HeadPositions # {}
    PROVE  \A i \in 1 .. FirstHead : FS!NotAFrame(FS!From(Pending, i))
<1> SUFFICES ASSUME NEW i \in 1 .. FirstHead
             PROVE  FS!NotAFrame(FS!From(Pending, i))
    OBVIOUS
<1>1. FirstHead \in Nat /\ FirstHead < Len(Filled)
    BY FirstHeadProperties DEF SInv, FInv, BInv
<1> DEFINE r == From(chunk, iret + Room + 1)
<1>2. /\ Pending = Filled \o r /\ Filled \in Seq(Byte) /\ Len(Filled) \in Nat /\ r \in Seq(Byte)
      /\ Pending \in Seq(Byte) /\ Len(Pending) \in Nat /\ Len(Pending) >= Len(Filled)
    BY SearchPending
<1>3. i - 1 \in 0 .. Len(Filled) - 1 /\ i - 1 < FirstHead /\ i - 1 + 1 = i /\ i - 1 \in Nat
    BY <1>1, <1>2
<1>4. i - 1 \notin HeadPositions
    BY <1>1, <1>3, NoneBeforeFirstHead
<1>5. Filled[i] # HEAD
    BY <1>3, <1>4 DEF HeadPositions
<1> HIDE DEF r
<1>6. Pending[i] = Filled[i]
  <2>1. i \in 1 .. Len(Filled) + Len(r) /\ i <= Len(Filled)
      BY <1>1, <1>2, LenProperties
  <2> QED
      BY <1>2, <2>1, ConcatProperties
<1>7. i \in 1 .. Len(Pending)
    BY <1>1, <1>2
<1> QED
    BY <1>2, <1>5, <1>6, <1>7, NoHeadNoFrame

\* After a pass that leaves the parser looking for a header.
LEMMA SearchedPending ==
    ASSUME SInv, Searching, chunk' = chunk, parsetype' = "PARSE_NOTHING",
           NEW m \in 1 .. Len(Filled) + 1, readdata' = From(Filled, m)
    PROVE  Pending' = From(Pending, m)
<1> DEFINE r == From(chunk, iret + Room + 1)
<1>1. Pending = Filled \o r /\ Filled \in Seq(Byte) /\ r \in Seq(Byte)
    BY SearchPending
<1>2. Unused' = r
  <2>1. iret' + 1 = iret + Room + 1
      BY DEF Searching
  <2> QED
      BY <2>1 DEF Unused, From
<1>3. Pending' = readdata' \o Unused'
    BY DEF Pending
<1> HIDE DEF r
<1>4. From(Filled \o r, m) = From(Filled, m) \o r
    BY <1>1, FromConcat
<1> QED
    BY <1>1, <1>2, <1>3, <1>4

LEMMA NoHeadDrops == ASSUME SInv, NoHead PROVE [FS!Discard]_FS!fsVars
<1> DEFINE k == Len(Filled)
<1>1. /\ Pending \in Seq(Byte) /\ Filled \in Seq(Byte) /\ k \in Nat /\ k \in 0 .. Len(Pending)
      /\ k + 1 \in 1 .. k + 1 /\ k + 1 \in Nat /\ k + 1 > k
    BY SearchPending DEF NoHead
<1>2. readdata' = From(Filled, k + 1)
    BY <1>1, FromPastEnd DEF NoHead
<1>3. Pending' = From(Pending, k + 1)
    BY <1>1, <1>2, SearchedPending DEF NoHead, Searching
<1>4. \A i \in 1 .. k : FS!NotAFrame(FS!From(Pending, i))
  <2> SUFFICES ASSUME NEW i \in 1 .. k PROVE FS!NotAFrame(FS!From(Pending, i))
      OBVIOUS
  <2> DEFINE r == From(chunk, iret + Room + 1)
  <2>1. Pending = Filled \o r /\ r \in Seq(Byte)
      BY SearchPending DEF NoHead
  <2>2. i - 1 \in 0 .. k - 1 /\ i - 1 + 1 = i
      BY <1>1
  <2>3. Filled[i] # HEAD
      BY <2>2 DEF NoHead, HeadPositions
  <2> HIDE DEF r
  <2>4. i \in 1 .. Len(Filled) + Len(r) /\ i <= Len(Filled)
      BY <1>1, <2>1, LenProperties
  <2>5. Pending[i] = Filled[i]
      BY <1>1, <2>1, <2>4, ConcatProperties
  <2>6. i \in 1 .. Len(Pending)
      BY <1>1, LenProperties
  <2> QED
      BY <1>1, <2>3, <2>5, <2>6, NoHeadNoFrame
<1>5. delivered' = delivered
    BY DEF NoHead
<1> HIDE DEF k
<1> QED
    BY <1>1, <1>3, <1>4, <1>5, DropStep

LEMMA ShortHeaderDrops == ASSUME SInv, ShortHeader PROVE [FS!Discard]_FS!fsVars
<1>1. /\ FirstHead \in Nat /\ FirstHead < Len(Filled) /\ Len(Filled) \in Nat
      /\ Pending \in Seq(Byte) /\ Len(Pending) \in Nat /\ Len(Pending) >= Len(Filled)
    BY FirstHeadProperties, SearchPending DEF SInv, FInv, BInv, ShortHeader
<1>2. FirstHead + 1 \in 1 .. Len(Filled) + 1 /\ FirstHead \in 0 .. Len(Pending)
    BY <1>1
<1>3. Pending' = From(Pending, FirstHead + 1)
    BY <1>2, SearchedPending DEF ShortHeader, Searching
<1>4. delivered' = delivered
    BY DEF ShortHeader
<1>5. \A i \in 1 .. FirstHead : FS!NotAFrame(FS!From(Pending, i))
    BY BeforeFirstHead DEF ShortHeader
<1> QED
    BY <1>1, <1>2, <1>3, <1>4, <1>5, DropStep

LEMMA BadHeaderDrops == ASSUME SInv, BadHeader PROVE [FS!Discard]_FS!fsVars
<1> DEFINE p == From(Pending, FirstHead + 1)
           r == From(chunk, iret + Room + 1)
<1>0. Searching /\ HeadPositions # {} /\ BehindHead >= NET_PACKAGE_HEADLEN
    BY DEF BadHeader, HeaderComplete
<1>1. /\ FirstHead \in Nat /\ FirstHead < Len(Filled) /\ Len(Filled) \in Nat
      /\ BehindHead = Len(Filled) - FirstHead - 1
      /\ Pending \in Seq(Byte) /\ Len(Pending) \in Nat /\ Len(Pending) >= Len(Filled)
    BY <1>0, FirstHeadProperties, SearchPending DEF SInv, FInv, BInv
<1>2. /\ FirstHead + 2 \in 1 .. Len(Filled) + 1 /\ FirstHead + 1 \in 0 .. Len(Pending)
      /\ FirstHead + 1 \in 1 .. Len(Pending) + 1 /\ FirstHead + 1 + 1 = FirstHead + 2
    BY <1>1
<1>3. Pending' = From(Pending, FirstHead + 2)
    BY <1>0, <1>2, SearchedPending DEF BadHeader, Searching, HeaderComplete
<1>4. delivered' = delivered
    BY DEF BadHeader
<1>5. FS!HeaderArrived(p)
  <2>1. Len(p) = Len(Pending) - (FirstHead + 1) + 1
      BY <1>1, <1>2, FromParts
  <2>2. Len(p) >= NET_PACKAGE_HEADLEN + 1
      BY <1>0, <1>1, <2>1 DEF NET_PACKAGE_HEADLEN
  <2> QED
      BY <2>2, FSOps
<1>6. FS!FrontPacket(p) = CharToNetPacket(HeadBytes)
  <2>1. /\ FirstHead + 1 + 9 - 1 <= Len(Pending) /\ FirstHead + 1 + 2 - 1 = FirstHead + 2
        /\ FirstHead + 1 + 9 - 1 = FirstHead + 1 + NET_PACKAGE_HEADLEN
        /\ FirstHead + 1 + NET_PACKAGE_HEADLEN \in 0 .. Len(Filled) /\ FirstHead + 2 \in Nat \ {0}
        /\ NET_PACKAGE_HEADLEN + 1 = 9
      BY <1>0, <1>1 DEF NET_PACKAGE_HEADLEN
  <2>2. SubSeq(p, 2, 9) = SubSeq(Pending, FirstHead + 1 + 2 - 1, FirstHead + 1 + 9 - 1)
    <3> DEFINE i == 2
               j == 9
    <3>1. i \in Nat \ {0} /\ j \in Nat /\ FirstHead + 1 + j - 1 <= Len(Pending)
        BY <2>1
    <3> HIDE DEF i, j
    <3>2. SubSeq(p, i, j) = SubSeq(Pending, FirstHead + 1 + i - 1, FirstHead + 1 + j - 1)
        BY <1>1, <1>2, <3>1, PartOfFrom, ZenonT(40)
    <3> QED
        BY <3>2 DEF i, j
  <2>3. SubSeq(p, 2, 9) = SubSeq(Pending, FirstHead + 2, FirstHead + 1 + NET_PACKAGE_HEADLEN)
      BY <2>1, <2>2
  <2>4. Pending = Filled \o r /\ Filled \in Seq(Byte) /\ r \in Seq(Byte)
      BY <1>0, SearchPending
  <2> HIDE DEF r
  <2>5. SubSeq(Pending, FirstHead + 2, FirstHead + 1 + NET_PACKAGE_HEADLEN) = HeadBytes
      BY <2>1, <2>4, PartOfConcat DEF HeadBytes
  <2> QED
      BY <2>1, <2>3, <2>5, FSOps
<1>7. FS!NotAFrame(p)
  <2>1. CharToNetPacket(HeadBytes).header # HEAD \/ CharToNetPacket(HeadBytes).tail # TAIL
      BY DEF BadHeader, HeaderComplete
  <2> HIDE DEF p
  <2> QED
      BY <1>5, <1>6, <2>1 DEF FS!NotAFrame, FS!HeaderMatches
<1>8. \A i \in 1 .. FirstHead + 1 : FS!NotAFrame(FS!From(Pending, i))
  <2>1. FS!From(Pending, FirstHead + 1) = p
      BY FSOps
  <2>2. \A i \in 1 .. FirstHead : FS!NotAFrame(FS!From(Pending, i))
      BY <1>0, BeforeFirstHead
  <2> HIDE DEF p
  <2>3. \A i \in 1 .. FirstHead + 1 : i \in 1 .. FirstHead \/ i = FirstHead + 1
      BY <1>1
  <2> QED
      BY <1>7, <2>1, <2>2, <2>3
<1> QED
    BY <1>1, <1>2, <1>3, <1>4, <1>8, DropStep
LEMMA GoodHeaderDrops == ASSUME SInv, GoodHeader PROVE [FS!Discard]_FS!fsVars
<1> DEFINE r == From(chunk, iret + Room + 1)
           e == FirstHead + 1 + NET_PACKAGE_HEADLEN
           n == e + Smaller(BehindHead - NET_PACKAGE_HEADLEN, theNexPacket'.datalen + 1)
           a == SubSeq(Filled, FirstHead + 1, e)
           b == SubSeq(Filled, e + 1, n)
           c == From(Filled, n + 1)
<1>0. /\ Searching /\ HeadPositions # {} /\ BehindHead >= NET_PACKAGE_HEADLEN
      /\ theNexPacket'.datalen \in Nat
    BY HeadBytesType DEF GoodHeader, HeaderComplete, SInv, FInv, BInv, Packet
<1>1. /\ FirstHead \in Nat /\ FirstHead < Len(Filled) /\ Len(Filled) \in Nat
      /\ BehindHead = Len(Filled) - FirstHead - 1
      /\ Pending \in Seq(Byte) /\ Len(Pending) \in Nat /\ Len(Pending) >= Len(Filled)
      /\ Pending = Filled \o r /\ Filled \in Seq(Byte) /\ r \in Seq(Byte)
    BY <1>0, FirstHeadProperties, SearchPending DEF SInv, FInv, BInv
<1>2. /\ FirstHead + 1 \in 1 .. Len(Filled) + 1 /\ FirstHead \in 0 .. Len(Pending)
      /\ e \in (FirstHead + 1) - 1 .. Len(Filled) /\ e + 1 \in 1 .. Len(Filled) + 1
      /\ n \in (e + 1) - 1 .. Len(Filled) /\ e \in Nat /\ n \in Nat
      /\ n - e = Smaller(BehindHead - NET_PACKAGE_HEADLEN, theNexPacket'.datalen + 1)
    BY <1>0, <1>1 DEF NET_PACKAGE_HEADLEN, Smaller
<1>3. /\ chunk' = chunk /\ iret' = iret + Room /\ readdata' = Filled /\ headpos' = FirstHead
      /\ parsetype' = "PARSE_HEAD" /\ delivered' = delivered
    BY DEF GoodHeader, HeaderComplete, Searching
<1>4. packetdata' = b
  <2>1. /\ FirstHead + NET_PACKAGE_HEADLEN + 2 = e + 1
        /\ FirstHead + NET_PACKAGE_HEADLEN + 1
              + Smaller(BehindHead - NET_PACKAGE_HEADLEN, theNexPacket'.datalen + 1) = n
      BY <1>1, <1>2 DEF NET_PACKAGE_HEADLEN
  <2> HIDE DEF e, n
  <2> QED
      BY <2>1 DEF GoodHeader
<1>5. Len(b) = n - e
  <2> HIDE DEF e, n
  <2>1. (IF e + 1 <= n THEN n - (e + 1) + 1 ELSE 0) = n - e /\ e + 1 \in Nat \ {0} /\ n <= Len(Filled)
      BY <1>1, <1>2
  <2>2. Filled \in Seq(Byte) /\ n \in Nat
      BY <1>1, <1>2
  <2>3. Len(b) = IF e + 1 <= n THEN n - (e + 1) + 1 ELSE 0
      BY <2>1, <2>2, PartOfSeq
  <2> QED
      BY <2>1, <2>3
<1>6. Unused' = r
    BY <1>3 DEF Unused, From
<1>7. Pending' = ((a \o b) \o c) \o r
  <2>1. headpos' + 2 + NET_PACKAGE_HEADLEN + Len(packetdata') = n + 1
      BY <1>1, <1>2, <1>3, <1>4, <1>5 DEF NET_PACKAGE_HEADLEN
  <2>2. From(readdata', headpos' + 2 + NET_PACKAGE_HEADLEN + Len(packetdata')) = c
      BY <1>3, <2>1
  <2>3. SubSeq(readdata', headpos' + 1, headpos' + 1 + NET_PACKAGE_HEADLEN) = a
      BY <1>3
  <2>4. Pending' = ((SubSeq(readdata', headpos' + 1, headpos' + 1 + NET_PACKAGE_HEADLEN)
                      \o packetdata')
                      \o From(readdata', headpos' + 2 + NET_PACKAGE_HEADLEN + Len(packetdata')))
                      \o Unused'
      BY <1>3 DEF Pending, From
  <2> HIDE DEF a, b, c, r
  <2> QED
      BY <1>4, <1>6, <2>2, <2>3, <2>4
<1> HIDE DEF e, n, r
<1>8. /\ b \o c = From(Filled, e + 1) /\ a \o From(Filled, e + 1) = From(Filled, FirstHead + 1)
      /\ a \in Seq(Byte) /\ b \in Seq(Byte) /\ c \in Seq(Byte)
  <2>1. b \o c = From(Filled, e + 1)
      BY <1>1, <1>2, FromJoin
  <2>2. a \o From(Filled, e + 1) = From(Filled, FirstHead + 1)
      BY <1>1, <1>2, FromJoin
  <2>3. e <= Len(Filled) /\ n <= Len(Filled) /\ e + 1 \in Nat \ {0} /\ FirstHead + 1 \in Nat \ {0}
        /\ n + 1 \in Nat \ {0}
      BY <1>1, <1>2
  <2>4. a \in Seq(Byte) /\ b \in Seq(Byte) /\ c \in Seq(Byte)
      BY <1>1, <1>2, <2>3, PartOfSeq, FromProperties
  <2> QED
      BY <2>1, <2>2, <2>4
<1>9. Pending' = From(Pending, FirstHead + 1)
  <2> DEFINE f == From(Filled, FirstHead + 1)
             g == From(Filled, e + 1)
  <2> HIDE DEF a, b, c, f, g
  <2>0. a \in Seq(Byte) /\ b \in Seq(Byte) /\ c \in Seq(Byte)
      BY <1>8
  <2>1. (a \o b) \o c = a \o (b \o c)
      BY <2>0, ConcatAssociative
  <2>2. (a \o b) \o c = f
      BY <1>8, <2>1 DEF f, g
  <2>3. From(Filled \o r, FirstHead + 1) = f \o r
      BY <1>1, <1>2, FromConcat DEF f
  <2> QED
      BY <1>1, <1>7, <2>2, <2>3
<1>10. \A i \in 1 .. FirstHead : FS!NotAFrame(FS!From(Pending, i))
    BY <1>0, BeforeFirstHead
<1> QED
    BY <1>1, <1>2, <1>3, <1>9, <1>10, DropStep
-----------------------------------------------------------------------------
(***************************************************************************)
(* Steps that move no byte of the stream                                   *)
(***************************************************************************)
LEMMA PendingParts ==
    ASSUME SInv
    PROVE  /\ readdata \in Seq(Byte) /\ Len(readdata) \in Nat
           /\ packetdata \in Seq(Byte) /\ Len(packetdata) \in Nat
           /\ Unused \in Seq(Byte) /\ headpos \in Nat /\ BodyLen \in Nat
           /\ iret \in 0 .. Len(chunk) /\ chunk \in Seq(Byte) /\ Len(chunk) \in Nat
           /\ Len(Unused) = Len(chunk) - iret
    BY UnusedProperties, LenProperties DEF SInv, FInv, BInv, TypeOK, BodyLen, Packet

\* Return, ResumeFrame.
LEMMA CallStepsKeep == ASSUME SInv, Return \/ ResumeFrame PROVE UNCHANGED FS!fsVars
<1>1. CASE ResumeFrame
    BY <1>1 DEF ResumeFrame, FS!fsVars, Pending, Unused, buffers
<1>2. CASE Return
  <2>1. Unused' = << >>
    <3>1. iret' + 1 = 1 /\ chunk' = << >>
        BY <1>2 DEF Return
    <3> QED
        BY <3>1, FromEmpty DEF Unused, From
  <2>2. ~(iret < Len(chunk)) /\ Len(Unused) = 0
      BY <1>2, PendingParts DEF Return, MoreWork
  <2>3. Unused = << >>
      BY <2>2, PendingParts, EmptySeq
  <2> QED
      BY <1>2, <2>1, <2>3 DEF Return, FS!fsVars, Pending, buffers
<1> QED
    BY <1>1, <1>2

LEMMA NeedMoreKeeps == ASSUME SInv, NeedMore PROVE UNCHANGED FS!fsVars
<1> DEFINE a == SubSeq(readdata, headpos + 1, headpos + 1 + NET_PACKAGE_HEADLEN)
           c == From(readdata, headpos + 2 + NET_PACKAGE_HEADLEN + Len(packetdata))
           d == From(readdata, headpos + 2 + NET_PACKAGE_HEADLEN + Len(packetdata'))
<1>1. /\ parsetype = "PARSE_HEAD" /\ parsetype' = "PARSE_HEAD" /\ packetdata' = packetdata \o Unused
      /\ readdata' = readdata /\ headpos' = headpos /\ delivered' = delivered
      /\ chunk' = << >> /\ iret' = 0 /\ Len(packetdata) + Len(Unused) < BodyLen
    BY DEF NeedMore, SInv, FInv, BInv, BodyHasFrame
<1>2. Unused' = << >>
  <2>1. iret' + 1 = 1
      BY <1>1
  <2> QED
      BY <1>1, <2>1, FromEmpty DEF Unused, From
<1>3. /\ readdata \in Seq(Byte) /\ Len(readdata) \in Nat
      /\ packetdata \in Seq(Byte) /\ Len(packetdata) \in Nat
      /\ Unused \in Seq(Byte) /\ headpos \in Nat /\ BodyLen \in Nat /\ Len(Unused) \in Nat
      /\ headpos + 1 + NET_PACKAGE_HEADLEN <= Len(readdata)
      /\ Len(readdata) <= headpos + 1 + NET_PACKAGE_HEADLEN + Len(packetdata)
  <2>1. Len(packetdata) < BodyLen
      BY <1>1, PendingParts, LenProperties
  <2> QED
      BY <1>1, <2>1, PendingParts, LenProperties DEF SInv, FInv, FrameUnderWay, ReadDataUsed
<1>4. Len(packetdata') = Len(packetdata) + Len(Unused) /\ packetdata' \in Seq(Byte)
    BY <1>1, <1>3, ConcatProperties
<1>5. c = << >> /\ d = << >>
  <2>1. /\ headpos + 2 + NET_PACKAGE_HEADLEN + Len(packetdata) \in Nat
        /\ headpos + 2 + NET_PACKAGE_HEADLEN + Len(packetdata') \in Nat
        /\ headpos + 2 + NET_PACKAGE_HEADLEN + Len(packetdata) > Len(readdata)
        /\ headpos + 2 + NET_PACKAGE_HEADLEN + Len(packetdata') > Len(readdata)
      BY <1>3, <1>4 DEF NET_PACKAGE_HEADLEN
  <2> QED
      BY <1>3, <2>1, FromPastEnd
<1>6. a \in Seq(Byte)
  <2>1. headpos + 1 \in Nat \ {0} /\ headpos + 1 + NET_PACKAGE_HEADLEN \in Nat
      BY <1>3 DEF NET_PACKAGE_HEADLEN
  <2> QED
      BY <1>3, <2>1, PartOfSeq
<1>7. Pending = ((a \o packetdata) \o c) \o Unused
    BY <1>1 DEF Pending
<1>8. Pending' = ((a \o packetdata') \o d) \o Unused'
    BY <1>1 DEF Pending, From
<1> HIDE DEF a, c, d
<1>9. Pending = Pending'
  <2>1. (a \o packetdata) \o c = a \o packetdata /\ a \o packetdata \in Seq(Byte)
      BY <1>3, <1>5, <1>6, ConcatProperties, ConcatEmptySeq
  <2>2. a \o packetdata' \in Seq(Byte)
      BY <1>4, <1>6, ConcatProperties
  <2>3. Pending' = a \o packetdata'
      BY <1>2, <1>5, <1>8, <2>2, ConcatEmptySeq
  <2>4. a \o (packetdata \o Unused) = (a \o packetdata) \o Unused
    <3>1. a \in Seq(Byte) /\ packetdata \in Seq(Byte) /\ Unused \in Seq(Byte)
        BY <1>3, <1>6
    <3> QED
        BY <3>1, ConcatAssociative
  <2> QED
      BY <1>1, <1>7, <2>1, <2>3, <2>4
<1> QED
    BY <1>1, <1>9 DEF FS!fsVars
-----------------------------------------------------------------------------
(***************************************************************************)
(* Bytes arrive                                                            *)
(***************************************************************************)
LEMMA ArrivePending ==
    ASSUME SInv, NEW k \in 1 .. Len(stream) - received, recvdata(k)
    PROVE  /\ Unused = << >> /\ Unused' = chunk' /\ chunk' \in Seq(Byte) /\ Len(chunk') = k
           /\ Pending \in Seq(Byte) /\ Pending' = Pending \o chunk'
<1>1. /\ stream \in Seq(Byte) /\ Len(stream) \in Nat /\ received \in 0 .. Len(stream)
      /\ received + 1 \in Nat \ {0} /\ received + k \in Nat /\ received + k <= Len(stream)
      /\ (IF received + 1 <= received + k THEN (received + k) - (received + 1) + 1 ELSE 0) = k
    BY PacketSyncAssumption, LenProperties DEF SInv, FInv, BInv, TypeOK
<1>2. chunk' \in Seq(Byte) /\ Len(chunk') = k
  <2>1. chunk' = SubSeq(stream, received + 1, received + k)
      BY DEF recvdata
  <2> QED
      BY <1>1, <2>1, PartOfSeq
<1>3. Unused' = chunk'
  <2>1. iret' + 1 = 1
      BY DEF recvdata
  <2>2. From(chunk', 1) = chunk'
      BY <1>2, SubSeqFull DEF From
  <2> QED
      BY <2>1, <2>2 DEF Unused, From
<1>4. Unused = << >>
  <2>1. chunk = << >> /\ iret = 0
      BY DEF SInv, CallHasChunk, recvdata
  <2>2. iret + 1 = 1
      BY <2>1
  <2> QED
      BY <2>1, <2>2, FromEmpty DEF Unused
<1> DEFINE a == SubSeq(readdata, headpos + 1, headpos + 1 + NET_PACKAGE_HEADLEN)
           c == From(readdata, headpos + 2 + NET_PACKAGE_HEADLEN + Len(packetdata))
           q == IF parsetype = "PARSE_NOTHING" THEN readdata ELSE (a \o packetdata) \o c
<1>5. Pending = q \o Unused
    BY DEF Pending
<1>6. Pending' = q \o Unused'
    BY DEF Pending, recvdata, buffers, From
<1>7. q \in Seq(Byte)
  <2>1. readdata \in Seq(Byte) /\ packetdata \in Seq(Byte)
      BY PendingParts
  <2>2. CASE parsetype = "PARSE_NOTHING"
      BY <2>1, <2>2
  <2>3. CASE parsetype # "PARSE_NOTHING"
    <3>1. /\ headpos + 1 \in Nat \ {0} /\ headpos + 1 + NET_PACKAGE_HEADLEN \in Nat
          /\ headpos + 1 + NET_PACKAGE_HEADLEN <= Len(readdata)
          /\ headpos + 2 + NET_PACKAGE_HEADLEN + Len(packetdata) \in Nat \ {0}
        BY <2>3, PendingParts, SMTT(20) DEF SInv, FInv, BInv, TypeOK, FrameUnderWay, NET_PACKAGE_HEADLEN
    <3>2. a \in Seq(Byte)
        BY <2>1, <3>1, PartOfSeq
    <3>3. c \in Seq(Byte)
        BY <2>1, <3>1, FromProperties
    <3> HIDE DEF a, c
    <3>4. a \o packetdata \in Seq(Byte)
        BY <2>1, <3>2, ConcatProperties
    <3>5. (a \o packetdata) \o c \in Seq(Byte)
        BY <3>3, <3>4, ConcatProperties
    <3> QED
        BY <2>3, <3>5
  <2> QED
      BY <2>2, <2>3
<1> HIDE DEF q
<1>8. Pending = q
    BY <1>4, <1>5, <1>7, ConcatEmptySeq
<1> QED
    BY <1>2, <1>3, <1>4, <1>6, <1>7, <1>8

LEMMA ArriveStep ==
    ASSUME SInv, NEW k \in 1 .. Len(stream) - received, recvdata(k)
    PROVE  [FS!Next]_FS!fsVars
<1>1. /\ Pending \in Seq(Byte) /\ Pending' = Pending \o chunk' /\ chunk' \in Seq(Byte)
      /\ Len(chunk') = k /\ Len(Pending) \in Nat /\ k > 0 /\ k \in Nat
    BY ArrivePending, LenProperties
<1>2. Len(Pending') > Len(Pending)
    BY <1>1, ConcatProperties
<1>3. SubSeq(Pending', 1, Len(Pending)) = Pending
  <2>1. SubSeq(Pending \o chunk', 1, Len(Pending)) = SubSeq(Pending, 1, Len(Pending))
    <3>1. 1 \in Nat \ {0} /\ Len(Pending) \in 0 .. Len(Pending)
        BY <1>1
    <3> QED
        BY <1>1, <3>1, PartOfConcat
  <2>2. SubSeq(Pending, 1, Len(Pending)) = Pending
      BY <1>1, SubSeqFull
  <2> QED
      BY <1>1, <2>1, <2>2
<1>4. delivered' = delivered
    BY DEF recvdata
<1> QED
    BY <1>2, <1>3, <1>4 DEF FS!Next, FS!Arrive
-----------------------------------------------------------------------------
(***************************************************************************)
(* Completing a frame                                                      *)
(***************************************************************************)
\* p is a HEAD byte with a header a, a body d and the rest r.
LaidOut(a, d, r, p) ==
    /\ p \in Seq(Byte) /\ Len(p) = 9 + Len(d) + Len(r)
    /\ p[1] = a[1]
    /\ SubSeq(p, 2, 9) = SubSeq(a, 2, 9)
    /\ \A i \in 1 .. Len(d) : p[9 + i] = d[i]
    /\ \A j \in 0 .. Len(d) : SubSeq(p, 10, 9 + j) = SubSeq(d, 1, j)
    /\ From(p, 2) = (From(a, 2) \o d) \o r
    /\ From(p, 10 + Len(d)) = r

LEMMA FrameParts ==
    ASSUME NEW a \in Seq(Byte), Len(a) = 9, NEW d \in Seq(Byte), NEW r \in Seq(Byte),
           NEW p, p = (a \o d) \o r
    PROVE  LaidOut(a, d, r, p)
<1> DEFINE q == a \o d
<1>1. /\ Len(d) \in Nat /\ Len(r) \in Nat
      /\ q \in Seq(Byte) /\ Len(q) = 9 + Len(d)
      /\ \A i \in 1 .. 9 + Len(d) : q[i] = IF i <= 9 THEN a[i] ELSE d[i - 9]
  <2>1. Len(d) \in Nat /\ Len(r) \in Nat
      BY LenProperties
  <2>2. /\ q \in Seq(Byte) /\ Len(q) = Len(a) + Len(d)
        /\ \A i \in 1 .. Len(a) + Len(d) : q[i] = IF i <= Len(a) THEN a[i] ELSE d[i - Len(a)]
      BY ConcatProperties
  <2> HIDE DEF q
  <2> QED
      BY <2>1, <2>2
<1>2. p = q \o r
    OBVIOUS
<1> HIDE DEF q
<1>3. /\ p \in Seq(Byte) /\ Len(p) = Len(q) + Len(r)
      /\ \A i \in 1 .. Len(q) + Len(r) : p[i] = IF i <= Len(q) THEN q[i] ELSE r[i - Len(q)]
  <2> DEFINE u == q \o r
  <2>1. q \in Seq(Byte) /\ r \in Seq(Byte)
      BY <1>1
  <2>2. /\ u \in Seq(Byte) /\ Len(u) = Len(q) + Len(r)
        /\ \A i \in 1 .. Len(q) + Len(r) : u[i] = IF i <= Len(q) THEN q[i] ELSE r[i - Len(q)]
      BY <2>1, ConcatProperties
  <2>3. p = u
      BY <1>2
  <2> HIDE DEF u
  <2> QED
      BY <2>2, <2>3
<1>4. p[1] = a[1]
  <2>1. 1 \in 1 .. 9 + Len(d) /\ 1 \in 1 .. Len(q) + Len(r) /\ 1 <= Len(q) /\ 1 <= 9
      BY <1>1
  <2> QED
      BY <1>1, <1>3, <2>1
<1>5. SubSeq(p, 2, 9) = SubSeq(a, 2, 9)
  <2> DEFINE i == 2
             j == 9
  <2>1. i \in Nat \ {0} /\ j \in 0 .. Len(q) /\ j \in 0 .. Len(a)
      BY <1>1
  <2> HIDE DEF i, j
  <2>2. SubSeq(q \o r, i, j) = SubSeq(q, i, j)
      BY <1>1, <2>1, PartOfConcat
  <2>3. SubSeq(a \o d, i, j) = SubSeq(a, i, j)
      BY <2>1, PartOfConcat
  <2> QED
      BY <1>2, <2>2, <2>3 DEF i, j, q
<1>6. \A i \in 1 .. Len(d) : p[9 + i] = d[i]
  <2> SUFFICES ASSUME NEW i \in 1 .. Len(d) PROVE p[9 + i] = d[i]
      OBVIOUS
  <2>1. /\ 9 + i \in 1 .. 9 + Len(d) /\ 9 + i \in 1 .. Len(q) + Len(r) /\ 9 + i <= Len(q)
        /\ ~(9 + i <= 9) /\ 9 + i - 9 = i
      BY <1>1
  <2> QED
      BY <1>1, <1>3, <2>1
<1>7. From(p, 10) = d \o r
  <2> DEFINE m == 10
  <2>1. m \in 1 .. Len(q) + 1 /\ m \in 1 .. Len(a) + 1 /\ m > Len(a) /\ m \in Nat
      BY <1>1
  <2> HIDE DEF m
  <2>2. From(q \o r, m) = From(q, m) \o r
      BY <1>1, <2>1, FromConcat
  <2>3. From(a \o d, m) = From(a, m) \o d
      BY <2>1, FromConcat
  <2>4. From(a, m) = << >>
      BY <2>1, FromPastEnd
  <2>5. << >> \o d = d
      BY ConcatEmptySeq
  <2> QED
      BY <1>2, <2>2, <2>3, <2>4, <2>5 DEF m, q
<1>8. \A j \in 0 .. Len(d) : SubSeq(p, 10, 9 + j) = SubSeq(d, 1, j)
  <2> SUFFICES ASSUME NEW j \in 0 .. Len(d) PROVE SubSeq(p, 10, 9 + j) = SubSeq(d, 1, j)
      OBVIOUS
  <2> DEFINE m == 10
             i == 1
  <2>1. /\ m \in 1 .. Len(p) + 1 /\ i \in Nat \ {0} /\ j \in Nat /\ m + j - 1 <= Len(p)
        /\ m + i - 1 = 10 /\ m + j - 1 = 9 + j
      BY <1>1, <1>3
  <2>2. From(p, m) = d \o r
      BY <1>7
  <2> HIDE DEF m, i
  <2>3. SubSeq(From(p, m), i, j) = SubSeq(p, m + i - 1, m + j - 1)
      BY <1>3, <2>1, PartOfFrom, ZenonT(40)
  <2>4. SubSeq(d \o r, i, j) = SubSeq(d, i, j)
      BY <2>1, PartOfConcat
  <2>5. SubSeq(p, 10, 9 + j) = SubSeq(d, i, j)
      BY <2>1, <2>2, <2>3, <2>4
  <2> QED
      BY <2>5 DEF i
<1>9. From(p, 2) = (From(a, 2) \o d) \o r
  <2> DEFINE m == 2
  <2>1. m \in 1 .. Len(q) + 1 /\ m \in 1 .. Len(a) + 1
      BY <1>1
  <2> HIDE DEF m
  <2>2. From(q \o r, m) = From(q, m) \o r
      BY <1>1, <2>1, FromConcat
  <2>3. From(a \o d, m) = From(a, m) \o d
      BY <2>1, FromConcat
  <2> QED
      BY <1>2, <2>2, <2>3 DEF m, q
<1>10. From(p, 10 + Len(d)) = r
  <2> DEFINE m == 10 + Len(d)
  <2>1. m \in 1 .. Len(q) + 1 /\ m > Len(q) /\ m \in Nat
      BY <1>1
  <2> HIDE DEF m
  <2>2. From(q \o r, m) = From(q, m) \o r
      BY <1>1, <2>1, FromConcat
  <2>3. From(q, m) = << >>
      BY <1>1, <2>1, FromPastEnd
  <2>4. << >> \o r = r
      BY ConcatEmptySeq
  <2> QED
      BY <1>2, <2>2, <2>3, <2>4 DEF m
<1> QED
    BY <1>1, <1>3, <1>4, <1>5, <1>6, <1>8, <1>9, <1>10 DEF LaidOut

\* The frame under way, what of it is still to come and what follows it, in the order
\* received.
FrameFront == SubSeq(readdata, headpos + 1, headpos + 1 + NET_PACKAGE_HEADLEN)

BehindFrame == From(readdata, headpos + 2 + NET_PACKAGE_HEADLEN + BodyLen)

LEMMA CompletingPending ==
    ASSUME SInv, Completing
    PROVE  /\ Pending = (FrameFront \o Completed) \o (BehindFrame \o Unused')
           /\ FrameFront \in Seq(Byte) /\ Len(FrameFront) = 9
           /\ Completed \in Seq(Byte) /\ Len(Completed) = BodyLen /\ BodyLen \in Nat
           /\ BehindFrame \in Seq(Byte) /\ Unused' \in Seq(Byte)
           /\ BehindFrame \o Unused' \in Seq(Byte)
           /\ FrameInReadData => packetdata = Completed
           /\ ~FrameInReadData => BehindFrame = << >>
<1> DEFINE a == FrameFront
           c == From(readdata, headpos + 2 + NET_PACKAGE_HEADLEN + Len(packetdata))
           e == BehindFrame
           m == SubSeq(chunk, iret + 1, iret + Missing)
           u == Unused'
<1>1. /\ readdata \in Seq(Byte) /\ Len(readdata) \in Nat /\ packetdata \in Seq(Byte)
      /\ Len(packetdata) \in Nat /\ headpos \in Nat /\ BodyLen \in Nat
      /\ iret \in 0 .. Len(chunk) /\ chunk \in Seq(Byte) /\ Len(chunk) \in Nat
    BY PendingParts
<1>2. /\ parsetype = "PARSE_HEAD" /\ iret' = iret + Missing /\ chunk' = chunk
      /\ Len(packetdata) + Len(Unused) >= BodyLen /\ control = "body"
    BY DEF Completing, SInv, FInv, BInv, BodyHasFrame
<1>3. /\ Missing \in Nat /\ iret + Missing <= Len(chunk)
      /\ Completed \in Seq(Byte) /\ Len(Completed) = BodyLen
    BY <1>2, CompletedProperties DEF SInv, FInv
<1>4. headpos + 1 + NET_PACKAGE_HEADLEN <= Len(readdata) /\ Len(packetdata) <= BodyLen
    BY <1>2 DEF SInv, FInv, BInv, FrameFits
<1>5. Len(packetdata) < BodyLen =>
          Len(readdata) <= headpos + 1 + NET_PACKAGE_HEADLEN + Len(packetdata)
    BY <1>2 DEF SInv, FInv, ReadDataUsed
<1>6. /\ Missing = BodyLen - Len(packetdata)
      /\ FrameInReadData <=> Len(readdata) - headpos - 1 - NET_PACKAGE_HEADLEN >= BodyLen
    BY DEF Missing, FrameInReadData
<1>7. a \in Seq(Byte) /\ Len(a) = 9
  <2> DEFINE i == headpos + 1
             j == headpos + 1 + NET_PACKAGE_HEADLEN
  <2>2. /\ i \in Nat \ {0} /\ j \in Nat /\ j <= Len(readdata)
        /\ (IF i <= j THEN j - i + 1 ELSE 0) = 9
      BY <1>1, <1>4 DEF NET_PACKAGE_HEADLEN
  <2> HIDE DEF i, j
  <2>3. SubSeq(readdata, i, j) \in Seq(Byte) /\ Len(SubSeq(readdata, i, j)) = 9
      BY <1>1, <2>2, PartOfSeq
  <2> QED
      BY <2>3 DEF i, j, FrameFront
<1>8. c \in Seq(Byte) /\ e \in Seq(Byte)
  <2>1. /\ headpos + 2 + NET_PACKAGE_HEADLEN + Len(packetdata) \in Nat \ {0}
        /\ headpos + 2 + NET_PACKAGE_HEADLEN + BodyLen \in Nat \ {0}
      BY <1>1 DEF NET_PACKAGE_HEADLEN
  <2> QED
      BY <1>1, <2>1, FromProperties DEF BehindFrame
<1>9. m \in Seq(Byte) /\ u \in Seq(Byte) /\ m \o u = Unused
  <2>1. /\ iret + 1 \in 1 .. Len(chunk) + 1 /\ iret + Missing \in (iret + 1) - 1 .. Len(chunk)
        /\ iret + 1 \in Nat \ {0} /\ iret + Missing \in Nat /\ iret + Missing + 1 \in Nat \ {0}
      BY <1>1, <1>3
  <2>2. m \in Seq(Byte)
      BY <1>1, <1>3, <2>1, PartOfSeq
  <2>3. u = From(chunk, iret + Missing + 1)
      BY <1>2 DEF Unused, From
  <2>4. From(chunk, iret + Missing + 1) \in Seq(Byte)
      BY <1>1, <2>1, FromProperties
  <2>5. m \o From(chunk, iret + Missing + 1) = From(chunk, iret + 1)
      BY <1>1, <2>1, FromJoin
  <2> QED
      BY <2>2, <2>3, <2>4, <2>5 DEF Unused
<1>10. Completed = packetdata \o m
    BY DEF Completed
<1>11. Pending = ((a \o packetdata) \o c) \o Unused
    BY <1>2 DEF Pending, FrameFront
<1>12. (FrameInReadData => Missing = 0) /\ (~FrameInReadData => e = << >>)
  <2>1. FrameInReadData => Missing = 0
      BY <1>1, <1>4, <1>5, <1>6 DEF NET_PACKAGE_HEADLEN
  <2>2. /\ headpos + 2 + NET_PACKAGE_HEADLEN + BodyLen \in Nat
        /\ ~FrameInReadData => headpos + 2 + NET_PACKAGE_HEADLEN + BodyLen > Len(readdata)
      BY <1>1, <1>4, <1>6 DEF NET_PACKAGE_HEADLEN
  <2> QED
      BY <1>1, <2>1, <2>2, FromPastEnd DEF BehindFrame
<1>13. Missing = 0 => Completed = packetdata /\ c = e
  <2> SUFFICES ASSUME Missing = 0 PROVE Completed = packetdata /\ c = e
      OBVIOUS
  <2>1. Len(packetdata) = BodyLen
      BY <1>1, <1>4, <1>6
  <2>2. iret + Missing < iret + 1 /\ iret + 1 \in Nat /\ iret + Missing \in Nat
      BY <1>1
  <2>3. m = << >>
      BY <1>1, <2>2, SubSeqEmpty
  <2> QED
      BY <1>1, <1>10, <2>1, <2>3, ConcatEmptySeq DEF BehindFrame
<1>14. Missing # 0 => c = << >> /\ e = << >>
  <2> SUFFICES ASSUME Missing # 0 PROVE c = << >> /\ e = << >>
      OBVIOUS
  <2>1. Len(packetdata) < BodyLen
      BY <1>1, <1>4, <1>6
  <2>2. /\ headpos + 2 + NET_PACKAGE_HEADLEN + Len(packetdata) \in Nat
        /\ headpos + 2 + NET_PACKAGE_HEADLEN + BodyLen \in Nat
        /\ headpos + 2 + NET_PACKAGE_HEADLEN + Len(packetdata) > Len(readdata)
        /\ headpos + 2 + NET_PACKAGE_HEADLEN + BodyLen > Len(readdata)
      BY <1>1, <1>5, <2>1 DEF NET_PACKAGE_HEADLEN
  <2> QED
      BY <1>1, <2>2, FromPastEnd DEF BehindFrame
<1> HIDE DEF a, c, e, m, u
<1>15. a \o packetdata \in Seq(Byte) /\ a \o Completed \in Seq(Byte) /\ e \o u \in Seq(Byte)
  <2>1. a \o packetdata \in Seq(Byte)
      BY <1>1, <1>7, ConcatProperties
  <2>2. a \o Completed \in Seq(Byte)
      BY <1>3, <1>7, ConcatProperties
  <2>3. e \o u \in Seq(Byte)
      BY <1>8, <1>9, ConcatProperties
  <2> QED
      BY <2>1, <2>2, <2>3
<1>16. Pending = (a \o Completed) \o (e \o u)
  <2>1. CASE Missing = 0
    <3>1. Completed = packetdata /\ c = e
        BY <1>13, <2>1
    <3>2. m \o u = u
      <4>1. Completed = packetdata \o m
          BY <1>10
      <4>2. m = << >>
        <5>1. Len(packetdata \o m) = Len(packetdata) + Len(m) /\ Len(m) \in Nat
            BY <1>1, <1>9, ConcatProperties, LenProperties
        <5>2. Len(m) = 0
            BY <1>1, <3>1, <4>1, <5>1
        <5> QED
            BY <1>9, <5>2, EmptySeq
      <4> QED
          BY <1>9, <4>2, ConcatEmptySeq
    <3>3. Pending = ((a \o Completed) \o e) \o u
        BY <1>9, <1>11, <3>1, <3>2
    <3> DEFINE q == a \o Completed
    <3>4. q \in Seq(Byte) /\ e \in Seq(Byte) /\ u \in Seq(Byte)
        BY <1>8, <1>9, <1>15
    <3> HIDE DEF q
    <3>5. (q \o e) \o u = q \o (e \o u)
        BY <3>4, ConcatAssociative
    <3> QED
        BY <3>3, <3>5 DEF q
  <2>2. CASE Missing # 0
    <3>1. c = << >> /\ e = << >>
        BY <1>14, <2>2
    <3>2. e \o u = u
        BY <1>9, <3>1, ConcatEmptySeq
    <3>3. (a \o packetdata) \o c = a \o packetdata
        BY <1>15, <3>1, ConcatEmptySeq
    <3> DEFINE q == a \o packetdata
    <3>4. q \in Seq(Byte) /\ m \in Seq(Byte) /\ u \in Seq(Byte)
        BY <1>9, <1>15
    <3> HIDE DEF q
    <3>5. (q \o m) \o u = q \o (m \o u)
        BY <3>4, ConcatAssociative
    <3>6. a \in Seq(Byte) /\ packetdata \in Seq(Byte) /\ m \in Seq(Byte)
        BY <1>1, <1>7, <1>9
    <3>7. (a \o packetdata) \o m = a \o (packetdata \o m)
        BY <3>6, ConcatAssociative
    <3>8. q \o m = a \o Completed
        BY <1>10, <3>7 DEF q
    <3>9. Pending = q \o (m \o u)
        BY <1>9, <1>11, <3>3 DEF q
    <3> QED
        BY <3>2, <3>5, <3>8, <3>9
  <2> QED
      BY <2>1, <2>2
<1> QED
    BY <1>1, <1>3, <1>7, <1>8, <1>9, <1>12, <1>13, <1>15, <1>16 DEF a, e, u
\* The frame's first byte is HEAD and its header is theNexPacket.
LEMMA FrontOfFrame ==
    ASSUME SInv, parsetype = "PARSE_HEAD"
    PROVE  /\ FrameFront \in Seq(Byte) /\ Len(FrameFront) = 9 /\ FrameFront[1] = HEAD
           /\ theNexPacket = CharToNetPacket(SubSeq(FrameFront, 2, 9))
           /\ From(FrameFront, 2) = SubSeq(readdata, headpos + 2, headpos + 1 + NET_PACKAGE_HEADLEN)
           /\ theNexPacket \in Packet /\ theNexPacket.header = HEAD /\ theNexPacket.tail = TAIL
<1> DEFINE i == headpos + 1
           j == headpos + 1 + NET_PACKAGE_HEADLEN
           m == 2
           n == 9
<1>1. /\ readdata \in Seq(Byte) /\ Len(readdata) \in Nat /\ headpos \in Nat
      /\ theNexPacket \in Packet
    BY PendingParts DEF SInv, FInv, BInv, TypeOK
<1>2. /\ headpos + 1 + NET_PACKAGE_HEADLEN <= Len(readdata)
      /\ readdata[headpos + 1] = HEAD
      /\ theNexPacket = CharToNetPacket(SubSeq(readdata, headpos + 2, headpos + 1 + NET_PACKAGE_HEADLEN))
      /\ theNexPacket.header = HEAD /\ theNexPacket.tail = TAIL
    BY <1>1 DEF SInv, FInv, FrameUnderWay, HeaderMatched
<1>3. /\ i \in 1 .. Len(readdata) /\ j \in 1 .. Len(readdata) /\ m \in 1 .. j - i + 1
      /\ n \in 1 .. j - i + 1 /\ i + m - 1 = headpos + 2 /\ i + n - 1 = j
      /\ i \in Nat \ {0} /\ j \in Nat /\ j <= Len(readdata) /\ 1 \in 1 .. j - i + 1
      /\ i <= j /\ j - i + 1 = 9 /\ i + 1 - 1 = i
    BY <1>1, <1>2 DEF NET_PACKAGE_HEADLEN
<1>4. FrameFront = SubSeq(readdata, i, j)
    BY DEF FrameFront
<1>5. readdata[i] = HEAD /\ From(FrameFront, 2) = SubSeq(FrameFront, m, Len(FrameFront))
    BY <1>2 DEF From
<1> HIDE DEF i, j, m, n
<1>6. SubSeq(SubSeq(readdata, i, j), m, n) = SubSeq(readdata, i + m - 1, i + n - 1)
    BY <1>1, <1>3, SubSeqOfSubSeq
<1>7. /\ SubSeq(readdata, i, j) \in Seq(Byte) /\ Len(SubSeq(readdata, i, j)) = 9
      /\ SubSeq(readdata, i, j)[1] = readdata[i + 1 - 1]
    BY <1>1, <1>3, PartOfSeq
<1>8. FrameFront \in Seq(Byte) /\ FrameFront[1] = HEAD /\ Len(FrameFront) = 9
    BY <1>3, <1>4, <1>5, <1>7
<1>9. SubSeq(FrameFront, 2, 9) = SubSeq(readdata, headpos + 2, headpos + 1 + NET_PACKAGE_HEADLEN)
    BY <1>3, <1>4, <1>6 DEF j, m, n
<1>10. From(FrameFront, 2) = SubSeq(FrameFront, 2, 9)
    BY <1>5, <1>8 DEF m
<1> QED
    BY <1>1, <1>2, <1>8, <1>9, <1>10

LEMMA FrameFrontBytes ==
    ASSUME SInv, Completing
    PROVE  /\ FrameFront[1] = HEAD
           /\ theNexPacket = CharToNetPacket(SubSeq(FrameFront, 2, 9))
           /\ From(FrameFront, 2) = SubSeq(readdata, headpos + 2, headpos + 1 + NET_PACKAGE_HEADLEN)
           /\ theNexPacket \in Packet /\ theNexPacket.header = HEAD /\ theNexPacket.tail = TAIL
<1>1. parsetype = "PARSE_HEAD"
    BY DEF Completing, SInv, FInv, BInv, BodyHasFrame
<1> QED
    BY <1>1, FrontOfFrame

\* What the abstract specification sees at the front of Pending.
LEMMA FrameAtFront ==
    ASSUME SInv, Completing
    PROVE  /\ Pending \in Seq(Byte) /\ Len(Pending) \in Nat
           /\ Pending[1] = HEAD
           /\ FS!FrontPacket(Pending) = theNexPacket
           /\ FS!HeaderArrived(Pending) /\ FS!HeaderMatches(Pending)
           /\ FS!FrameLen(theNexPacket) = 9 + BodyLen
           /\ Len(Pending) >= 9 + BodyLen
           /\ Pending[9 + BodyLen] = Completed[BodyLen]
           /\ SubSeq(Pending, 10, 8 + BodyLen) = SubSeq(Completed, 1, theNexPacket.datalen)
           /\ From(Pending, 10 + BodyLen) = BehindFrame \o Unused'
           /\ From(Pending, 2) = (From(FrameFront, 2) \o Completed) \o (BehindFrame \o Unused')
<1> DEFINE r == BehindFrame \o Unused'
<1>1. /\ Pending = (FrameFront \o Completed) \o r
      /\ FrameFront \in Seq(Byte) /\ Len(FrameFront) = 9
      /\ Completed \in Seq(Byte) /\ Len(Completed) = BodyLen /\ BodyLen \in Nat
      /\ r \in Seq(Byte)
    BY CompletingPending
<1>2. /\ FrameFront[1] = HEAD
      /\ theNexPacket = CharToNetPacket(SubSeq(FrameFront, 2, 9))
      /\ theNexPacket \in Packet /\ theNexPacket.header = HEAD /\ theNexPacket.tail = TAIL
    BY FrameFrontBytes
<1>3. theNexPacket.datalen \in Nat /\ BodyLen = theNexPacket.datalen + 1
    BY <1>2 DEF Packet, BodyLen
<1> HIDE DEF r
<1>4. /\ Pending \in Seq(Byte) /\ Len(Pending) = 9 + Len(Completed) + Len(r)
      /\ Pending[1] = FrameFront[1]
      /\ SubSeq(Pending, 2, 9) = SubSeq(FrameFront, 2, 9)
      /\ \A i \in 1 .. Len(Completed) : Pending[9 + i] = Completed[i]
      /\ \A j \in 0 .. Len(Completed) : SubSeq(Pending, 10, 9 + j) = SubSeq(Completed, 1, j)
      /\ From(Pending, 2) = (From(FrameFront, 2) \o Completed) \o r
      /\ From(Pending, 10 + Len(Completed)) = r
  <2>1. LaidOut(FrameFront, Completed, r, Pending)
      BY <1>1, FrameParts
  <2> QED
      BY <2>1 DEF LaidOut
<1>5. Len(r) \in Nat /\ Len(Pending) \in Nat /\ Len(Pending) >= 9 + BodyLen
    BY <1>1, <1>4, LenProperties
<1>6. Pending[9 + BodyLen] = Completed[BodyLen]
  <2>1. BodyLen \in 1 .. Len(Completed)
      BY <1>1, <1>3
  <2> QED
      BY <1>4, <2>1
<1>7. SubSeq(Pending, 10, 8 + BodyLen) = SubSeq(Completed, 1, theNexPacket.datalen)
  <2>1. theNexPacket.datalen \in 0 .. Len(Completed) /\ 9 + theNexPacket.datalen = 8 + BodyLen
      BY <1>1, <1>3
  <2>2. SubSeq(Pending, 10, 9 + theNexPacket.datalen) = SubSeq(Completed, 1, theNexPacket.datalen)
      BY <1>4, <2>1
  <2> QED
      BY <2>1, <2>2
<1>8. FS!FrontPacket(Pending) = theNexPacket
  <2>1. NET_PACKAGE_HEADLEN + 1 = 9
      BY DEF NET_PACKAGE_HEADLEN
  <2> QED
      BY <1>2, <1>4, <2>1, FSOps
<1>9. FS!HeaderArrived(Pending)
  <2>1. Len(Pending) >= NET_PACKAGE_HEADLEN + 1
      BY <1>1, <1>5 DEF NET_PACKAGE_HEADLEN
  <2> QED
      BY <2>1, FSOps
<1>10. FS!HeaderMatches(Pending)
    BY <1>2, <1>8 DEF FS!HeaderMatches
<1>11. FS!FrameLen(theNexPacket) = 9 + BodyLen
    BY <1>3, FSOps DEF NET_PACKAGE_HEADLEN
<1> QED
    BY <1>1, <1>2, <1>4, <1>5, <1>6, <1>7, <1>8, <1>9, <1>10, <1>11 DEF r

\* The tail is bad: the HEAD byte is dropped, the rest stays as it was received.
LEMMA BadTailPending ==
    ASSUME SInv, BadTailKept \/ BadTailRebuilt
    PROVE  Pending' = From(Pending, 2)
<1> DEFINE a == From(FrameFront, 2)
           e == BehindFrame
           u == Unused'
<1>0. Completing
    BY DEF BadTailKept, BadTailRebuilt
<1>1. /\ From(Pending, 2) = (a \o Completed) \o (e \o u)
      /\ Completed \in Seq(Byte) /\ Len(Completed) = BodyLen /\ BodyLen \in Nat
      /\ e \in Seq(Byte) /\ u \in Seq(Byte)
      /\ FrameInReadData => packetdata = Completed
      /\ ~FrameInReadData => e = << >>
    BY <1>0, FrameAtFront, CompletingPending
<1>2. /\ a = SubSeq(readdata, headpos + 2, headpos + 1 + NET_PACKAGE_HEADLEN)
      /\ readdata \in Seq(Byte) /\ Len(readdata) \in Nat /\ headpos \in Nat
      /\ parsetype = "PARSE_HEAD" /\ headpos + 1 + NET_PACKAGE_HEADLEN <= Len(readdata)
    BY <1>0, FrameFrontBytes, PendingParts
    DEF Completing, SInv, FInv, BInv, BodyHasFrame, FrameFits
<1>3. Pending' = readdata' \o u
    BY <1>0 DEF Completing, Pending
<1>4. a \in Seq(Byte)
  <2>1. headpos + 2 \in Nat \ {0} /\ headpos + 1 + NET_PACKAGE_HEADLEN \in Nat
      BY <1>2 DEF NET_PACKAGE_HEADLEN
  <2> HIDE DEF a
  <2> QED
      BY <1>2, <2>1, PartOfSeq
<1>5. (a \o Completed) \o e = readdata'
  <2>1. CASE BadTailKept
    <3>1. FrameInReadData /\ readdata' = From(readdata, headpos + 2) /\ packetdata = Completed
        BY <1>1, <2>1 DEF BadTailKept
    <3> DEFINE h == headpos + 2
               k == headpos + 1 + NET_PACKAGE_HEADLEN
               n == k + BodyLen
    <3>2. /\ h \in 1 .. Len(readdata) + 1 /\ k \in h - 1 .. Len(readdata)
          /\ k + 1 \in 1 .. Len(readdata) + 1 /\ n \in (k + 1) - 1 .. Len(readdata)
          /\ n + 1 = headpos + 2 + NET_PACKAGE_HEADLEN + BodyLen
          /\ k + 1 \in Nat \ {0} /\ n \in Nat /\ n <= Len(readdata) /\ n - (k + 1) + 1 = BodyLen
          /\ (IF k + 1 <= n THEN n - (k + 1) + 1 ELSE 0) = BodyLen /\ k \in Nat
        BY <1>1, <1>2, <3>1 DEF FrameInReadData, NET_PACKAGE_HEADLEN
    <3>3. /\ a = SubSeq(readdata, h, k) /\ e = From(readdata, n + 1)
          /\ \A i \in 1 .. Len(packetdata) : k + i <= Len(readdata) => packetdata[i] = readdata[k + i]
      <4>1. e = From(readdata, n + 1)
          BY <3>2 DEF BehindFrame
      <4>2. \A i \in 1 .. Len(packetdata) : k + i <= Len(readdata) => packetdata[i] = readdata[k + i]
          BY <1>2 DEF SInv, FInv, FrameUnderWay
      <4> QED
          BY <1>2, <4>1, <4>2
    <3> DEFINE d == SubSeq(readdata, k + 1, n)
    <3> HIDE DEF h, k, n, a, e
    <3>4. /\ d \in Seq(Byte) /\ Len(d) = BodyLen
          /\ \A i \in 1 .. BodyLen : d[i] = readdata[k + 1 + i - 1]
        BY <1>2, <3>2, PartOfSeq
    <3>5. \A i \in 1 .. Len(d) : d[i] = Completed[i]
      <4> SUFFICES ASSUME NEW i \in 1 .. Len(d) PROVE d[i] = Completed[i]
          OBVIOUS
      <4>1. i \in 1 .. BodyLen /\ i \in 1 .. Len(packetdata) /\ k + i <= Len(readdata)
            /\ k + 1 + i - 1 = k + i
          BY <1>1, <3>1, <3>2, <3>4
      <4> QED
          BY <3>1, <3>3, <3>4, <4>1
    <3>6. d = Completed
      <4> HIDE DEF d
      <4> QED
          BY <1>1, <3>4, <3>5, SeqEqual
    <3>7. d \o e = From(readdata, k + 1)
        BY <1>2, <3>2, <3>3, FromJoin
    <3>8. a \o From(readdata, k + 1) = From(readdata, h)
        BY <1>2, <3>2, <3>3, FromJoin
    <3> HIDE DEF d
    <3>9. (a \o Completed) \o e = a \o (Completed \o e)
        BY <1>1, <1>4, ConcatAssociative, SMTT(20)
    <3> QED
        BY <3>1, <3>6, <3>7, <3>8, <3>9 DEF h
  <2>2. CASE BadTailRebuilt
    <3>1. e = << >> /\ readdata' = a \o Completed
        BY <1>1, <1>2, <2>2 DEF BadTailRebuilt
    <3> HIDE DEF a, e
    <3>2. a \o Completed \in Seq(Byte)
        BY <1>1, <1>4, ConcatProperties
    <3> QED
        BY <3>1, <3>2, ConcatEmptySeq
  <2> QED
      BY <2>1, <2>2
<1> HIDE DEF a, e, u
<1>6. a \o Completed \in Seq(Byte)
    BY <1>1, <1>4, ConcatProperties
<1> DEFINE q == a \o Completed
<1>7. q \in Seq(Byte) /\ e \in Seq(Byte) /\ u \in Seq(Byte)
    BY <1>1, <1>6
<1>8. Pending' = (q \o e) \o u /\ From(Pending, 2) = q \o (e \o u)
    BY <1>1, <1>3, <1>5
<1> HIDE DEF q
<1>9. (q \o e) \o u = q \o (e \o u)
    BY <1>7, ConcatAssociative
<1> QED
    BY <1>8, <1>9

LEMMA BadTailDrops == ASSUME SInv, BadTailKept \/ BadTailRebuilt PROVE [FS!Discard]_FS!fsVars
<1>1. Completing /\ Completed[BodyLen] # TAIL /\ delivered' = delivered
    BY DEF BadTailKept, BadTailRebuilt
<1>2. /\ Pending \in Seq(Byte) /\ Len(Pending) \in Nat
      /\ FS!FrontPacket(Pending) = theNexPacket /\ FS!HeaderArrived(Pending)
      /\ FS!FrameLen(theNexPacket) = 9 + BodyLen /\ Len(Pending) >= 9 + BodyLen
      /\ Pending[9 + BodyLen] = Completed[BodyLen] /\ BodyLen \in Nat
    BY <1>1, FrameAtFront, PendingParts
<1>3. Pending' = From(Pending, 1 + 1) /\ 1 \in 0 .. Len(Pending)
    BY <1>2, BadTailPending
<1>4. FS!NotAFrame(Pending)
    BY <1>1, <1>2 DEF FS!NotAFrame
<1>5. \A i \in 1 .. 1 : FS!NotAFrame(FS!From(Pending, i))
  <2>1. FS!From(Pending, 1) = Pending
      BY <1>2, FSOps, SubSeqFull DEF From
  <2>2. \A i \in 1 .. 1 : i = 1
      OBVIOUS
  <2> QED
      BY <1>4, <2>1, <2>2
<1> QED
    BY <1>1, <1>2, <1>3, <1>5, DropStep

\* The frame is complete: it is delivered and leaves as a whole.
LEMMA DeliverStep == ASSUME SInv, DeliverPacket PROVE FS!Deliver
<1> DEFINE u == Unused'
<1>0. Completing
    BY DEF DeliverPacket
<1>1. /\ Pending \in Seq(Byte) /\ Len(Pending) \in Nat /\ Pending[1] = HEAD
      /\ FS!FrontPacket(Pending) = theNexPacket
      /\ FS!HeaderArrived(Pending) /\ FS!HeaderMatches(Pending)
      /\ FS!FrameLen(theNexPacket) = 9 + BodyLen /\ Len(Pending) >= 9 + BodyLen
      /\ Pending[9 + BodyLen] = Completed[BodyLen] /\ BodyLen \in Nat
      /\ SubSeq(Pending, 10, 8 + BodyLen) = SubSeq(Completed, 1, theNexPacket.datalen)
      /\ From(Pending, 10 + BodyLen) = BehindFrame \o u
      /\ ~FrameInReadData => BehindFrame = << >>
    BY <1>0, FrameAtFront, PendingParts, CompletingPending
<1>2. Completed[BodyLen] = TAIL
    BY DEF DeliverPacket
<1>3. FS!IsFrame(Pending)
    BY <1>1, <1>2 DEF FS!IsFrame
<1>4. FS!FrontDelivery(Pending)
          = [packet |-> theNexPacket, data |-> SubSeq(Completed, 1, theNexPacket.datalen)]
  <2>1. FS!NET_PACKAGE_HEADLEN + 2 = 10 /\ FS!FrameLen(theNexPacket) - 1 = 8 + BodyLen
      BY <1>1 DEF FS!NET_PACKAGE_HEADLEN
  <2> QED
      BY <1>1, <2>1 DEF FS!FrontDelivery
<1>5. delivered' = Append(delivered, FS!FrontDelivery(Pending))
    BY <1>4 DEF DeliverPacket
<1>6. readdata' = BehindFrame
  <2>1. headpos + NET_PACKAGE_HEADLEN + theNexPacket.datalen + 3 = headpos + 2 + NET_PACKAGE_HEADLEN + BodyLen
    <3>1. headpos \in Nat /\ theNexPacket.datalen \in Nat
        BY DEF SInv, FInv, BInv, TypeOK, Packet
    <3> QED
        BY <3>1 DEF BodyLen, NET_PACKAGE_HEADLEN
  <2> QED
      BY <1>1, <2>1 DEF DeliverPacket, BehindFrame
<1>7. Pending' = readdata' \o u
    BY <1>0 DEF Completing, Pending
<1>8. FS!From(Pending, FS!FrameLen(FS!FrontPacket(Pending)) + 1) = From(Pending, 10 + BodyLen)
  <2>1. FS!FrameLen(FS!FrontPacket(Pending)) + 1 = 10 + BodyLen
      BY <1>1
  <2> QED
      BY <2>1, FSOps
<1> QED
    BY <1>1, <1>3, <1>5, <1>6, <1>7, <1>8 DEF FS!Deliver
-----------------------------------------------------------------------------
(***************************************************************************)
(* The refinement                                                          *)
(***************************************************************************)
LEMMA RefineInit == Init => FS!Init
<1> SUFFICES ASSUME Init PROVE FS!Init
    OBVIOUS
<1>1. chunk = << >> /\ iret + 1 = 1 /\ readdata = << >> /\ parsetype = "PARSE_NOTHING" /\ delivered = << >>
    BY DEF Init
<1>2. Unused = << >>
    BY <1>1, FromEmpty DEF Unused
<1>3. << >> \o << >> = << >>
    BY EmptySeq, ConcatEmptySeq
<1> QED
    BY <1>1, <1>2, <1>3 DEF FS!Init, Pending

\* What recvdata does with the bytes it has: it drops some, delivers the first frame, or
\* moves them between its buffers.
LEMMA LoopStepRefines ==
    ASSUME SInv, LoopStep
    PROVE  FS!Deliver \/ [FS!Discard]_FS!fsVars
<1>2. CASE NoHead
    BY <1>2, NoHeadDrops
<1>3. CASE ShortHeader
    BY <1>3, ShortHeaderDrops
<1>4. CASE BadHeader
    BY <1>4, BadHeaderDrops
<1>5. CASE GoodHeader
    BY <1>5, GoodHeaderDrops
<1>6. CASE NeedMore
    BY <1>6, NeedMoreKeeps
<1>7. CASE BadTailKept \/ BadTailRebuilt
    BY <1>7, BadTailDrops
<1>8. CASE DeliverPacket
    BY <1>8, DeliverStep
<1>9. CASE Return \/ ResumeFrame
    BY <1>9, CallStepsKeep
<1> QED
    BY <1>2, <1>3, <1>4, <1>5, <1>6, <1>7, <1>8, <1>9 DEF LoopStep

LEMMA RefineNext == SInv /\ [Next]_vars => [FS!Next]_FS!fsVars
<1> SUFFICES ASSUME SInv, [Next]_vars PROVE [FS!Next]_FS!fsVars
    OBVIOUS
<1>1. CASE \E k \in 1 .. Len(stream) - received : recvdata(k)
    BY <1>1, ArriveStep
<1>2. CASE LoopStep
    BY <1>2, LoopStepRefines DEF FS!Next
<1>3. CASE UNCHANGED vars
    BY <1>3 DEF vars, FS!fsVars, Pending, Unused, From
<1> QED
    BY <1>1, <1>2, <1>3 DEF Next, Finished

\* However the stream is cut into chunks and however full the buffers are, recvdata keeps
\* the promise of FrameStream: a byte leaves unused only if no frame can start there, and
\* every frame at the front is delivered once and leaves as a whole.
THEOREM ParserImplementsFrameStream == Spec => ImplementsFrameStream
<1>1. SInv /\ [Next]_vars => [FS!Next]_FS!fsVars
    BY RefineNext
<1> QED
    BY <1>1, RefineInit, SInvariant, PTL DEF Spec, FS!Spec, ImplementsFrameStream
-----------------------------------------------------------------------------
(***************************************************************************)
(* The reference definition.  Frames(s) is the value at 1 of a recursive   *)
(* function on the positions of s.  That such a function exists, that it   *)
(* depends on nothing but the bytes from a position on, and what it is of, *)
(* are shown by going down from the end of s.                              *)
(***************************************************************************)
LEMMA DownTo ==
    ASSUME NEW L \in Nat, NEW T,
           \A i \in 1 .. L + 1 : (\A j \in i + 1 .. L + 1 : j \in T) => i \in T
    PROVE  \A i \in 1 .. L + 1 : i \in T
<1> DEFINE U == {n \in 0 .. L : L + 1 - n \notin T}
<1>1. CASE U = {}
  <2> SUFFICES ASSUME NEW i \in 1 .. L + 1 PROVE i \in T
      OBVIOUS
  <2>1. L + 1 - i \in 0 .. L /\ L + 1 - (L + 1 - i) = i
      OBVIOUS
  <2> QED
      BY <1>1, <2>1
<1>2. CASE U # {}
  <2>1. U \subseteq Nat
      OBVIOUS
  <2>2. PICK n \in U : \A m \in U : n <= m
    <3> HIDE DEF U
    <3> QED
        BY <1>2, <2>1, LeastNat
  <2>3. n \in 0 .. L /\ L + 1 - n \in 1 .. L + 1 /\ L + 1 - n \notin T
      BY <2>2
  <2>4. \A j \in (L + 1 - n) + 1 .. L + 1 : j \in T
    <3> SUFFICES ASSUME NEW j \in (L + 1 - n) + 1 .. L + 1 PROVE j \in T
        OBVIOUS
    <3>1. L + 1 - j \in 0 .. L /\ L + 1 - j < n /\ L + 1 - (L + 1 - j) = j /\ n \in Nat /\ L + 1 - j \in Nat
        BY <2>3
    <3>2. L + 1 - j \notin U
        BY <2>2, <3>1
    <3> QED
        BY <3>1, <3>2
  <2> QED
      BY <2>3, <2>4
<1> QED
    BY <1>1, <1>2

Delivery == [packet : Packet, data : Seq(Byte)]

\* The body of the recursive function in Frames.
ScanAt(s, f, i) ==
    IF i > Len(s) THEN << >>
    ELSE IF FS!IsFrame(FS!From(s, i))
         THEN <<FS!FrontDelivery(FS!From(s, i))>>
                  \o f[i + FS!FrameLen(FS!FrontPacket(FS!From(s, i)))]
    ELSE IF FS!NotAFrame(FS!From(s, i)) THEN f[i + 1]
    ELSE << >>

Solves(s, f) == \A i \in 1 .. Len(s) + 1 : f[i] = ScanAt(s, f, i)

\* A complete header, and the length of its frame.
LEMMA FrontPacketType ==
    ASSUME NEW s \in Seq(Byte), FS!HeaderArrived(s)
    PROVE  /\ FS!FrontPacket(s) \in Packet
           /\ FS!FrontPacket(s) = CharToNetPacket(SubSeq(s, 2, 9))
           /\ FS!FrameLen(FS!FrontPacket(s)) = FS!FrontPacket(s).datalen + 10
           /\ FS!FrontPacket(s).datalen \in Nat
           /\ 9 <= Len(s) /\ Len(s) \in Nat
<1>1. Len(s) \in Nat /\ 9 <= Len(s) /\ NET_PACKAGE_HEADLEN = 8
  <2>1. Len(s) >= NET_PACKAGE_HEADLEN + 1
      BY FSOps
  <2> QED
      BY <2>1, LenProperties DEF NET_PACKAGE_HEADLEN
<1> DEFINE m == 2
           n == 9
<1>2. m \in Nat \ {0} /\ n \in Nat /\ n <= Len(s) /\ (IF m <= n THEN n - m + 1 ELSE 0) = NET_PACKAGE_HEADLEN
    BY <1>1
<1> HIDE DEF m, n
<1>3. SubSeq(s, m, n) \in Seq(Byte) /\ Len(SubSeq(s, m, n)) = NET_PACKAGE_HEADLEN
    BY <1>2, PartOfSeq
<1>4. FS!FrontPacket(s) = CharToNetPacket(SubSeq(s, m, n))
  <2>1. m = 2 /\ n = NET_PACKAGE_HEADLEN + 1
      BY <1>1 DEF m, n
  <2> QED
      BY <2>1, FSOps
<1>5. FS!FrontPacket(s) \in Packet
    BY <1>3, <1>4, CharToNetPacketType
<1>6. FS!FrontPacket(s).datalen \in Nat
    BY <1>5 DEF Packet
<1> DEFINE p == FS!FrontPacket(s)
<1> HIDE DEF p
<1>7. FS!FrameLen(p) = NET_PACKAGE_HEADLEN + p.datalen + 2
    BY FSOps
<1>8. FS!FrameLen(p) = p.datalen + 10
    BY <1>1, <1>6, <1>7 DEF p
<1> QED
    BY <1>1, <1>4, <1>5, <1>6, <1>8 DEF p, m, n

LEMMA IsFrameFacts ==
    ASSUME NEW s \in Seq(Byte), FS!IsFrame(s)
    PROVE  /\ FS!FrameLen(FS!FrontPacket(s)) \in 10 .. Len(s)
           /\ FS!FrontDelivery(s) \in Delivery
<1> DEFINE p == FS!FrontPacket(s)
<1>1. /\ p \in Packet /\ FS!FrameLen(p) = p.datalen + 10 /\ p.datalen \in Nat
      /\ 9 <= Len(s) /\ Len(s) \in Nat
    BY FrontPacketType DEF FS!IsFrame
<1>2. FS!FrameLen(p) <= Len(s)
    BY DEF FS!IsFrame
<1> HIDE DEF p
<1>3. FS!FrameLen(p) \in 10 .. Len(s)
    BY <1>1, <1>2
<1>4. FS!FrontDelivery(s) = [packet |-> p, data |-> SubSeq(s, 10, FS!FrameLen(p) - 1)]
  <2>1. FS!NET_PACKAGE_HEADLEN + 2 = 10
      BY DEF FS!NET_PACKAGE_HEADLEN
  <2> QED
      BY <2>1 DEF FS!FrontDelivery, p
<1>5. SubSeq(s, 10, FS!FrameLen(p) - 1) \in Seq(Byte)
  <2> DEFINE m == 10
             n == FS!FrameLen(p) - 1
  <2>1. m \in Nat \ {0} /\ n \in Nat /\ n <= Len(s)
      BY <1>1, <1>3
  <2> HIDE DEF m, n
  <2>2. SubSeq(s, m, n) \in Seq(Byte)
      BY <2>1, PartOfSeq
  <2> QED
      BY <2>2 DEF m, n
<1>6. FS!FrontDelivery(s) \in Delivery
    BY <1>1, <1>4, <1>5 DEF Delivery
<1> QED
    BY <1>3, <1>6 DEF p

\* g on the positions of t behind i agrees with f on those of a sequence t is the end of.
AgreeAfter(t, i, g, f, m) == \A j \in i + 1 .. Len(t) + 1 : g[j] = f[m + j - 1]

\* The scan of a sequence's end is the end of its scan.
LEMMA ScanShift ==
    ASSUME NEW s \in Seq(Byte), NEW m \in 1 .. Len(s) + 1, NEW t, t = From(s, m),
           NEW f, NEW g, NEW i \in 1 .. Len(t) + 1, AgreeAfter(t, i, g, f, m)
    PROVE  ScanAt(t, g, i) = ScanAt(s, f, m + i - 1)
<1> DEFINE k == m + i - 1
           q == From(s, k)
<1>1. /\ t \in Seq(Byte) /\ Len(t) = Len(s) - m + 1 /\ Len(s) \in Nat /\ Len(t) \in Nat
    BY FromParts, LenProperties
<1>2. /\ k \in 1 .. Len(s) + 1 /\ (k > Len(s) <=> i > Len(t)) /\ i \in 1 .. Len(s) - m + 2
      /\ k \in Nat /\ i \in Nat /\ m \in Nat
    BY <1>1
<1>3. From(t, i) = q
    BY <1>2, FromFrom
<1>4. q \in Seq(Byte) /\ Len(q) = Len(s) - k + 1
    BY <1>2, FromParts
<1>5. FS!From(t, i) = q /\ FS!From(s, k) = q
    BY <1>3, FSOps
<1> HIDE DEF q
<1>6. CASE i > Len(t)
    BY <1>2, <1>6 DEF ScanAt
<1>7. CASE i <= Len(t)
  <2>1. FS!IsFrame(q) =>
           g[i + FS!FrameLen(FS!FrontPacket(q))] = f[k + FS!FrameLen(FS!FrontPacket(q))]
    <3> SUFFICES ASSUME FS!IsFrame(q)
                 PROVE  g[i + FS!FrameLen(FS!FrontPacket(q))] = f[k + FS!FrameLen(FS!FrontPacket(q))]
        OBVIOUS
    <3> DEFINE l == FS!FrameLen(FS!FrontPacket(q))
    <3>1. l \in 10 .. Len(q)
        BY <1>4, IsFrameFacts
    <3> HIDE DEF l
    <3>2. i + l \in i + 1 .. Len(t) + 1 /\ m + (i + l) - 1 = k + l
        BY <1>1, <1>2, <1>4, <3>1
    <3>3. g[i + l] = f[m + (i + l) - 1]
        BY <3>2 DEF AgreeAfter
    <3> QED
        BY <3>2, <3>3 DEF l
  <2>2. g[i + 1] = f[k + 1]
    <3>1. i + 1 \in i + 1 .. Len(t) + 1 /\ m + (i + 1) - 1 = k + 1
        BY <1>1, <1>2, <1>7
    <3>2. g[i + 1] = f[m + (i + 1) - 1]
        BY <3>1 DEF AgreeAfter
    <3> QED
        BY <3>1, <3>2
  <2>3. ~(i > Len(t)) /\ ~(k > Len(s))
      BY <1>1, <1>2, <1>7
  <2> HIDE DEF k
  <2>4. ScanAt(t, g, i) = ScanAt(s, f, k)
      BY <1>5, <2>1, <2>2, <2>3 DEF ScanAt
  <2> QED
      BY <2>4 DEF k
<1> QED
    BY <1>1, <1>2, <1>6, <1>7
\* A scan looks only at what comes after the position.
LEMMA ScanLocal ==
    ASSUME NEW s \in Seq(Byte), NEW f, NEW g, NEW i \in 1 .. Len(s) + 1,
           \A j \in i + 1 .. Len(s) + 1 : g[j] = f[j]
    PROVE  ScanAt(s, g, i) = ScanAt(s, f, i)
<1> DEFINE m == 1
           t == s
<1>1. t = From(s, m) /\ Len(s) \in Nat
    BY SubSeqFull, LenProperties DEF From
<1>2. /\ m \in 1 .. Len(s) + 1 /\ i \in 1 .. Len(t) + 1 /\ m + i - 1 = i
      /\ \A j \in i + 1 .. Len(t) + 1 : m + j - 1 = j
    BY <1>1
<1>3. AgreeAfter(t, i, g, f, m)
    BY <1>2 DEF AgreeAfter
<1> HIDE DEF m, t
<1>4. ScanAt(t, g, i) = ScanAt(s, f, m + i - 1)
    BY <1>1, <1>2, <1>3, ScanShift
<1> QED
    BY <1>2, <1>4 DEF t

\* There is a scan of every sequence: it can be built from the end.
LEMMA ScanExists ==
    ASSUME NEW s \in Seq(Byte)
    PROVE  \E f : Solves(s, f)
<1> DEFINE L == Len(s)
           From1(m) == \E f : \A i \in m .. L + 1 : f[i] = ScanAt(s, f, i)
           T == {m \in 1 .. L + 1 : From1(m)}
<1>1. L \in Nat
    BY LenProperties
<1>2. \A m \in 1 .. L + 1 : (\A j \in m + 1 .. L + 1 : j \in T) => m \in T
  <2> SUFFICES ASSUME NEW m \in 1 .. L + 1, \A j \in m + 1 .. L + 1 : j \in T
               PROVE  From1(m)
      OBVIOUS
  <2>1. PICK f : \A i \in m + 1 .. L + 1 : f[i] = ScanAt(s, f, i)
    <3>1. CASE m = L + 1
      <4>1. m + 1 .. L + 1 = {}
          BY <1>1, <3>1
      <4> QED
          BY <4>1
    <3>2. CASE m # L + 1
      <4>1. m + 1 \in m + 1 .. L + 1
          BY <1>1, <3>2
      <4>2. m + 1 \in T
          BY <4>1
      <4> QED
          BY <4>2
    <3> QED
        BY <3>1, <3>2
  <2> DEFINE h == [i \in 1 .. L + 1 |-> IF i = m THEN ScanAt(s, f, m) ELSE f[i]]
  <2>2. h[m] = ScanAt(s, f, m) /\ \A i \in m + 1 .. L + 1 : h[i] = f[i]
      BY <1>1
  <2> HIDE DEF h
  <2>3. \A i \in m .. L + 1 : ScanAt(s, h, i) = ScanAt(s, f, i)
    <3> SUFFICES ASSUME NEW i \in m .. L + 1 PROVE ScanAt(s, h, i) = ScanAt(s, f, i)
        OBVIOUS
    <3>1. i \in 1 .. L + 1 /\ \A j \in i + 1 .. L + 1 : j \in m + 1 .. L + 1
        BY <1>1
    <3>2. \A j \in i + 1 .. L + 1 : h[j] = f[j]
        BY <2>2, <3>1
    <3> QED
        BY <3>1, <3>2, ScanLocal
  <2>4. \A i \in m .. L + 1 : h[i] = ScanAt(s, h, i)
    <3> SUFFICES ASSUME NEW i \in m .. L + 1 PROVE h[i] = ScanAt(s, h, i)
        OBVIOUS
    <3>1. i = m \/ i \in m + 1 .. L + 1
        BY <1>1
    <3> QED
        BY <2>1, <2>2, <2>3, <3>1
  <2> QED
      BY <2>4
<1>3. \A m \in 1 .. L + 1 : m \in T
  <2> HIDE DEF T, L
  <2> QED
      BY <1>1, <1>2, DownTo
<1>4. From1(1)
  <2>1. 1 \in 1 .. L + 1
      BY <1>1
  <2> QED
      BY <1>3, <2>1
<1> QED
    BY <1>4 DEF Solves

\* Two scans of the same bytes agree.
LEMMA ScanAgree ==
    ASSUME NEW s \in Seq(Byte), NEW m \in 1 .. Len(s) + 1, NEW t, t = From(s, m),
           NEW f, Solves(s, f), NEW g, Solves(t, g)
    PROVE  \A j \in 1 .. Len(t) + 1 : g[j] = f[m + j - 1]
<1> DEFINE L == Len(t)
           T == {j \in 1 .. L + 1 : g[j] = f[m + j - 1]}
<1>1. t \in Seq(Byte) /\ L \in Nat /\ L = Len(s) - m + 1 /\ Len(s) \in Nat
    BY FromParts, LenProperties
<1>2. \A i \in 1 .. L + 1 : (\A j \in i + 1 .. L + 1 : j \in T) => i \in T
  <2> SUFFICES ASSUME NEW i \in 1 .. L + 1, \A j \in i + 1 .. L + 1 : j \in T
               PROVE  g[i] = f[m + i - 1]
      OBVIOUS
  <2>1. AgreeAfter(t, i, g, f, m)
      BY DEF AgreeAfter
  <2> HIDE DEF T
  <2>2. ScanAt(t, g, i) = ScanAt(s, f, m + i - 1)
      BY <2>1, ScanShift
  <2>3. m + i - 1 \in 1 .. Len(s) + 1
      BY <1>1
  <2> QED
      BY <2>2, <2>3 DEF Solves
<1>3. \A i \in 1 .. L + 1 : i \in T
  <2> HIDE DEF T, L
  <2> QED
      BY <1>1, <1>2, DownTo
<1> QED
    BY <1>3

LEMMA FramesSolves ==
    ASSUME NEW s \in Seq(Byte)
    PROVE  \E f : Solves(s, f) /\ FS!Frames(s) = f[1]
<1> DEFINE Scan(f) == f = [i \in 1 .. Len(s) + 1 |-> ScanAt(s, f, i)]
           f1 == CHOOSE f : Scan(f)
<1>1. FS!Frames(s) = f1[1]
    BY DEF FS!Frames, ScanAt
<1>2. Len(s) \in Nat
    BY LenProperties
<1>3. \E f : Scan(f)
  <2>1. PICK f : Solves(s, f)
      BY ScanExists
  <2> DEFINE g == [i \in 1 .. Len(s) + 1 |-> f[i]]
  <2>2. \A i \in 1 .. Len(s) + 1 : g[i] = f[i]
      OBVIOUS
  <2>3. g = [i \in 1 .. Len(s) + 1 |-> g[i]]
      OBVIOUS
  <2> HIDE DEF g
  <2>4. \A i \in 1 .. Len(s) + 1 : g[i] = ScanAt(s, g, i)
    <3> SUFFICES ASSUME NEW i \in 1 .. Len(s) + 1 PROVE g[i] = ScanAt(s, g, i)
        OBVIOUS
    <3>1. \A j \in i + 1 .. Len(s) + 1 : j \in 1 .. Len(s) + 1
        BY <1>2
    <3>2. \A j \in i + 1 .. Len(s) + 1 : g[j] = f[j]
        BY <2>2, <3>1
    <3>3. ScanAt(s, g, i) = ScanAt(s, f, i)
        BY <3>2, ScanLocal
    <3> QED
        BY <2>1, <2>2, <3>3 DEF Solves
  <2> QED
      BY <2>3, <2>4
<1>4. Scan(f1)
    BY <1>3
<1>5. Solves(s, f1)
  <2> DEFINE h == f1
  <2> HIDE DEF f1
  <2> QED
      BY <1>4 DEF Solves
<1> QED
    BY <1>1, <1>5

\* Every value of a scan is the scan of what is left.
LEMMA FramesAt ==
    ASSUME NEW s \in Seq(Byte), NEW f, Solves(s, f), NEW m \in 1 .. Len(s) + 1
    PROVE  f[m] = FS!Frames(From(s, m))
<1> DEFINE t == From(s, m)
<1>1. t \in Seq(Byte) /\ Len(t) \in Nat /\ m \in Nat
    BY FromParts, LenProperties
<1>2. t = From(s, m)
    OBVIOUS
<1> HIDE DEF t
<1>3. PICK g : Solves(t, g) /\ FS!Frames(t) = g[1]
    BY <1>1, FramesSolves
<1>4. 1 \in 1 .. Len(t) + 1 /\ m + 1 - 1 = m
    BY <1>1
<1>5. \A j \in 1 .. Len(t) + 1 : g[j] = f[m + j - 1]
    BY <1>2, <1>3, ScanAgree
<1>6. g[1] = f[m + 1 - 1]
    BY <1>4, <1>5
<1> QED
    BY <1>2, <1>3, <1>4, <1>6

\* Frames, one step at a time.
LEMMA FramesUnfold ==
    ASSUME NEW s \in Seq(Byte)
    PROVE  /\ Len(s) = 0 => FS!Frames(s) = << >>
           /\ (Len(s) # 0 /\ FS!IsFrame(s)) =>
                  FS!Frames(s) = <<FS!FrontDelivery(s)>>
                                     \o FS!Frames(From(s, FS!FrameLen(FS!FrontPacket(s)) + 1))
           /\ (Len(s) # 0 /\ ~FS!IsFrame(s) /\ FS!NotAFrame(s)) =>
                  FS!Frames(s) = FS!Frames(From(s, 2))
           /\ (~FS!IsFrame(s) /\ ~FS!NotAFrame(s)) => FS!Frames(s) = << >>
<1>1. PICK f : Solves(s, f) /\ FS!Frames(s) = f[1]
    BY FramesSolves
<1>2. Len(s) \in Nat /\ 1 \in 1 .. Len(s) + 1 /\ 1 > Len(s) <=> Len(s) = 0
    BY LenProperties
<1>3. FS!Frames(s) = ScanAt(s, f, 1)
    BY <1>1, <1>2, LenProperties DEF Solves
<1>4. FS!From(s, 1) = s
    BY FSOps, SubSeqFull DEF From
<1> DEFINE l == FS!FrameLen(FS!FrontPacket(s))
<1>5. FS!Frames(s) = IF 1 > Len(s) THEN << >>
                     ELSE IF FS!IsFrame(s) THEN <<FS!FrontDelivery(s)>> \o f[1 + l]
                     ELSE IF FS!NotAFrame(s) THEN f[1 + 1]
                     ELSE << >>
    BY <1>3, <1>4 DEF ScanAt
<1>6. FS!IsFrame(s) => f[1 + l] = FS!Frames(From(s, l + 1))
  <2> SUFFICES ASSUME FS!IsFrame(s) PROVE f[1 + l] = FS!Frames(From(s, l + 1))
      OBVIOUS
  <2>1. l \in 10 .. Len(s)
      BY IsFrameFacts
  <2> HIDE DEF l
  <2>2. 1 + l = l + 1 /\ l + 1 \in 1 .. Len(s) + 1
      BY <2>1, LenProperties
  <2> QED
      BY <1>1, <2>2, FramesAt
<1>7. Len(s) # 0 => f[1 + 1] = FS!Frames(From(s, 2))
  <2> SUFFICES ASSUME Len(s) # 0 PROVE f[1 + 1] = FS!Frames(From(s, 2))
      OBVIOUS
  <2> DEFINE m == 1 + 1
  <2>1. m \in 1 .. Len(s) + 1 /\ m = 2
      BY LenProperties
  <2> HIDE DEF m
  <2>2. f[m] = FS!Frames(From(s, m))
      BY <1>1, <2>1, FramesAt
  <2> QED
      BY <2>1, <2>2 DEF m
<1>8. 1 > Len(s) <=> Len(s) = 0
    BY LenProperties
<1> HIDE DEF l
<1>9. /\ Len(s) = 0 => FS!Frames(s) = << >>
      /\ (Len(s) # 0 /\ FS!IsFrame(s)) => FS!Frames(s) = <<FS!FrontDelivery(s)>> \o FS!Frames(From(s, l + 1))
      /\ (Len(s) # 0 /\ ~FS!IsFrame(s) /\ FS!NotAFrame(s)) => FS!Frames(s) = FS!Frames(From(s, 2))
      /\ (~FS!IsFrame(s) /\ ~FS!NotAFrame(s)) => FS!Frames(s) = << >>
    BY <1>5, <1>6, <1>7, <1>8
<1> QED
    BY <1>9 DEF l

\* What the scan of any bytes finds is a sequence of deliveries.
LEMMA FramesType ==
    ASSUME NEW s \in Seq(Byte)
    PROVE  FS!Frames(s) \in Seq(Delivery)
<1>1. PICK f : Solves(s, f) /\ FS!Frames(s) = f[1]
    BY FramesSolves
<1> DEFINE L == Len(s)
           T == {i \in 1 .. L + 1 : f[i] \in Seq(Delivery)}
<1>2. L \in Nat
    BY LenProperties
<1>3. \A i \in 1 .. L + 1 : (\A j \in i + 1 .. L + 1 : j \in T) => i \in T
  <2> SUFFICES ASSUME NEW i \in 1 .. L + 1, \A j \in i + 1 .. L + 1 : j \in T
               PROVE  f[i] \in Seq(Delivery)
      OBVIOUS
  <2> DEFINE q == From(s, i)
             l == FS!FrameLen(FS!FrontPacket(q))
  <2>1. q \in Seq(Byte) /\ Len(q) = L - i + 1 /\ FS!From(s, i) = q
      BY FromParts, FSOps
  <2> HIDE DEF q
  <2>2. f[i] = IF i > L THEN << >>
               ELSE IF FS!IsFrame(q) THEN <<FS!FrontDelivery(q)>> \o f[i + l]
               ELSE IF FS!NotAFrame(q) THEN f[i + 1]
               ELSE << >>
      BY <1>1, <2>1 DEF Solves, ScanAt
  <2>3. FS!IsFrame(q) => <<FS!FrontDelivery(q)>> \o f[i + l] \in Seq(Delivery)
    <3> SUFFICES ASSUME FS!IsFrame(q) PROVE <<FS!FrontDelivery(q)>> \o f[i + l] \in Seq(Delivery)
        OBVIOUS
    <3>1. l \in 10 .. Len(q) /\ FS!FrontDelivery(q) \in Delivery
        BY <2>1, IsFrameFacts
    <3> HIDE DEF l
    <3>2. i + l \in i + 1 .. L + 1
        BY <1>2, <2>1, <3>1
    <3>3. f[i + l] \in Seq(Delivery)
        BY <3>2
    <3>4. <<FS!FrontDelivery(q)>> \in Seq(Delivery)
        BY <3>1
    <3> QED
        BY <3>3, <3>4, ConcatProperties
  <2>4. i <= L => f[i + 1] \in Seq(Delivery)
    <3>1. i <= L => i + 1 \in i + 1 .. L + 1
        BY <1>2
    <3> QED
        BY <3>1
  <2>5. << >> \in Seq(Delivery)
      BY EmptySeq
  <2>6. ~(i > L) => i <= L
      BY <1>2
  <2> HIDE DEF l, L, T
  <2> QED
      BY <2>2, <2>3, <2>4, <2>5, <2>6
<1>4. \A i \in 1 .. L + 1 : i \in T
  <2> HIDE DEF T, L
  <2> QED
      BY <1>2, <1>3, DownTo
<1>5. 1 \in 1 .. L + 1
    BY <1>2
<1> QED
    BY <1>1, <1>4, <1>5

\* Fewer bytes than the shortest frame hold no frame.
LEMMA FramesShort ==
    ASSUME NEW s \in Seq(Byte), Len(s) < 10
    PROVE  FS!Frames(s) = << >>
<1>1. PICK f : Solves(s, f) /\ FS!Frames(s) = f[1]
    BY FramesSolves
<1> DEFINE L == Len(s)
           T == {i \in 1 .. L + 1 : f[i] = << >>}
<1>2. L \in Nat /\ L < 10
    BY LenProperties
<1>3. \A i \in 1 .. L + 1 : (\A j \in i + 1 .. L + 1 : j \in T) => i \in T
  <2> SUFFICES ASSUME NEW i \in 1 .. L + 1, \A j \in i + 1 .. L + 1 : j \in T
               PROVE  f[i] = << >>
      OBVIOUS
  <2> DEFINE q == From(s, i)
  <2>1. q \in Seq(Byte) /\ Len(q) = L - i + 1 /\ FS!From(s, i) = q
      BY FromParts, FSOps
  <2> HIDE DEF q
  <2>2. ~FS!IsFrame(q)
    <3> SUFFICES ASSUME FS!IsFrame(q) PROVE FALSE
        OBVIOUS
    <3> DEFINE l == FS!FrameLen(FS!FrontPacket(q))
    <3>1. l \in 10 .. Len(q)
        BY <2>1, IsFrameFacts
    <3> HIDE DEF l
    <3> QED
        BY <1>2, <2>1, <3>1
  <2>3. f[i] = IF i > L THEN << >> ELSE IF FS!NotAFrame(q) THEN f[i + 1] ELSE << >>
      BY <1>1, <2>1, <2>2 DEF Solves, ScanAt
  <2>4. i <= L => f[i + 1] = << >>
    <3>1. i <= L => i + 1 \in i + 1 .. L + 1
        BY <1>2
    <3> QED
        BY <3>1
  <2>5. ~(i > L) => i <= L
      BY <1>2
  <2> HIDE DEF L, T
  <2> QED
      BY <2>3, <2>4, <2>5
<1>4. \A i \in 1 .. L + 1 : i \in T
  <2> HIDE DEF T, L
  <2> QED
      BY <1>2, <1>3, DownTo
<1>5. 1 \in 1 .. L + 1
    BY <1>2
<1> QED
    BY <1>1, <1>4, <1>5
-----------------------------------------------------------------------------
(***************************************************************************)
(* More bytes behind s change nothing about a front that is decided.       *)
(***************************************************************************)
LEMMA FrontStable ==
    ASSUME NEW s \in Seq(Byte), NEW x \in Seq(Byte), Len(s) # 0
    PROVE  /\ s \o x \in Seq(Byte) /\ Len(s \o x) >= Len(s) /\ Len(s \o x) \in Nat /\ Len(s) \in Nat
           /\ (s \o x)[1] = s[1]
           /\ FS!HeaderArrived(s) =>
                  /\ FS!HeaderArrived(s \o x)
                  /\ FS!FrontPacket(s \o x) = FS!FrontPacket(s)
           /\ \A i \in 1 .. Len(s) : (s \o x)[i] = s[i]
<1> DEFINE y == s \o x
<1>1. /\ Len(s) \in Nat /\ Len(x) \in Nat /\ y \in Seq(Byte) /\ Len(y) = Len(s) + Len(x)
      /\ \A i \in 1 .. Len(s) + Len(x) : y[i] = IF i <= Len(s) THEN s[i] ELSE x[i - Len(s)]
    BY ConcatProperties, LenProperties
<1> HIDE DEF y
<1>2. \A i \in 1 .. Len(s) : i \in 1 .. Len(s) + Len(x) /\ i <= Len(s)
    BY <1>1
<1>3. \A i \in 1 .. Len(s) : y[i] = s[i]
    BY <1>1, <1>2
<1>4. y[1] = s[1] /\ Len(y) \in Nat /\ Len(y) >= Len(s)
  <2>1. 1 \in 1 .. Len(s) /\ Len(y) \in Nat /\ Len(y) >= Len(s)
      BY <1>1
  <2> QED
      BY <1>3, <2>1
<1>5. ASSUME FS!HeaderArrived(s) PROVE FS!HeaderArrived(y) /\ FS!FrontPacket(y) = FS!FrontPacket(s)
  <2>1. Len(s) >= NET_PACKAGE_HEADLEN + 1 /\ Len(y) >= NET_PACKAGE_HEADLEN + 1
    <3>1. Len(s) >= NET_PACKAGE_HEADLEN + 1
        BY <1>5, FSOps
    <3> QED
        BY <1>1, <3>1 DEF NET_PACKAGE_HEADLEN
  <2>2. FS!HeaderArrived(y)
      BY <2>1, FSOps
  <2> DEFINE m == 2
             n == NET_PACKAGE_HEADLEN + 1
  <2>3. m \in Nat \ {0} /\ n \in 0 .. Len(s)
      BY <1>1, <2>1 DEF NET_PACKAGE_HEADLEN
  <2> HIDE DEF m, n
  <2>4. SubSeq(s \o x, m, n) = SubSeq(s, m, n)
      BY <2>3, PartOfConcat
  <2>5. FS!FrontPacket(y) = CharToNetPacket(SubSeq(y, m, n))
        /\ FS!FrontPacket(s) = CharToNetPacket(SubSeq(s, m, n))
      BY FSOps DEF m, n
  <2> QED
      BY <2>2, <2>4, <2>5 DEF y
<1> QED
    BY <1>1, <1>3, <1>4, <1>5 DEF y

LEMMA NotAFrameStable ==
    ASSUME NEW s \in Seq(Byte), NEW x \in Seq(Byte), Len(s) # 0, FS!NotAFrame(s)
    PROVE  FS!NotAFrame(s \o x) /\ ~FS!IsFrame(s \o x)
<1> DEFINE y == s \o x
           p == FS!FrontPacket(s)
<1>1. /\ y[1] = s[1] /\ Len(y) >= Len(s) /\ Len(y) \in Nat /\ Len(s) \in Nat
      /\ FS!HeaderArrived(s) => FS!HeaderArrived(y) /\ FS!FrontPacket(y) = p
      /\ \A i \in 1 .. Len(s) : y[i] = s[i]
    BY FrontStable
<1>2. CASE s[1] # HEAD
    BY <1>1, <1>2 DEF FS!NotAFrame, FS!IsFrame
<1>3. CASE FS!HeaderArrived(s) /\ ~FS!HeaderMatches(s)
  <2>1. ~FS!HeaderMatches(y)
      BY <1>1, <1>3 DEF FS!HeaderMatches
  <2> HIDE DEF y, p
  <2>2. FS!HeaderArrived(y)
      BY <1>1, <1>3
  <2> QED
      BY <2>1, <2>2 DEF FS!NotAFrame, FS!IsFrame, y
<1>4. CASE FS!HeaderArrived(s) /\ Len(s) >= FS!FrameLen(p) /\ s[FS!FrameLen(p)] # TAIL
  <2>1. FS!FrameLen(p) = p.datalen + 10 /\ p.datalen \in Nat
      BY <1>4, FrontPacketType
  <2> HIDE DEF y, p
  <2>2. FS!FrameLen(p) \in 1 .. Len(s) /\ Len(y) >= FS!FrameLen(p)
      BY <1>1, <1>4, <2>1
  <2>3. y[FS!FrameLen(p)] # TAIL
      BY <1>1, <1>4, <2>2
  <2>4. FS!HeaderArrived(y) /\ FS!FrontPacket(y) = p
      BY <1>1, <1>4
  <2> QED
      BY <2>2, <2>3, <2>4 DEF FS!NotAFrame, FS!IsFrame, y
<1> QED
    BY <1>2, <1>3, <1>4 DEF FS!NotAFrame

LEMMA IsFrameStable ==
    ASSUME NEW s \in Seq(Byte), NEW x \in Seq(Byte), FS!IsFrame(s)
    PROVE  /\ FS!IsFrame(s \o x)
           /\ FS!FrontPacket(s \o x) = FS!FrontPacket(s)
           /\ FS!FrontDelivery(s \o x) = FS!FrontDelivery(s)
           /\ From(s \o x, FS!FrameLen(FS!FrontPacket(s)) + 1)
                  = From(s, FS!FrameLen(FS!FrontPacket(s)) + 1) \o x
<1> DEFINE y == s \o x
           p == FS!FrontPacket(s)
           l == FS!FrameLen(p)
<1>1. l \in 10 .. Len(s) /\ Len(s) \in Nat
    BY IsFrameFacts, LenProperties
<1>2. Len(s) # 0 /\ FS!HeaderArrived(s) /\ s[1] = HEAD /\ FS!HeaderMatches(s) /\ s[l] = TAIL
  <2>1. FS!HeaderArrived(s) /\ s[1] = HEAD /\ FS!HeaderMatches(s) /\ s[l] = TAIL
      BY DEF FS!IsFrame
  <2> HIDE DEF l
  <2> QED
      BY <1>1, <2>1
<1>3. /\ y[1] = s[1] /\ Len(y) >= Len(s) /\ Len(y) \in Nat
      /\ FS!HeaderArrived(y) /\ FS!FrontPacket(y) = p
      /\ \A i \in 1 .. Len(s) : y[i] = s[i]
    BY <1>2, FrontStable
<1>4. FS!HeaderMatches(y)
    BY <1>2, <1>3 DEF FS!HeaderMatches
<1>5. FS!FrameLen(FS!FrontPacket(y)) = l
    BY <1>3
<1>6. y[l] = TAIL /\ Len(y) >= l
  <2> HIDE DEF l, y
  <2> QED
      BY <1>1, <1>2, <1>3
<1>7. FS!IsFrame(y)
  <2> HIDE DEF y, l, p
  <2> QED
      BY <1>2, <1>3, <1>4, <1>5, <1>6 DEF FS!IsFrame
<1>8. FS!FrontDelivery(y) = FS!FrontDelivery(s)
  <2> DEFINE m == FS!NET_PACKAGE_HEADLEN + 2
             n == l - 1
  <2>1. m \in Nat \ {0} /\ n \in 0 .. Len(s)
    <3> HIDE DEF l
    <3> QED
        BY <1>1 DEF FS!NET_PACKAGE_HEADLEN
  <2>2. FS!FrontDelivery(y) = [packet |-> p, data |-> SubSeq(y, m, n)]
        /\ FS!FrontDelivery(s) = [packet |-> p, data |-> SubSeq(s, m, n)]
      BY <1>3, <1>5 DEF FS!FrontDelivery
  <2> HIDE DEF m, n
  <2>3. SubSeq(s \o x, m, n) = SubSeq(s, m, n)
      BY <2>1, PartOfConcat
  <2> QED
      BY <2>2, <2>3
<1>9. From(s \o x, l + 1) = From(s, l + 1) \o x
  <2> HIDE DEF l
  <2>1. l + 1 \in 1 .. Len(s) + 1
      BY <1>1
  <2> QED
      BY <2>1, FromConcat
<1> QED
    BY <1>3, <1>7, <1>8, <1>9

\* Bytes that cannot start a frame do not show in what a scan finds, whatever follows.
LEMMA DropMany ==
    ASSUME NEW p \in Seq(Byte), NEW x \in Seq(Byte), NEW k \in 0 .. Len(p),
           \A i \in 1 .. k : FS!NotAFrame(FS!From(p, i))
    PROVE  FS!Frames(p \o x) = FS!Frames(From(p, k + 1) \o x)
<1> DEFINE F(i) == FS!Frames(From(p, i) \o x)
           T == {i \in 1 .. k + 1 : F(i) = F(k + 1)}
<1>1. k \in Nat /\ Len(p) \in Nat
    BY LenProperties
<1>2. \A i \in 1 .. k + 1 : (\A j \in i + 1 .. k + 1 : j \in T) => i \in T
  <2> SUFFICES ASSUME NEW i \in 1 .. k + 1, \A j \in i + 1 .. k + 1 : j \in T
               PROVE  F(i) = F(k + 1)
      OBVIOUS
  <2>1. CASE i = k + 1
      BY <2>1
  <2>2. CASE i # k + 1
    <3> DEFINE q == From(p, i)
               m == 2
    <3>0. i \in 1 .. k /\ i \in 1 .. Len(p) + 1 /\ i + 1 \in i + 1 .. k + 1
        BY <1>1, <2>2
    <3>1. F(i + 1) = F(k + 1)
      <4>1. i + 1 \in T
          BY <3>0
      <4> QED
          BY <4>1
    <3>2. q \in Seq(Byte) /\ Len(q) = Len(p) - i + 1 /\ FS!NotAFrame(q)
        BY <3>0, FromParts, FSOps
    <3>3. Len(q) # 0 /\ Len(q) \in Nat /\ m \in 1 .. Len(q) + 1 /\ m \in 1 .. Len(p) - i + 2 /\ i + m - 1 = i + 1
        BY <1>1, <3>0, <3>2
    <3>4. From(q, m) = From(p, i + 1)
        BY <3>0, <3>3, FromFrom
    <3> HIDE DEF q, m, T
    <3>5. FS!NotAFrame(q \o x) /\ ~FS!IsFrame(q \o x) /\ q \o x \in Seq(Byte) /\ Len(q \o x) # 0
      <4>1. FS!NotAFrame(q \o x) /\ ~FS!IsFrame(q \o x)
          BY <3>2, <3>3, NotAFrameStable
      <4>2. q \o x \in Seq(Byte) /\ Len(q \o x) = Len(q) + Len(x) /\ Len(x) \in Nat
          BY <3>2, ConcatProperties, LenProperties
      <4> QED
          BY <3>3, <4>1, <4>2
    <3> DEFINE y == q \o x
    <3> HIDE DEF y
    <3>6. FS!Frames(y) = FS!Frames(From(y, 2))
        BY <3>5, FramesUnfold DEF y
    <3>7. From(q \o x, m) = From(q, m) \o x
        BY <3>2, <3>3, FromConcat
    <3>8. From(y, 2) = From(p, i + 1) \o x
        BY <3>4, <3>7 DEF y, m
    <3> QED
        BY <3>1, <3>6, <3>8 DEF y, q
  <2> QED
      BY <2>1, <2>2
<1>3. \A i \in 1 .. k + 1 : i \in T
  <2> HIDE DEF T
  <2> QED
      BY <1>1, <1>2, DownTo
<1>4. F(1) = F(k + 1)
  <2>1. 1 \in 1 .. k + 1
      BY <1>1
  <2> QED
      BY <1>3, <2>1
<1>5. From(p, 1) = p
    BY SubSeqFull DEF From
<1> QED
    BY <1>4, <1>5
-----------------------------------------------------------------------------
(***************************************************************************)
(* What was delivered, and what a scan finds in the bytes that are left,   *)
(* is what a scan finds in all the bytes received: now and with any bytes  *)
(* behind them.  When recvdata has returned, nothing is left to be found.  *)
(***************************************************************************)
Got == SubSeq(stream, 1, received)

Explained ==
    \A x \in Seq(Byte) : FS!Frames(Got \o x) = delivered \o FS!Frames(Pending \o x)

NothingLeft == control = "idle" => FS!Frames(Pending) = << >>

CInv == SInv /\ Explained /\ NothingLeft

LEMMA DeliveredType == SInv => delivered \in Seq(Delivery)
    BY DEF SInv, FInv, BInv, TypeOK, Delivery

LEMMA GotType == SInv => Got \in Seq(Byte)
<1> SUFFICES ASSUME SInv PROVE Got \in Seq(Byte)
    OBVIOUS
<1>1. stream \in Seq(Byte) /\ received \in Nat /\ received <= Len(stream) /\ 1 \in Nat \ {0}
    BY PacketSyncAssumption, LenProperties DEF SInv, FInv, BInv, TypeOK
<1> QED
    BY <1>1, PartOfSeq DEF Got

\* There is nothing in no bytes.
LEMMA FramesEmpty == FS!Frames(<< >>) = << >>
<1>1. << >> \in Seq(Byte) /\ Len(<< >>) < 10
    BY EmptySeq
<1> QED
    BY <1>1, FramesShort

LEMMA CInit == Init => CInv
<1> SUFFICES ASSUME Init PROVE CInv
    OBVIOUS
<1>1. SInv /\ Pending = << >> /\ delivered = << >>
    BY SInit, RefineInit DEF FS!Init
<1>2. Got = << >>
  <2>1. received = 0
      BY DEF Init
  <2> QED
      BY <2>1, SubSeqEmpty DEF Got
<1>3. Explained
  <2> SUFFICES ASSUME NEW x \in Seq(Byte)
               PROVE  FS!Frames(Got \o x) = delivered \o FS!Frames(Pending \o x)
      BY DEF Explained
  <2>1. << >> \o x = x
      BY ConcatEmptySeq
  <2>2. << >> \o FS!Frames(x) = FS!Frames(x)
      BY FramesType, ConcatEmptySeq
  <2> QED
      BY <1>1, <1>2, <2>1, <2>2
<1>4. NothingLeft
    BY <1>1, FramesEmpty DEF NothingLeft
<1> QED
    BY <1>1, <1>3, <1>4 DEF CInv

\* A call brings more bytes for both scans.
LEMMA ArriveExplained ==
    ASSUME CInv, NEW k \in 1 .. Len(stream) - received, recvdata(k)
    PROVE  Explained'
<1>1. SInv
    BY DEF CInv
<1>2. chunk' \in Seq(Byte) /\ Pending \in Seq(Byte) /\ Pending' = Pending \o chunk'
    BY <1>1, ArrivePending
<1>3. Got' = Got \o chunk'
  <2> DEFINE m == 1
             n == received + k
  <2>1. /\ stream \in Seq(Byte) /\ received \in Nat /\ received <= Len(stream) /\ Len(stream) \in Nat
      BY <1>1, PacketSyncAssumption, LenProperties DEF SInv, FInv, BInv, TypeOK
  <2>2. m \in 1 .. Len(stream) + 1 /\ received \in m - 1 .. Len(stream) /\ n \in received .. Len(stream)
      BY <2>1
  <2>3. Got' = SubSeq(stream, m, n) /\ chunk' = SubSeq(stream, received + 1, n) /\ Got = SubSeq(stream, m, received)
      BY DEF recvdata, Got
  <2> HIDE DEF m, n
  <2>4. SubSeq(stream, m, received) \o SubSeq(stream, received + 1, n) = SubSeq(stream, m, n)
      BY <2>1, <2>2, ConcatAdjacentSubSeq
  <2> QED
      BY <2>3, <2>4
<1>4. delivered' = delivered
    BY DEF recvdata
<1> SUFFICES ASSUME NEW x \in Seq(Byte)
             PROVE  FS!Frames(Got' \o x) = delivered' \o FS!Frames(Pending' \o x)
    BY DEF Explained
<1> DEFINE c == chunk'
<1>5. c \in Seq(Byte) /\ Got' = Got \o c /\ Pending' = Pending \o c
    BY <1>2, <1>3
<1> HIDE DEF c
<1>6. c \o x \in Seq(Byte)
    BY <1>5, ConcatProperties
<1>7. (Got \o c) \o x = Got \o (c \o x)
  <2>1. Got \in Seq(Byte)
      BY <1>1, GotType
  <2> QED
      BY <1>5, <2>1, ConcatAssociative, SMTT(20)
<1>8. (Pending \o c) \o x = Pending \o (c \o x)
  <2>1. Pending \in Seq(Byte)
      BY <1>2
  <2> QED
      BY <1>5, <2>1, ConcatAssociative
<1>9. FS!Frames(Got \o (c \o x)) = delivered \o FS!Frames(Pending \o (c \o x))
    BY <1>6 DEF CInv, Explained
<1> QED
    BY <1>4, <1>5, <1>7, <1>8, <1>9

\* The bytes left are bytes.
LEMMA PendingType == SInv => Pending \in Seq(Byte)
<1> SUFFICES ASSUME SInv PROVE Pending \in Seq(Byte)
    OBVIOUS
<1> DEFINE a == SubSeq(readdata, headpos + 1, headpos + 1 + NET_PACKAGE_HEADLEN)
           c == From(readdata, headpos + 2 + NET_PACKAGE_HEADLEN + Len(packetdata))
<1>1. readdata \in Seq(Byte) /\ packetdata \in Seq(Byte) /\ Unused \in Seq(Byte)
    BY PendingParts
<1>2. CASE parsetype = "PARSE_NOTHING"
  <2>1. Pending = readdata \o Unused
      BY <1>2 DEF Pending
  <2>2. readdata \o Unused \in Seq(Byte)
      BY <1>1, ConcatProperties
  <2> QED
      BY <2>1, <2>2
<1>3. CASE parsetype # "PARSE_NOTHING"
  <2>1. /\ headpos + 1 \in Nat \ {0} /\ headpos + 1 + NET_PACKAGE_HEADLEN \in Nat
        /\ headpos + 1 + NET_PACKAGE_HEADLEN <= Len(readdata)
        /\ headpos + 2 + NET_PACKAGE_HEADLEN + Len(packetdata) \in Nat \ {0}
      BY <1>3, PendingParts DEF SInv, FInv, BInv, TypeOK, FrameUnderWay, NET_PACKAGE_HEADLEN
  <2>2. a \in Seq(Byte)
      BY <1>1, <2>1, PartOfSeq
  <2>3. c \in Seq(Byte)
      BY <1>1, <2>1, FromProperties
  <2>4. Pending = ((a \o packetdata) \o c) \o Unused
      BY <1>3 DEF Pending
  <2> HIDE DEF a, c
  <2>5. a \o packetdata \in Seq(Byte)
      BY <1>1, <2>2, ConcatProperties
  <2>6. (a \o packetdata) \o c \in Seq(Byte)
      BY <2>3, <2>5, ConcatProperties
  <2>7. ((a \o packetdata) \o c) \o Unused \in Seq(Byte)
      BY <1>1, <2>6, ConcatProperties
  <2> QED
      BY <2>4, <2>7
<1> QED
    BY <1>2, <1>3

\* The loop's steps take what a scan takes.
LEMMA LoopExplained == ASSUME CInv, LoopStep PROVE Explained'
<1>1. SInv /\ Pending \in Seq(Byte) /\ delivered \in Seq(Delivery) /\ Len(Pending) \in Nat
    BY PendingType, DeliveredType, LenProperties DEF CInv
<1>2. Got' = Got
  <2>1. stream' = stream /\ received' = received
      BY DEF LoopStep, Return, NoHead, ShortHeader, BadHeader, GoodHeader, ResumeFrame, NeedMore,
         BadTailKept, BadTailRebuilt, DeliverPacket, Completing, io
  <2> QED
      BY <2>1 DEF Got
<1> SUFFICES ASSUME NEW x \in Seq(Byte)
             PROVE  FS!Frames(Got \o x) = delivered' \o FS!Frames(Pending' \o x)
    BY <1>2 DEF Explained
<1>3. FS!Frames(Got \o x) = delivered \o FS!Frames(Pending \o x)
    BY DEF CInv, Explained
<1>4. CASE UNCHANGED FS!fsVars
    BY <1>3, <1>4 DEF FS!fsVars
<1>5. CASE FS!Discard
  <2>1. PICK k \in 1 .. Len(Pending) :
           /\ Pending' = FS!From(Pending, k + 1)
           /\ \A i \in 1 .. k : FS!NotAFrame(FS!From(Pending, i))
      BY <1>5 DEF FS!Discard
  <2>2. k \in 0 .. Len(Pending) /\ Pending' = From(Pending, k + 1)
      BY <1>1, <2>1, FSOps
  <2>3. FS!Frames(Pending \o x) = FS!Frames(From(Pending, k + 1) \o x)
      BY <1>1, <2>1, <2>2, DropMany
  <2>4. delivered' = delivered
      BY <1>5 DEF FS!Discard
  <2> QED
      BY <1>3, <2>2, <2>3, <2>4
<1>6. CASE FS!Deliver
  <2> DEFINE l == FS!FrameLen(FS!FrontPacket(Pending))
             d == FS!FrontDelivery(Pending)
             q == From(Pending, l + 1)
             y == Pending \o x
  <2>1. FS!IsFrame(Pending) /\ delivered' = Append(delivered, d) /\ Pending' = q
      BY <1>6, FSOps DEF FS!Deliver
  <2>2. /\ FS!IsFrame(y) /\ FS!FrontPacket(y) = FS!FrontPacket(Pending)
        /\ FS!FrontDelivery(y) = d /\ From(y, l + 1) = q \o x
      BY <1>1, <2>1, IsFrameStable
  <2>3. l \in 10 .. Len(Pending) /\ d \in Delivery
      BY <1>1, <2>1, IsFrameFacts
  <2>4. y \in Seq(Byte) /\ Len(y) = Len(Pending) + Len(x) /\ Len(x) \in Nat
      BY <1>1, ConcatProperties, LenProperties
  <2>5. FS!FrameLen(FS!FrontPacket(y)) = l
      BY <2>2
  <2>6. q \in Seq(Byte) /\ q \o x \in Seq(Byte)
    <3> HIDE DEF l
    <3>1. l + 1 \in Nat \ {0}
        BY <2>3
    <3>2. q \in Seq(Byte)
        BY <1>1, <3>1, FromProperties
    <3> HIDE DEF q
    <3> QED
        BY <3>2, ConcatProperties
  <2> HIDE DEF l, d, q, y
  <2>7. FS!Frames(y) = <<d>> \o FS!Frames(q \o x)
    <3>1. Len(y) # 0
        BY <1>1, <2>3, <2>4
    <3>2. FS!Frames(y) = <<FS!FrontDelivery(y)>> \o FS!Frames(From(y, FS!FrameLen(FS!FrontPacket(y)) + 1))
        BY <2>2, <2>4, <3>1, FramesUnfold
    <3> QED
        BY <2>2, <2>5, <3>2
  <2> DEFINE e == FS!Frames(q \o x)
  <2>8. e \in Seq(Delivery) /\ <<d>> \in Seq(Delivery)
    <3>1. e \in Seq(Delivery)
        BY <2>6, FramesType
    <3>2. <<d>> \in Seq(Delivery)
        BY <2>3
    <3> QED
        BY <3>1, <3>2
  <2>9. delivered' = delivered \o <<d>>
      BY <1>1, <2>1, <2>3, AppendIsConcat
  <2> HIDE DEF e
  <2>10. (delivered \o <<d>>) \o e = delivered \o (<<d>> \o e)
    <3> DEFINE f == <<d>>
    <3>1. f \in Seq(Delivery) /\ delivered \in Seq(Delivery) /\ e \in Seq(Delivery)
        BY <1>1, <2>8
    <3> HIDE DEF f
    <3>2. (delivered \o f) \o e = delivered \o (f \o e)
        BY <3>1, ConcatAssociative
    <3> QED
        BY <3>2 DEF f
  <2> QED
      BY <1>3, <2>1, <2>7, <2>9, <2>10 DEF e, y
<1> QED
    BY <1>1, <1>4, <1>5, <1>6, LoopStepRefines

\* Return leaves fewer bytes than the shortest frame has.
LEMMA ReturnLeavesNothing == ASSUME CInv, Return PROVE NothingLeft'
<1>1. SInv
    BY DEF CInv
<1>2. /\ readdata \in Seq(Byte) /\ Len(readdata) \in Nat /\ iret \in 0 .. Len(chunk) /\ Len(chunk) \in Nat
    BY <1>1, PendingParts
<1>3. ~(iret < Len(chunk)) /\ Len(readdata) < 10 /\ control = "loop"
    BY <1>2 DEF Return, MoreWork, NET_PACKAGE_HEADLEN
<1>4. parsetype = "PARSE_NOTHING"
    BY <1>1, <1>3 DEF SInv, FInv, BInv, TypeOK, CallHasChunk
<1>5. Unused' = << >>
  <2>1. iret' + 1 = 1 /\ chunk' = << >>
      BY DEF Return
  <2> QED
      BY <2>1, FromEmpty DEF Unused, From
<1>6. Pending' = readdata \o << >>
    BY <1>4, <1>5 DEF Return, buffers, Pending
<1>7. Pending' = readdata
    BY <1>2, <1>6, ConcatEmptySeq
<1>8. FS!Frames(readdata) = << >>
    BY <1>2, <1>3, FramesShort
<1> QED
    BY <1>7, <1>8 DEF NothingLeft

\* NeedMore leaves the front of a frame whose end has not arrived.
LEMMA NeedMoreLeavesNothing == ASSUME CInv, NeedMore PROVE NothingLeft'
<1> DEFINE a == FrameFront
           c == From(readdata, headpos + 2 + NET_PACKAGE_HEADLEN + Len(packetdata))
           d == packetdata \o Unused
<1>1. SInv /\ parsetype = "PARSE_HEAD" /\ Len(packetdata) + Len(Unused) < BodyLen
    BY DEF CInv, NeedMore, SInv, FInv, BInv, BodyHasFrame
<1>2. /\ readdata \in Seq(Byte) /\ Len(readdata) \in Nat
      /\ packetdata \in Seq(Byte) /\ Len(packetdata) \in Nat
      /\ Unused \in Seq(Byte) /\ headpos \in Nat /\ BodyLen \in Nat /\ Len(Unused) \in Nat
    BY <1>1, PendingParts, LenProperties
<1>3. Pending' = Pending
    BY <1>1, NeedMoreKeeps DEF FS!fsVars
<1>4. c = << >>
  <2>1. Len(readdata) <= headpos + 1 + NET_PACKAGE_HEADLEN + Len(packetdata)
      BY <1>1, <1>2 DEF SInv, FInv, ReadDataUsed
  <2>2. /\ headpos + 2 + NET_PACKAGE_HEADLEN + Len(packetdata) \in Nat
        /\ headpos + 2 + NET_PACKAGE_HEADLEN + Len(packetdata) > Len(readdata)
      BY <1>2, <2>1 DEF NET_PACKAGE_HEADLEN
  <2> QED
      BY <1>2, <2>2, FromPastEnd
<1>5. Pending = ((a \o packetdata) \o c) \o Unused
    BY <1>1 DEF Pending, FrameFront
<1>6. /\ FrameFront \in Seq(Byte) /\ Len(FrameFront) = 9 /\ FrameFront[1] = HEAD
      /\ theNexPacket = CharToNetPacket(SubSeq(FrameFront, 2, 9))
      /\ theNexPacket \in Packet /\ theNexPacket.header = HEAD /\ theNexPacket.tail = TAIL
    BY <1>1, FrontOfFrame
<1>7. d \in Seq(Byte) /\ Len(d) = Len(packetdata) + Len(Unused)
    BY <1>2, ConcatProperties
<1> HIDE DEF a, c, d
<1>8. Pending = (a \o d) \o << >>
  <2>1. a \in Seq(Byte) /\ packetdata \in Seq(Byte) /\ Unused \in Seq(Byte)
      BY <1>2, <1>6 DEF a
  <2>2. (a \o packetdata) \o Unused = a \o (packetdata \o Unused)
      BY <2>1, ConcatAssociative
  <2>3. a \o packetdata \in Seq(Byte)
      BY <2>1, ConcatProperties
  <2>4. (a \o packetdata) \o << >> = a \o packetdata
      BY <2>3, ConcatEmptySeq
  <2>5. a \o d \in Seq(Byte)
      BY <1>7, <2>1, ConcatProperties
  <2>6. (a \o d) \o << >> = a \o d
      BY <2>5, ConcatEmptySeq
  <2> QED
      BY <1>4, <1>5, <2>2, <2>4, <2>6 DEF d
<1>9. LaidOut(a, d, << >>, Pending)
  <2>1. << >> \in Seq(Byte) /\ a \in Seq(Byte) /\ Len(a) = 9
      BY <1>6, EmptySeq DEF a
  <2> QED
      BY <1>7, <1>8, <2>1, FrameParts
<1>10. /\ Pending \in Seq(Byte) /\ Len(Pending) = 9 + Len(d) /\ Pending[1] = HEAD
       /\ SubSeq(Pending, 2, 9) = SubSeq(FrameFront, 2, 9)
  <2>1. Len(<< >>) = 0
      BY EmptySeq
  <2>2. Len(Pending) = 9 + Len(d) + Len(<< >>)
      BY <1>9 DEF LaidOut
  <2>3. Pending \in Seq(Byte) /\ Pending[1] = a[1] /\ SubSeq(Pending, 2, 9) = SubSeq(a, 2, 9)
      BY <1>9 DEF LaidOut
  <2> QED
      BY <1>2, <1>6, <1>7, <2>1, <2>2, <2>3 DEF a
<1>11. FS!FrontPacket(Pending) = theNexPacket
  <2>1. NET_PACKAGE_HEADLEN + 1 = 9
      BY DEF NET_PACKAGE_HEADLEN
  <2> QED
      BY <1>6, <1>10, <2>1, FSOps
<1>12. FS!HeaderMatches(Pending) /\ ~(Len(Pending) >= FS!FrameLen(FS!FrontPacket(Pending)))
  <2>1. FS!HeaderMatches(Pending)
      BY <1>6, <1>11 DEF FS!HeaderMatches
  <2>2. FS!FrameLen(theNexPacket) = 9 + BodyLen
    <3>1. theNexPacket.datalen \in Nat /\ BodyLen = theNexPacket.datalen + 1
        BY <1>6 DEF Packet, BodyLen
    <3> QED
        BY <3>1, FSOps DEF NET_PACKAGE_HEADLEN
  <2>3. Len(Pending) < 9 + BodyLen /\ Len(Pending) \in Nat /\ 9 + BodyLen \in Nat
      BY <1>1, <1>2, <1>7, <1>10
  <2> QED
      BY <1>11, <2>1, <2>2, <2>3
<1>13. ~FS!IsFrame(Pending) /\ ~FS!NotAFrame(Pending)
    BY <1>10, <1>12 DEF FS!IsFrame, FS!NotAFrame
<1>14. FS!Frames(Pending) = << >>
    BY <1>10, <1>13, FramesUnfold
<1> QED
    BY <1>3, <1>14 DEF NothingLeft

LEMMA CNext == CInv /\ [Next]_vars => CInv'
<1> SUFFICES ASSUME CInv, [Next]_vars PROVE CInv'
    OBVIOUS
<1>1. SInv'
    BY SNext DEF CInv
<1>2. CASE \E k \in 1 .. Len(stream) - received : recvdata(k)
  <2>1. PICK k \in 1 .. Len(stream) - received : recvdata(k)
      BY <1>2
  <2>2. control' # "idle"
      BY <2>1 DEF recvdata
  <2> QED
      BY <1>1, <2>1, <2>2, ArriveExplained DEF CInv, NothingLeft
<1>3. CASE LoopStep
  <2>1. Explained'
      BY <1>3, LoopExplained
  <2>2. CASE Return
      BY <1>1, <2>1, <2>2, ReturnLeavesNothing DEF CInv
  <2>3. CASE NeedMore
      BY <1>1, <2>1, <2>3, NeedMoreLeavesNothing DEF CInv
  <2>4. CASE ~Return /\ ~NeedMore
    <3>1. control' # "idle"
        BY <1>3, <2>4 DEF LoopStep, NoHead, ShortHeader, BadHeader, GoodHeader, ResumeFrame,
           BadTailKept, BadTailRebuilt, DeliverPacket, Completing, HeaderComplete, Searching
    <3> QED
        BY <1>1, <2>1, <3>1 DEF NothingLeft, CInv
  <2> QED
      BY <2>2, <2>3, <2>4
<1>4. CASE UNCHANGED vars
  <2>1. Pending' = Pending /\ Got' = Got /\ delivered' = delivered /\ control' = control
      BY <1>4 DEF vars, Pending, Unused, From, Got
  <2> QED
      BY <1>1, <2>1 DEF CInv, Explained, NothingLeft
<1> QED
    BY <1>2, <1>3, <1>4 DEF Next, Finished

\* When recvdata has returned, it has delivered exactly what one scan over all the bytes
\* received so far finds: for every stream, however it is cut, whatever the buffers hold.
THEOREM ChunksDoNotMatter == Spec => []ChunkingIrrelevant
<1>1. Spec => []CInv
    BY CInit, CNext, PTL DEF Spec
<1>2. CInv => ChunkingIrrelevant
  <2> SUFFICES ASSUME CInv, control = "idle"
               PROVE  delivered = FS!Frames(SubSeq(stream, 1, received))
      BY DEF ChunkingIrrelevant
  <2>1. SInv
      BY DEF CInv
  <2>2. Got \in Seq(Byte) /\ Pending \in Seq(Byte) /\ delivered \in Seq(Delivery) /\ << >> \in Seq(Byte)
      BY <2>1, GotType, PendingType, DeliveredType, EmptySeq
  <2>3. Got \o << >> = Got /\ Pending \o << >> = Pending /\ delivered \o << >> = delivered
      BY <2>2, ConcatEmptySeq
  <2>4. FS!Frames(Got \o << >>) = delivered \o FS!Frames(Pending \o << >>)
      BY <2>2 DEF CInv, Explained
  <2>5. FS!Frames(Pending) = << >>
      BY DEF CInv, NothingLeft
  <2> QED
      BY <2>3, <2>4, <2>5 DEF Got
<1> QED
    BY <1>1, <1>2, PTL
-----------------------------------------------------------------------------
(***************************************************************************)
(* The round trip.  First the length field: four digits to the base Radix. *)
(***************************************************************************)
LEMMA DivModOf ==
    ASSUME NEW a \in Nat, NEW b \in Nat \ {0}
    PROVE  a \div b \in Nat /\ a % b \in 0 .. b - 1 /\ a = b * (a \div b) + (a % b)
    OBVIOUS

LEMMA DivTwice ==
    ASSUME NEW a \in Nat, NEW b \in Nat \ {0}, NEW c \in Nat \ {0}
    PROVE  a \div (b * c) = (a \div b) \div c
    OBVIOUS

LEMMA DivBelow ==
    ASSUME NEW a \in Nat, NEW b \in Nat \ {0}, NEW c \in Nat, a < b * c
    PROVE  a \div b < c
    OBVIOUS

LEMMA ModBelow ==
    ASSUME NEW a \in Nat, NEW b \in Nat \ {0}, a < b
    PROVE  a % b = a
    OBVIOUS

LEMMA LengthReadBack ==
    ASSUME NEW n \in Nat, n < Radix * Radix * Radix * Radix
    PROVE  /\ \A i \in 1 .. 4 : Int32ToChar(n)[i] \in Byte
           /\ Int32ToChar(n) \in Seq(Byte) /\ Len(Int32ToChar(n)) = 4
           /\ CharToInt32(Int32ToChar(n)) = n
<1> DEFINE R == Radix
           q1 == n \div R
           q2 == q1 \div R
           q3 == q2 \div R
<1>0. R \in Nat \ {0}
    BY NetBaseAssumption
<1>1. q1 \in Nat /\ n = R * q1 + (n % R) /\ n % R \in 0 .. R - 1
    BY <1>0, DivModOf
<1>2. q2 \in Nat /\ q1 = R * q2 + (q1 % R) /\ q1 % R \in 0 .. R - 1
    BY <1>0, <1>1, DivModOf
<1>3. q3 \in Nat /\ q2 = R * q3 + (q2 % R) /\ q2 % R \in 0 .. R - 1
    BY <1>0, <1>2, DivModOf
<1>4. R * R \in Nat \ {0} /\ R * R * R \in Nat \ {0}
    BY <1>0
<1>5. n \div (R * R) = q2
    BY <1>0, DivTwice
<1>6. n \div (R * R * R) = q3
  <2>1. n \div ((R * R) * R) = (n \div (R * R)) \div R
      BY <1>0, <1>4, DivTwice
  <2> QED
      BY <1>5, <2>1
<1>7. q3 < R
    BY <1>0, <1>4, <1>6, DivBelow
<1>8. q3 % R = q3
    BY <1>0, <1>3, <1>7, ModBelow
<1> HIDE DEF q1, q2, q3
<1> DEFINE a == q3
           b == q2 % R
           c == q1 % R
           d == n % R
           s == <<a, b, c, d>>
<1>9. /\ (n \div (Radix * Radix * Radix)) % Radix = a
      /\ (n \div (Radix * Radix)) % Radix = b
      /\ (n \div Radix) % Radix = c
    BY <1>5, <1>6, <1>8 DEF q1
<1>10. Int32ToChar(n) = s
    BY <1>9 DEF Int32ToChar
<1>11. a \in Byte /\ b \in Byte /\ c \in Byte /\ d \in Byte
  <2>1. a \in 0 .. R - 1
      BY <1>0, <1>3, <1>7
  <2> QED
      BY <1>1, <1>2, <1>3, <2>1 DEF Byte
<1>12. /\ a * R + b = q2
       /\ q2 * R + c = q1
       /\ q1 * R + d = n
    BY <1>0, <1>1, <1>2, <1>3
<1> HIDE DEF a, b, c, d
<1>13. s[1] = a /\ s[2] = b /\ s[3] = c /\ s[4] = d /\ s \in Seq(Byte) /\ Len(s) = 4
    BY <1>11
<1>14. \A i \in 1 .. 4 : s[i] \in Byte
  <2>1. \A i \in 1 .. 4 : i \in {1, 2, 3, 4}
      OBVIOUS
  <2> QED
      BY <1>11, <1>13, <2>1
<1> HIDE DEF s
<1>15. CharToInt32(s) = ((a * R + b) * R + c) * R + d
    BY <1>13 DEF CharToInt32
<1> QED
    BY <1>10, <1>12, <1>13, <1>14, <1>15
\* The nine bytes in front of a message's data, and what is read from them.
Front(m) == <<m.packet.header>> \o NetPacketToChar(m.packet)

LEMMA HeaderReadBack ==
    ASSUME NEW m \in Message
    PROVE  /\ NetPacketToChar(m.packet) \in Seq(Byte) /\ Len(NetPacketToChar(m.packet)) = 8
           /\ CharToNetPacket(NetPacketToChar(m.packet)) = m.packet
<1> DEFINE p == m.packet
           n == p.datalen
           h == <<p.version, p.header, p.tail, p.type>>
           l == Int32ToChar(n)
           c == h \o l
<1>1. /\ p \in Packet /\ n \in Nat /\ n < Radix * Radix * Radix * Radix
      /\ p.version \in Byte /\ p.header \in Byte /\ p.tail \in Byte /\ p.type \in Byte
    BY DEF Message, Packet
<1>2. p = [version |-> p.version, header |-> p.header, tail |-> p.tail, type |-> p.type, datalen |-> n]
    BY <1>1 DEF Packet
<1>3. l \in Seq(Byte) /\ Len(l) = 4 /\ CharToInt32(l) = n /\ \A i \in 1 .. 4 : l[i] \in Byte
    BY <1>1, LengthReadBack
<1>4. NetPacketToChar(p) = c
    BY DEF NetPacketToChar
<1> HIDE DEF n, l
<1>5. /\ h \in Seq(Byte) /\ Len(h) = 4
      /\ h[1] = p.version /\ h[2] = p.header /\ h[3] = p.tail /\ h[4] = p.type
  <2> DEFINE v == p.version
             e == p.header
             t == p.tail
             y == p.type
             g == <<v, e, t, y>>
  <2>1. v \in Byte /\ e \in Byte /\ t \in Byte /\ y \in Byte
      BY <1>1
  <2> HIDE DEF v, e, t, y
  <2>2. g \in Seq(Byte) /\ Len(g) = 4 /\ g[1] = v /\ g[2] = e /\ g[3] = t /\ g[4] = y
      BY <2>1
  <2> QED
      BY <2>2 DEF v, e, t, y
<1> HIDE DEF h, p
<1>6. /\ c \in Seq(Byte) /\ Len(c) = Len(h) + Len(l)
      /\ \A i \in 1 .. Len(h) + Len(l) : c[i] = IF i <= Len(h) THEN h[i] ELSE l[i - Len(h)]
    BY <1>3, <1>5, ConcatProperties
<1> HIDE DEF c
<1>7. Len(c) = 8 /\ c[1] = h[1] /\ c[2] = h[2] /\ c[3] = h[3] /\ c[4] = h[4]
    BY <1>3, <1>5, <1>6
<1>8. SubSeq(c, 5, 8) = l
  <2> DEFINE i == 5
             j == 8
             s == SubSeq(c, i, j)
  <2>1. i \in Nat \ {0} /\ j \in Nat /\ j <= Len(c)
        /\ (IF i <= j THEN j - i + 1 ELSE 0) = 4 /\ j - i + 1 = 4
        /\ \A k \in 1 .. 4 : i + k - 1 = 4 + k
      BY <1>7
  <2>2. /\ s \in Seq(Byte) /\ Len(s) = 4
        /\ \A k \in 1 .. 4 : s[k] = c[4 + k]
    <3> HIDE DEF i, j
    <3> QED
        BY <1>6, <2>1, PartOfSeq
  <2> HIDE DEF s
  <2>3. \A k \in 1 .. 4 : c[4 + k] = l[k]
      BY <1>3, <1>5, <1>6
  <2>4. s = l
      BY <1>3, <2>2, <2>3, SeqEqual
  <2> QED
      BY <2>4 DEF s
<1>9. CharToNetPacket(c) = p
    BY <1>2, <1>3, <1>5, <1>7, <1>8 DEF CharToNetPacket, NET_PACKAGE_HEADLEN
<1> QED
    BY <1>4, <1>6, <1>7, <1>9 DEF p
\* What is found at the front of a stream that begins with a message's frame.
LEMMA MessageAtFront ==
    ASSUME NEW m \in Message, NEW r \in Seq(Byte), NEW x, x = PacketData(m.packet, m.data) \o r
    PROVE  /\ x \in Seq(Byte) /\ Len(x) # 0
           /\ FS!IsFrame(x) /\ FS!FrontDelivery(x) = m
           /\ From(x, FS!FrameLen(FS!FrontPacket(x)) + 1) = r
<1> DEFINE p == m.packet
           h == <<p.header>>
           c == NetPacketToChar(p)
           a == h \o c
           b == m.data
           t == <<p.tail>>
           d == b \o t
           l == Len(b)
<1>1. /\ m = [packet |-> p, data |-> b]
      /\ p \in Packet /\ p.header = HEAD /\ p.tail = TAIL /\ p.datalen = l
      /\ b \in Seq(Byte) /\ l \in Nat
    BY LenProperties DEF Message
<1>2. c \in Seq(Byte) /\ Len(c) = 8 /\ CharToNetPacket(c) = p
    BY HeaderReadBack
<1>3. /\ h \in Seq(Byte) /\ Len(h) = 1 /\ h[1] = HEAD
      /\ t \in Seq(Byte) /\ Len(t) = 1 /\ t[1] = TAIL
  <2> DEFINE v == HEAD
             w == TAIL
  <2>1. v \in Byte /\ w \in Byte
      BY NetBaseAssumption
  <2> HIDE DEF v, w
  <2>2. <<v>> \in Seq(Byte) /\ Len(<<v>>) = 1 /\ <<v>>[1] = v /\ <<w>> \in Seq(Byte) /\ Len(<<w>>) = 1 /\ <<w>>[1] = w
      BY <2>1
  <2> QED
      BY <1>1, <2>2 DEF v, w
<1>4. PacketData(p, b) = (a \o b) \o t
  <2>1. SubSeq(b, 1, Len(b)) = b
      BY <1>1, SubSeqFull
  <2> QED
      BY <1>1, <2>1 DEF PacketData
<1> HIDE DEF p, h, c, b, t
<1>5. a \in Seq(Byte) /\ Len(a) = 9 /\ a[1] = HEAD
  <2>1. /\ a \in Seq(Byte) /\ Len(a) = Len(h) + Len(c)
        /\ \A i \in 1 .. Len(h) + Len(c) : a[i] = IF i <= Len(h) THEN h[i] ELSE c[i - Len(h)]
      BY <1>2, <1>3, ConcatProperties
  <2> HIDE DEF a
  <2> QED
      BY <1>2, <1>3, <2>1
<1>6. SubSeq(a, 2, 9) = c
  <2> DEFINE i == 2
             j == 9
  <2>1. i \in 1 .. Len(h) + 1 /\ i \in Nat /\ i > Len(h) /\ j = Len(a)
      BY <1>3, <1>5
  <2>2. << >> \o c = c
      BY <1>2, ConcatEmptySeq
  <2> HIDE DEF i, j
  <2>3. From(a, i) = From(h, i) \o c
      BY <1>2, <1>3, <2>1, FromConcat
  <2>4. From(h, i) = << >>
      BY <1>3, <2>1, FromPastEnd
  <2>5. SubSeq(a, i, j) = c
      BY <2>1, <2>2, <2>3, <2>4 DEF From
  <2> QED
      BY <2>5 DEF i, j
<1> HIDE DEF a
<1>7. /\ d \in Seq(Byte) /\ Len(d) = l + 1 /\ d[l + 1] = TAIL
      /\ SubSeq(d, 1, l) = b
  <2>0. b \in Seq(Byte) /\ t \in Seq(Byte)
      BY <1>1, <1>3
  <2>1. /\ d \in Seq(Byte) /\ Len(d) = Len(b) + Len(t)
        /\ \A i \in 1 .. Len(b) + Len(t) : d[i] = IF i <= Len(b) THEN b[i] ELSE t[i - Len(b)]
      BY <2>0, ConcatProperties
  <2>2. SubSeq(d, 1, l) = SubSeq(b, 1, l)
    <3> DEFINE i == 1
    <3>1. i \in Nat \ {0} /\ l \in 0 .. Len(b)
        BY <1>1
    <3> HIDE DEF i
    <3>2. SubSeq(b \o t, i, l) = SubSeq(b, i, l)
        BY <1>1, <1>3, <3>1, PartOfConcat
    <3> QED
        BY <3>2 DEF i
  <2>3. SubSeq(b, 1, l) = b
      BY <1>1, SubSeqFull
  <2> HIDE DEF d
  <2>4. /\ l + 1 \in 1 .. Len(b) + Len(t) /\ ~ (l + 1 <= Len(b))
        /\ l + 1 - Len(b) = 1 /\ Len(b) + Len(t) = l + 1
      BY <1>1, <1>3
  <2>5. d[l + 1] = t[l + 1 - Len(b)]
      BY <2>1, <2>4
  <2>6. d[l + 1] = TAIL
      BY <1>3, <2>4, <2>5
  <2> QED
      BY <2>1, <2>2, <2>3, <2>4, <2>6
<1>8. x = (a \o d) \o r
  <2>1. (a \o b) \o t = a \o (b \o t)
      BY <1>1, <1>3, <1>5, ConcatAssociative, SMTT(20)
  <2> QED
      BY <1>4, <2>1 DEF p, b
<1> HIDE DEF d
<1>9. LaidOut(a, d, r, x)
    BY <1>5, <1>7, <1>8, FrameParts
<1>10. /\ x \in Seq(Byte) /\ Len(x) = 10 + l + Len(r) /\ Len(r) \in Nat /\ Len(x) \in Nat
       /\ x[1] = HEAD /\ SubSeq(x, 2, 9) = c
       /\ x[10 + l] = TAIL
       /\ SubSeq(x, 10, 9 + l) = b
       /\ From(x, 11 + l) = r
  <2>1. Len(r) \in Nat
      BY LenProperties
  <2>2. x \in Seq(Byte) /\ Len(x) = 9 + Len(d) + Len(r)
      BY <1>9 DEF LaidOut
  <2>3. x[1] = HEAD /\ SubSeq(x, 2, 9) = c
      BY <1>5, <1>6, <1>9 DEF LaidOut
  <2>4. l + 1 \in 1 .. Len(d) /\ l \in 0 .. Len(d) /\ 9 + (l + 1) = 10 + l /\ 10 + Len(d) = 11 + l
      BY <1>1, <1>7
  <2>5. x[10 + l] = TAIL
    <3>1. x[9 + (l + 1)] = d[l + 1]
        BY <1>9, <2>4 DEF LaidOut
    <3> QED
        BY <1>7, <2>4, <3>1
  <2>6. SubSeq(x, 10, 9 + l) = b
    <3>1. SubSeq(x, 10, 9 + l) = SubSeq(d, 1, l)
        BY <1>9, <2>4 DEF LaidOut
    <3> QED
        BY <1>7, <3>1
  <2>7. From(x, 11 + l) = r
      BY <1>9, <2>4 DEF LaidOut
  <2>8. Len(x) = 10 + l + Len(r) /\ Len(x) \in Nat
      BY <1>1, <1>7, <2>1, <2>2
  <2> QED
      BY <2>1, <2>2, <2>3, <2>5, <2>6, <2>7, <2>8
<1>11. FS!HeaderArrived(x) /\ FS!FrontPacket(x) = p
  <2>1. NET_PACKAGE_HEADLEN + 1 = 9
      BY DEF NET_PACKAGE_HEADLEN
  <2>2. Len(x) >= 9
      BY <1>1, <1>10
  <2> QED
      BY <1>2, <1>10, <2>1, <2>2, FSOps
<1>12. FS!FrameLen(p) = 10 + l
  <2>1. FS!FrameLen(p) = NET_PACKAGE_HEADLEN + p.datalen + 2
      BY FSOps
  <2>2. p.datalen = l
      BY <1>1 DEF p, b
  <2> QED
      BY <1>1, <2>1, <2>2 DEF NET_PACKAGE_HEADLEN
<1>13. p.header = HEAD /\ p.tail = TAIL
    BY <1>1 DEF p
<1>14. FS!IsFrame(x)
  <2>1. Len(x) >= 10 + l
      BY <1>1, <1>10
  <2> QED
      BY <1>10, <1>11, <1>12, <1>13, <2>1 DEF FS!IsFrame, FS!HeaderMatches
<1>15. FS!FrontDelivery(x) = m
  <2>1. FS!NET_PACKAGE_HEADLEN + 2 = 10 /\ (10 + l) - 1 = 9 + l
      BY <1>1 DEF FS!NET_PACKAGE_HEADLEN
  <2>2. FS!FrontDelivery(x) = [packet |-> p, data |-> b]
      BY <1>10, <1>11, <1>12, <2>1 DEF FS!FrontDelivery
  <2> QED
      BY <1>1, <2>2 DEF p, b
<1>16. From(x, FS!FrameLen(FS!FrontPacket(x)) + 1) = r
  <2>1. (10 + l) + 1 = 11 + l
      BY <1>1
  <2> QED
      BY <1>10, <1>11, <1>12, <2>1
<1> QED
    BY <1>1, <1>10, <1>14, <1>15, <1>16
\* The body of the recursive function in Wire.
WireAt(s, f, i) ==
    IF i > Len(s) THEN << >> ELSE PacketData(s[i].packet, s[i].data) \o f[i + 1]

Lays(s, f) == \A i \in 1 .. Len(s) + 1 : f[i] = WireAt(s, f, i)

LEMMA WireExists ==
    ASSUME NEW s \in Seq(Message)
    PROVE  \E f : Lays(s, f)
<1> DEFINE L == Len(s)
           From1(m) == \E f : \A i \in m .. L + 1 : f[i] = WireAt(s, f, i)
           T == {m \in 1 .. L + 1 : From1(m)}
<1>1. L \in Nat
    BY LenProperties
<1>2. \A m \in 1 .. L + 1 : (\A j \in m + 1 .. L + 1 : j \in T) => m \in T
  <2> SUFFICES ASSUME NEW m \in 1 .. L + 1, \A j \in m + 1 .. L + 1 : j \in T
               PROVE  From1(m)
      OBVIOUS
  <2>1. PICK f : \A i \in m + 1 .. L + 1 : f[i] = WireAt(s, f, i)
    <3>1. CASE m = L + 1
      <4>1. m + 1 .. L + 1 = {}
          BY <1>1, <3>1
      <4> QED
          BY <4>1
    <3>2. CASE m # L + 1
      <4>1. m + 1 \in m + 1 .. L + 1
          BY <1>1, <3>2
      <4>2. m + 1 \in T
          BY <4>1
      <4> QED
          BY <4>2
    <3> QED
        BY <3>1, <3>2
  <2> DEFINE h == [i \in 1 .. L + 1 |-> IF i = m THEN WireAt(s, f, m) ELSE f[i]]
  <2>2. h[m] = WireAt(s, f, m) /\ \A i \in m + 1 .. L + 1 : h[i] = f[i]
      BY <1>1
  <2> HIDE DEF h
  <2>3. \A i \in m .. L + 1 : WireAt(s, h, i) = WireAt(s, f, i)
    <3> SUFFICES ASSUME NEW i \in m .. L + 1 PROVE WireAt(s, h, i) = WireAt(s, f, i)
        OBVIOUS
    <3>1. i > Len(s) \/ i + 1 \in m + 1 .. L + 1
        BY <1>1
    <3> QED
        BY <2>2, <3>1 DEF WireAt
  <2>4. \A i \in m .. L + 1 : h[i] = WireAt(s, h, i)
    <3> SUFFICES ASSUME NEW i \in m .. L + 1 PROVE h[i] = WireAt(s, h, i)
        OBVIOUS
    <3>1. i = m \/ i \in m + 1 .. L + 1
        BY <1>1
    <3> QED
        BY <2>1, <2>2, <2>3, <3>1
  <2> QED
      BY <2>4
<1>3. \A m \in 1 .. L + 1 : m \in T
  <2> HIDE DEF T, L
  <2> QED
      BY <1>1, <1>2, DownTo
<1>4. From1(1)
  <2>1. 1 \in 1 .. L + 1
      BY <1>1
  <2> QED
      BY <1>3, <2>1
<1> QED
    BY <1>4 DEF Lays

LEMMA WireLays ==
    ASSUME NEW s \in Seq(Message)
    PROVE  \E f : Lays(s, f) /\ Wire(s) = f[1]
<1> DEFINE Whole(f) == f = [i \in 1 .. Len(s) + 1 |-> WireAt(s, f, i)]
           f1 == CHOOSE f : Whole(f)
<1>1. Wire(s) = f1[1]
    BY DEF Wire, WireAt
<1>2. Len(s) \in Nat
    BY LenProperties
<1>3. \E f : Whole(f)
  <2>1. PICK f : Lays(s, f)
      BY WireExists
  <2> DEFINE g == [i \in 1 .. Len(s) + 1 |-> f[i]]
  <2>2. \A i \in 1 .. Len(s) + 1 : g[i] = f[i]
      OBVIOUS
  <2>3. g = [i \in 1 .. Len(s) + 1 |-> g[i]]
      OBVIOUS
  <2> HIDE DEF g
  <2>4. \A i \in 1 .. Len(s) + 1 : g[i] = WireAt(s, g, i)
    <3> SUFFICES ASSUME NEW i \in 1 .. Len(s) + 1 PROVE g[i] = WireAt(s, g, i)
        OBVIOUS
    <3>1. i > Len(s) \/ i + 1 \in 1 .. Len(s) + 1
        BY <1>2
    <3>2. WireAt(s, g, i) = WireAt(s, f, i)
        BY <2>2, <3>1 DEF WireAt
    <3> QED
        BY <2>1, <2>2, <3>2 DEF Lays
  <2> QED
      BY <2>3, <2>4
<1>4. Whole(f1)
    BY <1>3
<1>5. Lays(s, f1)
  <2> DEFINE h == f1
  <2> HIDE DEF f1
  <2> QED
      BY <1>4 DEF Lays
<1> QED
    BY <1>1, <1>5

\* A scan over the frames of any messages finds these messages.
THEOREM FramesOfWire ==
    ASSUME NEW s \in Seq(Message)
    PROVE  FS!Frames(Wire(s)) = s
<1>1. PICK f : Lays(s, f) /\ Wire(s) = f[1]
    BY WireLays
<1> DEFINE L == Len(s)
           T == {i \in 1 .. L + 1 : f[i] \in Seq(Byte) /\ FS!Frames(f[i]) = From(s, i)}
<1>2. L \in Nat
    BY LenProperties
<1>3. \A i \in 1 .. L + 1 : (\A j \in i + 1 .. L + 1 : j \in T) => i \in T
  <2> SUFFICES ASSUME NEW i \in 1 .. L + 1, \A j \in i + 1 .. L + 1 : j \in T
               PROVE  f[i] \in Seq(Byte) /\ FS!Frames(f[i]) = From(s, i)
      OBVIOUS
  <2>1. f[i] = WireAt(s, f, i)
      BY <1>1 DEF Lays
  <2>2. CASE i = L + 1
    <3>1. f[i] = << >>
        BY <1>2, <2>1, <2>2 DEF WireAt
    <3>2. From(s, i) = << >>
      <4>1. i \in Nat /\ i > Len(s)
          BY <1>2, <2>2
      <4> QED
          BY <4>1, FromPastEnd
    <3> QED
        BY <3>1, <3>2, FramesEmpty, EmptySeq
  <2>3. CASE i # L + 1
    <3> DEFINE m == s[i]
               r == f[i + 1]
               x == f[i]
    <3>1. i \in 1 .. L /\ i \in 1 .. Len(s) /\ i + 1 \in i + 1 .. L + 1 /\ i \in Nat \ {0} /\ ~ (i > Len(s))
        BY <1>2, <2>3
    <3>2. m \in Message
        BY <3>1, ElementOfSeq
    <3>3. r \in Seq(Byte) /\ FS!Frames(r) = From(s, i + 1)
      <4>1. i + 1 \in T
          BY <3>1
      <4> QED
          BY <4>1
    <3>4. x = PacketData(m.packet, m.data) \o r
        BY <2>1, <3>1 DEF WireAt
    <3> HIDE DEF m, r, x, T
    <3>5. /\ x \in Seq(Byte) /\ Len(x) # 0
          /\ FS!IsFrame(x) /\ FS!FrontDelivery(x) = m
          /\ From(x, FS!FrameLen(FS!FrontPacket(x)) + 1) = r
        BY <3>2, <3>3, <3>4, MessageAtFront, ZenonT(40)
    <3>6. FS!Frames(x) = <<m>> \o From(s, i + 1)
        BY <3>3, <3>5, FramesUnfold
    <3>7. <<m>> \o From(s, i + 1) = From(s, i)
      <4>1. SubSeq(s, i, i) \o From(s, i + 1) = From(s, i)
        <5>1. i \in 1 .. Len(s) + 1 /\ i \in i - 1 .. Len(s)
            BY <1>2, <3>1
        <5> QED
            BY <5>1, FromJoin
      <4>2. SubSeq(s, i, i) = <<m>>
        <5> DEFINE u == SubSeq(s, i, i)
                   v == <<m>>
        <5>1. i \in Nat /\ i <= Len(s) /\ (IF i <= i THEN i - i + 1 ELSE 0) = 1 /\ i - i + 1 = 1 /\ i + 1 - 1 = i
            BY <1>2, <3>1
        <5>2. u \in Seq(Message) /\ Len(u) = 1 /\ u[1] = s[i]
          <6>1. /\ u \in Seq(Message)
                /\ Len(u) = IF i <= i THEN i - i + 1 ELSE 0
                /\ \A k \in 1 .. i - i + 1 : u[k] = s[i + k - 1]
              BY <3>1, <5>1, PartOfSeq
          <6> HIDE DEF u
          <6> QED
              BY <5>1, <6>1
        <5>3. v \in Seq(Message) /\ Len(v) = 1 /\ v[1] = m
            BY <3>2
        <5> HIDE DEF u, v
        <5>4. \A k \in 1 .. Len(u) : u[k] = v[k]
            BY <5>2, <5>3 DEF m
        <5>5. u = v
            BY <5>2, <5>3, <5>4, SeqEqual
        <5> QED
            BY <5>5 DEF u, v
      <4> QED
          BY <4>1, <4>2
    <3> QED
        BY <3>5, <3>6, <3>7 DEF x
  <2> QED
      BY <2>2, <2>3
<1>4. \A i \in 1 .. L + 1 : i \in T
  <2> HIDE DEF T, L
  <2> QED
      BY <1>2, <1>3, DownTo
<1>5. 1 \in T
  <2>1. 1 \in 1 .. L + 1
      BY <1>2
  <2> QED
      BY <1>4, <2>1
<1>6. From(s, 1) = s
    BY SubSeqFull DEF From
<1> QED
    BY <1>1, <1>5, <1>6

\* Whatever messages a peer sends, whatever their data and however their bytes are
\* cut into chunks, recvdata delivers exactly these messages, in order.
THEOREM MessagesArrive == Spec => []RoundTrip
<1>1. ChunkingIrrelevant => RoundTrip
  <2> SUFFICES ASSUME ChunkingIrrelevant, control = "idle",
                      NEW s \in Sent, SubSeq(stream, 1, received) = Wire(s)
               PROVE  delivered = s
      BY DEF RoundTrip
  <2>1. s \in Seq(Message)
      BY PacketSyncAssumption
  <2>2. FS!Frames(Wire(s)) = s
      BY <2>1, FramesOfWire
  <2> QED
      BY <2>2 DEF ChunkingIrrelevant
<1> QED
    BY <1>1, ChunksDoNotMatter, PTL
=============================================================================
