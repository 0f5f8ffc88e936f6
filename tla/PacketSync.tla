------------------------------ MODULE PacketSync ------------------------------
(***************************************************************************)
(* PacketSync::recvdata, the parser every connection owns.  libuv hands it *)
(* the connection's bytes in chunks cut anywhere; it collects them in      *)
(* thread_readdata until a frame's header is complete, then in             *)
(* thread_packetdata until the frame is.                                   *)
(*                                                                         *)
(* One pass of recvdata's loop is two steps: lines 37-84 (control at       *)
(* "loop") and lines 86-131 (control at "body").  A buffer is the sequence *)
(* of its valid bytes and its capacity, so Len(readdata) is truepacketlen  *)
(* and Len(packetdata) is getdatalen.  headpos counts from 0 as in the     *)
(* code.                                                                   *)
(*                                                                         *)
(* Not covered: a length field of 2^31 - 1 and above, where datalen + 1    *)
(* leaves the range of the code's int and uint32_t arithmetic.             *)
(***************************************************************************)
EXTENDS NetBase

CONSTANTS BUFFER_SIZE,  \* initial capacity of both buffers
          Streams,      \* the byte sequences a peer may send on a connection
          Sent          \* the sequences of packets a peer may send

Packet == [version : Byte, header : Byte, tail : Byte, type : Byte, datalen : Nat]

\* A packet and its data as a peer gives them to PacketData: with the markers in
\* force, the length of the data, and no more of it than four bytes can count.
Message ==
    {m \in [packet : Packet, data : Seq(Byte)] :
        /\ m.packet.header = HEAD /\ m.packet.tail = TAIL
        /\ m.packet.datalen = Len(m.data)
        /\ m.packet.datalen < Radix * Radix * Radix * Radix}

ASSUME PacketSyncAssumption ==
    /\ BUFFER_SIZE \in Nat
    /\ BUFFER_SIZE >= NET_PACKAGE_HEADLEN + 2
    /\ Streams \subseteq Seq(Byte)
    /\ Sent \subseteq Seq(Message)

VARIABLES
    stream,        \* the bytes the peer sends
    received,      \* how many of them recvdata was called with
    control,       \* "idle" (no call), "loop", "body"
    chunk, iret,   \* recvdata's data and the number of its bytes used up,
                   \* <<>> and 0 when no call is under way
    parsetype,     \* "PARSE_NOTHING" or "PARSE_HEAD"
    readdata, readcap,
    packetdata, packetcap,
    headpos, theNexPacket,
    delivered      \* the packets packet_cb_ was called with

io == <<stream, received>>
buffers == <<readdata, readcap, packetdata, packetcap>>
vars == <<stream, received, control, chunk, iret, parsetype, readdata, readcap,
          packetdata, packetcap, headpos, theNexPacket, delivered>>

NoPacket == [version |-> 0, header |-> 0, tail |-> 0, type |-> 0, datalen |-> 0]

From(s, i) == SubSeq(s, i, Len(s))

Smaller(a, b) == IF a < b THEN a ELSE b

\* Faulty variant: the buffer is not reallocated for a longer frame.
Larger_NoRealloc(a, b) == a

Larger(a, b) == IF a > b THEN a ELSE b
-----------------------------------------------------------------------------
Init ==
    /\ stream \in Streams
    /\ received = 0
    /\ control = "idle"
    /\ chunk = <<>> /\ iret = 0
    /\ parsetype = "PARSE_NOTHING"
    /\ readdata = <<>> /\ readcap = BUFFER_SIZE
    /\ packetdata = <<>> /\ packetcap = BUFFER_SIZE
    /\ headpos = 0
    /\ theNexPacket = NoPacket
    /\ delivered = <<>>

\* read_header calls recvdata with the next k > 0 bytes of the connection.
recvdata(k) ==
    /\ control = "idle"
    /\ control' = "loop"
    /\ chunk' = SubSeq(stream, received + 1, received + k)
    /\ iret' = 0
    /\ received' = received + k
    /\ UNCHANGED <<stream, parsetype, buffers, headpos, theNexPacket, delivered>>

\* Faulty variants: the smallest frame counted one byte too long, and the loop kept
\* going for a header that is not complete.
MoreWork_OneTooLong ==
    iret < Len(chunk) \/ Len(readdata) >= NET_PACKAGE_HEADLEN + 3

MoreWork_HeaderOnly ==
    iret < Len(chunk) \/ Len(readdata) >= NET_PACKAGE_HEADLEN

MoreWork ==
    \/ iret < Len(chunk)
    \/ Len(readdata) >= NET_PACKAGE_HEADLEN + 2

Unused == From(chunk, iret + 1)

\* The loop's condition is false: the call returns.
Return ==
    /\ control = "loop"
    /\ ~MoreWork
    /\ control' = "idle"
    /\ chunk' = <<>> /\ iret' = 0
    /\ UNCHANGED <<io, parsetype, buffers, headpos, theNexPacket, delivered>>
-----------------------------------------------------------------------------
(***************************************************************************)
(* Looking for a header.  Every pass first moves as much of the chunk as   *)
(* fits behind the bytes already in thread_readdata.                       *)
(***************************************************************************)
Room == Smaller(readcap - Len(readdata), Len(chunk) - iret)

Filled == readdata \o SubSeq(chunk, iret + 1, iret + Room)

HeadPositions == {i \in 0 .. Len(Filled) - 1 : Filled[i + 1] = HEAD}

FirstHead == CHOOSE i \in HeadPositions : \A j \in HeadPositions : i <= j

\* Bytes of thread_readdata after the HEAD byte that memchr found.
BehindHead == Len(Filled) - FirstHead - 1

\* Faulty variant: the header parsed from the HEAD byte on.
HeadBytes_FromHead == SubSeq(Filled, FirstHead + 1, FirstHead + NET_PACKAGE_HEADLEN)

HeadBytes == SubSeq(Filled, FirstHead + 2, FirstHead + 1 + NET_PACKAGE_HEADLEN)

Searching ==
    /\ control = "loop"
    /\ MoreWork
    /\ parsetype = "PARSE_NOTHING"
    /\ iret' = iret + Room

NoHead ==
    /\ Searching
    /\ HeadPositions = {}
    /\ readdata' = <<>>
    /\ UNCHANGED <<io, control, chunk, parsetype, readcap, packetdata, packetcap,
                   headpos, theNexPacket, delivered>>

ShortHeader ==
    /\ Searching
    /\ HeadPositions # {}
    /\ BehindHead < NET_PACKAGE_HEADLEN
    /\ headpos' = FirstHead
    /\ readdata' = From(Filled, FirstHead + 1)
    /\ UNCHANGED <<io, control, chunk, parsetype, readcap, packetdata, packetcap,
                   theNexPacket, delivered>>

HeaderComplete ==
    /\ Searching
    /\ HeadPositions # {}
    /\ BehindHead >= NET_PACKAGE_HEADLEN
    /\ headpos' = FirstHead
    /\ theNexPacket' = CharToNetPacket(HeadBytes)

BadHeader ==
    /\ HeaderComplete
    /\ theNexPacket'.header # HEAD \/ theNexPacket'.tail # TAIL
    /\ readdata' = From(Filled, FirstHead + 2)
    /\ UNCHANGED <<io, control, chunk, parsetype, readcap, packetdata, packetcap, delivered>>

GoodHeader ==
    /\ HeaderComplete
    /\ theNexPacket'.header = HEAD
    /\ theNexPacket'.tail = TAIL
    /\ parsetype' = "PARSE_HEAD"
    /\ packetcap' = Larger(packetcap, theNexPacket'.datalen + 1)
    /\ readdata' = Filled
    /\ packetdata' =
          SubSeq(Filled, FirstHead + NET_PACKAGE_HEADLEN + 2,
                 FirstHead + NET_PACKAGE_HEADLEN + 1
                     + Smaller(BehindHead - NET_PACKAGE_HEADLEN, theNexPacket'.datalen + 1))
    /\ control' = "body"
    /\ UNCHANGED <<io, chunk, readcap, delivered>>

\* The loop is entered with a frame already under way.
ResumeFrame ==
    /\ control = "loop"
    /\ MoreWork
    /\ parsetype = "PARSE_HEAD"
    /\ control' = "body"
    /\ UNCHANGED <<io, chunk, iret, parsetype, buffers, headpos, theNexPacket, delivered>>
-----------------------------------------------------------------------------
(***************************************************************************)
(* Completing a frame.                                                     *)
(***************************************************************************)
BodyLen == theNexPacket.datalen + 1     \* the data and the TAIL byte

Missing == BodyLen - Len(packetdata)

\* The chunk does not complete the frame: keep what it has and return.
NeedMore ==
    /\ control = "body"
    /\ Len(packetdata) + Len(Unused) < BodyLen
    /\ packetdata' = packetdata \o Unused
    /\ control' = "idle"
    /\ chunk' = <<>> /\ iret' = 0
    /\ UNCHANGED <<io, parsetype, readdata, readcap, packetcap, headpos,
                   theNexPacket, delivered>>

Completed == packetdata \o SubSeq(chunk, iret + 1, iret + Missing)

\* Faulty variant: bytes that follow a frame in thread_readdata are forgotten.
FrameInReadData_Never == FALSE

\* The whole frame lies in thread_readdata, other bytes may follow it there.
FrameInReadData == Len(readdata) - headpos - 1 - NET_PACKAGE_HEADLEN >= BodyLen

\* Faulty variant: iret moves by the whole body, also by what was there before.
Completing_CountsAll ==
    /\ control = "body"
    /\ Len(packetdata) + Len(Unused) >= BodyLen
    /\ iret' = iret + BodyLen
    /\ packetdata' = Completed
    /\ parsetype' = "PARSE_NOTHING"
    /\ control' = "loop"
    /\ UNCHANGED <<io, chunk, packetcap, headpos, theNexPacket>>

Completing ==
    /\ control = "body"
    /\ Len(packetdata) + Len(Unused) >= BodyLen
    /\ iret' = iret + Missing
    /\ packetdata' = Completed
    /\ parsetype' = "PARSE_NOTHING"
    /\ control' = "loop"
    /\ UNCHANGED <<io, chunk, packetcap, headpos, theNexPacket>>

\* Faulty variant: a frame with a bad tail is skipped as a whole.
BadTailKept_SkipFrame ==
    /\ Completing
    /\ Completed[BodyLen] # TAIL
    /\ FrameInReadData
    /\ readdata' = From(readdata, headpos + NET_PACKAGE_HEADLEN + theNexPacket.datalen + 3)
    /\ UNCHANGED <<readcap, delivered>>

\* The last byte is not TAIL: only the HEAD byte is given up, the rest is searched again.
BadTailKept ==
    /\ Completing
    /\ Completed[BodyLen] # TAIL
    /\ FrameInReadData
    /\ readdata' = From(readdata, headpos + 2)
    /\ UNCHANGED <<readcap, delivered>>

BadTailRebuilt ==
    /\ Completing
    /\ Completed[BodyLen] # TAIL
    /\ ~FrameInReadData
    /\ readcap' = Larger(readcap, NET_PACKAGE_HEADLEN + BodyLen)
    /\ readdata' = SubSeq(readdata, headpos + 2, headpos + 1 + NET_PACKAGE_HEADLEN)
                       \o Completed
    /\ UNCHANGED delivered

DeliverPacket ==
    /\ Completing
    /\ Completed[BodyLen] = TAIL
    /\ readdata' = IF FrameInReadData
                   THEN From(readdata, headpos + NET_PACKAGE_HEADLEN + theNexPacket.datalen + 3)
                   ELSE <<>>
    /\ delivered' = Append(delivered,
                           [packet |-> theNexPacket,
                            data   |-> SubSeq(Completed, 1, theNexPacket.datalen)])
    /\ UNCHANGED readcap
-----------------------------------------------------------------------------
LoopStep ==
    \/ Return \/ NoHead \/ ShortHeader \/ BadHeader \/ GoodHeader \/ ResumeFrame
    \/ NeedMore \/ BadTailKept \/ BadTailRebuilt \/ DeliverPacket

\* The peer has sent everything and the last call has returned.
Finished == control = "idle" /\ received = Len(stream) /\ UNCHANGED vars

Next ==
    \/ \E k \in 1 .. Len(stream) - received : recvdata(k)
    \/ LoopStep
    \/ Finished

Spec == Init /\ [][Next]_vars

\* recvdata is sequential code: once called it keeps running.
FairSpec == Spec /\ WF_vars(LoopStep)
-----------------------------------------------------------------------------
(***************************************************************************)
(* Properties                                                              *)
(***************************************************************************)
\* Every variable has its type, and the read position stays inside the chunk.
TypeOK ==
    /\ stream \in Streams
    /\ received \in 0 .. Len(stream)
    /\ control \in {"idle", "loop", "body"}
    /\ chunk \in Seq(Byte)
    /\ iret \in 0 .. Len(chunk)
    /\ parsetype \in {"PARSE_NOTHING", "PARSE_HEAD"}
    /\ readdata \in Seq(Byte) /\ readcap \in Nat
    /\ packetdata \in Seq(Byte) /\ packetcap \in Nat
    /\ headpos \in Nat
    /\ theNexPacket \in Packet
    /\ delivered \in Seq([packet : Packet, data : Seq(Byte)])

\* Neither buffer ever holds more bytes than it was allocated for, so no memcpy
\* of recvdata writes behind its buffer, also after the realloc of a long frame.
BufferBounds ==
    /\ Len(readdata) <= readcap
    /\ Len(packetdata) <= packetcap

\* A frame under way: its HEAD byte and header are still in thread_readdata at
\* headpos, its header is theNexPacket, and thread_packetdata continues them with
\* no gap.  BadTailRebuilt relies on it when it puts the frame back.
FrameUnderWay ==
    parsetype = "PARSE_HEAD" =>
        /\ headpos + 1 + NET_PACKAGE_HEADLEN <= Len(readdata)
        /\ readdata[headpos + 1] = HEAD
        /\ theNexPacket = CharToNetPacket(SubSeq(readdata, headpos + 2,
                                                headpos + 1 + NET_PACKAGE_HEADLEN))
        /\ Len(packetdata) <= BodyLen
        /\ \A i \in 1 .. Len(packetdata) :
              headpos + 1 + NET_PACKAGE_HEADLEN + i <= Len(readdata) =>
                  packetdata[i] = readdata[headpos + 1 + NET_PACKAGE_HEADLEN + i]

(***************************************************************************)
(* The bytes of the stream that were received and are not used up yet: the *)
(* frame under way, what follows it in thread_readdata, the unread chunk.  *)
(***************************************************************************)
Pending ==
    IF parsetype = "PARSE_NOTHING"
    THEN readdata \o Unused
    ELSE SubSeq(readdata, headpos + 1, headpos + 1 + NET_PACKAGE_HEADLEN)
             \o packetdata
             \o From(readdata, headpos + 2 + NET_PACKAGE_HEADLEN + Len(packetdata))
             \o Unused

FS == INSTANCE FrameStream WITH pending <- Pending

\* However the stream is cut into chunks and however full the buffers are, recvdata
\* drops a byte only if no frame starts there, and delivers exactly the frames.
ImplementsFrameStream == FS!Spec

\* When recvdata has returned, it has delivered what one scan over all the bytes
\* received so far finds: no complete frame stays behind in a buffer, and where the
\* chunks were cut makes no difference.
ChunkingIrrelevant ==
    control = "idle" => delivered = FS!Frames(SubSeq(stream, 1, received))

\* The bytes of a sequence of messages, one frame behind the other.
Wire(s) ==
    LET rest[i \in 1 .. Len(s) + 1] ==
            IF i > Len(s) THEN <<>> ELSE PacketData(s[i].packet, s[i].data) \o rest[i + 1]
    IN  rest[1]

\* Round trip: of a peer that has sent only what PacketData makes of its packets,
\* recvdata has delivered every one, unchanged and in order, also when their data
\* looks like a frame.
RoundTrip ==
    control = "idle" =>
        \A s \in Sent : SubSeq(stream, 1, received) = Wire(s) => delivered = s

\* Every call of recvdata returns: no sequence of bytes keeps its loop going.
CallReturns == control # "idle" ~> control = "idle"
=============================================================================
