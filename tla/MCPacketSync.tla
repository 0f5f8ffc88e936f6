---------------------------- MODULE MCPacketSync ----------------------------
(***************************************************************************)
(* Small streams for PacketSync.  With BUFFER_SIZE = 11 thread_readdata    *)
(* has room for an empty packet (10 bytes) and one byte of what follows    *)
(* it, a packet with one byte of data just fits, a longer one is split     *)
(* between the buffers, and 11 bytes of data make both buffers grow.       *)
(***************************************************************************)
EXTENDS PacketSync, SequencesExt

CONSTANT MaxPieces   \* pieces a stream is put together from

Pack(n) == [version |-> 1, header |-> HEAD, tail |-> TAIL, type |-> 0, datalen |-> n]

FrameOf(data) == PacketData(Pack(Len(data)), data)

EmptyFrame == FrameOf(<<>>)

\* One data byte that looks like the start of a frame.
HeadInData == FrameOf(<<HEAD>>)

\* Eleven data bytes: a whole frame and the start of another one.
FrameInFrame == FrameOf(EmptyFrame \o <<HEAD>>)

CleanPieces == {EmptyFrame, HeadInData, FrameInFrame}

WithBadTail(f) == [f EXCEPT ![Len(f)] = 0]

\* Noise: bad tails, a lone HEAD, a byte that is no HEAD, a header cut short.
ShortNoise == {<<0>>, <<HEAD>>, SubSeq(EmptyFrame, 1, 5)}

NoisePieces == {WithBadTail(EmptyFrame), WithBadTail(HeadInData)} \cup ShortNoise

\* Every stream of up to MaxPieces pieces, and an empty frame behind other noise:
\* a long frame with a bad tail, or two pieces of noise, the second one short.
MCStreams ==
    {FlattenSeq(s) : s \in SeqOf(CleanPieces \cup NoisePieces, MaxPieces)}
        \cup {WithBadTail(FrameInFrame) \o EmptyFrame}
        \cup {p \o q \o EmptyFrame : p \in NoisePieces \cup {WithBadTail(FrameInFrame)},
                                     q \in ShortNoise}

\* What a peer sends that sends nothing but those clean pieces.
MCSent ==
    SeqOf({[packet |-> Pack(Len(d)), data |-> d] : d \in {<<>>, <<HEAD>>, EmptyFrame \o <<HEAD>>}},
          MaxPieces)
=============================================================================
