\* One connection, streams of up to MaxPieces frames and pieces of noise, cut anywhere.
SPECIFICATION FairSpec
CONSTANTS
    Radix = 11
    HEAD = 1
    TAIL = 2
    BUFFER_SIZE = 11
    MaxPieces = 2
    Streams <- MCStreams
    Sent <- MCSent
INVARIANTS TypeOK BufferBounds FrameUnderWay ChunkingIrrelevant RoundTrip
PROPERTIES ImplementsFrameStream CallReturns
