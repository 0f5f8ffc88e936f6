\* One connection; a handshake of two records, a BIO of three bytes, chunks cut anywhere.
SPECIFICATION FairSpec
CONSTANTS
    BioSize = 3
    Flights = 2
    MaxBack = 2
    MaxRecords = 4
    Streams <- MCStreams
INVARIANTS TypeOK BytesInOrder BioHasRoom AloneIsRead
PROPERTY CallReturns
