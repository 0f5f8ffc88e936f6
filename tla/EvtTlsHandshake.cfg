\* A handshake that fails, against what evt_tls.h says of the callback.
SPECIFICATION Spec
CONSTANTS
    BioSize = 3
    Flights = 2
    MaxBack = 2
    MaxRecords = 2
    Streams <- MCStreams
INVARIANT HandshakeReported
