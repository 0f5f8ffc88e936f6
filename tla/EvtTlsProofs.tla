----------------------------- MODULE EvtTlsProofs -----------------------------
(***************************************************************************)
(* Proofs about EvtTls, for every set of streams, every way to cut them    *)
(* into chunks, every capacity of the BIO pair and every length of the     *)
(* handshake: type correctness, that BIO_write always finds room, that no  *)
(* byte is lost, repeated or moved while OpenSSL works, and that a record  *)
(* which comes alone is read at once.                                      *)
(***************************************************************************)
EXTENDS EvtTls, SequenceTheorems, FiniteSetTheorems, WellFoundedInduction, TLAPS

(***************************************************************************)
(* The strengthening for the types.  What OpenSSL keeps is not a complete  *)
(* record, so that it always takes bytes out of the BIO when it takes a    *)
(* record; the piece given to BIO_write lies in the chunk; there is no     *)
(* chunk between calls.                                                    *)
(***************************************************************************)
Operating == control \in {"handshake", "read"}

RecordIncomplete == Ends(record) = {}

PieceInChunk == Operating => offset + i <= Len(chunk)

IdleHasNoChunk == control = "idle" => chunk = << >> /\ offset = 0

TInv ==
    /\ TypeOK
    /\ RecordIncomplete
    /\ PieceInChunk
    /\ IdleHasNoChunk
-----------------------------------------------------------------------------
(***************************************************************************)
(* Sequences and their ends                                                *)
(***************************************************************************)
\* The type, length and elements of the end of a sequence.
LEMMA FromParts ==
    ASSUME NEW S, NEW s \in Seq(S), NEW m \in 1 .. Len(s) + 1
    PROVE  /\ From(s, m) \in Seq(S)
           /\ Len(From(s, m)) = Len(s) - m + 1
           /\ \A k \in 1 .. Len(s) - m + 1 : From(s, m)[k] = s[m + k - 1]
<1>1. Len(s) \in Nat /\ m \in Int /\ Len(s) \in Int /\ (m <= Len(s) \/ m = Len(s) + 1)
    BY LenProperties
<1>2. \A k \in m .. Len(s) : s[k] \in S
  <2>1. \A k \in m .. Len(s) : k \in 1 .. Len(s)
      BY <1>1
  <2> QED
      BY <2>1, ElementOfSeq
<1> QED
    BY <1>1, <1>2, SubSeqProperties DEF From

\* An empty sequence has no ends, and an end of a sequence is one of its positions.
LEMMA EndsEmpty == Ends(<< >>) = {}
<1>1. Len(<< >>) = 0
    BY EmptySeq
<1> QED
    BY <1>1 DEF Ends

\* A set of natural numbers that is not empty has a least element.
LEMMA LeastNat ==
    ASSUME NEW T, T \subseteq Nat, T # {}
    PROVE  \E x \in T : \A y \in T : x <= y
<1>1. \E x \in T : \A y \in T : <<y, x>> \notin OpToRel(<, Nat)
    BY WFMin, NatLessThanWellFounded, Zenon
<1>2. PICK x \in T : \A y \in T : <<y, x>> \notin OpToRel(<, Nat)
    BY <1>1
<1>3. \A y \in T : ~(y < x)
    BY <1>2 DEF OpToRel
<1> QED
    BY <1>3

\* What OpenSSL has not used, and the record it can take out of it.
LEMMA UnreadType ==
    ASSUME TypeOK
    PROVE  /\ Unread \in Seq(StreamByte)
           /\ Len(Unread) = Len(record) + Len(bio)
           /\ Len(record) \in Nat /\ Len(bio) \in Nat /\ Len(Unread) \in Nat
           /\ \A k \in 1 .. Len(record) + Len(bio) :
                 Unread[k] = IF k <= Len(record) THEN record[k] ELSE bio[k - Len(record)]
<1>1. record \in Seq(StreamByte) /\ bio \in Seq(StreamByte)
    BY DEF TypeOK
<1>2. Len(record) \in Nat /\ Len(bio) \in Nat
    BY <1>1, LenProperties
<1>3. /\ Unread \in Seq(StreamByte)
      /\ Len(Unread) = Len(record) + Len(bio)
      /\ \A k \in 1 .. Len(record) + Len(bio) :
            Unread[k] = IF k <= Len(record) THEN record[k] ELSE bio[k - Len(record)]
    BY <1>1, ConcatProperties DEF Unread
<1> QED
    BY <1>2, <1>3

LEMMA RecordLenProperties ==
    ASSUME TInv, Ends(Unread) # {}
    PROVE  /\ RecordLen \in Ends(Unread)
           /\ \A m \in Ends(Unread) : RecordLen <= m
           /\ RecordLen \in 1 .. Len(Unread)
           /\ Len(record) < RecordLen
<1>1. /\ Unread \in Seq(StreamByte) /\ Len(Unread) = Len(record) + Len(bio)
      /\ Len(record) \in Nat /\ Len(bio) \in Nat /\ Len(Unread) \in Nat
      /\ \A k \in 1 .. Len(record) + Len(bio) :
            Unread[k] = IF k <= Len(record) THEN record[k] ELSE bio[k - Len(record)]
    BY UnreadType DEF TInv
<1>2. Ends(Unread) \subseteq Nat
    BY DEF Ends
<1>3. \E k \in Ends(Unread) : \A m \in Ends(Unread) : k <= m
    BY <1>2, LeastNat
<1>4. RecordLen \in Ends(Unread) /\ \A m \in Ends(Unread) : RecordLen <= m
    BY <1>3 DEF RecordLen
<1>5. RecordLen \in 1 .. Len(Unread) /\ Unread[RecordLen].pos = Unread[RecordLen].len
    BY <1>4 DEF Ends
<1>6. ASSUME RecordLen <= Len(record) PROVE FALSE
  <2>1. Unread[RecordLen] = record[RecordLen] /\ RecordLen \in 1 .. Len(record)
      BY <1>1, <1>5, <1>6
  <2>2. RecordLen \in Ends(record)
      BY <1>5, <2>1 DEF Ends
  <2> QED
      BY <2>2 DEF TInv, RecordIncomplete
<1> QED
    BY <1>1, <1>4, <1>5, <1>6
-----------------------------------------------------------------------------
(***************************************************************************)
(* Types                                                                   *)
(***************************************************************************)
\* Taking a record frees room in the BIO.
LEMMA TakeRecordTypes ==
    ASSUME TInv, NEW kind, TakeRecord(kind)
    PROVE  /\ record' \in Seq(StreamByte) /\ bio' \in Seq(StreamByte)
           /\ RecordIncomplete'
           /\ Len(bio') < Len(bio) /\ Len(bio) <= BioSize
           /\ Unread[1].rec \in Nat
<1>1. /\ Unread \in Seq(StreamByte) /\ Len(Unread) = Len(record) + Len(bio)
      /\ Len(record) \in Nat /\ Len(bio) \in Nat /\ Len(Unread) \in Nat /\ Len(bio) <= BioSize
    BY UnreadType DEF TInv, TypeOK
<1>2. RecordLen \in 1 .. Len(Unread) /\ Len(record) < RecordLen
    BY RecordLenProperties DEF TakeRecord
<1>3. RecordLen + 1 \in 1 .. Len(Unread) + 1
    BY <1>1, <1>2
<1>4. /\ bio' \in Seq(StreamByte) /\ Len(bio') = Len(Unread) - (RecordLen + 1) + 1
    BY <1>1, <1>3, FromParts DEF TakeRecord
<1>5. record' \in Seq(StreamByte) /\ Ends(record') = {}
    BY EndsEmpty, EmptySeq DEF TakeRecord
<1>6. Unread[1].rec \in Nat
  <2>1. 1 \in 1 .. Len(Unread)
      BY <1>1, <1>2
  <2>2. Unread[1] \in StreamByte
      BY <1>1, <2>1, ElementOfSeq
  <2> QED
      BY <2>2 DEF StreamByte
<1>7. RecordIncomplete'
    BY <1>5 DEF RecordIncomplete, Ends
<1> QED
    BY <1>1, <1>2, <1>4, <1>5, <1>6, <1>7

LEMMA TakeIncompleteTypes ==
    ASSUME TInv, TakeIncomplete
    PROVE  /\ record' \in Seq(StreamByte) /\ bio' \in Seq(StreamByte)
           /\ RecordIncomplete'
           /\ Len(bio') = 0
<1>1. /\ Unread \in Seq(StreamByte) /\ << >> \in Seq(StreamByte) /\ Len(<< >>) = 0
    BY UnreadType, EmptySeq DEF TInv
<1>2. Ends(record') = {}
    BY DEF TakeIncomplete
<1> QED
    BY <1>1, <1>2 DEF TakeIncomplete, RecordIncomplete, Ends

\* After an operation evt_tls_feed_data goes on inside its chunk.
LEMMA OpReturnsTypes ==
    ASSUME TInv, Operating, OpReturns
    PROVE  /\ offset' \in -MaxBack .. Len(chunk') /\ PieceInChunk' /\ IdleHasNoChunk'
           /\ control' = "feed" /\ chunk' \in Seq(StreamByte) /\ i' \in -1 .. BioSize
           /\ stream' = stream /\ received' = received /\ behind' = behind /\ chunk' = chunk
<1>1. /\ chunk \in Seq(StreamByte) /\ Len(chunk) \in Nat /\ BioSize \in Nat /\ MaxBack \in Nat
      /\ offset \in -MaxBack .. Len(chunk) /\ i \in -1 .. BioSize /\ offset + i <= Len(chunk)
    BY EvtTlsAssumption, LenProperties DEF TInv, TypeOK, PieceInChunk
<1>2. NextOffset \in -MaxBack .. Len(chunk)
  <2>1. -MaxBack \in Int /\ offset + i \in Int /\ -MaxBack <= Len(chunk)
      BY <1>1
  <2> QED
      BY <1>1, <2>1 DEF NextOffset, Larger
<1> QED
    BY <1>1, <1>2 DEF OpReturns, PieceInChunk, Operating, IdleHasNoChunk

\* What an operation leaves for the type invariant to say: it names the variables it
\* may change, the rest follows from OpReturns.
LEMMA OpTypes ==
    ASSUME TInv, Operating, OpReturns,
           record' \in Seq(StreamByte), bio' \in Seq(StreamByte), Len(bio') <= BioSize,
           RecordIncomplete',
           ssl' \in {"handshake", "up", "failed", "shut", "received"},
           flights' \in 0 .. Flights,
           reported' \in Seq({0, 1}), delivered' \in Seq(Nat),
           handle' \in {"open", "closing", "closed"}, aborted' \in BOOLEAN
    PROVE  TInv'
<1>1. /\ offset' \in -MaxBack .. Len(chunk') /\ PieceInChunk' /\ IdleHasNoChunk'
      /\ control' = "feed" /\ chunk' \in Seq(StreamByte) /\ i' \in -1 .. BioSize
      /\ stream' = stream /\ received' = received /\ behind' = behind
    BY OpReturnsTypes
<1>2. TypeOK'
    BY <1>1 DEF TInv, TypeOK
<1> QED
    BY <1>1, <1>2 DEF TInv

\* Close, whatever the state of the handle.
LEMMA CloseTypes ==
    ASSUME Close
    PROVE  handle' \in {"open", "closing", "closed"} /\ aborted' \in BOOLEAN
    BY DEF Close
\* BIO_write takes Room bytes of the chunk.
LEMMA PieceProperties ==
    ASSUME TInv, control = "feed", offset < Len(chunk)
    PROVE  /\ Room \in 0 .. BioSize /\ Room <= BioSize - Len(bio) /\ Room <= Len(chunk) - offset
           /\ Piece \in Seq(StreamByte) /\ Len(Piece) = Room
           /\ \A k \in 1 .. Room :
                 Piece[k] = IF offset + k < 1 THEN Foreign ELSE chunk[offset + k]
           /\ Len(bio) < BioSize => Room \in Nat \ {0}
<1>1. /\ chunk \in Seq(StreamByte) /\ Len(chunk) \in Nat /\ BioSize \in Nat /\ MaxBack \in Nat
      /\ offset \in -MaxBack .. Len(chunk) /\ Len(bio) \in Nat /\ Len(bio) <= BioSize
    BY EvtTlsAssumption, LenProperties DEF TInv, TypeOK
<1>2. /\ Room \in 0 .. BioSize /\ Room <= BioSize - Len(bio) /\ Room <= Len(chunk) - offset
      /\ Len(bio) < BioSize => Room \in Nat \ {0}
    BY <1>1 DEF Room, Smaller
<1>3. Foreign \in StreamByte
    BY DEF Foreign, StreamByte, Kind
<1> DEFINE n == Room
           e(k) == IF offset + k < 1 THEN Foreign ELSE chunk[offset + k]
<1>4. n \in Nat /\ offset + n <= Len(chunk)
    BY <1>1, <1>2
<1>5. \A k \in 1 .. n : e(k) \in StreamByte
  <2> SUFFICES ASSUME NEW k \in 1 .. n PROVE e(k) \in StreamByte
      OBVIOUS
  <2>1. offset + k >= 1 => offset + k \in 1 .. Len(chunk)
      BY <1>1, <1>4
  <2>2. offset + k >= 1 => chunk[offset + k] \in StreamByte
      BY <1>1, <2>1, ElementOfSeq
  <2>3. offset + k < 1 \/ offset + k >= 1
      BY <1>1
  <2> QED
      BY <1>3, <2>2, <2>3
<1>6. Piece = [k \in 1 .. n |-> e(k)]
    BY DEF Piece
<1> HIDE DEF n
<1>7. Piece \in [1 .. n -> StreamByte]
    BY <1>5, <1>6
<1>8. Piece \in Seq(StreamByte) /\ Len(Piece) = n
    BY <1>4, <1>6, <1>7
<1>9. \A k \in 1 .. n : Piece[k] = e(k)
    BY <1>6
<1> QED
    BY <1>2, <1>8, <1>9 DEF n

LEMMA FeedPieceTypes == ASSUME TInv, FeedPiece PROVE TInv'
<1>1. /\ Room \in 0 .. BioSize /\ Room <= BioSize - Len(bio) /\ Room <= Len(chunk) - offset
      /\ Piece \in Seq(StreamByte) /\ Len(Piece) = Room
    BY PieceProperties DEF FeedPiece
<1>2. /\ bio \in Seq(StreamByte) /\ Len(bio) \in Nat /\ BioSize \in Nat
      /\ Len(chunk) \in Nat /\ MaxBack \in Nat /\ offset \in -MaxBack .. Len(chunk)
    BY EvtTlsAssumption, LenProperties DEF TInv, TypeOK
<1>3. bio' \in Seq(StreamByte) /\ Len(bio') <= BioSize
  <2>1. bio \o Piece \in Seq(StreamByte) /\ Len(bio \o Piece) = Len(bio) + Room
      BY <1>1, <1>2, ConcatProperties
  <2> QED
      BY <1>1, <1>2, <2>1 DEF FeedPiece
<1>4. i' \in -1 .. BioSize /\ offset + i' <= Len(chunk)
    BY <1>1, <1>2 DEF FeedPiece, BIO_write
<1>5. TypeOK'
    BY <1>3, <1>4 DEF FeedPiece, TInv, TypeOK, answers
<1>6. RecordIncomplete' /\ PieceInChunk' /\ IdleHasNoChunk'
    BY <1>4 DEF FeedPiece, TInv, RecordIncomplete, PieceInChunk, IdleHasNoChunk, Ends
<1> QED
    BY <1>5, <1>6 DEF TInv

LEMMA FeedReturnsTypes == ASSUME TInv, FeedReturns PROVE TInv'
<1>1. << >> \in Seq(StreamByte) /\ Len(<< >>) = 0 /\ MaxBack \in Nat /\ BioSize \in Nat
    BY EmptySeq, EvtTlsAssumption
<1>2. TypeOK'
    BY <1>1 DEF FeedReturns, TInv, TypeOK, answers
<1> QED
    BY <1>2 DEF FeedReturns, TInv, RecordIncomplete, PieceInChunk, IdleHasNoChunk, Operating, Ends

LEMMA HandshakeRecordTypes == ASSUME TInv, HandshakeRecord PROVE TInv'
<1>1. record' \in Seq(StreamByte) /\ bio' \in Seq(StreamByte) /\ RecordIncomplete'
      /\ Len(bio') < Len(bio) /\ Len(bio) <= BioSize
    BY TakeRecordTypes DEF HandshakeRecord
<1>2. Len(bio') <= BioSize
  <2>1. Len(bio) \in Nat /\ Len(bio') \in Nat /\ BioSize \in Nat
      BY <1>1, LenProperties, EvtTlsAssumption DEF TInv, TypeOK
  <2> QED
      BY <1>1, <2>1
<1>3. flights' \in 0 .. Flights
    BY EvtTlsAssumption DEF HandshakeRecord, TInv, TypeOK
<1>4. TypeOK'
    BY <1>1, <1>2, <1>3 DEF HandshakeRecord, TInv, TypeOK, feeding, answers
<1>5. PieceInChunk' /\ IdleHasNoChunk'
    BY DEF HandshakeRecord, TInv, PieceInChunk, IdleHasNoChunk, Operating, feeding
<1> QED
    BY <1>1, <1>4, <1>5 DEF TInv

\* The record an operation takes leaves the BIO's contents within bounds.
LEMMA TakenTypes ==
    ASSUME TInv, (\E kind \in Kind : TakeRecord(kind)) \/ TakeIncomplete
    PROVE  /\ record' \in Seq(StreamByte) /\ bio' \in Seq(StreamByte)
           /\ RecordIncomplete'
           /\ Len(bio') <= BioSize
           /\ Len(bio') < BioSize
<1>1. BioSize \in Nat \ {0} /\ bio \in Seq(StreamByte) /\ Len(bio) \in Nat
    BY EvtTlsAssumption, LenProperties DEF TInv, TypeOK
<1>2. CASE \E kind \in Kind : TakeRecord(kind)
  <2>1. /\ record' \in Seq(StreamByte) /\ bio' \in Seq(StreamByte) /\ RecordIncomplete'
        /\ Len(bio') < Len(bio) /\ Len(bio) <= BioSize
      BY <1>2, TakeRecordTypes
  <2>2. Len(bio') \in Nat
      BY <2>1, LenProperties
  <2> QED
      BY <1>1, <2>1, <2>2
<1>3. CASE TakeIncomplete
    BY <1>1, <1>3, TakeIncompleteTypes
<1> QED
    BY <1>2, <1>3
\* One operation that ends, by what it took and what it told its callback.
LEMMA OpEndsTypes ==
    ASSUME TInv, \/ HandshakeDone \/ HandshakeWants \/ HandshakeFails \/ HandshakeShut
                 \/ HandshakeAgain
                 \/ ReadData \/ ReadNotify \/ ReadWants \/ ReadFails \/ ReadAgain
    PROVE  TInv' /\ (Working' => Len(bio') < BioSize) /\ OpReturns /\ Operating
<1> USE DEF answers
<1> DEFINE Taken == (\E kind \in Kind : TakeRecord(kind)) \/ TakeIncomplete
           Kept == UNCHANGED <<bio, record>> /\ ~Working /\ UNCHANGED ssl
<1>1. Operating /\ OpReturns /\ (Taken \/ Kept)
  <2>1. "handshake" \in Kind /\ "data" \in Kind /\ "notify" \in Kind /\ "bad" \in Kind
      BY DEF Kind
  <2>2. CASE HandshakeDone \/ HandshakeWants \/ HandshakeFails \/ HandshakeShut
      BY <2>1, <2>2 DEF HandshakeDone, HandshakeWants, HandshakeFails, HandshakeShut,
                        Handshaking, Operating
  <2>3. CASE ReadData \/ ReadNotify \/ ReadWants \/ ReadFails
      BY <2>1, <2>3 DEF ReadData, ReadNotify, ReadWants, ReadFails, Reading, Operating
  <2>4. CASE HandshakeAgain \/ ReadAgain
      BY <2>4 DEF HandshakeAgain, ReadAgain, Operating
  <2> QED
      BY <2>2, <2>3, <2>4
<1>2. /\ record' \in Seq(StreamByte) /\ bio' \in Seq(StreamByte) /\ Len(bio') <= BioSize
      /\ RecordIncomplete'
      /\ Working' => Len(bio') < BioSize
  <2>1. CASE Taken
      BY <2>1, TakenTypes
  <2>2. CASE Kept
      BY <2>2 DEF TInv, TypeOK, RecordIncomplete, Ends, Working
  <2> QED
      BY <1>1, <2>1, <2>2
<1>3. /\ ssl' \in {"handshake", "up", "failed", "shut", "received"}
      /\ flights' \in 0 .. Flights
      /\ handle' \in {"open", "closing", "closed"} /\ aborted' \in BOOLEAN
  <2>1. /\ ssl \in {"handshake", "up", "failed", "shut", "received"} /\ flights \in 0 .. Flights
        /\ handle \in {"open", "closing", "closed"} /\ aborted \in BOOLEAN
        /\ Flights \in Nat
      BY EvtTlsAssumption DEF TInv, TypeOK
  <2>2. CASE HandshakeDone
      BY <2>1, <2>2 DEF HandshakeDone
  <2>3. CASE HandshakeWants \/ HandshakeFails \/ ReadData \/ ReadNotify \/ ReadWants
             \/ ReadFails \/ ReadAgain
      BY <2>1, <2>3 DEF HandshakeWants, HandshakeFails, ReadData, ReadNotify, ReadWants,
                        ReadFails, ReadAgain
  <2>4. CASE HandshakeShut
      BY <2>1, <2>4, CloseTypes DEF HandshakeShut
  <2>5. CASE HandshakeAgain
      BY <2>1, <2>5, CloseTypes DEF HandshakeAgain
  <2> QED
      BY <2>2, <2>3, <2>4, <2>5
<1>4. reported' \in Seq({0, 1})
  <2>1. reported \in Seq({0, 1}) /\ 0 \in {0, 1} /\ 1 \in {0, 1}
      BY DEF TInv, TypeOK
  <2>2. Append(reported, 0) \in Seq({0, 1}) /\ Append(reported, 1) \in Seq({0, 1})
      BY <2>1, AppendProperties
  <2>3. reported' = reported \/ reported' = Append(reported, 0) \/ reported' = Append(reported, 1)
    <3>1. CASE HandshakeDone \/ HandshakeShut \/ HandshakeAgain
        BY <3>1 DEF HandshakeDone, HandshakeShut, HandshakeAgain
    <3>2. CASE HandshakeWants \/ HandshakeFails \/ ReadData \/ ReadNotify \/ ReadWants
               \/ ReadFails \/ ReadAgain
        BY <3>2 DEF HandshakeWants, HandshakeFails, ReadData, ReadNotify, ReadWants,
                    ReadFails, ReadAgain
    <3> QED
        BY <3>1, <3>2
  <2> QED
      BY <2>1, <2>2, <2>3
<1>5. delivered' \in Seq(Nat)
  <2>1. delivered \in Seq(Nat)
      BY DEF TInv, TypeOK
  <2>2. CASE ReadData
    <3>1. Unread[1].rec \in Nat /\ delivered' = Append(delivered, Unread[1].rec)
        BY <2>2, TakeRecordTypes DEF ReadData
    <3> QED
        BY <2>1, <3>1, AppendProperties
  <2>3. CASE HandshakeDone \/ HandshakeShut \/ HandshakeAgain \/ HandshakeWants
             \/ HandshakeFails \/ ReadNotify \/ ReadWants \/ ReadFails \/ ReadAgain
      BY <2>1, <2>3 DEF HandshakeDone, HandshakeShut, HandshakeAgain, HandshakeWants,
                        HandshakeFails, ReadNotify, ReadWants, ReadFails, ReadAgain
  <2> QED
      BY <2>2, <2>3
<1> HIDE DEF Taken, Kept
<1>6. TInv'
    BY <1>1, <1>2, <1>3, <1>4, <1>5, OpTypes
<1> QED
    BY <1>1, <1>2, <1>6

LEMMA ReadHeaderTypes ==
    ASSUME TInv, NEW k \in 1 .. Len(stream) - received, read_header(k)
    PROVE  TInv' /\ chunk' \in Seq(StreamByte) /\ Len(chunk') = k
<1>1. /\ stream \in Seq(StreamByte) /\ Len(stream) \in Nat /\ received \in 0 .. Len(stream)
      /\ k \in Nat \ {0} /\ received + k <= Len(stream) /\ MaxBack \in Nat /\ BioSize \in Nat
    BY LenProperties, EvtTlsAssumption DEF TInv, TypeOK
<1> DEFINE m == received + 1
           n == received + k
<1>2. m \in Int /\ n \in Int /\ m <= n /\ n - m + 1 = k /\ \A j \in m .. n : j \in 1 .. Len(stream)
    BY <1>1
<1>3. chunk' = SubSeq(stream, m, n)
    BY DEF read_header
<1> HIDE DEF m, n
<1>4. chunk' \in Seq(StreamByte) /\ Len(chunk') = k
  <2>1. \A j \in m .. n : stream[j] \in StreamByte
      BY <1>1, <1>2, ElementOfSeq
  <2> QED
      BY <1>2, <1>3, <2>1, SubSeqProperties
<1>5. TypeOK'
    BY <1>1, <1>4 DEF read_header, TInv, TypeOK, answers
<1>6. RecordIncomplete' /\ PieceInChunk' /\ IdleHasNoChunk'
    BY DEF read_header, TInv, RecordIncomplete, PieceInChunk, IdleHasNoChunk, Operating, Ends
<1> QED
    BY <1>4, <1>5, <1>6 DEF TInv

LEMMA TInit == Init => TInv
<1> SUFFICES ASSUME Init PROVE TInv
    OBVIOUS
<1>1. /\ << >> \in Seq(StreamByte) /\ Len(<< >>) = 0 /\ << >> \in Seq({0, 1}) /\ << >> \in Seq(Nat)
    BY EmptySeq
<1>2. stream \in Seq(StreamByte) /\ Len(stream) \in Nat
    BY EvtTlsAssumption, LenProperties DEF Init
<1>3. BioSize \in Nat /\ Flights \in Nat /\ MaxBack \in Nat
    BY EvtTlsAssumption
<1>4. TypeOK
  <2>1. /\ received \in 0 .. Len(stream) /\ offset \in -MaxBack .. 0 /\ i \in -1 .. BioSize
        /\ flights \in 0 .. Flights /\ 0 <= BioSize
      BY <1>2, <1>3 DEF Init
  <2>2. /\ chunk \in Seq(StreamByte) /\ Len(chunk) = 0 /\ bio \in Seq(StreamByte) /\ Len(bio) = 0
        /\ record \in Seq(StreamByte) /\ reported \in Seq({0, 1}) /\ delivered \in Seq(Nat)
      BY <1>1 DEF Init
  <2>3. /\ control \in {"idle", "feed", "handshake", "read"}
        /\ ssl \in {"handshake", "up", "failed", "shut", "received"}
        /\ handle \in {"open", "closing", "closed"}
        /\ behind \in BOOLEAN /\ aborted \in BOOLEAN
      BY DEF Init
  <2> QED
      BY <1>2, <2>1, <2>2, <2>3 DEF TypeOK
<1>5. RecordIncomplete
    BY EndsEmpty DEF Init, RecordIncomplete
<1> QED
    BY <1>4, <1>5 DEF Init, TInv, PieceInChunk, Operating, IdleHasNoChunk

LEMMA TNext == TInv /\ [Next]_vars => TInv'
<1> SUFFICES ASSUME TInv, [Next]_vars PROVE TInv'
    OBVIOUS
<1>1. CASE \E k \in 1 .. Len(stream) - received : read_header(k)
    BY <1>1, ReadHeaderTypes
<1>2. CASE ReadError \/ AfterClientClose
  <2>1. handle' \in {"open", "closing", "closed"} /\ aborted' \in BOOLEAN
      BY <1>2, CloseTypes DEF ReadError, AfterClientClose, TInv, TypeOK
  <2>2. UNCHANGED <<stream, received, control, chunk, offset, i, bio, record, ssl, flights,
                    reported, delivered, behind>>
      BY <1>2 DEF ReadError, AfterClientClose, feeding, answers
  <2>3. TypeOK'
      BY <2>1, <2>2 DEF TInv, TypeOK
  <2> QED
      BY <2>2, <2>3 DEF TInv, RecordIncomplete, PieceInChunk, IdleHasNoChunk, Operating, Ends
<1>3. CASE FeedPiece
    BY <1>3, FeedPieceTypes
<1>4. CASE FeedReturns
    BY <1>4, FeedReturnsTypes
<1>5. CASE HandshakeRecord
    BY <1>5, HandshakeRecordTypes
<1>6. CASE \/ HandshakeDone \/ HandshakeWants \/ HandshakeFails \/ HandshakeShut
           \/ HandshakeAgain
           \/ ReadData \/ ReadNotify \/ ReadWants \/ ReadFails \/ ReadAgain
    BY <1>6, OpEndsTypes
<1>7. CASE UNCHANGED vars
    BY <1>7 DEF vars, TInv, TypeOK, RecordIncomplete, PieceInChunk, IdleHasNoChunk, Operating,
                Ends
<1> QED
    BY <1>1, <1>2, <1>3, <1>4, <1>5, <1>6, <1>7 DEF Next, Finished, evt_tls_feed_data

\* Every variable keeps its type and the BIO pair never holds more than it can.
THEOREM TypeCorrect == Spec => []TypeOK
<1>1. TInv => TypeOK
    BY DEF TInv
<1> QED
    BY <1>1, TInit, TNext, PTL DEF Spec
-----------------------------------------------------------------------------
(***************************************************************************)
(* The BIO has room for the next piece.  As long as OpenSSL works, an      *)
(* operation leaves the BIO with room, also when the call ends there, so   *)
(* that BIO_write is never refused and the loop never goes backwards.      *)
(***************************************************************************)
Forward == Working => offset >= 0 /\ (Operating => i >= 0)

RoomForNext == Working /\ ~Operating => Len(bio) < BioSize

RInv == TInv /\ Forward /\ RoomForNext

\* Every step is one of these.
Ending ==
    \/ HandshakeDone \/ HandshakeWants \/ HandshakeFails \/ HandshakeShut \/ HandshakeAgain
    \/ ReadData \/ ReadNotify \/ ReadWants \/ ReadFails \/ ReadAgain

Outside ==
    /\ UNCHANGED <<stream, received, control, chunk, offset, i, bio, record, ssl, flights,
                   reported, delivered, behind>>

LEMMA Steps ==
    ASSUME [Next]_vars
    PROVE  \/ \E k \in 1 .. Len(stream) - received : read_header(k)
           \/ FeedPiece \/ FeedReturns \/ HandshakeRecord \/ Ending \/ Outside
<1>1. CASE ReadError \/ AfterClientClose
    BY <1>1 DEF ReadError, AfterClientClose, Outside, feeding, answers
<1>2. CASE UNCHANGED vars
    BY <1>2 DEF vars, Outside
<1> QED
    BY <1>1, <1>2 DEF Next, Finished, evt_tls_feed_data, Ending

\* Once OpenSSL has stopped it does not start again.
LEMMA WorkingBefore == ASSUME [Next]_vars, Working' PROVE Working
<1>1. CASE (\E k \in 1 .. Len(stream) - received : read_header(k))
           \/ FeedPiece \/ FeedReturns \/ HandshakeRecord \/ Outside
    BY <1>1 DEF read_header, FeedPiece, FeedReturns, HandshakeRecord, Outside, Working
<1>2. CASE HandshakeDone \/ HandshakeWants \/ HandshakeFails \/ HandshakeShut
           \/ HandshakeAgain
    BY <1>2 DEF HandshakeDone, HandshakeWants, HandshakeFails, HandshakeShut,
                HandshakeAgain, Handshaking, Working
<1>3. CASE ReadData \/ ReadNotify \/ ReadWants \/ ReadFails \/ ReadAgain
    BY <1>3 DEF ReadData, ReadNotify, ReadWants, ReadFails, ReadAgain, Reading, Working
<1> QED
    BY <1>1, <1>2, <1>3, Steps DEF Ending

LEMMA RInit == Init => RInv
<1> SUFFICES ASSUME Init PROVE RInv
    OBVIOUS
<1>1. BioSize \in Nat \ {0} /\ Len(<< >>) = 0
    BY EvtTlsAssumption, EmptySeq
<1>2. TInv
    BY TInit
<1>3. Forward /\ RoomForNext
    BY <1>1 DEF Init, Forward, RoomForNext, Operating
<1> QED
    BY <1>2, <1>3 DEF RInv

\* The loop goes on behind what BIO_write took.
LEMMA ForwardOffset ==
    ASSUME RInv, Operating, OpReturns, Working
    PROVE  offset' = offset + i /\ offset' >= 0 /\ offset' \in Nat
<1>1. offset \in Int /\ i \in Int /\ offset >= 0 /\ i >= 0 /\ MaxBack \in Nat
    BY EvtTlsAssumption, LenProperties DEF RInv, TInv, TypeOK, Forward
<1> QED
    BY <1>1 DEF OpReturns, NextOffset, Larger

\* BIO_write takes at least a byte.
LEMMA PieceTaken ==
    ASSUME RInv, FeedPiece, Working
    PROVE  /\ i' = Room /\ Room \in Nat \ {0} /\ offset \in Nat
           /\ offset + Room <= Len(chunk) /\ Operating'
<1>1. /\ BioSize \in Nat /\ bio \in Seq(StreamByte) /\ Len(bio) \in Nat /\ chunk \in Seq(StreamByte)
      /\ Len(chunk) \in Nat /\ offset \in Int /\ offset >= 0
    BY EvtTlsAssumption, LenProperties DEF RInv, TInv, TypeOK, Forward
<1>2. Len(bio) < BioSize
    BY DEF RInv, RoomForNext, FeedPiece, Operating
<1>3. Room \in Nat \ {0} /\ Room <= Len(chunk) - offset
    BY <1>2, PieceProperties DEF RInv, FeedPiece
<1>4. i' = Room
    BY <1>1, <1>2 DEF FeedPiece, BIO_write
<1> QED
    BY <1>1, <1>3, <1>4 DEF FeedPiece, Operating

LEMMA RNext == RInv /\ [Next]_vars => RInv'
<1> SUFFICES ASSUME RInv, [Next]_vars PROVE RInv'
    OBVIOUS
<1>1. TInv'
    BY TNext DEF RInv
<1>2. Forward' /\ RoomForNext'
  <2> SUFFICES ASSUME Working'
               PROVE  /\ offset' >= 0 /\ (Operating' => i' >= 0)
                      /\ ~Operating' => Len(bio') < BioSize
      BY DEF Forward, RoomForNext
  <2>1. Working /\ offset >= 0 /\ (Operating => i >= 0) /\ (~Operating => Len(bio) < BioSize)
      BY WorkingBefore DEF RInv, Forward, RoomForNext
  <2>2. CASE \E k \in 1 .. Len(stream) - received : read_header(k)
      BY <2>1, <2>2 DEF read_header, Operating
  <2>3. CASE FeedPiece
    <3>1. i' = Room /\ Room \in Nat /\ Operating' /\ offset' = offset
        BY <2>1, <2>3, PieceTaken DEF FeedPiece
    <3> QED
        BY <2>1, <3>1
  <2>4. CASE FeedReturns
      BY <2>1, <2>4 DEF FeedReturns, Operating
  <2>5. CASE HandshakeRecord
    <3>1. Operating /\ Operating' /\ offset' = offset /\ i' = i
        BY <2>5 DEF HandshakeRecord, Handshaking, Operating, feeding
    <3> QED
        BY <2>1, <3>1
  <2>6. CASE Ending
    <3>1. OpReturns /\ Operating /\ Len(bio') < BioSize
        BY <2>6, OpEndsTypes DEF RInv, Ending
    <3>2. ~Operating'
        BY <3>1 DEF OpReturns, Operating
    <3>3. offset' >= 0
        BY <2>1, <3>1, ForwardOffset
    <3> QED
        BY <3>1, <3>2, <3>3
  <2>7. CASE Outside
      BY <2>1, <2>7 DEF Outside, Operating
  <2> QED
      BY <2>2, <2>3, <2>4, <2>5, <2>6, <2>7, Steps
<1> QED
    BY <1>1, <1>2 DEF RInv

\* As long as OpenSSL works, BIO_write is never called with a full BIO.
THEOREM RoomForEveryPiece == Spec => []BioHasRoom
<1>1. RInv => BioHasRoom
    BY DEF RInv, RoomForNext, Operating, BioHasRoom
<1> QED
    BY <1>1, RInit, RNext, PTL DEF Spec
-----------------------------------------------------------------------------
(***************************************************************************)
(* A record that comes alone.  If no record was complete before the call   *)
(* and its chunk completes one only, then each piece finds nothing to read *)
(* in front of it, and the operation after the piece reads all there is.   *)
(***************************************************************************)
Alone == \A k, m \in Ends(chunk) : k = m

NoneLeft ==
    Working /\ ~behind /\ Alone =>
        /\ control = "feed" => Ends(Unread) = {}
        /\ Operating => \A k, m \in Ends(Unread) : k = m

AInv == RInv /\ NoneLeft

\* An operation of an OpenSSL that works on takes a record or all there is.
LEMMA OpTakes ==
    ASSUME Ending, Working'
    PROVE  (\E kind \in Kind : TakeRecord(kind)) \/ TakeIncomplete
<1>1. "handshake" \in Kind /\ "data" \in Kind /\ "notify" \in Kind /\ "bad" \in Kind
    BY DEF Kind
<1>2. CASE HandshakeDone \/ HandshakeWants \/ HandshakeFails \/ HandshakeShut
    BY <1>1, <1>2 DEF HandshakeDone, HandshakeWants, HandshakeFails, HandshakeShut
<1>3. CASE ReadData \/ ReadNotify \/ ReadWants \/ ReadFails
    BY <1>1, <1>3 DEF ReadData, ReadNotify, ReadWants, ReadFails
<1>4. CASE HandshakeAgain \/ ReadAgain
    BY <1>4 DEF HandshakeAgain, ReadAgain, Working
<1> QED
    BY <1>2, <1>3, <1>4 DEF Ending

\* What is left when a record was taken.
LEMMA UnreadAfterRecord ==
    ASSUME TInv, NEW kind, TakeRecord(kind)
    PROVE  Unread' = From(Unread, RecordLen + 1)
<1>1. record' = << >> /\ bio' = From(Unread, RecordLen + 1) /\ bio' \in Seq(StreamByte)
    BY TakeRecordTypes DEF TakeRecord
<1>2. << >> \o bio' = bio'
    BY <1>1, ConcatEmptySeq
<1> QED
    BY <1>1, <1>2 DEF Unread

LEMMA UnreadAfterIncomplete ==
    ASSUME TInv, TakeIncomplete
    PROVE  Unread' = Unread
<1>1. record' = Unread /\ bio' = << >> /\ Unread \in Seq(StreamByte)
    BY UnreadType DEF TakeIncomplete, TInv
<1>2. Unread \o << >> = Unread
    BY <1>1, ConcatEmptySeq
<1>3. Unread' = record' \o bio'
    BY DEF Unread
<1> QED
    BY <1>1, <1>2, <1>3

\* The ends behind a record that was taken are ends of what there was.
LEMMA EndsAfterRecord ==
    ASSUME TInv, NEW kind, TakeRecord(kind), NEW k \in Ends(Unread')
    PROVE  k + RecordLen \in Ends(Unread) /\ k + RecordLen # RecordLen
<1>1. RecordLen \in 1 .. Len(Unread)
    BY RecordLenProperties DEF TakeRecord
<1>2. Unread \in Seq(StreamByte) /\ Len(Unread) \in Nat
    BY UnreadType DEF TInv
<1> DEFINE m == RecordLen + 1
           u == From(Unread, m)
<1>3. m \in 1 .. Len(Unread) + 1 /\ m = RecordLen + 1
    BY <1>1, <1>2
<1>4. Unread' = u
    BY UnreadAfterRecord
<1> HIDE DEF m
<1>5. /\ Len(u) = Len(Unread) - m + 1
      /\ \A j \in 1 .. Len(Unread) - m + 1 : u[j] = Unread[m + j - 1]
    BY <1>2, <1>3, FromParts
<1> HIDE DEF u
<1>6. k \in 1 .. Len(u) /\ u[k].pos = u[k].len
    BY <1>4 DEF Ends
<1>7. /\ k \in 1 .. Len(Unread) - m + 1 /\ m + k - 1 = k + RecordLen
      /\ k + RecordLen \in 1 .. Len(Unread) /\ k + RecordLen # RecordLen
    BY <1>1, <1>2, <1>3, <1>5, <1>6
<1>8. u[k] = Unread[k + RecordLen]
    BY <1>5, <1>7
<1> QED
    BY <1>6, <1>7, <1>8 DEF Ends

\* Nothing is complete in what OpenSSL keeps and the BIO, when neither has a record's end.
LEMMA NoneInUnread ==
    ASSUME TInv, Ends(bio) = {}
    PROVE  Ends(Unread) = {}
<1> SUFFICES ASSUME NEW k \in Ends(Unread) PROVE FALSE
    OBVIOUS
<1>1. /\ Len(Unread) = Len(record) + Len(bio) /\ Len(record) \in Nat /\ Len(bio) \in Nat
      /\ \A j \in 1 .. Len(record) + Len(bio) :
            Unread[j] = IF j <= Len(record) THEN record[j] ELSE bio[j - Len(record)]
    BY UnreadType DEF TInv
<1>2. k \in 1 .. Len(record) + Len(bio) /\ Unread[k].pos = Unread[k].len
    BY <1>1 DEF Ends
<1>3. CASE k <= Len(record)
  <2>1. k \in 1 .. Len(record) /\ Unread[k] = record[k]
      BY <1>1, <1>2, <1>3
  <2> QED
      BY <1>2, <2>1 DEF Ends, TInv, RecordIncomplete
<1>4. CASE ~(k <= Len(record))
  <2>1. k - Len(record) \in 1 .. Len(bio) /\ Unread[k] = bio[k - Len(record)]
      BY <1>1, <1>2, <1>4
  <2> QED
      BY <1>2, <2>1 DEF Ends
<1> QED
    BY <1>3, <1>4

\* What was fed follows what was there.
LEMMA UnreadAfterPiece ==
    ASSUME TInv, FeedPiece
    PROVE  /\ Unread' = Unread \o Piece
           /\ Piece \in Seq(StreamByte) /\ Len(Piece) = Room /\ Room \in Nat
<1>1. Piece \in Seq(StreamByte) /\ Len(Piece) = Room /\ Room \in Nat
    BY PieceProperties DEF FeedPiece
<1>2. record \in Seq(StreamByte) /\ bio \in Seq(StreamByte)
    BY DEF TInv, TypeOK
<1>3. Unread' = record \o (bio \o Piece)
    BY DEF FeedPiece, Unread
<1> DEFINE p == Piece
<1> HIDE DEF p
<1>4. p \in Seq(StreamByte)
    BY <1>1 DEF p
<1>5. (record \o bio) \o p = record \o (bio \o p)
    BY <1>2, <1>4, ConcatAssociative
<1> QED
    BY <1>1, <1>3, <1>5 DEF p, Unread
LEMMA EndsAfterPiece ==
    ASSUME RInv, FeedPiece, Working, Ends(Unread) = {}, NEW k \in Ends(Unread')
    PROVE  offset + (k - Len(Unread)) \in Ends(chunk)
<1>1. /\ Unread \in Seq(StreamByte) /\ Len(Unread) \in Nat
    BY UnreadType DEF RInv, TInv
<1>2. /\ Unread' = Unread \o Piece
      /\ Piece \in Seq(StreamByte) /\ Len(Piece) = Room /\ Room \in Nat
    BY UnreadAfterPiece DEF RInv
<1>3. offset \in Nat /\ offset + Room <= Len(chunk) /\ Len(chunk) \in Nat
  <2>1. Len(chunk) \in Nat
      BY LenProperties DEF RInv, TInv, TypeOK
  <2> QED
      BY <2>1, PieceTaken
<1>4. \A j \in 1 .. Room :
          Piece[j] = IF offset + j < 1 THEN Foreign ELSE chunk[offset + j]
    BY PieceProperties DEF RInv, FeedPiece
<1> DEFINE p == Piece
           u == Unread
<1>5. \A j \in 1 .. Room : p[j] = chunk[offset + j]
    BY <1>3, <1>4
<1> HIDE DEF p, u
<1>6. /\ u \in Seq(StreamByte) /\ p \in Seq(StreamByte) /\ Len(u) \in Nat /\ Len(p) = Room
      /\ Ends(u) = {} /\ k \in Ends(u \o p)
    BY <1>1, <1>2 DEF u, p
<1>7. /\ Len(u \o p) = Len(u) + Len(p)
      /\ \A j \in 1 .. Len(u) + Len(p) : (u \o p)[j] = IF j <= Len(u) THEN u[j] ELSE p[j - Len(u)]
    BY <1>6, ConcatProperties
<1>8. k \in 1 .. Len(u) + Len(p) /\ (u \o p)[k].pos = (u \o p)[k].len
    BY <1>6, <1>7 DEF Ends
<1>9. k > Len(u)
  <2> SUFFICES ASSUME ~(k > Len(u)) PROVE FALSE
      OBVIOUS
  <2>1. k \in 1 .. Len(u) /\ (u \o p)[k] = u[k]
      BY <1>6, <1>7, <1>8
  <2> QED
      BY <1>6, <1>8, <2>1 DEF Ends
<1>10. k - Len(u) \in 1 .. Room /\ (u \o p)[k] = p[k - Len(u)]
    BY <1>2, <1>6, <1>7, <1>8, <1>9
<1>11. (u \o p)[k] = chunk[offset + (k - Len(u))] /\ offset + (k - Len(u)) \in 1 .. Len(chunk)
    BY <1>2, <1>3, <1>5, <1>6, <1>10, SMTT(20)
<1> QED
    BY <1>8, <1>11 DEF Ends, u

LEMMA AInit == Init => AInv
<1>1. Init => NoneLeft
    BY DEF Init, NoneLeft, Operating
<1> QED
    BY <1>1, RInit DEF AInv

LEMMA ANext == AInv /\ [Next]_vars => AInv'
<1> SUFFICES ASSUME AInv, [Next]_vars PROVE AInv'
    OBVIOUS
<1>1. RInv' /\ TInv
    BY RNext DEF AInv, RInv
<1>2. NoneLeft'
  <2> SUFFICES ASSUME Working', ~behind', Alone'
               PROVE  /\ control' = "feed" => Ends(Unread') = {}
                      /\ Operating' => \A k, m \in Ends(Unread') : k = m
      BY DEF NoneLeft, Ends, Unread
  <2>1. Working
      BY WorkingBefore
  <2>2. CASE \E k \in 1 .. Len(stream) - received : read_header(k)
    <3>1. Ends(bio) = {} /\ record' = record /\ bio' = bio /\ control' = "feed"
        BY <2>2 DEF read_header
    <3>2. Ends(Unread) = {} /\ Unread' = Unread
        BY <1>1, <3>1, NoneInUnread DEF Unread
    <3> QED
        BY <3>1, <3>2 DEF Operating
  <2>3. CASE FeedPiece
    <3>1. ~behind /\ Alone /\ control = "feed" /\ control' # "feed"
        BY <2>3 DEF FeedPiece, Alone, Ends
    <3>2. Ends(Unread) = {}
        BY <2>1, <3>1 DEF AInv, NoneLeft
    <3>3. ASSUME NEW k \in Ends(Unread'), NEW m \in Ends(Unread') PROVE k = m
      <4>1. offset + (k - Len(Unread)) \in Ends(chunk) /\ offset + (m - Len(Unread)) \in Ends(chunk)
          BY <2>1, <2>3, <3>2, EndsAfterPiece DEF AInv
      <4>2. offset + (k - Len(Unread)) = offset + (m - Len(Unread))
          BY <3>1, <4>1 DEF Alone
      <4>3. k \in Int /\ m \in Int
          BY DEF Ends
      <4>4. Len(Unread) \in Int /\ offset \in Int
          BY UnreadType, LenProperties, EvtTlsAssumption DEF AInv, RInv, TInv, TypeOK
      <4> QED
          BY <4>2, <4>3, <4>4
    <3> QED
        BY <3>1, <3>3
  <2>4. CASE FeedReturns
      BY <2>4 DEF FeedReturns, Operating
  <2>5. ASSUME NEW kind, TakeRecord(kind), Operating, ~behind, Alone PROVE Ends(Unread') = {}
    <3> SUFFICES ASSUME NEW k \in Ends(Unread') PROVE FALSE
        OBVIOUS
    <3>1. k + RecordLen \in Ends(Unread) /\ k + RecordLen # RecordLen
        BY <1>1, <2>5, EndsAfterRecord
    <3>2. RecordLen \in Ends(Unread)
        BY <1>1, <2>5, RecordLenProperties DEF TakeRecord
    <3> QED
        BY <2>1, <2>5, <3>1, <3>2 DEF AInv, NoneLeft
  <2>6. CASE HandshakeRecord
    <3>1. TakeRecord("handshake") /\ Operating /\ ~behind /\ Alone
        BY <2>6 DEF HandshakeRecord, Handshaking, Operating, Alone, Ends, feeding
    <3> QED
        BY <2>5, <3>1
  <2>7. CASE Ending
    <3>1. OpReturns /\ Operating
        BY <1>1, <2>7, OpEndsTypes DEF Ending
    <3>2. ~behind /\ Alone
        BY <3>1 DEF OpReturns, Alone, Ends
    <3>3. CASE \E kind \in Kind : TakeRecord(kind)
        BY <2>5, <3>1, <3>2, <3>3
    <3>4. CASE TakeIncomplete
        BY <1>1, <3>4, UnreadAfterIncomplete DEF TakeIncomplete
    <3> QED
        BY <2>7, <3>3, <3>4, OpTakes
  <2>8. CASE Outside
    <3>1. ~behind /\ Alone /\ Unread' = Unread /\ control' = control
        BY <2>8 DEF Outside, Alone, Ends, Unread
    <3> QED
        BY <2>1, <3>1 DEF AInv, NoneLeft, Operating
  <2> QED
      BY <2>2, <2>3, <2>4, <2>6, <2>7, <2>8, Steps
<1> QED
    BY <1>1, <1>2 DEF AInv

\* A record completed by a call that completes no other, with none left from earlier
\* calls, has been read when the call returns.
THEOREM AloneReadAtOnce == Spec => []AloneIsRead
<1>1. AInv => AloneIsRead
    BY DEF AInv, NoneLeft, Alone, AloneIsRead
<1> QED
    BY <1>1, AInit, ANext, PTL DEF Spec
-----------------------------------------------------------------------------
(***************************************************************************)
(* No byte is lost, repeated or moved.  The bytes OpenSSL has not used are *)
(* followed through the BIO pair and the chunk: a step leaves them as they *)
(* are, adds what libuv has read, or takes a record off their front.       *)
(***************************************************************************)
Rest == Unread \o NotFed

OInv == RInv /\ BytesInOrder

\* The end of a concatenation.
LEMMA FromConcat ==
    ASSUME NEW S, NEW a \in Seq(S), NEW b \in Seq(S), NEW m \in 1 .. Len(a) + 1
    PROVE  From(a \o b, m) = From(a, m) \o b
<1> DEFINE ab == a \o b
           f == From(a, m)
<1>1. /\ ab \in Seq(S) /\ Len(ab) = Len(a) + Len(b)
      /\ \A k \in 1 .. Len(a) + Len(b) : ab[k] = IF k <= Len(a) THEN a[k] ELSE b[k - Len(a)]
      /\ Len(a) \in Nat /\ Len(b) \in Nat
    BY ConcatProperties, LenProperties
<1>2. /\ f \in Seq(S) /\ Len(f) = Len(a) - m + 1
      /\ \A k \in 1 .. Len(a) - m + 1 : f[k] = a[m + k - 1]
    BY FromParts
<1> HIDE DEF ab, f
<1>3. m \in 1 .. Len(ab) + 1
    BY <1>1
<1> DEFINE g == From(ab, m)
           h == f \o b
<1>4. /\ g \in Seq(S) /\ Len(g) = Len(ab) - m + 1
      /\ \A k \in 1 .. Len(ab) - m + 1 : g[k] = ab[m + k - 1]
    BY <1>1, <1>3, FromParts
<1>5. /\ h \in Seq(S) /\ Len(h) = Len(f) + Len(b)
      /\ \A k \in 1 .. Len(f) + Len(b) : h[k] = IF k <= Len(f) THEN f[k] ELSE b[k - Len(f)]
  <2>1. f \in Seq(S)
      BY <1>2
  <2> QED
      BY <2>1, ConcatProperties
<1> HIDE DEF g, h
<1>6. \A k \in 1 .. Len(g) : g[k] = h[k]
  <2> SUFFICES ASSUME NEW k \in 1 .. Len(g) PROVE g[k] = h[k]
      OBVIOUS
  <2>1. /\ k \in 1 .. Len(ab) - m + 1 /\ k \in 1 .. Len(f) + Len(b) /\ m + k - 1 \in 1 .. Len(a) + Len(b)
        /\ k - Len(f) = m + k - 1 - Len(a) /\ (m + k - 1 <= Len(a) <=> k <= Len(f))
      BY <1>1, <1>2, <1>4, SMTT(20)
  <2>2. g[k] = ab[m + k - 1] /\ h[k] = IF k <= Len(f) THEN f[k] ELSE b[k - Len(f)]
      BY <1>4, <1>5, <2>1
  <2>3. k <= Len(f) => f[k] = a[m + k - 1]
      BY <1>1, <1>2
  <2>4. ab[m + k - 1] = IF m + k - 1 <= Len(a) THEN a[m + k - 1] ELSE b[m + k - 1 - Len(a)]
      BY <1>1, <2>1, SMTT(20)
  <2>5. b[k - Len(f)] = b[m + k - 1 - Len(a)]
      BY <2>1
  <2> QED
      BY <2>1, <2>2, <2>3, <2>4, <2>5
<1>7. g = h
  <2>1. Len(g) = Len(h)
      BY <1>1, <1>2, <1>4, <1>5
  <2> QED
      BY <1>4, <1>5, <1>6, <2>1, SeqEqual
<1> QED
    BY <1>7 DEF g, h, f, ab

LEMMA FromFirst ==
    ASSUME NEW S, NEW s \in Seq(S)
    PROVE  From(s, 1) = s
    BY SubSeqFull DEF From

LEMMA FromPastEnd ==
    ASSUME NEW S, NEW s \in Seq(S)
    PROVE  From(s, Len(s) + 1) = << >>
<1>1. Len(s) \in Nat
    BY LenProperties
<1> QED
    BY <1>1, SubSeqEmpty DEF From

\* Where the bytes begin that were not given to BIO_write.
NotFedAt == 1 + IF control \in {"handshake", "read"} THEN offset + i ELSE offset

LEMMA NotFedType ==
    ASSUME RInv, Working
    PROVE  /\ NotFedAt \in 1 .. Len(chunk) + 1
           /\ chunk \in Seq(StreamByte) /\ Len(chunk) \in Nat
           /\ NotFed = From(chunk, NotFedAt) /\ NotFed \in Seq(StreamByte)
           /\ Rest = Unread \o NotFed
           /\ Unread \in Seq(StreamByte) /\ Rest \in Seq(StreamByte) /\ Len(Rest) \in Nat
<1>1. /\ chunk \in Seq(StreamByte) /\ Len(chunk) \in Nat /\ offset \in Int /\ i \in Int
      /\ offset <= Len(chunk) /\ (Operating => offset + i <= Len(chunk))
      /\ offset >= 0 /\ (Operating => i >= 0)
    BY EvtTlsAssumption, LenProperties DEF RInv, TInv, TypeOK, Forward, PieceInChunk
<1>2. NotFedAt \in 1 .. Len(chunk) + 1
    BY <1>1 DEF NotFedAt, Operating
<1>3. NotFed = From(chunk, NotFedAt)
    BY DEF NotFed, NotFedAt
<1>4. NotFed \in Seq(StreamByte)
    BY <1>1, <1>2, <1>3, FromParts
<1>5. Unread \in Seq(StreamByte)
    BY UnreadType DEF RInv, TInv
<1>6. Rest \in Seq(StreamByte) /\ Len(Rest) \in Nat
    BY <1>4, <1>5, ConcatProperties, LenProperties DEF Rest
<1> QED
    BY <1>1, <1>2, <1>3, <1>4, <1>5, <1>6 DEF Rest
\* A piece that is fed moves from the chunk to the BIO.
LEMMA RestAfterPiece == ASSUME RInv, FeedPiece, Working PROVE Rest' = Rest
<1>1. /\ NotFedAt \in 1 .. Len(chunk) + 1
      /\ chunk \in Seq(StreamByte) /\ Len(chunk) \in Nat
      /\ NotFed = From(chunk, NotFedAt) /\ NotFed \in Seq(StreamByte)
      /\ Unread \in Seq(StreamByte)
    BY NotFedType
<1>2. /\ i' = Room /\ Room \in Nat \ {0} /\ offset \in Nat
      /\ offset + Room <= Len(chunk)
    BY PieceTaken
<1>3. NotFed = From(chunk, offset + 1) /\ NotFed' = From(chunk, offset + Room + 1)
  <2>1. control = "feed" /\ control' \in {"handshake", "read"} /\ chunk' = chunk /\ offset' = offset
      BY DEF FeedPiece
  <2>2. 1 + offset = offset + 1 /\ 1 + (offset + Room) = offset + Room + 1
      BY <1>2
  <2>3. NotFed = From(chunk, 1 + offset)
      BY <2>1 DEF NotFed
  <2>4. NotFed' = From(chunk, 1 + (offset + Room))
      BY <1>2, <2>1 DEF NotFed, From
  <2> QED
      BY <2>2, <2>3, <2>4
<1> DEFINE p == Piece
           m == offset + 1
           n == offset + Room
           t == From(chunk, n + 1)
           u == Unread
<1>4. Unread' = u \o p /\ p \in Seq(StreamByte) /\ Len(p) = Room
    BY UnreadAfterPiece DEF RInv
<1>5. \A k \in 1 .. Room : p[k] = chunk[offset + k]
  <2>1. \A k \in 1 .. Room : Piece[k] = IF offset + k < 1 THEN Foreign ELSE chunk[offset + k]
      BY PieceProperties DEF RInv, FeedPiece
  <2> QED
      BY <1>2, <2>1
<1>6. /\ m \in 1 .. Len(chunk) + 1 /\ n \in m - 1 .. Len(chunk) /\ n + 1 \in 1 .. Len(chunk) + 1
      /\ m \in Int /\ n \in Int /\ m <= n /\ n - m + 1 = Room
      /\ \A k \in m .. n : k \in 1 .. Len(chunk)
      /\ Len(chunk) \in n .. Len(chunk)
      /\ \A k \in 1 .. Room : m + k - 1 = offset + k
    BY <1>1, <1>2
<1>7. NotFed = From(chunk, m) /\ NotFed' = t
    BY <1>3
<1> HIDE DEF p, m, n
<1>8. SubSeq(chunk, m, n) = p
  <2>1. \A k \in m .. n : chunk[k] \in StreamByte
      BY <1>1, <1>6, ElementOfSeq
  <2>2. /\ SubSeq(chunk, m, n) \in Seq(StreamByte) /\ Len(SubSeq(chunk, m, n)) = Room
        /\ \A k \in 1 .. Room : SubSeq(chunk, m, n)[k] = chunk[m + k - 1]
      BY <1>6, <2>1, SubSeqProperties
  <2> DEFINE q == SubSeq(chunk, m, n)
  <2>3. q \in Seq(StreamByte) /\ Len(q) = Len(p) /\ \A k \in 1 .. Len(q) : q[k] = p[k]
      BY <1>4, <1>5, <1>6, <2>2
  <2> HIDE DEF q
  <2>4. q = p
      BY <1>4, <2>3, SeqEqual
  <2> QED
      BY <2>4 DEF q
<1>9. p \o t = From(chunk, m)
  <2>1. SubSeq(chunk, m, n) \o SubSeq(chunk, n + 1, Len(chunk)) = SubSeq(chunk, m, Len(chunk))
      BY <1>1, <1>6, ConcatAdjacentSubSeq
  <2> QED
      BY <1>8, <2>1 DEF From
<1>10. t \in Seq(StreamByte)
    BY <1>1, <1>6, FromParts
<1> HIDE DEF t
<1>11. u \in Seq(StreamByte)
    BY <1>1
<1> HIDE DEF u
<1>12. p \in Seq(StreamByte)
    BY <1>4
<1>13. (u \o p) \o t = u \o (p \o t)
    BY <1>10, <1>11, <1>12, ConcatAssociative
<1>14. Rest' = (u \o p) \o t
    BY <1>4, <1>7 DEF Rest
<1> QED
    BY <1>7, <1>9, <1>13, <1>14 DEF Rest, u

\* When the call returns there is nothing left of the chunk.
LEMMA RestAfterReturn == ASSUME RInv, FeedReturns, Working PROVE Rest' = Rest
<1>1. /\ NotFedAt \in 1 .. Len(chunk) + 1
      /\ chunk \in Seq(StreamByte) /\ Len(chunk) \in Nat
      /\ NotFed = From(chunk, NotFedAt)
    BY NotFedType
<1>2. NotFedAt = Len(chunk) + 1
  <2>1. NotFedAt = 1 + offset /\ offset >= Len(chunk) /\ offset \in Int
      BY EvtTlsAssumption DEF FeedReturns, NotFedAt, RInv, TInv, TypeOK
  <2> QED
      BY <1>1, <2>1
<1>3. NotFed = << >>
    BY <1>1, <1>2, FromPastEnd
<1>4. NotFed' = From(<< >>, 1)
    BY DEF FeedReturns, NotFed
<1>5. From(<< >>, 1) = << >>
  <2>1. << >> \in Seq(StreamByte)
      BY EmptySeq
  <2> QED
      BY <2>1, FromFirst
<1>6. Unread' = Unread
    BY DEF FeedReturns, Unread
<1> QED
    BY <1>3, <1>4, <1>5, <1>6 DEF Rest

\* An operation leaves what is behind BIO_write's piece for the next round.
LEMMA NotFedAfterOp ==
    ASSUME RInv, Working, Operating, OpReturns
    PROVE  NotFed' = NotFed
<1>1. offset' = offset + i
    BY ForwardOffset
<1>2. control' = "feed" /\ chunk' = chunk /\ control \in {"handshake", "read"}
    BY DEF OpReturns, Operating
<1>3. NotFed' = From(chunk', 1 + offset')
    BY <1>2 DEF NotFed, From
<1>4. NotFed = From(chunk, 1 + (offset + i))
    BY <1>2 DEF NotFed
<1> QED
    BY <1>1, <1>2, <1>3, <1>4

LEMMA RestAfterRecord ==
    ASSUME RInv, Working, NEW kind, TakeRecord(kind), NotFed' = NotFed
    PROVE  /\ Rest' = From(Rest, RecordLen + 1)
           /\ RecordLen \in 1 .. Len(Unread) /\ Len(Unread) \in Nat /\ Len(Rest) \in Nat
           /\ Len(Unread) <= Len(Rest)
           /\ \A k \in 1 .. Len(Unread) : Rest[k] = Unread[k]
<1>1. RecordLen \in 1 .. Len(Unread)
    BY RecordLenProperties DEF TakeRecord, RInv
<1>2. /\ Unread \in Seq(StreamByte) /\ NotFed \in Seq(StreamByte) /\ Rest = Unread \o NotFed
    BY NotFedType
<1>3. Unread' = From(Unread, RecordLen + 1)
    BY UnreadAfterRecord DEF RInv
<1> DEFINE m == RecordLen + 1
           u == Unread
           n == NotFed
<1>4. m \in 1 .. Len(u) + 1 /\ Len(u) \in Nat
    BY <1>1, <1>2, LenProperties
<1>5. Unread' = From(u, m) /\ NotFed' = n /\ Rest = u \o n /\ u \in Seq(StreamByte) /\ n \in Seq(StreamByte)
    BY <1>2, <1>3
<1>6. RecordLen \in 1 .. Len(u)
    BY <1>1
<1>7. m = RecordLen + 1
    OBVIOUS
<1> HIDE DEF m, u, n
<1>8. From(u \o n, m) = From(u, m) \o n
    BY <1>4, <1>5, FromConcat
<1>9. Rest' = From(Rest, m)
    BY <1>5, <1>8 DEF Rest
<1>10. /\ Len(u \o n) = Len(u) + Len(n) /\ Len(n) \in Nat
       /\ \A k \in 1 .. Len(u) + Len(n) : (u \o n)[k] = IF k <= Len(u) THEN u[k] ELSE n[k - Len(u)]
  <2>1. u \in Seq(StreamByte) /\ n \in Seq(StreamByte)
      BY <1>5
  <2> QED
      BY <2>1, ConcatProperties, LenProperties
<1>11. \A k \in 1 .. Len(u) : Rest[k] = u[k]
    BY <1>4, <1>5, <1>10
<1>12. Len(Rest) \in Nat /\ Len(u) <= Len(Rest)
    BY <1>4, <1>5, <1>10
<1> QED
    BY <1>4, <1>6, <1>7, <1>9, <1>11, <1>12 DEF u
-----------------------------------------------------------------------------
\* What was said of the stream stays true while it and its used part are the same.
LEMMA OrderStays ==
    ASSUME BytesInOrder, Working, stream' = stream, received' = received,
           delivered' = delivered, Rest' = Rest
    PROVE  BytesInOrder'
<1>1. Used' = Used
    BY DEF Used, Rest
<1>2. \A n : DataEnds(n)' = DataEnds(n)
    BY DEF DataEnds, Ends
<1>3. /\ Used >= 0
      /\ Rest = SubSeq(stream, Used + 1, received)
      /\ Len(delivered) = Cardinality(DataEnds(Used))
      /\ \A k \in DataEnds(Used) : delivered[Cardinality(DataEnds(k))] = stream[k].rec
    BY DEF BytesInOrder, Rest
<1>4. DataEnds(Used)' = DataEnds(Used)
    BY <1>1 DEF DataEnds, Ends
<1> HIDE DEF DataEnds
<1>5. /\ Used' >= 0
      /\ Rest' = SubSeq(stream', Used' + 1, received')
      /\ Len(delivered') = Cardinality(DataEnds(Used)')
      /\ \A k \in DataEnds(Used)' : delivered'[Cardinality(DataEnds(k)')] = stream'[k].rec
    BY <1>1, <1>2, <1>3, <1>4
<1> QED
    BY <1>5 DEF BytesInOrder, Rest

\* What libuv has read follows what is there.
LEMMA OrderAfterReadHeader ==
    ASSUME OInv, Working, NEW k \in 1 .. Len(stream) - received, read_header(k)
    PROVE  BytesInOrder'
<1>1. /\ stream \in Seq(StreamByte) /\ Len(stream) \in Nat /\ received \in 0 .. Len(stream)
      /\ k \in Nat \ {0} /\ received + k <= Len(stream)
    BY LenProperties DEF OInv, RInv, TInv, TypeOK
<1>2. /\ Used >= 0 /\ Rest = SubSeq(stream, Used + 1, received)
      /\ Unread \in Seq(StreamByte) /\ Rest \in Seq(StreamByte) /\ Len(Rest) \in Nat
      /\ Rest = Unread \o NotFed /\ Used = received - Len(Rest)
      /\ NotFed = From(chunk, NotFedAt)
    BY NotFedType DEF OInv, BytesInOrder, Used, Rest
<1>3. chunk' \in Seq(StreamByte) /\ Len(chunk') = k
    BY ReadHeaderTypes DEF OInv, RInv
<1>4. NotFed = << >>
  <2>1. control = "idle" /\ chunk = << >> /\ offset = 0
      BY DEF OInv, RInv, TInv, IdleHasNoChunk, read_header
  <2>2. NotFed = From(<< >>, 1) /\ << >> \in Seq(StreamByte)
      BY <2>1, EmptySeq DEF NotFed
  <2> QED
      BY <2>2, FromFirst
<1>5. Rest = Unread
    BY <1>2, <1>4, ConcatEmptySeq
<1>6. NotFed' = chunk'
  <2>1. NotFed' = From(chunk', 1)
    <3>1. control' = "feed" /\ offset' = 0
        BY DEF read_header
    <3>2. NotFed' = From(chunk', 1 + offset')
        BY <3>1 DEF NotFed, From
    <3> QED
        BY <3>1, <3>2
  <2> QED
      BY <1>3, <2>1, FromFirst
<1>7. Rest' = Rest \o chunk'
    BY <1>5, <1>6 DEF Rest, read_header, Unread
<1> DEFINE m == Used + 1
           n == received + k
           r == Rest
           c == chunk'
<1>8. /\ m \in 1 .. Len(stream) + 1 /\ received \in m - 1 .. Len(stream) /\ n \in received .. Len(stream)
    BY <1>1, <1>2
<1>9. r = SubSeq(stream, m, received) /\ c = SubSeq(stream, received + 1, n)
    BY <1>2 DEF read_header
<1>10. m = Used + 1 /\ n = received + k
    OBVIOUS
<1> HIDE DEF m, n
<1>11. SubSeq(stream, m, received) \o SubSeq(stream, received + 1, n) = SubSeq(stream, m, n)
    BY <1>1, <1>8, ConcatAdjacentSubSeq
<1>12. r \in Seq(StreamByte) /\ c \in Seq(StreamByte) /\ Len(r) \in Nat /\ Len(c) = k
    BY <1>2, <1>3
<1>13. Rest' = r \o c
    BY <1>7
<1>14. Used = received - Len(r)
    BY <1>2
<1> HIDE DEF r, c
<1>15. Rest' = SubSeq(stream, m, n) /\ Len(Rest') = Len(r) + k
  <2>1. r \in Seq(StreamByte) /\ c \in Seq(StreamByte)
      BY <1>12
  <2>2. Len(r \o c) = Len(r) + Len(c)
      BY <2>1, ConcatProperties
  <2> QED
      BY <1>9, <1>11, <1>12, <1>13, <2>2
<1>16. stream' = stream /\ received' = n /\ delivered' = delivered
    BY <1>10 DEF read_header, answers
<1>17. Used' = Used
  <2>1. Used' = received' - Len(Rest')
      BY DEF Used, Rest
  <2> QED
      BY <1>1, <1>10, <1>12, <1>14, <1>15, <1>16, <2>1
<1>18. /\ Len(delivered) = Cardinality(DataEnds(Used))
       /\ \A j \in DataEnds(Used) : delivered[Cardinality(DataEnds(j))] = stream[j].rec
    BY DEF OInv, BytesInOrder
<1>19. DataEnds(Used)' = DataEnds(Used) /\ \A j : DataEnds(j)' = DataEnds(j)
    BY <1>16, <1>17 DEF DataEnds, Ends
<1>20. /\ Used' >= 0
       /\ Rest' = SubSeq(stream', Used' + 1, received')
       /\ Len(delivered') = Cardinality(DataEnds(Used)')
       /\ \A j \in DataEnds(Used)' : delivered'[Cardinality(DataEnds(j)')] = stream'[j].rec
    BY <1>2, <1>10, <1>15, <1>16, <1>17, <1>18, <1>19
<1> QED
    BY <1>20 DEF BytesInOrder, Rest

\* A record that OpenSSL accepts is one record of the peer's, with one end.
LEMMA IntactRecord ==
    ASSUME TInv, NEW kind, TakeRecord(kind), kind # "bad"
    PROVE  /\ Unread[1].kind = kind
           /\ \A k \in 1 .. RecordLen : Unread[k].kind = kind /\ Unread[k].rec = Unread[1].rec
           /\ \A k \in 1 .. RecordLen : Unread[k].pos = Unread[k].len <=> k = RecordLen
<1>1. /\ RecordLen \in 1 .. Len(Unread)
      /\ RecordLen \in Ends(Unread) /\ \A m \in Ends(Unread) : RecordLen <= m
    BY RecordLenProperties DEF TakeRecord
<1>2. Unread \in Seq(StreamByte) /\ Len(Unread) \in Nat
    BY UnreadType DEF TInv
<1> DEFINE u == Unread
           n == RecordLen
           s == SubSeq(u, 1, n)
<1>3. Intact(s) /\ u[1].kind = kind
    BY DEF TakeRecord, RecordKind
<1>4. \A k \in 1 .. n : k \in 1 .. Len(u)
    BY <1>1, <1>2
<1>5. n \in Nat \ {0} /\ 1 <= n /\ n \in Int /\ 1 \in Int /\ n - 1 + 1 = n /\ u \in Seq(StreamByte)
      /\ \A k \in 1 .. n : 1 + k - 1 = k
    BY <1>1, <1>2
<1> HIDE DEF u, n
<1>6. Len(s) = n /\ \A k \in 1 .. n : s[k] = u[k]
  <2>1. \A k \in 1 .. n : u[k] \in StreamByte
      BY <1>4, <1>5, ElementOfSeq
  <2> QED
      BY <1>5, <2>1, SubSeqProperties
<1> HIDE DEF s
<1>7. \A k \in 1 .. n : u[k] = [u[1] EXCEPT !.pos = k]
  <2>1. s[1] = u[1]
      BY <1>5, <1>6
  <2>2. \A k \in 1 .. n : s[k] = [s[1] EXCEPT !.pos = k]
      BY <1>3, <1>6 DEF Intact
  <2> SUFFICES ASSUME NEW k \in 1 .. n PROVE u[k] = [u[1] EXCEPT !.pos = k]
      OBVIOUS
  <2>3. s[k] = [s[1] EXCEPT !.pos = k] /\ s[k] = u[k]
      BY <1>6, <2>2
  <2> QED
      BY <2>1, <2>3
<1>8. u[1] \in StreamByte
  <2>1. 1 \in 1 .. Len(u)
      BY <1>4, <1>5
  <2> QED
      BY <1>5, <2>1, ElementOfSeq
<1>9. \A k \in 1 .. n : u[k].kind = u[1].kind /\ u[k].rec = u[1].rec
    BY <1>7, <1>8 DEF StreamByte
<1>10. \A k \in 1 .. n : u[k].pos = u[k].len <=> k = n
  <2>1. n \in Ends(u) /\ \A m \in Ends(u) : n <= m
      BY <1>1 DEF u, n
  <2> SUFFICES ASSUME NEW k \in 1 .. n PROVE u[k].pos = u[k].len <=> k = n
      OBVIOUS
  <2>2. u[k].pos = u[k].len => k \in Ends(u)
      BY <1>4 DEF Ends
  <2>3. u[n].pos = u[n].len
      BY <2>1 DEF Ends
  <2> QED
      BY <1>5, <2>1, <2>2, <2>3
<1> QED
    BY <1>3, <1>9, <1>10 DEF u, n
\* The data records that end before a position can be counted.
LEMMA DataEndsFinite ==
    ASSUME TypeOK, NEW n \in Nat
    PROVE  /\ IsFiniteSet(DataEnds(n)) /\ Cardinality(DataEnds(n)) \in Nat
           /\ \A k \in DataEnds(n) : /\ Cardinality(DataEnds(k)) \in 1 .. Cardinality(DataEnds(n))
<1>1. IsFiniteSet(1 .. Len(stream))
  <2>1. 1 \in Int /\ Len(stream) \in Int
      BY LenProperties DEF TypeOK
  <2> QED
      BY <2>1, FS_Interval
<1>2. \A k : DataEnds(k) \subseteq 1 .. Len(stream)
    BY DEF DataEnds, Ends
<1>3. \A k : IsFiniteSet(DataEnds(k))
    BY <1>1, <1>2, FS_Subset
<1>4. \A k : Cardinality(DataEnds(k)) \in Nat
    BY <1>3, FS_CardinalityType
<1>5. ASSUME NEW k \in DataEnds(n)
      PROVE  Cardinality(DataEnds(k)) \in 1 .. Cardinality(DataEnds(n))
  <2>1. k \in Int /\ Len(stream) \in Int
      BY LenProperties DEF DataEnds, Ends, TypeOK
  <2>2. k \in DataEnds(k) /\ DataEnds(k) \subseteq DataEnds(n)
      BY <2>1 DEF DataEnds, Ends
  <2>3. Cardinality(DataEnds(k)) <= Cardinality(DataEnds(n))
      BY <1>3, <2>2, FS_Subset
  <2>4. Cardinality(DataEnds(k)) # 0
      BY <1>3, <2>2, FS_EmptySet
  <2> QED
      BY <1>4, <2>3, <2>4
<1> QED
    BY <1>3, <1>4, <1>5

\* Where the bytes that are not used lie in the stream.
LEMMA RestInStream ==
    ASSUME OInv, Working
    PROVE  /\ Used \in Nat /\ Len(Rest) \in Nat /\ Used + Len(Rest) = received
           /\ received <= Len(stream) /\ Len(stream) \in Nat
           /\ Rest = SubSeq(stream, Used + 1, received)
           /\ \A k \in 1 .. Len(Rest) : Rest[k] = stream[Used + k]
<1>1. /\ stream \in Seq(StreamByte) /\ Len(stream) \in Nat /\ received \in 0 .. Len(stream)
    BY LenProperties DEF OInv, RInv, TInv, TypeOK
<1>2. /\ Used >= 0 /\ Rest = SubSeq(stream, Used + 1, received)
      /\ Len(Rest) \in Nat /\ Used = received - Len(Rest)
    BY NotFedType DEF OInv, BytesInOrder, Used, Rest
<1> DEFINE m == Used + 1
<1>3. /\ m \in Int /\ received \in Int /\ received - m + 1 = Len(Rest)
      /\ \A k \in m .. received : k \in 1 .. Len(stream)
      /\ \A k \in 1 .. Len(Rest) : m + k - 1 = Used + k
    BY <1>1, <1>2
<1> HIDE DEF m
<1>4. \A k \in m .. received : stream[k] \in StreamByte
    BY <1>1, <1>3, ElementOfSeq
<1>5. \A k \in 1 .. received - m + 1 : SubSeq(stream, m, received)[k] = stream[m + k - 1]
    BY <1>3, <1>4, SubSeqProperties
<1>6. Rest = SubSeq(stream, m, received)
    BY <1>2 DEF m
<1>7. \A k \in 1 .. Len(Rest) : Rest[k] = stream[Used + k]
    BY <1>3, <1>5, <1>6
<1> QED
    BY <1>1, <1>2, <1>7

\* The data records that end in front of what is left when a record was taken: those
\* before, and that record if it is one.
LEMMA DataEndsAfterRecord ==
    ASSUME OInv, Working, NEW kind, TakeRecord(kind), kind # "bad", NotFed' = NotFed
    PROVE  /\ DataEnds(Used + RecordLen) =
                 IF kind = "data" THEN DataEnds(Used) \cup {Used + RecordLen} ELSE DataEnds(Used)
           /\ Used + RecordLen \notin DataEnds(Used)
           /\ stream[Used + RecordLen].rec = Unread[1].rec
<1>1. /\ RecordLen \in 1 .. Len(Unread) /\ Len(Unread) \in Nat /\ Len(Rest) \in Nat
      /\ Len(Unread) <= Len(Rest)
      /\ \A k \in 1 .. Len(Unread) : Rest[k] = Unread[k]
    BY RestAfterRecord DEF OInv
<1>2. /\ Used \in Nat /\ Used + Len(Rest) = received
      /\ received <= Len(stream) /\ Len(stream) \in Nat
      /\ \A k \in 1 .. Len(Rest) : Rest[k] = stream[Used + k]
    BY RestInStream
<1>3. /\ \A k \in 1 .. RecordLen : Unread[k].kind = kind /\ Unread[k].rec = Unread[1].rec
      /\ \A k \in 1 .. RecordLen : Unread[k].pos = Unread[k].len <=> k = RecordLen
    BY IntactRecord DEF OInv, RInv
<1> DEFINE n == RecordLen
           U == Used
<1>4. /\ \A k \in 1 .. n : stream[U + k] = Unread[k] /\ U + k \in 1 .. Len(stream)
      /\ n \in Nat \ {0} /\ U \in Nat /\ n \in 1 .. n
  <2>1. \A k \in 1 .. n : k \in 1 .. Len(Unread) /\ k \in 1 .. Len(Rest)
      BY <1>1
  <2>2. n \in Nat \ {0} /\ U \in Nat
      BY <1>1, <1>2
  <2>3. \A k \in 1 .. n : U + k \in 1 .. Len(stream)
    <3>1. n \in Nat /\ U \in Nat /\ U + n <= Len(stream) /\ Len(stream) \in Nat
        BY <1>1, <1>2
    <3> HIDE DEF n, U
    <3> QED
        BY <3>1
  <2>4. \A k \in 1 .. n : stream[U + k] = Unread[k]
      BY <1>1, <1>2, <2>1
  <2> QED
      BY <2>2, <2>3, <2>4
<1> HIDE DEF n, U
<1>5. \A k \in 1 .. n : /\ stream[U + k].kind = kind
                        /\ stream[U + k].rec = Unread[1].rec
                        /\ stream[U + k].pos = stream[U + k].len <=> k = n
    BY <1>3, <1>4 DEF n
<1>6. ASSUME NEW x, x \in DataEnds(U + n)
      PROVE  x \in DataEnds(U) \/ (kind = "data" /\ x = U + n)
  <2>1. x \in Nat /\ x \in Ends(stream) /\ x <= U + n /\ stream[x].kind = "data"
        /\ stream[x].pos = stream[x].len
      BY <1>6 DEF DataEnds, Ends
  <2>2. CASE x <= U
      BY <2>1, <2>2 DEF DataEnds
  <2>3. CASE ~(x <= U)
    <3>1. x - U \in 1 .. n /\ U + (x - U) = x
        BY <1>4, <2>1, <2>3
    <3>2. x - U = n /\ kind = "data"
        BY <1>5, <2>1, <3>1
    <3> QED
        BY <3>1, <3>2
  <2> QED
      BY <2>2, <2>3
<1>7. DataEnds(U) \subseteq DataEnds(U + n)
  <2> SUFFICES ASSUME NEW x \in DataEnds(U) PROVE x \in DataEnds(U + n)
      OBVIOUS
  <2>1. x \in Ends(stream) /\ x \in Nat /\ x <= U /\ stream[x].kind = "data"
      BY DEF DataEnds, Ends
  <2>2. x <= U + n
      BY <1>4, <2>1
  <2> QED
      BY <2>1, <2>2 DEF DataEnds
<1>8. kind = "data" => U + n \in DataEnds(U + n)
  <2>1. U + n \in 1 .. Len(stream) /\ U + n <= U + n
      BY <1>4
  <2>2. stream[U + n].pos = stream[U + n].len /\ stream[U + n].kind = kind
      BY <1>4, <1>5
  <2> QED
      BY <2>1, <2>2 DEF DataEnds, Ends
<1>9. U + n \notin DataEnds(U)
  <2>1. ~(U + n <= U)
      BY <1>4
  <2> QED
      BY <2>1 DEF DataEnds
<1>10. DataEnds(U + n) = IF kind = "data" THEN DataEnds(U) \cup {U + n} ELSE DataEnds(U)
    BY <1>6, <1>7, <1>8
<1>11. stream[U + n].rec = Unread[1].rec
    BY <1>4, <1>5
<1> QED
    BY <1>9, <1>10, <1>11 DEF U, n
LEMMA OrderAfterRecord ==
    ASSUME OInv, Working, NEW kind, TakeRecord(kind), kind # "bad", NotFed' = NotFed,
           stream' = stream, received' = received,
           delivered' = IF kind = "data" THEN Append(delivered, Unread[1].rec) ELSE delivered
    PROVE  BytesInOrder'
<1> DEFINE U == Used + RecordLen
           D == DataEnds(Used)
           C == Cardinality(D)
           r == Unread[1].rec
<1>1. /\ Rest' = From(Rest, RecordLen + 1)
      /\ RecordLen \in 1 .. Len(Unread) /\ Len(Unread) \in Nat /\ Len(Unread) <= Len(Rest)
    BY RestAfterRecord DEF OInv
<1>2. /\ Used \in Nat /\ Len(Rest) \in Nat /\ Used + Len(Rest) = received
      /\ received <= Len(stream) /\ Len(stream) \in Nat
      /\ Rest = SubSeq(stream, Used + 1, received)
      /\ \A k \in 1 .. Len(Rest) : Rest[k] = stream[Used + k]
    BY RestInStream
<1>3. Rest \in Seq(StreamByte) /\ stream \in Seq(StreamByte)
    BY NotFedType DEF OInv, RInv, TInv, TypeOK
<1>4. /\ U \in Nat /\ U <= received /\ U >= 0 /\ received \in Nat /\ received <= Len(stream)
      /\ U = Used + RecordLen /\ Used \in Nat /\ RecordLen \in Nat /\ RecordLen <= Len(Rest)
      /\ Len(Rest) \in Nat /\ Len(stream) \in Nat /\ Used + Len(Rest) = received
  <2>1. /\ Used \in Nat /\ Len(Rest) \in Nat /\ Used + Len(Rest) = received
        /\ received <= Len(stream) /\ Len(stream) \in Nat
      BY <1>2
  <2>2. RecordLen \in 1 .. Len(Unread) /\ Len(Unread) \in Nat /\ Len(Unread) <= Len(Rest)
      BY <1>1
  <2>3. RecordLen \in Nat /\ RecordLen <= Len(Rest)
      BY <2>1, <2>2
  <2> QED
      BY <2>1, <2>3
<1>5. Rest' = SubSeq(stream, U + 1, received) /\ Len(Rest') = received - U /\ Rest' \in Seq(StreamByte)
  <2> DEFINE m == RecordLen + 1
             n == U + 1
             f == From(Rest, m)
             g == SubSeq(stream, n, received)
  <2>1. /\ m \in 1 .. Len(Rest) + 1 /\ n \in Int /\ received \in Int
        /\ (n <= received \/ n = received + 1)
        /\ Len(Rest) - m + 1 = received - U /\ received - n + 1 = received - U
        /\ \A k \in n .. received : k \in 1 .. Len(stream)
        /\ \A k \in 1 .. received - U : /\ m + k - 1 \in 1 .. Len(Rest)
                                        /\ Used + (m + k - 1) = n + k - 1
    <3> HIDE DEF U
    <3> QED
        BY <1>4
  <2> HIDE DEF m, n
  <2>2. /\ f \in Seq(StreamByte) /\ Len(f) = received - U
        /\ \A k \in 1 .. received - U : f[k] = Rest[m + k - 1]
      BY <1>3, <2>1, FromParts
  <2>3. \A k \in n .. received : stream[k] \in StreamByte
      BY <1>3, <2>1, ElementOfSeq
  <2>4. /\ g \in Seq(StreamByte) /\ Len(g) = IF n <= received THEN received - n + 1 ELSE 0
        /\ \A k \in 1 .. received - n + 1 : g[k] = stream[n + k - 1]
      BY <2>1, <2>3, SubSeqProperties
  <2>5. \A k \in 1 .. received - U : Rest[m + k - 1] = stream[n + k - 1]
      BY <1>2, <2>1
  <2>6. Rest' = f
      BY <1>1 DEF m
  <2> HIDE DEF f, g, U
  <2>7. Len(g) = received - U
      BY <1>4, <2>1, <2>4
  <2>8. \A k \in 1 .. Len(f) : f[k] = g[k]
      BY <2>1, <2>2, <2>4, <2>5
  <2>9. f = g
      BY <2>2, <2>4, <2>7, <2>8, SeqEqual
  <2> QED
      BY <2>2, <2>6, <2>9 DEF g, n
<1>6. Used' = U
  <2>1. Used' = received' - Len(Rest')
      BY DEF Used, Rest
  <2> QED
      BY <1>2, <1>4, <1>5, <2>1
<1>7. /\ DataEnds(U) = IF kind = "data" THEN D \cup {U} ELSE D
      /\ U \notin D
      /\ stream[U].rec = r
    BY DataEndsAfterRecord
<1>8. /\ IsFiniteSet(D) /\ C \in Nat
      /\ \A k \in D : Cardinality(DataEnds(k)) \in 1 .. C
    BY <1>2, DataEndsFinite DEF OInv, RInv, TInv
<1>9. /\ delivered \in Seq(Nat) /\ Len(delivered) = C
      /\ \A k \in D : delivered[Cardinality(DataEnds(k))] = stream[k].rec
    BY DEF OInv, RInv, TInv, TypeOK, BytesInOrder
<1>10. r \in Nat
    BY TakeRecordTypes DEF OInv, RInv
<1>11. DataEnds(Used)' = DataEnds(U) /\ \A k : DataEnds(k)' = DataEnds(k)
    BY <1>6 DEF DataEnds, Ends
<1> HIDE DEF U, D, C, r
<1>12. /\ Len(delivered') = Cardinality(DataEnds(U))
       /\ \A k \in DataEnds(U) : delivered'[Cardinality(DataEnds(k))] = stream[k].rec
  <2>1. CASE kind = "data"
    <3>1. delivered' = Append(delivered, r)
        BY <2>1 DEF r
    <3>2. DataEnds(U) = D \cup {U}
        BY <1>7, <2>1
    <3>3. Cardinality(DataEnds(U)) = C + 1
        BY <1>7, <1>8, <3>2, FS_AddElement DEF C
    <3>4. /\ Len(delivered') = C + 1
          /\ \A k \in 1 .. C : delivered'[k] = delivered[k]
          /\ delivered'[C + 1] = r
        BY <1>9, <1>10, <3>1, AppendProperties
    <3>5. ASSUME NEW k \in D PROVE delivered'[Cardinality(DataEnds(k))] = stream[k].rec
        BY <1>8, <1>9, <3>4, <3>5
    <3>6. delivered'[Cardinality(DataEnds(U))] = stream[U].rec
        BY <1>7, <3>3, <3>4
    <3> QED
        BY <3>2, <3>3, <3>4, <3>5, <3>6
  <2>2. CASE kind # "data"
      BY <1>7, <1>9, <2>2 DEF C
  <2> QED
      BY <2>1, <2>2
<1>13. /\ Used' >= 0
       /\ Rest' = SubSeq(stream', Used' + 1, received')
       /\ Len(delivered') = Cardinality(DataEnds(Used)')
       /\ \A k \in DataEnds(Used)' : delivered'[Cardinality(DataEnds(k)')] = stream'[k].rec
  <2>1. Used' >= 0
      BY <1>4, <1>6
  <2>2. Rest' = SubSeq(stream', Used' + 1, received')
      BY <1>5, <1>6
  <2> QED
      BY <1>11, <1>12, <2>1, <2>2
<1> QED
    BY <1>13 DEF BytesInOrder, Rest

LEMMA OInit == Init => OInv
<1> SUFFICES ASSUME Init PROVE OInv
    OBVIOUS
<1>1. RInv
    BY RInit
<1>2. BytesInOrder
  <2>1. /\ << >> \in Seq(StreamByte) /\ Len(<< >>) = 0 /\ stream \in Seq(StreamByte)
        /\ << >> \o << >> = << >>
      BY EmptySeq, ConcatEmptySeq, EvtTlsAssumption DEF Init
  <2>2. NotFed = << >> /\ Unread = << >>
    <3>1. NotFed = From(<< >>, 1)
        BY DEF Init, NotFed, From
    <3> QED
        BY <2>1, <3>1, FromFirst DEF Init, Unread
  <2>3. Used = 0
    <3> DEFINE n == Len(Unread \o NotFed)
    <3>1. n = 0
        BY <2>1, <2>2, Zenon
    <3>2. Used = received - n
        BY DEF Used
    <3>3. received = 0
        BY DEF Init
    <3> HIDE DEF n
    <3> QED
        BY <3>1, <3>2, <3>3
  <2>4. DataEnds(0) = {}
    <3> SUFFICES ASSUME NEW k \in DataEnds(0) PROVE FALSE
        OBVIOUS
    <3>1. k \in 1 .. Len(stream) /\ k <= 0
        BY DEF DataEnds, Ends
    <3> QED
        BY <3>1
  <2>5. SubSeq(stream, 1, 0) = << >>
      BY SubSeqEmpty
  <2>6. Len(delivered) = Cardinality(DataEnds(Used)) /\ DataEnds(Used) = {}
      BY <2>1, <2>3, <2>4, FS_EmptySet DEF Init
  <2>7. Unread \o NotFed = SubSeq(stream, Used + 1, received)
      BY <2>1, <2>2, <2>3, <2>5 DEF Init
  <2> QED
      BY <2>3, <2>6, <2>7 DEF BytesInOrder
<1> QED
    BY <1>1, <1>2 DEF OInv

LEMMA ONext == OInv /\ [Next]_vars => OInv'
<1> SUFFICES ASSUME OInv, [Next]_vars PROVE OInv'
    OBVIOUS
<1>1. RInv' /\ RInv /\ TInv
    BY RNext DEF OInv, RInv
<1>2. ASSUME Working' PROVE BytesInOrder'
  <2>1. Working /\ BytesInOrder
      BY <1>2, WorkingBefore DEF OInv
  <2>2. CASE \E k \in 1 .. Len(stream) - received : read_header(k)
      BY <2>1, <2>2, OrderAfterReadHeader
  <2>3. CASE FeedPiece \/ FeedReturns
    <3>1. stream' = stream /\ received' = received /\ delivered' = delivered
        BY <2>3 DEF FeedPiece, FeedReturns, answers
    <3>2. Rest' = Rest
        BY <1>1, <2>1, <2>3, RestAfterPiece, RestAfterReturn
    <3> QED
        BY <2>1, <3>1, <3>2, OrderStays
  <2>4. CASE HandshakeRecord
    <3>1. /\ TakeRecord("handshake") /\ stream' = stream /\ received' = received
          /\ delivered' = delivered /\ NotFed' = NotFed
        BY <2>4 DEF HandshakeRecord, feeding, answers, NotFed, From
    <3> QED
        BY <2>1, <3>1, OrderAfterRecord
  <2>5. CASE Ending
    <3>1. /\ Operating /\ OpReturns /\ stream' = stream /\ received' = received
          /\ NotFed' = NotFed
      <4>1. Operating /\ OpReturns
          BY <1>1, <2>5, OpEndsTypes DEF Ending
      <4> QED
          BY <1>1, <2>1, <4>1, NotFedAfterOp DEF OpReturns
    <3>2. CASE HandshakeDone
      <4>1. TakeRecord("handshake") /\ delivered' = delivered
          BY <3>2 DEF HandshakeDone
      <4> QED
          BY <2>1, <3>1, <4>1, OrderAfterRecord
    <3>3. CASE ReadData
      <4>1. TakeRecord("data") /\ delivered' = Append(delivered, Unread[1].rec)
          BY <3>3 DEF ReadData
      <4> QED
          BY <2>1, <3>1, <4>1, OrderAfterRecord
    <3>4. CASE HandshakeWants \/ ReadWants
      <4>1. TakeIncomplete /\ delivered' = delivered
          BY <3>4 DEF HandshakeWants, ReadWants, answers
      <4>2. Rest' = Rest
          BY <1>1, <3>1, <4>1, UnreadAfterIncomplete DEF Rest
      <4> QED
          BY <2>1, <3>1, <4>1, <4>2, OrderStays
    <3>5. CASE HandshakeFails \/ HandshakeShut \/ HandshakeAgain \/ ReadNotify \/ ReadFails
               \/ ReadAgain
        BY <1>2, <3>5 DEF HandshakeFails, HandshakeShut, HandshakeAgain, ReadNotify,
                          ReadFails, ReadAgain, Working
    <3> QED
        BY <2>5, <3>2, <3>3, <3>4, <3>5 DEF Ending
  <2>6. CASE Outside
    <3>1. stream' = stream /\ received' = received /\ delivered' = delivered /\ Rest' = Rest
        BY <2>6 DEF Outside, Rest, Unread, NotFed, From
    <3> QED
        BY <2>1, <3>1, OrderStays
  <2> QED
      BY <2>2, <2>3, <2>4, <2>5, <2>6, Steps
<1>3. ASSUME ~Working' PROVE BytesInOrder'
    BY <1>3 DEF BytesInOrder
<1> QED
    BY <1>1, <1>2, <1>3 DEF OInv

\* As long as OpenSSL works, what it has not used is the end of what was received, and
\* read_cb was called with the data of every data record before that, in order.
THEOREM NoByteLost == Spec => []BytesInOrder
<1>1. OInv => BytesInOrder
    BY DEF OInv
<1> QED
    BY <1>1, OInit, ONext, PTL DEF Spec
=============================================================================
