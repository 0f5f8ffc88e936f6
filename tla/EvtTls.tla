-------------------------------- MODULE EvtTls --------------------------------
(***************************************************************************)
(* The TLS engine of one server connection (evt_tls.cpp), as uv_net.cpp    *)
(* uses it: read_header feeds what libuv has read into a BIO pair, one     *)
(* OpenSSL operation follows each piece the BIO takes, and its result      *)
(* decides which callback is called.  Everything runs on the loop's        *)
(* thread; a step is one BIO_write, or one record inside an operation.     *)
(*                                                                         *)
(* OpenSSL is the environment.  It takes whole records out of the BIO and  *)
(* keeps an incomplete one itself.  SSL_do_handshake reads records until   *)
(* it needs more, SSL_read returns the data of one record.  Once it has    *)
(* failed, or has the peer's close_notify, it takes nothing any more.      *)
(* What is written to the peer (evt__send_pending) is left out.            *)
(*                                                                         *)
(* A byte of the stream says where it belongs: to which record, at which   *)
(* position, how long the record is and of what kind.                      *)
(***************************************************************************)
EXTENDS Integers, Sequences, FiniteSets

CONSTANTS
    Streams,   \* what a peer may send
    BioSize,   \* capacity of the BIO pair, 17 KB in OpenSSL
    Flights,   \* records the handshake reads from the peer
    MaxBack    \* bound: how far offset is followed below 0

Kind == {"handshake", "data", "notify", "bad"}

StreamByte == [rec : Nat, pos : Nat \ {0}, len : Nat \ {0}, kind : Kind]

ASSUME EvtTlsAssumption ==
    /\ Streams \subseteq Seq(StreamByte)
    /\ BioSize \in Nat \ {0}
    /\ Flights \in Nat \ {0}
    /\ MaxBack \in Nat

VARIABLES
    stream,     \* what the peer sends
    received,   \* how much of it libuv has read
    control,    \* "idle", "feed" (evt_tls_feed_data's loop), "handshake", "read"
    chunk,      \* evt_tls_feed_data's data, <<>> when no call is under way
    offset, i,  \* its local variables
    bio,        \* bytes in the BIO pair, for OpenSSL to read
    record,     \* the incomplete record OpenSSL has taken out of it
    ssl,        \* "handshake", "up", "failed", "shut" (close_notify in the
                \* handshake), "received" (close_notify later)
    flights,    \* records of the handshake that were read
    reported,   \* statuses hshake_cb was called with
    delivered,  \* records whose data read_cb was called with
    behind,     \* a complete record was in the BIO when the call began
    handle,     \* the connection's libuv handle: "open", "closing", "closed"
    aborted     \* libuv's assertion in uv_close has failed

feeding == <<chunk, offset, i>>
answers == <<reported, delivered>>
vars == <<stream, received, control, chunk, offset, i, bio, record, ssl, flights,
          reported, delivered, behind, handle, aborted>>

Smaller(a, b) == IF a < b THEN a ELSE b

Larger(a, b) == IF a > b THEN a ELSE b

From(s, n) == SubSeq(s, n, Len(s))

\* A byte read before the beginning of libuv's buffer.
Foreign == [rec |-> 0, pos |-> 1, len |-> 1, kind |-> "bad"]

\* The positions where a record ends.
Ends(s) == {k \in 1 .. Len(s) : s[k].pos = s[k].len}

\* OpenSSL still reads records.
Working == ssl \in {"handshake", "up"}
-----------------------------------------------------------------------------
\* evt_tls_accept has been called for an accepted connection.
Init ==
    /\ stream \in Streams
    /\ received = 0
    /\ control = "idle"
    /\ chunk = <<>> /\ offset = 0 /\ i = 0
    /\ bio = <<>> /\ record = <<>>
    /\ ssl = "handshake" /\ flights = 0
    /\ reported = <<>> /\ delivered = <<>>
    /\ behind = FALSE
    /\ handle = "open"
    /\ aborted = FALSE

\* ClientConnS::Close sends a close_notify and calls uv_close, which asserts that the
\* handle is not being closed.
Close ==
    /\ handle' = "closing"
    /\ aborted' = (handle # "open")

\* read_header with k > 0 bytes.
read_header(k) ==
    /\ control = "idle"
    /\ handle = "open"
    /\ control' = "feed"
    /\ chunk' = SubSeq(stream, received + 1, received + k)
    /\ received' = received + k
    /\ offset' = 0
    /\ behind' = (Ends(bio) # {})
    /\ UNCHANGED <<stream, i, bio, record, ssl, flights, answers, handle, aborted>>

\* read_header with an error or the end of the stream.
ReadError ==
    /\ control = "idle"
    /\ handle = "open"
    /\ Close
    /\ UNCHANGED <<stream, received, control, feeding, bio, record, ssl, flights,
                   answers, behind>>

\* The loop calls the close callback, which frees the endpoint.
AfterClientClose ==
    /\ control = "idle"
    /\ handle = "closing"
    /\ handle' = "closed"
    /\ UNCHANGED <<stream, received, control, feeding, bio, record, ssl, flights,
                   answers, behind, aborted>>
-----------------------------------------------------------------------------
(***************************************************************************)
(* evt_tls_feed_data                                                       *)
(***************************************************************************)
\* Faulty variant: BIO_write is expected to take everything.
Room_Unlimited == Len(chunk) - offset

Room == Smaller(BioSize - Len(bio), Len(chunk) - offset)

Piece ==
    [k \in 1 .. Room |-> IF offset + k < 1 THEN Foreign ELSE chunk[offset + k]]

\* What BIO_write returns: -1 for a full BIO.
BIO_write == IF BioSize = Len(bio) THEN -1 ELSE Room

evt_tls_is_handshake_over == ssl \in {"up", "received"}

\* Faulty variant: no operation after the last piece.
FeedPiece_NotLast ==
    /\ control = "feed"
    /\ offset < Len(chunk)
    /\ i' = BIO_write
    /\ bio' = bio \o Piece
    /\ IF Room = Len(chunk) - offset
       THEN offset' = Len(chunk) /\ UNCHANGED control
       ELSE /\ control' = IF evt_tls_is_handshake_over THEN "read" ELSE "handshake"
            /\ UNCHANGED offset
    /\ UNCHANGED <<stream, received, chunk, record, ssl, flights, answers, behind,
                   handle, aborted>>

FeedPiece ==
    /\ control = "feed"
    /\ offset < Len(chunk)
    /\ i' = BIO_write
    /\ bio' = bio \o Piece
    /\ control' = IF evt_tls_is_handshake_over THEN "read" ELSE "handshake"
    /\ UNCHANGED <<stream, received, chunk, offset, record, ssl, flights, answers,
                   behind, handle, aborted>>

\* Faulty variant: the loop goes on behind what BIO_write was given, not what it took.
NextOffset_Everything == Len(chunk)

NextOffset == Larger(offset + i, -MaxBack)

\* The operation returns to the loop.
OpReturns ==
    /\ control' = "feed"
    /\ offset' = NextOffset
    /\ UNCHANGED <<stream, received, chunk, i, behind>>

FeedReturns ==
    /\ control = "feed"
    /\ offset >= Len(chunk)
    /\ control' = "idle"
    /\ chunk' = <<>> /\ offset' = 0 /\ i' = 0
    /\ UNCHANGED <<stream, received, bio, record, ssl, flights, answers, behind,
                   handle, aborted>>
-----------------------------------------------------------------------------
(***************************************************************************)
(* OpenSSL takes a record out of the BIO.                                  *)
(***************************************************************************)
Unread == record \o bio

RecordLen == CHOOSE k \in Ends(Unread) : \A m \in Ends(Unread) : k <= m

\* The bytes are one record as the peer has sent it.
Intact(s) ==
    \A k \in 1 .. Len(s) : s[k] = [s[1] EXCEPT !.pos = k]

RecordKind ==
    IF Intact(SubSeq(Unread, 1, RecordLen)) THEN Unread[1].kind ELSE "bad"

TakeRecord(kind) ==
    /\ Ends(Unread) # {}
    /\ RecordKind = kind
    /\ record' = <<>>
    /\ bio' = From(Unread, RecordLen + 1)

\* No record is complete: OpenSSL keeps what there is and wants more.
TakeIncomplete ==
    /\ Ends(Unread) = {}
    /\ record' = Unread
    /\ bio' = <<>>
-----------------------------------------------------------------------------
(***************************************************************************)
(* evt__tls__op, EVT_TLS_OP_HANDSHAKE                                      *)
(***************************************************************************)
Handshaking == control = "handshake" /\ ssl = "handshake"

\* Inside SSL_do_handshake: a record that does not complete the handshake.
HandshakeRecord ==
    /\ Handshaking
    /\ flights + 1 < Flights
    /\ TakeRecord("handshake")
    /\ flights' = flights + 1
    /\ UNCHANGED <<stream, received, control, feeding, ssl, answers, behind, handle, aborted>>

\* It returns 1: hshake_cb sets the callbacks for reading.
HandshakeDone ==
    /\ Handshaking
    /\ flights + 1 = Flights
    /\ TakeRecord("handshake")
    /\ flights' = flights + 1
    /\ ssl' = "up"
    /\ reported' = Append(reported, 1)
    /\ OpReturns
    /\ UNCHANGED <<delivered, handle, aborted>>

\* Faulty variant: the handshake is tried again until there is more.
HandshakeWants_Retry ==
    /\ Handshaking
    /\ TakeIncomplete
    /\ UNCHANGED <<stream, received, control, feeding, ssl, flights, answers, behind,
                   handle, aborted>>

\* It returns a negative number: no callback, whether it wants more or has failed.
HandshakeWants ==
    /\ Handshaking
    /\ TakeIncomplete
    /\ OpReturns
    /\ UNCHANGED <<ssl, flights, answers, handle, aborted>>

HandshakeFails ==
    /\ Handshaking
    /\ TakeRecord("bad") \/ TakeRecord("data") \/ TakeRecord("notify")
    /\ ssl' = "failed"
    /\ OpReturns
    /\ UNCHANGED <<flights, answers, handle, aborted>>

\* It returns 0, for a close_notify: hshake_cb closes the connection.
HandshakeShut ==
    /\ Handshaking
    /\ TakeRecord("notify")
    /\ ssl' = "shut"
    /\ reported' = Append(reported, 0)
    /\ Close
    /\ OpReturns
    /\ UNCHANGED <<flights, delivered>>

\* The handshake is over without success and is tried again; having returned 0, it may
\* do so again.
HandshakeAgain ==
    /\ control = "handshake"
    /\ ~Working
    /\ \/ UNCHANGED <<reported, handle, aborted>>
       \/ /\ ssl = "shut"
          /\ reported' = Append(reported, 0)
          /\ Close
    /\ OpReturns
    /\ UNCHANGED <<bio, record, ssl, flights, delivered>>
-----------------------------------------------------------------------------
(***************************************************************************)
(* evt__tls__op, EVT_TLS_OP_READ                                           *)
(***************************************************************************)
Reading == control = "read" /\ ssl = "up"

\* read_cb passes the data on to recvdata.
ReadData ==
    /\ Reading
    /\ TakeRecord("data")
    /\ delivered' = Append(delivered, Unread[1].rec)
    /\ OpReturns
    /\ UNCHANGED <<ssl, flights, reported, handle, aborted>>

\* SSL_read returns 0: the close_notify is answered.  close_cb is not set before Close
\* is called, so the connection is closed only when its stream ends.
ReadNotify ==
    /\ Reading
    /\ TakeRecord("notify")
    /\ ssl' = "received"
    /\ OpReturns
    /\ UNCHANGED <<flights, answers, handle, aborted>>

\* SSL_read returns a negative number; read_cb is called and ignores it.
ReadWants ==
    /\ Reading
    /\ TakeIncomplete
    /\ OpReturns
    /\ UNCHANGED <<ssl, flights, answers, handle, aborted>>

ReadFails ==
    /\ Reading
    /\ TakeRecord("bad") \/ TakeRecord("handshake")
    /\ ssl' = "failed"
    /\ OpReturns
    /\ UNCHANGED <<flights, answers, handle, aborted>>

ReadAgain ==
    /\ control = "read"
    /\ ~Working
    /\ OpReturns
    /\ UNCHANGED <<bio, record, ssl, flights, answers, handle, aborted>>
-----------------------------------------------------------------------------
evt_tls_feed_data ==
    \/ FeedPiece \/ FeedReturns
    \/ HandshakeRecord \/ HandshakeDone \/ HandshakeWants \/ HandshakeFails
    \/ HandshakeShut \/ HandshakeAgain
    \/ ReadData \/ ReadNotify \/ ReadWants \/ ReadFails \/ ReadAgain

\* The connection is gone, or the process is.
Finished == (handle = "closed" \/ aborted) /\ UNCHANGED vars

Next ==
    \/ ~aborted /\ \E k \in 1 .. Len(stream) - received : read_header(k)
    \/ ~aborted /\ ReadError
    \/ ~aborted /\ AfterClientClose
    \/ ~aborted /\ evt_tls_feed_data
    \/ Finished

Spec == Init /\ [][Next]_vars

\* evt_tls_feed_data is sequential code: once called it keeps running.
FairSpec == Spec /\ WF_vars(~aborted /\ evt_tls_feed_data)
-----------------------------------------------------------------------------
(***************************************************************************)
(* Properties                                                              *)
(***************************************************************************)
\* Every variable has its type, and the BIO holds no more than it can.
TypeOK ==
    /\ stream \in Seq(StreamByte)
    /\ received \in 0 .. Len(stream)
    /\ control \in {"idle", "feed", "handshake", "read"}
    /\ chunk \in Seq(StreamByte)
    /\ offset \in -MaxBack .. Len(chunk)
    /\ i \in -1 .. BioSize
    /\ bio \in Seq(StreamByte) /\ Len(bio) <= BioSize
    /\ record \in Seq(StreamByte)
    /\ ssl \in {"handshake", "up", "failed", "shut", "received"}
    /\ flights \in 0 .. Flights
    /\ reported \in Seq({0, 1})
    /\ delivered \in Seq(Nat)
    /\ behind \in BOOLEAN
    /\ handle \in {"open", "closing", "closed"}
    /\ aborted \in BOOLEAN

\* The bytes read from the connection and not given to BIO_write yet.
NotFed ==
    From(chunk, 1 + IF control \in {"handshake", "read"} THEN offset + i ELSE offset)

\* The number of bytes of the stream that are used up.
Used == received - Len(Unread \o NotFed)

\* The positions among the stream's first n where a data record ends.
DataEnds(n) == {k \in Ends(stream) : k <= n /\ stream[k].kind = "data"}

\* As long as OpenSSL works, what it has not used is the end of what was received, in
\* order, without gap or repetition, and read_cb was called with the data of every data
\* record before that, once and in order.
BytesInOrder ==
    Working =>
        /\ Used >= 0
        /\ Unread \o NotFed = SubSeq(stream, Used + 1, received)
        /\ Len(delivered) = Cardinality(DataEnds(Used))
        /\ \A k \in DataEnds(Used) :
              delivered[Cardinality(DataEnds(k))] = stream[k].rec

\* BIO_write never returns -1 while OpenSSL works: offset only goes backwards after a
\* failure.  Operations take at least as much out of the BIO as the next piece needs.
BioHasRoom ==
    control = "feed" /\ offset < Len(chunk) /\ Working => Len(bio) < BioSize

\* A record that is completed by a call that completes no other, with none left from
\* earlier calls, has been read when the call returns.
AloneIsRead ==
    (/\ control = "feed"
     /\ offset = Len(chunk)
     /\ Working
     /\ ~behind
     /\ \A k, m \in Ends(chunk) : k = m) => Ends(Unread) = {}

\* evt_tls_feed_data returns, or the connection has failed or ended.
CallReturns ==
    control # "idle" ~> control = "idle" \/ ~Working \/ aborted

\* What evt_tls.h says of evt_tls_accept: "Upon completion, evt_handshake_cb is called,
\* status == 0 for failure and 1 otherwise".
HandshakeReported ==
    control = "idle" /\ ssl # "handshake" => reported # <<>>
=============================================================================
