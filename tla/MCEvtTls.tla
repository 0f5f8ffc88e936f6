------------------------------- MODULE MCEvtTls -------------------------------
(***************************************************************************)
(* Small streams for EvtTls: a handshake of two records, then data records *)
(* of one and two bytes, in all orders with a close_notify and a record    *)
(* that does not decrypt, before and after the handshake is complete.      *)
(***************************************************************************)
EXTENDS EvtTls, SequencesExt

CONSTANT MaxRecords   \* records behind the first one

Rec(kind, len) == [kind |-> kind, len |-> len]

RecordKinds ==
    {Rec("handshake", 2), Rec("data", 1), Rec("data", 2), Rec("notify", 1), Rec("bad", 1)}

BytesOf(records) ==
    FlattenSeq([r \in 1 .. Len(records) |->
        [k \in 1 .. records[r].len |->
            [rec |-> r, pos |-> k, len |-> records[r].len, kind |-> records[r].kind]]])

MCStreams ==
    {BytesOf(<<Rec("handshake", 2)>> \o s) : s \in SeqOf(RecordKinds, MaxRecords)}
=============================================================================
