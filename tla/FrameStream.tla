----------------------------- MODULE FrameStream -----------------------------
(***************************************************************************)
(* What a connection's packet parser promises, with no buffer and no       *)
(* chunk: there is a stream of bytes, a byte leaves its front unused only  *)
(* if no frame can start there, and a complete frame at its front is       *)
(* delivered once and removed as a whole.                                  *)
(***************************************************************************)
EXTENDS NetBase

VARIABLES pending,    \* bytes received and not yet used, oldest first
          delivered   \* packets handed to the packet callback, in order

fsVars == <<pending, delivered>>

\* The header a frame starting at the front of s would have.
FrontPacket(s) == CharToNetPacket(SubSeq(s, 2, NET_PACKAGE_HEADLEN + 1))

HeaderArrived(s) == Len(s) >= NET_PACKAGE_HEADLEN + 1

HeaderMatches(s) ==
    FrontPacket(s).header = HEAD /\ FrontPacket(s).tail = TAIL

\* No frame starts at the front of s, whatever arrives later.
NotAFrame(s) ==
    \/ s[1] # HEAD
    \/ HeaderArrived(s) /\ ~HeaderMatches(s)
    \/ /\ HeaderArrived(s)
       /\ Len(s) >= FrameLen(FrontPacket(s))
       /\ s[FrameLen(FrontPacket(s))] # TAIL

\* A whole frame is at the front of s.
IsFrame(s) ==
    /\ HeaderArrived(s)
    /\ s[1] = HEAD
    /\ HeaderMatches(s)
    /\ Len(s) >= FrameLen(FrontPacket(s))
    /\ s[FrameLen(FrontPacket(s))] = TAIL

\* What the packet callback is given for the frame at the front of s.
FrontDelivery(s) ==
    [packet |-> FrontPacket(s),
     data   |-> SubSeq(s, NET_PACKAGE_HEADLEN + 2, FrameLen(FrontPacket(s)) - 1)]

From(s, i) == SubSeq(s, i, Len(s))

\* Reference definition: the deliveries one scan over the complete s makes.
Frames(s) ==
    LET scan[i \in 1 .. Len(s) + 1] ==
            IF i > Len(s) THEN <<>>
            ELSE IF IsFrame(From(s, i))
                 THEN <<FrontDelivery(From(s, i))>>
                          \o scan[i + FrameLen(FrontPacket(From(s, i)))]
            ELSE IF NotAFrame(From(s, i)) THEN scan[i + 1]
            ELSE <<>>
    IN  scan[1]
-----------------------------------------------------------------------------
Init == pending = <<>> /\ delivered = <<>>

\* Bytes arrive behind the ones that are there.
Arrive ==
    /\ Len(pending') > Len(pending)
    /\ SubSeq(pending', 1, Len(pending)) = pending
    /\ UNCHANGED delivered

\* Bytes that cannot start a frame are dropped.
Discard ==
    /\ \E k \in 1 .. Len(pending) :
          /\ pending' = From(pending, k + 1)
          /\ \A i \in 1 .. k : NotAFrame(From(pending, i))
    /\ UNCHANGED delivered

Deliver ==
    /\ IsFrame(pending)
    /\ delivered' = Append(delivered, FrontDelivery(pending))
    /\ pending' = From(pending, FrameLen(FrontPacket(pending)) + 1)

Next == Arrive \/ Discard \/ Deliver

Spec == Init /\ [][Next]_fsVars

=============================================================================
