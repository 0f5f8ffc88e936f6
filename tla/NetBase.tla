------------------------------- MODULE NetBase -------------------------------
(***************************************************************************)
(* The wire format of one packet (net_base.h and PacketSync::PacketData).  *)
(* A frame is                                                              *)
(*                                                                         *)
(*     HEAD  NetPacket(NET_PACKAGE_HEADLEN bytes)  data(datalen)  TAIL     *)
(*                                                                         *)
(* and a NetPacket repeats HEAD and TAIL between its version and its type  *)
(* before the four bytes of the big-endian length.  The number of distinct *)
(* bytes is a parameter, 256 in the code.                                  *)
(***************************************************************************)
EXTENDS Naturals, Sequences

CONSTANTS Radix, \* number of values of a byte
          HEAD,  \* first byte of every frame, 0x0C unless SetHaT is called
          TAIL   \* last byte of every frame, 0xEA unless SetHaT is called

Byte == 0 .. Radix - 1

ASSUME NetBaseAssumption ==
    /\ Radix \in Nat \ {0, 1}
    /\ HEAD \in Byte
    /\ TAIL \in Byte

\* sizeof(NetPacket), a packed structure: version, header, tail, type, datalen.
NET_PACKAGE_HEADLEN == 8

\* Most significant byte first.
Int32ToChar(n) ==
    <<(n \div (Radix * Radix * Radix)) % Radix, (n \div (Radix * Radix)) % Radix,
      (n \div Radix) % Radix, n % Radix>>

CharToInt32(c) == ((c[1] * Radix + c[2]) * Radix + c[3]) * Radix + c[4]

NetPacketToChar(p) ==
    <<p.version, p.header, p.tail, p.type>> \o Int32ToChar(p.datalen)

CharToNetPacket(c) ==
    [version |-> c[1], header |-> c[2], tail |-> c[3], type |-> c[4],
     datalen |-> CharToInt32(SubSeq(c, 5, NET_PACKAGE_HEADLEN))]

\* The bytes a peer sends for one packet.
PacketData(p, data) ==
    <<p.header>> \o NetPacketToChar(p) \o SubSeq(data, 1, p.datalen) \o <<p.tail>>

\* The number of bytes PacketData makes of a packet.
FrameLen(p) == NET_PACKAGE_HEADLEN + p.datalen + 2

=============================================================================
