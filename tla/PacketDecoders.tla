---------------------------- MODULE PacketDecoders ----------------------------
(***************************************************************************)
(* The decoders of src/PacketDecoders.cpp as functions of the bytes that   *)
(* follow the Ethernet header.                                             *)
(*                                                                         *)
(* The decoders cast a pointer to a header structure, so what they see     *)
(* depends on the cast and not on what the sender meant.  A piece of       *)
(* memory is therefore a record of its readings: as an IPv4 header (v, hl, *)
(* p, len, ttl, src, dst), as an IPv6 header (nxt, plen, hlim, src6, dst6),*)
(* and the transport header found behind each of the two (l4, l6).         *)
(*                                                                         *)
(* A result carries, besides the return value and *pkt_info, the number of *)
(* bytes covered by the headers that the decoder looked at (reach).        *)
(***************************************************************************)
EXTENDS BasicPacketInfo

IPPROTO_TCP == 6
IPPROTO_UDP == 17
IPPROTO_L2TP == 115

SizeofIp == 20
SizeofIp6 == 40
SizeofTcp == 20
SizeofUdp == 8
SizeofL2tp == 6

\* Header fields of 4, 8 and 16 bits.
UInt4 == 0 .. 15
UInt8 == 0 .. 255
UInt16 == {x \in Nat : x < 65536}

\* What a transport header reads as: ulen is the length field of a UDP
\* header, off, flags and win are those of a TCP header.
TransportBytes ==
  [ sport: Ports, dport: Ports, flags: SUBSET Flag, win: UInt16,
    off: UInt4, ulen: UInt16 ]

MemoryType ==
  [ v: UInt4, hl: UInt4, p: UInt8, len: UInt16, ttl: UInt8,
    src: Addresses, dst: Addresses, l4: TransportBytes,
    nxt: UInt8, plen: UInt16, hlim: UInt8,
    src6: Addresses, dst6: Addresses, l6: TransportBytes ]

\* BasicPacketInfo as its default member initializers leave it, with the
\* timestamp of the capture header.  src_ip and dst_ip start empty; a decoder
\* that accepts the packet always assigns them.
EmptyInfo(time) ==
  [ src_ip |-> "", dst_ip |-> "", src_port |-> 0, dst_port |-> 0,
    protocol |-> 0, time |-> time, flags |-> {}, payload_bytes |-> 0,
    header_bytes |-> 0, tcp_window |-> 0, ip_ttl |-> 0 ]

Rejected(info) == [valid |-> FALSE, info |-> info, reach |-> 0]

Positive(x) == IF x > 0 THEN x ELSE 0

LargerOf(x, y) == IF x > y THEN x ELSE y

-----------------------------------------------------------------------------

\* Fault: the payload is the plain difference of the length fields.
decodeTransport_NoClamp(info, proto, t, avail, length) ==
  IF proto = IPPROTO_TCP /\ avail >= SizeofTcp
  THEN [ size |-> SizeofTcp,
         info |-> [info EXCEPT !.src_port = t.sport, !.dst_port = t.dport,
                               !.protocol = 6, !.flags = t.flags,
                               !.tcp_window = t.win, !.header_bytes = t.off * 4,
                               !.payload_bytes = length - t.off * 4] ]
  ELSE [size |-> 0, info |-> info]

\* The transport part of decodeIPv4 and decodeIPv6: `avail' bytes are left
\* for a header that reads as t, `length' bytes of transport header and
\* payload are announced by the IP header.  Any other protocol, and a
\* truncated header, leaves the packet as it is.
decodeTransport(info, proto, t, avail, length) ==
  IF proto = IPPROTO_TCP /\ avail >= SizeofTcp
  THEN [ size |-> SizeofTcp,
         info |-> [info EXCEPT !.src_port = t.sport, !.dst_port = t.dport,
                               !.protocol = 6, !.flags = t.flags,
                               !.tcp_window = t.win, !.header_bytes = t.off * 4,
                               !.payload_bytes = Positive(length - t.off * 4)] ]
  ELSE IF proto = IPPROTO_UDP /\ avail >= SizeofUdp
  THEN [ size |-> SizeofUdp,
         info |-> [info EXCEPT !.src_port = t.sport, !.dst_port = t.dport,
                               !.protocol = 17, !.flags = {}, !.tcp_window = 0,
                               !.header_bytes = 8,
                               !.payload_bytes = Positive(t.ulen - 8)] ]
  ELSE [size |-> 0, info |-> info]

\* The IP version is not looked at, and hl may be anything: the transport
\* header may overlap the IP header, or lie behind the end of the capture.
decodeIPv4(m, remaining, info) ==
  IF remaining < SizeofIp
  THEN Rejected(info)
  ELSE LET addressed == [info EXCEPT !.src_ip = m.src, !.dst_ip = m.dst, !.ip_ttl = m.ttl]
           transport == decodeTransport(addressed, m.p, m.l4, remaining - m.hl * 4,
                                        m.len - m.hl * 4)
       IN [ valid |-> TRUE, info |-> transport.info,
            reach |-> LargerOf(SizeofIp, IF transport.size = 0 THEN 0
                                         ELSE m.hl * 4 + transport.size) ]

decodeIPv6(m, remaining, info) ==
  IF remaining < SizeofIp6
  THEN Rejected(info)
  ELSE LET addressed == [info EXCEPT !.src_ip = m.src6, !.dst_ip = m.dst6, !.ip_ttl = m.hlim]
           transport == decodeTransport(addressed, m.nxt, m.l6, remaining - SizeofIp6,
                                        m.plen)
       IN [ valid |-> TRUE, info |-> transport.info,
            reach |-> SizeofIp6 + transport.size ]

\* Fault: the inner header is examined although it may be truncated.
decodeL2TP_NoInnerCheck(m, inner, remaining, info) ==
  LET offset == m.hl * 4 + SizeofL2tp
      result == decodeIPv4(inner, remaining - offset, info)
  IN IF remaining < SizeofIp \/ m.p # IPPROTO_L2TP
     THEN Rejected(info)
     ELSE [result EXCEPT !.reach = offset + LargerOf(SizeofIp, @)]

\* The outer header is read as IPv4 whatever the EtherType was; what lies
\* behind it and six bytes of L2TP (inner) is decoded by its version.
decodeL2TP(m, inner, remaining, info) ==
  LET offset == m.hl * 4 + SizeofL2tp
      result == CASE inner.v = 4 -> decodeIPv4(inner, remaining - offset, info)
                  [] inner.v = 6 -> decodeIPv6(inner, remaining - offset, info)
                  [] OTHER -> Rejected(info)
  IN IF remaining < SizeofIp
     THEN Rejected(info)
     ELSE IF \/ m.p # IPPROTO_L2TP
             \/ remaining - m.hl * 4 < SizeofL2tp
             \/ remaining - offset < SizeofIp
     THEN [Rejected(info) EXCEPT !.reach = SizeofIp]
     ELSE [result EXCEPT !.reach = offset + LargerOf(SizeofIp, @)]

=============================================================================
