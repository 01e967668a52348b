--------------------------- MODULE MCPacketReader ---------------------------
(***************************************************************************)
(* Frames for PacketReader, chosen around the lengths and offsets at which *)
(* the decoders change their mind.                                         *)
(***************************************************************************)
EXTENDS PacketReader

MCAddresses == {"v4a", "v4b", "v6a", "v6b", "inner"}
MCPorts == {0, 1, 2}
MCProtocols == {0, 6, 17}

Transport(off, ulen) ==
  [sport |-> 1, dport |-> 2, flags |-> {"SYN"}, win |-> 512, off |-> off, ulen |-> ulen]

\* Headers that read the same through either cast.
Memory(version, ihl, proto, len, t, src, dst) ==
  [ v |-> version, hl |-> ihl, p |-> proto, len |-> len, ttl |-> 64,
    src |-> src, dst |-> dst, l4 |-> t,
    nxt |-> proto, plen |-> len, hlim |-> 64, src6 |-> "v6a", dst6 |-> "v6b", l6 |-> t ]

\* Plausible length fields, and ones smaller than the headers they follow.
Ordinary(ihl, proto) == Memory(4, ihl, proto, 100, Transport(5, 20), "v4a", "v4b")
Inconsistent(ihl, proto) == Memory(4, ihl, proto, 20, Transport(15, 4), "v4a", "v4b")

Inner(version, ihl, proto) ==
  Memory(version, ihl, proto, 60, Transport(5, 20), "inner", "v4b")

Frame(ether_type, length, bytes, inner) ==
  [ caplen |-> SizeofEther + length, ether_type |-> ether_type, time |-> 0,
    bytes |-> bytes, inner |-> inner ]

\* One byte less than each of the lengths at which a decoder looks further, and
\* exactly as many.
Around(lengths) == UNION {{n - 1, n} : n \in lengths}

FramesAround(ether_type, lengths, bytes, inner) ==
  {Frame(ether_type, n, bytes, inner) : n \in Around(lengths)}

ShortFrames == {[Frame("IPv4", 0, Ordinary(5, 6), Inner(4, 5, 6)) EXCEPT !.caplen = 13]}

\* For decodeIPv4: an IP header, then TCP or UDP behind a header length that is
\* the usual one, zero, or the longest.
Ipv4Frames ==
  LET Plain(lengths, bytes) == FramesAround("IPv4", lengths, bytes, Inner(4, 5, 6)) IN
  Plain({20, 40}, Ordinary(5, 6)) \cup Plain({20, 28}, Ordinary(5, 17))
    \cup Plain({40}, Inconsistent(5, 6)) \cup Plain({28}, Inconsistent(5, 17))
    \cup Plain({20}, Ordinary(0, 6)) \cup Plain({60, 80}, Ordinary(15, 6))
    \cup Plain({20}, Ordinary(5, 1))

\* For decodeL2TP, which reads any EtherType but what decodeIPv4 accepted before
\* it: the outer header, L2TP, the inner header and its transport.
TunnelFrames ==
  LET Tunnel(lengths, ihl, inner) ==
        FramesAround("other", lengths, Ordinary(ihl, IPPROTO_L2TP), inner)
  IN
  Tunnel({20, 26, 46, 66}, 5, Inner(4, 5, 6)) \cup Tunnel({54}, 5, Inner(4, 5, 17))
    \cup Tunnel({66, 74}, 5, Inner(6, 5, 17)) \cup Tunnel({86}, 5, Inner(6, 5, 6))
    \cup Tunnel({46}, 5, Inner(4, 5, 1)) \cup Tunnel({46}, 5, Inner(5, 5, 6))
    \cup Tunnel({26, 46}, 0, Inner(4, 5, 6)) \cup Tunnel({66, 86, 106}, 15, Inner(4, 5, 6))
    \cup FramesAround("IPv4", {66}, Ordinary(5, IPPROTO_L2TP), Inner(4, 5, 6))

\* Frames that no decoder takes.
OtherFrames == {Frame(e, 60, Ordinary(5, 6), Inner(4, 5, 6)) : e \in {"IPv6", "other"}}

MCFrames == ShortFrames \cup Ipv4Frames \cup TunnelFrames \cup OtherFrames

=============================================================================
