--------------------------- MODULE BasicPacketInfo ---------------------------
(***************************************************************************)
(* A decoded packet (include/BasicPacketInfo.h), the directional key under *)
(* which the flow table stores it, and the unsigned 64-bit arithmetic on   *)
(* its timestamp.                                                          *)
(*                                                                         *)
(* Abstractions.  An address stands for its raw bytes, their number        *)
(* (addr_len) and their printed form together: inet_ntop is injective on   *)
(* each family and the two families print differently.  The timestamp is   *)
(* the microsecond value that both packetTimeMicros and                    *)
(* FlowGenerator::addPacket compute from the (sec, usec) pair.  The eight  *)
(* has_* booleans are one set of flags.                                    *)
(***************************************************************************)
EXTENDS Integers

CONSTANTS
  Addresses,  \* IP addresses
  Ports,      \* transport ports
  Protocols,  \* protocol numbers a decoder may leave in a packet: 6, 17, 0
  MaxTime,    \* largest timestamp, in microseconds
  Wrap        \* 2^64: the modulus of uint64_t

ASSUME TimeAssumption ==
  /\ MaxTime \in Nat
  /\ Wrap \in Nat
  /\ MaxTime < Wrap

Time == 0 .. MaxTime

\* The values a uint64_t can hold.
UInt64 == 0 .. (Wrap - 1)

\* Fault: the difference is taken as a signed one.
Elapsed_Signed(a, b) == a - b

\* a - b on uint64_t operands: it wraps around when a is smaller than b.
Elapsed(a, b) == IF a >= b THEN a - b ELSE (a + Wrap) - b

Flag == {"FIN", "SYN", "RST", "PSH", "ACK", "URG", "CWR", "ECE"}

PacketType ==
  [ src_ip: Addresses, dst_ip: Addresses, src_port: Ports, dst_port: Ports,
    protocol: Protocols, time: Time, flags: SUBSET Flag,
    payload_bytes: Nat, header_bytes: Nat, tcp_window: Nat, ip_ttl: Nat ]

\* A directional 5-tuple: both FlowGenerator::FlowKey and the string of
\* fwdFlowId, whose separator occurs in none of its parts.
FlowKey ==
  [ src_ip: Addresses, dst_ip: Addresses, src_port: Ports, dst_port: Ports,
    protocol: Protocols ]

Reverse(k) ==
  [ src_ip |-> k.dst_ip, dst_ip |-> k.src_ip,
    src_port |-> k.dst_port, dst_port |-> k.src_port,
    protocol |-> k.protocol ]

\* BasicPacketInfo::fwdFlowId, and makeFlowKey(pkt, true).
fwdFlowId(pkt) ==
  [ src_ip |-> pkt.src_ip, dst_ip |-> pkt.dst_ip,
    src_port |-> pkt.src_port, dst_port |-> pkt.dst_port,
    protocol |-> pkt.protocol ]

makeFlowKey(pkt, forward) ==
  IF forward THEN fwdFlowId(pkt) ELSE Reverse(fwdFlowId(pkt))

=============================================================================
