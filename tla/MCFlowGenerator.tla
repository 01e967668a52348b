--------------------------- MODULE MCFlowGenerator ---------------------------
(***************************************************************************)
(* Small captures for FlowGenerator: two hosts, a TCP connection between   *)
(* them and a connection of one host with itself, whose endpoints differ   *)
(* only in their ports.  The payload tells which endpoint sent a packet.   *)
(***************************************************************************)
EXTENDS FlowRefinement, CSVWriter

CONSTANTS a, b  \* the hosts

MCAddresses == {a, b}
MCPorts == {1, 2}
MCProtocols == {6}

\* Per endpoint: payload, initial window and TTL of the packets it sends.
Payload(ip, port) == IF ip = b THEN 2 ELSE port % 2
Window(ip) == IF ip = a THEN 7 ELSE 9
Ttl(ip) == IF ip = a THEN 64 ELSE 128

Packet(src, dst, flags, t) ==
  [ src_ip |-> src[1], src_port |-> src[2], dst_ip |-> dst[1], dst_port |-> dst[2],
    protocol |-> 6, time |-> t, flags |-> flags,
    payload_bytes |-> Payload(src[1], src[2]), header_bytes |-> 20,
    tcp_window |-> Window(src[1]), ip_ttl |-> Ttl(src[1]) ]

Sends(x, y, flagSets) == {Packet(x, y, flags, t) : flags \in flagSets, t \in Time}

Between(x, y, flagSets) == Sends(x, y, flagSets) \cup Sends(y, x, flagSets)

\* A connection of two hosts with every kind of ending, and a loopback one.
MCPackets ==
  Sends(<< a, 1 >>, << b, 1 >>, {{}, {"FIN"}, {"RST"}})
    \cup Sends(<< b, 1 >>, << a, 1 >>, {{}, {"FIN"}, {"FIN", "RST"}})
    \cup Sends(<< a, 2 >>, << a, 1 >>, {{}})

\* Without flags, but with three connections, one of an endpoint with itself.
MCPlainPackets ==
  Between(<< a, 1 >>, << b, 1 >>, {{}}) \cup Between(<< a, 1 >>, << a, 2 >>, {{}})
    \cup Between(<< b, 1 >>, << b, 1 >>, {{}})

\* ... and a reset, so that a finished flow may stay in the table.
MCUnorderedPackets == MCPlainPackets \cup Sends(<< a, 1 >>, << b, 1 >>, {{"RST"}})

-----------------------------------------------------------------------------

\* docs/FEATURES.md:379, :392 and :403: the initial window and TTL are those
\* of the first forward packet, the minimum segment size is the smallest
\* header of the forward packets.
ForwardHeaderRecorded ==
  \A f \in AllFlows :
    f.src_ip # f.dst_ip /\ f.half["fwd"].packets > 0 =>
      /\ f.half["fwd"].initial_ttl = Ttl(f.src_ip)
      /\ f.half["fwd"].init_win_bytes = Window(f.src_ip)
      /\ f.min_seg_size_forward = 20

=============================================================================
