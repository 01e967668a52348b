------------------------------ MODULE BasicFlow ------------------------------
(***************************************************************************)
(* One flow (include/BasicFlow.h, src/BasicFlow.cpp) as a record, and its  *)
(* operations as operators on that record: the two constructors and        *)
(* addPacket with everything they call.                                    *)
(*                                                                         *)
(* The members that the class keeps twice, forward_x and backward_x, are   *)
(* half["fwd"].x and half["bwd"].x.  min_seg_size_forward has no backward  *)
(* counterpart.  start_time_* and last_seen_* are the (sec, usec) forms of *)
(* flow_start_time and flow_last_seen, assigned together with them.        *)
(***************************************************************************)
EXTENDS BasicPacketInfo, RunningStats

CONSTANTS
  ActivityTimeout   \* activity_timeout_micros: gap that ends an active period

ASSUME ActivityTimeoutAssumption == ActivityTimeout \in UInt64

Direction == {"fwd", "bwd"}

HalfType ==
  [ packets: Nat, bytes: Nat, header_bytes: Nat, act_data_pkt: Nat,
    init_win_bytes: Nat, initial_ttl: Nat, last_seen: Time,
    pkt_stats: StatsType, iat: StatsType, fin_flags: {0, 1} ]

FlowType ==
  [ flow_id: FlowKey, src_ip: Addresses, dst_ip: Addresses,
    src_port: Ports, dst_port: Ports, protocol: Protocols,
    flow_start_time: Time, flow_last_seen: Time,
    start_active_time: Time, end_active_time: Time,
    half: [Direction -> HalfType], min_seg_size_forward: Nat,
    flag_count: [Flag -> Nat],
    flow_length_stats: StatsType, flow_iat: StatsType,
    flow_active: StatsType, flow_idle: StatsType, finished: BOOLEAN ]

\* The 5-tuple written to the CSV next to flow_id: the flow's own orientation.
FlowTuple(f) ==
  [ src_ip |-> f.src_ip, dst_ip |-> f.dst_ip, src_port |-> f.src_port,
    dst_port |-> f.dst_port, protocol |-> f.protocol ]

packetCount(f) == f.half["fwd"].packets + f.half["bwd"].packets

\* getDuration: an unsigned difference.
getDuration(f) == Elapsed(f.flow_last_seen, f.flow_start_time)

-----------------------------------------------------------------------------
(* Shared steps *)

\* Fault: the flow's source is compared with the packet's destination.
DirectionOf_Swapped(src_ip, pkt) == IF src_ip = pkt.dst_ip THEN "fwd" ELSE "bwd"

\* A packet is forward when its source address is the flow's, whatever the
\* port (addPacket and the constructors compare src_ip only).
DirectionOf(src_ip, pkt) == IF src_ip = pkt.src_ip THEN "fwd" ELSE "bwd"

checkFlags(count, pkt) ==
  [x \in Flag |-> IF x \in pkt.flags THEN count[x] + 1 ELSE count[x]]

\* A FIN counts for its direction unless the same packet carries RST, which
\* is tested first and ends the handler.
ClosesDirection(pkt) == "FIN" \in pkt.flags /\ "RST" \notin pkt.flags

DataPackets(pkt) == IF pkt.payload_bytes >= 1 THEN 1 ELSE 0

-----------------------------------------------------------------------------
(* Construction *)

NoPackets ==
  [ packets |-> 0, bytes |-> 0, header_bytes |-> 0, act_data_pkt |-> 0,
    init_win_bytes |-> 0, initial_ttl |-> 0, last_seen |-> 0,
    pkt_stats |-> EmptyStats, iat |-> EmptyStats, fin_flags |-> 0 ]

FirstPacket(pkt) ==
  [ packets |-> 1, bytes |-> pkt.payload_bytes,
    header_bytes |-> pkt.header_bytes, act_data_pkt |-> DataPackets(pkt),
    init_win_bytes |-> pkt.tcp_window, initial_ttl |-> pkt.ip_ttl,
    last_seen |-> pkt.time,
    pkt_stats |-> AddValue(EmptyStats, pkt.payload_bytes),
    iat |-> EmptyStats,
    fin_flags |-> IF ClosesDirection(pkt) THEN 1 ELSE 0 ]

\* The constructor that keeps the orientation of an older flow.
\* `tuple' holds old_src_ip, old_dst_ip, old_src_port and old_dst_port.
SplitFlow(pkt, tuple) ==
  LET d == DirectionOf(tuple.src_ip, pkt) IN
  [ flow_id |-> fwdFlowId(pkt),
    src_ip |-> tuple.src_ip, dst_ip |-> tuple.dst_ip,
    src_port |-> tuple.src_port, dst_port |-> tuple.dst_port,
    protocol |-> pkt.protocol,
    flow_start_time |-> pkt.time, flow_last_seen |-> pkt.time,
    start_active_time |-> pkt.time, end_active_time |-> pkt.time,
    half |-> [e \in Direction |-> IF e = d THEN FirstPacket(pkt) ELSE NoPackets],
    min_seg_size_forward |-> IF d = "fwd" THEN pkt.header_bytes ELSE 0,
    flag_count |-> checkFlags([x \in Flag |-> 0], pkt),
    flow_length_stats |-> AddValue(EmptyStats, pkt.payload_bytes),
    flow_iat |-> EmptyStats, flow_active |-> EmptyStats,
    flow_idle |-> EmptyStats,
    finished |-> "RST" \in pkt.flags ]

\* The constructor of a new connection: the packet's own 5-tuple, so its
\* comparison of src_ip with pkt.src_ip always takes the forward branch.
NewFlow(pkt) == SplitFlow(pkt, fwdFlowId(pkt))

-----------------------------------------------------------------------------
(* Adding a packet *)

\* Fault: the active period is recorded from its start to the new packet.
updateActiveIdleTime_PeriodIncludesGap(f, now) ==
  LET gap == Elapsed(now, f.end_active_time)
  IN IF gap > ActivityTimeout
     THEN [f EXCEPT
             !.flow_active = AddValue(@, Elapsed(now, f.start_active_time)),
             !.flow_idle = AddValue(@, gap),
             !.start_active_time = now,
             !.end_active_time = now]
     ELSE [f EXCEPT !.end_active_time = now]

\* updateActiveIdleTime: a gap above the threshold closes the active period
\* (recorded only when it has a length) and records the idle one.
updateActiveIdleTime(f, now) ==
  LET gap    == Elapsed(now, f.end_active_time)
      active == Elapsed(f.end_active_time, f.start_active_time)
  IN IF gap > ActivityTimeout
     THEN [f EXCEPT
             !.flow_active = IF active > 0 THEN AddValue(@, active) ELSE @,
             !.flow_idle = AddValue(@, gap),
             !.start_active_time = now,
             !.end_active_time = now]
     ELSE [f EXCEPT !.end_active_time = now]

\* Fault: the direction's first gap is measured from time 0.
CountPacket_GapFromZero(h, pkt, d) ==
  [h EXCEPT !.packets = @ + 1, !.bytes = @ + pkt.payload_bytes,
            !.header_bytes = @ + pkt.header_bytes,
            !.act_data_pkt = @ + DataPackets(pkt), !.last_seen = pkt.time,
            !.pkt_stats = AddValue(@, pkt.payload_bytes),
            !.iat = AddValue(@, Elapsed(pkt.time, h.last_seen)),
            !.fin_flags = IF ClosesDirection(pkt) THEN 1 ELSE @]

\* The per-direction part of addPacket.  Only the backward branch fills in
\* the initial window and TTL when it sees the direction's first packet.
CountPacket(h, pkt, d) ==
  LET initial == d = "bwd" /\ h.packets = 0 IN
  [ packets |-> h.packets + 1,
    bytes |-> h.bytes + pkt.payload_bytes,
    header_bytes |-> h.header_bytes + pkt.header_bytes,
    act_data_pkt |-> h.act_data_pkt + DataPackets(pkt),
    init_win_bytes |-> IF initial THEN pkt.tcp_window ELSE h.init_win_bytes,
    initial_ttl |-> IF initial THEN pkt.ip_ttl ELSE h.initial_ttl,
    last_seen |-> pkt.time,
    pkt_stats |-> AddValue(h.pkt_stats, pkt.payload_bytes),
    iat |-> IF h.packets > 0
            THEN AddValue(h.iat, Elapsed(pkt.time, h.last_seen))
            ELSE h.iat,
    fin_flags |-> IF ClosesDirection(pkt) THEN 1 ELSE h.fin_flags ]

\* Fault: two FIN packets finish the flow, whoever sent them.
addPacket_AnyTwoFins(f, pkt) ==
  LET d    == DirectionOf(f.src_ip, pkt)
      half == [f.half EXCEPT ![d] = CountPacket(@, pkt, d)]
  IN [updateActiveIdleTime(f, pkt.time) EXCEPT
        !.flag_count = checkFlags(@, pkt),
        !.flow_length_stats = AddValue(@, pkt.payload_bytes),
        !.half = half,
        !.flow_iat = AddValue(@, Elapsed(pkt.time, f.flow_last_seen)),
        !.flow_last_seen = pkt.time,
        !.finished = "RST" \in pkt.flags \/ checkFlags(f.flag_count, pkt)["FIN"] >= 2]

\* Fault: a packet with RST leaves before its length is recorded.
addPacket_RstLengthSkipped(f, pkt) ==
  LET d    == DirectionOf(f.src_ip, pkt)
      half == [f.half EXCEPT ![d] = CountPacket(@, pkt, d)]
  IN [updateActiveIdleTime(f, pkt.time) EXCEPT
        !.flag_count = checkFlags(@, pkt),
        !.flow_length_stats = IF "RST" \in pkt.flags THEN @ ELSE AddValue(@, pkt.payload_bytes),
        !.half = half,
        !.flow_iat = AddValue(@, Elapsed(pkt.time, f.flow_last_seen)),
        !.flow_last_seen = pkt.time,
        !.finished = \/ @
                     \/ "RST" \in pkt.flags
                     \/ /\ ClosesDirection(pkt)
                        /\ half["fwd"].fin_flags + half["bwd"].fin_flags = 2]

\* BasicFlow::addPacket.
addPacket(f, pkt) ==
  LET d    == DirectionOf(f.src_ip, pkt)
      half == [f.half EXCEPT ![d] = CountPacket(@, pkt, d)]
  IN [updateActiveIdleTime(f, pkt.time) EXCEPT
        !.flag_count = checkFlags(@, pkt),
        !.flow_length_stats = AddValue(@, pkt.payload_bytes),
        !.half = half,
        !.min_seg_size_forward =
            IF d = "fwd" /\ pkt.header_bytes < @ THEN pkt.header_bytes ELSE @,
        !.flow_iat = AddValue(@, Elapsed(pkt.time, f.flow_last_seen)),
        !.flow_last_seen = pkt.time,
        !.finished = \/ @
                     \/ "RST" \in pkt.flags
                     \/ /\ ClosesDirection(pkt)
                        /\ half["fwd"].fin_flags + half["bwd"].fin_flags = 2]

=============================================================================
