------------------------------ MODULE CSVWriter ------------------------------
(***************************************************************************)
(* The row of a flow (src/CSVWriter.cpp) as a function of the record that  *)
(* the callback receives: which values it takes, the divisions it makes at *)
(* export and the guards around them.  A ratio is its numerator and its    *)
(* denominator; a mean is that of Welford, the quotient of sum and count.  *)
(* Left out: the columns that are copied from the record without being     *)
(* computed (identity, time strings, initial windows, minimum segment,     *)
(* TTLs), standard deviations, and the factor between microseconds and     *)
(* seconds.                                                                *)
(***************************************************************************)
EXTENDS FlowGenerator

Ratio(x, y) == [num |-> x, den |-> y]

RatioOrZero(x, y) == IF y > 0 THEN Ratio(x, y) ELSE Ratio(0, 1)

\* Four columns: the statistic, or zeros when the row does not show it.
Profile(shown, s) ==
  IF shown THEN [min |-> s.min, max |-> s.max, mean |-> RatioOrZero(s.sum, s.n)]
  ELSE [min |-> 0, max |-> 0, mean |-> Ratio(0, 1)]

\* Fault: every flow is taken to have a forward packet.
PacketCountRatio_Unguarded(fwd, bwd) == Ratio(bwd.packets, fwd.packets)

PacketCountRatio(fwd, bwd) == RatioOrZero(bwd.packets, fwd.packets)

\* The inter-arrival times of a direction are shown by its packets, those of
\* the flow by the values there are.
IatProfiles(f) ==
  [ fwd |-> Profile(f.half["fwd"].packets > 1, f.half["fwd"].iat),
    bwd |-> Profile(f.half["bwd"].packets > 1, f.half["bwd"].iat),
    flow |-> Profile(f.flow_iat.n > 0, f.flow_iat) ]

LengthProfiles(f) ==
  [ fwd |-> Profile(f.half["fwd"].pkt_stats.n > 0, f.half["fwd"].pkt_stats),
    bwd |-> Profile(f.half["bwd"].pkt_stats.n > 0, f.half["bwd"].pkt_stats),
    flow |-> Profile(f.flow_length_stats.n > 0, f.flow_length_stats) ]

RatedFlag == {"SYN", "ACK", "FIN", "RST", "PSH", "URG"}

\* writeFlowRow writes nothing for a flow without packets.
IsWritten(f) == packetCount(f) > 0

writeFlowRow(f) ==
  LET fwd    == f.half["fwd"]
      bwd    == f.half["bwd"]
      bytes  == fwd.bytes + bwd.bytes
      header == fwd.header_bytes + bwd.header_bytes
  IN
  [ duration |-> getDuration(f),
    fwd_packets |-> fwd.packets,
    bwd_packets |-> bwd.packets,
    packets_per_sec |-> RatioOrZero(packetCount(f), getDuration(f)),
    bytes_per_sec |-> RatioOrZero(bytes, getDuration(f)),
    payload_ratio |-> RatioOrZero(bwd.bytes, fwd.bytes),
    packet_count_ratio |-> PacketCountRatio(fwd, bwd),
    header_to_total_ratio |-> RatioOrZero(header, bytes + header),
    pkt_len |-> LengthProfiles(f),
    iat |-> IatProfiles(f),
    flag_rate |-> [x \in RatedFlag |-> Ratio(f.flag_count[x], packetCount(f))],
    active |-> Profile(f.flow_active.n > 0, f.flow_active),
    idle |-> Profile(f.flow_idle.n > 0, f.flow_idle) ]

-----------------------------------------------------------------------------
(* Property *)

Profiles(row) ==
  {row.pkt_len[e] : e \in DOMAIN row.pkt_len} \cup {row.iat[e] : e \in DOMAIN row.iat}
    \cup {row.active, row.idle}

FlagRates(row) == {row.flag_rate[x] : x \in RatedFlag}

Ratios(row) ==
  FlagRates(row) \cup {p.mean : p \in Profiles(row)}
    \cup {row.packets_per_sec, row.bytes_per_sec, row.payload_ratio,
          row.packet_count_ratio, row.header_to_total_ratio}

\* The columns of a row agree although they come from counters that are kept,
\* and shown, by separate statements: every flow that is reported has a row, no
\* ratio divides by zero (a flow that a backward packet split off may have no
\* forward packet), means lie between extremes, shares do not exceed 1, and in a
\* capture in order the mean gap times the number of gaps is the duration, which
\* no gap, active or idle period exceeds.
RowColumnsAgree ==
  \A f \in RowFlows :
    LET row  == writeFlowRow(f)
        gaps == row.fwd_packets + row.bwd_packets - 1
        gap  == row.iat["flow"].mean
    IN
    /\ IsWritten(f)
    /\ \A q \in Ratios(row) : q.den > 0
    /\ \A p \in Profiles(row) :
         p.min * p.mean.den <= p.mean.num /\ p.mean.num <= p.max * p.mean.den
    /\ \A q \in FlagRates(row) \cup {row.header_to_total_ratio} : q.num <= q.den
    /\ Ordered =>
         /\ gap.num * gaps = row.duration * gap.den
         /\ {row.active.max, row.idle.max} \cup {row.iat[e].max : e \in DOMAIN row.iat}
              \subseteq 0 .. row.duration

=============================================================================
