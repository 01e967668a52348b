--------------------------- MODULE CSVWriterProofs ---------------------------
(***************************************************************************)
(* The rows of CSVWriter, for every set of packets and both timeouts: the  *)
(* columns of a row agree, because the statistics of its flow are sound.   *)
(***************************************************************************)
EXTENDS FlowRecordProofs, CSVWriter

\* The columns of a statistic that the row shows, and of one that it does not.
Columns(s) == [min |-> s.min, max |-> s.max, mean |-> RatioOrZero(s.sum, s.n)]

NoColumns == [min |-> 0, max |-> 0, mean |-> Ratio(0, 1)]

MeanWithin(p) ==
  /\ p.mean.den > 0
  /\ p.min * p.mean.den <= p.mean.num /\ p.mean.num <= p.max * p.mean.den

\* The mean that a row shows lies between the extremes it shows.
LEMMA ColumnsSound ==
  ASSUME NEW s \in StatsType, StatsSound(s)
  PROVE  MeanWithin(Columns(s))
<1>1. s.n \in Nat /\ s.sum \in Nat /\ s.min \in Nat /\ s.max \in Nat
  BY DEF StatsType
<1>2. /\ s.n = 0 => s.sum = 0 /\ s.min = 0 /\ s.max = 0
      /\ s.n * s.min <= s.sum /\ s.sum <= s.n * s.max
  BY DEF StatsSound
<1>3. CASE s.n > 0
  <2>1. /\ Columns(s).min = s.min /\ Columns(s).max = s.max
        /\ Columns(s).mean.num = s.sum /\ Columns(s).mean.den = s.n
    BY <1>3 DEF Columns, RatioOrZero, Ratio
  <2>2. s.min * s.n <= s.sum /\ s.sum <= s.max * s.n
    BY <1>1, <1>2
  <2> QED
    BY <1>3, <2>1, <2>2 DEF MeanWithin
<1>4. CASE s.n = 0
  <2>1. /\ Columns(s).min = 0 /\ Columns(s).max = 0
        /\ Columns(s).mean.num = 0 /\ Columns(s).mean.den = 1
    BY <1>2, <1>4 DEF Columns, RatioOrZero, Ratio
  <2> QED
    BY <2>1 DEF MeanWithin
<1> QED
  BY <1>1, <1>3, <1>4

LEMMA NoColumnsSound == MeanWithin(NoColumns)
BY DEF MeanWithin, NoColumns, Ratio

LEMMA RatioOrZeroSound ==
  ASSUME NEW x, NEW y \in Nat
  PROVE  RatioOrZero(x, y).den > 0
BY DEF RatioOrZero, Ratio

\* What a row takes from the flow.
LEMMA RowFields ==
  ASSUME NEW f
  PROVE  LET row == writeFlowRow(f) IN
         /\ DOMAIN row.pkt_len = {"fwd", "bwd", "flow"}
         /\ DOMAIN row.iat = {"fwd", "bwd", "flow"}
         /\ \A d \in Direction : row.pkt_len[d] \in {Columns(f.half[d].pkt_stats), NoColumns}
         /\ row.pkt_len["flow"] \in {Columns(f.flow_length_stats), NoColumns}
         /\ \A d \in Direction : row.iat[d] \in {Columns(f.half[d].iat), NoColumns}
         /\ row.iat["flow"] = IF f.flow_iat.n > 0 THEN Columns(f.flow_iat) ELSE NoColumns
         /\ row.active \in {Columns(f.flow_active), NoColumns}
         /\ row.idle \in {Columns(f.flow_idle), NoColumns}
         /\ \A x \in RatedFlag : row.flag_rate[x] = Ratio(f.flag_count[x], packetCount(f))
         /\ row.duration = getDuration(f)
         /\ row.fwd_packets = f.half["fwd"].packets /\ row.bwd_packets = f.half["bwd"].packets
<1> DEFINE row == writeFlowRow(f)
<1>1. /\ row.pkt_len = LengthProfiles(f) /\ row.iat = IatProfiles(f)
      /\ row.active = Profile(f.flow_active.n > 0, f.flow_active)
      /\ row.idle = Profile(f.flow_idle.n > 0, f.flow_idle)
      /\ row.flag_rate = [x \in RatedFlag |-> Ratio(f.flag_count[x], packetCount(f))]
      /\ row.duration = getDuration(f)
      /\ row.fwd_packets = f.half["fwd"].packets /\ row.bwd_packets = f.half["bwd"].packets
  BY DEF writeFlowRow
<1> HIDE DEF row
<1>2. /\ DOMAIN row.pkt_len = {"fwd", "bwd", "flow"}
      /\ \A d \in Direction : row.pkt_len[d] \in {Columns(f.half[d].pkt_stats), NoColumns}
      /\ row.pkt_len["flow"] \in {Columns(f.flow_length_stats), NoColumns}
  BY <1>1 DEF LengthProfiles, Profile, Columns, NoColumns, Direction
<1>3. /\ DOMAIN row.iat = {"fwd", "bwd", "flow"}
      /\ \A d \in Direction : row.iat[d] \in {Columns(f.half[d].iat), NoColumns}
      /\ row.iat["flow"] = IF f.flow_iat.n > 0 THEN Columns(f.flow_iat) ELSE NoColumns
  BY <1>1 DEF IatProfiles, Profile, Columns, NoColumns, Direction
<1>4. /\ row.active \in {Columns(f.flow_active), NoColumns}
      /\ row.idle \in {Columns(f.flow_idle), NoColumns}
  BY <1>1 DEF Profile, Columns, NoColumns
<1>5. \A x \in RatedFlag : row.flag_rate[x] = Ratio(f.flag_count[x], packetCount(f))
  BY <1>1
<1> QED
  BY <1>1, <1>2, <1>3, <1>4, <1>5 DEF row

\* The ratios a row divides at export.
LEMMA RowRatios ==
  ASSUME NEW f \in FlowType
  PROVE  LET row == writeFlowRow(f) IN
         /\ \A q \in {row.packets_per_sec, row.bytes_per_sec, row.payload_ratio,
                      row.packet_count_ratio, row.header_to_total_ratio} : q.den > 0
         /\ row.header_to_total_ratio.num <= row.header_to_total_ratio.den
<1> DEFINE row == writeFlowRow(f)
           bytes == f.half["fwd"].bytes + f.half["bwd"].bytes
           header == f.half["fwd"].header_bytes + f.half["bwd"].header_bytes
<1>1. /\ f.half["fwd"].bytes \in Nat /\ f.half["fwd"].packets \in Nat
      /\ bytes \in Nat /\ header \in Nat
  BY DEF FlowType, HalfType, Direction
<1>2. getDuration(f) \in Nat
  BY ElapsedType DEF getDuration, FlowType
<1>3. /\ row.packets_per_sec = RatioOrZero(packetCount(f), getDuration(f))
      /\ row.bytes_per_sec = RatioOrZero(bytes, getDuration(f))
      /\ row.payload_ratio = RatioOrZero(f.half["bwd"].bytes, f.half["fwd"].bytes)
      /\ row.packet_count_ratio = RatioOrZero(f.half["bwd"].packets, f.half["fwd"].packets)
      /\ row.header_to_total_ratio = RatioOrZero(header, bytes + header)
  BY DEF writeFlowRow, PacketCountRatio
<1> HIDE DEF row, bytes, header
<1>4. bytes + header \in Nat /\ header <= bytes + header
  BY <1>1
<1>5. row.header_to_total_ratio.num <= row.header_to_total_ratio.den
  BY <1>1, <1>3, <1>4 DEF RatioOrZero, Ratio
<1> QED
  BY <1>1, <1>2, <1>3, <1>4, <1>5, RatioOrZeroSound DEF row

LEMMA RowProfiles ==
  ASSUME NEW f \in FlowType, StatisticsSound(f), NEW p \in Profiles(writeFlowRow(f))
  PROVE  MeanWithin(p)
<1> DEFINE row == writeFlowRow(f)
<1>1. /\ \A d \in Direction : f.half[d].pkt_stats \in StatsType /\ f.half[d].iat \in StatsType
      /\ f.flow_length_stats \in StatsType /\ f.flow_iat \in StatsType
      /\ f.flow_active \in StatsType /\ f.flow_idle \in StatsType
  BY DEF FlowType, HalfType
<1>2. /\ \A d \in Direction : /\ row.pkt_len[d] \in {Columns(f.half[d].pkt_stats), NoColumns}
                              /\ row.iat[d] \in {Columns(f.half[d].iat), NoColumns}
      /\ row.pkt_len["flow"] \in {Columns(f.flow_length_stats), NoColumns}
      /\ row.iat["flow"] \in {Columns(f.flow_iat), NoColumns}
      /\ row.active \in {Columns(f.flow_active), NoColumns}
      /\ row.idle \in {Columns(f.flow_idle), NoColumns}
  BY RowFields
<1>3. /\ DOMAIN row.pkt_len = Direction \cup {"flow"}
      /\ DOMAIN row.iat = Direction \cup {"flow"}
  BY RowFields DEF Direction
<1> HIDE DEF row
<1>4. \A d \in Direction : MeanWithin(row.pkt_len[d]) /\ MeanWithin(row.iat[d])
  BY <1>1, <1>2, ColumnsSound, NoColumnsSound DEF StatisticsSound
<1>5. /\ MeanWithin(row.pkt_len["flow"]) /\ MeanWithin(row.iat["flow"])
      /\ MeanWithin(row.active) /\ MeanWithin(row.idle)
  BY <1>1, <1>2, ColumnsSound, NoColumnsSound DEF StatisticsSound
<1>6. p \in {row.pkt_len[e] : e \in Direction \cup {"flow"}}
              \cup {row.iat[e] : e \in Direction \cup {"flow"}} \cup {row.active, row.idle}
  BY <1>3 DEF Profiles, row
<1> QED
  BY <1>4, <1>5, <1>6

\* In a capture in order the gaps of a row, and its active and idle periods,
\* are parts of its duration.
LEMMA RowTimes ==
  ASSUME NEW f \in FlowType, StatisticsSound(f), NEW now, TimesSound(f, now)
  PROVE  LET row  == writeFlowRow(f)
             gaps == row.fwd_packets + row.bwd_packets - 1
             gap  == row.iat["flow"].mean
         IN
         /\ gap.num * gaps = row.duration * gap.den
         /\ {row.active.max, row.idle.max} \cup {row.iat[e].max : e \in DOMAIN row.iat}
              \subseteq 0 .. row.duration
<1> DEFINE row == writeFlowRow(f)
           long == f.flow_last_seen - f.flow_start_time
<1>1. /\ \A d \in Direction : /\ f.half[d].iat \in StatsType
                              /\ f.half[d].packets \in Nat /\ f.half[d].last_seen \in Nat
      /\ f.flow_iat \in StatsType /\ f.flow_active \in StatsType /\ f.flow_idle \in StatsType
      /\ f.flow_start_time \in Nat /\ f.flow_last_seen \in Nat
      /\ f.start_active_time \in Nat /\ f.end_active_time \in Nat
  BY TimeAssumption DEF FlowType, HalfType, Time
<1>2. f.flow_start_time <= f.flow_last_seen /\ long \in Nat
  BY <1>1 DEF TimesSound
<1>3. row.duration = long
  BY <1>1, <1>2, RowFields DEF getDuration, Elapsed
<1>4. /\ f.flow_iat.n = packetCount(f) - 1 /\ f.flow_iat.sum = long
      /\ f.flow_active.sum <= long /\ f.flow_idle.sum <= long
      /\ \A d \in Direction : f.half[d].iat.sum <= long
  <2>1. /\ f.flow_iat.n = packetCount(f) - 1 /\ f.flow_iat.sum = long
        /\ f.start_active_time <= f.end_active_time
        /\ f.flow_active.sum + f.flow_idle.sum + (f.end_active_time - f.start_active_time) = long
    BY DEF TimesSound
  <2>2. f.flow_active.sum \in Nat /\ f.flow_idle.sum \in Nat
    BY <1>1 DEF StatsType
  <2>3. ASSUME NEW d \in Direction PROVE f.half[d].iat.sum <= long
    <3>1. /\ f.half[d].packets = 0 => f.half[d].iat.sum = 0
          /\ f.half[d].packets > 0 =>
               /\ f.flow_start_time + f.half[d].iat.sum <= f.half[d].last_seen
               /\ f.half[d].last_seen <= f.flow_last_seen
      BY DEF TimesSound
    <3>2. f.half[d].iat.sum \in Nat
      BY <1>1 DEF StatsType
    <3> QED
      BY <1>1, <1>2, <3>1, <3>2
  <2> HIDE DEF long
  <2> QED
    BY <1>1, <1>2, <2>1, <2>2, <2>3
<1>5. /\ StatsSound(f.flow_iat) /\ StatsSound(f.flow_active) /\ StatsSound(f.flow_idle)
      /\ \A d \in Direction : StatsSound(f.half[d].iat)
  BY DEF StatisticsSound
<1> HIDE DEF long
<1>6. \A s \in StatsType :
        StatsSound(s) /\ s.sum <= long =>
          \A p \in {Columns(s), NoColumns} : p.max \in 0 .. long
  <2> SUFFICES ASSUME NEW s \in StatsType, StatsSound(s), s.sum <= long
               PROVE  Columns(s).max \in 0 .. long /\ NoColumns.max \in 0 .. long
    OBVIOUS
  <2>1. s.max \in Nat /\ s.max <= s.sum /\ s.sum \in Nat
    BY DEF StatsSound, StatsType
  <2>2. Columns(s).max = s.max /\ NoColumns.max = 0
    BY DEF Columns, NoColumns
  <2> QED
    BY <1>2, <2>1, <2>2
<1>7. /\ row.active.max \in 0 .. long /\ row.idle.max \in 0 .. long
      /\ \A e \in Direction \cup {"flow"} : row.iat[e].max \in 0 .. long
  <2>1. /\ \A d \in Direction : row.iat[d] \in {Columns(f.half[d].iat), NoColumns}
        /\ row.iat["flow"] \in {Columns(f.flow_iat), NoColumns}
        /\ row.active \in {Columns(f.flow_active), NoColumns}
        /\ row.idle \in {Columns(f.flow_idle), NoColumns}
    BY RowFields
  <2>2. f.flow_iat.sum <= long
    BY <1>2, <1>4
  <2> HIDE DEF row
  <2>3. row.active.max \in 0 .. long /\ row.idle.max \in 0 .. long
    BY <1>1, <1>4, <1>5, <1>6, <2>1
  <2>4. row.iat["flow"].max \in 0 .. long
    BY <1>1, <1>5, <1>6, <2>1, <2>2
  <2>5. \A d \in Direction : row.iat[d].max \in 0 .. long
    BY <1>1, <1>4, <1>5, <1>6, <2>1
  <2> QED
    BY <2>3, <2>4, <2>5
<1>8. DOMAIN row.iat = Direction \cup {"flow"}
  BY RowFields DEF Direction
<1>9. row.iat["flow"].mean.num * (packetCount(f) - 1) = long * row.iat["flow"].mean.den
  <2>1. row.iat["flow"] = IF f.flow_iat.n > 0 THEN Columns(f.flow_iat) ELSE NoColumns
    BY RowFields
  <2>2. f.flow_iat.n \in Nat /\ f.flow_iat.n = packetCount(f) - 1 /\ f.flow_iat.sum = long
    BY <1>1, <1>4 DEF StatsType
  <2> HIDE DEF row
  <2>3. CASE f.flow_iat.n > 0
    <3>1. row.iat["flow"].mean.num = long /\ row.iat["flow"].mean.den = packetCount(f) - 1
      BY <2>1, <2>2, <2>3 DEF Columns, RatioOrZero, Ratio
    <3> QED
      BY <3>1
  <2>4. CASE f.flow_iat.n = 0
    <3>1. row.iat["flow"].mean.num = 0 /\ row.iat["flow"].mean.den = 1
      BY <2>1, <2>4 DEF NoColumns, Ratio
    <3>2. long = 0
      BY <1>5, <2>2, <2>4 DEF StatsSound
    <3>3. packetCount(f) - 1 = 0
      BY <2>2, <2>4
    <3> QED
      BY <3>1, <3>2, <3>3
  <2>5. \A n \in Nat : n > 0 \/ n = 0
    OBVIOUS
  <2> QED
    BY <2>2, <2>3, <2>4, <2>5, Zenon
<1>10. row.fwd_packets + row.bwd_packets - 1 = packetCount(f) - 1
  <2>1. row.fwd_packets = f.half["fwd"].packets /\ row.bwd_packets = f.half["bwd"].packets
    BY RowFields
  <2>2. f.half["fwd"].packets \in Nat /\ f.half["bwd"].packets \in Nat
    BY <1>1 DEF Direction
  <2> HIDE DEF row
  <2> QED
    BY <2>1, <2>2 DEF packetCount
<1> HIDE DEF row
<1>11. {row.active.max, row.idle.max} \cup {row.iat[e].max : e \in DOMAIN row.iat}
         \subseteq 0 .. row.duration
  BY <1>3, <1>7, <1>8
<1>12. row.iat["flow"].mean.num * (row.fwd_packets + row.bwd_packets - 1)
         = row.duration * row.iat["flow"].mean.den
  BY <1>3, <1>9, <1>10, Zenon
<1> QED
  BY <1>11, <1>12 DEF row

\* The columns of every row agree with each other, although each comes from
\* counters of its own and some flows lack a direction or a duration.
THEOREM ColumnsAgree == Spec => []RowColumnsAgree
<1>1. Consistent /\ AllSound => RowColumnsAgree
  <2> SUFFICES ASSUME Consistent, AllSound, NEW f \in RowFlows
               PROVE  LET row  == writeFlowRow(f)
                          gaps == row.fwd_packets + row.bwd_packets - 1
                          gap  == row.iat["flow"].mean
                      IN
                      /\ IsWritten(f)
                      /\ \A q \in Ratios(row) : q.den > 0
                      /\ \A p \in Profiles(row) :
                           p.min * p.mean.den <= p.mean.num /\ p.mean.num <= p.max * p.mean.den
                      /\ \A q \in FlagRates(row) \cup {row.header_to_total_ratio} : q.num <= q.den
                      /\ Ordered =>
                           /\ gap.num * gaps = row.duration * gap.den
                           /\ {row.active.max, row.idle.max}
                                \cup {row.iat[e].max : e \in DOMAIN row.iat}
                                \subseteq 0 .. row.duration
    BY DEF RowColumnsAgree
  <2> DEFINE row == writeFlowRow(f)
  <2>1. f \in FlowType /\ Sound(f, capture_time)
    BY StoredType DEF AllSound, AllFlows
  <2>2. StatisticsSound(f)
    BY <2>1 DEF Sound
  <2>3. IsWritten(f)
    BY <2>2 DEF StatisticsSound, IsWritten
  <2>4. \A p \in Profiles(row) :
          /\ p.mean.den > 0
          /\ p.min * p.mean.den <= p.mean.num /\ p.mean.num <= p.max * p.mean.den
    BY <2>1, <2>2, RowProfiles DEF MeanWithin
  <2>5. \A q \in FlagRates(row) : q.den > 0 /\ q.num <= q.den
    <3>1. \A x \in RatedFlag : x \in Flag
      BY DEF RatedFlag, Flag
    <3>2. \A x \in RatedFlag : row.flag_rate[x] = [num |-> f.flag_count[x], den |-> packetCount(f)]
      BY RowFields DEF Ratio
    <3>3. packetCount(f) > 0 /\ \A x \in RatedFlag : f.flag_count[x] <= packetCount(f)
      BY <2>2, <3>1 DEF StatisticsSound
    <3> HIDE DEF row
    <3>4. \A q \in FlagRates(row) :
            \E x \in RatedFlag : q = [num |-> f.flag_count[x], den |-> packetCount(f)]
      BY <3>2 DEF FlagRates
    <3> QED
      BY <3>3, <3>4
  <2>6. /\ \A q \in {row.packets_per_sec, row.bytes_per_sec, row.payload_ratio,
                     row.packet_count_ratio, row.header_to_total_ratio} : q.den > 0
        /\ row.header_to_total_ratio.num <= row.header_to_total_ratio.den
    BY <2>1, RowRatios
  <2>7. ASSUME Ordered
        PROVE  /\ row.iat["flow"].mean.num * (row.fwd_packets + row.bwd_packets - 1)
                    = row.duration * row.iat["flow"].mean.den
               /\ {row.active.max, row.idle.max} \cup {row.iat[e].max : e \in DOMAIN row.iat}
                    \subseteq 0 .. row.duration
    BY <2>1, <2>2, <2>7, RowTimes DEF Sound
  <2> HIDE DEF row
  <2>8. \A q \in Ratios(row) : q.den > 0
    BY <2>4, <2>5, <2>6 DEF Ratios
  <2> QED
    BY <2>3, <2>4, <2>5, <2>6, <2>7, <2>8 DEF row
<1> QED
  BY <1>1, SoundAlways, FlowGeneratorConsistent, PTL

=============================================================================
