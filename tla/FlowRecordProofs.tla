-------------------------- MODULE FlowRecordProofs --------------------------
(***************************************************************************)
(* What a flow reports of itself is consistent, for every set of packets   *)
(* and both timeouts: its halves add up to its totals and belong to its    *)
(* two endpoints, it is finished by a RST or by both FINs, and in an       *)
(* ordered capture its gaps, active and idle periods and the rows of its   *)
(* connection account for its time line.                                   *)
(***************************************************************************)
EXTENDS FlowRefinementProofs

-----------------------------------------------------------------------------
(* One flow *)

\* The packet's direction is the half it is counted in; the other half and
\* the members that no packet changes stay as they are.
LEMMA addPacketFields ==
  ASSUME NEW f \in FlowType, NEW pkt \in PacketType
  PROVE  LET d == DirectionOf(f.src_ip, pkt)
             u == updateActiveIdleTime(f, pkt.time)
             g == addPacket(f, pkt)
         IN
         /\ d \in Direction
         /\ g.half = [f.half EXCEPT ![d] = CountPacket(f.half[d], pkt, d)]
         /\ g.flag_count = checkFlags(f.flag_count, pkt)
         /\ g.flow_length_stats = AddValue(f.flow_length_stats, pkt.payload_bytes)
         /\ g.flow_iat = AddValue(f.flow_iat, Elapsed(pkt.time, f.flow_last_seen))
         /\ g.flow_start_time = f.flow_start_time
         /\ g.flow_last_seen = pkt.time
         /\ g.finished = \/ f.finished
                         \/ "RST" \in pkt.flags
                         \/ /\ ClosesDirection(pkt)
                            /\ g.half["fwd"].fin_flags + g.half["bwd"].fin_flags = 2
         /\ g.flow_active = u.flow_active /\ g.flow_idle = u.flow_idle
         /\ g.start_active_time = u.start_active_time
         /\ g.end_active_time = pkt.time
<1> DEFINE d == DirectionOf(f.src_ip, pkt)
           u == updateActiveIdleTime(f, pkt.time)
           g == addPacket(f, pkt)
           half == [f.half EXCEPT ![d] = CountPacket(f.half[d], pkt, d)]
           lengths == AddValue(u.flow_length_stats, pkt.payload_bytes)
           minSeg == IF d = "fwd" /\ pkt.header_bytes < u.min_seg_size_forward
                     THEN pkt.header_bytes ELSE u.min_seg_size_forward
           flags == checkFlags(u.flag_count, pkt)
           iat == AddValue(u.flow_iat, Elapsed(pkt.time, f.flow_last_seen))
           done == \/ u.finished
                   \/ "RST" \in pkt.flags
                   \/ /\ ClosesDirection(pkt)
                      /\ half["fwd"].fin_flags + half["bwd"].fin_flags = 2
<1>1. u \in FlowType
  BY ActiveIdleType DEF PacketType
<1>2. /\ u.flow_start_time = f.flow_start_time /\ u.finished = f.finished
      /\ u.flag_count = f.flag_count /\ u.flow_length_stats = f.flow_length_stats
      /\ u.flow_iat = f.flow_iat /\ u.end_active_time = pkt.time
  BY DEF updateActiveIdleTime, FlowType
<1>3. g = [u EXCEPT !.flag_count = flags, !.flow_length_stats = lengths,
                    !.half = half, !.min_seg_size_forward = minSeg,
                    !.flow_iat = iat, !.flow_last_seen = pkt.time, !.finished = done]
  BY DEF addPacket
<1>4. d \in Direction
  BY DirectionType
<1>5. lengths = AddValue(f.flow_length_stats, pkt.payload_bytes)
  BY <1>2
<1>6. flags = checkFlags(f.flag_count, pkt)
  BY <1>2
<1>7. iat = AddValue(f.flow_iat, Elapsed(pkt.time, f.flow_last_seen))
  BY <1>2
<1>8. done <=> \/ f.finished
               \/ "RST" \in pkt.flags
               \/ /\ ClosesDirection(pkt)
                  /\ half["fwd"].fin_flags + half["bwd"].fin_flags = 2
  BY <1>2
<1> HIDE DEF d, u, g, half, lengths, minSeg, flags, iat, done
<1>9. /\ g.half = half /\ g.flag_count = flags /\ g.flow_length_stats = lengths
      /\ g.flow_iat = iat /\ g.flow_last_seen = pkt.time /\ g.finished = done
  BY <1>1, <1>3 DEF FlowType
<1>10. /\ g.flow_start_time = u.flow_start_time
       /\ g.flow_active = u.flow_active /\ g.flow_idle = u.flow_idle
       /\ g.start_active_time = u.start_active_time
       /\ g.end_active_time = u.end_active_time
  BY <1>1, <1>3 DEF FlowType
<1>11. done = \/ f.finished
              \/ "RST" \in pkt.flags
              \/ /\ ClosesDirection(pkt)
                 /\ g.half["fwd"].fin_flags + g.half["bwd"].fin_flags = 2
  BY <1>8, <1>9 DEF done
<1>12. g.half = [f.half EXCEPT ![d] = CountPacket(f.half[d], pkt, d)]
  BY <1>9 DEF half
<1>13. g.finished = \/ f.finished
                    \/ "RST" \in pkt.flags
                    \/ /\ ClosesDirection(pkt)
                       /\ g.half["fwd"].fin_flags + g.half["bwd"].fin_flags = 2
  BY <1>9, <1>11
<1> QED
  BY <1>2, <1>4, <1>5, <1>6, <1>7, <1>9, <1>10, <1>12, <1>13 DEF d, u, g

-----------------------------------------------------------------------------
(* Totals *)

\* The two halves of f add up to its totals.
HalvesSound(f) ==
  /\ f.flow_length_stats.n = packetCount(f)
  /\ f.flow_length_stats.sum = f.half["fwd"].bytes + f.half["bwd"].bytes
  /\ \A d \in Direction : f.half[d].packets = f.half[d].pkt_stats.n
  /\ \A d \in Direction : f.half[d].bytes = f.half[d].pkt_stats.sum

\* What the constructors put into the members that this module is about.
LEMMA SplitFlowFields ==
  ASSUME NEW pkt \in PacketType, NEW tuple, NEW id
  PROVE  LET d == DirectionOf(tuple.src_ip, pkt)
             g == [SplitFlow(pkt, tuple) EXCEPT !.flow_id = id]
         IN
         /\ d \in Direction
         /\ g.half = [e \in Direction |-> IF e = d THEN FirstPacket(pkt) ELSE NoPackets]
         /\ g.flag_count = checkFlags([x \in Flag |-> 0], pkt)
         /\ g.flow_length_stats = AddValue(EmptyStats, pkt.payload_bytes)
         /\ g.flow_iat = EmptyStats
         /\ g.flow_active = EmptyStats /\ g.flow_idle = EmptyStats
         /\ g.flow_start_time = pkt.time /\ g.flow_last_seen = pkt.time
         /\ g.start_active_time = pkt.time /\ g.end_active_time = pkt.time
         /\ g.finished = ("RST" \in pkt.flags)
         /\ g.flow_id = id
BY DirectionType DEF SplitFlow

LEMMA SplitFlowHalves ==
  ASSUME NEW pkt \in PacketType, NEW tuple, NEW id
  PROVE  HalvesSound([SplitFlow(pkt, tuple) EXCEPT !.flow_id = id])
<1> DEFINE d == DirectionOf(tuple.src_ip, pkt)
           g == [SplitFlow(pkt, tuple) EXCEPT !.flow_id = id]
<1>1. /\ d \in Direction
      /\ g.half = [e \in Direction |-> IF e = d THEN FirstPacket(pkt) ELSE NoPackets]
      /\ g.flow_length_stats = AddValue(EmptyStats, pkt.payload_bytes)
  BY SplitFlowFields
<1>2. pkt.payload_bytes \in Nat
  BY DEF PacketType
<1> HIDE DEF d, g
<1>3. /\ g.half["fwd"] = IF d = "fwd" THEN FirstPacket(pkt) ELSE NoPackets
      /\ g.half["bwd"] = IF d = "bwd" THEN FirstPacket(pkt) ELSE NoPackets
  BY <1>1 DEF Direction
<1> QED
  BY <1>1, <1>2, <1>3
  DEF HalvesSound, packetCount, FirstPacket, NoPackets, AddValue, EmptyStats, Direction, g

LEMMA addPacketHalves ==
  ASSUME NEW f \in FlowType, NEW pkt \in PacketType, HalvesSound(f)
  PROVE  HalvesSound(addPacket(f, pkt))
<1> DEFINE d == DirectionOf(f.src_ip, pkt)
           g == addPacket(f, pkt)
           h == CountPacket(f.half[d], pkt, d)
<1>1. /\ d \in Direction
      /\ g.half = [f.half EXCEPT ![d] = h]
      /\ g.flow_length_stats = AddValue(f.flow_length_stats, pkt.payload_bytes)
  BY addPacketFields
<1>2. /\ h.packets = f.half[d].packets + 1
      /\ h.bytes = f.half[d].bytes + pkt.payload_bytes
      /\ h.pkt_stats.n = f.half[d].pkt_stats.n + 1
      /\ h.pkt_stats.sum = f.half[d].pkt_stats.sum + pkt.payload_bytes
  BY DEF CountPacket, AddValue
<1>3. /\ pkt.payload_bytes \in Nat
      /\ \A e \in Direction : f.half[e].packets \in Nat /\ f.half[e].bytes \in Nat
      /\ f.half \in [Direction -> HalfType]
  BY DEF PacketType, FlowType, HalfType
<1>4. /\ g.flow_length_stats.n = f.flow_length_stats.n + 1
      /\ g.flow_length_stats.sum = f.flow_length_stats.sum + pkt.payload_bytes
  BY <1>1 DEF AddValue
<1> HIDE DEF d, g, h
<1>5. \A e \in Direction : g.half[e] = IF e = d THEN h ELSE f.half[e]
  BY <1>1, <1>3
<1>6. /\ g.half["fwd"].packets + g.half["bwd"].packets
           = f.half["fwd"].packets + f.half["bwd"].packets + 1
      /\ g.half["fwd"].bytes + g.half["bwd"].bytes
           = f.half["fwd"].bytes + f.half["bwd"].bytes + pkt.payload_bytes
  BY <1>1, <1>2, <1>3, <1>5 DEF Direction
<1>7. \A e \in Direction : /\ g.half[e].packets = g.half[e].pkt_stats.n
                           /\ g.half[e].bytes = g.half[e].pkt_stats.sum
  BY <1>2, <1>5 DEF HalvesSound
<1> QED
  BY <1>4, <1>6, <1>7 DEF HalvesSound, packetCount, g

-----------------------------------------------------------------------------
(* The end of a flow *)

\* f is finished exactly when it has seen a RST or a FIN of each direction.
FinishSound(f) ==
  f.finished <=> \/ f.flag_count["RST"] > 0
                 \/ \A d \in Direction : f.half[d].fin_flags = 1

LEMMA SplitFlowFinish ==
  ASSUME NEW pkt \in PacketType, NEW tuple, NEW id
  PROVE  LET g == [SplitFlow(pkt, tuple) EXCEPT !.flow_id = id] IN
         FinishSound(g) /\ (g.finished => g.flag_count["RST"] = 1)
<1> DEFINE d == DirectionOf(tuple.src_ip, pkt)
           g == [SplitFlow(pkt, tuple) EXCEPT !.flow_id = id]
<1>1. /\ d \in Direction
      /\ g.half = [e \in Direction |-> IF e = d THEN FirstPacket(pkt) ELSE NoPackets]
      /\ g.flag_count = checkFlags([x \in Flag |-> 0], pkt)
      /\ g.finished = ("RST" \in pkt.flags)
  BY SplitFlowFields
<1> HIDE DEF d, g
<1>2. PICK e \in Direction : e # d
  BY DEF Direction
<1>3. g.half[e].fin_flags = 0
  BY <1>1, <1>2 DEF NoPackets
<1>4. g.flag_count["RST"] = IF "RST" \in pkt.flags THEN 1 ELSE 0
  BY <1>1 DEF checkFlags, Flag
<1>5. g.finished <=> g.flag_count["RST"] > 0
  <2>1. g.finished <=> "RST" \in pkt.flags
    BY <1>1
  <2>2. g.flag_count["RST"] > 0 <=> "RST" \in pkt.flags
    BY <1>4
  <2> QED
    BY <2>1, <2>2
<1>6. ~ \A x \in Direction : g.half[x].fin_flags = 1
  BY <1>2, <1>3
<1>7. g.finished => g.flag_count["RST"] = 1
  BY <1>1, <1>4
<1> QED
  BY <1>5, <1>6, <1>7 DEF FinishSound, g

LEMMA addPacketFinish ==
  ASSUME NEW f \in FlowType, NEW pkt \in PacketType, FinishSound(f)
  PROVE  FinishSound(addPacket(f, pkt))
<1> DEFINE d == DirectionOf(f.src_ip, pkt)
           g == addPacket(f, pkt)
           h == CountPacket(f.half[d], pkt, d)
<1>1. /\ d \in Direction
      /\ g.half = [f.half EXCEPT ![d] = h]
      /\ g.flag_count = checkFlags(f.flag_count, pkt)
      /\ g.finished = \/ f.finished
                      \/ "RST" \in pkt.flags
                      \/ /\ ClosesDirection(pkt)
                         /\ g.half["fwd"].fin_flags + g.half["bwd"].fin_flags = 2
  BY addPacketFields
<1>2. h.fin_flags = IF ClosesDirection(pkt) THEN 1 ELSE f.half[d].fin_flags
  BY DEF CountPacket
<1>3. /\ f.half \in [Direction -> HalfType]
      /\ \A e \in Direction : f.half[e].fin_flags \in {0, 1}
      /\ f.flag_count["RST"] \in Nat
  BY DEF FlowType, HalfType, Flag
<1>4. g.flag_count["RST"] = IF "RST" \in pkt.flags THEN f.flag_count["RST"] + 1
                                                    ELSE f.flag_count["RST"]
  BY <1>1 DEF checkFlags, Flag
<1> HIDE DEF d, g, h
<1>5. \A e \in Direction : g.half[e] = IF e = d THEN h ELSE f.half[e]
  BY <1>1, <1>3
<1>6. \A e \in Direction : /\ g.half[e].fin_flags \in {0, 1}
                           /\ f.half[e].fin_flags = 1 => g.half[e].fin_flags = 1
                           /\ ~ ClosesDirection(pkt) => g.half[e].fin_flags = f.half[e].fin_flags
  BY <1>2, <1>3, <1>5
<1>7. g.half["fwd"].fin_flags + g.half["bwd"].fin_flags = 2
        <=> \A e \in Direction : g.half[e].fin_flags = 1
  BY <1>6 DEF Direction
<1>8. g.flag_count["RST"] > 0 <=> f.flag_count["RST"] > 0 \/ "RST" \in pkt.flags
  BY <1>3, <1>4
<1>9. g.finished <=> \/ g.flag_count["RST"] > 0
                     \/ \A e \in Direction : g.half[e].fin_flags = 1
  <2>1. CASE f.finished
    BY <1>1, <1>6, <1>8, <2>1 DEF FinishSound
  <2>2. CASE ~ f.finished
    BY <1>1, <1>6, <1>7, <1>8, <2>2 DEF FinishSound
  <2> QED
    BY <2>1, <2>2
<1> QED
  BY <1>9 DEF FinishSound, g

-----------------------------------------------------------------------------
(* The time line of a flow *)

\* The gaps and the periods of f cover its duration, up to now.
TimesSound(f, now) ==
  /\ f.flow_start_time <= f.flow_last_seen /\ f.flow_last_seen <= now
  /\ f.flow_iat.n = packetCount(f) - 1
  /\ f.flow_iat.sum = f.flow_last_seen - f.flow_start_time
  /\ \A d \in Direction :
       LET h == f.half[d] IN
       /\ h.packets = 0 => h.iat.n = 0 /\ h.iat.sum = 0
       /\ h.packets > 0 => /\ h.iat.n = h.packets - 1
                           /\ f.flow_start_time + h.iat.sum <= h.last_seen
                           /\ h.last_seen <= f.flow_last_seen
  /\ f.end_active_time = f.flow_last_seen
  /\ f.start_active_time <= f.end_active_time
  /\ f.flow_active.sum + f.flow_idle.sum + (f.end_active_time - f.start_active_time)
       = f.flow_last_seen - f.flow_start_time
  /\ f.flow_idle.n > 0 => f.flow_idle.min > ActivityTimeout

LEMMA SplitFlowTimes ==
  ASSUME NEW pkt \in PacketType, NEW tuple \in FlowKey, NEW id
  PROVE  TimesSound([SplitFlow(pkt, tuple) EXCEPT !.flow_id = id], pkt.time)
<1> DEFINE d == DirectionOf(tuple.src_ip, pkt)
           g == [SplitFlow(pkt, tuple) EXCEPT !.flow_id = id]
<1>1. /\ d \in Direction
      /\ g.half = [e \in Direction |-> IF e = d THEN FirstPacket(pkt) ELSE NoPackets]
      /\ g.flow_iat = EmptyStats
      /\ g.flow_active = EmptyStats /\ g.flow_idle = EmptyStats
      /\ g.flow_start_time = pkt.time /\ g.flow_last_seen = pkt.time
      /\ g.start_active_time = pkt.time /\ g.end_active_time = pkt.time
  BY SplitFlowFields
<1>2. pkt.time \in Nat
  BY TimeAssumption DEF PacketType, Time
<1>3. packetCount(g) = 1
  <2>1. packetCount(SplitFlow(pkt, tuple)) = 1
    BY SplitFlowCounts
  <2>2. g.half = SplitFlow(pkt, tuple).half
    BY DEF SplitFlow
  <2> QED
    BY <2>1, <2>2 DEF packetCount
<1> HIDE DEF d, g
<1>4. ASSUME NEW e \in Direction
      PROVE  \/ /\ g.half[e].packets = 0
                /\ g.half[e].iat.n = 0 /\ g.half[e].iat.sum = 0
             \/ /\ g.half[e].packets = 1 /\ g.half[e].last_seen = pkt.time
                /\ g.half[e].iat.n = 0 /\ g.half[e].iat.sum = 0
  BY <1>1 DEF FirstPacket, NoPackets, EmptyStats
<1> QED
  BY <1>1, <1>2, <1>3, <1>4 DEF TimesSound, EmptyStats, g

LEMMA addPacketTimes ==
  ASSUME NEW f \in FlowType, NEW pkt \in PacketType, NEW now \in Time,
         TimesSound(f, now), now <= pkt.time
  PROVE  TimesSound(addPacket(f, pkt), pkt.time)
<1> DEFINE d == DirectionOf(f.src_ip, pkt)
           u == updateActiveIdleTime(f, pkt.time)
           g == addPacket(f, pkt)
           h == CountPacket(f.half[d], pkt, d)
           idle == pkt.time - f.end_active_time
           active == f.end_active_time - f.start_active_time
<1>1. /\ d \in Direction
      /\ g.half = [f.half EXCEPT ![d] = h]
      /\ g.flow_iat = AddValue(f.flow_iat, Elapsed(pkt.time, f.flow_last_seen))
      /\ g.flow_start_time = f.flow_start_time
      /\ g.flow_last_seen = pkt.time
      /\ g.flow_active = u.flow_active /\ g.flow_idle = u.flow_idle
      /\ g.start_active_time = u.start_active_time
      /\ g.end_active_time = pkt.time
  BY addPacketFields
<1>2. /\ f.half \in [Direction -> HalfType]
      /\ \A e \in Direction : /\ f.half[e].packets \in Nat
                              /\ f.half[e].iat \in StatsType
                              /\ f.half[e].last_seen \in Nat
      /\ f.flow_iat \in StatsType /\ f.flow_active \in StatsType /\ f.flow_idle \in StatsType
      /\ f.flow_start_time \in Nat /\ f.flow_last_seen \in Nat
      /\ f.start_active_time \in Nat /\ f.end_active_time \in Nat
  BY TimeAssumption DEF FlowType, HalfType, Time
<1>3. pkt.time \in Nat /\ now \in Nat /\ ActivityTimeout \in Nat
  BY TimeAssumption, ActivityTimeoutAssumption DEF PacketType, Time, UInt64
<1>4. f.flow_last_seen <= pkt.time /\ f.flow_start_time <= pkt.time
  BY <1>2, <1>3 DEF TimesSound
<1>5. packetCount(g) = packetCount(f) + 1 /\ packetCount(f) \in Nat
  BY <1>2, addPacketCounts DEF packetCount, Direction
<1>6. Elapsed(pkt.time, f.flow_last_seen) = pkt.time - f.flow_last_seen
  BY <1>2, <1>3, <1>4 DEF Elapsed
<1>7. /\ g.flow_iat.n = packetCount(g) - 1
      /\ g.flow_iat.sum = pkt.time - f.flow_start_time
  <2>1. /\ g.flow_iat.n = f.flow_iat.n + 1
        /\ g.flow_iat.sum = f.flow_iat.sum + (pkt.time - f.flow_last_seen)
    BY <1>1, <1>6 DEF AddValue
  <2> QED
    BY <1>2, <1>3, <1>5, <2>1 DEF TimesSound
<1>8. /\ h.packets = f.half[d].packets + 1
      /\ h.last_seen = pkt.time
      /\ h.iat.n = f.half[d].packets
      /\ f.flow_start_time + h.iat.sum <= pkt.time
  <2>1. CASE f.half[d].packets > 0
    <3>1. f.half[d].last_seen <= pkt.time
      BY <1>1, <1>2, <1>3, <1>4, <2>1 DEF TimesSound
    <3>2. Elapsed(pkt.time, f.half[d].last_seen) = pkt.time - f.half[d].last_seen
      BY <1>1, <1>2, <1>3, <3>1 DEF Elapsed
    <3>3. /\ h.iat.n = f.half[d].iat.n + 1
          /\ h.iat.sum = f.half[d].iat.sum + (pkt.time - f.half[d].last_seen)
      BY <2>1, <3>2 DEF CountPacket, AddValue
    <3>4. /\ f.half[d].iat.n = f.half[d].packets - 1
          /\ f.flow_start_time + f.half[d].iat.sum <= f.half[d].last_seen
          /\ f.half[d].iat.sum \in Nat
      BY <1>1, <1>2, <2>1 DEF TimesSound, StatsType
    <3>5. h.packets = f.half[d].packets + 1 /\ h.last_seen = pkt.time
      BY DEF CountPacket
    <3> HIDE DEF h, d
    <3> QED
      BY <1>1, <1>2, <1>3, <3>3, <3>4, <3>5
  <2>2. CASE f.half[d].packets = 0
    <3>1. f.half[d].iat.n = 0 /\ f.half[d].iat.sum = 0
      BY <1>1, <2>2 DEF TimesSound
    <3>2. h.packets = f.half[d].packets + 1 /\ h.last_seen = pkt.time /\ h.iat = f.half[d].iat
      BY <2>2 DEF CountPacket
    <3> HIDE DEF h, d
    <3> QED
      BY <1>2, <1>3, <1>4, <2>2, <3>1, <3>2
  <2> QED
    BY <1>1, <1>2, <2>1, <2>2
<1>9. /\ g.start_active_time <= pkt.time
      /\ g.flow_active.sum + g.flow_idle.sum + (pkt.time - g.start_active_time)
           = pkt.time - f.flow_start_time
      /\ g.flow_idle.n > 0 => g.flow_idle.min > ActivityTimeout
  <2>1. /\ f.end_active_time = f.flow_last_seen
        /\ f.start_active_time <= f.end_active_time
        /\ f.flow_active.sum + f.flow_idle.sum + active
             = f.flow_last_seen - f.flow_start_time
        /\ f.flow_idle.n > 0 => f.flow_idle.min > ActivityTimeout
    BY DEF TimesSound
  <2>2. /\ Elapsed(pkt.time, f.end_active_time) = idle
        /\ Elapsed(f.end_active_time, f.start_active_time) = active
    BY <1>2, <1>3, <1>4, <2>1 DEF Elapsed
  <2>3. CASE idle > ActivityTimeout
    <3>1. /\ u.flow_active = IF active > 0 THEN AddValue(f.flow_active, active)
                                           ELSE f.flow_active
          /\ u.flow_idle = AddValue(f.flow_idle, idle)
          /\ u.start_active_time = pkt.time
      BY <2>2, <2>3 DEF updateActiveIdleTime, FlowType
    <3>2. u.flow_active.sum = f.flow_active.sum + active
      <4>1. active \in Nat /\ f.flow_active.sum \in Nat
        BY <1>2, <2>1 DEF StatsType
      <4>2. AddValue(f.flow_active, active).sum = f.flow_active.sum + active
        BY DEF AddValue
      <4> HIDE DEF active
      <4> QED
        BY <3>1, <4>1, <4>2
    <3>3. u.flow_idle.sum = f.flow_idle.sum + idle
      BY <3>1 DEF AddValue
    <3>4. u.flow_idle.min > ActivityTimeout
      <4>1. u.flow_idle.min = IF f.flow_idle.n = 0 \/ idle < f.flow_idle.min
                              THEN idle ELSE f.flow_idle.min
        BY <3>1 DEF AddValue
      <4>2. f.flow_idle.n \in Nat
        BY <1>2 DEF StatsType
      <4> QED
        BY <2>1, <2>3, <4>1, <4>2
    <3>5. f.flow_active.sum \in Nat /\ f.flow_idle.sum \in Nat
      BY <1>2 DEF StatsType
    <3> HIDE DEF u
    <3> QED
      BY <1>1, <1>2, <1>3, <2>1, <3>1, <3>2, <3>3, <3>4, <3>5
  <2>4. CASE ~ idle > ActivityTimeout
    <3>1. /\ u.flow_active = f.flow_active /\ u.flow_idle = f.flow_idle
          /\ u.start_active_time = f.start_active_time
      BY <2>2, <2>4 DEF updateActiveIdleTime, FlowType
    <3>2. f.flow_active.sum \in Nat /\ f.flow_idle.sum \in Nat
      BY <1>2 DEF StatsType
    <3> HIDE DEF u
    <3> QED
      BY <1>1, <1>2, <1>3, <1>4, <2>1, <3>1, <3>2
  <2> QED
    BY <2>3, <2>4
<1> HIDE DEF d, u, g, h, idle, active
<1>10. ASSUME NEW e \in Direction
       PROVE  /\ g.half[e].packets = 0 => g.half[e].iat.n = 0 /\ g.half[e].iat.sum = 0
              /\ g.half[e].packets > 0 =>
                   /\ g.half[e].iat.n = g.half[e].packets - 1
                   /\ g.flow_start_time + g.half[e].iat.sum <= g.half[e].last_seen
                   /\ g.half[e].last_seen <= pkt.time
  <2>1. CASE e = d
    <3>1. g.half[e] = h
      BY <1>1, <1>2, <2>1
    <3> QED
      BY <1>1, <1>2, <1>3, <1>8, <2>1, <3>1
  <2>2. CASE e # d
    <3>1. g.half[e] = f.half[e]
      BY <1>1, <1>2, <2>2
    <3> QED
      BY <1>1, <1>2, <1>3, <1>4, <3>1 DEF TimesSound
  <2> QED
    BY <2>1, <2>2
<1> QED
  BY <1>1, <1>3, <1>4, <1>7, <1>9, <1>10 DEF TimesSound, g

-----------------------------------------------------------------------------
(* The statistics of a flow *)

\* The mean of an accumulator lies between its extremes, its maximum is one
\* of the values in its sum, and an unused one is all zeros.
StatsSound(s) ==
  /\ s.n = 0 => s.sum = 0 /\ s.min = 0 /\ s.max = 0
  /\ s.n * s.min <= s.sum /\ s.sum <= s.n * s.max
  /\ s.max <= s.sum

\* So it is with every accumulator of f, and no flag is counted twice for a
\* packet.
StatisticsSound(f) ==
  /\ packetCount(f) > 0
  /\ \A x \in Flag : f.flag_count[x] <= packetCount(f)
  /\ StatsSound(f.flow_length_stats) /\ StatsSound(f.flow_iat)
  /\ StatsSound(f.flow_active) /\ StatsSound(f.flow_idle)
  /\ \A d \in Direction : StatsSound(f.half[d].pkt_stats) /\ StatsSound(f.half[d].iat)

LEMMA ScaledOrder ==
  ASSUME NEW k \in Nat, NEW x \in Nat, NEW y \in Nat, x <= y
  PROVE  k * x <= k * y
OBVIOUS

LEMMA OneMore ==
  ASSUME NEW k \in Int, NEW x \in Int
  PROVE  (k + 1) * x = k * x + x
OBVIOUS

LEMMA AddValueSound ==
  ASSUME NEW s \in StatsType, StatsSound(s), NEW v \in Nat
  PROVE  StatsSound(AddValue(s, v))
<1> DEFINE g == AddValue(s, v)
<1>1. /\ s.n \in Nat /\ s.sum \in Nat /\ s.min \in Nat /\ s.max \in Nat
      /\ g.n = s.n + 1 /\ g.sum = s.sum + v
      /\ g.min = IF s.n = 0 \/ v < s.min THEN v ELSE s.min
      /\ g.max = IF s.n = 0 \/ v > s.max THEN v ELSE s.max
  BY DEF AddValue, StatsType
<1>2. /\ s.n = 0 => s.sum = 0 /\ s.min = 0 /\ s.max = 0
      /\ s.n * s.min <= s.sum /\ s.sum <= s.n * s.max
      /\ s.max <= s.sum
  BY DEF StatsSound
<1> HIDE DEF g
<1>3. g.min \in Nat /\ g.max \in Nat /\ g.min <= v /\ v <= g.max
  BY <1>1
<1>4. s.n * g.min <= s.sum /\ s.sum <= s.n * g.max
  <2>1. CASE s.n = 0
    BY <1>1, <1>2, <1>3, <2>1
  <2>2. CASE s.n # 0
    <3>1. g.min <= s.min /\ s.max <= g.max
      BY <1>1, <2>2
    <3>2. s.n * g.min <= s.n * s.min /\ s.n * s.max <= s.n * g.max
      BY <1>1, <1>3, <3>1, ScaledOrder
    <3>3. /\ s.n * g.min \in Nat /\ s.n * s.min \in Nat
          /\ s.n * s.max \in Nat /\ s.n * g.max \in Nat
      BY <1>1, <1>3
    <3> QED
      BY <1>1, <1>2, <3>2, <3>3
  <2> QED
    BY <2>1, <2>2
<1>5. (s.n + 1) * g.min = s.n * g.min + g.min /\ (s.n + 1) * g.max = s.n * g.max + g.max
  <2>1. s.n \in Int /\ g.min \in Int /\ g.max \in Int
    BY <1>1, <1>3
  <2> QED
    BY <2>1, OneMore, Zenon
<1>6. s.n * g.min \in Nat /\ s.n * g.max \in Nat
  BY <1>1, <1>3
<1>7. g.n * g.min <= g.sum /\ g.sum <= g.n * g.max
  BY <1>1, <1>3, <1>4, <1>5, <1>6
<1>8. g.max <= g.sum /\ g.n # 0
  BY <1>1, <1>2
<1> QED
  BY <1>7, <1>8 DEF StatsSound, g

LEMMA EmptyStatsSound == StatsSound(EmptyStats)
BY DEF StatsSound, EmptyStats

LEMMA SplitFlowStatistics ==
  ASSUME NEW pkt \in PacketType, NEW tuple \in FlowKey, NEW id
  PROVE  StatisticsSound([SplitFlow(pkt, tuple) EXCEPT !.flow_id = id])
<1> DEFINE d == DirectionOf(tuple.src_ip, pkt)
           g == [SplitFlow(pkt, tuple) EXCEPT !.flow_id = id]
<1>1. /\ d \in Direction
      /\ g.half = [e \in Direction |-> IF e = d THEN FirstPacket(pkt) ELSE NoPackets]
      /\ g.flag_count = checkFlags([x \in Flag |-> 0], pkt)
      /\ g.flow_length_stats = AddValue(EmptyStats, pkt.payload_bytes)
      /\ g.flow_iat = EmptyStats
      /\ g.flow_active = EmptyStats /\ g.flow_idle = EmptyStats
  BY SplitFlowFields
<1>2. packetCount(g) = 1
  <2>1. packetCount(SplitFlow(pkt, tuple)) = 1
    BY SplitFlowCounts
  <2>2. g.half = SplitFlow(pkt, tuple).half
    BY DEF SplitFlow
  <2> QED
    BY <2>1, <2>2 DEF packetCount
<1>3. StatsSound(AddValue(EmptyStats, pkt.payload_bytes))
  BY AddValueSound, EmptyStatsSound, EmptyStatsType DEF PacketType
<1> HIDE DEF d, g
<1>4. \A x \in Flag : g.flag_count[x] <= 1
  BY <1>1 DEF checkFlags
<1>5. \A e \in Direction : StatsSound(g.half[e].pkt_stats) /\ StatsSound(g.half[e].iat)
  <2>1. /\ FirstPacket(pkt).pkt_stats = AddValue(EmptyStats, pkt.payload_bytes)
        /\ FirstPacket(pkt).iat = EmptyStats
        /\ NoPackets.pkt_stats = EmptyStats /\ NoPackets.iat = EmptyStats
    BY DEF FirstPacket, NoPackets
  <2> QED
    BY <1>1, <1>3, <2>1, EmptyStatsSound
<1> QED
  BY <1>1, <1>2, <1>3, <1>4, <1>5, EmptyStatsSound DEF StatisticsSound, g

LEMMA addPacketStatistics ==
  ASSUME NEW f \in FlowType, NEW pkt \in PacketType, StatisticsSound(f)
  PROVE  StatisticsSound(addPacket(f, pkt))
<1> DEFINE d == DirectionOf(f.src_ip, pkt)
           u == updateActiveIdleTime(f, pkt.time)
           g == addPacket(f, pkt)
           h == CountPacket(f.half[d], pkt, d)
<1>1. /\ d \in Direction
      /\ g.half = [f.half EXCEPT ![d] = h]
      /\ g.flag_count = checkFlags(f.flag_count, pkt)
      /\ g.flow_length_stats = AddValue(f.flow_length_stats, pkt.payload_bytes)
      /\ g.flow_iat = AddValue(f.flow_iat, Elapsed(pkt.time, f.flow_last_seen))
      /\ g.flow_active = u.flow_active /\ g.flow_idle = u.flow_idle
  BY addPacketFields
<1>2. packetCount(g) = packetCount(f) + 1 /\ packetCount(f) \in Nat
  BY addPacketCounts DEF packetCount, FlowType, HalfType, Direction
<1>3. /\ f.half \in [Direction -> HalfType]
      /\ \A e \in Direction : /\ f.half[e].pkt_stats \in StatsType
                              /\ f.half[e].iat \in StatsType
                              /\ f.half[e].last_seen \in Time
      /\ f.flow_length_stats \in StatsType /\ f.flow_iat \in StatsType
      /\ f.flow_active \in StatsType /\ f.flow_idle \in StatsType
      /\ f.flag_count \in [Flag -> Nat]
      /\ f.flow_last_seen \in Time
      /\ f.start_active_time \in Time /\ f.end_active_time \in Time
  BY DEF FlowType, HalfType
<1>4. pkt.time \in Time /\ pkt.payload_bytes \in Nat
  BY DEF PacketType
<1>5. /\ \A x \in Flag : f.flag_count[x] <= packetCount(f)
      /\ StatsSound(f.flow_length_stats) /\ StatsSound(f.flow_iat)
      /\ StatsSound(f.flow_active) /\ StatsSound(f.flow_idle)
      /\ \A e \in Direction : StatsSound(f.half[e].pkt_stats) /\ StatsSound(f.half[e].iat)
  BY DEF StatisticsSound
<1>6. StatsSound(g.flow_length_stats) /\ StatsSound(g.flow_iat)
  BY <1>1, <1>3, <1>4, <1>5, AddValueSound, ElapsedType
<1>7. StatsSound(h.pkt_stats) /\ StatsSound(h.iat)
  <2>1. /\ h.pkt_stats = AddValue(f.half[d].pkt_stats, pkt.payload_bytes)
        /\ \/ h.iat = AddValue(f.half[d].iat, Elapsed(pkt.time, f.half[d].last_seen))
           \/ h.iat = f.half[d].iat
    BY DEF CountPacket
  <2> HIDE DEF h, d
  <2> QED
    BY <1>1, <1>3, <1>4, <1>5, <2>1, AddValueSound, ElapsedType
<1>8. StatsSound(g.flow_active) /\ StatsSound(g.flow_idle)
  <2> DEFINE active == Elapsed(f.end_active_time, f.start_active_time)
             gap == Elapsed(pkt.time, f.end_active_time)
  <2>1. /\ u.flow_active = f.flow_active \/ u.flow_active = AddValue(f.flow_active, active)
        /\ u.flow_idle = f.flow_idle \/ u.flow_idle = AddValue(f.flow_idle, gap)
    BY DEF updateActiveIdleTime, FlowType
  <2>2. active \in Nat /\ gap \in Nat
    BY <1>3, <1>4, ElapsedType
  <2> HIDE DEF active, gap, u
  <2> QED
    BY <1>1, <1>3, <1>5, <2>1, <2>2, AddValueSound
<1> HIDE DEF d, g, h, u
<1>9. \A e \in Direction : StatsSound(g.half[e].pkt_stats) /\ StatsSound(g.half[e].iat)
  <2>1. \A e \in Direction : g.half[e] = IF e = d THEN h ELSE f.half[e]
    BY <1>1, <1>3
  <2> QED
    BY <1>5, <1>7, <2>1
<1>10. \A x \in Flag : g.flag_count[x] <= packetCount(f) + 1
  BY <1>1, <1>2, <1>3, <1>5 DEF checkFlags
<1>11. packetCount(g) > 0
  BY <1>2
<1> QED
  BY <1>2, <1>6, <1>8, <1>9, <1>10, <1>11 DEF StatisticsSound, g

-----------------------------------------------------------------------------
(* The flows of the table and the reported ones *)

Sound(f, now) ==
  /\ HalvesSound(f)
  /\ FinishSound(f)
  /\ StatisticsSound(f)
  /\ Ordered => TimesSound(f, now)

\* The flows of the table and of the rows.
Stored == {current_flows[k].flow : k \in Keys} \cup {rows[i] : i \in DOMAIN rows}

AllSound == \A f \in Stored : Sound(f, capture_time)

LEMMA StoredType ==
  ASSUME Consistent
  PROVE  /\ Stored \subseteq FlowType
         /\ AllFlows \subseteq Stored
<1>1. /\ current_flows \in [Keys -> EntryType] /\ pending \subseteq Keys
      /\ rows \in Seq(FlowType)
  BY DEF Consistent, TypeOK
<1>2. \A k \in Keys : current_flows[k].flow \in FlowType
  BY <1>1 DEF EntryType
<1>3. \A i \in DOMAIN rows : rows[i] \in FlowType
  BY <1>1
<1> QED
  BY <1>1, <1>2, <1>3 DEF Stored, AllFlows, LiveFlows, LiveKeys, RowFlows

LEMMA SplitFlowSound ==
  ASSUME NEW pkt \in PacketType, NEW tuple \in FlowKey, NEW id
  PROVE  Sound([SplitFlow(pkt, tuple) EXCEPT !.flow_id = id], pkt.time)
<1>1. FinishSound([SplitFlow(pkt, tuple) EXCEPT !.flow_id = id])
  BY SplitFlowFinish
<1> QED
  BY <1>1, SplitFlowHalves, SplitFlowStatistics, SplitFlowTimes DEF Sound

LEMMA NewFlowSound ==
  ASSUME NEW pkt \in PacketType
  PROVE  Sound(NewFlow(pkt), pkt.time)
<1>1. fwdFlowId(pkt) \in FlowKey
  BY DEF fwdFlowId, FlowKey, PacketType
<1>2. NewFlow(pkt) = [SplitFlow(pkt, fwdFlowId(pkt)) EXCEPT !.flow_id = fwdFlowId(pkt)]
  BY DEF NewFlow, SplitFlow
<1> QED
  BY <1>1, <1>2, SplitFlowSound

LEMMA addPacketSound ==
  ASSUME NEW f \in FlowType, NEW pkt \in PacketType, NEW now \in Time,
         Sound(f, now), Ordered => now <= pkt.time
  PROVE  Sound(addPacket(f, pkt), pkt.time)
BY addPacketHalves, addPacketFinish, addPacketStatistics, addPacketTimes DEF Sound

\* The soundness of a flow that is left alone outlasts later packets.
LEMMA SoundLater ==
  ASSUME NEW f \in FlowType, NEW now \in Time, NEW later \in Time,
         Sound(f, now), Ordered => now <= later
  PROVE  Sound(f, later)
<1>1. now \in Nat /\ later \in Nat /\ f.flow_last_seen \in Nat
  BY TimeAssumption DEF FlowType, Time
<1> QED
  BY <1>1 DEF Sound, TimesSound

\* The rows after a report are the rows before it and perhaps the new one.
LEMMA ReportedRows ==
  ASSUME TypeOK, NEW flow \in FlowType, handleFinishedFlow(flow)
  PROVE  \A i \in DOMAIN rows' : rows'[i] = flow \/ \E j \in DOMAIN rows : rows'[i] = rows[j]
<1>1. rows \in Seq(FlowType)
  BY DEF TypeOK
<1>2. CASE flow_callback
  <2>1. rows' = Append(rows, flow)
    BY <1>2 DEF handleFinishedFlow
  <2> QED
    BY <1>1, <2>1
<1>3. CASE ~ flow_callback
  BY <1>3 DEF handleFinishedFlow
<1> QED
  BY <1>2, <1>3

\* Every flow that a packet leaves behind was there before, is a new one, or
\* is what the packet made of the flow it matched.
LEMMA PacketOrigins ==
  ASSUME Consistent, NEW pkt \in Packets, AddPacket(pkt), NEW g \in Stored'
  PROVE  \/ g \in Stored
         \/ g = NewFlow(pkt)
         \/ /\ MatchedKey(pkt) \in Keys
            /\ g = Replacement(pkt) \/ g = addPacket(MatchedFlow(pkt), pkt)
<1> PICK k : k = MatchedKey(pkt)
  OBVIOUS
<1> PICK old : old = MatchedFlow(pkt)
  OBVIOUS
<1>1. \A j \in Keys : current_flows[j].flow \in Stored
  BY DEF Stored
<1>2. \A i \in DOMAIN rows : rows[i] \in Stored
  BY DEF Stored
<1>3. k \in Keys => old \in Stored
  BY <1>1 DEF MatchedFlow
<1>4. \/ \E j \in Keys' : g = current_flows'[j].flow
      \/ \E i \in DOMAIN rows' : g = rows'[i]
  BY DEF Stored
<1>5. TypeOK
  BY DEF Consistent
<1>6. CASE StartFlow(pkt)
  <2>1. rows' = rows
    BY <1>6 DEF StartFlow, output
  <2> QED
    BY <1>1, <1>2, <1>4, <1>6, <2>1, StartFacts
<1>7. CASE SplitOnTimeout(pkt)
  <2>1. /\ k \in Keys /\ Keys' = Keys
        /\ current_flows'[k].flow = Replacement(pkt)
        /\ \A j \in Keys \ {k} : current_flows'[j] = current_flows[j]
        /\ old \in FlowType /\ handleFinishedFlow(old)
    BY <1>7, SplitFacts DEF BelongsTo
  <2>2. \A i \in DOMAIN rows' : rows'[i] \in Stored
    BY <1>2, <1>3, <1>5, <2>1, ReportedRows
  <2> QED
    BY <1>1, <1>4, <2>1, <2>2
<1>8. CASE ContinueFlow(pkt)
  <2>1. rows' = rows
    BY <1>8 DEF ContinueFlow, output
  <2> QED
    BY <1>1, <1>2, <1>4, <1>8, <2>1, ContinueFacts
<1>9. CASE FinishFlow(pkt)
  <2>1. /\ k \in Keys /\ Keys' = Keys \ {k}
        /\ \A j \in Keys \ {k} : current_flows'[j] = current_flows[j]
        /\ addPacket(old, pkt) \in FlowType /\ handleFinishedFlow(addPacket(old, pkt))
    BY <1>9, FinishFacts DEF BelongsTo
  <2>2. \A i \in DOMAIN rows' : rows'[i] = addPacket(old, pkt) \/ rows'[i] \in Stored
    BY <1>2, <1>5, <2>1, ReportedRows
  <2> QED
    BY <1>1, <1>4, <2>1, <2>2
<1> QED
  BY <1>6, <1>7, <1>8, <1>9 DEF AddPacket

\* The other steps make no flow and change none.
LEMMA OtherOrigins ==
  ASSUME Consistent, [Next]_vars, ~ \E pkt \in Packets : AddPacket(pkt)
  PROVE  Stored' \subseteq Stored /\ capture_time' = capture_time
<1>1. TypeOK
  BY DEF Consistent
<1>2. CASE \E k \in pending : FinishOne(k)
  <2>1. PICK k \in pending : FinishOne(k)
    BY <1>2
  <2> PICK flow : flow = current_flows[k].flow
    OBVIOUS
  <2>2. current_flows' = current_flows /\ Keys' = Keys /\ capture_time' = capture_time
    BY <2>1 DEF FinishOne, table, capture, Keys
  <2>3. flow \in FlowType /\ handleFinishedFlow(flow) /\ k \in Keys
    BY <2>1, FinishOneFacts DEF BelongsTo
  <2>4. \A i \in DOMAIN rows' : rows'[i] = flow \/ \E j \in DOMAIN rows : rows'[i] = rows[j]
    BY <1>1, <2>3, ReportedRows
  <2> QED
    BY <2>2, <2>3, <2>4 DEF Stored
<1>3. CASE ~ \E k \in pending : FinishOne(k)
  <2>1. /\ rows' = rows /\ capture_time' = capture_time
        /\ current_flows' = current_flows \/ current_flows' = << >>
    BY <1>3 DEF Next, SetStoreFinishedFlows, SetFlowCallback, ReadFails,
                BeginFinishAllFlows, ClearFlows, Terminated, vars, table, output, capture
  <2> QED
    BY <2>1 DEF Stored, Keys
<1> QED
  BY <1>2, <1>3

\* All flows, in the table and in the rows, are sound.
LEMMA SoundAlways == Spec => []AllSound
<1>1. Init => AllSound
  BY DEF Init, AllSound, Stored, Keys
<1>2. Consistent /\ AllSound /\ [Next]_vars => AllSound'
  <2> SUFFICES ASSUME Consistent, AllSound, [Next]_vars, NEW g \in Stored'
               PROVE  Sound(g, capture_time')
    BY DEF AllSound
  <2>1. Stored \subseteq FlowType /\ capture_time \in Time
    BY StoredType DEF Consistent, TypeOK
  <2>2. CASE \E pkt \in Packets : AddPacket(pkt)
    <3>1. PICK pkt \in Packets : AddPacket(pkt)
      BY <2>2
    <3>2. Arrives(pkt) /\ pkt \in PacketType
      BY <3>1, FlowGeneratorAssumption
      DEF AddPacket, StartFlow, SplitOnTimeout, ContinueFlow, FinishFlow
    <3>3. /\ capture_time' = pkt.time /\ pkt.time \in Time
          /\ Ordered => capture_time <= pkt.time
      BY <2>1, <3>2, TimeAssumption DEF Arrives, PacketType, Time
    <3>4. CASE g \in Stored
      BY <2>1, <3>3, <3>4, SoundLater DEF AllSound
    <3>5. CASE g = NewFlow(pkt)
      BY <3>2, <3>3, <3>5, NewFlowSound
    <3>6. CASE MatchedKey(pkt) \in Keys
      <4>1. MatchedFlow(pkt) \in Stored
        BY <3>6 DEF MatchedFlow, Stored
      <4>2. FlowTuple(MatchedFlow(pkt)) \in FlowKey
        BY <2>1, <4>1 DEF FlowTuple, FlowType, FlowKey
      <4>3. Sound(Replacement(pkt), pkt.time)
        BY <3>2, <4>2, SplitFlowSound DEF Replacement
      <4>4. Sound(addPacket(MatchedFlow(pkt), pkt), pkt.time)
        BY <2>1, <3>2, <3>3, <4>1, addPacketSound DEF AllSound
      <4> QED
        BY <3>1, <3>3, <3>4, <3>5, <4>3, <4>4, PacketOrigins
    <3> QED
      BY <3>1, <3>4, <3>5, <3>6, PacketOrigins
  <2>3. CASE ~ \E pkt \in Packets : AddPacket(pkt)
    BY <2>3, OtherOrigins DEF AllSound
  <2> QED
    BY <2>2, <2>3
<1> QED
  BY <1>1, <1>2, FlowGeneratorConsistent, PTL DEF Spec

\* BasicFlow::addPacket counts each packet in exactly one half and in the
\* totals of its flow.
THEOREM TotalsAddUp == Spec => []HalvesAddUp
<1>1. Consistent /\ AllSound => HalvesAddUp
  BY StoredType DEF AllSound, Sound, HalvesSound, HalvesAddUp
<1> QED
  BY <1>1, SoundAlways, FlowGeneratorConsistent, PTL

\* BasicFlow::addPacket finishes a flow on RST or on the second direction's
\* FIN, and on nothing else.
THEOREM FinishedOnlyByFlags == Spec => []FinishedByRstOrBothFins
<1>1. Consistent /\ AllSound => FinishedByRstOrBothFins
  BY StoredType DEF AllSound, Sound, FinishSound, FinishedByRstOrBothFins
<1> QED
  BY <1>1, SoundAlways, FlowGeneratorConsistent, PTL

\* The inter-arrival times of a flow and of its halves cover its time line.
THEOREM GapsTelescope == Spec => []InterArrivalsTelescope
<1>1. Consistent /\ AllSound => InterArrivalsTelescope
  <2> SUFFICES ASSUME Consistent, AllSound, Ordered, NEW f \in AllFlows
               PROVE  /\ f.flow_iat.n = packetCount(f) - 1
                      /\ f.flow_iat.sum = getDuration(f)
                      /\ \A d \in Direction :
                           LET h == f.half[d] IN
                           /\ h.iat.n = IF h.packets = 0 THEN 0 ELSE h.packets - 1
                           /\ h.packets > 0 => f.flow_start_time + h.iat.sum <= h.last_seen
    BY DEF InterArrivalsTelescope
  <2>1. f \in FlowType /\ TimesSound(f, capture_time)
    BY StoredType DEF AllSound, Sound
  <2>2. f.flow_last_seen \in Nat /\ f.flow_start_time \in Nat
    BY <2>1, TimeAssumption DEF FlowType, Time
  <2>3. getDuration(f) = f.flow_last_seen - f.flow_start_time
    BY <2>1, <2>2 DEF TimesSound, getDuration, Elapsed
  <2>4. \A d \in Direction : f.half[d].packets \in Nat
    BY <2>1 DEF FlowType, HalfType
  <2> QED
    BY <2>1, <2>3, <2>4 DEF TimesSound
<1> QED
  BY <1>1, SoundAlways, FlowGeneratorConsistent, PTL

\* updateActiveIdleTime assigns every part of a flow's duration to an active
\* or an idle period, once.
THEOREM PeriodsPartition == Spec => []ActiveIdlePartition
<1>1. Consistent /\ AllSound => ActiveIdlePartition
  <2> SUFFICES ASSUME Consistent, AllSound, Ordered, NEW f \in AllFlows
               PROVE  /\ f.flow_active.sum + f.flow_idle.sum
                            + (f.end_active_time - f.start_active_time) = getDuration(f)
                      /\ f.flow_idle.n > 0 => f.flow_idle.min > ActivityTimeout
    BY DEF ActiveIdlePartition
  <2>1. f \in FlowType /\ TimesSound(f, capture_time)
    BY StoredType DEF AllSound, Sound
  <2>2. f.flow_last_seen \in Nat /\ f.flow_start_time \in Nat
    BY <2>1, TimeAssumption DEF FlowType, Time
  <2>3. getDuration(f) = f.flow_last_seen - f.flow_start_time
    BY <2>1, <2>2 DEF TimesSound, getDuration, Elapsed
  <2> QED
    BY <2>1, <2>3 DEF TimesSound
<1> QED
  BY <1>1, SoundAlways, FlowGeneratorConsistent, PTL

-----------------------------------------------------------------------------
(* Finished flows that stay in the table *)

\* The first packet of a flow never finishes it through addPacket, so a flow
\* that is finished in the table has been finished by a constructor.
THEOREM LingeringFlows == Spec => []LingeringIsFirstRst
<1> DEFINE L == LingeringIsFirstRst
           First(f) == f.finished => packetCount(f) = 1 /\ f.flag_count["RST"] = 1
<1>1. Init => L
  BY DEF Init, LingeringIsFirstRst
<1>2. ASSUME NEW pkt \in PacketType, NEW tuple \in FlowKey, NEW id
      PROVE  First([SplitFlow(pkt, tuple) EXCEPT !.flow_id = id])
  <2> DEFINE g == [SplitFlow(pkt, tuple) EXCEPT !.flow_id = id]
  <2>1. g.finished => g.flag_count["RST"] = 1
    BY SplitFlowFinish
  <2>2. g.half = SplitFlow(pkt, tuple).half
    BY DEF SplitFlow
  <2>3. packetCount(g) = 1
    BY <2>2, SplitFlowCounts DEF packetCount
  <2> HIDE DEF g
  <2>4. First(g)
    BY <2>1, <2>3
  <2> QED
    BY <2>4 DEF g
<1>3. Consistent /\ L /\ [Next]_vars => L'
  <2> SUFFICES ASSUME Consistent, L, [Next]_vars, phase' = "capturing", NEW j \in LiveKeys'
               PROVE  First(current_flows'[j].flow)
    BY DEF LingeringIsFirstRst, LiveFlows
  <2>1. CASE \E pkt \in Packets : AddPacket(pkt)
    <3>1. PICK pkt \in Packets : AddPacket(pkt)
      BY <2>1
    <3>2. /\ pkt \in PacketType /\ phase = "capturing"
          /\ LiveKeys = Keys /\ LiveKeys' = Keys'
      BY <3>1, LookupFacts
      DEF AddPacket, StartFlow, SplitOnTimeout, ContinueFlow, FinishFlow
    <3>3. \A k \in Keys : First(current_flows[k].flow)
      BY <3>2 DEF LingeringIsFirstRst, LiveFlows
    <3>4. CASE StartFlow(pkt)
      <4>1. fwdFlowId(pkt) \in FlowKey
        BY <3>2 DEF fwdFlowId, FlowKey, PacketType
      <4>2. NewFlow(pkt) = [SplitFlow(pkt, fwdFlowId(pkt)) EXCEPT !.flow_id = fwdFlowId(pkt)]
        BY DEF NewFlow, SplitFlow
      <4>3. First(NewFlow(pkt))
        BY <1>2, <3>2, <4>1, <4>2
      <4> HIDE DEF First
      <4> QED
        BY <3>2, <3>3, <3>4, <4>3, StartFacts
    <3>5. CASE SplitOnTimeout(pkt)
      <4>1. FlowTuple(MatchedFlow(pkt)) \in FlowKey
        BY <3>5, SplitFacts DEF BelongsTo, FlowTuple, FlowType, FlowKey
      <4>2. First(Replacement(pkt))
        BY <1>2, <3>2, <4>1 DEF Replacement
      <4> HIDE DEF First
      <4> QED
        BY <3>2, <3>3, <3>5, <4>2, SplitFacts
    <3>6. CASE ContinueFlow(pkt)
      <4>1. First(addPacket(MatchedFlow(pkt), pkt))
        BY <3>6 DEF ContinueFlow
      <4> HIDE DEF First
      <4> QED
        BY <3>2, <3>3, <3>6, <4>1, ContinueFacts
    <3>7. CASE FinishFlow(pkt)
      <4> HIDE DEF First
      <4> QED
        BY <3>2, <3>3, <3>7, FinishFacts
    <3> QED
      BY <3>1, <3>4, <3>5, <3>6, <3>7 DEF AddPacket
  <2>2. CASE \E k \in pending : FinishOne(k)
    BY <2>2, FinishOneFacts
  <2>3. CASE \/ SetStoreFinishedFlows \/ SetFlowCallback \/ ReadFails
             \/ BeginFinishAllFlows \/ ClearFlows \/ Terminated \/ UNCHANGED vars
    <3>1. /\ LiveKeys' = LiveKeys
          /\ \A k \in LiveKeys : current_flows'[k] = current_flows[k]
      BY <2>3, OtherStepsKeepLive
    <3>2. CASE phase = "capturing"
      BY <3>1, <3>2 DEF LingeringIsFirstRst, LiveFlows
    <3>3. CASE phase # "capturing"
      <4>1. SetFlowCallback
        BY <2>3, <3>3 DEF SetStoreFinishedFlows, ReadFails, BeginFinishAllFlows,
                          ClearFlows, Terminated, vars
      <4>2. LiveKeys = {}
        BY <4>1 DEF SetFlowCallback, LiveKeys, Consistent, TableConsistent
      <4> QED
        BY <3>1, <4>2
    <3> QED
      BY <3>2, <3>3
  <2> QED
    BY <2>1, <2>2, <2>3 DEF Next
<1> HIDE DEF L
<1>4. Spec => []L
  BY <1>1, <1>3, FlowGeneratorConsistent, PTL DEF Spec
<1> QED
  BY <1>4, PTL DEF L

-----------------------------------------------------------------------------
(* The rows of a connection *)

InOrder(rs) ==
  \A i, j \in DOMAIN rs :
    i < j /\ rs[i].flow_id = rs[j].flow_id => rs[i].flow_last_seen <= rs[j].flow_start_time

\* The rows rs of the connection of f end before f starts.
After(f, rs) ==
  \A i \in DOMAIN rs : rs[i].flow_id = f.flow_id => rs[i].flow_last_seen <= f.flow_start_time

RowsInOrder ==
  Ordered => InOrder(rows) /\ \A k \in LiveKeys : After(current_flows[k].flow, rows)

LEMMA AppendInOrder ==
  ASSUME NEW rs \in Seq(FlowType), NEW g \in FlowType, InOrder(rs), After(g, rs)
  PROVE  InOrder(Append(rs, g))
BY DEF InOrder, After

LEMMA AppendAfter ==
  ASSUME NEW rs \in Seq(FlowType), NEW g, NEW f, After(f, rs), f.flow_id # g.flow_id
  PROVE  After(f, Append(rs, g))
BY DEF After

\* A flow that starts now starts after all rows.
LEMMA StartsAfter ==
  ASSUME NEW rs \in Seq(FlowType), NEW f, NEW now \in Time, NEW t \in Time,
         \A i \in DOMAIN rs : rs[i].flow_last_seen <= now,
         now <= t, f.flow_start_time = t
  PROVE  After(f, rs)
<1> SUFFICES ASSUME NEW i \in DOMAIN rs PROVE rs[i].flow_last_seen <= f.flow_start_time
  BY DEF After
<1>1. rs[i] \in FlowType
  OBVIOUS
<1>2. rs[i].flow_last_seen \in Nat /\ now \in Nat /\ t \in Nat
  BY <1>1, TimeAssumption DEF FlowType, Time
<1> QED
  BY <1>2

\* A report of the live flow of key k keeps the order, for it and for the
\* flows of other keys.
LEMMA ReportInOrder ==
  ASSUME Consistent, InOrder(rows), flow_callback,
         NEW k, NEW flow, BelongsTo(flow, k), After(flow, rows), handleFinishedFlow(flow)
  PROVE  /\ InOrder(rows')
         /\ \A f : f.flow_id # k /\ After(f, rows) => After(f, rows')
<1>1. rows \in Seq(FlowType) /\ rows' = Append(rows, flow) /\ flow \in FlowType
  BY DEF Consistent, TypeOK, handleFinishedFlow, BelongsTo
<1>2. flow.flow_id = k
  BY DEF BelongsTo
<1> QED
  BY <1>1, <1>2, AppendInOrder, AppendAfter

\* A packet adds a row only for the flow it matches, which is the last of its
\* connection so far.
LEMMA PacketInOrder ==
  ASSUME Consistent, AllSound, RowsInOrder, NEW pkt \in Packets, AddPacket(pkt)
  PROVE  RowsInOrder'
<1> SUFFICES ASSUME Ordered
             PROVE  /\ InOrder(rows')
                    /\ \A j \in LiveKeys' : After(current_flows'[j].flow, rows')
  BY DEF RowsInOrder
<1> PICK k : k = MatchedKey(pkt)
  OBVIOUS
<1> PICK old : old = MatchedFlow(pkt)
  OBVIOUS
<1>1. Arrives(pkt)
  BY DEF AddPacket, StartFlow, SplitOnTimeout, ContinueFlow, FinishFlow
<1>2. /\ pkt \in PacketType /\ LiveKeys = Keys /\ LiveKeys' = Keys' /\ EntriesBelong
  BY <1>1, LookupFacts
<1>3. InOrder(rows) /\ \A j \in Keys : After(current_flows[j].flow, rows)
  BY <1>2 DEF RowsInOrder
<1>4. \A j \in Keys : current_flows[j].flow.flow_id = j
  BY <1>2 DEF EntriesBelong, BelongsTo
<1>5. /\ capture_time \in Time /\ pkt.time \in Time /\ capture_time <= pkt.time
      /\ rows \in Seq(FlowType) /\ flow_callback
  BY <1>1, <1>2, ArrivalFacts, TimeAssumption DEF Arrives, Consistent, TypeOK, PacketType, Time
<1>6. \A f \in Stored : f.flow_last_seen <= capture_time
  BY DEF AllSound, Sound, TimesSound
<1>7. \A i \in DOMAIN rows : rows[i].flow_last_seen <= capture_time
  BY <1>6 DEF Stored
<1>8. k \in Keys => After(old, rows) /\ old.flow_last_seen <= capture_time
  BY <1>3, <1>6 DEF MatchedFlow, Stored
<1>9. CASE StartFlow(pkt)
  <2>1. rows' = rows
    BY <1>9 DEF StartFlow, output
  <2>2. NewFlow(pkt).flow_start_time = pkt.time
    BY DEF NewFlow, SplitFlow
  <2>3. After(NewFlow(pkt), rows)
    BY <1>5, <1>7, <2>2, StartsAfter
  <2> QED
    BY <1>2, <1>3, <1>9, <2>1, <2>3, StartFacts
<1>10. CASE SplitOnTimeout(pkt)
  <2>1. /\ k \in Keys /\ Keys' = Keys
        /\ current_flows'[k].flow = Replacement(pkt)
        /\ \A j \in Keys \ {k} : current_flows'[j] = current_flows[j]
        /\ BelongsTo(old, k) /\ handleFinishedFlow(old)
    BY <1>10, SplitFacts
  <2>2. /\ InOrder(rows')
        /\ \A f : f.flow_id # k /\ After(f, rows) => After(f, rows')
    BY <1>3, <1>5, <1>8, <2>1, ReportInOrder
  <2>3. After(Replacement(pkt), rows')
    <3>1. rows' = Append(rows, old) /\ old \in FlowType
      BY <1>5, <2>1 DEF handleFinishedFlow, BelongsTo
    <3>2. \A i \in DOMAIN rows' : rows'[i].flow_last_seen <= capture_time
      BY <1>5, <1>7, <1>8, <2>1, <3>1
    <3>3. Replacement(pkt).flow_start_time = pkt.time
      BY DEF Replacement, SplitFlow
    <3>4. rows' \in Seq(FlowType)
      BY <1>5, <3>1
    <3> QED
      BY <1>5, <3>2, <3>3, <3>4, StartsAfter
  <2>4. \A j \in Keys \ {k} : After(current_flows[j].flow, rows')
    BY <1>3, <1>4, <2>2
  <2> QED
    BY <1>2, <2>1, <2>2, <2>3, <2>4
<1>11. CASE ContinueFlow(pkt)
  <2>1. rows' = rows
    BY <1>11 DEF ContinueFlow, output
  <2>2. /\ k \in Keys /\ Keys' = Keys
        /\ current_flows'[k].flow = addPacket(old, pkt)
        /\ \A j \in Keys \ {k} : current_flows'[j] = current_flows[j]
        /\ old \in FlowType
    BY <1>11, ContinueFacts DEF BelongsTo
  <2>3. After(addPacket(old, pkt), rows)
    BY <1>2, <1>8, <2>2, addPacketType DEF After
  <2> QED
    BY <1>2, <1>3, <2>1, <2>2, <2>3
<1>12. CASE FinishFlow(pkt)
  <2> PICK new : new = addPacket(old, pkt)
    OBVIOUS
  <2>1. /\ k \in Keys /\ Keys' = Keys \ {k}
        /\ \A j \in Keys \ {k} : current_flows'[j] = current_flows[j]
        /\ old \in FlowType
        /\ BelongsTo(new, k) /\ handleFinishedFlow(new)
    BY <1>12, FinishFacts DEF BelongsTo
  <2>2. After(new, rows)
    BY <1>2, <1>8, <2>1, addPacketType DEF After
  <2>3. /\ InOrder(rows')
        /\ \A f : f.flow_id # k /\ After(f, rows) => After(f, rows')
    BY <1>3, <1>5, <2>1, <2>2, ReportInOrder
  <2>4. \A j \in Keys \ {k} : After(current_flows[j].flow, rows')
    BY <1>3, <1>4, <2>3
  <2> QED
    BY <1>2, <2>1, <2>3, <2>4
<1> QED
  BY <1>9, <1>10, <1>11, <1>12 DEF AddPacket

\* FlowGenerator.cpp:54-130: the rows of a connection appear in the order of
\* its time line and do not overlap.
THEOREM RowsTile == Spec => []SegmentsInOrder
<1>1. Init => RowsInOrder
  BY DEF Init, RowsInOrder, InOrder, LiveKeys, Keys
<1>2. Consistent /\ AllSound /\ RowsInOrder /\ [Next]_vars => RowsInOrder'
  <2> SUFFICES ASSUME Consistent, AllSound, RowsInOrder, [Next]_vars PROVE RowsInOrder'
    OBVIOUS
  <2>1. CASE \E pkt \in Packets : AddPacket(pkt)
    BY <2>1, PacketInOrder
  <2>2. CASE \E k \in pending : FinishOne(k)
    <3>1. PICK k \in pending : FinishOne(k)
      BY <2>2
    <3> PICK flow : flow = current_flows[k].flow
      OBVIOUS
    <3>2. /\ LiveKeys = pending /\ LiveKeys' = pending \ {k}
          /\ current_flows' = current_flows
          /\ BelongsTo(flow, k) /\ handleFinishedFlow(flow)
      BY <3>1, FinishOneFacts
    <3>3. \A j \in pending : current_flows[j].flow.flow_id = j
      BY DEF Consistent, TypeOK, FlowMatchesKey
    <3>4. flow_callback
      BY <3>1 DEF FinishOne, Consistent, TableConsistent
    <3>5. CASE Ordered
      <4>1. InOrder(rows) /\ \A j \in pending : After(current_flows[j].flow, rows)
        BY <3>2, <3>5 DEF RowsInOrder
      <4>2. /\ InOrder(rows')
            /\ \A f : f.flow_id # k /\ After(f, rows) => After(f, rows')
        BY <3>1, <3>2, <3>4, <4>1, ReportInOrder
      <4>3. \A j \in pending \ {k} : After(current_flows[j].flow, rows')
        BY <3>3, <4>1, <4>2
      <4> QED
        BY <3>2, <4>2, <4>3 DEF RowsInOrder
    <3> QED
      BY <3>5 DEF RowsInOrder
  <2>3. CASE \/ SetStoreFinishedFlows \/ SetFlowCallback \/ ReadFails
             \/ BeginFinishAllFlows \/ ClearFlows \/ Terminated \/ UNCHANGED vars
    <3>1. /\ LiveKeys' = LiveKeys /\ rows' = rows
          /\ \A k \in LiveKeys : current_flows'[k] = current_flows[k]
      BY <2>3, OtherStepsKeepLive
    <3> QED
      BY <3>1 DEF RowsInOrder
  <2> QED
    BY <2>1, <2>2, <2>3 DEF Next
<1>3. RowsInOrder => SegmentsInOrder
  <2> SUFFICES ASSUME Ordered, RowsInOrder
               PROVE  /\ \A i, j \in DOMAIN rows :
                           i < j /\ rows[i].flow_id = rows[j].flow_id
                             => rows[i].flow_last_seen <= rows[j].flow_start_time
                      /\ \A f \in LiveFlows, r \in RowFlows :
                           f.flow_id = r.flow_id => r.flow_last_seen <= f.flow_start_time
    BY DEF SegmentsInOrder
  <2> QED
    BY DEF RowsInOrder, InOrder, After, LiveFlows, RowFlows
<1> QED
  BY <1>1, <1>2, <1>3, SoundAlways, FlowGeneratorConsistent, PTL DEF Spec

-----------------------------------------------------------------------------
(* The endpoints of a flow *)

\* What f reports per direction comes from the endpoint on that side; the
\* initial values of a direction without packets are still unset, which is
\* what its first packet leaves them at when it is a forward one.
FromEndpoints(f) ==
  /\ \A d \in Direction :
       f.half[d].packets = 0 => f.half[d].initial_ttl = 0 /\ f.half[d].init_win_bytes = 0
  /\ IF f.src_ip = f.dst_ip THEN f.half["bwd"] = NoPackets
     ELSE \A d \in Direction : HalfByEndpoint(f, d)

\* The key a packet is looked up under is its own or the reverse of it.
LEMMA MatchedKeyOrientation ==
  ASSUME NEW pkt
  PROVE  MatchedKey(pkt) \in {fwdFlowId(pkt), Reverse(fwdFlowId(pkt))}
BY DEF MatchedKey, makeFlowKey

\* Under either, comparing the source addresses finds the side that sent the
\* packet, unless both sides have the same address: then it is forward.
LEMMA SenderFound ==
  ASSUME NEW pkt \in Packets, NEW f \in FlowType,
         FlowTuple(f) \in {fwdFlowId(pkt), Reverse(fwdFlowId(pkt))}
  PROVE  LET d == DirectionOf(f.src_ip, pkt) IN
         /\ d \in Direction
         /\ f.src_ip = f.dst_ip => d = "fwd"
         /\ f.src_ip # f.dst_ip => Trace(pkt) \in SentAs(TupleOf(f, d))
<1> DEFINE d == DirectionOf(f.src_ip, pkt)
           k == FlowTuple(f)
<1>1. pkt \in PacketType /\ fwdFlowId(pkt) \in FlowKey
  BY FlowGeneratorAssumption DEF fwdFlowId, FlowKey, PacketType
<1>2. /\ fwdFlowId(pkt).src_ip = pkt.src_ip /\ fwdFlowId(pkt).dst_ip = pkt.dst_ip
      /\ Reverse(fwdFlowId(pkt)).src_ip = pkt.dst_ip
      /\ Reverse(fwdFlowId(pkt)).dst_ip = pkt.src_ip
      /\ Reverse(Reverse(fwdFlowId(pkt))) = fwdFlowId(pkt)
  BY <1>1, ReverseTwice DEF fwdFlowId, Reverse
<1>3. k.src_ip = f.src_ip /\ k.dst_ip = f.dst_ip
  BY DEF FlowTuple
<1>4. d = IF f.src_ip = pkt.src_ip THEN "fwd" ELSE "bwd"
  BY DEF DirectionOf
<1>5. TupleOf(f, d) = IF d = "fwd" THEN k ELSE Reverse(k)
  BY DEF TupleOf
<1>6. Trace(pkt) \in SentAs(fwdFlowId(pkt))
  BY DEF SentAs, Traces, Trace
<1> HIDE DEF d, k
<1>7. CASE k = fwdFlowId(pkt)
  <2>1. d = "fwd"
    BY <1>2, <1>3, <1>4, <1>7
  <2> QED
    BY <1>5, <1>6, <1>7, <2>1 DEF Direction, d
<1>8. CASE k = Reverse(fwdFlowId(pkt))
  <2>1. f.src_ip = pkt.dst_ip /\ f.dst_ip = pkt.src_ip
    BY <1>2, <1>3, <1>8
  <2>2. CASE f.src_ip = f.dst_ip
    BY <1>4, <2>1, <2>2 DEF Direction, d
  <2>3. CASE f.src_ip # f.dst_ip
    <3>1. d = "bwd"
      BY <1>4, <2>1, <2>3
    <3>2. TupleOf(f, d) = fwdFlowId(pkt)
      BY <1>2, <1>5, <1>8, <3>1
    <3> QED
      BY <1>6, <2>3, <3>1, <3>2 DEF Direction, d
  <2> QED
    BY <2>2, <2>3
<1> QED
  BY <1>7, <1>8 DEF k

LEMMA FirstPacketFromEndpoints ==
  ASSUME NEW pkt \in Packets, NEW f \in FlowType,
         FlowTuple(f) \in {fwdFlowId(pkt), Reverse(fwdFlowId(pkt))},
         f.half = [e \in Direction |-> IF e = DirectionOf(f.src_ip, pkt)
                                       THEN FirstPacket(pkt) ELSE NoPackets]
  PROVE  FromEndpoints(f)
<1> PICK d : d = DirectionOf(f.src_ip, pkt)
  OBVIOUS
<1>1. /\ d \in Direction
      /\ f.src_ip = f.dst_ip => d = "fwd"
      /\ f.src_ip # f.dst_ip => Trace(pkt) \in SentAs(TupleOf(f, d))
  BY SenderFound
<1>2. \A e \in Direction : f.half[e] = IF e = d THEN FirstPacket(pkt) ELSE NoPackets
  OBVIOUS
<1>3. /\ FirstPacket(pkt).pkt_stats.min = pkt.payload_bytes
      /\ FirstPacket(pkt).pkt_stats.max = pkt.payload_bytes
      /\ FirstPacket(pkt).initial_ttl = pkt.ip_ttl
      /\ FirstPacket(pkt).init_win_bytes = pkt.tcp_window
      /\ FirstPacket(pkt).packets = 1
      /\ NoPackets.packets = 0 /\ NoPackets.initial_ttl = 0 /\ NoPackets.init_win_bytes = 0
  BY DEF FirstPacket, NoPackets, AddValue, EmptyStats
<1>6. \A e \in Direction :
        f.half[e].packets = 0 => f.half[e].initial_ttl = 0 /\ f.half[e].init_win_bytes = 0
  BY <1>2, <1>3
<1>7. /\ Trace(pkt).payload_bytes = pkt.payload_bytes
      /\ Trace(pkt).ip_ttl = pkt.ip_ttl /\ Trace(pkt).tcp_window = pkt.tcp_window
  BY DEF Trace
<1>4. CASE f.src_ip = f.dst_ip
  BY <1>1, <1>2, <1>4, <1>6 DEF FromEndpoints, Direction
<1>5. CASE f.src_ip # f.dst_ip
  <2> SUFFICES ASSUME NEW e \in Direction PROVE HalfByEndpoint(f, e)
    BY <1>5, <1>6 DEF FromEndpoints
  <2>1. CASE e = d
    BY <1>1, <1>2, <1>3, <1>5, <1>7, <2>1 DEF HalfByEndpoint
  <2>2. CASE e # d
    <3>1. f.half[e].packets = 0
      BY <1>2, <1>3, <2>2
    <3> QED
      BY <3>1 DEF HalfByEndpoint
  <2> QED
    BY <2>1, <2>2
<1> QED
  BY <1>4, <1>5

\* addPacket counts a packet of the connection on the side that sent it.
LEMMA addPacketFromEndpoints ==
  ASSUME NEW pkt \in Packets, NEW f \in FlowType, FromEndpoints(f),
         FlowTuple(f) \in {fwdFlowId(pkt), Reverse(fwdFlowId(pkt))},
         HalvesSound(f)
  PROVE  FromEndpoints(addPacket(f, pkt))
<1> PICK d : d = DirectionOf(f.src_ip, pkt)
  OBVIOUS
<1> PICK g : g = addPacket(f, pkt)
  OBVIOUS
<1> PICK h : h = CountPacket(f.half[d], pkt, d)
  OBVIOUS
<1>1. /\ d \in Direction
      /\ f.src_ip = f.dst_ip => d = "fwd"
      /\ f.src_ip # f.dst_ip => Trace(pkt) \in SentAs(TupleOf(f, d))
  BY SenderFound
<1>2. pkt \in PacketType
  BY FlowGeneratorAssumption
<1>3. g \in FlowType /\ FlowTuple(g) = FlowTuple(f)
  BY <1>2, addPacketType
<1>4. g.src_ip = f.src_ip /\ g.dst_ip = f.dst_ip /\ \A e : TupleOf(g, e) = TupleOf(f, e)
  BY <1>3 DEF FlowTuple, TupleOf
<1>5. f.half \in [Direction -> HalfType] /\ g.half = [f.half EXCEPT ![d] = h]
  BY <1>2, addPacketFields DEF FlowType
<1>6. \A e \in Direction : g.half[e] = IF e = d THEN h ELSE f.half[e]
  BY <1>1, <1>5
<1>9. \A e \in Direction :
        g.half[e].packets = 0 => g.half[e].initial_ttl = 0 /\ g.half[e].init_win_bytes = 0
  <2>1. f.half[d].packets \in Nat /\ h.packets = f.half[d].packets + 1
    BY <1>1, <1>5 DEF HalfType, CountPacket
  <2> QED
    BY <1>6, <2>1 DEF FromEndpoints
<1>10. /\ Trace(pkt).payload_bytes = pkt.payload_bytes
       /\ Trace(pkt).ip_ttl = pkt.ip_ttl /\ Trace(pkt).tcp_window = pkt.tcp_window
  BY DEF Trace
<1>7. CASE f.src_ip = f.dst_ip
  BY <1>1, <1>4, <1>6, <1>7, <1>9 DEF FromEndpoints, Direction
<1>8. CASE f.src_ip # f.dst_ip
  <2> SUFFICES ASSUME NEW e \in Direction PROVE HalfByEndpoint(g, e)
    BY <1>4, <1>8, <1>9 DEF FromEndpoints
  <2>1. HalfByEndpoint(f, e)
    BY <1>8 DEF FromEndpoints
  <2>2. CASE e # d
    BY <1>4, <1>6, <2>1, <2>2 DEF HalfByEndpoint
  <2>3. CASE e = d
    <3> PICK sent : sent = SentAs(TupleOf(f, e))
      OBVIOUS
    <3>1. Trace(pkt) \in sent
      BY <1>1, <1>8, <2>3
    <3>2. /\ f.half[e].packets \in Nat /\ f.half[e].pkt_stats.n \in Nat
          /\ f.half[e].pkt_stats.n = f.half[e].packets
      BY <1>5 DEF HalfType, HalvesSound
    <3>3. /\ h.pkt_stats.min \in {pkt.payload_bytes, f.half[e].pkt_stats.min}
          /\ h.pkt_stats.max \in {pkt.payload_bytes, f.half[e].pkt_stats.max}
          /\ f.half[e].packets = 0 => /\ h.pkt_stats.min = pkt.payload_bytes
                                      /\ h.pkt_stats.max = pkt.payload_bytes
      BY <2>3, <3>2 DEF CountPacket, AddValue
    <3>4. /\ \E p \in sent : h.pkt_stats.min = p.payload_bytes
          /\ \E p \in sent : h.pkt_stats.max = p.payload_bytes
      BY <1>10, <2>1, <3>1, <3>2, <3>3 DEF HalfByEndpoint
    <3>5. \/ h.initial_ttl = pkt.ip_ttl /\ h.init_win_bytes = pkt.tcp_window
          \/ /\ f.half[e].packets > 0 \/ d = "fwd"
             /\ h.initial_ttl = f.half[e].initial_ttl
             /\ h.init_win_bytes = f.half[e].init_win_bytes
      BY <1>1, <2>3, <3>2 DEF CountPacket, Direction
    <3>6. \/ d = "fwd" /\ h.initial_ttl = 0 /\ h.init_win_bytes = 0
          \/ \E p \in sent : h.initial_ttl = p.ip_ttl /\ h.init_win_bytes = p.tcp_window
      <4>1. CASE f.half[e].packets = 0
        BY <1>10, <2>3, <3>1, <3>5, <4>1 DEF FromEndpoints
      <4>2. CASE f.half[e].packets > 0
        BY <1>10, <2>1, <2>3, <3>1, <3>5, <4>2 DEF HalfByEndpoint
      <4> QED
        BY <3>2, <4>1, <4>2
    <3>7. TupleOf(g, e) = TupleOf(f, e)
      BY <1>4
    <3>8. sent = SentAs(TupleOf(g, e)) /\ g.half[e] = h
      BY <1>6, <2>3, <3>7
    <3> QED
      BY <2>3, <3>4, <3>6, <3>8 DEF HalfByEndpoint
  <2> QED
    BY <2>2, <2>3
<1> QED
  BY <1>7, <1>8

\* BasicFlow.cpp:141: a half of a flow counts the packets of one endpoint, and
\* takes its initial values from one of them, whatever splits the flow.
THEOREM DirectionsKept == Spec => []HalvesByEndpoint
<1> DEFINE E == \A f \in Stored : FromEndpoints(f)
<1>1. Init => E
  BY DEF Init, Stored, Keys
<1>2. Consistent /\ AllSound /\ E /\ [Next]_vars => E'
  <2> SUFFICES ASSUME Consistent, AllSound, E, [Next]_vars, NEW g \in Stored'
               PROVE  FromEndpoints(g)
    OBVIOUS
  <2>1. Stored \subseteq FlowType
    BY StoredType
  <2>2. CASE \E pkt \in Packets : AddPacket(pkt)
    <3>1. PICK pkt \in Packets : AddPacket(pkt)
      BY <2>2
    <3>2. pkt \in PacketType
      BY FlowGeneratorAssumption
    <3>3. CASE g = NewFlow(pkt)
      <4>1. /\ FlowTuple(g) = fwdFlowId(pkt)
            /\ g.src_ip = fwdFlowId(pkt).src_ip
        BY <3>2, <3>3, NewFlowBelongs DEF BelongsTo, FlowTuple
      <4>2. g.half = [e \in Direction |-> IF e = DirectionOf(fwdFlowId(pkt).src_ip, pkt)
                                          THEN FirstPacket(pkt) ELSE NoPackets]
        BY <3>3 DEF NewFlow, SplitFlow
      <4> QED
        BY <3>2, <3>3, <4>1, <4>2, NewFlowType, FirstPacketFromEndpoints
    <3>4. CASE MatchedKey(pkt) \in Keys
      <4> PICK old : old = MatchedFlow(pkt)
        OBVIOUS
      <4>1. old \in Stored /\ FlowTuple(old) = MatchedKey(pkt)
        BY <3>4 DEF MatchedFlow, Stored, Consistent, FlowMatchesKey
      <4>2. FlowTuple(old) \in {fwdFlowId(pkt), Reverse(fwdFlowId(pkt))}
        BY <4>1, MatchedKeyOrientation
      <4>3. CASE g = addPacket(old, pkt)
        BY <2>1, <4>1, <4>2, <4>3, addPacketFromEndpoints DEF AllSound, Sound
      <4>4. CASE g = Replacement(pkt)
        <5>1. FlowTuple(old).src_ip = old.src_ip
          BY DEF FlowTuple
        <5>2. FlowTuple(g) = FlowTuple(old) /\ g \in FlowType
          <6>1. BelongsTo(old, MatchedKey(pkt))
            BY <2>1, <4>1, <3>4 DEF BelongsTo, MatchedFlow, Consistent, TableConsistent,
                                    FlowMatchesKey
          <6>2. BelongsTo(g, MatchedKey(pkt))
            BY <3>2, <4>4, <6>1, MatchedKeyFacts, SplitFlowBelongs DEF Replacement
          <6> QED
            BY <6>1, <6>2 DEF BelongsTo
        <5>3. g.half = [e \in Direction |-> IF e = DirectionOf(FlowTuple(old).src_ip, pkt)
                                            THEN FirstPacket(pkt) ELSE NoPackets]
          BY <4>4 DEF Replacement, SplitFlow
        <5> QED
          BY <4>2, <5>1, <5>2, <5>3, FirstPacketFromEndpoints DEF FlowTuple
      <4> QED
        BY <3>1, <3>3, <4>3, <4>4, PacketOrigins
    <3> QED
      BY <3>1, <3>3, <3>4, PacketOrigins
  <2>3. CASE ~ \E pkt \in Packets : AddPacket(pkt)
    BY <2>3, OtherOrigins
  <2> QED
    BY <2>2, <2>3
<1>3. Consistent /\ E => HalvesByEndpoint
  BY StoredType DEF HalvesByEndpoint, FromEndpoints
<1> HIDE DEF E
<1> QED
  BY <1>1, <1>2, <1>3, SoundAlways, FlowGeneratorConsistent, PTL DEF Spec

=============================================================================
