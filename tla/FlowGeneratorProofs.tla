-------------------------- MODULE FlowGeneratorProofs --------------------------
(***************************************************************************)
(* Theorems about FlowGenerator, for every set of packets, every pair of   *)
(* timeouts and captures of any length, ordered or not.                    *)
(***************************************************************************)
EXTENDS FlowGenerator, FiniteSetTheorems, TLAPS

-----------------------------------------------------------------------------
(* Operators on packets and flows *)

\* An unsigned difference is a number that a uint64_t can hold.
LEMMA ElapsedType ==
  ASSUME NEW x \in Time, NEW y \in Time
  PROVE  Elapsed(x, y) \in UInt64 /\ Elapsed(x, y) \in Nat
BY TimeAssumption DEF Elapsed, UInt64, Time

\* An accumulator stays one when it receives a natural number.
LEMMA AddValueType ==
  ASSUME NEW s \in StatsType, NEW v \in Nat
  PROVE  AddValue(s, v) \in StatsType
BY DEF StatsType, AddValue

LEMMA EmptyStatsType == EmptyStats \in StatsType
BY DEF StatsType, EmptyStats

LEMMA KeyType ==
  ASSUME NEW pkt \in PacketType, NEW forward \in BOOLEAN
  PROVE  makeFlowKey(pkt, forward) \in FlowKey
BY DEF PacketType, FlowKey, makeFlowKey, fwdFlowId, Reverse

LEMMA DirectionType ==
  ASSUME NEW src_ip, NEW pkt
  PROVE  DirectionOf(src_ip, pkt) \in Direction
BY DEF DirectionOf, Direction

LEMMA checkFlagsType ==
  ASSUME NEW count \in [Flag -> Nat], NEW pkt
  PROVE  checkFlags(count, pkt) \in [Flag -> Nat]
BY DEF checkFlags

LEMMA FirstPacketType ==
  ASSUME NEW pkt \in PacketType
  PROVE  FirstPacket(pkt) \in HalfType
<1>1. AddValue(EmptyStats, pkt.payload_bytes) \in StatsType
  BY AddValueType, EmptyStatsType DEF PacketType
<1> QED
  BY <1>1, EmptyStatsType DEF FirstPacket, HalfType, PacketType, DataPackets

LEMMA NoPacketsType == NoPackets \in HalfType
BY EmptyStatsType, TimeAssumption DEF NoPackets, HalfType, Time

\* The constructors build a flow, with the given orientation.
LEMMA SplitFlowType ==
  ASSUME NEW pkt \in PacketType, NEW tuple \in FlowKey
  PROVE  SplitFlow(pkt, tuple) \in FlowType
<1> DEFINE d == DirectionOf(tuple.src_ip, pkt)
<1>1. fwdFlowId(pkt) \in FlowKey
  BY DEF fwdFlowId, FlowKey, PacketType
<1>2. [e \in Direction |-> IF e = d THEN FirstPacket(pkt) ELSE NoPackets]
        \in [Direction -> HalfType]
  BY FirstPacketType, NoPacketsType
<1>3. checkFlags([x \in Flag |-> 0], pkt) \in [Flag -> Nat]
  BY checkFlagsType
<1>4. AddValue(EmptyStats, pkt.payload_bytes) \in StatsType
  BY AddValueType, EmptyStatsType DEF PacketType
<1>5. (IF d = "fwd" THEN pkt.header_bytes ELSE 0) \in Nat
  BY DEF PacketType
<1> HIDE DEF d
<1> QED
  BY <1>1, <1>2, <1>3, <1>4, <1>5, EmptyStatsType
  DEF SplitFlow, FlowType, PacketType, FlowKey, d

LEMMA NewFlowType ==
  ASSUME NEW pkt \in PacketType
  PROVE  NewFlow(pkt) \in FlowType
<1>1. fwdFlowId(pkt) \in FlowKey
  BY DEF fwdFlowId, FlowKey, PacketType
<1> QED
  BY <1>1, SplitFlowType DEF NewFlow

LEMMA CountPacketType ==
  ASSUME NEW h \in HalfType, NEW pkt \in PacketType, NEW d \in Direction
  PROVE  CountPacket(h, pkt, d) \in HalfType
<1>1. AddValue(h.pkt_stats, pkt.payload_bytes) \in StatsType
  BY AddValueType DEF PacketType, HalfType
<1>2. AddValue(h.iat, Elapsed(pkt.time, h.last_seen)) \in StatsType
  BY AddValueType, ElapsedType DEF PacketType, HalfType
<1> QED
  BY <1>1, <1>2 DEF CountPacket, HalfType, PacketType, DataPackets

LEMMA ActiveIdleType ==
  ASSUME NEW f \in FlowType, NEW now \in Time
  PROVE  updateActiveIdleTime(f, now) \in FlowType
<1>1. AddValue(f.flow_active, Elapsed(f.end_active_time, f.start_active_time)) \in StatsType
  BY AddValueType, ElapsedType DEF FlowType
<1>2. AddValue(f.flow_idle, Elapsed(now, f.end_active_time)) \in StatsType
  BY AddValueType, ElapsedType DEF FlowType
<1> QED
  BY <1>1, <1>2 DEF updateActiveIdleTime, FlowType

\* addPacket keeps the identity, the orientation and the start of the flow,
\* and its last packet is the one just added.
LEMMA addPacketType ==
  ASSUME NEW f \in FlowType, NEW pkt \in PacketType
  PROVE  /\ addPacket(f, pkt) \in FlowType
         /\ addPacket(f, pkt).flow_id = f.flow_id
         /\ FlowTuple(addPacket(f, pkt)) = FlowTuple(f)
         /\ addPacket(f, pkt).flow_start_time = f.flow_start_time
         /\ addPacket(f, pkt).flow_last_seen = pkt.time
<1> DEFINE d == DirectionOf(f.src_ip, pkt)
           u == updateActiveIdleTime(f, pkt.time)
           half == [f.half EXCEPT ![d] = CountPacket(@, pkt, d)]
           flags == checkFlags(u.flag_count, pkt)
           lengths == AddValue(u.flow_length_stats, pkt.payload_bytes)
           minSeg == IF d = "fwd" /\ pkt.header_bytes < u.min_seg_size_forward
                     THEN pkt.header_bytes ELSE u.min_seg_size_forward
           iat == AddValue(u.flow_iat, Elapsed(pkt.time, f.flow_last_seen))
           done == \/ u.finished
                   \/ "RST" \in pkt.flags
                   \/ /\ ClosesDirection(pkt)
                      /\ half["fwd"].fin_flags + half["bwd"].fin_flags = 2
<1>1. u \in FlowType
  BY ActiveIdleType DEF PacketType
<1>2. /\ u.flow_id = f.flow_id
      /\ FlowTuple(u) = FlowTuple(f)
      /\ u.flow_start_time = f.flow_start_time
  BY DEF updateActiveIdleTime, FlowType, FlowTuple
<1>3. half \in [Direction -> HalfType]
  BY DirectionType, CountPacketType DEF FlowType
<1>4. flags \in [Flag -> Nat]
  BY <1>1, checkFlagsType DEF FlowType
<1>5. lengths \in StatsType
  BY <1>1, AddValueType DEF FlowType, PacketType
<1>6. iat \in StatsType
  BY <1>1, AddValueType, ElapsedType DEF FlowType, PacketType
<1>7. minSeg \in Nat
  BY <1>1 DEF FlowType, PacketType
<1>8. done \in BOOLEAN
  OBVIOUS
<1>9. addPacket(f, pkt) =
        [u EXCEPT !.flag_count = flags, !.flow_length_stats = lengths,
                  !.half = half, !.min_seg_size_forward = minSeg,
                  !.flow_iat = iat, !.flow_last_seen = pkt.time, !.finished = done]
  BY DEF addPacket
<1>10. pkt.time \in Time
  BY DEF PacketType
<1> HIDE DEF d, u, half, flags, lengths, minSeg, iat, done
<1>11. addPacket(f, pkt) \in FlowType
  <2> DEFINE counted == [u EXCEPT !.flag_count = flags, !.flow_length_stats = lengths,
                                  !.half = half]
  <2>1. counted \in FlowType
    BY <1>1, <1>3, <1>4, <1>5 DEF FlowType
  <2>2. addPacket(f, pkt) =
          [counted EXCEPT !.min_seg_size_forward = minSeg, !.flow_iat = iat,
                          !.flow_last_seen = pkt.time, !.finished = done]
    BY <1>9
  <2> HIDE DEF counted
  <2> DEFINE timed == [counted EXCEPT !.min_seg_size_forward = minSeg, !.flow_iat = iat,
                                      !.flow_last_seen = pkt.time]
  <2>3. timed \in FlowType
    BY <1>6, <1>7, <1>10, <2>1 DEF FlowType
  <2>4. addPacket(f, pkt) = [timed EXCEPT !.finished = done]
    BY <2>2
  <2> HIDE DEF timed
  <2> QED
    BY <1>8, <2>3, <2>4 DEF FlowType
<1>12. /\ addPacket(f, pkt).flow_id = u.flow_id
       /\ addPacket(f, pkt).flow_start_time = u.flow_start_time
       /\ addPacket(f, pkt).flow_last_seen = pkt.time
  BY <1>1, <1>9 DEF FlowType
<1>13. FlowTuple(addPacket(f, pkt)) = FlowTuple(u)
  BY <1>1, <1>9 DEF FlowType, FlowTuple
<1> QED
  BY <1>2, <1>11, <1>12, <1>13

\* A flow that may be stored under k.
BelongsTo(flow, k) ==
  /\ flow \in FlowType
  /\ flow.flow_id = k
  /\ FlowTuple(flow) = k
  /\ packetCount(flow) > 0

LEMMA SplitFlowCounts ==
  ASSUME NEW pkt \in PacketType, NEW tuple \in FlowKey
  PROVE  packetCount(SplitFlow(pkt, tuple)) = 1
<1> DEFINE d == DirectionOf(tuple.src_ip, pkt)
           half == [e \in Direction |-> IF e = d THEN FirstPacket(pkt) ELSE NoPackets]
<1>1. half["fwd"].packets + half["bwd"].packets = 1
  <2>1. d \in Direction
    BY DirectionType
  <2>2. FirstPacket(pkt).packets = 1 /\ NoPackets.packets = 0
    BY DEF FirstPacket, NoPackets
  <2> HIDE DEF d
  <2> QED
    BY <2>1, <2>2 DEF Direction
<1>2. SplitFlow(pkt, tuple).half = half
  BY DEF SplitFlow
<1> QED
  BY <1>1, <1>2 DEF packetCount

\* A new flow belongs to the key of its first packet.
LEMMA NewFlowBelongs ==
  ASSUME NEW pkt \in PacketType
  PROVE  BelongsTo(NewFlow(pkt), fwdFlowId(pkt))
<1>1. fwdFlowId(pkt) \in FlowKey
  BY DEF fwdFlowId, FlowKey, PacketType
<1>2. packetCount(NewFlow(pkt)) > 0
  BY <1>1, SplitFlowCounts DEF NewFlow
<1>3. NewFlow(pkt).flow_id = fwdFlowId(pkt)
  BY DEF NewFlow, SplitFlow
<1>4. FlowTuple(NewFlow(pkt)) = fwdFlowId(pkt)
  BY DEF NewFlow, SplitFlow, FlowTuple, fwdFlowId
<1> QED
  BY <1>2, <1>3, <1>4, NewFlowType DEF BelongsTo

\* The flow after a split belongs to the key of the flow before it.
LEMMA SplitFlowBelongs ==
  ASSUME NEW pkt \in PacketType, NEW k \in FlowKey, k.protocol = pkt.protocol,
         NEW old, BelongsTo(old, k)
  PROVE  BelongsTo([SplitFlow(pkt, FlowTuple(old)) EXCEPT !.flow_id = old.flow_id], k)
<1> DEFINE new == SplitFlow(pkt, k)
<1>1. new \in FlowType
  BY SplitFlowType
<1>2. packetCount(new) > 0
  BY SplitFlowCounts
<1>3. FlowTuple(new) = k
  BY DEF SplitFlow, FlowTuple, FlowKey
<1> HIDE DEF new
<1>4. [new EXCEPT !.flow_id = k] \in FlowType
  BY <1>1 DEF FlowType
<1>5. FlowTuple([new EXCEPT !.flow_id = k]) = k
  BY <1>1, <1>3 DEF FlowType, FlowTuple
<1>6. packetCount([new EXCEPT !.flow_id = k]) > 0
  BY <1>1, <1>2 DEF FlowType, packetCount
<1>7. [new EXCEPT !.flow_id = k].flow_id = k
  BY <1>1 DEF FlowType
<1>8. BelongsTo([new EXCEPT !.flow_id = k], k)
  BY <1>4, <1>5, <1>6, <1>7 DEF BelongsTo
<1> QED
  BY <1>8 DEF BelongsTo, new

LEMMA addPacketCounts ==
  ASSUME NEW f \in FlowType, NEW pkt \in PacketType
  PROVE  packetCount(addPacket(f, pkt)) = packetCount(f) + 1
<1> DEFINE d == DirectionOf(f.src_ip, pkt)
           u == updateActiveIdleTime(f, pkt.time)
           half == [f.half EXCEPT ![d] = CountPacket(@, pkt, d)]
<1>1. CountPacket(f.half[d], pkt, d).packets = f.half[d].packets + 1
  BY DEF CountPacket
<1>2. d \in Direction
  BY DirectionType
<1>3. f.half \in [Direction -> HalfType]
  BY DEF FlowType
<1>4. addPacket(f, pkt).half = half
  <2>1. u \in FlowType
    BY ActiveIdleType DEF PacketType
  <2> HIDE DEF half, u
  <2>2. addPacket(f, pkt) =
          [u EXCEPT !.flag_count = addPacket(f, pkt).flag_count,
                    !.flow_length_stats = addPacket(f, pkt).flow_length_stats,
                    !.half = half,
                    !.min_seg_size_forward = addPacket(f, pkt).min_seg_size_forward,
                    !.flow_iat = addPacket(f, pkt).flow_iat,
                    !.flow_last_seen = addPacket(f, pkt).flow_last_seen,
                    !.finished = addPacket(f, pkt).finished]
    BY <2>1 DEF addPacket, half, u, FlowType
  <2> QED
    BY <2>1, <2>2 DEF FlowType
<1> HIDE DEF d
<1>5. /\ f.half["fwd"].packets \in Nat
      /\ f.half["bwd"].packets \in Nat
  BY <1>3 DEF Direction, HalfType
<1>6. half["fwd"].packets + half["bwd"].packets
        = f.half["fwd"].packets + f.half["bwd"].packets + 1
  BY <1>1, <1>2, <1>3, <1>5 DEF Direction
<1> QED
  BY <1>4, <1>6 DEF packetCount

LEMMA addPacketBelongs ==
  ASSUME NEW k, NEW f, BelongsTo(f, k), NEW pkt \in PacketType
  PROVE  BelongsTo(addPacket(f, pkt), k)
<1>1. packetCount(f) \in Nat
  BY DEF BelongsTo, FlowType, HalfType, packetCount, Direction
<1> QED
  BY <1>1, addPacketType, addPacketCounts DEF BelongsTo

-----------------------------------------------------------------------------
(* Operators on the table *)

LEMMA ReverseTwice ==
  ASSUME NEW k \in FlowKey
  PROVE  Reverse(k) \in FlowKey /\ Reverse(Reverse(k)) = k
BY DEF FlowKey, Reverse

\* The key addPacket works on has the protocol of the packet.  When no flow
\* is stored under it, none is stored under its reverse either.
LEMMA MatchedKeyFacts ==
  ASSUME NEW pkt \in PacketType
  PROVE  /\ MatchedKey(pkt) \in FlowKey
         /\ MatchedKey(pkt).protocol = pkt.protocol
         /\ MatchedKey(pkt) \notin Keys =>
              /\ MatchedKey(pkt) = fwdFlowId(pkt)
              /\ Reverse(MatchedKey(pkt)) \notin Keys
<1>1. makeFlowKey(pkt, TRUE) = fwdFlowId(pkt)
  BY DEF makeFlowKey
<1>2. makeFlowKey(pkt, FALSE) = Reverse(fwdFlowId(pkt))
  BY DEF makeFlowKey
<1>3. makeFlowKey(pkt, TRUE) \in FlowKey /\ makeFlowKey(pkt, FALSE) \in FlowKey
  BY KeyType
<1>4. /\ fwdFlowId(pkt).protocol = pkt.protocol
      /\ Reverse(fwdFlowId(pkt)).protocol = pkt.protocol
  BY DEF fwdFlowId, Reverse
<1> QED
  BY <1>1, <1>2, <1>3, <1>4 DEF MatchedKey

EntriesBelong == \A k \in Keys : BelongsTo(current_flows[k].flow, k)

LEMMA InsertFacts ==
  ASSUME TypeOK, EntriesBelong, NEW k \in FlowKey, NEW flow, BelongsTo(flow, k)
  PROVE  /\ DOMAIN Insert(k, flow) = Keys \cup {k}
         /\ Insert(k, flow) \in [Keys \cup {k} -> EntryType]
         /\ \A j \in Keys \cup {k} : BelongsTo(Insert(k, flow)[j].flow, j)
<1>1. flow \in FlowType
  BY DEF BelongsTo
<1>2. current_flows \in [Keys -> EntryType] /\ next_insertion_order \in Nat
  BY DEF TypeOK
<1>3. ASSUME NEW j \in Keys \cup {k}
      PROVE  /\ Insert(k, flow)[j] \in EntryType
             /\ BelongsTo(Insert(k, flow)[j].flow, j)
  <2>1. CASE j = k
    <3>1. Insert(k, flow)[j] = [flow |-> flow, insertion_order |-> next_insertion_order]
      BY <2>1 DEF Insert
    <3> QED
      BY <1>1, <1>2, <2>1, <3>1 DEF EntryType
  <2>2. CASE j # k
    <3>1. Insert(k, flow)[j] = current_flows[j] /\ j \in Keys
      BY <2>2 DEF Insert
    <3> QED
      BY <1>2, <3>1 DEF EntriesBelong
  <2> QED
    BY <2>1, <2>2
<1> QED
  BY <1>3 DEF Insert

LEMMA EraseFacts ==
  ASSUME TypeOK, EntriesBelong, NEW k \in Keys
  PROVE  /\ DOMAIN Erase(k) = Keys \ {k}
         /\ Erase(k) \in [Keys \ {k} -> EntryType]
         /\ \A j \in Keys \ {k} : BelongsTo(Erase(k)[j].flow, j)
BY DEF TypeOK, EntriesBelong, Erase

\* One report adds one to the count and, with a callback, one row.
LEMMA ReportFacts ==
  ASSUME TypeOK, flow_callback, NEW flow \in FlowType, handleFinishedFlow(flow)
  PROVE  /\ finished_flow_count' = finished_flow_count + 1
         /\ finished_flow_count' \in Nat
         /\ finished_flows' \in Seq(FlowType)
         /\ rows' \in Seq(FlowType)
         /\ Len(rows') = Len(rows) + 1
         /\ rows' = Append(rows, flow)
BY DEF TypeOK, handleFinishedFlow

LEMMA LargerType ==
  ASSUME NEW x \in Nat, NEW y \in Nat
  PROVE  Larger(x, y) \in Nat
BY DEF Larger

\* The state in which a packet arrives.
LEMMA ArrivalFacts ==
  ASSUME Consistent, NEW pkt \in Packets, Arrives(pkt)
  PROVE  /\ pkt \in PacketType
         /\ EntriesBelong
         /\ flow_callback = TRUE /\ flow_callback' = TRUE
         /\ store_finished_flows' \in BOOLEAN
         /\ phase = "capturing" /\ phase' = "capturing"
         /\ pending = {} /\ pending' = {}
         /\ packets_read' \in 0 .. MaxPackets
         /\ capture_time' \in Time
<1>1. pkt \in PacketType
  BY FlowGeneratorAssumption
<1>2. EntriesBelong
  BY DEF EntriesBelong, BelongsTo, Consistent, TypeOK, EntryType, FlowMatchesKey,
         TableConsistent
<1>3. packets_read' \in 0 .. MaxPackets
  BY FlowGeneratorAssumption DEF Consistent, TypeOK, Arrives
<1>4. capture_time' \in Time
  BY <1>1 DEF Arrives, PacketType
<1> QED
  BY <1>1, <1>2, <1>3, <1>4 DEF Consistent, TypeOK, TableConsistent, Arrives, config

\* What the invariant says of the table follows from its entries.
LEMMA EntriesGive ==
  ASSUME EntriesBelong'
  PROVE  /\ FlowMatchesKey'
         /\ \A k \in Keys' : packetCount(current_flows'[k].flow) > 0
BY DEF EntriesBelong, FlowMatchesKey, BelongsTo

-----------------------------------------------------------------------------
(* Consistency *)

LEMMA InitConsistent == Init => Consistent
<1> SUFFICES ASSUME Init PROVE Consistent
  OBVIOUS
<1>1. Keys = {}
  BY DEF Init, Keys
<1>2. TypeOK
  <2>1. current_flows \in [Keys -> EntryType]
    BY <1>1 DEF Init, Keys
  <2>2. finished_flows \in Seq(FlowType) /\ rows \in Seq(FlowType)
    BY DEF Init
  <2>3. packets_read \in 0 .. MaxPackets /\ capture_time \in Time
    BY TimeAssumption, FlowGeneratorAssumption DEF Init, Time
  <2> QED
    BY <1>1, <2>1, <2>2, <2>3 DEF Init, TypeOK, Phase
<1>3. TableConsistent
  BY <1>1, FS_EmptySet DEF Init, TableConsistent
<1>4. OneFlowPerConnection /\ FlowMatchesKey
  BY <1>1 DEF OneFlowPerConnection, FlowMatchesKey
<1>5. FlowsAccounted
  BY <1>1, FS_EmptySet DEF Init, FlowsAccounted, LiveKeys
<1> QED
  BY <1>2, <1>3, <1>4, <1>5 DEF Consistent

LEMMA StartFlowConsistent ==
  ASSUME Consistent, NEW pkt \in Packets, StartFlow(pkt)
  PROVE  Consistent'
<1> DEFINE k == MatchedKey(pkt)
<1>1. Arrives(pkt) /\ k \notin Keys /\ current_flows' = Insert(k, NewFlow(pkt))
  BY DEF StartFlow
<1>2. pkt \in PacketType /\ EntriesBelong /\ TypeOK
  BY <1>1, ArrivalFacts DEF Consistent
<1>3. k \in FlowKey /\ k = fwdFlowId(pkt) /\ Reverse(k) \notin Keys
  BY <1>1, <1>2, MatchedKeyFacts
<1>4. BelongsTo(NewFlow(pkt), k)
  BY <1>2, <1>3, NewFlowBelongs
<1> HIDE DEF k
<1>5. /\ Keys' = Keys \cup {k}
      /\ current_flows' \in [Keys' -> EntryType]
      /\ EntriesBelong'
  <2> DEFINE new == NewFlow(pkt)
  <2> HIDE DEF new
  <2>1. current_flows' = Insert(k, new) /\ BelongsTo(new, k)
    BY <1>1, <1>4 DEF new
  <2>2. /\ DOMAIN Insert(k, new) = Keys \cup {k}
        /\ Insert(k, new) \in [Keys \cup {k} -> EntryType]
        /\ \A j \in Keys \cup {k} : BelongsTo(Insert(k, new)[j].flow, j)
    BY <1>2, <1>3, <2>1, InsertFacts
  <2> QED
    BY <2>1, <2>2 DEF Keys, EntriesBelong
<1>6. IsFiniteSet(Keys') /\ Cardinality(Keys') = Cardinality(Keys) + 1
      /\ Cardinality(Keys) \in Nat
  BY <1>1, <1>5, FS_AddElement, FS_CardinalityType DEF Consistent, TableConsistent
<1>7. TypeOK'
  <2>1. peak_current_flows' \in Nat
    BY <1>2, <1>6, LargerType DEF StartFlow, TypeOK, Keys
  <2> QED
    <3>1. /\ finished_flows' = finished_flows
          /\ finished_flow_count' = finished_flow_count
          /\ rows' = rows
          /\ next_insertion_order' \in Nat
      BY <1>2 DEF StartFlow, output, TypeOK
    <3>2. Keys' \subseteq FlowKey
      BY <1>2, <1>3, <1>5 DEF TypeOK
    <3> QED
      BY <1>1, <1>2, <1>5, <2>1, <3>1, <3>2, ArrivalFacts DEF TypeOK, Phase
<1>8. TableConsistent'
  BY <1>1, <1>5, <1>6, ArrivalFacts, EntriesGive DEF TableConsistent
<1>9. OneFlowPerConnection'
  <2> SUFFICES ASSUME NEW j \in Keys', Reverse(j) \in Keys' PROVE Reverse(j) = j
    BY DEF OneFlowPerConnection
  <2>1. Reverse(Reverse(j)) = j
    BY <1>2, <1>3, <1>5, ReverseTwice DEF TypeOK
  <2>2. CASE j = k
    BY <1>3, <1>5, <2>2
  <2>3. CASE j # k
    <3>1. j \in Keys /\ Reverse(j) # k
      BY <1>3, <1>5, <2>1, <2>3
    <3> QED
      BY <1>5, <3>1 DEF Consistent, OneFlowPerConnection
  <2> QED
    BY <2>2, <2>3
<1>10. FlowsAccounted'
  <2>1. LiveKeys = Keys /\ LiveKeys' = Keys'
    BY <1>1, ArrivalFacts DEF LiveKeys
  <2>2. /\ next_insertion_order' = next_insertion_order + 1
        /\ finished_flow_count' = finished_flow_count /\ rows' = rows
    BY DEF StartFlow, output
  <2>3. next_insertion_order' = finished_flow_count' + Cardinality(Keys')
    BY <1>2, <1>6, <2>1, <2>2 DEF Consistent, FlowsAccounted, TypeOK
  <2>4. finished_flow_count' = Len(rows')
    BY <2>2 DEF Consistent, FlowsAccounted
  <2> QED
    BY <2>1, <2>3, <2>4 DEF FlowsAccounted
<1> QED
  BY <1>5, <1>7, <1>8, <1>9, <1>10, EntriesGive DEF Consistent

LEMMA SplitConsistent ==
  ASSUME Consistent, NEW pkt \in Packets, SplitOnTimeout(pkt)
  PROVE  Consistent'
<1> DEFINE k == MatchedKey(pkt)
           old == MatchedFlow(pkt)
           new == [SplitFlow(pkt, FlowTuple(old)) EXCEPT !.flow_id = old.flow_id]
<1>1. Arrives(pkt) /\ k \in Keys /\ current_flows' = Insert(k, new)
  BY DEF SplitOnTimeout
<1>2. pkt \in PacketType /\ EntriesBelong /\ TypeOK
  BY <1>1, ArrivalFacts DEF Consistent
<1>3. k \in FlowKey /\ k.protocol = pkt.protocol
  BY <1>2, MatchedKeyFacts
<1>4. BelongsTo(old, k)
  BY <1>1, <1>2 DEF EntriesBelong, MatchedFlow
<1>5. BelongsTo(new, k)
  BY <1>2, <1>3, <1>4, SplitFlowBelongs
<1>6. old \in FlowType /\ handleFinishedFlow(old)
  BY <1>4 DEF SplitOnTimeout, BelongsTo
<1> HIDE DEF k, old, new
<1>7. /\ Keys' = Keys
      /\ current_flows' \in [Keys' -> EntryType]
      /\ EntriesBelong'
  <2>1. Keys \cup {k} = Keys
    BY <1>1
  <2> QED
    BY <1>1, <1>2, <1>3, <1>5, <2>1, InsertFacts DEF Keys, EntriesBelong
<1>8. IsFiniteSet(Keys') /\ Cardinality(Keys') = Cardinality(Keys)
      /\ Cardinality(Keys) \in Nat
  BY <1>7, FS_CardinalityType DEF Consistent, TableConsistent
<1>9. TypeOK'
  <2>1. peak_current_flows' \in Nat
    BY <1>2, <1>8, LargerType DEF SplitOnTimeout, TypeOK, Keys
  <2>2. next_insertion_order' \in Nat
    BY <1>2 DEF SplitOnTimeout, TypeOK
  <2> QED
    BY <1>1, <1>2, <1>3, <1>6, <1>7, <2>1, <2>2, ArrivalFacts, ReportFacts DEF TypeOK, Phase
<1>10. TableConsistent'
  BY <1>1, <1>7, <1>8, ArrivalFacts, EntriesGive DEF TableConsistent
<1>11. OneFlowPerConnection'
  <2> SUFFICES ASSUME NEW j \in Keys', Reverse(j) \in Keys' PROVE Reverse(j) = j
    BY DEF OneFlowPerConnection
  <2> QED
    BY <1>7 DEF OneFlowPerConnection, Consistent
<1>12. FlowsAccounted'
  <2>1. LiveKeys = Keys /\ LiveKeys' = Keys'
    BY <1>1, ArrivalFacts DEF LiveKeys
  <2>2. next_insertion_order' = next_insertion_order + 1
    BY DEF SplitOnTimeout
  <2>3. /\ finished_flow_count' = finished_flow_count + 1
        /\ Len(rows') = Len(rows) + 1
    BY <1>1, <1>2, <1>6, ArrivalFacts, ReportFacts
  <2> HIDE DEF k
  <2>4. /\ next_insertion_order = finished_flow_count + Cardinality(Keys)
        /\ finished_flow_count \in Nat
    BY <1>2, <2>1 DEF Consistent, FlowsAccounted, TypeOK
  <2>5. next_insertion_order' = finished_flow_count' + Cardinality(Keys')
    BY <1>8, <2>2, <2>3, <2>4
  <2>6. finished_flow_count' = Len(rows')
    BY <2>3 DEF Consistent, FlowsAccounted
  <2> QED
    BY <2>1, <2>5, <2>6 DEF FlowsAccounted
<1> QED
  BY <1>7, <1>9, <1>10, <1>11, <1>12, EntriesGive DEF Consistent

LEMMA ContinueConsistent ==
  ASSUME Consistent, NEW pkt \in Packets, ContinueFlow(pkt)
  PROVE  Consistent'
<1> DEFINE k == MatchedKey(pkt)
           new == addPacket(MatchedFlow(pkt), pkt)
<1>1. /\ Arrives(pkt) /\ k \in Keys
      /\ current_flows' = [current_flows EXCEPT ![k].flow = new]
      /\ UNCHANGED << output, next_insertion_order, peak_current_flows >>
  BY DEF ContinueFlow
<1>2. pkt \in PacketType /\ EntriesBelong /\ TypeOK
  BY <1>1, ArrivalFacts DEF Consistent
<1>3. BelongsTo(MatchedFlow(pkt), k)
  BY <1>1, <1>2 DEF EntriesBelong, MatchedFlow
<1>4. BelongsTo(new, k)
  BY <1>2, <1>3, addPacketBelongs
<1>5. new \in FlowType
  BY <1>4 DEF BelongsTo
<1> HIDE DEF k, new
<1>6. /\ Keys' = Keys
      /\ current_flows' \in [Keys' -> EntryType]
      /\ EntriesBelong'
  <2>1. current_flows \in [Keys -> EntryType]
    BY <1>2 DEF TypeOK
  <2>2. Keys' = Keys
    BY <1>1, <2>1 DEF Keys
  <2>3. current_flows' \in [Keys -> EntryType]
    BY <1>1, <1>5, <2>1 DEF EntryType
  <2>4. \A j \in Keys : BelongsTo(current_flows'[j].flow, j)
    <3>1. current_flows'[k].flow = new
      BY <1>1, <2>1 DEF EntryType
    <3>2. \A j \in Keys \ {k} : current_flows'[j] = current_flows[j]
      BY <1>1, <2>1
    <3> QED
      BY <1>2, <1>4, <3>1, <3>2 DEF EntriesBelong
  <2> QED
    BY <2>2, <2>3, <2>4 DEF EntriesBelong
<1>7. TypeOK'
  BY <1>1, <1>2, <1>6, ArrivalFacts DEF TypeOK, output, Phase
<1>8. TableConsistent'
  BY <1>1, <1>6, ArrivalFacts, EntriesGive DEF TableConsistent, Consistent
<1>9. OneFlowPerConnection'
  <2> SUFFICES ASSUME NEW j \in Keys', Reverse(j) \in Keys' PROVE Reverse(j) = j
    BY DEF OneFlowPerConnection
  <2> QED
    BY <1>6 DEF OneFlowPerConnection, Consistent
<1>10. FlowsAccounted'
  <2>1. LiveKeys = Keys /\ LiveKeys' = Keys'
    BY <1>1, ArrivalFacts DEF LiveKeys
  <2> QED
    BY <1>1, <1>6, <2>1 DEF FlowsAccounted, Consistent, output
<1> QED
  BY <1>6, <1>7, <1>8, <1>9, <1>10, EntriesGive DEF Consistent

LEMMA FinishConsistent ==
  ASSUME Consistent, NEW pkt \in Packets, FinishFlow(pkt)
  PROVE  Consistent'
<1> DEFINE k == MatchedKey(pkt)
           new == addPacket(MatchedFlow(pkt), pkt)
<1>1. /\ Arrives(pkt) /\ k \in Keys
      /\ handleFinishedFlow(new)
      /\ current_flows' = Erase(k)
      /\ UNCHANGED << next_insertion_order, peak_current_flows >>
  BY DEF FinishFlow
<1>2. pkt \in PacketType /\ EntriesBelong /\ TypeOK
  BY <1>1, ArrivalFacts DEF Consistent
<1>3. BelongsTo(MatchedFlow(pkt), k)
  BY <1>1, <1>2 DEF EntriesBelong, MatchedFlow
<1>4. new \in FlowType
  BY <1>2, <1>3, addPacketBelongs DEF BelongsTo
<1> HIDE DEF k, new
<1>5. /\ Keys' = Keys \ {k}
      /\ current_flows' \in [Keys' -> EntryType]
      /\ EntriesBelong'
  BY <1>1, <1>2, EraseFacts DEF Keys, EntriesBelong
<1>6. IsFiniteSet(Keys') /\ Cardinality(Keys') = Cardinality(Keys) - 1
      /\ Cardinality(Keys) \in Nat
  BY <1>1, <1>5, FS_RemoveElement, FS_CardinalityType DEF Consistent, TableConsistent
<1>7. TypeOK'
  BY <1>1, <1>2, <1>4, <1>5, ArrivalFacts, ReportFacts DEF TypeOK, Phase
<1>8. TableConsistent'
  BY <1>1, <1>5, <1>6, ArrivalFacts, EntriesGive DEF TableConsistent
<1>9. OneFlowPerConnection'
  <2> SUFFICES ASSUME NEW j \in Keys', Reverse(j) \in Keys' PROVE Reverse(j) = j
    BY DEF OneFlowPerConnection
  <2> QED
    BY <1>5 DEF OneFlowPerConnection, Consistent
<1>10. FlowsAccounted'
  <2>1. LiveKeys = Keys /\ LiveKeys' = Keys'
    BY <1>1, ArrivalFacts DEF LiveKeys
  <2>2. /\ finished_flow_count' = finished_flow_count + 1
        /\ Len(rows') = Len(rows) + 1
    BY <1>1, <1>2, <1>4, ArrivalFacts, ReportFacts
  <2>3. next_insertion_order' = finished_flow_count' + Cardinality(Keys')
    <3>1. next_insertion_order = finished_flow_count + Cardinality(Keys)
      BY <2>1 DEF Consistent, FlowsAccounted
    <3>2. next_insertion_order' = next_insertion_order /\ finished_flow_count \in Nat
      BY <1>1, <1>2 DEF TypeOK
    <3> QED
      BY <1>6, <2>2, <3>1, <3>2
  <2>4. finished_flow_count' = Len(rows')
    BY <2>2 DEF Consistent, FlowsAccounted
  <2> QED
    BY <2>1, <2>3, <2>4 DEF FlowsAccounted
<1> QED
  BY <1>5, <1>7, <1>8, <1>9, <1>10, EntriesGive DEF Consistent

\* The steps that add no packet.
LEMMA ConfigureConsistent ==
  ASSUME Consistent, SetStoreFinishedFlows \/ SetFlowCallback
  PROVE  Consistent'
<1>1. /\ current_flows' = current_flows /\ pending' = pending
      /\ next_insertion_order' = next_insertion_order
      /\ peak_current_flows' = peak_current_flows
      /\ finished_flow_count' = finished_flow_count /\ rows' = rows
      /\ packets_read' = packets_read /\ capture_time' = capture_time
      /\ phase \in {"constructed", "storage_set"}
      /\ phase' \in {"storage_set", "capturing"}
      /\ phase' = "capturing" => flow_callback'
      /\ flow_callback' \in BOOLEAN
  BY DEF SetStoreFinishedFlows, SetFlowCallback, table, output, capture, Consistent, TypeOK
<1>2. finished_flows' \in Seq(FlowType) /\ store_finished_flows' \in BOOLEAN
  <2>1. finished_flows' = << >> \/ finished_flows' = finished_flows
    BY DEF SetStoreFinishedFlows, SetFlowCallback, output
  <2>2. finished_flows \in Seq(FlowType) /\ << >> \in Seq(FlowType)
    BY DEF Consistent, TypeOK
  <2>3. store_finished_flows' \in BOOLEAN
    BY DEF SetStoreFinishedFlows, SetFlowCallback, Consistent, TypeOK
  <2> QED
    BY <2>1, <2>2, <2>3
<1>3. Keys' = Keys /\ Keys = {}
  <2>1. Keys = {}
    BY <1>1 DEF Consistent, TableConsistent
  <2> QED
    BY <1>1, <2>1 DEF Keys
<1>4. TypeOK'
  BY <1>1, <1>2, <1>3 DEF Consistent, TypeOK, Phase
<1>5. TableConsistent'
  BY <1>1, <1>3 DEF Consistent, TableConsistent
<1>6. OneFlowPerConnection' /\ FlowMatchesKey'
  BY <1>3 DEF OneFlowPerConnection, FlowMatchesKey
<1>7. FlowsAccounted'
  <2>1. LiveKeys = Keys /\ LiveKeys' = Keys'
    BY <1>1 DEF LiveKeys
  <2> QED
    BY <1>1, <1>3, <2>1 DEF FlowsAccounted, Consistent
<1> QED
  BY <1>4, <1>5, <1>6, <1>7 DEF Consistent

LEMMA ReadFailsConsistent ==
  ASSUME Consistent, ReadFails
  PROVE  Consistent'
<1>1. /\ UNCHANGED << table, output, config, capture, pending >>
      /\ phase = "capturing" /\ phase' = "abandoned"
  BY DEF ReadFails
<1> QED
  BY <1>1 DEF table, output, config, capture, Consistent, TypeOK, Phase, TableConsistent,
              OneFlowPerConnection, FlowMatchesKey, FlowsAccounted, LiveKeys, Keys

LEMMA BeginFinishConsistent ==
  ASSUME Consistent, BeginFinishAllFlows
  PROVE  Consistent'
<1>1. /\ UNCHANGED << table, output, config, capture >>
      /\ phase = "capturing" /\ pending' = Keys
      /\ phase' = IF Keys = {} THEN "finished" ELSE "finishing"
  BY DEF BeginFinishAllFlows
<1>2. Keys' = Keys /\ current_flows' = current_flows
  BY <1>1 DEF Keys, table
<1>3. TypeOK'
  BY <1>1, <1>2 DEF Consistent, TypeOK, Phase, table, output, config, capture
<1>4. TableConsistent'
  BY <1>1, <1>2 DEF Consistent, TableConsistent, config
<1>5. OneFlowPerConnection' /\ FlowMatchesKey'
  BY <1>2 DEF Consistent, OneFlowPerConnection, FlowMatchesKey
<1>6. FlowsAccounted'
  <2>1. LiveKeys = Keys /\ LiveKeys' = Keys
    BY <1>1, <1>2 DEF LiveKeys
  <2> QED
    BY <1>1, <2>1 DEF FlowsAccounted, Consistent, table, output
<1> QED
  BY <1>3, <1>4, <1>5, <1>6 DEF Consistent

LEMMA FinishOneConsistent ==
  ASSUME Consistent, NEW k \in pending, FinishOne(k)
  PROVE  Consistent'
<1> DEFINE flow == current_flows[k].flow
<1>1. /\ UNCHANGED << table, config, capture, phase >>
      /\ phase = "finishing" /\ pending' = pending \ {k}
      /\ k \in Keys
  BY DEF FinishOne, Consistent, TypeOK
<1>2. Keys' = Keys /\ current_flows' = current_flows
  BY <1>1 DEF Keys, table
<1>3. flow \in FlowType /\ packetCount(flow) > 0
  BY <1>1 DEF Consistent, TypeOK, TableConsistent, EntryType
<1>4. handleFinishedFlow(flow) /\ flow_callback
  BY <1>1, <1>3 DEF FinishOne, Consistent, TableConsistent
<1> HIDE DEF flow
<1>5. TypeOK'
  BY <1>1, <1>2, <1>3, <1>4, ReportFacts
  DEF Consistent, TypeOK, Phase, table, config, capture
<1>6. TableConsistent'
  BY <1>1, <1>2 DEF Consistent, TableConsistent, config
<1>7. OneFlowPerConnection' /\ FlowMatchesKey'
  BY <1>2 DEF Consistent, OneFlowPerConnection, FlowMatchesKey
<1>8. FlowsAccounted'
  <2>1. LiveKeys = pending /\ LiveKeys' = pending'
    BY <1>1 DEF LiveKeys
  <2>2. IsFiniteSet(pending)
    BY FS_Subset DEF Consistent, TypeOK, TableConsistent
  <2>3. /\ Cardinality(pending') = Cardinality(pending) - 1
        /\ Cardinality(pending) \in Nat
    BY <1>1, <2>2, FS_RemoveElement, FS_CardinalityType
  <2>4. /\ finished_flow_count' = finished_flow_count + 1
        /\ Len(rows') = Len(rows) + 1
    BY <1>3, <1>4, ReportFacts DEF Consistent
  <2>5. next_insertion_order' = next_insertion_order
    BY <1>1 DEF table
  <2>6. /\ next_insertion_order = finished_flow_count + Cardinality(pending)
        /\ finished_flow_count = Len(rows)
        /\ finished_flow_count \in Nat
    BY <2>1 DEF Consistent, FlowsAccounted, TypeOK
  <2>7. next_insertion_order' = finished_flow_count' + Cardinality(pending')
    BY <2>3, <2>4, <2>5, <2>6
  <2>8. finished_flow_count' = Len(rows')
    BY <2>4, <2>6
  <2> QED
    BY <2>1, <2>7, <2>8 DEF FlowsAccounted
<1> QED
  BY <1>5, <1>6, <1>7, <1>8 DEF Consistent

LEMMA ClearConsistent ==
  ASSUME Consistent, ClearFlows
  PROVE  Consistent'
<1>1. /\ UNCHANGED << next_insertion_order, peak_current_flows, output, config, capture >>
      /\ phase = "finishing" /\ phase' = "finished"
      /\ pending = {} /\ pending' = {}
      /\ current_flows' = << >>
  BY DEF ClearFlows
<1>2. Keys' = {} /\ current_flows' \in [Keys' -> EntryType]
  BY <1>1 DEF Keys
<1>3. TypeOK'
  BY <1>1, <1>2 DEF Consistent, TypeOK, Phase, output, config, capture
<1>4. TableConsistent'
  BY <1>1, <1>2, FS_EmptySet DEF Consistent, TableConsistent, config
<1>5. OneFlowPerConnection' /\ FlowMatchesKey'
  BY <1>2 DEF OneFlowPerConnection, FlowMatchesKey
<1>6. FlowsAccounted'
  <2>1. LiveKeys = {} /\ LiveKeys' = {}
    BY <1>1, <1>2 DEF LiveKeys
  <2> QED
    BY <1>1, <2>1 DEF FlowsAccounted, Consistent, output
<1> QED
  BY <1>3, <1>4, <1>5, <1>6 DEF Consistent

\* Consistency is an inductive invariant.
LEMMA NextConsistent ==
  ASSUME Consistent, [Next]_vars
  PROVE  Consistent'
<1>1. CASE SetStoreFinishedFlows \/ SetFlowCallback
  BY <1>1, ConfigureConsistent
<1>2. CASE \E pkt \in Packets : AddPacket(pkt)
  <2>1. PICK pkt \in Packets : AddPacket(pkt)
    BY <1>2
  <2>2. CASE StartFlow(pkt)
    BY <2>2, StartFlowConsistent
  <2>3. CASE SplitOnTimeout(pkt)
    BY <2>3, SplitConsistent
  <2>4. CASE ContinueFlow(pkt)
    BY <2>4, ContinueConsistent
  <2>5. CASE FinishFlow(pkt)
    BY <2>5, FinishConsistent
  <2> QED
    BY <2>1, <2>2, <2>3, <2>4, <2>5 DEF AddPacket
<1>3. CASE BeginFinishAllFlows
  BY <1>3, BeginFinishConsistent
<1>4. CASE \E k \in pending : FinishOne(k)
  BY <1>4, FinishOneConsistent
<1>5. CASE ClearFlows
  BY <1>5, ClearConsistent
<1>6. CASE Terminated \/ UNCHANGED vars
  <2>1. UNCHANGED vars
    BY <1>6 DEF Terminated
  <2> QED
    BY <2>1 DEF vars, table, output, config, capture, Consistent, TypeOK, TableConsistent,
                OneFlowPerConnection, FlowMatchesKey, FlowsAccounted, LiveKeys, Keys
<1>7. CASE ReadFails
  BY <1>7, ReadFailsConsistent
<1> QED
  BY <1>1, <1>2, <1>3, <1>4, <1>5, <1>6, <1>7 DEF Next

THEOREM FlowGeneratorConsistent == Spec => []Consistent
<1>1. Consistent /\ [Next]_vars => Consistent'
  BY NextConsistent
<1> QED
  BY <1>1, InitConsistent, PTL DEF Spec

\* Type correctness.
THEOREM TypeCorrect == Spec => []TypeOK
BY FlowGeneratorConsistent, PTL DEF Consistent

\* Both directions of a connection are counted in one flow.
THEOREM OneFlow == Spec => []OneFlowPerConnection
BY FlowGeneratorConsistent, PTL DEF Consistent

\* A flow keeps its identifier, its orientation and its key through splits.
THEOREM IdentityKept == Spec => []FlowMatchesKey
BY FlowGeneratorConsistent, PTL DEF Consistent

\* No flow is lost and none is reported twice.
THEOREM EveryFlowAccounted == Spec => []FlowsAccounted
BY FlowGeneratorConsistent, PTL DEF Consistent

-----------------------------------------------------------------------------
(* The length of flows *)

\* The flow ends no earlier than it starts and no later than the timeout.
Bounded(f) ==
  f.flow_last_seen \in f.flow_start_time .. (f.flow_start_time + FlowTimeout)

EntriesAndRowsBounded ==
  /\ \A k \in Keys : Bounded(current_flows[k].flow)
  /\ \A i \in DOMAIN rows : Bounded(rows[i])

\* The unsigned comparison rejects packets from before the start as well,
\* provided that the timeout is not so long that they look recent.
LEMMA NotExpiredBounds ==
  ASSUME FlowTimeout + MaxTime < Wrap,
         NEW f \in FlowType, NEW pkt \in PacketType, ~ Expired(f, pkt)
  PROVE  Bounded(addPacket(f, pkt))
<1> DEFINE start == f.flow_start_time
           now == pkt.time
<1>1. start \in Time /\ now \in Time
  BY DEF FlowType, PacketType
<1>2. Elapsed(now, start) <= FlowTimeout
  BY <1>1, ElapsedType, FlowGeneratorAssumption DEF Expired, UInt64
<1>3. now \in start .. (start + FlowTimeout)
  BY <1>1, <1>2, TimeAssumption, FlowGeneratorAssumption DEF Elapsed, Time, UInt64
<1> QED
  BY <1>3, addPacketType DEF Bounded

LEMMA SplitFlowBounded ==
  ASSUME NEW pkt \in PacketType, NEW tuple, NEW id
  PROVE  /\ Bounded(SplitFlow(pkt, tuple))
         /\ Bounded([SplitFlow(pkt, tuple) EXCEPT !.flow_id = id])
<1>1. pkt.time \in Nat /\ FlowTimeout \in Nat
  BY FlowGeneratorAssumption, TimeAssumption DEF PacketType, Time, UInt64
<1>2. /\ SplitFlow(pkt, tuple).flow_start_time = pkt.time
      /\ SplitFlow(pkt, tuple).flow_last_seen = pkt.time
      /\ [SplitFlow(pkt, tuple) EXCEPT !.flow_id = id].flow_start_time = pkt.time
      /\ [SplitFlow(pkt, tuple) EXCEPT !.flow_id = id].flow_last_seen = pkt.time
  BY DEF SplitFlow
<1> QED
  BY <1>1, <1>2 DEF Bounded

\* A report appends a flow to the rows or leaves them alone.
LEMMA ReportBounded ==
  ASSUME TypeOK, NEW flow \in FlowType, Bounded(flow),
         \A i \in DOMAIN rows : Bounded(rows[i]),
         handleFinishedFlow(flow)
  PROVE  \A i \in DOMAIN rows' : Bounded(rows'[i])
<1>1. CASE flow_callback
  <2>1. rows \in Seq(FlowType) /\ rows' = Append(rows, flow)
    BY <1>1 DEF TypeOK, handleFinishedFlow
  <2> QED
    BY <2>1
<1>2. CASE ~ flow_callback
  BY <1>2 DEF handleFinishedFlow
<1> QED
  BY <1>1, <1>2

\* No flow outlives the flow timeout, in ordered and unordered captures.
THEOREM FlowsBounded ==
  ASSUME FlowTimeout + MaxTime < Wrap
  PROVE  Spec => []DurationBounded
<1> DEFINE B == EntriesAndRowsBounded
<1>1. Init => B
  BY DEF Init, EntriesAndRowsBounded, Keys
<1>2. Consistent /\ B /\ [Next]_vars => B'
  <2> SUFFICES ASSUME Consistent, B, [Next]_vars PROVE B'
    OBVIOUS
  <2>1. TypeOK /\ \A k \in Keys : current_flows[k].flow \in FlowType
    BY DEF Consistent, TypeOK, EntryType
  <2>2. CASE \E pkt \in Packets : AddPacket(pkt)
    <3>1. PICK pkt \in Packets : AddPacket(pkt)
      BY <2>2
    <3>2. pkt \in PacketType
      BY FlowGeneratorAssumption
    <3> DEFINE k == MatchedKey(pkt)
               old == MatchedFlow(pkt)
    <3>3. CASE StartFlow(pkt)
      <4>1. current_flows' = Insert(k, NewFlow(pkt)) /\ rows' = rows
        BY <3>3 DEF StartFlow, output
      <4>2. Bounded(NewFlow(pkt))
        BY <3>2, SplitFlowBounded DEF NewFlow
      <4> QED
        BY <4>1, <4>2 DEF EntriesAndRowsBounded, Insert, Keys
    <3>4. CASE SplitOnTimeout(pkt)
      <4> DEFINE new == [SplitFlow(pkt, FlowTuple(old)) EXCEPT !.flow_id = old.flow_id]
      <4>1. current_flows' = Insert(k, new) /\ k \in Keys
        BY <3>4 DEF SplitOnTimeout
      <4>2. Bounded(new)
        BY <3>2, SplitFlowBounded
      <4>3. \A i \in DOMAIN rows' : Bounded(rows'[i])
        <5>1. old \in FlowType /\ Bounded(old)
          BY <2>1, <4>1 DEF MatchedFlow, EntriesAndRowsBounded
        <5>2. handleFinishedFlow(old) \/ rows' = rows
          BY <3>4 DEF SplitOnTimeout, output
        <5> QED
          BY <2>1, <5>1, <5>2, ReportBounded DEF EntriesAndRowsBounded
      <4> HIDE DEF new
      <4> QED
        BY <4>1, <4>2, <4>3 DEF EntriesAndRowsBounded, Insert, Keys
    <3>5. CASE ContinueFlow(pkt) \/ FinishFlow(pkt)
      <4> DEFINE new == addPacket(old, pkt)
      <4>1. k \in Keys /\ ~ Expired(old, pkt)
        BY <3>5 DEF ContinueFlow, FinishFlow
      <4>2. new \in FlowType /\ Bounded(new)
        BY <2>1, <3>2, <4>1, addPacketType, NotExpiredBounds DEF MatchedFlow
      <4>3. CASE ContinueFlow(pkt)
        <5>1. current_flows' = [current_flows EXCEPT ![k].flow = new] /\ rows' = rows
          BY <4>3 DEF ContinueFlow, output
        <5>2. current_flows \in [Keys -> EntryType]
          BY <2>1 DEF TypeOK
        <5> HIDE DEF new
        <5>3. /\ Keys' = Keys /\ current_flows'[k].flow = new
              /\ \A j \in Keys \ {k} : current_flows'[j] = current_flows[j]
          BY <4>1, <5>1, <5>2 DEF EntryType, Keys
        <5> QED
          BY <4>2, <5>1, <5>3 DEF EntriesAndRowsBounded
      <4>4. CASE FinishFlow(pkt)
        <5>1. current_flows' = Erase(k) /\ handleFinishedFlow(new)
          BY <4>4 DEF FinishFlow
        <5> HIDE DEF new
        <5>2. \A i \in DOMAIN rows' : Bounded(rows'[i])
          BY <2>1, <4>2, <5>1, ReportBounded DEF EntriesAndRowsBounded
        <5> QED
          BY <5>1, <5>2 DEF EntriesAndRowsBounded, Erase, Keys
      <4> QED
        BY <3>5, <4>3, <4>4
    <3> QED
      BY <3>1, <3>3, <3>4, <3>5 DEF AddPacket
  <2>3. CASE \E k \in pending : FinishOne(k)
    <3>1. PICK k \in pending : FinishOne(k)
      BY <2>3
    <3> DEFINE flow == current_flows[k].flow
    <3>2. current_flows' = current_flows /\ Keys' = Keys
      BY <3>1 DEF FinishOne, table, Keys
    <3>3. flow \in FlowType /\ Bounded(flow)
      BY <2>1 DEF TypeOK, EntriesAndRowsBounded
    <3>4. handleFinishedFlow(flow) \/ rows' = rows
      BY <3>1 DEF FinishOne, output
    <3> HIDE DEF flow
    <3>5. \A i \in DOMAIN rows' : Bounded(rows'[i])
      BY <2>1, <3>3, <3>4, ReportBounded DEF EntriesAndRowsBounded
    <3> QED
      BY <3>2, <3>5 DEF EntriesAndRowsBounded
  <2>4. CASE ClearFlows
    BY <2>4 DEF ClearFlows, output, EntriesAndRowsBounded, Keys
  <2>5. CASE SetStoreFinishedFlows \/ SetFlowCallback \/ ReadFails \/ BeginFinishAllFlows
    BY <2>5 DEF SetStoreFinishedFlows, SetFlowCallback, ReadFails, BeginFinishAllFlows,
                table, output, EntriesAndRowsBounded, Keys
  <2>6. CASE Terminated \/ UNCHANGED vars
    BY <2>6 DEF Terminated, vars, table, output, EntriesAndRowsBounded, Keys
  <2> QED
    BY <2>2, <2>3, <2>4, <2>5, <2>6 DEF Next
<1>3. Consistent /\ B => DurationBounded
  BY DEF Consistent, TypeOK, EntriesAndRowsBounded, DurationBounded, AllFlows, LiveFlows,
         LiveKeys, RowFlows, Bounded
<1> HIDE DEF B
<1> QED
  BY <1>1, <1>2, <1>3, FlowGeneratorConsistent, PTL DEF Spec

=============================================================================
