-------------------------- MODULE FlowRefinementProofs --------------------------
(***************************************************************************)
(* The flow table implements its two abstract specifications, FlowCounts   *)
(* and ConnectionLedger, for every set of packets and both timeouts.       *)
(***************************************************************************)
EXTENDS FlowRefinement, FlowGeneratorProofs

-----------------------------------------------------------------------------
(* What each branch of addPacket does to the table *)

\* The state in which a packet arrives, and the key it is looked up under.
LEMMA LookupFacts ==
  ASSUME Consistent, NEW pkt \in Packets, Arrives(pkt)
  PROVE  /\ pkt \in PacketType
         /\ TypeOK /\ EntriesBelong
         /\ phase = "capturing" /\ phase' = "capturing"
         /\ LiveKeys = Keys /\ LiveKeys' = Keys'
         /\ IsFiniteSet(Keys) /\ Cardinality(Keys) \in Nat
         /\ MatchedKey(pkt) \in FlowKey
<1>1. phase = "capturing" /\ phase' = "capturing"
  BY ArrivalFacts
<1>2. IsFiniteSet(Keys) /\ Cardinality(Keys) \in Nat
  BY FS_CardinalityType DEF Consistent, TableConsistent
<1> QED
  BY <1>1, <1>2, ArrivalFacts, MatchedKeyFacts DEF LiveKeys, Consistent

LEMMA StartFacts ==
  ASSUME Consistent, NEW pkt \in Packets, StartFlow(pkt)
  PROVE  /\ Keys' = Keys \cup {MatchedKey(pkt)}
         /\ current_flows'[MatchedKey(pkt)].flow = NewFlow(pkt)
         /\ \A j \in Keys : current_flows'[j] = current_flows[j]
<1> DEFINE new == NewFlow(pkt)
<1>1. current_flows' = Insert(MatchedKey(pkt), new) /\ MatchedKey(pkt) \notin Keys
  BY DEF StartFlow
<1> HIDE DEF new
<1>2. Keys' = Keys \cup {MatchedKey(pkt)}
  BY <1>1 DEF Insert, Keys
<1>3. current_flows'[MatchedKey(pkt)].flow = new
  BY <1>1 DEF Insert
<1>4. \A j \in Keys : current_flows'[j] = current_flows[j]
  BY <1>1 DEF Insert
<1> QED
  BY <1>2, <1>3, <1>4 DEF new

\* The flow that SplitOnTimeout puts in the place of the expired one.
Replacement(pkt) ==
  [SplitFlow(pkt, FlowTuple(MatchedFlow(pkt))) EXCEPT !.flow_id = MatchedFlow(pkt).flow_id]

LEMMA SplitFacts ==
  ASSUME Consistent, NEW pkt \in Packets, SplitOnTimeout(pkt)
  PROVE  /\ MatchedKey(pkt) \in Keys /\ Keys' = Keys
         /\ current_flows'[MatchedKey(pkt)].flow = Replacement(pkt)
         /\ \A j \in Keys \ {MatchedKey(pkt)} : current_flows'[j] = current_flows[j]
         /\ BelongsTo(MatchedFlow(pkt), MatchedKey(pkt))
         /\ handleFinishedFlow(MatchedFlow(pkt))
<1>1. /\ Arrives(pkt) /\ MatchedKey(pkt) \in Keys
      /\ current_flows' = Insert(MatchedKey(pkt), Replacement(pkt))
  BY DEF SplitOnTimeout, Replacement
<1>2. BelongsTo(MatchedFlow(pkt), MatchedKey(pkt))
  BY <1>1, LookupFacts DEF EntriesBelong, MatchedFlow
<1>3. handleFinishedFlow(MatchedFlow(pkt))
  BY <1>2 DEF SplitOnTimeout, BelongsTo
<1>4. Keys' = Keys
  BY <1>1 DEF Insert, Keys
<1>5. current_flows'[MatchedKey(pkt)].flow = Replacement(pkt)
  BY <1>1 DEF Insert
<1>6. \A j \in Keys \ {MatchedKey(pkt)} : current_flows'[j] = current_flows[j]
  BY <1>1 DEF Insert
<1> QED
  BY <1>1, <1>2, <1>3, <1>4, <1>5, <1>6

LEMMA ContinueFacts ==
  ASSUME Consistent, NEW pkt \in Packets, ContinueFlow(pkt)
  PROVE  /\ MatchedKey(pkt) \in Keys /\ Keys' = Keys
         /\ current_flows'[MatchedKey(pkt)].flow = addPacket(MatchedFlow(pkt), pkt)
         /\ \A j \in Keys \ {MatchedKey(pkt)} : current_flows'[j] = current_flows[j]
         /\ BelongsTo(MatchedFlow(pkt), MatchedKey(pkt))
<1> DEFINE k == MatchedKey(pkt)
           new == addPacket(MatchedFlow(pkt), pkt)
<1>1. /\ Arrives(pkt) /\ k \in Keys
      /\ current_flows' = [current_flows EXCEPT ![k].flow = new]
  BY DEF ContinueFlow
<1>2. BelongsTo(MatchedFlow(pkt), k)
  BY <1>1, LookupFacts DEF EntriesBelong, MatchedFlow
<1>3. current_flows \in [Keys -> EntryType]
  BY DEF Consistent, TypeOK
<1> HIDE DEF k, new
<1>4. Keys' = Keys
  BY <1>1, <1>3 DEF Keys
<1>5. current_flows'[k].flow = new /\ \A j \in Keys \ {k} : current_flows'[j] = current_flows[j]
  BY <1>1, <1>3 DEF EntryType
<1> QED
  BY <1>1, <1>2, <1>4, <1>5 DEF k, new

LEMMA FinishFacts ==
  ASSUME Consistent, NEW pkt \in Packets, FinishFlow(pkt)
  PROVE  /\ MatchedKey(pkt) \in Keys /\ Keys' = Keys \ {MatchedKey(pkt)}
         /\ \A j \in Keys \ {MatchedKey(pkt)} : current_flows'[j] = current_flows[j]
         /\ BelongsTo(MatchedFlow(pkt), MatchedKey(pkt))
         /\ BelongsTo(addPacket(MatchedFlow(pkt), pkt), MatchedKey(pkt))
         /\ handleFinishedFlow(addPacket(MatchedFlow(pkt), pkt))
<1> DEFINE k == MatchedKey(pkt)
           new == addPacket(MatchedFlow(pkt), pkt)
<1>1. /\ Arrives(pkt) /\ k \in Keys
      /\ current_flows' = Erase(k)
      /\ handleFinishedFlow(new)
  BY DEF FinishFlow
<1>2. BelongsTo(MatchedFlow(pkt), k)
  BY <1>1, LookupFacts DEF EntriesBelong, MatchedFlow
<1>3. BelongsTo(new, k)
  BY <1>1, <1>2, LookupFacts, addPacketBelongs
<1> HIDE DEF k, new
<1>4. Keys' = Keys \ {k} /\ \A j \in Keys \ {k} : current_flows'[j] = current_flows[j]
  BY <1>1 DEF Erase, Keys
<1> QED
  BY <1>1, <1>2, <1>3, <1>4 DEF k, new

\* One turn of finishAllFlows reports the flow it visits.
LEMMA FinishOneFacts ==
  ASSUME Consistent, NEW k \in pending, FinishOne(k)
  PROVE  /\ phase = "finishing" /\ phase' = "finishing"
         /\ LiveKeys = pending /\ LiveKeys' = pending \ {k} /\ k \in Keys
         /\ IsFiniteSet(pending)
         /\ current_flows' = current_flows
         /\ next_insertion_order' = next_insertion_order
         /\ BelongsTo(current_flows[k].flow, k)
         /\ handleFinishedFlow(current_flows[k].flow)
<1>1. /\ UNCHANGED << table, phase >>
      /\ phase = "finishing" /\ pending' = pending \ {k}
      /\ k \in Keys
  BY DEF FinishOne, Consistent, TypeOK
<1>2. BelongsTo(current_flows[k].flow, k)
  BY <1>1 DEF BelongsTo, Consistent, TypeOK, EntryType, FlowMatchesKey, TableConsistent
<1>3. handleFinishedFlow(current_flows[k].flow)
  BY <1>2 DEF FinishOne, BelongsTo
<1>4. IsFiniteSet(pending)
  BY FS_Subset DEF Consistent, TypeOK, TableConsistent
<1> QED
  BY <1>1, <1>2, <1>3, <1>4 DEF LiveKeys, table

-----------------------------------------------------------------------------
(* Counts *)

\* The calls that do not touch a flow keep the flows that are still to report.
LEMMA OtherStepsKeepLive ==
  ASSUME Consistent,
         \/ SetStoreFinishedFlows \/ SetFlowCallback \/ ReadFails \/ BeginFinishAllFlows
         \/ ClearFlows \/ Terminated \/ UNCHANGED vars
  PROVE  /\ LiveKeys' = LiveKeys
         /\ \A k \in LiveKeys : current_flows'[k] = current_flows[k]
         /\ UNCHANGED << next_insertion_order, finished_flow_count, rows >>
         /\ ~ BeginFinishAllFlows =>
              (phase' \in {"finishing", "finished"} <=> phase \in {"finishing", "finished"})
         /\ ~ BeginFinishAllFlows /\ ~ ReadFails => Stage' = Stage
<1> USE DEF LiveKeys, Stage, table, output
<1>1. CASE SetStoreFinishedFlows \/ SetFlowCallback
  BY <1>1 DEF SetStoreFinishedFlows, SetFlowCallback, Keys
<1>2. CASE BeginFinishAllFlows
  BY <1>2 DEF BeginFinishAllFlows, Keys
<1>3. CASE ClearFlows
  BY <1>3 DEF ClearFlows, Keys
<1>4. CASE Terminated \/ UNCHANGED vars
  BY <1>4 DEF Terminated, vars, Keys
<1>5. CASE ReadFails
  BY <1>5 DEF ReadFails, Keys
<1> QED
  BY <1>1, <1>2, <1>3, <1>4, <1>5

LEMMA PacketRefinesCounts ==
  ASSUME Consistent, NEW pkt \in Packets, AddPacket(pkt)
  PROVE  [Counts!Next]_(Counts!vars)
<1> DEFINE k == MatchedKey(pkt)
<1>1. Arrives(pkt)
  BY DEF AddPacket, StartFlow, SplitOnTimeout, ContinueFlow, FinishFlow
<1>2. /\ phase = "capturing" /\ phase' = "capturing"
      /\ LiveKeys = Keys /\ LiveKeys' = Keys'
      /\ IsFiniteSet(Keys) /\ Cardinality(Keys) \in Nat
  BY <1>1, LookupFacts
<1>3. k \in Keys => Cardinality(Keys) > 0
  BY <1>2, FS_EmptySet
<1>4. CASE StartFlow(pkt)
  <2>1. Cardinality(Keys') = Cardinality(Keys) + 1
    BY <1>2, <1>4, StartFacts, FS_AddElement DEF StartFlow
  <2>2. next_insertion_order' = next_insertion_order + 1 /\ UNCHANGED finished_flow_count
    BY <1>4 DEF StartFlow, output
  <2>3. Counts!Start
    BY <1>2, <2>1, <2>2 DEF Counts!Start
  <2> QED
    BY <2>3 DEF Counts!Next
<1>5. CASE SplitOnTimeout(pkt)
  <2>1. Keys' = Keys /\ k \in Keys /\ finished_flow_count' = finished_flow_count + 1
    BY <1>5, SplitFacts DEF handleFinishedFlow
  <2>2. next_insertion_order' = next_insertion_order + 1
    BY <1>5 DEF SplitOnTimeout
  <2>3. Counts!Split
    BY <1>2, <1>3, <2>1, <2>2 DEF Counts!Split
  <2> QED
    BY <2>3 DEF Counts!Next
<1>6. CASE ContinueFlow(pkt)
  <2>1. Keys' = Keys /\ UNCHANGED << next_insertion_order, finished_flow_count >>
    BY <1>6, ContinueFacts DEF ContinueFlow, output
  <2> QED
    BY <1>2, <2>1 DEF Counts!vars
<1>7. CASE FinishFlow(pkt)
  <2>1. /\ Cardinality(Keys') = Cardinality(Keys) - 1
        /\ k \in Keys /\ finished_flow_count' = finished_flow_count + 1
    BY <1>2, <1>7, FinishFacts, FS_RemoveElement DEF handleFinishedFlow
  <2>2. UNCHANGED next_insertion_order
    BY <1>7 DEF FinishFlow
  <2>3. Counts!Report
    BY <1>2, <1>3, <2>1, <2>2 DEF Counts!Report
  <2> QED
    BY <2>3 DEF Counts!Next
<1> QED
  BY <1>4, <1>5, <1>6, <1>7 DEF AddPacket

\* FlowGenerator.cpp:54-118: the counts of the table change one flow at a time,
\* and a flow is reported once.
THEOREM TableImplementsCounts == Spec => ImplementsCounts
<1>1. Init => Counts!Init
  BY FS_EmptySet DEF Init, Counts!Init, LiveKeys, Keys
<1>2. Consistent /\ [Next]_vars => [Counts!Next]_(Counts!vars)
  <2> SUFFICES ASSUME Consistent, [Next]_vars PROVE [Counts!Next]_(Counts!vars)
    OBVIOUS
  <2>1. CASE \E pkt \in Packets : AddPacket(pkt)
    BY <2>1, PacketRefinesCounts
  <2>2. CASE \E k \in pending : FinishOne(k)
    <3>1. PICK k \in pending : FinishOne(k)
      BY <2>2
    <3>2. /\ phase = "finishing" /\ phase' = "finishing"
          /\ LiveKeys = pending /\ LiveKeys' = pending \ {k}
          /\ IsFiniteSet(pending)
          /\ next_insertion_order' = next_insertion_order
          /\ finished_flow_count' = finished_flow_count + 1
      BY <3>1, FinishOneFacts DEF handleFinishedFlow
    <3>3. /\ Cardinality(pending \ {k}) = Cardinality(pending) - 1
          /\ Cardinality(pending) \in Nat /\ Cardinality(pending) # 0
      BY <3>2, FS_RemoveElement, FS_CardinalityType, FS_EmptySet
    <3>4. Counts!Report
      BY <3>2, <3>3 DEF Counts!Report
    <3> QED
      BY <3>4 DEF Counts!Next
  <2>3. CASE BeginFinishAllFlows
    <3>1. /\ phase = "capturing" /\ phase' \in {"finishing", "finished"}
          /\ LiveKeys' = LiveKeys
          /\ UNCHANGED << next_insertion_order, finished_flow_count >>
      BY <2>3, OtherStepsKeepLive DEF BeginFinishAllFlows
    <3>2. Counts!BeginDrain
      BY <3>1 DEF Counts!BeginDrain
    <3> QED
      BY <3>2 DEF Counts!Next
  <2>4. CASE /\ ~ BeginFinishAllFlows
             /\ \/ SetStoreFinishedFlows \/ SetFlowCallback \/ ReadFails
                \/ ClearFlows \/ Terminated \/ UNCHANGED vars
    BY <2>4, OtherStepsKeepLive DEF Counts!vars
  <2> QED
    BY <2>1, <2>2, <2>3, <2>4 DEF Next
<1> QED
  BY FlowGeneratorConsistent, <1>1, <1>2, PTL DEF Spec, ImplementsCounts, Counts!Spec

-----------------------------------------------------------------------------
(* Connections *)

\* The two keys of a connection, and no others, stand for it.
LEMMA ConnectionOfReverse ==
  ASSUME NEW k
  PROVE  Connection(Reverse(k)) = Connection(k)
BY DEF Connection, Reverse

LEMMA SameConnection ==
  ASSUME NEW j \in FlowKey, NEW k \in FlowKey, Connection(j) = Connection(k)
  PROVE  j = k \/ j = Reverse(k)
<1>1. /\ {<< j.src_ip, j.src_port >>, << j.dst_ip, j.dst_port >>}
           = {<< k.src_ip, k.src_port >>, << k.dst_ip, k.dst_port >>}
      /\ j.protocol = k.protocol
  BY DEF Connection
<1>2. \/ /\ << j.src_ip, j.src_port >> = << k.src_ip, k.src_port >>
         /\ << j.dst_ip, j.dst_port >> = << k.dst_ip, k.dst_port >>
      \/ /\ << j.src_ip, j.src_port >> = << k.dst_ip, k.dst_port >>
         /\ << j.dst_ip, j.dst_port >> = << k.src_ip, k.src_port >>
  BY <1>1
<1> QED
  BY <1>1, <1>2 DEF FlowKey, Reverse

LEMMA UniqueKey ==
  ASSUME Consistent, NEW j \in Keys, NEW k \in Keys, Connection(j) = Connection(k)
  PROVE  j = k
BY SameConnection DEF Consistent, TypeOK, OneFlowPerConnection

\* Every packet of the capture belongs to a connection.
LEMMA MatchedConnection ==
  ASSUME NEW pkt \in Packets
  PROVE  Connection(MatchedKey(pkt)) \in Connections
<1>1. MatchedKey(pkt) = fwdFlowId(pkt) \/ MatchedKey(pkt) = Reverse(fwdFlowId(pkt))
  BY DEF MatchedKey, makeFlowKey
<1> QED
  BY <1>1, ConnectionOfReverse DEF Connections

KeysKnown == \A k \in Keys : Connection(k) \in Connections

LEMMA KeysStayKnown == Consistent /\ KeysKnown /\ [Next]_vars => KeysKnown'
<1> SUFFICES ASSUME Consistent, KeysKnown, [Next]_vars PROVE KeysKnown'
  OBVIOUS
<1>1. ASSUME NEW pkt \in Packets, AddPacket(pkt)
      PROVE  Keys' \subseteq Keys \cup {MatchedKey(pkt)}
  BY <1>1, StartFacts, SplitFacts, ContinueFacts, FinishFacts DEF AddPacket
<1>2. CASE \E pkt \in Packets : AddPacket(pkt)
  BY <1>1, <1>2, MatchedConnection DEF KeysKnown
<1>3. CASE ~ \E pkt \in Packets : AddPacket(pkt)
  <2>1. Keys' = Keys \/ Keys' = {}
    BY <1>3 DEF Next, SetStoreFinishedFlows, SetFlowCallback, ReadFails,
                BeginFinishAllFlows, FinishOne, ClearFlows, Terminated, vars, table, Keys
  <2> QED
    BY <2>1 DEF KeysKnown
<1> QED
  BY <1>2, <1>3

-----------------------------------------------------------------------------
(* The ledger *)

\* The abstract variables `open' and `reported'.
Open == [c \in Connections |-> OpenPackets(c)]

Reported == [i \in DOMAIN rows |-> Report(rows[i])]

LiveKeysOpen ==
  \A k \in LiveKeys : OpenPackets(Connection(k)) = packetCount(current_flows[k].flow)

LEMMA OpenIsLive == Consistent => LiveKeysOpen
<1> SUFFICES ASSUME Consistent, NEW k \in LiveKeys
             PROVE  OpenPackets(Connection(k)) = packetCount(current_flows[k].flow)
  BY DEF LiveKeysOpen
<1> DEFINE j == CHOOSE i \in LiveKeys : Connection(i) = Connection(k)
<1>1. j \in LiveKeys /\ Connection(j) = Connection(k)
  OBVIOUS
<1>2. OpenPackets(Connection(k)) = packetCount(current_flows[j].flow)
  BY DEF OpenPackets
<1> HIDE DEF j
<1>3. j = k
  BY <1>1, UniqueKey DEF LiveKeys, Consistent, TypeOK
<1> QED
  BY <1>2, <1>3

\* A step that changes the live flows of one connection only.
LEMMA OthersKeep ==
  ASSUME Consistent, Consistent', NEW c, NEW d, d # c,
         \A k : Connection(k) # c => (k \in LiveKeys' <=> k \in LiveKeys),
         \A k \in LiveKeys : Connection(k) # c => current_flows'[k] = current_flows[k]
  PROVE  OpenPackets(d)' = OpenPackets(d)
<1>1. LiveKeysOpen /\ LiveKeysOpen'
  BY OpenIsLive, PTL
<1>2. CASE \E k \in LiveKeys : Connection(k) = d
  <2>1. PICK k \in LiveKeys : Connection(k) = d
    BY <1>2
  <2>2. k \in LiveKeys' /\ current_flows'[k] = current_flows[k]
    BY <2>1
  <2>3. OpenPackets(d) = packetCount(current_flows[k].flow)
    BY <1>1, <2>1 DEF LiveKeysOpen
  <2>4. OpenPackets(d)' = packetCount(current_flows'[k].flow)
    BY <1>1, <2>1, <2>2 DEF LiveKeysOpen
  <2> QED
    BY <2>2, <2>3, <2>4
<1>3. CASE ~ \E k \in LiveKeys : Connection(k) = d
  <2>1. ~ \E k \in LiveKeys' : Connection(k) = d
    BY <1>3
  <2> QED
    BY <1>3, <2>1 DEF OpenPackets
<1> QED
  BY <1>2, <1>3

LEMMA OpenChanges ==
  ASSUME Consistent, Consistent', NEW c \in Connections, NEW n, OpenPackets(c)' = n,
         \A k : Connection(k) # c => (k \in LiveKeys' <=> k \in LiveKeys),
         \A k \in LiveKeys : Connection(k) # c => current_flows'[k] = current_flows[k]
  PROVE  Open' = [Open EXCEPT ![c] = n]
<1>1. \A d \in Connections : d # c => OpenPackets(d)' = OpenPackets(d)
  BY OthersKeep
<1> QED
  BY <1>1 DEF Open

LEMMA ReportAppends ==
  ASSUME TypeOK, flow_callback, NEW flow \in FlowType, handleFinishedFlow(flow)
  PROVE  Reported' = Append(Reported, Report(flow))
<1>1. rows \in Seq(FlowType) /\ rows' = Append(rows, flow)
  BY ReportFacts DEF TypeOK
<1>2. DOMAIN rows = 1 .. Len(rows) /\ Len(rows) \in Nat
  BY <1>1
<1>3. Reported = [i \in 1 .. Len(rows) |-> Report(rows[i])]
  BY <1>2 DEF Reported
<1>4. Reported' = [i \in 1 .. Len(rows) + 1 |->
                     IF i = Len(rows) + 1 THEN Report(flow) ELSE Report(rows[i])]
  <2>1. DOMAIN rows' = 1 .. Len(rows) + 1
    BY <1>1
  <2>2. \A i \in DOMAIN rows' : rows'[i] = IF i = Len(rows) + 1 THEN flow ELSE rows[i]
    BY <1>1
  <2> QED
    BY <2>1, <2>2 DEF Reported
<1> HIDE DEF Report
<1>5. Append(Reported, Report(flow))
        = [i \in 1 .. Len(rows) + 1 |->
             IF i = Len(rows) + 1 THEN Report(flow) ELSE Report(rows[i])]
  BY <1>2, <1>3
<1> QED
  BY <1>4, <1>5

LEMMA ReplacementCounts ==
  ASSUME NEW pkt \in PacketType, BelongsTo(MatchedFlow(pkt), MatchedKey(pkt)),
         MatchedKey(pkt) \in FlowKey
  PROVE  packetCount(Replacement(pkt)) = 1
<1> DEFINE new == SplitFlow(pkt, FlowTuple(MatchedFlow(pkt)))
<1>1. new \in FlowType /\ packetCount(new) = 1
  BY SplitFlowType, SplitFlowCounts DEF BelongsTo
<1> HIDE DEF new
<1>2. packetCount([new EXCEPT !.flow_id = MatchedFlow(pkt).flow_id]) = 1
  BY <1>1 DEF FlowType, packetCount
<1> QED
  BY <1>2 DEF Replacement, new

LEMMA NewFlowCounts ==
  ASSUME NEW pkt \in PacketType
  PROVE  packetCount(NewFlow(pkt)) = 1
BY KeyType, SplitFlowCounts DEF NewFlow, makeFlowKey

\* A branch of addPacket is a step of the ledger for the packet's connection.
LEMMA PacketRefinesLedger ==
  ASSUME Consistent, Consistent', NEW pkt \in Packets, AddPacket(pkt)
  PROVE  Ledger!Next
<1>k. PICK k : k = MatchedKey(pkt)
  OBVIOUS
<1>c. PICK c : c = Connection(k)
  OBVIOUS
<1> DEFINE old == MatchedFlow(pkt)
<1>1. Arrives(pkt)
  BY DEF AddPacket, StartFlow, SplitOnTimeout, ContinueFlow, FinishFlow
<1>2. /\ pkt \in PacketType /\ TypeOK /\ EntriesBelong
      /\ phase = "capturing" /\ phase' = "capturing"
      /\ LiveKeys = Keys /\ LiveKeys' = Keys'
      /\ k \in FlowKey /\ flow_callback
  BY <1>k, <1>c, <1>1, LookupFacts, ArrivalFacts
<1>3. c \in Connections /\ LiveKeysOpen /\ LiveKeysOpen'
  <2>1. LiveKeysOpen /\ LiveKeysOpen'
    BY OpenIsLive, PTL
  <2> QED
    BY <1>k, <1>c, <2>1, MatchedConnection
<1>4. k \in Keys => Open[c] = packetCount(old) /\ packetCount(old) > 0
  BY <1>k, <1>c, <1>2, <1>3 DEF Open, LiveKeysOpen, MatchedFlow, EntriesBelong, BelongsTo
<1>s. Stage = "open" /\ Stage' = "open"
  BY <1>2 DEF Stage
<1>5. CASE StartFlow(pkt)
  <2>1. /\ Keys' = Keys \cup {k}
        /\ current_flows'[k].flow = NewFlow(pkt)
        /\ \A j \in Keys : current_flows'[j] = current_flows[j]
    BY <1>k, <1>c, <1>5, StartFacts
  <2>2. k \notin Keys /\ Reverse(k) \notin Keys
    BY <1>k, <1>c, <1>2, <1>5, MatchedKeyFacts DEF StartFlow
  <2>3. Open[c] = 0
    <3>1. ~ \E j \in LiveKeys : Connection(j) = c
      BY <1>k, <1>c, <1>2, <2>2, SameConnection DEF TypeOK
    <3> QED
      BY <1>3, <3>1 DEF Open, OpenPackets
  <2>4. OpenPackets(c)' = 1
    BY <1>k, <1>c, <1>2, <1>3, <2>1, NewFlowCounts DEF LiveKeysOpen
  <2>5. Open' = [Open EXCEPT ![c] = Open[c] + 1]
    <3>1. Open' = [Open EXCEPT ![c] = 1]
      BY <1>k, <1>c, <1>2, <1>3, <2>1, <2>4, OpenChanges
    <3> QED
      BY <2>3, <3>1
  <2>6. Reported' = Reported
    BY <1>5 DEF StartFlow, output, Reported
  <2>7. Ledger!Count(c)
    BY <1>s, <2>3, <2>5, <2>6 DEF Ledger!Count, Open, Reported
  <2> QED
    BY <1>3, <2>7 DEF Ledger!Next
<1>6. CASE SplitOnTimeout(pkt)
  <2>1. /\ k \in Keys /\ Keys' = Keys
        /\ current_flows'[k].flow = Replacement(pkt)
        /\ \A j \in Keys \ {k} : current_flows'[j] = current_flows[j]
        /\ BelongsTo(old, k)
        /\ handleFinishedFlow(old)
    BY <1>k, <1>c, <1>6, SplitFacts
  <2>2. OpenPackets(c)' = 1
    BY <1>k, <1>c, <1>2, <1>3, <2>1, ReplacementCounts DEF LiveKeysOpen
  <2>3. Open' = [Open EXCEPT ![c] = 1]
    BY <1>k, <1>c, <1>2, <1>3, <2>1, <2>2, OpenChanges
  <2>4. Reported' = Append(Reported, Ledger!Record(c, Open[c]))
    BY <1>k, <1>c, <1>2, <1>4, <2>1, ReportAppends DEF BelongsTo, Report, Ledger!Record
  <2>5. Ledger!CloseAndCount(c)
    BY <1>s, <1>4, <2>1, <2>3, <2>4 DEF Ledger!CloseAndCount, Open, Reported
  <2> QED
    BY <1>3, <2>5 DEF Ledger!Next
<1>7. CASE ContinueFlow(pkt)
  <2>1. /\ k \in Keys /\ Keys' = Keys
        /\ current_flows'[k].flow = addPacket(old, pkt)
        /\ \A j \in Keys \ {k} : current_flows'[j] = current_flows[j]
        /\ BelongsTo(old, k)
    BY <1>k, <1>c, <1>7, ContinueFacts
  <2>2. OpenPackets(c)' = Open[c] + 1
    BY <1>k, <1>c, <1>2, <1>3, <1>4, <2>1, addPacketCounts DEF LiveKeysOpen, BelongsTo
  <2>3. Open' = [Open EXCEPT ![c] = Open[c] + 1]
    BY <1>k, <1>c, <1>2, <1>3, <2>1, <2>2, OpenChanges
  <2>4. Reported' = Reported
    BY <1>7 DEF ContinueFlow, output, Reported
  <2>5. Ledger!Count(c)
    BY <1>s, <2>3, <2>4 DEF Ledger!Count, Open, Reported
  <2> QED
    BY <1>3, <2>5 DEF Ledger!Next
<1>8. CASE FinishFlow(pkt)
  <2> DEFINE new == addPacket(old, pkt)
  <2>1. /\ k \in Keys /\ Keys' = Keys \ {k}
        /\ \A j \in Keys \ {k} : current_flows'[j] = current_flows[j]
        /\ BelongsTo(old, k) /\ BelongsTo(new, k)
        /\ handleFinishedFlow(new)
    BY <1>k, <1>c, <1>8, FinishFacts
  <2>2. packetCount(new) = Open[c] + 1
    BY <1>k, <1>c, <1>2, <1>4, <2>1, addPacketCounts DEF BelongsTo
  <2> HIDE DEF new
  <2>3. OpenPackets(c)' = 0
    <3>1. ~ \E j \in LiveKeys' : Connection(j) = c
      BY <1>k, <1>c, <1>2, <2>1, UniqueKey
    <3> QED
      BY <3>1 DEF OpenPackets
  <2>4. Open' = [Open EXCEPT ![c] = 0]
    BY <1>k, <1>c, <1>2, <1>3, <2>1, <2>3, OpenChanges
  <2>5. Reported' = Append(Reported, Ledger!Record(c, Open[c] + 1))
    BY <1>k, <1>c, <1>2, <2>1, <2>2, ReportAppends DEF BelongsTo, Report, Ledger!Record
  <2>6. Ledger!CountAndClose(c)
    BY <1>s, <1>4, <2>1, <2>4, <2>5 DEF Ledger!CountAndClose, Open, Reported
  <2> QED
    BY <1>3, <2>6 DEF Ledger!Next
<1> QED
  BY <1>5, <1>6, <1>7, <1>8 DEF AddPacket

LEMMA FinishOneRefinesLedger ==
  ASSUME Consistent, Consistent', KeysKnown, NEW k \in pending, FinishOne(k)
  PROVE  Ledger!Next
<1> DEFINE c == Connection(k)
           flow == current_flows[k].flow
<1>1. /\ phase = "finishing" /\ phase' = "finishing"
      /\ LiveKeys = pending /\ LiveKeys' = pending \ {k} /\ k \in Keys
      /\ current_flows' = current_flows
      /\ BelongsTo(flow, k)
      /\ handleFinishedFlow(flow)
  BY FinishOneFacts
<1>2. /\ c \in Connections /\ LiveKeysOpen /\ TypeOK /\ flow_callback
      /\ pending \subseteq Keys
  BY <1>1, OpenIsLive DEF KeysKnown, Consistent, TypeOK, TableConsistent
<1>3. Open[c] = packetCount(flow) /\ packetCount(flow) > 0
  BY <1>1, <1>2 DEF Open, LiveKeysOpen, BelongsTo
<1>4. OpenPackets(c)' = 0
  <2>1. ~ \E j \in LiveKeys' : Connection(j) = c
    BY <1>1, <1>2, UniqueKey
  <2> QED
    BY <2>1 DEF OpenPackets
<1>5. Open' = [Open EXCEPT ![c] = 0]
  BY <1>1, <1>2, <1>4, OpenChanges
<1>6. Reported' = Append(Reported, Ledger!Record(c, Open[c]))
  BY <1>1, <1>2, <1>3, ReportAppends DEF BelongsTo, Report, Ledger!Record
<1>s. Stage = "draining" /\ Stage' = "draining"
  BY <1>1 DEF Stage
<1>7. Ledger!Drain(c)
  BY <1>s, <1>3, <1>5, <1>6 DEF Ledger!Drain, Open, Reported
<1> QED
  BY <1>2, <1>7 DEF Ledger!Next

\* The steps without a packet or a report change no record of the ledger.
LEMMA OtherStepsKeepLedger ==
  ASSUME Consistent, Consistent', LiveKeys' = LiveKeys,
         \A k \in LiveKeys : current_flows'[k] = current_flows[k], UNCHANGED rows
  PROVE  Open' = Open /\ Reported' = Reported
<1>1. \A c \in Connections : OpenPackets(c)' = OpenPackets(c)
  <2> SUFFICES ASSUME NEW c \in Connections PROVE OpenPackets(c)' = OpenPackets(c)
    OBVIOUS
  <2> QED
    BY DEF OpenPackets
<1> QED
  BY <1>1 DEF Open, Reported

\* FlowGenerator.cpp:54-118: no packet is lost, counted twice or charged to
\* another connection, whichever endpoint sent it and however its flow ends.
THEOREM TableImplementsLedger == Spec => ImplementsLedger
<1>1. Init => KeysKnown /\ Ledger!Init
  BY DEF Init, KeysKnown, Keys, Ledger!Init, OpenPackets, LiveKeys, Stage
<1>2. Consistent /\ Consistent' /\ KeysKnown /\ [Next]_vars => [Ledger!Next]_(Ledger!vars)
  <2> SUFFICES ASSUME Consistent, Consistent', KeysKnown, [Next]_vars
               PROVE  [Ledger!Next]_(Ledger!vars)
    OBVIOUS
  <2>1. CASE \E pkt \in Packets : AddPacket(pkt)
    BY <2>1, PacketRefinesLedger
  <2>2. CASE \E k \in pending : FinishOne(k)
    BY <2>2, FinishOneRefinesLedger
  <2>3. CASE \/ SetStoreFinishedFlows \/ SetFlowCallback \/ ReadFails
             \/ BeginFinishAllFlows \/ ClearFlows \/ Terminated \/ UNCHANGED vars
    <3>1. Open' = Open /\ Reported' = Reported
      BY <2>3, OtherStepsKeepLive, OtherStepsKeepLedger
    <3>2. CASE BeginFinishAllFlows \/ ReadFails
      <4>1. Stage = "open" /\ Stage' \in {"draining", "failed"}
        BY <3>2 DEF BeginFinishAllFlows, ReadFails, Stage
      <4>2. Ledger!End
        BY <3>1, <4>1 DEF Ledger!End, Open, Reported
      <4> QED
        BY <4>2 DEF Ledger!Next
    <3>3. CASE ~ BeginFinishAllFlows /\ ~ ReadFails
      BY <2>3, <3>1, <3>3, OtherStepsKeepLive DEF Ledger!vars, Open, Reported
    <3> QED
      BY <3>2, <3>3
  <2> QED
    BY <2>1, <2>2, <2>3 DEF Next
<1> QED
  BY FlowGeneratorConsistent, KeysStayKnown, <1>1, <1>2, PTL
  DEF Spec, ImplementsLedger, Ledger!Spec

=============================================================================
