---------------------------- MODULE FlowGenerator ----------------------------
(***************************************************************************)
(* The flow table (include/FlowGenerator.h, src/FlowGenerator.cpp): it     *)
(* assigns each decoded packet to a flow, splits flows that outlive the    *)
(* flow timeout, and hands every finished flow to the callback, which      *)
(* writes one CSV row.  The order of the calls (configure, packets until   *)
(* the capture ends, then finishAllFlows, unless the reader failed) is     *)
(* that of src/main.cpp.                                                   *)
(*                                                                         *)
(* A call runs to its end before the next one, so each branch of addPacket *)
(* is one action.  finishAllFlows is one action per flow: the iteration    *)
(* order of the unordered_map is not specified, and the callback observes  *)
(* the flows one at a time while all of them are still in the table.       *)
(***************************************************************************)
EXTENDS BasicFlow, Sequences, FiniteSets

CONSTANTS
  Packets,      \* the decoded packets a capture may contain
  FlowTimeout,  \* flow_timeout_: longest duration of a flow, in microseconds
  Ordered,      \* TRUE when capture timestamps never decrease
  MaxPackets    \* bound: packets in one capture

ASSUME FlowGeneratorAssumption ==
  /\ Packets \subseteq PacketType
  /\ FlowTimeout \in UInt64
  /\ Ordered \in BOOLEAN
  /\ MaxPackets \in Nat

VARIABLES
  current_flows,         \* key -> [flow, insertion_order]
  finished_flows,        \* flows kept when store_finished_flows is set
  store_finished_flows,
  flow_callback,         \* TRUE once the callback is installed
  finished_flow_count,
  next_insertion_order,
  peak_current_flows,
  rows,                  \* the flows the callback received, in order
  pending,               \* keys finishAllFlows has yet to visit
  phase,                 \* how far main.cpp has come
  packets_read,          \* calls of addPacket so far
  capture_time           \* timestamp of the last packet

table == << current_flows, next_insertion_order, peak_current_flows >>
output == << finished_flows, finished_flow_count, rows >>
config == << store_finished_flows, flow_callback >>
capture == << packets_read, capture_time >>
vars == << table, output, config, capture, pending, phase >>

EntryType == [flow: FlowType, insertion_order: Nat]

Phase ==
  {"constructed", "storage_set", "capturing", "finishing", "finished", "abandoned"}

Init ==
  /\ current_flows = << >>
  /\ finished_flows = << >>
  /\ store_finished_flows = TRUE
  /\ flow_callback = FALSE
  /\ finished_flow_count = 0
  /\ next_insertion_order = 0
  /\ peak_current_flows = 0
  /\ rows = << >>
  /\ pending = {}
  /\ phase = "constructed"
  /\ packets_read = 0
  /\ capture_time = 0

-----------------------------------------------------------------------------
(* The table *)

Keys == DOMAIN current_flows

\* Fault: the reverse key is never looked up.
MatchedKey_ForwardOnly(pkt) == makeFlowKey(pkt, TRUE)

\* The key addPacket works on: the packet's own when a flow has it, else the
\* reverse one when a flow has that, else the packet's own.
MatchedKey(pkt) ==
  IF makeFlowKey(pkt, TRUE) \notin Keys /\ makeFlowKey(pkt, FALSE) \in Keys
  THEN makeFlowKey(pkt, FALSE)
  ELSE makeFlowKey(pkt, TRUE)

MatchedFlow(pkt) == current_flows[MatchedKey(pkt)].flow

Insert(k, flow) ==
  [j \in Keys \cup {k} |->
     IF j = k THEN [flow |-> flow, insertion_order |-> next_insertion_order]
     ELSE current_flows[j]]

Erase(k) == [j \in Keys \ {k} |-> current_flows[j]]

Larger(a, b) == IF a >= b THEN a ELSE b

\* Fault: a flow expires by its silence, not by its duration.
Expired_Idle(flow, pkt) == Elapsed(pkt.time, flow.flow_last_seen) > FlowTimeout

\* The flow timeout: the packet would make the flow longer than FlowTimeout.
Expired(flow, pkt) == Elapsed(pkt.time, flow.flow_start_time) > FlowTimeout

handleFinishedFlow(flow) ==
  /\ finished_flow_count' = finished_flow_count + 1
  /\ finished_flows' = IF store_finished_flows
                       THEN Append(finished_flows, flow) ELSE finished_flows
  /\ rows' = IF flow_callback THEN Append(rows, flow) ELSE rows

-----------------------------------------------------------------------------
(* Configuration: setStoreFinishedFlows(false), then setFlowCallback *)

SetStoreFinishedFlows ==
  /\ phase = "constructed"
  /\ store_finished_flows' = FALSE
  /\ finished_flows' = << >>
  /\ phase' = "storage_set"
  /\ UNCHANGED << table, finished_flow_count, rows, flow_callback, capture, pending >>

SetFlowCallback ==
  /\ phase = "storage_set"
  /\ flow_callback' = TRUE
  /\ phase' = "capturing"
  /\ UNCHANGED << table, output, store_finished_flows, capture, pending >>

-----------------------------------------------------------------------------
(* addPacket: one action per branch *)

\* The reader hands over the next packet of the capture.
Arrives(pkt) ==
  /\ phase = "capturing"
  /\ packets_read < MaxPackets
  /\ Ordered => pkt.time >= capture_time
  /\ packets_read' = packets_read + 1
  /\ capture_time' = pkt.time
  /\ UNCHANGED << config, pending, phase >>

\* No flow matches: a new one starts under the packet's own key.
StartFlow(pkt) ==
  /\ Arrives(pkt)
  /\ MatchedKey(pkt) \notin Keys
  /\ current_flows' = Insert(MatchedKey(pkt), NewFlow(pkt))
  /\ next_insertion_order' = next_insertion_order + 1
  /\ peak_current_flows' = Larger(peak_current_flows, Cardinality(DOMAIN current_flows'))
  /\ UNCHANGED output

\* Fault: the flow after the split takes the packet's orientation.
SplitOnTimeout_Reoriented(pkt) ==
  LET k == MatchedKey(pkt) IN
  /\ Arrives(pkt)
  /\ k \in Keys
  /\ Expired(MatchedFlow(pkt), pkt)
  /\ handleFinishedFlow(MatchedFlow(pkt))
  /\ current_flows' = Insert(k, NewFlow(pkt))
  /\ next_insertion_order' = next_insertion_order + 1
  /\ peak_current_flows' = Larger(peak_current_flows, Cardinality(DOMAIN current_flows'))

\* Fault: the expired flow is replaced without being handed to the callback.
SplitOnTimeout_Unreported(pkt) ==
  LET k == MatchedKey(pkt) IN
  /\ Arrives(pkt)
  /\ k \in Keys
  /\ Expired(MatchedFlow(pkt), pkt)
  /\ current_flows' = Insert(k, [SplitFlow(pkt, FlowTuple(MatchedFlow(pkt)))
                                   EXCEPT !.flow_id = MatchedFlow(pkt).flow_id])
  /\ next_insertion_order' = next_insertion_order + 1
  /\ peak_current_flows' = Larger(peak_current_flows, Cardinality(DOMAIN current_flows'))
  /\ UNCHANGED output

\* Fault: the flow after the split still starts where the old one did.
SplitOnTimeout_OldStart(pkt) ==
  LET k   == MatchedKey(pkt)
      old == MatchedFlow(pkt)
      new == [SplitFlow(pkt, FlowTuple(old)) EXCEPT
                !.flow_id = old.flow_id, !.flow_start_time = old.flow_start_time]
  IN
  /\ Arrives(pkt)
  /\ k \in Keys
  /\ Expired(old, pkt)
  /\ handleFinishedFlow(old)
  /\ current_flows' = Insert(k, new)
  /\ next_insertion_order' = next_insertion_order + 1
  /\ peak_current_flows' = Larger(peak_current_flows, Cardinality(DOMAIN current_flows'))

\* Fault: the packet that finds the flow expired is not counted in the new one.
SplitOnTimeout_PacketLost(pkt) ==
  LET k == MatchedKey(pkt) IN
  /\ Arrives(pkt)
  /\ k \in Keys
  /\ Expired(MatchedFlow(pkt), pkt)
  /\ handleFinishedFlow(MatchedFlow(pkt))
  /\ current_flows' = Erase(k)
  /\ UNCHANGED << next_insertion_order, peak_current_flows >>

\* The matching flow is too old: it is exported, and the packet starts a flow
\* that keeps its key, its flow_id and its orientation.
SplitOnTimeout(pkt) ==
  LET k   == MatchedKey(pkt)
      old == MatchedFlow(pkt)
      new == [SplitFlow(pkt, FlowTuple(old)) EXCEPT !.flow_id = old.flow_id]
  IN
  /\ Arrives(pkt)
  /\ k \in Keys
  /\ Expired(old, pkt)
  /\ IF packetCount(old) > 0 THEN handleFinishedFlow(old) ELSE UNCHANGED output
  /\ current_flows' = Insert(k, new)
  /\ next_insertion_order' = next_insertion_order + 1
  /\ peak_current_flows' = Larger(peak_current_flows, Cardinality(DOMAIN current_flows'))

\* The packet joins its flow, which stays open.
ContinueFlow(pkt) ==
  LET k   == MatchedKey(pkt)
      new == addPacket(MatchedFlow(pkt), pkt)
  IN
  /\ Arrives(pkt)
  /\ k \in Keys
  /\ ~ Expired(MatchedFlow(pkt), pkt)
  /\ ~ new.finished
  /\ current_flows' = [current_flows EXCEPT ![k].flow = new]
  /\ UNCHANGED << output, next_insertion_order, peak_current_flows >>

\* Fault: the finished flow is exported and stays in the table.
FinishFlow_Kept(pkt) ==
  LET k   == MatchedKey(pkt)
      new == addPacket(MatchedFlow(pkt), pkt)
  IN
  /\ Arrives(pkt)
  /\ k \in Keys
  /\ ~ Expired(MatchedFlow(pkt), pkt)
  /\ new.finished
  /\ handleFinishedFlow(new)
  /\ current_flows' = [current_flows EXCEPT ![k].flow = new]
  /\ UNCHANGED << next_insertion_order, peak_current_flows >>

\* The packet joins its flow and finishes it: exported, then erased.
FinishFlow(pkt) ==
  LET k   == MatchedKey(pkt)
      new == addPacket(MatchedFlow(pkt), pkt)
  IN
  /\ Arrives(pkt)
  /\ k \in Keys
  /\ ~ Expired(MatchedFlow(pkt), pkt)
  /\ new.finished
  /\ handleFinishedFlow(new)
  /\ current_flows' = Erase(k)
  /\ UNCHANGED << next_insertion_order, peak_current_flows >>

-----------------------------------------------------------------------------
(* The end of the capture *)

\* The reader reports an error: main returns without calling finishAllFlows,
\* and what is in the table is given up.
ReadFails ==
  /\ phase = "capturing"
  /\ phase' = "abandoned"
  /\ UNCHANGED << table, output, config, capture, pending >>

\* The reader returns, and finishAllFlows is called.
BeginFinishAllFlows ==
  /\ phase = "capturing"
  /\ pending' = Keys
  /\ phase' = IF Keys = {} THEN "finished" ELSE "finishing"
  /\ UNCHANGED << table, output, config, capture >>

\* Fault: flows that are already finished are taken for exported.
FinishOne_SkipsFinished(k) ==
  LET flow == current_flows[k].flow IN
  /\ phase = "finishing"
  /\ k \in pending
  /\ IF flow.finished THEN UNCHANGED output ELSE handleFinishedFlow(flow)
  /\ pending' = pending \ {k}
  /\ UNCHANGED << table, config, capture, phase >>

\* One turn of the loop.
FinishOne(k) ==
  LET flow == current_flows[k].flow IN
  /\ phase = "finishing"
  /\ k \in pending
  /\ IF packetCount(flow) > 0 THEN handleFinishedFlow(flow) ELSE UNCHANGED output
  /\ pending' = pending \ {k}
  /\ UNCHANGED << table, config, capture, phase >>

ClearFlows ==
  /\ phase = "finishing"
  /\ pending = {}
  /\ current_flows' = << >>
  /\ phase' = "finished"
  /\ UNCHANGED << next_insertion_order, peak_current_flows, output, config, capture, pending >>

\* The program reports and exits.
Terminated == phase \in {"finished", "abandoned"} /\ UNCHANGED vars

-----------------------------------------------------------------------------

AddPacket(pkt) ==
  StartFlow(pkt) \/ SplitOnTimeout(pkt) \/ ContinueFlow(pkt) \/ FinishFlow(pkt)

Next ==
  \/ SetStoreFinishedFlows
  \/ SetFlowCallback
  \/ \E pkt \in Packets : AddPacket(pkt)
  \/ ReadFails
  \/ BeginFinishAllFlows
  \/ \E k \in pending : FinishOne(k)
  \/ ClearFlows
  \/ Terminated

Spec == Init /\ [][Next]_vars

\* finishAllFlows, once it has begun, is straight-line code of the one
\* thread.  Nothing makes the capture end, or end without an error.
Fairness == WF_vars(\E k \in pending : FinishOne(k)) /\ WF_vars(ClearFlows)

FairSpec == Spec /\ Fairness

-----------------------------------------------------------------------------
(* Properties *)

\* Keys of the flows that no row reports so far: what the loop has left during
\* finishAllFlows, else all of the table.
LiveKeys == IF phase = "finishing" THEN pending ELSE Keys

LiveFlows == {current_flows[k].flow : k \in LiveKeys}

RowFlows == {rows[i] : i \in DOMAIN rows}

AllFlows == LiveFlows \cup RowFlows

\* Every member keeps its type: timestamps lie in the capture, counters and
\* sums never become negative.
TypeOK ==
  /\ Keys \subseteq FlowKey
  /\ current_flows \in [Keys -> EntryType]
  /\ finished_flows \in Seq(FlowType)
  /\ store_finished_flows \in BOOLEAN
  /\ flow_callback \in BOOLEAN
  /\ finished_flow_count \in Nat
  /\ next_insertion_order \in Nat
  /\ peak_current_flows \in Nat
  /\ rows \in Seq(FlowType)
  /\ pending \subseteq Keys
  /\ phase \in Phase
  /\ packets_read \in 0 .. MaxPackets
  /\ capture_time \in Time

\* A bidirectional connection has one flow in the table: a key and its
\* reverse are never both present, unless they are the same key.
OneFlowPerConnection ==
  \A k \in Keys : Reverse(k) \in Keys => Reverse(k) = k

\* The identifier a flow is reported under, the orientation its statistics
\* use and the key it is stored under stay the same 5-tuple, splits included.
FlowMatchesKey ==
  \A k \in Keys : /\ current_flows[k].flow.flow_id = k
                  /\ FlowTuple(current_flows[k].flow) = k

\* No flow, reported or live, lasts longer than the flow timeout, and none
\* ends before it starts, even when timestamps go backwards: the unsigned
\* comparison of addPacket then splits the flow.
DurationBounded ==
  \A f \in AllFlows :
    f.flow_last_seen \in f.flow_start_time .. (f.flow_start_time + FlowTimeout)

\* Every flow ever created is reported exactly once, or still to be reported,
\* or given up: creations = reports + live flows, and the reports are the rows.
FlowsAccounted ==
  /\ next_insertion_order = finished_flow_count + Cardinality(LiveKeys)
  /\ finished_flow_count = Len(rows)

\* A flow that is finished yet stays in the table is one whose first packet
\* carried RST; every other finished flow left the table with its last packet.
LingeringIsFirstRst ==
  phase = "capturing" =>
    \A f \in LiveFlows :
      f.finished => packetCount(f) = 1 /\ f.flag_count["RST"] = 1

\* A flow is finished exactly when it has seen a RST, or a FIN of each
\* direction in packets without RST.
FinishedByRstOrBothFins ==
  \A f \in AllFlows :
    f.finished <=> \/ f.flag_count["RST"] > 0
                   \/ \A d \in Direction : f.half[d].fin_flags = 1

\* The CSV rows of one connection tile its time line: a row ends no later
\* than the next one starts, and a live flow starts after all of them.
SegmentsInOrder ==
  Ordered =>
    /\ \A i, j \in DOMAIN rows :
         i < j /\ rows[i].flow_id = rows[j].flow_id
           => rows[i].flow_last_seen <= rows[j].flow_start_time
    /\ \A f \in LiveFlows, r \in RowFlows :
         f.flow_id = r.flow_id => r.flow_last_seen <= f.flow_start_time

\* The inter-arrival times account for the whole duration of a flow, one gap
\* per packet after the first; those of a direction cover the part from its
\* first to its last packet, which lies within the flow.
InterArrivalsTelescope ==
  Ordered =>
    \A f \in AllFlows :
      /\ f.flow_iat.n = packetCount(f) - 1
      /\ f.flow_iat.sum = getDuration(f)
      /\ \A d \in Direction :
           LET h == f.half[d] IN
           /\ h.iat.n = IF h.packets = 0 THEN 0 ELSE h.packets - 1
           /\ h.packets > 0 => f.flow_start_time + h.iat.sum <= h.last_seen

\* Active and idle periods and the open active period partition the duration
\* of a flow, and only gaps above the activity timeout count as idle.
ActiveIdlePartition ==
  Ordered =>
    \A f \in AllFlows :
      /\ f.flow_active.sum + f.flow_idle.sum
           + (f.end_active_time - f.start_active_time) = getDuration(f)
      /\ f.flow_idle.n > 0 => f.flow_idle.min > ActivityTimeout

\* What a flow reports per direction adds up to what it reports in total.
HalvesAddUp ==
  \A f \in AllFlows :
    /\ f.flow_length_stats.n = packetCount(f)
    /\ f.flow_length_stats.sum = f.half["fwd"].bytes + f.half["bwd"].bytes
    /\ \A d \in Direction : f.half[d].packets = f.half[d].pkt_stats.n
    /\ \A d \in Direction : f.half[d].bytes = f.half[d].pkt_stats.sum

\* What a flow reports of the packets of an endpoint: whom it sends them to,
\* and their payload, TTL and window.
Trace(pkt) ==
  [ key |-> fwdFlowId(pkt), payload_bytes |-> pkt.payload_bytes,
    ip_ttl |-> pkt.ip_ttl, tcp_window |-> pkt.tcp_window ]

Traces == {Trace(pkt) : pkt \in Packets}

SentAs(k) == {trace \in Traces : trace.key = k}

\* The 5-tuple of the packets that a direction of f counts.
TupleOf(f, d) == IF d = "fwd" THEN FlowTuple(f) ELSE Reverse(FlowTuple(f))

\* Between two hosts, each direction of a flow counts the packets of one
\* endpoint, splits included: what it reports of them are values that this
\* endpoint sent, the initial window and TTL those of one packet.  (Forward,
\* a split may leave them at 0.)  Addresses alone decide, so a flow of a host
\* with itself has no backward packet.
HalfByEndpoint(f, d) ==
  LET h    == f.half[d]
      sent == SentAs(TupleOf(f, d))
  IN h.packets > 0 =>
       /\ \E p \in sent : h.pkt_stats.min = p.payload_bytes
       /\ \E p \in sent : h.pkt_stats.max = p.payload_bytes
       /\ \/ d = "fwd" /\ h.initial_ttl = 0 /\ h.init_win_bytes = 0
          \/ \E p \in sent : h.initial_ttl = p.ip_ttl /\ h.init_win_bytes = p.tcp_window

HalvesByEndpoint ==
  \A f \in AllFlows :
    IF f.src_ip = f.dst_ip THEN f.half["bwd"] = NoPackets
    ELSE \A d \in Direction : HalfByEndpoint(f, d)

\* Once finishAllFlows is called, every flow that was ever created is
\* eventually reported, be it finished already or a single packet: i creations
\* lead to at least i reports.
EveryFlowReported ==
  \A i \in 1 .. MaxPackets :
    phase = "finishing" /\ next_insertion_order >= i ~> finished_flow_count >= i

(* What makes the above inductive *)

\* The table is finite, its flows have packets, and the phases are what they
\* say: no flow before the capture, a callback from then on, keys to visit
\* only during finishAllFlows and an empty table after it.
TableConsistent ==
  /\ IsFiniteSet(Keys)
  /\ \A k \in Keys : packetCount(current_flows[k].flow) > 0
  /\ phase \in {"constructed", "storage_set"} => Keys = {}
  /\ phase \notin {"constructed", "storage_set"} => flow_callback
  /\ phase # "finishing" => pending = {}
  /\ phase = "finished" => Keys = {}

Consistent ==
  /\ TypeOK
  /\ TableConsistent
  /\ OneFlowPerConnection
  /\ FlowMatchesKey
  /\ FlowsAccounted

(* Statements of the documentation that the code does not keep *)

\* docs/ARCHITECTURE.md:199: a flow that is finished has been exported and
\* removed from the flow table.
FinishedFlowsLeaveTable ==
  phase = "capturing" => \A f \in LiveFlows : ~ f.finished

\* docs/FEATURES.md:507, docs/ARCHITECTURE.md:323: of the flows that
\* finishAllFlows has visited, those of a single packet are not reported.
SinglePacketFlowsSkipped ==
  phase = "finishing" =>
    \A k \in Keys \ pending :
      packetCount(current_flows[k].flow) <= 1 => current_flows[k].flow \notin RowFlows

\* docs/FEATURES.md:255: an inter-arrival time is the gap between consecutive
\* packets of a direction, so it is no longer than the capture.
GapsWithinCapture ==
  \A f \in AllFlows, d \in Direction :
    f.half[d].iat.n > 0 => f.half[d].iat.max <= MaxTime

=============================================================================
