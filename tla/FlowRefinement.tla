---------------------------- MODULE FlowRefinement ----------------------------
(***************************************************************************)
(* The flow table implements ConnectionLedger and FlowCounts.  A           *)
(* connection is a 5-tuple up to exchanging its endpoints; its open record *)
(* is the flow stored under either of its two keys.                        *)
(***************************************************************************)
EXTENDS FlowGenerator

Connection(k) ==
  [ endpoints |-> {<< k.src_ip, k.src_port >>, << k.dst_ip, k.dst_port >>},
    protocol |-> k.protocol ]

Connections == {Connection(fwdFlowId(pkt)) : pkt \in Packets}

OpenPackets(c) ==
  IF \E k \in LiveKeys : Connection(k) = c
  THEN packetCount(current_flows[CHOOSE k \in LiveKeys : Connection(k) = c].flow)
  ELSE 0

Report(flow) ==
  [connection |-> Connection(flow.flow_id), packets |-> packetCount(flow)]

Stage ==
  CASE phase \in {"finishing", "finished"} -> "draining"
    [] phase = "abandoned" -> "failed"
    [] OTHER -> "open"

Ledger == INSTANCE ConnectionLedger WITH
  open <- [c \in Connections |-> OpenPackets(c)],
  reported <- [i \in DOMAIN rows |-> Report(rows[i])],
  stage <- Stage

\* Every step of the flow table is a step of the ledger or changes nothing
\* there: no packet is lost, counted twice or charged to another connection,
\* whichever endpoint sent it and however the flow ends.
ImplementsLedger == Ledger!Spec

\* ... and once finishAllFlows is called, all that is open is reported.
ImplementsFairLedger == Ledger!FairSpec

Counts == INSTANCE FlowCounts WITH
  created <- next_insertion_order,
  active <- Cardinality(LiveKeys),
  reported <- finished_flow_count,
  draining <- phase \in {"finishing", "finished"}

\* The numbers of flows created, open and reported change as FlowCounts says,
\* which is all that main.cpp relies on: each call of addPacket or turn of
\* finishAllFlows reports at most one flow, and none twice.
ImplementsCounts == Counts!Spec

=============================================================================
