----------------------------- MODULE PacketReader -----------------------------
(***************************************************************************)
(* PacketReader::open and readAll (src/PacketReader.cpp), with the signal  *)
(* handler of src/main.cpp that asks a live capture to stop.  libpcap is   *)
(* external: pcap_next_ex delivers a frame, a timeout (live), the end of   *)
(* the file (offline) or an error.                                         *)
(*                                                                         *)
(* The loop is split where another actor can intervene: before the test of *)
(* the stop flag (pc = "loop"), before pcap_next_ex, which may block       *)
(* ("read"), and before a frame is decoded ("decode").                     *)
(***************************************************************************)
EXTENDS PacketDecoders, FiniteSets

CONSTANTS
  Snaplen,      \* most bytes of a frame that libpcap captures
  Frames,       \* the frames libpcap may deliver
  read_ipv4, read_ipv6,  \* arguments of readAll; main passes TRUE and FALSE
  HasProgress,  \* TRUE when a progress callback is passed
  MaxFrames     \* bound: frames in one capture

INT_MAX == 2147483647

\* A captured frame: the bytes after the Ethernet header, and those that an
\* L2TP decapsulation would find in them.  As Snaplen fits an int, the length
\* that the code converts to int keeps its value; so does the time, whose
\* seconds and microseconds fit 64 bits in microseconds.
FrameType ==
  [ caplen: 0 .. Snaplen, ether_type: {"IPv4", "IPv6", "other"}, time: Time,
    bytes: MemoryType, inner: MemoryType ]

ASSUME PacketReaderAssumption ==
  /\ {read_ipv4, read_ipv6, HasProgress} \subseteq BOOLEAN
  /\ MaxFrames \in Nat
  /\ Snaplen \in 0 .. INT_MAX
  /\ Frames \subseteq FrameType

VARIABLES
  pc,
  live,       \* mode_: TRUE for Mode::Live, FALSE for a file
  datalink,   \* link type of the capture: "EN10MB" or another one
  stop_flag,  \* g_stop_capture
  stats,
  frame,      \* the frame being decoded
  due,        \* TRUE when 250 ms have passed since the last progress call
  reported,   \* the statistics the progress callback saw last
  flow_packet,  \* the packet last given to FlowGenerator::addPacket
  added,      \* number of those calls
  result      \* what open or readAll returned

vars ==
  << pc, live, datalink, stop_flag, stats, frame, due, reported, flow_packet, added, result >>

SizeofEther == 14

NoFrame == [caplen |-> 0]
NoPacket == [protocol |-> 0]

NoStats == [total |-> 0, valid |-> 0, discarded |-> 0, vpn_packets |-> 0]

Init ==
  /\ pc = "open"
  /\ live \in BOOLEAN
  /\ datalink \in {"EN10MB", "other"}
  /\ stop_flag = FALSE
  /\ stats = NoStats
  /\ frame = NoFrame
  /\ due = FALSE
  /\ reported = NoStats
  /\ flow_packet = NoPacket
  /\ added = 0
  /\ result = "none"

-----------------------------------------------------------------------------
(* open *)

Open ==
  /\ pc = "open"
  /\ live => datalink = "EN10MB"
  /\ pc' = "loop"
  /\ UNCHANGED << live, datalink, stop_flag, stats, frame, due, reported, flow_packet, added, result >>

\* libpcap cannot open the source, or it is a live one of another link type;
\* main reports the error and never calls readAll.
OpenFails ==
  /\ pc = "open"
  /\ pc' = "done"
  /\ result' = "error"
  /\ UNCHANGED << live, datalink, stop_flag, stats, frame, due, reported, flow_packet, added >>

-----------------------------------------------------------------------------
(* readAll *)

\* Fault: the callback is only called when it is due.
EmitProgress_NotForced(force, now_stats) ==
  IF HasProgress /\ due
  THEN reported' = now_stats /\ due' = FALSE
  ELSE UNCHANGED << reported, due >>

\* emitProgressIfDue
EmitProgress(force, now_stats) ==
  IF HasProgress /\ (force \/ due)
  THEN reported' = now_stats /\ due' = FALSE
  ELSE UNCHANGED << reported, due >>

Return(value) == pc' = "done" /\ result' = value

\* The head of the loop sees the stop flag.
StopRequested ==
  /\ pc = "loop"
  /\ stop_flag
  /\ EmitProgress(TRUE, stats)
  /\ Return("ok")
  /\ UNCHANGED << live, datalink, stop_flag, stats, frame, flow_packet, added >>

\* Fault: the flag is not looked at.
KeepReading_FlagIgnored ==
  /\ pc = "loop"
  /\ pc' = "read"
  /\ UNCHANGED << live, datalink, stop_flag, stats, frame, due, reported, flow_packet, added, result >>

KeepReading ==
  /\ pc = "loop"
  /\ ~ stop_flag
  /\ pc' = "read"
  /\ UNCHANGED << live, datalink, stop_flag, stats, frame, due, reported, flow_packet, added, result >>

\* Fault: frames without room for an Ethernet header are decoded too.
FrameArrives_AnyLength(f) ==
  /\ pc = "read"
  /\ stats.total < MaxFrames
  /\ frame' = f
  /\ stats' = [stats EXCEPT !.total = @ + 1]
  /\ pc' = "decode"
  /\ UNCHANGED << live, datalink, stop_flag, due, reported, flow_packet, added, result >>

\* pcap_next_ex returned 1.
FrameArrives(f) ==
  /\ pc = "read"
  /\ stats.total < MaxFrames
  /\ f.caplen >= SizeofEther
  /\ frame' = f
  /\ stats' = [stats EXCEPT !.total = @ + 1]
  /\ pc' = "decode"
  /\ UNCHANGED << live, datalink, stop_flag, due, reported, flow_packet, added, result >>

\* The frame has no room for an Ethernet header: it is discarded, and this
\* turn of the loop makes no progress call.
ShortFrame(f) ==
  /\ pc = "read"
  /\ stats.total < MaxFrames
  /\ f.caplen < SizeofEther
  /\ stats' = [stats EXCEPT !.total = @ + 1, !.discarded = @ + 1]
  /\ pc' = "loop"
  /\ UNCHANGED << live, datalink, stop_flag, frame, due, reported, flow_packet, added, result >>

\* Fault: after a timeout the read is retried at once.
TimeoutTick_Retried ==
  /\ pc = "read"
  /\ live
  /\ EmitProgress(FALSE, stats)
  /\ UNCHANGED << pc, result, live, datalink, stop_flag, stats, frame, flow_packet, added >>

\* pcap_next_ex returned 0: the read timeout of a live capture.
TimeoutTick ==
  /\ pc = "read"
  /\ live
  /\ EmitProgress(FALSE, stats)
  /\ pc' = "loop"
  /\ UNCHANGED << live, datalink, stop_flag, stats, frame, flow_packet, added, result >>

\* pcap_next_ex returned -2: the end of the capture file.
EndOfFile ==
  /\ pc = "read"
  /\ ~ live
  /\ EmitProgress(TRUE, stats)
  /\ Return("ok")
  /\ UNCHANGED << live, datalink, stop_flag, stats, frame, flow_packet, added >>

\* Any other value: the error is returned without a progress call.
ReadError ==
  /\ pc = "read"
  /\ Return("error")
  /\ UNCHANGED << live, datalink, stop_flag, stats, frame, due, reported, flow_packet, added >>

\* The result of decoding f: the decoder of the EtherType, then decodeL2TP
\* when that one rejected the frame or did not apply.
Network(f) ==
  LET remaining == f.caplen - SizeofEther
      info == EmptyInfo(f.time)
      v4 == IF read_ipv4 /\ f.ether_type = "IPv4"
            THEN decodeIPv4(f.bytes, remaining, info) ELSE Rejected(info)
      v6 == IF ~ v4.valid /\ read_ipv6 /\ f.ether_type = "IPv6"
            THEN decodeIPv6(f.bytes, remaining, v4.info) ELSE v4
  IN v6

Decoded(f) ==
  IF Network(f).valid
  THEN [l2tp |-> FALSE, result |-> Network(f)]
  ELSE [l2tp |-> TRUE,
        result |-> decodeL2TP(f.bytes, f.inner, f.caplen - SizeofEther, Network(f).info)]

\* Fault: an L2TP packet is counted as a VPN packet only.
DecodeFrame_VpnInsteadOfValid ==
  LET d == Decoded(frame) IN
  /\ pc = "decode"
  /\ stats' = IF ~ d.result.valid THEN [stats EXCEPT !.discarded = @ + 1]
              ELSE IF d.l2tp THEN [stats EXCEPT !.vpn_packets = @ + 1]
              ELSE [stats EXCEPT !.valid = @ + 1]
  /\ IF d.result.valid THEN flow_packet' = d.result.info /\ added' = added + 1
     ELSE UNCHANGED << flow_packet, added >>
  /\ frame' = NoFrame
  /\ pc' = "loop"
  /\ UNCHANGED << live, datalink, stop_flag, due, reported, result >>

\* The rest of the loop: a valid packet is counted and given to the flow
\* table, any other is discarded.
DecodeFrame ==
  LET d == Decoded(frame) IN
  /\ pc = "decode"
  /\ IF d.result.valid
     THEN /\ stats' = [stats EXCEPT !.valid = @ + 1,
                                    !.vpn_packets = IF d.l2tp THEN @ + 1 ELSE @]
          /\ flow_packet' = d.result.info
          /\ added' = added + 1
     ELSE /\ stats' = [stats EXCEPT !.discarded = @ + 1]
          /\ UNCHANGED << flow_packet, added >>
  /\ EmitProgress(FALSE, stats')
  /\ frame' = NoFrame
  /\ pc' = "loop"
  /\ UNCHANGED << live, datalink, stop_flag, result >>

-----------------------------------------------------------------------------
(* The environment *)

\* handleSignal: SIGINT or SIGTERM during a live capture; the handler is
\* installed before open and the flag is never reset.
Signal ==
  /\ live
  /\ ~ stop_flag
  /\ stop_flag' = TRUE
  /\ UNCHANGED << pc, live, datalink, stats, frame, due, reported, flow_packet, added, result >>

\* 250 milliseconds have passed since the last progress call, or since readAll
\* was entered.
Tick ==
  /\ HasProgress
  /\ ~ due
  /\ pc \notin {"open", "done"}
  /\ due' = TRUE
  /\ UNCHANGED << pc, live, datalink, stop_flag, stats, frame, reported, flow_packet, added, result >>

\* readAll has returned.
Returned == pc = "done" /\ UNCHANGED vars

Loop ==
  \/ StopRequested
  \/ KeepReading
  \/ \E f \in Frames : FrameArrives(f) \/ ShortFrame(f)
  \/ TimeoutTick
  \/ EndOfFile
  \/ ReadError
  \/ DecodeFrame

Next == Open \/ OpenFails \/ Loop \/ Signal \/ Tick \/ Returned

Spec == Init /\ [][Next]_vars

\* The thread runs, and pcap_next_ex returns: a file has an end, and a live
\* capture is opened with a read timeout.
FairSpec == Spec /\ WF_vars(Open \/ OpenFails) /\ WF_vars(Loop)

-----------------------------------------------------------------------------
(* Properties *)

StatsRecord == [total: Nat, valid: Nat, discarded: Nat, vpn_packets: Nat]

\* Every variable keeps its type; the length computed for the decoders, which
\* is an unsigned difference in the code, is that of a frame with room for an
\* Ethernet header.
TypeOK ==
  /\ pc \in {"open", "loop", "read", "decode", "done"}
  /\ datalink \in {"EN10MB", "other"}
  /\ {live, stop_flag, due} \subseteq BOOLEAN
  /\ stats \in StatsRecord
  /\ reported \in StatsRecord
  /\ added \in Nat
  /\ result \in {"none", "ok", "error"}
  /\ pc = "decode" => frame \in FrameType /\ frame.caplen >= SizeofEther
  /\ pc # "decode" => frame = NoFrame

\* Bytes of the frame that the decoders look at.
Reach(f) == LargerOf(Network(f).reach, Decoded(f).result.reach)

\* No decoder looks behind the captured bytes, whatever the length and offset
\* fields of the headers say.
ReadsWithinCapture ==
  pc = "decode" => Reach(frame) <= frame.caplen - SizeofEther

\* Every frame is counted once as valid or discarded, only valid ones count
\* as VPN packets, and the flow table receives exactly the valid ones.
FramesAccounted ==
  /\ stats.total = stats.valid + stats.discarded + (IF pc = "decode" THEN 1 ELSE 0)
  /\ stats.vpn_packets <= stats.valid
  /\ added = stats.valid

\* The packet the flow table receives is coherent: addresses are set, lengths are
\* not negative, and what only a TCP header provides is absent from others.
FlowPacketCoherent ==
  added > 0 =>
    /\ {flow_packet.src_ip, flow_packet.dst_ip} \subseteq Addresses
    /\ flow_packet.payload_bytes \in UInt16
    /\ flow_packet.protocol \in {0, 6, 17}
    /\ flow_packet.protocol # 6 => flow_packet.flags = {} /\ flow_packet.tcp_window = 0
    /\ flow_packet.protocol = 0 =>
         flow_packet.src_port = 0 /\ flow_packet.dst_port = 0 /\ flow_packet.payload_bytes = 0

\* When readAll returns normally, the progress callback has seen the final
\* statistics: the dashboard's last picture is complete.
FinalProgress == HasProgress /\ result = "ok" => reported = stats

\* After a stop request at most one more frame is counted: the one that
\* pcap_next_ex was about to deliver.
StopWithinOneFrame ==
  \A n \in 0 .. MaxFrames :
    [](stop_flag /\ stats.total <= n => [](stats.total <= n + 1))

CapturePhase ==
  CASE pc = "open" -> "closed"
    [] pc \in {"loop", "decode"} -> "between"
    [] pc = "read" -> "waiting"
    [] pc = "done" /\ result = "ok" -> "returned"
    [] OTHER -> "aborted"

\* The loop with its callbacks and its decoding keeps the promise of
\* CaptureLoop: no turn begins once the stop flag is set, each turn reads at
\* most one frame, and a live capture returns normally only after a request.
Capture == INSTANCE CaptureLoop WITH
  live <- live,
  asked <- stop_flag,
  frames <- stats.total,
  phase <- CapturePhase

ImplementsCapture == Capture!Spec

\* A stop request ends the capture.
StopReturns == stop_flag ~> pc = "done"

(* A statement of the documentation that the code does not keep *)

\* docs/ARCHITECTURE.md:157: a packet whose outer protocol is L2TP is
\* decapsulated, whenever decodeL2TP finds a packet in it.
L2tpIsDecapsulated ==
  pc = "decode" /\ frame.ether_type = "IPv4" =>
    LET tunnel == decodeL2TP(frame.bytes, frame.inner, frame.caplen - SizeofEther,
                             EmptyInfo(frame.time))
    IN tunnel.valid => Decoded(frame).result = tunnel

=============================================================================
