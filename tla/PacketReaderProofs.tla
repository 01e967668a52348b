--------------------------- MODULE PacketReaderProofs ---------------------------
(***************************************************************************)
(* Theorems about PacketReader, for every set of frames.                   *)
(***************************************************************************)
EXTENDS PacketReader, TLAPS

-----------------------------------------------------------------------------
(* The decoders *)

LEMMA MemoryFacts ==
  ASSUME NEW m \in MemoryType
  PROVE  m.hl \in Nat /\ m.len \in Nat /\ m.plen \in Nat
<1>1. m.hl \in UInt4 /\ m.len \in UInt16 /\ m.plen \in UInt16
  BY DEF MemoryType
<1>2. UInt4 \subseteq Nat /\ UInt16 \subseteq Nat
  BY DEF UInt4, UInt16
<1> QED
  BY <1>1, <1>2

LEMMA TransportFits ==
  ASSUME NEW info, NEW proto, NEW t, NEW avail \in Int, NEW length \in Int
  PROVE  LET r == decodeTransport(info, proto, t, avail, length)
         IN r.size \in Nat /\ (r.size = 0 \/ r.size <= avail)
BY DEF decodeTransport, SizeofTcp, SizeofUdp, IPPROTO_TCP, IPPROTO_UDP

LEMMA LargerOfBound ==
  ASSUME NEW x \in Int, NEW y \in Int, NEW z \in Int, x <= z, y <= z
  PROVE  LargerOf(x, y) <= z /\ LargerOf(x, y) \in Int
BY DEF LargerOf

\* decodeIPv4 accepts whatever is as long as an IPv4 header, and looks at no
\* byte behind the captured ones.
LEMMA decodeIPv4Facts ==
  ASSUME NEW m \in MemoryType, NEW remaining \in Int, NEW info
  PROVE  /\ decodeIPv4(m, remaining, info).valid <=> remaining >= SizeofIp
         /\ decodeIPv4(m, remaining, info).reach \in Int
         /\ decodeIPv4(m, remaining, info).reach <= LargerOf(0, remaining)
<1> DEFINE addressed == [info EXCEPT !.src_ip = m.src, !.dst_ip = m.dst, !.ip_ttl = m.ttl]
           t == decodeTransport(addressed, m.p, m.l4, remaining - m.hl * 4, m.len - m.hl * 4)
           last == IF t.size = 0 THEN 0 ELSE m.hl * 4 + t.size
<1>1. CASE remaining < SizeofIp
  BY <1>1 DEF decodeIPv4, Rejected, LargerOf, SizeofIp
<1>2. CASE remaining >= SizeofIp
  <2>1. m.hl \in Nat /\ m.len \in Nat
    BY MemoryFacts
  <2>2. m.hl * 4 \in Nat
    BY <2>1
  <2>3. t.size \in Nat /\ (t.size = 0 \/ t.size <= remaining - m.hl * 4)
    BY <2>1, <2>2, TransportFits
  <2> HIDE DEF t
  <2>4. last \in Int /\ last <= remaining
    BY <1>2, <2>2, <2>3 DEF SizeofIp
  <2>5. decodeIPv4(m, remaining, info)
          = [valid |-> TRUE, info |-> t.info, reach |-> LargerOf(SizeofIp, last)]
    BY <1>2 DEF decodeIPv4, t, SizeofIp
  <2> HIDE DEF last
  <2>6. /\ LargerOf(SizeofIp, last) <= remaining
        /\ LargerOf(SizeofIp, last) \in Int
    BY <1>2, <2>4, LargerOfBound DEF SizeofIp
  <2>7. LargerOf(0, remaining) = remaining
    BY <1>2 DEF LargerOf, SizeofIp
  <2> QED
    BY <1>2, <2>5, <2>6, <2>7
<1> QED
  BY <1>1, <1>2 DEF SizeofIp

LEMMA decodeIPv6Facts ==
  ASSUME NEW m \in MemoryType, NEW remaining \in Int, NEW info
  PROVE  /\ decodeIPv6(m, remaining, info).reach \in Int
         /\ decodeIPv6(m, remaining, info).reach <= LargerOf(0, remaining)
<1> DEFINE addressed == [info EXCEPT !.src_ip = m.src6, !.dst_ip = m.dst6, !.ip_ttl = m.hlim]
           t == decodeTransport(addressed, m.nxt, m.l6, remaining - SizeofIp6, m.plen)
<1>1. CASE remaining < SizeofIp6
  BY <1>1 DEF decodeIPv6, Rejected, LargerOf
<1>2. CASE remaining >= SizeofIp6
  <2>1. m.plen \in Int /\ remaining - SizeofIp6 \in Int
    BY MemoryFacts DEF SizeofIp6
  <2>2. t.size \in Nat /\ (t.size = 0 \/ t.size <= remaining - SizeofIp6)
    BY <2>1, TransportFits
  <2> HIDE DEF t
  <2>3. decodeIPv6(m, remaining, info)
          = [valid |-> TRUE, info |-> t.info, reach |-> SizeofIp6 + t.size]
    BY <1>2 DEF decodeIPv6, t, SizeofIp6
  <2> QED
    BY <1>2, <2>2, <2>3 DEF LargerOf, SizeofIp6
<1> QED
  BY <1>1, <1>2 DEF SizeofIp6

\* decodeL2TP stays within the capture, whether it accepts or rejects.
LEMMA decodeL2TPFacts ==
  ASSUME NEW m \in MemoryType, NEW inner \in MemoryType, NEW remaining \in Int, NEW info
  PROVE  /\ decodeL2TP(m, inner, remaining, info).reach \in Int
         /\ decodeL2TP(m, inner, remaining, info).reach <= LargerOf(0, remaining)
<1> DEFINE offset == m.hl * 4 + SizeofL2tp
           inside == CASE inner.v = 4 -> decodeIPv4(inner, remaining - offset, info)
                       [] inner.v = 6 -> decodeIPv6(inner, remaining - offset, info)
                       [] OTHER -> Rejected(info)
           guard == \/ m.p # IPPROTO_L2TP
                    \/ remaining - m.hl * 4 < SizeofL2tp
                    \/ remaining - offset < SizeofIp
<1>1. CASE remaining < SizeofIp
  <2>1. decodeL2TP(m, inner, remaining, info) = Rejected(info)
    BY <1>1 DEF decodeL2TP
  <2> QED
    BY <2>1 DEF Rejected, LargerOf
<1>2. CASE ~ remaining < SizeofIp /\ guard
  <2>1. decodeL2TP(m, inner, remaining, info) = [Rejected(info) EXCEPT !.reach = SizeofIp]
    BY <1>2 DEF decodeL2TP
  <2>2. decodeL2TP(m, inner, remaining, info).reach = SizeofIp
    BY <2>1 DEF Rejected
  <2> QED
    BY <1>2, <2>2 DEF LargerOf, SizeofIp
<1>3. CASE ~ remaining < SizeofIp /\ ~ guard
  <2>1. m.hl \in Nat
    BY MemoryFacts
  <2>2. offset \in Nat
    BY <2>1 DEF SizeofL2tp
  <2>3. remaining >= SizeofIp /\ remaining - offset >= SizeofIp
    BY <1>3, <2>2 DEF SizeofIp
  <2>4. inside.reach \in Int /\ inside.reach <= remaining - offset
    <3>1. remaining - offset \in Int
      BY <2>2
    <3> HIDE DEF offset
    <3>2. LargerOf(0, remaining - offset) = remaining - offset
      BY <2>3, <3>1 DEF LargerOf, SizeofIp
    <3>3. CASE inner.v = 4
      BY <3>1, <3>2, <3>3, decodeIPv4Facts
    <3>4. CASE inner.v = 6
      BY <3>1, <3>2, <3>4, decodeIPv6Facts
    <3>5. CASE inner.v # 4 /\ inner.v # 6
      <4>1. inside = Rejected(info)
        BY <3>5
      <4> QED
        BY <2>3, <3>1, <4>1 DEF Rejected, SizeofIp
    <3> QED
      BY <3>3, <3>4, <3>5
  <2>5. decodeL2TP(m, inner, remaining, info)
          = [inside EXCEPT !.reach = offset + LargerOf(SizeofIp, inside.reach)]
    BY <1>3 DEF decodeL2TP
  <2>6. decodeL2TP(m, inner, remaining, info).reach
          = offset + LargerOf(SizeofIp, inside.reach)
    <3>1. "reach" \in DOMAIN inside
      BY DEF decodeIPv4, decodeIPv6, Rejected
    <3> HIDE DEF inside
    <3> QED
      BY <2>5, <3>1
  <2> HIDE DEF inside, offset, guard
  <2>7. /\ LargerOf(SizeofIp, inside.reach) \in Int
        /\ LargerOf(SizeofIp, inside.reach) <= remaining - offset
    <3>1. SizeofIp \in Int /\ remaining - offset \in Int /\ SizeofIp <= remaining - offset
      BY <2>2, <2>3 DEF SizeofIp
    <3> QED
      BY <2>4, <3>1, LargerOfBound
  <2>8. LargerOf(0, remaining) = remaining
    BY <2>3 DEF LargerOf, SizeofIp
  <2> QED
    BY <2>2, <2>3, <2>6, <2>7, <2>8
<1> QED
  BY <1>1, <1>2, <1>3

-----------------------------------------------------------------------------
(* The reader *)

\* Two counters are replaced by other numbers.
LEMMA StatsUpdate ==
  ASSUME NEW s \in StatsRecord, NEW x \in Nat, NEW y \in Nat
  PROVE  /\ [s EXCEPT !.total = x, !.discarded = y] \in StatsRecord
         /\ [s EXCEPT !.valid = x, !.vpn_packets = y] \in StatsRecord
BY DEF StatsRecord

LEMMA InitTyped == Init => TypeOK /\ FramesAccounted
<1>1. NoStats \in StatsRecord
  BY DEF NoStats, StatsRecord
<1>2. Init => TypeOK
  <2> SUFFICES ASSUME Init PROVE TypeOK
    OBVIOUS
  <2>1. stats \in StatsRecord /\ reported \in StatsRecord
    BY <1>1 DEF Init
  <2>2. {live, stop_flag, due} \subseteq BOOLEAN
    BY DEF Init
  <2> QED
    BY <2>1, <2>2 DEF Init, TypeOK
<1>3. Init => FramesAccounted
  BY DEF Init, FramesAccounted, NoStats
<1> QED
  BY <1>2, <1>3

\* A progress call copies the statistics or leaves the callback's alone.
LEMMA ProgressTyped ==
  ASSUME TypeOK, NEW force, NEW now_stats \in StatsRecord, EmitProgress(force, now_stats)
  PROVE  reported' \in StatsRecord /\ due' \in BOOLEAN
BY DEF EmitProgress, TypeOK

LEMMA ReturnTyped ==
  ASSUME TypeOK, StopRequested \/ EndOfFile \/ ReadError
  PROVE  TypeOK'
<1>1. stats' = stats /\ frame' = frame /\ added' = added /\ datalink' = datalink
      /\ live' = live /\ stop_flag' = stop_flag /\ pc # "decode" /\ pc' = "done"
      /\ result' \in {"ok", "error"}
  BY DEF StopRequested, EndOfFile, ReadError, Return
<1>2. reported' \in StatsRecord /\ due' \in BOOLEAN
  <2>1. stats \in StatsRecord
    BY DEF TypeOK
  <2>2. CASE StopRequested \/ EndOfFile
    BY <2>1, <2>2, ProgressTyped DEF StopRequested, EndOfFile
  <2>3. CASE ReadError
    BY <2>3 DEF ReadError, TypeOK
  <2> QED
    BY <2>2, <2>3
<1> QED
  BY <1>1, <1>2 DEF TypeOK

LEMMA DecodeTyped ==
  ASSUME TypeOK, DecodeFrame
  PROVE  /\ TypeOK'
         /\ stats'.total = stats.total
         /\ \/ /\ stats'.valid = stats.valid + 1 /\ stats'.discarded = stats.discarded
               /\ added' = added + 1
               /\ stats'.vpn_packets \in {stats.vpn_packets, stats.vpn_packets + 1}
            \/ /\ stats'.valid = stats.valid /\ stats'.discarded = stats.discarded + 1
               /\ added' = added
               /\ stats'.vpn_packets = stats.vpn_packets
<1>1. stats \in StatsRecord /\ added \in Nat
  BY DEF TypeOK
<1>2. CASE Decoded(frame).result.valid
  <2>1. /\ stats' = [stats EXCEPT !.valid = @ + 1,
                        !.vpn_packets = IF Decoded(frame).l2tp THEN @ + 1 ELSE @]
        /\ added' = added + 1
    BY <1>2 DEF DecodeFrame
  <2>2. stats' \in StatsRecord
    <3> DEFINE vpn == IF Decoded(frame).l2tp THEN stats.vpn_packets + 1 ELSE stats.vpn_packets
    <3>1. vpn \in Nat
      BY <1>1 DEF StatsRecord
    <3>2. stats' = [stats EXCEPT !.valid = @ + 1, !.vpn_packets = vpn]
      BY <2>1
    <3>3. stats.valid + 1 \in Nat
      BY <1>1 DEF StatsRecord
    <3>4. stats' = [stats EXCEPT !.valid = stats.valid + 1, !.vpn_packets = vpn]
      BY <3>2
    <3> HIDE DEF vpn
    <3> QED
      BY <1>1, <3>1, <3>3, <3>4, StatsUpdate
  <2>3. reported' \in StatsRecord /\ due' \in BOOLEAN
    BY <2>2, ProgressTyped DEF DecodeFrame
  <2> QED
    BY <1>1, <2>1, <2>2, <2>3 DEF DecodeFrame, TypeOK, StatsRecord
<1>3. CASE ~ Decoded(frame).result.valid
  <2>1. stats' = [stats EXCEPT !.discarded = @ + 1] /\ added' = added
    BY <1>3 DEF DecodeFrame
  <2>2. stats' \in StatsRecord
    BY <1>1, <2>1 DEF StatsRecord
  <2>3. reported' \in StatsRecord /\ due' \in BOOLEAN
    BY <2>2, ProgressTyped DEF DecodeFrame
  <2> QED
    BY <1>1, <2>1, <2>2, <2>3 DEF DecodeFrame, TypeOK, StatsRecord
<1> QED
  BY <1>2, <1>3

\* Types and counts are an inductive invariant.
THEOREM FramesCounted == Spec => [](TypeOK /\ FramesAccounted)
<1> DEFINE Inv == TypeOK /\ FramesAccounted
<1>1. Inv /\ [Next]_vars => Inv'
  <2> SUFFICES ASSUME Inv, [Next]_vars PROVE Inv'
    OBVIOUS
  <2>1. CASE Open \/ OpenFails
    BY <2>1 DEF Open, OpenFails, TypeOK, FramesAccounted
  <2>2. CASE StopRequested \/ EndOfFile \/ ReadError
    <3>1. stats' = stats /\ added' = added /\ pc # "decode" /\ pc' # "decode"
      BY <2>2 DEF StopRequested, EndOfFile, ReadError, Return
    <3> QED
      BY <2>2, <3>1, ReturnTyped DEF FramesAccounted
  <2>3. CASE KeepReading
    BY <2>3 DEF KeepReading, TypeOK, FramesAccounted
  <2>4. CASE \E f \in Frames : FrameArrives(f)
    <3>1. PICK f \in Frames : FrameArrives(f)
      BY <2>4
    <3>2. f \in FrameType
      BY PacketReaderAssumption
    <3>3. /\ stats' \in StatsRecord /\ stats'.total = stats.total + 1
          /\ stats'.valid = stats.valid /\ stats'.discarded = stats.discarded
          /\ stats'.vpn_packets = stats.vpn_packets
      BY <3>1 DEF FrameArrives, TypeOK, StatsRecord
    <3>4. TypeOK'
      BY <3>1, <3>2, <3>3 DEF FrameArrives, TypeOK
    <3>5. FramesAccounted'
      BY <3>1, <3>3 DEF FrameArrives, FramesAccounted, TypeOK, StatsRecord
    <3> QED
      BY <3>4, <3>5
  <2>5. CASE \E f \in Frames : ShortFrame(f)
    <3>1. PICK f \in Frames : ShortFrame(f)
      BY <2>5
    <3>2. /\ stats' \in StatsRecord /\ stats'.total = stats.total + 1
          /\ stats'.valid = stats.valid /\ stats'.discarded = stats.discarded + 1
          /\ stats'.vpn_packets = stats.vpn_packets
      <4>1. stats \in StatsRecord
        BY DEF TypeOK
      <4>2. stats' = [stats EXCEPT !.total = @ + 1, !.discarded = @ + 1]
        BY <3>1 DEF ShortFrame
      <4>3. stats.total + 1 \in Nat /\ stats.discarded + 1 \in Nat
        BY <4>1 DEF StatsRecord
      <4>4. stats' = [stats EXCEPT !.total = stats.total + 1,
                                   !.discarded = stats.discarded + 1]
        BY <4>2
      <4>5. stats' \in StatsRecord
        BY <4>1, <4>3, <4>4, StatsUpdate
      <4> QED
        BY <4>1, <4>2, <4>5 DEF StatsRecord
    <3>3. TypeOK'
      BY <3>1, <3>2 DEF ShortFrame, TypeOK
    <3>4. FramesAccounted'
      BY <3>1, <3>2 DEF ShortFrame, FramesAccounted, TypeOK, StatsRecord
    <3> QED
      BY <3>3, <3>4
  <2>6. CASE TimeoutTick
    <3>1. stats \in StatsRecord
      BY DEF TypeOK
    <3>2. reported' \in StatsRecord /\ due' \in BOOLEAN
      BY <2>6, <3>1, ProgressTyped DEF TimeoutTick
    <3> QED
      BY <2>6, <3>2 DEF TimeoutTick, TypeOK, FramesAccounted
  <2>7. CASE DecodeFrame
    <3>1. pc = "decode" /\ pc' = "loop"
      BY <2>7 DEF DecodeFrame
    <3>2. stats \in StatsRecord /\ added \in Nat
      BY DEF TypeOK
    <3>3. TypeOK'
      BY <2>7, DecodeTyped
    <3>4. FramesAccounted'
      BY <2>7, <3>1, <3>2, DecodeTyped DEF FramesAccounted, StatsRecord
    <3> QED
      BY <3>3, <3>4
  <2>8. CASE Signal \/ Tick
    BY <2>8 DEF Signal, Tick, TypeOK, FramesAccounted
  <2>9. CASE Returned \/ UNCHANGED vars
    BY <2>9 DEF Returned, vars, TypeOK, FramesAccounted
  <2> QED
    BY <2>1, <2>2, <2>3, <2>4, <2>5, <2>6, <2>7, <2>8, <2>9 DEF Next, Loop
<1> HIDE DEF Inv
<1>2. Init => Inv
  BY InitTyped DEF Inv
<1>3. Spec => []Inv
  BY <1>1, <1>2, PTL DEF Spec
<1> QED
  BY <1>3 DEF Inv

\* No decoder looks behind the captured bytes.
THEOREM ReadsStayInside == Spec => []ReadsWithinCapture
<1>1. TypeOK => ReadsWithinCapture
  <2> SUFFICES ASSUME TypeOK, pc = "decode"
               PROVE  Reach(frame) <= frame.caplen - SizeofEther
    BY DEF ReadsWithinCapture
  <2> DEFINE n == frame.caplen - SizeofEther
             info == EmptyInfo(frame.time)
             net == Network(frame)
             dec == Decoded(frame).result
  <2>1. /\ frame.bytes \in MemoryType /\ frame.inner \in MemoryType
        /\ frame.caplen \in Nat /\ frame.caplen >= SizeofEther
    BY DEF TypeOK, FrameType
  <2>2. n \in Int /\ n >= 0 /\ LargerOf(0, n) = n
    BY <2>1 DEF SizeofEther, LargerOf
  <2> HIDE DEF n, info
  <2>3. net.reach \in Int /\ net.reach <= n
    <3>1. \A x : Rejected(x).reach = 0
      BY DEF Rejected
    <3>2. \A x : /\ decodeIPv4(frame.bytes, n, x).reach \in Int
                 /\ decodeIPv4(frame.bytes, n, x).reach <= n
      BY <2>1, <2>2, decodeIPv4Facts
    <3>3. \A x : /\ decodeIPv6(frame.bytes, n, x).reach \in Int
                 /\ decodeIPv6(frame.bytes, n, x).reach <= n
      BY <2>1, <2>2, decodeIPv6Facts
    <3>4. \/ net = Rejected(info)
          \/ net = decodeIPv4(frame.bytes, n, info)
          \/ \E x : net = decodeIPv6(frame.bytes, n, x)
      BY DEF Network, n, info
    <3> HIDE DEF net
    <3> QED
      BY <2>2, <3>1, <3>2, <3>3, <3>4
  <2>4. dec.reach \in Int /\ dec.reach <= n
    <3>1. CASE net.valid
      BY <2>3, <3>1 DEF Decoded
    <3>2. CASE ~ net.valid
      <4>1. dec = decodeL2TP(frame.bytes, frame.inner, n, net.info)
        BY <3>2 DEF Decoded, n
      <4> QED
        BY <2>1, <2>2, <4>1, decodeL2TPFacts
    <3> QED
      BY <3>1, <3>2
  <2> HIDE DEF net, dec
  <2>5. Reach(frame) = LargerOf(net.reach, dec.reach)
    BY DEF Reach, net, dec
  <2>6. Reach(frame) <= n
    BY <2>2, <2>3, <2>4, <2>5, LargerOfBound
  <2> QED
    BY <2>6 DEF n
<1> QED
  BY <1>1, FramesCounted, PTL

\* No variable of the reader leaves its type.
THEOREM ReaderTypeCorrect == Spec => []TypeOK
BY FramesCounted, PTL

\* Every way out of readAll that returns true forces a progress call, and
\* nothing is counted afterwards.
THEOREM ProgressIsFinal == Spec => []FinalProgress
<1> DEFINE I == result # "none" => pc = "done" /\ FinalProgress
<1>1. Init => I
  BY DEF Init
<1>2. I /\ [Next]_vars => I'
  BY DEF Next, Loop, Open, OpenFails, StopRequested, KeepReading, FrameArrives, ShortFrame,
         TimeoutTick, EndOfFile, ReadError, DecodeFrame, Signal, Tick, Returned, vars,
         EmitProgress, Return, FinalProgress
<1>3. I => FinalProgress
  BY DEF FinalProgress
<1> QED
  BY <1>1, <1>2, <1>3, PTL DEF Spec

\* After a stop request the loop passes the test of the flag no more: only a
\* read that is already on its way can count another frame.
THEOREM StopCountsOneMore == Spec => StopWithinOneFrame
<1> SUFFICES ASSUME NEW n \in 0 .. MaxFrames
             PROVE  Spec => [](stop_flag /\ stats.total <= n => [](stats.total <= n + 1))
  BY DEF StopWithinOneFrame
<1> DEFINE Asked == stop_flag /\ stats.total <= n
           Bounded == stats.total <= n + 1
           Ending == stop_flag /\ Bounded /\ (pc = "read" => stats.total <= n)
<1>1. TypeOK /\ Asked => Ending
  BY PacketReaderAssumption DEF TypeOK, StatsRecord
<1>2. TypeOK /\ Ending /\ [Next]_vars => Ending'
  <2> SUFFICES ASSUME TypeOK, Ending, [Next]_vars PROVE Ending'
    OBVIOUS
  <2>1. stats \in StatsRecord /\ n \in Int
    BY PacketReaderAssumption DEF TypeOK
  <2>2. CASE StopRequested \/ TimeoutTick \/ EndOfFile \/ ReadError \/ KeepReading
             \/ Open \/ OpenFails \/ Signal \/ Tick \/ Returned \/ UNCHANGED vars
    BY <2>1, <2>2 DEF StopRequested, TimeoutTick, EndOfFile, ReadError, KeepReading, Open,
       OpenFails, Signal, Tick, Returned, Return, vars
  <2>3. CASE DecodeFrame
    <3>1. stats'.total = stats.total /\ pc' = "loop" /\ stop_flag' = stop_flag
      BY <2>1, <2>3 DEF DecodeFrame, StatsRecord
    <3> QED
      BY <3>1
  <2>4. CASE \E f \in Frames : FrameArrives(f) \/ ShortFrame(f)
    <3>1. stats'.total = stats.total + 1 /\ pc' # "read" /\ pc = "read" /\ stop_flag' = stop_flag
      BY <2>1, <2>4 DEF FrameArrives, ShortFrame, StatsRecord
    <3> QED
      BY <2>1, <3>1 DEF StatsRecord
  <2> QED
    BY <2>2, <2>3, <2>4 DEF Next, Loop
<1>3. Ending => Bounded
  OBVIOUS
<1> HIDE DEF Ending
<1> QED
  BY <1>1, <1>2, <1>3, ReaderTypeCorrect, PTL DEF Spec

-----------------------------------------------------------------------------
(* The promise of CaptureLoop *)

\* Each way out of the loop, and each way into the next turn.
LEMMA LoopRefines ==
  ASSUME TypeOK, Loop
  PROVE  [Capture!Next]_(Capture!vars)
<1>1. stats \in StatsRecord
  BY DEF TypeOK
<1>2. CASE StopRequested
  <2>1. Capture!Return
    BY <1>2 DEF StopRequested, Return, Capture!Return, CapturePhase
  <2> QED
    BY <2>1 DEF Capture!Next
<1>3. CASE KeepReading
  <2>1. Capture!BeginTurn
    BY <1>3 DEF KeepReading, Capture!BeginTurn, CapturePhase
  <2> QED
    BY <2>1 DEF Capture!Next
<1>4. CASE \E f \in Frames : FrameArrives(f) \/ ShortFrame(f)
  <2>1. /\ pc = "read" /\ pc' \in {"decode", "loop"}
        /\ live' = live /\ stop_flag' = stop_flag
        /\ stats'.total = stats.total + 1
    BY <1>1, <1>4 DEF FrameArrives, ShortFrame, StatsRecord
  <2>2. Capture!ReadFrame
    BY <2>1 DEF Capture!ReadFrame, CapturePhase
  <2> QED
    BY <2>2 DEF Capture!Next
<1>5. CASE TimeoutTick
  <2>1. Capture!NoFrameRead
    BY <1>5 DEF TimeoutTick, Capture!NoFrameRead, CapturePhase
  <2> QED
    BY <2>1 DEF Capture!Next
<1>6. CASE EndOfFile
  <2>1. Capture!Return
    BY <1>6 DEF EndOfFile, Return, Capture!Return, CapturePhase
  <2> QED
    BY <2>1 DEF Capture!Next
<1>7. CASE ReadError
  <2>1. Capture!Abort
    BY <1>7 DEF ReadError, Return, Capture!Abort, CapturePhase
  <2> QED
    BY <2>1 DEF Capture!Next
<1>8. CASE DecodeFrame
  <2>1. stats'.total = stats.total
    BY <1>8, DecodeTyped
  <2>2. UNCHANGED Capture!vars
    BY <1>8, <2>1 DEF DecodeFrame, Capture!vars, CapturePhase
  <2> QED
    BY <2>2
<1> QED
  BY <1>2, <1>3, <1>4, <1>5, <1>6, <1>7, <1>8 DEF Loop

\* readAll with its decoders, callbacks and signal handler is a capture loop as
\* its callers know it (PacketReader.cpp:94-194): whatever the frames contain,
\* no turn begins after a stop request, a turn reads one frame at most, and a
\* live capture returns normally only when it was asked to.
THEOREM ReaderImplementsCapture == Spec => ImplementsCapture
<1>1. Init => Capture!Init
  BY PacketReaderAssumption DEF Init, Capture!Init, CapturePhase, NoStats
<1>2. TypeOK /\ [Next]_vars => [Capture!Next]_(Capture!vars)
  <2> SUFFICES ASSUME TypeOK, [Next]_vars PROVE [Capture!Next]_(Capture!vars)
    OBVIOUS
  <2>1. CASE Open
    <3>1. Capture!Open
      BY <2>1 DEF Open, Capture!Open, CapturePhase
    <3> QED
      BY <3>1 DEF Capture!Next
  <2>2. CASE OpenFails
    <3>1. Capture!Abort
      BY <2>2 DEF OpenFails, Capture!Abort, CapturePhase
    <3> QED
      BY <3>1 DEF Capture!Next
  <2>3. CASE Signal
    <3>1. Capture!Ask
      BY <2>3 DEF Signal, Capture!Ask, CapturePhase
    <3> QED
      BY <3>1 DEF Capture!Next
  <2>4. CASE Tick \/ Returned \/ UNCHANGED vars
    BY <2>4 DEF Tick, Returned, vars, Capture!vars, CapturePhase
  <2> QED
    BY <2>1, <2>2, <2>3, <2>4, LoopRefines DEF Next
<1> QED
  BY ReaderTypeCorrect, <1>1, <1>2, PTL DEF Spec, ImplementsCapture, Capture!Spec

-----------------------------------------------------------------------------
(* The packets that reach the flow table *)

Coherent(info) ==
  /\ {info.src_ip, info.dst_ip} \subseteq Addresses
  /\ info.payload_bytes \in UInt16
  /\ info.protocol \in {0, 6, 17}
  /\ info.protocol # 6 => info.flags = {} /\ info.tcp_window = 0
  /\ info.protocol = 0 => info.src_port = 0 /\ info.dst_port = 0 /\ info.payload_bytes = 0

\* A packet whose addresses have been filled in and nothing else.
Addressed ==
  [ src_ip: Addresses, dst_ip: Addresses, src_port: {0}, dst_port: {0},
    protocol: {0}, time: Time, flags: {{}}, payload_bytes: {0},
    header_bytes: {0}, tcp_window: {0}, ip_ttl: UInt8 ]

\* Both length computations are cut off at zero and stay below 2^16.
LEMMA TransportCoherent ==
  ASSUME NEW info \in Addressed, NEW proto,
         NEW t \in TransportBytes, NEW avail \in Int, NEW length \in Int, length < 65536
  PROVE  Coherent(decodeTransport(info, proto, t, avail, length).info)
<1> DEFINE g == decodeTransport(info, proto, t, avail, length).info
<1>1. t.off * 4 \in Nat /\ t.ulen \in Nat /\ t.ulen < 65536
  BY DEF TransportBytes, UInt4, UInt16
<1>2. CASE proto = IPPROTO_TCP /\ avail >= SizeofTcp
  <2> DEFINE payload == Positive(length - t.off * 4)
  <2>1. payload \in UInt16
    BY <1>1 DEF Positive, UInt16
  <2>2. g = [info EXCEPT !.src_port = t.sport, !.dst_port = t.dport,
                         !.protocol = 6, !.flags = t.flags,
                         !.tcp_window = t.win, !.header_bytes = t.off * 4,
                         !.payload_bytes = payload]
    BY <1>2 DEF decodeTransport
  <2> HIDE DEF payload, g
  <2>3. /\ g.src_ip \in Addresses /\ g.dst_ip \in Addresses /\ g.protocol = 6
        /\ g.payload_bytes = payload
    BY <2>2 DEF Addressed
  <2> QED
    BY <2>1, <2>3 DEF Coherent, g
<1>3. CASE /\ ~ (proto = IPPROTO_TCP /\ avail >= SizeofTcp)
           /\ proto = IPPROTO_UDP /\ avail >= SizeofUdp
  <2> DEFINE payload == Positive(t.ulen - 8)
  <2>1. payload \in UInt16
    BY <1>1 DEF Positive, UInt16
  <2>2. g = [info EXCEPT !.src_port = t.sport, !.dst_port = t.dport,
                         !.protocol = 17, !.flags = {}, !.tcp_window = 0,
                         !.header_bytes = 8, !.payload_bytes = payload]
    BY <1>3 DEF decodeTransport
  <2> HIDE DEF payload, g
  <2>3. /\ g.src_ip \in Addresses /\ g.dst_ip \in Addresses /\ g.protocol = 17
        /\ g.flags = {} /\ g.tcp_window = 0 /\ g.payload_bytes = payload
    BY <2>2 DEF Addressed
  <2> QED
    BY <2>1, <2>3 DEF Coherent, g
<1>4. CASE /\ ~ (proto = IPPROTO_TCP /\ avail >= SizeofTcp)
           /\ ~ (proto = IPPROTO_UDP /\ avail >= SizeofUdp)
  <2>1. g = info
    BY <1>4 DEF decodeTransport
  <2>2. 0 \in UInt16
    BY DEF UInt16
  <2> HIDE DEF g
  <2> QED
    BY <2>1, <2>2 DEF Coherent, Addressed, g
<1> QED
  BY <1>2, <1>3, <1>4

LEMMA MemoryTypes ==
  ASSUME NEW m \in MemoryType
  PROVE  /\ m.src \in Addresses /\ m.dst \in Addresses
         /\ m.src6 \in Addresses /\ m.dst6 \in Addresses
         /\ m.ttl \in UInt8 /\ m.hlim \in UInt8
         /\ m.l4 \in TransportBytes /\ m.l6 \in TransportBytes
         /\ m.hl * 4 \in Nat /\ m.len \in Nat /\ m.len < 65536
         /\ m.plen \in Nat /\ m.plen < 65536
<1>1. m.len \in UInt16 /\ m.plen \in UInt16
  BY DEF MemoryType
<1>2. m.len < 65536 /\ m.plen < 65536
  BY <1>1 DEF UInt16
<1> QED
  BY <1>2, MemoryFacts DEF MemoryType

LEMMA FillIn ==
  ASSUME NEW time \in Time, NEW nowhere,
         NEW blank \in [ src_ip: nowhere, dst_ip: nowhere, src_port: {0}, dst_port: {0},
                         protocol: {0}, time: Time, flags: {{}}, payload_bytes: {0},
                         header_bytes: {0}, tcp_window: {0}, ip_ttl: {0} ],
         NEW src \in Addresses, NEW dst \in Addresses, NEW ttl \in UInt8
  PROVE  [blank EXCEPT !.src_ip = src, !.dst_ip = dst, !.ip_ttl = ttl] \in Addressed
BY DEF Addressed

LEMMA EmptyInfoAddressed ==
  ASSUME NEW time \in Time, NEW src \in Addresses, NEW dst \in Addresses, NEW ttl \in UInt8
  PROVE  [EmptyInfo(time) EXCEPT !.src_ip = src, !.dst_ip = dst, !.ip_ttl = ttl] \in Addressed
<1>1. EmptyInfo(time) \in
        [ src_ip: {""}, dst_ip: {""}, src_port: {0}, dst_port: {0},
          protocol: {0}, time: Time, flags: {{}}, payload_bytes: {0},
          header_bytes: {0}, tcp_window: {0}, ip_ttl: {0} ]
  BY DEF EmptyInfo
<1> QED
  BY <1>1, FillIn

LEMMA IPv4Coherent ==
  ASSUME NEW m \in MemoryType, NEW n \in Int, NEW time \in Time
  PROVE  LET r == decodeIPv4(m, n, EmptyInfo(time)) IN
         IF r.valid THEN Coherent(r.info) ELSE r.info = EmptyInfo(time)
<1> DEFINE info == [EmptyInfo(time) EXCEPT !.src_ip = m.src, !.dst_ip = m.dst, !.ip_ttl = m.ttl]
<1>1. CASE n < SizeofIp
  BY <1>1 DEF decodeIPv4, Rejected
<1>2. CASE ~ (n < SizeofIp)
  <2>1. info \in Addressed
    <3>1. m.src \in Addresses /\ m.dst \in Addresses /\ m.ttl \in UInt8
      BY MemoryTypes
    <3> QED
      BY <3>1, EmptyInfoAddressed, Zenon
  <2>2. n - m.hl * 4 \in Int /\ m.len - m.hl * 4 \in Int /\ m.len - m.hl * 4 < 65536
    BY MemoryTypes
  <2>3. decodeIPv4(m, n, EmptyInfo(time)).info
          = decodeTransport(info, m.p, m.l4, n - m.hl * 4, m.len - m.hl * 4).info
    BY <1>2 DEF decodeIPv4
  <2> HIDE DEF info
  <2>4. Coherent(decodeTransport(info, m.p, m.l4, n - m.hl * 4, m.len - m.hl * 4).info)
    BY <2>1, <2>2, MemoryTypes, TransportCoherent
  <2>5. decodeIPv4(m, n, EmptyInfo(time)).valid
    BY <1>2 DEF decodeIPv4
  <2> QED
    BY <2>3, <2>4, <2>5
<1> QED
  BY <1>1, <1>2

LEMMA IPv6Coherent ==
  ASSUME NEW m \in MemoryType, NEW n \in Int, NEW time \in Time
  PROVE  LET r == decodeIPv6(m, n, EmptyInfo(time)) IN
         IF r.valid THEN Coherent(r.info) ELSE r.info = EmptyInfo(time)
<1> DEFINE info == [EmptyInfo(time) EXCEPT !.src_ip = m.src6, !.dst_ip = m.dst6, !.ip_ttl = m.hlim]
<1>1. CASE n < SizeofIp6
  BY <1>1 DEF decodeIPv6, Rejected
<1>2. CASE ~ (n < SizeofIp6)
  <2>1. info \in Addressed
    <3>1. m.src6 \in Addresses /\ m.dst6 \in Addresses /\ m.hlim \in UInt8
      BY MemoryTypes
    <3> QED
      BY <3>1, EmptyInfoAddressed, Zenon
  <2>2. n - SizeofIp6 \in Int /\ m.plen \in Int /\ m.plen < 65536
    BY MemoryTypes DEF SizeofIp6
  <2>3. decodeIPv6(m, n, EmptyInfo(time)).info
          = decodeTransport(info, m.nxt, m.l6, n - SizeofIp6, m.plen).info
    BY <1>2 DEF decodeIPv6
  <2> HIDE DEF info
  <2>4. Coherent(decodeTransport(info, m.nxt, m.l6, n - SizeofIp6, m.plen).info)
    BY <2>1, <2>2, MemoryTypes, TransportCoherent
  <2>5. decodeIPv6(m, n, EmptyInfo(time)).valid
    BY <1>2 DEF decodeIPv6
  <2> QED
    BY <2>3, <2>4, <2>5
<1> QED
  BY <1>1, <1>2

\* What decodeL2TP accepts is what a network decoder made of the inner bytes.
LEMMA L2TPCoherent ==
  ASSUME NEW m \in MemoryType, NEW inner \in MemoryType, NEW n \in Int, NEW time \in Time
  PROVE  LET r == decodeL2TP(m, inner, n, EmptyInfo(time)) IN r.valid => Coherent(r.info)
<1> DEFINE offset == m.hl * 4 + SizeofL2tp
           info == EmptyInfo(time)
           inside == CASE inner.v = 4 -> decodeIPv4(inner, n - offset, info)
                       [] inner.v = 6 -> decodeIPv6(inner, n - offset, info)
                       [] OTHER -> Rejected(info)
           outside == decodeL2TP(m, inner, n, info)
<1>1. n - offset \in Int
  BY MemoryTypes DEF SizeofL2tp
<1>2. \/ ~ outside.valid
      \/ outside.valid = inside.valid /\ outside.info = inside.info
  <2>1. \/ outside = Rejected(info)
        \/ outside = [Rejected(info) EXCEPT !.reach = SizeofIp]
        \/ outside = [inside EXCEPT !.reach = offset + LargerOf(SizeofIp, inside.reach)]
    BY DEF decodeL2TP
  <2>2. "valid" \in DOMAIN inside /\ "info" \in DOMAIN inside
    BY DEF decodeIPv4, decodeIPv6, Rejected
  <2>3. /\ ~ Rejected(info).valid
        /\ ~ [Rejected(info) EXCEPT !.reach = SizeofIp].valid
    BY DEF Rejected
  <2> HIDE DEF inside, outside, offset, info
  <2> QED
    BY <2>1, <2>2, <2>3
<1>3. inside.valid => Coherent(inside.info)
  <2> HIDE DEF offset
  <2>1. CASE inner.v = 4
    BY <1>1, <2>1, IPv4Coherent
  <2>2. CASE inner.v = 6
    BY <1>1, <2>2, IPv6Coherent
  <2>3. CASE inner.v # 4 /\ inner.v # 6
    BY <2>3 DEF Rejected
  <2> QED
    BY <2>1, <2>2, <2>3
<1> HIDE DEF inside, outside, info
<1>4. outside.valid => Coherent(outside.info)
  BY <1>2, <1>3
<1> QED
  BY <1>4 DEF outside, info

LEMMA DecodedCoherent ==
  ASSUME NEW f \in FrameType, f.caplen >= SizeofEther, Decoded(f).result.valid
  PROVE  Coherent(Decoded(f).result.info)
<1> DEFINE n == f.caplen - SizeofEther
           info == EmptyInfo(f.time)
           v4 == IF read_ipv4 /\ f.ether_type = "IPv4"
                 THEN decodeIPv4(f.bytes, n, info) ELSE Rejected(info)
           net == Network(f)
<1>1. /\ n \in Int /\ f.time \in Time
      /\ f.bytes \in MemoryType /\ f.inner \in MemoryType
  BY DEF FrameType, SizeofEther
<1>2. Rejected(info).info = info /\ ~ Rejected(info).valid
  BY DEF Rejected
<1>3. \/ net = v4
      \/ ~ v4.valid /\ net = decodeIPv6(f.bytes, n, v4.info)
  BY DEF Network
<1>4. IF net.valid THEN Coherent(net.info) ELSE net.info = info
  <2>1. IF v4.valid THEN Coherent(v4.info) ELSE v4.info = info
    <3>1. v4 = decodeIPv4(f.bytes, n, info) \/ v4 = Rejected(info)
      OBVIOUS
    <3> HIDE DEF v4, n
    <3> QED
      BY <1>1, <1>2, <3>1, IPv4Coherent
  <2>2. LET r == decodeIPv6(f.bytes, n, info) IN
        IF r.valid THEN Coherent(r.info) ELSE r.info = info
    <3> HIDE DEF n
    <3> QED
      BY <1>1, IPv6Coherent
  <2> HIDE DEF info, net, v4, n
  <2> QED
    BY <1>3, <2>1, <2>2
<1> HIDE DEF net, n
<1>5. CASE net.valid
  BY <1>4, <1>5 DEF Decoded, net
<1>6. CASE ~ net.valid
  <2>1. Decoded(f).result = decodeL2TP(f.bytes, f.inner, n, info)
    BY <1>4, <1>6 DEF Decoded, net, n
  <2> QED
    BY <1>1, <2>1, L2TPCoherent
<1> QED
  BY <1>5, <1>6

\* What PacketReader hands to FlowGenerator::addPacket is always coherent.
THEOREM FlowPacketsCoherent == Spec => []FlowPacketCoherent
<1> DEFINE C == added > 0 => Coherent(flow_packet)
<1>1. Init => C
  BY DEF Init
<1>2. TypeOK /\ C /\ [Next]_vars => C'
  <2> SUFFICES ASSUME TypeOK, C, [Next]_vars PROVE C'
    OBVIOUS
  <2>1. CASE DecodeFrame
    <3>1. frame \in FrameType /\ frame.caplen >= SizeofEther
      BY <2>1 DEF DecodeFrame, TypeOK
    <3>2. CASE Decoded(frame).result.valid
      <4>1. flow_packet' = Decoded(frame).result.info
        BY <2>1, <3>2 DEF DecodeFrame
      <4> QED
        BY <3>1, <3>2, <4>1, DecodedCoherent
    <3>3. CASE ~ Decoded(frame).result.valid
      BY <2>1, <3>3 DEF DecodeFrame
    <3> QED
      BY <3>2, <3>3
  <2>2. CASE UNCHANGED << added, flow_packet >>
    BY <2>2
  <2>3. DecodeFrame \/ UNCHANGED << added, flow_packet >>
    BY DEF Next, Loop, Open, OpenFails, StopRequested, KeepReading, FrameArrives, ShortFrame,
           TimeoutTick, EndOfFile, ReadError, Signal, Tick, Returned, vars
  <2> QED
    BY <2>1, <2>2, <2>3
<1>3. C => FlowPacketCoherent
  BY DEF FlowPacketCoherent, Coherent
<1> QED
  BY <1>1, <1>2, <1>3, FramesCounted, PTL DEF Spec

=============================================================================
