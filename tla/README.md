# TriFlowMeter in TLA+

A model of TriFlowMeter, the flow analyzer of this repository: it reads packets
from a capture file or a network interface, groups them into bidirectional
flows, and writes one CSV row of statistics per finished flow. The modules are
translated from the C++ sources; `PROJECT.json` maps each definition to the
lines it models. Paths below are relative to the repository.

## 1. The system

| Component | Source | State | Operations |
|---|---|---|---|
| Flow table | `src/FlowGenerator.cpp` | active flows by 5-tuple, counters, callback, storage switch | `addPacket`, `finishAllFlows`, `setFlowCallback`, `setStoreFinishedFlows` |
| Flow | `src/BasicFlow.cpp` | one record: two directions, times, flags, eight accumulators, `finished` | two constructors, `addPacket` (with `checkFlags`, `updateActiveIdleTime`), getters |
| Statistics | `RunningStats` in `include/BasicFlow.h` | n, mean, m2, sum, min, max | `add`, `stddev` |
| Packet | `include/BasicPacketInfo.h` | none of its own | `fwdFlowId` |
| Decoders | `src/PacketDecoders.cpp` | none | `decodeIPv4`, `decodeIPv6`, `decodeL2TP` |
| Reader | `src/PacketReader.cpp` | libpcap handle, packet counters, time of the last progress call | `open`, `readAll` |
| Program | `src/main.cpp` | mode, output stream, row counter, stop flag | three modes, callbacks, exits, signal handler |
| Rows | `src/CSVWriter.cpp` | none | `writeHeader`, `writeFlowRow` |
| Dashboard | `src/LiveDashboard.cpp` | last statistics shown | setters, `forceRefresh`, `finalize` |
| Arguments | `src/CLIOptions.cpp` | none | `parseCliArgs` |
| Files | `src/FileUtils.cpp` | none | output path, ownership under sudo |

**Interaction.** `main` configures the flow table (no storage, a callback),
calls `readAll`, which decodes each frame and calls `addPacket`, then calls
`finishAllFlows`. `addPacket` and `finishAllFlows` call the callback, which
writes the row, counts it and refreshes the dashboard; the callback reads the
table it is called from. The reader calls a progress callback at most every
250 ms and when it ends normally. There is one thread. The only asynchronous
actor is the signal handler of a live capture, which sets a flag that the
reader tests once per turn. Nothing is persisted across runs.

**What is hard.**
- 64-bit unsigned time arithmetic with packets that need not be in time order;
- identity and orientation of a flow over timeout splits, where the old record is
  erased and a new one built from copies, possibly by a packet of the other side;
- the order of RST, FIN, timeout and end of capture, and a first packet that
  already ends its flow;
- the end of the capture, where the unordered table is exported while it is
  still being read by the callback;
- header lengths and protocol numbers that contradict the captured length, and
  three decoders tried one after the other on the same bytes;
- a signal at any moment of the reading loop, timeouts and read errors;
- a callback that is cut by a failing stream, a kill or the end of the scope it
  captured, while the table it was called from still holds the flow;
- option values that look like options, and numbers `stoull` reads modulo 2^64.

**What makes each component correct.**
- *Flow table*: a connection never owns two flows; every packet is counted in
  exactly one record of its connection; every record is reported exactly once;
  none is longer than the flow timeout.
- *Flow*: directions, totals and inter-arrival times agree with each other, active
  and idle time partition the duration, `finished` means RST or both FINs.
- *Decoders*: nothing behind the captured bytes is read; a packet that is
  accepted is complete.
- *Reader*: every frame is counted once; a stop request ends the loop; the last
  progress call shows the final counters.
- *Statistics*: mean and second moment are those of the samples added so far.
- *Rows*: the columns of a row agree with each other, whatever direction is empty.
- *Arguments*: a command line is accepted, and read, as the usage text says.
- *Program*: what is written, what is counted and what is reported agree on every
  exit path; nothing is used after its scope.

`PROJECT.json` lists the hazards line by line with the properties that cover
them.

## 2. Modules

| Module | Models | Notes |
|---|---|---|
| `BasicPacketInfo` | packet record, flow key, `uint64_t` difference | constants `Addresses`, `Ports`, `Protocols`, `MaxTime`, `Wrap` |
| `RunningStats` | the accumulator without mean and m2 | `AddValue` |
| `BasicFlow` | a flow as a record and its operations as operators | constant `ActivityTimeout` |
| `FlowGenerator` | the flow table as a state machine | constants `Packets`, `FlowTimeout`, `Ordered`, `MaxPackets` |
| `CSVWriter` | the row of a flow as a function of its record | extends `FlowGenerator` |
| `ConnectionLedger` | abstract promise of the flow table | packets and flows per connection |
| `FlowCounts` | abstract promise of the flow table to `main` | flows created, active, reported |
| `CaptureLoop` | abstract promise of `readAll` to its callers | turns, frames, stop request, way of ending |
| `FlowRefinement` | refinement mappings from `FlowGenerator` to both | |
| `PacketDecoders` | the decoders as functions | |
| `PacketReader` | `open`, `readAll`, stop flag, progress | constants `Frames`, `read_ipv4`, `read_ipv6`, `HasProgress`, `MaxFrames`, `Snaplen`; implements `CaptureLoop` |
| `TriFlowMeter` | `main` with its reader, table, stream and dashboard | constant `MaxFrames`; implements `FlowCounts` and `CaptureLoop` |
| `CLIOptions` | `parseCliArgs` | constants `Words`, `stoull`, `Wrap`, `MaxArgs` |
| `Welford` | running mean and second moment | constants `Values`, `Scale`, `MaxSamples` |
| `MCFlowGenerator`, `MCPacketReader`, `MCCLIOptions` | captures, frames and words for TLC | |
| `FlowGeneratorProofs`, `FlowRefinementProofs`, `FlowRecordProofs`, `CSVWriterProofs` | proofs about the table and its rows | each extends the one before |
| `PacketReaderProofs`, `TriFlowMeterProofs`, `CLIOptionsProofs`, `WelfordProofs` | proofs about these modules | |

Operators and actions whose name has a suffix after an underscore
(`SplitOnTimeout_OldStart`) are faulty variants kept next to the original: each
is a plausible bug, and the property it violates is listed in `PROJECT.json`
under `mutants`. They are part of no specification.

### How they compose

The flow table is too large to be explored together with the program's streams,
signals and exits. `FlowCounts` joins the two: it says how flows are created and
reported and nothing else. `FlowGenerator` implements it (`ImplementsCounts` in
`FlowRefinement`), so the table promises `main` nothing that `FlowCounts` does
not. `TriFlowMeter` uses the table through the same counts and implements the
same specification, so it assumes nothing of the table that the table does not
keep. `CaptureLoop` does the same for the reader: turns that begin only without a
stop request, at most one frame per turn, and a normal return only upon a
request or, in a file, at its end. `PacketReader` implements it with its
decoders and progress calls, for whatever a decoder makes of a frame;
`TriFlowMeter`, which knows of a frame only whether it was too short, created no
row, or ended or split a flow, implements it with the callbacks of `main`, kills
and signals (`ImplementsCapture` in both).

### Correspondence

*Flow table.* `current_flows` is the unordered map, a function from keys to
entries. Each branch of `FlowGenerator::addPacket` is an action (`StartFlow`,
`SplitOnTimeout`, `ContinueFlow`, `FinishFlow`): the callback (`rows`) and the
counters change in the same step, and `TriFlowMeter` has what happens inside the
callback. `finishAllFlows` is split into a step per flow
(`BeginFinishAllFlows`, `FinishOne`, `ClearFlows`): the map's order is
unspecified, and the callback can look at the table in between. `phase` follows
the calls of `main`, among them the return after a read error (`ReadFails`),
which gives up what is in the table (`"abandoned"`).

*Flow.* The class keeps most members twice (`forward_x`, `backward_x`); the model
has `half["fwd"].x` and `half["bwd"].x`. `NewFlow` and `SplitFlow` are the two
constructors. `CountPacket` is the part of `addPacket` that depends on the
direction, including its asymmetry: only the backward branch records the initial
window and TTL when it meets the direction's first packet.

*Row.* `writeFlowRow` changes nothing but the stream, so a row is a function of
the record the callback receives. A division is kept as numerator and
denominator behind the guard the code puts before it (`RatioOrZero`).

*Numbers.* Timestamps are microseconds up to `MaxTime`; their differences wrap at
`Wrap` (2^64 in the code, a small modulus in the runs). Counters and sums are
unbounded naturals. Doubles are exact: `Welford` counts the mean in units of
`1 / Scale` and only takes steps whose divisions leave no remainder; with
`Scale = 60`, a multiple of 1 to 6, the first six samples always can.

*Bytes.* A decoder casts a pointer to a structure, so the model gives a piece of
memory by what it reads as through each cast (`MemoryType`), and each decoder
also returns how far it looked (`reach`), also when it rejects. A captured length
is at most the snapshot length of libpcap (`Snaplen`), which is an `int`, so
that the conversion of the remaining length to `int` (`PacketReader.cpp:152`) is
exact; that of the two parts of a timestamp to microseconds is one number in the
model, exact for the times libpcap delivers. The header length `hl` is any value of
its field, as in the code, which checks neither it nor the IP version.

*Reader.* One turn of the loop is cut before the flag is tested (`pc = "loop"`),
before libpcap is called (`"read"`) and before a frame is decoded (`"decode"`),
because a signal may fall between. libpcap is external: it may deliver any
frame, a timeout (live only), the end of the file (offline only) or an error at
any call. `live` is the mode of the reader, either one at the start. `due` says
whether 250 ms have passed since the last progress call; the clock may make it
true at any time.

*Program.* `pc` walks through `main`: opening, configuring the table, the loop of
`readAll`, the block's end (`"returned"`), `finishAllFlows` (`"drain"`) and the
summary. A call of the flow callback has three steps of its own: the row is
written (`"write"`), counted and shown (`"show"`), and the callback returns
(`"return"`), upon which the table finishes what it was doing; `caller` says
what that was. The table's counters follow the order of
`FlowGenerator.cpp:85-92`: a flow that is reported is still in the table. The
output stream has a buffer (`buffered`) that empties when the code flushes it, or
by itself at any moment (`BufferFull`); a flush may get only a part out, after
which the stream is bad and drops what it is given, as an `ofstream` does. The
`dashboard` carries whether it is in scope: the callback captured it and `tickUi`
by reference, and both are declared inside the block that ends before
`finishAllFlows` is called. What a use after that does is undefined
(`ShowRowDangling`): where the stack is still as the block left it the screen is
drawn once more, due or not; else the stream is flushed or not and nothing is
drawn, or the process dies. `PictureWithinOne` and `LastPictureComplete` speak of
what is drawn in the scope of the dashboard; that the callback outlives it is
what `program_dangling` shows. A signal sets
the flag in live mode and ends the process otherwise, `Kill` ends it at any step
with what has left the buffer, and the clock makes progress and ticks due.

*Arguments.* One step per turn of the loop of `parseCliArgs`. The property is a
grammar over positions, not a second parser: which positions are options and
which are values, which option counts when it is given twice, and which position
is the source and the output. `stoull` is a constant function on words.

## 3. Runs

In the runs of the flow table the timeouts are 3 (flow) and 1 (activity) time
units, so that captures of a few units contain gaps below, at and above each.

| Run | Distinct states | Checks | Shows |
|---|---|---|---|
| `flow_table_ordered` | 671,741 | ten invariants, `ImplementsLedger` | captures of 4 packets at times 0..4 in order: table, records, rows and ledger agree |
| `flow_table_unordered` | 247,076 | types, durations, identity, `ImplementsCounts`, liveness also of the ledger | captures of 3 packets at times 0..4 in any order, with resets |
| `reader` | 16,589 | reach, coherence, types, accounting, final progress, stop requests (`StopWithinOneFrame`, `StopReturns`), `ImplementsCapture` | live and offline, 2 frames around every threshold of the decoders, with signals, timeouts, errors |
| `program_paths` | 346,116 | accounting of rows, exits and pictures, durability, termination, `ImplementsCounts`, `ImplementsCapture` | live and offline, file and stdout, 4 frames, stream failures, read errors, signals, kills |
| `command_line` | 235,686 | status, options and defaults against the grammar | every command line of up to 5 arguments |
| `moments` | 462 | mean and second moment | up to 6 samples out of 5 values |

**Why the bounds are enough.** Four packets allow every sequence that the
properties speak of: a flow that starts, is split by either side, continues and
is finished by RST or by both FINs, or one connection that finishes while another
one lingers. A split needs a gap of 4, an idle period a gap of 2. Connections
between two hosts, of a host with itself and of an endpoint with itself cover
both lookups. `Wrap` is 64: larger than every time plus every timeout, as 2^64 is.

The frames have one byte less than, and exactly, each length at which a decoder
looks further, for the header lengths 0, 5 and 15 and for consistent and
inconsistent length fields: an IP header and its transport, and in a tunnel the
outer header, L2TP, the inner header and its transport. Frames are decoded
independently of each other, so two suffice; two also let a stop request be
overtaken by one frame and show a second one.

Four frames let the program create two flows and end them, split one, have one
left for `finishAllFlows`, and fail in between. Five arguments are two options
with values and a positional, or all positional arguments with one too many.
Six samples suffice for a mean that moves both ways; `WelfordProofs` has the
rest.

**Statements that the code does not keep.** Six runs each check one sentence of
the documentation and find a counterexample;
`PROJECT.json` quotes the sentences under `findings`.

| Run | The code |
|---|---|
| `rst_lingers` | a flow that starts with RST is finished but stays in the table |
| `single_packets` | `finishAllFlows` exports flows of a single packet |
| `split_header` | after a split by a backward packet, forward window, TTL and minimum segment size stay 0 |
| `gap_underflow` | a late packet records an inter-arrival time near 2^64 |
| `l2tp_over_ipv4` | L2TP over IPv4 joins a flow of the outer addresses: `decodeIPv4` accepts it before `decodeL2TP` is tried |
| `program_dangling` | `finishAllFlows` calls a callback whose dashboard is out of scope |

Others are plain from the source and need no run:

- `--flow-timeout -1` is accepted as 2^64 - 1 seconds, because `std::stoull` takes
  a minus sign (`CLIOptions.cpp:108`), and wraps when it is converted to
  microseconds (`FlowGenerator.cpp:36`); the message at `CLIOptions.cpp:111` asks
  for a non-negative integer;
- `main` passes `read_ipv6 = false` (`main.cpp:104`), so that IPv6 frames are
  discarded, which `README.md:201` calls fully supported;
- IPv4 packets without TCP or UDP become flows of protocol 0
  (`PacketDecoders.cpp:176`; `docs/ARCHITECTURE.md:646`);
- a silent flow stays in the table beyond its timeout until its connection's next
  packet or the end (`FlowGenerator.cpp:72`; `docs/ARCHITECTURE.md:208`, `607`);
- addresses alone decide the direction (`BasicFlow.cpp:141`), so all packets of a
  host's connection with itself are forward (`docs/ARCHITECTURE.md:365`).
  `HalvesByEndpoint` has this case;
- rows are counted whether or not the stream took them, so the branch for rows
  that failed to be written (`main.cpp:252`) is never taken. `RowsAccounted`
  states both halves of this.

**Fairness.** `FlowGenerator!FairSpec` has weak fairness for the steps of
`finishAllFlows`, which is straight-line code of one thread, and for nothing
else: a capture need not end, and on a read error `main` returns without calling
`finishAllFlows` (`main.cpp:104-107`, `210-213`), which is why `EveryFlowReported`
and the fair ledger promise something only once the drain has begun.
`PacketReader!FairSpec` has weak fairness for `open` and for the
loop as a whole: `pcap_next_ex` returns, since a live capture is opened with a
read timeout of one second (`main.cpp:63`). Nothing forces a particular outcome of
it: the end of a file, a frame or an error is not fair. Signals and the clock
are not fair. `StopReturns` holds under these assumptions only because every
turn passes the test of the flag. `TriFlowMeter!FairSpec` is `WF_vars(Main)`: the
one thread keeps running, for the same reason. Which of its outcomes a step has
is not fair, nor are signals, kills, the clock or the buffer; `EndsWhenAsked`
rests on a file being finite (`MaxFrames`) and, live, on the test of the flag.
`CLIOptions` and `Welford` have no liveness property.

## 4. Proofs

Each theorem holds for all constants that satisfy the named assumptions, which
TLC evaluates in the runs; there are no others. `PROJECT.json` lists them.

**Flow table** (`FlowGeneratorProofs`). `Spec => []Consistent`, and from it
`TypeOK`, `OneFlowPerConnection`, `FlowMatchesKey` and `FlowsAccounted`. The
inductive invariant `Consistent` joins these with `TableConsistent`, because

- the accounting equation needs the table to be finite (a cardinality changes by
  one only then) and each flow to have packets (`packetCount() > 0` guards the
  export), and the callback to be installed before the first flow exists;
- the steps of `finishAllFlows` need `pending` to be keys of the table, and the
  equation counts only what is still pending there;
- a split keeps `flow_id` because it was the key before (`FlowMatchesKey`), and a
  new key is inserted only when neither it nor its reverse is present.

One lemma per action shows that it preserves the invariant; lemmas about the
operators (`AddValue`, `Elapsed`, the constructors, `addPacket`) give their
types. `FlowsBounded` proves `DurationBounded` under the extra assumption
`FlowTimeout + MaxTime < Wrap`: the code relies on a timestamp before the start
of the flow giving a difference above the timeout, which is true as long as both
together stay below 2^64 microseconds. It does not for a timeout near 2^64.

**Refinement** (`FlowRefinementProofs`). `TableImplementsCounts` and
`TableImplementsLedger`: initial states map to initial states, and each action,
under `Consistent`, to one of the abstract specification or to a stutter. The
ledger sums over the flows of a connection; what makes the sum move by one packet
is that a connection has one key (`UniqueKey`, from `OneFlowPerConnection`), that
the key a packet is looked up under is a key of its connection, and that the
table has no keys of other connections (`KeysKnown`).

**Records** (`FlowRecordProofs`). The seven properties of what a flow reports of
itself: `HalvesAddUp`, `FinishedByRstOrBothFins`, `InterArrivalsTelescope`,
`ActiveIdlePartition`, `LingeringIsFirstRst`, `SegmentsInOrder`,
`HalvesByEndpoint`. The first five are
strengthened to `AllSound`: every flow, in the table or reported, is `Sound` at
the time the capture has reached. For a single flow the constructors give
`Sound` and `addPacket` keeps it; the time of the capture is part of it because
the differences telescope only if no packet is older than the last one, and a
difference of ordered times does not wrap. `FinishSound` says in both directions
when a flow is finished: a RST was counted, or each half has its one FIN.
`SegmentsInOrder` has its own invariant, `RowsInOrder`: the rows of a connection
do not overlap, and end before its flow in the table starts. The statements about time hold in
ordered captures, those about counts and flags in any. `HalvesByEndpoint`
(`DirectionsKept`) needs `FromEndpoints` of every flow, in the table or reported:
each half counts what its endpoint sent, and a direction without packets still
has its initial values. A packet is looked up under its own tuple or the reverse
of it, and the flow found there has that tuple (`FlowMatchesKey`); so comparing
addresses finds the sender, also in a split, which either side may cause.

**Rows** (`CSVWriterProofs`). `RowColumnsAgree` follows from `AllSound`, without an
invariant of its own. What it needs is in `StatisticsSound`, a part of `Sound`:
every accumulator keeps `n * min <= sum <= n * max` and a maximum that is part
of its sum, which the next value cannot break; that an unused one is all zeros
makes the guards of the row harmless where they differ from the count.

**Reader and decoders** (`PacketReaderProofs`). `TypeOK`, `FramesAccounted`,
`FinalProgress`, `StopWithinOneFrame`, `ReadsWithinCapture` and
`FlowPacketCoherent` for any set of frames, and the refinement of
`CaptureLoop`, step by step. Reach and coherence are facts about
the decoders: a lemma for each bounds its `reach` by the bytes that are left,
and one says what a packet it accepts looks like; the reader's invariants only
carry them along.

**Program** (`TriFlowMeterProofs`). `RowsAccounted`, `ExitAccountsForFlows`,
`ShownRowsAreDurable`, `PictureWithinOne`, `LastPictureComplete`, and the
refinements `ImplementsCounts` and `ImplementsCapture`, for captures of any
length. The inductive
invariant adds to `TypeOK` and these

- `Control`: the callback runs exactly where `caller` says so, the flow it reports
  is still in the table, and the locations after the drain have an empty table;
- `Scope`: the dashboard exists exactly inside the packet loop without stdout
  mode, and knows all rows but the one being shown.

The first keeps the counters above zero, the second ties the picture to the rows.
`ImplementsCapture` also needs that the flag is only set in live mode
(`AskedWhenLive`): an offline capture never looks at it, and would begin a turn
in spite of a request.

**Arguments** (`CLIOptionsProofs`). `TypeOK`, `StatusByUsage` and `OptionsByUsage`
for command lines of any length. The inductive invariant `Consistent` says what
the parser knows before it looks at position `i`: no position before `i` asked
for help or was refused (`ReadSoFar`), `i` is itself not a value of an option, and
each option is what the grammar makes of the positions before `i`
(`OptionsSoFar`). Which positions are values is defined by a recursive function,
and the library's induction theorems cannot be used for it (see below); that the
function satisfies its equation (`IsValueEquation`) is proved from a least
position where it would not (`LeastNat`). The assumption on the constants
includes `120 < Wrap`: the default timeout is a number of the code's type.

**Statistics** (`WelfordProofs`). `n * mean = sum`, and
`n * m2 = n * squares - sum^2` up to the scale, for any values and any
number of samples, as long as the divisions are exact. The invariant needs both at
once: m2 grows by a product of deviations from the old and the new mean.

**Only model-checked.** Liveness (`EveryFlowReported`, `ImplementsFairLedger`,
`StopReturns`, `EndsWhenAsked`): it needs ENABLED, which is out of the prover's
reach. Every invariant and every safety property of the passing runs is a theorem.
What a recursive definition computes for every input is in general an induction
over data that the installed provers cannot instantiate; the one such definition
here, the grammar's, is handled as described under *Arguments*. No module
declares a RECURSIVE operator.

## 5. Not modelled

- Rounding in doubles and overflow of the 32-bit counters (`forward_packets`,
  `finished_flow_count_`, flag counts): both need captures beyond 2^31 packets or
  values beyond 2^53.
- `writeHeader`, and of a row the columns copied from the record (identity, time
  strings, initial windows, minimum segment, TTLs), the standard deviations and
  the formatting of numbers. `stddev` is the
  root of `m2 / (n - 1)`, which is not a rational.
- The layout of the dashboard, its banner, uptime and shortened numbers, and
  `refreshIfDue`, which has no caller. Its setters, `forceRefresh` and the numbers
  it draws are in `TriFlowMeter`.
- `resolveCsvPath` and `FileUtils`: strings, directories and one `chown` whose
  result is ignored. That the former may throw is in `TriFlowMeter`.
- The hash function of the table, represented by an unspecified order.
- `compareIPs`, `generateFlowId` and `bwdFlowId`, which have no caller; the ARP
  decoder, which is commented out; the getters of a flow that no column uses.
- `JavaNumberFormat`, which the documentation names and the source does not have;
  the build files.

## 6. What is left

In the order of use: a bound on how long the dashboard
stays behind during a run of short frames (`PacketReader.cpp:143`), which needs a
model of the clock; the columns for rates of each direction, which divide by the
same duration.
