-------------------------- MODULE TriFlowMeterProofs --------------------------
(***************************************************************************)
(* The program's accounting, for captures of any length: rows, flows and   *)
(* pictures agree on every exit path, and what main does with the flow     *)
(* table is what its counts allow.                                         *)
(***************************************************************************)
EXTENDS TriFlowMeter, TLAPS

\* Where the callback runs, and what holds at the locations that are left once.
Control ==
  /\ Reporting <=> pc \in {"write", "show", "return"}
  /\ caller \in {"finish", "split"} => current_flows > 0
  /\ caller = "drain" => pending > 0
  /\ pc = "summary" => pending = 0 /\ current_flows = 0
  /\ pc \in {"open", "setup"} =>
       streamed_rows = 0 /\ current_flows = 0 /\ buffered = 0 /\ ~ stream_bad
  /\ exit = "ok" => pc = "summary"
  /\ exit = "failed" => pc \in {"open", "setup", "read"}
  /\ exit \in {"ok", "failed"} => buffered = 0

\* The dashboard exists while the packet loop runs, and knows all rows but the
\* one the callback is about to show.
Scope ==
  /\ dashboard.in_scope => ~ stdout_mode /\ ~ Draining
  /\ ~ stdout_mode /\ exit = "running" /\ ~ Draining /\ pc \notin {"open", "setup"}
       => dashboard.in_scope
  /\ dashboard.shows.written <= streamed_rows
  /\ dashboard.in_scope /\ pc # "show" => dashboard.shows.written = streamed_rows

Consistent ==
  /\ TypeOK
  /\ Control
  /\ RowsAccounted
  /\ Scope
  /\ ShownRowsAreDurable

\* RowsAccounted in two parts, the rows of the stream and the flows of the
\* table, and ShownRowsAreDurable in two, for the dashboard and for stdout.
StreamAccounted ==
  /\ file_rows + buffered <= streamed_rows
  /\ ~ stream_bad => file_rows + buffered = streamed_rows

CountsAccounted ==
  /\ finished_flow_count = streamed_rows + (IF pc = "write" THEN 1 ELSE 0)
  /\ next_insertion_order + (IF Reporting THEN 1 ELSE 0) = finished_flow_count + ToReport

PictureDurable == ~ stream_bad => picture.written <= file_rows

StdoutDurable ==
  ~ stream_bad /\ stdout_mode => streamed_rows <= file_rows + (IF pc = "show" THEN 1 ELSE 0)

OutputOK == StreamAccounted /\ PictureDurable /\ StdoutDurable

\* TypeOK, one variable at a time.
Types ==
  /\ live_mode \in BOOLEAN /\ stdout_mode \in BOOLEAN /\ g_stop_capture \in BOOLEAN
  /\ pc \in {"open", "setup", "loop", "read", "write", "show", "return", "returned",
             "drain", "summary"}
  /\ exit \in {"running", "ok", "failed", "killed", "crashed"}
  /\ caller \in {"none", "finish", "split", "drain"}
  /\ total \in Nat /\ total <= MaxFrames
  /\ current_flows \in Nat /\ next_insertion_order \in Nat
  /\ finished_flow_count \in Nat /\ pending \in Nat
  /\ streamed_rows \in Nat /\ buffered \in Nat /\ file_rows \in Nat
  /\ stream_bad \in BOOLEAN /\ progress_due \in BOOLEAN /\ ui_due \in BOOLEAN
  /\ dashboard \in [in_scope: BOOLEAN, shows: Picture]
  /\ picture \in Picture

Inv == Types /\ Control /\ CountsAccounted /\ Scope /\ OutputOK

LEMMA InvIsConsistent == Inv <=> Consistent
<1>1. TypeOK <=> Types
  BY TriFlowMeterAssumption DEF TypeOK, Types
<1>2. RowsAccounted <=> StreamAccounted /\ CountsAccounted
  BY DEF RowsAccounted, StreamAccounted, CountsAccounted
<1>3. ShownRowsAreDurable <=> PictureDurable /\ StdoutDurable
  BY DEF ShownRowsAreDurable, PictureDurable, StdoutDurable
<1> QED
  BY <1>1, <1>2, <1>3 DEF Inv, Consistent, OutputOK

-----------------------------------------------------------------------------
(* Output *)

\* A flush only moves rows from the buffer to the file, all of them unless the
\* stream fails.
LEMMA FlushMoves ==
  ASSUME Types, Flush
  PROVE  /\ file_rows' \in Nat /\ buffered' = 0 /\ stream_bad' \in BOOLEAN
         /\ file_rows <= file_rows' /\ file_rows' <= file_rows + buffered
         /\ stream_bad => stream_bad'
         /\ ~ stream_bad' => file_rows' = file_rows + buffered
<1>1. CASE file_rows' = file_rows + buffered /\ buffered' = 0 /\ UNCHANGED stream_bad
  BY <1>1 DEF Types
<1>2. CASE /\ buffered > 0
           /\ file_rows' \in file_rows .. file_rows + buffered - 1
           /\ buffered' = 0
           /\ stream_bad' = TRUE
  BY <1>2 DEF Types
<1> QED
  BY <1>1, <1>2 DEF Flush

\* What the stream is like after a step, whichever way it moved rows.
StreamStep ==
  /\ file_rows' \in Nat /\ buffered' \in Nat /\ stream_bad' \in BOOLEAN
  /\ file_rows <= file_rows' /\ file_rows' + buffered' <= file_rows + buffered
  /\ stream_bad => stream_bad'
  /\ ~ stream_bad' => file_rows' + buffered' = file_rows + buffered
  /\ buffered = 0 => buffered' = 0

LEMMA FlushIsStreamStep == ASSUME Types, Flush PROVE StreamStep
  BY FlushMoves DEF StreamStep, Types

LEMMA UnchangedIsStreamStep == ASSUME Types, UNCHANGED stream PROVE StreamStep
  BY DEF StreamStep, Types, stream

\* A tick leaves the picture alone or draws what the dashboard shows, with all
\* rows in the file unless the stream failed.
LEMMA TickDraws ==
  ASSUME Types, NEW force \in BOOLEAN, NEW shows \in Picture, TickUi(force, shows)
  PROVE  /\ StreamStep
         /\ ui_due' \in BOOLEAN
         /\ \/ picture' = picture
            \/ /\ picture' = shows
               /\ ~ stream_bad' => file_rows' = file_rows + buffered
         /\ force => picture' = shows /\ (~ stream_bad' => file_rows' = file_rows + buffered)
<1>1. CASE force \/ ui_due
  BY <1>1, FlushMoves, FlushIsStreamStep DEF TickUi
<1>2. CASE ~ (force \/ ui_due)
  BY <1>2, UnchangedIsStreamStep DEF TickUi, Types
<1> QED
  BY <1>1, <1>2

LEMMA RowShowsRows ==
  ASSUME Types
  PROVE  /\ RowShows \in Picture
         /\ RowShows.written = streamed_rows /\ RowShows.active = current_flows
BY DEF Types, Picture, RowShows

\* A progress call changes the dashboard's frames and active flows, not its rows.
ProgressEffect(flows) ==
  /\ StreamStep
  /\ ui_due' \in BOOLEAN /\ progress_due' \in BOOLEAN
  /\ dashboard' \in [in_scope: BOOLEAN, shows: Picture]
  /\ dashboard'.in_scope = dashboard.in_scope
  /\ dashboard'.shows.written = dashboard.shows.written
  /\ picture' \in Picture
  /\ \/ picture' = picture
     \/ /\ ~ stdout_mode
        /\ picture'.written = dashboard.shows.written
        /\ picture'.active = flows
        /\ ~ stream_bad' => file_rows' = file_rows + buffered

LEMMA ProgressDraws ==
  ASSUME Types, NEW force \in BOOLEAN, NEW frames \in Nat, NEW flows \in Nat,
         Progress(force, frames, flows)
  PROVE  ProgressEffect(flows)
<1> USE DEF ProgressEffect
<1> DEFINE shows == ProgressShows(frames, flows)
<1>1. CASE ~ stdout_mode /\ (force \/ progress_due)
  <2>1. /\ shows \in Picture
        /\ shows.written = dashboard.shows.written
        /\ shows.active = flows
    BY DEF ProgressShows, Types, Picture
  <2>2. /\ dashboard' = [dashboard EXCEPT !.shows = shows]
        /\ progress_due' = FALSE
        /\ TickUi(FALSE, shows)
    BY <1>1 DEF Progress
  <2> HIDE DEF shows
  <2>3. /\ dashboard' \in [in_scope: BOOLEAN, shows: Picture]
        /\ dashboard'.in_scope = dashboard.in_scope
        /\ dashboard'.shows = shows
    BY <2>1, <2>2 DEF Types
  <2>4. /\ StreamStep
        /\ ui_due' \in BOOLEAN
        /\ \/ picture' = picture
           \/ picture' = shows /\ (~ stream_bad' => file_rows' = file_rows + buffered)
    BY <2>1, <2>2, TickDraws
  <2> QED
    BY <1>1, <2>1, <2>2, <2>3, <2>4 DEF Types
<1>2. CASE ~ (~ stdout_mode /\ (force \/ progress_due))
  <2>1. UNCHANGED << screen, stream >>
    BY <1>2 DEF Progress
  <2> QED
    BY <2>1, UnchangedIsStreamStep DEF screen, Types
<1> QED
  BY <1>1, <1>2

\* A sum that does not grow stays below what bounds it.
LEMMA SumBound ==
  ASSUME NEW f \in Nat, NEW b \in Nat, NEW f1 \in Nat, NEW b1 \in Nat, NEW s \in Nat,
         f + b <= s, f1 + b1 <= f + b
  PROVE  f1 + b1 <= s
  OBVIOUS

LEMMA Between ==
  ASSUME NEW w \in Nat, NEW f \in Nat, NEW f1 \in Nat, w <= f, f <= f1
  PROVE  w <= f1
  OBVIOUS

LEMMA BetweenPlusOne ==
  ASSUME NEW w \in Nat, NEW f \in Nat, NEW f1 \in Nat, w <= f + 1, f <= f1
  PROVE  w <= f1 + 1
  OBVIOUS

LEMMA WriteBounds ==
  ASSUME NEW f \in Nat, NEW b \in Nat, NEW s \in Nat, f + b <= s
  PROVE  /\ f + b <= s + 1
         /\ f + (b + 1) <= s + 1
         /\ f + b = s => f + (b + 1) = s + 1
  OBVIOUS

\* What a step does to the picture: nothing, or it draws no row that is not in
\* the file.
PictureStep ==
  \/ picture' = picture
  \/ /\ picture'.written <= streamed_rows
     /\ ~ stream_bad' => file_rows' = file_rows + buffered

LEMMA StepKeepsOutput ==
  ASSUME Types, Types', OutputOK, StreamStep, PictureStep,
         UNCHANGED << stdout_mode, streamed_rows >>,
         stdout_mode /\ pc = "show" => pc' = "show"
  PROVE  OutputOK'
<1>1. /\ {file_rows, buffered, streamed_rows, file_rows', buffered'} \subseteq Nat
      /\ {picture.written, picture'.written} \subseteq Nat
      /\ stream_bad \in BOOLEAN /\ stream_bad' \in BOOLEAN /\ stdout_mode \in BOOLEAN
  BY DEF Types, Picture
<1>2. StreamAccounted'
  <2>1. file_rows' + buffered' <= streamed_rows
    BY <1>1, SumBound DEF StreamStep, OutputOK, StreamAccounted
  <2>2. ~ stream_bad' => file_rows' + buffered' = streamed_rows
    BY <1>1 DEF StreamStep, OutputOK, StreamAccounted
  <2> QED
    BY <2>1, <2>2 DEF StreamAccounted
<1>3. PictureDurable'
  <2>1. CASE picture' = picture
    BY <1>1, <2>1, Between DEF StreamStep, OutputOK, PictureDurable
  <2>2. CASE picture' # picture
    <3>1. ~ stream_bad' => file_rows' = streamed_rows
      BY <1>1, <2>2 DEF PictureStep, StreamStep, OutputOK, StreamAccounted
    <3> QED
      BY <1>1, <2>2, <3>1 DEF PictureStep, PictureDurable
  <2> QED
    BY <2>1, <2>2
<1>4. StdoutDurable'
  <2>1. CASE pc = "show"
    BY <1>1, <2>1, BetweenPlusOne DEF StreamStep, OutputOK, StdoutDurable
  <2>2. CASE pc # "show"
    <3>1. ~ stream_bad' /\ stdout_mode' => streamed_rows <= file_rows
      BY <1>1, <2>2 DEF StreamStep, OutputOK, StdoutDurable
    <3>2. ~ stream_bad' /\ stdout_mode' => streamed_rows' <= file_rows'
      BY <1>1, <3>1, Between DEF StreamStep
    <3> QED
      BY <1>1, <3>2 DEF StdoutDurable
  <2> QED
    BY <2>1, <2>2
<1> QED
  BY <1>2, <1>3, <1>4 DEF OutputOK

LEMMA Successor == ASSUME NEW k \in Nat, NEW m \in Nat, k < m PROVE k + 1 <= m
  OBVIOUS

LEMMA FrameCounted ==
  ASSUME Types, FrameRead
  PROVE  total' \in Nat /\ total' <= MaxFrames
  BY TriFlowMeterAssumption, Successor DEF Types, FrameRead

-----------------------------------------------------------------------------
(* Steps *)

\* Up to readAll nothing is counted.
LEMMA SetupKeepsInv ==
  ASSUME Inv, Setup
  PROVE  Inv'
<1> USE DEF env, data, table, stream, screen
<1>0. Types /\ Control /\ CountsAccounted /\ Scope /\ OutputOK
  BY DEF Inv
<1>1. CASE Open
  <2>1. /\ pc = "open" /\ pc' = "setup" /\ exit = "running"
        /\ UNCHANGED << exit, env, data >>
    BY <1>0, <1>1 DEF Open, At, Goto
  <2>2. StreamStep
    BY <1>0, <2>1, UnchangedIsStreamStep
  <2>3. Types'
    BY <1>0, <2>1 DEF Types
  <2>4. Control'
    BY <1>0, <2>1 DEF Types, Control, Reporting
  <2>5. CountsAccounted'
    BY <1>0, <2>1 DEF Types, Control, CountsAccounted, Reporting, ToReport, Draining
  <2>6. Scope'
    BY <1>0, <2>1 DEF Types, Control, Scope, Draining, Reporting, Picture
  <2>7. OutputOK'
    BY <1>0, <2>1, <2>2, <2>3, StepKeepsOutput DEF PictureStep
  <2> QED
    BY <2>3, <2>4, <2>5, <2>6, <2>7 DEF Inv
<1>2. CASE OpenFails
  <2>1. /\ pc \in {"open", "setup"} /\ exit' = "failed"
        /\ UNCHANGED << pc, env, data >>
    BY <1>0, <1>2 DEF OpenFails, At, Exit
  <2>2. StreamStep
    BY <1>0, <2>1, UnchangedIsStreamStep
  <2>3. Types'
    BY <1>0, <2>1 DEF Types
  <2>4. Control'
    BY <1>0, <2>1 DEF Types, Control, Reporting
  <2>5. CountsAccounted'
    BY <1>0, <2>1 DEF Types, Control, CountsAccounted, Reporting, ToReport, Draining
  <2>6. Scope'
    BY <1>0, <2>1 DEF Types, Control, Scope, Draining, Reporting, Picture
  <2>7. OutputOK'
    BY <1>0, <2>1, <2>2, <2>3, StepKeepsOutput DEF PictureStep
  <2> QED
    BY <2>3, <2>4, <2>5, <2>6, <2>7 DEF Inv
<1>3. CASE ResolveCsvPathThrows
  <2>1. /\ pc = "setup" /\ exit' = "crashed"
        /\ UNCHANGED << pc, env, data >>
    BY <1>0, <1>3 DEF ResolveCsvPathThrows, At, Exit
  <2>2. StreamStep
    BY <1>0, <2>1, UnchangedIsStreamStep
  <2>3. Types'
    BY <1>0, <2>1 DEF Types
  <2>4. Control'
    BY <1>0, <2>1 DEF Types, Control, Reporting
  <2>5. CountsAccounted'
    BY <1>0, <2>1 DEF Types, Control, CountsAccounted, Reporting, ToReport, Draining
  <2>6. Scope'
    BY <1>0, <2>1 DEF Types, Control, Scope, Draining, Reporting, Picture
  <2>7. OutputOK'
    BY <1>0, <2>1, <2>2, <2>3, StepKeepsOutput DEF PictureStep
  <2> QED
    BY <2>3, <2>4, <2>5, <2>6, <2>7 DEF Inv
<1>4. CASE Configure
  <2>1. /\ exit = "running" /\ pc = "setup" /\ pc' = "loop"
        /\ dashboard' = [dashboard EXCEPT !.in_scope = ~ stdout_mode]
        /\ stream_bad' \in BOOLEAN
        /\ UNCHANGED << exit, env, total, table, streamed_rows, buffered, file_rows,
                        picture, progress_due, ui_due >>
    BY <1>4 DEF Configure, At, Goto
  <2>2. StreamStep
    BY <1>0, <2>1 DEF StreamStep, Types, Control
  <2>3. /\ dashboard' \in [in_scope: BOOLEAN, shows: Picture]
        /\ dashboard'.in_scope = (~ stdout_mode) /\ dashboard'.shows = dashboard.shows
    BY <1>0, <2>1 DEF Types
  <2>4. Types'
    BY <1>0, <2>1, <2>3 DEF Types
  <2>5. Control'
    BY <1>0, <2>1 DEF Types, Control, Reporting
  <2>6. CountsAccounted'
    BY <1>0, <2>1 DEF Types, CountsAccounted, Reporting, ToReport, Draining
  <2>7. Scope'
    <3>1. ~ Draining'
      BY <1>0, <2>1 DEF Control, Reporting, Draining
    <3>2. dashboard.shows.written = 0 /\ streamed_rows' = 0
      BY <1>0, <2>1 DEF Types, Picture, Control, Scope
    <3> QED
      BY <1>0, <2>1, <2>3, <3>1, <3>2 DEF Types, Scope
  <2>8. OutputOK'
    BY <1>0, <2>1, <2>2, <2>4, StepKeepsOutput DEF PictureStep
  <2> QED
    BY <2>4, <2>5, <2>6, <2>7, <2>8 DEF Inv
<1> QED
  BY <1>1, <1>2, <1>3, <1>4 DEF Setup

\* One turn of the reader.
LEMMA ReadAllKeepsInv ==
  ASSUME Inv, ReadAll
  PROVE  Inv'
<1> USE DEF env, data, table, stream, screen
<1>0. Types /\ Control /\ CountsAccounted /\ Scope /\ OutputOK
  BY DEF Inv
<1>1. CASE KeepReading
  <2>1. /\ exit = "running" /\ pc = "loop" /\ pc' = "read"
        /\ UNCHANGED << exit, env, data >>
    BY <1>0, <1>1 DEF KeepReading, At, Goto
  <2>2. StreamStep
    BY <1>0, <2>1, UnchangedIsStreamStep
  <2>3. Types'
    BY <1>0, <2>1 DEF Types
  <2>4. Control'
    BY <1>0, <2>1 DEF Types, Control, Reporting
  <2>5. CountsAccounted'
    BY <1>0, <2>1 DEF Types, Control, CountsAccounted, Reporting, ToReport, Draining
  <2>6. Scope'
    BY <1>0, <2>1 DEF Types, Control, Scope, Draining, Reporting, Picture
  <2>7. OutputOK'
    BY <1>0, <2>1, <2>2, <2>3, StepKeepsOutput DEF PictureStep
  <2> QED
    BY <2>3, <2>4, <2>5, <2>6, <2>7 DEF Inv
<1>2. CASE StopReading
  <2>1. /\ exit = "running" /\ pc \in {"loop", "read"} /\ pc' = "returned"
        /\ UNCHANGED << exit, env, total, table, streamed_rows >>
        /\ Progress(TRUE, total, current_flows)
    BY <1>0, <1>2 DEF StopReading, At, Goto
  <2>0. total \in Nat /\ current_flows \in Nat
    BY <1>0, <2>1 DEF Types
  <2>2. ProgressEffect(current_flows)
    BY <1>0, <2>1, <2>0, ProgressDraws
  <2>3. Types'
    BY <1>0, <2>1, <2>2 DEF Types, ProgressEffect, StreamStep
  <2>4. Control'
    BY <1>0, <2>1, <2>2 DEF Types, ProgressEffect, StreamStep, Control, Reporting
  <2>5. CountsAccounted'
    BY <1>0, <2>1 DEF Types, Control, CountsAccounted, Reporting, ToReport, Draining
  <2>6. Scope'
    BY <1>0, <2>1, <2>2 DEF Types, ProgressEffect, StreamStep, Control, Scope, Draining,
         Reporting, Picture
  <2>7. OutputOK'
    BY <1>0, <2>1, <2>2, <2>3, StepKeepsOutput DEF ProgressEffect, PictureStep, Scope
  <2> QED
    BY <2>3, <2>4, <2>5, <2>6, <2>7 DEF Inv
<1>3. CASE TimeoutTick
  <2>1. /\ exit = "running" /\ pc = "read" /\ pc' = "loop"
        /\ UNCHANGED << exit, env, total, table, streamed_rows >>
        /\ Progress(FALSE, total, current_flows)
    BY <1>0, <1>3 DEF TimeoutTick, At, Goto
  <2>0. total \in Nat /\ current_flows \in Nat
    BY <1>0, <2>1 DEF Types
  <2>2. ProgressEffect(current_flows)
    BY <1>0, <2>1, <2>0, ProgressDraws
  <2>3. Types'
    BY <1>0, <2>1, <2>2 DEF Types, ProgressEffect, StreamStep
  <2>4. Control'
    BY <1>0, <2>1, <2>2 DEF Types, ProgressEffect, StreamStep, Control, Reporting
  <2>5. CountsAccounted'
    BY <1>0, <2>1 DEF Types, Control, CountsAccounted, Reporting, ToReport, Draining
  <2>6. Scope'
    BY <1>0, <2>1, <2>2 DEF Types, ProgressEffect, StreamStep, Control, Scope, Draining,
         Reporting, Picture
  <2>7. OutputOK'
    BY <1>0, <2>1, <2>2, <2>3, StepKeepsOutput DEF ProgressEffect, PictureStep, Scope
  <2> QED
    BY <2>3, <2>4, <2>5, <2>6, <2>7 DEF Inv
<1>4. CASE ReadError
  <2>1. /\ pc = "read" /\ exit' = "failed" /\ Flush
        /\ dashboard' = [dashboard EXCEPT !.in_scope = FALSE]
        /\ UNCHANGED << pc, env, total, table, streamed_rows, picture, progress_due, ui_due >>
    BY <1>0, <1>4 DEF ReadError, At, Exit, CloseStream
  <2>2. StreamStep /\ buffered' = 0
    BY <1>0, <2>1, FlushMoves, FlushIsStreamStep
  <2>3. Types'
    BY <1>0, <2>1, <2>2 DEF Types, StreamStep
  <2>4. Control'
    BY <1>0, <2>1, <2>2 DEF Types, StreamStep, Control, Reporting
  <2>5. CountsAccounted'
    BY <1>0, <2>1 DEF Types, Control, CountsAccounted, Reporting, ToReport, Draining
  <2>6. Scope'
    BY <1>0, <2>1, <2>2 DEF Types, StreamStep, Control, Scope, Draining, Reporting, Picture
  <2>7. OutputOK'
    BY <1>0, <2>1, <2>2, <2>3, StepKeepsOutput DEF PictureStep
  <2> QED
    BY <2>3, <2>4, <2>5, <2>6, <2>7 DEF Inv
<1>5. CASE ShortFrame
  <2>1. /\ exit = "running"
        /\ pc = "read"
        /\ pc' = "loop"
        /\ total' \in Nat
        /\ total' <= MaxFrames
        /\ UNCHANGED << exit, env, streamed_rows, table, stream, screen >>
    BY <1>0, <1>5, FrameCounted DEF ShortFrame, FrameRead, At, Goto
  <2>2. StreamStep
    BY <1>0, <2>1, UnchangedIsStreamStep
  <2>3. Types'
    BY <1>0, <2>1 DEF Types
  <2>4. Control'
    BY <1>0, <2>1 DEF Types, Control, Reporting
  <2>5. CountsAccounted'
    BY <1>0, <2>1 DEF Types, Control, CountsAccounted, Reporting, ToReport, Draining
  <2>6. Scope'
    BY <1>0, <2>1 DEF Types, Control, Scope, Draining, Reporting, Picture
  <2>7. OutputOK'
    BY <1>0, <2>1, <2>2, <2>3, StepKeepsOutput DEF PictureStep
  <2> QED
    BY <2>3, <2>4, <2>5, <2>6, <2>7 DEF Inv
<1>6. CASE QuietFrame
  <2>1. /\ exit = "running"
        /\ pc = "read"
        /\ pc' = "loop"
        /\ total' \in Nat
        /\ total' <= MaxFrames
        /\ UNCHANGED << exit, env, table, streamed_rows >>
        /\ Progress(FALSE, total', current_flows)
    BY <1>0, <1>6, FrameCounted DEF QuietFrame, FrameRead, At, Goto
  <2>0. total' \in Nat /\ current_flows \in Nat
    BY <1>0, <2>1 DEF Types
  <2>2. ProgressEffect(current_flows)
    BY <1>0, <2>1, <2>0, ProgressDraws
  <2>3. Types'
    BY <1>0, <2>1, <2>2 DEF Types, ProgressEffect, StreamStep
  <2>4. Control'
    BY <1>0, <2>1, <2>2 DEF Types, ProgressEffect, StreamStep, Control, Reporting
  <2>5. CountsAccounted'
    BY <1>0, <2>1 DEF Types, Control, CountsAccounted, Reporting, ToReport, Draining
  <2>6. Scope'
    BY <1>0, <2>1, <2>2 DEF Types, ProgressEffect, StreamStep, Control, Scope, Draining,
         Reporting, Picture
  <2>7. OutputOK'
    BY <1>0, <2>1, <2>2, <2>3, StepKeepsOutput DEF ProgressEffect, PictureStep, Scope
  <2> QED
    BY <2>3, <2>4, <2>5, <2>6, <2>7 DEF Inv
<1>7. CASE StartFlow
  <2>1. /\ exit = "running"
        /\ pc = "read"
        /\ pc' = "loop"
        /\ total' \in Nat
        /\ total' <= MaxFrames
        /\ next_insertion_order' = next_insertion_order + 1
        /\ current_flows' = current_flows + 1
        /\ UNCHANGED << exit, env, streamed_rows, finished_flow_count, pending, caller >>
        /\ Progress(FALSE, total', current_flows')
    BY <1>0, <1>7, FrameCounted DEF StartFlow, FrameRead, At, Goto
  <2>0. total' \in Nat /\ current_flows' \in Nat
    BY <1>0, <2>1 DEF Types
  <2>2. ProgressEffect(current_flows')
    BY <1>0, <2>1, <2>0, ProgressDraws
  <2>3. Types'
    BY <1>0, <2>1, <2>2 DEF Types, ProgressEffect, StreamStep
  <2>4. Control'
    BY <1>0, <2>1, <2>2 DEF Types, ProgressEffect, StreamStep, Control, Reporting
  <2>5. CountsAccounted'
    BY <1>0, <2>1 DEF Types, Control, CountsAccounted, Reporting, ToReport, Draining
  <2>6. Scope'
    BY <1>0, <2>1, <2>2 DEF Types, ProgressEffect, StreamStep, Control, Scope, Draining,
         Reporting, Picture
  <2>7. OutputOK'
    BY <1>0, <2>1, <2>2, <2>3, StepKeepsOutput DEF ProgressEffect, PictureStep, Scope
  <2> QED
    BY <2>3, <2>4, <2>5, <2>6, <2>7 DEF Inv
<1>8. CASE ReportFlow
  <2>1. /\ exit = "running"
        /\ pc = "read"
        /\ pc' = "write"
        /\ total' \in Nat
        /\ total' <= MaxFrames
        /\ current_flows > 0
        /\ finished_flow_count' = finished_flow_count + 1
        /\ caller' \in {"finish", "split"}
        /\ UNCHANGED << exit, env, streamed_rows, current_flows, next_insertion_order,
                        pending, stream, screen >>
    BY <1>0, <1>8, FrameCounted DEF ReportFlow, handleFinishedFlow, FrameRead, At, Goto
  <2>2. StreamStep
    BY <1>0, <2>1, UnchangedIsStreamStep
  <2>3. Types'
    BY <1>0, <2>1 DEF Types
  <2>4. Control'
    BY <1>0, <2>1 DEF Types, Control, Reporting
  <2>5. CountsAccounted'
    BY <1>0, <2>1 DEF Types, Control, CountsAccounted, Reporting, ToReport, Draining
  <2>6. Scope'
    BY <1>0, <2>1 DEF Types, Control, Scope, Draining, Reporting, Picture
  <2>7. OutputOK'
    BY <1>0, <2>1, <2>2, <2>3, StepKeepsOutput DEF PictureStep
  <2> QED
    BY <2>3, <2>4, <2>5, <2>6, <2>7 DEF Inv
<1> QED
  BY <1>1, <1>2, <1>3, <1>4, <1>5, <1>6, <1>7, <1>8 DEF ReadAll

\* A call of the callback, and what the table does when it returns.
LEMMA CallbackKeepsInv ==
  ASSUME Inv, Callback
  PROVE  Inv'
<1> USE DEF env, data, table, stream, screen
<1>0. Types /\ Control /\ CountsAccounted /\ Scope /\ OutputOK
  BY DEF Inv
<1>1. CASE WriteRow
  <2>1. /\ pc = "write" /\ pc' = "show"
        /\ streamed_rows' = streamed_rows + 1
        /\ buffered' = IF stream_bad THEN buffered ELSE buffered + 1
        /\ UNCHANGED << exit, env, total, table, file_rows, stream_bad, screen >>
    BY <1>1 DEF WriteRow, BufferRow, At, Goto
  <2>2. Types'
    BY <1>0, <2>1 DEF Types
  <2>3. Control'
    BY <1>0, <2>1 DEF Types, Control, Reporting
  <2>4. CountsAccounted'
    BY <1>0, <2>1 DEF Types, CountsAccounted, Reporting, ToReport, Draining
  <2>5. Scope'
    BY <1>0, <2>1 DEF Types, Picture, Scope, Draining
  <2>6. StreamAccounted'
    BY <1>0, <2>1, WriteBounds DEF Types, OutputOK, StreamAccounted
  <2>7. PictureDurable' /\ StdoutDurable'
    BY <1>0, <2>1 DEF Types, Picture, OutputOK, PictureDurable, StdoutDurable
  <2> QED
    BY <2>2, <2>3, <2>4, <2>5, <2>6, <2>7 DEF Inv, OutputOK
<1>2. CASE FlushStdout
  <2>1. /\ pc = "show" /\ pc' = "return" /\ stdout_mode /\ Flush
        /\ UNCHANGED << exit, env, total, table, streamed_rows, screen >>
    BY <1>2 DEF FlushStdout, At, Goto
  <2>2. StreamStep /\ buffered' = 0 /\ (~ stream_bad' => file_rows' = file_rows + buffered)
    BY <1>0, <2>1, FlushMoves, FlushIsStreamStep
  <2>3. Types'
    BY <1>0, <2>1, <2>2 DEF Types, StreamStep
  <2>4. Control'
    BY <1>0, <2>1, <2>2 DEF Types, Control, Reporting
  <2>5. CountsAccounted'
    BY <1>0, <2>1 DEF Types, CountsAccounted, Reporting, ToReport, Draining
  <2>6. Scope'
    BY <1>0, <2>1 DEF Types, Picture, Scope, Draining
  <2>7. ~ stream_bad' => file_rows' = streamed_rows
    BY <1>0, <2>2 DEF Types, StreamStep, OutputOK, StreamAccounted
  <2>8. StreamAccounted'
    <3>1. file_rows' + buffered' <= streamed_rows
      BY <1>0, <2>2, SumBound DEF Types, StreamStep, OutputOK, StreamAccounted
    <3>2. ~ stream_bad' => file_rows' + buffered' = streamed_rows
      BY <1>0, <2>2 DEF Types, StreamStep, OutputOK, StreamAccounted
    <3> QED
      BY <2>1, <3>1, <3>2 DEF StreamAccounted
  <2>9. StdoutDurable'
    BY <1>0, <2>1, <2>3, <2>7 DEF Types, StdoutDurable
  <2>10. PictureDurable'
    <3>1. picture' = picture /\ picture.written \in Nat
      BY <1>0, <2>1 DEF Types, Picture
    <3> QED
      BY <1>0, <2>2, <2>3, <3>1, Between DEF Types, StreamStep, OutputOK, PictureDurable
  <2> QED
    BY <2>3, <2>4, <2>5, <2>6, <2>8, <2>9, <2>10 DEF Inv, OutputOK
<1>3. CASE ShowRow
  <2>1. /\ pc = "show" /\ pc' = "return" /\ dashboard.in_scope
        /\ dashboard' = [dashboard EXCEPT !.shows = RowShows]
        /\ TickUi(FALSE, RowShows)
        /\ UNCHANGED << exit, env, total, table, streamed_rows, progress_due >>
    BY <1>3 DEF ShowRow, At, Goto
  <2>2. RowShows \in Picture /\ RowShows.written = streamed_rows
    BY <1>0, RowShowsRows
  <2>3. /\ StreamStep /\ ui_due' \in BOOLEAN
        /\ \/ picture' = picture
           \/ picture' = RowShows /\ (~ stream_bad' => file_rows' = file_rows + buffered)
    BY <1>0, <2>1, <2>2, TickDraws
  <2>4. /\ dashboard' \in [in_scope: BOOLEAN, shows: Picture]
        /\ dashboard'.in_scope /\ dashboard'.shows = RowShows
    BY <1>0, <2>1, <2>2 DEF Types
  <2>5. Types'
    BY <1>0, <2>1, <2>2, <2>3, <2>4 DEF Types, StreamStep
  <2>6. Control'
    BY <1>0, <2>1, <2>3 DEF Types, StreamStep, Control, Reporting
  <2>7. CountsAccounted'
    BY <1>0, <2>1 DEF Types, CountsAccounted, Reporting, ToReport, Draining
  <2>8. Scope'
    BY <1>0, <2>1, <2>2, <2>4 DEF Types, Scope, Draining
  <2>9. OutputOK'
    <3>1. PictureStep
      BY <1>0, <2>2, <2>3 DEF PictureStep, Types
    <3> QED
      BY <1>0, <2>1, <2>3, <2>5, <3>1, StepKeepsOutput DEF Scope
  <2> QED
    BY <2>5, <2>6, <2>7, <2>8, <2>9 DEF Inv
<1>4. CASE ShowRowDangling
  <2>1. /\ pc = "show" /\ ~ stdout_mode /\ ~ dashboard.in_scope /\ exit = "running"
        /\ \/ pc' = "return" /\ exit' = exit
           \/ pc' = pc /\ exit' = "crashed"
        /\ UNCHANGED << env, total, table, streamed_rows, progress_due >>
    BY <1>4 DEF ShowRowDangling, At, Goto, Exit, screen
  <2>2. /\ StreamStep /\ ui_due' \in BOOLEAN /\ picture' \in Picture /\ PictureStep
        /\ dashboard' \in [in_scope: BOOLEAN, shows: Picture]
        /\ ~ dashboard'.in_scope /\ dashboard'.shows.written <= streamed_rows
    <3>1. CASE UNCHANGED screen /\ (Flush \/ UNCHANGED stream)
      <4>1. StreamStep
        BY <1>0, <3>1, FlushIsStreamStep, UnchangedIsStreamStep
      <4> QED
        BY <1>0, <2>1, <3>1, <4>1 DEF Types, Scope, PictureStep, screen
    <3>2. CASE \E force \in BOOLEAN : TickUi(force, RowShows)
               /\ dashboard' = [dashboard EXCEPT !.shows = RowShows]
      <4>1. RowShows \in Picture /\ RowShows.written = streamed_rows
        BY <1>0, RowShowsRows
      <4>2. /\ StreamStep /\ ui_due' \in BOOLEAN
            /\ \/ picture' = picture
               \/ picture' = RowShows /\ (~ stream_bad' => file_rows' = file_rows + buffered)
        BY <1>0, <3>2, <4>1, TickDraws
      <4>3. /\ dashboard' \in [in_scope: BOOLEAN, shows: Picture]
            /\ dashboard'.in_scope = dashboard.in_scope /\ dashboard'.shows = RowShows
        BY <1>0, <3>2, <4>1 DEF Types
      <4>4. PictureStep /\ picture' \in Picture
        BY <1>0, <4>1, <4>2 DEF PictureStep, Types
      <4> QED
        BY <1>0, <2>1, <4>1, <4>2, <4>3, <4>4 DEF Types
    <3> QED
      BY <1>4, <3>1, <3>2 DEF ShowRowDangling
  <2>3. Types'
    BY <1>0, <2>1, <2>2 DEF Types, StreamStep
  <2>4. Control'
    BY <1>0, <2>1, <2>2 DEF Types, StreamStep, Control, Reporting
  <2>5. CountsAccounted'
    BY <1>0, <2>1 DEF Types, CountsAccounted, Reporting, ToReport, Draining
  <2>6. Scope'
    BY <1>0, <2>1, <2>2 DEF Types, Scope, Draining
  <2>7. OutputOK'
    BY <1>0, <2>1, <2>2, <2>3, StepKeepsOutput
  <2> QED
    BY <2>3, <2>4, <2>5, <2>6, <2>7 DEF Inv
<1>5. CASE ReturnToPacket
  <2>1. /\ exit = "running" /\ pc = "return" /\ pc' = "loop" /\ caller' = "none"
        /\ caller \in {"finish", "split"}
        /\ UNCHANGED << exit, env, total, finished_flow_count, pending, streamed_rows >>
    BY <1>5 DEF ReturnToPacket, At, Goto
  <2>2. /\ current_flows' \in Nat /\ next_insertion_order' \in Nat
        /\ next_insertion_order' + current_flows = next_insertion_order + 1 + current_flows'
    <3>1. current_flows \in Nat /\ current_flows > 0 /\ next_insertion_order \in Nat
      BY <1>0, <2>1 DEF Types, Control
    <3>2. CASE caller = "finish"
      <4>1. current_flows' = current_flows - 1 /\ next_insertion_order' = next_insertion_order
        BY <1>5, <3>2 DEF ReturnToPacket, Erase
      <4> QED
        BY <3>1, <4>1
    <3>3. CASE caller = "split"
      <4>1. current_flows' = current_flows /\ next_insertion_order' = next_insertion_order + 1
        BY <1>5, <3>3 DEF ReturnToPacket
      <4> QED
        BY <3>1, <4>1
    <3> QED
      BY <2>1, <3>2, <3>3
  <2>3. ProgressEffect(current_flows')
    <3>1. Progress(FALSE, total, current_flows')
      BY <1>5 DEF ReturnToPacket
    <3> QED
      BY <1>0, <2>2, <3>1, ProgressDraws DEF Types
  <2>4. Types'
    BY <1>0, <2>1, <2>2, <2>3 DEF Types, ProgressEffect, StreamStep
  <2>5. Control'
    BY <1>0, <2>1 DEF Types, Control, Reporting
  <2>6. CountsAccounted'
    <3>1. /\ finished_flow_count = streamed_rows
          /\ next_insertion_order + 1 = finished_flow_count + current_flows
      BY <1>0, <2>1 DEF Types, CountsAccounted, Reporting, ToReport, Draining
    <3>2. next_insertion_order' = finished_flow_count + current_flows'
      <4>1. /\ next_insertion_order \in Nat /\ next_insertion_order' \in Nat
            /\ current_flows \in Nat /\ current_flows' \in Nat /\ finished_flow_count \in Nat
        BY <1>0, <2>2 DEF Types
      <4>2. next_insertion_order' + current_flows = finished_flow_count + current_flows + current_flows'
        BY <2>2, <3>1
      <4>3. PICK n \in Nat, f \in Nat, c \in Nat, d \in Nat :
               /\ n = next_insertion_order' /\ f = finished_flow_count
               /\ c = current_flows /\ d = current_flows'
        BY <4>1
      <4>4. n + c = f + c + d
        BY <4>2, <4>3, Zenon
      <4>5. n = f + d
        BY <4>4
      <4> QED
        BY <4>3, <4>5
    <3> QED
      BY <1>0, <2>1, <2>2, <3>1, <3>2 DEF Types, CountsAccounted, Reporting, ToReport, Draining
  <2>7. Scope'
    BY <1>0, <2>1, <2>3 DEF Types, Picture, ProgressEffect, Scope, Draining
  <2>8. OutputOK'
    BY <1>0, <2>1, <2>3, <2>4, StepKeepsOutput DEF ProgressEffect, PictureStep, Scope
  <2> QED
    BY <2>4, <2>5, <2>6, <2>7, <2>8 DEF Inv
<1>6. CASE ReturnToDrain
  <2>1. /\ pc = "return"
        /\ pc' = "drain"
        /\ caller = "drain"
        /\ caller' = "none"
        /\ pending' = pending - 1
        /\ UNCHANGED << exit, env, total, current_flows, next_insertion_order,
                        finished_flow_count, streamed_rows, stream, screen >>
    BY <1>0, <1>6 DEF ReturnToDrain, At, Goto
  <2>2. StreamStep
    BY <1>0, <2>1, UnchangedIsStreamStep
  <2>3. Types'
    BY <1>0, <2>1 DEF Types, Control
  <2>4. Control'
    BY <1>0, <2>1 DEF Types, Control, Reporting
  <2>5. CountsAccounted'
    BY <1>0, <2>1 DEF Types, Control, CountsAccounted, Reporting, ToReport, Draining
  <2>6. Scope'
    BY <1>0, <2>1 DEF Types, Control, Scope, Draining, Reporting, Picture
  <2>7. OutputOK'
    BY <1>0, <2>1, <2>2, <2>3, StepKeepsOutput DEF PictureStep
  <2> QED
    BY <2>3, <2>4, <2>5, <2>6, <2>7 DEF Inv
<1> QED
  BY <1>1, <1>2, <1>3, <1>4, <1>5, <1>6 DEF Callback

\* After readAll.
LEMMA FinishKeepsInv ==
  ASSUME Inv, Finish
  PROVE  Inv'
<1> USE DEF env, data, table, stream, screen
<1>0. Types /\ Control /\ CountsAccounted /\ Scope /\ OutputOK
  BY DEF Inv
<1>1. CASE FinalPicture
  <2> DEFINE shows == [total |-> total, written |-> streamed_rows, active |-> current_flows]
  <2>1. /\ pc = "returned" /\ pc' = "drain" /\ exit = "running" /\ pending' = current_flows
        /\ UNCHANGED << exit, env, total, current_flows, next_insertion_order,
                        finished_flow_count, caller, streamed_rows >>
        /\ IF stdout_mode THEN UNCHANGED << stream, screen >>
           ELSE /\ TickUi(TRUE, shows)
                /\ dashboard' = [in_scope |-> FALSE, shows |-> shows]
                /\ UNCHANGED progress_due
    BY <1>1 DEF FinalPicture, DrawLast, At, Goto
  <2>2. shows \in Picture /\ shows.written = streamed_rows
    BY <1>0 DEF Types, Picture
  <2> HIDE DEF shows
  <2>3. /\ StreamStep /\ PictureStep
        /\ ui_due' \in BOOLEAN /\ progress_due' \in BOOLEAN /\ picture' \in Picture
    <3>1. CASE stdout_mode
      BY <1>0, <2>1, <3>1, UnchangedIsStreamStep DEF Types, PictureStep
    <3>2. CASE ~ stdout_mode
      <4>1. TickUi(TRUE, shows) /\ progress_due' = progress_due
        BY <2>1, <3>2
      <4>2. StreamStep /\ ui_due' \in BOOLEAN /\ picture' = shows
            /\ (~ stream_bad' => file_rows' = file_rows + buffered)
        BY <1>0, <2>2, <4>1, TickDraws
      <4>3. picture'.written <= streamed_rows
        BY <1>0, <2>2, <4>2 DEF Types
      <4> QED
        BY <1>0, <2>2, <4>1, <4>2, <4>3 DEF Types, PictureStep
    <3> QED
      BY <3>1, <3>2
  <2>4. /\ dashboard' \in [in_scope: BOOLEAN, shows: Picture]
        /\ ~ dashboard'.in_scope
        /\ dashboard'.shows.written <= streamed_rows
    <3>1. CASE stdout_mode
      BY <1>0, <2>1, <3>1 DEF Types, Scope
    <3>2. CASE ~ stdout_mode
      <4>1. dashboard' = [in_scope |-> FALSE, shows |-> shows]
        BY <2>1, <3>2
      <4>2. shows.written <= streamed_rows
        BY <1>0, <2>2 DEF Types
      <4> QED
        BY <2>2, <4>1, <4>2
    <3> QED
      BY <3>1, <3>2
  <2>5. Types'
    BY <1>0, <2>1, <2>3, <2>4 DEF Types, StreamStep
  <2>6. Control'
    BY <1>0, <2>1, <2>3 DEF Types, StreamStep, Control, Reporting
  <2>7. CountsAccounted'
    BY <1>0, <2>1 DEF Types, Control, CountsAccounted, Reporting, ToReport, Draining
  <2>8. Scope'
    BY <1>0, <2>1, <2>4 DEF Types, Scope, Draining
  <2>9. OutputOK'
    BY <1>0, <2>1, <2>3, <2>5, StepKeepsOutput
  <2> QED
    BY <2>5, <2>6, <2>7, <2>8, <2>9 DEF Inv
<1>2. CASE FinishOne
  <2>1. /\ pc = "drain"
        /\ pc' = "write"
        /\ pending > 0
        /\ finished_flow_count' = finished_flow_count + 1
        /\ caller' = "drain"
        /\ UNCHANGED << exit, env, total, current_flows, next_insertion_order, pending,
                        streamed_rows, stream, screen >>
    BY <1>0, <1>2 DEF FinishOne, Unvisited, handleFinishedFlow, At, Goto
  <2>2. StreamStep
    BY <1>0, <2>1, UnchangedIsStreamStep
  <2>3. Types'
    BY <1>0, <2>1 DEF Types
  <2>4. Control'
    BY <1>0, <2>1 DEF Types, Control, Reporting
  <2>5. CountsAccounted'
    BY <1>0, <2>1 DEF Types, Control, CountsAccounted, Reporting, ToReport, Draining
  <2>6. Scope'
    BY <1>0, <2>1 DEF Types, Control, Scope, Draining, Reporting, Picture
  <2>7. OutputOK'
    BY <1>0, <2>1, <2>2, <2>3, StepKeepsOutput DEF PictureStep
  <2> QED
    BY <2>3, <2>4, <2>5, <2>6, <2>7 DEF Inv
<1>3. CASE ClearFlows
  <2>1. /\ exit = "running"
        /\ pc = "drain"
        /\ pc' = "summary"
        /\ pending = 0
        /\ current_flows' = 0
        /\ UNCHANGED << exit, env, total, next_insertion_order, finished_flow_count,
                        pending, caller, streamed_rows, stream, screen >>
    BY <1>0, <1>3 DEF ClearFlows, At, Goto
  <2>2. StreamStep
    BY <1>0, <2>1, UnchangedIsStreamStep
  <2>3. Types'
    BY <1>0, <2>1 DEF Types
  <2>4. Control'
    BY <1>0, <2>1 DEF Types, Control, Reporting
  <2>5. CountsAccounted'
    BY <1>0, <2>1 DEF Types, Control, CountsAccounted, Reporting, ToReport, Draining
  <2>6. Scope'
    BY <1>0, <2>1 DEF Types, Control, Scope, Draining, Reporting, Picture
  <2>7. OutputOK'
    BY <1>0, <2>1, <2>2, <2>3, StepKeepsOutput DEF PictureStep
  <2> QED
    BY <2>3, <2>4, <2>5, <2>6, <2>7 DEF Inv
<1>4. CASE Summary
  <2>1. /\ pc = "summary" /\ exit' = "ok" /\ Flush
        /\ UNCHANGED << pc, env, total, table, streamed_rows, screen >>
    BY <1>0, <1>4 DEF Summary, At, Exit
  <2>2. StreamStep /\ buffered' = 0
    BY <1>0, <2>1, FlushMoves, FlushIsStreamStep
  <2>3. Types'
    BY <1>0, <2>1, <2>2 DEF Types, StreamStep
  <2>4. Control'
    BY <1>0, <2>1, <2>2 DEF Types, StreamStep, Control, Reporting
  <2>5. CountsAccounted'
    BY <1>0, <2>1 DEF Types, Control, CountsAccounted, Reporting, ToReport, Draining
  <2>6. Scope'
    BY <1>0, <2>1, <2>2 DEF Types, StreamStep, Control, Scope, Draining, Reporting, Picture
  <2>7. OutputOK'
    BY <1>0, <2>1, <2>2, <2>3, StepKeepsOutput DEF PictureStep
  <2> QED
    BY <2>3, <2>4, <2>5, <2>6, <2>7 DEF Inv
<1> QED
  BY <1>1, <1>2, <1>3, <1>4 DEF Finish

\* What happens around main.
LEMMA EnvironmentKeepsInv ==
  ASSUME Inv, BufferFull \/ Signal \/ Kill \/ Clock
  PROVE  Inv'
<1> USE DEF env, data, table, stream, screen
<1>0. Types /\ Control /\ CountsAccounted /\ Scope /\ OutputOK
  BY DEF Inv
<1>1. CASE BufferFull
  <2>1. /\ exit = "running" /\ buffered > 0 /\ Flush
        /\ UNCHANGED << env, pc, exit, total, table, streamed_rows, screen >>
    BY <1>0, <1>1 DEF BufferFull
  <2>2. StreamStep /\ buffered' = 0
    BY <1>0, <2>1, FlushMoves, FlushIsStreamStep
  <2>3. Types'
    BY <1>0, <2>1, <2>2 DEF Types, StreamStep
  <2>4. Control'
    BY <1>0, <2>1, <2>2 DEF Types, StreamStep, Control, Reporting
  <2>5. CountsAccounted'
    BY <1>0, <2>1 DEF Types, Control, CountsAccounted, Reporting, ToReport, Draining
  <2>6. Scope'
    BY <1>0, <2>1, <2>2 DEF Types, StreamStep, Control, Scope, Draining, Reporting, Picture
  <2>7. OutputOK'
    BY <1>0, <2>1, <2>2, <2>3, StepKeepsOutput DEF PictureStep
  <2> QED
    BY <2>3, <2>4, <2>5, <2>6, <2>7 DEF Inv
<1>2. CASE Signal
  <2>1. /\ exit = "running" /\ g_stop_capture' = TRUE
        /\ UNCHANGED << live_mode, stdout_mode, pc, exit, data >>
    BY <1>0, <1>2 DEF Signal
  <2>2. StreamStep
    BY <1>0, <2>1, UnchangedIsStreamStep
  <2>3. Types'
    BY <1>0, <2>1 DEF Types
  <2>4. Control'
    BY <1>0, <2>1 DEF Types, Control, Reporting
  <2>5. CountsAccounted'
    BY <1>0, <2>1 DEF Types, Control, CountsAccounted, Reporting, ToReport, Draining
  <2>6. Scope'
    BY <1>0, <2>1 DEF Types, Control, Scope, Draining, Reporting, Picture
  <2>7. OutputOK'
    BY <1>0, <2>1, <2>2, <2>3, StepKeepsOutput DEF PictureStep
  <2> QED
    BY <2>3, <2>4, <2>5, <2>6, <2>7 DEF Inv
<1>3. CASE Kill
  <2>1. /\ exit = "running" /\ exit' = "killed"
        /\ UNCHANGED << pc, env, data >>
    BY <1>0, <1>3 DEF Kill, Exit
  <2>2. StreamStep
    BY <1>0, <2>1, UnchangedIsStreamStep
  <2>3. Types'
    BY <1>0, <2>1 DEF Types
  <2>4. Control'
    BY <1>0, <2>1 DEF Types, Control, Reporting
  <2>5. CountsAccounted'
    BY <1>0, <2>1 DEF Types, Control, CountsAccounted, Reporting, ToReport, Draining
  <2>6. Scope'
    BY <1>0, <2>1 DEF Types, Control, Scope, Draining, Reporting, Picture
  <2>7. OutputOK'
    BY <1>0, <2>1, <2>2, <2>3, StepKeepsOutput DEF PictureStep
  <2> QED
    BY <2>3, <2>4, <2>5, <2>6, <2>7 DEF Inv
<1>4. CASE Clock
  <2>1. /\ exit = "running" /\ progress_due' \in BOOLEAN /\ ui_due' \in BOOLEAN
        /\ UNCHANGED << env, pc, exit, total, table, streamed_rows, stream, dashboard,
                        picture >>
    BY <1>0, <1>4 DEF Clock, Types, Types
  <2>2. StreamStep
    BY <1>0, <2>1, UnchangedIsStreamStep
  <2>3. Types'
    BY <1>0, <2>1 DEF Types
  <2>4. Control'
    BY <1>0, <2>1 DEF Types, Control, Reporting
  <2>5. CountsAccounted'
    BY <1>0, <2>1 DEF Types, Control, CountsAccounted, Reporting, ToReport, Draining
  <2>6. Scope'
    BY <1>0, <2>1 DEF Types, Control, Scope, Draining, Reporting, Picture
  <2>7. OutputOK'
    BY <1>0, <2>1, <2>2, <2>3, StepKeepsOutput DEF PictureStep
  <2> QED
    BY <2>3, <2>4, <2>5, <2>6, <2>7 DEF Inv
<1> QED
  BY <1>1, <1>2, <1>3, <1>4

-----------------------------------------------------------------------------
(* The invariant and its consequences *)

LEMMA InitInv == ASSUME Init PROVE Inv
<1>1. Types
  <2>1. Blank \in Picture /\ dashboard \in [in_scope: BOOLEAN, shows: Picture]
    BY DEF Init, Blank, Picture
  <2>2. picture \in Picture /\ total <= MaxFrames
    BY <2>1, TriFlowMeterAssumption DEF Init
  <2>3. live_mode \in BOOLEAN /\ stdout_mode \in BOOLEAN
    BY DEF Init
  <2> QED
    BY <2>1, <2>2, <2>3 DEF Init, Types
<1>2. Control /\ CountsAccounted
  BY DEF Init, Control, CountsAccounted, Reporting, ToReport, Draining
<1>3. dashboard.in_scope = FALSE /\ dashboard.shows.written = 0 /\ picture.written = 0
  BY DEF Init, Blank
<1>4. Scope
  BY <1>3 DEF Init, Scope, Draining
<1>5. OutputOK
  BY <1>3 DEF Init, OutputOK, StreamAccounted, PictureDurable, StdoutDurable
<1> QED
  BY <1>1, <1>2, <1>4, <1>5 DEF Inv

LEMMA StutterKeepsInv == ASSUME Inv, UNCHANGED vars PROVE Inv'
  BY DEF vars, env, data, table, stream, screen, Inv, Types, Control, CountsAccounted, Scope,
      OutputOK, StreamAccounted, PictureDurable, StdoutDurable, Reporting, ToReport, Draining

LEMMA NextKeepsInv == ASSUME Inv, [Next]_vars PROVE Inv'
<1>1. CASE Main
  BY <1>1, SetupKeepsInv, ReadAllKeepsInv, CallbackKeepsInv, FinishKeepsInv DEF Main
<1>2. CASE BufferFull \/ Signal \/ Kill \/ Clock
  BY <1>2, EnvironmentKeepsInv
<1>3. CASE Terminated \/ UNCHANGED vars
  BY <1>3, StutterKeepsInv DEF Terminated
<1> QED
  BY <1>1, <1>2, <1>3 DEF Next

\* The inductive invariant, in the parts the steps are proved by.
THEOREM ProgramInv == Spec => []Inv
  BY InitInv, NextKeepsInv, PTL DEF Spec

\* The conjunction of the run's invariants with what makes it inductive.
THEOREM ProgramConsistent == Spec => []Consistent
  BY ProgramInv, InvIsConsistent, PTL

\* Every variable keeps its type, and no counter of main or of the table goes
\* below zero (main.cpp:76-255).
THEOREM TypeCorrect == Spec => []TypeOK
<1>1. Consistent => TypeOK
  BY DEF Consistent
<1> QED
  BY ProgramConsistent, <1>1, PTL

\* The rows of main are the finished flows of the table (main.cpp:189-192,
\* FlowGenerator.cpp:44-52).
THEOREM RowsAreAccounted == Spec => []RowsAccounted
<1>1. Consistent => RowsAccounted
  BY DEF Consistent
<1> QED
  BY ProgramConsistent, <1>1, PTL

\* A kill loses no row that was shown as written (main.cpp:97-102, 179-186).
THEOREM ShownRowsDurable == Spec => []ShownRowsAreDurable
<1>1. Consistent => ShownRowsAreDurable
  BY DEF Consistent
<1> QED
  BY ProgramConsistent, <1>1, PTL

\* What the file has on each way out (main.cpp:71-74, 212-213, 222-255).
THEOREM ExitsAccountForFlows == Spec => []ExitAccountsForFlows
<1>1. Inv => ExitAccountsForFlows
  <2> SUFFICES ASSUME Inv, ~ stream_bad
               PROVE  /\ exit = "ok" => file_rows = next_insertion_order
                      /\ exit = "failed" => file_rows + current_flows = next_insertion_order
    BY DEF ExitAccountsForFlows
  <2>1. /\ file_rows \in Nat /\ buffered \in Nat /\ streamed_rows \in Nat
        /\ finished_flow_count \in Nat /\ next_insertion_order \in Nat
        /\ pending \in Nat /\ current_flows \in Nat
    BY DEF Inv, Types
  <2>2. exit \in {"ok", "failed"} => buffered = 0 /\ file_rows = streamed_rows
    BY <2>1 DEF Inv, Control, OutputOK, StreamAccounted
  <2>3. CASE exit = "ok"
    <3>1. next_insertion_order = finished_flow_count /\ finished_flow_count = streamed_rows
      BY <2>1, <2>3 DEF Inv, Control, CountsAccounted, Reporting, ToReport, Draining
    <3> QED
      BY <2>2, <2>3, <3>1
  <2>4. CASE exit = "failed"
    <3>1. /\ next_insertion_order = finished_flow_count + current_flows
          /\ finished_flow_count = streamed_rows
      BY <2>1, <2>4 DEF Inv, Control, CountsAccounted, Reporting, ToReport, Draining
    <3> QED
      BY <2>2, <2>4, <3>1
  <2> QED
    BY <2>3, <2>4
<1> QED
  BY ProgramInv, <1>1, PTL

-----------------------------------------------------------------------------
(* The picture *)

\* Outside of the callback and before finishAllFlows, rows and table add up to
\* the flows created.
Balanced ==
  pc \in {"loop", "read", "returned"} => next_insertion_order = streamed_rows + current_flows

LEMMA InvBalanced == Inv => Balanced
<1> SUFFICES ASSUME Inv, pc \in {"loop", "read", "returned"}
             PROVE  next_insertion_order = streamed_rows + current_flows
  BY DEF Balanced
<1>1. finished_flow_count = streamed_rows /\ next_insertion_order \in Nat
  BY DEF Inv, Types, CountsAccounted
<1>2. ToReport = current_flows /\ ~ Reporting
  BY DEF Inv, Control, Reporting, ToReport, Draining
<1> QED
  BY <1>1, <1>2 DEF Inv, Types, CountsAccounted

LEMMA InvBalancedNext == Inv' => Balanced'
  BY InvBalanced, PTL

\* What a progress call of the packet loop draws.
LEMMA ProgressPicture ==
  ASSUME Inv, Inv', ProgressEffect(current_flows'), picture' # picture,
         exit = "running", pc \in {"loop", "read"} \/ (pc = "return" /\ caller # "drain"),
         pc' \in {"loop", "returned"}, UNCHANGED streamed_rows
  PROVE  /\ picture'.written = streamed_rows /\ picture'.active = current_flows'
         /\ picture'.written + picture'.active = next_insertion_order'
<1>1. /\ ~ stdout_mode
      /\ picture'.written = dashboard.shows.written
      /\ picture'.active = current_flows'
  BY DEF ProgressEffect
<1>2. dashboard.in_scope
  BY <1>1 DEF Inv, Control, Scope, Draining, Reporting
<1>3. dashboard.shows.written = streamed_rows
  BY <1>2 DEF Inv, Scope
<1>4. next_insertion_order' = streamed_rows' + current_flows'
  BY InvBalancedNext DEF Balanced
<1> QED
  BY <1>1, <1>3, <1>4

LEMMA PictureStepWithinOne ==
  ASSUME Inv, Inv', Next, dashboard.in_scope, picture' # picture
  PROVE  picture'.written + picture'.active \in
           next_insertion_order' .. next_insertion_order' + (IF pc = "show" THEN 1 ELSE 0)
<1>0. next_insertion_order' \in Nat
  BY DEF Inv, Types
<1> USE DEF At, Goto, Exit
<1>1. CASE StopReading \/ TimeoutTick \/ QuietFrame \/ StartFlow \/ ReturnToPacket
  <2>1. /\ exit = "running"
        /\ pc \in {"loop", "read"} \/ (pc = "return" /\ caller # "drain")
        /\ pc' \in {"loop", "returned"} /\ UNCHANGED streamed_rows
    <3>1. CASE StopReading \/ TimeoutTick
      BY <3>1 DEF StopReading, TimeoutTick
    <3>2. CASE QuietFrame \/ StartFlow
      BY <3>2 DEF QuietFrame, StartFlow, FrameRead
    <3>3. CASE ReturnToPacket
      BY <3>3 DEF ReturnToPacket
    <3> QED
      BY <1>1, <3>1, <3>2, <3>3
  <2>2. ProgressEffect(current_flows')
    <3>1. /\ total \in Nat /\ total' \in Nat /\ current_flows \in Nat /\ current_flows' \in Nat
          /\ Types
      BY DEF Inv, Types
    <3>2. \E force \in BOOLEAN, frames \in Nat : Progress(force, frames, current_flows')
      BY <1>1, <3>1 DEF StopReading, TimeoutTick, QuietFrame, StartFlow, ReturnToPacket, table
    <3> QED
      BY <3>1, <3>2, ProgressDraws
  <2>3. picture'.written + picture'.active = next_insertion_order'
    BY <2>1, <2>2, ProgressPicture
  <2>4. pc # "show"
    BY <2>1
  <2> QED
    BY <1>0, <2>3, <2>4
<1>2. CASE ShowRow
  <2>1. /\ pc = "show" /\ TickUi(FALSE, RowShows)
        /\ next_insertion_order' = next_insertion_order
    BY <1>2 DEF ShowRow, table
  <2>2. picture' = RowShows
    BY <2>1 DEF TickUi
  <2>3. picture'.written = streamed_rows /\ picture'.active = current_flows
    BY <2>2, RowShowsRows DEF Inv
  <2>4. /\ streamed_rows \in Nat /\ current_flows \in Nat /\ next_insertion_order \in Nat
        /\ next_insertion_order + 1 = streamed_rows + current_flows
    BY <2>1 DEF Inv, Types, Control, Scope, CountsAccounted, ToReport, Reporting
  <2> QED
    BY <2>1, <2>3, <2>4
<1>3. CASE FinalPicture
  <2> DEFINE shows == [total |-> total, written |-> streamed_rows, active |-> current_flows]
  <2>1. pc = "returned" /\ picture' = shows /\ next_insertion_order' = next_insertion_order
    BY <1>3 DEF FinalPicture, DrawLast, TickUi, screen
  <2>2. picture'.written + picture'.active = next_insertion_order
    BY <2>1, InvBalanced DEF Balanced
  <2> QED
    BY <1>0, <2>1, <2>2
<1>4. CASE ~ (StopReading \/ TimeoutTick \/ QuietFrame \/ StartFlow \/ ReturnToPacket
             \/ ShowRow \/ FinalPicture)
  <2>1. picture' = picture
    <3> USE DEF data, screen
    <3>1. CASE Setup
      BY <3>1 DEF Setup, Open, OpenFails, ResolveCsvPathThrows, Configure
    <3>2. CASE KeepReading \/ ReadError \/ ShortFrame \/ ReportFlow
      BY <3>2 DEF KeepReading, ReadError, ShortFrame, ReportFlow
    <3>3. CASE WriteRow \/ FlushStdout \/ ShowRowDangling \/ ReturnToDrain
      BY <3>3 DEF WriteRow, FlushStdout, ShowRowDangling, ReturnToDrain
    <3>4. CASE FinishOne \/ ClearFlows \/ Summary
      BY <3>4 DEF FinishOne, ClearFlows, Summary
    <3>5. CASE BufferFull \/ Signal \/ Kill \/ Clock \/ Terminated
      BY <3>5 DEF BufferFull, Signal, Kill, Clock, Terminated, vars
    <3> QED
      BY <1>4, <3>1, <3>2, <3>3, <3>4, <3>5 DEF Next, Main, ReadAll, Callback, Finish
  <2> QED
    BY <2>1
<1> QED
  BY <1>1, <1>2, <1>3, <1>4

\* Every picture drawn while the dashboard exists shows each flow once, but for the flow that is
\* being reported (main.cpp:189-210, FlowGenerator.cpp:79-96).
THEOREM PicturesWithinOne == Spec => PictureWithinOne
<1>1. Inv /\ Inv' /\ [Next]_vars
        => [ dashboard.in_scope /\ picture' # picture =>
               picture'.written + picture'.active \in
                 next_insertion_order' .. next_insertion_order' + (IF pc = "show" THEN 1 ELSE 0) ]_vars
  BY PictureStepWithinOne
<1> QED
  BY ProgramInv, <1>1, PTL DEF Spec, PictureWithinOne

LEMMA LastPictureStep ==
  ASSUME Inv, Next, At("returned"), ~ stdout_mode, pc' = "drain"
  PROVE  /\ picture'.total = total
         /\ picture'.written = finished_flow_count
         /\ picture'.written + picture'.active = next_insertion_order
         /\ ~ stream_bad' => file_rows' = picture'.written
<1> DEFINE shows == [total |-> total, written |-> streamed_rows, active |-> current_flows]
<1>1. FinalPicture
  BY DEF At, Goto, Exit, FrameRead, handleFinishedFlow,
      Next, Main, Setup, ReadAll, Callback, Finish, Terminated, vars, Open, OpenFails,
      ResolveCsvPathThrows, Configure, KeepReading, StopReading, TimeoutTick, ReadError,
      ShortFrame, QuietFrame, StartFlow, ReportFlow, WriteRow, FlushStdout, ShowRow,
      ShowRowDangling, ReturnToPacket, ReturnToDrain, FinishOne, ClearFlows, Summary,
      BufferFull, Signal, Kill, Clock
<1>2. picture' = shows /\ Flush /\ pc = "returned"
  BY <1>1 DEF FinalPicture, DrawLast, TickUi, At
<1>3. ~ stream_bad' => file_rows' = streamed_rows
  BY <1>2, FlushMoves DEF Inv, Types, OutputOK, StreamAccounted
<1>4. finished_flow_count = streamed_rows
  BY <1>2 DEF Inv, Types, CountsAccounted
<1>5. next_insertion_order = streamed_rows + current_flows
  BY <1>2, InvBalanced DEF Balanced
<1> QED
  BY <1>2, <1>3, <1>4, <1>5

\* The picture that stays on the screen (main.cpp:215-220).
THEOREM LastPictureIsComplete == Spec => LastPictureComplete
<1>1. Inv /\ [Next]_vars
        => [ At("returned") /\ ~ stdout_mode /\ pc' = "drain" =>
               /\ picture'.total = total
               /\ picture'.written = finished_flow_count
               /\ picture'.written + picture'.active = next_insertion_order
               /\ ~ stream_bad' => file_rows' = picture'.written ]_vars
  BY LastPictureStep
<1> QED
  BY ProgramInv, <1>1, PTL DEF Spec, LastPictureComplete

-----------------------------------------------------------------------------
(* The flow table's counts *)

\* The abstract variable `reported'.
ReportedFlows == finished_flow_count - (IF Reporting THEN 1 ELSE 0)

\* A step that leaves the table alone and neither begins nor ends finishAllFlows.
LEMMA QuietStepRefines ==
  ASSUME UNCHANGED table, Draining' = Draining
  PROVE  UNCHANGED Counts!vars
  BY DEF table, Counts!vars, ToReport, Reporting

\* A call of the callback begins: the flow is not reported yet.
LEMMA CallRefines ==
  ASSUME Inv, ~ Reporting, Reporting', finished_flow_count' = finished_flow_count + 1,
         UNCHANGED << current_flows, next_insertion_order, pending >>, Draining' = Draining
  PROVE  UNCHANGED Counts!vars
<1>1. ReportedFlows' = ReportedFlows
  BY DEF ReportedFlows, Inv, Types
<1> QED
  BY <1>1 DEF Counts!vars, ToReport, ReportedFlows

LEMMA ReadAllRefines ==
  ASSUME Inv, ReadAll
  PROVE  [Counts!Next]_(Counts!vars)
<1> USE DEF At, Goto, Exit
<1>1. CASE KeepReading \/ StopReading \/ TimeoutTick \/ ReadError \/ ShortFrame \/ QuietFrame
  <2>1. UNCHANGED table /\ pc \in {"loop", "read"} /\ pc' \in {"loop", "read", "returned"}
    <3>1. CASE KeepReading \/ StopReading \/ TimeoutTick
      BY <3>1 DEF KeepReading, StopReading, TimeoutTick, data
    <3>2. CASE ReadError \/ ShortFrame \/ QuietFrame
      BY <3>2 DEF ReadError, ShortFrame, QuietFrame, FrameRead
    <3> QED
      BY <1>1, <3>1, <3>2
  <2> QED
    BY <2>1, QuietStepRefines DEF Draining, table
<1>2. CASE StartFlow
  <2>1. /\ pc = "read" /\ pc' = "loop" /\ caller' = caller
        /\ next_insertion_order' = next_insertion_order + 1
        /\ current_flows' = current_flows + 1
        /\ finished_flow_count' = finished_flow_count
    BY <1>2 DEF StartFlow, FrameRead
  <2>2. ~ Draining /\ Draining' = Draining /\ ~ Reporting /\ ReportedFlows' = ReportedFlows
    BY <2>1 DEF Inv, Control, Draining, Reporting, ReportedFlows
  <2>3. ToReport' = ToReport + 1
    BY <2>1, <2>2 DEF ToReport
  <2>4. Counts!Start
    BY <2>1, <2>2, <2>3 DEF Counts!Start, ReportedFlows
  <2> QED
    BY <2>4 DEF Counts!Next
<1>3. CASE ReportFlow
  <2>1. /\ pc = "read" /\ pc' = "write" /\ caller' \in {"finish", "split"}
        /\ finished_flow_count' = finished_flow_count + 1
        /\ UNCHANGED << current_flows, next_insertion_order, pending >>
    BY <1>3 DEF ReportFlow, FrameRead, handleFinishedFlow
  <2>2. Draining' = Draining /\ ~ Reporting /\ Reporting'
    BY <2>1 DEF Inv, Control, Draining, Reporting
  <2> QED
    BY <2>1, <2>2, CallRefines
<1> QED
  BY <1>1, <1>2, <1>3 DEF ReadAll

LEMMA ReturnRefines ==
  ASSUME Inv, ReturnToPacket \/ ReturnToDrain
  PROVE  Counts!Next
<1> USE DEF At, Goto, Exit
<1>1. /\ current_flows \in Nat /\ next_insertion_order \in Nat /\ pending \in Nat
      /\ finished_flow_count \in Nat
  BY DEF Inv, Types
<1>2. /\ Reporting /\ ~ Reporting' /\ finished_flow_count' = finished_flow_count
      /\ pc = "return" /\ pc' \in {"loop", "drain"}
  BY DEF ReturnToPacket, ReturnToDrain, Reporting
<1>3. ReportedFlows' = ReportedFlows + 1
  BY <1>1, <1>2 DEF ReportedFlows
<1>4. CASE ReturnToDrain
  <2>1. /\ caller = "drain" /\ pc' = "drain" /\ pending' = pending - 1 /\ pending > 0
        /\ UNCHANGED next_insertion_order
    BY <1>4 DEF ReturnToDrain, Inv, Control
  <2>2. Draining /\ Draining' /\ ToReport = pending /\ ToReport' = pending'
    BY <2>1 DEF Draining, ToReport
  <2>3. Counts!Report
    BY <1>3, <2>1, <2>2 DEF Counts!Report, ReportedFlows
  <2> QED
    BY <2>3 DEF Counts!Next
<1>5. CASE ReturnToPacket
  <2>1. /\ caller \in {"finish", "split"}
        /\ caller' = "none"
        /\ pc' = "loop"
        /\ current_flows > 0
    BY <1>5 DEF ReturnToPacket, Inv, Control
  <2>2. /\ ~ Draining /\ Draining' = Draining
        /\ ToReport = current_flows /\ ToReport' = current_flows'
    BY <1>2, <2>1 DEF Draining, ToReport
  <2>3. CASE caller = "finish"
    <3>1. current_flows' = current_flows - 1 /\ UNCHANGED next_insertion_order
      BY <1>5, <2>3 DEF ReturnToPacket, Erase
    <3>2. Counts!Report
      BY <1>3, <2>1, <2>2, <3>1 DEF Counts!Report, ReportedFlows
    <3> QED
      BY <3>2 DEF Counts!Next
  <2>4. CASE caller = "split"
    <3>1. next_insertion_order' = next_insertion_order + 1 /\ UNCHANGED current_flows
      BY <1>5, <2>4 DEF ReturnToPacket
    <3>2. Counts!Split
      BY <1>3, <2>1, <2>2, <3>1 DEF Counts!Split, ReportedFlows
    <3> QED
      BY <3>2 DEF Counts!Next
  <2> QED
    BY <2>1, <2>3, <2>4
<1> QED
  BY <1>4, <1>5

LEMMA CallbackRefines ==
  ASSUME Inv, Callback
  PROVE  [Counts!Next]_(Counts!vars)
<1> USE DEF At, Goto, Exit
<1>1. CASE WriteRow \/ FlushStdout \/ ShowRow \/ ShowRowDangling
  <2>1. /\ UNCHANGED table
        /\ pc \in {"write", "show"} /\ pc' \in {"show", "return"}
    <3>1. CASE WriteRow \/ FlushStdout
      BY <3>1 DEF WriteRow, FlushStdout
    <3>2. CASE ShowRow
      BY <3>2 DEF ShowRow
    <3>3. CASE ShowRowDangling
      BY <3>3 DEF ShowRowDangling
    <3> QED
      BY <1>1, <3>1, <3>2, <3>3
  <2> QED
    BY <2>1, QuietStepRefines DEF Draining, table
<1>2. CASE ReturnToPacket \/ ReturnToDrain
  BY <1>2, ReturnRefines
<1> QED
  BY <1>1, <1>2 DEF Callback

LEMMA FinishRefines ==
  ASSUME Inv, Finish
  PROVE  [Counts!Next]_(Counts!vars)
<1> USE DEF At, Goto, Exit
<1>1. CASE FinalPicture
  <2>1. /\ pc = "returned" /\ pc' = "drain" /\ pending' = current_flows
        /\ UNCHANGED << current_flows, next_insertion_order, finished_flow_count, caller >>
    BY <1>1 DEF FinalPicture
  <2>2. ~ Draining /\ Draining' /\ ToReport' = ToReport /\ ReportedFlows' = ReportedFlows
    BY <2>1 DEF Inv, Control, Draining, Reporting, ToReport, ReportedFlows
  <2>3. Counts!BeginDrain
    BY <2>1, <2>2 DEF Counts!BeginDrain, ReportedFlows
  <2> QED
    BY <2>3 DEF Counts!Next
<1>2. CASE FinishOne
  <2>1. /\ pc = "drain" /\ pc' = "write" /\ caller' = "drain"
        /\ finished_flow_count' = finished_flow_count + 1
        /\ UNCHANGED << current_flows, next_insertion_order, pending >>
    BY <1>2 DEF FinishOne, handleFinishedFlow
  <2>2. Draining /\ Draining' /\ ~ Reporting /\ Reporting'
    BY <2>1 DEF Inv, Control, Draining, Reporting
  <2> QED
    BY <2>1, <2>2, CallRefines
<1>3. CASE ClearFlows
  <2>1. /\ pc = "drain" /\ pc' = "summary"
        /\ UNCHANGED << next_insertion_order, finished_flow_count, pending, caller >>
    BY <1>3 DEF ClearFlows
  <2>2. UNCHANGED Counts!vars
    BY <2>1 DEF Counts!vars, Draining, ToReport, Reporting
  <2> QED
    BY <2>2
<1>4. CASE Summary
  <2>1. UNCHANGED table /\ pc' = pc
    BY <1>4 DEF Summary
  <2> QED
    BY <2>1, QuietStepRefines DEF Draining, table
<1> QED
  BY <1>1, <1>2, <1>3, <1>4 DEF Finish

LEMMA StepRefines ==
  ASSUME Inv, [Next]_vars
  PROVE  [Counts!Next]_(Counts!vars)
<1> USE DEF At, Goto, Exit
<1>1. CASE Setup
  <2>1. UNCHANGED table /\ pc \in {"open", "setup"} /\ pc' \in {"open", "setup", "loop"}
    BY <1>1 DEF Setup, Open, OpenFails, ResolveCsvPathThrows, Configure, data
  <2> QED
    BY <2>1, QuietStepRefines DEF Draining, table
<1>2. CASE ReadAll \/ Callback \/ Finish
  BY <1>2, ReadAllRefines, CallbackRefines, FinishRefines
<1>3. CASE BufferFull \/ Signal \/ Kill \/ Clock \/ Terminated \/ UNCHANGED vars
  <2>1. UNCHANGED table /\ pc' = pc
    BY <1>3 DEF BufferFull, Signal, Kill, Clock, Terminated, vars, data
  <2> QED
    BY <2>1, QuietStepRefines DEF Draining, table
<1> QED
  BY <1>1, <1>2, <1>3 DEF Next, Main

\* main drives the flow table as the counts allow: what reaches the callback is
\* created before, reported once, and drained once (main.cpp:188-222).
THEOREM ProgramImplementsCounts == Spec => ImplementsCounts
<1>1. Init => Counts!Init
  BY DEF Init, Counts!Init, Draining, Reporting, ToReport
<1>2. Inv /\ [Next]_vars => [Counts!Next]_(Counts!vars)
  BY StepRefines
<1> QED
  BY ProgramInv, <1>1, <1>2, PTL DEF Spec, ImplementsCounts, Counts!Spec

-----------------------------------------------------------------------------
(* The promise of CaptureLoop *)

captured == << live_mode, g_stop_capture, total >>

\* Without it a request could be pending that an offline capture never looks
\* at: the handler is only installed in live mode (main.cpp:66-69).
AskedWhenLive == g_stop_capture => live_mode

LEMMA AskedOnlyLive == Spec => []AskedWhenLive
<1>1. Init => AskedWhenLive
  BY DEF Init, AskedWhenLive
<1>2. AskedWhenLive /\ [Next]_vars => AskedWhenLive'
  <2> SUFFICES ASSUME AskedWhenLive, [Next]_vars PROVE AskedWhenLive'
    OBVIOUS
  <2>1. CASE Signal
    BY <2>1 DEF Signal, AskedWhenLive
  <2>2. CASE Setup \/ Callback
    BY <2>2 DEF Setup, Open, OpenFails, ResolveCsvPathThrows, Configure, Callback, WriteRow,
       FlushStdout, ShowRow, ShowRowDangling, ReturnToPacket, ReturnToDrain, env, AskedWhenLive
  <2>3. CASE ReadAll \/ Finish
    BY <2>3 DEF ReadAll, KeepReading, StopReading, TimeoutTick, ReadError, ShortFrame,
       QuietFrame, StartFlow, ReportFlow, FrameRead, Finish, FinalPicture, FinishOne,
       ClearFlows, Summary, env, AskedWhenLive
  <2>4. CASE BufferFull \/ Kill \/ Clock \/ Terminated \/ UNCHANGED vars
    BY <2>4 DEF BufferFull, Kill, Clock, Terminated, vars, env, AskedWhenLive
  <2> QED
    BY <2>1, <2>2, <2>3, <2>4 DEF Next, Main
<1> QED
  BY <1>1, <1>2, PTL DEF Spec

\* The process ends before readAll has returned.
LEMMA EndAborts ==
  ASSUME Inv, UNCHANGED << captured, pc, caller >>,
         exit = "running", exit' # "running"
  PROVE  [Capture!Next]_(Capture!vars)
<1>1. CASE CapturePhase = "returned"
  BY <1>1 DEF Capture!vars, captured, CapturePhase, At
<1>2. CASE CapturePhase # "returned"
  <2>1. CapturePhase \in {"closed", "between", "waiting"} /\ CapturePhase' = "aborted"
    BY <1>2 DEF CapturePhase, At
  <2>2. Capture!Abort
    BY <2>1 DEF Capture!Abort, captured
  <2> QED
    BY <2>2 DEF Capture!Next
<1> QED
  BY <1>1, <1>2

LEMMA SetupFollowsCapture ==
  ASSUME Inv, Setup
  PROVE  [Capture!Next]_(Capture!vars)
<1> USE DEF At, Goto, Exit
<1>1. UNCHANGED << captured, caller >> /\ caller = "none" /\ exit = "running"
  BY DEF Setup, Open, OpenFails, ResolveCsvPathThrows, Configure, captured, env, data, table,
         Inv, Types, Control, Reporting
<1>2. CASE Open
  BY <1>1, <1>2 DEF Open, Capture!vars, captured, CapturePhase
<1>3. CASE Configure
  <2>1. Capture!Open
    BY <1>1, <1>3 DEF Configure, Capture!Open, captured, CapturePhase
  <2> QED
    BY <2>1 DEF Capture!Next
<1>4. CASE OpenFails \/ ResolveCsvPathThrows
  BY <1>1, <1>4, EndAborts DEF OpenFails, ResolveCsvPathThrows
<1> QED
  BY <1>2, <1>3, <1>4 DEF Setup

LEMMA ReadAllFollowsCapture ==
  ASSUME Inv, AskedWhenLive, ReadAll
  PROVE  [Capture!Next]_(Capture!vars)
<1> USE DEF At, Goto, Exit
<1>1. UNCHANGED << live_mode, g_stop_capture >> /\ exit = "running" /\ caller = "none"
  BY DEF ReadAll, KeepReading, StopReading, TimeoutTick, ReadError, ShortFrame, QuietFrame,
         StartFlow, ReportFlow, FrameRead, env, Inv, Types, Control, Reporting
<1>2. CASE KeepReading
  <2>1. Capture!BeginTurn
    BY <1>1, <1>2 DEF KeepReading, StopSeen, AskedWhenLive, Capture!BeginTurn, CapturePhase,
       data, table
  <2> QED
    BY <2>1 DEF Capture!Next
<1>3. CASE StopReading
  <2>1. Capture!Return
    BY <1>1, <1>3 DEF StopReading, StopSeen, Capture!Return, CapturePhase, table
  <2> QED
    BY <2>1 DEF Capture!Next
<1>4. CASE TimeoutTick
  <2>1. Capture!NoFrameRead
    BY <1>1, <1>4 DEF TimeoutTick, Capture!NoFrameRead, CapturePhase, table
  <2> QED
    BY <2>1 DEF Capture!Next
<1>5. CASE ReadError
  BY <1>1, <1>5, EndAborts DEF ReadError, captured, table
<1>6. CASE ShortFrame \/ QuietFrame \/ StartFlow \/ ReportFlow
  <2>1. /\ pc = "read" /\ pc' \in {"loop", "write"} /\ exit' = exit
        /\ caller' \in {"none", "finish", "split"}
        /\ total' = total + 1
    BY <1>1, <1>6 DEF ShortFrame, QuietFrame, StartFlow, ReportFlow, FrameRead,
       handleFinishedFlow, table
  <2>2. Capture!ReadFrame
    BY <1>1, <2>1 DEF Capture!ReadFrame, CapturePhase
  <2> QED
    BY <2>2 DEF Capture!Next
<1> QED
  BY <1>2, <1>3, <1>4, <1>5, <1>6 DEF ReadAll

LEMMA CallbackFollowsCapture ==
  ASSUME Inv, Callback
  PROVE  [Capture!Next]_(Capture!vars)
<1> USE DEF At, Goto, Exit
<1>1. UNCHANGED captured /\ exit = "running"
  BY DEF Callback, WriteRow, FlushStdout, ShowRow, ShowRowDangling, ReturnToPacket,
         ReturnToDrain, captured, env
<1>2. CASE exit' = "running"
  <2>1. /\ pc \in {"write", "show", "return"}
        /\ \/ pc' \in {"show", "return"} /\ caller' = caller
           \/ caller \in {"finish", "split"} /\ caller' = "none" /\ pc' = "loop"
           \/ caller = "drain" /\ pc' = "drain"
    <3>1. CASE WriteRow \/ FlushStdout \/ ShowRow
      BY <3>1 DEF WriteRow, FlushStdout, ShowRow, table
    <3>2. CASE ShowRowDangling
      BY <1>1, <1>2, <3>2 DEF ShowRowDangling, table
    <3>3. CASE ReturnToPacket \/ ReturnToDrain
      BY <3>3 DEF ReturnToPacket, ReturnToDrain
    <3> QED
      BY <3>1, <3>2, <3>3 DEF Callback
  <2>2. CapturePhase' = CapturePhase
    BY <1>1, <1>2, <2>1 DEF CapturePhase
  <2> QED
    BY <1>1, <2>2 DEF captured, Capture!vars
<1>3. CASE exit' # "running"
  <2>1. UNCHANGED << pc, caller >>
    BY <1>1, <1>3 DEF Callback, WriteRow, FlushStdout, ShowRow, ShowRowDangling,
       ReturnToPacket, ReturnToDrain, table
  <2> QED
    BY <1>1, <1>3, <2>1, EndAborts
<1> QED
  BY <1>2, <1>3

LEMMA FinishFollowsCapture ==
  ASSUME Inv, Finish
  PROVE  [Capture!Next]_(Capture!vars)
<1> USE DEF At, Goto, Exit
<1>1. /\ UNCHANGED captured
      /\ pc \in {"returned", "drain", "summary"}
      /\ pc' \in {"returned", "drain", "summary"} \/ caller' = "drain"
  BY DEF Finish, FinalPicture, FinishOne, handleFinishedFlow, ClearFlows, Summary, captured, env
<1>2. CapturePhase = "returned" /\ CapturePhase' = "returned"
  BY <1>1 DEF CapturePhase
<1> QED
  BY <1>1, <1>2 DEF captured, Capture!vars

LEMMA EnvironmentFollowsCapture ==
  ASSUME Inv, BufferFull \/ Signal \/ Kill \/ Clock \/ Terminated \/ UNCHANGED vars
  PROVE  [Capture!Next]_(Capture!vars)
<1>1. CASE BufferFull \/ Clock \/ Terminated \/ UNCHANGED vars
  <2>1. UNCHANGED << captured, pc, exit, caller >>
    BY <1>1 DEF BufferFull, Clock, Terminated, captured, vars, env, data, table
  <2> QED
    BY <2>1 DEF captured, Capture!vars, CapturePhase, At
<1>2. CASE Signal
  <2>1. Capture!Ask
    BY <1>2 DEF Signal, Capture!Ask, CapturePhase, At, data, table
  <2> QED
    BY <2>1 DEF Capture!Next
<1>3. CASE Kill
  BY <1>3, EndAborts DEF Kill, Exit, captured, env, data, table
<1> QED
  BY <1>1, <1>2, <1>3

\* main drives one capture loop of the kind PacketReader implements
\* (main.cpp:104-222): no read begins after a signal, the callbacks happen
\* between two turns, and finishAllFlows follows a normal return only.
THEOREM ProgramImplementsCapture == Spec => ImplementsCapture
<1>1. Init => Capture!Init
  BY DEF Init, Capture!Init, CapturePhase, At
<1>2. Inv /\ AskedWhenLive /\ [Next]_vars => [Capture!Next]_(Capture!vars)
  BY SetupFollowsCapture, ReadAllFollowsCapture, CallbackFollowsCapture,
     FinishFollowsCapture, EnvironmentFollowsCapture DEF Next, Main
<1> QED
  BY ProgramInv, AskedOnlyLive, <1>1, <1>2, PTL DEF Spec, ImplementsCapture, Capture!Spec

=============================================================================
