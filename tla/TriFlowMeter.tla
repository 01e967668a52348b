----------------------------- MODULE TriFlowMeter -----------------------------
(***************************************************************************)
(* The program (src/main.cpp): it opens the capture and the output, lets   *)
(* the reader drive the flow table, writes a row for each flow the table   *)
(* reports, shows the dashboard, and exits on one of several paths.        *)
(*                                                                         *)
(* The flow table is represented by its counts (FlowCounts), the reader by *)
(* the outcome of each turn of its loop, the output by the rows that are   *)
(* still in the buffer of the stream and those that have left it.  A call  *)
(* of the callback is split where the program can be killed: before the    *)
(* row is written ("write"), before it is shown ("show") and before the    *)
(* table goes on ("return").                                               *)
(***************************************************************************)
EXTENDS Naturals

CONSTANT MaxFrames  \* bound: frames in one capture

ASSUME TriFlowMeterAssumption == MaxFrames \in Nat

VARIABLES
  live_mode, stdout_mode,  \* options of the command line
  pc,                      \* where main is
  exit,                    \* "running", or how the process ended
  g_stop_capture,
  total,                   \* stats.total
  current_flows,           \* number of flows in the table
  next_insertion_order, finished_flow_count,
  pending,                 \* flows finishAllFlows has yet to visit
  caller,                  \* what called the callback, "none" outside of it
  streamed_rows,
  buffered,                \* rows in the buffer of the output stream
  file_rows,               \* rows that have left it
  stream_bad,              \* the stream has failed: later output is dropped
  dashboard,               \* the LiveDashboard object
  picture,                 \* what it drew last
  progress_due, ui_due     \* 250 ms have passed since the last progress call
                           \* and since the last tick of the dashboard

env == << live_mode, stdout_mode, g_stop_capture >>
table == << current_flows, next_insertion_order, finished_flow_count, pending, caller >>
stream == << buffered, file_rows, stream_bad >>
screen == << dashboard, picture, progress_due, ui_due >>
data == << total, table, streamed_rows, stream, screen >>
vars == << env, pc, exit, data >>

Picture == [total: Nat, written: Nat, active: Nat]

Blank == [total |-> 0, written |-> 0, active |-> 0]

Init ==
  /\ live_mode \in BOOLEAN
  /\ stdout_mode \in BOOLEAN
  /\ pc = "open"
  /\ exit = "running"
  /\ g_stop_capture = FALSE
  /\ total = 0
  /\ current_flows = 0
  /\ next_insertion_order = 0
  /\ finished_flow_count = 0
  /\ pending = 0
  /\ caller = "none"
  /\ streamed_rows = 0
  /\ buffered = 0
  /\ file_rows = 0
  /\ stream_bad = FALSE
  /\ dashboard = [in_scope |-> FALSE, shows |-> Blank]
  /\ picture = Blank
  /\ progress_due = FALSE
  /\ ui_due = FALSE

At(location) == exit = "running" /\ pc = location

Exit(how) == exit' = how /\ UNCHANGED pc

Goto(location) == pc' = location /\ UNCHANGED exit

-----------------------------------------------------------------------------
(* Output *)

\* What is in the buffer leaves it, all or, when the device fails, a part.
Flush ==
  \/ /\ file_rows' = file_rows + buffered
     /\ buffered' = 0
     /\ UNCHANGED stream_bad
  \/ /\ buffered > 0
     /\ file_rows' \in file_rows .. file_rows + buffered - 1
     /\ buffered' = 0
     /\ stream_bad' = TRUE

\* Fault: what is buffered at an early return is dropped.
CloseStream_Dropped == buffered' = 0 /\ UNCHANGED << file_rows, stream_bad >>

\* The destructor of live_out, or the end of the process for stdout.
CloseStream == Flush

\* Fault: the picture is drawn without flushing the stream.
TickUi_NoFlush(force, shows) ==
  IF force \/ ui_due
  THEN picture' = shows /\ ui_due' = FALSE /\ UNCHANGED stream
  ELSE UNCHANGED << stream, picture, ui_due >>

\* tickUi, with what the dashboard shows by then.
TickUi(force, shows) ==
  IF force \/ ui_due
  THEN Flush /\ picture' = shows /\ ui_due' = FALSE
  ELSE UNCHANGED << stream, picture, ui_due >>

\* Fault: the progress callback leaves the number of active flows as it was.
ProgressShows_OldFlows(frames, flows) == [dashboard.shows EXCEPT !.total = frames]

\* The progress callback's setters.
ProgressShows(frames, flows) ==
  [dashboard.shows EXCEPT !.total = frames, !.active = flows]

\* emitProgressIfDue with the progress callback, which stdout mode has not.
Progress(force, frames, flows) ==
  IF ~ stdout_mode /\ (force \/ progress_due)
  THEN LET shows == ProgressShows(frames, flows) IN
       /\ dashboard' = [dashboard EXCEPT !.shows = shows]
       /\ progress_due' = FALSE
       /\ TickUi(FALSE, shows)
  ELSE UNCHANGED << screen, stream >>

-----------------------------------------------------------------------------
(* From the start to readAll *)

Open ==
  /\ At("open")
  /\ Goto("setup")
  /\ UNCHANGED << env, data >>

\* The capture or the output cannot be opened.
OpenFails ==
  /\ At("open") \/ (At("setup") /\ ~ stdout_mode)
  /\ Exit("failed")
  /\ UNCHANGED << env, data >>

\* resolveCsvPath creates directories; what that throws is not caught.
ResolveCsvPathThrows ==
  /\ At("setup")
  /\ ~ stdout_mode
  /\ Exit("crashed")
  /\ UNCHANGED << env, data >>

\* The header is written and flushed (and may fail to be), the callback
\* installed and the dashboard drawn for the first time.
Configure ==
  /\ At("setup")
  /\ Goto("loop")
  /\ dashboard' = [dashboard EXCEPT !.in_scope = ~ stdout_mode]
  /\ stream_bad' \in BOOLEAN
  /\ UNCHANGED << env, total, table, streamed_rows, buffered, file_rows,
                  picture, progress_due, ui_due >>

-----------------------------------------------------------------------------
(* readAll: the outcomes of one turn *)

\* Fault: the flag is passed in the other mode.
StopSeen_Offline == ~ live_mode /\ g_stop_capture

\* The flag is passed to readAll in live mode only.
StopSeen == live_mode /\ g_stop_capture

KeepReading ==
  /\ At("loop")
  /\ ~ StopSeen
  /\ Goto("read")
  /\ UNCHANGED << env, data >>

\* The stop flag is seen, or the file has ended: readAll returns true.
StopReading ==
  /\ \/ At("loop") /\ StopSeen
     \/ At("read") /\ ~ live_mode
  /\ Progress(TRUE, total, current_flows)
  /\ Goto("returned")
  /\ UNCHANGED << env, total, table, streamed_rows >>

TimeoutTick ==
  /\ At("read")
  /\ live_mode
  /\ Progress(FALSE, total, current_flows)
  /\ Goto("loop")
  /\ UNCHANGED << env, total, table, streamed_rows >>

\* main returns without finishAllFlows.
ReadError ==
  /\ At("read")
  /\ Exit("failed")
  /\ CloseStream
  /\ dashboard' = [dashboard EXCEPT !.in_scope = FALSE]
  /\ UNCHANGED << env, total, table, streamed_rows,
                  picture, progress_due, ui_due >>

FrameRead ==
  /\ At("read")
  /\ total < MaxFrames
  /\ total' = total + 1
  /\ UNCHANGED << env, streamed_rows >>

\* A frame shorter than an Ethernet header: no progress call.
ShortFrame ==
  /\ FrameRead
  /\ Goto("loop")
  /\ UNCHANGED << table, stream, screen >>

\* The frame is discarded, or its packet joins a flow that stays open.
QuietFrame ==
  /\ FrameRead
  /\ Progress(FALSE, total', current_flows)
  /\ Goto("loop")
  /\ UNCHANGED table

StartFlow ==
  /\ FrameRead
  /\ next_insertion_order' = next_insertion_order + 1
  /\ current_flows' = current_flows + 1
  /\ Progress(FALSE, total', current_flows')
  /\ Goto("loop")
  /\ UNCHANGED << finished_flow_count, pending, caller >>

\* handleFinishedFlow counts the flow and calls the callback.
handleFinishedFlow(from) ==
  /\ finished_flow_count' = finished_flow_count + 1
  /\ caller' = from
  /\ Goto("write")

\* The packet ends its flow ("finish") or finds it expired ("split").
ReportFlow ==
  /\ FrameRead
  /\ current_flows > 0
  /\ \E from \in {"finish", "split"} : handleFinishedFlow(from)
  /\ UNCHANGED << current_flows, next_insertion_order, pending, stream, screen >>

-----------------------------------------------------------------------------
(* The flow callback *)

\* Fault: the row is written twice.
BufferRow_Twice == IF stream_bad THEN buffered ELSE buffered + 2

\* A stream that has failed drops what is written to it.
BufferRow == IF stream_bad THEN buffered ELSE buffered + 1

\* writeFlowRow does not look at the state of the stream, so the row counts as
\* streamed even when the stream drops it.
WriteRow ==
  /\ At("write")
  /\ streamed_rows' = streamed_rows + 1
  /\ buffered' = BufferRow
  /\ Goto("show")
  /\ UNCHANGED << env, total, table, file_rows, stream_bad, screen >>

FlushStdout ==
  /\ At("show")
  /\ stdout_mode
  /\ Flush
  /\ Goto("return")
  /\ UNCHANGED << env, total, table, streamed_rows, screen >>

\* The callback's setters: the dashboard learns the number of rows and of flows
\* in the table, where the reported flow still is.
RowShows ==
  [dashboard.shows EXCEPT !.written = streamed_rows, !.active = current_flows]

ShowRow ==
  /\ At("show")
  /\ dashboard.in_scope
  /\ dashboard' = [dashboard EXCEPT !.shows = RowShows]
  /\ TickUi(FALSE, RowShows)
  /\ Goto("return")
  /\ UNCHANGED << env, total, table, streamed_rows, progress_due >>

\* The callback uses the dashboard and tickUi after the end of their scope.
\* Where the stack is still as they left it they work as before, the tick due
\* or not; else nothing is drawn, the stream being flushed or not, or the
\* process dies.
ShowRowDangling ==
  /\ At("show")
  /\ ~ stdout_mode
  /\ ~ dashboard.in_scope
  /\ \/ /\ Goto("return")
        /\ dashboard' = [dashboard EXCEPT !.shows = RowShows]
        /\ \E force \in BOOLEAN : TickUi(force, RowShows)
        /\ UNCHANGED progress_due
     \/ Goto("return") /\ (Flush \/ UNCHANGED stream) /\ UNCHANGED screen
     \/ Exit("crashed") /\ UNCHANGED << stream, screen >>
  /\ UNCHANGED << env, total, table, streamed_rows >>

\* Fault: the finished flow stays in the table.
Erase_Kept(flows) == flows

Erase(flows) == flows - 1

\* Back in the flow table: the reported flow is erased, replaced, or left
\* behind by the loop of finishAllFlows.
ReturnToPacket ==
  /\ At("return")
  /\ caller \in {"finish", "split"}
  /\ IF caller = "finish"
     THEN current_flows' = Erase(current_flows) /\ UNCHANGED next_insertion_order
     ELSE next_insertion_order' = next_insertion_order + 1 /\ UNCHANGED current_flows
  /\ caller' = "none"
  /\ Progress(FALSE, total, current_flows')
  /\ Goto("loop")
  /\ UNCHANGED << env, total, finished_flow_count, pending, streamed_rows >>

ReturnToDrain ==
  /\ At("return")
  /\ caller = "drain"
  /\ pending' = pending - 1
  /\ caller' = "none"
  /\ Goto("drain")
  /\ UNCHANGED << env, total, current_flows, next_insertion_order,
                  finished_flow_count, streamed_rows, stream, screen >>

-----------------------------------------------------------------------------
(* After readAll *)

\* Fault: the last tick is throttled like any other.
DrawLast_Throttled(shows) == TickUi(FALSE, shows)

DrawLast(shows) == TickUi(TRUE, shows)

\* The last picture is drawn, the block of the dashboard ends, and
\* finishAllFlows is called.
FinalPicture ==
  LET shows == [total |-> total, written |-> streamed_rows, active |-> current_flows] IN
  /\ At("returned")
  /\ IF stdout_mode THEN UNCHANGED << stream, screen >>
     ELSE /\ DrawLast(shows)
          /\ dashboard' = [in_scope |-> FALSE, shows |-> shows]
          /\ UNCHANGED progress_due
  /\ pending' = current_flows
  /\ Goto("drain")
  /\ UNCHANGED << env, total, current_flows, next_insertion_order,
                  finished_flow_count, caller, streamed_rows >>

\* Fault: the loop takes one turn too many.
Unvisited_OneMore == pending >= 0

Unvisited == pending > 0

FinishOne ==
  /\ At("drain")
  /\ Unvisited
  /\ handleFinishedFlow("drain")
  /\ UNCHANGED << env, total, current_flows, next_insertion_order,
                  pending, streamed_rows, stream, screen >>

ClearFlows ==
  /\ At("drain")
  /\ pending = 0
  /\ current_flows' = 0
  /\ Goto("summary")
  /\ UNCHANGED << env, total, next_insertion_order,
                  finished_flow_count, pending, caller, streamed_rows, stream, screen >>

\* The stream is flushed, stdout by the end of the process, and the counts are
\* printed.
Summary ==
  /\ At("summary")
  /\ Flush
  /\ Exit("ok")
  /\ UNCHANGED << env, total, table, streamed_rows, screen >>

-----------------------------------------------------------------------------
(* The environment *)

\* The library writes a full buffer out by itself.
BufferFull ==
  /\ exit = "running"
  /\ buffered > 0
  /\ Flush
  /\ UNCHANGED << env, pc, exit, total, table, streamed_rows, screen >>

\* handleSignal
Signal ==
  /\ exit = "running"
  /\ live_mode
  /\ ~ g_stop_capture
  /\ g_stop_capture' = TRUE
  /\ UNCHANGED << live_mode, stdout_mode, pc, exit, data >>

\* Any other end of the process from outside; offline that includes SIGINT,
\* for which no handler is installed.  What is buffered is lost.
Kill ==
  /\ exit = "running"
  /\ Exit("killed")
  /\ UNCHANGED << env, data >>

Clock ==
  /\ exit = "running"
  /\ pc \notin {"open", "setup"}
  /\ \/ progress_due' = TRUE /\ UNCHANGED ui_due
     \/ ui_due' = TRUE /\ UNCHANGED progress_due
  /\ UNCHANGED << env, pc, exit, total, table, streamed_rows, stream,
                  dashboard, picture >>

Terminated == exit # "running" /\ UNCHANGED vars

-----------------------------------------------------------------------------

Setup == Open \/ OpenFails \/ ResolveCsvPathThrows \/ Configure

ReadAll ==
  \/ KeepReading \/ StopReading \/ TimeoutTick \/ ReadError
  \/ ShortFrame \/ QuietFrame \/ StartFlow \/ ReportFlow

Callback ==
  \/ WriteRow \/ FlushStdout \/ ShowRow \/ ShowRowDangling
  \/ ReturnToPacket \/ ReturnToDrain

Finish == FinalPicture \/ FinishOne \/ ClearFlows \/ Summary

Main == Setup \/ ReadAll \/ Callback \/ Finish

Next == Main \/ BufferFull \/ Signal \/ Kill \/ Clock \/ Terminated

Spec == Init /\ [][Next]_vars

\* The one thread of the program runs; a read returns, because a file has an
\* end and a live capture a read timeout.
FairSpec == Spec /\ WF_vars(Main)

-----------------------------------------------------------------------------
(* Properties *)

\* Every variable keeps its type, and no counter goes below zero.
TypeOK ==
  /\ {live_mode, stdout_mode, g_stop_capture, stream_bad, progress_due, ui_due} \subseteq BOOLEAN
  /\ pc \in {"open", "setup", "loop", "read", "write", "show", "return", "returned",
             "drain", "summary"}
  /\ exit \in {"running", "ok", "failed", "killed", "crashed"}
  /\ caller \in {"none", "finish", "split", "drain"}
  /\ total \in 0 .. MaxFrames
  /\ {current_flows, next_insertion_order, finished_flow_count, pending} \subseteq Nat
  /\ {streamed_rows, buffered, file_rows} \subseteq Nat
  /\ dashboard \in [in_scope: BOOLEAN, shows: Picture]
  /\ picture \in Picture

Reporting == caller # "none"

Draining == pc \in {"drain", "summary"} \/ caller = "drain"

\* Flows that the callback has not returned from.
ToReport == IF Draining THEN pending ELSE current_flows

\* The rows of main and the flows of the table are the same ones: each flow
\* the table counts as finished is one row, each row is in the file or in the
\* buffer unless the stream failed, and no flow is lost between the two.
RowsAccounted ==
  /\ finished_flow_count = streamed_rows + (IF pc = "write" THEN 1 ELSE 0)
  /\ file_rows + buffered <= streamed_rows
  /\ ~ stream_bad => file_rows + buffered = streamed_rows
  /\ next_insertion_order + (IF Reporting THEN 1 ELSE 0) = finished_flow_count + ToReport

\* How many flows the output misses on each exit path when the stream did not
\* fail: none after a normal end, those in the table after a read error.
ExitAccountsForFlows ==
  ~ stream_bad =>
    /\ exit = "ok" => file_rows = next_insertion_order
    /\ exit = "failed" => file_rows + current_flows = next_insertion_order

\* A process that is killed has written each row the dashboard showed as
\* written, and in stdout mode all rows but the one it was writing.
ShownRowsAreDurable ==
  ~ stream_bad =>
    /\ picture.written <= file_rows
    /\ stdout_mode => streamed_rows <= file_rows + (IF pc = "show" THEN 1 ELSE 0)

\* Rows and flows of a picture add up to the flows created, except that the
\* flow being reported appears as a row and as an active flow.  This is about
\* the dashboard while it exists; what is drawn after the end of its scope
\* counts each row of finishAllFlows among the active flows as well.
PictureWithinOne ==
  [][ dashboard.in_scope /\ picture' # picture =>
        picture'.written + picture'.active \in
          next_insertion_order' .. next_insertion_order' + (IF pc = "show" THEN 1 ELSE 0) ]_vars

\* The last picture the dashboard draws in its scope shows every frame, and
\* every flow either as a row or as active; the rows are in the file.
LastPictureComplete ==
  [][ At("returned") /\ ~ stdout_mode /\ pc' = "drain" =>
        /\ picture'.total = total
        /\ picture'.written = finished_flow_count
        /\ picture'.written + picture'.active = next_insertion_order
        /\ ~ stream_bad' => file_rows' = picture'.written ]_vars

\* The program ends: a file by itself, a live capture once it is asked to.
EndsWhenAsked == ~ live_mode \/ g_stop_capture ~> exit # "running"

\* The program uses the flow table as the table's counts allow.
Counts == INSTANCE FlowCounts WITH
  created <- next_insertion_order,
  active <- ToReport,
  reported <- finished_flow_count - (IF Reporting THEN 1 ELSE 0),
  draining <- Draining

ImplementsCounts == Counts!Spec

\* The phases of readAll: a kill, a failure or a crash before its return aborts
\* it, one after its return does not.
CapturePhase ==
  IF pc \in {"returned", "drain", "summary"} \/ caller = "drain" THEN "returned"
  ELSE IF exit # "running" THEN "aborted"
  ELSE CASE pc \in {"open", "setup"} -> "closed"
         [] pc = "read" -> "waiting"
         [] OTHER -> "between"

\* The program drives its capture as PacketReader does, CaptureLoop being what
\* both implement: the callbacks happen between two turns, a signal is seen
\* before the next one, and the flows are only drained after a normal return.
Capture == INSTANCE CaptureLoop WITH
  live <- live_mode,
  asked <- g_stop_capture,
  frames <- total,
  phase <- CapturePhase

ImplementsCapture == Capture!Spec

(* A statement of the documentation that the code does not keep *)

\* docs/ARCHITECTURE.md:634: rendering happens within the callbacks of the
\* packet loop, so a callback that shows a row finds the dashboard in scope.
CallbackFindsDashboard == At("show") /\ ~ stdout_mode => dashboard.in_scope

=============================================================================
