------------------------------ MODULE CaptureLoop ------------------------------
(***************************************************************************)
(* What PacketReader::readAll (src/PacketReader.cpp) promises to its       *)
(* callers: it reads turn by turn, looks at the stop flag before each      *)
(* turn, and returns normally only when the flag is seen or a file has     *)
(* ended.  What becomes of a frame is left out.                            *)
(***************************************************************************)
EXTENDS Naturals

VARIABLES
  live,    \* TRUE for a capture that can be asked to stop and has no end
  asked,   \* it has been asked to stop
  phase,   \* "closed", "between" two turns, "waiting" for a frame in one,
           \* "returned" normally or "aborted"
  frames   \* frames read so far

vars == << live, asked, phase, frames >>

Init ==
  /\ live \in BOOLEAN
  /\ asked = FALSE
  /\ phase = "closed"
  /\ frames = 0

Open ==
  /\ phase = "closed"
  /\ phase' = "between"
  /\ UNCHANGED << live, asked, frames >>

BeginTurn ==
  /\ phase = "between"
  /\ ~ asked
  /\ phase' = "waiting"
  /\ UNCHANGED << live, asked, frames >>

ReadFrame ==
  /\ phase = "waiting"
  /\ phase' = "between"
  /\ frames' = frames + 1
  /\ UNCHANGED << live, asked >>

\* The turn ends without a frame: the read timeout of a live capture.
NoFrameRead ==
  /\ phase = "waiting"
  /\ live
  /\ phase' = "between"
  /\ UNCHANGED << live, asked, frames >>

Return ==
  /\ \/ phase = "between" /\ asked
     \/ phase = "waiting" /\ ~ live
  /\ phase' = "returned"
  /\ UNCHANGED << live, asked, frames >>

\* The capture cannot be opened, a read fails, or the process ends.
Abort ==
  /\ phase \in {"closed", "between", "waiting"}
  /\ phase' = "aborted"
  /\ UNCHANGED << live, asked, frames >>

\* A request to stop may come at any time, even after the end.
Ask ==
  /\ live
  /\ asked' = TRUE
  /\ UNCHANGED << live, phase, frames >>

Next == Open \/ BeginTurn \/ ReadFrame \/ NoFrameRead \/ Return \/ Abort \/ Ask

Spec == Init /\ [][Next]_vars

=============================================================================
