--------------------------- MODULE ConnectionLedger ---------------------------
(***************************************************************************)
(* What the flow table promises, without keys, directions, timestamps or   *)
(* flags: every packet of a connection is counted in the connection's open *)
(* record, a record is closed by reporting its count exactly once, and     *)
(* after the end of the capture all that is still open is reported, unless *)
(* the capture failed.                                                     *)
(***************************************************************************)
EXTENDS Naturals, Sequences

CONSTANT Connections  \* unordered pairs of endpoints, with a protocol

VARIABLES
  open,      \* packets in the open record of each connection, 0 for none
  reported,  \* the closed records, in the order of their report
  stage      \* "open", then "draining", or "failed" for good

vars == << open, reported, stage >>

Record(c, n) == [connection |-> c, packets |-> n]

Init ==
  /\ open = [c \in Connections |-> 0]
  /\ reported = << >>
  /\ stage = "open"

\* A packet joins the connection's open record, or opens one.
Count(c) ==
  /\ stage = "open"
  /\ open' = [open EXCEPT ![c] = @ + 1]
  /\ UNCHANGED << reported, stage >>

\* A packet is the last one of the open record.
CountAndClose(c) ==
  /\ stage = "open"
  /\ open[c] > 0
  /\ reported' = Append(reported, Record(c, open[c] + 1))
  /\ open' = [open EXCEPT ![c] = 0]
  /\ UNCHANGED stage

\* A packet closes the open record and opens the next one.
CloseAndCount(c) ==
  /\ stage = "open"
  /\ open[c] > 0
  /\ reported' = Append(reported, Record(c, open[c]))
  /\ open' = [open EXCEPT ![c] = 1]
  /\ UNCHANGED stage

\* The capture ends, or fails, and no packet may arrive any more.
End ==
  /\ stage = "open"
  /\ stage' \in {"draining", "failed"}
  /\ UNCHANGED << open, reported >>

Drain(c) ==
  /\ stage = "draining"
  /\ open[c] > 0
  /\ reported' = Append(reported, Record(c, open[c]))
  /\ open' = [open EXCEPT ![c] = 0]
  /\ UNCHANGED stage

Next ==
  \/ \E c \in Connections :
       Count(c) \/ CountAndClose(c) \/ CloseAndCount(c) \/ Drain(c)
  \/ End

Spec == Init /\ [][Next]_vars

\* What is open when the capture has ended is reported.
FairSpec == Spec /\ WF_vars(\E c \in Connections : Drain(c))

=============================================================================
