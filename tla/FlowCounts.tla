------------------------------ MODULE FlowCounts ------------------------------
(***************************************************************************)
(* What main sees of the flow table: how many flows were created, how many *)
(* of them were handed to the callback and how many still have to be.      *)
(* Which packets, keys or flags make a flow end is left out.               *)
(***************************************************************************)
EXTENDS Naturals

VARIABLES
  created,   \* flows created so far
  active,    \* flows that have yet to be reported
  reported,  \* flows the callback has returned from
  draining   \* TRUE from the call of finishAllFlows on

vars == << created, active, reported, draining >>

Init ==
  /\ created = 0
  /\ active = 0
  /\ reported = 0
  /\ draining = FALSE

Start ==
  /\ ~ draining
  /\ created' = created + 1
  /\ active' = active + 1
  /\ UNCHANGED << reported, draining >>

\* A flow ends: by its last packet, or in finishAllFlows.
Report ==
  /\ active > 0
  /\ active' = active - 1
  /\ reported' = reported + 1
  /\ UNCHANGED << created, draining >>

\* A flow is reported and another one takes its place.
Split ==
  /\ ~ draining
  /\ active > 0
  /\ created' = created + 1
  /\ reported' = reported + 1
  /\ UNCHANGED << active, draining >>

BeginDrain ==
  /\ ~ draining
  /\ draining' = TRUE
  /\ UNCHANGED << created, active, reported >>

Next == Start \/ Report \/ Split \/ BeginDrain

Spec == Init /\ [][Next]_vars

=============================================================================
