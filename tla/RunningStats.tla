----------------------------- MODULE RunningStats -----------------------------
(***************************************************************************)
(* The accumulator of include/BasicFlow.h: count, sum, minimum, maximum.   *)
(* The doubles are exact here.  The running mean and second moment, on     *)
(* which no other part of the state depends, are the subject of Welford.   *)
(***************************************************************************)
EXTENDS Naturals

StatsType == [n: Nat, sum: Nat, min: Nat, max: Nat]

EmptyStats == [n |-> 0, sum |-> 0, min |-> 0, max |-> 0]

\* RunningStats::add(v).  The first value seeds both extremes.
AddValue(s, v) ==
  [ n   |-> s.n + 1,
    sum |-> s.sum + v,
    min |-> IF s.n = 0 \/ v < s.min THEN v ELSE s.min,
    max |-> IF s.n = 0 \/ v > s.max THEN v ELSE s.max ]

=============================================================================
