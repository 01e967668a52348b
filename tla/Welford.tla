------------------------------- MODULE Welford -------------------------------
(***************************************************************************)
(* The running mean and second moment of RunningStats (include/BasicFlow.h)*)
(* in exact arithmetic.  mean is in units of 1 / Scale and m2 in units of  *)
(* 1 / Scale^2, with a Scale that all divisions of a run divide, so that   *)
(* no quotient is rounded.  sum and squares say what the textbook needs;   *)
(* the code keeps the first of them.                                       *)
(***************************************************************************)
EXTENDS Integers

CONSTANTS
  Values,      \* the values add is called with
  Scale,
  MaxSamples   \* bound: calls of add

ASSUME WelfordAssumption ==
  /\ Values \subseteq Nat
  /\ Scale \in Nat \ {0}
  /\ MaxSamples \in Nat

VARIABLES n, mean, m2, sum, squares

vars == << n, mean, m2, sum, squares >>

Init == n = 0 /\ mean = 0 /\ m2 = 0 /\ sum = 0 /\ squares = 0

Dev(v) == v * Scale - mean

\* Fault: both deviations are taken from the mean of before the call.
Increment_OldMeanTwice(count, dev, n_dev) == dev * dev

\* What add puts on m2.
Increment(count, dev, n_dev) == (count - 1) * dev * n_dev

\* Fault: the share is that of the samples before the call.
Share_OldCount(dev, count) == IF count = 1 THEN dev ELSE dev \div (count - 1)

Share(dev, count) == dev \div count

\* add(v), for a division without remainder.
Add(v) ==
  LET dev == Dev(v)
      n_dev == Share(dev, n + 1)
  IN
  /\ n < MaxSamples
  /\ dev % (n + 1) = 0
  /\ n' = n + 1
  /\ mean' = mean + n_dev
  /\ m2' = m2 + Increment(n + 1, dev, n_dev)
  /\ sum' = sum + v
  /\ squares' = squares + v * v

\* The flow is reported; its statistics are not used any more.
Reported == n = MaxSamples /\ UNCHANGED vars

Next == (\E v \in Values : Add(v)) \/ Reported

Spec == Init /\ [][Next]_vars

-----------------------------------------------------------------------------
(* Properties *)

TypeOK == {n, sum, squares} \subseteq Nat /\ {mean, m2} \subseteq Int

\* The running mean is the average of the values.
MeanIsAverage == n * mean = Scale * sum

\* m2 is the sum of the squared deviations from the average, so that stddev
\* returns the sample standard deviation, whatever the order of the values; its
\* guard against a negative variance only ever catches rounding.
SecondMomentIsTextbook ==
  /\ n * m2 = Scale * Scale * (n * squares - sum * sum)
  /\ m2 >= 0

=============================================================================
