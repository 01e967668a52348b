---------------------------- MODULE WelfordProofs ----------------------------
(***************************************************************************)
(* Welford's update against the textbook formulas, for all values and any  *)
(* number of them.                                                         *)
(***************************************************************************)
EXTENDS Welford, TLAPS

\* The inductive invariant.  Unlike n * m2 of SecondMomentIsTextbook, m2 itself
\* is a polynomial of the other variables, so that a step needs no division.
Moments ==
  /\ TypeOK
  /\ MeanIsAverage
  /\ m2 = Scale * Scale * squares - n * (mean * mean)
  /\ m2 >= 0

\* A division without remainder.
LEMMA ExactDivision ==
  ASSUME NEW x \in Int, NEW d \in Nat \ {0}, x % d = 0
  PROVE  /\ x \div d \in Int
         /\ d * (x \div d) = x
  OBVIOUS

\* The algebra of one update: k values so far with mean mu, a value whose
\* distance from mu is d, and its share e of that distance.
LEMMA MeanUpdate ==
  ASSUME NEW k \in Int, NEW mu \in Int, NEW S \in Int, NEW s \in Int, NEW v \in Int, NEW e \in Int,
         k * mu = S * s,
         (k + 1) * e = v * S - mu
  PROVE  (k + 1) * (mu + e) = S * (s + v)
  OBVIOUS

LEMMA SquareOfMean ==
  ASSUME NEW k \in Int, NEW mu \in Int, NEW d \in Int, NEW e \in Int,
         (k + 1) * e = d
  PROVE  (k + 1) * ((mu + e) * (mu + e)) = (k + 1) * (mu * mu) + 2 * (mu * d) + d * e
<1>1. (k + 1) * ((mu + e) * (mu + e))
        = (k + 1) * (mu * mu) + 2 * (mu * ((k + 1) * e)) + ((k + 1) * e) * e
  OBVIOUS
<1> QED
  BY <1>1

LEMMA MomentUpdate ==
  ASSUME NEW k \in Int, NEW mu \in Int, NEW S \in Int, NEW q \in Int, NEW v \in Int,
         NEW d \in Int, NEW e \in Int,
         d = v * S - mu,
         (k + 1) * e = d
  PROVE  S * S * q - k * (mu * mu) + k * d * e
           = S * S * (q + v * v) - (k + 1) * ((mu + e) * (mu + e))
<1>1. k * d * e = d * d - d * e
  <2>1. d * ((k + 1) * e) = k * d * e + d * e
    OBVIOUS
  <2>2. d * ((k + 1) * e) = d * d
    OBVIOUS
  <2> QED
    BY <2>1, <2>2
<1>2. S * S * (v * v) = d * d + 2 * (mu * d) + mu * mu
  <2>1. v * S = d + mu
    OBVIOUS
  <2>2. S * S * (v * v) = (v * S) * (v * S)
    OBVIOUS
  <2>3. (d + mu) * (d + mu) = d * d + 2 * (mu * d) + mu * mu
    OBVIOUS
  <2> QED
    BY <2>1, <2>2, <2>3
<1>3. (k + 1) * ((mu + e) * (mu + e)) = (k + 1) * (mu * mu) + 2 * (mu * d) + d * e
  BY SquareOfMean
<1>4. S * S * (q + v * v) = S * S * q + S * S * (v * v)
  OBVIOUS
<1>5. (k + 1) * (mu * mu) = k * (mu * mu) + mu * mu
  OBVIOUS
<1> QED
  BY <1>1, <1>2, <1>3, <1>4, <1>5

LEMMA IncrementNonNegative ==
  ASSUME NEW k \in Nat, NEW d \in Int, NEW e \in Int, (k + 1) * e = d
  PROVE  k * d * e >= 0
<1>1. e * e >= 0
  OBVIOUS
<1>2. k * (k + 1) \in Nat
  OBVIOUS
<1>3. k * d * e = (k * (k + 1)) * (e * e)
  OBVIOUS
<1>4. \A a, b \in Int : a >= 0 /\ b >= 0 => a * b >= 0
  OBVIOUS
<1> QED
  BY <1>1, <1>2, <1>3, <1>4

LEMMA AddKeepsMoments ==
  ASSUME Moments, NEW v \in Values, Add(v)
  PROVE  Moments'
<1> DEFINE d == v * Scale - mean
           e == d \div (n + 1)
<1>1. /\ v \in Nat /\ Scale \in Nat /\ n \in Nat /\ sum \in Nat /\ squares \in Nat
      /\ mean \in Int /\ m2 \in Int /\ d \in Int
  BY WelfordAssumption DEF Moments, TypeOK
<1>2. e \in Int /\ (n + 1) * e = d
  <2>1. d % (n + 1) = 0
    BY DEF Add, Dev
  <2> HIDE DEF d
  <2> QED
    BY <1>1, <2>1, ExactDivision
<1>3. /\ n' = n + 1 /\ mean' = mean + e /\ m2' = m2 + n * d * e
      /\ sum' = sum + v /\ squares' = squares + v * v
  <2>1. (n + 1) - 1 = n
    BY <1>1
  <2> QED
    BY <2>1 DEF Add, Dev, Share, Increment
<1> HIDE DEF d, e
<1>4. d = v * Scale - mean
  BY DEF d
<1>5. n' * mean' = Scale * sum'
  BY <1>1, <1>2, <1>3, <1>4, MeanUpdate DEF Moments, MeanIsAverage
<1>6. m2' = Scale * Scale * squares' - n' * (mean' * mean')
  <2>1. Scale * Scale * squares - n * (mean * mean) + n * d * e
          = Scale * Scale * (squares + v * v) - (n + 1) * ((mean + e) * (mean + e))
    BY <1>1, <1>2, <1>4, MomentUpdate
  <2> QED
    BY <1>3, <2>1 DEF Moments
<1>7. m2' >= 0
  <2>1. n * d * e >= 0 /\ n * d * e \in Int
    BY <1>1, <1>2, IncrementNonNegative
  <2> QED
    BY <1>1, <1>3, <2>1 DEF Moments
<1>8. TypeOK'
  <2>1. v * v \in Nat /\ n * d * e \in Int
    BY <1>1, <1>2
  <2> QED
    BY <1>1, <1>2, <1>3, <2>1 DEF TypeOK
<1> QED
  BY <1>5, <1>6, <1>7, <1>8 DEF Moments, MeanIsAverage

\* The polynomial form of m2 gives the textbook's.
LEMMA MomentsSuffice == Moments => SecondMomentIsTextbook
<1> SUFFICES ASSUME Moments PROVE SecondMomentIsTextbook
  OBVIOUS
<1>1. n \in Int /\ mean \in Int /\ sum \in Int /\ squares \in Int /\ Scale \in Int
  BY WelfordAssumption DEF Moments, TypeOK
<1>2. (n * mean) * (n * mean) = Scale * Scale * (sum * sum)
  <2>1. (Scale * sum) * (Scale * sum) = Scale * Scale * (sum * sum)
    BY <1>1
  <2> QED
    BY <2>1 DEF Moments, MeanIsAverage
<1>3. n * (Scale * Scale * squares - n * (mean * mean))
        = Scale * Scale * (n * squares) - (n * mean) * (n * mean)
  BY <1>1
<1>4. Scale * Scale * (n * squares - sum * sum)
        = Scale * Scale * (n * squares) - Scale * Scale * (sum * sum)
  BY <1>1
<1> QED
  BY <1>2, <1>3, <1>4 DEF Moments, SecondMomentIsTextbook

\* The invariant of RunningStats::add.
THEOREM RunningMoments == Spec => []Moments
<1>1. Init => Moments
  BY WelfordAssumption DEF Init, Moments, TypeOK, MeanIsAverage
<1>2. Moments /\ [Next]_vars => Moments'
  <2> SUFFICES ASSUME Moments, [Next]_vars PROVE Moments'
    OBVIOUS
  <2>1. CASE \E v \in Values : Add(v)
    BY <2>1, AddKeepsMoments
  <2>2. CASE UNCHANGED vars
    BY <2>2 DEF vars, Moments, TypeOK, MeanIsAverage
  <2> QED
    BY <2>1, <2>2 DEF Next, Reported
<1> QED
  BY <1>1, <1>2, PTL DEF Spec

\* The mean a flow's row shows (BasicFlow.h:47) is the average of the values
\* the statistic was fed, whatever their number and order.
THEOREM MeanCorrect == Spec => []MeanIsAverage
<1>1. Moments => MeanIsAverage
  BY DEF Moments
<1> QED
  BY RunningMoments, <1>1, PTL

\* The variance behind stddev (BasicFlow.h:60-66) is the textbook's, and is
\* never negative in exact arithmetic.
THEOREM SecondMomentCorrect == Spec => []SecondMomentIsTextbook
  BY RunningMoments, MomentsSuffice, PTL

=============================================================================
