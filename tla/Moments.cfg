SPECIFICATION Spec
CONSTANTS
  Values = {0, 1, 2, 5, 9}
  Scale = 60
  MaxSamples = 6
INVARIANT MeanIsAverage
INVARIANT SecondMomentIsTextbook
