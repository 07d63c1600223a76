SPECIFICATION Spec
CONSTANTS
  Moments <- TwoDays
  Denominator = 15
  Skew <- AlmostTwentyOneMinutesBehind
  Nowhere = Nowhere
INVARIANTS TypeOK
PROPERTIES LiveIsSkipped
