SPECIFICATION Spec
CONSTANTS
  Moments <- NewYear
  Denominator = 15
  Skew = 0
  Nowhere = Nowhere
INVARIANTS NotForgotten
PROPERTIES DueListed
