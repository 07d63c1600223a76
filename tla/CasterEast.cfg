SPECIFICATION Spec
CONSTANTS
  Moments <- OneDay
  Denominator = 15
  Skew = 3600
  Nowhere = Nowhere
PROPERTIES LiveIsSkipped
