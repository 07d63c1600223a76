SPECIFICATION Spec
CONSTANTS
  Moments <- TwoDays
  Denominator = 15
  Skew = 0
  Nowhere = Nowhere
PROPERTIES LiveIsSkipped
