SPECIFICATION Spec
CONSTANTS
  Instant <- Morning
  Denominator = 15
  MessageKind = {"std", "nonStd"}
  EnableParse = FALSE
  MaxMessages = 3
  Invalid = Invalid
INVARIANTS DeferredSaved
