SPECIFICATION Spec
CONSTANTS
  Instant <- BothDays
  Denominator = 15
  MessageKind = {"JP", "nonStd"}
  EnableParse = FALSE
  MaxMessages = 6
  Invalid = Invalid
INVARIANTS
  TypeOK SavedPrefix Consecutive SettledComplete RightSlot HandleFollowsClock StrayOnlyAtStart
PROPERTIES PastFrozen ImplementsArchive
