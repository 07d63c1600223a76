SPECIFICATION FairSpec
CONSTANTS
  Client = {c1, c2}
  Last = 1
  Wraps = TRUE
  Nobody = Nobody
  Garbage = Garbage
PROPERTIES WriterGranted Answered
