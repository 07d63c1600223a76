CONSTANTS
  set = set
  em = em
  Command = {set, em}
  Commands <- TwoCommands
  Dm = dm
  Length = {0, 1, 2}
  Capacity = 2
  MaxBytes = 3
SPECIFICATION Spec
INVARIANT StopReachesReceiver
