CONSTANTS
  set = set
  em = em
  Command = {set, em}
  Commands <- TwoCommands
  Dm = dm
  Length = {0, 1, 2}
  Capacity = 2
  MaxBytes = 4
SPECIFICATION FairSpec
INVARIANTS
  TypeOK
  NothingStale
  NoCommandLost
PROPERTIES
  ImplementsQueue
  CommandsDelivered
