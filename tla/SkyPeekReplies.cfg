SPECIFICATION Spec
CONSTANTS
  Client = {c1, c2}
  Last = 3
  Wraps = FALSE
  Nobody = Nobody
  Garbage = Garbage
SYMMETRY ClientSymmetry
INVARIANTS TypeOK ConsistentReply FreshReply
