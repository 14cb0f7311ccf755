CONSTANTS
  o1 = o1
  o2 = o2
  k1 = k1
  k2 = k2
  Setups <- Early
  Committer = committer
  Params = {p1}
  MaxSeq = 2
SPECIFICATION Spec
INVARIANT CommitStands
CHECK_DEADLOCK FALSE
