CONSTANTS
  o1 = o1
  o2 = o2
  k1 = k1
  k2 = k2
  Setups <- Changed
  Committer = committer
  Params = {p1, p2}
  MaxSeq = 1
SPECIFICATION Spec
INVARIANT ApprovalStands
CHECK_DEADLOCK FALSE
