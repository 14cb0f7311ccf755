CONSTANTS
  o1 = o1
  o2 = o2
  k1 = k1
  k2 = k2
  Setups <- Setting
  Committer = committer
  Params = {p1}
  MaxSeq = 2
SPECIFICATION FairSpec
INVARIANTS TypeOK ApprovalStands FailedIsRetried CommitStands
PROPERTY SequenceCommits
CHECK_DEADLOCK FALSE
