CONSTANTS
  Values = {v1, v2}
  None = none
  MaxHistory = 3
  MaxEvents = 3
  MaxAhead = 2
SPECIFICATION FairSpec
INVARIANTS TypeOK RenewalIsNotUndone
PROPERTIES NoNeedlessRenewal RootKept Settles
CHECK_DEADLOCK FALSE
