CONSTANTS
  Images = {i1}
  Labels = {l1}
  None = None
  Life = 1
  Margin = 1
  MaxDay = 1
  MaxEdits = 3
  MaxMeddles = 1
  MaxFails = 1
SPECIFICATION FairSpec
INVARIANTS TypeOK NothingLeftBehind StampedPodsServeNewCert
PROPERTIES RolledOut GoneInTheEnd
CHECK_DEADLOCK FALSE
