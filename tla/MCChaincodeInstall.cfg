CONSTANTS
  p1 = p1
  p2 = p2
  Peers <- MCPeers
  Addresses = {a1, a2}
  None = None
  MaxTime = 2
  MaxEdits = 1
  MaxFails = 2
SPECIFICATION Spec
INVARIANTS TypeOK ReportHolds
CHECK_DEADLOCK FALSE
