CONSTANTS
  n1 = n1
  n2 = n2
  n3 = n3
  PeerOrgs = {o1, o2}
  Main = main
  Orderers <- Nodes
  v1 = v1
  v2 = v2
  m1 = m1
  m2 = m2
  Values = {v1, v2}
  Names = {m1, m2}
  Requests <- AllOfThem
  Starts <- Plain
  Anchors = {a1, a2}
  None = none
  MaxEvents = 2
  MaxPending = 2
SPECIFICATION FairSpec
INVARIANT TypeOK
PROPERTIES AnchorsKept Converges SwitchHappens
CHECK_DEADLOCK FALSE
