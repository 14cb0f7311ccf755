CONSTANTS
  Images = {i1}
  Labels = {l1}
  None = None
  Life = 2
  Margin = 1
  MaxDay = 2
  MaxEdits = 1
  MaxMeddles = 0
  MaxFails = 0
SPECIFICATION Spec
INVARIANT RenewedInTime
CHECK_DEADLOCK FALSE
