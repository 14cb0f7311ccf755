CONSTANTS
  Sender = {s1, s2, s3}
  Receiver = {r1}
  MaxTime = 1
  MaxIndex = 4
  Old = Old
  Nil = Nil
SPECIFICATION Spec
INVARIANTS TypeOK PublishedIsComplete KeysKept ReplacedByOverlap
SYMMETRY Symmetry
CHECK_DEADLOCK FALSE
