CONSTANTS
  a = a
  b = b
  x = x
  y = y
  Key = {a, b}
  EmptyKey = EmptyKey
  Body = {x, y}
  Blank = Blank
  ForeignType = ForeignType
  Nil = Nil
  Peer = {p1, p2}
  Request = {r1, r2, r3, r4}
  Docs <- MixedDocs
  Asked = {a}
  MaxChain = 2
SPECIFICATION Spec
INVARIANTS
  TypeOK IInv Agreement
  SubmittedListExact AnswersStayTrue ReportIsTrue RejectedMeansTaken SnapshotsNested
PROPERTIES Immutable ImplementsStore
SYMMETRY Symmetry
CHECK_DEADLOCK FALSE
