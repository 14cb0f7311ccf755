CONSTANTS
  malware = malware
  relationship = relationship
  u1 = u1
  u2 = u2
  Empty = Empty
  Types = {malware, relationship}
  Uuid = {u1, u2}
  Bundles <- ShortBundles
  Picked <- Ends
  MaxAdds = 2
SPECIFICATION Spec
INVARIANTS TypeOK IdsUnique EditedIsInBundle
PROPERTIES TypesNeverGrow DeleteCutsItsLinksOnly
