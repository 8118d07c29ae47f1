SPECIFICATION RotationSpec
CONSTANTS
  Ids = {f1, a, b}
  Families = {f1}
  Times = {0, 2, 3}
  Capacity = 2
  MaxTime = 3
  Slack = 0
  MaxGen = 5
  MaxToken = 4
SYMMETRY Symmetry
INVARIANTS
  TypeOK
  ExpiryIndexed
  WithinCapacity
  HeapBounded
PROPERTIES
  KeepsContract
  NoReplay
