SPECIFICATION Spec
CONSTANTS
  Sets = {s1, s2}
  Kids = {"a"}
  NoKid = ""
  Ops = {"op1", "op2"}
  Docs <- Documents
  MaxKeySetKeys = 2
  Refs <- SomeRefs
  MaxLen = 2
INVARIANTS IndexConsistent BuiltFaithfully
PROPERTY KeepsContract
