CONSTANTS
  Children = {c1, c2, c3}
  Items = {i1, i2}
  U32Span = 3
  NoChild = NoChild
  Entries = {1, 2, 3, 4}
  BucketCount = 3
SPECIFICATION Spec
SYMMETRY Symmetry
INVARIANTS
  MembershipExact
  RoutesHome
  ServedInTurn
PROPERTIES
  NobodyOvertakes
