CONSTANTS
  p1 = p1
  p2 = p2
  c1 = c1
  P44Uid = {p1, p2}
  P44Composed = {p2}
  CCUid = {}
  Uid = {p1, p2}
  Adapters = {"P44"}
  MaxDyn = 3
  MaxP44Changes = 2
  MaxP44Losses = 2
  MaxCCChanges = 0
  MaxCCFailures = 0
SPECIFICATION FairSpec
INVARIANTS
  P44Consistent
PROPERTIES
  P44Discovered
CHECK_DEADLOCK FALSE
