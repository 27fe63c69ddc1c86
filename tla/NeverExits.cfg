CONSTANTS
  p1 = p1
  p2 = p2
  c1 = c1
  P44Uid = {p1}
  P44Composed = {}
  CCUid = {c1}
  Uid = {p1, c1}
  Adapters = {"P44", "CC"}
  MaxDyn = 2
  MaxP44Changes = 2
  MaxP44Losses = 1
  MaxCCChanges = 2
  MaxCCFailures = 1
SPECIFICATION Spec
INVARIANT NeverExits
CHECK_DEADLOCK FALSE
