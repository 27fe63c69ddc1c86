CONSTANTS
  p1 = p1
  p2 = p2
  c1 = c1
  P44Uid = {}
  P44Composed = {}
  CCUid = {c1}
  Uid = {c1}
  Adapters = {"CC"}
  MaxDyn = 2
  MaxP44Changes = 0
  MaxP44Losses = 0
  MaxCCChanges = 4
  MaxCCFailures = 0
SPECIFICATION Spec
INVARIANT ReEnabledWhenHandedAgain
CHECK_DEADLOCK FALSE
