CONSTANTS
  p1 = p1
  c1 = c1
  P44Uid = {p1}
  P44Composed = {}
  CCUid = {c1}
  Uid = {p1, c1}
  Adapters = {"P44", "CC"}
  MaxDyn = 1
  MaxP44Changes = 0
  MaxP44Losses = 1
  MaxCCChanges = 0
  MaxCCFailures = 1
  MaxWindows = 2
  MaxAnswers = 1
  VdcLeft <- MCVdcLeft
SPECIFICATION StatusSpec
INVARIANTS
  VdcKnows
  GatewayKnows
PROPERTIES
  CodeComesFirst
CHECK_DEADLOCK FALSE
