CONSTANTS
  d1 = d1
  z1 = z1
  z2 = z2
  Kinds = {"identify", "fan", "button", "input", "cover", "color", "cc_dimmer", "cc_blind", "rooms", "mapping", "name"}
  MaxCommands = 2
  MaxOwn = 1
  MaxLosses = 1
  MaxIdentify = 3
  FanPercents = {0, 29, 50}
  FanSpeeds <- MCFanSpeeds
  FanShort = {29}
  MaxPresses = 2
  MaxButton = 6
  ButtonStarts <- MCButtonStarts
  SensorValues <- MCSensorValues
  CoverMax = 2
  CoverShort = {1}
  ColorMax = 1
  ColorShort = {1}
  CtMin = 1
  DimMax = 3
  DimShort = {2}
  BlindMax = 2
  BlindTiny = {1}
  BlindShort = {2}
  Initial = {d1, d2}
  Later = {d3}
  Composed = {d2}
  Zones = {z1, z2}
  ZoneNames = {kitchen}
  MaxZoneChanges = 3
  Name = {n1, n2, n3}
  NameAdapters = {"P44", "CC"}
  Covers <- MCCovers
  Blinds <- MCBlinds
  Lamps <- MCLamps
  RoomPlans <- MCRoomPlans
  Descriptions <- MCDescriptions
SPECIFICATION Spec
INVARIANTS
  TypeOK
  FanObeys
  InputMatches
  ButtonsKept
  CoveringShown
  CoveringObeys
  ColorsShown
  LastColorWins
  ColorSeen
  DimmersShown
  BlindsShown
  BlindObeys
  RoomsListed
  NameShown
  NameObeys
PROPERTIES
  IdentifyEnds
  ClicksCounted
  ReleasesPaired
CHECK_DEADLOCK FALSE
