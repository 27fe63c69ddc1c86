CONSTANTS
  MinLevel = 1
  MaxLevel = 3
  Fine = 2
  Short = {2}
  OptionBit = {"ExecuteIfOff"}
  MaxCommands = 3
  MaxOwn = 1
SPECIFICATION Spec
INVARIANTS
  TypeOK
  Consistent
  LastCommandWins
CHECK_DEADLOCK FALSE
