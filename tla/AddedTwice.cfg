CONSTANTS
  Main = {1, 2}
  Sub = {11, 12}
  SubsOf <- MCSubsOf
  MaxDyn = 3
  InvalidId = 8
  LegacyFirst = 3
  MinFixed = 3
  MaxFixed = 4
SPECIFICATION Spec
PROPERTY IdentityKept
