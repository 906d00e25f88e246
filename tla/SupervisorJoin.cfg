CONSTANTS
  n1 = n1
  n2 = n2
  b1 = b1
  b2 = b2
  v1 = v1
  v2 = v2
  Names = {n1, n2}
  Settings = {v1, v2}
  Bases = {b1, b2}
  None = None
  Bad = Bad
  Configs <- RestartConfigs
  Flag = None
  MaxEvents = 2
  UpdateCap = 2
SPECIFICATION FairSpec
PROPERTY JoinCompletes
CHECK_DEADLOCK FALSE
