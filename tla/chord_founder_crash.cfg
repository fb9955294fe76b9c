CONSTANTS
  Bits = 3
  Nodes = {0, 2}
  First = 0
  Keys = {}
  SuccessorListSize = 2
  CrashSet = {0}
  KillSet = {}
  MaxTicks = 1
  MaxLosses = 1
  PutSet = {}
SPECIFICATION FairSpec
CHECK_DEADLOCK FALSE
PROPERTIES
  JoinsEnd
