CONSTANTS
  Bits = 3
  Nodes = {0, 2, 3}
  First = 0
  Keys = {}
  SuccessorListSize = 2
  CrashSet = {}
  KillSet = {}
  MaxTicks = 0
  MaxLosses = 0
  PutSet = {}
SPECIFICATION FairSpec
INVARIANTS
  TypeOK
  SuccessorIsFinger0
  FounderKeepsItself
PROPERTIES
  JoinsEnd
  JoinersConverge
