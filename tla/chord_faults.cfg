CONSTANTS
  Bits = 3
  Nodes = {0, 2, 5}
  First = 0
  Keys = {}
  SuccessorListSize = 3
  CrashSet = {5}
  KillSet = {}
  MaxTicks = 0
  MaxLosses = 3
  PutSet = {}
  Late = {}
  Holders = {}
SPECIFICATION StableFairSpec
ACTION_CONSTRAINT OneKindOfFault
INVARIANTS
  SuccessorIsFinger0
  PredNotSelf
PROPERTIES
  JoinersConverge
