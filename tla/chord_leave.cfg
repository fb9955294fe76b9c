CONSTANTS
  Bits = 3
  Nodes = {0, 2, 5}
  First = 0
  Keys = {1}
  SuccessorListSize = 3
  CrashSet = {}
  KillSet = {5}
  MaxTicks = 0
  MaxLosses = 0
  PutSet = {2, 5}
  Late = {}
  Holders = {}
SPECIFICATION StableSpec
INVARIANTS
  KeysSurvive
PROPERTIES
  StableIsFixpoint
