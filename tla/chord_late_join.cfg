CONSTANTS
  Bits = 3
  Nodes = {0, 1, 2, 5, 6}
  First = 0
  Keys = {6}
  SuccessorListSize = 3
  CrashSet = {}
  KillSet = {}
  MaxTicks = 0
  MaxLosses = 0
  PutSet = {}
  Late = {6}
  Holders = {0, 1, 2, 5}
SPECIFICATION StableSpec
INVARIANTS
  JoinKeepsOrder
PROPERTIES
  LookupProgress
