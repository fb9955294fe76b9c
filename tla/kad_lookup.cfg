CONSTANTS
  Bits = 3
  Node = {0, 3, 5, 6}
  First = 0
  Key = {4}
  K = 2
  Alpha = 2
  TTL = 0
  Clients = {0, 3}
  CrashSet = {5}
  MaxTime = 1
  MaxStores = 1
  MaxFinds = 1
  MaxRepublish = 1
  MaxLosses = 1
  Late = {6}
  MaxFaults = 1
SPECIFICATION DrivenSpec
CHECK_DEADLOCK FALSE
INVARIANTS
  TypeOK
  LookupExact
  FindSeesStore
  CopiesAgree
PROPERTIES
  OpsEnd
  SearchNears
