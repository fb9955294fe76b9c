CONSTANTS
  a = a
  b = b
  Node = {a, b}
  Key = {1, 2, 3}
  MaxWrites = 4
  keyOf <- Keys
  valueOf <- Values
  replicasOf <- Places
  Early = {1, 2}
  PeersPerRound = 2
  CrashSet = {b}
  MaxFails = 1
  MaxDeletes = 1
  Deletable = {3}
  MaxFaults = 1
SPECIFICATION BoundedSpec
CHECK_DEADLOCK FALSE
INVARIANTS
  TypeOK
  DiffExact
  NoRegress
  GoneStaysGone
PROPERTIES
  Converges
