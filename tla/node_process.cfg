CONSTANTS
  Client = {c1, c2}
  MaxWrites = 4
  MaxGets = 2
  MaxStarts = 2
  MaxDiskErrors = 1
SPECIFICATION Spec
CHECK_DEADLOCK FALSE
INVARIANTS
  TypeOK
  Durable
  GetFresh
