CONSTANTS
  Client = {c1, c2}
  Protocol = {"chord", "kademlia"}
  Default = "kademlia"
  MaxPort = 4
  Requests <- Menu
  MaxRequests = 2
  MaxJoinFailures = 1
SPECIFICATION Spec
CHECK_DEADLOCK FALSE
SYMMETRY Perms
INVARIANTS
  TypeOK
  ListedRun
  Consistent
  OneNetwork
