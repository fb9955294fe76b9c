CONSTANTS
  hub = hub
  Sub = {hub}
  Type = {"put", "ring_state"}
  QueueCap = 2
  ChanCap = 1
  HistMax = 1
  MaxEvents = 3
  Client = {c1}
  Choices <- MCChoices
  SendCap = 2
  MaxTicks = 1
  MaxAsks = 1
SPECIFICATION FairSpec
CHECK_DEADLOCK FALSE
INVARIANTS
  TypeOK
  GreetedFirst
  GaugeCounts
  PanicOnlyAtStop
PROPERTIES
  ImplementsFeed
  ClientsLeave
