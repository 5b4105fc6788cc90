SPECIFICATION FairSpec
CONSTANTS
  Strings <- MCStrings
  Empty = ""
  Cut <- MCCut
  Ports <- MCPorts
  Bad = Bad
  Absent = Absent
  None = None
  Default <- MCDefault
  InitialStores <- FewStores
  Requests <- FewRequests
  Messages <- FewMessages
  NoBody = NoBody
  NotJson = NotJson
  NoRequest = NoRequest
  Joins <- MCJoins
  Brokers <- AllBrokers
  MaxAttempts = 2
  TimeoutTicks = 1
  DelayTicks = {1, 2}
  MaxInbox = 1
  MaxOutages = 1
INVARIANTS
  PromiseKept
  UpdateInv
PROPERTIES
  ImplementsStore
  HttpAnswered
  ResetHonoured
  PromiseApplied
