SPECIFICATION Spec
CONSTANTS
  Strings <- MCStrings
  Empty = ""
  Cut <- MCCut
  Ports <- MCPorts
  Bad = Bad
  Absent = Absent
  None = None
  Default <- MCDefault
  InitialStores <- MCInitialStores
  Requests <- MCRequests
  NoBody = NoBody
  NotJson = NotJson
  NoRequest = NoRequest
  Joins <- MCJoins
  Brokers <- MCBrokers
  TimeoutTicks = 2
  MaxOutages = 0
INVARIANTS
  UpdatedIsStored
