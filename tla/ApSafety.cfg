SPECIFICATION Spec
CONSTANTS
  Strings <- MCStrings
  Empty = ""
  Cut <- MCCut
  Ports <- MCPorts
  Bad = Bad
  Absent = Absent
  None = None
  Default <- MCDefault
  InitialStores <- MCInitialStores
  Requests <- MCRequests
  Messages <- MCMessages
  NoBody = NoBody
  NotJson = NotJson
  NoRequest = NoRequest
  Joins <- MCJoins
  Brokers <- MCBrokers
  MaxAttempts = 3
  TimeoutTicks = 4
  DelayTicks = {1, 2}
  MaxInbox = 1
  MaxOutages = 0
INVARIANTS
  TypeOK
  RamMirrorsFlash
  SessionUsesConfig
  SubscribedWhenServing
  ReportTrue
  WayIn
PROPERTIES
  NeverStranded
