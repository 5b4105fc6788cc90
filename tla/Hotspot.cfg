SPECIFICATION FairSpec
CONSTANTS
  Strings <- MCStrings
  Empty = ""
  Cut <- MCCut
  Ports <- MCPorts
  Bad = Bad
  Absent = Absent
  None = None
  Default <- MCDefault
  Globals <- MCGlobals
  InitialStores <- MCHome
  Actions <- MCActions
  Messages <- MCMessages
  NotJson = NotJson
  NoRequest = NoRequest
  Joins <- MCJoins
  Brokers <- MCBrokers
  TimeoutTicks = 1
  MaxInbox = 1
  MaxOutages = 1
INVARIANTS
  TypeOK
  ReportTrue
  SaveInv
PROPERTIES
  ImplementsStore
  HttpAnswered
