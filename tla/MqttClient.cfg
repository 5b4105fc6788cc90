SPECIFICATION FairSpec
CONSTANTS
  Messages <- MCMessages
  NoMessage = NoMessage
  KeepAlive = 3
  SocketTimeout = 1
  LoopPeriod = 1
  IdLimit = 3
  Pieces = 2
  MaxQueue = 2
INVARIANTS
  TypeOK
  SocketFollowsState
PROPERTIES
  ImplementsSession
  NoFalseTimeout
  HungNoticed
