SPECIFICATION Spec
CONSTANTS
  Messages <- MCMessages
  NoMessage = NoMessage
  KeepAlive = 3
  SocketTimeout = 1
  LoopPeriod = 1
  IdLimit = 3
  Pieces = 2
  MaxQueue = 3
PROPERTIES
  NoFalseTimeout
