SPECIFICATION FairSpec
CONSTANTS
  Strings = {"", "home", "other", "long"}
  Empty = ""
  TooLong = {"long"}
  Overrun = Overrun
  Ports = {0, 1883, 8883}
  Bad = Bad
  Absent = Absent
  None = None
  NotJson = NotJson
  Default <- MCDefault
  DefaultPort = 1883
  Documents <- MCDocuments
  Actions = {"ON", "OFF?"}
  Joins <- MCJoins
  Brokers <- MCBrokers
  MaxInbox = 1
  MaxOutages = 0
  MaxFlashes = 0
PROPERTIES
  SerialAlwaysTaken
