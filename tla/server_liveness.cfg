CONSTANTS
  NoDevice = NoDevice
  NoMsg = NoMsg
  NoReply = NoReply
  Device = {d1}
  Coords <- OneCity
  MaxClients = 2
  Period = 1
  MaxTime = 1
  Faults = {"lost", "overlap"}
SPECIFICATION FairSpec
PROPERTIES LossHandled StartAnswered PaidRowRemoved
