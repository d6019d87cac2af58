CONSTANTS
  NoDevice = NoDevice
  NoMsg = NoMsg
  NoReply = NoReply
  Device = {d1}
  Coords <- OneCity
  MaxClients = 2
  Period = 2
  MaxTime = 1
  Faults = {"corrupt"}
SPECIFICATION Spec
INVARIANTS DoneNotCounting
