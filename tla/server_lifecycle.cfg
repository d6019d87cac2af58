CONSTANTS
  NoDevice = NoDevice
  NoMsg = NoMsg
  NoReply = NoReply
  Device = {d1}
  Coords <- OneCity
  MaxClients = 2
  Period = 2
  MaxTime = 2
  Faults = {"reset"}
  MainFaults = {"accept"}
SPECIFICATION FairLifeSpec
INVARIANTS FinalTimeSaved
PROPERTIES ShutDownEnds
