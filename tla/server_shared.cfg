CONSTANTS
  NoDevice = NoDevice
  NoMsg = NoMsg
  NoReply = NoReply
  Device = {d1, d2}
  Coords <- OneCity
  MaxClients = 2
  Period = 1
  MaxTime = 1
  Faults = {"lost", "dberr", "corrupt"}
SPECIFICATION Spec
INVARIANTS TypeOK MutexDiscipline
