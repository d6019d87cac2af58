CONSTANTS
  NoDevice = NoDevice
  NoMsg = NoMsg
  NoReply = NoReply
  Device = {d1}
  Coords <- OneCity
  MaxClients = 2
  Period = 2
  MaxTime = 3
  Faults = {"lost", "reset", "crash"}
SPECIFICATION MeterSpec
INVARIANTS BackupFresh ChargedOnce
PROPERTIES ImplementsMeter
CHECK_DEADLOCK FALSE
