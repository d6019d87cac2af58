CONSTANTS
  NoDevice = NoDevice
  NoMsg = NoMsg
  NoReply = NoReply
  Device = {d1}
  Coords <- TwoCities
  MaxClients = 2
  Period = 2
  MaxTime = 3
  Faults = {"lost", "reset", "crash"}
SPECIFICATION Spec
INVARIANTS OneRowPerMac DoneNotCounting CountsAtPriceOfRow
PROPERTIES UsedNeverDecreases
CHECK_DEADLOCK FALSE
