CONSTANTS
  Unknown = {0, 4}
  Settled = FALSE
  Faults = {"eth", "rng", "transmit", "receive", "noise", "flush", "short"}
  ClientFaults = {"silent", "short", "broken", "refused"}
SPECIFICATION FairDeviceSpec
INVARIANTS TypeOK DeafOnlyIfSpoilt EchoesTheRequest AsksForNext
PROPERTIES ImplementsClient ImplementsSettled Answered DeadControllerNoticed
