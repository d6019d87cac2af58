CONSTANTS
  Faults = {"noise", "silent", "short", "broken", "refused", "error", "down"}
SPECIFICATION FairSpec
INVARIANTS TypeOK NoSecondParking InStep
PROPERTIES PressHandled
