CONSTANTS
  Faults = {"error"}
SPECIFICATION Spec
INVARIANTS ConnectedMeansLocated
