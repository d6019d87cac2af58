CONSTANTS
  Mac <- Boards
  Random <- Numbers
  Stack <- Zeroes
  Noise <- OneOrTwoBits
  MaxBad = 1
SPECIFICATION Spec
INVARIANTS SealedIsMultiple StoredAsPacked NobodyElsesRow
