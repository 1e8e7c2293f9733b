CONSTANTS
  Writers = {w1, w2}
  Readers = {r1}
  Names = {n1, n2}
  TooLong = {}
  Tombstone = gone
  NoUser = NoUser
  NoEvent = NoEvent
  MaxWrites = 3
  MaxLost = 0
  MaxFails = 0
SPECIFICATION Spec
CHECK_DEADLOCK FALSE


INVARIANTS ErasureReachesCopy
