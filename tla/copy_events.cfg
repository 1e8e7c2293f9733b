\* Two overlapping requests to the users service, one fetch; one of three names is too
\* long for the copy; the connection is lost, the process dies or a handler fails.
SPECIFICATION FairSpec
CONSTANTS
  Writers = {w1, w2}
  Readers = {r1}
  Names = {n1, n2, n3}
  TooLong = {n3}
  Tombstone = gone
  NoUser = NoUser
  NoEvent = NoEvent
  MaxWrites = 3
  MaxLost = 1
  MaxFails = 1
INVARIANTS
  TypeOK
  CopyIsLastWord
  FieldsWereTrue
PROPERTIES
  CatchesUp
CHECK_DEADLOCK FALSE
