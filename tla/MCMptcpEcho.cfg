\* Two values of a char are enough to tell a byte from its successor.
CONSTANTS
  a = a
  b = b
  c3 = c3
  Client = {a, b, c3}
  Chars = 2
  FdSetSize = 7
SPECIFICATION FairSpec
INVARIANTS
  TypeOK
  NobodyDropped
  OneInFlight
  ServerUp
PROPERTIES
  Answered
  Reaped
CHECK_DEADLOCK FALSE
