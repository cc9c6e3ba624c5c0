\* Every document of a few lines, on its way to the site or elsewhere.
CONSTANTS
  MaxLines = 5
SPECIFICATION Spec
INVARIANTS
  TypeOK
  NoBlockLeaks
  PublishedExactly
  NoMarkerLeft
CHECK_DEADLOCK FALSE
