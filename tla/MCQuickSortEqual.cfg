\* Two elements may be equal.
CONSTANTS
  Element = {1, 2}
  Length = 3
SPECIFICATION Spec
PROPERTY Ends
CHECK_DEADLOCK FALSE
