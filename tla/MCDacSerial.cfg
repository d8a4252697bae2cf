CONSTANTS
  a = a
  b = b
  Dacs = {a, b}
  Bits = 3
  Common = 2
  Words <- MCWords
  Delays = {0, 1, 3}
  Sleep = 30
SPECIFICATION Spec
INVARIANT CountsSet
PROPERTY OnlyAsked
