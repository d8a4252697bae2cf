CONSTANTS
  Words = 3
  Depth = 5
  MaxEvents = 3
SPECIFICATION Spec
INVARIANTS NoUnderflow Aligned EachEventOnce
