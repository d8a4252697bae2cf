CONSTANTS
  c1 = c1
  c2 = c2
  Chips = {c1, c2}
  IdBits = 2
  Ratio = 2
  ReadyCycles = 2
  MinBusy = 4
  MinAcq = 13
  MinTail = 4
  NewIds <- MCNewIds
SPECIFICATION Spec
SYMMETRY Symm
INVARIANTS IdsAgree IdsDiffer GoArmed
