CONSTANTS
  CfgBits = 3
  WordBits = 2
  NWords = 2
  Configs <- MCConfigs
  Intruder = FALSE
SPECIFICATION Spec
INVARIANT CheckedIsHeld
