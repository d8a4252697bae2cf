CONSTANTS
  CfgBits = 3
  WordBits = 2
  NWords = 2
  Configs <- MCConfigs
  Intruder = TRUE
SPECIFICATION Spec
INVARIANTS ReadbackKeeps ReadbackTrue SetTakes
