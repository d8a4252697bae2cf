CONSTANTS
  Mod = 5
  Settings <- MCSettings
  Counts = {0, 1, 3}
SPECIFICATION Spec
INVARIANT TriggerAfterDelay
