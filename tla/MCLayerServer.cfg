CONSTANTS
  c1 = c1
  c2 = c2
  None = None
  All = All
  Junk = Junk
  Absent = Absent
  MaxQueue = 2
  NVata = 2
  TmHit = 2
  TmAck = 3
  Forced = 4
  MaskLen = 5
  Width = 6
  Half = 2
  MaxInput = 2
  MaxDelay = 2
  PulseWidth = 1
  RepeatDelay = 1
  Sessions <- MCSessions
SPECIFICATION FairSpec
INVARIANTS FlagAgrees EachAnsweredOnce SettingsInStep
  AnsweredIsDone CountersClose
PROPERTIES AloneAsAsked NobodyElses Answered HaltEnds StartTakesEffect
