CONSTANTS
  control = control
  config = config
  counter = counter
  Control = control
  Plain = {config}
  Hardware = {counter}
  Data = {0, 1}
  NTriggers = 1
  None = None
SPECIFICATION AxiSpec
INVARIANTS EachWriteAnswered WritesTakeEffect ReadIsCurrent
