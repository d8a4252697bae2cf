CONSTANTS
  CfgBits = 2
  DataBits = 3
  ChipLate = 0
  Words = 3
  Dwell <- MCDwell
  CntMod = 2
  EventMod = 3
  AckTimeout = 2
  Sources = {"tm_hit", "tm_ack"}
  TriggerEna = {"tm_hit"}
  Commands = {"set_config", "get_config", "force_fsm_idle", "rst_ev_count"}
  CutWords = 1
SPECIFICATION FairSpec
INVARIANTS Aligned PacketsWhole PacketsEndWhole PacketsNumbered ChipInMode
PROPERTIES LatchSetup AckedNotAborted UnackedNotSent
  ReturnsToIdle
