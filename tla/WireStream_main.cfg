SPECIFICATION FairSpec
CONSTANTS
  Base = 16
  TagMod = 4
  CMAC_LEN = 2
  TAG_SIGNATURE = 117
  MaxSent = 2
  Tlvs <- MCTlvs
  Raws <- MCRaws
INVARIANTS ReceivedIsPrefix MacInputsDiffer
PROPERTY AllReceived
CHECK_DEADLOCK FALSE
