SPECIFICATION Spec
CONSTANTS
  tiny = tiny
  long = long
  huge = huge
  Bogus = Bogus
  Payload <- MCFittingPayload
  Size <- MCSize
  Tags <- MCTags
  Secret <- MCSecret
  KeyInput <- MCAgreed
  MaxBlocks = 3
  Disciplined = FALSE
INVARIANTS AcceptedIsPrefix NextBlockAccepted
