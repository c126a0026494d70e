SPECIFICATION FairSpec
CONSTANTS
  tiny = tiny
  long = long
  huge = huge
  Bogus = Bogus
  Payload <- MCPayload
  Size <- MCSize
  Tags <- MCTags
  Secret <- MCSecret
  KeyInput <- MCDisputed
  MaxBlocks = 3
  Disciplined = TRUE
INVARIANTS TypeOK DeliveredIsPrefix MismatchDeliversNothing ProtectedUnderGoodKeys
PROPERTIES DeliversInOrder AllDelivered
