SPECIFICATION FairSpec
CONSTANTS
  Payload <- MCPayload
  Size <- MCSize
  Message <- MCMessage
  Salt = {"s"}
  Length <- MCLength
  NonceLength <- MCNonceLength
  MaxKeys = 4
  MaxRecords = 2
INVARIANTS TypeOK NonceUsedOnce KeysMatch
PROPERTIES DeliversInOrder AllOpened
CHECK_DEADLOCK FALSE
