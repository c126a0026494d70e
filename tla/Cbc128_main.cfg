SPECIFICATION Spec
CONSTANTS
  Base = 4
  Marker = 2
  BLOCK_LEN = 2
  Key = {1, 2}
  BadKey = {0}
  MaxNumber = 3
  MaxLen = 4
  Aes <- MCAes
  Xor <- MCXor
INVARIANTS RoundTrip StripsMarkerAndZeroes WrongNumberGarblesFirstBlock
CHECK_DEADLOCK FALSE
