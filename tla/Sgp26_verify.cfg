SPECIFICATION Spec
CONSTANTS
  PUBLIC_KEY_LEN = 3
  OutOfRange = {2}
  Key <- MCKey
  Scalar <- MCScalar
  Multiple <- MCMultiple
  Published <- MCPublished
  ScalarOf <- MCScalarOf
  Message = {"m"}
  Fragile <- MCFragile
  Chars <- MCChars
  MaxMishaps = 1
INVARIANT VerifiedMaterialPairs
CHECK_DEADLOCK FALSE
