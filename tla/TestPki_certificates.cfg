SPECIFICATION Spec
CONSTANTS
  PUBLIC_KEY_LEN = 2
  MaxIssued = 1
  Key <- MCKey
  OutOfRange <- MCOutOfRange
  Pki <- MCPki
  Subject <- MCSubject
  San <- MCSan
  Role <- MCRole
  Foreign <- MCForeign
  Damage <- MCDamage
  Fragile <- MCFragile
INVARIANTS TypeOK KeyAsIssued SubjectAsIssued VerifiesUnderIssuerOnly CutIsRefused
INVARIANTS VerifiedMeansIssued VerifiedKeyWasIssued CurveReadersAgree
