SPECIFICATION FairSpec
CONSTANTS
  s1 = s1
  s2 = s2
  c1 = c1
  c2 = c2
  ci = ci
  other = other
  Server <- MCServer
  Card <- MCCard
  Ci <- MCCi
  Id <- MCId
  Certificate <- MCCertificate
  Address <- MCAddress
  Tid <- MCTid
  Challenge <- MCChallenge
  MaxKeys = 2
  MaxSessions = 2
INVARIANTS TypeOK AcceptedWasSigned
PROPERTIES ImplementsAuthentication TrustedExchangeFinishes
CHECK_DEADLOCK FALSE
