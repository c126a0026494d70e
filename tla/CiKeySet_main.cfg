SPECIFICATION Spec
CONSTANTS
  k1 = k1
  k2 = k2
  byK1 = byK1
  byK2 = byK2
  byNobody = byNobody
  Id <- MCId
  Key <- MCKey
  Cert <- MCCert
  Verifies <- MCVerifies
  MaxKeys = 3
INVARIANTS TypeOK AcceptanceStands TruncationHarmless OrderIrrelevant
PROPERTY OutcomesOnlyImprove
