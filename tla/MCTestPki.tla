------------------------------ MODULE MCTestPki ------------------------------
(* A chain on each curve, and a key that certificates are asked for on each.
   Two files of another authority: one whose names both have a serialNumber,
   and one on a curve that is not supported.  One entity is so long that its
   extension needs a long length. *)
EXTENDS TestPki

P(n) == [curve |-> "P256", point |-> <<4, n>>]
B(n) == [curve |-> "BrainpoolP256r1", point |-> <<4, n>>]

MCPkiA == [ci |-> P(1), eum |-> P(2), euicc |-> P(3), dp_pb |-> P(200)]
MCPkiB == [ci |-> B(11), eum |-> B(12), euicc |-> B(13), dp_pb |-> B(14)]
MCPki  == {MCPkiA, MCPkiB}
MCKey  == {P(n) : n \in {1, 2, 3, 200, 21, 30, 31}} \cup {B(n) : n \in {11, 12, 13, 14, 22}}
MCSubject == {P(21), B(22)}
MCSan  == {<<131, 55, 105>>, [i \in 1 .. 124 |-> 1]}
MCRole == {OID_RSP_ROLE_DP_SUB_CA, OID_RSP_ROLE_DS_AUTH_V2}

Serial(value) == Attribute(<<85, 4, 5>>, PRINTABLE, value)

PublishedEuicc ==
  [issuerName |-> <<CommonName(<<7>>), Serial(<<49>>)>>,
   subjectName |-> <<CommonName(<<8>>), Serial(<<56, 57>>)>>,
   curveOid |-> CurveOid("P256"), point |-> P(31).point, issuer |-> P(30),
   san |-> None, role |-> Some(OID_RSP_ROLE_EUICC_V2), ski |-> Some(Fingerprint(P(31)))]

PublishedInvCurve ==
  [issuerName |-> <<CommonName(<<7>>)>>, subjectName |-> <<CommonName(<<9>>)>>,
   curveOid |-> <<3, 1, 1>>, point |-> <<4, 33>>, issuer |-> P(30),
   san |-> Some(CI_SAN_OID), role |-> Some(OID_RSP_ROLE_DS_AUTH), ski |-> None]

MCForeign == {PublishedEuicc, PublishedInvCurve}
MCFragile ==
  ToSet(Chain(MCPkiA)) \cup
  {PublishedEuicc, Request(<<6>>, P(2), P(1), None, Some(OID_RSP_ROLE_DP_PB))}
MCDamage == {0, 1, 2, 3, 4, 6, 48, 127, 128, 130, 160, 255}
MCOutOfRange == {1, 2, 6}
=============================================================================
