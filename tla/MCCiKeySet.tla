----------------------------- MODULE MCCiKeySet -----------------------------
(* Identifiers of up to two octets, the empty one included.  One certificate
   per key, and one that no key verifies. *)
EXTENDS CiKeySet

CONSTANTS k1, k2, byK1, byK2, byNobody

MCId == {<<>>, <<1>>, <<2>>, <<1, 1>>, <<1, 2>>}
MCKey == {k1, k2}
MCCert == {byK1, byK2, byNobody}
MCVerifies == {<<byK1, k1>>, <<byK2, k2>>}
=============================================================================
