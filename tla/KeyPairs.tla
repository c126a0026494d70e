------------------------------- MODULE KeyPairs -------------------------------
(***************************************************************************)
(* The other half of ecdsa.rs: private keys, raw signatures and PKCS#8.    *)
(* A scalar and each half of a raw signature are one octet; the halves of  *)
(* a signature are both its number.                                        *)
(***************************************************************************)
EXTENDS Ecdsa, Functions

CONSTANTS
  Scalar,      \* private scalars
  Multiple     \* the point that a scalar makes on a curve

SCALAR_LEN    == 1
SIGNATURE_LEN == 2 * SCALAR_LEN

KeyPair == [curve : CurveKind, scalar : Scalar]

ASSUME MultipleAssumption ==
  \A pair \in KeyPair : [curve |-> pair.curve, point |-> Multiple[pair.curve, pair.scalar]] \in Key

\* KeyPair::public_key
PublicKeyOf(pair) == [curve |-> pair.curve, point |-> Multiple[pair.curve, pair.scalar]]

-----------------------------------------------------------------------------
(* Raw signatures *)

\* KeyPair::sign, of a message that is in the log.
Sign(log, pair, message) ==
  LET n == Number(log, PublicKeyOf(pair), message)
  IN  [curve |-> pair.curve, bytes |-> <<n, n>>]

\* CurveSignature::from_slice: a scalar is neither zero nor beyond the order.
SignatureFromSlice(curve, raw) ==
  IF Len(raw) # SIGNATURE_LEN \/ 0 \in Range(raw) \/ raw[1] # raw[2] THEN Err("Malformed")
  ELSE IF TooLargeFor(curve, raw[1]) THEN Err("Malformed")
  ELSE Ok([curve |-> curve, number |-> raw[1]])

\* Signature::from_raw
FromRaw(curve, bytes) ==
  IfOk(SignatureFromSlice(curve, bytes), LAMBDA s : Ok([curve |-> curve, bytes |-> bytes]))

\* Signature::try_to_der
TryToDer(signature) ==
  IfOk(SignatureFromSlice(signature.curve, signature.bytes), LAMBDA s :
    Ok(<<SEQUENCE, 1, s.number>>))

\* PublicKey::verify: like verify_der it goes by the curve of the key.
VerifyRaw(key, message, raw) ==
  IfOk(SignatureFromSlice(key.curve, raw), LAMBDA s : VerifySignature(key, message, s))

-----------------------------------------------------------------------------
(* Private keys in DER.  A value has one DER, so a reader takes what the   *)
(* writer would write; what is optional may be there or not.               *)

PARAMETERS    == 160     \* [0] in an ECPrivateKey
PUBLIC        == 161     \* [1] in an ECPrivateKey
ALGORITHM_OID == <<2, 1>>

\* An ECPrivateKey (SEC1): with its curve named or not, its public key or not.
Sec1(pair, named, public) ==
  Tlv(SEQUENCE,
      Tlv(INTEGER, <<1>>) \o Tlv(OCTETS, <<pair.scalar>>) \o
      (IF named THEN Tlv(PARAMETERS, Tlv(OID, CurveOid(pair.curve))) ELSE <<>>) \o
      (IF public THEN Tlv(PUBLIC, Tlv(BIT_STRING, <<0>> \o PublicKeyOf(pair).point)) ELSE <<>>))

\* A PrivateKeyInfo (PKCS#8) around one.
Pkcs8(curve, sec1) ==
  Tlv(SEQUENCE,
      Tlv(INTEGER, <<0>>) \o
      Tlv(SEQUENCE, Tlv(OID, ALGORITHM_OID) \o Tlv(OID, CurveOid(curve))) \o
      Tlv(OCTETS, sec1))

\* KeyPair::to_pkcs8_checked: the public key goes with it, the curve is named outside.
ToPkcs8(pair) == Pkcs8(pair.curve, Sec1(pair, FALSE, TRUE))

\* The key pair on a curve whose PKCS#8 der is: both curves named in it must be that
\* one, and the public key in it the private key's own.
Pkcs8Pairs(curve, der) ==
  {pair \in [curve : {curve}, scalar : Scalar \cap Range(der)] :
     \E named, public \in BOOLEAN : der = Pkcs8(curve, Sec1(pair, named, public))}

\* KeyPair::from_pkcs8 that takes the key for one on the curve that is the default.
DefaultFromPkcs8(curve, der) ==
  LET pairs == Pkcs8Pairs(curve, der)
  IN  IF pairs = {} THEN Err("Malformed")
      ELSE Ok([(CHOOSE pair \in pairs : TRUE) EXCEPT !.curve = "P256"])

\* KeyPair::from_pkcs8
FromPkcs8(curve, der) ==
  LET pairs == Pkcs8Pairs(curve, der)
  IN  IF pairs = {} THEN Err("Malformed") ELSE Ok(CHOOSE pair \in pairs : TRUE)
=============================================================================
