-------------------------------- MODULE Ecdsa --------------------------------
(***************************************************************************)
(* ecdsa.rs on its two curves.  Signatures are perfect: every signature is *)
(* entered in a log and its octets are its number there, so it verifies    *)
(* exactly the message it was made for, under the key it was made with.    *)
(* Nothing in the octets says which curve they are for; that a P-256       *)
(* scalar may be out of range on the other curve is all they can show.     *)
(***************************************************************************)
EXTENDS Der

CONSTANTS
  Key,              \* public keys in use: [curve, point]
  PUBLIC_KEY_LEN,   \* octets of an uncompressed point
  OutOfRange        \* numbers of signatures whose scalars are large

VARIABLE signed     \* every signature made so far, in order: [key, message]

CurveKind == {"P256", "BrainpoolP256r1"}

\* Keys are uncompressed points.
ASSUME KeyAssumption ==
  /\ PUBLIC_KEY_LEN \in Nat \ {0}
  /\ Key \subseteq [curve : CurveKind, point : Seq(0 .. 255)]
  /\ \A key \in Key : Len(key.point) = PUBLIC_KEY_LEN /\ key.point[1] = 4

-----------------------------------------------------------------------------
(* Public keys *)

\* CurveKind::oid, up to the arcs that tell the curves apart.
CurveOid(curve) ==
  CASE curve = "P256" -> <<3, 1, 7>>
    [] curve = "BrainpoolP256r1" -> <<2, 8, 1, 7>>

\* PublicKey::from_bytes: what is not a point on the curve is not a key.
FromBytes(curve, bytes) ==
  IF Len(bytes) # PUBLIC_KEY_LEN \/ bytes[1] # 4 THEN Err("Malformed")
  ELSE IF [curve |-> curve, point |-> bytes] \notin Key THEN Err("Malformed")
  ELSE Ok([curve |-> curve, point |-> bytes])

-----------------------------------------------------------------------------
(* Signing.  A message is signed the same way every time. *)

IsSigned(log, key, message) ==
  \E n \in DOMAIN log : log[n] = [key |-> key, message |-> message]

Log(log, key, message) ==
  IF IsSigned(log, key, message) THEN log
  ELSE Append(log, [key |-> key, message |-> message])

Number(log, key, message) ==
  CHOOSE n \in DOMAIN log : log[n] = [key |-> key, message |-> message]

\* sign_der
SignatureDer(log, key, message) == <<SEQUENCE, 1, Number(log, key, message)>>

-----------------------------------------------------------------------------
(* Verifying *)

\* The order of brainpoolP256r1 is the smaller one, so only a signature made on
\* P-256 can be too large for the other curve.
TooLargeFor(curve, number) ==
  /\ curve = "BrainpoolP256r1"
  /\ number \in OutOfRange \cap DOMAIN signed
  /\ signed[number].key.curve = "P256"

\* CurveSignature::from_der
SignatureFromDer(curve, der) ==
  IF Len(der) # 3 \/ der[1] # SEQUENCE \/ der[2] # 1 \/ der[3] = 0 THEN Err("Malformed")
  ELSE IF TooLargeFor(curve, der[3]) THEN Err("Malformed")
  ELSE Ok([curve |-> curve, number |-> der[3]])

\* VerifyingKey::verify that takes any message the key has signed.
MessageBlindVerify(key, message, signature) ==
  IF key.curve # signature.curve THEN Err("Malformed")
  ELSE IF /\ signature.number \in DOMAIN signed
          /\ signed[signature.number].key = key
    THEN Ok("verified")
  ELSE Err("VerificationFailed")

\* VerifyingKey::verify
VerifySignature(key, message, signature) ==
  IF key.curve # signature.curve THEN Err("Malformed")
  ELSE IF /\ signature.number \in DOMAIN signed
          /\ signed[signature.number] = [key |-> key, message |-> message]
    THEN Ok("verified")
  ELSE Err("VerificationFailed")

\* PublicKey::verify_der: the octets are taken for a signature on the key's curve.
VerifyDer(key, message, der) ==
  IfOk(SignatureFromDer(key.curve, der), LAMBDA signature :
    VerifySignature(key, message, signature))
=============================================================================
