-------------------------------- MODULE Ecdh --------------------------------
(***************************************************************************)
(* ecdh.rs: key agreement on P-256.  Key pairs are numbered as they are    *)
(* generated.  A public point is what a peer may send for one: so many     *)
(* octets, a first octet, an X coordinate, known by the number of the key  *)
(* that has it, and which of the two points with that X coordinate it is.  *)
(***************************************************************************)
EXTENDS Results, Naturals

SHARED_SECRET_LEN == 32
PUBLIC_KEY_LEN    == 65

\* An X coordinate of no point on the curve.
NO_POINT == 0

Point(len, head, x, odd) == [len |-> len, head |-> head, x |-> x, odd |-> odd]

\* EphemeralKey::public_key
PublicKey(id) == Point(PUBLIC_KEY_LEN, 4, id, FALSE)

\* EphemeralKey::agree on the whole point.
WholePointAgree(id, peer) ==
  IF peer.len # PUBLIC_KEY_LEN \/ peer.head # 4 THEN Err("Malformed")
  ELSE IF peer.x = NO_POINT THEN Err("Crypto")
  ELSE Ok(IF peer.odd THEN {id, peer.x, NO_POINT} ELSE {id, peer.x})

\* EphemeralKey::agree, up to the key it consumes.  The secret is the X
\* coordinate alone, which a point and its negative have in common: whichever of
\* the two a peer sends, it is the one secret of the two keys.
Agree(id, peer) ==
  IF peer.len # PUBLIC_KEY_LEN \/ peer.head # 4 THEN Err("Malformed")
  ELSE IF peer.x = NO_POINT THEN Err("Crypto")
  ELSE Ok({id, peer.x})
=============================================================================
