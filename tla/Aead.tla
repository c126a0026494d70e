-------------------------------- MODULE Aead --------------------------------
(***************************************************************************)
(* aead.rs: AES-128-GCM.  A ciphertext is known by what it was made from   *)
(* and by how many octets of it there are, and it opens under what it was  *)
(* made with and under nothing else.  GCM keeps that promise only while no *)
(* nonce is used twice with one key, which is left to the caller.          *)
(***************************************************************************)
EXTENDS Results, Naturals

CONSTANTS
  Payload,   \* plaintexts
  Size       \* how many octets they have

ASSUME SizeAssumption == Size \in [Payload -> Nat]

KEY_LEN   == 16
NONCE_LEN == 12
TAG_LEN   == 16

\* Key::new that takes what it gets.
AnyNewKey(bytes) == Ok(bytes)

\* Key::new
NewKey(bytes) == IF bytes.len # KEY_LEN THEN Err("Malformed") ELSE Ok(bytes)

\* check_nonce
CheckNonce(nonce) == IF nonce.len # NONCE_LEN THEN Err("Malformed") ELSE Ok(nonce)

Ciphertext(key, nonce, aad, plaintext, len) ==
  [key |-> key, nonce |-> nonce, aad |-> aad, plaintext |-> plaintext, len |-> len]

\* Key::seal
Seal(key, nonce, aad, plaintext) ==
  IF ~CheckNonce(nonce).ok THEN CheckNonce(nonce)
  ELSE Ok(Ciphertext(key, nonce, aad, plaintext, Size[plaintext] + TAG_LEN))

\* The tag of a ciphertext that is all there is right.
Authentic(key, nonce, aad, ciphertext) ==
  ciphertext = Ciphertext(key, nonce, aad, ciphertext.plaintext,
                          Size[ciphertext.plaintext] + TAG_LEN)

\* Key::open that leaves the nonce out of the tag.
ReplayableOpen(key, nonce, aad, ciphertext) ==
  IF ~CheckNonce(nonce).ok THEN CheckNonce(nonce)
  ELSE IF ciphertext.len < TAG_LEN THEN Err("Malformed")
  ELSE IF Authentic(key, ciphertext.nonce, aad, ciphertext) THEN Ok(ciphertext.plaintext)
  ELSE Err("Crypto")

\* Key::open that takes a ciphertext that is all tag for one that is cut.
GreedyOpen(key, nonce, aad, ciphertext) ==
  IF ~CheckNonce(nonce).ok THEN CheckNonce(nonce)
  ELSE IF ciphertext.len <= TAG_LEN THEN Err("Malformed")
  ELSE IF Authentic(key, nonce, aad, ciphertext) THEN Ok(ciphertext.plaintext)
  ELSE Err("Crypto")

\* Key::open
Open(key, nonce, aad, ciphertext) ==
  IF ~CheckNonce(nonce).ok THEN CheckNonce(nonce)
  ELSE IF ciphertext.len < TAG_LEN THEN Err("Malformed")
  ELSE IF Authentic(key, nonce, aad, ciphertext) THEN Ok(ciphertext.plaintext)
  ELSE Err("Crypto")
=============================================================================
