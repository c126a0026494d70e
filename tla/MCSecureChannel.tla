--------------------------- MODULE MCSecureChannel ---------------------------
(* An empty payload, whose ciphertext is all tag, and one that is not. *)
EXTENDS SecureChannel, TLC

MCPayload     == {"empty", "body"}
MCSize        == ("empty" :> 0) @@ ("body" :> 3)
MCLength      == {KEY_LEN, KEY_LEN - 1, 255 * SHA256_LEN + 1}
MCNonceLength == {NONCE_LEN, NONCE_LEN - 1}
MCMessage     == {[aad |-> "profile", plaintext |-> "empty"],
                  [aad |-> "record", plaintext |-> "body"]}
=============================================================================
