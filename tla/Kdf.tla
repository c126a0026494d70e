--------------------------------- MODULE Kdf ---------------------------------
(***************************************************************************)
(* The expansion of kdf.rs.  The hash is symbolic: different inputs give   *)
(* different octets.                                                       *)
(***************************************************************************)
EXTENDS Results, Naturals

SHA256_LEN == 32

\* hkdf_sha256 and hkdf_sha256_vec, which differ in their types only.  HKDF
\* expands to at most 255 hashes.
HkdfSha256(secret, salt, info, len) ==
  IF len > 255 * SHA256_LEN THEN Err("Crypto")
  ELSE Ok([secret |-> secret, salt |-> salt, info |-> info, len |-> len])
=============================================================================
