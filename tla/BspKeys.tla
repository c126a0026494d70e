------------------------------- MODULE BspKeys -------------------------------
(***************************************************************************)
(* Derivation of the BSP session keys (bsp_keys.rs, x963.rs).              *)
(*                                                                         *)
(* The hash is symbolic: a run of derived bytes is known by the shared     *)
(* secret, the SharedInfo and the positions it is cut from, and two runs   *)
(* are the same bytes exactly when all of these agree.  SharedInfo itself  *)
(* is the real byte string, because the one thing that could go wrong with *)
(* it is that two different sessions build the same bytes.  (What is       *)
(* hashed is the secret, a counter and SharedInfo, one after the other:    *)
(* secrets are taken to be of one length, as those of ecdh.rs are.)        *)
(***************************************************************************)
EXTENDS Results, Integers, Sequences

KEY_LEN        == 16    \* L of SGP.22 Table 4c
SHA256_LEN     == 32
MAX_ITERATIONS == 9     \* hash blocks x963_kdf agrees to produce
MAX_LV         == 255   \* what one octet can say, a length prefix for one

SessionKeys == 1        \* BspKeyType
ProfileKeys == 2

Byte == 0 .. MAX_LV

\* What derive is called with.
DeriveArguments(Secret) ==
  [secret : Secret, keyType : {SessionKeys, ProfileKeys}, keyLength : Byte,
   hostId : Seq(Byte), eid : Seq(Byte)]

\* KeyType || KeyLength || HostID-LV || EID-LV without the length octets.
UnprefixedSharedInfo(keyType, keyLength, hostId, eid) ==
  Ok(<<keyType, keyLength>> \o hostId \o eid)

\* bsp_shared_info: KeyType || KeyLength || HostID-LV || EID-LV.
SharedInfo(keyType, keyLength, hostId, eid) ==
  IF Len(hostId) > MAX_LV \/ Len(eid) > MAX_LV
    THEN Err("Malformed")
    ELSE Ok(   <<keyType, keyLength>>
            \o <<Len(hostId)>> \o hostId
            \o <<Len(eid)>> \o eid)

\* The number of hash blocks that len bytes take.
HashBlocks(len) == (len + SHA256_LEN - 1) \div SHA256_LEN

\* x963_kdf: the first len bytes of Hash(Z || 1 || info) || Hash(Z || 2 || info) ...
X963Kdf(secret, info, len) ==
  IF len = 0 \/ HashBlocks(len) > MAX_ITERATIONS
    THEN Err("Malformed")
    ELSE Ok([secret |-> secret, info |-> info, len |-> len])

\* The len bytes of key data kd that follow its first `from`.
KeyBytes(kd, from, len) ==
  [secret |-> kd.secret, info |-> kd.info, from |-> from, len |-> len]

\* One of the three runs of bytes that key data is split into.
KeyMaterial(Secret) == [secret : Secret, info : Seq(Byte), from : Nat, len : Nat]

\* BspSessionKeys.
KeyRecords(Secret) ==
  [mac_chaining : KeyMaterial(Secret), s_enc : KeyMaterial(Secret), s_mac : KeyMaterial(Secret)]

\* from_key_data with the cipher key and the MAC key cut from the same bytes.
OverlappingFromKeyData(kd, keyLen) ==
  IF kd.len < 3 * keyLen
    THEN Err("Malformed")
    ELSE Ok([mac_chaining |-> KeyBytes(kd, 0, keyLen),
             s_enc        |-> KeyBytes(kd, keyLen, keyLen),
             s_mac        |-> KeyBytes(kd, keyLen, keyLen)])

\* from_key_data: the chaining value first, then S-ENC, then S-MAC.
FromKeyData(kd, keyLen) ==
  IF kd.len < 3 * keyLen
    THEN Err("Malformed")
    ELSE Ok([mac_chaining |-> KeyBytes(kd, 0, keyLen),
             s_enc        |-> KeyBytes(kd, keyLen, keyLen),
             s_mac        |-> KeyBytes(kd, 2 * keyLen, keyLen)])

\* derive, for the record of its five arguments.
Derive(in) ==
  LET info == SharedInfo(in.keyType, in.keyLength, in.hostId, in.eid)
      kd   == X963Kdf(in.secret, info.val, 3 * in.keyLength)
  IN  IF ~info.ok THEN info
      ELSE IF ~kd.ok THEN kd
      ELSE FromKeyData(kd.val, in.keyLength)

\* is_well_formed: three keys of KEY_LEN bytes, no two the same.
IsWellFormed(keys) ==
  /\ keys.mac_chaining.len = KEY_LEN
  /\ keys.s_enc.len = KEY_LEN
  /\ keys.s_mac.len = KEY_LEN
  /\ keys.mac_chaining # keys.s_enc
  /\ keys.s_enc # keys.s_mac
  /\ keys.mac_chaining # keys.s_mac
=============================================================================
