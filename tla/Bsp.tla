--------------------------------- MODULE Bsp ---------------------------------
(***************************************************************************)
(* Protecting and unprotecting one command TLV (bsp.rs over cbc128.rs).    *)
(* Every operator is one call; the chaining value that the code updates in *)
(* place is part of what the call returns.                                 *)
(*                                                                         *)
(* The cryptography is symbolic.  A payload is a name with a size.  A      *)
(* carried field is either the payload in the clear or its encryption      *)
(* under a key and a block number.  A CMAC is known by what it was         *)
(* computed over: its chaining value extended with one entry, so the value *)
(* that a chain has reached is the seed it started from and the log of the *)
(* entries since.  Two CMACs are equal exactly when these agree, and the   *)
(* eight bytes that are carried are identified with the sixteen they are   *)
(* cut from.  What is MACed is a string of octets, so this takes for       *)
(* granted that two different triples of tag, length and field never spell *)
(* the same one: MacInputsUnambiguous of WireProofs.tla proves that of     *)
(* every tag that reads back as it was written.  (Of other tags it is not  *)
(* true, and the code does not refuse them.)                               *)
(***************************************************************************)
EXTENDS BspKeys

CONSTANTS
  Payload,   \* what callers ask to have protected
  Size,      \* the length of each payload in bytes
  Bogus      \* stands for any bytes that are not what was protected

ASSUME SizeAssumption == \A p \in Payload : Size[p] \in Nat
ASSUME BogusAssumption == Bogus \notin Payload

TAG_MAC_AND_ENCRYPT == 134     \* 0x86
TAG_MAC_ONLY        == 135     \* 0x87
CMAC_LEN            == 8
BLOCK_LEN           == 16
MAX_FINAL_LENGTH    == 65535   \* the two-byte long form of a length

Clear(plaintext) == [enc |-> FALSE, plain |-> plaintext]
Ciphered(key, number, plaintext) ==
  [enc |-> TRUE, key |-> key, number |-> number, plain |-> plaintext]

\* pad adds 1 to BLOCK_LEN bytes and ends on a block boundary.
PaddedLen(n) == n + (BLOCK_LEN - (n % BLOCK_LEN))

CarriedLen(data) ==
  IF data.enc THEN PaddedLen(Size[data.plain]) ELSE Size[data.plain]

\* "final length": what the TLV carries, the C-MAC included.
FinalLength(data) == CarriedLen(data) + CMAC_LEN

(* cbc128::encrypt and cbc128::decrypt *)

Encrypt(s_enc, plaintext, number) ==
  IF s_enc.len # BLOCK_LEN
    THEN Err("Malformed")
    ELSE Ok(Ciphered(s_enc, number, plaintext))

\* The outcomes decrypt may have.  A wrong block number is a wrong ICV: it
\* changes the first block and nothing after it, so the padding of a longer
\* field survives; in a field of one block, or under a wrong key, the padding
\* is garbled too and is found by chance or not.
Decrypt(s_enc, data, number) ==
  LET right == data.enc /\ data.key = s_enc
  IN  IF s_enc.len # BLOCK_LEN \/ CarriedLen(data) = 0 \/ (CarriedLen(data) % BLOCK_LEN) # 0
        THEN {Err("Malformed")}
      ELSE IF right /\ data.number = number
        THEN {Ok(data.plain)}
      ELSE IF right /\ CarriedLen(data) > BLOCK_LEN
        THEN {Ok(Bogus)}
      ELSE {Ok(Bogus), Err("Malformed")}

(* The MAC chain *)

InitialChain(keys) == [seed |-> keys.mac_chaining, log |-> <<>>]

\* The length of a chaining value: the derived one's, and a whole CMAC later.
ChainLen(chaining) == IF chaining.log = <<>> THEN chaining.seed.len ELSE KEY_LEN

MacEntry(s_mac, tag, finalLength, data) ==
  [key |-> s_mac, tag |-> tag, len |-> finalLength, data |-> data]

\* full_cmac over the first entry only: the chaining value is left out.
UnchainedFullCmac(s_mac, chaining, tag, finalLength, data) ==
  IF ChainLen(chaining) # KEY_LEN \/ s_mac.len # KEY_LEN \/ finalLength > MAX_FINAL_LENGTH
    THEN Err("Malformed")
    ELSE Ok([seed |-> chaining.seed, log |-> <<MacEntry(s_mac, tag, finalLength, data)>>])

\* full_cmac that encodes any length, as der_length would.
UnboundedFullCmac(s_mac, chaining, tag, finalLength, data) ==
  IF ChainLen(chaining) # KEY_LEN \/ s_mac.len # KEY_LEN
    THEN Err("Malformed")
    ELSE Ok([chaining EXCEPT !.log = Append(@, MacEntry(s_mac, tag, finalLength, data))])

\* full_cmac, and so cmac_over_chaining and compute_cmac.
FullCmac(s_mac, chaining, tag, finalLength, data) ==
  IF ChainLen(chaining) # KEY_LEN \/ s_mac.len # KEY_LEN \/ finalLength > MAX_FINAL_LENGTH
    THEN Err("Malformed")
    ELSE Ok([chaining EXCEPT !.log = Append(@, MacEntry(s_mac, tag, finalLength, data))])

(* Wrapping: Ok carries the TLV and the chaining value the call leaves. *)

Protected(tag, data, full) ==
  [tlv |-> [tag |-> tag, data |-> data, cmac |-> full], chaining |-> full]

WrapEncrypt(keys, tag, plaintext, number, chaining) ==
  LET ciphertext == Encrypt(keys.s_enc, plaintext, number)
      full == FullCmac(keys.s_mac, chaining, tag,
                       FinalLength(ciphertext.val), ciphertext.val)
  IN  IF ~ciphertext.ok THEN ciphertext
      ELSE IF ~full.ok THEN full
      ELSE Ok(Protected(tag, ciphertext.val, full.val))

\* wrap_mac_only that forgets to move the caller's chain.
UnadvancedWrapMacOnly(keys, tag, plaintext, chaining) ==
  LET data == Clear(plaintext)
      full == FullCmac(keys.s_mac, chaining, tag, FinalLength(data), data)
  IN  IF ~full.ok THEN full
      ELSE Ok([Protected(tag, data, full.val) EXCEPT !.chaining = chaining])

WrapMacOnly(keys, tag, plaintext, chaining) ==
  LET data == Clear(plaintext)
      full == FullCmac(keys.s_mac, chaining, tag, FinalLength(data), data)
  IN  IF ~full.ok THEN full
      ELSE Ok(Protected(tag, data, full.val))

(* Unwrapping: each outcome is what the call returns and the chaining value
   it leaves, which only a successful call moves. *)

Returns(res, chaining) == [res |-> res, chaining |-> chaining]

\* unwrap_encrypt that decrypts first and never looks at the C-MAC.
UncheckedUnwrapEncrypt(keys, tlv, number, chaining) ==
  LET full == FullCmac(keys.s_mac, chaining, tlv.tag, FinalLength(tlv.data), tlv.data)
  IN  IF ~full.ok THEN {Returns(full, chaining)}
      ELSE {Returns(r, IF r.ok THEN full.val ELSE chaining) :
              r \in Decrypt(keys.s_enc, tlv.data, number)}

\* unwrap_encrypt that moves the chain before it decrypts.
EagerUnwrapEncrypt(keys, tlv, number, chaining) ==
  LET full == FullCmac(keys.s_mac, chaining, tlv.tag, FinalLength(tlv.data), tlv.data)
  IN  IF ~full.ok THEN {Returns(full, chaining)}
      ELSE IF tlv.cmac # full.val THEN {Returns(Err("VerificationFailed"), chaining)}
      ELSE {Returns(r, full.val) : r \in Decrypt(keys.s_enc, tlv.data, number)}

UnwrapEncrypt(keys, tlv, number, chaining) ==
  LET full == FullCmac(keys.s_mac, chaining, tlv.tag, FinalLength(tlv.data), tlv.data)
  IN  IF ~full.ok THEN {Returns(full, chaining)}
      ELSE IF tlv.cmac # full.val THEN {Returns(Err("VerificationFailed"), chaining)}
      ELSE {Returns(r, IF r.ok THEN full.val ELSE chaining) :
              r \in Decrypt(keys.s_enc, tlv.data, number)}

\* unwrap_mac_only that forgets to move the caller's chain.
UnadvancedUnwrapMacOnly(keys, tlv, chaining) ==
  LET full == FullCmac(keys.s_mac, chaining, tlv.tag, FinalLength(tlv.data), tlv.data)
  IN  IF ~full.ok THEN {Returns(full, chaining)}
      ELSE IF tlv.cmac # full.val THEN {Returns(Err("VerificationFailed"), chaining)}
      ELSE {Returns(Ok(IF tlv.data.enc THEN Bogus ELSE tlv.data.plain), chaining)}

\* The carried field itself is returned: of an encrypted TLV, its ciphertext.
UnwrapMacOnly(keys, tlv, chaining) ==
  LET full == FullCmac(keys.s_mac, chaining, tlv.tag, FinalLength(tlv.data), tlv.data)
  IN  IF ~full.ok THEN {Returns(full, chaining)}
      ELSE IF tlv.cmac # full.val THEN {Returns(Err("VerificationFailed"), chaining)}
      ELSE {Returns(Ok(IF tlv.data.enc THEN Bogus ELSE tlv.data.plain), full.val)}
=============================================================================
