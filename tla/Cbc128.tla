------------------------------- MODULE Cbc128 -------------------------------
(***************************************************************************)
(* AES-CBC-128 with the padding and the ICV that BSP wants (cbc128.rs),    *)
(* byte by byte, over any block cipher.  The block length, the range of a  *)
(* byte and the cipher are parameters, so that TLC can look at every short *)
(* plaintext; the program's are 16, 256 and AES.                           *)
(*                                                                         *)
(* Bsp.tla treats decryption symbolically.  This module is what says that  *)
(* the outcomes it allows for a wrong block number are the right ones.     *)
(***************************************************************************)
EXTENDS Results, Integers, Sequences, Functions

CONSTANTS
  Base,        \* a byte is one of 0 .. Base - 1
  Marker,      \* 0x80
  BLOCK_LEN,
  Key,         \* what aes_key accepts: keys of the right length
  BadKey,      \* and what it does not
  Aes,         \* for each key, the permutation of blocks that it selects
  Xor(_, _),   \* exclusive or of two bytes
  MaxNumber,   \* bound: block numbers that callers use
  MaxLen       \* bound: length of plaintexts and of made-up ciphertexts

Octet == 0 .. Base - 1
Block == [1 .. BLOCK_LEN -> Octet]

ASSUME BlockAssumption == BLOCK_LEN \in Nat \ {0}
ASSUME OctetAssumption == Base \in Nat /\ Marker \in Octet /\ Marker # 0
ASSUME KeyAssumption == Key \cap BadKey = {}
ASSUME CipherAssumption == \A k \in Key : Aes[k] \in Bijection(Block, Block)
ASSUME XorAssumption ==
  \A a, b \in Octet :
    Xor(a, b) \in Octet /\ Xor(a, b) = Xor(b, a) /\ Xor(Xor(a, b), b) = a

-----------------------------------------------------------------------------
(* Padding *)

\* The padding of n bytes: the marker and zeroes.
Padding(n) == [i \in 1 .. n |-> IF i = 1 THEN Marker ELSE 0]

\* pad that leaves data alone when it already fills its last block.
LazyPad(data) == data \o Padding((BLOCK_LEN - (Len(data) % BLOCK_LEN)) % BLOCK_LEN)

\* pad: at least one byte, up to the next block boundary.
Pad(data) == data \o Padding(BLOCK_LEN - (Len(data) % BLOCK_LEN))

IsMarked(padded) == \E i \in 1 .. Len(padded) : padded[i] = Marker

\* rposition: where the last marker is.
LastMarker(padded) ==
  CHOOSE i \in 1 .. Len(padded) :
    padded[i] = Marker /\ \A j \in i + 1 .. Len(padded) : padded[j] # Marker

\* unpad that does not look at what follows the marker.
TrustingUnpad(padded) ==
  IF padded = <<>> \/ Len(padded) % BLOCK_LEN # 0 \/ ~IsMarked(padded)
    THEN Err("Malformed")
    ELSE Ok(SubSeq(padded, 1, LastMarker(padded) - 1))

Unpad(padded) ==
  IF \/ padded = <<>>
     \/ Len(padded) % BLOCK_LEN # 0
     \/ ~IsMarked(padded)
     \/ \E j \in LastMarker(padded) + 1 .. Len(padded) : padded[j] # 0
    THEN Err("Malformed")
    ELSE Ok(SubSeq(padded, 1, LastMarker(padded) - 1))

-----------------------------------------------------------------------------
(* Cipher block chaining *)

XorBlock(a, b) == [i \in 1 .. BLOCK_LEN |-> Xor(a[i], b[i])]

\* The number, big-endian, left-padded with zeroes to a block.
NumberBlock(n) == [i \in 1 .. BLOCK_LEN |-> (n \div Base ^ (BLOCK_LEN - i)) % Base]

\* A u32 fits a block, so that different numbers are different blocks.
ASSUME NumberAssumption ==
  \A m, n \in 1 .. MaxNumber :
    NumberBlock(m) \in Block /\ (NumberBlock(m) = NumberBlock(n) => m = n)

\* icv that leaves the block number out.
ConstantIcv(key, number) == Aes[key][NumberBlock(0)]

\* icv: the number encrypted under the key.
Icv(key, number) == Aes[key][NumberBlock(number)]

BlockCount(s) == Len(s) \div BLOCK_LEN
BlockAt(s, j) == SubSeq(s, (j - 1) * BLOCK_LEN + 1, j * BLOCK_LEN)

\* The bytes of n blocks, one after the other.
Joined(block, n) ==
  [i \in 1 .. n * BLOCK_LEN |->
     block[((i - 1) \div BLOCK_LEN) + 1][((i - 1) % BLOCK_LEN) + 1]]

\* Each block is combined with the ciphertext of the one before it, the first
\* with the ICV.
CbcEncrypt(key, iv, padded) ==
  LET cipher[j \in 0 .. BlockCount(padded)] ==
        IF j = 0 THEN iv ELSE Aes[key][XorBlock(BlockAt(padded, j), cipher[j - 1])]
  IN  Joined(cipher, BlockCount(padded))

CbcDecrypt(key, iv, bytes) ==
  LET before(j) == IF j = 1 THEN iv ELSE BlockAt(bytes, j - 1)
      plain == [j \in 1 .. BlockCount(bytes) |->
                  XorBlock(Inverse(Aes[key], Block, Block)[BlockAt(bytes, j)], before(j))]
  IN  Joined(plain, BlockCount(bytes))

Encrypt(key, plaintext, number) ==
  IF key \notin Key
    THEN Err("Malformed")
    ELSE Ok(CbcEncrypt(key, Icv(key, number), Pad(plaintext)))

Decrypt(key, bytes, number) ==
  IF key \notin Key \/ Len(bytes) % BLOCK_LEN # 0
    THEN Err("Malformed")
    ELSE Unpad(CbcDecrypt(key, Icv(key, number), bytes))

-----------------------------------------------------------------------------
(* A caller encrypts something and then decrypts it, or decrypts bytes that
   nothing was encrypted to. *)

VARIABLES
  sealed,   \* the encryption made, if one was: its arguments and its result
  opened    \* and the decryption

vars == <<sealed, opened>>

Bytes   == UNION {[1 .. n -> Octet] : n \in 0 .. MaxLen}
Numbers == 1 .. MaxNumber

NoCall == [made |-> FALSE]
Call(key, number, in, out) ==
  [made |-> TRUE, key |-> key, number |-> number, in |-> in, out |-> out]

Init == sealed = NoCall /\ opened = NoCall

Seal(key, number, plaintext) ==
  /\ ~sealed.made /\ ~opened.made
  /\ sealed' = Call(key, number, plaintext, Encrypt(key, plaintext, number))
  /\ UNCHANGED opened

Open(key, number) ==
  /\ sealed.made /\ sealed.out.ok /\ ~opened.made
  /\ opened' = Call(key, number, sealed.out.val, Decrypt(key, sealed.out.val, number))
  /\ UNCHANGED sealed

OpenForeign(key, number, bytes) ==
  /\ ~sealed.made /\ ~opened.made
  /\ opened' = Call(key, number, bytes, Decrypt(key, bytes, number))
  /\ UNCHANGED sealed

Next ==
  \E key \in Key \cup BadKey, number \in Numbers :
    \/ \E plaintext \in Bytes : Seal(key, number, plaintext)
    \/ Open(key, number)
    \/ \E bytes \in Bytes : OpenForeign(key, number, bytes)

Spec == Init /\ [][Next]_vars

-----------------------------------------------------------------------------

OpenedOwn == sealed.made /\ opened.made
SameKey   == opened.key = sealed.key

\* Under the same key and block number the plaintext comes back, whatever it
\* ends with: the padding is always there to be stripped (cbc128.rs 54-66).
RoundTrip ==
  OpenedOwn /\ SameKey /\ opened.number = sealed.number => opened.out = Ok(sealed.in)

\* What decrypt is given, padded by the crate or not, is accepted exactly if it
\* decrypts to something that ends in a marker and zeroes, and these are what
\* comes off and all that does.  The zeroes may fill blocks: unpad looks for the
\* marker everywhere (cbc128.rs 80-91), so that this is more than pad adds: of
\* inputs with no marker in the final block, which cbc128.rs 70-72 says are reported,
\* those are not that have one before it and nothing but zeroes behind that.
StripsMarkerAndZeroes ==
  opened.made /\ opened.key \in Key /\ Len(opened.in) % BLOCK_LEN = 0 =>
    LET padded == CbcDecrypt(opened.key, Icv(opened.key, opened.number), opened.in)
        Ends(k) == padded = SubSeq(padded, 1, k) \o Padding(Len(padded) - k)
    IN  /\ \A k \in 0 .. Len(padded) - 1 :
             Ends(k) => opened.out = Ok(SubSeq(padded, 1, k))
        /\ opened.out.ok =>
             \E k \in 0 .. Len(padded) - 1 : Ends(k) /\ opened.out = Ok(SubSeq(padded, 1, k))

\* A wrong block number is a wrong ICV and no more than that: it always changes
\* the first block, and never anything after it or the length.
WrongNumberGarblesFirstBlock ==
  OpenedOwn /\ SameKey /\ opened.number # sealed.number /\ Len(sealed.in) >= BLOCK_LEN =>
    /\ opened.out.ok
    /\ Len(opened.out.val) = Len(sealed.in)
    /\ BlockAt(opened.out.val, 1) # BlockAt(sealed.in, 1)
    /\ \A i \in BLOCK_LEN + 1 .. Len(sealed.in) : opened.out.val[i] = sealed.in[i]
=============================================================================
