------------------------------ MODULE MCCbc128 ------------------------------
(* Two-byte blocks of two-bit bytes.  As 0x80 does, the marker has only the
   top bit of a byte set. *)
EXTENDS Cbc128

MCXor(a, b) == 2 * (((a \div 2) + (b \div 2)) % 2) + ((a + b) % 2)

Index(block) == Base * block[1] + block[2]
FromIndex(n) == [i \in 1 .. 2 |-> IF i = 1 THEN n \div Base ELSE n % Base]

\* A permutation of the sixteen blocks for each of the two keys.
MCAes ==
  [k \in Key |->
    [b \in [1 .. 2 -> 0 .. Base - 1] |->
      FromIndex((IF k = 1 THEN 5 * Index(b) + 3 ELSE 13 * Index(b) + 6) % (Base * Base))]]
=============================================================================
