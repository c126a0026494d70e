---------------------------- MODULE MCWireStream ----------------------------
(* Four-bit bytes: the short form ends at 7, one length octet at 15, two at
   255.  A tag continues when its two low bits are set. *)
EXTENDS WireStream

Fill(byte, n) == [i \in 1 .. n |-> byte]

Protect(tag, data) == [tag |-> tag, data |-> data, cmac |-> Fill(2, CMAC_LEN)]

\* Bodies (field and C-MAC) of 2, 7, 8, 15 and 16 octets, under a tag of one
\* octet and a tag of two, whose octets look like each other's lengths.
MCTlvs ==
  {Protect(tag, Fill(byte, n)) :
     tag \in {8, 16 * 11 + 8}, byte \in {9}, n \in {0, 5, 6, 13, 14}}

MCRaws == {<<1, 9, 2>>, Fill(10, 8)}
=============================================================================
