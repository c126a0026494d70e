-------------------------------- MODULE Wire --------------------------------
(***************************************************************************)
(* Framing: the TLVs of wire.rs and the protected TLVs of bsp.rs, byte by  *)
(* byte.  A length has a short form and long forms, and a tag one octet or *)
(* more, so the range of a byte is a parameter (with everything that the   *)
(* code says as a fraction of it): TLC can then cross every boundary with  *)
(* short bodies.  The program's values are Base = 256, TagMod = 32,        *)
(* CMAC_LEN = 8 and TAG_SIGNATURE = 16r5F37.                               *)
(***************************************************************************)
EXTENDS Results, Integers, Sequences, SequencesExt

CONSTANTS
  Base,            \* a byte is one of 0 .. Base - 1
  TagMod,          \* the low bits of a tag's first octet, all ones: it continues
  CMAC_LEN,
  TAG_SIGNATURE

ASSUME BaseAssumption == Base \in Nat /\ Base >= 8 /\ Base % 2 = 0
ASSUME TagModAssumption == TagMod \in 2 .. Base
ASSUME CmacAssumption == CMAC_LEN \in Nat

Octet == 0 .. Base - 1
High  == Base \div 2        \* 0x80: set in the first octet of a long form

MaxCarried == Base * Base - 1   \* 0xFFFF: what two length octets can say

-----------------------------------------------------------------------------
(* Tags *)

Continues(octet) == octet % TagMod = TagMod - 1

\* A tag that reads back as it is written: one octet, or two of which the
\* first says that another follows.
IsProperTag(tag) ==
  \/ tag \in Octet /\ ~Continues(tag)
  \/ tag \in Base .. MaxCarried /\ Continues(tag \div Base)

\* encoded_tag that writes every tag as one octet.
NarrowEncodedTag(tag) == <<tag % Base>>

\* encoded_tag: a tag is already encoded, and takes the octets it needs.
EncodedTag(tag) ==
  IF tag < Base THEN <<tag>>
  ELSE IF tag <= MaxCarried THEN <<tag \div Base, tag % Base>>
  ELSE IF tag < Base ^ 3
    THEN <<tag \div Base ^ 2, (tag \div Base) % Base, tag % Base>>
  ELSE <<(tag \div Base ^ 3) % Base, (tag \div Base ^ 2) % Base,
         (tag \div Base) % Base, tag % Base>>

-----------------------------------------------------------------------------
(* Lengths *)

\* der_length with the short form used one length too far.
LaxDerLength(len) ==
  IF len <= High THEN <<len>>
  ELSE IF len < Base THEN <<High + 1, len>>
  ELSE <<High + 2, (len \div Base) % Base, len % Base>>

\* der_length: the shortest form, and never more than two octets of length.
DerLength(len) ==
  IF len < High THEN <<len>>
  ELSE IF len < Base THEN <<High + 1, len>>
  ELSE <<High + 2, (len \div Base) % Base, len % Base>>

\* encoded_length: what two octets cannot say is refused.
EncodedLength(len) ==
  IF len > MaxCarried THEN Err("Malformed") ELSE Ok(DerLength(len))

\* The number that octets spell, the most significant first.
BigEndian(octets) == FoldLeft(LAMBDA n, octet : Base * n + octet, 0, octets)

\* read_length: the length, and how many octets said so.
ReadLength(input) ==
  LET count == input[1] - High
  IN  IF input = <<>> THEN Err("Malformed")
      ELSE IF input[1] < High THEN Ok([len |-> input[1], used |-> 1])
      ELSE IF count \in {0, High - 1} \/ count > 4 \/ Len(input) < 1 + count
        THEN Err("Malformed")
      ELSE IF input[2] = 0 THEN Err("Malformed")
      ELSE Ok([len |-> BigEndian(SubSeq(input, 2, 1 + count)), used |-> 1 + count])

-----------------------------------------------------------------------------
(* TLVs *)

\* read_tlv without the check that the value has arrived in full.
EagerReadTlv(input) ==
  LET multi  == Continues(input[1])
      octets == IF multi THEN 2 ELSE 1
      length == ReadLength(SubSeq(input, octets + 1, Len(input)))
      start  == octets + length.val.used
      end    == start + length.val.len
  IN  IF input = <<>> \/ (multi /\ Len(input) < 2) THEN Err("Malformed")
      ELSE IF ~length.ok THEN length
      ELSE Ok([tag   |-> BigEndian(SubSeq(input, 1, octets)),
               value |-> SubSeq(input, start + 1, IF end <= Len(input) THEN end ELSE Len(input)),
               used  |-> IF end <= Len(input) THEN end ELSE Len(input)])

\* read_tlv: the tag, the value and how many octets they took.
ReadTlv(input) ==
  LET multi  == Continues(input[1])
      octets == IF multi THEN 2 ELSE 1
      length == ReadLength(SubSeq(input, octets + 1, Len(input)))
      start  == octets + length.val.used
      end    == start + length.val.len
  IN  IF input = <<>> \/ (multi /\ Len(input) < 2) THEN Err("Malformed")
      ELSE IF ~length.ok THEN length
      ELSE IF Len(input) < end THEN Err("Malformed")
      ELSE Ok([tag   |-> BigEndian(SubSeq(input, 1, octets)),
               value |-> SubSeq(input, start + 1, end),
               used  |-> end])

EncodeRawTlv(tag, value) == EncodedTag(tag) \o DerLength(Len(value)) \o value

(* Protected TLVs *)

\* encode: the carried field, then the C-MAC.
Encode(tlv) == EncodeRawTlv(tlv.tag, tlv.data \o tlv.cmac)

\* decode: the last CMAC_LEN octets are the C-MAC.
Decode(bytes) ==
  LET tlv   == ReadTlv(bytes)
      split == Len(tlv.val.value) - CMAC_LEN
  IN  IF ~tlv.ok THEN tlv
      ELSE IF split < 0 THEN Err("Malformed")
      ELSE Ok([tag  |-> tlv.val.tag,
               data |-> SubSeq(tlv.val.value, 1, split),
               cmac |-> SubSeq(tlv.val.value, split + 1, Len(tlv.val.value))])

\* What full_cmac feeds to the MAC after the chaining value.
MacInput(tag, finalLength, data) ==
  LET length == EncodedLength(finalLength)
  IN  IF ~length.ok THEN length
      ELSE Ok(EncodedTag(tag) \o length.val \o data)

(* Signature fields *)

EncodeSignatureBytes(raw) == EncodeRawTlv(TAG_SIGNATURE, raw)

ParseSignatureBytes(bytes) ==
  LET tlv == ReadTlv(bytes)
  IN  IF ~tlv.ok THEN tlv
      ELSE IF tlv.val.tag # TAG_SIGNATURE THEN Err("Malformed")
      ELSE Ok(tlv.val.value)
=============================================================================
