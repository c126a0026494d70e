--------------------------------- MODULE Der ---------------------------------
(***************************************************************************)
(* The DER that certificates are made of: the writer of testpki.rs and the *)
(* two readers of x509.rs.  One reader follows long lengths and is used    *)
(* for the structure of a certificate; the other knows the short form only *)
(* and is used inside its extensions.                                      *)
(***************************************************************************)
EXTENDS Results, Integers, Sequences, SequencesExt

SEQUENCE    == 48      \* 0x30
SET         == 49      \* 0x31
OID         == 6
INTEGER     == 2
BOOLEAN_TAG == 1
BIT_STRING  == 3
OCTETS      == 4
NULL        == 5
UTF8        == 12
PRINTABLE   == 19
UTC_TIME    == 23
VERSION     == 160     \* 0xA0, [0] EXPLICIT
EXTENSIONS  == 163     \* 0xA3, [3] EXPLICIT
KEY_ID      == 128     \* 0x80, [0] IMPLICIT in an authorityKeyIdentifier
REGISTERED  == 136     \* 0x88, [8] IMPLICIT in a GeneralName

\* An Option<T>, and what the question mark after one does.
None    == [some |-> FALSE]
Some(v) == [some |-> TRUE, val |-> v]
IfSome(option, Then(_)) == IF option.some THEN Then(option.val) ELSE None

\* The question mark after a Result<T>.
IfOk(result, Then(_)) == IF result.ok THEN Then(result.val) ELSE result

\* Result::ok
ToOption(result) == IF result.ok THEN Some(result.val) ELSE None

From(octets, i) == SubSeq(octets, i, Len(octets))

-----------------------------------------------------------------------------
(* Writing *)

\* der_length that knows the short form only.
ShortDerLength(len) == <<len>>

\* der_length
DerLength(len) ==
  IF len < 128 THEN <<len>>
  ELSE IF len < 256 THEN <<129, len>>
  ELSE <<130, (len \div 256) % 256, len % 256>>

Tlv(tag, value) == <<tag>> \o DerLength(Len(value)) \o value

-----------------------------------------------------------------------------
(* Reading *)

\* What octets say as a number, the highest first.
BigEndian(octets) ==
  LET upTo[n \in 0 .. Len(octets)] == IF n = 0 THEN 0 ELSE 256 * upTo[n - 1] + octets[n]
  IN  upTo[Len(octets)]

\* read_length: up to four octets of length, none of them a leading zero.
ReadLength(input) ==
  LET count == input[1] - 128
  IN  IF input = <<>> THEN Err("Certificate")
      ELSE IF input[1] < 128 THEN Ok([len |-> input[1], used |-> 1])
      ELSE IF count = 0 \/ count > 4 \/ Len(input) < 1 + count THEN Err("Certificate")
      ELSE IF input[2] = 0 THEN Err("Certificate")
      ELSE Ok([len |-> BigEndian(SubSeq(input, 2, 1 + count)), used |-> 1 + count])

\* The TLV whose value lies between two places.
TlvBetween(input, start, end) ==
  [tag |-> input[1], value |-> SubSeq(input, start + 1, end), used |-> end]

\* read_tlv_any without the check that the value is all there.
TrustingReadTlvAny(input) ==
  LET Within(end) == IF end <= Len(input) THEN end ELSE Len(input)
  IN  IF Len(input) < 2 THEN Err("Certificate")
      ELSE IfOk(ReadLength(From(input, 2)), LAMBDA length :
             Ok(TlvBetween(input, 1 + length.used, Within(1 + length.used + length.len))))

\* read_tlv_any
ReadTlvAny(input) ==
  IF Len(input) < 2 THEN Err("Certificate")
  ELSE IfOk(ReadLength(From(input, 2)), LAMBDA length :
         IF Len(input) < 1 + length.used + length.len THEN Err("Certificate")
         ELSE Ok(TlvBetween(input, 1 + length.used, 1 + length.used + length.len)))

\* read_tlv: the TLV must have the tag that is expected.
ReadTlv(input, expected) ==
  IfOk(ReadTlvAny(input), LAMBDA tlv :
    IF tlv.tag # expected THEN Err("Certificate") ELSE Ok(tlv))

\* Certificate::read_tlv_consumed, and read_tlv_consumed_checked, which differs
\* from it in its type only: a length that is not short is a failure.
ReadShortTlv(buf) ==
  IF Len(buf) < 2 THEN Err("Certificate")
  ELSE IF buf[2] > 127 \/ 2 + buf[2] > Len(buf) THEN Err("Certificate")
  ELSE Ok([tag |-> buf[1], value |-> SubSeq(buf, 3, 2 + buf[2]), used |-> 2 + buf[2]])

\* The TLVs that follow each other in buf, up to its end (clean) or up to the
\* first that cannot be read.
Walk(buf, Read(_)) ==
  LET from[i \in 1 .. Len(buf) + 1] ==
        LET tlv  == Read(From(buf, i))
            rest == from[i + tlv.val.used]
        IN  IF i > Len(buf) THEN [clean |-> TRUE, tlvs |-> <<>>]
            ELSE IF ~tlv.ok THEN [clean |-> FALSE, tlvs |-> <<>>]
            ELSE [clean |-> rest.clean, tlvs |-> <<tlv.val>> \o rest.tlvs]
  IN  from[1]

\* The first element of a sequence that passes a test, if there is one.
FirstSuchThat(seq, Test(_)) ==
  IF \E i \in DOMAIN seq : Test(seq[i]) THEN Some(seq[SelectInSeq(seq, Test)]) ELSE None

\* The elements of a sequence that pass a test: SelectSeq, from a definition that can be
\* reasoned about.
Passing(seq, Test(_)) ==
  FlattenSeq([i \in DOMAIN seq |-> IF Test(seq[i]) THEN <<seq[i]>> ELSE <<>>])

\* Certificate::unwrap_sequence
UnwrapSequence(buf) ==
  IfSome(ToOption(ReadShortTlv(buf)), LAMBDA tlv :
    IF tlv.tag = SEQUENCE THEN Some(tlv.value) ELSE None)
=============================================================================
