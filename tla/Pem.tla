--------------------------------- MODULE Pem ---------------------------------
(***************************************************************************)
(* The key files of sgp26.rs: PEM armour, base64, the search for a public  *)
(* point and the wrapping of a private key.  A file is a sequence of       *)
(* lines, a line a BEGIN, an END or characters; a character of base64 is   *)
(* known by its value.                                                     *)
(***************************************************************************)
EXTENDS KeyPairs, FiniteSetsExt

PAD      == 64     \* =
BAD      == 65     \* a character outside the alphabet
NOT_UTF8 == 66     \* no character at all

Begin(label) == [kind |-> "begin", label |-> label, chars |-> <<>>]
End(label)   == [kind |-> "end", label |-> label, chars |-> <<>>]
Body(chars)  == [kind |-> "body", label |-> "", chars |-> chars]

\* A panic is no Error, and nothing that handles errors handles it.
Panic == Err("panic")

-----------------------------------------------------------------------------
(* Armour *)

\* What the lines read so far have left: the label of the block that is open and
\* its characters, the blocks that were closed, and whether one was closed by the
\* END of another.
Start == [label |-> None, body |-> <<>>, blocks |-> <<>>, misaligned |-> FALSE]

TakeLine(line, state) ==
  CASE line.kind = "begin" -> [state EXCEPT !.label = Some(line.label), !.body = <<>>]
    [] line.kind = "end" /\ state.label = Some(line.label) ->
         [state EXCEPT !.label = None, !.body = <<>>, !.blocks = Append(@, state.body)]
    [] line.kind = "end" /\ state.label.some -> [state EXCEPT !.misaligned = TRUE]
    [] line.kind = "body" /\ state.label.some -> [state EXCEPT !.body = @ \o line.chars]
    [] OTHER -> state

\* The characters between one BEGIN and its END, or what is wrong with the file.
Blocks(lines) ==
  LET read == FoldLeft(LAMBDA state, line : TakeLine(line, state), Start, lines)
  IN  IF \E i \in DOMAIN lines : NOT_UTF8 \in Range(lines[i].chars) THEN Err("Certificate")
      ELSE IF read.misaligned \/ read.blocks = <<>> THEN Err("Certificate")
      ELSE Ok(read.blocks)

-----------------------------------------------------------------------------
(* Base64 *)

\* The octets that four characters stand for.  A pad counts as zero bits wherever
\* it is, and takes the last octet away, or the last two.
Octets(quad) ==
  LET bits == FoldLeft(LAMBDA acc, c : 64 * acc + (IF c = PAD THEN 0 ELSE c), 0, quad)
      pads == Cardinality({i \in DOMAIN quad : quad[i] = PAD})
  IN  SubSeq(<<bits \div 65536, (bits \div 256) % 256, bits % 256>>,
             1, CASE pads = 0 -> 3 [] pads = 1 -> 2 [] OTHER -> 1)

\* base64_decode
Base64Decode(chars) ==
  IF Len(chars) % 4 # 0 \/ BAD \in Range(chars) THEN Err("Certificate")
  ELSE Ok(FlattenSeq([n \in 1 .. Len(chars) \div 4 |-> Octets(SubSeq(chars, 4 * n - 3, 4 * n))]))

\* pem_to_der: the last block, for private keys come behind their parameters.
PemToDer(lines) == IfOk(Blocks(lines), LAMBDA blocks : Base64Decode(Last(blocks)))

-----------------------------------------------------------------------------
(* Keys *)

\* extract_sec1_point: the first place from which on there is a point.  The search
\* begins at the first octet whether there are octets or not.
ExtractSec1Point(curve, spki) ==
  LET Candidate(start) == SubSeq(spki, start, start + PUBLIC_KEY_LEN - 1)
      found == {start \in 1 .. Len(spki) - PUBLIC_KEY_LEN + 1 :
                  FromBytes(curve, Candidate(start)).ok}
  IN  IF spki = <<>> \/ (Len(spki) < PUBLIC_KEY_LEN /\ spki[1] = 4) THEN Panic
      ELSE IF found = {} THEN Err("Certificate")
      ELSE Ok(Candidate(Min(found)))

\* public_key_from_pem
PublicKeyFromPem(curve, lines) ==
  IfOk(PemToDer(lines), LAMBDA der :
    IfOk(ExtractSec1Point(curve, der), LAMBDA point : FromBytes(curve, point)))

\* sec1_private_to_pkcs8 that names prime256v1 whatever the curve.
NistSec1ToPkcs8(curve, sec1) == Pkcs8("P256", sec1)

\* sec1_private_to_pkcs8 of the scalar alone, which is always in one place.
ScalarToPkcs8(curve, sec1) ==
  IF Len(sec1) < 8 THEN Pkcs8(curve, sec1)
  ELSE Pkcs8(curve, Sec1([curve |-> curve, scalar |-> sec1[8]], FALSE, FALSE))

\* sec1_private_to_pkcs8: all of the SEC1 as it is, with its own curve and public key.
Sec1PrivateToPkcs8(curve, sec1) == Pkcs8(curve, sec1)

\* private_key_from_pem: PKCS#8 as it is, or else what is taken for SEC1, wrapped.
PrivateKeyFromPem(curve, lines) ==
  IfOk(PemToDer(lines), LAMBDA der :
    IF FromPkcs8(curve, der).ok THEN FromPkcs8(curve, der)
    ELSE FromPkcs8(curve, Sec1PrivateToPkcs8(curve, der)))
=============================================================================
