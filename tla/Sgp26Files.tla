------------------------------ MODULE Sgp26Files ------------------------------
(***************************************************************************)
(* The files that sgp26.rs loads, as the GSMA publishes them for the two   *)
(* curves, and what may have become of one on its way into the directory.  *)
(* Keys are files of real PEM; a certificate is what its readers find in   *)
(* it: its key, the key that verifies it and whether it has the role       *)
(* id-rspRole-dp-pb.  (How they find it is the subject of X509.)           *)
(***************************************************************************)
EXTENDS Pem

CONSTANTS
  Published,   \* the files that there are: <<name, curve>>
  ScalarOf     \* the private key of every holder on either curve

\* The names that are loaded, without the suffix that names the curve, and whose
\* key each of the files has.
CertificateHolder ==
  [CERT_CI |-> "CI", CERT_EUM |-> "EUM", CERT_EUICC |-> "EUICC",
   CERT_S_SM_DPauth |-> "DPauth", CERT_S_SM_DP2auth |-> "DP2auth",
   CERT_S_SM_DPpb |-> "DPpb", CERT_S_SM_DPpb_VARA_SIG |-> "DPpbA",
   CERT_S_SM_DSauth_INV_SIGN |-> "DSauth", CERT_S_SM_DSauth_INV_CURVE |-> "DSauth",
   CERT_S_SM_DSauth_VARA_SIG |-> "DSauthA"]
PublicHolder ==
  [PK_EUICC |-> "EUICC", PK_S_SM_DPauth |-> "DPauth", PK_S_EIMsign |-> "EIM"]
PrivateHolder ==
  [SK_EUICC |-> "EUICC", SK_S_EIMsign |-> "EIM", SK_EUM |-> "EUM",
   SK_S_SM_DPauth |-> "DPauth", SK_S_SM_DPpb |-> "DPpb", SK_S_SM_DPpb_SIG |-> "DPpbA",
   SK_S_SM_DSauth_SIG |-> "DSauthA"]

CertificateName == DOMAIN CertificateHolder
PublicName      == DOMAIN PublicHolder
PrivateName     == DOMAIN PrivateHolder
Name            == CertificateName \cup PublicName \cup PrivateName

\* Names of one kind: a file under one of them can pass for a file under another.
SameKind(m, n) ==
  \E kind \in {CertificateName, PublicName, PrivateName} : m \in kind /\ n \in kind

\* No point in use lies on both curves.
ASSUME PointAssumption == \A k, l \in Key : k.point = l.point => k = l

Holders == Range(CertificateHolder) \cup Range(PublicHolder) \cup Range(PrivateHolder)
             \cup {"SubCA"}

ASSUME PublishedAssumption ==
  /\ Published \subseteq Name \X CurveKind
  /\ \A at \in Holders \X CurveKind : ScalarOf[at] \in Scalar

PairOf(holder, curve) == [curve |-> curve, scalar |-> ScalarOf[holder, curve]]
KeyOf(holder, curve)  == PublicKeyOf(PairOf(holder, curve))

-----------------------------------------------------------------------------
(* Certificates *)

NoOne == [curve |-> "P256", point |-> <<>>]

\* Whose key verifies a certificate; those of variant A are issued by a sub-CA.
Issuer(name) ==
  CASE name = "CERT_EUICC" -> "EUM"
    [] name \in {"CERT_S_SM_DPpb_VARA_SIG", "CERT_S_SM_DSauth_VARA_SIG"} -> "SubCA"
    [] OTHER -> "CI"

PublishedCertificate(name, curve) ==
  [key |-> KeyOf(CertificateHolder[name], curve),
   by  |-> IF name = "CERT_S_SM_DSauth_INV_SIGN" THEN NoOne ELSE KeyOf(Issuer(name), curve),
   pb  |-> name \in {"CERT_S_SM_DPpb", "CERT_S_SM_DPpb_VARA_SIG"}]

-----------------------------------------------------------------------------
(* Keys *)

LINE_LEN == 16

\* Octets as base64, whose last group is padded, in lines.
Base64(octets) ==
  LET padded   == octets \o <<0, 0>>
      Bits(n)  == 65536 * padded[3 * n - 2] + 256 * padded[3 * n - 1] + padded[3 * n]
      Count(n) == Len(octets) - 3 * (n - 1)
      Char(n, i) == IF i > Count(n) + 1 THEN PAD ELSE (Bits(n) \div 64 ^ (4 - i)) % 64
  IN  FlattenSeq([n \in 1 .. (Len(octets) + 2) \div 3 |-> [i \in 1 .. 4 |-> Char(n, i)]])

BodyLines(chars) ==
  [n \in 1 .. (Len(chars) + LINE_LEN - 1) \div LINE_LEN |->
     Body(SubSeq(chars, LINE_LEN * (n - 1) + 1, Min({LINE_LEN * n, Len(chars)})))]

Armour(label, octets) == <<Begin(label)>> \o BodyLines(Base64(octets)) \o <<End(label)>>

\* A SubjectPublicKeyInfo.
Spki(key) ==
  Tlv(SEQUENCE,
      Tlv(SEQUENCE, Tlv(OID, ALGORITHM_OID) \o Tlv(OID, CurveOid(key.curve))) \o
      Tlv(BIT_STRING, <<0>> \o key.point))

PublishedKeyFile(name, curve) ==
  IF name \in PublicName
  THEN Armour("PUBLIC KEY", Spki(KeyOf(PublicHolder[name], curve)))
  ELSE Armour("EC PARAMETERS", Tlv(OID, CurveOid(curve))) \o
       Armour("EC PRIVATE KEY", Sec1(PairOf(PrivateHolder[name], curve), TRUE, TRUE))

KeyFile == [id \in {f \in Published : f[1] \notin CertificateName} |->
              PublishedKeyFile(id[1], id[2])]

\* The key in it saved once more, by a caller of to_pkcs8.
ResavedKeyFile(name, curve) ==
  Armour("PRIVATE KEY", ToPkcs8(PairOf(PrivateHolder[name], curve)))

-----------------------------------------------------------------------------
(* What becomes of a file *)

\* A file is one that was published and the harm that has come to it.
Intact              == [kind |-> "intact"]
Resaved             == [kind |-> "resaved"]
Garbled             == [kind |-> "garbled"]
Lost(from, to)      == [kind |-> "lost", from |-> from, to |-> to]
Changed(at, pos, c) == [kind |-> "changed", at |-> at, pos |-> pos, char |-> c]
Behind(id)          == [kind |-> "behind", id |-> id]

File(id, harm) == [id |-> id, harm |-> harm]
Missing        == File(<<>>, Intact)

\* The lines of a key file.
Text(file) ==
  LET lines == KeyFile[file.id]
      harm  == file.harm
  IN  CASE harm = Intact -> lines
        [] harm = Resaved -> ResavedKeyFile(file.id[1], file.id[2])
        [] harm.kind = "lost" ->
             SubSeq(lines, 1, harm.from - 1) \o SubSeq(lines, harm.to + 1, Len(lines))
        [] harm.kind = "changed" -> [lines EXCEPT ![harm.at].chars[harm.pos] = harm.char]
        [] harm.kind = "behind" -> lines \o KeyFile[harm.id]

\* The harm that can come to a key file: lines are lost, a character is another,
\* another key file is appended to it.
Harms(id, chars) ==
  LET lines == KeyFile[id]
  IN  {Lost(from, to) : from, to \in DOMAIN lines}
      \cup UNION {{Changed(at, pos, c) : pos \in DOMAIN lines[at].chars, c \in chars} :
                    at \in DOMAIN lines}
      \cup {Behind(other) : other \in {o \in DOMAIN KeyFile : SameKind(o[1], id[1])}}
=============================================================================
