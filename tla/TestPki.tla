------------------------------- MODULE TestPki -------------------------------
(***************************************************************************)
(* Certificates from their making to their reading: the chains and single  *)
(* certificates that testpki.rs makes, certificates of another authority   *)
(* (the published files that the crate also reads), and a reader that is   *)
(* handed one of them, whole or not.                                       *)
(*                                                                         *)
(* SHA-256 is symbolic: the key identifier and the serial number, which    *)
(* are cut from the hash of a key, are the octet that tells keys apart; *)
(* and the number of a signature is one octet as well.                     *)
(***************************************************************************)
EXTENDS X509

CONSTANTS
  Pki,         \* chains that may be made: [ci, eum, euicc, dp_pb], keys of one curve
  Subject,     \* keys that certificates are asked for
  San,         \* entities that certificates are asked for
  Role,        \* roles that certificates are asked for
  Foreign,     \* what the other authority certifies: a set of Request
  Damage,      \* octets that may replace another on the way
  Fragile,     \* bound: damage comes only while no other requests have been issued
  MaxIssued    \* bound: certificates issued besides the chains

Octet == 0 .. 255

ASSUME FingerprintAssumption ==
  \A k, l \in Key : Last(k.point) = Last(l.point) => k = l
ASSUME ChainAssumption ==
  \A pki \in Pki : /\ {pki.ci, pki.eum, pki.euicc, pki.dp_pb} \subseteq Key
                   /\ \A k \in {pki.eum, pki.euicc, pki.dp_pb} : k.curve = pki.ci.curve
ASSUME DataAssumption ==
  /\ Subject \subseteq Key
  /\ San \cup Role \subseteq Seq(Octet)
  /\ Damage \subseteq Octet

\* A role is so short that its extension needs no long length.
ASSUME RoleAssumption == \A role \in Role : Len(role) <= 121

\* A signature's number is one octet: a chain has four, any other certificate one.
ASSUME BoundAssumption ==
  /\ MaxIssued \in Nat /\ IsFiniteSet(Pki)
  /\ 4 * Cardinality(Pki) + MaxIssued < 256

VARIABLES
  made,      \* the chains that exist
  issued,    \* the certificates that exist: what was asked for, and the octets
  extra,     \* how many were issued besides the chains
  reading    \* the last certificate that was read, and what became of it

vars == <<signed, made, issued, extra, reading>>

\* sha256 of a key, cut to size.
Fingerprint(key) == <<Last(key.point)>>

EUM_SAN_OID   == <<131, 55, 103>>
EUICC_SAN_OID == <<131, 55, 104>>
CI_SAN_OID    == <<131, 55, 105>>

-----------------------------------------------------------------------------
(* A certificate's octets.  A request says what a certificate is to state:  *)
(* the attributes of both names, the subject's key and curve, the issuer's  *)
(* key, and the extensions it is to have.                                   *)

Attribute(oid, tag, value) == [oid |-> oid, tag |-> tag, value |-> value]
CommonName(label) == Attribute(<<85, 4, 3>>, UTF8, label)

Name(attributes) ==
  LET Rdn(a) == Tlv(SET, Tlv(SEQUENCE, Tlv(OID, a.oid) \o Tlv(a.tag, a.value)))
  IN  Tlv(SEQUENCE, FlattenSeq([i \in DOMAIN attributes |-> Rdn(attributes[i])]))

Integer(octets) ==
  Tlv(INTEGER, IF octets[1] >= 128 THEN <<0>> \o octets ELSE octets)

SigAlg   == Tlv(SEQUENCE, Tlv(OID, <<4, 3, 2>>) \o Tlv(NULL, <<>>))
Validity == Tlv(SEQUENCE, Tlv(UTC_TIME, <<1>>) \o Tlv(UTC_TIME, <<1>>))

Spki(curveOid, point) ==
  Tlv(SEQUENCE, Tlv(SEQUENCE, Tlv(OID, ID_EC_PUBLIC_KEY) \o Tlv(OID, curveOid))
                \o Tlv(BIT_STRING, <<0>> \o point))

Extension(oid, critical, value) ==
  Tlv(SEQUENCE, oid \o (IF critical THEN Tlv(BOOLEAN_TAG, <<255>>) ELSE <<>>)
                \o Tlv(OCTETS, value))

\* An extension that is there if the request has a value for it.
Optional(option, Written(_)) == IF option.some THEN Written(option.val) ELSE <<>>

Extensions(request) ==
  Tlv(EXTENSIONS, Tlv(SEQUENCE,
    Extension(OID_AUTHORITY_KEY_IDENTIFIER, FALSE,
              Tlv(SEQUENCE, Tlv(KEY_ID, Fingerprint(request.issuer))))
    \o Optional(request.role, LAMBDA role :
         Extension(OID_CERTIFICATE_POLICIES, TRUE,
                   Tlv(SEQUENCE, Tlv(SEQUENCE, Tlv(OID, role)))))
    \o Optional(request.san, LAMBDA san :
         Extension(OID_SUBJECT_ALT_NAME, FALSE, Tlv(SEQUENCE, Tlv(REGISTERED, san))))
    \o Optional(request.ski, LAMBDA ski :
         Extension(OID_SUBJECT_KEY_IDENTIFIER, FALSE, Tlv(OCTETS, ski)))))

Tbs(request) ==
  Tlv(SEQUENCE,
    Tlv(VERSION, Tlv(INTEGER, <<2>>))
    \o Integer(Fingerprint([point |-> request.point]))
    \o SigAlg
    \o Name(request.issuerName)
    \o Validity
    \o Name(request.subjectName)
    \o Spki(request.curveOid, request.point)
    \o Extensions(request))

\* A TBS and its signature, put together.
Assemble(tbs, signature) ==
  Tlv(SEQUENCE, tbs \o SigAlg \o Tlv(BIT_STRING, <<0>> \o signature))

\* build_certificate, once the TBS is in the log of signatures.
Certificate(log, request) ==
  Assemble(Tbs(request), SignatureDer(log, request.issuer, Tbs(request)))

\* What testpki.rs asks for: both names are the label, the curve is the key's
\* own, and there is no subjectKeyIdentifier.
Request(label, key, issuer, san, role) ==
  [issuerName |-> <<CommonName(label)>>, subjectName |-> <<CommonName(label)>>,
   curveOid |-> CurveOid(key.curve), point |-> key.point,
   issuer |-> issuer, san |-> san, role |-> role, ski |-> None]

\* The chain as it was before the card looked at roles (testpki.rs 131-135).
BindingEumChain(pki) ==
  << Request(<<1>>, pki.eum, pki.ci, Some(EUM_SAN_OID), Some(OID_RSP_ROLE_DP_PB)),
     Request(<<2>>, pki.euicc, pki.ci, Some(EUICC_SAN_OID), Some(OID_RSP_ROLE_EUICC)),
     Request(<<3>>, pki.ci, pki.ci, Some(CI_SAN_OID), Some(OID_RSP_ROLE_CI_SUB_CA)),
     Request(<<4>>, pki.dp_pb, pki.ci, Some(EUM_SAN_OID), Some(OID_RSP_ROLE_DP_PB)) >>

\* The four certificates of a chain, all of them issued by the CI.
Chain(pki) ==
  << Request(<<1>>, pki.eum, pki.ci, Some(EUM_SAN_OID), Some(OID_RSP_ROLE_DP_AUTH)),
     Request(<<2>>, pki.euicc, pki.ci, Some(EUICC_SAN_OID), Some(OID_RSP_ROLE_EUICC)),
     Request(<<3>>, pki.ci, pki.ci, Some(CI_SAN_OID), Some(OID_RSP_ROLE_CI_SUB_CA)),
     Request(<<4>>, pki.dp_pb, pki.ci, Some(EUM_SAN_OID), Some(OID_RSP_ROLE_DP_PB)) >>

\* What may be asked of a chain besides: by issue_for_entity (and issue_for, whose
\* entity is the EUM's), issue_with_role, and build_certificate_without_entity_for_test.
EntityRequest(pki, subject, san) ==
  Request(<<5>>, subject, pki.ci, Some(san), Some(OID_RSP_ROLE_DP_PB))
RoleRequest(pki, subject, role) ==
  Request(<<5>>, subject, pki.ci, Some(EUM_SAN_OID), Some(role))
NoEntityRequest(pki) == Request(<<6>>, pki.eum, pki.ci, None, Some(OID_RSP_ROLE_DP_PB))

Requested ==
  (UNION {ToSet(Chain(pki)) : pki \in Pki})
  \cup {EntityRequest(pki, s, san) : pki \in Pki, s \in Subject, san \in San \cup {EUM_SAN_OID}}
  \cup {RoleRequest(pki, s, role) : pki \in Pki, s \in Subject, role \in Role}
  \cup {NoEntityRequest(pki) : pki \in Pki}
  \cup Foreign

Attributes == Seq([oid : Seq(Octet), tag : Octet, value : Seq(Octet)])

Requests == [issuerName : Attributes, subjectName : Attributes,
             curveOid : Seq(Octet), point : Seq(Octet) \ {<<>>}, issuer : Key,
             san : {None} \cup {Some(o) : o \in San \cup {EUM_SAN_OID, EUICC_SAN_OID, CI_SAN_OID}},
             role : {Some(o) : o \in Role \cup RSP_ROLE_OIDS},
             ski : {None} \cup {Some(Fingerprint(k)) : k \in Key}]

\* What is certified on a curve that is supported is a key.
ASSUME ForeignAssumption ==
  /\ Foreign \subseteq Requests
  /\ \A request \in Foreign, curve \in CurveKind :
       CurveOid(curve) = request.curveOid =>
         [curve |-> curve, point |-> request.point] \in Key

\* der_length writes two octets of length at most (testpki.rs 528): a TBS leaves room
\* for an algorithm and a signature.
ASSUME LengthAssumption == \A request \in Requested : Len(Tbs(request)) < 65500

\* The readers search a whole certificate for an extension's identifier (x509.rs
\* 439-473): what a request brings does not hold one by chance.
ExtensionIds == {OID_SUBJECT_KEY_IDENTIFIER, OID_SUBJECT_ALT_NAME,
                 OID_CERTIFICATE_POLICIES, OID_AUTHORITY_KEY_IDENTIFIER}

Brought(request) ==
  {Name(request.issuerName), Name(request.subjectName),
   Spki(request.curveOid, request.point), Tlv(OID, request.role.val)}
  \cup {Tlv(REGISTERED, san) : san \in IF request.san.some THEN {request.san.val} ELSE {}}

ASSUME IdentifierAssumption ==
  \A request \in Requested : \A octets \in Brought(request), id \in ExtensionIds :
    \A i \in 1 .. Len(octets) - 4 : SubSeq(octets, i, i + 4) # id

-----------------------------------------------------------------------------
(* Issuing *)

NoReading == [made |-> FALSE]

Init == /\ signed = <<>> /\ made = {} /\ issued = {} /\ extra = 0
        /\ reading = NoReading

\* The log once every one of some requests has been signed, in order.
LogAll(log, requests) ==
  LET after[n \in 0 .. Len(requests)] ==
        IF n = 0 THEN log
        ELSE Log(after[n - 1], requests[n].issuer, Tbs(requests[n]))
  IN  after[Len(requests)]

Issue(requests) ==
  /\ reading = NoReading
  /\ signed' = LogAll(signed, requests)
  /\ issued' = issued \cup
       {[request |-> r, der |-> Certificate(signed', r)] : r \in ToSet(requests)}
  /\ UNCHANGED reading

\* try_new_on
New(pki) ==
  /\ pki \notin made
  /\ made' = made \cup {pki}
  /\ Issue(Chain(pki))
  /\ UNCHANGED extra

\* One certificate more, from a chain that exists.
IssueOne(pki, request) ==
  /\ pki \in made
  /\ extra < MaxIssued
  /\ extra' = extra + 1
  /\ Issue(<<request>>)
  /\ UNCHANGED made

IssueForEntity(pki, subject, san) == IssueOne(pki, EntityRequest(pki, subject, san))

\* issue_for: the entity is the one that the EUM's certificate names.
IssueFor(pki, subject) == IssueForEntity(pki, subject, EUM_SAN_OID)

IssueWithRole(pki, subject, role) == IssueOne(pki, RoleRequest(pki, subject, role))

IssueWithoutEntity(pki) == IssueOne(pki, NoEntityRequest(pki))

\* Another authority issues a certificate of its own.
IssueForeign(request) ==
  /\ extra < MaxIssued
  /\ extra' = extra + 1
  /\ Issue(<<request>>)
  /\ UNCHANGED made

-----------------------------------------------------------------------------
(* Reading *)

Read(certificate, der) ==
  /\ reading = NoReading
  /\ reading' = [made |-> TRUE, request |-> certificate.request,
                 sent |-> certificate.der, der |-> der]
  /\ UNCHANGED <<signed, made, issued, extra>>

ReadWhole == \E c \in issued : Read(c, c.der)

\* The end of the certificate is missing.
ReadCut == \E c \in issued : \E n \in 0 .. Len(c.der) - 1 : Read(c, SubSeq(c.der, 1, n))

\* One octet has changed.
ReadDamaged ==
  /\ \A c \in issued : c.request \in Fragile
  /\ \E c \in issued : \E i \in DOMAIN c.der, octet \in Damage :
       octet # c.der[i] /\ Read(c, ReplaceAt(c.der, i, octet))

\* Another certificate follows at once, as in a file of several.
ReadJoined == \E c, d \in issued : Read(c, c.der \o d.der)

\* The reader is done with it.
Drop == /\ reading.made
        /\ reading' = NoReading
        /\ UNCHANGED <<signed, made, issued, extra>>

Next ==
  \/ \E pki \in Pki : New(pki)
  \/ \E pki \in Pki, subject \in Subject : IssueFor(pki, subject)
  \/ \E pki \in Pki, subject \in Subject, san \in San : IssueForEntity(pki, subject, san)
  \/ \E pki \in Pki, subject \in Subject, role \in Role : IssueWithRole(pki, subject, role)
  \/ \E pki \in Pki : IssueWithoutEntity(pki)
  \/ \E request \in Foreign : IssueForeign(request)
  \/ ReadWhole \/ ReadCut \/ ReadDamaged \/ ReadJoined \/ Drop

Spec == Init /\ [][Next]_vars

-----------------------------------------------------------------------------
(* Properties of a reading *)

\* The types.
TypeOK ==
  /\ signed \in Seq([key : Key, message : Seq(Octet)])
  /\ made \subseteq Pki
  /\ extra \in 0 .. MaxIssued
  /\ issued \subseteq [request : Requests, der : Seq(Octet)]
  /\ reading = NoReading \/
     reading \in [made : {TRUE}, request : Requests, sent : Seq(Octet), der : Seq(Octet)]

Whole == reading.made /\ reading.der = reading.sent

Supported(curveOid) == \E curve \in CurveKind : CurveOid(curve) = curveOid

\* What an extension reader may return for a value that was issued: the value,
\* or nothing if the extension needs a long length (x509.rs 462-464).
ReadBack(option, header) ==
  IF option.some /\ Len(option.val) + header > 127 THEN None ELSE option

\* Octets say of the subject's key what the request says.
StatesKey(der, request) ==
  /\ FromDer(der).ok
  /\ CurveOid(FromDer(der).val.public_key.curve) = request.curveOid
  /\ FromDer(der).val.public_key.point = request.point

\* And of the subject itself.
StatesSubject(der, request) ==
  /\ SubjectAltName(der) = ReadBack(request.san, 4)
  /\ SubjectKeyIdentifier(der) = request.ski
  /\ AuthorityKeyIdentifier(der) = Some(Fingerprint(request.issuer))
  /\ CertificatePolicies(der) = Some(<<request.role.val>>)
  /\ IsServerCertificateRole(der) = Some(request.role.val \in AuthRoles)
  /\ IndicatesDpPbRole(der) = Some(request.role.val \in PbRoles)

\* A certificate that arrives whole says of the key what was asked for: two sides
\* that were written apart agree on where it is and what its curve is called
\* (testpki.rs 399-424, x509.rs).  If its curve is not supported it is refused, and
\* the curve can still be named.
KeyAsIssued ==
  Whole =>
    /\ CertificateNamedCurveOid(reading.der) = Some(reading.request.curveOid)
    /\ IF Supported(reading.request.curveOid)
       THEN StatesKey(reading.der, reading.request)
       ELSE FromDer(reading.der) = Err("Certificate")

\* The certificates of a chain serve what they are made for: the EUM's authenticates a
\* server and binds no profile, that of the SM-DP+ binds profiles and authenticates none,
\* both name one entity, and the card's and the CI's do neither and name others
\* (testpki.rs 128-179).
ServesInChain(der, request) ==
  \A pki \in made : request \in ToSet(Chain(pki)) =>
    LET server  == request = Chain(pki)[1]
        binding == request = Chain(pki)[4]
    IN  /\ IsServerCertificateRole(der) = Some(server)
        /\ IndicatesDpPbRole(der) = Some(binding)
        /\ SubjectAltName(der) = Some(EUM_SAN_OID) <=> server \/ binding

\* And so do the parts that are found by a search (testpki.rs 426-480, x509.rs).  What
\* they say is what it takes to serve: the roles that are written stand in testpki.rs,
\* those that are looked for in x509.rs 406-424, and a role of one message reads as
\* well as the other's.
SubjectAsIssued ==
  Whole => /\ StatesSubject(reading.der, reading.request)
           /\ ServesInChain(reading.der, reading.request)

\* It verifies under the issuer's key and under no other, keys of the other
\* curve included: the octets of a signature do not say which curve they are
\* for (ecdsa.rs 276-279, x509.rs 527-532).
VerifiesUnderIssuerOnly ==
  Whole => \A key \in Key :
    VerifySignedByKey(reading.der, key).ok <=> key = reading.request.issuer

\* Whatever happens to one octet, and whatever else follows: a certificate that
\* is still read and still verifies says what it said when it was issued.  The
\* parts that are searched for are not looked for in what was signed, but in
\* everything (x509.rs 439-473).
VerifiedMeansIssued ==
  reading.made /\ FromDer(reading.der).ok
    /\ (\E key \in Key : VerifySignedByKey(reading.der, key).ok)
  => StatesKey(reading.der, reading.request) /\ StatesSubject(reading.der, reading.request)

\* The outer SEQUENCE ends where the input ends.
NothingBehind(der) == ReadTlv(der, SEQUENCE).ok /\ ReadTlv(der, SEQUENCE).val.used = Len(der)

\* A key that is read out of octets that verify, with nothing behind them, is one
\* that the verifying key has certified, on the same curve: the TBS that is read and
\* the TBS that is verified are found in two ways, one from the front and one from
\* the end (x509.rs 524-545 and 697-745), and must be the same octets.
VerifiedKeyWasIssued ==
  reading.made /\ NothingBehind(reading.der) /\ FromDer(reading.der).ok =>
    \A key \in Key : VerifySignedByKey(reading.der, key).ok =>
      \E c \in issued : c.request.issuer = key /\ StatesKey(reading.der, c.request)

\* A certificate of which the end is missing is refused wherever it is cut
\* (x509.rs 1338-1343 cuts it in half).
CutIsRefused ==
  reading.made /\ Len(reading.der) < Len(reading.sent) => ~FromDer(reading.der).ok

\* The two ways to find the curve, by position and by shape, never contradict
\* each other (x509.rs 552-555 and 674-678).
CurveReadersAgree ==
  reading.made /\ FromDer(reading.der).ok =>
    CertificateNamedCurveOid(reading.der) =
      Some(CurveOid(FromDer(reading.der).val.public_key.curve))

-----------------------------------------------------------------------------
(* What the documentation says *)

\* The serialNumber attribute of a name.
SerialIn(attributes) ==
  LET serial == FirstSuchThat(attributes, LAMBDA a : a.oid = <<85, 4, 5>>)
  IN  IF serial.some THEN Some(serial.val.value) ELSE None

\* x509.rs 88 and 94-95 say that the serialNumber read is the subject's, and that
\* the reader walks to the subject to find it.
SerialIsTheSubjects ==
  Whole => SubjectSerialNumber(reading.der) = SerialIn(reading.request.subjectName)
=============================================================================
