-------------------------------- MODULE X509 --------------------------------
(***************************************************************************)
(* The certificate readers of x509.rs, over the octets of a certificate.   *)
(* The public key and the signature are found by position, the extensions  *)
(* and the serialNumber attribute by a search for an identifier's octets.  *)
(***************************************************************************)
EXTENDS Ecdsa

\* id-ecPublicKey, up to what tells it from other identifiers.
ID_EC_PUBLIC_KEY == <<2, 1>>

\* Identifiers that are searched for, with their DER header.
OID_SERIAL_NUMBER            == <<OID, 3, 85, 4, 5>>
OID_SUBJECT_KEY_IDENTIFIER   == <<OID, 3, 85, 29, 14>>
OID_SUBJECT_ALT_NAME         == <<OID, 3, 85, 29, 17>>
OID_CERTIFICATE_POLICIES     == <<OID, 3, 85, 29, 32>>
OID_AUTHORITY_KEY_IDENTIFIER == <<OID, 3, 85, 29, 35>>

\* The role identifiers, without the octets they all begin with (id-rspRole).
OID_RSP_ROLE_CI         == <<0>>
OID_RSP_ROLE_CI_SUB_CA  == <<0, 0>>
OID_RSP_ROLE_EUM        == <<0, 0, 0>>
OID_RSP_ROLE_EUM_SUB_CA == <<0, 0, 0, 0>>
OID_RSP_ROLE_EUICC      == <<0, 0, 0, 0, 0>>
OID_RSP_ROLE_DP_SUB_CA  == <<0, 0, 1>>
OID_RSP_ROLE_DP_TLS     == <<0, 0, 1, 0>>
OID_RSP_ROLE_DP_AUTH    == <<0, 0, 1, 1>>
OID_RSP_ROLE_DP_PB      == <<0, 0, 1, 2>>
OID_RSP_ROLE_DS_SUB_CA  == <<0, 0, 2>>
OID_RSP_ROLE_DS_TLS     == <<0, 0, 2, 0>>
OID_RSP_ROLE_DS_AUTH    == <<0, 0, 2, 1>>
OID_RSP_ROLE_EUICC_V2   == <<1>>
OID_RSP_ROLE_EUM_V2     == <<2>>
OID_RSP_ROLE_DP_TLS_V2  == <<3>>
OID_RSP_ROLE_DP_AUTH_V2 == <<4>>
OID_RSP_ROLE_DP_PB_V2   == <<5>>
OID_RSP_ROLE_DS_TLS_V2  == <<6>>
OID_RSP_ROLE_DS_AUTH_V2 == <<7>>

AuthRoles == {OID_RSP_ROLE_DP_AUTH, OID_RSP_ROLE_DP_AUTH_V2,
              OID_RSP_ROLE_DS_AUTH, OID_RSP_ROLE_DS_AUTH_V2}
PbRoles   == {OID_RSP_ROLE_DP_PB, OID_RSP_ROLE_DP_PB_V2}

RSP_ROLE_OIDS == AuthRoles \cup PbRoles \cup
  {OID_RSP_ROLE_CI, OID_RSP_ROLE_CI_SUB_CA, OID_RSP_ROLE_EUM, OID_RSP_ROLE_EUM_SUB_CA,
   OID_RSP_ROLE_EUICC, OID_RSP_ROLE_DP_SUB_CA, OID_RSP_ROLE_DP_TLS, OID_RSP_ROLE_DS_SUB_CA,
   OID_RSP_ROLE_DS_TLS, OID_RSP_ROLE_EUICC_V2, OID_RSP_ROLE_EUM_V2, OID_RSP_ROLE_DP_TLS_V2,
   OID_RSP_ROLE_DS_TLS_V2}

-----------------------------------------------------------------------------
(* The public key, by position *)

\* curve_from_algorithm_identifier that takes what it does not know for P-256.
AssumingCurve(alg) ==
  IfOk(ReadTlv(alg, OID), LAMBDA algorithm :
    IF algorithm.value # ID_EC_PUBLIC_KEY THEN Err("Certificate")
    ELSE IfOk(ReadTlv(From(alg, algorithm.used + 1), OID), LAMBDA named :
           IF named.value = CurveOid("BrainpoolP256r1") THEN Ok("BrainpoolP256r1")
           ELSE Ok("P256")))

\* curve_from_algorithm_identifier
CurveFromAlgorithmIdentifier(alg) ==
  IfOk(ReadTlv(alg, OID), LAMBDA algorithm :
    IF algorithm.value # ID_EC_PUBLIC_KEY THEN Err("Certificate")
    ELSE IfOk(ReadTlv(From(alg, algorithm.used + 1), OID), LAMBDA named :
           IF \E curve \in CurveKind : CurveOid(curve) = named.value
           THEN Ok(CHOOSE curve \in CurveKind : CurveOid(curve) = named.value)
           ELSE Err("Certificate")))

\* What a BIT STRING holds, which must be whole octets.
BitStringOctets(input) ==
  IfOk(ReadTlv(input, BIT_STRING), LAMBDA bits :
    IF bits.value = <<>> THEN Err("Certificate")
    ELSE IF bits.value[1] # 0 THEN Err("Certificate")
    ELSE Ok(From(bits.value, 2)))

\* The key in a SubjectPublicKeyInfo.
KeyOf(spki) ==
  IfOk(ReadTlv(spki, SEQUENCE), LAMBDA alg :
  IfOk(CurveFromAlgorithmIdentifier(alg.value), LAMBDA curve :
  IfOk(BitStringOctets(From(spki, alg.used + 1)), LAMBDA octets :
    IF Len(octets) # PUBLIC_KEY_LEN THEN Err("Certificate")
    ELSE FromBytes(curve, octets))))

\* The key is in the seventh field of the TBS, or in the sixth if it begins
\* without a version.
KeyInFields(fields) ==
  LET index == IF fields # <<>> /\ fields[1].tag = VERSION THEN 7 ELSE 6
  IN  IF Len(fields) < index THEN Err("Certificate")
      ELSE IF fields[index].tag # SEQUENCE THEN Err("Certificate")
      ELSE KeyOf(fields[index].value)

\* The fields of a TBS, all of which must be readable.
TbsFields(tbs) ==
  LET fields == Walk(tbs, ReadTlvAny)
  IN  IF fields.clean THEN Ok(fields.tlvs) ELSE Err("Certificate")

\* extract_spki_public_key
ExtractSpkiPublicKey(der) ==
  IfOk(ReadTlv(der, SEQUENCE), LAMBDA cert :
  IfOk(ReadTlv(cert.value, SEQUENCE), LAMBDA tbs :
  IfOk(TbsFields(tbs.value), KeyInFields)))

\* from_der.  What webpki thinks of the structure is kept for information only,
\* and left out.
FromDer(der) ==
  IF der = <<>> THEN Err("Certificate")
  ELSE IfOk(ExtractSpkiPublicKey(der), LAMBDA key : Ok([der |-> der, public_key |-> key]))

\* The curve that a field of the TBS names, if it is a SubjectPublicKeyInfo.
NamedCurveIn(field) ==
  IF field.tag # SEQUENCE THEN None
  ELSE ToOption(
    IfOk(ReadTlv(field.value, SEQUENCE), LAMBDA inner :
    IfOk(ReadTlv(inner.value, OID), LAMBDA alg :
      IF alg.value # ID_EC_PUBLIC_KEY THEN Err("Certificate")
      ELSE IfOk(ReadTlv(From(inner.value, alg.used + 1), OID), LAMBDA curve :
             Ok(curve.value)))))

\* certificate_named_curve_oid: the first field that names a curve, whether or
\* not the curve is one of CurveKind.
CertificateNamedCurveOid(der) ==
  IfSome(ToOption(ReadTlvAny(der)), LAMBDA cert :
  IfSome(ToOption(ReadTlvAny(cert.value)), LAMBDA tbs :
  IfSome(FirstSuchThat(Walk(tbs.value, ReadTlvAny).tlvs, LAMBDA field : NamedCurveIn(field).some),
         NamedCurveIn)))

-----------------------------------------------------------------------------
(* What was signed, by position *)

\* What follows the TBS in a certificate: an algorithm, and the signature.
SignatureIn(after) ==
  IfOk(ReadTlv(after, SEQUENCE), LAMBDA alg : BitStringOctets(From(after, alg.used + 1)))

\* extract_tbs_and_signature that takes the TBS without its header.
HeadlessExtract(der) ==
  IfOk(ReadTlv(der, SEQUENCE), LAMBDA cert :
  IfOk(ReadTlv(cert.value, SEQUENCE), LAMBDA tbs :
  IfOk(SignatureIn(From(cert.value, tbs.used + 1)), LAMBDA signature :
    Ok([tbs |-> tbs.value, signature |-> signature]))))

\* extract_tbs_and_signature.  Where the TBS begins is worked out from the end
\* of the input.
ExtractTbsAndSignature(der) ==
  IfOk(ReadTlv(der, SEQUENCE), LAMBDA cert :
  IfOk(ReadTlv(cert.value, SEQUENCE), LAMBDA tbs :
  IfOk(SignatureIn(From(cert.value, tbs.used + 1)), LAMBDA signature :
    LET start == Len(der) - Len(cert.value)
    IN  IF start + tbs.used > Len(der) THEN Err("Certificate")
        ELSE Ok([tbs       |-> SubSeq(der, start + 1, start + tbs.used),
                 signature |-> signature]))))

\* verify_signed_by_key
VerifySignedByKey(der, key) ==
  IfOk(ExtractTbsAndSignature(der), LAMBDA parts :
    VerifyDer(key, parts.tbs, parts.signature))

-----------------------------------------------------------------------------
(* Attributes and extensions, by search *)

\* Where the octets occur (counted from 1) with at least one octet after them.
Occurrences(der, octets) ==
  {i \in 1 .. Len(der) - Len(octets) : SubSeq(der, i, i + Len(octets) - 1) = octets}

\* What a search makes of one occurrence: it goes on, or ends with an Option.
GoOn            == [done |-> FALSE]
EndWith(option) == [done |-> TRUE, option |-> option]

\* The option that the first occurrence ends with which ends the search.
Search(occurrences, At(_)) ==
  LET ending == {i \in occurrences : At(i).done}
  IN  IF ending = {} THEN None ELSE At(Min(ending)).option

\* A search ends with a value that can be read, and goes on after any other.
EndWithValue(tlv) == IF tlv.ok THEN EndWith(Some(tlv.val.value)) ELSE GoOn

\* subject_serial_number, where an occurrence of the identifier ends.
SerialNumberAt(der, tag) ==
  IF der[tag] \notin {PRINTABLE, UTF8} THEN GoOn
  ELSE IF tag = Len(der) THEN EndWith(None)
  ELSE EndWithValue(ReadShortTlv(From(der, tag)))

SubjectSerialNumber(der) ==
  Search(Occurrences(der, OID_SERIAL_NUMBER),
         LAMBDA i : SerialNumberAt(der, i + Len(OID_SERIAL_NUMBER)))

\* extension_value at the place where the value should be.
OctetsAt(der, i) ==
  IF i > Len(der) THEN EndWith(None)
  ELSE IF der[i] # OCTETS THEN GoOn
  ELSE IF i = Len(der) \/ der[i + 1] > 127 THEN EndWith(None)
  ELSE EndWithValue(ReadShortTlv(From(der, i)))

\* extension_value that expects the value to follow at once.
UncriticalExtensionAt(der, i) == OctetsAt(der, i)

\* extension_value, where an occurrence of the identifier ends: a BOOLEAN may
\* precede the value.
ExtensionAt(der, i) ==
  IF der[i] # BOOLEAN_TAG THEN OctetsAt(der, i)
  ELSE IF i = Len(der) \/ der[i + 1] > 127 THEN EndWith(None)
  ELSE OctetsAt(der, i + 2 + der[i + 1])

\* extension_value
ExtensionValue(der, oid) ==
  Search(Occurrences(der, oid), LAMBDA i : ExtensionAt(der, i + Len(oid)))

\* What is inside the SEQUENCE that is an extension's value.
ExtensionSequence(der, oid) == IfSome(ExtensionValue(der, oid), UnwrapSequence)

Value(tlv) == Some(tlv.value)

\* subject_alt_name: the content of the first GeneralName.
SubjectAltName(der) ==
  IfSome(ExtensionSequence(der, OID_SUBJECT_ALT_NAME), LAMBDA names :
  IfSome(ToOption(ReadShortTlv(names)), Value))

\* subject_key_identifier
SubjectKeyIdentifier(der) ==
  IfSome(ExtensionValue(der, OID_SUBJECT_KEY_IDENTIFIER), LAMBDA ext :
  IfSome(ToOption(ReadShortTlv(ext)), LAMBDA keyId :
    IF keyId.tag = OCTETS THEN Value(keyId) ELSE None))

\* authority_key_identifier: the first [0] member.
AuthorityKeyIdentifier(der) ==
  IfSome(ExtensionSequence(der, OID_AUTHORITY_KEY_IDENTIFIER), LAMBDA members :
  IfSome(FirstSuchThat(Walk(members, ReadShortTlv).tlvs, LAMBDA member : member.tag = KEY_ID),
         Value))

\* The identifier at the head of an entry of certificatePolicies, if there is one.
PolicyIn(entry) ==
  IF entry.tag # SEQUENCE THEN None
  ELSE IfSome(ToOption(ReadShortTlv(entry.value)), LAMBDA first :
         IF first.tag = OID THEN Value(first) ELSE None)

\* certificate_policies: what the entries name that can be read, up to the first
\* entry that cannot.
CertificatePolicies(der) ==
  IfSome(ExtensionSequence(der, OID_CERTIFICATE_POLICIES), LAMBDA list :
    LET Names(entries) == [i \in DOMAIN entries |-> PolicyIn(entries[i]).val]
    IN  Some(Names(Passing(Walk(list, ReadShortTlv).tlvs,
                           LAMBDA entry : PolicyIn(entry).some))))

\* rsp_roles
RspRoles(der) ==
  IfSome(CertificatePolicies(der), LAMBDA policies :
    Some(Passing(policies, LAMBDA oid : oid \in RSP_ROLE_OIDS)))

\* is_server_certificate_role
IsServerCertificateRole(der) ==
  IfSome(RspRoles(der), LAMBDA roles : Some(ToSet(roles) \cap AuthRoles # {}))

\* indicates_dp_pb_role
IndicatesDpPbRole(der) ==
  IfSome(CertificatePolicies(der), LAMBDA policies : Some(ToSet(policies) \cap PbRoles # {}))
=============================================================================
