----------------------------- MODULE Sgp26Proofs -----------------------------
(***************************************************************************)
(* What verify promises of the material that it was given, whatever was    *)
(* lost, misnamed or mixed before.                                         *)
(***************************************************************************)
EXTENDS Sgp26, WellFoundedInduction, SequenceTheorems, TLAPS

-----------------------------------------------------------------------------
(* Names *)

\* What is loaded, and nothing under two kinds of name.
LEMMA Names ==
  /\ CertificateName = {"CERT_CI", "CERT_EUM", "CERT_EUICC", "CERT_S_SM_DPauth",
        "CERT_S_SM_DP2auth", "CERT_S_SM_DPpb", "CERT_S_SM_DPpb_VARA_SIG",
        "CERT_S_SM_DSauth_INV_SIGN", "CERT_S_SM_DSauth_INV_CURVE",
        "CERT_S_SM_DSauth_VARA_SIG"}
  /\ PublicName = {"PK_EUICC", "PK_S_SM_DPauth", "PK_S_EIMsign"}
  /\ PrivateName = {"SK_EUICC", "SK_S_EIMsign", "SK_EUM", "SK_S_SM_DPauth",
        "SK_S_SM_DPpb", "SK_S_SM_DPpb_SIG", "SK_S_SM_DSauth_SIG"}
  BY DEF CertificateName, PublicName, PrivateName, CertificateHolder, PublicHolder, PrivateHolder

\* No name is of two kinds.
LEMMA Disjoint ==
  /\ CertificateName \cap PublicName = {}
  /\ CertificateName \cap PrivateName = {}
  /\ PublicName \cap PrivateName = {}
  BY Names

\* load reads nineteen files, all that there are names for but one.
LEMMA LoadOrderNames ==
  /\ DOMAIN LoadOrder = 1 .. 19
  /\ Part = Name \ {"CERT_S_SM_DP2auth"}
<1>1. /\ DOMAIN LoadOrder = 1 .. 19
      /\ LoadOrder[1] = "CERT_EUICC" /\ LoadOrder[2] = "PK_EUICC"
      /\ LoadOrder[3] = "PK_S_SM_DPauth" /\ LoadOrder[4] = "SK_S_SM_DPauth"
      /\ LoadOrder[5] = "SK_EUM" /\ LoadOrder[6] = "CERT_S_SM_DPpb"
      /\ LoadOrder[7] = "SK_S_SM_DPpb" /\ LoadOrder[8] = "CERT_S_SM_DPauth"
      /\ LoadOrder[9] = "CERT_S_SM_DSauth_INV_SIGN"
      /\ LoadOrder[10] = "CERT_S_SM_DPpb_VARA_SIG" /\ LoadOrder[11] = "SK_S_SM_DPpb_SIG"
      /\ LoadOrder[12] = "CERT_S_SM_DSauth_VARA_SIG" /\ LoadOrder[13] = "SK_S_SM_DSauth_SIG"
      /\ LoadOrder[14] = "CERT_S_SM_DSauth_INV_CURVE" /\ LoadOrder[15] = "CERT_CI"
      /\ LoadOrder[16] = "CERT_EUM" /\ LoadOrder[17] = "SK_EUICC"
      /\ LoadOrder[18] = "PK_S_EIMsign" /\ LoadOrder[19] = "SK_S_EIMsign"
  BY DEF LoadOrder
<1>2. \A i \in 1 .. 19 : i = 1 \/ i = 2 \/ i = 3 \/ i = 4 \/ i = 5 \/ i = 6 \/ i = 7 \/ i = 8
        \/ i = 9 \/ i = 10 \/ i = 11 \/ i = 12 \/ i = 13 \/ i = 14 \/ i = 15 \/ i = 16
        \/ i = 17 \/ i = 18 \/ i = 19
  OBVIOUS
<1>3. Part = {LoadOrder[i] : i \in 1 .. 19}
  BY <1>1 DEF Part, Range
<1>4. \A name \in Part : name \in Name \ {"CERT_S_SM_DP2auth"}
  BY <1>1, <1>2, <1>3, Names DEF Name
<1>5. \A name \in Name \ {"CERT_S_SM_DP2auth"} : \E i \in 1 .. 19 : LoadOrder[i] = name
  BY <1>1, Names DEF Name
<1> QED  BY <1>1, <1>3, <1>4, <1>5

\* A set of numbers has a least, which Min chooses.
LEMMA MinIsIn ==
  ASSUME NEW S \in SUBSET Nat, S # {}
  PROVE  Min(S) \in S
<1>1. PICK m \in S : \A k \in S : ~ (<<k, m>> \in OpToRel(<, Nat))
  BY NatLessThanWellFounded, WFMin
<1>2. \A k \in S : m <= k
  <2>1. \A k, l \in Nat : k < l => <<k, l>> \in OpToRel(<, Nat)
    BY DEF OpToRel
  <2>2. ASSUME NEW k \in S PROVE m <= k
    <3>1. ~(k < m) /\ k \in Nat /\ m \in Nat  BY <1>1, <2>1
    <3> QED  BY <3>1
  <2> QED  BY <2>2
<1> QED  BY <1>2 DEF Min

-----------------------------------------------------------------------------
(* Keys and certificates *)

\* The public key of a pair is in use, and on the pair's curve.
LEMMA PairKey ==
  ASSUME NEW pair \in KeyPair
  PROVE  PublicKeyOf(pair) \in Key /\ PublicKeyOf(pair).curve = pair.curve
  BY MultipleAssumption DEF PublicKeyOf

\* What a holder has is in use.
LEMMA HolderKeys ==
  ASSUME NEW h \in Holders, NEW c \in CurveKind
  PROVE  KeyOf(h, c) \in Key /\ KeyOf(h, c).curve = c
<1>1. ScalarOf[h, c] \in Scalar
  BY PublishedAssumption
<1>2. PairOf(h, c) \in KeyPair /\ PairOf(h, c).curve = c
  BY <1>1 DEF PairOf, KeyPair
<1> QED  BY <1>2, PairKey DEF KeyOf

\* The keys that a published certificate is about are on the curve it was published for.
LEMMA CertificateKeys ==
  ASSUME NEW name \in CertificateName, NEW c \in CurveKind
  PROVE  LET certificate == PublishedCertificate(name, c)
         IN  /\ certificate.key \in Key /\ certificate.key.curve = c
             /\ certificate.by \in Key => certificate.by.curve = c
<1>1. CertificateHolder[name] \in Holders
  BY DEF Holders, Range, CertificateName
<1>2. Issuer(name) \in Holders
  <2>1. CertificateHolder["CERT_EUM"] = "EUM" /\ CertificateHolder["CERT_CI"] = "CI"
        /\ "CERT_EUM" \in DOMAIN CertificateHolder /\ "CERT_CI" \in DOMAIN CertificateHolder
    BY DEF CertificateHolder
  <2>2. "EUM" \in Holders /\ "CI" \in Holders /\ "SubCA" \in Holders
    BY <2>1 DEF Holders, Range
  <2> QED  BY <2>2 DEF Issuer
<1>3. NoOne \notin Key
  BY KeyAssumption DEF NoOne
<1> QED  BY <1>1, <1>2, <1>3, HolderKeys DEF PublishedCertificate

\* A public key comes out of a file on the curve that was asked for or not at all.
LEMMA PublicKeyRead ==
  ASSUME NEW c, NEW lines, PublicKeyFromPem(c, lines).ok
  PROVE  PublicKeyFromPem(c, lines).val \in Key /\ PublicKeyFromPem(c, lines).val.curve = c
<1>1. \E bytes : PublicKeyFromPem(c, lines) = FromBytes(c, bytes)
  BY DEF PublicKeyFromPem, IfOk
<1> QED  BY <1>1 DEF FromBytes, Ok, Err

\* What is read from a PKCS#8 is a key pair on the curve that was asked for.
LEMMA Pkcs8Read ==
  ASSUME NEW c \in CurveKind, NEW der, FromPkcs8(c, der).ok
  PROVE  FromPkcs8(c, der).val \in KeyPair /\ FromPkcs8(c, der).val.curve = c
<1>1. Pkcs8Pairs(c, der) # {}
  BY DEF FromPkcs8, Err
<1>2. FromPkcs8(c, der).val \in Pkcs8Pairs(c, der)
  BY <1>1 DEF FromPkcs8, Ok
<1> QED  BY <1>2 DEF Pkcs8Pairs, KeyPair

\* And a private key.
LEMMA PrivateKeyRead ==
  ASSUME NEW c \in CurveKind, NEW lines, PrivateKeyFromPem(c, lines).ok
  PROVE  PrivateKeyFromPem(c, lines).val \in KeyPair /\ PrivateKeyFromPem(c, lines).val.curve = c
<1>1. \E der : PrivateKeyFromPem(c, lines) = FromPkcs8(c, der) /\ FromPkcs8(c, der).ok
  BY DEF PrivateKeyFromPem, IfOk
<1> QED  BY <1>1, Pkcs8Read

-----------------------------------------------------------------------------
(* Loading *)

\* In the directory there are published files only, each under a name of its kind.
FilesPublished ==
  /\ DOMAIN files = Name
  /\ \A name \in Name : files[name] # Missing =>
       /\ files[name].id \in Published
       /\ SameKind(name, files[name].id[1])

\* What is loaded: certificates that were published, and keys on the curve.
LoadedPart(m, name) ==
  m.part[name].some =>
    /\ name \in CertificateName \ {"CERT_S_SM_DSauth_INV_CURVE"} =>
         \E id \in CertificateName \X CurveKind :
           m.part[name].val = PublishedCertificate(id[1], id[2])
    /\ name \in PublicName => m.part[name].val \in Key /\ m.part[name].val.curve = curve
    /\ name \in PrivateName => m.part[name].val \in KeyPair /\ m.part[name].val.curve = curve

Loadable(m) ==
  /\ \A name \in Part : LoadedPart(m, name)
  /\ \A name \in Required : m.part[name].some

\* SameKind keeps certificates, public and private keys apart.
LEMMA Kinds ==
  ASSUME NEW m \in Name, NEW n, SameKind(m, n)
  PROVE  m \in CertificateName => n \in CertificateName
  BY Disjoint DEF SameKind

\* The file that a part is read from is one that was published, of its kind.
LEMMA SourcePublished ==
  ASSUME FilesPublished, NEW name \in Part, Source(name) # Missing
  PROVE  /\ Source(name).id \in Published
         /\ name \in CertificateName => Source(name).id[1] \in CertificateName
<1>1. name \in Name /\ "CERT_S_SM_DP2auth" \in Name /\ "CERT_S_SM_DP2auth" \in CertificateName
  BY LoadOrderNames, Names DEF Name
<1>2. CASE name = "CERT_S_SM_DPauth" /\ files[name] = Missing
  BY <1>1, <1>2, Kinds DEF Source, FilesPublished
<1>3. CASE ~(name = "CERT_S_SM_DPauth" /\ files[name] = Missing)
  BY <1>1, <1>3, Kinds DEF Source, FilesPublished
<1> QED  BY <1>2, <1>3

\* What is decoded is fit to be loaded.
LEMMA DecodedParts ==
  ASSUME FilesPublished, curve \in CurveKind, NEW name \in Part, Decode(name).ok
  PROVE  /\ name \in CertificateName \ {"CERT_S_SM_DSauth_INV_CURVE"} =>
              \E id \in CertificateName \X CurveKind :
                Decode(name).val = PublishedCertificate(id[1], id[2])
         /\ name \in PublicName => Decode(name).val \in Key /\ Decode(name).val.curve = curve
         /\ name \in PrivateName =>
              Decode(name).val \in KeyPair /\ Decode(name).val.curve = curve
<1>1. Source(name) # Missing
  BY DEF Decode, Err
<1>2. name \in Name
  BY LoadOrderNames
<1>3. CASE name \in CertificateName \ {"CERT_S_SM_DSauth_INV_CURVE"}
  <2>1. Decode(name) = FromDer(Source(name))
    BY <1>1, <1>3, Disjoint DEF Decode
  <2>2. Decode(name).val = PublishedCertificate(Source(name).id[1], Source(name).id[2])
    BY <2>1 DEF FromDer, Ok, Err
  <2>3. Source(name).id \in Name \X CurveKind /\ Source(name).id[1] \in CertificateName
    BY <1>1, <1>3, SourcePublished, PublishedAssumption
  <2>4. Source(name).id \in CertificateName \X CurveKind
    BY <2>3
  <2> QED  BY <1>3, <2>2, <2>4, Disjoint
<1>4. CASE name \in PublicName
  <2>1. Decode(name) = PublicKeyFromPem(curve, Text(Source(name)))
    BY <1>1, <1>4, Disjoint, Names DEF Decode
  <2> QED  BY <1>4, <2>1, PublicKeyRead, Disjoint
<1>5. CASE name \in PrivateName
  <2>1. Decode(name) = PrivateKeyFromPem(curve, Text(Source(name)))
    BY <1>1, <1>5, Disjoint, Names DEF Decode
  <2> QED  BY <1>5, <2>1, PrivateKeyRead, Disjoint
<1> QED  BY <1>3, <1>4, <1>5

\* A load that succeeds has everything that is required and nothing else than that.
LEMMA LoadedParts ==
  ASSUME FilesPublished, curve \in CurveKind,
         NEW result, result = [name \in Part |-> Decode(name)], LoadCurveFrom(result).ok
  PROVE  Loadable(LoadCurveFrom(result).val)
<1> DEFINE stops == {i \in DOMAIN LoadOrder :
                       \/ result[LoadOrder[i]] = Panic
                       \/ LoadOrder[i] \in Required /\ ~result[LoadOrder[i]].ok}
<1>1. stops = {}
  <2>1. SUFFICES ASSUME stops # {} PROVE FALSE
    OBVIOUS
  <2>2. stops \in SUBSET Nat
    BY LoadOrderNames
  <2>3. Min(stops) \in stops
    <3> HIDE DEF stops
    <3> QED  BY <2>1, <2>2, MinIsIn
  <2>4. ~result[LoadOrder[Min(stops)]].ok
    BY <2>3 DEF Panic, Err
  <2>5. LoadCurveFrom(result) = result[LoadOrder[Min(stops)]]
    BY <2>1 DEF LoadCurveFrom
  <2> QED  BY <2>4, <2>5
<1>2. PICK m : m = LoadCurveFrom(result).val
               /\ m.part = [name \in Part |-> ToOption(result[name])]
  <2>1. LoadCurveFrom(result) =
          Ok([curve |-> curve, part |-> [name \in Part |-> ToOption(result[name])]])
    BY <1>1 DEF LoadCurveFrom
  <2>2. LoadCurveFrom(result).val.part = [name \in Part |-> ToOption(result[name])]
    BY <2>1 DEF Ok
  <2> QED  BY <2>2, Zenon
<1>3. ASSUME NEW name \in Part PROVE LoadedPart(m, name)
  <2>1. m.part[name] = ToOption(Decode(name))
    BY <1>2
  <2>2. m.part[name].some => Decode(name).ok /\ m.part[name].val = Decode(name).val
    BY <2>1 DEF ToOption, Some, None
  <2> QED  BY <2>2, DecodedParts DEF LoadedPart
<1>4. ASSUME NEW name \in Required PROVE m.part[name].some
  <2>1. name \in Part
    BY LoadOrderNames, Names DEF Required, Name
  <2>2. PICK i \in DOMAIN LoadOrder : LoadOrder[i] = name
    BY <2>1 DEF Part, Range
  <2>3. Decode(name).ok
    BY <1>1, <2>1, <2>2
  <2> QED  BY <1>2, <2>1, <2>3 DEF ToOption, Some
<1> QED  BY <1>2, <1>3, <1>4 DEF Loadable

-----------------------------------------------------------------------------
(* Verifying *)

\* The key of a part that is loaded is in use, and if it is not a certificate's,
\* on the curve.
LEMMA KeysIn ==
  ASSUME curve \in CurveKind, NEW m, Loadable(m),
         NEW name \in Part \ {"CERT_S_SM_DSauth_INV_CURVE"}, Has(m, name)
  PROVE  /\ KeyIn(m, name) \in Key
         /\ name \notin CertificateName => KeyIn(m, name).curve = curve
<1>1. LoadedPart(m, name) /\ m.part[name].some /\ name \in Name
  BY LoadOrderNames DEF Loadable, Has
<1>2. CASE name \in CertificateName
  BY <1>1, <1>2, CertificateKeys DEF KeyIn, LoadedPart
<1>3. CASE name \in PublicName
  BY <1>1, <1>3, Disjoint DEF KeyIn, LoadedPart
<1>4. CASE name \in PrivateName
  <2>1. m.part[name].val \in KeyPair /\ m.part[name].val.curve = curve
    BY <1>1, <1>4 DEF LoadedPart
  <2>2. KeyIn(m, name) = PublicKeyOf(m.part[name].val)
    BY <1>4, Disjoint DEF KeyIn
  <2> QED  BY <1>4, <2>1, <2>2, PairKey, Disjoint
<1> QED  BY <1>1, <1>2, <1>3, <1>4 DEF Name

\* Two loaded keys with one point are one key.
LEMMA SameKey ==
  ASSUME curve \in CurveKind, NEW m, Loadable(m),
         NEW name \in Part \ {"CERT_S_SM_DSauth_INV_CURVE"}, Has(m, name),
         NEW other \in Part \ {"CERT_S_SM_DSauth_INV_CURVE"}, Has(m, other),
         SamePoint(m, name, other)
  PROVE  KeyIn(m, other) = KeyIn(m, name)
  BY KeysIn, PointAssumption DEF SamePoint

\* The pairs that verify compares are pairs (sgp26.rs 353-406).
LEMMA VerifiedPairs ==
  ASSUME curve \in CurveKind, NEW m, Loadable(m), Verify(m).ok,
         NEW name \in DOMAIN Checked, Has(m, name),
         NEW other \in Checked[name], Has(m, other)
  PROVE  KeyIn(m, other) = KeyIn(m, name)
<1>1. DOMAIN Checked = {"SK_EUICC", "SK_S_EIMsign", "SK_EUM", "SK_S_SM_DPpb"}
      /\ Checked["SK_EUICC"] = {"CERT_EUICC"} /\ Checked["SK_S_EIMsign"] = {"PK_S_EIMsign"}
      /\ Checked["SK_EUM"] = {"CERT_EUM"} /\ Checked["SK_S_SM_DPpb"] = {"CERT_S_SM_DPpb"}
  BY DEF Checked
<1>2. {"SK_EUICC", "SK_S_EIMsign", "SK_EUM", "SK_S_SM_DPpb", "CERT_EUICC", "PK_S_EIMsign",
       "CERT_EUM", "CERT_S_SM_DPpb"} \subseteq Part \ {"CERT_S_SM_DSauth_INV_CURVE"}
  BY LoadOrderNames, Names DEF Name
<1>3. /\ SamePoint(m, "SK_EUICC", "CERT_EUICC")
      /\ SamePoint(m, "SK_S_EIMsign", "PK_S_EIMsign")
      /\ Has(m, "SK_EUM") => SamePoint(m, "SK_EUM", "CERT_EUM")
      /\ Has(m, "SK_S_SM_DPpb") /\ Has(m, "CERT_S_SM_DPpb") =>
           SamePoint(m, "SK_S_SM_DPpb", "CERT_S_SM_DPpb")
  BY DEF Verify, Err
<1>4. SamePoint(m, name, other)
  BY <1>1, <1>3
<1>5. name \in Part \ {"CERT_S_SM_DSauth_INV_CURVE"}
      /\ other \in Part \ {"CERT_S_SM_DSauth_INV_CURVE"}
  BY <1>1, <1>2
<1> QED  BY <1>4, <1>5, SameKey

\* The card's certificate leads to the CI's on one curve.
LEMMA VerifiedChain ==
  ASSUME curve \in CurveKind, NEW m, Loadable(m), Verify(m).ok
  PROVE  \A name \in {"CERT_CI", "CERT_EUM", "CERT_EUICC"} : KeyIn(m, name).curve = curve
<1>1. /\ SamePoint(m, "SK_EUICC", "CERT_EUICC")
      /\ VerifySignedBy(m, "CERT_EUICC", "CERT_EUM")
      /\ VerifySignedBy(m, "CERT_EUM", "CERT_CI")
  BY DEF Verify, Err
<1>2. /\ {"SK_EUICC", "CERT_EUICC", "CERT_EUM", "CERT_CI"} \subseteq
           Part \ {"CERT_S_SM_DSauth_INV_CURVE"}
      /\ {"CERT_EUICC", "CERT_EUM", "CERT_CI"} \subseteq CertificateName
      /\ "SK_EUICC" \notin CertificateName
      /\ Has(m, "SK_EUICC") /\ Has(m, "CERT_EUICC") /\ Has(m, "CERT_EUM") /\ Has(m, "CERT_CI")
  BY LoadOrderNames, Names DEF Name, Loadable, Required, Has
<1>3. ASSUME NEW name \in {"CERT_EUICC", "CERT_EUM", "CERT_CI"}
      PROVE  /\ KeyIn(m, name) \in Key
             /\ m.part[name].val.by \in Key => m.part[name].val.by.curve = KeyIn(m, name).curve
  <2>1. PICK id \in CertificateName \X CurveKind :
          m.part[name].val = PublishedCertificate(id[1], id[2])
    BY <1>2, Names DEF Loadable, LoadedPart, Has
  <2>2. KeyIn(m, name) = PublishedCertificate(id[1], id[2]).key
    BY <1>2, <2>1 DEF KeyIn
  <2> QED  BY <2>1, <2>2, CertificateKeys
<1>4. KeyIn(m, "CERT_EUICC").curve = curve
  <2>1. KeyIn(m, "CERT_EUICC") = KeyIn(m, "SK_EUICC")
    BY <1>1, <1>2, SameKey
  <2> QED  BY <1>2, <2>1, KeysIn
<1>5. KeyIn(m, "CERT_EUM").curve = curve
  <2>1. m.part["CERT_EUICC"].val.by = KeyIn(m, "CERT_EUM")
    BY <1>1 DEF VerifySignedBy
  <2> QED  BY <1>3, <1>4, <2>1
<1>6. KeyIn(m, "CERT_CI").curve = curve
  <2>1. m.part["CERT_EUM"].val.by = KeyIn(m, "CERT_CI")
    BY <1>1 DEF VerifySignedBy
  <2> QED  BY <1>3, <1>5, <2>1
<1> QED  BY <1>4, <1>5, <1>6

-----------------------------------------------------------------------------
(* Signatures *)

\* The log has the number for what the key has signed.
Genuine(key, message, n) ==
  n \in DOMAIN signed /\ signed[n] = [key |-> key, message |-> message]

\* A raw signature is read on every curve on which its number is in range.
LEMMA SliceRead ==
  ASSUME NEW c, NEW n \in Nat \ {0}
  PROVE  SignatureFromSlice(c, <<n, n>>) =
           IF TooLargeFor(c, n) THEN Err("Malformed") ELSE Ok([curve |-> c, number |-> n])
<1>1. Len(<<n, n>>) = SIGNATURE_LEN /\ <<n, n>>[1] = n /\ <<n, n>>[2] = n
  BY DEF SIGNATURE_LEN, SCALAR_LEN
<1>2. 0 \notin Range(<<n, n>>)
  BY DEF Range
<1> QED  BY <1>1, <1>2 DEF SignatureFromSlice

\* What a key has signed under a number verifies under that key.
LEMMA OwnVerifies ==
  ASSUME NEW key \in Key, NEW message, NEW n \in Nat \ {0}, Genuine(key, message, n)
  PROVE  VerifyRaw(key, message, <<n, n>>).ok
<1>1. ~TooLargeFor(key.curve, n)
  BY DEF TooLargeFor, Genuine
<1>2. SignatureFromSlice(key.curve, <<n, n>>) = Ok([curve |-> key.curve, number |-> n])
  BY <1>1, SliceRead
<1>3. VerifyRaw(key, message, <<n, n>>) =
        VerifySignature(key, message, [curve |-> key.curve, number |-> n])
  BY <1>2 DEF VerifyRaw, IfOk, Ok
<1> QED  BY <1>3 DEF VerifySignature, Genuine, Ok

\* A raw signature that a curve can read has a DER: its number in a frame.
LEMMA ToDer ==
  ASSUME NEW c, NEW n,
         SignatureFromSlice(c, <<n, n>>) = Ok([curve |-> c, number |-> n])
  PROVE  TryToDer([curve |-> c, bytes |-> <<n, n>>]) = Ok(<<SEQUENCE, 1, n>>)
<1>1. PICK sig : sig = [curve |-> c, bytes |-> <<n, n>>]
  OBVIOUS
<1>2. SignatureFromSlice(sig.curve, sig.bytes) = Ok([curve |-> c, number |-> n])
  BY <1>1
<1>3. PICK s : s = [curve |-> c, number |-> n]
  OBVIOUS
<1>4. TryToDer(sig) = Ok(<<SEQUENCE, 1, s.number>>)
  <2>1. Ok(s).ok /\ Ok(s).val = s
    BY DEF Ok
  <2>2. PICK r : r = SignatureFromSlice(sig.curve, sig.bytes) /\ r.ok /\ r.val = s
    BY <1>2, <1>3, <2>1
  <2>3. TryToDer(sig) = IF r.ok THEN Ok(<<SEQUENCE, 1, r.val.number>>) ELSE r
    BY <2>2 DEF TryToDer, IfOk
  <2> QED  BY <2>2, <2>3
<1>5. s.number = n
  BY <1>3
<1> QED  BY <1>1, <1>4, <1>5

\* And under no other key, raw or in DER, whatever curve it is filed under
\* (ecdsa.rs 196-279).
LEMMA OnlyOwnVerifies ==
  ASSUME NEW key, NEW message, NEW n \in Nat \ {0},
         \/ VerifyRaw(key, message, <<n, n>>).ok
         \/ \E c \in CurveKind :
              LET der == IfOk(FromRaw(c, <<n, n>>), LAMBDA raw : TryToDer(raw))
              IN  der.ok /\ VerifyDer(key, message, der.val).ok
  PROVE  Genuine(key, message, n)
<1>1. ASSUME NEW s, s.number = n, VerifySignature(key, message, s).ok
      PROVE  Genuine(key, message, n)
  BY <1>1 DEF VerifySignature, Genuine, Err
<1>2. CASE VerifyRaw(key, message, <<n, n>>).ok
  <2>1. SignatureFromSlice(key.curve, <<n, n>>) = Ok([curve |-> key.curve, number |-> n])
    BY <1>2, SliceRead DEF VerifyRaw, IfOk, Err
  <2>2. VerifySignature(key, message, [curve |-> key.curve, number |-> n]).ok
    BY <1>2, <2>1 DEF VerifyRaw, IfOk, Ok
  <2> QED  BY <1>1, <2>2
<1>3. ASSUME NEW c \in CurveKind,
             IfOk(FromRaw(c, <<n, n>>), LAMBDA raw : TryToDer(raw)).ok,
             VerifyDer(key, message,
                       IfOk(FromRaw(c, <<n, n>>), LAMBDA raw : TryToDer(raw)).val).ok
      PROVE  Genuine(key, message, n)
  <2>1. PICK d : d = IfOk(FromRaw(c, <<n, n>>), LAMBDA raw : TryToDer(raw)).val
    OBVIOUS
  <2>2. d = <<SEQUENCE, 1, n>>
    <3>1. SignatureFromSlice(c, <<n, n>>) = Ok([curve |-> c, number |-> n])
      BY <1>3, SliceRead DEF IfOk, FromRaw, Err
    <3>2. FromRaw(c, <<n, n>>) = Ok([curve |-> c, bytes |-> <<n, n>>])
      BY <3>1 DEF FromRaw, IfOk, Ok
    <3>3. TryToDer([curve |-> c, bytes |-> <<n, n>>]) = Ok(<<SEQUENCE, 1, n>>)
      BY <3>1, ToDer
    <3> QED  BY <2>1, <3>2, <3>3 DEF IfOk, Ok
  <2>3. VerifyDer(key, message, d).ok
    BY <1>3, <2>1
  <2>4. SignatureFromDer(key.curve, d) = Ok([curve |-> key.curve, number |-> n])
    <3>1. d[3] = n
      BY <2>2
    <3> QED  BY <2>3, <3>1 DEF VerifyDer, IfOk, SignatureFromDer, Err
  <2>5. VerifySignature(key, message, [curve |-> key.curve, number |-> n]).ok
    BY <2>3, <2>4 DEF VerifyDer, IfOk, Ok
  <2> QED  BY <1>1, <2>5
<1> QED  BY <1>2, <1>3

-----------------------------------------------------------------------------
(* The invariant *)

SignatureRecord ==
  [name : PrivateName \cap Part, message : Message,
   signature : [curve : CurveKind, bytes : Seq(Nat)]]

\* A signature is in the log, by the key that it is said to be by.
SignedBy(s) ==
  /\ Has(outcome.val, s.name)
  /\ \E n \in Nat \ {0} :
       /\ s.signature = [curve |-> curve, bytes |-> <<n, n>>]
       /\ Genuine(KeyIn(outcome.val, s.name), s.message, n)

IInv ==
  /\ curve \in CurveKind
  /\ mishaps \in 0 .. MaxMishaps
  /\ signed \in Seq([key : Key, message : Message])
  /\ signatures \in Seq(SignatureRecord)
  /\ FilesPublished
  /\ outcome.ok => Loadable(outcome.val)
  /\ verified.ok => outcome.ok /\ verified = Verify(outcome.val)
  /\ signatures # <<>> => verified.ok
  /\ \A i \in DOMAIN signatures : SignedBy(signatures[i])

\* The published files are there, and nothing is loaded.
LEMMA InitInvariant == Init => IInv
<1> SUFFICES ASSUME Init PROVE IInv
  OBVIOUS
<1>1. FilesPublished
  <2>1. DOMAIN files = Name
    BY DEF Init
  <2>2. ASSUME NEW name \in Name, files[name] # Missing
        PROVE  files[name].id \in Published /\ SameKind(name, files[name].id[1])
    <3>1. files[name] = File(<<name, curve>>, Intact) /\ <<name, curve>> \in Published
      BY <2>2 DEF Init
    <3> QED  BY <3>1 DEF File, SameKind, Name
  <2> QED  BY <2>1, <2>2 DEF FilesPublished
<1>2. /\ signed \in Seq([key : Key, message : Message])
      /\ signatures \in Seq(SignatureRecord) /\ DOMAIN signatures = {}
  BY DEF Init
<1> QED  BY <1>1, <1>2, BoundAssumption DEF Init, IInv, Pending, Err

\* Mishaps leave published files under names of their kind.
LEMMA FilesStayPublished ==
  ASSUME FilesPublished, NEW replaced, DOMAIN replaced = Name,
         \A name \in Name : replaced[name] # Missing =>
           replaced[name].id \in Published /\ SameKind(name, replaced[name].id[1]),
         IInv, Replace(replaced)
  PROVE  IInv'
<1>1. FilesPublished'
  BY DEF FilesPublished, Replace
<1>2. mishaps' \in 0 .. MaxMishaps
  BY BoundAssumption DEF IInv, Replace
<1>3. UNCHANGED <<curve, outcome, verified, signatures, signed>>
  BY DEF Replace
<1>4. \A m : Loadable(m) => Loadable(m)'
  BY <1>3 DEF Loadable, LoadedPart
<1>5. \A s : SignedBy(s) => SignedBy(s)'
  BY <1>3 DEF SignedBy, Genuine
<1> QED  BY <1>1, <1>2, <1>3, <1>4, <1>5 DEF IInv

\* A file that may stand for another may stand for whatever that may stand for.
LEMMA SameKindOfOwn ==
  ASSUME NEW name \in Name, NEW other, SameKind(name, other)
  PROVE  \A third : SameKind(other, third) => SameKind(name, third)
  BY Disjoint DEF SameKind

\* Lost, misnamed, exchanged, mixed up or damaged.
LEMMA MishapInvariant ==
  ASSUME IInv,
         \/ \E name \in Name :
              \/ Lose(name)
              \/ \E id \in Published : Misname(name, id)
              \/ \E other \in Name : Exchange(name, other)
              \/ \E harm : Damage(name, harm)
         \/ \E kind \in {CertificateName, PublicName, PrivateName} : MixCurves(kind)
  PROVE  IInv'
<1>1. FilesPublished
  BY DEF IInv
<1>2. ASSUME NEW name \in Name, Lose(name) PROVE IInv'
  <2> DEFINE g == [files EXCEPT ![name] = Missing]
  <2>1. Replace(g)
    BY <1>2 DEF Lose
  <2>2. DOMAIN g = Name /\ \A n \in Name : g[n] = IF n = name THEN Missing ELSE files[n]
    BY <1>1, <1>2 DEF FilesPublished
  <2> HIDE DEF g
  <2> QED  BY <1>1, <2>1, <2>2, FilesStayPublished DEF FilesPublished
<1>3. ASSUME NEW name \in Name, NEW id \in Published, Misname(name, id) PROVE IInv'
  <2> DEFINE g == [files EXCEPT ![name] = File(id, Intact)]
  <2>1. Replace(g) /\ SameKind(name, id[1])
    BY <1>3 DEF Misname
  <2>2. DOMAIN g = Name
        /\ \A n \in Name : g[n] = IF n = name THEN File(id, Intact) ELSE files[n]
    BY <1>1, <1>3 DEF FilesPublished
  <2>3. File(id, Intact).id = id
    BY DEF File
  <2> HIDE DEF g
  <2> QED  BY <1>1, <1>3, <2>1, <2>2, <2>3, FilesStayPublished DEF FilesPublished
<1>4. ASSUME NEW name \in Name, NEW other \in Name, Exchange(name, other) PROVE IInv'
  <2> DEFINE g == [files EXCEPT ![name] = files[other], ![other] = files[name]]
  <2>1. Replace(g) /\ SameKind(name, other)
    BY <1>4 DEF Exchange
  <2>2. DOMAIN g = Name
        /\ \A n \in Name : g[n] = IF n = other THEN files[name]
                                  ELSE IF n = name THEN files[other] ELSE files[n]
    <3>1. name # other
      BY <1>4 DEF Exchange
    <3> QED  BY <1>1, <1>4, <3>1 DEF FilesPublished
  <2>3. \A third : /\ SameKind(other, third) => SameKind(name, third)
                   /\ SameKind(name, third) => SameKind(other, third)
    <3>1. SameKind(other, name)
      BY <2>1 DEF SameKind
    <3> QED  BY <1>4, <2>1, <3>1, SameKindOfOwn
  <2> HIDE DEF g
  <2> QED  BY <1>1, <1>4, <2>1, <2>2, <2>3, FilesStayPublished DEF FilesPublished
<1>5. ASSUME NEW name \in Name, NEW harm, Damage(name, harm) PROVE IInv'
  <2> DEFINE g == [files EXCEPT ![name].harm = harm]
  <2>1. Replace(g) /\ files[name] # Missing
    BY <1>5 DEF Damage
  <2>2. DOMAIN g = Name /\ \A n \in Name : n # name => g[n] = files[n]
    BY <1>1, <1>5 DEF FilesPublished
  <2>3. g[name] = [files[name] EXCEPT !.harm = harm]
    BY <1>1, <1>5 DEF FilesPublished
  <2>4. g[name].id = files[name].id
    <3> HIDE DEF g
    <3> QED  BY <2>3
  <2> HIDE DEF g
  <2> QED  BY <1>1, <1>5, <2>1, <2>2, <2>4, FilesStayPublished DEF FilesPublished
<1>6. ASSUME NEW kind \in {CertificateName, PublicName, PrivateName}, MixCurves(kind)
      PROVE  IInv'
  <2>1. PICK other : other = CHOOSE c \in CurveKind : c # curve
    OBVIOUS
  <2> DEFINE g == [name \in Name |->
          IF name \notin kind THEN files[name]
          ELSE IF <<name, other>> \in Published THEN File(<<name, other>>, Intact) ELSE Missing]
  <2>2. \A name \in Name : SameKind(name, name) /\ File(<<name, other>>, Intact).id = <<name, other>>
    BY DEF SameKind, Name, File
  <2>3. Replace(g) /\ DOMAIN g = Name /\ \A name \in Name : g[name] =
          IF name \notin kind THEN files[name]
          ELSE IF <<name, other>> \in Published THEN File(<<name, other>>, Intact) ELSE Missing
    BY <1>6, <2>1 DEF MixCurves
  <2> HIDE DEF g
  <2>4. ASSUME NEW name \in Name, g[name] # Missing
        PROVE  g[name].id \in Published /\ SameKind(name, g[name].id[1])
    <3>1. CASE name \notin kind
      BY <1>1, <2>3, <2>4, <3>1 DEF FilesPublished
    <3>2. CASE name \in kind
      <4>1. <<name, other>> \in Published /\ g[name].id = <<name, other>>
        BY <2>2, <2>3, <2>4, <3>2
      <4> QED  BY <2>2, <4>1
    <3> QED  BY <3>1, <3>2
  <2> QED  BY <1>1, <2>3, <2>4, FilesStayPublished
<1> QED  BY <1>2, <1>3, <1>4, <1>5, <1>6

\* Loading reads what the files make of their parts, and drops the verdict.
LEMMA LoadInvariant == IInv /\ Load => IInv'
<1> SUFFICES ASSUME IInv, Load PROVE IInv'
  OBVIOUS
<1>1. UNCHANGED <<curve, files, mishaps, verified, signatures, signed>> /\ outcome = Pending
  BY DEF Load
<1>2. ~outcome.ok
  BY <1>1 DEF Pending, Err
<1>3. ~verified.ok /\ signatures = <<>>
  BY <1>2 DEF IInv
<1>4. PICK result : result = [name \in Part |-> Decode(name)] /\ outcome' = LoadCurveFrom(result)
  BY DEF Load
<1>5. FilesPublished /\ curve \in CurveKind
  BY DEF IInv
<1>6. outcome'.ok => Loadable(outcome'.val)
  BY <1>4, <1>5, LoadedParts
<1>7. \A m : Loadable(m) <=> Loadable(m)'
  BY <1>1 DEF Loadable, LoadedPart
<1>8. FilesPublished'
  BY <1>1, <1>5 DEF FilesPublished
<1> QED  BY <1>1, <1>3, <1>6, <1>7, <1>8 DEF IInv

\* Verifying changes nothing but the verdict.
LEMMA VerifyInvariant == IInv /\ VerifyMaterial => IInv'
<1> SUFFICES ASSUME IInv, VerifyMaterial PROVE IInv'
  OBVIOUS
<1>1. UNCHANGED <<curve, files, mishaps, outcome, signatures, signed>> /\ outcome.ok
      /\ verified = Pending /\ verified' = Verify(outcome.val)
  BY DEF VerifyMaterial
<1>2. ~verified.ok
  BY <1>1 DEF Pending, Err
<1>3. signatures = <<>>
  BY <1>2 DEF IInv
<1>4. \A m : Loadable(m) => Loadable(m)'
  BY <1>1 DEF Loadable, LoadedPart
<1>5. FilesPublished'
  BY <1>1 DEF IInv, FilesPublished
<1>6. (Verify(outcome.val))' = Verify(outcome.val)
  BY <1>1 DEF Verify, SamePoint, VerifySignedBy, KeyIn, Has
<1> QED  BY <1>1, <1>3, <1>4, <1>5, <1>6 DEF IInv

\* What is signed is entered in the log, and the log keeps what it has.
LEMMA Logged ==
  ASSUME NEW log \in Seq([key : Key, message : Message]), NEW key \in Key,
         NEW message \in Message
  PROVE  /\ Log(log, key, message) \in Seq([key : Key, message : Message])
         /\ Number(Log(log, key, message), key, message) \in DOMAIN Log(log, key, message)
         /\ Log(log, key, message)[Number(Log(log, key, message), key, message)]
              = [key |-> key, message |-> message]
         /\ \A n \in DOMAIN log :
              n \in DOMAIN Log(log, key, message) /\ Log(log, key, message)[n] = log[n]
<1> DEFINE after == Log(log, key, message)
           entry == [key |-> key, message |-> message]
<1>1. /\ after \in Seq([key : Key, message : Message])
      /\ \A n \in DOMAIN log : n \in DOMAIN after /\ after[n] = log[n]
  <2>1. entry \in [key : Key, message : Message]
    OBVIOUS
  <2>2. after = log \/ after = Append(log, entry)
    BY DEF Log
  <2> HIDE DEF after, entry
  <2>3. PICK E : E = [key : Key, message : Message]
    OBVIOUS
  <2>4. log \in Seq(E) /\ entry \in E
    BY <2>1, <2>3
  <2>5. CASE after = Append(log, entry)
    <3>1. /\ after \in Seq(E) /\ Len(after) = Len(log) + 1
          /\ \A n \in 1 .. Len(log) : after[n] = log[n]
      BY <2>4, <2>5, AppendProperties
    <3>2. DOMAIN after = 1 .. Len(log) + 1 /\ DOMAIN log = 1 .. Len(log) /\ Len(log) \in Nat
      BY <2>4, <3>1
    <3> QED  BY <2>3, <3>1, <3>2
  <2> QED  BY <2>2, <2>3, <2>4, <2>5
<1>2. \E n \in DOMAIN after : after[n] = entry
  <2>1. CASE IsSigned(log, key, message)
    BY <2>1 DEF Log, IsSigned
  <2>2. CASE ~IsSigned(log, key, message)
    <3>1. after = Append(log, entry) /\ entry \in [key : Key, message : Message]
      BY <2>2 DEF Log
    <3> HIDE DEF after, entry
    <3>2. Len(log) + 1 \in DOMAIN after /\ after[Len(log) + 1] = entry
      BY <3>1, AppendProperties
    <3> QED  BY <3>2
  <2> QED  BY <2>1, <2>2
<1>3. Number(after, key, message) \in DOMAIN after
      /\ after[Number(after, key, message)] = entry
  <2> HIDE DEF after
  <2> QED  BY <1>2 DEF Number
<1> QED  BY <1>1, <1>3

\* A signature is entered in the log under the key of its part.
LEMMA SignInvariant ==
  ASSUME IInv, NEW message \in Message, SignNext(message)
  PROVE  IInv'
<1>1. UNCHANGED <<curve, files, mishaps, outcome, verified>> /\ verified.ok /\ Unused # {}
  BY DEF SignNext
<1>2. PICK name : name = LoadOrder[Min(Unused)]
  OBVIOUS
<1>3. name \in PrivateName \cap Part /\ Has(outcome.val, name)
  <2>1. Unused \subseteq Nat
    BY LoadOrderNames DEF Unused
  <2>2. Min(Unused) \in Unused
    BY <1>1, <2>1, MinIsIn
  <2> QED  BY <1>2, <2>2 DEF Unused, Part, Range
<1>4. PICK pair : pair = outcome.val.part[name].val
  OBVIOUS
<1>5. outcome.ok /\ Loadable(outcome.val) /\ curve \in CurveKind
  BY <1>1 DEF IInv
<1>6. pair \in KeyPair /\ pair.curve = curve
  BY <1>3, <1>4, <1>5 DEF Loadable, LoadedPart, Has
<1>7. PICK key \in Key : key = PublicKeyOf(pair) /\ key = KeyIn(outcome.val, name)
  <2>1. KeyIn(outcome.val, name) = PublicKeyOf(pair)
    BY <1>3, <1>4, Disjoint DEF KeyIn
  <2>2. PublicKeyOf(pair) \in Key
    BY <1>6, PairKey
  <2> QED  BY <2>1, <2>2
<1>8. /\ signed' = Log(signed, key, message)
      /\ signatures' = Append(signatures,
           [name |-> name, message |-> message, signature |-> Sign(signed', pair, message)])
  BY <1>2, <1>4, <1>7 DEF SignNext
<1>9. signed \in Seq([key : Key, message : Message]) /\ signatures \in Seq(SignatureRecord)
  BY DEF IInv
<1>10. PICK n : n = Number(signed', key, message)
  OBVIOUS
<1>11. /\ signed' \in Seq([key : Key, message : Message])
       /\ n \in DOMAIN signed' /\ signed'[n] = [key |-> key, message |-> message]
       /\ \A k \in DOMAIN signed : k \in DOMAIN signed' /\ signed'[k] = signed[k]
  BY <1>8, <1>9, <1>10, Logged
<1>12. n \in Nat \ {0}
  BY <1>11
<1>13. Sign(signed', pair, message) = [curve |-> curve, bytes |-> <<n, n>>]
  BY <1>6, <1>7, <1>10 DEF Sign
<1>14. PICK s \in SignatureRecord :
         /\ s = [name |-> name, message |-> message, signature |-> Sign(signed', pair, message)]
         /\ s.name = name /\ s.message = message
         /\ s.signature = [curve |-> curve, bytes |-> <<n, n>>]
  <2>1. <<n, n>> \in Seq(Nat)
    BY <1>12
  <2>2. [curve |-> curve, bytes |-> <<n, n>>] \in [curve : CurveKind, bytes : Seq(Nat)]
    BY <1>5, <2>1
  <2>3. [name |-> name, message |-> message, signature |-> Sign(signed', pair, message)]
          \in SignatureRecord
    BY <1>3, <1>13, <2>2 DEF SignatureRecord
  <2> QED  BY <1>13, <2>3
<1>15. SignedBy(s)'
  <2>1. Genuine(key, message, n)'
    BY <1>11 DEF Genuine
  <2>2. KeyIn(outcome.val, name)' = key
    BY <1>1, <1>7 DEF KeyIn
  <2>3. Has(outcome.val, name)'
    BY <1>1, <1>3 DEF Has
  <2> QED  BY <1>1, <1>12, <1>14, <2>1, <2>2, <2>3 DEF SignedBy, Genuine, KeyIn, Has
<1>16. ASSUME NEW t, SignedBy(t) PROVE SignedBy(t)'
  <2>1. PICK k \in Nat \ {0} :
          /\ t.signature = [curve |-> curve, bytes |-> <<k, k>>]
          /\ Genuine(KeyIn(outcome.val, t.name), t.message, k)
    BY <1>16 DEF SignedBy
  <2>2. Genuine(KeyIn(outcome.val, t.name), t.message, k)'
    BY <1>1, <1>11, <2>1 DEF Genuine, KeyIn
  <2> QED  BY <1>1, <1>16, <2>1, <2>2 DEF SignedBy, Genuine, KeyIn, Has
<1>17. /\ signatures' \in Seq(SignatureRecord)
       /\ \A i \in DOMAIN signatures' :
            IF i = Len(signatures) + 1 THEN signatures'[i] = s
            ELSE i \in DOMAIN signatures /\ signatures'[i] = signatures[i]
  BY <1>8, <1>9, <1>14, AppendProperties
<1>18. (\A i \in DOMAIN signatures : SignedBy(signatures[i]))'
  <2>1. \A i \in DOMAIN signatures : SignedBy(signatures[i])
    BY DEF IInv
  <2>2. ASSUME NEW i \in DOMAIN signatures' PROVE SignedBy(signatures[i])'
    <3>1. PICK t : t = signatures'[i] /\ SignedBy(t)'
      <4>1. CASE i = Len(signatures) + 1
        BY <1>15, <1>17, <4>1
      <4>2. CASE i # Len(signatures) + 1
        <5>1. PICK t : t = signatures[i] /\ signatures'[i] = t /\ SignedBy(t)
          BY <1>17, <2>1, <4>2
        <5> QED  BY <1>16, <5>1
      <4> QED  BY <4>1, <4>2
    <3> QED  BY <3>1 DEF SignedBy, Genuine, KeyIn, Has
  <2> QED  BY <2>2
<1>19. Loadable(outcome.val)' /\ FilesPublished'
  BY <1>1, <1>5 DEF Loadable, LoadedPart, IInv, FilesPublished
<1>20. (Verify(outcome.val))' = Verify(outcome.val)
  BY <1>1 DEF Verify, SamePoint, VerifySignedBy, KeyIn, Has
<1> QED  BY <1>1, <1>11, <1>17, <1>18, <1>19, <1>20 DEF IInv

LEMMA StutterInvariant == IInv /\ UNCHANGED vars => IInv'
<1> SUFFICES ASSUME IInv, UNCHANGED vars PROVE IInv'
  OBVIOUS
<1>1. UNCHANGED <<curve, files, mishaps, outcome, verified, signatures, signed>>
  BY DEF vars
<1>2. FilesPublished'
  BY <1>1 DEF IInv, FilesPublished
<1>3. \A m : Loadable(m) => Loadable(m)'
  BY <1>1 DEF Loadable, LoadedPart
<1>4. \A s : SignedBy(s) => SignedBy(s)'
  BY <1>1 DEF SignedBy, Genuine, Has, KeyIn
<1>5. (Verify(outcome.val))' = Verify(outcome.val)
  BY <1>1 DEF Verify, SamePoint, VerifySignedBy, KeyIn, Has
<1> QED  BY <1>1, <1>2, <1>3, <1>4, <1>5 DEF IInv

LEMMA AlwaysInvariant == Spec => []IInv
<1>1. IInv /\ [Next]_vars => IInv'
  <2> SUFFICES ASSUME IInv, [Next]_vars PROVE IInv'
    OBVIOUS
  <2>1. CASE Load  BY <2>1, LoadInvariant
  <2>2. CASE VerifyMaterial  BY <2>2, VerifyInvariant
  <2>3. CASE \E message \in Message : SignNext(message)  BY <2>3, SignInvariant
  <2>4. CASE UNCHANGED vars  BY <2>4, StutterInvariant
  <2>5. CASE \/ \E name \in Name :
                  \/ Lose(name)
                  \/ \E id \in Published : Misname(name, id)
                  \/ \E other \in Name : Exchange(name, other)
                  \/ \E harm : Damage(name, harm)
             \/ \E kind \in {CertificateName, PublicName, PrivateName} : MixCurves(kind)
    BY <2>5, MishapInvariant
  <2> QED  BY <2>1, <2>2, <2>3, <2>4, <2>5 DEF Next
<1> QED  BY <1>1, InitInvariant, PTL DEF Spec

-----------------------------------------------------------------------------
(* The theorems *)

\* Every key that is loaded is on the curve that was asked for, whatever became of
\* the files (sgp26.rs 497-665).
THEOREM KeysOnTheCurve == Spec => []TypeOK
<1>1. IInv => TypeOK
  <2> SUFFICES ASSUME IInv PROVE TypeOK
    OBVIOUS
  <2>1. ASSUME outcome.ok, NEW name \in (PublicName \cup PrivateName) \cap Part,
               Has(outcome.val, name)
        PROVE  /\ outcome.val.part[name].val \in IF name \in PublicName THEN Key ELSE KeyPair
               /\ outcome.val.part[name].val.curve = curve
    BY <2>1, Disjoint DEF IInv, Loadable, LoadedPart, Has
  <2> QED  BY <2>1 DEF IInv, TypeOK, FilesPublished
<1> QED  BY <1>1, AlwaysInvariant, PTL

\* Once material is verified, what is signed with a key that verify compared verifies
\* under its counterpart, under no other loaded key, and the card's chain is on one
\* curve (sgp26.rs 353-406).
THEOREM VerifiedMaterialSigns == Spec => []VerifiedSigns
<1>1. IInv => VerifiedSigns
  <2> SUFFICES ASSUME IInv, signatures # <<>> PROVE
        LET s == Last(signatures)
        IN  /\ s.name \in DOMAIN Checked => Loaded(Checked[s.name]) \subseteq Verifiers(s)
            /\ \A name \in Verifiers(s) : KeyIn(outcome.val, name) = KeyIn(outcome.val, s.name)
            /\ \A name \in {"CERT_CI", "CERT_EUM", "CERT_EUICC"} :
                 KeyIn(outcome.val, name).curve = curve
    BY DEF VerifiedSigns
  <2>1. PICK m : m = outcome.val
    OBVIOUS
  <2>2. Loadable(m) /\ curve \in CurveKind /\ Verify(m).ok
    BY <2>1 DEF IInv
  <2>3. PICK s \in SignatureRecord : s = Last(signatures) /\ SignedBy(s)
    <3>1. signatures \in Seq(SignatureRecord) /\ Len(signatures) \in DOMAIN signatures
      BY DEF IInv
    <3> QED  BY <3>1 DEF Last, IInv
  <2>4. PICK n \in Nat \ {0} : s.signature = [curve |-> curve, bytes |-> <<n, n>>]
                               /\ Genuine(KeyIn(m, s.name), s.message, n)
    BY <2>1, <2>3 DEF SignedBy
  <2>5. Has(m, s.name) /\ s.signature.bytes = <<n, n>>
    BY <2>1, <2>3, <2>4 DEF SignedBy
  <2>6. ASSUME s.name \in DOMAIN Checked, NEW other \in Checked[s.name], Has(m, other)
        PROVE  other \in Verifiers(s)
    <3>1. KeyIn(m, other) = KeyIn(m, s.name)
      BY <2>2, <2>5, <2>6, VerifiedPairs
    <3>2. other \in Part \ {"CERT_S_SM_DSauth_INV_CURVE"}
      BY <2>6, LoadOrderNames, Names DEF Checked, Name
    <3>3. KeyIn(m, other) \in Key
      BY <2>2, <2>6, <3>2, KeysIn
    <3>4. VerifyRaw(KeyIn(m, other), s.message, <<n, n>>).ok
      BY <2>4, <3>1, <3>3, OwnVerifies
    <3> QED  BY <2>1, <2>5, <2>6, <3>2, <3>4 DEF Verifiers
  <2>7. ASSUME NEW name \in Verifiers(s)
        PROVE  KeyIn(m, name) = KeyIn(m, s.name)
    <3>1. \/ VerifyRaw(KeyIn(m, name), s.message, <<n, n>>).ok
          \/ \E c \in CurveKind :
               LET der == IfOk(FromRaw(c, <<n, n>>), LAMBDA raw : TryToDer(raw))
               IN  der.ok /\ VerifyDer(KeyIn(m, name), s.message, der.val).ok
      BY <2>1, <2>5, <2>7 DEF Verifiers
    <3>2. Genuine(KeyIn(m, name), s.message, n)
      BY <3>1, OnlyOwnVerifies
    <3> QED  BY <2>4, <3>2 DEF Genuine
  <2>8. \A name \in {"CERT_CI", "CERT_EUM", "CERT_EUICC"} : KeyIn(m, name).curve = curve
    BY <2>2, VerifiedChain
  <2> QED  BY <2>1, <2>3, <2>6, <2>7, <2>8 DEF Loaded
<1> QED  BY <1>1, AlwaysInvariant, PTL
=============================================================================
