-------------------------------- MODULE Sgp26 --------------------------------
(***************************************************************************)
(* sgp26.rs: a harness loads the published material of one curve from a    *)
(* directory, has it verified, and then signs with the keys in it.  Before *)
(* it is loaded, files get lost, misnamed, taken from the other curve or   *)
(* damaged.                                                                *)
(***************************************************************************)
EXTENDS Sgp26Files

CONSTANTS
  Message,     \* what is signed
  Fragile,     \* names whose key files may be damaged
  Chars,       \* what a character may be changed to
  MaxMishaps   \* bound: mishaps before loading

ASSUME BoundAssumption == MaxMishaps \in Nat

VARIABLES
  curve,       \* the curve that the harness wants
  files,       \* what is in the directory under each of that curve's names
  mishaps,     \* how many there have been
  outcome,     \* of loading
  verified,    \* the outcome of verifying
  signatures   \* what the harness has signed: by which key, what, the signature

vars == <<curve, files, mishaps, outcome, verified, signatures, signed>>

Pending == Err("pending")

Init ==
  /\ curve \in CurveKind
  /\ files = [name \in Name |->
       IF <<name, curve>> \in Published THEN File(<<name, curve>>, Intact) ELSE Missing]
  /\ mishaps = 0
  /\ outcome = Pending
  /\ verified = Pending
  /\ signatures = <<>>
  /\ signed = <<>>

-----------------------------------------------------------------------------
(* Mishaps *)

Replace(replaced) ==
  /\ outcome = Pending
  /\ mishaps < MaxMishaps
  /\ mishaps' = mishaps + 1
  /\ files' = replaced
  /\ UNCHANGED <<curve, outcome, verified, signatures, signed>>

Lose(name) == files[name] # Missing /\ Replace([files EXCEPT ![name] = Missing])

\* Another file of the kind has the name, one of the other curve's perhaps.
Misname(name, id) ==
  /\ SameKind(name, id[1])
  /\ Replace([files EXCEPT ![name] = File(id, Intact)])

\* Two names are exchanged, whether or not there are files under both.
Exchange(name, other) ==
  /\ SameKind(name, other)
  /\ files[name] # files[other]
  /\ Replace([files EXCEPT ![name] = files[other], ![other] = files[name]])

\* All files of a kind are the other curve's.
MixCurves(kind) ==
  LET other == CHOOSE c \in CurveKind : c # curve
  IN  Replace([name \in Name |->
        IF name \notin kind THEN files[name]
        ELSE IF <<name, other>> \in Published THEN File(<<name, other>>, Intact) ELSE Missing])

Damage(name, harm) ==
  /\ files[name] # Missing
  /\ files[name].harm = Intact
  /\ Replace([files EXCEPT ![name].harm = harm])

-----------------------------------------------------------------------------
(* Loading *)

\* Certificate::from_der, as far as it decides whether there is a certificate.
FromDer(file) ==
  IF file.harm = Garbled \/ file.id[1] = "CERT_S_SM_DSauth_INV_CURVE" THEN Err("Certificate")
  ELSE Ok(PublishedCertificate(file.id[1], file.id[2]))

\* The order in which load_curve_from reads, and what it cannot do without.
LoadOrder ==
  <<"CERT_EUICC", "PK_EUICC", "PK_S_SM_DPauth", "SK_S_SM_DPauth", "SK_EUM",
    "CERT_S_SM_DPpb", "SK_S_SM_DPpb", "CERT_S_SM_DPauth", "CERT_S_SM_DSauth_INV_SIGN",
    "CERT_S_SM_DPpb_VARA_SIG", "SK_S_SM_DPpb_SIG", "CERT_S_SM_DSauth_VARA_SIG",
    "SK_S_SM_DSauth_SIG", "CERT_S_SM_DSauth_INV_CURVE", "CERT_CI", "CERT_EUM",
    "SK_EUICC", "PK_S_EIMsign", "SK_S_EIMsign">>
Required ==
  {"CERT_EUICC", "PK_EUICC", "CERT_CI", "CERT_EUM", "SK_EUICC", "PK_S_EIMsign", "SK_S_EIMsign"}
Part == Range(LoadOrder)

\* The file that a part is read from: there are two names for one of them.
Source(name) ==
  IF name = "CERT_S_SM_DPauth" /\ files[name] = Missing THEN files["CERT_S_SM_DP2auth"]
  ELSE files[name]

\* One file, read and decoded; the certificate on a curve of its own is kept as it is.
Decode(name) ==
  LET file == Source(name)
  IN  IF file = Missing THEN Err("Certificate")
      ELSE CASE name = "CERT_S_SM_DSauth_INV_CURVE" -> Ok(file)
             [] name \in CertificateName \ {"CERT_S_SM_DSauth_INV_CURVE"} -> FromDer(file)
             [] name \in PublicName -> PublicKeyFromPem(curve, Text(file))
             [] name \in PrivateName -> PrivateKeyFromPem(curve, Text(file))

\* What load_curve_from makes of the parts.  Reading stops at the first file that is
\* required and cannot be had, or at a panic; any other that cannot be had is left out.
LoadCurveFrom(result) ==
  LET stops == {i \in DOMAIN LoadOrder :
                  \/ result[LoadOrder[i]] = Panic
                  \/ LoadOrder[i] \in Required /\ ~result[LoadOrder[i]].ok}
  IN  IF stops # {} THEN result[LoadOrder[Min(stops)]]
      ELSE Ok([curve |-> curve, part |-> [name \in Part |-> ToOption(result[name])]])

Load ==
  /\ outcome = Pending
  /\ \E result \in {[name \in Part |-> Decode(name)]} : outcome' = LoadCurveFrom(result)
  /\ UNCHANGED <<curve, files, mishaps, verified, signatures, signed>>

-----------------------------------------------------------------------------
(* Verifying *)

Has(m, name) == m.part[name].some

\* The public key of a part.
KeyIn(m, name) ==
  LET value == m.part[name].val
  IN  IF name \in CertificateName THEN value.key
      ELSE IF name \in PrivateName THEN PublicKeyOf(value)
      ELSE value

\* Public keys are compared by their points.
SamePoint(m, name, other) == KeyIn(m, name).point = KeyIn(m, other).point

\* Certificate::verify_signed_by
VerifySignedBy(m, name, issuer) == m.part[name].val.by = KeyIn(m, issuer)

\* verify that holds the card's private key against the public key beside it.
NeighbourVerify(m) ==
  IF ~SamePoint(m, "SK_EUICC", "PK_EUICC") THEN Err("Certificate")
  ELSE IF \/ ~VerifySignedBy(m, "CERT_EUICC", "CERT_EUM")
          \/ ~VerifySignedBy(m, "CERT_EUM", "CERT_CI") THEN Err("VerificationFailed")
  ELSE IF ~SamePoint(m, "SK_S_EIMsign", "PK_S_EIMsign") THEN Err("Certificate")
  ELSE Ok("consistent")

\* verify
Verify(m) ==
  IF ~SamePoint(m, "SK_EUICC", "CERT_EUICC") THEN Err("Certificate")
  ELSE IF \/ ~VerifySignedBy(m, "CERT_EUICC", "CERT_EUM")
          \/ ~VerifySignedBy(m, "CERT_EUM", "CERT_CI") THEN Err("VerificationFailed")
  ELSE IF \/ ~SamePoint(m, "SK_S_EIMsign", "PK_S_EIMsign")
          \/ Has(m, "SK_EUM") /\ ~SamePoint(m, "SK_EUM", "CERT_EUM")
          \/ /\ Has(m, "SK_S_SM_DPpb") /\ Has(m, "CERT_S_SM_DPpb")
             /\ \/ ~SamePoint(m, "SK_S_SM_DPpb", "CERT_S_SM_DPpb")
                \/ ~m.part["CERT_S_SM_DPpb"].val.pb THEN Err("Certificate")
  ELSE Ok("consistent")

VerifyMaterial ==
  /\ outcome.ok
  /\ verified = Pending
  /\ verified' = Verify(outcome.val)
  /\ UNCHANGED <<curve, files, mishaps, outcome, signatures, signed>>

-----------------------------------------------------------------------------
(* Signing *)

\* Where in the order of loading the keys are that have not signed yet.
Unused ==
  {at \in DOMAIN LoadOrder :
     /\ LoadOrder[at] \in PrivateName /\ Has(outcome.val, LoadOrder[at])
     /\ \A i \in DOMAIN signatures : signatures[i].name # LoadOrder[at]}

\* The harness signs with each of its keys in turn.
SignNext(message) ==
  /\ verified.ok
  /\ Unused # {}
  /\ LET name == LoadOrder[Min(Unused)]
         pair == outcome.val.part[name].val
     IN  /\ signed' = Log(signed, PublicKeyOf(pair), message)
         /\ signatures' = Append(signatures,
              [name |-> name, message |-> message, signature |-> Sign(signed', pair, message)])
  /\ UNCHANGED <<curve, files, mishaps, outcome, verified>>

Next ==
  \/ \E name \in Name :
       \/ Lose(name)
       \/ \E id \in Published : Misname(name, id)
       \/ \E other \in Name : Exchange(name, other)
       \/ name \in CertificateName /\ Damage(name, Garbled)
       \/ name \in PrivateName /\ Damage(name, Resaved)
       \/ /\ name \in Fragile
          /\ files[name] # Missing
          /\ \E harm \in Harms(files[name].id, Chars) : Damage(name, harm)
  \/ \E kind \in {CertificateName, PublicName, PrivateName} : MixCurves(kind)
  \/ Load
  \/ VerifyMaterial
  \/ \E message \in Message : SignNext(message)

Spec == Init /\ [][Next]_vars

-----------------------------------------------------------------------------
(* Properties *)

\* The types.  Every key that is loaded is on the curve that was asked for, though
\* verify compares points only (sgp26.rs 357).
TypeOK ==
  /\ curve \in CurveKind
  /\ DOMAIN files = Name
  /\ mishaps \in 0 .. MaxMishaps
  /\ outcome.ok =>
       \A name \in (PublicName \cup PrivateName) \cap Part : Has(outcome.val, name) =>
         /\ outcome.val.part[name].val \in IF name \in PublicName THEN Key ELSE KeyPair
         /\ outcome.val.part[name].val.curve = curve

\* What a file says, going by what it was published as: of two that were joined,
\* the last.
Said(file) ==
  LET id == IF file.harm.kind = "behind" THEN file.harm.id ELSE file.id
  IN  IF id[1] \in CertificateName THEN PublishedCertificate(id[1], id[2])
      ELSE IF id[1] \in PublicName THEN KeyOf(PublicHolder[id[1]], id[2])
      ELSE PairOf(PrivateHolder[id[1]], id[2])

\* Whatever line is lost and whatever character is another, a file is read as what
\* it was published as or not at all: no other key, and no key of a curve that was
\* not asked for, comes out of it (sgp26.rs 497-509, 582-609, 627-665).
ReadAsPublished ==
  outcome.ok =>
    \A name \in Part \ {"CERT_S_SM_DSauth_INV_CURVE"} :
      Has(outcome.val, name) => outcome.val.part[name].val = Said(Source(name))

\* A file is there, unharmed and of the curve; certificates are read on either.
Whole(name) ==
  LET file == Source(name)
  IN  /\ file # Missing
      /\ file.harm \in {Intact, Resaved}
      /\ \/ name = "CERT_S_SM_DSauth_INV_CURVE"
         \/ name \in CertificateName /\ file.id[1] # "CERT_S_SM_DSauth_INV_CURVE"
         \/ name \notin CertificateName /\ file.id[2] = curve

\* Loading fails only for want of a file that it requires, and no file that can be
\* read is left out: what is wrong with one optional file costs that file alone
\* (sgp26.rs 244-255), and a key that was saved as PKCS#8 is as good.
WholeFilesLoad ==
  /\ (\A name \in Required : Whole(name)) => outcome.ok \/ outcome \in {Pending, Panic}
  /\ outcome.ok => \A name \in Part : Whole(name) => Has(outcome.val, name)

\* load_curve_from returns an error rather than panicking if a file is missing or
\* malformed (sgp26.rs 212-214).
NeverPanics == outcome # Panic

\* Which loaded keys take a signature for their own, raw or in DER, under whatever
\* curve it is filed.
Verifiers(s) ==
  LET bytes  == s.signature.bytes
      Der(c) == IfOk(FromRaw(c, bytes), LAMBDA raw : TryToDer(raw))
  IN  {name \in Part \ {"CERT_S_SM_DSauth_INV_CURVE"} :
         /\ Has(outcome.val, name)
         /\ \/ VerifyRaw(KeyIn(outcome.val, name), s.message, bytes).ok
            \/ \E c \in CurveKind :
                 Der(c).ok /\ VerifyDer(KeyIn(outcome.val, name), s.message, Der(c).val).ok}

\* Whose public key is to verify what a private key signs.
Checked ==
  [SK_EUICC |-> {"CERT_EUICC"}, SK_S_EIMsign |-> {"PK_S_EIMsign"}, SK_EUM |-> {"CERT_EUM"},
   SK_S_SM_DPpb |-> {"CERT_S_SM_DPpb"}]
Counterparts ==
  [SK_EUICC |-> {"CERT_EUICC", "PK_EUICC"}, SK_S_EIMsign |-> {"PK_S_EIMsign"},
   SK_EUM |-> {"CERT_EUM"}, SK_S_SM_DPpb |-> {"CERT_S_SM_DPpb"},
   SK_S_SM_DPauth |-> {"CERT_S_SM_DPauth", "PK_S_SM_DPauth"},
   SK_S_SM_DPpb_SIG |-> {"CERT_S_SM_DPpb_VARA_SIG"},
   SK_S_SM_DSauth_SIG |-> {"CERT_S_SM_DSauth_VARA_SIG"}]

Loaded(names) == {name \in names : Has(outcome.val, name)}

\* Once material is verified, what the card, the eIM, the EUM and the binding key
\* sign verifies under the certificate or public key it is presented with, and the
\* card's certificate leads to the CI's on the material's own curve, whichever files
\* were misnamed, mixed or lost (sgp26.rs 353-406).
VerifiedSigns ==
  signatures # <<>> =>
    LET s == Last(signatures)
    IN  /\ s.name \in DOMAIN Checked => Loaded(Checked[s.name]) \subseteq Verifiers(s)
        /\ \A name \in Verifiers(s) : KeyIn(outcome.val, name) = KeyIn(outcome.val, s.name)
        /\ \A name \in {"CERT_CI", "CERT_EUM", "CERT_EUICC"} : KeyIn(outcome.val, name).curve = curve

\* A caller that gets Ok from verify can rely on the material (sgp26.rs 349-351): what
\* any of its private keys signs verifies under that key's certificate and public key.
VerifiedMaterialPairs ==
  signatures # <<>> =>
    Loaded(Counterparts[Last(signatures).name]) \subseteq Verifiers(Last(signatures))
=============================================================================
