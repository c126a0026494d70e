# A verification development for euicc-crypto

`euicc-crypto` is the cryptographic layer of an eUICC (SGP.22 remote SIM
provisioning): protection of profile commands (BSP), the key derivation it rests
on, the framing of TLVs and signatures, certificates, the CI keys a card trusts
and test material. It is a library. It runs on the thread of its caller, keeps
nothing on disk, and almost all of it is functions: the state that can go wrong
(a MAC chain, a block counter, a byte buffer, a set of keys) is passed in by
callers. So the state machines here are those callers, and each of their steps
is one whole call of the crate.

## The system

| Part | State | Operations | What makes it correct |
|---|---|---|---|
| BSP protection, `bsp.rs` | chaining value (the caller's slice), block number (the caller's counter) | `wrap_encrypt`, `wrap_mac_only`, `unwrap_encrypt`, `unwrap_mac_only`, `encode`, `decode` | accepted blocks are the host's, in order, without a gap; a failed call leaves no trace; a good block is never refused for ever |
| Key derivation, `bsp_keys.rs`, `x963.rs` | none | `derive`, `from_key_data`, `is_well_formed`, `x963_kdf`, `bsp_shared_info` | different sessions have different keys; the three keys are different |
| CBC-128, `cbc128.rs` | none | `encrypt`, `decrypt`, `pad`, `unpad`, `icv` | padding is unambiguous; what a wrong block number does |
| Framing, `wire.rs` | none (callers keep a buffer) | `read_tlv`, `der_length`, `encode_signature*`, `parse_signature*` | truncated input is an error; octet counts are exact; readers and writers agree at every length |
| CI key set, `ci.rs` | the keys, in order of addition | `add`, `verify_server_certificate` | neither order nor truncation decides whether a certificate is accepted; acceptance is stable |
| ECDH, `ecdh.rs` | an ephemeral private key, consumed by use | `generate`, `agree` | one agreement per key, failures included; matching secrets only where each side was given the other's point |
| AEAD, `aead.rs` | a key; nonces are the caller's | `seal`, `open` | no nonce twice under one key; records open once, in order, and in the end |
| ECDSA, `ecdsa.rs` | key pairs | `sign`, `verify`, `from_raw`, `to_der`, `from_pkcs8`, `to_pkcs8` | each curve's verifier sees only its own keys and encodings |
| X.509, `x509.rs` | a parsed certificate | readers, `verify_signed_by`, `rsp_roles` | the signed bytes are those that are parsed; roles are read as issued |
| SGP.26 material, `sgp26.rs` | loaded certificates and keys | `load_curve_from`, `verify`, PEM and base64, `eid` | what is loaded is what was published; what is verified can be relied on; a bad optional file costs itself only |
| Test PKI, `testpki.rs` | keys and certificates | `new`, `issue_*` | issued certificates chain to the CI and carry the asked role |
| Hashes, `kdf.rs` | none | `sha256`, `hkdf_sha256`, `hmac`, `constant_time_eq` | calls of other crates; the limit on what HKDF expands to |

How they meet: `ecdh` gives a secret to `kdf` and `aead` or to `bsp_keys`, which gives keys and the
first chaining value to `bsp`; `bsp` calls `cbc128` for the field and `wire` for
lengths and TLVs. `ci` asks `x509` whether a key verifies a certificate, `x509`
asks `ecdsa`, and `sgp26` asks both for everything it reads from a file. `tests/authenticate_server.rs` puts `ci`, `ecdsa`, `wire` and
`testpki` together in one exchange.

What is hard here: the order of effects inside a call that can fail half-way
(the C-MAC is checked, then the field decrypted, then the chain moved); two sides
that must move a chain by the same rule over a transport that loses, repeats,
reorders and damages; a block number that nothing authenticates; encodings at
the edges of their length forms; concatenations that must be injective
(SharedInfo, the C-MAC's input, padding); a search over keys in which order,
duplicates and truncation must not matter; a certificate of which some parts are found
by position and others by search; parts of parallel exchanges that meet at one card;
sessions that are replaced on one side first while their keys, counters and records live
on; a directory of files that belong together only by their names. There are no threads, no timeouts and
no restarts to model.

## The modules

| Module | Models |
|---|---|
| `Results` | `Result` and `Error` of `lib.rs` |
| `BspKeys` | `bsp_keys.rs` and `x963.rs`. SharedInfo is the real byte string; the hash is symbolic |
| `Bsp` | one operator per function of `bsp.rs` and for `cbc128::encrypt`/`decrypt`. A C-MAC is known by the seed of its chain and the log of what has been MACed since. Wraps and unwraps return the chaining value they leave, because the code updates the caller's slice |
| `BspSession` | host, card and the transport between them. `HostWrapEncrypt`, `HostWrapMacOnly`, `CardUnwrapEncrypt`, `CardUnwrapMacOnly` are one call each, failing calls included. `hostChain` and `cardChain` are the two slices |
| `OrderedDelivery` | what a session promises, with no cryptography in it |
| `Cbc128` | `cbc128.rs` byte by byte over any block cipher: `icv`, `pad`, `unpad`, `encrypt`, `decrypt` |
| `Wire` | `read_tlv`, `read_length`, `der_length`, `encoded_tag`, `encode`, `decode` and signature fields, octet by octet over any byte size |
| `WireStream` | a sender, a byte stream cut anywhere, and a reader that calls `decode` and `parse_signature_bytes` on what has arrived |
| `CiKeySet` | `add`, `ids_match` and `verify_server_certificate` |
| `Der` | the DER writer of `testpki.rs` and the two readers of `x509.rs`: `read_tlv*` over any length form, and the short-form reader used inside extensions. `IfOk` and `IfSome` are the code's question marks |
| `Ecdsa` | keys on two curves and DER signatures: `from_bytes`, `sign_der`, `verify_der`, the dispatch on the curve |
| `X509` | every reader of `x509.rs` over the octets of a certificate: key and signature by position, extensions and serialNumber by search, roles |
| `TestPki` | certificates from their making to their reading. `New`, `IssueFor`, `IssueForEntity`, `IssueWithRole` and `IssueWithoutEntity` are the functions of `testpki.rs`, each with the whole certificate it writes; `IssueForeign` is another authority; `Read*` hand a certificate to the reader whole, cut, damaged, or with another behind it |
| `AuthenticateServer` | the exchange of `tests/authenticate_server.rs` among many servers and cards: `AddCiKey`, `ServerSigns` (step 1), `CardAnswers` (2 to 4), `ServerVerifies` (5) |
| `Authentication` | what that exchange is for, without certificates or signatures |
| `Ecdh`, `Kdf`, `Aead` | `agree`, `hkdf_sha256` and `Key::new`, `seal`, `open`, with everything they refuse |
| `SecureChannel` | a host and a card that use them. `Generate`, `Establish` (one `agree`, failing or not, with the expansion and `Key::new` behind it), `SealNext`, `OpenNext`. The ephemeral keys, session keys and counters are the callers' |
| `SecureDelivery` | what sessions promise: one ordered channel per key |
| `KeyPairs` | the rest of `ecdsa.rs`: private keys, raw signatures, PKCS#8 |
| `Pem` | the key files of `sgp26.rs`: armour line by line, `base64_decode`, `extract_sec1_point`, `sec1_private_to_pkcs8` |
| `Sgp26Files` | the files that the GSMA publishes and what can become of one; nothing of it is code of the crate but the names |
| `Sgp26` | a directory, `Load` (`load_curve_from`), `VerifyMaterial` (`verify`) and `SignNext` (`KeyPair::sign` with each loaded key in turn), after mishaps with files |
| `MC*` | values of the constants for TLC |
| `*Proofs` | theorems and proofs |

`BspSession` EXTENDS `Bsp`, which EXTENDS `BspKeys`; it INSTANCEs
`OrderedDelivery` as the abstract specification that it implements. `WireStream`
EXTENDS `Wire`. `Cbc128` stands under `Bsp`: `Bsp` treats decryption as a set of
outcomes, and `Cbc128` is where the outcomes for a wrong block number come from
(`WrongNumberGarblesFirstBlock`). `Wire` stands under it too: `Bsp` takes C-MACs of
different blocks to be different, and `MacInputsUnambiguous` says that what they
are computed over is.
`SecureChannel` EXTENDS `Ecdh`, `Kdf` and `Aead` and implements `SecureDelivery`.
`TestPki` EXTENDS `X509`, which EXTENDS `Ecdsa` and `Der`. `Sgp26` EXTENDS `Sgp26Files`,
`Pem`, `KeyPairs` and `Ecdsa`, each the next; a certificate in it is what its readers find in
it, which is what `TestPki` is about. `AuthenticateServer` takes
`Verify` from an INSTANCE of `CiKeySet` and implements `Authentication`; that the key in
a certificate verifies just what its issuer signed is what `TestPki` is about.

Definitions whose comment says what is wrong with them (`UnchainedFullCmac`,
`EagerUnwrapEncrypt`, `LazyPad`, ...) are the code with one plausible mistake. No
specification uses them; each is put in the place of the definition that follows
it to see that a property notices.

### What is symbolic

Hash, block cipher and CMAC are perfect in `BspKeys` and `Bsp`: different inputs
give different outputs, and the eight octets of a C-MAC that are sent stand for all
sixteen. In `Cbc128` the cipher is any permutation of blocks per key. In `CiKeySet`
which key verifies which certificate is a relation. In `Ecdsa` every signature ever made
stands in a log, and its octets are its number there: it verifies for one message and
one key. Nothing else in them says which curve they are for, except that some numbers
(`OutOfRange`) are scalars that only P-256 can carry. In `TestPki` a key's hash is the one
octet that tells keys apart, keys are two octets and identifiers are cut to what tells
them apart; every structure, tag and length is real, so that long length forms occur.
In `AuthenticateServer` a signature is its key and its message.

In `SecureChannel` a point is its length, its first octet, its X coordinate and which of the
two points with that X coordinate it is; the secret of two keys is the set of their X
coordinates, in either sign. A ciphertext is what it was made from and its length, and `open`
gives back what went in or nothing. Real GCM keeps that promise only while no nonce is used
twice, which is why `NonceUsedOnce` comes first. Points that a stranger generated do not
arrive: who a point comes from is settled outside these functions (by the signatures of the
RSP session), and repeated, reflected, negated and malformed points do arrive.

In `KeyPairs` and `Pem` a scalar is one octet and a point three, of which the last two
determine each other, so that most octets are no point, as on a curve; DER, base64, lines
and labels are real. Reading PKCS#8 is the inverse of writing it, with what is optional
there or not: it belongs to the `p256` and `bp256` crates. In `Sgp26` a certificate is its
key, the key that verifies it, and whether it has the role dp-pb; every published
certificate has policies, so that "not readable" does not occur.

Wording of errors is left
out, their variant kept.

## The runs

| Run | Question | Bounds |
|---|---|---|
| `disciplined` | do callers who follow the rules have ordered delivery, and in the end all of it? What if the two sides derive differently? | 3 blocks; payloads of 1 cipher block, 3 cipher blocks, and one at the length limit; six inputs to the derivation that differ in secret, key type, the boundary between HostID and EID, and key length |
| `free` | what does the chain guarantee with no discipline at all? | 3 blocks, 2 payloads, all tags and numbers |
| `cbc128` | is padding unambiguous, and what does a wrong number do? | 2-octet blocks of 2-bit octets, every plaintext and ciphertext of up to 4 octets, 2 keys, 3 numbers |
| `wire` | does everything sent come out once, in order, whole? | 4-bit octets (forms change at 8 and 16), bodies of 2, 7, 8, 15 and 16 octets, tags of one and two octets, 2 TLVs, pieces of any size |
| `ci_keys` | do order, duplicates and truncation matter? | up to 3 keys under identifiers of 0 to 2 octets, 3 certificates |
| `certificates` | do the readers read what the writer wrote, does it verify as it should, and can a certificate say something else and still verify? | a chain on each curve, and one certificate more of any kind, or one of two of another authority (with serialNumbers in both names and a subjectKeyIdentifier; on a curve that is not supported); an entity long enough for a long length; cut anywhere, or followed by any other certificate; in the certificates of one chain and two more, any one octet replaced by any of twelve that are tags, lengths or markers |
| `channel` | do sessions keep nonces, keys and records apart while they are replaced, and does everything sealed come out? | 4 ephemeral keys, 2 records, a payload that is empty and one that is not; keys and nonces of right and wrong lengths, HKDF beyond its limit; points that are repeated, reflected, negated or none; records whole, cut to the tag and below it |
| `sgp26` | what do files that are lost, misnamed, mixed or damaged do? | every file of variant O on both curves; one mishap: any file gone, under another name of its kind or of the other curve, two exchanged, all of a kind of the other curve; in four key files any run of lines lost, any character replaced by any of nine, any other key file put behind |
| `auth_server` | do parallel exchanges stay apart, and do they end? | 2 servers, 2 cards, 2 CIs, up to 2 keys per card, 2 exchanges, 2 transaction identifiers |
| `cert_serial`, `sgp26_panic`, `sgp26_verify` | is this sentence of the documentation true? | as above; each ends in a counterexample |

Why these bounds are enough: three blocks are the fewest in which one can be lost
between two that arrive, or swapped while a third depends on both; the sizes
cross one cipher block and the limit of 0xFFFF; two blocks of plaintext show both
the block an ICV reaches and one it does not; the byte size of `wire` is small so
that every change of form is crossed by short bodies; three keys allow a
duplicate and a better or a worse match on either side of it.

Two chains bring every pair of curves together in `VerifiesUnderIssuerOnly`; one damaged
octet is enough to change any length, tag, identifier or value, and two exchanges are
enough to mix. Four ephemeral keys are two sessions on both sides, so that one can replace
the other at either side first; two records can be repeated, swapped or lost one behind the
other, or stand in different sessions. One mishap is enough for each thing `verify` compares,
because it compares two files at a time; two that hide each other (both halves of a pair
exchanged for another pair) leave material that is consistent.

`cbc128`, `wire`, `auth_server`, `channel` and `sgp26` run with deadlock checking off: a caller makes at most
two calls in the first, everything sent has been read in the second, and the bounded
exchanges of the third come to an end, as keys and records do in the fourth; in the last a
directory is loaded once, and a load that fails is the end of it.

### What the properties say

* `AcceptedIsPrefix` (any calls, any transport): the entries in the card's chain
  are a prefix of those in the host's.
* `NextBlockAccepted`: in every reachable state the next block unwraps to what was
  put in it. A failing unwrap that had moved the chain would break it.
* `DeliveredIsPrefix`, `DeliversInOrder`: what disciplined callers get back; the second
  is refinement of `OrderedDelivery`.
* `AllDelivered`: everything protected is delivered.
* `MismatchDeliversNothing`, `ProtectedUnderGoodKeys`: SharedInfo separates sessions,
  and keys that `is_well_formed` refuses never protect anything. The code does not
  call `is_well_formed`; the lengths are caught by `full_cmac` and `aes_key`, and that
  the keys differ is up to the split.
* `TypeOK` of `BspSession`: besides the types, no length that two octets cannot say is
  ever MACed, though padding may carry a payload over the limit.
* `RoundTrip`, `WrongNumberGarblesFirstBlock` of `Cbc128`, and `StripsMarkerAndZeroes`: of
  any input that decrypts to whole blocks, what comes off is the last marker and the zeroes
  behind it, whole blocks of them too, and anything that does not end so is an error. That is
  more than `pad` adds, and not what the documentation of `unpad` says (see below).
* `ReceivedIsPrefix`, `AllReceived`, `MacInputsDiffer` of `WireStream`.
* `AcceptanceStands`, `OutcomesOnlyImprove`, `TruncationHarmless`, `OrderIrrelevant` of
  `CiKeySet`, the last over every order of the keys there are; its `TypeOK` also says that no key under an empty identifier is ever
  selected.
* `KeyAsIssued`, `SubjectAsIssued`: two files written apart agree on every field of a
  certificate, those that are found by position (the key and its curve) and those that are
  found by a search. What they do not agree on is a long extension, which reads as if it
  were not there. Agreement on any role would not show a wrong one, so
  `SubjectAsIssued` also says which certificate of a chain authenticates a server, which binds
  profiles, that no other does either, and that these two name one entity (`ServesInChain`).
  The chain as it was before the card looked at roles breaks it (`BindingEumChain`).
* `VerifiesUnderIssuerOnly`: across curves too, since a signature does not name its curve.
* `VerifiedMeansIssued`: extensions are searched for in everything, not in what was signed,
  and still no single changed octet, nor another certificate behind it, makes a certificate
  that verifies say something else. A whole extension among the octets of the outer
  signatureAlgorithm, which nothing signs, is beyond the bounds of the run.
* `VerifiedKeyWasIssued`: the TBS that is read is found from the front, the TBS that is
  verified from the end. With nothing behind the certificate they are the same octets, so a
  key that is read out of octets that verify is one which the verifying key has certified,
  whatever happened to them on the way.
* `CutIsRefused`, `CurveReadersAgree` of `TestPki`.
* `AcceptedWasSigned`, `ImplementsAuthentication`, `TrustedExchangeFinishes` of
  `AuthenticateServer`. EuiccSigned1 does not repeat the card's own challenge; that it leads
  back to one exchange rests on servers not repeating theirs.

* `NonceUsedOnce`, `KeysMatch`, `DeliversInOrder` (refinement of `SecureDelivery`) and
  `AllOpened` of `SecureChannel`. That the counter may start again with every session rests
  on `agree` taking its key by value: with an `agree` that borrows it, an old point that
  arrives again brings back an old session's keys under a fresh counter
  (`BorrowingEstablish`).
* `ReadAsPublished` of `Sgp26`: whatever becomes of the lines and characters of a file, the
  key that was published comes out of it or none. For a private key this rests on its DER
  holding the public key too, which `sec1_private_to_pkcs8` keeps: without it a
  changed character is another key (`ScalarToPkcs8`).
* `WholeFilesLoad`: loading fails for no other reason than a required file, and leaves
  nothing out that can be read. A panic is none of its outcomes: an optional file that takes
  down the whole load is what `NeverPanics` finds.
* `VerifiedSigns`: what the four pairs that `verify` compares sign verifies under each other,
  raw and in DER, under no other loaded key, and all of the chain is on one curve though
  only points are compared. Its `TypeOK` says that of every loaded key.

### Fairness

`BspSession!FairSpec` asks for one thing: if the card misses a block, the block is in
the end handed to it intact, with its number. The crate has no retransmission; it
is the caller that repeats. The property is then about the crate: no sequence of
bad calls in between puts the card in a state that refuses the good one.
`WireStream!FairSpec` asks that octets in flight arrive and that a reader with a
whole TLV reads it. `AuthenticateServer!FairSpec` asks that the messages of an exchange are
in the end delivered intact, to the card and back. `SecureChannel!FairSpec` asks that the
record a side misses in the session it has is in the end handed to it intact; if the side
replaces its session before that, `AllOpened` asks for nothing. Nothing is assumed fair about sending,
about adding or generating keys, or about anything that arrives otherwise.

## Where documentation and code disagree

* `sgp26.rs:212-214` says that `load` returns an error rather than panicking if a file is
  malformed. A public key file without its body lines decodes to nothing, and
  `extract_sec1_point` looks at the first octet of it; one whose DER is shorter than a point
  and begins with 0x04 is sliced beyond its end. An optional file does it too
  (`sgp26_panic`). `ReadAsPublished` and `WholeFilesLoad` hold with that outcome among them.
* `sgp26.rs:349-351` says that a caller of `verify` that gets `Ok` can rely on the material.
  `PK_EUICC` is compared with nothing, and the DPauth, DSauth and DPpb-as-DPauth keys are not
  compared with their certificates, though the comments on those fields say that the halves
  must pair (`sgp26_verify`; the four pairs that are compared are `VerifiedSigns`).
* `x509.rs:88-97` says that `subject_serial_number` walks to the subject. It takes the first
  serialNumber in the certificate, which is the issuer's if that has one (`cert_serial`).

More that no run is spent on:

* `cbc128.rs:70-72` says that an input without a marker in its final block is reported.
  `unpad` looks for the marker in the whole input, so a final block of nothing but zeroes is
  stripped, and all such blocks before it, if a marker stands before them. Nothing that
  `encrypt` makes ends so. `StripsMarkerAndZeroes` says exactly what is accepted and what comes
  off, for any input.
* `cbc128.rs:241-243`, a test, is commented as if a wrong block number were always noticed:
  for a field of two blocks or more it never is, and `WrongNumberGarblesFirstBlock` says
  exactly what is returned.
* `ci.rs:9-12` says that an empty list is an outcome of its own. It is `NoMatch`, as one of
  the module's tests expects.
* `testpki.rs:238-239` says that `issue_for` makes what an AuthenticateServer exchange needs as
  its `serverCertificate`. It writes the role dp-pb, and `is_server_certificate_role` says
  no to it.
* `wire.rs:229`, a test, says that non-minimal lengths are rejected: leading zeroes are, 0x81
  before a value under 0x80 is not.
* `x509.rs:730-731` says that the TBS is taken from just after the outer header: it is
  counted from the end of the input, so a certificate with anything behind it is read but
  does not verify (`ExtractTbsAndSignature`).
* `sgp26.rs:625-626` says that `base64_decode` rejects rather than guesses. It takes a pad
  anywhere in a group as zero bits, drops what more than two pads leave, and ignores bits
  that belong to no octet (`Octets`).
* `sgp26.rs:427` says that any non-digit in an EID is an error; the letters A to F are not.
* `sgp26.rs:268` says of two spellings of the DPauth certificate "try both"; the second is
  tried only if there is no file under the first, not if that cannot be parsed (`Source`).
* `sgp26.rs:399` checks the role of the binding certificate only if its key is there too, and
  takes unreadable policies for agreement, which `x509.rs:418-420` asks callers not to.
* `ecdh.rs:5` sends the reader to `crate::kdf` for the KDF of an RSP session, which is the
  X9.63 one of `x963.rs`.

## The proofs

Checked by TLAPS for every value of the constants that their ASSUMEs allow.

* `BspSessionProofs`. `IInv` adds to the types what each variable knows of the others:
  the C-MAC of the host's block k is the chain up to its entry k; entry k MACs the
  field of block k under the host's S-MAC, and that field holds payload k; the host's
  and the card's chains start from the derived seeds; the card's log is a prefix of
  the host's; if the inputs differ, the card's log is empty; and for disciplined
  callers block k is encrypted under number k exactly if its tag says so, and as much
  is delivered as is accepted. None of the theorems is inductive without it:
  that the card accepts only block k next follows from what a C-MAC in the wire
  can be. `HostStep` and `CardStep` carry it over the two kinds of step;
  `TypeCorrect`, `Indivisible`, `Separated`, `DeliveredInOrder` and
  `ImplementsOrderedDelivery` are read off it.
  The same module has the keys: `SharedInfoInjective` by the position of the length octets,
  and `SameMacKeySameInput` from it. And it has recovery. `IInv` does not say how a block was
  made; `Sealed` adds it: the seeds of both chains and of every C-MAC, the length of the MAC
  key once anything has been protected, and that every field is one of the two forms of its
  payload. With it `full_cmac` over the next block succeeds and gives the C-MAC that the
  block carries (`NextTlvFits`), so the unwrap succeeds: `Recovers`. `OnlyUnderGoodKeys` is
  `Sealed` with the three cuts of the key data.
* `Cbc128Proofs`. `PaddingRoundTrip` for every block length; `OnlyMarkerAndZeroesStripped`
  is an invariant of every use of `decrypt`, from what `unpad` accepts (`UnpadAccepts`) and
  what it takes off (`UnpadStrips`). For CBC itself: the recursive functions of `encrypt`
  and `decrypt` exist, cutting octets into blocks and joining them again is the identity,
  the i-th block comes back because the cipher is a bijection and xor cancels, and only the
  first block sees the initial vector. From this `OwnPlaintextComesBack`, and, for a wrong
  block number, whose initial vector is another one, `OnlyFirstBlockGarbled`. Assumed of xor
  that it is commutative and cancels, of the cipher that each key's is a bijection, and that
  block numbers fit a block.
* `WireProofs`. A proper tag, and a length as `der_length` writes it, end where their
  first octet says; so headers delimit themselves (`UniquelyDecodable`), so the C-MAC's
  input does (`MacInputInjective`), for every octet size of at least 8. The same of reading:
  while what has arrived is a proper beginning of an encoding, `read_tlv` fails, and from
  then on it returns what was encoded, whatever follows (`ReadsWhatWasWritten`). For the
  stream, `IInv` says that the octets sent are encodings laid end to end, that the receiver
  stands at the end of the last one it took, and that what has arrived and what is in flight
  are the rest: `StreamInOrder`. Assumed of what is sent: tags with a proper spelling, a
  protected TLV never under the signature's tag, and values that a two-octet length carries.

* `CiKeySetProofs`. Adding a key keeps every candidate and can only add the new position,
  so the first good one stays the first (`AcceptanceKept`, hence `Stands`) and no
  outcome gets worse (`Improves`). `TruncationNeverRefuses` and `OrderNeverDecides` hold of
  any key set; the first rests on what prefixes of one sequence have to do with each
  other, the second on another order losing no entry (`Reordered`).

* `AuthenticateServerProofs`. `IInv` adds to the types where signatures come from (`Founded`:
  a server's from one of its exchanges, a card's from something it accepted) and that
  challenges number exchanges. So a signature that verifies leads back to one exchange
  (`ServersSignature`, `CardsSignature`, `SameExchange`), whatever it arrived with:
  `OnlySignedAccepted`, and step by step `ExchangeAuthenticates`.

* `SecureChannelProofs`. `IInv` adds to the types: a session's secret is that of its own key
  and its peer's, and both exist (`Shaped`); nothing has been done under keys of the future
  (`Known`); an ephemeral key that is ready is part of no secret that its owner has used
  (`Fresh`), which holds because `agree` consumes it; the two sides never have one key
  (`Distinct`); the n-th record under a key carries nonce n - 1 (`Numbered`); and the
  counters of a session say how much has been done under its keys (`Counted`).
  `NonceUsedOnce` is not inductive by itself: that a counter that starts again starts
  under new keys is `Fresh` with `Counted`. `NoNonceTwice`, `KeysAgree`, and, step by step,
  `ImplementsSecureDelivery` follow.

* `CertificateProofs`. The reader of `x509.rs` against the writer of `testpki.rs`, octet by
  octet. Written out, the recursion of `read_length`, of the walk over TLVs and of the log
  are functions; that they exist and what they are is shown first (`Upwards`, `Backwards`).
  `ReadsWhatTlvWrote`: of a TLV that was written, the reader returns the value if all of it
  is there, and fails on any beginning of it; `ReadsFirst` is the same with anything behind
  it, `WalkWritten` for TLVs laid end to end, `ReadsWithin` for octets that nobody wrote.
  `TbsIs` says that a TBS is eight TLVs, which ones, and that none before the seventh looks
  like a key; so the key is found by position (`KeyByPosition`), the curve by shape at the
  same field (`FoundByShape`), and the signed octets are cut out whole (`ExtractIs`).
  `IInv` says what the variables know of each other: the log has at most four entries per
  chain and one per other certificate, so that the number of each fits its octet; every
  certificate was assembled from what was asked for and from the number of its entry; nothing
  is in the log but what certificates state; what is read was sent, and is the beginning of
  it if it is shorter. Without the second `OneIssuer` is not inductive, without the third
  `VerifiedKeys`. `CertificatesAreOctets`, `TheEndIsMissed`, `OneIssuer`, `KeyArrives` and
  `VerifiedKeys` follow. `VerifiedKeys` holds for any octets at all in the place of the
  certificate; the run has one changed octet. `OneCurve` states `CurveReadersAgree` of the
  readings that are `Undisturbed`: that begin with a whole certificate, that have lost their
  end, or that verify with nothing behind them.
  `SubjectArrives` is about the parts that are found by a search of all octets. `Bears` says
  of octets that the identifier of each extension in a set is in them once, with the value
  behind it that is stated, and that no other is in them at all. It goes from parts to
  wholes: octets put behind others can complete an identifier only across the seam
  (`SeamIs`), which they do not if they open as a TLV does (`Opens`: no tag that is written
  is an octet of an identifier past its first, and that of a BIT STRING, which is, has no 85
  for a length here). So a TLV bears what its value does (`BearsInTlv`), a certificate what its
  extensions do (`TbsBears`, `CertificateBears`), and a search ends where they say with the
  value if its length is short, and with nothing if it is not (`Searched`); the readers of
  each value (`NamesRead`, `KeyIdsRead`, `PoliciesRead`, `RolesTold`) do the rest.
  What a chain is for follows from that (`ChainRequests`, `StatedServes`).
  Assumed: a TBS is shorter than 65500 octets, because `der_length` writes no longer length
  (`LengthAssumption`); every certificate's number is one octet (`BoundAssumption`); keys
  differ in the octet that stands for their hash (`FingerprintAssumption`); what another
  authority certifies on one of the two curves is a key, and its names are attributes
  (`ForeignAssumption`). `SubjectArrives` cites two more: a role is so short that its
  extension needs no long length (`RoleAssumption`), and the names, the key, the role and the
  entity of a request hold no identifier of an extension (`IdentifierAssumption`). The second
  is what the code takes for granted: `extension_value` would take such octets for the
  extension. TLC evaluates it for everything that the run asks for, the two requests like the
  published ones included. Hashes and signatures are symbols here, and hold none either; in the
  code they are octets, of which five given ones begin at a given place once in 2^40.

* `Sgp26Proofs`. `IInv` says of a directory, after any number of mishaps, that each file is
  one that was published, of the kind its name says, whatever became of its lines and
  characters; of a loaded certificate that it was published, and of a loaded key that it is on
  the curve that was asked for; that verified material passed `Verify`, and nothing is signed
  with any other; and that every signature stands in the log under the public half of the
  loaded key that made it. `KeysOnTheCurve` and `VerifiedMaterialSigns` follow:
  the second because `Verify` compares points, and two keys with one point are one key if
  they are on one curve. Assumed: keys are uncompressed points, no point is on both curves
  (`PointAssumption`), and a published private key is in use (`PublishedAssumption`).

Only model-checked, and why:

* `VerifiedMeansIssued` of `TestPki`, and `CurveReadersAgree` of octets that were changed and
  that no key verifies or that have something behind them. They are not true of every value of
  the constants: a search finds its identifier wherever it is, and a changed octet outside what
  is signed, or what follows a certificate, can complete one; and what was changed can be a
  field that looks like a key in front of the key. The run shows them for the certificates that
  the crate makes and for two like the published ones.
* `ReadAsPublished` and `WholeFilesLoad` of `Sgp26`: what damaged base64 decodes to, and
  whether that is a point on the curve, depends on the values of the characters.
* What must happen in the end (`AllDelivered`, `AllReceived`, `AllOpened`,
  `TrustedExchangeFinishes`): liveness is beyond the prover.

## Not modelled

* `Sgp26VariantO::eid`, `eid_ascii` and `hex_nibble`: two readers of a loaded certificate's
  serialNumber, which `TestPki` is about (`SerialIsTheSubjects`).
* `bsp::cmac_raw`, `sha256`, `hmac` and `constant_time_eq`: one call each of another crate.
* `KeyPair::generate_on`: one more scalar.
* Two mishaps with SGP.26 files at once, and damage to certificate files octet by octet,
  which is `certificates`' subject.
* The certificates of the sub-CA of variant A, which the loader does not read.
* Curve arithmetic, hashes and ciphers themselves, `webpki`, `Debug` and `Display` output, the
  vendored certificates as data.

What more could be proved: `ReadAsPublished` for files that lose whole lines, which leave no
point of the right length; and `VerifiedMeansIssued` for one changed octet: it is outside what
was signed if the certificate still verifies (`VerifiedKeys`), and `Bears` says what is there.
