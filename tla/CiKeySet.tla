------------------------------ MODULE CiKeySet ------------------------------
(***************************************************************************)
(* The CI keys that a card trusts, and the choice of the one that verifies *)
(* a server certificate (ci.rs).                                           *)
(*                                                                         *)
(* Which key verifies which certificate is a relation: verify_signed_by_   *)
(* key is asked once per candidate and only whether it succeeds matters.   *)
(***************************************************************************)
EXTENDS Integers, Sequences, SequencesExt

CONSTANTS
  Id,         \* identifiers that keys are stored under and requested by
  Key,        \* public keys
  Cert,       \* server certificates
  Verifies,   \* the pairs <<certificate, key>> for which verification succeeds
  MaxKeys     \* bound: keys that are added to the set

ASSUME KeySetAssumption == MaxKeys \in Nat
ASSUME IdAssumption == \A id \in Id : id \in Seq(Nat)
ASSUME VerifiesAssumption == Verifies \subseteq Cert \X Key

VARIABLES
  keys,      \* the set: its entries in the order they were added
  verdict    \* the last call of verify_server_certificate, if there was one

vars == <<keys, verdict>>

Entry == [id : Id, key : Key]

-----------------------------------------------------------------------------
(* Selection *)

\* ids_match that takes the request to be the whole identifier.
OneSidedIdsMatch(stored, requested) ==
  stored # <<>> /\ requested # <<>> /\ IsPrefix(stored, requested)

\* ids_match that leaves out the check of the stored identifier.
CarelessIdsMatch(stored, requested) ==
  requested # <<>> /\ (IsPrefix(stored, requested) \/ IsPrefix(requested, stored))

\* ids_match: either may be a truncation of the other, neither may be empty.
IdsMatch(stored, requested) ==
  /\ stored # <<>> /\ requested # <<>>
  /\ IsPrefix(stored, requested) \/ IsPrefix(requested, stored)

Accepted(entry)  == [accepted |-> TRUE, entry |-> entry]
Refused(failure) == [accepted |-> FALSE, failure |-> failure]

\* The candidates, narrowed to those with the longest identifier.
BestCandidates(set, requested) ==
  LET matching == {i \in DOMAIN set : IdsMatch(set[i].id, requested)}
  IN  {i \in matching : \A j \in matching : Len(set[i].id) >= Len(set[j].id)}

Candidates(set, requested) == {i \in DOMAIN set : IdsMatch(set[i].id, requested)}

\* The candidates whose key verifies the certificate.
Verifying(set, requested, cert) ==
  {i \in Candidates(set, requested) : <<cert, set[i].key>> \in Verifies}

FirstOf(indices) == CHOOSE i \in indices : \A j \in indices : i <= j
LastOf(indices)  == CHOOSE i \in indices : \A j \in indices : j <= i

\* verify_server_certificate that gives up after its first candidate.
ImpatientVerify(set, requested, cert) ==
  LET candidates == Candidates(set, requested)
  IN  IF requested = <<>> THEN Refused("Unspecified")
      ELSE IF candidates = {} THEN Refused("NoMatch")
      ELSE IF FirstOf(candidates) \notin Verifying(set, requested, cert)
        THEN Refused("SignatureInvalid")
      ELSE Accepted(set[FirstOf(candidates)])

\* verify_server_certificate that prefers the key added last.
LatestVerify(set, requested, cert) ==
  LET good == Verifying(set, requested, cert)
  IN  IF requested = <<>> THEN Refused("Unspecified")
      ELSE IF Candidates(set, requested) = {} THEN Refused("NoMatch")
      ELSE IF good = {} THEN Refused("SignatureInvalid")
      ELSE Accepted(set[LastOf(good)])

\* verify_server_certificate: the first candidate, in the order they were
\* added, that verifies the certificate.
Verify(set, requested, cert) ==
  LET good == Verifying(set, requested, cert)
  IN  IF requested = <<>> THEN Refused("Unspecified")
      ELSE IF Candidates(set, requested) = {} THEN Refused("NoMatch")
      ELSE IF good = {} THEN Refused("SignatureInvalid")
      ELSE Accepted(set[FirstOf(good)])

-----------------------------------------------------------------------------

NoCall == [made |-> FALSE]

Init == keys = <<>> /\ verdict = NoCall

Add(id, key) ==
  /\ Len(keys) < MaxKeys
  /\ keys' = Append(keys, [id |-> id, key |-> key])
  /\ UNCHANGED verdict

VerifyServerCertificate(requested, cert) ==
  /\ verdict' = [made |-> TRUE, requested |-> requested, cert |-> cert,
                 out |-> Verify(keys, requested, cert)]
  /\ UNCHANGED keys

Next ==
  \/ \E id \in Id, key \in Key : Add(id, key)
  \/ \E requested \in Id, cert \in Cert : VerifyServerCertificate(requested, cert)

Spec == Init /\ [][Next]_vars

-----------------------------------------------------------------------------

\* The types, and that no certificate is accepted by a key that is stored under
\* the empty identifier (ci.rs 125-128).
Named == [id : Id \ {<<>>}, key : Key]

TypeOK ==
  /\ keys \in Seq(Entry)
  /\ verdict \in {NoCall} \cup
       [made : {TRUE}, requested : Id, cert : Cert,
        out : {Accepted(e) : e \in Named}
              \cup {Refused(f) : f \in {"Unspecified", "NoMatch", "SignatureInvalid"}}]

\* An accepted certificate stays accepted, by the same key, whatever keys are
\* added afterwards: a later key under the same or a shorter identifier never
\* takes over (ci.rs 62-66).
AcceptanceStands ==
  verdict.made /\ verdict.out.accepted =>
    Verify(keys, verdict.requested, verdict.cert) = verdict.out

\* Adding a key never makes things worse: an outcome only ever moves from
\* "no match" to "signature invalid" to accepted.
Rank(out) ==
  IF out.accepted THEN 2 ELSE IF out.failure = "SignatureInvalid" THEN 1 ELSE 0

OutcomesOnlyImprove ==
  [][\A requested \in Id, cert \in Cert :
       Rank(Verify(keys, requested, cert)) <= Rank(Verify(keys', requested, cert))]_keys

\* A request may be truncated (ci.rs 88-89): whoever is accepted by a long
\* identifier is accepted by every shorter form of it that says anything.
TruncationHarmless ==
  \A long, short \in Id, cert \in Cert :
    /\ short # <<>> /\ IsPrefix(short, long)
    /\ Verify(keys, long, cert).accepted
    => Verify(keys, short, cert).accepted

\* The order in which keys were added decides which key is reported and never
\* whether one is, nor why none is: two keys under one identifier are both tried
\* (ci.rs 89-91).
OrderIrrelevant ==
  \A requested \in Id, cert \in Cert, order \in Bijection(DOMAIN keys, DOMAIN keys) :
    Rank(Verify([i \in DOMAIN keys |-> keys[order[i]]], requested, cert))
      = Rank(Verify(keys, requested, cert))
=============================================================================
