--------------------------- MODULE CiKeySetProofs ---------------------------
(***************************************************************************)
(* Proofs about the CI key set, for every set of identifiers, keys and     *)
(* certificates, every relation of which verifies which, and any number of *)
(* keys.                                                                   *)
(***************************************************************************)
EXTENDS CiKeySet, SequenceTheorems, WellFoundedInduction, TLAPS

\* A set of positions that is not empty has a first one.
LEMMA FirstIsFirst ==
  ASSUME NEW S \in SUBSET Nat, S # {}
  PROVE  FirstOf(S) \in S /\ \A j \in S : FirstOf(S) <= j
<1>1. PICK m \in S : \A j \in S : ~ (<<j, m>> \in OpToRel(<, Nat))
  BY WFMin, NatLessThanWellFounded
<1>2. \A j \in S : m <= j
  <2>1. \A i \in Nat, j \in Nat : i < j => <<i, j>> \in OpToRel(<, Nat)
    BY DEF OpToRel
  <2>2. \A j \in S : ~ (j < m)
    BY <1>1, <2>1
  <2> QED  BY <2>2
<1>3. \E i \in S : \A j \in S : i <= j
  BY <1>2
<1> QED  BY <1>3 DEF FirstOf

\* It is the only one.
LEMMA FirstIsUnique ==
  ASSUME NEW S \in SUBSET Nat, NEW m \in S, \A j \in S : m <= j
  PROVE  FirstOf(S) = m
<1>1. FirstOf(S) \in S /\ FirstOf(S) <= m /\ m <= FirstOf(S)
  BY FirstIsFirst
<1>2. FirstOf(S) \in Nat /\ m \in Nat
  BY <1>1
<1> QED  BY <1>1, <1>2

LEMMA SelectedPositions ==
  ASSUME NEW set \in Seq(Entry), NEW requested, NEW cert
  PROVE  /\ Candidates(set, requested) \subseteq 1 .. Len(set)
         /\ Verifying(set, requested, cert) \subseteq Candidates(set, requested)
         /\ Verifying(set, requested, cert) \in SUBSET Nat
BY DEF Candidates, Verifying

\* Accepted is what has a request and a candidate that verifies.
LEMMA AcceptedWhen ==
  ASSUME NEW set \in Seq(Entry), NEW requested, NEW cert
  PROVE  Verify(set, requested, cert).accepted
           <=> requested # <<>> /\ Verifying(set, requested, cert) # {}
BY SelectedPositions DEF Verify, Accepted, Refused

-----------------------------------------------------------------------------
(* Adding a key *)

LEMMA AddedLast ==
  ASSUME NEW set \in Seq(Entry), NEW e \in Entry
  PROVE  /\ Append(set, e) \in Seq(Entry)
         /\ Len(Append(set, e)) = Len(set) + 1
         /\ \A i \in 1 .. Len(set) : Append(set, e)[i] = set[i]
OBVIOUS

\* The positions that are selected stay so, and only the new one can join them.
LEMMA SelectionGrows ==
  ASSUME NEW set \in Seq(Entry), NEW e \in Entry, NEW requested, NEW cert
  PROVE  /\ Candidates(set, requested) \subseteq Candidates(Append(set, e), requested)
         /\ Verifying(set, requested, cert) \subseteq Verifying(Append(set, e), requested, cert)
         /\ Verifying(Append(set, e), requested, cert)
              \subseteq Verifying(set, requested, cert) \cup {Len(set) + 1}
<1> DEFINE more == Append(set, e)
<1>1. /\ DOMAIN set = 1 .. Len(set) /\ DOMAIN more = 1 .. Len(set) + 1
      /\ \A i \in 1 .. Len(set) : more[i] = set[i]
      /\ Len(set) \in Nat
  BY AddedLast
<1> HIDE DEF more
<1>2. \A i \in 1 .. Len(set) + 1 : i \in 1 .. Len(set) \/ i = Len(set) + 1
  BY <1>1
<1>3. 1 .. Len(set) \subseteq 1 .. Len(set) + 1
  BY <1>1
<1>4. Candidates(set, requested) \subseteq Candidates(more, requested)
  BY <1>1, <1>3 DEF Candidates
<1>5. \A i \in Candidates(more, requested) :
        i \in Candidates(set, requested) \/ i = Len(set) + 1
  BY <1>1, <1>2 DEF Candidates
<1>6. \A i \in Candidates(set, requested) : more[i] = set[i]
  BY <1>1 DEF Candidates
<1>7. Verifying(set, requested, cert) \subseteq Verifying(more, requested, cert)
  BY <1>4, <1>6 DEF Verifying
<1>8. Verifying(more, requested, cert) \subseteq Verifying(set, requested, cert) \cup {Len(set) + 1}
  BY <1>5, <1>6 DEF Verifying
<1> QED  BY <1>4, <1>7, <1>8 DEF more

\* A key added later does not take over what is accepted.
LEMMA AcceptanceKept ==
  ASSUME NEW set \in Seq(Entry), NEW e \in Entry, NEW requested, NEW cert,
         Verify(set, requested, cert).accepted
  PROVE  Verify(Append(set, e), requested, cert) = Verify(set, requested, cert)
<1> DEFINE more  == Append(set, e)
           good  == Verifying(set, requested, cert)
           first == FirstOf(good)
<1>1. requested # <<>> /\ good # {} /\ good \in SUBSET Nat /\ good \subseteq 1 .. Len(set)
  BY AcceptedWhen, SelectedPositions
<1>2. first \in good /\ \A j \in good : first <= j
  BY <1>1, FirstIsFirst
<1>3. first \in 1 .. Len(set) /\ Len(set) \in Nat
  BY <1>1, <1>2
<1>4. /\ good \subseteq Verifying(more, requested, cert)
      /\ Verifying(more, requested, cert) \subseteq good \cup {Len(set) + 1}
      /\ Verifying(more, requested, cert) \in SUBSET Nat
      /\ Verifying(more, requested, cert) \subseteq Candidates(more, requested)
      /\ more[first] = set[first]
  BY <1>3, SelectionGrows, AddedLast, SelectedPositions
<1> HIDE DEF more, good, first
<1>5. \A j \in Verifying(more, requested, cert) : first <= j
  <2>1. first <= Len(set) + 1
    BY <1>3
  <2> QED  BY <1>2, <1>4, <2>1
<1>6. FirstOf(Verifying(more, requested, cert)) = first
  BY <1>2, <1>4, <1>5, FirstIsUnique
<1>7. Verify(more, requested, cert) = Accepted(set[first])
  BY <1>1, <1>2, <1>4, <1>6 DEF Verify
<1>8. Verify(set, requested, cert) = Accepted(set[first])
  <2>1. good \subseteq Candidates(set, requested)
    BY SelectedPositions DEF good
  <2> QED  BY <1>1, <2>1 DEF Verify, good, first
<1> QED  BY <1>7, <1>8 DEF more

\* No outcome gets worse.
LEMMA RankGrows ==
  ASSUME NEW set \in Seq(Entry), NEW e \in Entry, NEW requested, NEW cert
  PROVE  Rank(Verify(set, requested, cert)) <= Rank(Verify(Append(set, e), requested, cert))
<1> DEFINE more == Append(set, e)
<1>1. /\ Candidates(set, requested) \subseteq Candidates(more, requested)
      /\ Verifying(set, requested, cert) \subseteq Verifying(more, requested, cert)
      /\ Verifying(set, requested, cert) \subseteq Candidates(set, requested)
  BY SelectionGrows, SelectedPositions
<1> HIDE DEF more
<1> QED  BY <1>1 DEF Verify, Rank, Accepted, Refused, more

-----------------------------------------------------------------------------
(* The theorems *)

\* What is accepted is accepted by an entry of the set that has a name.
LEMMA AcceptedEntry ==
  ASSUME NEW set \in Seq(Entry), NEW requested, NEW cert
  PROVE  \/ \E entry \in Named : Verify(set, requested, cert) = Accepted(entry)
         \/ \E f \in {"Unspecified", "NoMatch", "SignatureInvalid"} :
              Verify(set, requested, cert) = Refused(f)
<1> DEFINE good == Verifying(set, requested, cert)
<1>1. CASE good # {}
  <2>1. FirstOf(good) \in good
    BY <1>1, SelectedPositions, FirstIsFirst
  <2>2. FirstOf(good) \in 1 .. Len(set) /\ set[FirstOf(good)].id # <<>>
    BY <2>1, SelectedPositions DEF Verifying, Candidates, IdsMatch
  <2>3. set[FirstOf(good)] \in Entry
    BY <2>2
  <2>4. set[FirstOf(good)] \in Named
    BY <2>2, <2>3 DEF Entry, Named
  <2> QED  BY <2>4 DEF Verify
<1>2. CASE good = {}
  BY <1>2 DEF Verify
<1> QED  BY <1>1, <1>2

\* Type correctness; in it, that no key under an empty identifier is selected.
THEOREM TypeCorrect == Spec => []TypeOK
<1>1. Init => TypeOK
  BY DEF Init, TypeOK
<1>2. TypeOK /\ [Next]_vars => TypeOK'
  <2> SUFFICES ASSUME TypeOK, [Next]_vars PROVE TypeOK'
    OBVIOUS
  <2>1. ASSUME NEW id \in Id, NEW key \in Key, Add(id, key) PROVE TypeOK'
    <3>1. [id |-> id, key |-> key] \in Entry
      BY DEF Entry
    <3> QED  BY <2>1, <3>1, AddedLast DEF Add, TypeOK
  <2>2. ASSUME NEW requested \in Id, NEW cert \in Cert, VerifyServerCertificate(requested, cert)
        PROVE  TypeOK'
    <3>1. Verify(keys, requested, cert)
            \in {Accepted(e) : e \in Named}
                \cup {Refused(f) : f \in {"Unspecified", "NoMatch", "SignatureInvalid"}}
      BY AcceptedEntry DEF TypeOK
    <3> QED  BY <2>2, <3>1 DEF VerifyServerCertificate, TypeOK
  <2>3. CASE UNCHANGED vars
    BY <2>3 DEF vars, TypeOK
  <2> QED  BY <2>1, <2>2, <2>3 DEF Next
<1> QED  BY <1>1, <1>2, PTL DEF Spec

\* A certificate that was accepted stays accepted, by the same key, whatever is
\* added to the set (ci.rs 62-66, 107-116).
THEOREM Stands == Spec => []AcceptanceStands
<1>1. Init => AcceptanceStands
  BY DEF Init, NoCall, AcceptanceStands
<1>2. TypeOK /\ AcceptanceStands /\ [Next]_vars => AcceptanceStands'
  <2> SUFFICES ASSUME TypeOK, AcceptanceStands, [Next]_vars PROVE AcceptanceStands'
    OBVIOUS
  <2>1. ASSUME NEW id \in Id, NEW key \in Key, Add(id, key) PROVE AcceptanceStands'
    <3>1. [id |-> id, key |-> key] \in Entry /\ keys \in Seq(Entry)
      BY DEF Entry, TypeOK
    <3>2. keys' = Append(keys, [id |-> id, key |-> key]) /\ verdict' = verdict
      BY <2>1 DEF Add
    <3> SUFFICES ASSUME verdict.made, verdict.out.accepted
                 PROVE  Verify(keys', verdict.requested, verdict.cert) = verdict.out
      BY <3>2 DEF AcceptanceStands
    <3>3. Verify(keys, verdict.requested, verdict.cert) = verdict.out
      BY DEF AcceptanceStands
    <3> QED  BY <3>1, <3>2, <3>3, AcceptanceKept
  <2>2. ASSUME NEW requested \in Id, NEW cert \in Cert, VerifyServerCertificate(requested, cert)
        PROVE  AcceptanceStands'
    BY <2>2 DEF VerifyServerCertificate, AcceptanceStands
  <2>3. CASE UNCHANGED vars
    BY <2>3 DEF vars, AcceptanceStands
  <2> QED  BY <2>1, <2>2, <2>3 DEF Next
<1> QED  BY <1>1, <1>2, TypeCorrect, PTL DEF Spec

\* Adding a key never makes an outcome worse.
THEOREM Improves == Spec => OutcomesOnlyImprove
<1> DEFINE Better == \A requested \in Id, cert \in Cert :
             Rank(Verify(keys, requested, cert)) <= Rank(Verify(keys', requested, cert))
<1>1. TypeOK /\ [Next]_vars => [Better]_keys
  <2> SUFFICES ASSUME TypeOK, Next, keys' # keys PROVE Better
    BY DEF vars
  <2>1. PICK id \in Id, key \in Key : Add(id, key)
    BY DEF Next, VerifyServerCertificate
  <2>2. [id |-> id, key |-> key] \in Entry /\ keys \in Seq(Entry)
    BY DEF Entry, TypeOK
  <2> QED  BY <2>1, <2>2, RankGrows DEF Add
<1> QED  BY <1>1, TypeCorrect, PTL DEF Spec, OutcomesOnlyImprove

-----------------------------------------------------------------------------
(* Truncation *)

LEMMA PrefixMeans ==
  ASSUME NEW s \in Seq(Nat), NEW t \in Seq(Nat)
  PROVE  IsPrefix(s, t) <=> Len(s) <= Len(t) /\ \A i \in 1 .. Len(s) : s[i] = t[i]
<1>1. Len(s) \in Nat /\ Len(t) \in Nat /\ SubSeq(s, 1, Len(s)) = s
  OBVIOUS
<1>2. ASSUME Len(s) <= Len(t) PROVE s = SubSeq(t, 1, Len(s)) <=> \A i \in 1 .. Len(s) : s[i] = t[i]
  <2>1. /\ SubSeq(t, 1, Len(s)) \in Seq(Nat) /\ Len(SubSeq(t, 1, Len(s))) = Len(s)
        /\ \A i \in 1 .. Len(s) : SubSeq(t, 1, Len(s))[i] = t[i]
    BY <1>1, <1>2
  <2> QED  BY <2>1, SeqEqual
<1> QED  BY <1>1, <1>2 DEF IsPrefix

\* What matches a request matches every shorter form of it.
LEMMA ShorterMatches ==
  ASSUME NEW stored \in Seq(Nat), NEW long \in Seq(Nat), NEW short \in Seq(Nat),
         short # <<>>, IsPrefix(short, long), IdsMatch(stored, long)
  PROVE  IdsMatch(stored, short)
<1>1. Len(short) <= Len(long) /\ \A i \in 1 .. Len(short) : short[i] = long[i]
  BY PrefixMeans
<1>2. Len(short) \in Nat /\ Len(long) \in Nat /\ Len(stored) \in Nat
  OBVIOUS
<1>3. CASE IsPrefix(long, stored)
  <2>1. Len(long) <= Len(stored) /\ \A i \in 1 .. Len(long) : long[i] = stored[i]
    BY <1>3, PrefixMeans
  <2>2. IsPrefix(short, stored)
    <3>1. Len(short) <= Len(stored)
      BY <1>1, <1>2, <2>1
    <3>2. \A i \in 1 .. Len(short) : i \in 1 .. Len(long)
      BY <1>1, <1>2
    <3>3. \A i \in 1 .. Len(short) : short[i] = stored[i]
      BY <1>1, <2>1, <3>2
    <3> QED  BY <3>1, <3>3, PrefixMeans
  <2> QED  BY <2>2 DEF IdsMatch
<1>4. CASE IsPrefix(stored, long)
  <2>1. Len(stored) <= Len(long) /\ \A i \in 1 .. Len(stored) : stored[i] = long[i]
    BY <1>4, PrefixMeans
  <2>2. CASE Len(stored) <= Len(short)
    <3>1. IsPrefix(stored, short)
      BY <1>1, <1>2, <2>1, <2>2, PrefixMeans
    <3> QED  BY <3>1 DEF IdsMatch
  <2>3. CASE Len(short) <= Len(stored)
    <3>1. IsPrefix(short, stored)
      BY <1>1, <1>2, <2>1, <2>3, PrefixMeans
    <3> QED  BY <3>1 DEF IdsMatch
  <2> QED  BY <1>2, <2>2, <2>3
<1> QED  BY <1>3, <1>4 DEF IdsMatch

\* Whoever is accepted by a long identifier is accepted by every shorter form
\* of it that is not empty (ci.rs 88-91).
THEOREM TruncationNeverRefuses == Spec => []TruncationHarmless
<1>1. TypeOK => TruncationHarmless
  <2> SUFFICES ASSUME TypeOK, NEW long \in Id, NEW short \in Id, NEW cert \in Cert,
                      short # <<>>, IsPrefix(short, long), Verify(keys, long, cert).accepted
               PROVE  Verify(keys, short, cert).accepted
    BY DEF TruncationHarmless
  <2>1. keys \in Seq(Entry) /\ long \in Seq(Nat) /\ short \in Seq(Nat)
    BY IdAssumption DEF TypeOK
  <2>2. PICK i \in Verifying(keys, long, cert) : TRUE
    BY <2>1, AcceptedWhen
  <2>3. /\ i \in 1 .. Len(keys) /\ IdsMatch(keys[i].id, long)
        /\ <<cert, keys[i].key>> \in Verifies
    BY <2>1, <2>2, SelectedPositions DEF Verifying, Candidates
  <2>4. keys[i].id \in Seq(Nat)
    <3>1. keys[i] \in Entry
      BY <2>1, <2>3
    <3>2. keys[i].id \in Id
      BY <3>1 DEF Entry
    <3> QED  BY <3>2, IdAssumption
  <2>5. IdsMatch(keys[i].id, short)
    BY <2>1, <2>3, <2>4, ShorterMatches
  <2>6. i \in Verifying(keys, short, cert)
    BY <2>1, <2>3, <2>5 DEF Verifying, Candidates
  <2> QED  BY <2>1, <2>6, AcceptedWhen
<1> QED  BY <1>1, TypeCorrect, PTL

-----------------------------------------------------------------------------
(* Order *)

\* Another order moves every entry and loses none.
LEMMA Reordered ==
  ASSUME NEW set \in Seq(Entry), NEW order \in [DOMAIN set -> DOMAIN set],
         \A i \in DOMAIN set : \E j \in DOMAIN set : order[j] = i,
         NEW other, other = [i \in DOMAIN set |-> set[order[i]]]
  PROVE  /\ other \in Seq(Entry)
         /\ \A i \in DOMAIN set : \E j \in DOMAIN other : other[j] = set[i]
         /\ \A j \in DOMAIN other : \E i \in DOMAIN set : set[i] = other[j]
<1>1. PICK n \in Nat : DOMAIN set = 1 .. n
  OBVIOUS
<1>2. /\ order \in [1 .. n -> 1 .. n]
      /\ \A i \in 1 .. n : \E j \in 1 .. n : order[j] = i
  BY <1>1
<1>3. \A i \in 1 .. n : order[i] \in 1 .. n /\ set[order[i]] \in Entry
  BY <1>1, <1>2
<1>4. other \in Seq(Entry) /\ DOMAIN other = 1 .. n
  BY <1>1, <1>3
<1>5. \A j \in 1 .. n : other[j] = set[order[j]]
  BY <1>1
<1>6. ASSUME NEW i \in 1 .. n
      PROVE  \E j \in 1 .. n : other[j] = set[i]
  <2>1. PICK j \in 1 .. n : order[j] = i
    BY <1>2
  <2>2. other[j] = set[i]
    BY <1>5, <2>1
  <2> QED  BY <2>2
<1>7. \A j \in 1 .. n : \E i \in 1 .. n : set[i] = other[j]
  BY <1>3, <1>5
<1> QED  BY <1>1, <1>4, <1>6, <1>7

LEMMA SameSelection ==
  ASSUME NEW set \in Seq(Entry), NEW other \in Seq(Entry), NEW requested, NEW cert,
         \A i \in DOMAIN set : \E j \in DOMAIN other : other[j] = set[i]
  PROVE  /\ Candidates(set, requested) # {} => Candidates(other, requested) # {}
         /\ Verifying(set, requested, cert) # {} => Verifying(other, requested, cert) # {}
BY DEF Candidates, Verifying

\* The order of the keys never decides whether a certificate is accepted, nor
\* why it is refused (ci.rs 89-91), whichever of all orders it is.
THEOREM OrderNeverDecides == Spec => []OrderIrrelevant
<1>1. TypeOK => OrderIrrelevant
  <2> SUFFICES ASSUME TypeOK, NEW requested \in Id, NEW cert \in Cert,
                      NEW order \in Bijection(DOMAIN keys, DOMAIN keys)
               PROVE  Rank(Verify([i \in DOMAIN keys |-> keys[order[i]]], requested, cert))
                        = Rank(Verify(keys, requested, cert))
    BY DEF OrderIrrelevant
  <2>1. keys \in Seq(Entry)
    BY DEF TypeOK
  <2>2. PICK other : other = [i \in DOMAIN keys |-> keys[order[i]]]
    OBVIOUS
  <2>3. /\ order \in [DOMAIN keys -> DOMAIN keys]
        /\ \A i \in DOMAIN keys : \E j \in DOMAIN keys : order[j] = i
    BY DEF Bijection, Injection, Surjection
  <2>4. /\ other \in Seq(Entry)
        /\ \A i \in DOMAIN keys : \E j \in DOMAIN other : other[j] = keys[i]
        /\ \A j \in DOMAIN other : \E i \in DOMAIN keys : keys[i] = other[j]
    BY <2>1, <2>2, <2>3, Reordered, Zenon
  <2>5. /\ Candidates(keys, requested) = {} <=> Candidates(other, requested) = {}
        /\ Verifying(keys, requested, cert) = {} <=> Verifying(other, requested, cert) = {}
    <3>1. /\ Candidates(keys, requested) # {} => Candidates(other, requested) # {}
          /\ Verifying(keys, requested, cert) # {} => Verifying(other, requested, cert) # {}
      BY <2>1, <2>4, SameSelection
    <3>2. /\ Candidates(other, requested) # {} => Candidates(keys, requested) # {}
          /\ Verifying(other, requested, cert) # {} => Verifying(keys, requested, cert) # {}
      BY <2>1, <2>4, SameSelection
    <3> QED  BY <3>1, <3>2
  <2>6. Rank(Verify(other, requested, cert)) = Rank(Verify(keys, requested, cert))
    BY <2>5 DEF Verify, Rank, Accepted, Refused
  <2> QED  BY <2>2, <2>6
<1> QED  BY <1>1, TypeCorrect, PTL
=============================================================================
