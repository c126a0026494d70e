---------------------------- MODULE SecureChannel ----------------------------
(***************************************************************************)
(* Sessions between a host and a card, made from the primitives: ecdh.rs   *)
(* agrees on a secret, kdf.rs makes a key of it for either direction,      *)
(* aead.rs seals and opens records under them.  The crate holds none of    *)
(* the state: ephemeral keys, session keys and counters are the callers'.  *)
(* They do what the comments ask of them: a nonce is a counter that starts *)
(* again with every session (aead.rs 4-7), and a session has an ephemeral  *)
(* key of its own (ecdh.rs 21-23), which the code sees to.                 *)
(*                                                                         *)
(* Between them, public points and records are lost, repeated, mixed and   *)
(* damaged, and sessions are replaced at any time, on one side first.      *)
(***************************************************************************)
EXTENDS Ecdh, Kdf, Aead, Sequences, FiniteSets

CONSTANTS
  Message,     \* what may be sealed: associated data and a plaintext
  Salt,        \* context values that a session's keys may be derived with
  Length,      \* lengths that keys may be asked for in
  NonceLength, \* lengths that nonces may be given in
  MaxKeys,     \* bound: ephemeral keys that are ever generated
  MaxRecords   \* bound: records that are ever sealed

ASSUME ChannelAssumption ==
  /\ \A m \in Message : m = [aad |-> m.aad, plaintext |-> m.plaintext] /\ m.plaintext \in Payload
  /\ Length \subseteq Nat /\ NonceLength \subseteq Nat
  /\ MaxKeys \in Nat /\ MaxRecords \in Nat

VARIABLES
  generated,   \* how many ephemeral keys there have been
  ephemeral,   \* the key that each side has ready for its next session
  session,     \* each side's session
  seals, opens,\* each side's counters in its session
  sealed,      \* the ciphertexts made under each key, in order
  opened       \* the messages that have come out under each key, in order

vars == <<generated, ephemeral, session, seals, opens, sealed, opened>>

Party   == {"host", "card"}
Peer(p) == IF p = "host" THEN "card" ELSE "host"

NoKey     == 0
NoSession == [made |-> FALSE]

Aad == {m.aad : m \in Message}

\* The keys of a session: a key's info says whose records it seals.
KeyId      == 1 .. MaxKeys
Secret     == {{i, j} : i, j \in KeyId}
SessionKey == [secret : Secret, salt : Salt, info : Party, len : {KEY_LEN}]

KeyOf(s, info) == HkdfSha256(s.secret, s.salt, info, s.len).val
SendKey(p)     == KeyOf(session[p], p)
ReceiveKey(p)  == KeyOf(session[p], Peer(p))

\* A counter as a nonce.
Nonce(counter, len) == [counter |-> counter, len |-> len]

Init ==
  /\ generated = 0
  /\ ephemeral = [p \in Party |-> NoKey]
  /\ session = [p \in Party |-> NoSession]
  /\ seals = [p \in Party |-> 0]
  /\ opens = [p \in Party |-> 0]
  /\ sealed = [k \in SessionKey |-> <<>>]
  /\ opened = [k \in SessionKey |-> <<>>]

-----------------------------------------------------------------------------
(* Making a session *)

\* EphemeralKey::generate: a key that was there and unused is dropped.
Generate(p) ==
  /\ generated < MaxKeys
  /\ generated' = generated + 1
  /\ ephemeral' = [ephemeral EXCEPT ![p] = generated + 1]
  /\ UNCHANGED <<session, seals, opens, sealed, opened>>

\* What may arrive as the other side's point: any that was ever generated, the
\* receiver's own included, its negative, and points that are none.
ArrivingPoints ==
  {Point(PUBLIC_KEY_LEN, 4, x, odd) : x \in 1 .. generated, odd \in BOOLEAN} \cup
  {Point(PUBLIC_KEY_LEN - 1, 4, 1, FALSE), Point(PUBLIC_KEY_LEN, 2, 1, FALSE),
   Point(PUBLIC_KEY_LEN, 4, NO_POINT, FALSE)}

\* agree, then the expansion, then Key::new: the key for info, or what failed.
DeriveKey(id, point, salt, info, len) ==
  LET agreed   == Agree(id, point)
      expanded == HkdfSha256(agreed.val, salt, info, len)
  IN  IF ~agreed.ok THEN agreed
      ELSE IF ~expanded.ok THEN expanded
      ELSE NewKey(expanded.val)

\* The session that p has once DeriveKey has succeeded; without success it
\* keeps what it had.
Begin(p, point, salt, len) ==
  IF DeriveKey(ephemeral[p], point, salt, p, len).ok
  THEN /\ session' = [session EXCEPT ![p] =
             [made |-> TRUE, own |-> ephemeral[p], peer |-> point.x,
              secret |-> Agree(ephemeral[p], point).val, salt |-> salt, len |-> len]]
       /\ seals' = [seals EXCEPT ![p] = 0]
       /\ opens' = [opens EXCEPT ![p] = 0]
  ELSE UNCHANGED <<session, seals, opens>>

\* Establish with an agree that borrows the key.
BorrowingEstablish(p, point, salt, len) ==
  /\ ephemeral[p] # NoKey
  /\ Begin(p, point, salt, len)
  /\ UNCHANGED <<generated, ephemeral, sealed, opened>>

\* EphemeralKey::agree takes the key by value: it is gone afterwards, whether or
\* not there is a session.
Establish(p, point, salt, len) ==
  /\ ephemeral[p] # NoKey
  /\ Begin(p, point, salt, len)
  /\ ephemeral' = [ephemeral EXCEPT ![p] = NoKey]
  /\ UNCHANGED <<generated, sealed, opened>>

-----------------------------------------------------------------------------
(* Records *)

Positions == UNION {{<<k, n>> : n \in DOMAIN sealed[k]} : k \in SessionKey}

\* p seals the next record of its session; the counter moves if that succeeds.
SealNext(p, message, len) ==
  /\ session[p].made
  /\ Cardinality(Positions) < MaxRecords
  /\ LET result == Seal(SendKey(p), Nonce(seals[p], len), message.aad, message.plaintext)
     IN  /\ result.ok
         /\ sealed' = [sealed EXCEPT ![SendKey(p)] = Append(@, result.val)]
  /\ seals' = [seals EXCEPT ![p] = @ + 1]
  /\ UNCHANGED <<generated, ephemeral, session, opens, opened>>

\* What may arrive as a record: any that was ever sealed, by either side, whole
\* or cut down to the tag or below it.
ArrivingRecords ==
  LET all == {sealed[at[1]][at[2]] : at \in Positions}
  IN  all \cup {[c EXCEPT !.len = len] : c \in all, len \in {TAG_LEN - 1, TAG_LEN}}

\* p opens a record as the next of its session; the counter moves if that succeeds.
OpenNext(p, record, aad, len) ==
  /\ session[p].made
  /\ LET result == Open(ReceiveKey(p), Nonce(opens[p], len), aad, record)
     IN  /\ result.ok
         /\ opened' = [opened EXCEPT ![ReceiveKey(p)] =
                         Append(@, [aad |-> aad, plaintext |-> result.val])]
  /\ opens' = [opens EXCEPT ![p] = @ + 1]
  /\ UNCHANGED <<generated, ephemeral, session, seals, sealed>>

Next ==
  \E p \in Party :
    \/ Generate(p)
    \/ \E point \in ArrivingPoints, salt \in Salt, len \in Length :
         Establish(p, point, salt, len)
    \/ \E message \in Message, len \in NonceLength : SealNext(p, message, len)
    \/ \E record \in ArrivingRecords, aad \in Aad, len \in NonceLength :
         OpenNext(p, record, aad, len)

Spec == Init /\ [][Next]_vars

\* The first record of p's session that p has not opened arrives, intact.
TakeNext(p) ==
  /\ session[p].made
  /\ Len(opened[ReceiveKey(p)]) < Len(sealed[ReceiveKey(p)])
  /\ LET record == sealed[ReceiveKey(p)][Len(opened[ReceiveKey(p)]) + 1]
     IN  OpenNext(p, record, record.aad, NONCE_LEN)

\* The transport may lose and mix records for as long as it likes, but the one
\* that p still misses is in the end handed to it.
FairSpec == Spec /\ \A p \in Party : WF_vars(TakeNext(p))

-----------------------------------------------------------------------------
(* Types *)

Session ==
  [made : {TRUE}, own : KeyId, peer : KeyId, secret : Secret,
   salt : Salt, len : {KEY_LEN}]

Record ==
  [key : SessionKey, nonce : [counter : Nat, len : {NONCE_LEN}], aad : Aad,
   plaintext : Payload, len : Nat]

\* The types.  A session's keys have the one length that AES-128 can use, in
\* whatever length they were asked for (aead.rs 34-40).
TypeOK ==
  /\ generated \in 0 .. MaxKeys
  /\ ephemeral \in [Party -> 0 .. generated]
  /\ session \in [Party -> {NoSession} \cup Session]
  /\ seals \in [Party -> Nat]
  /\ opens \in [Party -> Nat]
  /\ sealed \in [SessionKey -> Seq(Record)]
  /\ opened \in [SessionKey -> Seq(Message)]

(* Safety *)

\* No two records are sealed with one nonce under one key (aead.rs 51-53), though
\* the counter starts again with every session and old points arrive again: what
\* an ephemeral key was used for is never derived a second time (ecdh.rs 59).
NonceUsedOnce ==
  \A k \in SessionKey : \A m, n \in DOMAIN sealed[k] :
    sealed[k][m].nonce = sealed[k][n].nonce => m = n

\* Two sides have matching keys exactly if each of them was given the other's
\* point, in either sign, and they go by one context (ecdh.rs 59, kdf.rs 49-59).
KeysMatch ==
  \A p, q \in Party :
    p # q /\ session[p].made /\ session[q].made =>
      (SendKey(p) = ReceiveKey(q) <=>
         /\ session[p].own = session[q].peer
         /\ session[q].own = session[p].peer
         /\ session[p].salt = session[q].salt)

MessageOf(record) == [aad |-> record.aad, plaintext |-> record.plaintext]

\* The records under each key come out once and in order, whatever is repeated,
\* cut, mixed or reflected to its sender, and nothing of one session comes out
\* in a later one (aead.rs 65-80).
Delivery ==
  INSTANCE SecureDelivery WITH
    Channel <- SessionKey,
    sent <- [k \in SessionKey |-> [n \in DOMAIN sealed[k] |-> MessageOf(sealed[k][n])]],
    delivered <- opened
DeliversInOrder == Delivery!Spec

(* Liveness *)

\* Somebody has a session that was made with a key.
InUse(id) == \E p \in Party : session[p].made /\ session[p].own = id

\* In that session n records have come.
Sent(id, n) ==
  \E p \in Party : /\ session[p].made /\ session[p].own = id
                   /\ Len(sealed[ReceiveKey(p)]) >= n
Opened(id, n) ==
  \E p \in Party : /\ session[p].made /\ session[p].own = id
                   /\ Len(opened[ReceiveKey(p)]) >= n

\* No sequence of bad records, failed agreements or sessions of the other side
\* wedges a session: what was sealed for it is opened, for as long as it is in use.
AllOpened ==
  \A id \in KeyId, n \in 1 .. MaxRecords : Sent(id, n) ~> Opened(id, n) \/ ~InUse(id)
=============================================================================
