------------------------- MODULE SecureChannelProofs -------------------------
(***************************************************************************)
(* That no nonce is used twice and that records come out in order, for any *)
(* number of sessions, records, messages and context values.               *)
(*                                                                         *)
(* The argument: a key that is ready is in no secret that its owner has    *)
(* used (Fresh), so a new session starts with keys under which its owner   *)
(* has neither sealed nor opened anything; so counters count (Counted),    *)
(* and the n-th record under a key carries nonce n - 1 (Numbered).         *)
(***************************************************************************)
EXTENDS SecureChannel, SequenceTheorems, TLAPS

\* A session's secret is that of its own key and its peer's, both of which exist.
Shaped ==
  \A p \in Party : session[p].made =>
    /\ session[p].secret = {session[p].own, session[p].peer}
    /\ session[p].own \in 1 .. generated
    /\ session[p].peer \in 1 .. generated

\* Nothing has been done yet with keys of the future.
Known ==
  \A k \in SessionKey :
    sealed[k] # <<>> \/ opened[k] # <<>> => \A i \in k.secret : i \in 1 .. generated

\* A key that is ready is new to the session its owner has, and its owner has
\* neither sealed nor opened anything under a secret that it is part of.
Fresh ==
  \A p \in Party : ephemeral[p] # NoKey =>
    /\ session[p].made => ephemeral[p] \notin session[p].secret
    /\ \A k \in SessionKey : ephemeral[p] \in k.secret =>
         /\ k.info = p => sealed[k] = <<>>
         /\ k.info = Peer(p) => opened[k] = <<>>

\* No two sides have a key in common.
Distinct ==
  \A p, q \in Party : p # q =>
    /\ ephemeral[p] # NoKey => ephemeral[p] # ephemeral[q]
    /\ ephemeral[p] # NoKey /\ session[q].made => ephemeral[p] # session[q].own
    /\ session[p].made /\ session[q].made => session[p].own # session[q].own

\* The n-th record under a key was sealed under it, with nonce n - 1.
Numbered ==
  \A k \in SessionKey : \A n \in DOMAIN sealed[k] :
    /\ sealed[k][n].key = k
    /\ sealed[k][n].nonce = Nonce(n - 1, NONCE_LEN)
    /\ MessageOf(sealed[k][n]) \in Message

\* A session's counters say how much has been done under its keys.
Counted ==
  \A p \in Party : session[p].made =>
    /\ seals[p] = Len(sealed[SendKey(p)])
    /\ opens[p] = Len(opened[ReceiveKey(p)])

IInv == TypeOK /\ Shaped /\ Known /\ Fresh /\ Distinct /\ Numbered /\ Counted

-----------------------------------------------------------------------------
(* Keys *)

\* What the keys of a session are made of.
LEMMA KeyFields ==
  ASSUME NEW s \in Session, NEW info \in Party
  PROVE  /\ KeyOf(s, info) \in SessionKey
         /\ KeyOf(s, info) = [secret |-> s.secret, salt |-> s.salt, info |-> info, len |-> KEY_LEN]
BY DEF KeyOf, HkdfSha256, Ok, Session, SessionKey, KEY_LEN, SHA256_LEN

LEMMA PeerFacts ==
  ASSUME NEW p \in Party
  PROVE  Peer(p) \in Party /\ Peer(p) # p /\ Peer(Peer(p)) = p
BY DEF Peer, Party

\* A session that is made is one.
LEMMA MadeSession ==
  ASSUME TypeOK, NEW p \in Party, session[p].made
  PROVE  /\ session[p] \in Session
         /\ SendKey(p) \in SessionKey /\ ReceiveKey(p) \in SessionKey
         /\ SendKey(p) = [secret |-> session[p].secret, salt |-> session[p].salt,
                          info |-> p, len |-> KEY_LEN]
         /\ ReceiveKey(p) = [secret |-> session[p].secret, salt |-> session[p].salt,
                             info |-> Peer(p), len |-> KEY_LEN]
<1>1. session[p] \in {NoSession} \cup Session
  BY DEF TypeOK
<1>2. session[p] # NoSession
  BY DEF NoSession
<1> QED
  BY <1>1, <1>2, KeyFields, PeerFacts DEF SendKey, ReceiveKey

\* What DeriveKey needs to succeed.
LEMMA Derived ==
  ASSUME NEW id, NEW point, NEW salt, NEW info, NEW len \in Nat,
         DeriveKey(id, point, salt, info, len).ok
  PROVE  /\ len = KEY_LEN
         /\ point.x # NO_POINT
         /\ point.len = PUBLIC_KEY_LEN /\ point.head = 4
         /\ Agree(id, point).val = {id, point.x}
BY DEF DeriveKey, Agree, HkdfSha256, NewKey, Ok, Err

-----------------------------------------------------------------------------
(* The invariant holds at first *)

LEMMA InitIInv == Init => IInv
<1> SUFFICES ASSUME Init PROVE IInv
  OBVIOUS
<1>1. TypeOK
  BY ChannelAssumption DEF Init, TypeOK, NoKey
<1>2. Shaped /\ Fresh /\ Distinct /\ Counted
  BY DEF Init, Shaped, Fresh, Distinct, Counted, NoSession, NoKey
<1>3. Known /\ Numbered
  BY DEF Init, Known, Numbered
<1> QED
  BY <1>1, <1>2, <1>3 DEF IInv

-----------------------------------------------------------------------------
(* Every step keeps it *)

LEMMA GenerateStep ==
  ASSUME IInv, NEW p \in Party, Generate(p)
  PROVE  IInv'
<1> USE DEF Generate
<1>1. /\ generated' = generated + 1 /\ generated \in Nat /\ generated' \in 0 .. MaxKeys
      /\ ephemeral'[p] = generated + 1
      /\ \A q \in Party : q # p => ephemeral'[q] = ephemeral[q]
      /\ ephemeral' \in [Party -> 0 .. generated']
  BY ChannelAssumption DEF IInv, TypeOK
<1>2. /\ \A q \in Party : session[q].made' = session[q].made
      /\ \A q \in Party : SendKey(q)' = SendKey(q) /\ ReceiveKey(q)' = ReceiveKey(q)
  BY DEF SendKey, ReceiveKey
<1>3. TypeOK'
  BY <1>1 DEF IInv, TypeOK
<1>4. Shaped'
  <2> SUFFICES ASSUME NEW q \in Party, session[q].made
               PROVE  /\ session[q].secret = {session[q].own, session[q].peer}
                      /\ session[q].own \in 1 .. generated'
                      /\ session[q].peer \in 1 .. generated'
    BY DEF Shaped
  <2> QED
    BY <1>1 DEF IInv, Shaped
<1>5. Known'
  BY <1>1 DEF IInv, Known
<1>6. Fresh'
  <2> SUFFICES ASSUME NEW q \in Party, ephemeral'[q] # NoKey
               PROVE  /\ session[q].made => ephemeral'[q] \notin session[q].secret
                      /\ \A k \in SessionKey : ephemeral'[q] \in k.secret =>
                           /\ k.info = q => sealed[k] = <<>>
                           /\ k.info = Peer(q) => opened[k] = <<>>
    BY DEF Fresh
  <2>1. CASE q = p
    <3>1. session[p].made => generated + 1 \notin session[p].secret
      BY <1>1 DEF IInv, Shaped
    <3>2. \A k \in SessionKey : generated + 1 \in k.secret =>
            sealed[k] = <<>> /\ opened[k] = <<>>
      BY <1>1 DEF IInv, Known
    <3> QED
      BY <2>1, <3>1, <3>2, <1>1
  <2>2. CASE q # p
    BY <2>2, <1>1 DEF IInv, Fresh
  <2> QED
    BY <2>1, <2>2
<1>7. Distinct'
  <2> SUFFICES ASSUME NEW q \in Party, NEW r \in Party, q # r
               PROVE  /\ ephemeral'[q] # NoKey => ephemeral'[q] # ephemeral'[r]
                      /\ ephemeral'[q] # NoKey /\ session[r].made =>
                           ephemeral'[q] # session[r].own
                      /\ session[q].made /\ session[r].made => session[q].own # session[r].own
    BY DEF Distinct
  <2>1. \A t \in Party : ephemeral[t] \in 0 .. generated
    BY DEF IInv, TypeOK
  <2>2. ephemeral'[q] # NoKey => ephemeral'[q] # ephemeral'[r]
    BY <1>1, <2>1 DEF IInv, Distinct, NoKey
  <2>3. ephemeral'[q] # NoKey /\ session[r].made => ephemeral'[q] # session[r].own
    BY <1>1 DEF IInv, Distinct, Shaped
  <2> QED
    BY <2>2, <2>3 DEF IInv, Distinct
<1>8. Numbered' /\ Counted'
  BY <1>2 DEF IInv, Numbered, Counted, MessageOf, Nonce
<1> QED
  BY <1>3, <1>4, <1>5, <1>6, <1>7, <1>8 DEF IInv

\* Making a session is where keys are used up.
LEMMA EstablishStep ==
  ASSUME IInv, NEW p \in Party, NEW point \in ArrivingPoints, NEW salt \in Salt,
         NEW len \in Length, Establish(p, point, salt, len)
  PROVE  IInv'
<1> DEFINE id == ephemeral[p]
           new == [made |-> TRUE, own |-> id, peer |-> point.x,
                   secret |-> Agree(id, point).val, salt |-> salt, len |-> len]
<1>1. /\ id # NoKey /\ id \in 1 .. generated /\ generated \in Nat /\ generated <= MaxKeys
      /\ ephemeral' = [ephemeral EXCEPT ![p] = NoKey]
      /\ UNCHANGED <<generated, sealed, opened>>
  BY ChannelAssumption DEF Establish, IInv, TypeOK, NoKey
<1>2. /\ ephemeral'[p] = NoKey
      /\ \A q \in Party : q # p => ephemeral'[q] = ephemeral[q]
      /\ ephemeral' \in [Party -> 0 .. generated']
  BY <1>1 DEF IInv, TypeOK, NoKey
<1>3. CASE ~DeriveKey(id, point, salt, p, len).ok
  <2>1. UNCHANGED <<session, seals, opens>>
    BY <1>3 DEF Establish, Begin
  <2>2. \A q \in Party : SendKey(q)' = SendKey(q) /\ ReceiveKey(q)' = ReceiveKey(q)
    BY <2>1 DEF SendKey, ReceiveKey
  <2>3. TypeOK' /\ Shaped' /\ Known'
    BY <1>1, <1>2, <2>1 DEF IInv, TypeOK, Shaped, Known
  <2>4. Fresh'
    BY <1>1, <1>2, <2>1 DEF IInv, Fresh
  <2>5. Distinct'
    BY <1>1, <1>2, <2>1 DEF IInv, Distinct
  <2>6. Numbered' /\ Counted'
    BY <1>1, <2>1, <2>2 DEF IInv, Numbered, Counted, MessageOf, Nonce
  <2> QED
    BY <2>3, <2>4, <2>5, <2>6 DEF IInv
<1>4. CASE DeriveKey(id, point, salt, p, len).ok
  <2>1. /\ session' = [session EXCEPT ![p] = new]
        /\ seals' = [seals EXCEPT ![p] = 0] /\ opens' = [opens EXCEPT ![p] = 0]
    BY <1>4 DEF Establish, Begin
  <2>2. /\ len = KEY_LEN /\ point.x # NO_POINT
        /\ Agree(id, point).val = {id, point.x}
        /\ point.len = PUBLIC_KEY_LEN /\ point.head = 4
    BY <1>4, Derived, ChannelAssumption
  <2>3. point.x \in 1 .. generated
    BY <2>2, <1>1 DEF ArrivingPoints, Point, NO_POINT, PUBLIC_KEY_LEN
  <2>4. /\ new \in Session
        /\ session'[p] = new /\ \A q \in Party : q # p => session'[q] = session[q]
        /\ session' \in [Party -> {NoSession} \cup Session]
    <3>1. id \in KeyId /\ point.x \in KeyId
      BY <1>1, <2>3, ChannelAssumption DEF KeyId
    <3>2. {id, point.x} \in Secret
      BY <3>1 DEF Secret
    <3>3. new \in Session
      BY <2>2, <3>1, <3>2 DEF Session
    <3>4. session \in [Party -> {NoSession} \cup Session]
      BY DEF IInv, TypeOK
    <3> HIDE DEF new
    <3> QED
      BY <2>1, <3>3, <3>4
  <2>5. /\ \A q \in Party : q # p =>
               SendKey(q)' = SendKey(q) /\ ReceiveKey(q)' = ReceiveKey(q)
        /\ SendKey(p)' \in SessionKey /\ SendKey(p)'.secret = {id, point.x} /\ SendKey(p)'.info = p
        /\ ReceiveKey(p)' \in SessionKey /\ ReceiveKey(p)'.secret = {id, point.x}
        /\ ReceiveKey(p)'.info = Peer(p)
    <3>1. \A q \in Party : SendKey(q)' = KeyOf(session'[q], q)
                        /\ ReceiveKey(q)' = KeyOf(session'[q], Peer(q))
      BY DEF SendKey, ReceiveKey, KeyOf, HkdfSha256, Ok, Err, Peer
    <3>2. \A q \in Party : q # p =>
            SendKey(q)' = SendKey(q) /\ ReceiveKey(q)' = ReceiveKey(q)
      BY <3>1, <2>4 DEF SendKey, ReceiveKey
    <3>3. KeyOf(new, p) \in SessionKey /\ KeyOf(new, Peer(p)) \in SessionKey
      BY <2>4, KeyFields, PeerFacts
    <3>4. /\ KeyOf(new, p).secret = {id, point.x} /\ KeyOf(new, p).info = p
          /\ KeyOf(new, Peer(p)).secret = {id, point.x} /\ KeyOf(new, Peer(p)).info = Peer(p)
      <4>1. new.secret = {id, point.x}
        BY <2>2
      <4> HIDE DEF new
      <4> QED
        BY <4>1, <2>4, KeyFields, PeerFacts
    <3> HIDE DEF new
    <3> QED
      BY <3>1, <3>2, <3>3, <3>4, <2>4
  <2>6. TypeOK'
    BY <1>1, <1>2, <2>1, <2>4 DEF IInv, TypeOK
  <2>7. Shaped'
    BY <1>1, <2>2, <2>3, <2>4 DEF IInv, Shaped
  <2>8. Known' /\ Numbered'
    BY <1>1 DEF IInv, Known, Numbered, MessageOf, Nonce
  <2>9. Fresh'
    BY <1>1, <1>2, <2>4 DEF IInv, Fresh
  <2>10. Distinct'
    <3> SUFFICES ASSUME NEW q \in Party, NEW r \in Party, q # r
                 PROVE  /\ ephemeral'[q] # NoKey => ephemeral'[q] # ephemeral'[r]
                        /\ ephemeral'[q] # NoKey /\ session'[r].made =>
                             ephemeral'[q] # session'[r].own
                        /\ session'[q].made /\ session'[r].made =>
                             session'[q].own # session'[r].own
      BY DEF Distinct
    <3>1. \A t \in Party : t # p => /\ ephemeral[t] # id
                                    /\ session[t].made => session[t].own # id
      BY <1>1 DEF IInv, Distinct
    <3>2. CASE q = p
      BY <1>2, <2>4, <3>1, <3>2
    <3>3. CASE r = p
      BY <1>2, <2>4, <3>1, <3>3
    <3>4. CASE q # p /\ r # p
      BY <1>2, <2>4, <3>4 DEF IInv, Distinct
    <3> QED
      BY <3>2, <3>3, <3>4
  <2>11. Counted'
    <3>1. sealed[SendKey(p)'] = <<>> /\ opened[ReceiveKey(p)'] = <<>>
      BY <1>1, <2>5 DEF IInv, Fresh
    <3>2. /\ seals'[p] = 0 /\ opens'[p] = 0
          /\ \A q \in Party : q # p => seals'[q] = seals[q] /\ opens'[q] = opens[q]
      BY <2>1 DEF IInv, TypeOK
    <3> SUFFICES ASSUME NEW q \in Party, session'[q].made
                 PROVE  /\ seals'[q] = Len(sealed[SendKey(q)'])
                        /\ opens'[q] = Len(opened[ReceiveKey(q)'])
      BY <1>1 DEF Counted
    <3>3. CASE q = p
      BY <3>1, <3>2, <3>3
    <3>4. CASE q # p
      BY <3>2, <3>4, <2>4, <2>5 DEF IInv, Counted
    <3> QED
      BY <3>3, <3>4
  <2> QED
    BY <2>6, <2>7, <2>8, <2>9, <2>10, <2>11 DEF IInv
<1> QED
  BY <1>3, <1>4

\* A record is sealed under a key that only p seals under, so it is the next one.
LEMMA SealStep ==
  ASSUME IInv, NEW p \in Party, NEW message \in Message, NEW len \in NonceLength,
         SealNext(p, message, len)
  PROVE  IInv'
<1> DEFINE k == SendKey(p)
           record == Ciphertext(k, Nonce(seals[p], len), message.aad,
                                message.plaintext, Size[message.plaintext] + TAG_LEN)
<1>1. /\ session[p].made /\ session[p] \in Session /\ k \in SessionKey /\ k.info = p
      /\ k.secret = session[p].secret
  BY MadeSession DEF SealNext, IInv
<1>2. /\ len = NONCE_LEN
      /\ sealed' = [sealed EXCEPT ![k] = Append(@, record)]
  BY DEF SealNext, Seal, CheckNonce, Nonce, Ok, Err
<1>3. /\ UNCHANGED <<generated, ephemeral, session, opens, opened>>
      /\ seals' \in [Party -> Nat] /\ seals'[p] = seals[p] + 1
      /\ \A q \in Party : q # p => seals'[q] = seals[q]
  BY DEF SealNext, IInv, TypeOK
<1>4. \A q \in Party : SendKey(q)' = SendKey(q) /\ ReceiveKey(q)' = ReceiveKey(q)
  BY <1>3 DEF SendKey, ReceiveKey
<1>5. /\ record \in Record /\ MessageOf(record) \in Message
      /\ record.key = k /\ record.nonce = Nonce(seals[p], NONCE_LEN)
  <2>1. /\ message.aad \in Aad /\ message.plaintext \in Payload
        /\ message = [aad |-> message.aad, plaintext |-> message.plaintext]
    BY ChannelAssumption DEF Aad
  <2>2. Size[message.plaintext] + TAG_LEN \in Nat
    BY <2>1, SizeAssumption DEF TAG_LEN
  <2>3. Nonce(seals[p], len) \in [counter : Nat, len : {NONCE_LEN}]
    BY <1>2 DEF Nonce, IInv, TypeOK
  <2> QED
    BY <1>1, <1>2, <2>1, <2>2, <2>3 DEF Record, Ciphertext, MessageOf
<1> HIDE DEF record, k
<1>6. /\ sealed \in [SessionKey -> Seq(Record)]
      /\ sealed' \in [SessionKey -> Seq(Record)]
      /\ sealed'[k] = Append(sealed[k], record)
      /\ \A j \in SessionKey : j # k => sealed'[j] = sealed[j]
  <2>1. sealed \in [SessionKey -> Seq(Record)]
    BY DEF IInv, TypeOK
  <2>2. Append(sealed[k], record) \in Seq(Record)
    BY <1>1, <1>5, <2>1
  <2> QED
    BY <1>1, <1>2, <2>1, <2>2
<1>7. TypeOK' /\ Shaped' /\ Distinct'
  BY <1>3, <1>6 DEF IInv, TypeOK, Shaped, Distinct
<1>8. Known'
  <2>1. \A i \in k.secret : i \in 1 .. generated
    BY <1>1 DEF IInv, Shaped
  <2> QED
    BY <1>3, <1>6, <2>1 DEF IInv, Known
<1>9. Fresh'
  <2> SUFFICES ASSUME NEW q \in Party, ephemeral[q] # NoKey
               PROVE  /\ session[q].made => ephemeral[q] \notin session[q].secret
                      /\ \A j \in SessionKey : ephemeral[q] \in j.secret =>
                           /\ j.info = q => sealed'[j] = <<>>
                           /\ j.info = Peer(q) => opened[j] = <<>>
    BY <1>3 DEF Fresh
  <2>1. ASSUME NEW j \in SessionKey, ephemeral[q] \in j.secret
        PROVE  /\ j.info = q => sealed'[j] = <<>>
               /\ j.info = Peer(q) => opened[j] = <<>>
    <3>1. j.info = q => j # k
      BY <1>1, <2>1 DEF IInv, Fresh
    <3> QED
      BY <1>6, <2>1, <3>1 DEF IInv, Fresh
  <2> QED
    BY <2>1 DEF IInv, Fresh
<1>10. Numbered'
  <2> SUFFICES ASSUME NEW j \in SessionKey, NEW n \in DOMAIN sealed'[j]
               PROVE  /\ sealed'[j][n].key = j
                      /\ sealed'[j][n].nonce = Nonce(n - 1, NONCE_LEN)
                      /\ MessageOf(sealed'[j][n]) \in Message
    BY DEF Numbered, MessageOf, Nonce
  <2>1. CASE j # k
    BY <2>1, <1>6 DEF IInv, Numbered
  <2>2. CASE j = k /\ n = Len(sealed[k]) + 1
    <3>1. sealed'[j][n] = record /\ seals[p] = n - 1
      BY <2>2, <1>1, <1>5, <1>6 DEF IInv, Counted, k
    <3> QED
      BY <3>1, <2>2, <1>5
  <2>3. CASE j = k /\ n # Len(sealed[k]) + 1
    <3>1. n \in DOMAIN sealed[k] /\ sealed'[j][n] = sealed[k][n]
      BY <2>3, <1>1, <1>5, <1>6
    <3> QED
      BY <3>1, <2>3, <1>1 DEF IInv, Numbered
  <2> QED
    BY <2>1, <2>2, <2>3
<1>11. Counted'
  <2> SUFFICES ASSUME NEW q \in Party, session[q].made
               PROVE  seals'[q] = Len(sealed'[SendKey(q)])
    BY <1>3, <1>4 DEF Counted, IInv
  <2>1. CASE q = p
    <3>1. Len(sealed'[k]) = Len(sealed[k]) + 1
      BY <1>1, <1>5, <1>6
    <3> QED
      BY <2>1, <3>1, <1>3 DEF k, IInv, Counted
  <2>2. CASE q # p
    <3>1. SendKey(q) \in SessionKey /\ SendKey(q) # k
      BY <2>2, <1>1, MadeSession DEF IInv
    <3> QED
      BY <2>2, <3>1, <1>3, <1>6 DEF IInv, Counted
  <2> QED
    BY <2>1, <2>2
<1> QED
  BY <1>7, <1>8, <1>9, <1>10, <1>11 DEF IInv

\* What is opened is the record after those that have been opened under the key.
LEMMA OpensTheNext ==
  ASSUME IInv, NEW p \in Party, NEW record \in ArrivingRecords, NEW aad, NEW len,
         OpenNext(p, record, aad, len)
  PROVE  LET k == ReceiveKey(p)
             n == Len(opened[k]) + 1
         IN  /\ session[p].made /\ k \in SessionKey /\ n \in DOMAIN sealed[k]
             /\ opened' = [opened EXCEPT ![k] = Append(@, MessageOf(sealed[k][n]))]
             /\ opens' = [opens EXCEPT ![p] = @ + 1]
             /\ UNCHANGED <<generated, ephemeral, session, seals, sealed>>
<1> DEFINE k == ReceiveKey(p)
           n == Len(opened[k]) + 1
<1>1. session[p].made /\ k \in SessionKey
  BY MadeSession DEF OpenNext, IInv
<1>2. Authentic(k, Nonce(opens[p], len), aad, record) /\ len = NONCE_LEN
  BY DEF OpenNext, Open, CheckNonce, Nonce, Ok, Err
<1>3. /\ record.key = k /\ record.nonce = Nonce(opens[p], NONCE_LEN) /\ record.aad = aad
  BY <1>2 DEF Authentic, Ciphertext
<1>4. opened' = [opened EXCEPT ![k] = Append(@, [aad |-> aad, plaintext |-> record.plaintext])]
  BY DEF OpenNext, Open, CheckNonce, Nonce, Ok, Err
<1>5. PICK at \in Positions : \/ record = sealed[at[1]][at[2]]
                             \/ \E cut \in {TAG_LEN - 1, TAG_LEN} :
                                  record = [sealed[at[1]][at[2]] EXCEPT !.len = cut]
  BY DEF ArrivingRecords
<1> DEFINE j == at[1]
           m == at[2]
<1>6. j \in SessionKey /\ m \in DOMAIN sealed[j] /\ sealed[j][m] \in Record
  BY DEF Positions, IInv, TypeOK
<1>7. /\ record.key = sealed[j][m].key /\ record.nonce = sealed[j][m].nonce
      /\ record.aad = sealed[j][m].aad /\ record.plaintext = sealed[j][m].plaintext
  BY <1>5, <1>6 DEF Record
<1> HIDE DEF j, m
<1>8. j = k /\ m - 1 = opens[p]
  <2>1. sealed[j][m].key = j /\ sealed[j][m].nonce = Nonce(m - 1, NONCE_LEN)
    BY <1>6 DEF IInv, Numbered
  <2>2. Nonce(m - 1, NONCE_LEN) = Nonce(opens[p], NONCE_LEN) => m - 1 = opens[p]
    BY DEF Nonce
  <2> QED
    BY <1>3, <1>7, <2>1, <2>2
<1>9. m = n
  BY <1>1, <1>8, <1>6 DEF IInv, Counted, TypeOK
<1>10. MessageOf(sealed[k][n]) = [aad |-> aad, plaintext |-> record.plaintext]
  BY <1>3, <1>7, <1>8, <1>9 DEF MessageOf
<1> QED
  BY <1>1, <1>4, <1>6, <1>8, <1>9, <1>10 DEF OpenNext

LEMMA OpenStep ==
  ASSUME IInv, NEW p \in Party, NEW record \in ArrivingRecords, NEW aad, NEW len,
         OpenNext(p, record, aad, len)
  PROVE  IInv'
<1> DEFINE k == ReceiveKey(p)
           next == MessageOf(sealed[k][Len(opened[k]) + 1])
<1>1. /\ session[p].made /\ k \in SessionKey /\ Len(opened[k]) + 1 \in DOMAIN sealed[k]
      /\ opened' = [opened EXCEPT ![k] = Append(@, next)]
      /\ opens' = [opens EXCEPT ![p] = @ + 1]
      /\ UNCHANGED <<generated, ephemeral, session, seals, sealed>>
  BY OpensTheNext
<1>2. k.info = Peer(p) /\ k.secret = session[p].secret
  BY <1>1, MadeSession DEF IInv
<1>3. next \in Message
  BY <1>1 DEF IInv, Numbered
<1>4. \A q \in Party : SendKey(q)' = SendKey(q) /\ ReceiveKey(q)' = ReceiveKey(q)
  BY <1>1 DEF SendKey, ReceiveKey
<1> HIDE DEF next, k
<1>5. /\ opened \in [SessionKey -> Seq(Message)]
      /\ opened' \in [SessionKey -> Seq(Message)]
      /\ opened'[k] = Append(opened[k], next)
      /\ \A j \in SessionKey : j # k => opened'[j] = opened[j]
      /\ opens' \in [Party -> Nat] /\ opens'[p] = opens[p] + 1
      /\ \A q \in Party : q # p => opens'[q] = opens[q]
  <2>1. /\ opened \in [SessionKey -> Seq(Message)]
        /\ opens \in [Party -> Nat]
    BY DEF IInv, TypeOK
  <2>2. Append(opened[k], next) \in Seq(Message)
    BY <1>1, <1>3, <2>1
  <2> QED
    BY <1>1, <2>1, <2>2
<1>6. TypeOK' /\ Shaped' /\ Distinct'
  BY <1>1, <1>5 DEF IInv, TypeOK, Shaped, Distinct
<1>7. Known'
  <2>1. \A i \in k.secret : i \in 1 .. generated
    BY <1>1, <1>2 DEF IInv, Shaped
  <2> QED
    BY <1>1, <1>5, <2>1 DEF IInv, Known
<1>8. Fresh'
  <2> SUFFICES ASSUME NEW q \in Party, ephemeral[q] # NoKey
               PROVE  /\ session[q].made => ephemeral[q] \notin session[q].secret
                      /\ \A j \in SessionKey : ephemeral[q] \in j.secret =>
                           /\ j.info = q => sealed[j] = <<>>
                           /\ j.info = Peer(q) => opened'[j] = <<>>
    BY <1>1 DEF Fresh
  <2>1. ASSUME NEW j \in SessionKey, ephemeral[q] \in j.secret
        PROVE  /\ j.info = q => sealed[j] = <<>>
               /\ j.info = Peer(q) => opened'[j] = <<>>
    <3>1. j.info = Peer(q) => j # k
      <4>1. Peer(q) = Peer(p) => q = p
        BY PeerFacts
      <4> QED
        BY <4>1, <1>1, <1>2, <2>1 DEF IInv, Fresh
    <3> QED
      BY <1>5, <2>1, <3>1 DEF IInv, Fresh
  <2> QED
    BY <2>1 DEF IInv, Fresh
<1>9. Numbered'
  BY <1>1 DEF IInv, Numbered, MessageOf, Nonce
<1>10. Counted'
  <2> SUFFICES ASSUME NEW q \in Party, session[q].made
               PROVE  opens'[q] = Len(opened'[ReceiveKey(q)])
    BY <1>1, <1>4 DEF Counted, IInv
  <2>1. CASE q = p
    <3>1. Len(opened'[k]) = Len(opened[k]) + 1
      BY <1>1, <1>3, <1>5
    <3> QED
      BY <2>1, <3>1, <1>5 DEF k, IInv, Counted
  <2>2. CASE q # p
    <3>1. ReceiveKey(q) \in SessionKey /\ ReceiveKey(q) # k
      BY <2>2, <1>2, MadeSession, PeerFacts DEF IInv
    <3> QED
      BY <2>2, <3>1, <1>5 DEF IInv, Counted
  <2> QED
    BY <2>1, <2>2
<1> QED
  BY <1>6, <1>7, <1>8, <1>9, <1>10 DEF IInv

LEMMA StutterStep ==
  ASSUME IInv, UNCHANGED vars
  PROVE  IInv'
<1>1. \A q \in Party : SendKey(q)' = SendKey(q) /\ ReceiveKey(q)' = ReceiveKey(q)
  BY DEF vars, SendKey, ReceiveKey
<1>2. TypeOK' /\ Shaped' /\ Known' /\ Fresh' /\ Distinct'
  BY DEF IInv, vars, TypeOK, Shaped, Known, Fresh, Distinct
<1>3. Numbered' /\ Counted'
  BY <1>1 DEF IInv, vars, Numbered, Counted, MessageOf, Nonce
<1> QED
  BY <1>2, <1>3 DEF IInv

LEMMA Inductive == Spec => []IInv
<1>1. IInv /\ [Next]_vars => IInv'
  BY GenerateStep, EstablishStep, SealStep, OpenStep, StutterStep DEF Next
<1> QED
  BY <1>1, InitIInv, PTL DEF Spec

-----------------------------------------------------------------------------
(* What follows *)

\* Sessions, counters and records have their types, and every session's keys
\* are of the length that Key::new takes.
THEOREM TypeCorrect == Spec => []TypeOK
<1>1. IInv => TypeOK
  BY DEF IInv
<1> QED
  BY <1>1, Inductive, PTL

\* However many sessions there are and whatever points arrive again, seal is
\* never called twice with one key and one nonce.
THEOREM NoNonceTwice == Spec => []NonceUsedOnce
<1>1. IInv => NonceUsedOnce
  <2> SUFFICES ASSUME IInv, NEW k \in SessionKey,
                      NEW m \in DOMAIN sealed[k], NEW n \in DOMAIN sealed[k],
                      sealed[k][m].nonce = sealed[k][n].nonce
               PROVE  m = n
    BY DEF NonceUsedOnce
  <2>1. m \in Nat /\ n \in Nat
    BY DEF IInv, TypeOK
  <2>2. Nonce(m - 1, NONCE_LEN) = Nonce(n - 1, NONCE_LEN)
    BY DEF IInv, Numbered
  <2>3. m - 1 = n - 1
    BY <2>2 DEF Nonce
  <2> QED
    BY <2>1, <2>3
<1> QED
  BY <1>1, Inductive, PTL

\* Two sides have matching keys exactly if each was given the other's point and
\* both go by one context.
THEOREM KeysAgree == Spec => []KeysMatch
<1>1. IInv => KeysMatch
  <2> SUFFICES ASSUME IInv, NEW p \in Party, NEW q \in Party, p # q,
                      session[p].made, session[q].made
               PROVE  SendKey(p) = ReceiveKey(q) <=>
                        /\ session[p].own = session[q].peer
                        /\ session[q].own = session[p].peer
                        /\ session[p].salt = session[q].salt
    BY DEF KeysMatch
  <2>1. Peer(q) = p
    BY DEF Peer, Party
  <2>2. SendKey(p) = ReceiveKey(q) <=> /\ session[p].secret = session[q].secret
                                       /\ session[p].salt = session[q].salt
    BY <2>1, MadeSession DEF IInv
  <2>3. /\ session[p].secret = {session[p].own, session[p].peer}
        /\ session[q].secret = {session[q].own, session[q].peer}
        /\ session[p].own # session[q].own
    BY DEF IInv, Shaped, Distinct
  <2> QED
    BY <2>2, <2>3
<1> QED
  BY <1>1, Inductive, PTL

\* Sessions made from the primitives are the ordered channels of SecureDelivery.
THEOREM ImplementsSecureDelivery == Spec => DeliversInOrder
<1> DEFINE sent == [k \in SessionKey |-> [n \in DOMAIN sealed[k] |-> MessageOf(sealed[k][n])]]
<1>1. Init => Delivery!Init
  BY DEF Init, Delivery!Init
<1>2. ASSUME IInv, [Next]_vars
      PROVE  [Delivery!Next]_<<sent, opened>>
  <2>1. CASE UNCHANGED <<sealed, opened>>
    BY <2>1 DEF MessageOf
  <2>2. ASSUME NEW p \in Party, NEW message \in Message, NEW len \in NonceLength,
               SealNext(p, message, len)
        PROVE  Delivery!Next
    <3> DEFINE k == SendKey(p)
               record == Ciphertext(k, Nonce(seals[p], len), message.aad,
                                    message.plaintext, Size[message.plaintext] + TAG_LEN)
    <3>1. k \in SessionKey /\ sealed' = [sealed EXCEPT ![k] = Append(@, record)]
      BY <1>2, <2>2, MadeSession DEF SealNext, Seal, CheckNonce, Nonce, Ok, Err, IInv
    <3>2. MessageOf(record) = message
      BY ChannelAssumption DEF MessageOf, Ciphertext
    <3> HIDE DEF record, k
    <3>3. sealed \in [SessionKey -> Seq(Record)]
      BY <1>2 DEF IInv, TypeOK
    <3>4. sealed'[k] = Append(sealed[k], record)
          /\ \A j \in SessionKey : j # k => sealed'[j] = sealed[j]
      BY <3>1, <3>3
    <3>5. sent'[k] = Append(sent[k], message)
      BY <3>1, <3>2, <3>3, <3>4
    <3>6. sent' = [sent EXCEPT ![k] = sent'[k]]
      BY <3>1, <3>3, <3>4
    <3>7. UNCHANGED opened
      BY <2>2 DEF SealNext
    <3>8. \E m \in Message : sent'[k] = Append(sent[k], m)
      BY <3>5
    <3> QED
      BY ONLY <3>1, <3>6, <3>7, <3>8, Zenon DEF Delivery!Next, Delivery!Send
  <2>3. ASSUME NEW p \in Party, NEW record \in ArrivingRecords, NEW aad, NEW len,
               OpenNext(p, record, aad, len)
        PROVE  Delivery!Next
    <3> DEFINE k == ReceiveKey(p)
               n == Len(opened[k]) + 1
    <3>1. /\ k \in SessionKey /\ n \in DOMAIN sealed[k] /\ UNCHANGED sealed
          /\ opened' = [opened EXCEPT ![k] = Append(@, MessageOf(sealed[k][n]))]
      BY <1>2, <2>3, OpensTheNext
    <3> HIDE DEF k
    <3>2. /\ sealed \in [SessionKey -> Seq(Record)]
          /\ opened \in [SessionKey -> Seq(Message)]
      BY <1>2 DEF IInv, TypeOK
    <3>3. Len(sent[k]) = Len(sealed[k]) /\ Len(opened[k]) < Len(sent[k])
      BY <3>1, <3>2
    <3>4. sent[k][n] = MessageOf(sealed[k][n])
      BY <3>1
    <3>5. /\ opened'[k] = Append(opened[k], sent[k][n])
          /\ opened' = [opened EXCEPT ![k] = opened'[k]]
      BY <3>1, <3>2, <3>4
    <3>6. UNCHANGED sent
      BY <3>1 DEF MessageOf
    <3>7. Delivery!Deliver(k)
      BY <3>3, <3>5, <3>6 DEF Delivery!Deliver
    <3> QED
      BY <3>1, <3>7 DEF Delivery!Next
  <2>4. ASSUME NEW p \in Party, Generate(p)
        PROVE  UNCHANGED <<sealed, opened>>
    BY <2>4 DEF Generate
  <2>5. ASSUME NEW p \in Party, NEW point, NEW salt, NEW len, Establish(p, point, salt, len)
        PROVE  UNCHANGED <<sealed, opened>>
    BY <2>5 DEF Establish
  <2>6. CASE UNCHANGED vars
    BY <2>1, <2>6 DEF vars
  <2> QED
    BY <1>2, <2>1, <2>2, <2>3, <2>4, <2>5, <2>6 DEF Next
<1> QED
  BY <1>1, <1>2, Inductive, PTL DEF Spec, DeliversInOrder, Delivery!Spec
=============================================================================
