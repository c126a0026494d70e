---------------------- MODULE AuthenticateServerProofs ----------------------
(***************************************************************************)
(* Proofs about the exchange of tests/authenticate_server.rs, for any      *)
(* servers, cards, certificates and number of exchanges.                   *)
(*                                                                         *)
(* What makes the exchange work is where signatures come from: a server's  *)
(* from one of its exchanges, a card's from something it has accepted.     *)
(* Since servers never repeat a challenge, EuiccSigned1 then leads back to *)
(* one exchange only, though it repeats but a part of ServerSigned1.       *)
(***************************************************************************)
EXTENDS AuthenticateServer, TLAPS

\* Exchanges are numbered by their challenges.
Numbered == \A n \in DOMAIN sessions : sessions[n].serverChallenge = n

\* An exchange in which cert's subject has sent signed1.
Origin(cert, signed1, n) ==
  /\ n \in DOMAIN sessions
  /\ sessions[n].cert.subject = cert.subject
  /\ ServerSigned1(sessions[n]) = signed1

\* Every signature of a server is from one of its exchanges, and every signature
\* of a card answers what the card has accepted.
Founded ==
  \A s \in signatures :
    \/ \E n \in DOMAIN sessions :
         s = Signature(sessions[n].cert.subject, ServerSigned1(sessions[n]))
    \/ \E a \in accepted : s = Signature(a.card, EuiccSigned1(a.signed1))

AllAnswered == \A n \in finished : Answered(sessions[n].card, sessions[n])

IInv == TypeOK /\ Numbered /\ Founded /\ AcceptedWasSigned /\ AllAnswered

-----------------------------------------------------------------------------
(* Types *)

\* What is signed in an exchange has its type.
LEMMA SignedTypes ==
  /\ \A s \in Session : ServerSigned1(s) \in ServerSigned1s /\ s.cert.subject \in Server
  /\ \A m \in ServerSigned1s : EuiccSigned1(m) \in EuiccSigned1s
<1>1. \A s \in Session : s.cert.subject \in Server
  BY CertificateAssumption DEF Session
<1>2. \A s \in Session : Address[s.cert.subject] \in {Address[server] : server \in Server}
  BY <1>1
<1>3. \A s \in Session : ServerSigned1(s) \in ServerSigned1s
  BY <1>2 DEF ServerSigned1, ServerSigned1s, Session
<1>4. \A m \in ServerSigned1s : EuiccSigned1(m) \in EuiccSigned1s
  BY DEF ServerSigned1s, EuiccSigned1s, EuiccSigned1
<1> QED  BY <1>1, <1>3, <1>4

\* The exchange that a server adds to those there are.
LEMMA SessionAdded ==
  ASSUME NEW s \in Session, sessions \in Seq(Session), sessions' = Append(sessions, s)
  PROVE  /\ sessions' \in Seq(Session)
         /\ DOMAIN sessions = 1 .. Len(sessions)
         /\ DOMAIN sessions' = 1 .. Len(sessions) + 1
         /\ \A n \in DOMAIN sessions : n \in DOMAIN sessions' /\ sessions'[n] = sessions[n]
         /\ sessions'[Len(sessions) + 1] = s
OBVIOUS

\* A certificate that is trusted has an issuer whose key the card has.
LEMMA TrustedIssuer ==
  ASSUME NEW card, NEW id, NEW cert, CertificateTrusted(card, id, cert)
  PROVE  \E i \in DOMAIN trusted[card] : trusted[card][i].key = cert.issuer
<1>1. CiKeys!Verifying(trusted[card], id, cert) # {}
  BY DEF CertificateTrusted, CiKeys!Verify, CiKeys!Refused
<1>2. PICK i \in DOMAIN trusted[card] :
        <<cert, trusted[card][i].key>> \in {<<c, c.issuer>> : c \in Certificate}
  BY <1>1 DEF CiKeys!Verifying, CiKeys!Candidates
<1> QED  BY <1>2

-----------------------------------------------------------------------------
(* The exchange that a signature leads back to *)

\* Equal challenges, equal exchanges.
LEMMA SameExchange ==
  ASSUME Numbered, NEW m \in DOMAIN sessions, NEW n \in DOMAIN sessions,
         EuiccSigned1(ServerSigned1(sessions[m])) = EuiccSigned1(ServerSigned1(sessions[n]))
  PROVE  m = n
<1>1. sessions[m].serverChallenge = sessions[n].serverChallenge
  BY DEF EuiccSigned1, ServerSigned1
<1> QED  BY <1>1 DEF Numbered

\* A signature that verifies under a server's key has been made in an exchange.
LEMMA ServersSignature ==
  ASSUME IInv, NEW server \in Server, NEW message, NEW signature \in signatures,
         SignatureVerifies(server, message, signature)
  PROVE  \E n \in DOMAIN sessions :
           /\ sessions[n].cert.subject = server
           /\ ServerSigned1(sessions[n]) = message
<1>1. signature.key = server /\ signature.message = message
  BY DEF SignatureVerifies, Signature
<1>2. ASSUME NEW a \in accepted, signature = Signature(a.card, EuiccSigned1(a.signed1))
      PROVE  FALSE
  <2>1. signature.key \in Card
    BY <1>2 DEF IInv, TypeOK, Signature
  <2> QED  BY <1>1, <2>1, PartiesAssumption
<1>3. PICK n \in DOMAIN sessions :
        signature = Signature(sessions[n].cert.subject, ServerSigned1(sessions[n]))
  BY <1>2 DEF IInv, Founded
<1> QED  BY <1>1, <1>3 DEF Signature

\* A signature under a card's key for the answer to an exchange shows that the
\* card has accepted that exchange.
LEMMA CardsSignature ==
  ASSUME IInv, NEW n \in DOMAIN sessions, NEW signature \in signatures,
         SignatureVerifies(sessions[n].card, EuiccSigned1(ServerSigned1(sessions[n])), signature)
  PROVE  Answered(sessions[n].card, sessions[n])
<1>1. /\ signature.key = sessions[n].card
      /\ signature.message = EuiccSigned1(ServerSigned1(sessions[n]))
  BY DEF SignatureVerifies, Signature
<1>2. sessions[n] \in Session
  BY DEF IInv, TypeOK
<1>3. sessions[n].card \in Card
  BY <1>2 DEF Session
<1>4. ASSUME NEW m \in DOMAIN sessions,
             signature = Signature(sessions[m].cert.subject, ServerSigned1(sessions[m]))
      PROVE  FALSE
  <2>1. sessions[m] \in Session
    BY DEF IInv, TypeOK
  <2>2. signature.key \in Server
    BY <1>4, <2>1, SignedTypes DEF Signature
  <2> QED  BY <1>1, <1>3, <2>2, PartiesAssumption
<1>5. PICK a \in accepted : signature = Signature(a.card, EuiccSigned1(a.signed1))
  BY <1>4 DEF IInv, Founded
<1>6. a.card = sessions[n].card
      /\ EuiccSigned1(a.signed1) = EuiccSigned1(ServerSigned1(sessions[n]))
  BY <1>1, <1>5 DEF Signature
<1>7. PICK m \in DOMAIN sessions :
        sessions[m].cert.subject = a.cert.subject /\ ServerSigned1(sessions[m]) = a.signed1
  BY DEF IInv, AcceptedWasSigned
<1>8. m = n
  BY <1>6, <1>7, SameExchange DEF IInv
<1> QED  BY <1>6, <1>7, <1>8 DEF Answered

-----------------------------------------------------------------------------
(* The invariant *)

LEMMA InitIInv == Init => IInv
<1> SUFFICES ASSUME Init PROVE IInv
  OBVIOUS
<1>1. TypeOK
  <2>1. <<>> \in Seq([id : Id \ {<<>>}, key : Ci]) /\ <<>> \in Seq(Session)
    OBVIOUS
  <2> QED  BY <2>1 DEF Init, TypeOK
<1> QED  BY <1>1 DEF Init, IInv, Numbered, Founded, AcceptedWasSigned, AllAnswered

\* A key that is added leaves the others where they are.
LEMMA AddCiKeyStep ==
  ASSUME IInv, NEW card \in Card, NEW id \in Id \ {<<>>}, NEW ci \in Ci,
         AddCiKey(card, id, ci)
  PROVE  IInv'
<1> DEFINE entry == [id |-> id, key |-> ci]
           Entries == [id : Id \ {<<>>}, key : Ci]
<1>1. entry \in Entries /\ trusted \in [Card -> Seq(Entries)]
  BY DEF IInv, TypeOK
<1>2. UNCHANGED <<sessions, signatures, accepted, finished>>
  BY DEF AddCiKey
<1>3. trusted' = [trusted EXCEPT ![card] = Append(@, entry)]
  BY DEF AddCiKey
<1> HIDE DEF entry, Entries
<1>4. \A c \in Card : trusted'[c] = IF c = card THEN Append(trusted[card], entry) ELSE trusted[c]
  BY <1>1, <1>3
<1>5. \A c \in Card : trusted[c] \in Seq(Entries)
  BY <1>1
<1>6. \A c \in Card : \A i \in DOMAIN trusted[c] :
        i \in DOMAIN trusted'[c] /\ trusted'[c][i] = trusted[c][i]
  <2> SUFFICES ASSUME NEW c \in Card, NEW i \in DOMAIN trusted[c]
               PROVE  i \in DOMAIN trusted'[c] /\ trusted'[c][i] = trusted[c][i]
    OBVIOUS
  <2>1. ASSUME NEW set \in Seq(Entries), NEW k \in DOMAIN set
        PROVE  k \in DOMAIN Append(set, entry) /\ Append(set, entry)[k] = set[k]
    BY <1>1
  <2>2. ASSUME c = card
        PROVE  i \in DOMAIN trusted'[c] /\ trusted'[c][i] = trusted[c][i]
    <3>1. trusted'[c] = Append(trusted[c], entry)
      BY <1>4, <2>2
    <3>2. trusted[c] \in Seq(Entries)
      BY <1>5
    <3> QED  BY <2>1, <3>1, <3>2
  <2>3. ASSUME c # card
        PROVE  i \in DOMAIN trusted'[c] /\ trusted'[c][i] = trusted[c][i]
    <3>1. trusted'[c] = trusted[c]
      BY <1>4, <2>3
    <3> QED  BY <3>1
  <2> QED  BY <2>2, <2>3
<1>7. trusted' \in [Card -> Seq(Entries)]
  BY <1>1, <1>3, <1>5
<1>8. TypeOK'
  BY <1>2, <1>7 DEF IInv, TypeOK, Entries
<1>9. \A a \in accepted : a.card \in Card
  BY DEF IInv, TypeOK
<1>10. AcceptedWasSigned'
  <2> SUFFICES ASSUME NEW a \in accepted
               PROVE  /\ \E n \in DOMAIN sessions :
                           /\ sessions[n].cert.subject = a.cert.subject
                           /\ ServerSigned1(sessions[n]) = a.signed1
                      /\ \E i \in DOMAIN trusted'[a.card] : trusted'[a.card][i].key = a.cert.issuer
    BY <1>2 DEF AcceptedWasSigned, ServerSigned1
  <2>1. PICK i \in DOMAIN trusted[a.card] : trusted[a.card][i].key = a.cert.issuer
    BY DEF IInv, AcceptedWasSigned
  <2>2. i \in DOMAIN trusted'[a.card] /\ trusted'[a.card][i].key = a.cert.issuer
    BY <1>6, <1>9, <2>1
  <2> QED  BY <2>2 DEF IInv, AcceptedWasSigned
<1>11. Numbered' /\ Founded' /\ AllAnswered'
  BY <1>2 DEF IInv, Numbered, Founded, AllAnswered, Answered, ServerSigned1, EuiccSigned1, Signature
<1> QED  BY <1>8, <1>10, <1>11 DEF IInv

\* An exchange that is new leaves the others as they are.
LEMMA ServerSignsStep ==
  ASSUME IInv, NEW card \in Card, NEW cert \in Certificate, NEW id \in Id,
         NEW tid \in Tid, NEW ch \in Challenge, ServerSigns(card, cert, id, tid, ch)
  PROVE  IInv'
<1> DEFINE s == [card |-> card, cert |-> cert, id |-> id, tid |-> tid,
                 euiccChallenge |-> ch, serverChallenge |-> Len(sessions) + 1]
<1>1. /\ sessions' = Append(sessions, s)
      /\ signatures' = signatures \cup {Signature(s.cert.subject, ServerSigned1(s))}
      /\ UNCHANGED <<trusted, accepted, finished>>
      /\ Len(sessions) < MaxSessions
  BY DEF ServerSigns
<1>2. sessions \in Seq(Session)
  BY DEF IInv, TypeOK
<1>3. Len(sessions) + 1 \in 1 .. MaxSessions
  BY <1>1, <1>2, BoundsAssumption
<1>4. s \in Session
  BY <1>3 DEF Session
<1>5. s.serverChallenge = Len(sessions) + 1
  OBVIOUS
<1> HIDE DEF s
<1>6. /\ sessions' \in Seq(Session)
      /\ DOMAIN sessions' = 1 .. Len(sessions) + 1
      /\ \A n \in DOMAIN sessions : n \in DOMAIN sessions' /\ sessions'[n] = sessions[n]
      /\ sessions'[Len(sessions) + 1] = s
      /\ DOMAIN sessions = 1 .. Len(sessions)
  BY <1>1, <1>2, <1>4, SessionAdded
<1>7. Len(sessions) + 1 \in DOMAIN sessions'
  BY <1>2, <1>6
<1>8. TypeOK'
  <2>1. finished' \subseteq DOMAIN sessions'
    BY <1>1, <1>6 DEF IInv, TypeOK
  <2>2. ServerSigned1(s) \in ServerSigned1s /\ s.cert.subject \in Server
    BY <1>4, SignedTypes
  <2>3. \A x \in signatures' :
          \/ x.key \in Server /\ x.message \in ServerSigned1s
          \/ x.key \in Card /\ x.message \in EuiccSigned1s
    BY <1>1, <2>2 DEF IInv, TypeOK, Signature
  <2> QED  BY <1>1, <1>6, <2>1, <2>3 DEF IInv, TypeOK
<1>9. Numbered'
  <2>1. \A n \in DOMAIN sessions' : n \in DOMAIN sessions \/ n = Len(sessions) + 1
    BY <1>2, <1>6
  <2> QED  BY <1>5, <1>6, <2>1 DEF IInv, Numbered
<1>10. Founded'
  <2>1. ASSUME NEW x \in signatures,
               NEW n \in DOMAIN sessions,
               x = Signature(sessions[n].cert.subject, ServerSigned1(sessions[n]))
        PROVE  x = Signature(sessions'[n].cert.subject, ServerSigned1(sessions'[n]))
               /\ n \in DOMAIN sessions'
    BY <1>6, <2>1
  <2>2. \A x \in signatures :
          \/ \E n \in DOMAIN sessions' :
               x = Signature(sessions'[n].cert.subject, ServerSigned1(sessions'[n]))
          \/ \E a \in accepted : x = Signature(a.card, EuiccSigned1(a.signed1))
    BY <2>1 DEF IInv, Founded
  <2>3. \E n \in DOMAIN sessions' :
          Signature(s.cert.subject, ServerSigned1(s))
            = Signature(sessions'[n].cert.subject, ServerSigned1(sessions'[n]))
    BY <1>6, <1>7
  <2>4. \A x \in signatures' :
          \/ \E n \in DOMAIN sessions' :
               x = Signature(sessions'[n].cert.subject, ServerSigned1(sessions'[n]))
          \/ \E a \in accepted : x = Signature(a.card, EuiccSigned1(a.signed1))
    BY <1>1, <2>2, <2>3
  <2> QED  BY <1>1, <2>4 DEF Founded, Signature, ServerSigned1, EuiccSigned1
<1>11. AcceptedWasSigned'
  <2>1. ASSUME NEW a \in accepted
        PROVE  \E n \in DOMAIN sessions' :
                 /\ sessions'[n].cert.subject = a.cert.subject
                 /\ ServerSigned1(sessions'[n]) = a.signed1
    BY <1>6 DEF IInv, AcceptedWasSigned
  <2>2. \A a \in accepted :
          \E i \in DOMAIN trusted[a.card] : trusted[a.card][i].key = a.cert.issuer
    BY DEF IInv, AcceptedWasSigned
  <2> QED  BY <1>1, <2>1, <2>2 DEF AcceptedWasSigned, ServerSigned1
<1>12. AllAnswered'
  <2>1. \A n \in finished : n \in DOMAIN sessions /\ sessions'[n] = sessions[n]
    BY <1>6 DEF IInv, TypeOK
  <2> QED  BY <1>1, <2>1 DEF IInv, AllAnswered, Answered, ServerSigned1
<1> QED  BY <1>8, <1>9, <1>10, <1>11, <1>12 DEF IInv

\* What a card accepts was sent in one exchange, whatever it was handed.
LEMMA CardAnswersStep ==
  ASSUME IInv, NEW card \in Card, NEW id, NEW cert \in Certificate, NEW signed1,
         NEW signature \in signatures, CardAnswers(card, id, cert, signed1, signature)
  PROVE  /\ IInv'
         /\ \E n \in DOMAIN sessions : Origin(cert, signed1, n)
<1> DEFINE a == [card |-> card, cert |-> cert, signed1 |-> signed1]
<1>1. /\ accepted' = accepted \cup {a}
      /\ signatures' = signatures \cup {Signature(card, EuiccSigned1(signed1))}
      /\ UNCHANGED <<trusted, sessions, finished>>
      /\ CertificateTrusted(card, id, cert)
      /\ SignatureVerifies(cert.subject, signed1, signature)
  BY DEF CardAnswers
<1>2. cert.subject \in Server
  BY CertificateAssumption
<1>3. PICK n \in DOMAIN sessions : Origin(cert, signed1, n)
  BY <1>1, <1>2, ServersSignature DEF Origin
<1>4. sessions[n] \in Session
  BY DEF IInv, TypeOK
<1>5. signed1 \in ServerSigned1s
  BY <1>3, <1>4, SignedTypes DEF Origin
<1>6. EuiccSigned1(signed1) \in EuiccSigned1s
  BY <1>5, SignedTypes
<1>7. /\ a.card = card /\ a.cert = cert /\ a.signed1 = signed1
      /\ a \in [card : Card, cert : Certificate, signed1 : ServerSigned1s]
  BY <1>5
<1> HIDE DEF a
<1>8. TypeOK'
  <2>1. accepted' \subseteq [card : Card, cert : Certificate, signed1 : ServerSigned1s]
    BY <1>1, <1>7 DEF IInv, TypeOK
  <2>2. \A x \in signatures' :
          \/ x.key \in Server /\ x.message \in ServerSigned1s
          \/ x.key \in Card /\ x.message \in EuiccSigned1s
    BY <1>1, <1>6 DEF IInv, TypeOK, Signature
  <2> QED  BY <1>1, <2>1, <2>2 DEF IInv, TypeOK
<1>9. Founded'
  <2>1. \A x \in signatures :
          \/ \E m \in DOMAIN sessions :
               x = Signature(sessions[m].cert.subject, ServerSigned1(sessions[m]))
          \/ \E b \in accepted' : x = Signature(b.card, EuiccSigned1(b.signed1))
    BY <1>1 DEF IInv, Founded
  <2>2. \E b \in accepted' :
          Signature(card, EuiccSigned1(signed1)) = Signature(b.card, EuiccSigned1(b.signed1))
    BY <1>1, <1>7
  <2> QED  BY <1>1, <2>1, <2>2 DEF Founded, Signature, ServerSigned1, EuiccSigned1
<1>10. AcceptedWasSigned'
  <2>1. \E m \in DOMAIN sessions :
          sessions[m].cert.subject = a.cert.subject /\ ServerSigned1(sessions[m]) = a.signed1
    BY <1>3, <1>7 DEF Origin
  <2>2. \E i \in DOMAIN trusted[a.card] : trusted[a.card][i].key = a.cert.issuer
    BY <1>1, <1>7, TrustedIssuer
  <2> QED  BY <1>1, <2>1, <2>2 DEF IInv, AcceptedWasSigned, ServerSigned1
<1>11. Numbered' /\ AllAnswered'
  BY <1>1 DEF IInv, Numbered, AllAnswered, Answered, ServerSigned1
<1> QED  BY <1>3, <1>8, <1>9, <1>10, <1>11 DEF IInv

\* What a server verifies, the card has accepted.
LEMMA ServerVerifiesStep ==
  ASSUME IInv, NEW n \in DOMAIN sessions, NEW signature \in signatures,
         ServerVerifies(n, signature)
  PROVE  IInv' /\ Answered(sessions[n].card, sessions[n])
<1>1. /\ finished' = finished \cup {n}
      /\ UNCHANGED <<trusted, sessions, signatures, accepted>>
      /\ SignatureVerifies(sessions[n].card, EuiccSigned1(ServerSigned1(sessions[n])), signature)
  BY DEF ServerVerifies
<1>2. Answered(sessions[n].card, sessions[n])
  BY <1>1, CardsSignature
<1>3. TypeOK'
  BY <1>1 DEF IInv, TypeOK
<1>4. Numbered' /\ AcceptedWasSigned'
  BY <1>1 DEF IInv, Numbered, AcceptedWasSigned, ServerSigned1
<1>5. Founded'
  BY <1>1 DEF IInv, Founded, Signature, ServerSigned1, EuiccSigned1
<1>6. AllAnswered'
  BY <1>1, <1>2 DEF IInv, AllAnswered, Answered, ServerSigned1
<1> QED  BY <1>2, <1>3, <1>4, <1>5, <1>6 DEF IInv

\* One step of the exchange, whoever takes it.
LEMMA NextCases ==
  ASSUME Next
  PROVE  \/ \E card \in Card, id \in Id \ {<<>>}, ci \in Ci : AddCiKey(card, id, ci)
         \/ \E card \in Card, cert \in Certificate, id \in Id, tid \in Tid, ch \in Challenge :
              ServerSigns(card, cert, id, tid, ch)
         \/ \E card \in Card, j \in DOMAIN sessions, k \in DOMAIN sessions,
                signed1 \in {[ServerSigned1(sessions[i]) EXCEPT !.tid = tid] :
                              i \in DOMAIN sessions, tid \in Tid},
                signature \in signatures :
              CardAnswers(card, sessions[j].id, sessions[k].cert, signed1, signature)
         \/ \E n \in DOMAIN sessions, signature \in signatures : ServerVerifies(n, signature)
<1>1. CASE CardReceives
  BY <1>1 DEF CardReceives
<1> QED  BY <1>1 DEF Next

\* What a card is handed is a certificate.
LEMMA ReceivedCertificate ==
  ASSUME IInv, NEW k \in DOMAIN sessions
  PROVE  sessions[k] \in Session /\ sessions[k].cert \in Certificate
<1>1. sessions[k] \in Session
  BY DEF IInv, TypeOK
<1> QED  BY <1>1 DEF Session

LEMMA NextIInv == IInv /\ [Next]_vars => IInv'
<1> SUFFICES ASSUME IInv, [Next]_vars PROVE IInv'
  OBVIOUS
<1>1. CASE UNCHANGED vars
  <2>1. UNCHANGED <<trusted, sessions, signatures, accepted, finished>>
    BY <1>1 DEF vars
  <2>2. TypeOK'
    BY <2>1 DEF IInv, TypeOK
  <2>3. Numbered' /\ AcceptedWasSigned'
    BY <2>1 DEF IInv, Numbered, AcceptedWasSigned, ServerSigned1
  <2>4. Founded' /\ AllAnswered'
    BY <2>1 DEF IInv, Founded, AllAnswered, Answered, Signature, ServerSigned1, EuiccSigned1
  <2> QED  BY <2>2, <2>3, <2>4 DEF IInv
<1>2. CASE Next
  BY <1>2, NextCases, ReceivedCertificate, AddCiKeyStep, ServerSignsStep, CardAnswersStep,
     ServerVerifiesStep
<1> QED  BY <1>1, <1>2

LEMMA InvariantHolds == Spec => []IInv
<1>1. Init => IInv  BY InitIInv
<1>2. IInv /\ [Next]_vars => IInv'  BY NextIInv
<1> QED  BY <1>1, <1>2, PTL DEF Spec

\* Types, and that a card never signs a ServerSigned1 nor a server an EuiccSigned1
\* (tests/authenticate_server.rs 91-137).
THEOREM TypeCorrect == Spec => []TypeOK
<1>1. IInv => TypeOK  BY DEF IInv
<1> QED  BY <1>1, InvariantHolds, PTL

\* A card accepts only what one of the servers it can trust did send
\* (tests/authenticate_server.rs 102-118).
THEOREM OnlySignedAccepted == Spec => []AcceptedWasSigned
<1>1. IInv => AcceptedWasSigned  BY DEF IInv
<1> QED  BY <1>1, InvariantHolds, PTL

-----------------------------------------------------------------------------
(* Refinement *)

offered   == ToSet(sessions)
answered  == {pair \in Card \X ToSet(sessions) : Answered(pair[1], pair[2])}
completed == {sessions[n] : n \in finished}

\* The sessions that are offered are those in the sequence.
LEMMA OfferedSessions ==
  ASSUME NEW s \in offered
  PROVE  \E n \in DOMAIN sessions : sessions[n] = s
BY DEF offered, ToSet

\* Two exchanges with one ServerSigned1 are one exchange.
LEMMA OneOrigin ==
  ASSUME Numbered, NEW s \in offered, NEW n \in DOMAIN sessions,
         ServerSigned1(s) = ServerSigned1(sessions[n])
  PROVE  s = sessions[n]
<1>1. PICK m \in DOMAIN sessions : sessions[m] = s
  BY OfferedSessions
<1>2. EuiccSigned1(ServerSigned1(sessions[m])) = EuiccSigned1(ServerSigned1(sessions[n]))
  BY <1>1
<1> QED  BY <1>1, <1>2, SameExchange

\* Nothing has answered an exchange that is only about to begin.
LEMMA NewIsUnanswered ==
  ASSUME IInv, NEW card, NEW s \in Session, s.serverChallenge = Len(sessions) + 1
  PROVE  ~ Answered(card, s)
<1> SUFFICES ASSUME NEW a \in accepted, a.signed1 = ServerSigned1(s) PROVE FALSE
  BY DEF Answered
<1>1. PICK n \in DOMAIN sessions : ServerSigned1(sessions[n]) = a.signed1
  BY DEF IInv, AcceptedWasSigned
<1>2. sessions[n].serverChallenge = s.serverChallenge
  BY <1>1 DEF ServerSigned1
<1>3. n \in 1 .. Len(sessions) /\ Len(sessions) \in Nat
  BY DEF IInv, TypeOK
<1>4. n = Len(sessions) + 1
  BY <1>2 DEF IInv, Numbered
<1> QED  BY <1>3, <1>4

\* Beginning an exchange makes an offer.
LEMMA SignsMakesOffer ==
  ASSUME IInv, NEW card \in Card, NEW cert \in Certificate, NEW id \in Id,
         NEW tid \in Tid, NEW ch \in Challenge, ServerSigns(card, cert, id, tid, ch)
  PROVE  \E s \in Session :
           offered' = offered \cup {s} /\ answered' = answered /\ completed' = completed
<1> DEFINE s == [card |-> card, cert |-> cert, id |-> id, tid |-> tid,
                 euiccChallenge |-> ch, serverChallenge |-> Len(sessions) + 1]
<1>1. /\ sessions' = Append(sessions, s)
      /\ UNCHANGED <<accepted, finished>>
      /\ Len(sessions) < MaxSessions
  BY DEF ServerSigns
<1>2. sessions \in Seq(Session)
  BY DEF IInv, TypeOK
<1>3. Len(sessions) + 1 \in 1 .. MaxSessions
  BY <1>1, <1>2, BoundsAssumption
<1>4. s \in Session
  BY <1>3 DEF Session
<1>5. s.serverChallenge = Len(sessions) + 1
  OBVIOUS
<1> HIDE DEF s
<1>6. /\ DOMAIN sessions' = 1 .. Len(sessions) + 1
      /\ DOMAIN sessions = 1 .. Len(sessions)
      /\ \A n \in DOMAIN sessions : n \in DOMAIN sessions' /\ sessions'[n] = sessions[n]
      /\ sessions'[Len(sessions) + 1] = s
  BY <1>1, <1>2, <1>4, SessionAdded
<1>7. \A n \in DOMAIN sessions' : n \in DOMAIN sessions \/ n = Len(sessions) + 1
  BY <1>2, <1>6
<1>8. Len(sessions) + 1 \in DOMAIN sessions'
  BY <1>2, <1>6
<1>9. offered' = offered \cup {s}
  BY <1>6, <1>7, <1>8 DEF offered, ToSet
<1>10. \A c, x : Answered(c, x)' <=> Answered(c, x)
  BY <1>1 DEF Answered, ServerSigned1
<1>11. \A c : ~ Answered(c, s)
  BY <1>4, <1>5, NewIsUnanswered
<1>12. answered' = answered
  <2>1. \A pair : pair \in answered' <=> pair \in Card \X offered' /\ Answered(pair[1], pair[2])'
    BY DEF answered, offered
  <2>2. \A pair : pair \in answered <=> pair \in Card \X offered /\ Answered(pair[1], pair[2])
    BY DEF answered, offered
  <2>3. \A pair \in Card \X offered' : Answered(pair[1], pair[2]) => pair \in Card \X offered
    BY <1>9, <1>11
  <2>4. \A pair \in Card \X offered : pair \in Card \X offered'
    BY <1>9
  <2> QED  BY <1>10, <2>1, <2>2, <2>3, <2>4
<1>13. completed' = completed
  <2>1. \A n \in finished : sessions'[n] = sessions[n]
    BY <1>6 DEF IInv, TypeOK
  <2> QED  BY <1>1, <2>1 DEF completed
<1> QED  BY <1>4, <1>9, <1>12, <1>13

\* Accepting a ServerSigned1 answers the one exchange that it is from.
LEMMA AnswersAnswer ==
  ASSUME IInv, NEW card \in Card, NEW id, NEW cert \in Certificate, NEW signed1,
         NEW signature \in signatures, CardAnswers(card, id, cert, signed1, signature)
  PROVE  \E s \in offered :
           /\ s \in Session
           /\ offered' = offered /\ answered' = answered \cup {<<card, s>>}
           /\ completed' = completed
<1> DEFINE a == [card |-> card, cert |-> cert, signed1 |-> signed1]
<1>1. accepted' = accepted \cup {a} /\ UNCHANGED <<sessions, finished>>
  BY DEF CardAnswers
<1>2. a.card = card /\ a.cert = cert /\ a.signed1 = signed1
  OBVIOUS
<1> HIDE DEF a
<1>3. PICK n \in DOMAIN sessions : Origin(cert, signed1, n)
  BY CardAnswersStep
<1>4. sessions[n] \in Session /\ sessions[n] \in offered
  BY ReceivedCertificate DEF offered, ToSet
<1>5. offered' = offered /\ completed' = completed
  BY <1>1 DEF offered, completed
<1>6. \A c, x : Answered(c, x)' <=>
                 \/ Answered(c, x)
                 \/ c = card /\ x.cert.subject = cert.subject /\ ServerSigned1(x) = signed1
  BY <1>1, <1>2 DEF Answered, ServerSigned1
<1>7. \A c : \A x \in offered :
        Answered(c, x)' <=> Answered(c, x) \/ (c = card /\ x = sessions[n])
  <2>1. \A x \in offered :
          x.cert.subject = cert.subject /\ ServerSigned1(x) = signed1 <=> x = sessions[n]
    BY <1>3, OneOrigin DEF Origin, IInv
  <2> QED  BY <1>6, <2>1
<1>8. answered' = answered \cup {<<card, sessions[n]>>}
  <2>1. \A pair : pair \in answered' <=> pair \in Card \X offered /\ Answered(pair[1], pair[2])'
    BY <1>5 DEF answered, offered
  <2>2. \A pair : pair \in answered <=> pair \in Card \X offered /\ Answered(pair[1], pair[2])
    BY DEF answered, offered
  <2>3. \A pair \in Card \X offered :
          Answered(pair[1], pair[2])' <=>
            Answered(pair[1], pair[2]) \/ pair = <<card, sessions[n]>>
    BY <1>7
  <2>4. <<card, sessions[n]>> \in Card \X offered
    BY <1>4
  <2> QED  BY <2>1, <2>2, <2>3, <2>4
<1> QED  BY <1>4, <1>5, <1>8

\* Verifying an answer completes an exchange that its card has answered.
LEMMA VerifiesCompletes ==
  ASSUME IInv, NEW n \in DOMAIN sessions, NEW signature \in signatures,
         ServerVerifies(n, signature)
  PROVE  /\ sessions[n] \in Session
         /\ <<sessions[n].card, sessions[n]>> \in answered
         /\ offered' = offered /\ answered' = answered
         /\ completed' = completed \cup {sessions[n]}
<1>1. finished' = finished \cup {n} /\ UNCHANGED <<sessions, accepted>>
  BY DEF ServerVerifies
<1>2. sessions[n] \in Session /\ sessions[n] \in offered
  BY ReceivedCertificate DEF offered, ToSet
<1>3. sessions[n].card \in Card
  BY <1>2 DEF Session
<1>4. Answered(sessions[n].card, sessions[n])
  BY ServerVerifiesStep
<1>5. <<sessions[n].card, sessions[n]>> \in answered
  BY <1>2, <1>3, <1>4 DEF answered, offered
<1>6. offered' = offered /\ answered' = answered
  BY <1>1 DEF offered, answered, Answered, ServerSigned1
<1>7. completed' = completed \cup {sessions[n]}
  BY <1>1 DEF completed
<1> QED  BY <1>2, <1>5, <1>6, <1>7

LEMMA StepRefines == IInv /\ [Next]_vars => [Abstract!Next]_(Abstract!vars)
<1> SUFFICES ASSUME IInv, [Next]_vars PROVE [Abstract!Next]_(Abstract!vars)
  OBVIOUS
<1>1. ASSUME offered' = offered, answered' = answered, completed' = completed
      PROVE  UNCHANGED Abstract!vars
  BY <1>1 DEF Abstract!vars, offered, answered, completed
<1>2. ASSUME NEW s \in Session,
             offered' = offered \cup {s}, answered' = answered, completed' = completed
      PROVE  Abstract!Next
  BY <1>2 DEF Abstract!Next, Abstract!MakeOffer, offered, answered, completed, Offer
<1>3. ASSUME NEW card \in Card, NEW s \in Session, s \in offered, offered' = offered,
             answered' = answered \cup {<<card, s>>}, completed' = completed
      PROVE  Abstract!Next
  BY <1>3 DEF Abstract!Next, Abstract!Answer, offered, answered, completed, Offer
<1>4. ASSUME NEW s \in Session, <<s.card, s>> \in answered, offered' = offered,
             answered' = answered, completed' = completed \cup {s}
      PROVE  Abstract!Next
  BY <1>4 DEF Abstract!Next, Abstract!Complete, offered, answered, completed, Offer
<1>5. CASE UNCHANGED vars
  <2>1. offered' = offered /\ answered' = answered /\ completed' = completed
    BY <1>5 DEF vars, offered, answered, completed, Answered, ServerSigned1
  <2> QED  BY <1>1, <2>1
<1>6. CASE Next
  <2>1. ASSUME NEW card \in Card, NEW id \in Id \ {<<>>}, NEW ci \in Ci, AddCiKey(card, id, ci)
        PROVE  UNCHANGED Abstract!vars
    <3>1. offered' = offered /\ answered' = answered /\ completed' = completed
      BY <2>1 DEF AddCiKey, offered, answered, completed, Answered, ServerSigned1
    <3> QED  BY <1>1, <3>1
  <2>2. ASSUME NEW card \in Card, NEW cert \in Certificate, NEW id \in Id, NEW tid \in Tid,
               NEW ch \in Challenge, ServerSigns(card, cert, id, tid, ch)
        PROVE  Abstract!Next
    BY <1>2, <2>2, SignsMakesOffer
  <2>3. ASSUME NEW card \in Card, NEW j \in DOMAIN sessions, NEW k \in DOMAIN sessions,
               NEW signed1, NEW signature \in signatures,
               CardAnswers(card, sessions[j].id, sessions[k].cert, signed1, signature)
        PROVE  Abstract!Next
    BY <1>3, <2>3, AnswersAnswer, ReceivedCertificate
  <2>4. ASSUME NEW n \in DOMAIN sessions, NEW signature \in signatures,
               ServerVerifies(n, signature)
        PROVE  Abstract!Next
    BY <1>4, <2>4, VerifiesCompletes
  <2>5. CASE \E card \in Card, id \in Id \ {<<>>}, ci \in Ci : AddCiKey(card, id, ci)
    BY <2>1, <2>5
  <2>6. CASE \E card \in Card, cert \in Certificate, id \in Id, tid \in Tid, ch \in Challenge :
               ServerSigns(card, cert, id, tid, ch)
    BY <2>2, <2>6
  <2>7. CASE \E card \in Card, j \in DOMAIN sessions, k \in DOMAIN sessions,
                signed1 \in {[ServerSigned1(sessions[i]) EXCEPT !.tid = tid] :
                              i \in DOMAIN sessions, tid \in Tid},
                signature \in signatures :
               CardAnswers(card, sessions[j].id, sessions[k].cert, signed1, signature)
    BY <2>3, <2>7
  <2>8. CASE \E n \in DOMAIN sessions, signature \in signatures : ServerVerifies(n, signature)
    BY <2>4, <2>8
  <2> QED  BY <1>6, <2>5, <2>6, <2>7, <2>8, NextCases
<1> QED  BY <1>5, <1>6

\* The exchange implements Authentication: a server takes an exchange to be complete
\* only after the card it was meant for has answered that very exchange, however
\* messages are repeated and mixed (tests/authenticate_server.rs 12-20, 113-143).
THEOREM ExchangeAuthenticates == Spec => ImplementsAuthentication
<1>1. Init => Abstract!Init
  BY DEF Init, Abstract!Init, ToSet
<1>2. IInv /\ [Next]_vars => [Abstract!Next]_(Abstract!vars)
  BY StepRefines
<1> QED  BY <1>1, <1>2, InvariantHolds, PTL DEF Spec, ImplementsAuthentication, Abstract!Spec
=============================================================================
