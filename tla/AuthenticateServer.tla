------------------------- MODULE AuthenticateServer -------------------------
(***************************************************************************)
(* The five steps of tests/authenticate_server.rs, for any number of       *)
(* servers, cards and exchanges at once.  What is sent is never lost for   *)
(* good and may be repeated, and parts of different exchanges may meet: a  *)
(* card is handed the ServerSigned1 of one, the signature of another and   *)
(* the certificate of a third.                                             *)
(*                                                                         *)
(* A key is known by its owner.  A signature is the pair of its key and    *)
(* what it was made for; framing it (wire.rs) and finding the keys in a    *)
(* certificate (x509.rs) have modules of their own.                        *)
(***************************************************************************)
EXTENDS Results, Integers, Sequences, SequencesExt

CONSTANTS
  Server, Card,
  Ci,            \* the keys of certificate issuers
  Id,            \* identifiers of CI keys
  Certificate,   \* server certificates: [subject, issuer]
  Address,       \* the address of each server
  Tid,           \* transaction identifiers; servers need not choose different ones
  Challenge,     \* challenges that cards give to servers
  MaxKeys,       \* bound: CI keys per card
  MaxSessions    \* bound: exchanges

ASSUME CertificateAssumption == Certificate \subseteq [subject : Server, issuer : Ci]
ASSUME AddressAssumption == DOMAIN Address = Server
ASSUME PartiesAssumption == Server \cap Card = {}
ASSUME BoundsAssumption == MaxKeys \in Nat /\ MaxSessions \in Nat

VARIABLES
  trusted,      \* the CI key set of each card
  sessions,     \* the exchanges that servers have begun, in order
  signatures,   \* every signature that was made: [key, message]
  accepted,     \* what cards have accepted and answered: [card, cert, signed1]
  finished      \* the exchanges whose answer the server has verified

vars == <<trusted, sessions, signatures, accepted, finished>>

\* A card's CI keys: a key verifies the certificates it issued.
CiKeys == INSTANCE CiKeySet WITH
  Key <- Ci, Cert <- Certificate, keys <- <<>>, verdict <- <<>>,
  Verifies <- {<<cert, cert.issuer>> : cert \in Certificate}

Session == [card : Card, cert : Certificate, id : Id, tid : Tid,
            euiccChallenge : Challenge, serverChallenge : 1 .. MaxSessions]

\* server_signed1
ServerSigned1(s) ==
  [tid |-> s.tid, euiccChallenge |-> s.euiccChallenge,
   address |-> Address[s.cert.subject], serverChallenge |-> s.serverChallenge]

\* EuiccSigned1 that is a copy of what it answers.
EchoedSigned1(signed1) == signed1

\* EuiccSigned1 repeats what it answers, but not the card's own challenge, and has
\* information about the card in it.
EuiccSigned1(signed1) ==
  [tid |-> signed1.tid, address |-> signed1.address,
   serverChallenge |-> signed1.serverChallenge]

Signature(key, message) == [key |-> key, message |-> message]

\* PublicKey::verify that does not look at the message.
MessageBlindVerifies(key, message, signature) == signature.key = key

\* PublicKey::verify, after parse_signature.
SignatureVerifies(key, message, signature) == signature = Signature(key, message)

-----------------------------------------------------------------------------

Init ==
  /\ trusted = [card \in Card |-> <<>>]
  /\ sessions = <<>> /\ signatures = {} /\ accepted = {} /\ finished = {}

\* CiKeySet::add, of a key under an identifier that is not empty.
AddCiKey(card, id, ci) ==
  /\ Len(trusted[card]) < MaxKeys
  /\ trusted' = [trusted EXCEPT ![card] = Append(@, [id |-> id, key |-> ci])]
  /\ UNCHANGED <<sessions, signatures, accepted, finished>>

\* Step 1.  A server begins an exchange with a card and signs ServerSigned1.
\* Its challenge is new; the rest is what the two sides happen to use.
ServerSigns(card, cert, id, tid, euiccChallenge) ==
  LET s == [card |-> card, cert |-> cert, id |-> id, tid |-> tid,
            euiccChallenge |-> euiccChallenge, serverChallenge |-> Len(sessions) + 1]
  IN  /\ Len(sessions) < MaxSessions
      /\ sessions' = Append(sessions, s)
      /\ signatures' = signatures \cup {Signature(cert.subject, ServerSigned1(s))}
      /\ UNCHANGED <<trusted, accepted, finished>>

\* Step 2 that takes any certificate for an identifier that the card has.
CarelesslyTrusted(card, id, cert) ==
  CiKeys!Candidates(trusted[card], id) # {}

\* Step 2.  The CI key that id names must verify the certificate.
CertificateTrusted(card, id, cert) == CiKeys!Verify(trusted[card], id, cert).accepted

\* Steps 2 to 4 on a card that answers only once.
AnswersOnce(card, id, cert, signed1, signature) ==
  /\ \A a \in accepted : a.card # card
  /\ CertificateTrusted(card, id, cert)
  /\ SignatureVerifies(cert.subject, signed1, signature)
  /\ accepted' = accepted \cup {[card |-> card, cert |-> cert, signed1 |-> signed1]}
  /\ signatures' = signatures \cup {Signature(card, EuiccSigned1(signed1))}
  /\ UNCHANGED <<trusted, sessions, finished>>

\* Steps 2 to 4.  A card accepts a certificate, then a signature under its key,
\* and only then signs EuiccSigned1.  If either fails nothing changes.
CardAnswers(card, id, cert, signed1, signature) ==
  /\ CertificateTrusted(card, id, cert)
  /\ SignatureVerifies(cert.subject, signed1, signature)
  /\ accepted' = accepted \cup {[card |-> card, cert |-> cert, signed1 |-> signed1]}
  /\ signatures' = signatures \cup {Signature(card, EuiccSigned1(signed1))}
  /\ UNCHANGED <<trusted, sessions, finished>>

\* Step 5 that verifies whatever EuiccSigned1 came with the signature.
TrustingServerVerifies(n, signature) ==
  /\ signature.key = sessions[n].card
  /\ finished' = finished \cup {n}
  /\ UNCHANGED <<trusted, sessions, signatures, accepted>>

\* Step 5.  The server verifies the answer to its own ServerSigned1 under the key
\* in the certificate of the card it talks to.
ServerVerifies(n, signature) ==
  /\ SignatureVerifies(sessions[n].card, EuiccSigned1(ServerSigned1(sessions[n])), signature)
  /\ finished' = finished \cup {n}
  /\ UNCHANGED <<trusted, sessions, signatures, accepted>>

\* A card is handed parts of exchanges, the transaction identifier perhaps damaged.
CardReceives ==
  \E card \in Card, i, j, k \in DOMAIN sessions, tid \in Tid, signature \in signatures :
    CardAnswers(card, sessions[j].id, sessions[k].cert,
                [ServerSigned1(sessions[i]) EXCEPT !.tid = tid], signature)

Next ==
  \/ \E card \in Card, id \in Id \ {<<>>}, ci \in Ci : AddCiKey(card, id, ci)
  \/ \E card \in Card, cert \in Certificate, id \in Id, tid \in Tid, ch \in Challenge :
       ServerSigns(card, cert, id, tid, ch)
  \/ CardReceives
  \/ \E n \in DOMAIN sessions, signature \in signatures : ServerVerifies(n, signature)

Spec == Init /\ [][Next]_vars

\* The messages of exchange n arrive as they were sent, and its answer too.
DeliverIntact(n) ==
  /\ n \in DOMAIN sessions
  /\ LET s == sessions[n]
     IN  CardAnswers(s.card, s.id, s.cert, ServerSigned1(s),
                     Signature(s.cert.subject, ServerSigned1(s)))

AnswerIntact(n) ==
  /\ n \in DOMAIN sessions
  /\ LET s == sessions[n]
         answer == Signature(s.card, EuiccSigned1(ServerSigned1(s)))
     IN  answer \in signatures /\ ServerVerifies(n, answer)

FairSpec ==
  Spec /\ \A n \in 1 .. MaxSessions :
            WF_vars(DeliverIntact(n)) /\ WF_vars(AnswerIntact(n))

-----------------------------------------------------------------------------

ServerSigned1s ==
  [tid : Tid, euiccChallenge : Challenge, address : {Address[server] : server \in Server},
   serverChallenge : 1 .. MaxSessions]

EuiccSigned1s ==
  [tid : Tid, address : {Address[server] : server \in Server},
   serverChallenge : 1 .. MaxSessions]

\* The types, and that each side signs only what is its to sign: a card can never
\* be brought to sign a ServerSigned1 (tests/authenticate_server.rs 120-135).
TypeOK ==
  /\ trusted \in [Card -> Seq([id : Id \ {<<>>}, key : Ci])]
  /\ sessions \in Seq(Session)
  /\ accepted \subseteq [card : Card, cert : Certificate, signed1 : ServerSigned1s]
  /\ finished \subseteq DOMAIN sessions
  /\ \A s \in signatures :
       \/ s.key \in Server /\ s.message \in ServerSigned1s
       \/ s.key \in Card /\ s.message \in EuiccSigned1s

\* Whatever parts it is handed, a card answers only what a server did sign in one
\* of its exchanges, and only a server certified by a CI that the card trusts
\* (tests/authenticate_server.rs 12-17).
AcceptedWasSigned ==
  \A a \in accepted :
    /\ \E n \in DOMAIN sessions :
         /\ sessions[n].cert.subject = a.cert.subject
         /\ ServerSigned1(sessions[n]) = a.signed1
    /\ \E i \in DOMAIN trusted[a.card] : trusted[a.card][i].key = a.cert.issuer

Offer == Session

\* The card has accepted the ServerSigned1 of s, under the key of s's server.
Answered(card, s) ==
  \E a \in accepted : /\ a.card = card
                       /\ a.cert.subject = s.cert.subject
                       /\ a.signed1 = ServerSigned1(s)

Abstract == INSTANCE Authentication WITH
  offered   <- ToSet(sessions),
  answered  <- {pair \in Card \X ToSet(sessions) : Answered(pair[1], pair[2])},
  completed <- {sessions[n] : n \in finished}

\* The exchange does what it is for: a server finishes an exchange only if the
\* card it was meant for has accepted this very ServerSigned1, whatever other
\* exchanges are going on (tests/authenticate_server.rs 18-20).
ImplementsAuthentication == Abstract!Spec

\* An exchange that the card can trust comes to its end when its messages are
\* delivered, whatever other keys are added and whatever else arrives.
TrustedExchangeFinishes ==
  \A n \in 1 .. MaxSessions :
    (n \in DOMAIN sessions
       /\ CertificateTrusted(sessions[n].card, sessions[n].id, sessions[n].cert))
    ~> n \in finished
=============================================================================
