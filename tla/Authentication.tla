--------------------------- MODULE Authentication ---------------------------
(***************************************************************************)
(* What the exchange of tests/authenticate_server.rs is for, with neither  *)
(* certificates nor signatures in it.  A server offers a session to a      *)
(* card, a card answers what was offered, and a server takes a session to  *)
(* be complete only if the card it was offered to has answered it.         *)
(***************************************************************************)
CONSTANTS Card, Offer     \* an offer names, in card, whom it is made to

VARIABLES
  offered,     \* the offers that servers have made
  answered,    \* the pairs <<card, offer>> that cards have answered
  completed    \* the offers that their servers have seen answered

vars == <<offered, answered, completed>>

Init == offered = {} /\ answered = {} /\ completed = {}

MakeOffer(offer) ==
  /\ offered' = offered \cup {offer}
  /\ UNCHANGED <<answered, completed>>

Answer(card, offer) ==
  /\ offer \in offered
  /\ answered' = answered \cup {<<card, offer>>}
  /\ UNCHANGED <<offered, completed>>

Complete(offer) ==
  /\ <<offer.card, offer>> \in answered
  /\ completed' = completed \cup {offer}
  /\ UNCHANGED <<offered, answered>>

Next ==
  \/ \E offer \in Offer : MakeOffer(offer) \/ Complete(offer)
  \/ \E card \in Card, offer \in Offer : Answer(card, offer)

Spec == Init /\ [][Next]_vars
=============================================================================
