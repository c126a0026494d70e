--------------------------- MODULE SecureDelivery ---------------------------
(***************************************************************************)
(* What sessions promise, with no keys agreed, sealed under or replaced:   *)
(* on each channel messages come out in the order they went in, each of    *)
(* them once, and nothing crosses from one channel to another.             *)
(***************************************************************************)
EXTENDS Naturals, Sequences

CONSTANTS Channel, Message

VARIABLES sent, delivered   \* of each channel

Init ==
  /\ sent = [c \in Channel |-> <<>>]
  /\ delivered = [c \in Channel |-> <<>>]

Send(c) ==
  /\ \E m \in Message : sent'[c] = Append(sent[c], m)
  /\ sent' = [sent EXCEPT ![c] = sent'[c]]
  /\ UNCHANGED delivered

Deliver(c) ==
  /\ Len(delivered[c]) < Len(sent[c])
  /\ delivered'[c] = Append(delivered[c], sent[c][Len(delivered[c]) + 1])
  /\ delivered' = [delivered EXCEPT ![c] = delivered'[c]]
  /\ UNCHANGED sent

Next == \E c \in Channel : Send(c) \/ Deliver(c)

Spec == Init /\ [][Next]_<<sent, delivered>>
=============================================================================
