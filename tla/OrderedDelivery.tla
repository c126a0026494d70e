--------------------------- MODULE OrderedDelivery ---------------------------
(***************************************************************************)
(* What a protected session promises its two callers, with no keys, MACs   *)
(* or block numbers in it: messages come out in the order they went in,    *)
(* each of them once, none of them changed and none left out.              *)
(***************************************************************************)
EXTENDS Naturals, Sequences

CONSTANT Message

VARIABLES sent, delivered

odVars == <<sent, delivered>>

Init == sent = <<>> /\ delivered = <<>>

Send ==
  /\ \E m \in Message : sent' = Append(sent, m)
  /\ UNCHANGED delivered

Deliver ==
  /\ Len(delivered) < Len(sent)
  /\ delivered' = Append(delivered, sent[Len(delivered) + 1])
  /\ UNCHANGED sent

Next == Send \/ Deliver

Spec == Init /\ [][Next]_odVars
=============================================================================
