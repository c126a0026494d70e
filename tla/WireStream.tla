----------------------------- MODULE WireStream -----------------------------
(***************************************************************************)
(* TLVs over a byte stream: a sender encodes them one after the other, the *)
(* bytes arrive in pieces of any size, and a receiver calls read_tlv on    *)
(* what it has and moves on by the number of octets that the call says it  *)
(* used.  A piece may end anywhere, in the middle of a tag or of a length  *)
(* included.                                                               *)
(*                                                                         *)
(* The crate has neither end of the stream: its callers do.  What they     *)
(* rely on is that a call fails as long as a TLV is incomplete, and that   *)
(* the octet count is right.                                               *)
(***************************************************************************)
EXTENDS Wire

CONSTANTS
  Tlvs,       \* protected TLVs in use
  Raws,       \* signatures in use
  MaxSent     \* bound: TLVs that are sent

ASSUME StreamAssumption == MaxSent \in Nat
ASSUME TlvAssumption ==
  \A t \in Tlvs :
    /\ t \in [tag : Nat, data : Seq(Octet), cmac : Seq(Octet)]
    /\ IsProperTag(t.tag) /\ t.tag # TAG_SIGNATURE
    /\ Len(t.cmac) = CMAC_LEN
    /\ Len(t.data) + CMAC_LEN <= MaxCarried
ASSUME RawAssumption ==
  /\ IsProperTag(TAG_SIGNATURE)
  /\ \A raw \in Raws : raw \in Seq(Octet) /\ Len(raw) <= MaxCarried

VARIABLES
  sent,       \* what was encoded, in order
  inFlight,   \* octets that have not arrived
  buffer,     \* octets that have arrived and are not consumed
  received    \* what the receiver has decoded, in order

vars == <<sent, inFlight, buffer, received>>

\* A TLV with a longer form of its length than der_length would choose, as
\* encoders do that are not bound to DER.  The reader lets it pass.
LongForm(tlv) ==
  LET body == tlv.data \o tlv.cmac
  IN  EncodedTag(tlv.tag) \o <<High + 1, Len(body)>> \o body

Protected(tlv) == [kind |-> "protected", tlv |-> tlv]
Signature(raw) == [kind |-> "signature", raw |-> raw]

Init == sent = <<>> /\ inFlight = <<>> /\ buffer = <<>> /\ received = <<>>

Put(item, bytes) ==
  /\ Len(sent) < MaxSent
  /\ sent' = Append(sent, item)
  /\ inFlight' = inFlight \o bytes
  /\ UNCHANGED <<buffer, received>>

SendProtected(tlv) == Put(Protected(tlv), Encode(tlv))

SendLongForm(tlv) ==
  /\ Len(tlv.data \o tlv.cmac) \in 1 .. Base - 1
  /\ Put(Protected(tlv), LongForm(tlv))

SendSignature(raw) == Put(Signature(raw), EncodeSignatureBytes(raw))

\* The first n octets in flight arrive.
Arrive(n) ==
  /\ buffer' = buffer \o SubSeq(inFlight, 1, n)
  /\ inFlight' = SubSeq(inFlight, n + 1, Len(inFlight))
  /\ UNCHANGED <<sent, received>>

\* The receiver takes item off the front of the buffer.
Take(item) ==
  /\ received' = Append(received, item)
  /\ buffer' = SubSeq(buffer, ReadTlv(buffer).val.used + 1, Len(buffer))
  /\ UNCHANGED <<sent, inFlight>>

ReceiveProtected ==
  /\ ReadTlv(buffer).ok /\ ReadTlv(buffer).val.tag # TAG_SIGNATURE
  /\ Decode(buffer).ok
  /\ Take(Protected(Decode(buffer).val))

ReceiveSignature ==
  /\ ParseSignatureBytes(buffer).ok
  /\ Take(Signature(ParseSignatureBytes(buffer).val))

Receive == ReceiveProtected \/ ReceiveSignature

Next ==
  \/ \E tlv \in Tlvs : SendProtected(tlv) \/ SendLongForm(tlv)
  \/ \E raw \in Raws : SendSignature(raw)
  \/ \E n \in 1 .. Len(inFlight) : Arrive(n)
  \/ Receive

Spec == Init /\ [][Next]_vars

\* What was sent arrives, and a receiver that has a TLV reads it.
FairSpec ==
  /\ Spec
  /\ WF_vars(\E n \in 1 .. Len(inFlight) : Arrive(n))
  /\ WF_vars(Receive)

-----------------------------------------------------------------------------

\* Wherever the pieces end, nothing but what was sent is ever read, each TLV
\* once and in order: an incomplete TLV is an error and never a shorter one
\* (wire.rs 96-103), and the octet count is exact.
ReceivedIsPrefix == IsPrefix(received, sent)

\* Nothing stays unread for ever: the lengths that der_length writes are the
\* ones that read_length accepts, on both sides of every change of form.
AllReceived == \A k \in 1 .. MaxSent : Len(sent) >= k ~> Len(received) >= k

\* The octets that a protected TLV feeds to the MAC.
MacInputOf(tlv) == MacInput(tlv.tag, Len(tlv.data) + CMAC_LEN, tlv.data)

\* The C-MAC's input says unambiguously which tag and which field it covers
\* (bsp.rs 245-250): no two TLVs that go over the stream feed the same octets
\* to the MAC, under whatever tags and on whichever side of a change of form.
MacInputsDiffer ==
  \A i, j \in DOMAIN sent :
    /\ sent[i].kind = "protected" /\ sent[j].kind = "protected"
    /\ MacInputOf(sent[i].tlv) = MacInputOf(sent[j].tlv)
    => sent[i].tlv.tag = sent[j].tlv.tag /\ sent[i].tlv.data = sent[j].tlv.data
=============================================================================
