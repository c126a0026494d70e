----------------------------- MODULE BspSession -----------------------------
(***************************************************************************)
(* A protected session: a host that wraps payloads, a card that unwraps    *)
(* TLVs, and between them a transport that may lose, repeat, reorder and   *)
(* damage what it carries.  The crate keeps no session object: each side   *)
(* holds its keys and its chaining value and passes them to the functions  *)
(* of bsp.rs, so the state here is that of the two callers.                *)
(*                                                                         *)
(* Disciplined callers follow the comments of bsp.rs: blocks are numbered  *)
(* from 1 in the order they are protected, MAC-only ones included, and     *)
(* the tag of a TLV says how it is protected.  When Disciplined is FALSE   *)
(* any call with any arguments may be made, which the functions allow.     *)
(***************************************************************************)
EXTENDS Bsp

CONSTANTS
  Secret,        \* ECKA shared secrets
  KeyInput,      \* arguments the two sides may derive their keys from
  Tags,          \* tags in use
  MaxBlocks,     \* bound: blocks the host protects in one session
  Disciplined    \* whether callers number blocks and choose calls by the rules

ASSUME BoundAssumption == MaxBlocks \in Nat
ASSUME TagAssumption == {TAG_MAC_AND_ENCRYPT, TAG_MAC_ONLY} \subseteq Tags
ASSUME DisciplinedAssumption == Disciplined \in BOOLEAN
ASSUME InputAssumption == KeyInput \subseteq DeriveArguments(Secret)

VARIABLES
  hostInput, cardInput,   \* what each side derived its keys from
  hostChain, cardChain,   \* the chaining value each side holds
  wire,                   \* the TLVs the host has produced, in order
  sent,                   \* the payload in each of them
  delivered               \* what successful unwraps have returned to the card

vars == <<hostInput, cardInput, hostChain, cardChain, wire, sent, delivered>>

HostKeys == Derive(hostInput).val
CardKeys == Derive(cardInput).val

\* A session exists once derive has returned keys on both sides; each side
\* starts its chain from the initial MAC chaining value among them.
Init ==
  /\ hostInput \in {in \in KeyInput : Derive(in).ok}
  /\ cardInput \in {in \in KeyInput : Derive(in).ok}
  /\ hostChain = InitialChain(HostKeys)
  /\ cardChain = InitialChain(CardKeys)
  /\ wire = <<>>
  /\ sent = <<>>
  /\ delivered = <<>>

(* The host *)

\* The effect of a wrap of plaintext that returned r: a failed one has none.
HostReturns(r, plaintext) ==
  /\ hostChain' = IF r.ok THEN r.val.chaining ELSE hostChain
  /\ wire' = IF r.ok THEN Append(wire, r.val.tlv) ELSE wire
  /\ sent' = IF r.ok THEN Append(sent, plaintext) ELSE sent
  /\ UNCHANGED <<hostInput, cardInput, cardChain, delivered>>

HostWrapEncrypt(tag, plaintext, number) ==
  /\ Len(sent) < MaxBlocks
  /\ Disciplined => number = Len(sent) + 1 /\ tag = TAG_MAC_AND_ENCRYPT
  /\ HostReturns(WrapEncrypt(HostKeys, tag, plaintext, number, hostChain), plaintext)

HostWrapMacOnly(tag, plaintext) ==
  /\ Len(sent) < MaxBlocks
  /\ Disciplined => tag # TAG_MAC_AND_ENCRYPT
  /\ HostReturns(WrapMacOnly(HostKeys, tag, plaintext, hostChain), plaintext)

(* The transport *)

\* A value that no C-MAC computation returns: a C-MAC damaged on the way.
DamagedCmac == [hostChain EXCEPT !.log = <<>>]

\* What may arrive at the card: the parts of TLVs the host has sent, put
\* together in any way, and parts that the transport has damaged.
Arriving ==
  [tag  : Tags,
   data : {wire[i].data : i \in DOMAIN wire} \cup {Clear(p) : p \in Payload},
   cmac : {wire[i].cmac : i \in DOMAIN wire} \cup {DamagedCmac}]

(* The card *)

CardReturns(outcome) ==
  /\ cardChain' = outcome.chaining
  /\ delivered' = IF outcome.res.ok THEN Append(delivered, outcome.res.val)
                                    ELSE delivered
  /\ UNCHANGED <<hostInput, cardInput, hostChain, wire, sent>>

CardUnwrapEncrypt(tlv, number) ==
  /\ Disciplined => number = Len(delivered) + 1 /\ tlv.tag = TAG_MAC_AND_ENCRYPT
  /\ \E outcome \in UnwrapEncrypt(CardKeys, tlv, number, cardChain) : CardReturns(outcome)

CardUnwrapMacOnly(tlv) ==
  /\ Disciplined => tlv.tag # TAG_MAC_AND_ENCRYPT
  /\ \E outcome \in UnwrapMacOnly(CardKeys, tlv, cardChain) : CardReturns(outcome)

Numbers == 1 .. MaxBlocks

HostNext ==
  \E tag \in Tags, plaintext \in Payload :
    \/ \E number \in Numbers : HostWrapEncrypt(tag, plaintext, number)
    \/ HostWrapMacOnly(tag, plaintext)

CardNext ==
  \E tlv \in Arriving :
    \/ \E number \in Numbers : CardUnwrapEncrypt(tlv, number)
    \/ CardUnwrapMacOnly(tlv)

Next == HostNext \/ CardNext

Spec == Init /\ [][Next]_vars

\* The card is handed the next TLV that it has not accepted yet, intact.
CardTakesNext ==
  /\ Len(delivered) < Len(wire)
  /\ LET k == Len(delivered) + 1
     IN  CardUnwrapEncrypt(wire[k], k) \/ CardUnwrapMacOnly(wire[k])

\* The transport may do all of the above for as long as it likes, but a TLV the
\* card still misses is in the end handed to it: the host's caller repeats it.
FairSpec == Spec /\ WF_vars(CardTakesNext)

-----------------------------------------------------------------------------
(* Types *)

Part  == KeyMaterial(Secret)
Field == [enc : {FALSE}, plain : Payload]
         \cup [enc : {TRUE}, key : Part, number : Nat, plain : Payload]
Entry == [key : Part, tag : Tags, len : 0 .. MAX_FINAL_LENGTH, data : Field]
Chain == [seed : Part, log : Seq(Entry)]
Tlv   == [tag : Tags, data : Field, cmac : Chain]

\* Every value the two sides hold has its type.  The bound in Entry is the one
\* that keeps der_length from cutting a length off: whatever has been MACed has
\* a length that the TLV's length octets can say.
TypeOK ==
  /\ hostInput \in KeyInput
  /\ cardInput \in KeyInput
  /\ hostChain \in Chain
  /\ cardChain \in Chain
  /\ wire \in Seq(Tlv)
  /\ sent \in Seq(Payload)
  /\ delivered \in Seq(Payload \cup {Bogus})

(* Safety *)

IsPrefixOf(s, t) == Len(s) <= Len(t) /\ s = SubSeq(t, 1, Len(s))

\* The chain makes the blocks indivisible (bsp.rs 26-31): whatever calls the
\* card makes, and in whatever order or condition TLVs arrive, what it has
\* accepted is the host's blocks, from the first one on, without a gap.
AcceptedIsPrefix == IsPrefixOf(cardChain.log, hostChain.log)

\* Rejection leaves no trace (a failing unwrap_* returns before it touches the
\* chain): in every state the card can get into, the first block that it has not
\* been given yet still unwraps to the payload that the host put in it.
NextBlockAccepted ==
  LET k == Len(delivered) + 1
  IN  hostInput = cardInput /\ k <= Len(wire) =>
        {o.res : o \in IF wire[k].data.enc
                         THEN UnwrapEncrypt(CardKeys, wire[k], wire[k].data.number, cardChain)
                         ELSE UnwrapMacOnly(CardKeys, wire[k], cardChain)}
          = {Ok(sent[k])}

\* HostID, EID, key type and secret all reach the keys (x963.rs 84-110,
\* bsp_keys.rs 72-83): two sides that disagree on any of them never exchange
\* anything, whatever calls they make.
MismatchDeliversNothing == hostInput # cardInput => delivered = <<>>

\* Nothing is ever protected under keys that is_well_formed would refuse
\* (bsp_keys.rs 105-117): derive makes keys of any length it is asked for, and
\* that they are three different keys is only as good as the split.
ProtectedUnderGoodKeys == wire # <<>> => IsWellFormed(HostKeys)

\* Disciplined callers get back exactly what was protected: never a bogus
\* plaintext, and nothing out of order, twice or with something left out.
DeliveredIsPrefix == IsPrefixOf(delivered, sent)

\* The same promise, step by step.
Delivery == INSTANCE OrderedDelivery WITH Message <- Payload
DeliversInOrder == Delivery!Spec

(* Liveness *)

\* No sequence of bad TLVs wedges the session: as long as missing TLVs are
\* repeated, all that was protected is delivered.
AllDelivered ==
  \A k \in Numbers :
    hostInput = cardInput /\ Len(sent) >= k ~> Len(delivered) >= k
=============================================================================
