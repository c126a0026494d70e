--------------------------- MODULE BspSessionProofs ---------------------------
(***************************************************************************)
(* Proofs about a protected session, for every set of payloads and sizes,  *)
(* every set of key inputs and tags and every number of blocks.            *)
(*                                                                         *)
(* Facts about key derivation, for inputs of every length, come first.     *)
(*                                                                         *)
(* The chaining value carries the argument.  WireMatchesChain says that    *)
(* the C-MAC of the host's k-th TLV is the chain cut after k entries, and  *)
(* that the k-th entry is that TLV.  A TLV that the card accepts extends   *)
(* the card's own log by one entry and gives one of those C-MACs, so the   *)
(* log it leaves is the host's, cut after its own length: the TLV was the  *)
(* next one and nothing in it was changed.                                 *)
(*                                                                         *)
(* That a session recovers from whatever was refused, and that nothing is  *)
(* protected under bad keys, needs to know besides how a TLV of the host   *)
(* was made: Sealed adds it.                                               *)
(***************************************************************************)
EXTENDS BspSession, SequenceTheorems, TLAPS

-----------------------------------------------------------------------------
(* Key derivation *)

\* Bytes are numbers, and lengths that an LV can say are bytes.
LEMMA Bytes ==
  /\ \A n \in Byte : n \in Nat
  /\ \A n \in Nat : ~(n > MAX_LV) => n \in Byte
  /\ SessionKeys \in Byte /\ ProfileKeys \in Byte
<1>1. MAX_LV \in Nat /\ SessionKeys \in Nat /\ ProfileKeys \in Nat
  BY DEF MAX_LV, SessionKeys, ProfileKeys
<1>2. ~(SessionKeys > MAX_LV) /\ ~(ProfileKeys > MAX_LV)
  BY DEF MAX_LV, SessionKeys, ProfileKeys
<1> QED BY <1>1, <1>2 DEF Byte

\* A concatenation holds the bytes of its first part, then those of its second.
LEMMA ConcatBytes ==
  ASSUME NEW u \in Seq(Byte), NEW v \in Seq(Byte)
  PROVE  /\ u \o v \in Seq(Byte)
         /\ Len(u \o v) = Len(u) + Len(v)
         /\ \A i \in 1 .. Len(u) : (u \o v)[i] = u[i]
         /\ \A i \in 1 .. Len(v) : (u \o v)[Len(u) + i] = v[i]
<1>1. Len(u) \in Nat /\ Len(v) \in Nat
  BY LenProperties
<1>2. /\ u \o v \in Seq(Byte)
      /\ Len(u \o v) = Len(u) + Len(v)
      /\ \A i \in 1 .. Len(u) + Len(v) :
            (u \o v)[i] = IF i <= Len(u) THEN u[i] ELSE v[i - Len(u)]
  BY ConcatProperties
<1> QED BY <1>1, <1>2

\* What the bytes s of a SharedInfo are, position by position.
Spells(s, t, l, h, e) ==
  /\ s \in Seq(Byte)
  /\ Len(s) = 4 + Len(h) + Len(e)
  /\ s[1] = t /\ s[2] = l /\ s[3] = Len(h)
  /\ \A i \in 1 .. Len(h) : s[3 + i] = h[i]
  /\ s[4 + Len(h)] = Len(e)
  /\ \A i \in 1 .. Len(e) : s[4 + Len(h) + i] = e[i]

\* bsp_shared_info lays its arguments out one after the other (x963.rs 84-110).
LEMMA SharedInfoBytes ==
  ASSUME NEW t \in Byte, NEW l \in Byte, NEW h \in Seq(Byte), NEW e \in Seq(Byte),
         SharedInfo(t, l, h, e).ok
  PROVE  Spells(SharedInfo(t, l, h, e).val, t, l, h, e)
<1> DEFINE a == <<t, l>>
           x == <<Len(h)>>
           y == <<Len(e)>>
           b == a \o x
           c == b \o h
           d == c \o y
           s == d \o e
<1>1. Len(h) \in Nat /\ Len(e) \in Nat
  BY LenProperties
<1>2. ~(Len(h) > MAX_LV \/ Len(e) > MAX_LV)
  BY DEF SharedInfo, Err
<1>3. SharedInfo(t, l, h, e).val = s
  BY <1>2 DEF SharedInfo, Ok
<1>4. Len(h) \in Byte /\ Len(e) \in Byte
  BY <1>1, <1>2, Bytes
<1>5. a \in Seq(Byte) /\ x \in Seq(Byte) /\ y \in Seq(Byte)
  BY <1>4
<1>6. /\ Len(a) = 2 /\ a[1] = t /\ a[2] = l
      /\ Len(x) = 1 /\ x[1] = Len(h)
      /\ Len(y) = 1 /\ y[1] = Len(e)
  OBVIOUS
<1> HIDE DEF a, x, y
<1>7. /\ b \in Seq(Byte) /\ Len(b) = Len(a) + Len(x)
      /\ \A i \in 1 .. Len(a) : b[i] = a[i]
      /\ \A i \in 1 .. Len(x) : b[Len(a) + i] = x[i]
  BY <1>5, ConcatBytes
<1> HIDE DEF b
<1>8. /\ c \in Seq(Byte) /\ Len(c) = Len(b) + Len(h)
      /\ \A i \in 1 .. Len(b) : c[i] = b[i]
      /\ \A i \in 1 .. Len(h) : c[Len(b) + i] = h[i]
  BY <1>7, ConcatBytes
<1> HIDE DEF c
<1>9. /\ d \in Seq(Byte) /\ Len(d) = Len(c) + Len(y)
      /\ \A i \in 1 .. Len(c) : d[i] = c[i]
      /\ \A i \in 1 .. Len(y) : d[Len(c) + i] = y[i]
  BY <1>5, <1>8, ConcatBytes
<1> HIDE DEF d
<1>10. /\ s \in Seq(Byte) /\ Len(s) = Len(d) + Len(e)
       /\ \A i \in 1 .. Len(d) : s[i] = d[i]
       /\ \A i \in 1 .. Len(e) : s[Len(d) + i] = e[i]
  BY <1>9, ConcatBytes
<1> HIDE DEF s
<1>11. Len(b) = 3 /\ Len(c) = 3 + Len(h) /\ Len(d) = 4 + Len(h)
  BY <1>1, <1>6, <1>7, <1>8, <1>9
<1>12. /\ Len(s) = 4 + Len(h) + Len(e)
       /\ \A i \in 1 .. Len(e) : s[4 + Len(h) + i] = e[i]
  BY <1>1, <1>10, <1>11
<1>13. b[1] = t /\ b[2] = l /\ b[3] = Len(h)
  BY <1>6, <1>7
<1>14. /\ s[1] = t /\ s[2] = l /\ s[3] = Len(h)
       /\ \A i \in 1 .. Len(h) : s[3 + i] = h[i]
       /\ s[4 + Len(h)] = Len(e)
  BY <1>1, <1>6, <1>8, <1>9, <1>10, <1>11, <1>13, SMTT(40)
<1> QED BY <1>3, <1>10, <1>12, <1>14 DEF Spells

\* Bytes are a SharedInfo in one way only, because the lengths are among them.
LEMMA SpelledOnce ==
  ASSUME NEW s,
         NEW t1 \in Byte, NEW l1 \in Byte, NEW h1 \in Seq(Byte), NEW e1 \in Seq(Byte),
         NEW t2 \in Byte, NEW l2 \in Byte, NEW h2 \in Seq(Byte), NEW e2 \in Seq(Byte),
         Spells(s, t1, l1, h1, e1), Spells(s, t2, l2, h2, e2)
  PROVE  t1 = t2 /\ l1 = l2 /\ h1 = h2 /\ e1 = e2
<1>1. t1 = t2 /\ l1 = l2 /\ Len(h1) = Len(h2) /\ Len(e1) = Len(e2)
  BY DEF Spells
<1>2. h1 = h2
  BY <1>1, SeqEqual DEF Spells
<1>3. e1 = e2
  BY <1>1, SeqEqual DEF Spells
<1> QED BY <1>1, <1>2, <1>3

\* The length octets make SharedInfo unambiguous (x963.rs 71-83): two sessions
\* that build the same bytes agree on key type, key length, HostID and EID.
THEOREM SharedInfoInjective ==
  ASSUME NEW t1 \in Byte, NEW l1 \in Byte, NEW h1 \in Seq(Byte), NEW e1 \in Seq(Byte),
         NEW t2 \in Byte, NEW l2 \in Byte, NEW h2 \in Seq(Byte), NEW e2 \in Seq(Byte),
         SharedInfo(t1, l1, h1, e1).ok, SharedInfo(t2, l2, h2, e2).ok,
         SharedInfo(t1, l1, h1, e1).val = SharedInfo(t2, l2, h2, e2).val
  PROVE  t1 = t2 /\ l1 = l2 /\ h1 = h2 /\ e1 = e2
<1> DEFINE s == SharedInfo(t1, l1, h1, e1).val
<1>1. Spells(s, t1, l1, h1, e1)
  BY SharedInfoBytes
<1>2. Spells(s, t2, l2, h2, e2)
  BY SharedInfoBytes
<1> HIDE DEF s
<1> QED BY <1>1, <1>2, SpelledOnce

\* The SharedInfo that derive builds, and the key data it asks for.
InfoOf(in)    == SharedInfo(in.keyType, in.keyLength, in.hostId, in.eid)
KeyDataOf(in) == [secret |-> in.secret, info |-> InfoOf(in).val, len |-> 3 * in.keyLength]

\* The keys it splits the key data into.
DerivedFrom(in) ==
  [mac_chaining |-> KeyBytes(KeyDataOf(in), 0, in.keyLength),
   s_enc        |-> KeyBytes(KeyDataOf(in), in.keyLength, in.keyLength),
   s_mac        |-> KeyBytes(KeyDataOf(in), 2 * in.keyLength, in.keyLength)]

\* The arguments of derive have the types that its callees expect.
LEMMA ArgumentTypes ==
  ASSUME NEW Secrets, NEW in \in DeriveArguments(Secrets)
  PROVE  /\ in.secret \in Secrets
         /\ in.keyType \in Byte /\ in.keyLength \in Byte
         /\ in.hostId \in Seq(Byte) /\ in.eid \in Seq(Byte)
         /\ in.keyLength \in Nat
BY Bytes DEF DeriveArguments

\* What derive returns when it succeeds: three runs of the same key data, one
\* after the other (bsp_keys.rs 72-103).
LEMMA DerivedKeys ==
  ASSUME NEW Secrets, NEW in \in DeriveArguments(Secrets), Derive(in).ok
  PROVE  /\ InfoOf(in).ok
         /\ InfoOf(in).val \in Seq(Byte)
         /\ Derive(in).val = DerivedFrom(in)
<1> DEFINE r == X963Kdf(in.secret, InfoOf(in).val, 3 * in.keyLength)
<1>1. InfoOf(in).ok /\ r.ok
  BY DEF Derive, InfoOf
<1>2. r.val = KeyDataOf(in)
  BY <1>1 DEF X963Kdf, Ok, Err, KeyDataOf
<1>3. InfoOf(in).val \in Seq(Byte)
  BY <1>1, ArgumentTypes, SharedInfoBytes DEF InfoOf, Spells
<1>4. Derive(in) = FromKeyData(KeyDataOf(in), in.keyLength)
  BY <1>1, <1>2 DEF Derive, InfoOf
<1>5. ~(KeyDataOf(in).len < 3 * in.keyLength)
  BY ArgumentTypes DEF KeyDataOf
<1> QED BY <1>1, <1>3, <1>4, <1>5 DEF FromKeyData, Ok, DerivedFrom

\* Derived keys have their types.
LEMMA DerivedKeysType ==
  ASSUME NEW Secrets, NEW in \in DeriveArguments(Secrets), Derive(in).ok
  PROVE  Derive(in).val \in KeyRecords(Secrets)
<1>1. in.secret \in Secrets /\ in.keyLength \in Nat /\ InfoOf(in).val \in Seq(Byte)
  BY ArgumentTypes, DerivedKeys
<1>2. \A from \in Nat, len \in Nat :
        KeyBytes(KeyDataOf(in), from, len) \in KeyMaterial(Secrets)
  BY <1>1 DEF KeyMaterial, KeyBytes, KeyDataOf
<1>3. 2 * in.keyLength \in Nat
  BY <1>1
<1>4. Derive(in).val = DerivedFrom(in)
  BY DerivedKeys
<1> QED BY <1>1, <1>2, <1>3, <1>4 DEF DerivedFrom, KeyRecords

\* Sides that hold the same MAC key derived it, and so the other two keys,
\* from the same arguments: no argument is lost on its way into the keys.
THEOREM SameMacKeySameInput ==
  ASSUME NEW Secrets,
         NEW a \in DeriveArguments(Secrets), NEW b \in DeriveArguments(Secrets),
         Derive(a).ok, Derive(b).ok,
         Derive(a).val.s_mac = Derive(b).val.s_mac
  PROVE  a = b
<1>1. /\ InfoOf(a).ok /\ InfoOf(b).ok
      /\ KeyBytes(KeyDataOf(a), 2 * a.keyLength, a.keyLength)
           = KeyBytes(KeyDataOf(b), 2 * b.keyLength, b.keyLength)
  <2>1. Derive(a).val = DerivedFrom(a) /\ InfoOf(a).ok
    BY DerivedKeys
  <2>2. Derive(b).val = DerivedFrom(b) /\ InfoOf(b).ok
    BY DerivedKeys
  <2> QED BY <2>1, <2>2 DEF DerivedFrom
<1>2. InfoOf(a).val = InfoOf(b).val /\ a.secret = b.secret
  BY <1>1 DEF KeyBytes, KeyDataOf
<1>3. /\ a.keyType = b.keyType /\ a.keyLength = b.keyLength
      /\ a.hostId = b.hostId /\ a.eid = b.eid
  <2>1. /\ a.keyType \in Byte /\ a.keyLength \in Byte
        /\ a.hostId \in Seq(Byte) /\ a.eid \in Seq(Byte)
    BY ArgumentTypes
  <2>2. /\ b.keyType \in Byte /\ b.keyLength \in Byte
        /\ b.hostId \in Seq(Byte) /\ b.eid \in Seq(Byte)
    BY ArgumentTypes
  <2>3. /\ Spells(InfoOf(a).val, a.keyType, a.keyLength, a.hostId, a.eid)
        /\ Spells(InfoOf(a).val, b.keyType, b.keyLength, b.hostId, b.eid)
    BY <1>1, <1>2, <2>1, <2>2, SharedInfoBytes DEF InfoOf
  <2> QED BY <2>1, <2>2, <2>3, SpelledOnce
<1> QED BY <1>2, <1>3 DEF DeriveArguments

-----------------------------------------------------------------------------
(* The chaining value *)

\* The entry that authenticates a TLV under some keys.
EntryOf(keys, tlv) == MacEntry(keys.s_mac, tlv.tag, FinalLength(tlv.data), tlv.data)

\* Chaining value d is what c becomes when tlv is authenticated under keys.
Extends(d, c, keys, tlv) ==
  /\ d \in Chain
  /\ d.seed = c.seed
  /\ EntryOf(keys, tlv) \in Entry
  /\ d.log = Append(c.log, EntryOf(keys, tlv))

Keys == KeyRecords(Secret)

WireMatchesChain ==
  /\ Len(wire) = Len(hostChain.log)
  /\ Len(sent) = Len(wire)
  /\ \A k \in 1 .. Len(wire) :
       /\ wire[k].cmac.log = SubSeq(hostChain.log, 1, k)
       /\ hostChain.log[k] = EntryOf(HostKeys, wire[k])

\* How disciplined callers protect the k-th payload.
FieldsFollowRules ==
  \A k \in 1 .. Len(wire) :
    wire[k].data = IF wire[k].tag = TAG_MAC_AND_ENCRYPT
                     THEN Ciphered(HostKeys.s_enc, k, sent[k])
                     ELSE Clear(sent[k])

IInv ==
  /\ TypeOK
  /\ Derive(hostInput).ok /\ Derive(cardInput).ok
  /\ WireMatchesChain
  /\ AcceptedIsPrefix
  /\ Len(delivered) = Len(cardChain.log)
  /\ MismatchDeliversNothing
  /\ Disciplined => FieldsFollowRules /\ DeliveredIsPrefix

-----------------------------------------------------------------------------
(* What the calls return *)

\* The length of a carried field is a length.
LEMMA FieldLengths ==
  ASSUME NEW data \in Field
  PROVE  FinalLength(data) \in Nat
<1>1. Size[data.plain] \in Nat /\ data.enc \in BOOLEAN
  BY SizeAssumption DEF Field
<1>2. \A n \in Nat : PaddedLen(n) \in Nat
  BY DEF PaddedLen, BLOCK_LEN
<1> QED BY <1>1, <1>2 DEF FinalLength, CarriedLen, CMAC_LEN

\* A length that is not too long is one that fits.
LEMMA FinalLengths ==
  \A n \in Nat : ~(n > MAX_FINAL_LENGTH) => n \in 0 .. MAX_FINAL_LENGTH
<1>1. MAX_FINAL_LENGTH \in Nat
  BY DEF MAX_FINAL_LENGTH
<1> QED BY <1>1

\* What the host protects is a field, in the clear or encrypted.
LEMMA ProtectedFields ==
  ASSUME NEW key \in Part, NEW p \in Payload, NEW n \in Nat
  PROVE  Clear(p) \in Field /\ Ciphered(key, n, p) \in Field
BY DEF Clear, Ciphered, Field

\* full_cmac extends the chaining value by the entry it authenticates.
LEMMA FullCmacExtends ==
  ASSUME NEW c \in Chain, NEW keys \in Keys, NEW tag \in Tags, NEW data \in Field, NEW cmac,
         FullCmac(keys.s_mac, c, tag, FinalLength(data), data).ok
  PROVE  Extends(FullCmac(keys.s_mac, c, tag, FinalLength(data), data).val, c, keys,
                 [tag |-> tag, data |-> data, cmac |-> cmac])
<1> DEFINE e == MacEntry(keys.s_mac, tag, FinalLength(data), data)
           d == FullCmac(keys.s_mac, c, tag, FinalLength(data), data).val
<1>1. ~(FinalLength(data) > MAX_FINAL_LENGTH)
  BY DEF FullCmac, Err
<1>2. d = [c EXCEPT !.log = Append(c.log, e)]
  BY DEF FullCmac, Ok, Err
<1>3. FinalLength(data) \in 0 .. MAX_FINAL_LENGTH
  <2>1. FinalLength(data) \in Nat
    BY FieldLengths
  <2> QED BY <1>1, <2>1, FinalLengths
<1>4. e \in Entry
  BY <1>3 DEF Entry, MacEntry, Keys, KeyRecords, Part
<1>5. EntryOf(keys, [tag |-> tag, data |-> data, cmac |-> cmac]) = e
  BY DEF EntryOf
<1>6. c.log \in Seq(Entry) /\ c.seed \in Part /\ c = [seed |-> c.seed, log |-> c.log]
  BY DEF Chain
<1> HIDE DEF e
<1>7. Append(c.log, e) \in Seq(Entry)
  BY <1>4, <1>6
<1>8. d.seed = c.seed /\ d.log = Append(c.log, e) /\ d \in Chain
  BY <1>2, <1>6, <1>7 DEF Chain
<1> QED BY <1>4, <1>5, <1>8 DEF Extends

\* A wrap that succeeds returns a TLV with the field the caller asked for and a
\* C-MAC that is the chaining value it leaves.
LEMMA WrapEncryptReturns ==
  ASSUME NEW c \in Chain, NEW keys \in Keys, NEW tag \in Tags, NEW p \in Payload, NEW n \in Nat,
         WrapEncrypt(keys, tag, p, n, c).ok
  PROVE  LET v == WrapEncrypt(keys, tag, p, n, c).val
         IN  /\ v.tlv \in Tlv
             /\ v.tlv.tag = tag
             /\ v.tlv.data = Ciphered(keys.s_enc, n, p)
             /\ v.tlv.cmac = v.chaining
             /\ Extends(v.chaining, c, keys, v.tlv)
<1> DEFINE ct == Encrypt(keys.s_enc, p, n)
           full == FullCmac(keys.s_mac, c, tag, FinalLength(ct.val), ct.val)
           v == WrapEncrypt(keys, tag, p, n, c).val
<1>1. ct.ok /\ full.ok /\ v = Protected(tag, ct.val, full.val)
  BY DEF WrapEncrypt, Ok
<1>2. ct.val = Ciphered(keys.s_enc, n, p)
  BY <1>1 DEF Encrypt, Ok, Err
<1>3. ct.val \in Field
  <2>1. keys.s_enc \in Part
    BY DEF Keys, KeyRecords, Part
  <2> HIDE DEF ct
  <2> QED BY <1>2, <2>1, ProtectedFields
<1> HIDE DEF ct
<1>4. Extends(full.val, c, keys, [tag |-> tag, data |-> ct.val, cmac |-> full.val])
  BY <1>1, <1>3, FullCmacExtends
<1> HIDE DEF full
<1>5. full.val \in Chain
  BY <1>4 DEF Extends
<1> QED BY <1>1, <1>2, <1>3, <1>4, <1>5 DEF Protected, Tlv

LEMMA WrapMacOnlyReturns ==
  ASSUME NEW c \in Chain, NEW keys \in Keys, NEW tag \in Tags, NEW p \in Payload,
         WrapMacOnly(keys, tag, p, c).ok
  PROVE  LET v == WrapMacOnly(keys, tag, p, c).val
         IN  /\ v.tlv \in Tlv
             /\ v.tlv.tag = tag
             /\ v.tlv.data = Clear(p)
             /\ v.tlv.cmac = v.chaining
             /\ Extends(v.chaining, c, keys, v.tlv)
<1> DEFINE full == FullCmac(keys.s_mac, c, tag, FinalLength(Clear(p)), Clear(p))
           v == WrapMacOnly(keys, tag, p, c).val
<1>1. full.ok /\ v = Protected(tag, Clear(p), full.val)
  BY DEF WrapMacOnly, Ok
<1>2. Clear(p) \in Field
  BY DEF Clear, Field
<1>3. Extends(full.val, c, keys, [tag |-> tag, data |-> Clear(p), cmac |-> full.val])
  BY <1>1, <1>2, FullCmacExtends
<1> HIDE DEF full
<1>4. full.val \in Chain
  BY <1>3 DEF Extends
<1> QED BY <1>1, <1>2, <1>3, <1>4 DEF Protected, Tlv

\* An unwrap either fails and leaves the chain alone, or it has found the C-MAC
\* right and leaves the chain extended by the TLV.
LEMMA UnwrapEncryptReturns ==
  ASSUME NEW c \in Chain, NEW keys \in Keys, NEW tlv \in Tlv, NEW n \in Nat,
         NEW o \in UnwrapEncrypt(keys, tlv, n, c)
  PROVE  \/ ~o.res.ok /\ o.chaining = c
         \/ /\ o.res.ok /\ o.res \in Decrypt(keys.s_enc, tlv.data, n)
            /\ tlv.cmac = o.chaining
            /\ Extends(o.chaining, c, keys, tlv)
<1> DEFINE full == FullCmac(keys.s_mac, c, tlv.tag, FinalLength(tlv.data), tlv.data)
<1>1. tlv.tag \in Tags /\ tlv.data \in Field
      /\ tlv = [tag |-> tlv.tag, data |-> tlv.data, cmac |-> tlv.cmac]
  BY DEF Tlv
<1>2. full.ok => Extends(full.val, c, keys, tlv)
  BY <1>1, FullCmacExtends
<1> HIDE DEF full
<1>3. CASE ~full.ok
  BY <1>3 DEF UnwrapEncrypt, Returns, full
<1>4. CASE full.ok /\ tlv.cmac # full.val
  BY <1>4 DEF UnwrapEncrypt, Returns, Err, full
<1>5. CASE full.ok /\ tlv.cmac = full.val
  <2>1. \E r \in Decrypt(keys.s_enc, tlv.data, n) :
          o = Returns(r, IF r.ok THEN full.val ELSE c)
    BY <1>5 DEF UnwrapEncrypt, full
  <2> QED BY <1>2, <1>5, <2>1 DEF Returns
<1> QED BY <1>3, <1>4, <1>5

LEMMA UnwrapMacOnlyReturns ==
  ASSUME NEW c \in Chain, NEW keys \in Keys, NEW tlv \in Tlv,
         NEW o \in UnwrapMacOnly(keys, tlv, c)
  PROVE  \/ ~o.res.ok /\ o.chaining = c
         \/ /\ o.res = Ok(IF tlv.data.enc THEN Bogus ELSE tlv.data.plain)
            /\ tlv.cmac = o.chaining
            /\ Extends(o.chaining, c, keys, tlv)
<1> DEFINE full == FullCmac(keys.s_mac, c, tlv.tag, FinalLength(tlv.data), tlv.data)
<1>1. tlv.tag \in Tags /\ tlv.data \in Field
      /\ tlv = [tag |-> tlv.tag, data |-> tlv.data, cmac |-> tlv.cmac]
  BY DEF Tlv
<1>2. full.ok => Extends(full.val, c, keys, tlv)
  BY <1>1, FullCmacExtends
<1> HIDE DEF full
<1>3. CASE ~full.ok
  BY <1>3 DEF UnwrapMacOnly, Returns, full
<1>4. CASE full.ok /\ tlv.cmac # full.val
  BY <1>4 DEF UnwrapMacOnly, Returns, Err, full
<1>5. CASE full.ok /\ tlv.cmac = full.val
  BY <1>2, <1>5 DEF UnwrapMacOnly, Returns, full
<1> QED BY <1>3, <1>4, <1>5

-----------------------------------------------------------------------------
(* Sequences *)

LEMMA AppendFacts ==
  ASSUME NEW S, NEW s \in Seq(S), NEW e \in S
  PROVE  /\ Append(s, e) \in Seq(S)
         /\ Len(Append(s, e)) = Len(s) + 1
         /\ \A i \in 1 .. Len(s) : Append(s, e)[i] = s[i]
         /\ Append(s, e)[Len(s) + 1] = e
         /\ \A i \in 0 .. Len(s) : SubSeq(Append(s, e), 1, i) = SubSeq(s, 1, i)
         /\ SubSeq(Append(s, e), 1, Len(s) + 1) = Append(s, e)
OBVIOUS

LEMMA PrefixFacts ==
  ASSUME NEW S, NEW s \in Seq(S), NEW k \in 0 .. Len(s)
  PROVE  /\ SubSeq(s, 1, k) \in Seq(S)
         /\ Len(SubSeq(s, 1, k)) = k
         /\ \A i \in 1 .. k : SubSeq(s, 1, k)[i] = s[i]
OBVIOUS

\* Whatever a sequence extends, a longer one does too.
LEMMA PrefixOfAppend ==
  ASSUME NEW S, NEW s \in Seq(S), NEW t \in Seq(S), NEW e \in S, IsPrefixOf(s, t)
  PROVE  IsPrefixOf(s, Append(t, e))
<1>1. Len(s) \in Nat /\ Len(t) \in Nat
  OBVIOUS
<1>2. Len(s) \in 0 .. Len(t) /\ s = SubSeq(t, 1, Len(s))
  BY <1>1 DEF IsPrefixOf
<1> QED BY <1>1, <1>2, AppendFacts DEF IsPrefixOf

\* A prefix followed by the next element is a prefix.
LEMMA PrefixGrows ==
  ASSUME NEW S, NEW s \in Seq(S), NEW t \in Seq(S), IsPrefixOf(s, t), Len(s) < Len(t)
  PROVE  IsPrefixOf(Append(s, t[Len(s) + 1]), t)
<1> DEFINE k == Len(s) + 1
<1>1. k \in 1 .. Len(t) /\ k \in 0 .. Len(t) /\ k - 1 \in 0 .. Len(t) /\ Len(s) = k - 1
      /\ t[k] \in S
  OBVIOUS
<1>2. /\ Append(s, t[k]) \in Seq(S) /\ Len(Append(s, t[k])) = k
      /\ \A i \in 1 .. Len(s) : Append(s, t[k])[i] = s[i]
      /\ Append(s, t[k])[k] = t[k]
  BY <1>1, AppendFacts
<1>3. /\ SubSeq(t, 1, k) \in Seq(S) /\ Len(SubSeq(t, 1, k)) = k
      /\ \A i \in 1 .. k : SubSeq(t, 1, k)[i] = t[i]
  BY <1>1, PrefixFacts
<1>4. \A i \in 1 .. Len(s) : s[i] = t[i]
  BY <1>1, PrefixFacts DEF IsPrefixOf
<1> HIDE DEF k
<1>5. \A i \in 1 .. k : Append(s, t[k])[i] = SubSeq(t, 1, k)[i]
  BY <1>1, <1>2, <1>3, <1>4
<1>6. Append(s, t[k]) = SubSeq(t, 1, k)
  BY <1>2, <1>3, <1>5, SeqEqual
<1>7. Len(Append(s, t[k])) <= Len(t)
  BY <1>1, <1>2
<1> QED BY <1>2, <1>6, <1>7 DEF IsPrefixOf, k

-----------------------------------------------------------------------------
(* The invariant *)

\* Both sides hold keys.
LEMMA HoldKeys ==
  ASSUME hostInput \in KeyInput, cardInput \in KeyInput,
         Derive(hostInput).ok, Derive(cardInput).ok
  PROVE  /\ HostKeys.mac_chaining \in Part /\ CardKeys.mac_chaining \in Part
         /\ HostKeys.s_enc \in Part /\ CardKeys.s_enc \in Part
         /\ HostKeys.s_mac \in Part /\ CardKeys.s_mac \in Part
         /\ HostKeys \in Keys /\ CardKeys \in Keys
<1>1. hostInput \in DeriveArguments(Secret) /\ cardInput \in DeriveArguments(Secret)
  BY InputAssumption
<1>2. HostKeys \in Keys /\ CardKeys \in Keys
  BY <1>1, DerivedKeysType DEF HostKeys, CardKeys, Keys
<1> QED BY <1>2 DEF Keys, KeyRecords, Part

LEMMA InitIInv == Init => IInv
<1> SUFFICES ASSUME Init PROVE IInv
  OBVIOUS
<1>1. /\ hostInput \in KeyInput /\ cardInput \in KeyInput
      /\ Derive(hostInput).ok /\ Derive(cardInput).ok
  BY DEF Init
<1>2. HostKeys.mac_chaining \in Part /\ CardKeys.mac_chaining \in Part
  BY <1>1, HoldKeys
<1>3. /\ hostChain \in Chain /\ hostChain.log = <<>>
      /\ cardChain \in Chain /\ cardChain.log = <<>>
  BY <1>2 DEF Init, InitialChain, Chain
<1>4. wire = <<>> /\ sent = <<>> /\ delivered = <<>>
  BY DEF Init
<1>5. TypeOK
  BY <1>1, <1>3, <1>4 DEF TypeOK
<1>6. WireMatchesChain /\ FieldsFollowRules
  BY <1>3, <1>4 DEF WireMatchesChain, FieldsFollowRules
<1>7. IsPrefixOf(<<>>, <<>>)
  BY DEF IsPrefixOf
<1> QED BY <1>1, <1>3, <1>4, <1>5, <1>6, <1>7
        DEF IInv, AcceptedIsPrefix, MismatchDeliversNothing, DeliveredIsPrefix

\* The host protects one more payload.
LEMMA HostStep ==
  ASSUME IInv, NEW tlv \in Tlv, NEW p \in Payload,
         tlv.cmac = hostChain', Extends(hostChain', hostChain, HostKeys, tlv),
         wire' = Append(wire, tlv), sent' = Append(sent, p),
         UNCHANGED <<hostInput, cardInput, cardChain, delivered>>,
         Disciplined => tlv.data = IF tlv.tag = TAG_MAC_AND_ENCRYPT
                                     THEN Ciphered(HostKeys.s_enc, Len(sent) + 1, p)
                                     ELSE Clear(p)
  PROVE  IInv'
<1> DEFINE e == EntryOf(HostKeys, tlv)
<1> USE DEF IInv
<1>1. /\ hostChain \in Chain /\ hostChain.log \in Seq(Entry) /\ cardChain.log \in Seq(Entry)
      /\ wire \in Seq(Tlv) /\ sent \in Seq(Payload) /\ delivered \in Seq(Payload \cup {Bogus})
  BY DEF TypeOK, Chain
<1>2. hostChain' \in Chain /\ hostChain'.log = Append(hostChain.log, e) /\ e \in Entry
  BY DEF Extends
<1>3. HostKeys' = HostKeys /\ CardKeys' = CardKeys
  BY DEF HostKeys, CardKeys
<1> HIDE DEF e
<1>4. TypeOK'
  <2>1. wire' \in Seq(Tlv) /\ sent' \in Seq(Payload)
    BY <1>1
  <2> QED BY <1>2, <2>1 DEF TypeOK
<1>5. WireMatchesChain'
  <2>1. /\ Len(wire) = Len(hostChain.log) /\ Len(sent) = Len(wire)
        /\ \A k \in 1 .. Len(wire) :
             /\ wire[k].cmac.log = SubSeq(hostChain.log, 1, k)
             /\ hostChain.log[k] = EntryOf(HostKeys, wire[k])
    BY DEF WireMatchesChain
  <2>2. /\ Len(wire') = Len(wire) + 1 /\ Len(sent') = Len(sent) + 1
        /\ \A k \in 1 .. Len(wire) : wire'[k] = wire[k]
        /\ wire'[Len(wire) + 1] = tlv
    BY <1>1, AppendFacts
  <2>3. /\ Len(hostChain'.log) = Len(hostChain.log) + 1
        /\ \A k \in 1 .. Len(hostChain.log) :
             /\ hostChain'.log[k] = hostChain.log[k]
             /\ SubSeq(hostChain'.log, 1, k) = SubSeq(hostChain.log, 1, k)
        /\ hostChain'.log[Len(hostChain.log) + 1] = e
        /\ SubSeq(hostChain'.log, 1, Len(hostChain.log) + 1) = hostChain'.log
    BY <1>1, <1>2, AppendFacts
  <2>4. Len(wire) \in Nat
    BY <1>1
  <2>5. \A k \in 1 .. Len(wire) :
          /\ wire'[k].cmac.log = SubSeq(hostChain'.log, 1, k)
          /\ hostChain'.log[k] = EntryOf(HostKeys, wire'[k])
    BY <2>1, <2>2, <2>3
  <2>6. /\ tlv.cmac.log = SubSeq(hostChain'.log, 1, Len(wire) + 1)
        /\ hostChain'.log[Len(wire) + 1] = EntryOf(HostKeys, tlv)
    BY <2>1, <2>3 DEF e
  <2>7. \A k \in 1 .. Len(wire') :
          /\ wire'[k].cmac.log = SubSeq(hostChain'.log, 1, k)
          /\ hostChain'.log[k] = EntryOf(HostKeys', wire'[k])
    <3> TAKE k \in 1 .. Len(wire')
    <3>1. k \in 1 .. Len(wire) \/ k = Len(wire) + 1
      BY <2>2, <2>4
    <3> QED BY <1>3, <2>2, <2>5, <2>6, <3>1
  <2>8. Len(wire') = Len(hostChain'.log) /\ Len(sent') = Len(wire')
    BY <2>1, <2>2, <2>3
  <2> QED BY <2>7, <2>8 DEF WireMatchesChain
<1>6. AcceptedIsPrefix'
  BY <1>1, <1>2, PrefixOfAppend DEF AcceptedIsPrefix
<1>7. Disciplined => FieldsFollowRules' /\ DeliveredIsPrefix'
  <2> SUFFICES ASSUME Disciplined PROVE FieldsFollowRules' /\ DeliveredIsPrefix'
    OBVIOUS
  <2>1. Len(sent) = Len(wire) /\ Len(wire) \in Nat
    BY <1>1 DEF WireMatchesChain
  <2>2. /\ Len(wire') = Len(wire) + 1
        /\ \A k \in 1 .. Len(wire) : wire'[k] = wire[k]
        /\ wire'[Len(wire) + 1] = tlv
    BY <1>1, AppendFacts
  <2>3. /\ \A k \in 1 .. Len(wire) : sent'[k] = sent[k]
        /\ sent'[Len(wire) + 1] = p
    BY <1>1, <2>1, AppendFacts
  <2>4. FieldsFollowRules'
    BY <1>3, <2>1, <2>2, <2>3 DEF FieldsFollowRules
  <2>5. IsPrefixOf(delivered, sent')
    <3>1. sent \in Seq(Payload \cup {Bogus}) /\ IsPrefixOf(delivered, sent)
      BY <1>1 DEF DeliveredIsPrefix
    <3> QED BY <1>1, <3>1, PrefixOfAppend
  <2> QED BY <2>4, <2>5 DEF DeliveredIsPrefix
<1> QED BY <1>4, <1>5, <1>6, <1>7 DEF MismatchDeliversNothing

\* A TLV that extends the card's chain to its own C-MAC is the host's next one,
\* and the two sides hold the same keys.
LEMMA AcceptedIsNext ==
  ASSUME IInv, NEW tlv \in Arriving, NEW d,
         tlv.cmac = d, Extends(d, cardChain, CardKeys, tlv)
  PROVE  LET k == Len(cardChain.log) + 1
         IN  /\ k \in 1 .. Len(wire)
             /\ d.log = SubSeq(hostChain.log, 1, k)
             /\ tlv.tag = wire[k].tag /\ tlv.data = wire[k].data
             /\ hostInput = cardInput
<1> DEFINE k == Len(cardChain.log) + 1
           e == EntryOf(CardKeys, tlv)
<1>1. /\ hostChain.log \in Seq(Entry) /\ cardChain.log \in Seq(Entry)
      /\ wire \in Seq(Tlv)
  BY DEF IInv, TypeOK, Chain
<1>2. d.log = Append(cardChain.log, e) /\ e \in Entry
  BY DEF Extends
<1>3. Len(d.log) = k /\ d.log[k] = e /\ k \in Nat /\ k > 0
  <2> HIDE DEF e
  <2> QED BY <1>1, <1>2, AppendFacts
<1>4. PICK i \in 1 .. Len(wire) : d = wire[i].cmac
  <2>1. d # DamagedCmac
    <3>1. DamagedCmac.log = <<>>
      BY DEF DamagedCmac, IInv, TypeOK, Chain
    <3>2. Len(<<>>) = 0
      OBVIOUS
    <3> QED BY <1>3, <3>1, <3>2
  <2> QED BY <1>1, <2>1 DEF Arriving
<1>5. /\ d.log = SubSeq(hostChain.log, 1, i)
      /\ hostChain.log[i] = EntryOf(HostKeys, wire[i])
      /\ i \in 1 .. Len(hostChain.log)
  BY <1>4 DEF IInv, WireMatchesChain
<1>6. Len(d.log) = i /\ d.log[i] = hostChain.log[i]
  BY <1>1, <1>5, PrefixFacts
<1>7. i = k /\ EntryOf(CardKeys, tlv) = EntryOf(HostKeys, wire[k])
  BY <1>3, <1>5, <1>6
<1>8. /\ tlv.tag = wire[k].tag /\ tlv.data = wire[k].data
      /\ CardKeys.s_mac = HostKeys.s_mac
  BY <1>7 DEF EntryOf, MacEntry
<1>9. hostInput = cardInput
  <2>1. /\ hostInput \in DeriveArguments(Secret) /\ cardInput \in DeriveArguments(Secret)
        /\ Derive(hostInput).ok /\ Derive(cardInput).ok
    BY InputAssumption DEF IInv, TypeOK
  <2> QED BY <1>8, <2>1, SameMacKeySameInput DEF HostKeys, CardKeys
<1> QED BY <1>4, <1>5, <1>7, <1>8, <1>9

\* The card accepts one more TLV.
LEMMA CardStep ==
  ASSUME IInv, NEW tlv \in Arriving, NEW v \in Payload \cup {Bogus},
         tlv.cmac = cardChain', Extends(cardChain', cardChain, CardKeys, tlv),
         delivered' = Append(delivered, v),
         UNCHANGED <<hostInput, cardInput, hostChain, wire, sent>>,
         Disciplined => v = sent[Len(delivered) + 1]
  PROVE  IInv'
<1> USE DEF IInv
<1> DEFINE k == Len(cardChain.log) + 1
           e == EntryOf(CardKeys, tlv)
<1>1. /\ hostChain.log \in Seq(Entry) /\ cardChain.log \in Seq(Entry)
      /\ delivered \in Seq(Payload \cup {Bogus}) /\ sent \in Seq(Payload \cup {Bogus})
  BY DEF TypeOK, Chain
<1>2. /\ k \in 1 .. Len(wire) /\ cardChain'.log = SubSeq(hostChain.log, 1, k)
      /\ hostInput = cardInput
  BY AcceptedIsNext
<1>3. cardChain' \in Chain /\ cardChain'.log = Append(cardChain.log, e) /\ e \in Entry
  BY DEF Extends
<1>4. Len(wire) = Len(hostChain.log) /\ Len(sent) = Len(wire)
      /\ Len(delivered) = Len(cardChain.log)
  BY DEF WireMatchesChain
<1> HIDE DEF e
<1>5. Len(cardChain'.log) = k
  BY <1>1, <1>3, AppendFacts
<1>6. Len(delivered') = k /\ delivered' \in Seq(Payload \cup {Bogus})
  BY <1>1, <1>4, AppendFacts
<1>7. TypeOK'
  BY <1>3, <1>6 DEF TypeOK
<1>8. WireMatchesChain' /\ (FieldsFollowRules => FieldsFollowRules')
  BY DEF WireMatchesChain, FieldsFollowRules, HostKeys
<1>9. AcceptedIsPrefix'
  BY <1>2, <1>4, <1>5 DEF AcceptedIsPrefix, IsPrefixOf
<1>10. Disciplined => DeliveredIsPrefix'
  <2> SUFFICES ASSUME Disciplined PROVE IsPrefixOf(delivered', sent)
    BY DEF DeliveredIsPrefix
  <2>1. IsPrefixOf(delivered, sent) /\ Len(delivered) < Len(sent)
    BY <1>1, <1>2, <1>4 DEF DeliveredIsPrefix
  <2> QED BY <1>1, <2>1, PrefixGrows
<1> QED BY <1>2, <1>5, <1>6, <1>7, <1>8, <1>9, <1>10 DEF MismatchDeliversNothing

\* What may arrive at the card is a TLV.
LEMMA ArrivingTlv ==
  ASSUME TypeOK, NEW tlv \in Arriving
  PROVE  tlv \in Tlv
<1>1. wire \in Seq(Tlv) /\ hostChain \in Chain
  BY DEF TypeOK
<1>2. \A i \in DOMAIN wire : wire[i].data \in Field /\ wire[i].cmac \in Chain
  <2>1. \A i \in DOMAIN wire : wire[i] \in Tlv
    BY <1>1
  <2> QED BY <2>1 DEF Tlv
<1>3. DamagedCmac \in Chain
  <2>1. <<>> \in Seq(Entry)
    OBVIOUS
  <2> QED BY <1>1, <2>1 DEF DamagedCmac, Chain
<1>4. \A p \in Payload : Clear(p) \in Field
  BY DEF Clear, Field
<1> QED BY <1>2, <1>3, <1>4 DEF Arriving, Tlv

\* The effects that a step may have on the state.
HostSends ==
  \E tlv \in Tlv, p \in Payload :
    /\ tlv.cmac = hostChain' /\ Extends(hostChain', hostChain, HostKeys, tlv)
    /\ wire' = Append(wire, tlv) /\ sent' = Append(sent, p)
    /\ UNCHANGED <<hostInput, cardInput, cardChain, delivered>>
    /\ Disciplined => tlv.data = IF tlv.tag = TAG_MAC_AND_ENCRYPT
                                   THEN Ciphered(HostKeys.s_enc, Len(sent) + 1, p)
                                   ELSE Clear(p)

CardAccepts ==
  \E tlv \in Arriving, v \in Payload \cup {Bogus} :
    /\ tlv.cmac = cardChain' /\ Extends(cardChain', cardChain, CardKeys, tlv)
    /\ delivered' = Append(delivered, v)
    /\ UNCHANGED <<hostInput, cardInput, hostChain, wire, sent>>
    /\ Disciplined => v = sent[Len(delivered) + 1]

\* A call of the host protects a payload or changes nothing.
LEMMA HostEffects ==
  ASSUME IInv, HostNext
  PROVE  HostSends \/ UNCHANGED vars
<1>1. hostChain \in Chain /\ HostKeys \in Keys
  BY HoldKeys DEF IInv, TypeOK
<1>2. ASSUME NEW tag \in Tags, NEW p \in Payload, NEW n \in Numbers,
             HostWrapEncrypt(tag, p, n)
      PROVE  HostSends \/ UNCHANGED vars
  <2> DEFINE r == WrapEncrypt(HostKeys, tag, p, n, hostChain)
  <2>1. /\ HostReturns(r, p)
        /\ Disciplined => n = Len(sent) + 1 /\ tag = TAG_MAC_AND_ENCRYPT
    BY <1>2 DEF HostWrapEncrypt
  <2>2. n \in Nat
    BY BoundAssumption DEF Numbers
  <2>3. r.ok => /\ r.val.tlv \in Tlv /\ r.val.tlv.tag = tag
                /\ r.val.tlv.data = Ciphered(HostKeys.s_enc, n, p)
                /\ r.val.tlv.cmac = r.val.chaining
                /\ Extends(r.val.chaining, hostChain, HostKeys, r.val.tlv)
    BY <1>1, <2>2, WrapEncryptReturns
  <2> HIDE DEF r
  <2>4. CASE r.ok
    <3>1. /\ hostChain' = r.val.chaining /\ wire' = Append(wire, r.val.tlv)
          /\ sent' = Append(sent, p)
          /\ UNCHANGED <<hostInput, cardInput, cardChain, delivered>>
      BY <2>1, <2>4 DEF HostReturns
    <3> QED BY <2>1, <2>3, <2>4, <3>1 DEF HostSends
  <2>5. CASE ~r.ok
    BY <2>1, <2>5 DEF HostReturns, vars
  <2> QED BY <2>4, <2>5
<1>3. ASSUME NEW tag \in Tags, NEW p \in Payload, HostWrapMacOnly(tag, p)
      PROVE  HostSends \/ UNCHANGED vars
  <2> DEFINE r == WrapMacOnly(HostKeys, tag, p, hostChain)
  <2>1. HostReturns(r, p) /\ (Disciplined => tag # TAG_MAC_AND_ENCRYPT)
    BY <1>3 DEF HostWrapMacOnly
  <2>2. r.ok => /\ r.val.tlv \in Tlv /\ r.val.tlv.tag = tag
                /\ r.val.tlv.data = Clear(p)
                /\ r.val.tlv.cmac = r.val.chaining
                /\ Extends(r.val.chaining, hostChain, HostKeys, r.val.tlv)
    BY <1>1, WrapMacOnlyReturns
  <2> HIDE DEF r
  <2>3. CASE r.ok
    <3>1. /\ hostChain' = r.val.chaining /\ wire' = Append(wire, r.val.tlv)
          /\ sent' = Append(sent, p)
          /\ UNCHANGED <<hostInput, cardInput, cardChain, delivered>>
      BY <2>1, <2>3 DEF HostReturns
    <3> QED BY <2>1, <2>2, <2>3, <3>1 DEF HostSends
  <2>4. CASE ~r.ok
    BY <2>1, <2>4 DEF HostReturns, vars
  <2> QED BY <2>3, <2>4
<1> QED BY <1>2, <1>3 DEF HostNext

\* Under the card's own keys and the right number, decrypt gives the payload.
LEMMA RightDecrypt ==
  ASSUME NEW key \in Part, NEW p \in Payload, NEW n \in Nat, NEW r,
         r \in Decrypt(key, Ciphered(key, n, p), n), r.ok
  PROVE  r.val = p
BY DEF Decrypt, Ciphered, Ok, Err

\* Whatever decrypt returns is a payload or some other bytes.
LEMMA DecryptValue ==
  ASSUME NEW key, NEW data \in Field, NEW n \in Nat, NEW r \in Decrypt(key, data, n), r.ok
  PROVE  r.val \in Payload \cup {Bogus}
<1>1. data.plain \in Payload
  BY DEF Field
<1> QED BY <1>1 DEF Decrypt, Ok, Err

\* A call of the card accepts a TLV or changes nothing.
LEMMA CardEffects ==
  ASSUME IInv, CardNext
  PROVE  CardAccepts \/ UNCHANGED vars
<1>1. cardChain \in Chain /\ CardKeys \in Keys /\ CardKeys.s_enc \in Part
  BY HoldKeys DEF IInv, TypeOK
<1>2. /\ Len(delivered) = Len(cardChain.log) /\ Len(delivered) + 1 \in Nat
      /\ Len(sent) = Len(wire) /\ sent \in Seq(Payload) /\ Len(sent) \in Nat
  BY DEF IInv, TypeOK, WireMatchesChain
<1>3. ASSUME NEW tlv \in Arriving, NEW d, tlv.cmac = d, Extends(d, cardChain, CardKeys, tlv),
             Disciplined
      PROVE  LET k == Len(delivered) + 1
             IN  /\ sent[k] \in Payload /\ tlv.tag = wire[k].tag
                 /\ tlv.data = IF tlv.tag = TAG_MAC_AND_ENCRYPT
                                 THEN Ciphered(CardKeys.s_enc, k, sent[k])
                                 ELSE Clear(sent[k])
  <2>1. LET k == Len(cardChain.log) + 1
        IN  /\ k \in 1 .. Len(wire)
            /\ tlv.tag = wire[k].tag /\ tlv.data = wire[k].data
            /\ hostInput = cardInput
    BY <1>3, AcceptedIsNext
  <2>2. HostKeys = CardKeys
    BY <2>1 DEF HostKeys, CardKeys
  <2>3. FieldsFollowRules
    BY <1>3 DEF IInv
  <2> QED BY <1>2, <2>1, <2>2, <2>3 DEF FieldsFollowRules
<1>4. ASSUME NEW tlv \in Arriving, NEW n \in Numbers, CardUnwrapEncrypt(tlv, n)
      PROVE  CardAccepts \/ UNCHANGED vars
  <2>1. /\ tlv \in Tlv /\ n \in Nat
    BY ArrivingTlv, BoundAssumption DEF IInv, Numbers
  <2>2. PICK o \in UnwrapEncrypt(CardKeys, tlv, n, cardChain) : CardReturns(o)
    BY <1>4 DEF CardUnwrapEncrypt
  <2>3. Disciplined => n = Len(delivered) + 1 /\ tlv.tag = TAG_MAC_AND_ENCRYPT
    BY <1>4 DEF CardUnwrapEncrypt
  <2>4. CASE ~o.res.ok /\ o.chaining = cardChain
    BY <2>2, <2>4 DEF CardReturns, vars
  <2>5. CASE /\ o.res.ok /\ o.res \in Decrypt(CardKeys.s_enc, tlv.data, n)
             /\ tlv.cmac = o.chaining
             /\ Extends(o.chaining, cardChain, CardKeys, tlv)
    <3>1. tlv.data \in Field
      BY <2>1 DEF Tlv
    <3>2. o.res.val \in Payload \cup {Bogus}
      BY <2>1, <2>5, <3>1, DecryptValue
    <3>3. Disciplined => o.res.val = sent[Len(delivered) + 1]
      <4> SUFFICES ASSUME Disciplined PROVE o.res.val = sent[Len(delivered) + 1]
        OBVIOUS
      <4>1. /\ sent[Len(delivered) + 1] \in Payload
            /\ tlv.data = Ciphered(CardKeys.s_enc, n, sent[Len(delivered) + 1])
        BY <1>3, <2>3, <2>5
      <4> QED BY <1>1, <2>1, <2>5, <4>1, RightDecrypt
    <3>4. /\ cardChain' = o.chaining /\ delivered' = Append(delivered, o.res.val)
          /\ UNCHANGED <<hostInput, cardInput, hostChain, wire, sent>>
      BY <2>2, <2>5 DEF CardReturns
    <3> QED BY <2>5, <3>2, <3>3, <3>4 DEF CardAccepts
  <2> QED BY <1>1, <2>1, <2>2, <2>4, <2>5, UnwrapEncryptReturns
<1>5. ASSUME NEW tlv \in Arriving, CardUnwrapMacOnly(tlv)
      PROVE  CardAccepts \/ UNCHANGED vars
  <2> DEFINE v == IF tlv.data.enc THEN Bogus ELSE tlv.data.plain
  <2>1. tlv \in Tlv
    BY ArrivingTlv DEF IInv
  <2>2. PICK o \in UnwrapMacOnly(CardKeys, tlv, cardChain) : CardReturns(o)
    BY <1>5 DEF CardUnwrapMacOnly
  <2>3. Disciplined => tlv.tag # TAG_MAC_AND_ENCRYPT
    BY <1>5 DEF CardUnwrapMacOnly
  <2>4. CASE ~o.res.ok /\ o.chaining = cardChain
    BY <2>2, <2>4 DEF CardReturns, vars
  <2>5. CASE /\ o.res = Ok(v)
             /\ tlv.cmac = o.chaining
             /\ Extends(o.chaining, cardChain, CardKeys, tlv)
    <3>1. v \in Payload \cup {Bogus}
      BY <2>1 DEF Tlv, Field
    <3>2. Disciplined => v = sent[Len(delivered) + 1]
      <4> SUFFICES ASSUME Disciplined PROVE v = sent[Len(delivered) + 1]
        OBVIOUS
      <4>1. tlv.data = Clear(sent[Len(delivered) + 1])
        BY <1>3, <2>3, <2>5
      <4> QED BY <4>1 DEF Clear
    <3> HIDE DEF v
    <3>3. /\ cardChain' = o.chaining /\ delivered' = Append(delivered, v)
          /\ UNCHANGED <<hostInput, cardInput, hostChain, wire, sent>>
      BY <2>2, <2>5 DEF CardReturns, Ok
    <3> QED BY <2>5, <3>1, <3>2, <3>3 DEF CardAccepts
  <2> QED BY <1>1, <2>1, <2>2, <2>4, <2>5, UnwrapMacOnlyReturns
<1> QED BY <1>4, <1>5 DEF CardNext

\* IInv is inductive.
LEMMA NextIInv == IInv /\ [Next]_vars => IInv'
<1> SUFFICES ASSUME IInv, [Next]_vars PROVE IInv'
  OBVIOUS
<1>1. CASE HostSends
  BY <1>1, HostStep DEF HostSends
<1>2. CASE CardAccepts
  BY <1>2, CardStep DEF CardAccepts
<1>3. CASE UNCHANGED vars
  BY <1>3 DEF vars, IInv, TypeOK, WireMatchesChain, AcceptedIsPrefix, HostKeys,
              MismatchDeliversNothing, FieldsFollowRules, DeliveredIsPrefix
<1> QED BY <1>1, <1>2, <1>3, HostEffects, CardEffects DEF Next

LEMMA InvariantHolds == Spec => []IInv
BY InitIInv, NextIInv, PTL DEF Spec

-----------------------------------------------------------------------------
(* The theorems *)

\* Type correctness; in it, that everything MACed has a length its TLV can say
\* (full_cmac's check, bsp.rs 292-299).
THEOREM TypeCorrect == Spec => []TypeOK
<1>1. IInv => TypeOK
  BY DEF IInv
<1> QED BY <1>1, InvariantHolds, PTL

\* Whatever calls either side makes and whatever the transport does, what the
\* card has accepted is an initial run of the host's blocks (bsp.rs 26-31).
THEOREM Indivisible == Spec => []AcceptedIsPrefix
<1>1. IInv => AcceptedIsPrefix
  BY DEF IInv
<1> QED BY <1>1, InvariantHolds, PTL

\* Sides that derived their keys from different arguments exchange nothing.
THEOREM Separated == Spec => []MismatchDeliversNothing
<1>1. IInv => MismatchDeliversNothing
  BY DEF IInv
<1> QED BY <1>1, InvariantHolds, PTL

\* Disciplined callers get back what was protected, in order.
THEOREM DeliveredInOrder ==
  ASSUME Disciplined
  PROVE  Spec => []DeliveredIsPrefix
<1>1. IInv => DeliveredIsPrefix
  BY DEF IInv
<1> QED BY <1>1, InvariantHolds, PTL

\* A session with disciplined callers implements the abstract ordered channel:
\* a successful wrap is a Send, a successful unwrap a Deliver, and everything
\* else, failed calls among it, is invisible.
THEOREM ImplementsOrderedDelivery ==
  ASSUME Disciplined
  PROVE  Spec => DeliversInOrder
<1>1. Init => Delivery!Init
  BY DEF Init, Delivery!Init
<1>2. IInv /\ [Next]_vars => [Delivery!Next]_Delivery!odVars
  <2> SUFFICES ASSUME IInv, [Next]_vars PROVE [Delivery!Next]_Delivery!odVars
    OBVIOUS
  <2>1. CASE HostSends
    BY <2>1 DEF HostSends, Delivery!Next, Delivery!Send
  <2>2. CASE CardAccepts
    <3>1. PICK tlv \in Arriving, v \in Payload \cup {Bogus} :
            /\ tlv.cmac = cardChain' /\ Extends(cardChain', cardChain, CardKeys, tlv)
            /\ delivered' = Append(delivered, v)
            /\ UNCHANGED <<hostInput, cardInput, hostChain, wire, sent>>
            /\ Disciplined => v = sent[Len(delivered) + 1]
      BY <2>2 DEF CardAccepts
    <3>2. Len(cardChain.log) + 1 \in 1 .. Len(wire)
      BY <3>1, AcceptedIsNext
    <3>3. /\ Len(delivered) = Len(cardChain.log) /\ Len(sent) = Len(wire)
          /\ Len(delivered) \in Nat /\ Len(wire) \in Nat
      BY DEF IInv, TypeOK, WireMatchesChain
    <3>4. Len(delivered) < Len(sent)
      BY <3>2, <3>3
    <3> QED BY <3>1, <3>4 DEF Delivery!Next, Delivery!Deliver
  <2>3. CASE UNCHANGED vars
    BY <2>3 DEF vars, Delivery!odVars
  <2> QED BY <2>1, <2>2, <2>3, HostEffects, CardEffects DEF Next
<1> QED BY <1>1, <1>2, InvariantHolds, PTL DEF Spec, DeliversInOrder, Delivery!Spec

-----------------------------------------------------------------------------
(* Recovery *)

\* The field is what one of the wraps makes of the payload.
Carries(data, p) ==
  \/ data = Clear(p)
  \/ \E n \in Nat : data = Ciphered(HostKeys.s_enc, n, p)

Sealed ==
  /\ hostChain.seed = HostKeys.mac_chaining
  /\ cardChain.seed = CardKeys.mac_chaining
  /\ wire # <<>> => HostKeys.s_mac.len = KEY_LEN
  /\ \A k \in 1 .. Len(wire) :
       /\ wire[k].cmac.seed = HostKeys.mac_chaining
       /\ Carries(wire[k].data, sent[k])

-----------------------------------------------------------------------------

\* full_cmac works under a key of the right length only.
LEMMA CmacKeyLength ==
  ASSUME NEW key, NEW c, NEW tag, NEW len, NEW data, FullCmac(key, c, tag, len, data).ok
  PROVE  key.len = KEY_LEN
BY DEF FullCmac, Err

\* What a successful call of the host adds.
HostSeals ==
  \E tlv \in Tlv, p \in Payload :
    /\ tlv.cmac = hostChain' /\ hostChain'.seed = hostChain.seed
    /\ Carries(tlv.data, p)
    /\ HostKeys.s_mac.len = KEY_LEN
    /\ wire' = Append(wire, tlv) /\ sent' = Append(sent, p)
    /\ UNCHANGED <<hostInput, cardInput, cardChain>>

LEMMA HostSealsOrStutters ==
  ASSUME IInv, HostNext
  PROVE  HostSeals \/ UNCHANGED vars
<1>1. hostChain \in Chain /\ HostKeys \in Keys
  BY HoldKeys DEF IInv, TypeOK
<1>2. ASSUME NEW tag \in Tags, NEW p \in Payload, NEW n \in Numbers,
             HostWrapEncrypt(tag, p, n)
      PROVE  HostSeals \/ UNCHANGED vars
  <2> DEFINE r == WrapEncrypt(HostKeys, tag, p, n, hostChain)
  <2>1. HostReturns(r, p)
    BY <1>2 DEF HostWrapEncrypt
  <2>2. n \in Nat
    BY BoundAssumption DEF Numbers
  <2>3. r.ok => /\ r.val.tlv \in Tlv
                /\ r.val.tlv.data = Ciphered(HostKeys.s_enc, n, p)
                /\ r.val.tlv.cmac = r.val.chaining
                /\ r.val.chaining.seed = hostChain.seed
    BY <1>1, <2>2, WrapEncryptReturns DEF Extends
  <2>4. r.ok => HostKeys.s_mac.len = KEY_LEN
    BY CmacKeyLength DEF WrapEncrypt
  <2> HIDE DEF r
  <2>5. CASE r.ok
    <3>1. Carries(r.val.tlv.data, p)
      BY <2>2, <2>3, <2>5 DEF Carries
    <3> QED  BY <2>1, <2>3, <2>4, <2>5, <3>1 DEF HostReturns, HostSeals
  <2>6. CASE ~r.ok
    BY <2>1, <2>6 DEF HostReturns, vars
  <2> QED  BY <2>5, <2>6
<1>3. ASSUME NEW tag \in Tags, NEW p \in Payload, HostWrapMacOnly(tag, p)
      PROVE  HostSeals \/ UNCHANGED vars
  <2> DEFINE r == WrapMacOnly(HostKeys, tag, p, hostChain)
  <2>1. HostReturns(r, p)
    BY <1>3 DEF HostWrapMacOnly
  <2>2. r.ok => /\ r.val.tlv \in Tlv
                /\ r.val.tlv.data = Clear(p)
                /\ r.val.tlv.cmac = r.val.chaining
                /\ r.val.chaining.seed = hostChain.seed
    BY <1>1, WrapMacOnlyReturns DEF Extends
  <2>3. r.ok => HostKeys.s_mac.len = KEY_LEN
    BY CmacKeyLength DEF WrapMacOnly
  <2> HIDE DEF r
  <2>4. CASE r.ok
    <3>1. Carries(r.val.tlv.data, p)
      BY <2>2, <2>4 DEF Carries
    <3> QED  BY <2>1, <2>2, <2>3, <2>4, <3>1 DEF HostReturns, HostSeals
  <2>5. CASE ~r.ok
    BY <2>1, <2>5 DEF HostReturns, vars
  <2> QED  BY <2>4, <2>5
<1> QED  BY <1>2, <1>3 DEF HostNext

LEMMA SealedStep ==
  ASSUME IInv, Sealed, HostSeals
  PROVE  Sealed'
<1>1. PICK tlv \in Tlv, p \in Payload :
        /\ tlv.cmac = hostChain' /\ hostChain'.seed = hostChain.seed
        /\ Carries(tlv.data, p)
        /\ HostKeys.s_mac.len = KEY_LEN
        /\ wire' = Append(wire, tlv) /\ sent' = Append(sent, p)
        /\ UNCHANGED <<hostInput, cardInput, cardChain>>
  BY DEF HostSeals
<1>2. wire \in Seq(Tlv) /\ sent \in Seq(Payload) /\ Len(sent) = Len(wire) /\ Len(wire) \in Nat
  BY DEF IInv, TypeOK, WireMatchesChain
<1>3. HostKeys' = HostKeys /\ CardKeys' = CardKeys
  BY <1>1 DEF HostKeys, CardKeys
<1>4. /\ Len(wire') = Len(wire) + 1
      /\ \A k \in 1 .. Len(wire) : wire'[k] = wire[k] /\ sent'[k] = sent[k]
      /\ wire'[Len(wire) + 1] = tlv /\ sent'[Len(wire) + 1] = p
  BY <1>1, <1>2, AppendFacts
<1>5. \A data, q : Carries(data, q)' <=> Carries(data, q)
  BY <1>3 DEF Carries
<1>6. \A k \in 1 .. Len(wire') :
        wire'[k].cmac.seed = HostKeys.mac_chaining /\ Carries(wire'[k].data, sent'[k])
  <2> TAKE k \in 1 .. Len(wire')
  <2>1. CASE k \in 1 .. Len(wire)
    BY <1>4, <2>1 DEF Sealed
  <2>2. CASE k = Len(wire) + 1
    BY <1>1, <1>4, <2>2 DEF Sealed
  <2> QED  BY <1>2, <1>4, <2>1, <2>2
<1> QED  BY <1>1, <1>3, <1>5, <1>6 DEF Sealed

LEMMA AlwaysSealed == Spec => []Sealed
<1>1. Init => Sealed
  BY DEF Init, Sealed, InitialChain
<1>2. IInv /\ Sealed /\ [Next]_vars => Sealed'
  <2> SUFFICES ASSUME IInv, Sealed, [Next]_vars PROVE Sealed'
    OBVIOUS
  <2>1. CASE HostSeals
    BY <2>1, SealedStep
  <2>2. CASE CardAccepts
    <3>1. /\ cardChain'.seed = cardChain.seed
          /\ UNCHANGED <<hostInput, cardInput, hostChain, wire, sent>>
      BY <2>2 DEF CardAccepts, Extends
    <3> QED  BY <3>1 DEF Sealed, Carries, HostKeys, CardKeys
  <2>3. CASE UNCHANGED vars
    BY <2>3 DEF vars, Sealed, Carries, HostKeys, CardKeys
  <2> QED  BY <2>1, <2>2, <2>3, HostSealsOrStutters, CardEffects DEF Next
<1> QED  BY <1>1, <1>2, InvariantHolds, PTL DEF Spec

-----------------------------------------------------------------------------
(* Good keys *)

\* derive cuts three keys of one length, one after the other.
LEMMA KeysCutApart ==
  ASSUME NEW in \in DeriveArguments(Secret), Derive(in).ok, Derive(in).val.s_mac.len = KEY_LEN
  PROVE  IsWellFormed(Derive(in).val)
<1> DEFINE kd == X963Kdf(in.secret, SharedInfo(in.keyType, in.keyLength, in.hostId, in.eid).val,
                         3 * in.keyLength)
<1>1. Derive(in) = FromKeyData(kd.val, in.keyLength)
  BY DEF Derive, X963Kdf, Err, SharedInfo
<1> HIDE DEF kd
<1>2. Derive(in).val = [mac_chaining |-> KeyBytes(kd.val, 0, in.keyLength),
                        s_enc        |-> KeyBytes(kd.val, in.keyLength, in.keyLength),
                        s_mac        |-> KeyBytes(kd.val, 2 * in.keyLength, in.keyLength)]
  BY <1>1 DEF FromKeyData, Ok, Err
<1>3. in.keyLength = KEY_LEN
  BY <1>2 DEF KeyBytes
<1> QED  BY <1>2, <1>3 DEF IsWellFormed, KeyBytes, KEY_LEN

\* derive makes keys of any length; nothing is ever protected under keys that
\* is_well_formed would refuse (bsp_keys.rs 105-117).
THEOREM OnlyUnderGoodKeys == Spec => []ProtectedUnderGoodKeys
<1>1. IInv /\ Sealed => ProtectedUnderGoodKeys
  <2> SUFFICES ASSUME IInv, Sealed, wire # <<>> PROVE IsWellFormed(HostKeys)
    BY DEF ProtectedUnderGoodKeys
  <2>1. hostInput \in DeriveArguments(Secret) /\ Derive(hostInput).ok
    BY InputAssumption DEF IInv, TypeOK
  <2> QED  BY <2>1, KeysCutApart DEF Sealed, HostKeys
<1> QED  BY <1>1, InvariantHolds, AlwaysSealed, PTL

-----------------------------------------------------------------------------
(* Recovery *)

\* What the host has made of a payload is a whole number of blocks when it is
\* encrypted, and is decrypted under the same key and number to nothing else.
LEMMA WholeBlocks == \A n \in Nat : PaddedLen(n) > 0 /\ PaddedLen(n) % BLOCK_LEN = 0
BY DEF PaddedLen, BLOCK_LEN

LEMMA DecryptsToPayload ==
  ASSUME NEW key, key.len = BLOCK_LEN, NEW p \in Payload, NEW n \in Nat
  PROVE  Decrypt(key, Ciphered(key, n, p), n) = {Ok(p)}
<1> DEFINE data == Ciphered(key, n, p)
<1>1. data.enc /\ data.key = key /\ data.number = n /\ data.plain = p
  BY DEF Ciphered
<1>2. CarriedLen(data) = PaddedLen(Size[p])
  BY <1>1 DEF CarriedLen
<1>3. CarriedLen(data) # 0 /\ CarriedLen(data) % BLOCK_LEN = 0
  <2>1. Size[p] \in Nat
    BY SizeAssumption
  <2> QED  BY <1>2, <2>1, WholeBlocks
<1> HIDE DEF data
<1> QED  BY <1>1, <1>3 DEF Decrypt, data

\* A cut of a sequence followed by the next element is the next longer cut.
LEMMA CutGrows ==
  ASSUME NEW S, NEW t \in Seq(S), NEW k \in 1 .. Len(t)
  PROVE  Append(SubSeq(t, 1, k - 1), t[k]) = SubSeq(t, 1, k)
<1>1. k \in 0 .. Len(t) /\ k - 1 \in 0 .. Len(t) /\ t[k] \in S
  OBVIOUS
<1>2. /\ SubSeq(t, 1, k) \in Seq(S) /\ Len(SubSeq(t, 1, k)) = k
      /\ \A i \in 1 .. k : SubSeq(t, 1, k)[i] = t[i]
  BY <1>1, PrefixFacts
<1>3. /\ SubSeq(t, 1, k - 1) \in Seq(S) /\ Len(SubSeq(t, 1, k - 1)) = k - 1
      /\ \A i \in 1 .. k - 1 : SubSeq(t, 1, k - 1)[i] = t[i]
  BY <1>1, PrefixFacts
<1> DEFINE a == Append(SubSeq(t, 1, k - 1), t[k])
<1>4. /\ a \in Seq(S) /\ Len(a) = k /\ a[k] = t[k]
      /\ \A i \in 1 .. k - 1 : a[i] = t[i]
  BY <1>1, <1>3, AppendFacts
<1> HIDE DEF a
<1>5. \A i \in 1 .. k : a[i] = SubSeq(t, 1, k)[i]
  BY <1>1, <1>2, <1>4
<1>6. a = SubSeq(t, 1, k)
  BY <1>2, <1>4, <1>5, SeqEqual
<1> QED  BY <1>6 DEF a

\* full_cmac does not fail on what has been authenticated before.
LEMMA CmacAgain ==
  ASSUME NEW c \in Chain, c.seed.len = KEY_LEN,
         NEW key, key.len = KEY_LEN, NEW tag, NEW data,
         FinalLength(data) \in 0 .. MAX_FINAL_LENGTH
  PROVE  FullCmac(key, c, tag, FinalLength(data), data)
           = Ok([seed |-> c.seed, log |-> Append(c.log, MacEntry(key, tag, FinalLength(data), data))])
<1>1. ChainLen(c) = KEY_LEN
  BY DEF ChainLen
<1>2. ~(FinalLength(data) > MAX_FINAL_LENGTH)
  <2>1. MAX_FINAL_LENGTH \in Nat
    BY SMTT(40) DEF MAX_FINAL_LENGTH
  <2> QED  BY <2>1
<1>3. c = [seed |-> c.seed, log |-> c.log]
  BY DEF Chain
<1> DEFINE l == Append(c.log, MacEntry(key, tag, FinalLength(data), data))
<1> HIDE DEF l
<1>4. [c EXCEPT !.log = l] = [seed |-> c.seed, log |-> l]
  BY <1>3
<1> QED  BY <1>1, <1>2, <1>4 DEF FullCmac, l

\* The card's chain and the host's next TLV fit: authenticating the TLV leads
\* from the one to the other's C-MAC.
LEMMA NextTlvFits ==
  ASSUME IInv, Sealed, hostInput = cardInput, Len(delivered) + 1 <= Len(wire)
  PROVE  LET k   == Len(delivered) + 1
             tlv == wire[k]
         IN  /\ k \in 1 .. Len(wire)
             /\ FullCmac(CardKeys.s_mac, cardChain, tlv.tag, FinalLength(tlv.data), tlv.data)
                  = Ok(tlv.cmac)
             /\ Carries(tlv.data, sent[k]) /\ sent[k] \in Payload
             /\ CardKeys = HostKeys /\ CardKeys.s_enc.len = BLOCK_LEN
<1> DEFINE k == Len(delivered) + 1
           tlv == wire[k]
           e == EntryOf(HostKeys, tlv)
<1>1. /\ hostChain.log \in Seq(Entry) /\ cardChain.log \in Seq(Entry) /\ cardChain \in Chain
      /\ wire \in Seq(Tlv) /\ sent \in Seq(Payload) /\ Len(delivered) \in Nat
      /\ Len(delivered) = Len(cardChain.log) /\ Len(wire) = Len(hostChain.log)
      /\ Len(sent) = Len(wire)
  BY DEF IInv, TypeOK, WireMatchesChain, Chain
<1>2. k \in 1 .. Len(wire) /\ Len(cardChain.log) = k - 1
  BY <1>1
<1>3. CardKeys = HostKeys
  BY DEF CardKeys, HostKeys
<1>4. IsWellFormed(HostKeys)
  <2>1. hostInput \in DeriveArguments(Secret) /\ Derive(hostInput).ok
    BY InputAssumption DEF IInv, TypeOK
  <2>2. wire # <<>>
    BY <1>1, <1>2
  <2> QED  BY <2>1, <2>2, KeysCutApart DEF Sealed, HostKeys
<1>5. tlv \in Tlv /\ sent[k] \in Payload
  BY <1>1, <1>2
<1>6. /\ tlv.cmac.log = SubSeq(hostChain.log, 1, k)
      /\ hostChain.log[k] = e /\ e \in Entry
      /\ tlv.cmac.seed = cardChain.seed /\ Carries(tlv.data, sent[k])
  BY <1>1, <1>2, <1>3 DEF IInv, WireMatchesChain, Sealed
<1>7. FinalLength(tlv.data) \in 0 .. MAX_FINAL_LENGTH
  BY <1>6 DEF EntryOf, MacEntry, Entry
<1>8. cardChain.seed.len = KEY_LEN /\ HostKeys.s_mac.len = KEY_LEN
      /\ HostKeys.s_enc.len = BLOCK_LEN
  BY <1>3, <1>4 DEF IsWellFormed, Sealed, KEY_LEN, BLOCK_LEN
<1> HIDE DEF tlv
<1>9. FullCmac(CardKeys.s_mac, cardChain, tlv.tag, FinalLength(tlv.data), tlv.data)
        = Ok([seed |-> cardChain.seed, log |-> Append(cardChain.log, e)])
  BY <1>1, <1>3, <1>7, <1>8, CmacAgain DEF EntryOf
<1> HIDE DEF k, e
<1>10. Append(cardChain.log, e) = SubSeq(hostChain.log, 1, k)
  <2>1. cardChain.log = SubSeq(hostChain.log, 1, k - 1)
    BY <1>2 DEF IInv, AcceptedIsPrefix, IsPrefixOf
  <2>2. k \in 1 .. Len(hostChain.log) /\ k \in Nat
    BY <1>1, <1>2
  <2> QED  BY <1>1, <1>6, <2>1, <2>2, CutGrows
<1>11. tlv.cmac = [seed |-> cardChain.seed, log |-> Append(cardChain.log, e)]
  BY <1>5, <1>6, <1>10 DEF Tlv, Chain
<1> QED  BY <1>2, <1>3, <1>5, <1>6, <1>8, <1>9, <1>11 DEF k, tlv

\* A call with one outcome returns one result.
LEMMA OneResult ==
  ASSUME NEW r, NEW c
  PROVE  {o.res : o \in {Returns(r, c)}} = {r}
<1>1. Returns(r, c).res = r
  BY DEF Returns
<1> QED  BY <1>1

\* In every state the card can get into, the first block that it has not been
\* given yet still unwraps to what the host put in it.
THEOREM Recovers == Spec => []NextBlockAccepted
<1>1. ASSUME IInv, Sealed PROVE NextBlockAccepted
  <2> SUFFICES ASSUME hostInput = cardInput, Len(delivered) + 1 <= Len(wire)
               PROVE  LET k == Len(delivered) + 1
                      IN  {o.res : o \in IF wire[k].data.enc
                             THEN UnwrapEncrypt(CardKeys, wire[k], wire[k].data.number, cardChain)
                             ELSE UnwrapMacOnly(CardKeys, wire[k], cardChain)}
                            = {Ok(sent[k])}
    BY DEF NextBlockAccepted
  <2> DEFINE k == Len(delivered) + 1
             tlv == wire[k]
             full == FullCmac(CardKeys.s_mac, cardChain, tlv.tag, FinalLength(tlv.data), tlv.data)
  <2>1. /\ full = Ok(tlv.cmac) /\ sent[k] \in Payload
        /\ CardKeys = HostKeys /\ CardKeys.s_enc.len = BLOCK_LEN
        /\ Carries(tlv.data, sent[k])
    BY <1>1, NextTlvFits
  <2>2. full.ok /\ full.val = tlv.cmac
    BY <2>1 DEF Ok
  <2> HIDE DEF k
  <2>3. CASE tlv.data = Clear(sent[k])
    <3>1. ~tlv.data.enc /\ tlv.data.plain = sent[k]
      BY <2>3 DEF Clear
    <3>2. UnwrapMacOnly(CardKeys, tlv, cardChain) = {Returns(Ok(sent[k]), full.val)}
      BY <2>2, <3>1 DEF UnwrapMacOnly
    <3>3. {o.res : o \in {Returns(Ok(sent[k]), full.val)}} = {Ok(sent[k])}
      BY OneResult
    <3> QED  BY <3>1, <3>2, <3>3 DEF k
  <2>4. ASSUME NEW n \in Nat, tlv.data = Ciphered(CardKeys.s_enc, n, sent[k])
        PROVE  {o.res : o \in UnwrapEncrypt(CardKeys, tlv, tlv.data.number, cardChain)} = {Ok(sent[k])}
               /\ tlv.data.enc
    <3>1. tlv.data.enc /\ tlv.data.number = n
      BY <2>4 DEF Ciphered
    <3>2. Decrypt(CardKeys.s_enc, tlv.data, tlv.data.number) = {Ok(sent[k])}
      BY <2>1, <2>4, <3>1, DecryptsToPayload
    <3>3. UnwrapEncrypt(CardKeys, tlv, tlv.data.number, cardChain)
            = {Returns(Ok(sent[k]), full.val)}
      BY <2>2, <3>2 DEF UnwrapEncrypt, Ok
    <3>4. {o.res : o \in {Returns(Ok(sent[k]), full.val)}} = {Ok(sent[k])}
      BY OneResult
    <3> QED  BY <3>1, <3>3, <3>4
  <2> QED  BY <2>1, <2>3, <2>4 DEF Carries, k
<1> QED  BY <1>1, InvariantHolds, AlwaysSealed, PTL
=============================================================================
