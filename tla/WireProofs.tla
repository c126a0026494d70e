----------------------------- MODULE WireProofs -----------------------------
(***************************************************************************)
(* The header of a TLV delimits itself, for every range of bytes and every *)
(* length: what follows it can be anything. The reader returns what was    *)
(* written once all of it has arrived and nothing before, and a receiver   *)
(* that cuts the stream there gets what was sent, in order.                *)
(***************************************************************************)
EXTENDS WireStream, SequenceTheorems, WellFoundedInduction, TLAPS

\* Two sequences that agree up to a common length agree after it.
LEMMA Cancel ==
  ASSUME NEW S, NEW a \in Seq(S), NEW b \in Seq(S), NEW x \in Seq(S), NEW y \in Seq(S),
         a \o x = b \o y, Len(a) = Len(b)
  PROVE  a = b /\ x = y
<1>1. /\ Len(a \o x) = Len(a) + Len(x) /\ Len(b \o y) = Len(b) + Len(y)
      /\ \A i \in 1 .. Len(a) + Len(x) :
           (a \o x)[i] = IF i <= Len(a) THEN a[i] ELSE x[i - Len(a)]
      /\ \A i \in 1 .. Len(b) + Len(y) :
           (b \o y)[i] = IF i <= Len(b) THEN b[i] ELSE y[i - Len(b)]
  BY ConcatProperties
<1>2. Len(x) = Len(y)
  BY <1>1
<1>3. ASSUME NEW i \in 1 .. Len(a) PROVE a[i] = b[i]
  <2>1. i \in 1 .. Len(a) + Len(x) /\ i \in 1 .. Len(b) + Len(y) /\ i <= Len(a)
    OBVIOUS
  <2> QED  BY <1>1, <2>1
<1>4. ASSUME NEW i \in 1 .. Len(x) PROVE x[i] = y[i]
  <2>1. /\ Len(a) + i \in 1 .. Len(a) + Len(x)
        /\ Len(b) + i \in 1 .. Len(b) + Len(y)
        /\ ~(Len(a) + i <= Len(a)) /\ (Len(a) + i) - Len(a) = i
    BY <1>2
  <2> QED  BY <1>1, <2>1
<1> QED  BY <1>2, <1>3, <1>4, SeqEqual

LEMMA SameStart ==
  ASSUME NEW S, NEW a \in Seq(S), NEW b \in Seq(S), NEW x \in Seq(S), NEW y \in Seq(S),
         a \o x = b \o y, Len(a) >= 1, Len(b) >= 1
  PROVE  a[1] = b[1]
<1>1. 1 \in 1 .. Len(a) + Len(x) /\ 1 \in 1 .. Len(b) + Len(y)
  OBVIOUS
<1>2. (a \o x)[1] = a[1] /\ (b \o y)[1] = b[1]
  BY <1>1, ConcatProperties
<1> QED  BY <1>2

LEMMA BaseFacts ==
  /\ Base \in Nat /\ Base >= 8
  /\ High \in Nat /\ Base = High + High
  /\ MaxCarried \in Nat
<1>1. \A b \in Nat : b % 2 = 0 => b \div 2 \in Nat /\ b = (b \div 2) + (b \div 2)
  OBVIOUS
<1>2. Base * Base \in Nat /\ Base * Base >= 1
  <2>1. \A b \in Nat : b >= 8 => b * b \in Nat /\ b * b >= 1
    OBVIOUS
  <2> QED  BY <2>1, BaseAssumption
<1> QED  BY <1>1, <1>2, BaseAssumption DEF High, MaxCarried

\* A number below Base * Base is told by its two digits.
LEMMA Digits ==
  ASSUME NEW n \in Nat
  PROVE  /\ n \div Base \in Nat
         /\ n % Base \in Octet
         /\ n = Base * (n \div Base) + (n % Base)
         /\ n <= MaxCarried => n \div Base \in Octet
<1>1. \A b \in Nat \ {0} : /\ n \div b \in Nat
                           /\ n % b \in 0 .. b - 1
                           /\ n = b * (n \div b) + (n % b)
  OBVIOUS
<1>2. /\ n \div Base \in Nat /\ n % Base \in 0 .. Base - 1
      /\ n = Base * (n \div Base) + (n % Base)
  <2>1. Base \in Nat \ {0}  BY BaseFacts
  <2> QED  BY <1>1, <2>1
<1>3. ASSUME n <= MaxCarried PROVE n \div Base <= Base - 1
  <2>1. \A b, q, r \in Nat : q >= b /\ b >= 8 => b * q + r >= b * b
    OBVIOUS
  <2>2. PICK q \in Nat, r \in Nat : q = n \div Base /\ r = n % Base
    BY <1>2
  <2>3. n = Base * q + r
    BY <1>2, <2>2
  <2>4. q >= Base => n >= Base * Base
    BY <2>1, <2>3, BaseFacts
  <2>5. ~(n >= Base * Base)
    BY <1>3, BaseFacts DEF MaxCarried
  <2> QED  BY <2>2, <2>4, <2>5, BaseFacts
<1> QED  BY <1>2, <1>3, BaseFacts DEF Octet

LEMMA SameDigits ==
  ASSUME NEW m \in Nat, NEW n \in Nat,
         m \div Base = n \div Base, m % Base = n % Base
  PROVE  m = n
BY Digits

-----------------------------------------------------------------------------
(* Tags *)

\* The octets of a proper tag.
SpellsTag(s, t) ==
  /\ s \in Seq(Octet)
  /\ \/ Len(s) = 1 /\ s[1] = t /\ ~Continues(s[1])
     \/ Len(s) = 2 /\ s[1] = t \div Base /\ s[2] = t % Base /\ Continues(s[1])

LEMMA ProperTagOctets ==
  ASSUME NEW t, IsProperTag(t)
  PROVE  t \in Nat /\ SpellsTag(EncodedTag(t), t)
<1>1. CASE t \in Octet /\ ~Continues(t)
  <2>1. t \in Nat /\ t < Base
    BY <1>1, BaseFacts DEF Octet
  <2>2. EncodedTag(t) = <<t>>
    BY <2>1, BaseFacts DEF EncodedTag
  <2>3. SpellsTag(<<t>>, t)
    BY <1>1 DEF SpellsTag
  <2> QED  BY <2>1, <2>2, <2>3
<1>2. CASE t \in Base .. MaxCarried /\ Continues(t \div Base)
  <2>1. t \in Nat /\ t >= Base /\ t <= MaxCarried
    BY <1>2, BaseFacts
  <2>2. EncodedTag(t) = <<t \div Base, t % Base>>
    BY <2>1, BaseFacts DEF EncodedTag
  <2>3. t \div Base \in Octet /\ t % Base \in Octet
    BY <2>1, Digits
  <2>4. SpellsTag(<<t \div Base, t % Base>>, t)
    <3>1. PICK q \in Octet, r \in Octet : q = t \div Base /\ r = t % Base
      BY <2>3
    <3> QED  BY <1>2, <3>1 DEF SpellsTag
  <2> QED  BY <2>1, <2>2, <2>4
<1> QED  BY <1>1, <1>2 DEF IsProperTag

\* The first octet of a proper tag says whether it has a second.
LEMMA TagDelimits ==
  ASSUME NEW t, IsProperTag(t), NEW u, IsProperTag(u),
         NEW x \in Seq(Octet), NEW y \in Seq(Octet),
         EncodedTag(t) \o x = EncodedTag(u) \o y
  PROVE  t = u /\ x = y
<1> DEFINE a == EncodedTag(t)
           b == EncodedTag(u)
<1>1. /\ t \in Nat /\ SpellsTag(a, t)
      /\ u \in Nat /\ SpellsTag(b, u)
      /\ a \o x = b \o y
  BY ProperTagOctets
<1> HIDE DEF a, b
<1>2. a \in Seq(Octet) /\ b \in Seq(Octet) /\ Len(a) >= 1 /\ Len(b) >= 1
  BY <1>1 DEF SpellsTag
<1>3. a[1] = b[1]
  BY <1>1, <1>2, SameStart
<1>4. Len(a) = Len(b)
  BY <1>1, <1>3 DEF SpellsTag
<1>5. a = b /\ x = y
  BY <1>1, <1>2, <1>4, Cancel
<1>6. t = u
  <2>1. CASE Len(a) = 1
    BY <1>1, <1>5, <2>1 DEF SpellsTag
  <2>2. CASE Len(a) = 2
    <3>1. t \div Base = u \div Base /\ t % Base = u % Base
      BY <1>1, <1>5, <2>2 DEF SpellsTag
    <3> QED  BY <1>1, <3>1, SameDigits
  <2> QED  BY <1>1, <2>1, <2>2 DEF SpellsTag
<1> QED  BY <1>5, <1>6

-----------------------------------------------------------------------------
(* Lengths *)

\* The octets of a length.
SpellsLength(s, n) ==
  /\ s \in Seq(Octet)
  /\ \/ Len(s) = 1 /\ s[1] = n /\ s[1] < High
     \/ Len(s) = 2 /\ s[1] = High + 1 /\ s[2] = n
     \/ Len(s) = 3 /\ s[1] = High + 2 /\ s[2] = n \div Base /\ s[3] = n % Base

LEMMA LengthOctets ==
  ASSUME NEW n \in 0 .. MaxCarried
  PROVE  SpellsLength(DerLength(n), n)
<1>1. n \in Nat /\ n <= MaxCarried
  BY BaseFacts
<1>2. High + 1 \in Octet /\ High + 2 \in Octet
  BY BaseFacts DEF Octet
<1>3. n < Base => n \in Octet
  BY <1>1, BaseFacts DEF Octet
<1>4. n \div Base \in Octet /\ n % Base \in Octet
  BY <1>1, Digits
<1>5. (n \div Base) % Base = n \div Base
  <2>1. \A b \in Nat \ {0} : \A q \in 0 .. b - 1 : q % b = q
    OBVIOUS
  <2> QED  BY <1>4, <2>1, BaseFacts DEF Octet
<1>6. CASE n < High
  <2>1. DerLength(n) = <<n>>
    BY <1>6 DEF DerLength
  <2>2. n \in Octet
    BY <1>1, <1>3, <1>6, BaseFacts
  <2>3. SpellsLength(<<n>>, n)
    BY <1>6, <2>2 DEF SpellsLength
  <2> QED  BY <2>1, <2>3
<1>7. CASE n >= High /\ n < Base
  <2>1. DerLength(n) = <<High + 1, n>>
    BY <1>1, <1>7, BaseFacts DEF DerLength
  <2>2. SpellsLength(<<High + 1, n>>, n)
    BY <1>2, <1>3, <1>7 DEF SpellsLength
  <2> QED  BY <2>1, <2>2
<1>8. CASE n >= Base
  <2>1. DerLength(n) = <<High + 2, n \div Base, n % Base>>
    BY <1>1, <1>5, <1>8, BaseFacts DEF DerLength
  <2>2. PICK q \in Octet, r \in Octet : q = n \div Base /\ r = n % Base
    BY <1>4
  <2>3. SpellsLength(<<High + 2, q, r>>, n)
    BY <1>2, <2>2 DEF SpellsLength
  <2> QED  BY <2>1, <2>2, <2>3
<1> QED  BY <1>1, <1>6, <1>7, <1>8, BaseFacts

\* The first octet of a length says how many there are.
LEMMA LengthDelimits ==
  ASSUME NEW m \in 0 .. MaxCarried, NEW n \in 0 .. MaxCarried,
         NEW x \in Seq(Octet), NEW y \in Seq(Octet),
         DerLength(m) \o x = DerLength(n) \o y
  PROVE  m = n /\ x = y
<1> DEFINE a == DerLength(m)
           b == DerLength(n)
<1>1. /\ m \in Nat /\ SpellsLength(a, m)
      /\ n \in Nat /\ SpellsLength(b, n)
      /\ a \o x = b \o y
  BY LengthOctets, BaseFacts
<1> HIDE DEF a, b
<1>2. a \in Seq(Octet) /\ b \in Seq(Octet) /\ Len(a) >= 1 /\ Len(b) >= 1
  BY <1>1 DEF SpellsLength
<1>3. a[1] = b[1]
  BY <1>1, <1>2, SameStart
<1>4. Len(a) = Len(b)
  BY <1>1, <1>3, BaseFacts, SMTT(30) DEF SpellsLength
<1>5. a = b /\ x = y
  BY <1>1, <1>2, <1>4, Cancel
<1>6. m = n
  <2>1. CASE Len(a) = 1
    BY <1>1, <1>5, <2>1 DEF SpellsLength
  <2>2. CASE Len(a) = 2
    BY <1>1, <1>5, <2>2 DEF SpellsLength
  <2>3. CASE Len(a) = 3
    <3>1. m \div Base = n \div Base /\ m % Base = n % Base
      BY <1>1, <1>5, <2>3 DEF SpellsLength
    <3> QED  BY <1>1, <3>1, SameDigits
  <2> QED  BY <1>1, <2>1, <2>2, <2>3 DEF SpellsLength
<1> QED  BY <1>5, <1>6

-----------------------------------------------------------------------------

Header(tag, len) == EncodedTag(tag) \o DerLength(len)

LEMMA HeaderOctets ==
  ASSUME NEW t, IsProperTag(t), NEW n \in 0 .. MaxCarried
  PROVE  Header(t, n) \in Seq(Octet)
<1>1. EncodedTag(t) \in Seq(Octet)
  BY ProperTagOctets DEF SpellsTag
<1>2. DerLength(n) \in Seq(Octet)
  BY LengthOctets DEF SpellsLength
<1> QED  BY <1>1, <1>2, ConcatProperties DEF Header

LEMMA HeaderDelimits ==
  ASSUME NEW t, IsProperTag(t), NEW u, IsProperTag(u),
         NEW m \in 0 .. MaxCarried, NEW n \in 0 .. MaxCarried,
         NEW x \in Seq(Octet), NEW y \in Seq(Octet)
  PROVE  Header(t, m) \o x = Header(u, n) \o y => t = u /\ m = n
<1> DEFINE a == EncodedTag(t)
           b == EncodedTag(u)
           c == DerLength(m)
           d == DerLength(n)
<1>1. a \in Seq(Octet) /\ b \in Seq(Octet) /\ c \in Seq(Octet) /\ d \in Seq(Octet)
  BY ProperTagOctets, LengthOctets DEF SpellsTag, SpellsLength
<1>2. c \o x \in Seq(Octet) /\ d \o y \in Seq(Octet)
  <2> HIDE DEF a, b, c, d
  <2> QED  BY <1>1, ConcatProperties
<1>3. \A v \in Seq(Octet) : \A w \in Seq(Octet) : a \o v = b \o w => t = u /\ v = w
  BY TagDelimits
<1>4. c \o x = d \o y => m = n /\ x = y
  BY LengthDelimits, ZenonT(60)
<1> HIDE DEF a, b, c, d
<1>5. a \o c \o x = a \o (c \o x)
  BY <1>1, SMTT(30)
<1>6. b \o d \o y = b \o (d \o y)
  BY <1>1, SMTT(40)
<1>7. ASSUME a \o c \o x = b \o d \o y
      PROVE  t = u /\ m = n
  <2>1. a \o (c \o x) = b \o (d \o y)
    BY <1>5, <1>6, <1>7
  <2>2. t = u /\ c \o x = d \o y
    BY <1>2, <1>3, <2>1
  <2> QED  BY <1>4, <2>2
<1> QED  BY <1>7 DEF a, b, c, d, Header

LEMMA RestFollows ==
  ASSUME NEW t, IsProperTag(t), NEW u, IsProperTag(u),
         NEW m \in 0 .. MaxCarried, NEW n \in 0 .. MaxCarried,
         NEW x \in Seq(Octet), NEW y \in Seq(Octet)
  PROVE  Header(t, m) \o x = Header(u, n) \o y => x = y
<1> DEFINE h == Header(t, m)
<1>1. h \in Seq(Octet)
  BY HeaderOctets
<1>2. Header(t, m) \o x = Header(u, n) \o y => t = u /\ m = n
  BY HeaderDelimits
<1>3. t = u /\ m = n => Header(u, n) = h
  OBVIOUS
<1>4. Header(t, m) = h
  OBVIOUS
<1> HIDE DEF h
<1>5. h \o x = h \o y => x = y
  BY <1>1, Cancel
<1> QED  BY <1>2, <1>3, <1>4, <1>5

\* No encoding is the beginning of another, nor are two the same: a stream of
\* TLVs can be cut into TLVs in one way only (wire.rs 40-45, bsp.rs 280-285).
THEOREM UniquelyDecodable ==
  ASSUME NEW t, IsProperTag(t), NEW u, IsProperTag(u),
         NEW v \in Seq(Octet), NEW w \in Seq(Octet),
         Len(v) <= MaxCarried, Len(w) <= MaxCarried,
         NEW x \in Seq(Octet), NEW y \in Seq(Octet)
  PROVE  EncodeRawTlv(t, v) \o x = EncodeRawTlv(u, w) \o y
           => t = u /\ v = w /\ x = y
<1> DEFINE h == Header(t, Len(v))
           k == Header(u, Len(w))
<1>1. Len(v) \in 0 .. MaxCarried /\ Len(w) \in 0 .. MaxCarried
  BY BaseFacts
<1>2. h \in Seq(Octet) /\ k \in Seq(Octet)
  BY <1>1, HeaderOctets
<1>3. EncodeRawTlv(t, v) = h \o v /\ EncodeRawTlv(u, w) = k \o w
  BY DEF EncodeRawTlv, Header
<1>4. v \o x \in Seq(Octet) /\ w \o y \in Seq(Octet)
  BY ConcatProperties
<1>5. ASSUME NEW z \in Seq(Octet), NEW q \in Seq(Octet)
      PROVE  h \o z = k \o q => t = u /\ Len(v) = Len(w) /\ z = q
  <2>1. h \o z = k \o q => t = u /\ Len(v) = Len(w)
    BY <1>1, HeaderDelimits
  <2>2. h \o z = k \o q => z = q
    BY <1>1, RestFollows
  <2> QED  BY <2>1, <2>2
<1> HIDE DEF h, k
<1>6. h \o v \o x = h \o (v \o x)
  BY <1>2
<1>7. k \o w \o y = k \o (w \o y)
  BY <1>2
<1>8. v \o x = w \o y /\ Len(v) = Len(w) => v = w /\ x = y
  BY Cancel
<1>9. ASSUME EncodeRawTlv(t, v) \o x = EncodeRawTlv(u, w) \o y
      PROVE  t = u /\ v = w /\ x = y
  <2>1. h \o (v \o x) = k \o (w \o y)
    BY <1>3, <1>6, <1>7, <1>9
  <2>2. t = u /\ Len(v) = Len(w) /\ v \o x = w \o y
    BY <1>4, <1>5, <2>1
  <2> QED  BY <1>8, <2>2
<1> QED  BY <1>9

LEMMA MacInputOctets ==
  ASSUME NEW t, NEW m \in Nat, NEW d
  PROVE  /\ MacInput(t, m, d).ok <=> m <= MaxCarried
         /\ m <= MaxCarried => MacInput(t, m, d).val = Header(t, m) \o d
<1>1. MaxCarried \in Nat
  BY BaseFacts
<1>2. CASE m <= MaxCarried
  <2>1. EncodedLength(m) = Ok(DerLength(m))
    BY <1>1, <1>2 DEF EncodedLength
  <2>2. MacInput(t, m, d) = Ok(Header(t, m) \o d)
    BY <2>1 DEF MacInput, Ok, Header
  <2> QED  BY <1>2, <2>2 DEF Ok
<1>3. CASE m > MaxCarried
  <2>1. EncodedLength(m) = Err("Malformed")
    BY <1>3 DEF EncodedLength
  <2>2. MacInput(t, m, d) = Err("Malformed")
    BY <2>1 DEF MacInput, Err
  <2> QED  BY <1>1, <1>3, <2>2 DEF Err
<1> QED  BY <1>1, <1>2, <1>3

\* The C-MAC covers one tag, one length and one field, and no other combination
\* of them spells the same octets (bsp.rs 245-250).
THEOREM MacInputInjective ==
  ASSUME NEW t, IsProperTag(t), NEW u, IsProperTag(u),
         NEW m \in Nat, NEW n \in Nat,
         NEW d \in Seq(Octet), NEW e \in Seq(Octet)
  PROVE  MacInput(t, m, d).ok /\ MacInput(t, m, d) = MacInput(u, n, e)
           => t = u /\ m = n /\ d = e
<1>1. ASSUME m \in 0 .. MaxCarried, n \in 0 .. MaxCarried
      PROVE  Header(t, m) \o d = Header(u, n) \o e
               => t = u /\ m = n /\ d = e
  <2>1. Header(t, m) \o d = Header(u, n) \o e => t = u /\ m = n
    BY <1>1, HeaderDelimits
  <2>2. Header(t, m) \o d = Header(u, n) \o e => d = e
    BY <1>1, RestFollows
  <2> QED  BY <2>1, <2>2
<1>2. ASSUME MacInput(t, m, d).ok, MacInput(t, m, d) = MacInput(u, n, e)
      PROVE  /\ m \in 0 .. MaxCarried /\ n \in 0 .. MaxCarried
             /\ Header(t, m) \o d = Header(u, n) \o e
  <2>1. MacInput(t, m, d).ok /\ MacInput(u, n, e).ok
    BY <1>2
  <2>2. MacInput(t, m, d).val = MacInput(u, n, e).val
    BY <1>2
  <2>3. m <= MaxCarried /\ n <= MaxCarried
    BY <2>1, MacInputOctets
  <2>4. MacInput(t, m, d).val = Header(t, m) \o d
    BY <2>3, MacInputOctets
  <2>5. MacInput(u, n, e).val = Header(u, n) \o e
    BY <2>3, MacInputOctets
  <2>6. m \in 0 .. MaxCarried /\ n \in 0 .. MaxCarried
    BY <2>3, BaseFacts
  <2> QED  BY <2>2, <2>4, <2>5, <2>6
<1> QED  BY <1>1, <1>2

-----------------------------------------------------------------------------
(* The stream *)

Item == {Protected(t) : t \in Tlvs} \cup {Signature(r) : r \in Raws}

\* Everything on the stream is one of the TLVs and signatures in use.
SentKnown == sent \in Seq(Item)

LEMMA PutKnown ==
  ASSUME SentKnown, NEW item \in Item, NEW bytes, Put(item, bytes)
  PROVE  SentKnown'
<1>1. sent' = Append(sent, item)
  BY DEF Put
<1> QED  BY <1>1 DEF SentKnown

LEMMA AlwaysKnown == Spec => []SentKnown
<1>1. Init => SentKnown
  BY DEF Init, SentKnown
<1>2. ASSUME SentKnown, [Next]_vars PROVE SentKnown'
  <2>1. CASE \E tlv \in Tlvs : SendProtected(tlv) \/ SendLongForm(tlv)
    <3>1. PICK tlv \in Tlvs : \E bytes : Put(Protected(tlv), bytes)
      BY <2>1 DEF SendProtected, SendLongForm
    <3>2. PICK bytes : Put(Protected(tlv), bytes)
      BY <3>1
    <3>3. Protected(tlv) \in Item
      BY DEF Item
    <3> QED  BY <1>2, <3>2, <3>3, PutKnown
  <2>2. CASE \E raw \in Raws : SendSignature(raw)
    <3>1. PICK raw \in Raws : \E bytes : Put(Signature(raw), bytes)
      BY <2>2 DEF SendSignature
    <3>2. PICK bytes : Put(Signature(raw), bytes)
      BY <3>1
    <3>3. Signature(raw) \in Item
      BY DEF Item
    <3> QED  BY <1>2, <3>2, <3>3, PutKnown
  <2>3. CASE \E n \in 1 .. Len(inFlight) : Arrive(n)
    BY <1>2, <2>3 DEF Arrive, SentKnown
  <2>4. CASE Receive
    BY <1>2, <2>4 DEF Receive, ReceiveProtected, ReceiveSignature, Take, SentKnown
  <2>5. CASE UNCHANGED vars
    BY <1>2, <2>5 DEF vars, SentKnown
  <2> QED  BY <1>2, <2>1, <2>2, <2>3, <2>4, <2>5 DEF Next
<1> QED  BY <1>1, <1>2, PTL DEF Spec

LEMMA TlvMacInput ==
  ASSUME NEW t \in Tlvs, NEW u \in Tlvs
  PROVE  MacInputOf(t) = MacInputOf(u) => t.tag = u.tag /\ t.data = u.data
<1> DEFINE m == Len(t.data) + CMAC_LEN
           n == Len(u.data) + CMAC_LEN
<1>1. /\ IsProperTag(t.tag) /\ IsProperTag(u.tag)
      /\ t.data \in Seq(Octet) /\ u.data \in Seq(Octet)
      /\ m <= MaxCarried /\ n <= MaxCarried
  BY TlvAssumption
<1>2. m \in Nat /\ n \in Nat
  BY <1>1, CmacAssumption
<1>3. MacInputOf(t) = MacInput(t.tag, m, t.data) /\ MacInputOf(u) = MacInput(u.tag, n, u.data)
  BY DEF MacInputOf
<1> HIDE DEF m, n
<1>4. MacInput(t.tag, m, t.data).ok
  BY <1>1, <1>2, MacInputOctets
<1>5. MacInput(t.tag, m, t.data) = MacInput(u.tag, n, u.data)
        => t.tag = u.tag /\ m = n /\ t.data = u.data
  BY <1>1, <1>2, <1>4, MacInputInjective
<1> QED  BY <1>3, <1>5

\* However many TLVs are sent, under whatever proper tags and of whatever
\* lengths, no two feed the same octets to the MAC (bsp.rs 245-250).
THEOREM MacInputsUnambiguous == Spec => []MacInputsDiffer
<1>1. ASSUME SentKnown PROVE MacInputsDiffer
  <2>1. ASSUME NEW i \in DOMAIN sent, sent[i].kind = "protected"
        PROVE  sent[i].tlv \in Tlvs
    <3>1. sent[i] \in Item
      BY <1>1 DEF SentKnown
    <3> QED  BY <2>1, <3>1 DEF Item, Protected, Signature
  <2> QED  BY <2>1, TlvMacInput DEF MacInputsDiffer
<1> QED  BY <1>1, AlwaysKnown, PTL

\* The greatest of one and of two positions.
LEMMA MaxOfTwo ==
  Max({1}) = 1 /\ Max({2}) = 2 /\ Max({1, 2}) = 2
<1>1. \A m \in {1, 2} : Max({m}) = m
  BY DEF Max
<1>2. Max({1, 2}) = 2
  <2>1. \A x \in {1, 2} : (\A y \in {1, 2} : x >= y) <=> x = 2
    OBVIOUS
  <2>2. \E x \in {1, 2} : \A y \in {1, 2} : x >= y
    BY <2>1
  <2>3. Max({1, 2}) \in {1, 2} /\ \A y \in {1, 2} : Max({1, 2}) >= y
    BY <2>2 DEF Max
  <2> QED  BY <2>1, <2>3
<1> QED  BY <1>1, <1>2

\* The recursion behind the fold of BigEndian.
FoldsOver(positions, s, f) ==
  f = [d \in SUBSET positions |->
         IF d = {} THEN 0 ELSE Base * f[d \ {Max(d)}] + s[Max(d)]]

\* BigEndian over one or two octets is that recursion over their positions.
LEMMA BigEndianFolds ==
  ASSUME NEW s, NEW f, FoldsOver(DOMAIN s, s, f)
  PROVE  \E g : FoldsOver(DOMAIN s, s, g) /\ BigEndian(s) = g[DOMAIN s]
<1> DEFINE iter[d \in SUBSET DOMAIN s] ==
             IF d = {} THEN 0 ELSE LET x == Max(d) IN Base * iter[d \ {x}] + s[x]
           Over(g) == g = [d \in SUBSET DOMAIN s |->
                            IF d = {} THEN 0 ELSE LET x == Max(d) IN Base * g[d \ {x}] + s[x]]
<1>1. BigEndian(s) = iter[DOMAIN s]
  BY DEF BigEndian, FoldLeft, MapThenFoldSet
<1>2. iter = CHOOSE g : Over(g)
  OBVIOUS
<1>3. \A g : Over(g) <=> FoldsOver(DOMAIN s, s, g)
  BY DEF FoldsOver
<1> HIDE DEF iter, Over
<1>4. Over(f)
  BY <1>3
<1>5. Over(iter)
  BY <1>2, <1>4
<1> QED  BY <1>1, <1>3, <1>5

\* One octet stands for itself (wire.rs 101-104).
LEMMA BigEndianOne ==
  ASSUME NEW s \in Seq(Octet), Len(s) = 1
  PROVE  BigEndian(s) = s[1]
<1>1. DOMAIN s = {1} /\ s[1] \in Nat
  <2>1. DOMAIN s = 1 .. 1 /\ 1 .. 1 = {1}  OBVIOUS
  <2>2. s[1] \in Octet  OBVIOUS
  <2> QED  BY <2>1, <2>2, BaseFacts DEF Octet
<1>2. \A d \in SUBSET {1} : d = {} \/ d = {1}
  OBVIOUS
<1>3. {1} \ {1} = {} /\ {} \in SUBSET {1} /\ {1} \in SUBSET {1} /\ {1} # {}
  OBVIOUS
<1> DEFINE f == [d \in SUBSET {1} |-> IF d = {} THEN 0 ELSE Base * 0 + s[1]]
<1>4. FoldsOver({1}, s, f)
  <2>1. f = [d \in SUBSET {1} |-> f[d]] /\ f[{}] = 0 /\ f[{1}] = Base * 0 + s[1]
    BY <1>3
  <2> HIDE DEF f
  <2>2. ASSUME NEW d \in SUBSET {1}
        PROVE  f[d] = IF d = {} THEN 0 ELSE Base * f[d \ {Max(d)}] + s[Max(d)]
    <3>1. CASE d = {}  BY <2>1, <3>1
    <3>2. CASE d = {1}  BY <1>3, <2>1, <3>2, MaxOfTwo
    <3> QED  BY <1>2, <3>1, <3>2
  <2> QED  BY <2>1, <2>2 DEF FoldsOver
<1>5. PICK g : FoldsOver({1}, s, g) /\ BigEndian(s) = g[{1}]
  BY <1>1, <1>4, BigEndianFolds
<1>6. g[{}] = 0
  BY <1>3, <1>5 DEF FoldsOver
<1>7. g[{1}] = Base * g[{}] + s[1]
  BY <1>3, <1>5, MaxOfTwo DEF FoldsOver
<1> QED  BY <1>1, <1>5, <1>6, <1>7, BaseFacts

\* Two octets, the higher first (wire.rs 101-104).
LEMMA BigEndianTwo ==
  ASSUME NEW s \in Seq(Octet), Len(s) = 2
  PROVE  BigEndian(s) = Base * s[1] + s[2]
<1>1. DOMAIN s = {1, 2} /\ s[1] \in Nat /\ s[2] \in Nat
  <2>1. DOMAIN s = 1 .. 2 /\ 1 .. 2 = {1, 2}  OBVIOUS
  <2>2. s[1] \in Octet /\ s[2] \in Octet  OBVIOUS
  <2> QED  BY <2>1, <2>2, BaseFacts DEF Octet
<1>2. \A d \in SUBSET {1, 2} : d = {} \/ d = {1} \/ d = {2} \/ d = {1, 2}
  OBVIOUS
<1>3. /\ {1} \ {1} = {} /\ {2} \ {2} = {} /\ {1, 2} \ {2} = {1}
      /\ {} \in SUBSET {1, 2} /\ {1} \in SUBSET {1, 2}
      /\ {2} \in SUBSET {1, 2} /\ {1, 2} \in SUBSET {1, 2}
      /\ {1} # {} /\ {2} # {} /\ {1, 2} # {} /\ {1} # {1, 2} /\ {1} # {2} /\ {2} # {1, 2}
  OBVIOUS
<1> DEFINE f == [d \in SUBSET {1, 2} |->
                   IF d = {} THEN 0
                   ELSE IF d = {1} THEN Base * 0 + s[1]
                   ELSE IF d = {2} THEN Base * 0 + s[2]
                   ELSE Base * (Base * 0 + s[1]) + s[2]]
<1>4. f[{}] = 0 /\ f[{1}] = Base * 0 + s[1] /\ f[{2}] = Base * 0 + s[2]
      /\ f[{1, 2}] = Base * (Base * 0 + s[1]) + s[2]
  BY <1>3
<1>5. ASSUME NEW d \in SUBSET {1, 2}
      PROVE  f[d] = IF d = {} THEN 0 ELSE Base * f[d \ {Max(d)}] + s[Max(d)]
  <2> HIDE DEF f
  <2>1. CASE d = {}  BY <1>4, <2>1
  <2>2. CASE d = {1}  BY <1>3, <1>4, <2>2, MaxOfTwo
  <2>3. CASE d = {2}  BY <1>3, <1>4, <2>3, MaxOfTwo
  <2>4. CASE d = {1, 2}
    <3>1. Max(d) = 2 /\ d \ {Max(d)} = {1} /\ d # {}  BY <1>3, <2>4, MaxOfTwo
    <3>2. f[d] = Base * (Base * 0 + s[1]) + s[2]  BY <1>4, <2>4
    <3> QED  BY <1>4, <3>1, <3>2
  <2> QED  BY <1>2, <2>1, <2>2, <2>3, <2>4
<1>6. FoldsOver({1, 2}, s, f)
  <2>1. f = [d \in SUBSET {1, 2} |-> f[d]]
    OBVIOUS
  <2> HIDE DEF f
  <2> QED  BY <1>5, <2>1 DEF FoldsOver
<1>7. PICK g : FoldsOver({1, 2}, s, g) /\ BigEndian(s) = g[{1, 2}]
  BY <1>1, <1>6, BigEndianFolds
<1>8. g[{}] = 0
  BY <1>3, <1>7 DEF FoldsOver
<1>9. g[{1}] = Base * g[{}] + s[1]
  BY <1>3, <1>7, MaxOfTwo, ZenonT(60) DEF FoldsOver
<1>10. g[{1, 2}] = Base * g[{1}] + s[2]
  BY <1>3, <1>7, MaxOfTwo DEF FoldsOver
<1> QED  BY <1>1, <1>7, <1>8, <1>9, <1>10, BaseFacts

-----------------------------------------------------------------------------
(* Reading *)

\* The octets of s that q has, if it has any.
Agrees(q, s) == \A i \in 1 .. Len(s) : i <= Len(q) => q[i] = s[i]

\* What read_length accepts of what it is offered: no leading zero.
SpellsReadable(s, n) == SpellsLength(s, n) /\ (Len(s) > 1 => s[2] # 0)

\* A long form that has arrived in full.
LEMMA ReadLongForm ==
  ASSUME NEW q \in Seq(Octet), NEW c \in 1 .. 2, q[1] = High + c, Len(q) >= 1 + c, q[2] # 0
  PROVE  ReadLength(q) = Ok([len |-> BigEndian(SubSeq(q, 2, 1 + c)), used |-> 1 + c])
<1>1. High \in Nat /\ High >= 4
  BY BaseFacts
<1>2. PICK d : d = q[1] - High
  OBVIOUS
<1>3. d = c
  BY <1>1, <1>2
<1>4. ~(d \in {0, High - 1} \/ d > 4 \/ Len(q) < 1 + d)
  BY <1>1, <1>3
<1>5. q # <<>> /\ ~(q[1] < High)
  BY <1>1
<1>6. ReadLength(q) =
        IF q = <<>> THEN Err("Malformed")
        ELSE IF q[1] < High THEN Ok([len |-> q[1], used |-> 1])
        ELSE IF d \in {0, High - 1} \/ d > 4 \/ Len(q) < 1 + d THEN Err("Malformed")
        ELSE IF q[2] = 0 THEN Err("Malformed")
        ELSE Ok([len |-> BigEndian(SubSeq(q, 2, 1 + d)), used |-> 1 + d])
  BY <1>2, Zenon DEF ReadLength
<1>7. ReadLength(q) = Ok([len |-> BigEndian(SubSeq(q, 2, 1 + d)), used |-> 1 + d])
  BY <1>4, <1>5, <1>6, Zenon
<1> QED  BY <1>3, <1>7, Zenon

\* read_length gives the length as soon as its octets are there, and nothing
\* before (wire.rs 89-110).
LEMMA ReadLengthPartial ==
  ASSUME NEW n \in Nat, NEW s, SpellsReadable(s, n), NEW q \in Seq(Octet), Agrees(q, s)
  PROVE  IF Len(q) >= Len(s)
           THEN ReadLength(q) = Ok([len |-> n, used |-> Len(s)])
           ELSE ~ReadLength(q).ok
<1>1. /\ s \in Seq(Octet) /\ Len(s) \in 1 .. 3
      /\ Len(s) = 1 => s[1] = n /\ s[1] < High
      /\ Len(s) = 2 => s[1] = High + 1 /\ s[2] = n /\ s[2] # 0
      /\ Len(s) = 3 => s[1] = High + 2 /\ s[2] = n \div Base /\ s[3] = n % Base /\ s[2] # 0
  BY DEF SpellsReadable, SpellsLength
<1>2. High \in Nat /\ High >= 4 /\ Base \in Nat
  BY BaseFacts
<1>3. Len(q) \in Nat
  OBVIOUS
<1>4. CASE q = <<>>
  <2>1. ~ReadLength(q).ok
    BY <1>4 DEF ReadLength, Err
  <2>2. ~(Len(q) >= Len(s))
    BY <1>1, <1>4
  <2> QED  BY <2>1, <2>2
<1>5. CASE q # <<>> /\ Len(s) = 1
  <2>1. Len(q) >= 1  BY <1>5
  <2>2. q[1] = n /\ q[1] < High
    BY <1>1, <1>5, <2>1 DEF Agrees
  <2>3. ReadLength(q) = Ok([len |-> n, used |-> 1])
    BY <1>5, <2>2 DEF ReadLength
  <2> QED  BY <1>5, <2>1, <2>3
<1>6. CASE q # <<>> /\ Len(s) = 2
  <2>1. Len(q) >= 1  BY <1>6
  <2>2. q[1] = High + 1
    BY <1>1, <1>6, <2>1 DEF Agrees
  <2>3. q[1] - High = 1 /\ ~(q[1] < High) /\ 1 \notin {0, High - 1} /\ ~(1 > 4)
    BY <1>2, <2>2
  <2>4. CASE Len(q) < 2
    <3>1. ~ReadLength(q).ok
      BY <1>6, <2>3, <2>4 DEF ReadLength, Err
    <3> QED  BY <1>6, <2>4, <3>1
  <2>5. CASE Len(q) >= 2
    <3>1. q[2] = n /\ q[2] # 0
      BY <1>1, <1>6, <2>5 DEF Agrees
    <3>2. /\ SubSeq(q, 2, 1 + 1) \in Seq(Octet) /\ Len(SubSeq(q, 2, 1 + 1)) = 1
          /\ SubSeq(q, 2, 1 + 1)[1] = q[2]
      BY <2>5
    <3>3. BigEndian(SubSeq(q, 2, 1 + 1)) = n
      BY <3>1, <3>2, BigEndianOne
    <3>4. ReadLength(q) = Ok([len |-> n, used |-> 1 + 1])
      <4>1. 1 \in 1 .. 2 /\ Len(q) >= 1 + 1
        BY <2>5
      <4>2. ReadLength(q) = Ok([len |-> BigEndian(SubSeq(q, 2, 1 + 1)), used |-> 1 + 1])
        BY <2>2, <3>1, <4>1, ReadLongForm, Zenon
      <4> QED  BY <3>3, <4>2, Zenon
    <3> QED  BY <1>6, <2>5, <3>4
  <2> QED  BY <1>3, <2>4, <2>5
<1>7. CASE q # <<>> /\ Len(s) = 3
  <2>1. Len(q) >= 1  BY <1>7
  <2>2. q[1] = High + 2
    BY <1>1, <1>7, <2>1 DEF Agrees
  <2>3. q[1] - High = 2 /\ ~(q[1] < High) /\ 2 \notin {0, High - 1} /\ ~(2 > 4)
    BY <1>2, <2>2
  <2>4. CASE Len(q) < 3
    <3>1. ~ReadLength(q).ok
      BY <1>7, <2>3, <2>4 DEF ReadLength, Err
    <3> QED  BY <1>7, <2>4, <3>1
  <2>5. CASE Len(q) >= 3
    <3>1. q[2] = n \div Base /\ q[2] # 0 /\ q[3] = n % Base
      BY <1>1, <1>7, <2>5 DEF Agrees
    <3>2. /\ SubSeq(q, 2, 1 + 2) \in Seq(Octet) /\ Len(SubSeq(q, 2, 1 + 2)) = 2
          /\ SubSeq(q, 2, 1 + 2)[1] = q[2] /\ SubSeq(q, 2, 1 + 2)[2] = q[3]
      BY <2>5
    <3>3. BigEndian(SubSeq(q, 2, 1 + 2)) = n
      <4>1. PICK b \in Seq(Octet) : b = SubSeq(q, 2, 1 + 2) /\ Len(b) = 2 /\ b[1] = q[2] /\ b[2] = q[3]
        BY <3>2
      <4>2. BigEndian(b) = Base * b[1] + b[2]
        BY <4>1, BigEndianTwo
      <4>3. n = Base * (n \div Base) + (n % Base)
        BY Digits
      <4> QED  BY <3>1, <4>1, <4>2, <4>3
    <3>4. ReadLength(q) = Ok([len |-> n, used |-> 1 + 2])
      <4>1. 2 \in 1 .. 2 /\ Len(q) >= 1 + 2
        BY <2>5
      <4>2. ReadLength(q) = Ok([len |-> BigEndian(SubSeq(q, 2, 1 + 2)), used |-> 1 + 2])
        BY <2>2, <3>1, <4>1, ReadLongForm, Zenon
      <4> QED  BY <3>3, <4>2, Zenon
    <3> QED  BY <1>7, <2>5, <3>4
  <2> QED  BY <1>3, <2>4, <2>5
<1> QED  BY <1>1, <1>4, <1>5, <1>6, <1>7

\* n octets that follow m others.
LEMMA Slice ==
  ASSUME NEW q \in Seq(Octet), NEW m \in Nat, NEW n \in Nat, m + n <= Len(q)
  PROVE  \E w \in Seq(Octet) : /\ w = SubSeq(q, m + 1, m + n)
                              /\ Len(w) = n
                              /\ \A i \in 1 .. n : w[i] = q[m + i]
<1> DEFINE w == SubSeq(q, m + 1, m + n)
<1>1. /\ w \in Seq(Octet)
      /\ Len(w) = IF m + 1 <= m + n THEN (m + n) - (m + 1) + 1 ELSE 0
      /\ \A i \in 1 .. (m + n) - (m + 1) + 1 : w[i] = q[(m + 1) + i - 1]
  <2>1. m + 1 \in Int /\ m + n \in Int /\ \A i \in m + 1 .. m + n : q[i] \in Octet
    OBVIOUS
  <2> QED  BY <2>1, SubSeqProperties
<1> HIDE DEF w
<1>2. (IF m + 1 <= m + n THEN (m + n) - (m + 1) + 1 ELSE 0) = n /\ (m + n) - (m + 1) + 1 = n
  OBVIOUS
<1>3. ASSUME NEW i \in 1 .. n PROVE w[i] = q[m + i]
  <2>1. (m + 1) + i - 1 = m + i  OBVIOUS
  <2>2. i \in 1 .. (m + n) - (m + 1) + 1  BY <1>2
  <2> QED  BY <1>1, <2>1, <2>2
<1> QED  BY <1>1, <1>2, <1>3 DEF w

\* Where the octets of three sequences are, one after the other.
LEMMA ThreeParts ==
  ASSUME NEW S, NEW a \in Seq(S), NEW s \in Seq(S), NEW v \in Seq(S)
  PROVE  /\ a \o s \o v \in Seq(S)
         /\ Len(a \o s \o v) = Len(a) + Len(s) + Len(v)
         /\ \A i \in 1 .. Len(a) : (a \o s \o v)[i] = a[i]
         /\ \A i \in 1 .. Len(s) : (a \o s \o v)[Len(a) + i] = s[i]
         /\ \A i \in 1 .. Len(v) : (a \o s \o v)[Len(a) + Len(s) + i] = v[i]
<1>1. PICK p \in Seq(S) : /\ p = a \o s
                          /\ Len(p) = Len(a) + Len(s)
                          /\ \A i \in 1 .. Len(a) : p[i] = a[i]
                          /\ \A i \in 1 .. Len(s) : p[Len(a) + i] = s[i]
  <2>1. a \o s \in Seq(S) /\ Len(a \o s) = Len(a) + Len(s)
    BY ConcatProperties
  <2>2. \A i \in 1 .. Len(a) : (a \o s)[i] = a[i]
    BY ConcatProperties
  <2>3. ASSUME NEW i \in 1 .. Len(s) PROVE (a \o s)[Len(a) + i] = s[i]
    <3>1. /\ Len(a) + i \in 1 .. Len(a) + Len(s)
          /\ ~(Len(a) + i <= Len(a)) /\ (Len(a) + i) - Len(a) = i
      OBVIOUS
    <3> QED  BY <3>1, ConcatProperties
  <2> QED  BY <2>1, <2>2, <2>3
<1>2. /\ p \o v \in Seq(S) /\ Len(p \o v) = Len(p) + Len(v)
      /\ \A i \in 1 .. Len(p) + Len(v) : (p \o v)[i] = IF i <= Len(p) THEN p[i] ELSE v[i - Len(p)]
  BY ConcatProperties
<1>3. PICK la \in Nat, ls \in Nat, lv \in Nat : la = Len(a) /\ ls = Len(s) /\ lv = Len(v)
  OBVIOUS
<1>4. \A i \in 1 .. la : (p \o v)[i] = a[i]
  BY <1>1, <1>2, <1>3
<1>5. ASSUME NEW i \in 1 .. ls PROVE (p \o v)[la + i] = s[i]
  <2>1. la + i \in 1 .. Len(p) + Len(v) /\ la + i <= Len(p)
    BY <1>1, <1>3
  <2> QED  BY <1>1, <1>2, <1>3, <2>1
<1>6. ASSUME NEW i \in 1 .. lv PROVE (p \o v)[la + ls + i] = v[i]
  <2>1. /\ la + ls + i \in 1 .. Len(p) + Len(v) /\ ~(la + ls + i <= Len(p))
        /\ (la + ls + i) - Len(p) = i
    BY <1>1, <1>3
  <2> QED  BY <1>2, <2>1
<1> QED  BY <1>1, <1>2, <1>3, <1>4, <1>5, <1>6

\* What encoders write, with the length in any form that the reader accepts.
Encodes(c, tag, value) ==
  \E s : SpellsReadable(s, Len(value)) /\ c = EncodedTag(tag) \o s \o value

\* read_tlv returns what was encoded as soon as all of it has arrived, and until
\* then it fails: a beginning of a TLV is never taken for a shorter one
\* (wire.rs 71-110).
THEOREM ReadsWhatWasWritten ==
  ASSUME NEW t, IsProperTag(t), NEW v \in Seq(Octet), NEW c, Encodes(c, t, v),
         NEW q \in Seq(Octet), Agrees(q, c)
  PROVE  IF Len(q) >= Len(c)
           THEN ReadTlv(q) = Ok([tag |-> t, value |-> v, used |-> Len(c)])
           ELSE ~ReadTlv(q).ok
<1>1. PICK s : SpellsReadable(s, Len(v)) /\ c = EncodedTag(t) \o s \o v
  BY DEF Encodes
<1>2. PICK a \in Seq(Octet) : /\ a = EncodedTag(t) /\ SpellsTag(a, t)
  BY ProperTagOctets DEF SpellsTag
<1>3. s \in Seq(Octet)
  BY <1>1 DEF SpellsReadable, SpellsLength
<1>4. PICK la \in Nat, ls \in Nat, lv \in Nat :
        la = Len(a) /\ ls = Len(s) /\ lv = Len(v) /\ SpellsReadable(s, lv)
  BY <1>1, <1>3
<1>5. /\ Len(c) = la + ls + lv
      /\ \A i \in 1 .. la : c[i] = a[i]
      /\ \A i \in 1 .. ls : c[la + i] = s[i]
      /\ \A i \in 1 .. lv : c[la + ls + i] = v[i]
  BY <1>1, <1>2, <1>3, <1>4, ThreeParts
<1>6. /\ \A i \in 1 .. la : i <= Len(q) => q[i] = a[i]
      /\ \A i \in 1 .. ls : la + i <= Len(q) => q[la + i] = s[i]
      /\ \A i \in 1 .. lv : la + ls + i <= Len(q) => q[la + ls + i] = v[i]
  <2>1. \A i \in 1 .. la + ls + lv : i <= Len(q) => q[i] = c[i]
    BY <1>5 DEF Agrees
  <2>2. \A i \in 1 .. la : i \in 1 .. la + ls + lv
    OBVIOUS
  <2>3. \A i \in 1 .. ls : la + i \in 1 .. la + ls + lv
    OBVIOUS
  <2>4. \A i \in 1 .. lv : la + ls + i \in 1 .. la + ls + lv
    OBVIOUS
  <2> QED  BY <1>5, <2>1, <2>2, <2>3, <2>4
<1>7. /\ la \in {1, 2}
      /\ la = 2 <=> Continues(a[1])
      /\ la = 1 => a[1] = t
      /\ la = 2 => a[1] = t \div Base /\ a[2] = t % Base
  <2>1. CASE Len(a) = 1 /\ a[1] = t /\ ~Continues(a[1])
    BY <1>4, <2>1
  <2>2. CASE Len(a) = 2 /\ a[1] = t \div Base /\ a[2] = t % Base /\ Continues(a[1])
    BY <1>4, <2>2
  <2> QED  BY <1>2, <2>1, <2>2 DEF SpellsTag
<1>8. PICK r : r = SubSeq(q, la + 1, Len(q))
  OBVIOUS
<1>9. PICK length : length = ReadLength(r)
  OBVIOUS
<1>10. ASSUME q # <<>>
       PROVE  ReadTlv(q) =
                IF la = 2 /\ Len(q) < 2 THEN Err("Malformed")
                ELSE IF ~length.ok THEN length
                ELSE IF Len(q) < la + length.val.used + length.val.len THEN Err("Malformed")
                ELSE Ok([tag   |-> BigEndian(SubSeq(q, 1, la)),
                         value |-> SubSeq(q, la + length.val.used + 1,
                                          la + length.val.used + length.val.len),
                         used  |-> la + length.val.used + length.val.len])
  <2>1. q[1] = a[1]
    BY <1>6, <1>7, <1>10
  <2>2. Continues(q[1]) <=> la = 2
    BY <1>7, <2>1
  <2>3. (IF Continues(q[1]) THEN 2 ELSE 1) = la
    BY <1>7, <2>2
  <2> QED  BY <1>8, <1>9, <1>10, <2>2, <2>3 DEF ReadTlv
<1>11. CASE q = <<>>
  <2>1. ~ReadTlv(q).ok
    BY <1>11 DEF ReadTlv, Err
  <2>2. ~(Len(q) >= Len(c))
    BY <1>5, <1>7, <1>11
  <2> QED  BY <2>1, <2>2
<1>12. CASE q # <<>> /\ Len(q) < la
  <2>1. la = 2 /\ Len(q) < 2
    BY <1>7, <1>12
  <2>2. ReadTlv(q) = Err("Malformed")
    BY <1>10, <1>12, <2>1
  <2>3. ~(Len(q) >= Len(c))
    BY <1>5, <1>12
  <2> QED  BY <2>2, <2>3 DEF Err
<1>13. CASE q # <<>> /\ Len(q) >= la
  <2>1. r \in Seq(Octet) /\ Len(r) = Len(q) - la /\ \A i \in 1 .. Len(q) - la : r[i] = q[la + i]
    <3>1. PICK n \in Nat : n = Len(q) - la
      BY <1>13
    <3>2. la + n = Len(q) /\ la + n <= Len(q)
      BY <3>1
    <3>3. PICK w \in Seq(Octet) : /\ w = SubSeq(q, la + 1, la + n)
                                 /\ Len(w) = n
                                 /\ \A i \in 1 .. n : w[i] = q[la + i]
      BY <3>2, Slice
    <3>4. w = r
      BY <1>8, <3>2, <3>3
    <3> QED  BY <3>1, <3>3, <3>4
  <2>2. Agrees(r, s)
    <3>1. ASSUME NEW i \in 1 .. ls, i <= Len(r) PROVE r[i] = s[i]
      BY <1>6, <2>1, <3>1
    <3> QED  BY <1>4, <3>1 DEF Agrees
  <2>3. IF Len(r) >= ls THEN length = Ok([len |-> lv, used |-> ls]) ELSE ~length.ok
    BY <1>4, <1>9, <2>1, <2>2, ReadLengthPartial
  <2>4. ~(la = 2 /\ Len(q) < 2)
    BY <1>13
  <2>5. CASE Len(r) < ls
    <3>1. ~length.ok
      BY <2>1, <2>3, <2>5
    <3>2. ReadTlv(q) = length
      BY <1>10, <1>13, <2>4, <3>1
    <3>3. ~(Len(q) >= Len(c))
      BY <1>5, <2>1, <2>5
    <3> QED  BY <3>1, <3>2, <3>3
  <2>6. CASE Len(r) >= ls
    <3>1. length.ok /\ length.val.len = lv /\ length.val.used = ls
      BY <2>3, <2>6 DEF Ok
    <3>2. ReadTlv(q) = IF Len(q) < la + ls + lv THEN Err("Malformed")
                       ELSE Ok([tag   |-> BigEndian(SubSeq(q, 1, la)),
                                value |-> SubSeq(q, la + ls + 1, la + ls + lv),
                                used  |-> la + ls + lv])
      BY <1>10, <1>13, <2>4, <3>1
    <3>3. CASE Len(q) < la + ls + lv
      <4>1. ReadTlv(q) = Err("Malformed")
        BY <3>2, <3>3
      <4> QED  BY <1>5, <3>3, <4>1 DEF Err
    <3>4. CASE Len(q) >= la + ls + lv
      <4>1. BigEndian(SubSeq(q, 1, la)) = t
        <5>1. CASE la = 1
          <6>1. PICK b \in Seq(Octet) : b = SubSeq(q, 1, 1) /\ Len(b) = 1 /\ b[1] = q[1]
            <7>1. 0 + 1 <= Len(q) /\ 0 + 1 = 1 /\ 1 \in 1 .. 1  BY <1>13, <5>1
            <7>2. PICK b \in Seq(Octet) : /\ b = SubSeq(q, 0 + 1, 0 + 1)
                                         /\ Len(b) = 1
                                         /\ \A i \in 1 .. 1 : b[i] = q[0 + i]
              <8>1. 0 \in Nat /\ 1 \in Nat  OBVIOUS
              <8> QED  BY <7>1, <8>1, Slice
            <7> QED  BY <7>1, <7>2
          <6>2. BigEndian(b) = b[1]
            BY <6>1, BigEndianOne
          <6> QED  BY <1>6, <1>7, <1>13, <5>1, <6>1, <6>2
        <5>2. CASE la = 2
          <6>1. PICK b \in Seq(Octet) :
                  b = SubSeq(q, 1, 2) /\ Len(b) = 2 /\ b[1] = q[1] /\ b[2] = q[2]
            <7>1. /\ 0 + 2 <= Len(q) /\ 0 + 1 = 1 /\ 0 + 2 = 2
                  /\ 1 \in 1 .. 2 /\ 2 \in 1 .. 2
              BY <1>13, <5>2
            <7>2. PICK b \in Seq(Octet) : /\ b = SubSeq(q, 0 + 1, 0 + 2)
                                         /\ Len(b) = 2
                                         /\ \A i \in 1 .. 2 : b[i] = q[0 + i]
              <8>1. 0 \in Nat /\ 2 \in Nat  OBVIOUS
              <8> QED  BY <7>1, <8>1, Slice
            <7> QED  BY <7>1, <7>2
          <6>2. BigEndian(b) = Base * b[1] + b[2]
            BY <6>1, BigEndianTwo
          <6>3. q[1] = t \div Base /\ q[2] = t % Base
            BY <1>6, <1>7, <1>13, <5>2
          <6>4. t = Base * (t \div Base) + (t % Base)
            BY ProperTagOctets, Digits
          <6> QED  BY <5>2, <6>1, <6>2, <6>3, <6>4
        <5> QED  BY <1>7, <5>1, <5>2
      <4>2. SubSeq(q, la + ls + 1, la + ls + lv) = v
        <5>1. PICK p \in Nat : p = la + ls
          OBVIOUS
        <5>2. PICK w \in Seq(Octet) : /\ w = SubSeq(q, p + 1, p + lv)
                                     /\ Len(w) = lv
                                     /\ \A i \in 1 .. lv : w[i] = q[p + i]
          BY <3>4, <5>1, Slice, ZenonT(60)
        <5>3. \A i \in 1 .. lv : q[p + i] = v[i]
          BY <1>6, <3>4, <5>1
        <5>4. w = v
          BY <1>4, <5>2, <5>3, SeqEqual
        <5> QED  BY <5>1, <5>2, <5>4
      <4>3. ReadTlv(q) = Ok([tag |-> t, value |-> v, used |-> la + ls + lv])
        <5>1. ~(Len(q) < la + ls + lv)  BY <3>4
        <5> QED  BY <3>2, <4>1, <4>2, <5>1, Zenon
      <4> QED  BY <1>5, <3>4, <4>3
    <3> QED  BY <3>3, <3>4
  <2> QED  BY <2>1, <2>5, <2>6
<1> QED  BY <1>11, <1>12, <1>13

-----------------------------------------------------------------------------
(* What is sent *)

IsProtected(item) == item.kind = "protected"
TagOf(item)  == IF IsProtected(item) THEN item.tlv.tag ELSE TAG_SIGNATURE
BodyOf(item) == IF IsProtected(item) THEN item.tlv.data \o item.tlv.cmac ELSE item.raw

\* What Item says of the TLVs and the raw octets that are sent.
LEMMA Items ==
  ASSUME NEW item \in Item
  PROVE  /\ IsProperTag(TagOf(item)) /\ BodyOf(item) \in Seq(Octet)
         /\ Len(BodyOf(item)) <= MaxCarried
         /\ IsProtected(item) => /\ item.tlv \in Tlvs /\ item = Protected(item.tlv)
                                 /\ TagOf(item) # TAG_SIGNATURE
         /\ ~IsProtected(item) => /\ item.raw \in Raws /\ item = Signature(item.raw)
                                  /\ TagOf(item) = TAG_SIGNATURE
<1>1. CASE \E t \in Tlvs : item = Protected(t)
  <2>1. PICK t \in Tlvs : item = Protected(t)  BY <1>1
  <2>2. IsProtected(item) /\ item.tlv = t
    BY <2>1 DEF Protected, IsProtected
  <2>3. /\ t \in [tag : Nat, data : Seq(Octet), cmac : Seq(Octet)]
        /\ IsProperTag(t.tag) /\ t.tag # TAG_SIGNATURE
        /\ Len(t.cmac) = CMAC_LEN /\ Len(t.data) + CMAC_LEN <= MaxCarried
    BY TlvAssumption
  <2>4. t.data \o t.cmac \in Seq(Octet) /\ Len(t.data \o t.cmac) = Len(t.data) + CMAC_LEN
    BY <2>3, ConcatProperties
  <2> QED  BY <2>1, <2>2, <2>3, <2>4 DEF TagOf, BodyOf
<1>2. CASE \E raw \in Raws : item = Signature(raw)
  <2>1. PICK raw \in Raws : item = Signature(raw)  BY <1>2
  <2>2. ~IsProtected(item) /\ item.raw = raw
    BY <2>1 DEF Signature, IsProtected
  <2> QED  BY <2>1, <2>2, RawAssumption DEF TagOf, BodyOf
<1> QED  BY <1>1, <1>2 DEF Item

\* der_length writes nothing that read_length refuses.
LEMMA DerLengthReadable ==
  ASSUME NEW n \in 0 .. MaxCarried
  PROVE  SpellsReadable(DerLength(n), n)
<1>1. SpellsLength(DerLength(n), n) /\ n \in Nat
  BY LengthOctets, BaseFacts
<1>2. CASE n < High
  <2>1. DerLength(n) = <<n>>  BY <1>2 DEF DerLength
  <2> QED  BY <1>1, <2>1 DEF SpellsReadable
<1>3. CASE n >= High /\ n < Base
  <2>1. DerLength(n) = <<High + 1, n>>
    BY <1>1, <1>3, BaseFacts DEF DerLength
  <2>2. n # 0  BY <1>3, BaseFacts
  <2> QED  BY <1>1, <2>1, <2>2 DEF SpellsReadable
<1>4. CASE n >= Base
  <2>1. DerLength(n) = <<High + 2, (n \div Base) % Base, n % Base>>
    BY <1>1, <1>4, BaseFacts DEF DerLength
  <2>2. n \div Base # 0
    <3>1. n \div Base \in Nat /\ n % Base \in Octet /\ n = Base * (n \div Base) + (n % Base)
      BY <1>1, Digits
    <3>2. ASSUME n \div Base = 0 PROVE FALSE
      <4>1. n = n % Base  BY <1>1, <3>1, <3>2, BaseFacts
      <4>2. n % Base < Base  BY <3>1, BaseFacts DEF Octet
      <4> QED  BY <1>1, <1>4, <4>1, <4>2, BaseFacts
    <3> QED  BY <3>2
  <2>3. Len(DerLength(n)) = 3 /\ DerLength(n)[1] = High + 2
    BY <2>1
  <2>4. DerLength(n)[2] = n \div Base
    BY <1>1, <2>3, BaseFacts DEF SpellsLength
  <2> QED  BY <1>1, <2>2, <2>4 DEF SpellsReadable
<1> QED  BY <1>1, <1>2, <1>3, <1>4, BaseFacts

\* encode_raw_tlv is an encoding.
LEMMA RawTlvEncodes ==
  ASSUME NEW tag, NEW value \in Seq(Octet), Len(value) <= MaxCarried
  PROVE  Encodes(EncodeRawTlv(tag, value), tag, value)
<1>1. Len(value) \in 0 .. MaxCarried
  BY BaseFacts
<1>2. SpellsReadable(DerLength(Len(value)), Len(value))
  BY <1>1, DerLengthReadable
<1> QED  BY <1>2 DEF Encodes, EncodeRawTlv

\* So is the form with a two-octet length.
LEMMA LongFormEncodes ==
  ASSUME NEW tlv \in Tlvs, Len(tlv.data \o tlv.cmac) \in 1 .. Base - 1
  PROVE  Encodes(LongForm(tlv), tlv.tag, tlv.data \o tlv.cmac)
<1>1. PICK n \in 1 .. Base - 1 : n = Len(tlv.data \o tlv.cmac)
  OBVIOUS
<1>2. High + 1 \in Octet /\ n \in Octet
  BY BaseFacts DEF Octet
<1>3. SpellsReadable(<<High + 1, n>>, n)
  BY <1>2, BaseFacts DEF SpellsReadable, SpellsLength
<1> QED  BY <1>1, <1>3 DEF Encodes, LongForm

\* Whatever is put on the stream encodes its item.
LEMMA PutEncodes ==
  ASSUME Next, ~Receive, ~\E n \in 1 .. Len(inFlight) : Arrive(n)
  PROVE  \E item \in Item : \E c : Put(item, c) /\ Encodes(c, TagOf(item), BodyOf(item))
<1>1. CASE \E tlv \in Tlvs : SendProtected(tlv) \/ SendLongForm(tlv)
  <2>1. PICK tlv \in Tlvs : SendProtected(tlv) \/ SendLongForm(tlv)
    BY <1>1
  <2>2. PICK item \in Item : item = Protected(tlv)
    BY DEF Item
  <2>3. IsProtected(item) /\ item.tlv = tlv
    BY <2>2 DEF IsProtected, Protected
  <2>4. TagOf(item) = tlv.tag /\ BodyOf(item) = tlv.data \o tlv.cmac
    BY <2>3 DEF TagOf, BodyOf
  <2>5. tlv.data \o tlv.cmac \in Seq(Octet) /\ Len(tlv.data \o tlv.cmac) <= MaxCarried
    BY <2>4, Items
  <2>6. CASE SendProtected(tlv)
    <3>1. Encodes(Encode(tlv), TagOf(item), BodyOf(item))
      BY <2>4, <2>5, RawTlvEncodes DEF Encode
    <3> QED  BY <2>2, <2>6, <3>1 DEF SendProtected
  <2>7. CASE SendLongForm(tlv)
    <3>1. Encodes(LongForm(tlv), TagOf(item), BodyOf(item))
      BY <2>4, <2>7, LongFormEncodes DEF SendLongForm
    <3> QED  BY <2>2, <2>7, <3>1 DEF SendLongForm
  <2> QED  BY <2>1, <2>6, <2>7
<1>2. CASE \E raw \in Raws : SendSignature(raw)
  <2>1. PICK raw \in Raws : SendSignature(raw)
    BY <1>2
  <2>2. PICK item \in Item : item = Signature(raw)
    BY DEF Item
  <2>3. TagOf(item) = TAG_SIGNATURE /\ BodyOf(item) = raw
    BY <2>2 DEF IsProtected, Signature, TagOf, BodyOf
  <2>4. Encodes(EncodeSignatureBytes(raw), TagOf(item), BodyOf(item))
    BY <2>3, RawAssumption, RawTlvEncodes DEF EncodeSignatureBytes
  <2> QED  BY <2>1, <2>2, <2>4 DEF SendSignature
<1> QED  BY <1>1, <1>2 DEF Next

\* An encoding is a sequence of octets, at least a tag and a length long.
LEMMA EncodingIsOctets ==
  ASSUME NEW item \in Item, NEW c, Encodes(c, TagOf(item), BodyOf(item))
  PROVE  c \in Seq(Octet)
<1>1. PICK s : SpellsReadable(s, Len(BodyOf(item)))
               /\ c = EncodedTag(TagOf(item)) \o s \o BodyOf(item)
  BY DEF Encodes
<1>2. s \in Seq(Octet)  BY <1>1 DEF SpellsReadable, SpellsLength
<1>3. EncodedTag(TagOf(item)) \in Seq(Octet)
  BY Items, ProperTagOctets DEF SpellsTag
<1>4. BodyOf(item) \in Seq(Octet)  BY Items
<1> QED  BY <1>1, <1>2, <1>3, <1>4, ThreeParts

\* decode takes apart what encode put together.
LEMMA DecodesTo ==
  ASSUME NEW t \in Tlvs, NEW q, NEW used,
         ReadTlv(q) = Ok([tag |-> t.tag, value |-> t.data \o t.cmac, used |-> used])
  PROVE  Decode(q) = Ok(t)
<1>1. /\ t \in [tag : Nat, data : Seq(Octet), cmac : Seq(Octet)]
      /\ Len(t.cmac) = CMAC_LEN
  BY TlvAssumption
<1>2. PICK d \in Seq(Octet), m \in Seq(Octet) :
        d = t.data /\ m = t.cmac /\ t = [tag |-> t.tag, data |-> d, cmac |-> m]
  BY <1>1
<1>3. PICK v \in Seq(Octet), n \in Nat, k \in Nat :
        /\ v = d \o m /\ n = Len(d) /\ k = Len(m) /\ k = CMAC_LEN
        /\ Len(v) = n + k
        /\ \A i \in 1 .. n : v[i] = d[i]
        /\ \A i \in 1 .. k : v[n + i] = m[i]
  <2>1. d \o m \in Seq(Octet) /\ Len(d \o m) = Len(d) + Len(m)
    BY ConcatProperties
  <2>2. \A i \in 1 .. Len(d) : (d \o m)[i] = d[i]
    BY ConcatProperties
  <2>3. ASSUME NEW i \in 1 .. Len(m) PROVE (d \o m)[Len(d) + i] = m[i]
    <3>1. /\ Len(d) + i \in 1 .. Len(d) + Len(m)
          /\ ~(Len(d) + i <= Len(d)) /\ (Len(d) + i) - Len(d) = i
      OBVIOUS
    <3> QED  BY <3>1, ConcatProperties
  <2>4. PICK v \in Seq(Octet), n \in Nat, k \in Nat : v = d \o m /\ n = Len(d) /\ k = Len(m)
    <3>1. Len(d) \in Nat /\ Len(m) \in Nat  OBVIOUS
    <3> QED  BY <2>1, <3>1, Zenon
  <2>5. k = CMAC_LEN  BY <1>1, <1>2, <2>4
  <2>6. \A i \in 1 .. n : v[i] = d[i]
    BY <2>2, <2>4
  <2>7. \A i \in 1 .. k : v[n + i] = m[i]
    BY <2>3, <2>4
  <2>8. Len(v) = n + k  BY <2>1, <2>4
  <2> QED  BY <2>4, <2>5, <2>6, <2>7, <2>8
<1>4. SubSeq(v, 1, n) = d
  <2>1. PICK w \in Seq(Octet) : w = SubSeq(v, 0 + 1, 0 + n) /\ Len(w) = n
                                /\ \A i \in 1 .. n : w[i] = v[0 + i]
    <3>1. 0 + n <= Len(v) /\ 0 \in Nat  BY <1>3
    <3> QED  BY <3>1, Slice
  <2>2. 0 + 1 = 1 /\ 0 + n = n /\ \A i \in 1 .. n : w[i] = d[i]
    BY <1>3, <2>1
  <2> QED  BY <1>3, <2>1, <2>2, SeqEqual
<1>5. SubSeq(v, n + 1, Len(v)) = m
  <2>1. PICK w \in Seq(Octet) : w = SubSeq(v, n + 1, n + k) /\ Len(w) = k
                                /\ \A i \in 1 .. k : w[i] = v[n + i]
    <3>1. n + k <= Len(v)  BY <1>3
    <3> QED  BY <3>1, Slice
  <2> QED  BY <1>3, <2>1, SeqEqual
<1>6. ReadTlv(q).ok /\ ReadTlv(q).val.tag = t.tag /\ ReadTlv(q).val.value = v
  BY <1>2, <1>3 DEF Ok
<1>7. Len(v) - CMAC_LEN = n /\ ~(n < 0)
  BY <1>3
<1>8. Decode(q) = Ok([tag |-> t.tag, data |-> SubSeq(v, 1, n), cmac |-> SubSeq(v, n + 1, Len(v))])
  BY <1>6, <1>7 DEF Decode
<1> QED  BY <1>2, <1>4, <1>5, <1>8

-----------------------------------------------------------------------------
(* Where it stands *)

\* The octets w are the encodings of items: the k-th is chunk[k] and ends at
\* at[k].
Laid(w, chunk, at, items) ==
  /\ w \in Seq(Octet)
  /\ at[Len(items)] = Len(w)
  /\ \A k \in 0 .. Len(items) : at[k] \in Nat
  /\ \A k \in 1 .. Len(items) :
       /\ chunk[k] \in Seq(Octet)
       /\ Encodes(chunk[k], TagOf(items[k]), BodyOf(items[k]))
       /\ at[k] = at[k - 1] + Len(chunk[k])
       /\ \A i \in 1 .. Len(chunk[k]) : w[at[k - 1] + i] = chunk[k][i]

\* Of w, all that stands after the first from octets has yet to be consumed: b
\* has arrived and f has not.
Pending(w, from, b, f) ==
  /\ b \in Seq(Octet) /\ f \in Seq(Octet)
  /\ from + Len(b) + Len(f) = Len(w)
  /\ \A i \in 1 .. Len(b) : b[i] = w[from + i]
  /\ \A i \in 1 .. Len(f) : f[i] = w[from + Len(b) + i]

\* A bounded set of numbers has a greatest.
LEMMA LastOfBounded ==
  ASSUME NEW n \in Nat, NEW T, T \subseteq 0 .. n, T # {}
  PROVE  \E m \in T : \A k \in T : k <= m
<1> DEFINE U == {n - k : k \in T}
<1>1. U \subseteq Nat /\ U # {}
  <2>1. \A k \in 0 .. n : n - k \in Nat  OBVIOUS
  <2> QED  BY <2>1
<1>2. PICK u \in U : \A v \in U : ~ (<<v, u>> \in OpToRel(<, Nat))
  <2> HIDE DEF U
  <2> QED  BY <1>1, NatLessThanWellFounded, WFMin
<1>3. \A v \in U : ~ (v < u)
  <2>1. \A v \in Nat, w \in Nat : v < w => <<v, w>> \in OpToRel(<, Nat)
    BY DEF OpToRel
  <2> HIDE DEF U
  <2> QED  BY <1>1, <1>2, <2>1
<1>4. PICK m \in T : u = n - m
  OBVIOUS
<1>5. ASSUME NEW k \in T PROVE k <= m
  <2>1. ~ (n - k < n - m)  BY <1>3, <1>4
  <2> QED  BY <2>1
<1> QED  BY <1>5

\* One more encoding at the end of the stream.
LEMMA LaidMore ==
  ASSUME NEW w, NEW chunk, NEW at, NEW items \in Seq(Item), Laid(w, chunk, at, items),
         NEW item \in Item, NEW c \in Seq(Octet), Encodes(c, TagOf(item), BodyOf(item))
  PROVE  \E chunks, ats : /\ Laid(w \o c, chunks, ats, Append(items, item))
                          /\ \A k \in 0 .. Len(items) : ats[k] = at[k]
<1>1. PICK n \in Nat : n = Len(items)
  OBVIOUS
<1>2. PICK more : /\ more = Append(items, item)
                  /\ Len(more) = n + 1 /\ more[n + 1] = item
                  /\ \A k \in 1 .. n : more[k] = items[k]
  <2>1. /\ Len(Append(items, item)) = Len(items) + 1
        /\ Append(items, item)[Len(items) + 1] = item
        /\ \A k \in 1 .. Len(items) : Append(items, item)[k] = items[k]
    BY AppendProperties
  <2> QED  BY <1>1, <2>1, Zenon
<1>3. PICK all \in Seq(Octet), lw \in Nat, lc \in Nat :
        all = w \o c /\ lw = Len(w) /\ lc = Len(c)
  <2>1. w \in Seq(Octet)  BY DEF Laid
  <2>2. w \o c \in Seq(Octet) /\ Len(w) \in Nat /\ Len(c) \in Nat
    BY <2>1, ConcatProperties
  <2> QED  BY <2>2, Zenon
<1>4. /\ Len(all) = lw + lc
      /\ \A i \in 1 .. lw : all[i] = w[i]
      /\ \A i \in 1 .. lc : all[lw + i] = c[i]
  <2>1. w \in Seq(Octet)  BY DEF Laid
  <2>2. Len(all) = lw + lc /\ \A i \in 1 .. lw + lc :
          all[i] = IF i <= lw THEN w[i] ELSE c[i - lw]
    BY <1>3, <2>1, ConcatProperties
  <2>3. ASSUME NEW i \in 1 .. lc PROVE all[lw + i] = c[i]
    <3>1. lw + i \in 1 .. lw + lc /\ ~(lw + i <= lw) /\ (lw + i) - lw = i
      OBVIOUS
    <3> QED  BY <2>2, <3>1
  <2>4. ASSUME NEW i \in 1 .. lw PROVE all[i] = w[i]
    <3>1. i \in 1 .. lw + lc /\ i <= lw
      OBVIOUS
    <3> QED  BY <2>2, <3>1
  <2> QED  BY <2>2, <2>3, <2>4
<1>5. /\ at[n] = lw
      /\ \A k \in 0 .. n : at[k] \in Nat
      /\ \A k \in 1 .. n : /\ chunk[k] \in Seq(Octet)
                           /\ Encodes(chunk[k], TagOf(items[k]), BodyOf(items[k]))
                           /\ at[k] = at[k - 1] + Len(chunk[k])
                           /\ \A i \in 1 .. Len(chunk[k]) : w[at[k - 1] + i] = chunk[k][i]
  BY <1>1, <1>3 DEF Laid
<1> DEFINE chunks == [k \in 1 .. n + 1 |-> IF k = n + 1 THEN c ELSE chunk[k]]
           ats == [k \in 0 .. n + 1 |-> IF k = n + 1 THEN lw + lc ELSE at[k]]
<1>6. /\ \A k \in 0 .. n : ats[k] = at[k]
      /\ \A k \in 1 .. n : chunks[k] = chunk[k]
      /\ ats[n + 1] = lw + lc /\ chunks[n + 1] = c
  OBVIOUS
<1> HIDE DEF chunks, ats
<1>7. \A k \in 0 .. n + 1 : ats[k] \in Nat
  <2>1. \A k \in 0 .. n + 1 : k \in 0 .. n \/ k = n + 1  OBVIOUS
  <2> QED  BY <1>5, <1>6, <2>1, SMTT(40)
\* Nothing before the new chunk goes beyond what w has.
<1>8. \A k \in 0 .. n : at[k] <= lw
  <2> DEFINE T == {k \in 0 .. n : at[k] > lw}
  <2>1. SUFFICES ASSUME T # {} PROVE FALSE
    BY <1>3, <1>5, SMTT(40)
  <2>2. PICK m \in T : \A k \in T : k <= m
    <3>1. T \subseteq 0 .. n  OBVIOUS
    <3> HIDE DEF T
    <3> QED  BY <2>1, <3>1, LastOfBounded
  <2>3. m \in 0 .. n /\ at[m] > lw
    OBVIOUS
  <2>4. m # n  BY <1>5, <2>3
  <2>5. m + 1 \in 1 .. n /\ (m + 1) - 1 = m /\ m + 1 \in 0 .. n
    BY <2>3, <2>4
  <2>6. at[m + 1] = at[m] + Len(chunk[m + 1]) /\ Len(chunk[m + 1]) \in Nat
    BY <1>5, <2>5
  <2>7. at[m + 1] > lw
    BY <1>5, <2>3, <2>5, <2>6
  <2> QED  BY <2>2, <2>5, <2>7
<1>9. ASSUME NEW k \in 1 .. n
      PROVE  /\ chunks[k] \in Seq(Octet)
             /\ Encodes(chunks[k], TagOf(more[k]), BodyOf(more[k]))
             /\ ats[k] = ats[k - 1] + Len(chunks[k])
             /\ \A i \in 1 .. Len(chunks[k]) : all[ats[k - 1] + i] = chunks[k][i]
  <2>1. /\ chunks[k] = chunk[k] /\ more[k] = items[k] /\ ats[k] = at[k]
        /\ k - 1 \in 0 .. n /\ k \in 0 .. n /\ ats[k - 1] = at[k - 1]
    BY <1>2, <1>6
  <2>2. ASSUME NEW i \in 1 .. Len(chunk[k]) PROVE all[at[k - 1] + i] = chunk[k][i]
    <3>1. /\ at[k - 1] \in Nat /\ Len(chunk[k]) \in Nat /\ at[k] <= lw
          /\ at[k] = at[k - 1] + Len(chunk[k])
      BY <1>5, <1>8, <2>1
    <3>2. at[k - 1] + i \in 1 .. lw
      BY <3>1
    <3> QED  BY <1>4, <1>5, <3>2
  <2> QED  BY <1>5, <2>1, <2>2
<1>10. /\ chunks[n + 1] \in Seq(Octet)
       /\ Encodes(chunks[n + 1], TagOf(more[n + 1]), BodyOf(more[n + 1]))
       /\ ats[n + 1] = ats[(n + 1) - 1] + Len(chunks[n + 1])
       /\ \A i \in 1 .. Len(chunks[n + 1]) : all[ats[(n + 1) - 1] + i] = chunks[n + 1][i]
  <2>1. (n + 1) - 1 = n /\ n \in 0 .. n
    OBVIOUS
  <2>2. ats[n] = lw
    BY <1>5, <1>6, <2>1
  <2> QED  BY <1>2, <1>3, <1>4, <1>6, <2>1, <2>2, ZenonT(60)
<1>11. \A k \in 1 .. n + 1 : k \in 1 .. n \/ k = n + 1
  OBVIOUS
<1>12. Laid(all, chunks, ats, more)
  BY <1>2, <1>4, <1>6, <1>7, <1>9, <1>10, <1>11 DEF Laid
<1> QED  BY <1>1, <1>2, <1>3, <1>6, <1>12

\* What is put on the stream is in flight.
LEMMA PendingMore ==
  ASSUME NEW w \in Seq(Octet), NEW from \in Nat, NEW b, NEW f, Pending(w, from, b, f),
         NEW c \in Seq(Octet)
  PROVE  Pending(w \o c, from, b, f \o c)
<1>1. b \in Seq(Octet) /\ f \in Seq(Octet)
  BY DEF Pending
<1>2. PICK lw \in Nat, lc \in Nat, lb \in Nat, lf \in Nat :
        lw = Len(w) /\ lc = Len(c) /\ lb = Len(b) /\ lf = Len(f)
  <2>1. Len(w) \in Nat /\ Len(c) \in Nat /\ Len(b) \in Nat /\ Len(f) \in Nat
    BY <1>1
  <2> QED  BY <2>1, Zenon
<1>3. /\ from + lb + lf = lw
      /\ \A i \in 1 .. lb : b[i] = w[from + i]
      /\ \A i \in 1 .. lf : f[i] = w[from + lb + i]
  BY <1>2 DEF Pending
<1>4. /\ Len(w \o c) = lw + lc
      /\ \A i \in 1 .. lw + lc : (w \o c)[i] = IF i <= lw THEN w[i] ELSE c[i - lw]
  BY <1>2, ConcatProperties
<1>5. /\ f \o c \in Seq(Octet) /\ Len(f \o c) = lf + lc
      /\ \A i \in 1 .. lf + lc : (f \o c)[i] = IF i <= lf THEN f[i] ELSE c[i - lf]
  BY <1>1, <1>2, ConcatProperties
<1>6. ASSUME NEW i \in 1 .. lb PROVE b[i] = (w \o c)[from + i]
  <2>1. from + i \in 1 .. lw + lc /\ from + i <= lw
    BY <1>3
  <2> QED  BY <1>3, <1>4, <2>1
<1>7. ASSUME NEW i \in 1 .. lf + lc PROVE (f \o c)[i] = (w \o c)[from + lb + i]
  <2>1. CASE i <= lf
    <3>1. from + lb + i \in 1 .. lw + lc /\ from + lb + i <= lw /\ i \in 1 .. lf
      BY <1>3, <2>1
    <3>2. (w \o c)[from + lb + i] = w[from + lb + i]
      BY <1>4, <3>1
    <3> QED  BY <1>3, <1>5, <2>1, <3>1, <3>2
  <2>2. CASE i > lf
    <3>1. /\ from + lb + i \in 1 .. lw + lc /\ ~(from + lb + i <= lw)
          /\ (from + lb + i) - lw = i - lf /\ ~(i <= lf)
      BY <1>3, <2>2
    <3>2. (w \o c)[from + lb + i] = c[i - lf]
      BY <1>4, <3>1
    <3> QED  BY <1>5, <3>1, <3>2
  <2>3. i <= lf \/ i > lf
    <3>1. i \in Int /\ lf \in Int  BY <1>2
    <3> QED  BY <3>1
  <2> QED  BY <2>1, <2>2, <2>3
<1>8. from + lb + (lf + lc) = lw + lc
  BY <1>3
<1> QED  BY <1>1, <1>2, <1>4, <1>5, <1>6, <1>7, <1>8 DEF Pending

\* Octets in flight arrive in order.
LEMMA PendingArrives ==
  ASSUME NEW w, NEW from \in Nat, NEW b, NEW f, Pending(w, from, b, f), NEW n \in 1 .. Len(f)
  PROVE  Pending(w, from, b \o SubSeq(f, 1, n), SubSeq(f, n + 1, Len(f)))
<1>1. b \in Seq(Octet) /\ f \in Seq(Octet)
  BY DEF Pending
<1>2. PICK lb \in Nat, lf \in Nat : lb = Len(b) /\ lf = Len(f)
  <2>1. Len(b) \in Nat /\ Len(f) \in Nat  BY <1>1
  <2> QED  BY <2>1, Zenon
<1>3. /\ from + lb + lf = Len(w)
      /\ \A i \in 1 .. lb : b[i] = w[from + i]
      /\ \A i \in 1 .. lf : f[i] = w[from + lb + i]
  BY <1>2 DEF Pending
<1>4. n \in Nat /\ n <= lf /\ n >= 1
  BY <1>1, <1>2
<1>5. PICK rest \in Nat : rest = lf - n
  BY <1>4
<1>6. PICK g \in Seq(Octet) : g = SubSeq(f, 1, n) /\ Len(g) = n
                              /\ \A i \in 1 .. n : g[i] = f[i]
  <2>1. PICK v \in Seq(Octet) : v = SubSeq(f, 0 + 1, 0 + n) /\ Len(v) = n
                                /\ \A i \in 1 .. n : v[i] = f[0 + i]
    <3>1. 0 + n <= Len(f) /\ 0 \in Nat  BY <1>2, <1>4
    <3> QED  BY <1>1, <1>4, <3>1, Slice
  <2>2. 0 + 1 = 1 /\ 0 + n = n /\ \A i \in 1 .. n : 0 + i = i
    BY <1>4
  <2> QED  BY <2>1, <2>2
<1>7. PICK h \in Seq(Octet) : h = SubSeq(f, n + 1, Len(f)) /\ Len(h) = rest
                              /\ \A i \in 1 .. rest : h[i] = f[n + i]
  <2>1. n + rest = Len(f) /\ n + rest <= Len(f)
    BY <1>2, <1>4, <1>5
  <2>2. PICK v \in Seq(Octet) : v = SubSeq(f, n + 1, n + rest) /\ Len(v) = rest
                                /\ \A i \in 1 .. rest : v[i] = f[n + i]
    BY <1>1, <1>4, <2>1, Slice, ZenonT(60)
  <2> QED  BY <2>1, <2>2
<1>8. /\ b \o g \in Seq(Octet) /\ Len(b \o g) = lb + n
      /\ \A i \in 1 .. lb + n : (b \o g)[i] = IF i <= lb THEN b[i] ELSE g[i - lb]
  BY <1>1, <1>2, <1>6, ConcatProperties
<1>9. ASSUME NEW i \in 1 .. lb + n PROVE (b \o g)[i] = w[from + i]
  <2>1. CASE i <= lb
    BY <1>3, <1>8, <2>1, SMTT(30)
  <2>2. CASE i > lb
    <3>1. i - lb \in 1 .. n /\ i - lb \in 1 .. lf /\ ~(i <= lb) /\ from + lb + (i - lb) = from + i
      BY <1>4, <2>2
    <3>2. (b \o g)[i] = f[i - lb]
      BY <1>6, <1>8, <3>1
    <3> QED  BY <1>3, <3>1, <3>2
  <2>3. i <= lb \/ i > lb
    <3>1. i \in Int /\ lb \in Int  BY <1>2, <1>4
    <3> QED  BY <3>1
  <2> QED  BY <2>1, <2>2, <2>3
<1>10. ASSUME NEW i \in 1 .. rest PROVE h[i] = w[from + (lb + n) + i]
  <2>1. n + i \in 1 .. lf /\ from + lb + (n + i) = from + (lb + n) + i
    BY <1>4, <1>5
  <2> QED  BY <1>3, <1>7, <2>1
<1>11. from + (lb + n) + rest = Len(w)
  <2>1. from + (lb + n) + rest = from + lb + lf
    BY <1>4, <1>5
  <2> QED  BY <1>3, <2>1
<1>12. Pending(w, from, b \o g, h)
  BY <1>7, <1>8, <1>9, <1>10, <1>11 DEF Pending
<1> QED  BY <1>6, <1>7, <1>12

\* The receiver takes octets from the front.
LEMMA PendingTaken ==
  ASSUME NEW w, NEW from \in Nat, NEW b, NEW f, Pending(w, from, b, f),
         NEW n \in Nat, n <= Len(b)
  PROVE  Pending(w, from + n, SubSeq(b, n + 1, Len(b)), f)
<1>1. b \in Seq(Octet) /\ f \in Seq(Octet)
  BY DEF Pending
<1>2. PICK lb \in Nat, lf \in Nat : lb = Len(b) /\ lf = Len(f)
  <2>1. Len(b) \in Nat /\ Len(f) \in Nat  BY <1>1
  <2> QED  BY <2>1, Zenon
<1>3. /\ from + lb + lf = Len(w)
      /\ \A i \in 1 .. lb : b[i] = w[from + i]
      /\ \A i \in 1 .. lf : f[i] = w[from + lb + i]
  BY <1>2 DEF Pending
<1>4. PICK rest \in Nat : rest = lb - n
  <2>1. n <= lb  BY <1>2
  <2>2. lb - n \in Nat  BY <2>1
  <2> QED  BY <2>2, Zenon
<1>5. PICK h \in Seq(Octet) : h = SubSeq(b, n + 1, Len(b)) /\ Len(h) = rest
                              /\ \A i \in 1 .. rest : h[i] = b[n + i]
  <2>1. n + rest = Len(b) /\ n + rest <= Len(b)
    BY <1>2, <1>4
  <2>2. PICK v \in Seq(Octet) : v = SubSeq(b, n + 1, n + rest) /\ Len(v) = rest
                                /\ \A i \in 1 .. rest : v[i] = b[n + i]
    BY <1>1, <2>1, Slice
  <2> QED  BY <2>1, <2>2
<1>6. ASSUME NEW i \in 1 .. rest PROVE h[i] = w[(from + n) + i]
  <2>1. n + i \in 1 .. lb /\ from + (n + i) = (from + n) + i
    BY <1>4
  <2> QED  BY <1>3, <1>5, <2>1
<1>7. ASSUME NEW i \in 1 .. lf PROVE f[i] = w[(from + n) + rest + i]
  <2>1. from + lb + i = (from + n) + rest + i
    BY <1>4
  <2> QED  BY <1>3, <2>1
<1>8. (from + n) + rest + lf = Len(w)
  <2>1. (from + n) + rest + lf = from + lb + lf
    BY <1>4
  <2> QED  BY <1>3, <2>1
<1>9. Pending(w, from + n, h, f)
  BY <1>1, <1>2, <1>5, <1>6, <1>7, <1>8 DEF Pending
<1> QED  BY <1>5, <1>9

\* What has arrived agrees with the encoding that comes next.
LEMMA NextAgrees ==
  ASSUME NEW w, NEW chunk, NEW at, NEW items \in Seq(Item), Laid(w, chunk, at, items),
         NEW k \in 1 .. Len(items), NEW b, NEW f, Pending(w, at[k - 1], b, f)
  PROVE  Agrees(b, chunk[k])
<1>1. /\ \A i \in 1 .. Len(chunk[k]) : w[at[k - 1] + i] = chunk[k][i]
  BY DEF Laid
<1>2. b \in Seq(Octet) /\ \A i \in 1 .. Len(b) : b[i] = w[at[k - 1] + i]
  BY DEF Pending
<1>3. ASSUME NEW i \in 1 .. Len(chunk[k]), i <= Len(b) PROVE b[i] = chunk[k][i]
  <2>1. chunk[k] \in Seq(Octet)  BY DEF Laid
  <2>2. i \in 1 .. Len(b)  BY <1>2, <1>3, <2>1
  <2> QED  BY <1>1, <1>2, <2>2
<1> QED  BY <1>3 DEF Agrees

-----------------------------------------------------------------------------
(* The stream, step by step *)

\* The receiver's list and where its next TLV begins.
Standing(w, chunk, at) ==
  /\ Laid(w, chunk, at, sent)
  /\ Len(received) <= Len(sent)
  /\ \A i \in 1 .. Len(received) : received[i] = sent[i]
  /\ Pending(w, at[Len(received)], buffer, inFlight)

\* The strengthened invariant: the stream is encodings laid end to end, and the
\* receiver stands at the end of one.
IInv ==
  /\ sent \in Seq(Item) /\ received \in Seq(Item)
  /\ \E w, chunk, at : Standing(w, chunk, at)

\* It holds at the start,
LEMMA StartStands ==
  ASSUME Init
  PROVE  IInv
<1>1. sent = <<>> /\ received = <<>> /\ buffer = <<>> /\ inFlight = <<>>
  BY DEF Init
<1>2. PICK at : at = [k \in {0} |-> 0]
  OBVIOUS
<1>3. at[0] = 0 /\ Len(<<>>) = 0 /\ <<>> \in Seq(Octet)
  BY <1>2
<1>4. Laid(<<>>, <<>>, at, sent)
  <2>1. \A k \in 0 .. Len(sent) : k = 0
    BY <1>1, <1>3
  <2>2. \A k \in 1 .. Len(sent) : FALSE
    BY <1>1, <1>3
  <2> QED  BY <1>1, <1>3, <2>1, <2>2 DEF Laid
<1>5. Pending(<<>>, 0, buffer, inFlight)
  <2>1. \A i \in 1 .. Len(<<>>) : FALSE
    BY <1>3
  <2>2. 0 + Len(<<>>) + Len(<<>>) = Len(<<>>)
    BY <1>3
  <2> QED  BY <1>1, <1>3, <2>1, <2>2 DEF Pending
<1>6. \A i \in 1 .. Len(received) : FALSE
  BY <1>1, <1>3
<1>7. Standing(<<>>, <<>>, at)
  BY <1>1, <1>3, <1>4, <1>5, <1>6 DEF Standing
<1>8. sent \in Seq(Item) /\ received \in Seq(Item)
  BY <1>1
<1> QED  BY <1>7, <1>8 DEF IInv

\* after every TLV put on the stream,
LEMMA PutStands ==
  ASSUME IInv, NEW item \in Item, NEW c, Put(item, c), Encodes(c, TagOf(item), BodyOf(item))
  PROVE  IInv'
<1>1. PICK w, chunk, at : Standing(w, chunk, at)
  BY DEF IInv
<1>2. sent \in Seq(Item) /\ received \in Seq(Item)
  BY DEF IInv
<1>3. /\ sent' = Append(sent, item) /\ inFlight' = inFlight \o c
      /\ buffer' = buffer /\ received' = received
  BY DEF Put
<1>4. c \in Seq(Octet)
  BY EncodingIsOctets
<1>5. /\ Laid(w, chunk, at, sent)
      /\ Len(received) <= Len(sent)
      /\ \A i \in 1 .. Len(received) : received[i] = sent[i]
      /\ Pending(w, at[Len(received)], buffer, inFlight)
  BY <1>1 DEF Standing
<1>6. PICK chunks, ats : /\ Laid(w \o c, chunks, ats, sent')
                         /\ \A k \in 0 .. Len(sent) : ats[k] = at[k]
  BY <1>2, <1>3, <1>4, <1>5, LaidMore
<1>7. Len(received) \in 0 .. Len(sent)
  BY <1>2, <1>5
<1>8. at[Len(received)] \in Nat /\ ats[Len(received)] = at[Len(received)] /\ w \in Seq(Octet)
  BY <1>5, <1>6, <1>7 DEF Laid
<1>9. Pending(w \o c, ats[Len(received)], buffer, inFlight \o c)
  BY <1>4, <1>5, <1>8, PendingMore
<1>10. /\ Len(sent') = Len(sent) + 1 /\ sent' \in Seq(Item)
       /\ \A i \in 1 .. Len(sent) : sent'[i] = sent[i]
  BY <1>2, <1>3, AppendProperties
<1>11. \A i \in 1 .. Len(received) : received'[i] = sent'[i]
  <2>1. \A i \in 1 .. Len(received) : i \in 1 .. Len(sent)
    BY <1>2, <1>5
  <2> QED  BY <1>3, <1>5, <1>10, <2>1
<1>12. Len(received') <= Len(sent')
  BY <1>2, <1>3, <1>5, <1>10
<1>13. Standing(w \o c, chunks, ats)'
  BY <1>3, <1>6, <1>9, <1>11, <1>12 DEF Standing
<1> QED  BY <1>2, <1>3, <1>10, <1>13 DEF IInv

\* after every arrival,
LEMMA ArriveStands ==
  ASSUME IInv, NEW n \in 1 .. Len(inFlight), Arrive(n)
  PROVE  IInv'
<1>1. PICK w, chunk, at : Standing(w, chunk, at)
  BY DEF IInv
<1>2. sent \in Seq(Item) /\ received \in Seq(Item)
  BY DEF IInv
<1>3. /\ buffer' = buffer \o SubSeq(inFlight, 1, n)
      /\ inFlight' = SubSeq(inFlight, n + 1, Len(inFlight))
      /\ sent' = sent /\ received' = received
  BY DEF Arrive
<1>4. /\ Laid(w, chunk, at, sent) /\ Len(received) <= Len(sent)
      /\ Pending(w, at[Len(received)], buffer, inFlight)
  BY <1>1 DEF Standing
<1>5. Len(received) \in 0 .. Len(sent)
  BY <1>2, <1>4
<1>6. at[Len(received)] \in Nat
  BY <1>4, <1>5 DEF Laid
<1>7. Pending(w, at[Len(received)], buffer', inFlight')
  BY <1>3, <1>4, <1>6, PendingArrives
<1>8. Standing(w, chunk, at)'
  BY <1>1, <1>3, <1>7 DEF Standing
<1> QED  BY <1>2, <1>3, <1>8 DEF IInv

\* What read_tlv finds is the TLV that was sent next.
LEMMA ReadsNext ==
  ASSUME NEW w, NEW chunk, NEW at, Standing(w, chunk, at),
         sent \in Seq(Item), received \in Seq(Item), ReadTlv(buffer).ok
  PROVE  LET k == Len(received) + 1
         IN  /\ k \in 1 .. Len(sent)
             /\ ReadTlv(buffer) = Ok([tag   |-> TagOf(sent[k]),
                                      value |-> BodyOf(sent[k]),
                                      used  |-> Len(chunk[k])])
             /\ Len(chunk[k]) <= Len(buffer)
<1>1. PICK n \in Nat, r \in Nat : n = Len(sent) /\ r = Len(received)
  <2>1. Len(sent) \in Nat /\ Len(received) \in Nat  OBVIOUS
  <2> QED  BY <2>1, Zenon
<1>2. /\ Laid(w, chunk, at, sent) /\ r <= n
      /\ Pending(w, at[r], buffer, inFlight)
  BY <1>1 DEF Standing
<1>3. buffer \in Seq(Octet) /\ inFlight \in Seq(Octet)
  BY <1>2 DEF Pending
<1>4. r # n
  <2>1. SUFFICES ASSUME r = n PROVE FALSE
    OBVIOUS
  <2>2. at[r] = Len(w) /\ at[r] \in Nat
    BY <1>1, <2>1 , <1>2 DEF Laid
  <2>3. at[r] + Len(buffer) + Len(inFlight) = Len(w)
    BY <1>2 DEF Pending
  <2>4. Len(buffer) = 0
    BY <1>3, <2>2, <2>3
  <2>5. buffer = <<>>
    BY <1>3, <2>4
  <2>6. ~ReadTlv(buffer).ok
    BY <2>5 DEF ReadTlv, Err
  <2> QED  BY <2>6
<1>5. PICK k \in 1 .. n : k = r + 1 /\ k - 1 = r
  BY <1>2, <1>4
<1>6. Agrees(buffer, chunk[k])
  BY <1>1, <1>2, <1>5, NextAgrees
<1>7. /\ sent[k] \in Item /\ chunk[k] \in Seq(Octet)
      /\ Encodes(chunk[k], TagOf(sent[k]), BodyOf(sent[k]))
  BY <1>1, <1>2, <1>5 DEF Laid
<1>8. IsProperTag(TagOf(sent[k])) /\ BodyOf(sent[k]) \in Seq(Octet)
  BY <1>7, Items
<1>9. IF Len(buffer) >= Len(chunk[k])
        THEN ReadTlv(buffer) = Ok([tag   |-> TagOf(sent[k]),
                                   value |-> BodyOf(sent[k]),
                                   used  |-> Len(chunk[k])])
        ELSE ~ReadTlv(buffer).ok
  BY <1>3, <1>6, <1>7, <1>8, ReadsWhatWasWritten
<1>10. Len(chunk[k]) <= Len(buffer)
  BY <1>3, <1>7, <1>9
<1> QED  BY <1>1, <1>3, <1>5, <1>7, <1>9, <1>10

\* And what the receiver makes of it is what was sent.
LEMMA TakesNext ==
  ASSUME NEW w, NEW chunk, NEW at, Standing(w, chunk, at),
         sent \in Seq(Item), received \in Seq(Item), Receive
  PROVE  ReadTlv(buffer).ok /\ Take(sent[Len(received) + 1])
<1>1. PICK r \in Nat : r = Len(received)
  OBVIOUS
<1>2. ReadTlv(buffer).ok
  BY DEF Receive, ReceiveProtected, ReceiveSignature, ParseSignatureBytes
<1>3. PICK item : item = sent[r + 1]
  OBVIOUS
<1>4. /\ r + 1 \in 1 .. Len(sent)
      /\ ReadTlv(buffer) = Ok([tag   |-> TagOf(item),
                               value |-> BodyOf(item),
                               used  |-> Len(chunk[r + 1])])
  BY <1>1, <1>2, <1>3, ReadsNext
<1>5. item \in Item
  BY <1>3, <1>4
<1>6. ReadTlv(buffer).val.tag = TagOf(item) /\ ReadTlv(buffer).val.value = BodyOf(item)
  BY <1>4 DEF Ok
<1>7. CASE ReceiveProtected
  <2>1. TagOf(item) # TAG_SIGNATURE
    BY <1>6, <1>7 DEF ReceiveProtected
  <2>2. IsProtected(item) /\ item.tlv \in Tlvs /\ item = Protected(item.tlv)
    BY <1>5, <2>1, Items
  <2>3. TagOf(item) = item.tlv.tag /\ BodyOf(item) = item.tlv.data \o item.tlv.cmac
    BY <2>2 DEF TagOf, BodyOf
  <2>4. Decode(buffer) = Ok(item.tlv)
    BY <1>4, <2>2, <2>3, DecodesTo
  <2>5. Decode(buffer).val = item.tlv
    BY <2>4 DEF Ok
  <2>6. Take(Protected(Decode(buffer).val))
    BY <1>7 DEF ReceiveProtected
  <2>7. Protected(Decode(buffer).val) = item
    BY <2>2, <2>5
  <2> QED  BY <1>1, <1>2, <1>3, <2>6, <2>7
<1>8. CASE ReceiveSignature
  <2>1. TagOf(item) = TAG_SIGNATURE
    BY <1>2, <1>6, <1>8 DEF ReceiveSignature, ParseSignatureBytes, Err
  <2>2. ~IsProtected(item) /\ item = Signature(item.raw)
    BY <1>5, <2>1, Items
  <2>3. BodyOf(item) = item.raw
    BY <2>2 DEF BodyOf
  <2>4. ParseSignatureBytes(buffer) = Ok(item.raw)
    BY <1>2, <1>6, <2>1, <2>3 DEF ParseSignatureBytes
  <2>5. ParseSignatureBytes(buffer).val = item.raw
    BY <2>4 DEF Ok
  <2>6. Take(Signature(ParseSignatureBytes(buffer).val))
    BY <1>8 DEF ReceiveSignature
  <2>7. Signature(ParseSignatureBytes(buffer).val) = item
    BY <2>2, <2>5
  <2> QED  BY <1>1, <1>2, <1>3, <2>6, <2>7
<1> QED  BY <1>7, <1>8 DEF Receive

\* and after every TLV received.
LEMMA ReceiveStands ==
  ASSUME IInv, Receive
  PROVE  IInv'
<1>1. PICK w, chunk, at : Standing(w, chunk, at)
  BY DEF IInv
<1>2. sent \in Seq(Item) /\ received \in Seq(Item)
  BY DEF IInv
<1>3. PICK n \in Nat, r \in Nat : n = Len(sent) /\ r = Len(received)
  <2>1. Len(sent) \in Nat /\ Len(received) \in Nat  BY <1>2
  <2> QED  BY <2>1, Zenon
<1>4. ReadTlv(buffer).ok /\ Take(sent[r + 1])
  BY <1>1, <1>2, <1>3, TakesNext
<1>5. PICK used \in Nat : /\ used = Len(chunk[r + 1]) /\ ReadTlv(buffer).val.used = used
                          /\ used <= Len(buffer) /\ r + 1 \in 1 .. n
  <2>1. /\ r + 1 \in 1 .. n
        /\ ReadTlv(buffer) = Ok([tag   |-> TagOf(sent[r + 1]),
                                 value |-> BodyOf(sent[r + 1]),
                                 used  |-> Len(chunk[r + 1])])
        /\ Len(chunk[r + 1]) <= Len(buffer)
    BY <1>1, <1>2, <1>3, <1>4, ReadsNext
  <2>2. chunk[r + 1] \in Seq(Octet)
    BY <1>1, <1>3, <2>1 DEF Standing, Laid
  <2>3. Len(chunk[r + 1]) \in Nat
    BY <2>2
  <2>4. ReadTlv(buffer).val.used = Len(chunk[r + 1])
    BY <2>1 DEF Ok
  <2> QED  BY <2>1, <2>3, <2>4
<1>6. /\ received' = Append(received, sent[r + 1])
      /\ buffer' = SubSeq(buffer, used + 1, Len(buffer))
      /\ sent' = sent /\ inFlight' = inFlight
  BY <1>4, <1>5 DEF Take
<1>7. /\ Laid(w, chunk, at, sent)
      /\ \A i \in 1 .. r : received[i] = sent[i]
      /\ Pending(w, at[r], buffer, inFlight)
  BY <1>1, <1>3 DEF Standing
<1>8. at[r] \in Nat /\ at[r + 1] = at[r] + used
  <2>1. r \in 0 .. n /\ (r + 1) - 1 = r
    BY <1>5
  <2> QED  BY <1>3, <1>5, <1>7, <2>1 DEF Laid
<1>9. Pending(w, at[r + 1], buffer', inFlight')
  BY <1>5, <1>6, <1>7, <1>8, PendingTaken
<1>10. sent[r + 1] \in Item
  BY <1>2, <1>3, <1>5
<1>11. /\ received' \in Seq(Item) /\ Len(received') = r + 1
       /\ received'[r + 1] = sent[r + 1]
       /\ \A i \in 1 .. r : received'[i] = received[i]
  BY <1>2, <1>3, <1>6, <1>10, AppendProperties
<1>12. \A i \in 1 .. Len(received') : received'[i] = sent'[i]
  <2>1. \A i \in 1 .. r + 1 : i \in 1 .. r \/ i = r + 1
    OBVIOUS
  <2> QED  BY <1>6, <1>7, <1>11, <2>1
<1>13. Len(received') <= Len(sent')
  BY <1>3, <1>5, <1>6, <1>11
<1>14. Standing(w, chunk, at)'
  BY <1>6, <1>7, <1>9, <1>11, <1>12, <1>13 DEF Standing
<1> QED  BY <1>2, <1>6, <1>11, <1>14 DEF IInv

\* So it always holds.
LEMMA AlwaysStands == Spec => []IInv
<1>1. ASSUME IInv, [Next]_vars PROVE IInv'
  <2>1. CASE Receive
    BY <1>1, <2>1, ReceiveStands
  <2>2. CASE \E n \in 1 .. Len(inFlight) : Arrive(n)
    BY <1>1, <2>2, ArriveStands
  <2>3. CASE Next /\ ~Receive /\ ~\E n \in 1 .. Len(inFlight) : Arrive(n)
    BY <1>1, <2>3, PutEncodes, PutStands
  <2>4. CASE UNCHANGED vars
    <3>1. sent' = sent /\ inFlight' = inFlight /\ buffer' = buffer /\ received' = received
      BY <2>4 DEF vars
    <3>2. \A w, chunk, at : Standing(w, chunk, at) => Standing(w, chunk, at)'
      BY <3>1 DEF Standing
    <3> QED  BY <1>1, <3>1, <3>2 DEF IInv
  <2> QED  BY <1>1, <2>1, <2>2, <2>3, <2>4
<1> QED  BY <1>1, StartStands, PTL DEF Spec

\* For every range of bytes and every set of TLVs, long forms included: a receiver
\* that cuts the stream where read_tlv says has received what was sent, each TLV
\* once and in order (wire.rs 71-145).
THEOREM StreamInOrder == Spec => []ReceivedIsPrefix
<1>1. ASSUME IInv PROVE ReceivedIsPrefix
  <2>1. PICK w, chunk, at : Standing(w, chunk, at)
    BY <1>1 DEF IInv
  <2>2. /\ sent \in Seq(Item) /\ received \in Seq(Item) /\ Len(received) <= Len(sent)
        /\ \A i \in 1 .. Len(received) : received[i] = sent[i]
    BY <1>1, <2>1 DEF IInv, Standing
  <2>3. SubSeq(received, 1, Len(received)) = SubSeq(sent, 1, Len(received))
    <3>1. PICK r \in Nat : r = Len(received)
      BY <2>2
    <3>2. \A i \in 1 .. r : received[i] \in Item /\ sent[i] \in Item
      BY <2>2, <3>1
    <3>3. /\ SubSeq(received, 1, r) \in Seq(Item)
          /\ Len(SubSeq(received, 1, r)) = IF 1 <= r THEN r - 1 + 1 ELSE 0
          /\ \A i \in 1 .. r - 1 + 1 : SubSeq(received, 1, r)[i] = received[1 + i - 1]
      BY <3>2, SubSeqProperties
    <3>4. /\ SubSeq(sent, 1, r) \in Seq(Item)
          /\ Len(SubSeq(sent, 1, r)) = IF 1 <= r THEN r - 1 + 1 ELSE 0
          /\ \A i \in 1 .. r - 1 + 1 : SubSeq(sent, 1, r)[i] = sent[1 + i - 1]
      BY <3>2, SubSeqProperties
    <3>5. PICK a \in Seq(Item), b \in Seq(Item) :
            a = SubSeq(received, 1, r) /\ b = SubSeq(sent, 1, r)
      BY <3>3, <3>4
    <3>6. Len(a) = r /\ Len(b) = r /\ r - 1 + 1 = r /\ \A i \in 1 .. r : 1 + i - 1 = i
      BY <3>3, <3>4, <3>5
    <3>7. \A i \in 1 .. r : a[i] = received[i] /\ b[i] = sent[i]
      BY <3>3, <3>4, <3>5, <3>6
    <3>8. \A i \in 1 .. Len(a) : a[i] = b[i]
      BY <2>2, <3>1, <3>6, <3>7
    <3>9. a = b
      BY <3>6, <3>8, SeqEqual
    <3> QED  BY <3>1, <3>5, <3>9
  <2> QED  BY <2>2, <2>3 DEF ReceivedIsPrefix, IsPrefix
<1> QED  BY <1>1, AlwaysStands, PTL
=============================================================================
