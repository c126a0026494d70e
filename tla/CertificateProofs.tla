--------------------------- MODULE CertificateProofs ---------------------------
(***************************************************************************)
(* Proofs about certificates, for every set of chains, keys, entities,     *)
(* roles and certificates of another authority.                            *)
(***************************************************************************)
EXTENDS TestPki, WellFoundedInduction, SequenceTheorems, FiniteSetTheorems, TLAPS

-----------------------------------------------------------------------------
(* Sequences *)

\* Where the octets of two sequences are, one after the other.
LEMMA TwoParts ==
  ASSUME NEW a \in Seq(Octet), NEW b \in Seq(Octet)
  PROVE  /\ a \o b \in Seq(Octet)
         /\ Len(a \o b) = Len(a) + Len(b)
         /\ \A i \in 1 .. Len(a) : (a \o b)[i] = a[i]
         /\ \A i \in 1 .. Len(b) : (a \o b)[Len(a) + i] = b[i]
<1>1. /\ a \o b \in Seq(Octet) /\ Len(a \o b) = Len(a) + Len(b)
      /\ \A i \in 1 .. Len(a) + Len(b) : (a \o b)[i] = IF i <= Len(a) THEN a[i] ELSE b[i - Len(a)]
  BY ConcatProperties
<1>2. Len(a) \in Nat /\ Len(b) \in Nat
  OBVIOUS
<1>3. ASSUME NEW i \in 1 .. Len(a) PROVE (a \o b)[i] = a[i]
  BY <1>1, <1>2
<1>4. ASSUME NEW i \in 1 .. Len(b) PROVE (a \o b)[Len(a) + i] = b[i]
  <2>1. /\ Len(a) + i \in 1 .. Len(a) + Len(b) /\ ~(Len(a) + i <= Len(a))
        /\ (Len(a) + i) - Len(a) = i
    BY <1>2
  <2> QED  BY <1>1, <2>1
<1> QED  BY <1>1, <1>3, <1>4

\* n octets that follow m others.
LEMMA Slice ==
  ASSUME NEW q \in Seq(Octet), NEW m \in Nat, NEW n \in Nat, m + n <= Len(q)
  PROVE  /\ SubSeq(q, m + 1, m + n) \in Seq(Octet)
         /\ Len(SubSeq(q, m + 1, m + n)) = n
         /\ \A i \in 1 .. n : SubSeq(q, m + 1, m + n)[i] = q[m + i]
<1> DEFINE w == SubSeq(q, m + 1, m + n)
<1>1. /\ w \in Seq(Octet)
      /\ Len(w) = IF m + 1 <= m + n THEN (m + n) - (m + 1) + 1 ELSE 0
      /\ \A i \in 1 .. (m + n) - (m + 1) + 1 : w[i] = q[(m + 1) + i - 1]
  <2>1. m + 1 \in Int /\ m + n \in Int /\ \A i \in m + 1 .. m + n : q[i] \in Octet
    OBVIOUS
  <2> QED  BY <2>1, SubSeqProperties
<1> HIDE DEF w
<1>2. (IF m + 1 <= m + n THEN (m + n) - (m + 1) + 1 ELSE 0) = n /\ (m + n) - (m + 1) + 1 = n
  OBVIOUS
<1>3. ASSUME NEW i \in 1 .. n PROVE w[i] = q[m + i]
  <2>1. (m + 1) + i - 1 = m + i  OBVIOUS
  <2>2. i \in 1 .. (m + n) - (m + 1) + 1  BY <1>2
  <2> QED  BY <1>1, <2>1, <2>2
<1>4. w \in Seq(Octet) /\ Len(w) = n
  BY <1>1, <1>2
<1> QED  BY <1>3, <1>4 DEF w

\* A sequence that has the elements of another from some place on has it there.
LEMMA SliceIs ==
  ASSUME NEW q \in Seq(Octet), NEW v \in Seq(Octet), NEW m \in Nat, m + Len(v) <= Len(q),
         \A i \in 1 .. Len(v) : q[m + i] = v[i]
  PROVE  SubSeq(q, m + 1, m + Len(v)) = v
<1>1. PICK n \in Nat : n = Len(v)
  OBVIOUS
<1>2. PICK w \in Seq(Octet) : /\ w = SubSeq(q, m + 1, m + n) /\ Len(w) = n
                          /\ \A i \in 1 .. n : w[i] = q[m + i]
  BY <1>1, Slice
<1>3. w = v
  BY <1>1, <1>2, SeqEqual
<1> QED  BY <1>1, <1>2, <1>3

\* Either part of two can be cut out again.
LEMMA CutApart ==
  ASSUME NEW a \in Seq(Octet), NEW b \in Seq(Octet)
  PROVE  SubSeq(a \o b, 1, Len(a)) = a /\ From(a \o b, Len(a) + 1) = b
<1>0. PICK p : p = a \o b
  OBVIOUS
<1>1. /\ p \in Seq(Octet) /\ p = a \o b /\ Len(p) = Len(a) + Len(b)
      /\ \A i \in 1 .. Len(a) : p[i] = a[i]
      /\ \A i \in 1 .. Len(b) : p[Len(a) + i] = b[i]
  BY <1>0, TwoParts
<1>2. Len(a) \in Nat /\ Len(b) \in Nat
  OBVIOUS
<1>3. SubSeq(p, 0 + 1, 0 + Len(a)) = a
  <2>1. 0 \in Nat /\ 0 + Len(a) <= Len(p) /\ \A i \in 1 .. Len(a) : p[0 + i] = a[i]
    BY <1>1, <1>2
  <2> QED  BY <2>1, SliceIs
<1>4. SubSeq(p, Len(a) + 1, Len(a) + Len(b)) = b
  BY <1>1, <1>2, SliceIs
<1>5. 0 + 1 = 1 /\ 0 + Len(a) = Len(a)
  BY <1>2
<1> QED  BY <1>1, <1>3, <1>4, <1>5 DEF From

\* A sequence is its beginning and the rest.
LEMMA BeginningAndRest ==
  ASSUME NEW q \in Seq(Octet), NEW n \in 0 .. Len(q)
  PROVE  /\ SubSeq(q, 1, n) \in Seq(Octet) /\ Len(SubSeq(q, 1, n)) = n
         /\ From(q, n + 1) \in Seq(Octet) /\ Len(From(q, n + 1)) = Len(q) - n
         /\ \A i \in 1 .. Len(q) - n : From(q, n + 1)[i] = q[n + i]
         /\ q = SubSeq(q, 1, n) \o From(q, n + 1)
<1>1. PICK k \in Nat : k = Len(q) - n /\ n + k = Len(q) /\ n \in Nat /\ 0 + n <= Len(q)
  <2>1. Len(q) \in Nat /\ Len(q) - n \in Nat
    OBVIOUS
  <2> QED  BY <2>1
<1>2. /\ SubSeq(q, 0 + 1, 0 + n) \in Seq(Octet) /\ Len(SubSeq(q, 0 + 1, 0 + n)) = n
      /\ \A i \in 1 .. n : SubSeq(q, 0 + 1, 0 + n)[i] = q[0 + i]
  <2>1. 0 \in Nat  OBVIOUS
  <2> QED  BY <1>1, <2>1, Slice
<1>3. PICK a \in Seq(Octet) : a = SubSeq(q, 1, n) /\ Len(a) = n /\ \A i \in 1 .. n : a[i] = q[i]
  <2>1. 0 + 1 = 1 /\ 0 + n = n /\ \A i \in 1 .. n : 0 + i = i
    BY <1>1
  <2> QED  BY <1>2, <2>1
<1>4. PICK b \in Seq(Octet) : b = From(q, n + 1) /\ Len(b) = k /\ \A i \in 1 .. k : b[i] = q[n + i]
  <2>1. n + k <= Len(q)  BY <1>1
  <2>2. PICK b : b = SubSeq(q, n + 1, n + k)
    OBVIOUS
  <2>3. b \in Seq(Octet) /\ Len(b) = k /\ \A i \in 1 .. k : b[i] = q[n + i]
    BY <1>1, <2>1, <2>2, Slice
  <2>4. b = From(q, n + 1)
    BY <1>1, <2>2 DEF From
  <2> QED  BY <2>3, <2>4
<1>5. q = a \o b
  <2>0. PICK p \in Seq(Octet) : p = a \o b
    BY TwoParts
  <2>1. /\ p \in Seq(Octet) /\ p = a \o b /\ Len(p) = n + k
        /\ \A i \in 1 .. n : p[i] = a[i]
        /\ \A i \in 1 .. k : p[n + i] = b[i]
    <3>1. /\ Len(p) = Len(a) + Len(b)
          /\ \A i \in 1 .. Len(a) : p[i] = a[i]
          /\ \A i \in 1 .. Len(b) : p[Len(a) + i] = b[i]
      BY <2>0, TwoParts
    <3>2. Len(a) = n /\ Len(b) = k
      BY <1>3, <1>4
    <3> QED  BY <2>0, <3>1, <3>2
  <2>2. ASSUME NEW i \in 1 .. Len(q) PROVE p[i] = q[i]
    <3>1. CASE i <= n
      BY <1>1, <1>3, <2>1, <3>1
    <3>2. CASE i > n
      <4>1. PICK j \in 1 .. k : i = n + j
        BY <1>1, <3>2
      <4> QED  BY <1>4, <2>1, <4>1
    <3> QED  BY <1>1, <3>1, <3>2
  <2>3. p = q
    BY <1>1, <2>1, <2>2, SeqEqual
  <2> QED  BY <2>1, <2>3
<1> QED  BY <1>1, <1>3, <1>4, <1>5

-----------------------------------------------------------------------------
(* Recursion *)

\* A set that each number is in once the smaller ones are.
LEMMA Induction ==
  ASSUME NEW n \in Nat, NEW P,
         \A i \in 0 .. n : (\A j \in 0 .. n : j < i => j \in P) => i \in P
  PROVE  \A i \in 0 .. n : i \in P
<1> DEFINE T == {i \in 0 .. n : i \notin P}
<1>1. SUFFICES ASSUME T # {} PROVE FALSE
  OBVIOUS
<1>2. PICK m \in T : \A k \in T : ~ (<<k, m>> \in OpToRel(<, Nat))
  <2>1. T \subseteq Nat  OBVIOUS
  <2> HIDE DEF T
  <2> QED  BY <1>1, <2>1, NatLessThanWellFounded, WFMin
<1>3. m \in 0 .. n /\ m \notin P
  OBVIOUS
<1>4. ASSUME NEW j \in 0 .. n, j < m PROVE j \in P
  <2>0. <<j, m>> \in OpToRel(<, Nat)
    BY <1>3, <1>4 DEF OpToRel
  <2>1. j \notin T
    BY <1>2, <2>0
  <2> QED  BY <2>1
<1> HIDE DEF T
<1> QED  BY <1>3, <1>4

\* A set that has a place once it has all the later ones.
LEMMA FromTheEnd ==
  ASSUME NEW n \in Nat, NEW P,
         \A i \in 1 .. n + 1 : (\A j \in 1 .. n + 1 : i < j => j \in P) => i \in P
  PROVE  \A i \in 1 .. n + 1 : i \in P
<1> DEFINE Q == {k \in 0 .. n : n + 1 - k \in P}
<1>1. ASSUME NEW k \in 0 .. n, \A l \in 0 .. n : l < k => l \in Q PROVE k \in Q
  <2>1. ASSUME NEW j \in 1 .. n + 1, n + 1 - k < j PROVE j \in P
    <3>1. n + 1 - j \in 0 .. n /\ n + 1 - j < k /\ n + 1 - (n + 1 - j) = j
      BY <2>1
    <3> QED  BY <1>1, <3>1
  <2>2. n + 1 - k \in 1 .. n + 1
    OBVIOUS
  <2> QED  BY <2>1, <2>2
<1>2. \A k \in 0 .. n : k \in Q
  <2> HIDE DEF Q
  <2> QED  BY <1>1, Induction
<1>3. ASSUME NEW i \in 1 .. n + 1 PROVE i \in P
  <2>1. n + 1 - i \in 0 .. n /\ n + 1 - (n + 1 - i) = i
    OBVIOUS
  <2> QED  BY <1>2, <2>1
<1> QED  BY <1>3

\* A recursion that goes up by one, from 0 to n, and one that goes from the end to
\* the beginning by any steps.
GoesUp(n, S, init, g, f) ==
  f \in [0 .. n -> S] /\ f[0] = init /\ \A i \in 1 .. n : f[i] = g[<<i, f[i - 1]>>]
GoesBack(n, S, end, g, next, f) ==
  f \in [1 .. n + 1 -> S] /\ f[n + 1] = end /\ \A i \in 1 .. n : f[i] = g[<<i, f[next[i]]>>]

\* Both have a solution.
LEMMA Upwards ==
  ASSUME NEW n \in Nat, NEW S, NEW init \in S, NEW g \in [(1 .. n) \X S -> S]
  PROVE  \E f : GoesUp(n, S, init, g, f)
<1> DEFINE Solves(k, f) == /\ f \in [0 .. k -> S] /\ f[0] = init
                           /\ \A i \in 1 .. k : f[i] = g[<<i, f[i - 1]>>]
           P == {k \in 0 .. n : \E f : Solves(k, f)}
<1>1. ASSUME NEW k \in 0 .. n, \A l \in 0 .. n : l < k => l \in P PROVE k \in P
  <2>1. CASE k = 0
    <3>1. Solves(0, [i \in 0 .. 0 |-> init])
      OBVIOUS
    <3> QED  BY <2>1, <3>1
  <2>2. CASE k # 0
    <3>1. k - 1 \in 0 .. n /\ k - 1 < k /\ k \in 1 .. n
      BY <2>2
    <3>2. PICK f : Solves(k - 1, f)
      BY <1>1, <3>1
    <3>3. f[k - 1] \in S /\ g[<<k, f[k - 1]>>] \in S
      BY <3>1, <3>2
    <3> DEFINE h == [i \in 0 .. k |-> IF i = k THEN g[<<k, f[k - 1]>>] ELSE f[i]]
    <3>4. h \in [0 .. k -> S] /\ h[k] = g[<<k, f[k - 1]>>] /\ \A i \in 0 .. k - 1 : h[i] = f[i]
      <4>1. \A i \in 0 .. k : i # k => i \in 0 .. k - 1  BY <3>1
      <4> QED  BY <3>1, <3>2, <3>3, <4>1
    <3> HIDE DEF h
    <3>5. ASSUME NEW i \in 1 .. k PROVE h[i] = g[<<i, h[i - 1]>>]
      <4>1. i - 1 \in 0 .. k - 1  BY <3>1
      <4>2. CASE i = k  BY <3>4, <4>1, <4>2
      <4>3. CASE i # k
        <5>1. i \in 1 .. k - 1 /\ i \in 0 .. k - 1  BY <3>1, <4>3
        <5> QED  BY <3>2, <3>4, <4>1, <5>1
      <4> QED  BY <4>2, <4>3
    <3>6. h[0] = init
      <4>1. 0 \in 0 .. k - 1  BY <3>1
      <4> QED  BY <3>2, <3>4, <4>1
    <3>7. Solves(k, h)
      BY <3>4, <3>5, <3>6
    <3> QED  BY <3>7
  <2> QED  BY <2>1, <2>2
<1>2. n \in P
  <2>1. n \in 0 .. n  OBVIOUS
  <2> HIDE DEF P
  <2> QED  BY <1>1, <2>1, Induction
<1> QED  BY <1>2 DEF GoesUp

LEMMA Backwards ==
  ASSUME NEW n \in Nat, NEW S, NEW end \in S, NEW g \in [(1 .. n) \X S -> S],
         NEW next \in [1 .. n -> 1 .. n + 1], \A i \in 1 .. n : i < next[i]
  PROVE  \E f : GoesBack(n, S, end, g, next, f)
<1> DEFINE Solves(k, f) == /\ f \in [k .. n + 1 -> S] /\ f[n + 1] = end
                           /\ \A i \in k .. n : f[i] = g[<<i, f[next[i]]>>]
           P == {k \in 1 .. n + 1 : \E f : Solves(k, f)}
<1>1. ASSUME NEW k \in 1 .. n + 1, \A l \in 1 .. n + 1 : k < l => l \in P PROVE k \in P
  <2>1. CASE k = n + 1
    <3>1. Solves(n + 1, [i \in n + 1 .. n + 1 |-> end])
      OBVIOUS
    <3> QED  BY <2>1, <3>1
  <2>2. CASE k # n + 1
    <3>1. k + 1 \in 1 .. n + 1 /\ k < k + 1 /\ k \in 1 .. n
      BY <2>2
    <3>2. PICK f : Solves(k + 1, f)
      BY <1>1, <3>1
    <3>3. next[k] \in k + 1 .. n + 1
      BY <3>1
    <3>4. f[next[k]] \in S /\ g[<<k, f[next[k]]>>] \in S
      BY <3>1, <3>2, <3>3
    <3> DEFINE h == [i \in k .. n + 1 |-> IF i = k THEN g[<<k, f[next[k]]>>] ELSE f[i]]
    <3>5. h \in [k .. n + 1 -> S] /\ h[k] = g[<<k, f[next[k]]>>]
          /\ \A i \in k + 1 .. n + 1 : h[i] = f[i]
      <4>1. \A i \in k .. n + 1 : i # k => i \in k + 1 .. n + 1  BY <3>1
      <4>2. \A i \in k + 1 .. n + 1 : i \in k .. n + 1 /\ i # k  BY <3>1
      <4>3. k \in k .. n + 1  BY <3>1
      <4> QED  BY <3>2, <3>4, <4>1, <4>2, <4>3
    <3> HIDE DEF h
    <3>6. ASSUME NEW i \in k .. n PROVE h[i] = g[<<i, h[next[i]]>>]
      <4>1. CASE i = k
        BY <3>3, <3>5, <4>1
      <4>2. CASE i # k
        <5>1. i \in k + 1 .. n /\ i \in k + 1 .. n + 1 /\ i \in 1 .. n  BY <3>1, <4>2
        <5>2. next[i] \in k + 1 .. n + 1
          <6>1. next[i] \in 1 .. n + 1 /\ i < next[i]  BY <5>1
          <6> QED  BY <3>1, <5>1, <6>1
        <5> QED  BY <3>2, <3>5, <5>1, <5>2
      <4> QED  BY <4>1, <4>2
    <3>7. h[n + 1] = end
      <4>1. n + 1 \in k + 1 .. n + 1  BY <3>1
      <4> QED  BY <3>2, <3>5, <4>1
    <3>8. Solves(k, h)
      BY <3>5, <3>6, <3>7
    <3> QED  BY <3>8
  <2> QED  BY <2>1, <2>2
<1>2. 1 \in P
  <2>1. 1 \in 1 .. n + 1  OBVIOUS
  <2> HIDE DEF P
  <2> QED  BY <1>1, <2>1, FromTheEnd
<1> QED  BY <1>2 DEF GoesBack

-----------------------------------------------------------------------------
(* Numbers *)

\* What an octet can count, and what two can.
Base    == 256
Carried == 65536

LEMMA BaseFacts == Base \in Nat /\ Base > 130 /\ Carried \in Nat
  BY DEF Base, Carried

LEMMA Octets == \A n : n \in Octet <=> n \in Nat /\ n < Base
  BY DEF Octet, Base

\* What read_length adds up (x509.rs 827-830).
LEMMA BigEndianIs ==
  ASSUME NEW s \in Seq(Octet)
  PROVE  \E f \in [0 .. Len(s) -> Nat] :
           /\ BigEndian(s) = f[Len(s)] /\ f[0] = 0
           /\ \A i \in 1 .. Len(s) : f[i] = Base * f[i - 1] + s[i]
<1>1. PICK n \in Nat : n = Len(s)
  OBVIOUS
<1>2. \A i \in 1 .. n : s[i] \in Nat
  <2>1. \A i \in 1 .. n : s[i] \in Octet
    BY <1>1
  <2> QED  BY <2>1, Octets
<1> DEFINE Is(h) == h = [i \in 0 .. n |-> IF i = 0 THEN 0 ELSE Base * h[i - 1] + s[i]]
<1>3. \E h : Is(h)
  <2>1. PICK S : S = Nat
    OBVIOUS
  <2>2. PICK g \in [(1 .. n) \X S -> S] : \A i \in 1 .. n, k \in Nat : g[<<i, k>>] = Base * k + s[i]
    <3> DEFINE add == [p \in (1 .. n) \X Nat |-> Base * p[2] + s[p[1]]]
    <3>1. ASSUME NEW p \in (1 .. n) \X Nat PROVE Base * p[2] + s[p[1]] \in Nat
      <4>1. p[2] \in Nat /\ s[p[1]] \in Nat
        BY <1>2
      <4> QED  BY <4>1, BaseFacts
    <3>2. add \in [(1 .. n) \X S -> S]
      BY <2>1, <3>1
    <3>3. \A i \in 1 .. n, k \in Nat : add[<<i, k>>] = Base * k + s[i]
      OBVIOUS
    <3> HIDE DEF add
    <3> QED  BY <3>2, <3>3
  <2>3. PICK f \in [0 .. n -> Nat] : f[0] = 0 /\ \A i \in 1 .. n : f[i] = g[<<i, f[i - 1]>>]
    <3>1. PICK zero \in S : zero = 0
      BY <2>1
    <3>2. PICK f : GoesUp(n, S, zero, g, f)
      BY Upwards
    <3> QED  BY <2>1, <3>1, <3>2 DEF GoesUp
  <2>4. ASSUME NEW i \in 0 .. n PROVE f[i] = IF i = 0 THEN 0 ELSE Base * f[i - 1] + s[i]
    <3>1. CASE i = 0  BY <2>3, <3>1
    <3>2. CASE i # 0
      <4>1. i \in 1 .. n /\ i - 1 \in 0 .. n  BY <3>2
      <4>2. f[i - 1] \in Nat  BY <4>1
      <4> QED  BY <2>2, <2>3, <3>2, <4>1, <4>2
    <3> QED  BY <3>1, <3>2
  <2>5. f = [i \in 0 .. n |-> f[i]]
    OBVIOUS
  <2> QED  BY <2>4, <2>5
<1> DEFINE upTo[i \in 0 .. Len(s)] == IF i = 0 THEN 0 ELSE Base * upTo[i - 1] + s[i]
<1>4. BigEndian(s) = upTo[n]
  BY <1>1 DEF BigEndian, Base
<1>5. upTo = CHOOSE h : Is(h)
  BY <1>1
<1>6. Is(upTo)
  <2> HIDE DEF upTo, Is
  <2> QED  BY <1>3, <1>5
<1> HIDE DEF upTo
<1>7. /\ \A i \in 0 .. n : upTo[i] = IF i = 0 THEN 0 ELSE Base * upTo[i - 1] + s[i]
      /\ upTo = [i \in 0 .. n |-> upTo[i]]
  BY <1>6
<1>8. \A i \in 0 .. n : upTo[i] \in Nat
  <2> DEFINE P == {i \in 0 .. n : upTo[i] \in Nat}
  <2>1. ASSUME NEW i \in 0 .. n, \A j \in 0 .. n : j < i => j \in P PROVE i \in P
    <3>1. CASE i = 0  BY <1>7, <3>1
    <3>2. CASE i # 0
      <4>1. i \in 1 .. n /\ i - 1 \in 0 .. n /\ i - 1 < i  BY <3>2
      <4>2. upTo[i - 1] \in Nat  BY <2>1, <4>1
      <4>3. upTo[i] = Base * upTo[i - 1] + s[i]  BY <1>7, <3>2
      <4> QED  BY <1>2, <4>1, <4>2, <4>3, BaseFacts
    <3> QED  BY <3>1, <3>2
  <2>2. \A i \in 0 .. n : i \in P
    <3> HIDE DEF P
    <3> QED  BY <2>1, Induction
  <2> QED  BY <2>2
<1>9. upTo \in [0 .. n -> Nat]
  BY <1>7, <1>8
<1>10. upTo[0] = 0 /\ \A i \in 1 .. n : upTo[i] = Base * upTo[i - 1] + s[i]
  BY <1>7
<1> QED  BY <1>1, <1>4, <1>9, <1>10

\* No octets say nothing, one stands for itself, and of two the first is the higher.
LEMMA BigEndianOfFew ==
  ASSUME NEW s \in Seq(Octet)
  PROVE  /\ BigEndian(s) \in Nat
         /\ Len(s) = 1 => BigEndian(s) = s[1]
         /\ Len(s) = 2 => BigEndian(s) = Base * s[1] + s[2]
<1>1. PICK f \in [0 .. Len(s) -> Nat] : /\ BigEndian(s) = f[Len(s)] /\ f[0] = 0
                                        /\ \A i \in 1 .. Len(s) : f[i] = Base * f[i - 1] + s[i]
  BY BigEndianIs
<1>2. Len(s) \in 0 .. Len(s) /\ \A i \in 1 .. Len(s) : s[i] \in Octet
  OBVIOUS
<1>3. \A i \in 1 .. Len(s) : s[i] \in Nat
  BY <1>2, Octets
<1>4. ASSUME Len(s) >= 1 PROVE f[1] = s[1]
  <2>1. 1 \in 1 .. Len(s) /\ 1 - 1 = 0  BY <1>4
  <2>2. f[1] = Base * f[0] + s[1]  BY <1>1, <2>1
  <2> QED  BY <1>1, <1>3, <2>1, <2>2, BaseFacts
<1>5. ASSUME Len(s) >= 2 PROVE f[2] = Base * s[1] + s[2]
  <2>1. 2 \in 1 .. Len(s) /\ 2 - 1 = 1 /\ Len(s) >= 1  BY <1>5
  <2>2. f[2] = Base * f[1] + s[2]  BY <1>1, <2>1
  <2> QED  BY <1>4, <2>1, <2>2
<1> QED  BY <1>1, <1>2, <1>4, <1>5, SMTT(30)

-----------------------------------------------------------------------------
(* One TLV *)

\* The octets of s that q has, if it has any.
Agrees(q, s) == \A i \in 1 .. Len(s) : i <= Len(q) => q[i] = s[i]

\* A length and how it is written: its digits, and no leading zero among them.
LEMMA Digits ==
  ASSUME NEW n \in Nat, n >= Base, n < Carried
  PROVE  /\ n \div Base \in Nat /\ n \div Base > 0 /\ n \div Base < Base
         /\ (n \div Base) % Base = n \div Base
         /\ n % Base \in Nat /\ n % Base < Base /\ n = Base * (n \div Base) + (n % Base)
  BY DEF Base, Carried

LEMMA LengthOctets ==
  ASSUME NEW n \in Nat
  PROVE  DerLength(n) \in Seq(Octet) /\ Len(DerLength(n)) \in 1 .. 3
<1>1. DerLength(n) = IF n < 128 THEN <<n>>
                     ELSE IF n < Base THEN <<129, n>>
                     ELSE <<130, (n \div Base) % Base, n % Base>>
  BY DEF DerLength, Base
<1>2. /\ (n \div Base) % Base \in Nat /\ (n \div Base) % Base < Base
      /\ n % Base \in Nat /\ n % Base < Base
  BY DEF Base
<1>3. CASE n < 128
  <2>1. DerLength(n) = <<n>> /\ n \in Octet
    BY <1>1, <1>3, Octets, BaseFacts
  <2> QED  BY <2>1
<1>4. CASE n >= 128 /\ n < Base
  <2>1. DerLength(n) = <<129, n>> /\ n \in Octet /\ 129 \in Octet
    BY <1>1, <1>4, Octets, BaseFacts
  <2> QED  BY <2>1
<1>5. CASE n >= Base
  <2>1. /\ DerLength(n) = <<130, (n \div Base) % Base, n % Base>>
        /\ (n \div Base) % Base \in Octet /\ n % Base \in Octet /\ 130 \in Octet
    BY <1>1, <1>2, <1>5, Octets, BaseFacts
  <2> QED  BY <2>1
<1> QED  BY <1>3, <1>4, <1>5, BaseFacts

LEMMA Lengths ==
  ASSUME NEW n \in Nat, n < Carried
  PROVE  /\ DerLength(n) \in Seq(Octet)
         /\ \/ n < 128 /\ Len(DerLength(n)) = 1 /\ DerLength(n)[1] = n
            \/ Len(DerLength(n)) = 2 /\ DerLength(n)[1] = 129 /\ DerLength(n)[2] = n /\ n >= 128
            \/ /\ Len(DerLength(n)) = 3 /\ DerLength(n)[1] = 130 /\ n >= Base
               /\ DerLength(n)[2] = n \div Base /\ DerLength(n)[3] = n % Base
<1>0. DerLength(n) = IF n < 128 THEN <<n>>
                     ELSE IF n < Base THEN <<129, n>>
                     ELSE <<130, (n \div Base) % Base, n % Base>>
  BY DEF DerLength, Base
<1>1. CASE n < 128
  <2>1. DerLength(n) = <<n>> /\ n \in Octet
    BY <1>0, <1>1, Octets, BaseFacts
  <2> QED  BY <1>1, <2>1
<1>2. CASE n >= 128 /\ n < Base
  <2>1. DerLength(n) = <<129, n>> /\ n \in Octet /\ 129 \in Octet
    BY <1>0, <1>2, Octets, BaseFacts
  <2> QED  BY <1>2, <2>1
<1>3. CASE n >= Base
  <2>1. /\ DerLength(n) = <<130, n \div Base, n % Base>>
        /\ n \div Base \in Octet /\ n % Base \in Octet /\ 130 \in Octet
    BY <1>0, <1>3, Digits, Octets, BaseFacts
  <2> QED  BY <1>3, <2>1
<1> QED  BY <1>1, <1>2, <1>3, BaseFacts

\* A long form that has arrived in full.
LEMMA ReadLongForm ==
  ASSUME NEW q \in Seq(Octet), NEW c \in 1 .. 2, q[1] = 128 + c, Len(q) >= 1 + c, q[2] # 0
  PROVE  ReadLength(q) = Ok([len |-> BigEndian(SubSeq(q, 2, 1 + c)), used |-> 1 + c])
<1>1. PICK d : d = q[1] - 128
  OBVIOUS
<1>2. d = c
  BY <1>1
<1>3. ~(d = 0 \/ d > 4 \/ Len(q) < 1 + d)
  BY <1>2
<1>4. q # <<>> /\ ~(q[1] < 128)
  OBVIOUS
<1>5. ReadLength(q) =
        IF q = <<>> THEN Err("Certificate")
        ELSE IF q[1] < 128 THEN Ok([len |-> q[1], used |-> 1])
        ELSE IF d = 0 \/ d > 4 \/ Len(q) < 1 + d THEN Err("Certificate")
        ELSE IF q[2] = 0 THEN Err("Certificate")
        ELSE Ok([len |-> BigEndian(SubSeq(q, 2, 1 + d)), used |-> 1 + d])
  BY <1>1, Zenon DEF ReadLength
<1>6. ReadLength(q) = Ok([len |-> BigEndian(SubSeq(q, 2, 1 + d)), used |-> 1 + d])
  BY <1>3, <1>4, <1>5, Zenon
<1> QED  BY <1>2, <1>6, Zenon

\* read_length gives the length as soon as its octets are there, and nothing
\* before (x509.rs 805-832).
LEMMA ReadLengthPartial ==
  ASSUME NEW n \in Nat, n < Carried, NEW q \in Seq(Octet), Agrees(q, DerLength(n))
  PROVE  IF Len(q) >= Len(DerLength(n))
           THEN ReadLength(q) = Ok([len |-> n, used |-> Len(DerLength(n))])
           ELSE ~ReadLength(q).ok
<1>0. PICK s : s = DerLength(n)
  OBVIOUS
<1>1. s \in Seq(Octet) /\ s = DerLength(n) /\ Len(q) \in Nat
  BY <1>0, Lengths
<1>2. \/ n < 128 /\ Len(s) = 1 /\ s[1] = n
      \/ Len(s) = 2 /\ s[1] = 129 /\ s[2] = n /\ n >= 128
      \/ Len(s) = 3 /\ s[1] = 130 /\ n >= Base /\ s[2] = n \div Base /\ s[3] = n % Base
  BY <1>1, Lengths
<1>3. \A i \in 1 .. Len(s) : i <= Len(q) => q[i] = s[i]
  BY <1>1 DEF Agrees
<1>4. CASE q = <<>>
  <2>1. ~ReadLength(q).ok
    BY <1>4 DEF ReadLength, Err
  <2>2. Len(q) = 0 /\ ~(Len(q) >= Len(s))
    BY <1>1, <1>2, <1>4
  <2> QED  BY <1>1, <2>1, <2>2
<1>5. CASE q # <<>> /\ n < 128 /\ Len(s) = 1 /\ s[1] = n
  <2>1. Len(q) >= 1  BY <1>5
  <2>2. q[1] = n
    BY <1>3, <1>5, <2>1
  <2>3. ReadLength(q) = Ok([len |-> n, used |-> 1])
    BY <1>5, <2>2 DEF ReadLength
  <2> QED  BY <1>1, <1>5, <2>1, <2>3
<1>6. CASE q # <<>> /\ Len(s) = 2 /\ s[1] = 129 /\ s[2] = n /\ n >= 128
  <2>1. Len(q) >= 1  BY <1>6
  <2>2. q[1] = 129
    BY <1>3, <1>6, <2>1
  <2>3. CASE Len(q) < 2
    <3>1. ~ReadLength(q).ok
      BY <1>6, <2>2, <2>3 DEF ReadLength, Err
    <3> QED  BY <1>1, <1>6, <2>3, <3>1
  <2>4. CASE Len(q) >= 2
    <3>1. q[2] = n
      BY <1>3, <1>6, <2>4
    <3>2. /\ SubSeq(q, 2, 1 + 1) \in Seq(Octet) /\ Len(SubSeq(q, 2, 1 + 1)) = 1
          /\ SubSeq(q, 2, 1 + 1)[1] = q[2]
      BY <2>4
    <3>3. BigEndian(SubSeq(q, 2, 1 + 1)) = n
      <4>1. PICK b \in Seq(Octet) : b = SubSeq(q, 2, 1 + 1) /\ Len(b) = 1 /\ b[1] = q[2]
        BY <3>2
      <4> QED  BY <3>1, <4>1, BigEndianOfFew
    <3>4. ReadLength(q) = Ok([len |-> BigEndian(SubSeq(q, 2, 1 + 1)), used |-> 1 + 1])
      <4>1. 1 \in 1 .. 2 /\ q[1] = 128 + 1 /\ Len(q) >= 1 + 1 /\ q[2] # 0
        BY <1>6, <2>2, <2>4, <3>1
      <4> QED  BY <4>1, ReadLongForm, Zenon
    <3>5. ReadLength(q) = Ok([len |-> n, used |-> 2])
      BY <3>3, <3>4
    <3> QED  BY <1>1, <1>6, <2>4, <3>5
  <2> QED  BY <2>3, <2>4
<1>7. CASE /\ q # <<>> /\ Len(s) = 3 /\ s[1] = 130 /\ n >= Base
           /\ s[2] = n \div Base /\ s[3] = n % Base
  <2>1. Len(q) >= 1  BY <1>7
  <2>2. q[1] = 130
    BY <1>3, <1>7, <2>1
  <2>3. CASE Len(q) < 3
    <3>1. ~ReadLength(q).ok
      BY <1>7, <2>2, <2>3 DEF ReadLength, Err
    <3> QED  BY <1>1, <1>7, <2>3, <3>1
  <2>4. CASE Len(q) >= 3
    <3>1. q[2] = n \div Base /\ q[3] = n % Base
      BY <1>3, <1>7, <2>4
    <3>2. /\ SubSeq(q, 2, 1 + 2) \in Seq(Octet) /\ Len(SubSeq(q, 2, 1 + 2)) = 2
          /\ SubSeq(q, 2, 1 + 2)[1] = q[2] /\ SubSeq(q, 2, 1 + 2)[2] = q[3]
      BY <2>4
    <3>3. BigEndian(SubSeq(q, 2, 1 + 2)) = n
      <4>1. PICK b \in Seq(Octet) : b = SubSeq(q, 2, 1 + 2) /\ Len(b) = 2 /\ b[1] = q[2] /\ b[2] = q[3]
        BY <3>2
      <4>3. BigEndian(b) = Base * b[1] + b[2]
        BY <4>1, BigEndianOfFew
      <4>2. n = Base * (n \div Base) + (n % Base)
        BY <1>7, Digits
      <4> QED  BY <3>1, <4>1, <4>2, <4>3
    <3>4. ReadLength(q) = Ok([len |-> BigEndian(SubSeq(q, 2, 1 + 2)), used |-> 1 + 2])
      <4>1. n \div Base # 0
        BY <1>7, Digits
      <4>2. 2 \in 1 .. 2 /\ q[1] = 128 + 2 /\ Len(q) >= 1 + 2 /\ q[2] # 0
        BY <1>7, <2>2, <2>4, <3>1, <4>1
      <4> QED  BY <4>2, ReadLongForm, Zenon
    <3>5. ReadLength(q) = Ok([len |-> n, used |-> 3])
      BY <3>3, <3>4
    <3> QED  BY <1>1, <1>7, <2>4, <3>5
  <2> QED  BY <2>3, <2>4
<1> QED  BY <1>2, <1>4, <1>5, <1>6, <1>7

\* What a reader makes of a TLV.
Item(tag, value) == [tag |-> tag, value |-> value, used |-> Len(Tlv(tag, value))]

\* The octets of a TLV: one for the tag, those of the length, those of the value.
LEMMA TlvOctets ==
  ASSUME NEW tag \in Octet, NEW v \in Seq(Octet)
  PROVE  LET s == DerLength(Len(v))
         IN  /\ Tlv(tag, v) \in Seq(Octet)
             /\ Len(Tlv(tag, v)) = 1 + Len(s) + Len(v)
             /\ Tlv(tag, v)[1] = tag
             /\ \A i \in 1 .. Len(s) : Tlv(tag, v)[1 + i] = s[i]
             /\ \A i \in 1 .. Len(v) : Tlv(tag, v)[1 + Len(s) + i] = v[i]
<1>0. Len(v) \in Nat
  OBVIOUS
<1>1. PICK s \in Seq(Octet) : s = DerLength(Len(v))
  BY <1>0, LengthOctets
<1>2. Len(s) \in 1 .. 3
  BY <1>0, <1>1, LengthOctets
<1>3. PICK a \in Seq(Octet) : a = <<tag>>
  <2>1. <<tag>> \in Seq(Octet)
    OBVIOUS
  <2> QED  BY <2>1
<1>4. Len(a) = 1 /\ a[1] = tag
  BY <1>3
<1>5. PICK p \in Seq(Octet) : p = a \o s
  BY TwoParts
<1>6. /\ p \in Seq(Octet) /\ Len(p) = 1 + Len(s) /\ p[1] = tag
      /\ \A i \in 1 .. Len(s) : p[1 + i] = s[i]
  <2>1. /\ p \in Seq(Octet) /\ Len(p) = Len(a) + Len(s)
        /\ \A i \in 1 .. Len(a) : p[i] = a[i]
        /\ \A i \in 1 .. Len(s) : p[Len(a) + i] = s[i]
    BY <1>5, TwoParts
  <2>2. 1 \in 1 .. Len(a)
    BY <1>4
  <2> QED  BY <1>4, <2>1, <2>2
<1>7. PICK c \in Seq(Octet) : c = p \o v
  BY TwoParts
<1>8. /\ c \in Seq(Octet) /\ Len(c) = Len(p) + Len(v)
      /\ \A i \in 1 .. Len(p) : c[i] = p[i]
      /\ \A i \in 1 .. Len(v) : c[Len(p) + i] = v[i]
  BY <1>7, TwoParts
<1>9. c = Tlv(tag, v)
  BY <1>1, <1>3, <1>5, <1>7 DEF Tlv
<1>10. c[1] = tag
  BY <1>2, <1>6, <1>8
<1>11. ASSUME NEW i \in 1 .. Len(s) PROVE c[1 + i] = s[i]
  <2>1. 1 + i \in 1 .. Len(p)
    BY <1>2, <1>6
  <2> QED  BY <1>6, <1>8, <2>1
<1>12. \A i \in 1 .. Len(v) : c[1 + Len(s) + i] = v[i]
  BY <1>6, <1>8
<1> QED  BY <1>1, <1>6, <1>8, <1>9, <1>10, <1>11, <1>12

\* read_tlv_any returns what tlv wrote as soon as all of it is there, and until then
\* it fails (testpki.rs 511-531, x509.rs 778-832).
LEMMA ReadsWhatTlvWrote ==
  ASSUME NEW tag \in Octet, NEW v \in Seq(Octet), Len(v) < Carried,
         NEW q \in Seq(Octet), Agrees(q, Tlv(tag, v))
  PROVE  IF Len(q) >= Len(Tlv(tag, v))
           THEN ReadTlvAny(q) = Ok(Item(tag, v))
           ELSE ~ReadTlvAny(q).ok
<1>0. Len(v) \in Nat
  OBVIOUS
<1>1. PICK s \in Seq(Octet) : s = DerLength(Len(v))
  BY <1>0, Lengths
<1>2. PICK c \in Seq(Octet) : c = Tlv(tag, v)
  BY TlvOctets
<1>3. /\ s \in Seq(Octet) /\ Len(s) \in 1 .. 3 /\ Len(v) \in Nat /\ Len(q) \in Nat
      /\ c \in Seq(Octet) /\ Len(c) = 1 + Len(s) + Len(v) /\ c[1] = tag
      /\ \A i \in 1 .. Len(s) : c[1 + i] = s[i]
      /\ \A i \in 1 .. Len(v) : c[1 + Len(s) + i] = v[i]
  <2>1. Len(s) \in 1 .. 3
    BY <1>0, <1>1, Lengths
  <2>2. LET z == DerLength(Len(v))
        IN  /\ Tlv(tag, v) \in Seq(Octet)
            /\ Len(Tlv(tag, v)) = 1 + Len(z) + Len(v)
            /\ Tlv(tag, v)[1] = tag
            /\ \A i \in 1 .. Len(z) : Tlv(tag, v)[1 + i] = z[i]
            /\ \A i \in 1 .. Len(v) : Tlv(tag, v)[1 + Len(z) + i] = v[i]
    BY TlvOctets
  <2>3. /\ Len(c) = 1 + Len(s) + Len(v) /\ c[1] = tag
        /\ \A i \in 1 .. Len(s) : c[1 + i] = s[i]
        /\ \A i \in 1 .. Len(v) : c[1 + Len(s) + i] = v[i]
    BY <1>1, <1>2, <2>2
  <2>4. Len(q) \in Nat
    OBVIOUS
  <2> QED  BY <1>0, <2>1, <2>3, <2>4
<1>4. \A i \in 1 .. 1 + Len(s) + Len(v) : i <= Len(q) => q[i] = c[i]
  BY <1>2, <1>3 DEF Agrees
<1>5. CASE Len(q) < 2
  <2>1. ReadTlvAny(q) = Err("Certificate")
    BY <1>5 DEF ReadTlvAny
  <2>2. ~(Len(q) >= Len(c))
    BY <1>3, <1>5
  <2> QED  BY <1>2, <2>1, <2>2 DEF Err
<1>6. CASE Len(q) >= 2
  <2>1. PICK r : r = From(q, 2)
    OBVIOUS
  <2>2. r \in Seq(Octet) /\ Len(r) = Len(q) - 1 /\ \A i \in 1 .. Len(q) - 1 : r[i] = q[1 + i]
    <3>1. 1 \in 0 .. Len(q) /\ 1 + 1 = 2
      BY <1>3, <1>6
    <3>2. /\ From(q, 1 + 1) \in Seq(Octet) /\ Len(From(q, 1 + 1)) = Len(q) - 1
          /\ \A i \in 1 .. Len(q) - 1 : From(q, 1 + 1)[i] = q[1 + i]
      BY <3>1, BeginningAndRest
    <3> QED  BY <2>1, <3>1, <3>2
  <2>3. Agrees(r, s)
    <3>1. ASSUME NEW i \in 1 .. Len(s), i <= Len(r) PROVE r[i] = s[i]
      <4>1. 1 + i \in 1 .. 1 + Len(s) + Len(v) /\ 1 + i <= Len(q) /\ i \in 1 .. Len(q) - 1
        BY <1>3, <2>2, <3>1
      <4> QED  BY <1>3, <1>4, <2>2, <4>1
    <3> QED  BY <3>1 DEF Agrees
  <2>4. PICK length : length = ReadLength(r)
    OBVIOUS
  <2>5. IF Len(r) >= Len(s) THEN length = Ok([len |-> Len(v), used |-> Len(s)])
                            ELSE ~length.ok
    BY <1>1, <1>3, <2>2, <2>3, <2>4, ReadLengthPartial
  <2>6. ReadTlvAny(q) =
          IF ~length.ok THEN length
          ELSE IF Len(q) < 1 + length.val.used + length.val.len THEN Err("Certificate")
          ELSE Ok(TlvBetween(q, 1 + length.val.used, 1 + length.val.used + length.val.len))
    BY <1>6, <2>1, <2>4 DEF ReadTlvAny, IfOk
  <2>7. CASE Len(r) < Len(s)
    <3>1. ReadTlvAny(q) = length /\ ~length.ok
      BY <1>3, <2>2, <2>5, <2>6, <2>7
    <3>2. ~(Len(q) >= Len(c))
      BY <1>3, <2>2, <2>7
    <3> QED  BY <1>2, <3>1, <3>2
  <2>8. CASE Len(r) >= Len(s)
    <3>1. length.ok /\ length.val.used = Len(s) /\ length.val.len = Len(v)
      BY <2>5, <2>8 DEF Ok
    <3>2. ReadTlvAny(q) =
            IF Len(q) < 1 + Len(s) + Len(v) THEN Err("Certificate")
            ELSE Ok(TlvBetween(q, 1 + Len(s), 1 + Len(s) + Len(v)))
      BY <2>6, <3>1
    <3>3. CASE Len(q) < 1 + Len(s) + Len(v)
      <4>1. ReadTlvAny(q) = Err("Certificate")
        BY <3>2, <3>3
      <4> QED  BY <1>2, <1>3, <3>3, <4>1 DEF Err
    <3>4. CASE Len(q) >= 1 + Len(s) + Len(v)
      <4>1. ReadTlvAny(q) = Ok(TlvBetween(q, 1 + Len(s), 1 + Len(s) + Len(v)))
        BY <1>3, <3>2, <3>4
      <4>2. q[1] = tag
        <5>1. 1 \in 1 .. 1 + Len(s) + Len(v) /\ 1 <= Len(q)
          BY <1>3, <1>6
        <5> QED  BY <1>3, <1>4, <5>1
      <4>3. SubSeq(q, 1 + Len(s) + 1, 1 + Len(s) + Len(v)) = v
        <5>1. PICK m \in Nat : m = 1 + Len(s)
          BY <1>3
        <5>2. \A i \in 1 .. Len(v) : q[m + i] = v[i]
          BY <1>3, <1>4, <3>4, <5>1
        <5>3. m + Len(v) <= Len(q)
          BY <3>4, <5>1
        <5> QED  BY <5>1, <5>2, <5>3, SliceIs
      <4>4. TlvBetween(q, 1 + Len(s), 1 + Len(s) + Len(v)) = Item(tag, v)
        BY <1>2, <1>3, <4>2, <4>3 DEF TlvBetween, Item
      <4> QED  BY <1>2, <1>3, <3>4, <4>1, <4>4
    <3> QED  BY <1>3, <3>3, <3>4
  <2> QED  BY <1>3, <2>2, <2>7, <2>8
<1> QED  BY <1>3, <1>5, <1>6

\* read_tlv is read_tlv_any for one tag.
LEMMA ReadTlvIs ==
  ASSUME NEW q, NEW expected
  PROVE  /\ ReadTlvAny(q).ok => ReadTlvAny(q) = Ok(ReadTlvAny(q).val)
         /\ ReadTlv(q, expected).ok <=> ReadTlvAny(q).ok /\ ReadTlvAny(q).val.tag = expected
         /\ ReadTlv(q, expected).ok => ReadTlv(q, expected) = ReadTlvAny(q)
         /\ ReadTlv(q, expected).ok \in BOOLEAN
<1>1. PICK r : r = ReadTlvAny(q)
  OBVIOUS
<1>2. r.ok = FALSE \/ r = Ok(r.val)
  <2>1. PICK length : length = ReadLength(From(q, 2))
    OBVIOUS
  <2>2. \/ length = Ok(length.val)
        \/ length = Err("Certificate")
    <3>1. \A a, b : Ok(a).val = a
      BY DEF Ok
    <3> QED  BY <2>1, <3>1 DEF ReadLength
  <2>3. r = IF Len(q) < 2 THEN Err("Certificate")
            ELSE IF ~length.ok THEN length
            ELSE IF Len(q) < 1 + length.val.used + length.val.len THEN Err("Certificate")
            ELSE Ok(TlvBetween(q, 1 + length.val.used, 1 + length.val.used + length.val.len))
    BY <1>1, <2>1 DEF ReadTlvAny, IfOk
  <2>4. Err("Certificate").ok = FALSE /\ \A v : Ok(v).ok = TRUE /\ Ok(v).val = v
    BY DEF Ok, Err
  <2> QED  BY <2>2, <2>3, <2>4
<1>3. ReadTlv(q, expected) = IF ~r.ok THEN r
                             ELSE IF r.val.tag # expected THEN Err("Certificate")
                             ELSE Ok(r.val)
  BY <1>1 DEF ReadTlv, IfOk
<1>4. Err("Certificate").ok = FALSE /\ \A v : Ok(v).ok = TRUE /\ Ok(v).val = v
  BY DEF Ok, Err
<1> QED  BY <1>1, <1>2, <1>3, <1>4

\* What is read is what was written, whatever follows, and what follows is where
\* the reader says.
LEMMA ReadsFirst ==
  ASSUME NEW tag \in Octet, NEW v \in Seq(Octet), Len(v) < Carried, NEW rest \in Seq(Octet)
  PROVE  LET q == Tlv(tag, v) \o rest
         IN  /\ ReadTlvAny(q) = Ok(Item(tag, v))
             /\ ReadTlv(q, tag) = Ok(Item(tag, v))
             /\ \A expected : expected # tag => ~ReadTlv(q, expected).ok
             /\ From(q, Item(tag, v).used + 1) = rest
<1>1. PICK c \in Seq(Octet) : c = Tlv(tag, v)
  BY TlvOctets
<1>2. PICK q \in Seq(Octet) : /\ q = c \o rest /\ Len(q) = Len(c) + Len(rest)
                              /\ \A i \in 1 .. Len(c) : q[i] = c[i]
  BY TwoParts
<1>3. Len(c) \in Nat /\ Len(rest) \in Nat
  OBVIOUS
<1>4. Agrees(q, c) /\ Len(q) >= Len(c)
  BY <1>2, <1>3 DEF Agrees
<1>5. ReadTlvAny(q) = Ok(Item(tag, v))
  BY <1>1, <1>4, ReadsWhatTlvWrote
<1>6. ReadTlvAny(q).ok /\ ReadTlvAny(q).val.tag = tag
  BY <1>5 DEF Ok, Item
<1>7. ReadTlv(q, tag) = Ok(Item(tag, v)) /\ \A expected : expected # tag => ~ReadTlv(q, expected).ok
  BY <1>5, <1>6, ReadTlvIs
<1>8. From(q, Len(c) + 1) = rest
  BY <1>2, CutApart
<1>9. Item(tag, v).used = Len(c)
  BY <1>1 DEF Item
<1> QED  BY <1>1, <1>2, <1>5, <1>7, <1>8, <1>9

\* And if nothing follows.
LEMMA ReadsOnly ==
  ASSUME NEW tag \in Octet, NEW v \in Seq(Octet), Len(v) < Carried
  PROVE  /\ ReadTlvAny(Tlv(tag, v)) = Ok(Item(tag, v))
         /\ ReadTlv(Tlv(tag, v), tag) = Ok(Item(tag, v))
         /\ \A expected : expected # tag => ~ReadTlv(Tlv(tag, v), expected).ok
<1>1. PICK c \in Seq(Octet) : c = Tlv(tag, v)
  BY TlvOctets
<1>2. Agrees(c, c) /\ Len(c) >= Len(c)
  BY DEF Agrees
<1>3. ReadTlvAny(c) = Ok(Item(tag, v))
  BY <1>1, <1>2, ReadsWhatTlvWrote
<1>4. ReadTlvAny(c).ok /\ ReadTlvAny(c).val.tag = tag
  BY <1>3 DEF Ok, Item
<1> QED  BY <1>1, <1>3, <1>4, ReadTlvIs

\* The length that is read is a number, and where it ends is.
LEMMA ReadLengthIs ==
  ASSUME NEW q \in Seq(Octet), ReadLength(q).ok
  PROVE  /\ ReadLength(q).val.len \in Nat
         /\ ReadLength(q).val.used \in Nat /\ ReadLength(q).val.used >= 1
<1>1. q # <<>>
  BY DEF ReadLength, Err
<1>2. q[1] \in Nat
  <2>1. q[1] \in Octet  BY <1>1
  <2> QED  BY <2>1, Octets
<1>3. PICK d \in Int : d = q[1] - 128
  BY <1>2
<1>4. CASE q[1] < 128
  <2>1. ReadLength(q) = Ok([len |-> q[1], used |-> 1])
    BY <1>1, <1>4 DEF ReadLength
  <2> QED  BY <1>2, <2>1 DEF Ok
<1>5. CASE ~(q[1] < 128)
  <2>1. ReadLength(q) =
          IF d = 0 \/ d > 4 \/ Len(q) < 1 + d THEN Err("Certificate")
          ELSE IF q[2] = 0 THEN Err("Certificate")
          ELSE Ok([len |-> BigEndian(SubSeq(q, 2, 1 + d)), used |-> 1 + d])
    <3>1. ReadLength(q) =
            IF q = <<>> THEN Err("Certificate")
            ELSE IF q[1] < 128 THEN Ok([len |-> q[1], used |-> 1])
            ELSE IF d = 0 \/ d > 4 \/ Len(q) < 1 + d THEN Err("Certificate")
            ELSE IF q[2] = 0 THEN Err("Certificate")
            ELSE Ok([len |-> BigEndian(SubSeq(q, 2, 1 + d)), used |-> 1 + d])
      BY <1>3, Zenon DEF ReadLength
    <3> QED  BY <1>1, <1>5, <3>1, Zenon
  <2>2. ~(d = 0 \/ d > 4 \/ Len(q) < 1 + d)
    BY <2>1 DEF Err
  <2>3. ReadLength(q) = Ok([len |-> BigEndian(SubSeq(q, 2, 1 + d)), used |-> 1 + d])
    BY <2>1, <2>2 DEF Err
  <2>4. d \in Nat /\ d >= 1 /\ 1 + d <= Len(q)
    BY <1>2, <1>3, <1>5, <2>2
  <2>5. SubSeq(q, 1 + 1, 1 + d) \in Seq(Octet)
    BY <2>4, Slice
  <2>6. BigEndian(SubSeq(q, 2, 1 + d)) \in Nat
    <3>1. PICK b \in Seq(Octet) : b = SubSeq(q, 2, 1 + d)
      <4>1. 1 + 1 = 2  OBVIOUS
      <4>2. SubSeq(q, 2, 1 + d) \in Seq(Octet)  BY <2>5, <4>1
      <4> QED  BY <4>2
    <3> QED  BY <3>1, BigEndianOfFew
  <2> QED  BY <2>3, <2>4, <2>6 DEF Ok
<1> QED  BY <1>4, <1>5

\* Whatever is read lies within the octets that it is read from: after a header of at
\* least two octets, up to where the reader says (x509.rs 778-803).
LEMMA ReadsWithin ==
  ASSUME NEW q \in Seq(Octet), ReadTlvAny(q).ok
  PROVE  \E h \in Nat, u \in Nat :
           /\ 2 <= h /\ h <= u /\ u <= Len(q)
           /\ ReadTlvAny(q) = Ok([tag |-> q[1], value |-> SubSeq(q, h + 1, u), used |-> u])
<1>1. Len(q) >= 2
  <2>1. ASSUME Len(q) < 2 PROVE FALSE
    <3>1. ReadTlvAny(q) = Err("Certificate")
      BY <2>1 DEF ReadTlvAny
    <3> QED  BY <3>1 DEF Err
  <2>2. Len(q) \in Nat
    OBVIOUS
  <2> QED  BY <2>1, <2>2
<1>2. PICK r \in Seq(Octet) : r = From(q, 2)
  <2>1. 1 \in 0 .. Len(q) /\ 1 + 1 = 2
    BY <1>1
  <2>2. From(q, 1 + 1) \in Seq(Octet)
    BY <2>1, BeginningAndRest
  <2> QED  BY <2>1, <2>2
<1>3. PICK length : length = ReadLength(r)
  OBVIOUS
<1>4. ReadTlvAny(q) =
        IF ~length.ok THEN length
        ELSE IF Len(q) < 1 + length.val.used + length.val.len THEN Err("Certificate")
        ELSE Ok(TlvBetween(q, 1 + length.val.used, 1 + length.val.used + length.val.len))
  BY <1>1, <1>2, <1>3 DEF ReadTlvAny, IfOk
<1>5. length.ok
  BY <1>4
<1>6. PICK n \in Nat, k \in Nat : n = length.val.len /\ k = length.val.used /\ k >= 1
  BY <1>3, <1>5, ReadLengthIs
<1>7. ReadTlvAny(q) = IF Len(q) < 1 + k + n THEN Err("Certificate")
                      ELSE Ok(TlvBetween(q, 1 + k, 1 + k + n))
  BY <1>4, <1>5, <1>6
<1>8. 1 + k + n <= Len(q)
  BY <1>6, <1>7 DEF Err
<1>9. ReadTlvAny(q) = Ok(TlvBetween(q, 1 + k, 1 + k + n))
  BY <1>7, <1>8
<1>10. PICK h \in Nat, u \in Nat : h = 1 + k /\ u = 1 + k + n
  OBVIOUS
<1>11. /\ 2 <= h /\ h <= u /\ u <= Len(q)
       /\ ReadTlvAny(q) = Ok([tag |-> q[1], value |-> SubSeq(q, h + 1, u), used |-> u])
  <2>1. 2 <= h /\ h <= u /\ u <= Len(q)
    BY <1>6, <1>8, <1>10, SMTT(30)
  <2>2. TlvBetween(q, h, u) = [tag |-> q[1], value |-> SubSeq(q, h + 1, u), used |-> u]
    BY Zenon DEF TlvBetween
  <2>3. ReadTlvAny(q) = Ok(TlvBetween(q, h, u))
    BY <1>9, <1>10
  <2> QED  BY <2>1, <2>2, <2>3
<1> QED  BY <1>11

-----------------------------------------------------------------------------
(* The octets of a certificate *)

LEMMA Tags ==
  /\ {SEQUENCE, SET, OID, INTEGER, BOOLEAN_TAG, BIT_STRING, OCTETS, NULL, UTF8, UTC_TIME,
      VERSION, EXTENSIONS, KEY_ID, REGISTERED} \subseteq Octet
  /\ \A n \in 0 .. 200 : n \in Octet
  /\ <<>> \in Seq(Octet)
<1>1. \A n \in 0 .. 200 : n \in Octet
  BY DEF Octet
<1>2. 255 \in Octet
  BY DEF Octet
<1> QED  BY <1>1 DEF SEQUENCE, SET, OID, INTEGER, BOOLEAN_TAG, BIT_STRING, OCTETS, NULL, UTF8,
                 UTC_TIME, VERSION, EXTENSIONS, KEY_ID, REGISTERED

LEMMA TlvTyped ==
  ASSUME NEW tag \in Octet, NEW v \in Seq(Octet)
  PROVE  /\ Tlv(tag, v) \in Seq(Octet) /\ Len(Tlv(tag, v)) >= Len(v) + 2
         /\ Len(Tlv(tag, v)) <= Len(v) + 4 /\ Tlv(tag, v)[1] = tag
<1>1. PICK s \in Seq(Octet) : s = DerLength(Len(v)) /\ Len(s) \in 1 .. 3
  <2>1. Len(v) \in Nat  OBVIOUS
  <2> QED  BY <2>1, LengthOctets
<1>2. /\ Tlv(tag, v) \in Seq(Octet) /\ Tlv(tag, v)[1] = tag
      /\ Len(Tlv(tag, v)) = 1 + Len(s) + Len(v)
  BY <1>1, TlvOctets
<1>3. PICK n \in Nat, k \in 1 .. 3 : n = Len(v) /\ k = Len(s)
  BY <1>1
<1>4. 1 + k + n >= n + 2 /\ 1 + k + n <= n + 4
  OBVIOUS
<1> QED  BY <1>2, <1>3, <1>4

LEMMA JoinedTwice ==
  ASSUME NEW a \in Seq(Octet), NEW b \in Seq(Octet), NEW c \in Seq(Octet)
  PROVE  (a \o b) \o c = a \o (b \o c)
  BY ConcatAssociative

LEMMA Joined ==
  ASSUME NEW a \in Seq(Octet), NEW b \in Seq(Octet)
  PROVE  a \o b \in Seq(Octet)
  BY TwoParts

\* Brackets may be moved.  An operator of its own keeps the provers from looking into
\* every sequence on the way.
Then(x, y) == x \o y

LEMMA ThenIs ==
  ASSUME NEW a \in Seq(Octet), NEW b \in Seq(Octet)
  PROVE  Then(a, b) \in Seq(Octet)
  BY Joined DEF Then

LEMMA ThenThen ==
  ASSUME NEW a \in Seq(Octet), NEW b \in Seq(Octet), NEW c \in Seq(Octet)
  PROVE  Then(Then(a, b), c) = Then(a, Then(b, c))
  BY JoinedTwice DEF Then

\* Sequences of octets, one after the other; the first octet is the first one's.
LEMMA Flattened ==
  ASSUME NEW s \in Seq(Seq(Octet))
  PROVE  /\ FlattenSeq(s) \in Seq(Octet)
         /\ s # <<>> /\ Len(s[1]) >= 1 =>
              Len(FlattenSeq(s)) >= 1 /\ FlattenSeq(s)[1] = s[1][1]
<1>1. CASE Len(s) = 0
  <2>1. s = <<>> /\ FlattenSeq(s) = s
    BY <1>1 DEF FlattenSeq
  <2>2. <<>> \in Seq(Octet)
    OBVIOUS
  <2>3. FlattenSeq(s) = <<>>
    BY <2>1
  <2> QED  BY <2>1, <2>2, <2>3
<1>2. CASE Len(s) # 0
  <2>1. PICK n \in Nat : n + 1 = Len(s) /\ \A i \in 1 .. n + 1 : s[i] \in Seq(Octet)
    <3>1. Len(s) - 1 \in Nat /\ (Len(s) - 1) + 1 = Len(s) /\ \A i \in 1 .. Len(s) : s[i] \in Seq(Octet)
      BY <1>2
    <3> QED  BY <3>1
  <2> DEFINE Is(h) == h = [i \in 1 .. Len(s) |-> IF i = 1 THEN s[i] ELSE h[i - 1] \o s[i]]
             flatten[i \in 1 .. Len(s)] == IF i = 1 THEN s[i] ELSE flatten[i - 1] \o s[i]
  <2>2. FlattenSeq(s) = flatten[Len(s)]
    BY <1>2 DEF FlattenSeq
  <2>3. flatten = CHOOSE h : Is(h)
    OBVIOUS
  <2>4. \E h : Is(h)
    <3>1. PICK S : S = Seq(Octet)
      OBVIOUS
    <3>2. PICK g \in [(1 .. n) \X S -> S] : \A i \in 1 .. n, o \in S : g[<<i, o>>] = o \o s[i + 1]
      <4> DEFINE add == [p \in (1 .. n) \X S |-> p[2] \o s[p[1] + 1]]
      <4>1. ASSUME NEW p \in (1 .. n) \X S PROVE p[2] \o s[p[1] + 1] \in S
        <5>1. PICK a \in Seq(Octet), b \in Seq(Octet) : a = p[2] /\ b = s[p[1] + 1]
          BY <2>1, <3>1
        <5>2. a \o b \in Seq(Octet)
          BY Joined
        <5> QED  BY <3>1, <5>1, <5>2
      <4>2. add \in [(1 .. n) \X S -> S]
        BY <4>1
      <4>3. \A i \in 1 .. n, o \in S : add[<<i, o>>] = o \o s[i + 1]
        OBVIOUS
      <4> HIDE DEF add
      <4> QED  BY <4>2, <4>3
    <3>3. PICK init \in S : init = s[1]
      BY <2>1, <3>1
    <3>4. PICK f : GoesUp(n, S, init, g, f)
      BY Upwards
    <3> DEFINE h == [i \in 1 .. Len(s) |-> f[i - 1]]
    <3>5. ASSUME NEW i \in 1 .. Len(s)
          PROVE  h[i] = IF i = 1 THEN s[i] ELSE h[i - 1] \o s[i]
      <4>1. CASE i = 1
        BY <3>3, <3>4, <4>1 DEF GoesUp
      <4>2. CASE i # 1
        <5>1. i - 1 \in 1 .. n /\ i - 1 \in 1 .. Len(s) /\ (i - 1) + 1 = i
              /\ (i - 1) - 1 \in 0 .. n
          BY <2>1, <4>2
        <5>2. f[i - 1] = g[<<i - 1, f[(i - 1) - 1]>>] /\ f[(i - 1) - 1] \in S
          BY <3>4, <5>1 DEF GoesUp
        <5>3. f[i - 1] = f[(i - 1) - 1] \o s[i]
          BY <3>2, <5>1, <5>2
        <5>4. h[i] = f[i - 1] /\ h[i - 1] = f[(i - 1) - 1]
          BY <5>1
        <5> QED  BY <4>2, <5>3, <5>4
      <4> QED  BY <4>1, <4>2
    <3>6. h = [i \in 1 .. Len(s) |-> h[i]]
      OBVIOUS
    <3> HIDE DEF h
    <3> QED  BY <3>5, <3>6, ZenonT(60)
  <2>5. Is(flatten)
    <3> HIDE DEF flatten, Is
    <3> QED  BY <2>3, <2>4
  <2> HIDE DEF flatten
  <2>6. \A i \in 1 .. n + 1 : flatten[i] = IF i = 1 THEN s[i] ELSE flatten[i - 1] \o s[i]
    BY <2>1, <2>5
  <2> DEFINE Good(o) == /\ o \in Seq(Octet)
                        /\ Len(s[1]) >= 1 => Len(o) >= 1 /\ o[1] = s[1][1]
             P == {i \in 0 .. n : Good(flatten[i + 1])}
  <2>7. ASSUME NEW i \in 0 .. n, \A j \in 0 .. n : j < i => j \in P PROVE i \in P
    <3>1. CASE i = 0
      <4>1. flatten[1] = s[1] /\ s[1] \in Seq(Octet)
        BY <2>1, <2>6
      <4> QED  BY <3>1, <4>1
    <3>2. CASE i # 0
      <4>1. i - 1 \in 0 .. n /\ i - 1 < i /\ (i - 1) + 1 = i /\ i + 1 \in 1 .. n + 1
            /\ (i + 1) - 1 = i /\ i + 1 # 1
        BY <3>2
      <4>2. Good(flatten[i])
        BY <2>7, <4>1
      <4>3. PICK a \in Seq(Octet), b \in Seq(Octet) : a = flatten[i] /\ b = s[i + 1]
        BY <2>1, <4>1, <4>2
      <4>4. flatten[i + 1] = a \o b
        BY <2>6, <4>1, <4>3
      <4>5. /\ a \o b \in Seq(Octet) /\ Len(a \o b) = Len(a) + Len(b)
            /\ \A k \in 1 .. Len(a) : (a \o b)[k] = a[k]
        BY TwoParts
      <4>6. Len(a) >= 1 => Len(a \o b) >= 1 /\ (a \o b)[1] = a[1]
        BY <4>5
      <4>7. Good(flatten[i + 1])
        BY <4>2, <4>3, <4>4, <4>5, <4>6
      <4> QED  BY <4>7
    <3> QED  BY <3>1, <3>2
  <2>8. n \in P
    <3>1. n \in 0 .. n  OBVIOUS
    <3> HIDE DEF P
    <3> QED  BY <2>7, <3>1, Induction
  <2> QED  BY <2>1, <2>2, <2>8
<1> QED  BY <1>1, <1>2

\* A Name is a SEQUENCE of SETs (testpki.rs).
LEMMA NameIs ==
  ASSUME NEW attributes \in Attributes
  PROVE  \E v \in Seq(Octet) : /\ Name(attributes) = Tlv(SEQUENCE, v)
                               /\ v = <<>> \/ v[1] = SET
<1> DEFINE Rdn(a) == Tlv(SET, Tlv(SEQUENCE, Tlv(OID, a.oid) \o Tlv(a.tag, a.value)))
           s == [i \in DOMAIN attributes |-> Rdn(attributes[i])]
<1>1. Name(attributes) = Tlv(SEQUENCE, FlattenSeq(s))
  BY DEF Name
<1>2. ASSUME NEW i \in DOMAIN attributes
      PROVE  /\ Rdn(attributes[i]) \in Seq(Octet)
             /\ Len(Rdn(attributes[i])) >= 1 /\ Rdn(attributes[i])[1] = SET
  <2>1. PICK oid \in Seq(Octet), tag \in Octet, value \in Seq(Octet) :
          oid = attributes[i].oid /\ tag = attributes[i].tag /\ value = attributes[i].value
    <3>1. PICK R : R = [oid : Seq(Octet), tag : Octet, value : Seq(Octet)]
      OBVIOUS
    <3>2. attributes[i] \in R
      <4>1. attributes \in Seq(R)
        BY <3>1 DEF Attributes
      <4> QED  BY <4>1
    <3> HIDE DEF Rdn, s
    <3> QED  BY <3>1, <3>2
  <2>2. PICK a \in Seq(Octet) : a = Tlv(OID, oid)
    BY Tags, TlvTyped
  <2>3. PICK b \in Seq(Octet) : b = Tlv(tag, value)
    BY TlvTyped
  <2>4. PICK c \in Seq(Octet) : c = a \o b
    BY Joined
  <2>5. PICK d \in Seq(Octet) : d = Tlv(SEQUENCE, c)
    BY Tags, TlvTyped
  <2>6. Tlv(SET, d) \in Seq(Octet) /\ Len(Tlv(SET, d)) >= Len(d) + 2 /\ Tlv(SET, d)[1] = SET
    BY Tags, TlvTyped
  <2>7. Rdn(attributes[i]) = Tlv(SET, d)
    BY <2>1, <2>2, <2>3, <2>4, <2>5
  <2>8. Len(d) \in Nat
    OBVIOUS
  <2> HIDE DEF Rdn
  <2> QED  BY <2>6, <2>7, <2>8
<1>3. s \in Seq(Seq(Octet)) /\ Len(s) = Len(attributes) /\ \A i \in 1 .. Len(s) : s[i] = Rdn(attributes[i])
  <2>1. DOMAIN attributes = 1 .. Len(attributes) /\ Len(attributes) \in Nat
    BY DEF Attributes
  <2> HIDE DEF Rdn
  <2> QED  BY <1>2, <2>1
<1> HIDE DEF s
<1>4. PICK v \in Seq(Octet) : v = FlattenSeq(s)
  BY <1>3, Flattened
<1>5. v = <<>> \/ v[1] = SET
  <2>1. CASE s = <<>>
    BY <1>4, <2>1 DEF FlattenSeq
  <2>2. CASE s # <<>>
    <3>1. 1 \in 1 .. Len(s)
      BY <1>3, <2>2
    <3>2. 1 \in DOMAIN attributes
      <4>1. DOMAIN attributes = 1 .. Len(attributes)
        BY DEF Attributes
      <4> QED  BY <1>3, <3>1, <4>1
    <3>3. Len(s[1]) >= 1 /\ s[1][1] = SET
      <4> HIDE DEF Rdn
      <4> QED  BY <1>2, <1>3, <3>1, <3>2
    <3>4. v[1] = s[1][1]
      BY <1>3, <1>4, <2>2, <3>3, Flattened
    <3> QED  BY <3>3, <3>4
  <2> QED  BY <2>1, <2>2
<1> QED  BY <1>1, <1>4, <1>5

\* The identifiers are octets.
LEMMA Identifiers ==
  /\ RSP_ROLE_OIDS \subseteq Seq(Octet)
  /\ {EUM_SAN_OID, EUICC_SAN_OID, CI_SAN_OID, ID_EC_PUBLIC_KEY} \subseteq Seq(Octet)
  /\ {OID_SUBJECT_KEY_IDENTIFIER, OID_SUBJECT_ALT_NAME, OID_CERTIFICATE_POLICIES,
      OID_AUTHORITY_KEY_IDENTIFIER} \subseteq Seq(Octet)
  /\ \A curve \in CurveKind : CurveOid(curve) \in Seq(Octet)
<1>1. {0, 1, 2, 3, 4, 5, 6, 7, 8, 14, 17, 29, 32, 35, 55, 85, 103, 104, 105, 131} \subseteq Octet
  BY Tags
<1>2. OID \in Octet
  BY Tags
<1>3. /\ AuthRoles \subseteq Seq(Octet) /\ PbRoles \subseteq Seq(Octet)
      /\ {OID_RSP_ROLE_CI, OID_RSP_ROLE_CI_SUB_CA, OID_RSP_ROLE_EUM, OID_RSP_ROLE_EUM_SUB_CA,
          OID_RSP_ROLE_EUICC} \subseteq Seq(Octet)
  BY <1>1 DEF AuthRoles, PbRoles, OID_RSP_ROLE_DP_AUTH, OID_RSP_ROLE_DP_AUTH_V2,
              OID_RSP_ROLE_DS_AUTH, OID_RSP_ROLE_DS_AUTH_V2, OID_RSP_ROLE_DP_PB,
              OID_RSP_ROLE_DP_PB_V2, OID_RSP_ROLE_CI, OID_RSP_ROLE_CI_SUB_CA,
              OID_RSP_ROLE_EUM, OID_RSP_ROLE_EUM_SUB_CA, OID_RSP_ROLE_EUICC
<1>4. {OID_RSP_ROLE_DP_SUB_CA, OID_RSP_ROLE_DP_TLS, OID_RSP_ROLE_DS_SUB_CA,
       OID_RSP_ROLE_DS_TLS, OID_RSP_ROLE_EUICC_V2, OID_RSP_ROLE_EUM_V2, OID_RSP_ROLE_DP_TLS_V2,
       OID_RSP_ROLE_DS_TLS_V2} \subseteq Seq(Octet)
  BY <1>1 DEF OID_RSP_ROLE_DP_SUB_CA, OID_RSP_ROLE_DP_TLS, OID_RSP_ROLE_DS_SUB_CA,
              OID_RSP_ROLE_DS_TLS, OID_RSP_ROLE_EUICC_V2, OID_RSP_ROLE_EUM_V2,
              OID_RSP_ROLE_DP_TLS_V2, OID_RSP_ROLE_DS_TLS_V2
<1>5. RSP_ROLE_OIDS \subseteq Seq(Octet)
  BY <1>3, <1>4 DEF RSP_ROLE_OIDS
<1>6. {EUM_SAN_OID, EUICC_SAN_OID, CI_SAN_OID, ID_EC_PUBLIC_KEY} \subseteq Seq(Octet)
  BY <1>1 DEF EUM_SAN_OID, EUICC_SAN_OID, CI_SAN_OID, ID_EC_PUBLIC_KEY
<1>7. {OID_SUBJECT_KEY_IDENTIFIER, OID_SUBJECT_ALT_NAME, OID_CERTIFICATE_POLICIES,
       OID_AUTHORITY_KEY_IDENTIFIER} \subseteq Seq(Octet)
  BY <1>1, <1>2 DEF OID_SUBJECT_KEY_IDENTIFIER, OID_SUBJECT_ALT_NAME, OID_CERTIFICATE_POLICIES,
                    OID_AUTHORITY_KEY_IDENTIFIER
<1>8. ASSUME NEW curve \in CurveKind PROVE CurveOid(curve) \in Seq(Octet)
  <2>1. <<3, 1, 7>> \in Seq(Octet) /\ <<2, 8, 1, 7>> \in Seq(Octet)
    BY <1>1
  <2>2. CASE curve = "P256"
    BY <2>1, <2>2 DEF CurveOid
  <2>3. CASE curve = "BrainpoolP256r1"
    BY <2>1, <2>3 DEF CurveOid
  <2> QED  BY <2>2, <2>3 DEF CurveKind
<1> QED  BY <1>5, <1>6, <1>7, <1>8

\* A key's fingerprint is one octet.
LEMMA Fingerprints ==
  ASSUME NEW point \in Seq(Octet) \ {<<>>}
  PROVE  \A key : key.point = point =>
           Fingerprint(key) \in Seq(Octet) /\ Len(Fingerprint(key)) = 1
<1>1. Len(point) \in 1 .. Len(point)
  OBVIOUS
<1>2. point[Len(point)] \in Octet
  BY <1>1
<1>3. ASSUME NEW key, key.point = point
      PROVE  Fingerprint(key) \in Seq(Octet) /\ Len(Fingerprint(key)) = 1
  <2>1. Fingerprint(key) = <<point[Len(point)]>>
    BY <1>3 DEF Fingerprint, Last
  <2> QED  BY <1>2, <2>1
<1> QED  BY <1>3

\* Keys are points.
LEMMA Points ==
  ASSUME NEW key \in Key
  PROVE  /\ key.curve \in CurveKind /\ key.point \in Seq(Octet) \ {<<>>}
         /\ Len(key.point) = PUBLIC_KEY_LEN /\ key.point[1] = 4
         /\ key = [curve |-> key.curve, point |-> key.point]
<1>1. /\ key \in [curve : CurveKind, point : Seq(Octet)]
      /\ Len(key.point) = PUBLIC_KEY_LEN /\ key.point[1] = 4 /\ PUBLIC_KEY_LEN \in Nat \ {0}
  BY KeyAssumption DEF Octet
<1>2. key.point # <<>>
  <2>1. ASSUME key.point = <<>> PROVE FALSE
    <3>1. Len(key.point) = 0
      BY <2>1
    <3> QED  BY <1>1, <3>1
  <2> QED  BY <2>1
<1> QED  BY <1>1, <1>2

\* What a request has in its fields.
LEMMA RequestFields ==
  ASSUME NEW request \in Requests
  PROVE  /\ request.issuerName \in Attributes /\ request.subjectName \in Attributes
         /\ request.curveOid \in Seq(Octet) /\ request.point \in Seq(Octet) \ {<<>>}
         /\ request.issuer \in Key
         /\ \E o \in Seq(Octet) : request.role = Some(o)
         /\ request.san = None \/ \E o \in Seq(Octet) : request.san = Some(o)
         /\ request.ski = None \/ \E o \in Seq(Octet) : request.ski = Some(o)
<1>1. /\ request.issuerName \in Attributes /\ request.subjectName \in Attributes
      /\ request.curveOid \in Seq(Octet) /\ request.point \in Seq(Octet) \ {<<>>}
      /\ request.issuer \in Key
      /\ request.role \in {Some(o) : o \in Role \cup RSP_ROLE_OIDS}
      /\ request.san \in {None} \cup
           {Some(o) : o \in San \cup {EUM_SAN_OID, EUICC_SAN_OID, CI_SAN_OID}}
      /\ request.ski \in {None} \cup {Some(Fingerprint(k)) : k \in Key}
  BY DEF Requests
<1>2. Role \cup RSP_ROLE_OIDS \subseteq Seq(Octet)
      /\ San \cup {EUM_SAN_OID, EUICC_SAN_OID, CI_SAN_OID} \subseteq Seq(Octet)
  BY DataAssumption, Identifiers
<1>3. \A k \in Key : Fingerprint(k) \in Seq(Octet)
  BY Points, Fingerprints
<1> QED  BY <1>1, <1>2, <1>3

LEMMA ExtensionTyped ==
  ASSUME NEW oid \in Seq(Octet), NEW critical \in BOOLEAN, NEW value \in Seq(Octet)
  PROVE  Extension(oid, critical, value) \in Seq(Octet)
<1>1. PICK a \in Seq(Octet) : a = IF critical THEN Tlv(BOOLEAN_TAG, << 255 >>) ELSE <<>>
  <2>1. << 255 >> \in Seq(Octet) /\ <<>> \in Seq(Octet)
    <3>1. 255 \in Octet  BY DEF Octet
    <3> QED  BY <3>1
  <2>2. Tlv(BOOLEAN_TAG, << 255 >>) \in Seq(Octet)
    BY <2>1, Tags, TlvTyped
  <2> QED  BY <2>1, <2>2
<1>2. PICK b \in Seq(Octet) : b = Tlv(OCTETS, value)
  BY Tags, TlvTyped
<1>3. PICK c \in Seq(Octet) : c = oid \o a
  BY Joined
<1>4. PICK d \in Seq(Octet) : d = c \o b
  BY Joined
<1>5. Tlv(SEQUENCE, d) \in Seq(Octet)
  BY Tags, TlvTyped
<1>6. Extension(oid, critical, value) = Tlv(SEQUENCE, d)
  BY <1>1, <1>2, <1>3, <1>4 DEF Extension
<1> QED  BY <1>5, <1>6

LEMMA ExtensionsTyped ==
  ASSUME NEW request \in Requests
  PROVE  \E v \in Seq(Octet) : Extensions(request) = Tlv(EXTENSIONS, v)
<1>1. PICK f \in Seq(Octet) : f = Fingerprint(request.issuer)
  BY RequestFields, Points, Fingerprints
<1>2. PICK a \in Seq(Octet) :
        a = Extension(OID_AUTHORITY_KEY_IDENTIFIER, FALSE, Tlv(SEQUENCE, Tlv(KEY_ID, f)))
  <2>1. PICK b \in Seq(Octet) : b = Tlv(KEY_ID, f)
    BY Tags, TlvTyped
  <2>2. PICK c \in Seq(Octet) : c = Tlv(SEQUENCE, b)
    BY Tags, TlvTyped
  <2>3. Extension(OID_AUTHORITY_KEY_IDENTIFIER, FALSE, c) \in Seq(Octet)
    BY Identifiers, ExtensionTyped
  <2> QED  BY <2>1, <2>2, <2>3
<1>3. PICK r \in Seq(Octet) :
        r = IF request.role.some
            THEN Extension(OID_CERTIFICATE_POLICIES, TRUE,
                           Tlv(SEQUENCE, Tlv(SEQUENCE, Tlv(OID, request.role.val))))
            ELSE <<>>
  <2>1. PICK o \in Seq(Octet) : request.role = Some(o)
    BY RequestFields
  <2>2. PICK b \in Seq(Octet) : b = Tlv(OID, o)
    BY Tags, TlvTyped
  <2>3. PICK c \in Seq(Octet) : c = Tlv(SEQUENCE, b)
    BY Tags, TlvTyped
  <2>4. PICK d \in Seq(Octet) : d = Tlv(SEQUENCE, c)
    BY Tags, TlvTyped
  <2>5. Extension(OID_CERTIFICATE_POLICIES, TRUE, d) \in Seq(Octet)
    BY Identifiers, ExtensionTyped
  <2>6. request.role.some /\ request.role.val = o
    BY <2>1 DEF Some
  <2> QED  BY <2>2, <2>3, <2>4, <2>5, <2>6
<1>4. PICK s \in Seq(Octet) :
        s = IF request.san.some
            THEN Extension(OID_SUBJECT_ALT_NAME, FALSE,
                           Tlv(SEQUENCE, Tlv(REGISTERED, request.san.val)))
            ELSE <<>>
  <2>1. CASE request.san = None
    <3>1. <<>> \in Seq(Octet)  OBVIOUS
    <3>2. ~request.san.some
      BY <2>1 DEF None
    <3> QED  BY <3>1, <3>2
  <2>2. ASSUME NEW o \in Seq(Octet), request.san = Some(o)
        PROVE  /\ request.san.some
               /\ Extension(OID_SUBJECT_ALT_NAME, FALSE,
                            Tlv(SEQUENCE, Tlv(REGISTERED, request.san.val))) \in Seq(Octet)
    <3>1. PICK b \in Seq(Octet) : b = Tlv(REGISTERED, o)
      BY Tags, TlvTyped
    <3>2. PICK c \in Seq(Octet) : c = Tlv(SEQUENCE, b)
      BY Tags, TlvTyped
    <3>3. Extension(OID_SUBJECT_ALT_NAME, FALSE, c) \in Seq(Octet)
      BY Identifiers, ExtensionTyped
    <3>4. request.san.some /\ request.san.val = o
      BY <2>2 DEF Some
    <3> QED  BY <3>1, <3>2, <3>3, <3>4
  <2> QED  BY <2>1, <2>2, RequestFields
<1>5. PICK k \in Seq(Octet) :
        k = IF request.ski.some
            THEN Extension(OID_SUBJECT_KEY_IDENTIFIER, FALSE, Tlv(OCTETS, request.ski.val))
            ELSE <<>>
  <2>1. CASE request.ski = None
    <3>1. <<>> \in Seq(Octet)  OBVIOUS
    <3>2. ~request.ski.some
      BY <2>1 DEF None
    <3> QED  BY <3>1, <3>2
  <2>2. ASSUME NEW o \in Seq(Octet), request.ski = Some(o)
        PROVE  /\ request.ski.some
               /\ Extension(OID_SUBJECT_KEY_IDENTIFIER, FALSE, Tlv(OCTETS, request.ski.val))
                    \in Seq(Octet)
    <3>1. PICK b \in Seq(Octet) : b = Tlv(OCTETS, o)
      BY Tags, TlvTyped
    <3>2. Extension(OID_SUBJECT_KEY_IDENTIFIER, FALSE, b) \in Seq(Octet)
      BY Identifiers, ExtensionTyped
    <3>3. request.ski.some /\ request.ski.val = o
      BY <2>2 DEF Some
    <3> QED  BY <3>1, <3>2, <3>3
  <2> QED  BY <2>1, <2>2, RequestFields
<1>6. PICK x \in Seq(Octet) : x = a \o r
  BY Joined
<1>7. PICK y \in Seq(Octet) : y = x \o s
  BY Joined
<1>8. PICK z \in Seq(Octet) : z = y \o k
  BY Joined
<1>9. PICK v \in Seq(Octet) : v = Tlv(SEQUENCE, z)
  BY Tags, TlvTyped
<1>10. Extensions(request) = Tlv(EXTENSIONS, v)
  BY <1>1, <1>2, <1>3, <1>4, <1>5, <1>6, <1>7, <1>8, <1>9, Zenon DEF Extensions, Optional
<1> QED  BY <1>10

-----------------------------------------------------------------------------
(* A sequence of TLVs *)

\* What follows each of n TLVs: the next one and what follows that, and in the end nothing.
IsTail(n, tag, v, tail) ==
  /\ tag \in [1 .. n -> Octet] /\ v \in [1 .. n -> Seq(Octet)]
  /\ tail \in [1 .. n + 1 -> Seq(Octet)] /\ tail[n + 1] = <<>>
  /\ \A i \in 1 .. n : tail[i] = Tlv(tag[i], v[i]) \o tail[i + 1]

\* What a walk finds from one place in buf, given what it finds from the later ones.
WalkFrom(buf, i, f) ==
  LET tlv == ReadTlvAny(From(buf, i))
  IN  IF i > Len(buf) THEN [clean |-> TRUE, tlvs |-> <<>>]
      ELSE IF ~tlv.ok THEN [clean |-> FALSE, tlvs |-> <<>>]
      ELSE [clean |-> f[i + tlv.val.used].clean, tlvs |-> <<tlv.val>> \o f[i + tlv.val.used].tlvs]

\* A walk ends: each TLV takes at least two octets.
LEMMA WalkIs ==
  ASSUME NEW buf \in Seq(Octet)
  PROVE  \E f : /\ Walk(buf, ReadTlvAny) = f[1]
                /\ \A i \in 1 .. Len(buf) + 1 : f[i] = WalkFrom(buf, i, f)
<1>1. PICK n \in Nat : n = Len(buf)
  OBVIOUS
<1> DEFINE tlv(i) == ReadTlvAny(From(buf, i))
           Is(h) == h = [i \in 1 .. n + 1 |->
                           IF i > Len(buf) THEN [clean |-> TRUE, tlvs |-> <<>>]
                           ELSE IF ~tlv(i).ok THEN [clean |-> FALSE, tlvs |-> <<>>]
                           ELSE [clean |-> h[i + tlv(i).val.used].clean,
                                 tlvs |-> <<tlv(i).val>> \o h[i + tlv(i).val.used].tlvs]]
<1>2. ASSUME NEW i \in 1 .. n, tlv(i).ok
      PROVE  tlv(i).val.used \in Nat /\ i + tlv(i).val.used \in 1 .. n + 1
             /\ i < i + tlv(i).val.used
  <2>1. PICK k \in 0 .. Len(buf) : i = k + 1
    <3>1. i - 1 \in 0 .. Len(buf) /\ i = (i - 1) + 1
      BY <1>1
    <3> QED  BY <3>1
  <2>2. PICK q \in Seq(Octet) : q = From(buf, i) /\ Len(q) = Len(buf) - k
    BY <2>1, BeginningAndRest
  <2>3. PICK h \in Nat, u \in Nat :
          /\ 2 <= h /\ h <= u /\ u <= Len(q)
          /\ ReadTlvAny(q) = Ok([tag |-> q[1], value |-> SubSeq(q, h + 1, u), used |-> u])
    BY <1>2, <2>2, ReadsWithin
  <2>4. tlv(i).val.used = u
    BY <2>2, <2>3 DEF Ok
  <2>5. u \in Nat /\ i + u \in 1 .. n + 1 /\ i < i + u
    BY <1>1, <2>1, <2>2, <2>3
  <2> HIDE DEF tlv
  <2> QED  BY <2>4, <2>5
<1>3. \E h : Is(h)
  <2>1. PICK V : V = {tlv(i).val : i \in 1 .. n}
    OBVIOUS
  <2>2. PICK S : S = [clean : BOOLEAN, tlvs : Seq(V)]
    OBVIOUS
  <2>3. PICK next \in [1 .. n -> 1 .. n + 1] :
          /\ \A i \in 1 .. n : i < next[i]
          /\ \A i \in 1 .. n : tlv(i).ok => next[i] = i + tlv(i).val.used
    <3> DEFINE x == [i \in 1 .. n |-> IF tlv(i).ok THEN i + tlv(i).val.used ELSE i + 1]
    <3>1. \A i \in 1 .. n : x[i] = IF tlv(i).ok THEN i + tlv(i).val.used ELSE i + 1
      OBVIOUS
    <3>2. \A i \in 1 .. n : x[i] \in 1 .. n + 1 /\ i < x[i]
      <4> HIDE DEF tlv, x
      <4> QED  BY <1>2, <3>1
    <3>3. x = [i \in 1 .. n |-> x[i]]
      OBVIOUS
    <3> HIDE DEF tlv, x
    <3> QED  BY <3>1, <3>2, <3>3
  <2>4. PICK g \in [(1 .. n) \X S -> S] :
          \A i \in 1 .. n, w \in S :
            g[<<i, w>>] = IF ~tlv(i).ok THEN [clean |-> FALSE, tlvs |-> <<>>]
                          ELSE [clean |-> w.clean, tlvs |-> <<tlv(i).val>> \o w.tlvs]
    <3> DEFINE R(i, w) == IF ~tlv(i).ok THEN [clean |-> FALSE, tlvs |-> <<>>]
                          ELSE [clean |-> w.clean, tlvs |-> <<tlv(i).val>> \o w.tlvs]
               step == [p \in (1 .. n) \X S |-> R(p[1], p[2])]
    <3>1. ASSUME NEW i \in 1 .. n, NEW w \in S PROVE R(i, w) \in S
      <4>1. tlv(i).val \in V
        BY <2>1
      <4>2. w.clean \in BOOLEAN /\ w.tlvs \in Seq(V)
        BY <2>2
      <4>3. <<tlv(i).val>> \o w.tlvs \in Seq(V) /\ <<>> \in Seq(V)
        <5>1. PICK e \in V : e = tlv(i).val
          BY <4>1
        <5>2. <<e>> \in Seq(V)
          OBVIOUS
        <5>3. <<e>> \o w.tlvs \in Seq(V)
          BY <4>2, <5>2
        <5> HIDE DEF tlv
        <5> QED  BY <5>1, <5>3
      <4> HIDE DEF tlv
      <4> QED  BY <2>2, <4>2, <4>3
    <3>2. step \in [(1 .. n) \X S -> S]
      <4> HIDE DEF R
      <4> QED  BY <3>1
    <3>3. \A i \in 1 .. n, w \in S : step[<<i, w>>] = R(i, w)
      <4> HIDE DEF R
      <4> QED  OBVIOUS
    <3> HIDE DEF step, tlv
    <3> QED  BY <3>2, <3>3
  <2>5. PICK end \in S : end = [clean |-> TRUE, tlvs |-> <<>>]
    <3>1. <<>> \in Seq(V)
      OBVIOUS
    <3>2. [clean |-> TRUE, tlvs |-> <<>>] \in S
      BY <2>2, <3>1
    <3> QED  BY <3>2
  <2>6. PICK f : GoesBack(n, S, end, g, next, f)
    BY <2>3, Backwards
  <2>7. ASSUME NEW i \in 1 .. n + 1
        PROVE  f[i] = IF i > Len(buf) THEN [clean |-> TRUE, tlvs |-> <<>>]
                      ELSE IF ~tlv(i).ok THEN [clean |-> FALSE, tlvs |-> <<>>]
                      ELSE [clean |-> f[i + tlv(i).val.used].clean,
                            tlvs |-> <<tlv(i).val>> \o f[i + tlv(i).val.used].tlvs]
    <3> HIDE DEF tlv
    <3>1. CASE i = n + 1
      <4>1. i > Len(buf)
        BY <1>1, <3>1
      <4> QED  BY <2>5, <2>6, <3>1, <4>1 DEF GoesBack
    <3>2. CASE i # n + 1
      <4>1. i \in 1 .. n /\ ~(i > Len(buf))
        BY <1>1, <3>2
      <4>2. f[i] = g[<<i, f[next[i]]>>] /\ f[next[i]] \in S
        BY <2>6, <4>1 DEF GoesBack
      <4>3. f[i] = IF ~tlv(i).ok THEN [clean |-> FALSE, tlvs |-> <<>>]
                   ELSE [clean |-> f[next[i]].clean, tlvs |-> <<tlv(i).val>> \o f[next[i]].tlvs]
        BY <2>4, <4>1, <4>2
      <4> QED  BY <2>3, <4>1, <4>3
    <3> QED  BY <3>1, <3>2
  <2>8. f = [i \in 1 .. n + 1 |-> f[i]]
    BY <2>6 DEF GoesBack
  <2> HIDE DEF tlv
  <2> QED  BY <2>7, <2>8, ZenonT(60)
<1> DEFINE from[i \in 1 .. Len(buf) + 1] ==
             LET read == ReadTlvAny(From(buf, i))
                 rest == from[i + read.val.used]
             IN  IF i > Len(buf) THEN [clean |-> TRUE, tlvs |-> <<>>]
                 ELSE IF ~read.ok THEN [clean |-> FALSE, tlvs |-> <<>>]
                 ELSE [clean |-> rest.clean, tlvs |-> <<read.val>> \o rest.tlvs]
<1>4. Walk(buf, ReadTlvAny) = from[1]
  BY DEF Walk
<1>5. from = CHOOSE h : Is(h)
  BY <1>1
<1>6. Is(from)
  <2> HIDE DEF from, Is
  <2> QED  BY <1>3, <1>5
<1> HIDE DEF from
<1>7. \A i \in 1 .. Len(buf) + 1 : from[i] = WalkFrom(buf, i, from)
  BY <1>1, <1>6 DEF WalkFrom
<1> QED  BY <1>4, <1>7

LEMMA OneMore ==
  ASSUME NEW V, NEW e \in V, NEW s \in Seq(V)
  PROVE  /\ <<e>> \o s \in Seq(V) /\ Len(<<e>> \o s) = 1 + Len(s)
         /\ (<<e>> \o s)[1] = e /\ \A i \in 1 .. Len(s) : (<<e>> \o s)[1 + i] = s[i]
<1>1. PICK a \in Seq(V) : a = <<e>> /\ Len(a) = 1 /\ a[1] = e
  <2>1. <<e>> \in Seq(V) /\ Len(<<e>>) = 1 /\ <<e>>[1] = e
    OBVIOUS
  <2> QED  BY <2>1
<1>2. /\ a \o s \in Seq(V) /\ Len(a \o s) = Len(a) + Len(s)
      /\ \A i \in 1 .. Len(a) + Len(s) : (a \o s)[i] = IF i <= Len(a) THEN a[i] ELSE s[i - Len(a)]
  BY ConcatProperties
<1>3. Len(s) \in Nat /\ 1 \in 1 .. Len(a) + Len(s) /\ 1 <= Len(a)
  BY <1>1
<1>4. ASSUME NEW i \in 1 .. Len(s) PROVE (a \o s)[1 + i] = s[i]
  <2>1. 1 + i \in 1 .. Len(a) + Len(s) /\ ~(1 + i <= Len(a)) /\ (1 + i) - Len(a) = i
    BY <1>1, <1>3
  <2> QED  BY <1>2, <2>1
<1> QED  BY <1>1, <1>2, <1>3, <1>4

LEMMA ElementsIn ==
  ASSUME NEW V, NEW k \in Nat, NEW s, DOMAIN s = 1 .. k, s = [j \in 1 .. k |-> s[j]],
         \A j \in 1 .. k : s[j] \in V
  PROVE  s \in Seq(V) /\ Len(s) = k
<1>1. [j \in 1 .. k |-> s[j]] \in Seq(V)
  OBVIOUS
<1> QED  BY <1>1

\* A walk over TLVs that were written one after the other finds each of them, and the end.
LEMMA WalkWritten ==
  ASSUME NEW n \in Nat, NEW tag, NEW v, NEW tail, IsTail(n, tag, v, tail),
         \A i \in 1 .. n : Len(v[i]) < Carried
  PROVE  Walk(tail[1], ReadTlvAny) =
           [clean |-> TRUE, tlvs |-> [i \in 1 .. n |-> Item(tag[i], v[i])]]
<1>0. \A i \in 1 .. n, a \in Seq(Octet) :
        a \o tail[i] = (a \o Tlv(tag[i], v[i])) \o tail[i + 1]
  <2>1. ASSUME NEW i \in 1 .. n, NEW a \in Seq(Octet)
        PROVE  a \o tail[i] = (a \o Tlv(tag[i], v[i])) \o tail[i + 1]
    <3>1. PICK c \in Seq(Octet) : c = Tlv(tag[i], v[i])
      <4>1. tag[i] \in Octet /\ v[i] \in Seq(Octet)
        BY DEF IsTail
      <4> QED  BY <4>1, TlvTyped
    <3>2. PICK r \in Seq(Octet) : r = tail[i + 1] /\ tail[i] = c \o r
      <4>1. i + 1 \in 1 .. n + 1
        OBVIOUS
      <4> QED  BY <3>1, <4>1 DEF IsTail
    <3>3. (a \o c) \o r = a \o (c \o r)
      BY JoinedTwice
    <3> QED  BY <3>1, <3>2, <3>3
  <2> QED  BY <2>1
<1>1. PICK buf \in Seq(Octet) : buf = tail[1]
  BY DEF IsTail
<1>2. PICK f : /\ Walk(buf, ReadTlvAny) = f[1]
               /\ \A i \in 1 .. Len(buf) + 1 : f[i] = WalkFrom(buf, i, f)
  BY WalkIs
<1> DEFINE items(i) == [j \in 1 .. n + 1 - i |-> Item(tag[j + i - 1], v[j + i - 1])]
           P == {i \in 1 .. n + 1 : \A a \in Seq(Octet) :
                   buf = a \o tail[i] => f[Len(a) + 1] = [clean |-> TRUE, tlvs |-> items(i)]}
<1>3. ASSUME NEW i \in 1 .. n + 1, \A j \in 1 .. n + 1 : i < j => j \in P PROVE i \in P
  <2>1. SUFFICES ASSUME NEW a \in Seq(Octet), buf = a \o tail[i]
                 PROVE  f[Len(a) + 1] = [clean |-> TRUE, tlvs |-> items(i)]
    OBVIOUS
  <2>2. PICK rest \in Seq(Octet) : rest = tail[i]
    BY DEF IsTail
  <2>3. Len(buf) = Len(a) + Len(rest) /\ From(buf, Len(a) + 1) = rest /\ Len(a) + 1 \in 1 .. Len(buf) + 1
    <3>1. Len(buf) = Len(a) + Len(rest) /\ From(buf, Len(a) + 1) = rest
      BY <2>1, <2>2, TwoParts, CutApart
    <3>2. Len(a) \in Nat /\ Len(rest) \in Nat
      OBVIOUS
    <3> QED  BY <3>1, <3>2
  <2>4. CASE i = n + 1
    <3>1. Len(rest) = 0
      BY <2>2, <2>4 DEF IsTail
    <3>2. Len(a) + 1 > Len(buf)
      BY <2>3, <3>1
    <3>3. items(i) = <<>>
      <4>1. 1 .. n + 1 - i = {}
        BY <2>4
      <4> QED  BY <4>1
    <3>4. f[Len(a) + 1] = [clean |-> TRUE, tlvs |-> <<>>]
      BY <1>2, <2>3, <3>2 DEF WalkFrom
    <3> QED  BY <3>3, <3>4
  <2>5. CASE i # n + 1
    <3>1. i \in 1 .. n /\ i + 1 \in 1 .. n + 1 /\ i < i + 1
      BY <2>5
    <3>2. PICK t \in Octet, w \in Seq(Octet), r \in Seq(Octet) :
            t = tag[i] /\ w = v[i] /\ r = tail[i + 1] /\ Len(w) < Carried
      BY <3>1 DEF IsTail
    <3>3. PICK c \in Seq(Octet) : c = Tlv(t, w)
      BY TlvTyped
    <3>4. rest = c \o r
      BY <2>2, <3>1, <3>2, <3>3 DEF IsTail
    <3>5. ReadTlvAny(rest) = Ok(Item(t, w))
      BY <3>2, <3>3, <3>4, ReadsFirst
    <3>6. PICK u \in Nat : u = Item(t, w).used /\ u = Len(c)
      BY <3>3 DEF Item
    <3>7. Len(c) >= 2
      <4>1. Len(c) >= Len(w) + 2 /\ Len(w) \in Nat
        BY <3>3, TlvTyped
      <4> QED  BY <4>1
    <3>8. ~(Len(a) + 1 > Len(buf))
      <4>1. Len(rest) = Len(c) + Len(r) /\ Len(c) \in Nat /\ Len(r) \in Nat /\ Len(a) \in Nat
        BY <3>4, TwoParts
      <4> QED  BY <2>3, <3>7, <4>1
    <3>9. f[Len(a) + 1] = [clean |-> f[Len(a) + 1 + u].clean,
                           tlvs |-> <<Item(t, w)>> \o f[Len(a) + 1 + u].tlvs]
      <4>1. f[Len(a) + 1] = WalkFrom(buf, Len(a) + 1, f)
        BY <1>2, <2>3
      <4>2. /\ ReadTlvAny(From(buf, Len(a) + 1)).ok
            /\ ReadTlvAny(From(buf, Len(a) + 1)).val = Item(t, w)
        BY <2>3, <3>5 DEF Ok
      <4> QED  BY <3>6, <3>8, <4>1, <4>2 DEF WalkFrom
    <3>10. PICK b \in Seq(Octet) : b = a \o c /\ Len(b) = Len(a) + u
      <4>1. a \o c \in Seq(Octet) /\ Len(a \o c) = Len(a) + Len(c)
        BY TwoParts
      <4> QED  BY <3>6, <4>1
    <3>11. buf = b \o r
      BY <1>0, <2>1, <3>1, <3>2, <3>3, <3>10
    <3>12. f[Len(b) + 1] = [clean |-> TRUE, tlvs |-> items(i + 1)]
      <4>1. i + 1 \in P
        BY <1>3, <3>1
      <4>2. \A x \in Seq(Octet) :
              buf = x \o tail[i + 1] => f[Len(x) + 1] = [clean |-> TRUE, tlvs |-> items(i + 1)]
        BY <4>1
      <4> HIDE DEF P, items
      <4> QED  BY <3>2, <3>11, <4>2
    <3>13. Len(a) + 1 + u = Len(b) + 1
      BY <3>10
    <3>14. <<Item(t, w)>> \o items(i + 1) = items(i)
      <4>1. PICK V : V = {Item(tag[k], v[k]) : k \in 1 .. n}
        OBVIOUS
      <4>2. PICK e \in V : e = Item(t, w)
        BY <3>1, <3>2, <4>1
      <4>3. PICK k \in Nat : n + 1 - (i + 1) = k /\ n + 1 - i = 1 + k
        BY <3>1
      <4>4. ASSUME NEW j \in 1 .. 1 + k
            PROVE  j + i - 1 \in 1 .. n /\ Item(tag[j + i - 1], v[j + i - 1]) \in V
        <5>1. j + i - 1 \in 1 .. n
          BY <3>1, <4>3
        <5> QED  BY <4>1, <5>1
      <4>5. PICK s \in Seq(V) : /\ s = items(i + 1) /\ Len(s) = k
                                /\ \A j \in 1 .. k : s[j] = Item(tag[j + i], v[j + i])
        <5>1. items(i + 1) = [j \in 1 .. k |-> Item(tag[j + i], v[j + i])]
          <6>1. \A j \in 1 .. k : j + (i + 1) - 1 = j + i
            BY <3>1
          <6> QED  BY <4>3, <6>1
        <5>2. ASSUME NEW j \in 1 .. k PROVE Item(tag[j + i], v[j + i]) \in V
          <6>1. 1 + j \in 1 .. 1 + k /\ (1 + j) + i - 1 = j + i
            BY <3>1, <4>3
          <6> QED  BY <4>4, <6>1
        <5>3. PICK x : x = [j \in 1 .. k |-> Item(tag[j + i], v[j + i])]
          OBVIOUS
        <5>4. /\ DOMAIN x = 1 .. k /\ x = [j \in 1 .. k |-> x[j]]
              /\ \A j \in 1 .. k : x[j] \in V /\ x[j] = Item(tag[j + i], v[j + i])
          BY <5>2, <5>3
        <5>5. x \in Seq(V) /\ Len(x) = k
          BY <5>4, ElementsIn
        <5> HIDE DEF items
        <5> QED  BY <5>1, <5>3, <5>4, <5>5
      <4>6. PICK z \in Seq(V) : /\ z = items(i) /\ Len(z) = 1 + k
                                /\ \A j \in 1 .. 1 + k : z[j] = Item(tag[j + i - 1], v[j + i - 1])
        <5>1. items(i) = [j \in 1 .. 1 + k |-> Item(tag[j + i - 1], v[j + i - 1])]
          BY <4>3
        <5>2. PICK x : x = [j \in 1 .. 1 + k |-> Item(tag[j + i - 1], v[j + i - 1])]
          OBVIOUS
        <5>3. /\ DOMAIN x = 1 .. 1 + k /\ x = [j \in 1 .. 1 + k |-> x[j]]
              /\ \A j \in 1 .. 1 + k : x[j] \in V /\ x[j] = Item(tag[j + i - 1], v[j + i - 1])
          BY <4>4, <5>2
        <5>4. x \in Seq(V) /\ Len(x) = 1 + k
          <6>1. 1 + k \in Nat  OBVIOUS
          <6> QED  BY <5>3, <6>1, ElementsIn
        <5> HIDE DEF items
        <5> QED  BY <5>1, <5>2, <5>3, <5>4
      <4>7. /\ <<e>> \o s \in Seq(V) /\ Len(<<e>> \o s) = 1 + Len(s)
            /\ (<<e>> \o s)[1] = e /\ \A j \in 1 .. Len(s) : (<<e>> \o s)[1 + j] = s[j]
        BY OneMore, SMTT(30)
      <4>8. PICK y \in Seq(V) : /\ y = <<e>> \o s /\ Len(y) = 1 + k
                                /\ y[1] = e /\ \A j \in 1 .. k : y[1 + j] = s[j]
        BY <4>5, <4>7
      <4>9. ASSUME NEW j \in 1 .. 1 + k PROVE y[j] = z[j]
        <5>1. CASE j = 1
          <6>1. j + i - 1 = i
            BY <3>1, <5>1
          <6> QED  BY <3>2, <4>2, <4>6, <4>8, <5>1, <6>1
        <5>2. CASE j # 1
          <6>1. PICK m \in 1 .. k : j = 1 + m /\ m + i = j + i - 1
            <7>1. j - 1 \in 1 .. k /\ j = 1 + (j - 1) /\ (j - 1) + i = j + i - 1
              BY <3>1, <5>2
            <7> QED  BY <7>1
          <6> QED  BY <4>5, <4>6, <4>8, <6>1
        <5> QED  BY <5>1, <5>2
      <4>10. y = z
        BY <4>6, <4>8, <4>9, SeqEqual
      <4> HIDE DEF items
      <4> QED  BY <4>2, <4>5, <4>6, <4>8, <4>10
    <3> HIDE DEF items
    <3>15. f[Len(a) + 1 + u].clean = TRUE /\ f[Len(a) + 1 + u].tlvs = items(i + 1)
      BY <3>12, <3>13
    <3> QED  BY <3>9, <3>14, <3>15
  <2> QED  BY <2>4, <2>5
<1>4. 1 \in P
  <2>1. 1 \in 1 .. n + 1  OBVIOUS
  <2> HIDE DEF P
  <2> QED  BY <1>3, <2>1, FromTheEnd
<1>5. f[1] = [clean |-> TRUE, tlvs |-> items(1)]
  <2>1. <<>> \in Seq(Octet) /\ buf = <<>> \o tail[1]
    BY <1>1
  <2>2. Len(<<>>) + 1 = 1
    OBVIOUS
  <2> HIDE DEF items
  <2> QED  BY <1>4, <2>1, <2>2
<1>6. items(1) = [i \in 1 .. n |-> Item(tag[i], v[i])]
  <2>1. n + 1 - 1 = n /\ \A j \in 1 .. n : j + 1 - 1 = j
    OBVIOUS
  <2> QED  BY <2>1
<1> HIDE DEF items
<1> QED  BY <1>1, <1>2, <1>5, <1>6

-----------------------------------------------------------------------------
(* The fields of a TBS *)

\* What is in a SubjectPublicKeyInfo, and in its algorithm.
AlgOf(curveOid)         == Tlv(OID, ID_EC_PUBLIC_KEY) \o Tlv(OID, curveOid)
SpkiOf(curveOid, point) == Tlv(SEQUENCE, AlgOf(curveOid)) \o Tlv(BIT_STRING, << 0 >> \o point)

\* The eight fields, by tag and value: none before the seventh is a SEQUENCE that begins
\* with a SEQUENCE.
IsTbs(request, tag, v) ==
  /\ tag = <<VERSION, INTEGER, SEQUENCE, SEQUENCE, SEQUENCE, SEQUENCE, SEQUENCE, EXTENSIONS>>
  /\ \A i \in {3, 4, 5, 6} : v[i] = <<>> \/ v[i][1] # SEQUENCE
  /\ v[7] = SpkiOf(request.curveOid, request.point)

LEMMA SpkiTyped ==
  ASSUME NEW curveOid \in Seq(Octet), NEW point \in Seq(Octet)
  PROVE  /\ AlgOf(curveOid) \in Seq(Octet) /\ SpkiOf(curveOid, point) \in Seq(Octet)
         /\ << 0 >> \o point \in Seq(Octet)
         /\ Spki(curveOid, point) = Tlv(SEQUENCE, SpkiOf(curveOid, point))
<1>1. PICK a \in Seq(Octet) : a = Tlv(OID, ID_EC_PUBLIC_KEY)
  BY Identifiers, Tags, TlvTyped
<1>2. PICK b \in Seq(Octet) : b = Tlv(OID, curveOid)
  BY Tags, TlvTyped
<1>3. PICK c \in Seq(Octet) : c = a \o b
  BY Joined
<1>4. AlgOf(curveOid) = c
  BY <1>1, <1>2, <1>3 DEF AlgOf
<1>5. PICK d \in Seq(Octet) : d = << 0 >> \o point
  <2>1. << 0 >> \in Seq(Octet)
    <3>1. 0 \in Octet  BY Tags
    <3> QED  BY <3>1
  <2> QED  BY <2>1, Joined
<1>6. PICK e \in Seq(Octet), g \in Seq(Octet) : e = Tlv(SEQUENCE, c) /\ g = Tlv(BIT_STRING, d)
  BY Tags, TlvTyped
<1>7. e \o g \in Seq(Octet)
  BY Joined
<1>8. SpkiOf(curveOid, point) = e \o g
  BY <1>4, <1>5, <1>6 DEF SpkiOf
<1>9. Spki(curveOid, point) = Tlv(SEQUENCE, SpkiOf(curveOid, point))
  BY DEF Spki, SpkiOf, AlgOf
<1> QED  BY <1>4, <1>5, <1>7, <1>8, <1>9

\* A TLV of a value whose length is known.
LEMMA TlvOfFew ==
  ASSUME NEW tag \in Octet, NEW o \in Seq(Octet), NEW k \in Nat, Len(o) = k
  PROVE  /\ Tlv(tag, o) \in Seq(Octet) /\ Len(Tlv(tag, o)) \in k + 2 .. k + 4
         /\ Tlv(tag, o)[1] = tag
<1>1. /\ Tlv(tag, o) \in Seq(Octet) /\ Len(Tlv(tag, o)) >= k + 2
      /\ Len(Tlv(tag, o)) <= k + 4 /\ Tlv(tag, o)[1] = tag
  BY TlvTyped
<1>2. PICK m \in Nat : m = Len(Tlv(tag, o))
  BY <1>1
<1>3. m \in k + 2 .. k + 4
  BY <1>1, <1>2
<1> QED  BY <1>1, <1>2, <1>3

\* An INTEGER, an AlgorithmIdentifier and a Validity.
LEMMA IntegerIs ==
  ASSUME NEW o \in Seq(Octet)
  PROVE  \E v \in Seq(Octet) : Integer(o) = Tlv(INTEGER, v)
<1>1. << 0 >> \in Seq(Octet)
  <2>1. 0 \in Octet  BY Tags
  <2> QED  BY <2>1
<1>2. PICK v \in Seq(Octet) : v = IF o[1] >= 128 THEN << 0 >> \o o ELSE o
  BY <1>1, Joined
<1> QED  BY <1>2 DEF Integer

LEMMA SigAlgIs ==
  \E v \in Seq(Octet) : /\ v[1] # SEQUENCE /\ SigAlg = Tlv(SEQUENCE, v)
                        /\ SigAlg \in Seq(Octet) /\ Len(SigAlg) \in 0 .. 15
<1>1. <<4, 3, 2>> \in Seq(Octet) /\ Len(<<4, 3, 2>>) = 3 /\ 3 \in Nat
  <2>1. 4 \in Octet /\ 3 \in Octet /\ 2 \in Octet
    BY Tags
  <2> QED  BY <2>1
<1>2. <<>> \in Seq(Octet) /\ Len(<<>>) = 0 /\ 0 \in Nat
  OBVIOUS
<1>3. PICK a \in Seq(Octet) : a = Tlv(OID, <<4, 3, 2>>)
  BY <1>1, Tags, TlvTyped
<1>4. Len(a) \in 3 + 2 .. 3 + 4 /\ a[1] = OID
  BY <1>1, <1>3, Tags, TlvOfFew, Zenon
<1>5. PICK b \in Seq(Octet) : b = Tlv(NULL, <<>>)
  BY <1>2, Tags, TlvTyped
<1>6. Len(b) \in 0 + 2 .. 0 + 4
  BY <1>2, <1>5, Tags, TlvOfFew, Zenon
<1>7. PICK m \in 5 .. 7, n \in 2 .. 4 : m = Len(a) /\ n = Len(b)
  BY <1>4, <1>6
<1>8. PICK c \in Seq(Octet) : c = a \o b /\ Len(c) = m + n /\ c[1] = a[1]
  <2>1. /\ a \o b \in Seq(Octet) /\ Len(a \o b) = m + n
        /\ \A i \in 1 .. m : (a \o b)[i] = a[i]
    BY <1>7, TwoParts
  <2>2. 1 \in 1 .. m
    BY <1>7
  <2> QED  BY <2>1, <2>2
<1>9. SigAlg = Tlv(SEQUENCE, c)
  BY <1>3, <1>5, <1>8 DEF SigAlg
<1>10. m + n \in Nat
  BY <1>7
<1>11. Tlv(SEQUENCE, c) \in Seq(Octet) /\ Len(Tlv(SEQUENCE, c)) \in (m + n) + 2 .. (m + n) + 4
  BY <1>8, <1>10, Tags, TlvOfFew, Zenon
<1>12. Len(Tlv(SEQUENCE, c)) \in 0 .. 15
  <2>1. ASSUME NEW k \in (m + n) + 2 .. (m + n) + 4 PROVE k \in 0 .. 15
    OBVIOUS
  <2> QED  BY <1>11, <2>1, Zenon
<1>13. OID # SEQUENCE
  BY DEF OID, SEQUENCE
<1> QED  BY <1>4, <1>8, <1>9, <1>11, <1>12, <1>13, Zenon

LEMMA ValidityIs == \E v \in Seq(Octet) : v[1] # SEQUENCE /\ Validity = Tlv(SEQUENCE, v)
<1>1. << 1 >> \in Seq(Octet) /\ Len(<< 1 >>) = 1 /\ 1 \in Nat
  <2>1. 1 \in Octet  BY Tags
  <2> QED  BY <2>1
<1>2. PICK a \in Seq(Octet) : a = Tlv(UTC_TIME, << 1 >>)
  BY <1>1, Tags, TlvTyped
<1>3. Len(a) \in 1 + 2 .. 1 + 4 /\ a[1] = UTC_TIME
  BY <1>1, <1>2, Tags, TlvOfFew, Zenon
<1>4. PICK m \in 3 .. 5 : m = Len(a)
  BY <1>3
<1>5. PICK c \in Seq(Octet) : c = a \o a /\ c[1] = a[1]
  <2>1. /\ a \o a \in Seq(Octet)
        /\ \A i \in 1 .. m : (a \o a)[i] = a[i]
    BY <1>4, TwoParts
  <2>2. 1 \in 1 .. m
    BY <1>4
  <2> QED  BY <2>1, <2>2
<1>6. Validity = Tlv(SEQUENCE, c)
  BY <1>2, <1>5 DEF Validity
<1>7. UTC_TIME # SEQUENCE
  BY DEF UTC_TIME, SEQUENCE
<1> QED  BY <1>3, <1>5, <1>6, <1>7, Zenon

\* Any TLVs can follow each other.
LEMMA Tails ==
  ASSUME NEW n \in Nat, NEW tag \in [1 .. n -> Octet], NEW v \in [1 .. n -> Seq(Octet)]
  PROVE  \E tail : IsTail(n, tag, v, tail)
<1> DEFINE g    == [p \in (1 .. n) \X Seq(Octet) |-> Tlv(tag[p[1]], v[p[1]]) \o p[2]]
           next == [i \in 1 .. n |-> i + 1]
<1>1. ASSUME NEW p \in (1 .. n) \X Seq(Octet)
      PROVE  Tlv(tag[p[1]], v[p[1]]) \o p[2] \in Seq(Octet)
  <2>1. PICK i \in 1 .. n, s \in Seq(Octet) : p[1] = i /\ p[2] = s
    OBVIOUS
  <2>2. tag[i] \in Octet /\ v[i] \in Seq(Octet)
    OBVIOUS
  <2>3. Tlv(tag[i], v[i]) \in Seq(Octet)
    BY <2>2, TlvTyped
  <2>4. Tlv(tag[i], v[i]) \o s \in Seq(Octet)
    BY <2>3, Joined
  <2> QED  BY <2>1, <2>4
<1>2. g \in [(1 .. n) \X Seq(Octet) -> Seq(Octet)]
  BY <1>1
<1>3. next \in [1 .. n -> 1 .. n + 1] /\ \A i \in 1 .. n : i < next[i]
  OBVIOUS
<1>4. <<>> \in Seq(Octet)
  OBVIOUS
<1>5. PICK tail : GoesBack(n, Seq(Octet), <<>>, g, next, tail)
  <2> HIDE DEF g, next
  <2> QED  BY <1>2, <1>3, <1>4, Backwards
<1>6. /\ tail \in [1 .. n + 1 -> Seq(Octet)] /\ tail[n + 1] = <<>>
      /\ \A i \in 1 .. n : tail[i] = g[<<i, tail[next[i]]>>]
  BY <1>5 DEF GoesBack
<1>7. ASSUME NEW i \in 1 .. n PROVE tail[i] = Tlv(tag[i], v[i]) \o tail[i + 1]
  <2>1. next[i] = i + 1 /\ i + 1 \in 1 .. n + 1
    OBVIOUS
  <2>2. tail[i + 1] \in Seq(Octet)
    BY <1>6, <2>1
  <2>3. <<i, tail[i + 1]>> \in (1 .. n) \X Seq(Octet)
    BY <2>2
  <2>4. g[<<i, tail[i + 1]>>] = Tlv(tag[i], v[i]) \o tail[i + 1]
    BY <2>3
  <2> QED  BY <1>6, <2>1, <2>4
<1> QED  BY <1>6, <1>7 DEF IsTail

\* The whole of eight TLVs.
LEMMA EightTlvs ==
  ASSUME NEW t \in [1 .. 8 -> Seq(Octet)], NEW tail \in [1 .. 9 -> Seq(Octet)],
         tail[9] = <<>>, \A i \in 1 .. 8 : tail[i] = Then(t[i], tail[i + 1])
  PROVE  tail[1] = ((((((t[1] \o t[2]) \o t[3]) \o t[4]) \o t[5]) \o t[6]) \o t[7]) \o t[8]
<1>1. \A i \in 1 .. 8 : tail[i] = Then(t[i], tail[i + 1])
  OBVIOUS
<1>2. /\ 1 \in 1 .. 8 /\ 2 \in 1 .. 8 /\ 3 \in 1 .. 8 /\ 4 \in 1 .. 8 /\ 5 \in 1 .. 8
      /\ 6 \in 1 .. 8 /\ 7 \in 1 .. 8 /\ 8 \in 1 .. 8
      /\ 1 + 1 = 2 /\ 2 + 1 = 3 /\ 3 + 1 = 4 /\ 4 + 1 = 5 /\ 5 + 1 = 6 /\ 6 + 1 = 7
      /\ 7 + 1 = 8 /\ 8 + 1 = 9
  OBVIOUS
<1>3. /\ t[1] \in Seq(Octet) /\ t[2] \in Seq(Octet) /\ t[3] \in Seq(Octet) /\ t[4] \in Seq(Octet)
      /\ t[5] \in Seq(Octet) /\ t[6] \in Seq(Octet) /\ t[7] \in Seq(Octet) /\ t[8] \in Seq(Octet)
  BY <1>2, Zenon
<1>4. /\ tail[1] = Then(t[1], tail[2]) /\ tail[2] = Then(t[2], tail[3])
      /\ tail[3] = Then(t[3], tail[4]) /\ tail[4] = Then(t[4], tail[5])
      /\ tail[5] = Then(t[5], tail[6]) /\ tail[6] = Then(t[6], tail[7])
      /\ tail[7] = Then(t[7], tail[8]) /\ tail[8] = Then(t[8], tail[9])
  BY <1>1, <1>2
<1>5. tail[8] = t[8]
  <2>1. PICK s \in Seq(Octet) : s = t[8]  BY <1>3
  <2>2. s \o <<>> = s  BY ConcatEmptySeq
  <2>3. Then(t[8], <<>>) = t[8]  BY <2>1, <2>2, Zenon DEF Then
  <2> QED  BY <1>4, <2>3
<1>6. ASSUME NEW l \in Seq(Octet), NEW i \in 2 .. 7, NEW k \in 1 .. 9, k = i + 1,
             Then(l, tail[i]) = tail[1]
      PROVE  Then(l, t[i]) \in Seq(Octet) /\ Then(Then(l, t[i]), tail[k]) = tail[1]
  <2>1. i \in 1 .. 8
    OBVIOUS
  <2>2. t[i] \in Seq(Octet) /\ tail[k] \in Seq(Octet)
    BY <2>1, Zenon
  <2>3. tail[i] = Then(t[i], tail[k])
    BY <1>1, <1>6, <2>1, Zenon
  <2>4. PICK c \in Seq(Octet), r \in Seq(Octet) : c = t[i] /\ r = tail[k]
    BY <2>2, Zenon
  <2>5. Then(l, c) \in Seq(Octet) /\ Then(Then(l, c), r) = Then(l, Then(c, r))
    BY ThenIs, ThenThen, ZenonT(60)
  <2> QED  BY <1>6, <2>3, <2>4, <2>5, Zenon
<1>7. PICK l2 \in Seq(Octet) : l2 = Then(t[1], t[2]) /\ Then(l2, tail[3]) = tail[1]
  <2>1. 2 \in 2 .. 7 /\ 3 \in 1 .. 9 /\ 3 = 2 + 1
    OBVIOUS
  <2> QED  BY <1>3, <1>4, <1>6, <2>1, Zenon
<1>8. PICK l3 \in Seq(Octet) : l3 = Then(l2, t[3]) /\ Then(l3, tail[4]) = tail[1]
  <2>1. 3 \in 2 .. 7 /\ 4 \in 1 .. 9 /\ 4 = 3 + 1
    OBVIOUS
  <2> QED  BY <1>3, <1>6, <1>7, <2>1, Zenon
<1>9. PICK l4 \in Seq(Octet) : l4 = Then(l3, t[4]) /\ Then(l4, tail[5]) = tail[1]
  <2>1. 4 \in 2 .. 7 /\ 5 \in 1 .. 9 /\ 5 = 4 + 1
    OBVIOUS
  <2> QED  BY <1>3, <1>6, <1>8, <2>1, Zenon
<1>10. PICK l5 \in Seq(Octet) : l5 = Then(l4, t[5]) /\ Then(l5, tail[6]) = tail[1]
  <2>1. 5 \in 2 .. 7 /\ 6 \in 1 .. 9 /\ 6 = 5 + 1
    OBVIOUS
  <2> QED  BY <1>3, <1>6, <1>9, <2>1, Zenon
<1>11. PICK l6 \in Seq(Octet) : l6 = Then(l5, t[6]) /\ Then(l6, tail[7]) = tail[1]
  <2>1. 6 \in 2 .. 7 /\ 7 \in 1 .. 9 /\ 7 = 6 + 1
    OBVIOUS
  <2> QED  BY <1>3, <1>6, <1>10, <2>1, Zenon
<1>12. PICK l7 \in Seq(Octet) : l7 = Then(l6, t[7]) /\ Then(l7, tail[8]) = tail[1]
  <2>1. 7 \in 2 .. 7 /\ 8 \in 1 .. 9 /\ 8 = 7 + 1
    OBVIOUS
  <2> QED  BY <1>3, <1>6, <1>11, <2>1, Zenon
<1> QED  BY <1>5, <1>7, <1>8, <1>9, <1>10, <1>11, <1>12, Zenon DEF Then

LEMMA AsFunction ==
  ASSUME NEW S, NEW s \in Seq(S), NEW n \in Nat, Len(s) = n
  PROVE  s \in [1 .. n -> S]
  OBVIOUS

\* A TBS is a SEQUENCE of them (testpki.rs).
LEMMA TbsIs ==
  ASSUME NEW request \in Requests
  PROVE  \E tag, v, tail : /\ IsTail(8, tag, v, tail) /\ IsTbs(request, tag, v)
                           /\ Tbs(request) = Tlv(SEQUENCE, tail[1])
<1>1. PICK v7 \in Seq(Octet) : /\ v7 = SpkiOf(request.curveOid, request.point)
                               /\ Spki(request.curveOid, request.point) = Tlv(SEQUENCE, v7)
  <2>1. request.curveOid \in Seq(Octet) /\ request.point \in Seq(Octet)
    BY RequestFields
  <2> QED  BY <2>1, SpkiTyped
<1>2. PICK v1 \in Seq(Octet) : v1 = Tlv(INTEGER, << 2 >>)
  <2>1. << 2 >> \in Seq(Octet)
    <3>1. 2 \in Octet  BY Tags
    <3> QED  BY <3>1
  <2> QED  BY <2>1, Tags, TlvTyped
<1>3. PICK v2 \in Seq(Octet) : Integer(Fingerprint([point |-> request.point])) = Tlv(INTEGER, v2)
  <2>1. request.point \in Seq(Octet) \ {<<>>}
    BY RequestFields
  <2>2. Fingerprint([point |-> request.point]) \in Seq(Octet)
    BY <2>1, Fingerprints
  <2> QED  BY <2>2, IntegerIs
<1>4. PICK v3 \in Seq(Octet) : v3[1] # SEQUENCE /\ SigAlg = Tlv(SEQUENCE, v3)
  BY SigAlgIs
<1>5. PICK v4 \in Seq(Octet) : Name(request.issuerName) = Tlv(SEQUENCE, v4) /\ (v4 = <<>> \/ v4[1] = SET)
  BY RequestFields, NameIs
<1>6. PICK v5 \in Seq(Octet) : v5[1] # SEQUENCE /\ Validity = Tlv(SEQUENCE, v5)
  BY ValidityIs
<1>7. PICK v6 \in Seq(Octet) : Name(request.subjectName) = Tlv(SEQUENCE, v6) /\ (v6 = <<>> \/ v6[1] = SET)
  BY RequestFields, NameIs
<1>8. PICK v8 \in Seq(Octet) : Extensions(request) = Tlv(EXTENSIONS, v8)
  BY ExtensionsTyped
<1> DEFINE tag == <<VERSION, INTEGER, SEQUENCE, SEQUENCE, SEQUENCE, SEQUENCE, SEQUENCE, EXTENSIONS>>
           v   == <<v1, v2, v3, v4, v5, v6, v7, v8>>
<1>9. tag \in [1 .. 8 -> Octet]
  <2>1. /\ tag \in Seq(Octet) /\ Len(tag) = 8
    BY Tags
  <2> HIDE DEF tag
  <2> QED  BY <2>1, AsFunction
<1>10. v \in [1 .. 8 -> Seq(Octet)]
  <2>1. v \in Seq(Seq(Octet)) /\ Len(v) = 8
    OBVIOUS
  <2> HIDE DEF v
  <2> QED  BY <2>1, AsFunction
<1>11. /\ tag[1] = VERSION /\ tag[2] = INTEGER /\ tag[3] = SEQUENCE /\ tag[4] = SEQUENCE
       /\ tag[5] = SEQUENCE /\ tag[6] = SEQUENCE /\ tag[7] = SEQUENCE /\ tag[8] = EXTENSIONS
  OBVIOUS
<1>12. /\ v[1] = v1 /\ v[2] = v2 /\ v[3] = v3 /\ v[4] = v4 /\ v[5] = v5 /\ v[6] = v6
       /\ v[7] = v7 /\ v[8] = v8
  OBVIOUS
<1> HIDE DEF v
<1>13. IsTbs(request, tag, v)
  <2>1. \A i \in {3, 4, 5, 6} : v[i] = <<>> \/ v[i][1] # SEQUENCE
    <3>1. SET # SEQUENCE  BY DEF SET, SEQUENCE
    <3> QED  BY <1>4, <1>5, <1>6, <1>7, <1>12, <3>1
  <2> QED  BY <1>1, <1>12, <2>1, Zenon DEF IsTbs
<1> HIDE DEF tag
<1>14. PICK tail : IsTail(8, tag, v, tail)
  <2>1. 8 \in Nat  OBVIOUS
  <2> QED  BY <1>9, <1>10, <2>1, Tails, Zenon
<1> DEFINE t == [i \in 1 .. 8 |-> Tlv(tag[i], v[i])]
<1>15. /\ t[1] = Tlv(VERSION, v1) /\ t[2] = Tlv(INTEGER, v2) /\ t[3] = Tlv(SEQUENCE, v3)
       /\ t[4] = Tlv(SEQUENCE, v4) /\ t[5] = Tlv(SEQUENCE, v5) /\ t[6] = Tlv(SEQUENCE, v6)
       /\ t[7] = Tlv(SEQUENCE, v7) /\ t[8] = Tlv(EXTENSIONS, v8)
  <2>1. \A i \in 1 .. 8 : t[i] = Tlv(tag[i], v[i])
    OBVIOUS
  <2>2. /\ 1 \in 1 .. 8 /\ 2 \in 1 .. 8 /\ 3 \in 1 .. 8 /\ 4 \in 1 .. 8
        /\ 5 \in 1 .. 8 /\ 6 \in 1 .. 8 /\ 7 \in 1 .. 8 /\ 8 \in 1 .. 8
    OBVIOUS
  <2> HIDE DEF t
  <2> QED  BY <1>11, <1>12, <2>1, <2>2, Zenon
<1>16. Tbs(request) =
         Tlv(SEQUENCE, ((((((t[1] \o t[2]) \o t[3]) \o t[4]) \o t[5]) \o t[6]) \o t[7]) \o t[8])
  <2> HIDE DEF t
  <2> QED  BY <1>1, <1>2, <1>3, <1>4, <1>5, <1>6, <1>7, <1>8, <1>15, Zenon DEF Tbs
<1>17. t \in [1 .. 8 -> Seq(Octet)]
  <2>1. ASSUME NEW i \in 1 .. 8 PROVE Tlv(tag[i], v[i]) \in Seq(Octet)
    <3>1. tag[i] \in Octet /\ v[i] \in Seq(Octet)
      BY <1>9, <1>10
    <3> QED  BY <3>1, TlvTyped
  <2> QED  BY <2>1
<1>18. /\ tail \in [1 .. 9 -> Seq(Octet)] /\ tail[9] = <<>>
       /\ \A i \in 1 .. 8 : tail[i] = Then(t[i], tail[i + 1])
  <2>1. 8 + 1 = 9
    OBVIOUS
  <2>2. /\ tail \in [1 .. 8 + 1 -> Seq(Octet)] /\ tail[8 + 1] = <<>>
        /\ \A i \in 1 .. 8 : tail[i] = Tlv(tag[i], v[i]) \o tail[i + 1]
    BY <1>14 DEF IsTail
  <2>3. \A i \in 1 .. 8 : t[i] = Tlv(tag[i], v[i])
    OBVIOUS
  <2> HIDE DEF t
  <2> QED  BY <2>1, <2>2, <2>3, Zenon DEF Then
<1> HIDE DEF t
<1>19. tail[1] = ((((((t[1] \o t[2]) \o t[3]) \o t[4]) \o t[5]) \o t[6]) \o t[7]) \o t[8]
  BY <1>17, <1>18, EightTlvs, Zenon
<1> QED  BY <1>13, <1>14, <1>16, <1>19, Zenon

-----------------------------------------------------------------------------
(* A certificate *)

\* What follows the TBS in a certificate.
Behind(signature) == SigAlg \o Tlv(BIT_STRING, << 0 >> \o signature)

\* What may be requested has a request's fields.
LEMMA RequestedTyped == Requested \subseteq Requests
<1>1. ASSUME NEW n \in 1 .. 6, NEW key \in Key, NEW issuer \in Key,
             NEW san \in {None} \cup {Some(o) : o \in San \cup {EUM_SAN_OID, EUICC_SAN_OID, CI_SAN_OID}},
             NEW role \in {Some(o) : o \in Role \cup RSP_ROLE_OIDS}
      PROVE  Request(<<n>>, key, issuer, san, role) \in Requests
  <2>1. <<CommonName(<<n>>)>> \in Attributes
    <3>1. <<n>> \in Seq(Octet) /\ <<85, 4, 3>> \in Seq(Octet)
      <4>1. n \in Octet /\ 85 \in Octet /\ 4 \in Octet /\ 3 \in Octet
        BY Tags
      <4> QED  BY <4>1
    <3>2. UTF8 \in Octet
      BY Tags
    <3>3. CommonName(<<n>>) \in [oid : Seq(Octet), tag : Octet, value : Seq(Octet)]
      BY <3>1, <3>2 DEF CommonName, Attribute
    <3> QED  BY <3>3 DEF Attributes
  <2>2. CurveOid(key.curve) \in Seq(Octet) /\ key.point \in Seq(Octet) \ {<<>>}
    BY Points, Identifiers
  <2>3. PICK a \in Attributes : a = <<CommonName(<<n>>)>>
    BY <2>1
  <2> QED  BY <2>2, <2>3 DEF Request, Requests
<1>2. \A pki \in Pki : pki.ci \in Key /\ pki.eum \in Key /\ pki.euicc \in Key /\ pki.dp_pb \in Key
  BY ChainAssumption
<1>3. /\ Some(EUM_SAN_OID) \in {Some(o) : o \in San \cup {EUM_SAN_OID, EUICC_SAN_OID, CI_SAN_OID}}
      /\ Some(EUICC_SAN_OID) \in {Some(o) : o \in San \cup {EUM_SAN_OID, EUICC_SAN_OID, CI_SAN_OID}}
      /\ Some(CI_SAN_OID) \in {Some(o) : o \in San \cup {EUM_SAN_OID, EUICC_SAN_OID, CI_SAN_OID}}
      /\ \A o \in San \cup {EUM_SAN_OID} :
           Some(o) \in {Some(p) : p \in San \cup {EUM_SAN_OID, EUICC_SAN_OID, CI_SAN_OID}}
  OBVIOUS
<1>4. /\ Some(OID_RSP_ROLE_DP_AUTH) \in {Some(o) : o \in Role \cup RSP_ROLE_OIDS}
      /\ Some(OID_RSP_ROLE_EUICC) \in {Some(o) : o \in Role \cup RSP_ROLE_OIDS}
      /\ Some(OID_RSP_ROLE_CI_SUB_CA) \in {Some(o) : o \in Role \cup RSP_ROLE_OIDS}
      /\ Some(OID_RSP_ROLE_DP_PB) \in {Some(o) : o \in Role \cup RSP_ROLE_OIDS}
      /\ \A o \in Role : Some(o) \in {Some(p) : p \in Role \cup RSP_ROLE_OIDS}
  <2>1. {OID_RSP_ROLE_DP_AUTH, OID_RSP_ROLE_EUICC, OID_RSP_ROLE_CI_SUB_CA, OID_RSP_ROLE_DP_PB}
          \subseteq RSP_ROLE_OIDS
    BY Zenon DEF RSP_ROLE_OIDS, AuthRoles, PbRoles
  <2> QED  BY <2>1
<1>5. ASSUME NEW pki \in Pki PROVE ToSet(Chain(pki)) \subseteq Requests
  <2>1. ToSet(Chain(pki)) =
          {Request(<< 1 >>, pki.eum, pki.ci, Some(EUM_SAN_OID), Some(OID_RSP_ROLE_DP_AUTH)),
           Request(<< 2 >>, pki.euicc, pki.ci, Some(EUICC_SAN_OID), Some(OID_RSP_ROLE_EUICC)),
           Request(<< 3 >>, pki.ci, pki.ci, Some(CI_SAN_OID), Some(OID_RSP_ROLE_CI_SUB_CA)),
           Request(<< 4 >>, pki.dp_pb, pki.ci, Some(EUM_SAN_OID), Some(OID_RSP_ROLE_DP_PB))}
    <3>1. \A a, b, c, d : ToSet(<<a, b, c, d>>) = {a, b, c, d}
      BY DEF ToSet
    <3>2. PICK a, b, c, d :
            /\ a = Request(<< 1 >>, pki.eum, pki.ci, Some(EUM_SAN_OID), Some(OID_RSP_ROLE_DP_AUTH))
            /\ b = Request(<< 2 >>, pki.euicc, pki.ci, Some(EUICC_SAN_OID), Some(OID_RSP_ROLE_EUICC))
            /\ c = Request(<< 3 >>, pki.ci, pki.ci, Some(CI_SAN_OID), Some(OID_RSP_ROLE_CI_SUB_CA))
            /\ d = Request(<< 4 >>, pki.dp_pb, pki.ci, Some(EUM_SAN_OID), Some(OID_RSP_ROLE_DP_PB))
      OBVIOUS
    <3>3. Chain(pki) = <<a, b, c, d>>
      BY <3>2 DEF Chain
    <3>4. ToSet(Chain(pki)) = {a, b, c, d}
      BY <3>1, <3>3
    <3> QED  BY <3>2, <3>4
  <2>2. 1 \in 1 .. 6 /\ 2 \in 1 .. 6 /\ 3 \in 1 .. 6 /\ 4 \in 1 .. 6
    OBVIOUS
  <2> QED  BY <1>1, <1>2, <1>3, <1>4, <2>1, <2>2
<1>6. ASSUME NEW pki \in Pki, NEW s \in Subject, NEW san \in San \cup {EUM_SAN_OID}
      PROVE  EntityRequest(pki, s, san) \in Requests
  BY <1>1, <1>2, <1>3, <1>4, DataAssumption DEF EntityRequest
<1>7. ASSUME NEW pki \in Pki, NEW s \in Subject, NEW role \in Role
      PROVE  RoleRequest(pki, s, role) \in Requests
  BY <1>1, <1>2, <1>3, <1>4, DataAssumption DEF RoleRequest
<1>8. ASSUME NEW pki \in Pki PROVE NoEntityRequest(pki) \in Requests
  BY <1>1, <1>2, <1>3, <1>4, DataAssumption DEF NoEntityRequest
<1> QED  BY <1>5, <1>6, <1>7, <1>8, ForeignAssumption DEF Requested

\* What follows the TBS is short, and a certificate is one TLV.
LEMMA BehindIs ==
  ASSUME NEW signature \in Seq(Octet), Len(signature) = 3
  PROVE  /\ Behind(signature) \in Seq(Octet) /\ Len(Behind(signature)) \in 0 .. 23
         /\ << 0 >> \o signature \in Seq(Octet) /\ Len(<< 0 >> \o signature) = 4
<1>1. << 0 >> \in Seq(Octet) /\ Len(<< 0 >>) = 1
  <2>1. 0 \in Octet  BY Tags
  <2> QED  BY <2>1
<1>2. PICK o \in Seq(Octet) : o = << 0 >> \o signature /\ Len(o) = 4
  <2>1. PICK z \in Seq(Octet) : z = << 0 >> /\ Len(z) = 1
    BY <1>1
  <2>2. z \o signature \in Seq(Octet) /\ Len(z \o signature) = Len(z) + Len(signature)
    BY TwoParts
  <2>3. 1 + 3 = 4
    OBVIOUS
  <2> QED  BY <2>1, <2>2, <2>3
<1>3. PICK b \in Seq(Octet) : b = Tlv(BIT_STRING, o) /\ Len(b) \in 4 + 2 .. 4 + 4
  <2>1. 4 \in Nat
    OBVIOUS
  <2> QED  BY <1>2, <2>1, Tags, TlvOfFew
<1>4. PICK a \in Seq(Octet) : a = SigAlg /\ Len(a) \in 0 .. 15
  BY SigAlgIs
<1>5. PICK j \in 0 .. 15, k \in 6 .. 8 : j = Len(a) /\ k = Len(b)
  BY <1>3, <1>4
<1>6. a \o b \in Seq(Octet) /\ Len(a \o b) = j + k
  BY <1>5, TwoParts
<1>7. Behind(signature) = a \o b
  BY <1>2, <1>3, <1>4 DEF Behind
<1>8. j + k \in 0 .. 23
  OBVIOUS
<1> QED  BY <1>2, <1>6, <1>7, <1>8

LEMMA AssembleIs ==
  ASSUME NEW tbs \in Seq(Octet), NEW signature \in Seq(Octet), Len(signature) = 3
  PROVE  Assemble(tbs, signature) = Tlv(SEQUENCE, tbs \o Behind(signature))
<1>1. PICK a \in Seq(Octet) : a = SigAlg
  BY SigAlgIs
<1>2. PICK b \in Seq(Octet) : b = Tlv(BIT_STRING, << 0 >> \o signature)
  BY BehindIs, Tags, TlvTyped
<1>3. (tbs \o a) \o b = tbs \o (a \o b)
  BY JoinedTwice
<1> QED  BY <1>1, <1>2, <1>3, Zenon DEF Assemble, Behind

\* A certificate is a SEQUENCE that der_length can carry, and begins with its TBS.
LEMMA CertificateIs ==
  ASSUME NEW request \in Requested, NEW signature \in Seq(Octet), Len(signature) = 3
  PROVE  \E fields \in Seq(Octet), behind \in Seq(Octet), content \in Seq(Octet) :
           /\ Tbs(request) = Tlv(SEQUENCE, fields) /\ Len(fields) < Carried
           /\ behind = Behind(signature) /\ content = Tbs(request) \o behind
           /\ Assemble(Tbs(request), signature) = Tlv(SEQUENCE, content) /\ Len(content) < Carried
<1>1. PICK tag, v, tail : IsTail(8, tag, v, tail) /\ Tbs(request) = Tlv(SEQUENCE, tail[1])
  BY RequestedTyped, TbsIs
<1>2. PICK fields \in Seq(Octet) : fields = tail[1]
  <2>1. 1 \in 1 .. 8 + 1
    OBVIOUS
  <2> QED  BY <1>1, <2>1 DEF IsTail
<1>3. PICK t \in Seq(Octet) : t = Tlv(SEQUENCE, fields) /\ Len(t) >= Len(fields) + 2
  BY Tags, TlvTyped
<1>4. Tbs(request) = t
  BY <1>1, <1>2, <1>3
<1>5. PICK m \in Nat, n \in Nat : m = Len(t) /\ n = Len(fields)
  OBVIOUS
<1>6. m < 65500 /\ n < Carried
  <2>1. m < 65500
    BY <1>4, <1>5, LengthAssumption
  <2> QED  BY <1>3, <1>5, <2>1 DEF Carried
<1>7. PICK behind \in Seq(Octet) : behind = Behind(signature) /\ Len(behind) \in 0 .. 23
  BY BehindIs
<1>8. PICK k \in 0 .. 23 : k = Len(behind)
  BY <1>7
<1>9. PICK content \in Seq(Octet) : content = t \o behind /\ Len(content) = m + k
  <2>1. t \o behind \in Seq(Octet) /\ Len(t \o behind) = Len(t) + Len(behind)
    BY TwoParts, Zenon
  <2> QED  BY <1>5, <1>8, <2>1
<1>10. m + k < Carried
  BY <1>6 DEF Carried
<1>11. Assemble(t, signature) = Tlv(SEQUENCE, content)
  BY <1>7, <1>9, AssembleIs, Zenon
<1>12. /\ Tbs(request) = Tlv(SEQUENCE, fields) /\ Len(fields) < Carried
       /\ behind = Behind(signature) /\ content = Tbs(request) \o behind
       /\ Assemble(Tbs(request), signature) = Tlv(SEQUENCE, content) /\ Len(content) < Carried
  <2>1. Tbs(request) = Tlv(SEQUENCE, fields)
    BY <1>1, <1>2
  <2>2. Len(fields) < Carried /\ Len(content) < Carried
    BY <1>5, <1>6, <1>9, <1>10
  <2>3. content = Tbs(request) \o behind /\ Assemble(Tbs(request), signature) = Tlv(SEQUENCE, content)
    BY <1>4, <1>9, <1>11, Zenon
  <2> QED  BY <1>7, <2>1, <2>2, <2>3, Zenon
<1> QED  BY <1>12, Zenon

-----------------------------------------------------------------------------
(* What is read of it *)

LEMMA Results == \A v : Ok(v).ok = TRUE /\ Ok(v).val = v /\ Err(v).ok = FALSE
  BY DEF Ok, Err

\* BIT STRINGs of whole octets (x509.rs 732-745).
LEMMA BitStringIs ==
  ASSUME NEW o \in Seq(Octet), Len(<< 0 >> \o o) < Carried
  PROVE  BitStringOctets(Tlv(BIT_STRING, << 0 >> \o o)) = Ok(o)
<1>1. PICK z \in Seq(Octet) : z = << 0 >> /\ Len(z) = 1
  <2>1. 0 \in Octet  BY Tags
  <2>2. << 0 >> \in Seq(Octet) /\ Len(<< 0 >>) = 1
    BY <2>1
  <2> QED  BY <2>2
<1>2. PICK b \in Seq(Octet) : b = z \o o /\ Len(b) = 1 + Len(o) /\ b[1] = 0
  <2>1. /\ z \o o \in Seq(Octet) /\ Len(z \o o) = Len(z) + Len(o)
        /\ \A i \in 1 .. Len(z) : (z \o o)[i] = z[i]
    BY TwoParts
  <2>2. 1 \in 1 .. Len(z) /\ z[1] = 0
    BY <1>1
  <2> QED  BY <1>1, <2>1, <2>2
<1>3. From(b, 2) = o
  <2>1. From(z \o o, Len(z) + 1) = o
    BY CutApart
  <2>2. 1 + 1 = 2
    OBVIOUS
  <2> QED  BY <1>1, <1>2, <2>1, <2>2
<1>4. b # <<>>
  <2>1. Len(o) \in Nat
    OBVIOUS
  <2>2. Len(b) # 0
    BY <1>2, <2>1
  <2> QED  BY <2>2
<1>5. ReadTlv(Tlv(BIT_STRING, b), BIT_STRING) = Ok(Item(BIT_STRING, b))
  BY <1>1, <1>2, Tags, ReadsOnly
<1>6. Item(BIT_STRING, b).value = b
  BY DEF Item
<1>7. BitStringOctets(Tlv(BIT_STRING, b)) = Ok(From(b, 2))
  BY <1>2, <1>4, <1>5, <1>6, Results DEF BitStringOctets, IfOk
<1> QED  BY <1>1, <1>2, <1>3, <1>7

\* The signature is read as it was written.
LEMMA SignatureIs ==
  ASSUME NEW signature \in Seq(Octet), Len(signature) = 3
  PROVE  SignatureIn(Behind(signature)) = Ok(signature)
<1>1. PICK v \in Seq(Octet) : SigAlg = Tlv(SEQUENCE, v) /\ Len(v) < Carried
  <2>1. PICK v \in Seq(Octet) : SigAlg = Tlv(SEQUENCE, v) /\ Len(SigAlg) \in 0 .. 15
    BY SigAlgIs
  <2>2. Len(Tlv(SEQUENCE, v)) >= Len(v) + 2
    BY Tags, TlvTyped
  <2>3. PICK n \in Nat, k \in 0 .. 15 : n = Len(v) /\ k = Len(SigAlg)
    BY <2>1
  <2>4. k >= n + 2
    BY <2>1, <2>2, <2>3
  <2>5. n < Carried
    BY <2>4 DEF Carried
  <2> QED  BY <2>1, <2>3, <2>5
<1>2. PICK rest \in Seq(Octet) : rest = Tlv(BIT_STRING, << 0 >> \o signature)
  BY BehindIs, Tags, TlvTyped
<1>3. BitStringOctets(rest) = Ok(signature)
  <2>1. Len(<< 0 >> \o signature) < Carried
    <3>1. Len(<< 0 >> \o signature) = 4
      BY BehindIs
    <3> QED  BY <3>1 DEF Carried
  <2> QED  BY <1>2, <2>1, BitStringIs
<1>4. PICK q : q = Tlv(SEQUENCE, v) \o rest
  OBVIOUS
<1>5. ReadTlv(q, SEQUENCE) = Ok(Item(SEQUENCE, v)) /\ From(q, Item(SEQUENCE, v).used + 1) = rest
  BY <1>1, <1>4, Tags, ReadsFirst, ZenonT(60)
<1>6. Behind(signature) = q
  BY <1>1, <1>2, <1>4 DEF Behind
<1>7. SignatureIn(q) = Ok(signature)
  BY <1>3, <1>5, Results DEF SignatureIn, IfOk
<1> QED  BY <1>6, <1>7

\* A reader that looks into a certificate finds the TBS and what follows it.
LEMMA ContentIs ==
  ASSUME NEW fields \in Seq(Octet), NEW behind \in Seq(Octet), Len(fields) < Carried,
         Len(Tlv(SEQUENCE, fields) \o behind) < Carried
  PROVE  LET content == Tlv(SEQUENCE, fields) \o behind
         IN  /\ ReadTlvAny(Tlv(SEQUENCE, content)) = Ok(Item(SEQUENCE, content))
             /\ ReadTlv(Tlv(SEQUENCE, content), SEQUENCE) = Ok(Item(SEQUENCE, content))
             /\ ReadTlvAny(content) = Ok(Item(SEQUENCE, fields))
             /\ ReadTlv(content, SEQUENCE) = Ok(Item(SEQUENCE, fields))
             /\ From(content, Item(SEQUENCE, fields).used + 1) = behind
<1>1. PICK content \in Seq(Octet) : content = Tlv(SEQUENCE, fields) \o behind
  BY Tags, TlvTyped, Joined
<1>2. /\ ReadTlvAny(Tlv(SEQUENCE, content)) = Ok(Item(SEQUENCE, content))
      /\ ReadTlv(Tlv(SEQUENCE, content), SEQUENCE) = Ok(Item(SEQUENCE, content))
  BY <1>1, Tags, ReadsOnly
<1>3. /\ ReadTlvAny(content) = Ok(Item(SEQUENCE, fields))
      /\ ReadTlv(content, SEQUENCE) = Ok(Item(SEQUENCE, fields))
      /\ From(content, Item(SEQUENCE, fields).used + 1) = behind
  BY <1>1, Tags, ReadsFirst, ZenonT(60)
<1> QED  BY <1>1, <1>2, <1>3

\* The TBS of a certificate with some content, if it takes so many octets, and the
\* signature.
Extracted(der, content, used, signature) ==
  LET start == Len(der) - Len(content)
  IN  IF start + used > Len(der) THEN Err("Certificate")
      ELSE Ok([tbs |-> SubSeq(der, start + 1, start + used), signature |-> signature])

\* Where in a SEQUENCE the first TLV of its content is.
LEMMA WhereItIs ==
  ASSUME NEW tbs \in Seq(Octet), NEW behind \in Seq(Octet)
  PROVE  \A signature : Extracted(Tlv(SEQUENCE, tbs \o behind), tbs \o behind, Len(tbs), signature)
                          = Ok([tbs |-> tbs, signature |-> signature])
<1>1. PICK content \in Seq(Octet) : content = tbs \o behind
  BY Joined
<1>2. /\ Tlv(SEQUENCE, content) \in Seq(Octet)
      /\ Len(Tlv(SEQUENCE, content)) = 1 + Len(DerLength(Len(content))) + Len(content)
      /\ \A i \in 1 .. Len(content) :
           Tlv(SEQUENCE, content)[1 + Len(DerLength(Len(content))) + i] = content[i]
  BY Tags, TlvOctets, ZenonT(60)
<1>3. PICK m \in Nat, k \in Nat, j \in Nat : m = Len(content) /\ k = Len(tbs) /\ j = Len(behind)
  OBVIOUS
<1>4. m = k + j /\ \A i \in 1 .. k : content[i] = tbs[i]
  BY <1>1, <1>3, TwoParts
<1>5. PICK l \in 1 .. 3 : l = Len(DerLength(Len(content)))
  BY <1>3, LengthOctets
<1>6. PICK der \in Seq(Octet) :
        /\ der = Tlv(SEQUENCE, content) /\ Len(der) = 1 + l + m
        /\ \A i \in 1 .. m : der[1 + l + i] = content[i]
  BY <1>2, <1>3, <1>5
<1>7. PICK h \in Nat : h = 1 + l /\ Len(der) - m = h
  <2>1. 1 + l \in Nat /\ 1 + l + m - m = 1 + l
    OBVIOUS
  <2> QED  BY <1>6, <2>1
<1>8. h + k <= Len(der) /\ \A i \in 1 .. k : der[h + i] = tbs[i]
  <2>1. h + k <= 1 + l + m /\ \A i \in 1 .. k : i \in 1 .. m
    BY <1>4, <1>7
  <2> QED  BY <1>4, <1>6, <1>7, <2>1
<1>9. SubSeq(der, h + 1, h + k) = tbs
  BY <1>3, <1>8, SliceIs
<1>10. ~(h + k > Len(der))
  <2>1. Len(der) \in Nat
    OBVIOUS
  <2> QED  BY <1>8, <2>1
<1>11. ASSUME NEW signature
       PROVE  Extracted(der, content, Len(tbs), signature)
                = Ok([tbs |-> tbs, signature |-> signature])
  <2>1. Len(der) - Len(content) = h /\ SubSeq(der, h + 1, h + Len(tbs)) = tbs
        /\ ~(h + Len(tbs) > Len(der))
    BY <1>3, <1>7, <1>9, <1>10
  <2> QED  BY <2>1, Zenon DEF Extracted
<1> QED  BY <1>1, <1>6, <1>11

LEMMA ExtractSteps ==
  ASSUME NEW der, NEW cert, NEW tbs, NEW signature, ReadTlv(der, SEQUENCE) = Ok(cert),
         ReadTlv(cert.value, SEQUENCE) = Ok(tbs),
         SignatureIn(From(cert.value, tbs.used + 1)) = Ok(signature)
  PROVE  ExtractTbsAndSignature(der) = Extracted(der, cert.value, tbs.used, signature)
<1> DEFINE result == Extracted(der, cert.value, tbs.used, signature)
<1>1. ExtractTbsAndSignature(der) =
        IF Ok(cert).ok
        THEN IF Ok(tbs).ok
             THEN IF Ok(signature).ok THEN result ELSE Ok(signature)
             ELSE Ok(tbs)
        ELSE Ok(cert)
  BY Results DEF ExtractTbsAndSignature, IfOk, Extracted
<1> HIDE DEF result
<1>2. ExtractTbsAndSignature(der) = result
  BY <1>1, Results
<1> QED  BY <1>2 DEF result

\* The TBS that is verified is the one that was signed: where it begins is worked out
\* from the end (x509.rs 524-545, 697-731).
LEMMA ExtractIs ==
  ASSUME NEW request \in Requested, NEW signature \in Seq(Octet), Len(signature) = 3
  PROVE  ExtractTbsAndSignature(Assemble(Tbs(request), signature)) =
           Ok([tbs |-> Tbs(request), signature |-> signature])
<1>1. PICK fields, behind, content :
        /\ fields \in Seq(Octet) /\ behind \in Seq(Octet) /\ content \in Seq(Octet)
        /\ Tbs(request) = Tlv(SEQUENCE, fields) /\ Len(fields) < Carried
        /\ behind = Behind(signature) /\ content = Tbs(request) \o behind
        /\ Assemble(Tbs(request), signature) = Tlv(SEQUENCE, content) /\ Len(content) < Carried
  BY CertificateIs
<1>2. content = Tlv(SEQUENCE, fields) \o behind /\ Len(Tlv(SEQUENCE, fields) \o behind) < Carried
  BY <1>1, Zenon
<1>3. /\ ReadTlv(Tlv(SEQUENCE, content), SEQUENCE) = Ok(Item(SEQUENCE, content))
      /\ ReadTlv(content, SEQUENCE) = Ok(Item(SEQUENCE, fields))
      /\ From(content, Item(SEQUENCE, fields).used + 1) = behind
  BY <1>1, <1>2, ContentIs
<1>4. Item(SEQUENCE, content).value = content /\ Item(SEQUENCE, fields).used = Len(Tbs(request))
  BY <1>1 DEF Item
<1>5. PICK outer, inner : outer = Item(SEQUENCE, content) /\ inner = Item(SEQUENCE, fields)
  OBVIOUS
<1>6. PICK der : der = Tlv(SEQUENCE, content)
  OBVIOUS
<1>7. /\ ReadTlv(der, SEQUENCE) = Ok(outer) /\ ReadTlv(outer.value, SEQUENCE) = Ok(inner)
      /\ SignatureIn(From(outer.value, inner.used + 1)) = Ok(signature)
  BY <1>1, <1>3, <1>4, <1>5, <1>6, SignatureIs
<1>8. ExtractTbsAndSignature(der) = Extracted(der, outer.value, inner.used, signature)
  BY <1>7, ExtractSteps
<1>9. Tbs(request) \in Seq(Octet)
  BY <1>1, Tags, TlvTyped
<1>10. Extracted(Tlv(SEQUENCE, Tbs(request) \o behind), Tbs(request) \o behind, Len(Tbs(request)), signature)
         = Ok([tbs |-> Tbs(request), signature |-> signature])
  BY <1>1, <1>9, WhereItIs, Zenon
<1>11. PICK c, t, r : /\ c = Tbs(request) \o behind /\ t = Tbs(request)
                      /\ r = Ok([tbs |-> Tbs(request), signature |-> signature])
  OBVIOUS
<1>12. Extracted(Tlv(SEQUENCE, c), c, Len(t), signature) = r
  BY <1>10, <1>11, Zenon
<1>13. ExtractTbsAndSignature(Assemble(t, signature)) = r
  BY <1>1, <1>4, <1>5, <1>6, <1>8, <1>11, <1>12, Zenon
<1> QED  BY <1>11, <1>13, Zenon

\* A certificate of which the end is missing cannot be read (x509.rs 1338-1343).
LEMMA CutCannotBeRead ==
  ASSUME NEW request \in Requested, NEW signature \in Seq(Octet), Len(signature) = 3,
         NEW d \in Seq(Octet), Len(d) < Len(Assemble(Tbs(request), signature)),
         Agrees(d, Assemble(Tbs(request), signature))
  PROVE  ~FromDer(d).ok
<1>1. PICK content : /\ content \in Seq(Octet) /\ Len(content) < Carried
                     /\ Assemble(Tbs(request), signature) = Tlv(SEQUENCE, content)
  BY CertificateIs
<1>2. ~(Len(d) >= Len(Tlv(SEQUENCE, content)))
  <2>1. Tlv(SEQUENCE, content) \in Seq(Octet)
    BY <1>1, Tags, TlvTyped
  <2>2. PICK m \in Nat, n \in Nat : m = Len(d) /\ n = Len(Tlv(SEQUENCE, content))
    BY <2>1
  <2> QED  BY <1>1, <2>2
<1>3. ~ReadTlvAny(d).ok
  BY <1>1, <1>2, Tags, ReadsWhatTlvWrote
<1>4. ~ReadTlv(d, SEQUENCE).ok
  BY <1>3, ReadTlvIs
<1>5. PICK r : r = ReadTlv(d, SEQUENCE)
  OBVIOUS
<1>6. ExtractSpkiPublicKey(d) = r
  BY <1>4, <1>5 DEF ExtractSpkiPublicKey, IfOk
<1>7. FromDer(d) = IF d = <<>> THEN Err("Certificate") ELSE r
  BY <1>4, <1>5, <1>6 DEF FromDer, IfOk
<1> QED  BY <1>4, <1>5, <1>7, Results

-----------------------------------------------------------------------------
(* What verifies *)

\* A signature verifies what it was made for under the key that made it, also where a
\* scalar may be too large (ecdsa.rs 250-345); and nothing verifies that is not in the log.
LEMMA VerifiesItsOwn ==
  ASSUME NEW key \in Key, NEW issuer \in Key, NEW message, NEW n \in DOMAIN signed, n # 0,
         signed[n] = [key |-> issuer, message |-> message]
  PROVE  VerifyDer(key, message, <<SEQUENCE, 1, n>>).ok <=> key = issuer
<1>1. PICK s : s = <<SEQUENCE, 1, n>>
  OBVIOUS
<1>2. Len(s) = 3 /\ s[1] = SEQUENCE /\ s[2] = 1 /\ s[3] = n
  BY <1>1
<1>3. PICK v : v = [curve |-> key.curve, number |-> n]
  OBVIOUS
<1>4. v.curve = key.curve /\ v.number = n
  BY <1>3
<1>5. SignatureFromDer(key.curve, s) = IF TooLargeFor(key.curve, n) THEN Err("Malformed") ELSE Ok(v)
  BY <1>2, <1>3 DEF SignatureFromDer
<1>6. CASE key = issuer
  <2>1. ~TooLargeFor(key.curve, n)
    BY <1>6 DEF TooLargeFor
  <2>2. VerifySignature(key, message, v) = Ok("verified")
    BY <1>4, <1>6 DEF VerifySignature
  <2>3. VerifyDer(key, message, s) = Ok("verified")
    BY <1>5, <2>1, <2>2, Results DEF VerifyDer, IfOk
  <2> QED  BY <1>1, <1>6, <2>3, Results
<1>7. CASE key # issuer
  <2>1. signed[n] # [key |-> key, message |-> message]
    BY <1>7
  <2>2. VerifySignature(key, message, v) = Err("VerificationFailed")
    BY <1>4, <2>1 DEF VerifySignature
  <2>3. ~VerifyDer(key, message, s).ok
    BY <1>5, <2>2, Results DEF VerifyDer, IfOk
  <2> QED  BY <1>1, <1>7, <2>3
<1> QED  BY <1>6, <1>7

LEMMA VerifiedIsInTheLog ==
  ASSUME NEW key, NEW message, NEW s, VerifyDer(key, message, s).ok
  PROVE  \E n \in DOMAIN signed : signed[n] = [key |-> key, message |-> message]
<1>1. PICK r : r = SignatureFromDer(key.curve, s)
  OBVIOUS
<1>2. r.ok /\ VerifyDer(key, message, s) = VerifySignature(key, message, r.val)
  BY <1>1 DEF VerifyDer, IfOk
<1>3. VerifySignature(key, message, r.val).ok
  BY <1>2
<1>4. PICK v : v = r.val
  OBVIOUS
<1>5. v.number \in DOMAIN signed /\ signed[v.number] = [key |-> key, message |-> message]
  BY <1>3, <1>4, Results DEF VerifySignature
<1> QED  BY <1>5

-----------------------------------------------------------------------------
(* The log of signatures *)

Entry == [key : Key, message : Seq(Octet)]

\* A log that has grown.
Grown(log, more) ==
  Len(log) <= Len(more) /\ \A n \in 1 .. Len(log) : n \in 1 .. Len(more) /\ more[n] = log[n]

\* One signature more, or the one that was made before (ecdsa.rs 195-248).
LEMMA LogIs ==
  ASSUME NEW log \in Seq(Entry), NEW entry \in Entry
  PROVE  LET more == Log(log, entry.key, entry.message)
         IN  /\ more \in Seq(Entry) /\ Len(more) <= Len(log) + 1 /\ Grown(log, more)
             /\ \E n \in 1 .. Len(more) : more[n] = entry
             /\ \A n \in 1 .. Len(more) :
                  (n \in 1 .. Len(log) /\ more[n] = log[n]) \/ more[n] = entry
<1>1. PICK key, message : /\ key = entry.key /\ message = entry.message
                          /\ entry = [key |-> key, message |-> message]
  BY DEF Entry
<1>2. PICK k \in Nat : k = Len(log) /\ DOMAIN log = 1 .. k
  OBVIOUS
<1>3. CASE IsSigned(log, key, message)
  <2>1. Log(log, key, message) = log
    BY <1>3 DEF Log
  <2>2. \E n \in 1 .. Len(log) : log[n] = entry
    BY <1>1, <1>2, <1>3 DEF IsSigned
  <2> QED  BY <1>1, <1>2, <2>1, <2>2 DEF Grown
<1>4. CASE ~IsSigned(log, key, message)
  <2>1. PICK more \in Seq(Entry) : /\ more = Append(log, entry) /\ Len(more) = k + 1
                                   /\ more[k + 1] = entry /\ \A n \in 1 .. k : more[n] = log[n]
    <3>1. /\ Append(log, entry) \in Seq(Entry) /\ Len(Append(log, entry)) = k + 1
          /\ Append(log, entry)[k + 1] = entry
          /\ \A n \in 1 .. k : Append(log, entry)[n] = log[n]
      BY <1>2
    <3> QED  BY <3>1
  <2>2. Log(log, key, message) = more
    BY <1>1, <1>4, <2>1 DEF Log
  <2>3. Grown(log, more)
    BY <1>2, <2>1 DEF Grown
  <2>4. \A n \in 1 .. Len(more) : (n \in 1 .. Len(log) /\ more[n] = log[n]) \/ more[n] = entry
    <3>1. \A n \in 1 .. k + 1 : n \in 1 .. k \/ n = k + 1
      OBVIOUS
    <3> QED  BY <1>2, <2>1, <3>1
  <2>5. k + 1 \in 1 .. Len(more)
    BY <2>1
  <2>6. \E n \in 1 .. Len(more) : more[n] = entry
    BY <2>1, <2>5
  <2>7. Log(log, entry.key, entry.message) = more /\ Len(more) <= Len(log) + 1
    BY <1>1, <1>2, <2>1, <2>2
  <2> QED  BY <2>3, <2>4, <2>6, <2>7, Zenon
<1> QED  BY <1>3, <1>4

\* What a log is once the first k of some entries have been made.
Signing(log, e, k, more) ==
  /\ more \in Seq(Entry) /\ Len(more) <= Len(log) + k /\ Grown(log, more)
  /\ \A i \in 1 .. k : \E m \in 1 .. Len(more) : more[m] = e[i]
  /\ \A m \in 1 .. Len(more) : \/ m \in 1 .. Len(log) /\ more[m] = log[m]
                               \/ \E i \in 1 .. k : more[m] = e[i]

LEMMA OneMoreSigned ==
  ASSUME NEW log \in Seq(Entry), NEW n \in Nat, NEW e \in [1 .. n -> Entry], NEW k \in 1 .. n,
         NEW l, Signing(log, e, k - 1, l)
  PROVE  Signing(log, e, k, Log(l, e[k].key, e[k].message))
<1>1. PICK more : more = Log(l, e[k].key, e[k].message)
  OBVIOUS
<1>2. e[k] \in Entry /\ e[k].key \in Key /\ e[k].message \in Seq(Octet)
      /\ e[k] = [key |-> e[k].key, message |-> e[k].message]
  <2>1. e[k] \in Entry
    OBVIOUS
  <2> QED  BY <2>1 DEF Entry
<1>3. /\ l \in Seq(Entry) /\ Len(l) <= Len(log) + (k - 1) /\ Grown(log, l)
      /\ \A i \in 1 .. k - 1 : \E m \in 1 .. Len(l) : l[m] = e[i]
      /\ \A m \in 1 .. Len(l) : \/ m \in 1 .. Len(log) /\ l[m] = log[m]
                                \/ \E i \in 1 .. k - 1 : l[m] = e[i]
  BY DEF Signing
<1>4. /\ more \in Seq(Entry) /\ Len(more) <= Len(l) + 1 /\ Grown(l, more)
      /\ \E m \in 1 .. Len(more) : more[m] = e[k]
      /\ \A m \in 1 .. Len(more) : (m \in 1 .. Len(l) /\ more[m] = l[m]) \/ more[m] = e[k]
  <2>1. PICK old \in Seq(Entry), entry \in Entry : old = l /\ entry = e[k]
    BY <1>2, <1>3
  <2>2. more = Log(old, entry.key, entry.message)
    BY <1>1, <2>1
  <2>3. /\ more \in Seq(Entry) /\ Len(more) <= Len(old) + 1 /\ Grown(old, more)
        /\ \E m \in 1 .. Len(more) : more[m] = entry
        /\ \A m \in 1 .. Len(more) : (m \in 1 .. Len(old) /\ more[m] = old[m]) \/ more[m] = entry
    <3> DEFINE l1 == Log(old, entry.key, entry.message)
    <3>1. l1 \in Seq(Entry) /\ Len(l1) <= Len(old) + 1 /\ Grown(old, l1)
      BY LogIs
    <3>2. \E m \in 1 .. Len(l1) : l1[m] = entry
      BY LogIs
    <3>3. \A m \in 1 .. Len(l1) : (m \in 1 .. Len(old) /\ l1[m] = old[m]) \/ l1[m] = entry
      BY LogIs
    <3>4. l1 = more
      BY <2>2
    <3> HIDE DEF l1
    <3> QED  BY <3>1, <3>2, <3>3, <3>4
  <2> QED  BY <2>1, <2>3
<1>5. PICK a \in Nat, b \in Nat, c \in Nat : a = Len(log) /\ b = Len(l) /\ c = Len(more)
  BY <1>3, <1>4
<1>6. c <= a + k
  BY <1>3, <1>4, <1>5
<1>7. Grown(log, more)
  BY <1>3, <1>4, <1>5 DEF Grown
<1>8. \A i \in 1 .. k : i \in 1 .. k - 1 \/ i = k
  OBVIOUS
<1>9. \A i \in 1 .. k - 1 : i \in 1 .. k
  OBVIOUS
<1>10. ASSUME NEW i \in 1 .. k PROVE \E m \in 1 .. Len(more) : more[m] = e[i]
  <2>1. CASE i = k
    BY <1>4, <2>1
  <2>2. CASE i \in 1 .. k - 1
    <3>1. PICK m \in 1 .. Len(l) : l[m] = e[i]
      BY <1>3, <2>2
    <3>2. m \in 1 .. Len(more) /\ more[m] = l[m]
      BY <1>4, <3>1 DEF Grown
    <3> QED  BY <3>1, <3>2
  <2> QED  BY <1>8, <2>1, <2>2
<1>11. ASSUME NEW m \in 1 .. Len(more)
       PROVE  \/ m \in 1 .. Len(log) /\ more[m] = log[m]
              \/ \E i \in 1 .. k : more[m] = e[i]
  <2>1. k \in 1 .. k
    OBVIOUS
  <2>2. CASE more[m] = e[k]
    BY <2>1, <2>2
  <2>3. CASE m \in 1 .. Len(l) /\ more[m] = l[m]
    BY <1>3, <1>9, <2>3
  <2> QED  BY <1>4, <2>2, <2>3
<1>12. Signing(log, e, k, more)
  BY <1>4, <1>5, <1>6, <1>7, <1>10, <1>11 DEF Signing
<1> QED  BY <1>1, <1>12

\* What is entered for a request.
EntryOf(request) == [key |-> request.issuer, message |-> Tbs(request)]

LEMMA EntryTyped == \A request \in Requested : EntryOf(request) \in Entry
<1>1. ASSUME NEW request \in Requested PROVE EntryOf(request) \in Entry
  <2>1. request \in Requests
    BY RequestedTyped
  <2>2. PICK tag, v, tail : IsTail(8, tag, v, tail) /\ Tbs(request) = Tlv(SEQUENCE, tail[1])
    BY <2>1, TbsIs
  <2>3. PICK fields \in Seq(Octet) : fields = tail[1]
    <3>1. 1 \in 1 .. 8 + 1
      OBVIOUS
    <3> QED  BY <2>2, <3>1 DEF IsTail
  <2>4. Tbs(request) \in Seq(Octet)
    <3>1. Tlv(SEQUENCE, fields) \in Seq(Octet)
      BY Tags, TlvTyped
    <3> QED  BY <2>2, <2>3, <3>1
  <2>5. request.issuer \in Key
    BY <2>1, RequestFields
  <2> QED  BY <2>4, <2>5 DEF Entry, EntryOf
<1> QED  BY <1>1

\* All of them.
LEMMA LogAllIs ==
  ASSUME NEW log \in Seq(Entry), NEW n \in Nat, NEW requests, DOMAIN requests = 1 .. n,
         Len(requests) = n, \A i \in 1 .. n : requests[i] \in Requested
  PROVE  Signing(log, [i \in 1 .. n |-> EntryOf(requests[i])], n, LogAll(log, requests))
<1> DEFINE e == [i \in 1 .. n |-> EntryOf(requests[i])]
<1>1. e \in [1 .. n -> Entry]
  BY EntryTyped
<1>2. \A i \in 1 .. n : e[i].key = requests[i].issuer /\ e[i].message = Tbs(requests[i])
  BY DEF EntryOf
<1> HIDE DEF e
<1> DEFINE Is(h) == h = [k \in 0 .. n |-> IF k = 0 THEN log
                                          ELSE Log(h[k - 1], requests[k].issuer, Tbs(requests[k]))]
<1>3. ASSUME NEW i \in 1 .. n, NEW l \in Seq(Entry)
      PROVE  Log(l, requests[i].issuer, Tbs(requests[i])) \in Seq(Entry)
  <2>1. e[i] \in Entry
    BY <1>1
  <2>2. Log(l, e[i].key, e[i].message) \in Seq(Entry)
    BY <2>1, LogIs
  <2> QED  BY <1>2, <2>2
<1>4. \E h : Is(h)
  <2> DEFINE g == [p \in (1 .. n) \X Seq(Entry) |->
                     Log(p[2], requests[p[1]].issuer, Tbs(requests[p[1]]))]
  <2>1. g \in [(1 .. n) \X Seq(Entry) -> Seq(Entry)]
    BY <1>3
  <2>2. \A i \in 1 .. n, l \in Seq(Entry) :
          g[<<i, l>>] = Log(l, requests[i].issuer, Tbs(requests[i]))
    OBVIOUS
  <2> HIDE DEF g
  <2>3. PICK f : GoesUp(n, Seq(Entry), log, g, f)
    BY <2>1, Upwards
  <2>4. f \in [0 .. n -> Seq(Entry)] /\ f[0] = log /\ \A i \in 1 .. n : f[i] = g[<<i, f[i - 1]>>]
    BY <2>3 DEF GoesUp
  <2>5. ASSUME NEW i \in 0 .. n
        PROVE  f[i] = IF i = 0 THEN log ELSE Log(f[i - 1], requests[i].issuer, Tbs(requests[i]))
    <3>1. CASE i = 0  BY <2>4, <3>1
    <3>2. CASE i # 0
      <4>1. i \in 1 .. n /\ i - 1 \in 0 .. n  BY <3>2
      <4>2. f[i - 1] \in Seq(Entry)  BY <2>4, <4>1
      <4> QED  BY <2>2, <2>4, <3>2, <4>1, <4>2
    <3> QED  BY <3>1, <3>2
  <2>6. f = [i \in 0 .. n |-> f[i]]
    BY <2>4
  <2>7. f = [i \in 0 .. n |-> IF i = 0 THEN log
                               ELSE Log(f[i - 1], requests[i].issuer, Tbs(requests[i]))]
    BY <2>5, <2>6
  <2> QED  BY <2>7
<1> DEFINE after[k \in 0 .. Len(requests)] ==
             IF k = 0 THEN log ELSE Log(after[k - 1], requests[k].issuer, Tbs(requests[k]))
<1>5. LogAll(log, requests) = after[n]
  BY DEF LogAll
<1>6. after = CHOOSE h : Is(h)
  OBVIOUS
<1>7. Is(after)
  <2> HIDE DEF after, Is
  <2> QED  BY <1>4, <1>6
<1> HIDE DEF after
<1>8. after[0] = log
      /\ \A k \in 1 .. n : after[k] = Log(after[k - 1], requests[k].issuer, Tbs(requests[k]))
  BY <1>7
<1> DEFINE P == {k \in 0 .. n : Signing(log, e, k, after[k])}
<1>9. ASSUME NEW k \in 0 .. n, \A j \in 0 .. n : j < k => j \in P PROVE k \in P
  <2>1. CASE k = 0
    <3>1. Signing(log, e, 0, log)
      BY DEF Signing, Grown
    <3> QED  BY <1>8, <2>1, <3>1
  <2>2. CASE k # 0
    <3>1. k \in 1 .. n /\ k - 1 \in 0 .. n /\ k - 1 < k
      BY <2>2
    <3>2. Signing(log, e, k - 1, after[k - 1])
      BY <1>9, <3>1
    <3>3. Signing(log, e, k, Log(after[k - 1], e[k].key, e[k].message))
      BY <1>1, <3>1, <3>2, OneMoreSigned
    <3> QED  BY <1>2, <1>8, <3>1, <3>3
  <2> QED  BY <2>1, <2>2
<1>10. n \in P
  <2>1. n \in 0 .. n
    OBVIOUS
  <2> HIDE DEF P
  <2> QED  BY <1>9, <2>1, Induction
<1> QED  BY <1>5, <1>10 DEF e

-----------------------------------------------------------------------------
(* The inductive invariant *)

\* A certificate that exists was assembled from what was asked for and from the number
\* of its entry in the log.
IssuedAt(log, c, n) ==
  /\ c.request \in Requested /\ n < Base /\ log[n] = EntryOf(c.request)
  /\ c = [request |-> c.request, der |-> Assemble(Tbs(c.request), <<SEQUENCE, 1, n>>)]

IsCertificate(log, c) == \E n \in 1 .. Len(log) : IssuedAt(log, c, n)

\* The log has no more entries than certificates were asked for.
LogInv ==
  /\ signed \in Seq(Entry) /\ made \subseteq Pki /\ extra \in 0 .. MaxIssued
  /\ Len(signed) <= 4 * Cardinality(made) + extra

IssuedInv == \A c \in issued : IsCertificate(signed, c)

\* Nothing is in the log but what certificates state.
EnteredInv == \A n \in 1 .. Len(signed) : \E c \in issued : signed[n] = EntryOf(c.request)

\* What is read was sent, and if it is short then it is the beginning of what was sent.
ReadingOf(c, der) == [made |-> TRUE, request |-> c.request, sent |-> c.der, der |-> der]
ReadingInv ==
  \/ reading = NoReading
  \/ /\ reading.der \in Seq(Octet)
     /\ \E c \in issued : /\ reading = ReadingOf(c, reading.der)
                          /\ Len(reading.der) < Len(c.der) => Agrees(reading.der, c.der)

IInv == LogInv /\ IssuedInv /\ EnteredInv /\ ReadingInv

LEMMA SignatureTyped ==
  ASSUME NEW n \in 1 .. Base - 1
  PROVE  <<SEQUENCE, 1, n>> \in Seq(Octet) /\ Len(<<SEQUENCE, 1, n>>) = 3 /\ <<SEQUENCE, 1, n>>[3] = n
<1>1. SEQUENCE \in Octet /\ 1 \in Octet
  BY Tags
<1>2. n \in Octet
  BY Octets, BaseFacts
<1> QED  BY <1>1, <1>2

LEMMA CertificateTyped ==
  ASSUME NEW log \in Seq(Entry), NEW c, IsCertificate(log, c)
  PROVE  c.request \in Requests /\ c.der \in Seq(Octet) /\ c = [request |-> c.request, der |-> c.der]
<1>1. PICK n \in 1 .. Len(log) : IssuedAt(log, c, n)
  BY DEF IsCertificate
<1>2. n \in 1 .. Base - 1
  BY <1>1, BaseFacts DEF IssuedAt
<1>3. PICK s \in Seq(Octet) : s = <<SEQUENCE, 1, n>> /\ Len(s) = 3
  BY <1>2, SignatureTyped
<1>4. c.request \in Requested /\ c = [request |-> c.request, der |-> Assemble(Tbs(c.request), s)]
  BY <1>1, <1>3 DEF IssuedAt
<1>5. PICK content \in Seq(Octet) : Assemble(Tbs(c.request), s) = Tlv(SEQUENCE, content)
  BY <1>3, <1>4, CertificateIs
<1>6. Assemble(Tbs(c.request), s) \in Seq(Octet)
  <2>1. Tlv(SEQUENCE, content) \in Seq(Octet)
    BY Tags, TlvTyped
  <2> QED  BY <1>5, <2>1
<1> QED  BY <1>4, <1>6, RequestedTyped

\* A certificate stays one when the log grows.
LEMMA CertificateStays ==
  ASSUME NEW log \in Seq(Entry), NEW more \in Seq(Entry), Grown(log, more), NEW c, IsCertificate(log, c)
  PROVE  IsCertificate(more, c)
<1>1. PICK n \in 1 .. Len(log) : IssuedAt(log, c, n)
  BY DEF IsCertificate
<1>2. n \in 1 .. Len(more) /\ more[n] = log[n]
  BY DEF Grown
<1> QED  BY <1>1, <1>2 DEF IsCertificate, IssuedAt

\* What is made of an entry is a certificate.
LEMMA CertificateMade ==
  ASSUME NEW log \in Seq(Entry), NEW request \in Requested, Len(log) < Base,
         \E n \in 1 .. Len(log) : log[n] = EntryOf(request)
  PROVE  IsCertificate(log, [request |-> request, der |-> Certificate(log, request)])
<1>1. PICK n : n = Number(log, request.issuer, Tbs(request))
  OBVIOUS
<1>2. n \in 1 .. Len(log) /\ log[n] = EntryOf(request)
  BY <1>1 DEF Number, EntryOf
<1>3. Certificate(log, request) = Assemble(Tbs(request), <<SEQUENCE, 1, n>>)
  BY <1>1 DEF Certificate, SignatureDer
<1>4. PICK c : c = [request |-> request, der |-> Assemble(Tbs(request), <<SEQUENCE, 1, n>>)]
  OBVIOUS
<1>5. c.request = request
  BY <1>4
<1>6. IssuedAt(log, c, n)
  <2>1. n < Base
    BY <1>2, BaseFacts
  <2> QED  BY <1>2, <1>4, <1>5, <2>1 DEF IssuedAt
<1> QED  BY <1>2, <1>3, <1>4, <1>6 DEF IsCertificate

\* A chain is four certificates that may be asked for.
LEMMA ChainIs ==
  ASSUME NEW pki \in Pki
  PROVE  DOMAIN Chain(pki) = 1 .. 4 /\ Len(Chain(pki)) = 4
         /\ \A i \in 1 .. 4 : Chain(pki)[i] \in Requested
<1>1. DOMAIN Chain(pki) = 1 .. 4 /\ Len(Chain(pki)) = 4
  BY DEF Chain
<1>2. \A i \in 1 .. 4 : Chain(pki)[i] \in ToSet(Chain(pki))
  <2>1. PICK chain : chain = Chain(pki)
    OBVIOUS
  <2>2. \A i \in 1 .. 4 : chain[i] \in ToSet(chain)
    <3>1. DOMAIN chain = 1 .. 4
      BY <1>1, <2>1
    <3> QED  BY <3>1 DEF ToSet
  <2> QED  BY <2>1, <2>2
<1>3. ToSet(Chain(pki)) \subseteq Requested
  BY DEF Requested
<1> QED  BY <1>1, <1>2, <1>3

\* One step of issuing: the certificates that were there stay, and those that are new
\* were signed (testpki.rs 184-236).
LEMMA IssueStep ==
  ASSUME signed \in Seq(Entry), IssuedInv, EnteredInv, NEW n \in Nat, NEW requests,
         DOMAIN requests = 1 .. n, Len(requests) = n, \A i \in 1 .. n : requests[i] \in Requested,
         Issue(requests), Len(signed) + n < Base
  PROVE  signed' \in Seq(Entry) /\ Len(signed') <= Len(signed) + n /\ IssuedInv' /\ EnteredInv'
<1> DEFINE e == [i \in 1 .. n |-> EntryOf(requests[i])]
<1>1. PICK more : more = signed'
  OBVIOUS
<1>2. Signing(signed, e, n, more)
  BY <1>1, LogAllIs DEF Issue
<1>3. ToSet(requests) = {requests[i] : i \in 1 .. n}
  BY DEF ToSet
<1>4. /\ more \in Seq(Entry) /\ Len(more) <= Len(signed) + n /\ Grown(signed, more)
      /\ \A i \in 1 .. n : \E m \in 1 .. Len(more) : more[m] = EntryOf(requests[i])
      /\ \A m \in 1 .. Len(more) : \/ m \in 1 .. Len(signed) /\ more[m] = signed[m]
                                   \/ \E i \in 1 .. n : more[m] = EntryOf(requests[i])
  BY <1>2 DEF Signing
<1>5. Len(more) < Base
  BY <1>4, BaseFacts
<1>6. issued' = issued \cup
        {[request |-> r, der |-> Certificate(more, r)] : r \in {requests[i] : i \in 1 .. n}}
  BY <1>1, <1>3 DEF Issue
<1>7. ASSUME NEW c \in issued' PROVE IsCertificate(more, c)
  <2>1. CASE c \in issued
    <3>1. IsCertificate(signed, c)
      BY <2>1 DEF IssuedInv
    <3> QED  BY <1>4, <3>1, CertificateStays
  <2>2. CASE c \notin issued
    <3>1. PICK i \in 1 .. n : c = [request |-> requests[i], der |-> Certificate(more, requests[i])]
      BY <1>6, <2>2
    <3>2. requests[i] \in Requested /\ \E m \in 1 .. Len(more) : more[m] = EntryOf(requests[i])
      BY <1>4
    <3> QED  BY <1>4, <1>5, <3>1, <3>2, CertificateMade
  <2> QED  BY <2>1, <2>2
<1>8. ASSUME NEW m \in 1 .. Len(more) PROVE \E c \in issued' : more[m] = EntryOf(c.request)
  <2>1. CASE m \in 1 .. Len(signed) /\ more[m] = signed[m]
    <3>1. PICK c \in issued : signed[m] = EntryOf(c.request)
      BY <2>1 DEF EnteredInv
    <3> QED  BY <1>6, <2>1, <3>1
  <2>2. CASE \E i \in 1 .. n : more[m] = EntryOf(requests[i])
    <3>1. PICK i \in 1 .. n : more[m] = EntryOf(requests[i])
      BY <2>2
    <3>2. PICK c \in issued' : c = [request |-> requests[i], der |-> Certificate(more, requests[i])]
      BY <1>6
    <3>3. c.request = requests[i]
      BY <3>2
    <3> QED  BY <3>1, <3>3
  <2> QED  BY <1>4, <2>1, <2>2
<1> QED  BY <1>1, <1>4, <1>7, <1>8 DEF IssuedInv, EnteredInv

\* However many certificates there are, their number is one octet.
LEMMA LogFits ==
  ASSUME NEW m \in SUBSET Pki, NEW x \in 0 .. MaxIssued
  PROVE  Cardinality(m) \in Nat /\ 4 * Cardinality(m) + x < Base
<1>1. IsFiniteSet(Pki) /\ MaxIssued \in Nat /\ 4 * Cardinality(Pki) + MaxIssued < Base
  BY BoundAssumption DEF Base
<1>2. IsFiniteSet(m) /\ Cardinality(m) <= Cardinality(Pki)
  BY <1>1, FS_Subset
<1>3. Cardinality(m) \in Nat /\ Cardinality(Pki) \in Nat
  BY <1>1, <1>2, FS_CardinalityType
<1> QED  BY <1>1, <1>2, <1>3, BaseFacts

LEMMA InitInvariant == Init => IInv
<1>1. Cardinality({}) = 0
  BY FS_EmptySet
<1>2. MaxIssued \in Nat
  BY BoundAssumption
<1> QED  BY <1>1, <1>2 DEF Init, IInv, LogInv, IssuedInv, EnteredInv, ReadingInv

\* A chain adds four entries to the log at most.
LEMMA NewInvariant ==
  ASSUME IInv, NEW pki \in Pki, New(pki)
  PROVE  IInv'
<1>1. /\ signed \in Seq(Entry) /\ made \in SUBSET Pki /\ extra \in 0 .. MaxIssued
      /\ Len(signed) <= 4 * Cardinality(made) + extra
  BY DEF IInv, LogInv
<1>2. made' \in SUBSET Pki /\ extra' = extra /\ made' = made \cup {pki} /\ pki \notin made
  BY <1>1 DEF New
<1>3. IsFiniteSet(made)
  BY <1>1, BoundAssumption, FS_Subset
<1>4. Cardinality(made') = Cardinality(made) + 1
  BY <1>2, <1>3, FS_AddElement
<1>5. Cardinality(made) \in Nat /\ 4 * Cardinality(made') + extra < Base
  BY <1>1, <1>2, LogFits
<1>6. Len(signed) + 4 <= 4 * Cardinality(made') + extra /\ Len(signed) + 4 < Base
  BY <1>1, <1>4, <1>5, BaseFacts
<1>7. PICK requests : requests = Chain(pki)
  OBVIOUS
<1>8. /\ DOMAIN requests = 1 .. 4 /\ Len(requests) = 4 /\ \A i \in 1 .. 4 : requests[i] \in Requested
      /\ Issue(requests) /\ 4 \in Nat
  BY <1>7, ChainIs DEF New
<1>9. signed' \in Seq(Entry) /\ Len(signed') <= Len(signed) + 4 /\ IssuedInv' /\ EnteredInv'
  BY <1>1, <1>6, <1>8, IssueStep DEF IInv
<1>10. LogInv'
  BY <1>1, <1>2, <1>6, <1>9, LogFits, BaseFacts DEF LogInv
<1>11. ReadingInv'
  BY <1>8 DEF Issue, ReadingInv
<1> QED  BY <1>9, <1>10, <1>11 DEF IInv

\* Any other certificate adds one.
LEMMA OneInvariant ==
  ASSUME IInv, NEW request \in Requested, Issue(<<request>>), extra < MaxIssued,
         extra' = extra + 1, made' = made
  PROVE  IInv'
<1>1. /\ signed \in Seq(Entry) /\ made \in SUBSET Pki /\ extra \in 0 .. MaxIssued
      /\ Len(signed) <= 4 * Cardinality(made) + extra
  BY DEF IInv, LogInv
<1>2. extra' \in 0 .. MaxIssued
  BY <1>1, BoundAssumption
<1>3. Cardinality(made) \in Nat /\ 4 * Cardinality(made) + extra' < Base
  BY <1>1, <1>2, LogFits
<1>4. Len(signed) + 1 <= 4 * Cardinality(made) + extra' /\ Len(signed) + 1 < Base
  BY <1>1, <1>2, <1>3, BaseFacts
<1>5. PICK requests : requests = <<request>>
  OBVIOUS
<1>6. /\ DOMAIN requests = 1 .. 1 /\ Len(requests) = 1 /\ \A i \in 1 .. 1 : requests[i] \in Requested
      /\ Issue(requests) /\ 1 \in Nat
  BY <1>5
<1>7. signed' \in Seq(Entry) /\ Len(signed') <= Len(signed) + 1 /\ IssuedInv' /\ EnteredInv'
  BY <1>1, <1>4, <1>6, IssueStep DEF IInv
<1>8. LogInv'
  BY <1>1, <1>2, <1>3, <1>4, <1>7, BaseFacts DEF LogInv
<1>9. ReadingInv'
  BY <1>6 DEF Issue, ReadingInv
<1> QED  BY <1>7, <1>8, <1>9 DEF IInv

\* A reading changes nothing else.
LEMMA ReadInvariant ==
  ASSUME IInv, NEW c \in issued, NEW der \in Seq(Octet), Read(c, der),
         Len(der) < Len(c.der) => Agrees(der, c.der)
  PROVE  IInv'
<1>1. PICK r : r = ReadingOf(c, der)
  OBVIOUS
<1>2. reading' = r /\ r.der = der /\ signed' = signed /\ issued' = issued /\ made' = made /\ extra' = extra
  BY <1>1 DEF Read, ReadingOf
<1>3. ReadingInv'
  BY <1>1, <1>2 DEF ReadingInv
<1> QED  BY <1>2, <1>3 DEF IInv, LogInv, IssuedInv, EnteredInv

\* The octets of what was issued.
LEMMA IssuedTyped ==
  ASSUME IInv, NEW c \in issued
  PROVE  c.request \in Requests /\ c.der \in Seq(Octet) /\ c = [request |-> c.request, der |-> c.der]
<1>1. signed \in Seq(Entry) /\ IsCertificate(signed, c)
  BY DEF IInv, LogInv, IssuedInv
<1> QED  BY <1>1, CertificateTyped

\* What a reader is given is octets, and what is short has been cut.
LEMMA ReadingsInvariant ==
  ASSUME IInv, ReadWhole \/ ReadCut \/ ReadDamaged \/ ReadJoined
  PROVE  IInv'
<1>1. CASE ReadWhole
  <2>1. PICK c \in issued : Read(c, c.der)
    BY <1>1 DEF ReadWhole
  <2>2. c.der \in Seq(Octet) /\ ~(Len(c.der) < Len(c.der))
    BY IssuedTyped
  <2> QED  BY <2>1, <2>2, ReadInvariant
<1>2. CASE ReadCut
  <2>1. PICK c \in issued : \E n \in 0 .. Len(c.der) - 1 : Read(c, SubSeq(c.der, 1, n))
    BY <1>2 DEF ReadCut
  <2>2. PICK d \in Seq(Octet) : d = c.der
    BY IssuedTyped
  <2>3. PICK n \in 0 .. Len(d) : Read(c, SubSeq(d, 1, n))
    BY <2>1, <2>2
  <2>4. PICK q \in Seq(Octet) : q = SubSeq(d, 1, n) /\ Len(q) = n /\ d = q \o From(d, n + 1)
                                /\ From(d, n + 1) \in Seq(Octet)
    BY <2>3, BeginningAndRest
  <2>5. Agrees(q, d)
    <3>1. \A i \in 1 .. Len(q) : d[i] = q[i]
      BY <2>4, TwoParts
    <3> QED  BY <2>4, <3>1 DEF Agrees
  <2> QED  BY <2>2, <2>3, <2>4, <2>5, ReadInvariant
<1>3. CASE ReadDamaged
  <2>1. PICK c \in issued : \E i \in DOMAIN c.der, octet \in Damage : Read(c, ReplaceAt(c.der, i, octet))
    BY <1>3 DEF ReadDamaged
  <2>2. PICK d \in Seq(Octet) : d = c.der
    BY IssuedTyped
  <2>3. PICK i \in DOMAIN d, octet \in Octet : Read(c, ReplaceAt(d, i, octet))
    BY <2>1, <2>2, DataAssumption
  <2>4. ReplaceAt(d, i, octet) = [d EXCEPT ![i] = octet]
    BY DEF ReplaceAt
  <2>5. ReplaceAt(d, i, octet) \in Seq(Octet) /\ Len(ReplaceAt(d, i, octet)) = Len(d)
    BY <2>2, <2>3, <2>4
  <2> QED  BY <2>2, <2>3, <2>5, ReadInvariant
<1>4. CASE ReadJoined
  <2>1. PICK c \in issued, d \in issued : Read(c, c.der \o d.der)
    BY <1>4 DEF ReadJoined
  <2>2. PICK a \in Seq(Octet), b \in Seq(Octet) : a = c.der /\ b = d.der
    BY IssuedTyped
  <2>3. a \o b \in Seq(Octet) /\ ~(Len(a \o b) < Len(a))
    BY TwoParts
  <2> QED  BY <2>1, <2>2, <2>3, ReadInvariant
<1> QED  BY <1>1, <1>2, <1>3, <1>4

LEMMA NextInvariant == IInv /\ [Next]_vars => IInv'
<1> SUFFICES ASSUME IInv, [Next]_vars PROVE IInv'
  OBVIOUS
<1>1. ASSUME NEW pki \in Pki, New(pki) PROVE IInv'
  BY <1>1, NewInvariant
<1>2. ASSUME NEW pki \in Pki, NEW subject \in Subject, IssueFor(pki, subject) PROVE IInv'
  <2>1. EntityRequest(pki, subject, EUM_SAN_OID) \in Requested
    BY DEF Requested
  <2> QED  BY <1>2, <2>1, OneInvariant DEF IssueFor, IssueForEntity, IssueOne
<1>3. ASSUME NEW pki \in Pki, NEW subject \in Subject, NEW san \in San,
             IssueForEntity(pki, subject, san)
      PROVE  IInv'
  <2>1. EntityRequest(pki, subject, san) \in Requested
    BY DEF Requested
  <2> QED  BY <1>3, <2>1, OneInvariant DEF IssueForEntity, IssueOne
<1>4. ASSUME NEW pki \in Pki, NEW subject \in Subject, NEW role \in Role,
             IssueWithRole(pki, subject, role)
      PROVE  IInv'
  <2>1. RoleRequest(pki, subject, role) \in Requested
    BY DEF Requested
  <2> QED  BY <1>4, <2>1, OneInvariant DEF IssueWithRole, IssueOne
<1>5. ASSUME NEW pki \in Pki, IssueWithoutEntity(pki) PROVE IInv'
  <2>1. NoEntityRequest(pki) \in Requested
    BY DEF Requested
  <2> QED  BY <1>5, <2>1, OneInvariant DEF IssueWithoutEntity, IssueOne
<1>6. ASSUME NEW request \in Foreign, IssueForeign(request) PROVE IInv'
  <2>1. request \in Requested
    BY DEF Requested
  <2> QED  BY <1>6, <2>1, OneInvariant DEF IssueForeign
<1>7. CASE Drop
  BY <1>7 DEF Drop, IInv, LogInv, IssuedInv, EnteredInv, ReadingInv
<1>8. CASE UNCHANGED vars
  BY <1>8 DEF vars, IInv, LogInv, IssuedInv, EnteredInv, ReadingInv
<1> QED  BY <1>1, <1>2, <1>3, <1>4, <1>5, <1>6, <1>7, <1>8, ReadingsInvariant DEF Next

LEMMA Invariant == Spec => []IInv
<1>1. Init => IInv
  BY InitInvariant
<1>2. IInv /\ [Next]_vars => IInv'
  BY NextInvariant
<1> QED  BY <1>1, <1>2, PTL DEF Spec

\* What is read was sent, whole or cut or changed, and is a certificate's.
LEMMA ReadingIs ==
  ASSUME IInv, reading.made
  PROVE  \E c \in issued : /\ reading = ReadingOf(c, reading.der)
                           /\ reading.request = c.request /\ reading.sent = c.der
                           /\ reading.der \in Seq(Octet)
                           /\ Len(reading.der) < Len(c.der) => Agrees(reading.der, c.der)
<1>1. reading # NoReading
  BY DEF NoReading
<1>2. PICK c \in issued : /\ reading = ReadingOf(c, reading.der) /\ reading.der \in Seq(Octet)
                          /\ Len(reading.der) < Len(c.der) => Agrees(reading.der, c.der)
  BY <1>1 DEF IInv, ReadingInv
<1>3. PICK der : der = reading.der
  OBVIOUS
<1>4. reading.request = c.request /\ reading.sent = c.der
  <2>1. reading = ReadingOf(c, der)
    BY <1>2, <1>3
  <2> QED  BY <2>1 DEF ReadingOf
<1> QED  BY <1>2, <1>4

\* The certificate that an entry of the log stands for.
LEMMA CertificateOf ==
  ASSUME IInv, NEW c \in issued
  PROVE  \E n \in 1 .. Base - 1, s \in Seq(Octet) :
           /\ n \in DOMAIN signed /\ signed[n] = EntryOf(c.request)
           /\ s = <<SEQUENCE, 1, n>> /\ Len(s) = 3
           /\ c.request \in Requested /\ c.der = Assemble(Tbs(c.request), s)
<1>1. signed \in Seq(Entry) /\ IsCertificate(signed, c)
  BY DEF IInv, LogInv, IssuedInv
<1>2. PICK n \in 1 .. Len(signed) : IssuedAt(signed, c, n)
  BY <1>1 DEF IsCertificate
<1>3. n \in 1 .. Base - 1 /\ n \in DOMAIN signed
  BY <1>1, <1>2, BaseFacts DEF IssuedAt
<1>4. PICK s \in Seq(Octet) : s = <<SEQUENCE, 1, n>> /\ Len(s) = 3
  BY <1>3, SignatureTyped
<1>5. PICK d : d = Assemble(Tbs(c.request), s)
  OBVIOUS
<1>6. c = [request |-> c.request, der |-> d]
  BY <1>2, <1>4, <1>5 DEF IssuedAt
<1>7. c.der = d
  BY <1>6
<1>8. c.request \in Requested /\ signed[n] = EntryOf(c.request)
  BY <1>2 DEF IssuedAt
<1> QED  BY <1>3, <1>4, <1>5, <1>7, <1>8

\* TypeOK: certificates are octets, and a reader is given octets only, of a
\* certificate that was made (testpki.rs).
THEOREM CertificatesAreOctets == Spec => []TypeOK
<1>1. IInv => TypeOK
  <2> SUFFICES ASSUME IInv PROVE TypeOK
    OBVIOUS
  <2>1. signed \in Seq([key : Key, message : Seq(Octet)]) /\ made \subseteq Pki /\ extra \in 0 .. MaxIssued
    BY DEF IInv, LogInv, Entry
  <2>2. issued \subseteq [request : Requests, der : Seq(Octet)]
    <3>1. ASSUME NEW c \in issued PROVE c \in [request : Requests, der : Seq(Octet)]
      <4>1. PICK r, d : r = c.request /\ d = c.der
        OBVIOUS
      <4>2. r \in Requests /\ d \in Seq(Octet) /\ c = [request |-> r, der |-> d]
        BY <4>1, IssuedTyped
      <4> QED  BY <4>2
    <3> QED  BY <3>1
  <2>3. reading = NoReading \/
        reading \in [made : {TRUE}, request : Requests, sent : Seq(Octet), der : Seq(Octet)]
    <3>1. SUFFICES ASSUME reading # NoReading
                   PROVE  reading \in [made : {TRUE}, request : Requests, sent : Seq(Octet), der : Seq(Octet)]
      OBVIOUS
    <3>2. PICK c \in issued, der \in Seq(Octet) : reading = ReadingOf(c, der)
      BY <3>1 DEF IInv, ReadingInv
    <3>3. PICK r \in Requests, d \in Seq(Octet) : r = c.request /\ d = c.der
      BY IssuedTyped
    <3>4. reading = [made |-> TRUE, request |-> r, sent |-> d, der |-> der]
      BY <3>2, <3>3 DEF ReadingOf
    <3> QED  BY <3>4
  <2> QED  BY <2>1, <2>2, <2>3 DEF TypeOK
<1> QED  BY <1>1, Invariant, PTL

\* CutIsRefused: from_der takes nothing of which the end is missing, wherever it was
\* cut (x509.rs 697-745).
THEOREM TheEndIsMissed == Spec => []CutIsRefused
<1>1. IInv => CutIsRefused
  <2> SUFFICES ASSUME IInv, reading.made, Len(reading.der) < Len(reading.sent)
               PROVE  ~FromDer(reading.der).ok
    BY DEF CutIsRefused
  <2>1. PICK c \in issued : /\ reading.sent = c.der /\ reading.der \in Seq(Octet)
                            /\ Len(reading.der) < Len(c.der) => Agrees(reading.der, c.der)
    BY ReadingIs
  <2>2. PICK n \in 1 .. Base - 1, s \in Seq(Octet) :
          /\ Len(s) = 3 /\ c.request \in Requested /\ c.der = Assemble(Tbs(c.request), s)
    BY CertificateOf
  <2> QED  BY <2>1, <2>2, CutCannotBeRead
<1> QED  BY <1>1, Invariant, PTL

\* VerifiesUnderIssuerOnly: verify_signed_by_key finds the very octets that were signed
\* and their signature, on whatever curve, and no key but the issuer's has them in the
\* log (x509.rs 524-545, ecdsa.rs 250-279).
THEOREM OneIssuer == Spec => []VerifiesUnderIssuerOnly
<1>1. IInv => VerifiesUnderIssuerOnly
  <2> SUFFICES ASSUME IInv, Whole, NEW key \in Key
               PROVE  VerifySignedByKey(reading.der, key).ok <=> key = reading.request.issuer
    BY DEF VerifiesUnderIssuerOnly
  <2>1. PICK c \in issued : reading.request = c.request /\ reading.der = c.der
    BY ReadingIs DEF Whole
  <2>2. PICK n \in 1 .. Base - 1, s \in Seq(Octet) :
           /\ n \in DOMAIN signed /\ signed[n] = EntryOf(c.request)
           /\ s = <<SEQUENCE, 1, n>> /\ Len(s) = 3
           /\ c.request \in Requested /\ c.der = Assemble(Tbs(c.request), s)
    BY CertificateOf
  <2>3. PICK tbs, issuer : tbs = Tbs(c.request) /\ issuer = c.request.issuer
    OBVIOUS
  <2>4. ExtractTbsAndSignature(c.der) = Ok([tbs |-> tbs, signature |-> s])
    BY <2>2, <2>3, ExtractIs
  <2>5. VerifySignedByKey(c.der, key) = VerifyDer(key, tbs, s)
    <3>1. PICK parts : parts = [tbs |-> tbs, signature |-> s]
      OBVIOUS
    <3>2. parts.tbs = tbs /\ parts.signature = s
      BY <3>1
    <3>3. ExtractTbsAndSignature(c.der) = Ok(parts)
      BY <2>4, <3>1
    <3> QED  BY <3>2, <3>3, Results DEF VerifySignedByKey, IfOk
  <2>6. issuer \in Key /\ signed[n] = [key |-> issuer, message |-> tbs] /\ n # 0
    <3>1. c.request \in Requests
      BY <2>2, RequestedTyped
    <3>2. c.request.issuer \in Key
      BY <3>1, RequestFields
    <3>3. n # 0
      BY BaseFacts
    <3> QED  BY <2>2, <2>3, <3>2, <3>3 DEF EntryOf
  <2>7. VerifyDer(key, tbs, s).ok <=> key = issuer
    BY <2>2, <2>6, VerifiesItsOwn
  <2> QED  BY <2>1, <2>3, <2>5, <2>7
<1> QED  BY <1>1, Invariant, PTL

-----------------------------------------------------------------------------
(* The key *)

\* No TLV is longer than what it is in.
LEMMA TailsShrink ==
  ASSUME NEW n \in Nat, NEW tag, NEW v, NEW tail, IsTail(n, tag, v, tail)
  PROVE  \A i \in 1 .. n : Len(v[i]) < Len(tail[1])
<1>1. ASSUME NEW i \in 1 .. n
      PROVE  /\ i + 1 \in 1 .. n + 1 /\ Len(tail[i]) \in Nat /\ Len(tail[i + 1]) \in Nat
             /\ Len(v[i]) \in Nat /\ Len(v[i]) + Len(tail[i + 1]) + 2 <= Len(tail[i])
  <2>1. i + 1 \in 1 .. n + 1 /\ i \in 1 .. n + 1
    OBVIOUS
  <2>2. PICK o \in Octet, a \in Seq(Octet), b \in Seq(Octet), c \in Seq(Octet) :
          o = tag[i] /\ a = v[i] /\ b = tail[i + 1] /\ c = tail[i] /\ c = Tlv(o, a) \o b
    <3>1. /\ tag \in [1 .. n -> Octet] /\ v \in [1 .. n -> Seq(Octet)]
          /\ tail \in [1 .. n + 1 -> Seq(Octet)] /\ tail[i] = Tlv(tag[i], v[i]) \o tail[i + 1]
      BY Zenon DEF IsTail
    <3>2. tag[i] \in Octet /\ v[i] \in Seq(Octet) /\ tail[i + 1] \in Seq(Octet) /\ tail[i] \in Seq(Octet)
      BY <2>1, <3>1
    <3> QED  BY <3>1, <3>2, Zenon
  <2>3. PICK t \in Seq(Octet) : t = Tlv(o, a) /\ Len(t) >= Len(a) + 2
    BY TlvTyped
  <2>4. PICK j \in Nat, k \in Nat, l \in Nat : j = Len(a) /\ k = Len(b) /\ l = Len(t)
    OBVIOUS
  <2>5. Len(c) = l + k
    BY <2>2, <2>3, <2>4, TwoParts
  <2>6. l >= j + 2
    BY <2>3, <2>4
  <2>7. j \in Nat /\ k \in Nat /\ l + k \in Nat /\ j + k + 2 <= l + k
    BY <2>6
  <2> QED  BY <2>1, <2>2, <2>4, <2>5, <2>7
<1> DEFINE P == {i \in 0 .. n : Len(tail[i + 1]) <= Len(tail[1])}
<1>2. ASSUME NEW i \in 0 .. n, \A j \in 0 .. n : j < i => j \in P PROVE i \in P
  <2>1. CASE i = 0
    <3>1. 1 \in 1 .. n + 1
      OBVIOUS
    <3>2. Len(tail[1]) \in Nat
      BY <3>1 DEF IsTail
    <3> QED  BY <2>1, <3>2
  <2>2. CASE i # 0
    <3>1. i - 1 \in 0 .. n /\ i - 1 < i /\ i \in 1 .. n /\ (i - 1) + 1 = i
      BY <2>2
    <3>2. Len(tail[i]) <= Len(tail[1])
      BY <1>2, <3>1
    <3>3. PICK a \in Nat, b \in Nat, c \in Nat :
            a = Len(tail[i]) /\ b = Len(tail[i + 1]) /\ c = Len(v[i]) /\ c + b + 2 <= a
      BY <1>1, <3>1
    <3>4. 1 \in 1 .. n + 1
      OBVIOUS
    <3>5. PICK d \in Nat : d = Len(tail[1])
      BY <3>4 DEF IsTail
    <3>6. a <= d /\ c + b + 2 <= a
      BY <3>2, <3>3, <3>5
    <3>7. b <= d
      BY <3>6
    <3> QED  BY <3>3, <3>5, <3>7
  <2> QED  BY <2>1, <2>2
<1>3. \A i \in 0 .. n : i \in P
  <2> HIDE DEF P
  <2> QED  BY <1>2, Induction
<1>4. ASSUME NEW i \in 1 .. n PROVE Len(v[i]) < Len(tail[1])
  <2>1. i - 1 \in 0 .. n /\ (i - 1) + 1 = i
    OBVIOUS
  <2>2. Len(tail[i]) <= Len(tail[1])
    BY <1>3, <2>1
  <2>3. PICK a \in Nat, b \in Nat, c \in Nat : a = Len(tail[i]) /\ b = Len(tail[i + 1]) /\ c = Len(v[i])
                                               /\ c + b + 2 <= a
    BY <1>1
  <2>4. 1 \in 1 .. n + 1
    OBVIOUS
  <2>5. PICK d \in Nat : d = Len(tail[1])
    BY <2>4 DEF IsTail
  <2>6. a <= d /\ c + b + 2 <= a
    BY <2>2, <2>3, <2>5
  <2>7. c < d
    BY <2>6
  <2> QED  BY <2>3, <2>5, <2>7
<1> QED  BY <1>4

\* What the fields of a TBS are read as.
IsItems(request, items) ==
  /\ DOMAIN items = 1 .. 8 /\ Len(items) = 8
  /\ items[1].tag = VERSION /\ items[2].tag = INTEGER
  /\ \A i \in {3, 4, 5, 6} :
       items[i].value \in Seq(Octet) /\ (items[i].value = <<>> \/ items[i].value[1] # SEQUENCE)
  /\ items[7].tag = SEQUENCE /\ items[7].value = SpkiOf(request.curveOid, request.point)
  /\ Len(items[7].value) < Carried

LEMMA ItemsOf ==
  ASSUME NEW request \in Requested
  PROVE  \E fields, items :
           /\ fields \in Seq(Octet) /\ Tbs(request) = Tlv(SEQUENCE, fields) /\ Len(fields) < Carried
           /\ Walk(fields, ReadTlvAny) = [clean |-> TRUE, tlvs |-> items]
           /\ IsItems(request, items)
<1>1. request \in Requests
  BY RequestedTyped
<1>2. PICK tag, v, tail : /\ IsTail(8, tag, v, tail) /\ IsTbs(request, tag, v)
                          /\ Tbs(request) = Tlv(SEQUENCE, tail[1])
  BY <1>1, TbsIs
<1>3. PICK fields \in Seq(Octet) : fields = tail[1]
  <2>1. 1 \in 1 .. 8 + 1
    OBVIOUS
  <2> QED  BY <1>2, <2>1 DEF IsTail
<1>4. Len(fields) < Carried
  <2>1. Len(Tbs(request)) < 65500
    BY LengthAssumption
  <2>2. Len(Tlv(SEQUENCE, fields)) >= Len(fields) + 2
    BY Tags, TlvTyped
  <2>3. PICK a, b \in Nat : a = Len(Tbs(request)) /\ b = Len(fields)
    OBVIOUS
  <2> QED  BY <1>2, <1>3, <2>1, <2>2 DEF Carried
<1>5. \A i \in 1 .. 8 : Len(v[i]) < Carried
  <2>1. \A i \in 1 .. 8 : Len(v[i]) < Len(fields) /\ Len(v[i]) \in Nat
    <3>1. \A i \in 1 .. 8 : Len(v[i]) < Len(tail[1])
      BY <1>2, TailsShrink
    <3>2. \A i \in 1 .. 8 : v[i] \in Seq(Octet)
      <4>1. v \in [1 .. 8 -> Seq(Octet)]
        BY <1>2, Zenon DEF IsTail
      <4> QED  BY <4>1
    <3>3. \A q \in Seq(Octet) : Len(q) \in Nat
      OBVIOUS
    <3> QED  BY <1>3, <3>1, <3>2, <3>3, Zenon
  <2>2. PICK m \in Nat : m = Len(fields)
    OBVIOUS
  <2>3. \A k \in Nat : k < m => k < Carried
    BY <1>4, <2>2, BaseFacts
  <2> QED  BY <2>1, <2>2, <2>3
<1>6. PICK items : items = [i \in 1 .. 8 |-> Item(tag[i], v[i])]
  OBVIOUS
<1>7. Walk(fields, ReadTlvAny) = [clean |-> TRUE, tlvs |-> items]
  <2>1. Walk(tail[1], ReadTlvAny) = [clean |-> TRUE, tlvs |-> [i \in 1 .. 8 |-> Item(tag[i], v[i])]]
    BY <1>2, <1>5, WalkWritten
  <2> QED  BY <1>3, <1>6, <2>1
<1>8. DOMAIN items = 1 .. 8 /\ Len(items) = 8
      /\ \A i \in 1 .. 8 : items[i].tag = tag[i] /\ items[i].value = v[i]
  BY <1>6 DEF Item
<1>9. /\ tag[1] = VERSION /\ tag[2] = INTEGER /\ tag[7] = SEQUENCE
      /\ \A i \in {3, 4, 5, 6} : v[i] = <<>> \/ v[i][1] # SEQUENCE
      /\ v[7] = SpkiOf(request.curveOid, request.point)
  BY <1>2 DEF IsTbs
<1>10. \A i \in {3, 4, 5, 6} : i \in 1 .. 8 /\ v[i] \in Seq(Octet)
  <2>1. v \in [1 .. 8 -> Seq(Octet)]
    BY <1>2, Zenon DEF IsTail
  <2>2. \A i \in {3, 4, 5, 6} : i \in 1 .. 8
    OBVIOUS
  <2> QED  BY <2>1, <2>2
<1>11. IsItems(request, items)
  <2>1. 1 \in 1 .. 8 /\ 2 \in 1 .. 8 /\ 7 \in 1 .. 8
    OBVIOUS
  <2>2. /\ items[1].tag = VERSION /\ items[2].tag = INTEGER /\ items[7].tag = SEQUENCE
        /\ items[7].value = SpkiOf(request.curveOid, request.point) /\ items[7].value = v[7]
    BY <1>8, <1>9, <2>1, Zenon
  <2>3. ASSUME NEW i \in {3, 4, 5, 6}
        PROVE  items[i].value \in Seq(Octet) /\ (items[i].value = <<>> \/ items[i].value[1] # SEQUENCE)
    <3>1. items[i].value = v[i]
      BY <1>8, <1>10
    <3> QED  BY <1>9, <1>10, <3>1
  <2>4. Len(items[7].value) < Carried
    BY <1>5, <2>1, <2>2, Zenon
  <2> QED  BY <1>8, <2>2, <2>3, <2>4, Zenon DEF IsItems
<1> QED  BY <1>2, <1>3, <1>4, <1>7, <1>11

\* No two curves have the same identifier.
LEMMA CurvesApart == \A a, b \in CurveKind : CurveOid(a) = CurveOid(b) => a = b
<1>1. CurveOid("P256") = <<3, 1, 7>> /\ CurveOid("BrainpoolP256r1") = <<2, 8, 1, 7>>
  BY DEF CurveOid
<1>2. Len(<<3, 1, 7>>) = 3 /\ Len(<<2, 8, 1, 7>>) = 4
  OBVIOUS
<1>3. CurveOid("P256") # CurveOid("BrainpoolP256r1")
  BY <1>1, <1>2
<1> QED  BY <1>3 DEF CurveKind

\* What is certified on a curve that is supported is a key.
LEMMA CertifiedKeys ==
  ASSUME NEW request \in Requested, NEW curve \in CurveKind, CurveOid(curve) = request.curveOid
  PROVE  [curve |-> curve, point |-> request.point] \in Key
<1>1. ASSUME NEW label, NEW key \in Key, NEW issuer, NEW san, NEW role,
             request = Request(label, key, issuer, san, role)
      PROVE  [curve |-> curve, point |-> request.point] \in Key
  <2>1. request.curveOid = CurveOid(key.curve) /\ request.point = key.point
    BY <1>1 DEF Request
  <2>2. key.curve \in CurveKind /\ key = [curve |-> key.curve, point |-> key.point]
    BY Points
  <2>3. curve = key.curve
    BY <2>1, <2>2, CurvesApart
  <2> QED  BY <2>1, <2>2, <2>3
<1>2. CASE request \in Foreign
  BY <1>2, ForeignAssumption
<1>3. \A pki \in Pki : pki.ci \in Key /\ pki.eum \in Key /\ pki.euicc \in Key /\ pki.dp_pb \in Key
  BY ChainAssumption
<1>4. CASE request \notin Foreign
  <2>1. PICK pki \in Pki :
          \/ request \in ToSet(Chain(pki))
          \/ \E s \in Subject, san \in San \cup {EUM_SAN_OID} : request = EntityRequest(pki, s, san)
          \/ \E s \in Subject, role \in Role : request = RoleRequest(pki, s, role)
          \/ request = NoEntityRequest(pki)
    BY <1>4 DEF Requested
  <2>2. CASE request \in ToSet(Chain(pki))
    <3>1. \E i \in 1 .. 4 : request = Chain(pki)[i]
      <4>1. DOMAIN Chain(pki) = 1 .. 4
        BY ChainIs
      <4> QED  BY <2>2, <4>1 DEF ToSet
    <3>2. \E label, key, san, role : key \in Key /\ request = Request(label, key, pki.ci, san, role)
      BY <1>3, <3>1 DEF Chain
    <3> QED  BY <1>1, <3>2
  <2>3. CASE \E s \in Subject, san \in San \cup {EUM_SAN_OID} : request = EntityRequest(pki, s, san)
    BY <1>1, <2>3, DataAssumption DEF EntityRequest
  <2>4. CASE \E s \in Subject, role \in Role : request = RoleRequest(pki, s, role)
    BY <1>1, <2>4, DataAssumption DEF RoleRequest
  <2>5. CASE request = NoEntityRequest(pki)
    BY <1>1, <1>3, <2>5 DEF NoEntityRequest
  <2> QED  BY <2>1, <2>2, <2>3, <2>4, <2>5
<1> QED  BY <1>2, <1>4

\* An algorithm that is written and read (testpki.rs, x509.rs).
LEMMA AlgIs ==
  ASSUME NEW curveOid \in Seq(Octet), Len(curveOid) < Carried
  PROVE  /\ ReadTlv(AlgOf(curveOid), OID) = Ok(Item(OID, ID_EC_PUBLIC_KEY))
         /\ ReadTlv(From(AlgOf(curveOid), Item(OID, ID_EC_PUBLIC_KEY).used + 1), OID)
              = Ok(Item(OID, curveOid))
<1>1. ID_EC_PUBLIC_KEY \in Seq(Octet) /\ OID \in Octet
  BY Identifiers, Tags
<1>2. Len(ID_EC_PUBLIC_KEY) < Carried
  BY DEF ID_EC_PUBLIC_KEY, Carried
<1>3. PICK rest \in Seq(Octet) : rest = Tlv(OID, curveOid)
  BY <1>1, TlvTyped
<1>4. AlgOf(curveOid) = Tlv(OID, ID_EC_PUBLIC_KEY) \o rest
  BY <1>3 DEF AlgOf
<1>5. /\ ReadTlv(AlgOf(curveOid), OID) = Ok(Item(OID, ID_EC_PUBLIC_KEY))
      /\ From(AlgOf(curveOid), Item(OID, ID_EC_PUBLIC_KEY).used + 1) = rest
  BY <1>1, <1>2, <1>4, ReadsFirst
<1>6. ReadTlv(rest, OID) = Ok(Item(OID, curveOid))
  BY <1>1, <1>3, ReadsOnly
<1> QED  BY <1>5, <1>6

LEMMA CurveIs ==
  ASSUME NEW curveOid \in Seq(Octet), Len(curveOid) < Carried
  PROVE  /\ \A curve \in CurveKind : CurveOid(curve) = curveOid =>
              CurveFromAlgorithmIdentifier(AlgOf(curveOid)) = Ok(curve)
         /\ ~Supported(curveOid) => CurveFromAlgorithmIdentifier(AlgOf(curveOid)) = Err("Certificate")
<1>1. PICK a : a = AlgOf(curveOid)
  OBVIOUS
<1>2. PICK i, j : i = Item(OID, ID_EC_PUBLIC_KEY) /\ j = Item(OID, curveOid)
  OBVIOUS
<1>3. i.value = ID_EC_PUBLIC_KEY /\ j.value = curveOid
  BY <1>2 DEF Item
<1>4. ReadTlv(a, OID) = Ok(i) /\ ReadTlv(From(a, i.used + 1), OID) = Ok(j)
  BY <1>1, <1>2, AlgIs
<1>5. CurveFromAlgorithmIdentifier(a) =
        IF \E curve \in CurveKind : CurveOid(curve) = curveOid
        THEN Ok(CHOOSE curve \in CurveKind : CurveOid(curve) = curveOid)
        ELSE Err("Certificate")
  BY <1>3, <1>4, Results DEF CurveFromAlgorithmIdentifier, IfOk
<1>6. ASSUME NEW curve \in CurveKind, CurveOid(curve) = curveOid
      PROVE  CurveFromAlgorithmIdentifier(a) = Ok(curve)
  <2>1. (CHOOSE c \in CurveKind : CurveOid(c) = curveOid) = curve
    BY <1>6, CurvesApart
  <2> QED  BY <1>5, <1>6, <2>1
<1>7. ~Supported(curveOid) => CurveFromAlgorithmIdentifier(a) = Err("Certificate")
  BY <1>5 DEF Supported
<1> QED  BY <1>1, <1>6, <1>7

\* A SubjectPublicKeyInfo that is written and read.
LEMMA SpkiParts ==
  ASSUME NEW curveOid \in Seq(Octet), NEW point \in Seq(Octet), Len(SpkiOf(curveOid, point)) < Carried
  PROVE  /\ Len(curveOid) < Carried
         /\ ReadTlv(SpkiOf(curveOid, point), SEQUENCE) = Ok(Item(SEQUENCE, AlgOf(curveOid)))
         /\ BitStringOctets(From(SpkiOf(curveOid, point), Item(SEQUENCE, AlgOf(curveOid)).used + 1))
              = Ok(point)
<1>1. PICK a \in Seq(Octet), o \in Seq(Octet), s \in Seq(Octet) :
        a = AlgOf(curveOid) /\ o = << 0 >> \o point /\ s = SpkiOf(curveOid, point)
  BY SpkiTyped
<1>2. PICK x \in Seq(Octet), y \in Seq(Octet) : /\ x = Tlv(SEQUENCE, a) /\ y = Tlv(BIT_STRING, o)
                                                /\ Len(x) >= Len(a) + 2 /\ Len(y) >= Len(o) + 2
  <2>1. Tlv(SEQUENCE, a) \in Seq(Octet) /\ Len(Tlv(SEQUENCE, a)) >= Len(a) + 2
    BY Tags, TlvTyped
  <2>2. Tlv(BIT_STRING, o) \in Seq(Octet) /\ Len(Tlv(BIT_STRING, o)) >= Len(o) + 2
    BY Tags, TlvTyped
  <2> QED  BY <2>1, <2>2, Zenon
<1>3. s = x \o y
  BY <1>1, <1>2 DEF SpkiOf
<1>4. PICK i \in Octet : i = OID
  BY Tags
<1>5. PICK z \in Seq(Octet), w \in Seq(Octet) : /\ z = Tlv(i, ID_EC_PUBLIC_KEY) /\ w = Tlv(i, curveOid)
                                                /\ Len(w) >= Len(curveOid) + 2
  BY <1>4, Identifiers, TlvTyped
<1>6. a = z \o w
  BY <1>1, <1>4, <1>5 DEF AlgOf
<1>7. PICK la \in Nat, lo \in Nat, lc \in Nat, lx \in Nat, ly \in Nat, lz \in Nat, lw \in Nat :
        /\ la = Len(a) /\ lo = Len(o) /\ lc = Len(curveOid) /\ lx = Len(x) /\ ly = Len(y)
        /\ lz = Len(z) /\ lw = Len(w)
  <2>1. \A q \in Seq(Octet) : Len(q) \in Nat
    OBVIOUS
  <2> QED  BY <2>1, Zenon
<1>8. Len(s) = lx + ly /\ la = lz + lw
  BY <1>3, <1>6, <1>7, TwoParts
<1>9. lx + ly < Carried /\ lx >= la + 2 /\ ly >= lo + 2 /\ lw >= lc + 2 /\ la = lz + lw
  BY <1>1, <1>2, <1>5, <1>7, <1>8
<1>10. la < Carried /\ lo < Carried /\ lc < Carried
  BY <1>9, BaseFacts
<1>11. SEQUENCE \in Octet /\ Len(a) < Carried
  BY <1>7, <1>10, Tags
<1>12. ReadTlv(s, SEQUENCE) = Ok(Item(SEQUENCE, a)) /\ From(s, Item(SEQUENCE, a).used + 1) = y
  BY <1>2, <1>3, <1>11, ReadsFirst
<1>13. BitStringOctets(y) = Ok(point)
  BY <1>1, <1>2, <1>7, <1>10, BitStringIs
<1> QED  BY <1>1, <1>7, <1>10, <1>12, <1>13

LEMMA KeyOfIs ==
  ASSUME NEW request \in Requested, Len(SpkiOf(request.curveOid, request.point)) < Carried
  PROVE  LET spki == SpkiOf(request.curveOid, request.point)
         IN  /\ \A curve \in CurveKind : CurveOid(curve) = request.curveOid =>
                  KeyOf(spki) = Ok([curve |-> curve, point |-> request.point])
             /\ ~Supported(request.curveOid) => KeyOf(spki) = Err("Certificate")
<1>1. PICK curveOid \in Seq(Octet), point \in Seq(Octet) :
        curveOid = request.curveOid /\ point = request.point
  BY RequestedTyped, RequestFields
<1>2. PICK s : s = SpkiOf(curveOid, point)
  OBVIOUS
<1>3. Len(curveOid) < Carried
  BY <1>1, SpkiParts
<1>4. PICK alg : alg = Item(SEQUENCE, AlgOf(curveOid))
  OBVIOUS
<1>5. alg.value = AlgOf(curveOid)
  BY <1>4 DEF Item
<1>6. ReadTlv(s, SEQUENCE) = Ok(alg) /\ BitStringOctets(From(s, alg.used + 1)) = Ok(point)
  BY <1>1, <1>2, <1>4, SpkiParts
<1>7. PICK r : r = CurveFromAlgorithmIdentifier(AlgOf(curveOid))
  OBVIOUS
<1>8. ASSUME NEW curve \in CurveKind, CurveOid(curve) = curveOid
      PROVE  KeyOf(s) = Ok([curve |-> curve, point |-> point])
  <2>1. r = Ok(curve)
    BY <1>3, <1>7, <1>8, CurveIs
  <2>2. PICK key \in Key : key = [curve |-> curve, point |-> point]
    BY <1>1, <1>8, CertifiedKeys
  <2>3. key.point = point
    BY <2>2
  <2>4. Len(point) = PUBLIC_KEY_LEN /\ point[1] = 4
    BY <2>2, <2>3, Points
  <2>5. FromBytes(curve, point) = Ok(key)
    BY <2>2, <2>4 DEF FromBytes
  <2>6. KeyOf(s) = FromBytes(curve, point)
    BY <1>5, <1>6, <1>7, <2>1, <2>4, Results DEF KeyOf, IfOk
  <2> QED  BY <2>2, <2>5, <2>6
<1>9. ASSUME ~Supported(curveOid) PROVE KeyOf(s) = Err("Certificate")
  <2>1. r = Err("Certificate")
    BY <1>3, <1>7, <1>9, CurveIs
  <2> QED  BY <1>5, <1>6, <1>7, <2>1, Results DEF KeyOf, IfOk
<1> QED  BY <1>1, <1>2, <1>8, <1>9

\* The fields of the TBS that a certificate has, and the key in them.
LEMMA SpkiFits ==
  ASSUME NEW request \in Requested
  PROVE  Len(SpkiOf(request.curveOid, request.point)) < Carried
<1>1. PICK fields, items : /\ Tbs(request) = Tlv(SEQUENCE, fields) /\ IsItems(request, items)
  BY ItemsOf
<1> QED  BY <1>1 DEF IsItems

\* The key is found by position, if the fields can be read (x509.rs 697-745).
LEMMA KeyByPosition ==
  ASSUME NEW request \in Requested, NEW items, IsItems(request, items)
  PROVE  KeyInFields(items) = KeyOf(SpkiOf(request.curveOid, request.point))
<1>1. /\ Len(items) = 8 /\ items[1].tag = VERSION /\ items[7].tag = SEQUENCE
      /\ items[7].value = SpkiOf(request.curveOid, request.point) /\ DOMAIN items = 1 .. 8
  BY DEF IsItems
<1>2. items # <<>>
  BY <1>1, SMTT(30)
<1>3. ~(8 < 7)
  OBVIOUS
<1> QED  BY <1>1, <1>2, <1>3 DEF KeyInFields

\* Whatever it is in: the key of a TBS that was issued is the key that was asked for.
LEMMA KeyIn ==
  ASSUME NEW request \in Requested, NEW fields, NEW items,
         Walk(fields, ReadTlvAny) = [clean |-> TRUE, tlvs |-> items], IsItems(request, items),
         NEW der, NEW cert, NEW tbs, ReadTlv(der, SEQUENCE) = Ok(cert),
         ReadTlv(cert.value, SEQUENCE) = Ok(tbs), tbs.value = fields
  PROVE  ExtractSpkiPublicKey(der) = KeyOf(SpkiOf(request.curveOid, request.point))
<1>1. TbsFields(fields) = Ok(items)
  BY DEF TbsFields
<1>2. KeyInFields(items) = KeyOf(SpkiOf(request.curveOid, request.point))
  BY KeyByPosition
<1> QED  BY <1>1, <1>2, Results DEF ExtractSpkiPublicKey, IfOk

\* What from_der then says of it.
LEMMA KeyStated ==
  ASSUME NEW request \in Requested, NEW der, der # <<>>,
         ExtractSpkiPublicKey(der) = KeyOf(SpkiOf(request.curveOid, request.point))
  PROVE  /\ Supported(request.curveOid) => StatesKey(der, request)
         /\ ~Supported(request.curveOid) => FromDer(der) = Err("Certificate")
<1>1. PICK s : s = SpkiOf(request.curveOid, request.point)
  OBVIOUS
<1>2. Len(s) < Carried
  BY <1>1, SpkiFits
<1>3. CASE Supported(request.curveOid)
  <2>1. PICK curve \in CurveKind : CurveOid(curve) = request.curveOid
    BY <1>3 DEF Supported
  <2>2. PICK key : key = [curve |-> curve, point |-> request.point]
    OBVIOUS
  <2>3. KeyOf(s) = Ok(key)
    BY <1>1, <1>2, <2>1, <2>2, KeyOfIs
  <2>4. FromDer(der) = Ok([der |-> der, public_key |-> key])
    BY <1>1, <2>3, Results DEF FromDer, IfOk
  <2>5. FromDer(der).ok /\ FromDer(der).val.public_key = key
    BY <2>4, Results
  <2> QED  BY <1>3, <2>1, <2>2, <2>5 DEF StatesKey
<1>4. CASE ~Supported(request.curveOid)
  <2>1. KeyOf(s) = Err("Certificate")
    BY <1>1, <1>2, <1>4, KeyOfIs
  <2> QED  BY <1>1, <1>4, <2>1, Results DEF FromDer, IfOk
<1> QED  BY <1>3, <1>4

\* A field names a curve if it is a SubjectPublicKeyInfo, and no other does.
LEMMA OneFieldNames ==
  ASSUME NEW request \in Requested, NEW items, IsItems(request, items)
  PROVE  /\ \A i \in 1 .. 6 : ~NamedCurveIn(items[i]).some
         /\ NamedCurveIn(items[7]) = Some(request.curveOid)
<1>1. \A v : None.some = FALSE /\ Some(v).some = TRUE /\ Some(v).val = v
  BY DEF None, Some
<1>2. SEQUENCE # VERSION /\ SEQUENCE # INTEGER
  BY DEF SEQUENCE, VERSION, INTEGER
<1>3. ASSUME NEW i \in {1, 2} PROVE ~NamedCurveIn(items[i]).some
  <2>1. items[i].tag # SEQUENCE
    BY <1>2 DEF IsItems
  <2> QED  BY <1>1, <2>1 DEF NamedCurveIn
<1>4. ASSUME NEW i \in {3, 4, 5, 6} PROVE ~NamedCurveIn(items[i]).some
  <2>1. PICK v \in Seq(Octet) : v = items[i].value /\ (v = <<>> \/ v[1] # SEQUENCE)
    BY DEF IsItems
  <2>2. ~ReadTlv(v, SEQUENCE).ok
    <3>1. SUFFICES ASSUME ReadTlv(v, SEQUENCE).ok PROVE FALSE
      OBVIOUS
    <3>2. ReadTlvAny(v).ok /\ ReadTlvAny(v).val.tag = SEQUENCE
      BY <3>1, ReadTlvIs
    <3>3. PICK h \in Nat, u \in Nat :
            /\ 2 <= h /\ h <= u /\ u <= Len(v)
            /\ ReadTlvAny(v) = Ok([tag |-> v[1], value |-> SubSeq(v, h + 1, u), used |-> u])
      BY <3>2, ReadsWithin
    <3>4. ReadTlvAny(v).val.tag = v[1]
      BY <3>3, Results
    <3>5. v = <<>>
      BY <2>1, <3>2, <3>4
    <3>6. Len(v) = 0
      BY <3>5
    <3> QED  BY <3>3, <3>6
  <2>3. PICK r : r = ReadTlv(v, SEQUENCE) /\ ~r.ok
    BY <2>2
  <2> QED  BY <1>1, <2>1, <2>3 DEF NamedCurveIn, ToOption, IfOk
<1>5. NamedCurveIn(items[7]) = Some(request.curveOid)
  <2>1. PICK curveOid \in Seq(Octet), point \in Seq(Octet) :
          curveOid = request.curveOid /\ point = request.point
    BY RequestedTyped, RequestFields
  <2>2. PICK s : s = SpkiOf(curveOid, point)
    OBVIOUS
  <2>3. items[7].tag = SEQUENCE /\ items[7].value = s
    BY <2>1, <2>2 DEF IsItems
  <2>4. Len(s) < Carried
    BY <2>1, <2>2, SpkiFits
  <2>5. PICK inner, alg, curve : /\ inner = Item(SEQUENCE, AlgOf(curveOid))
                                 /\ alg = Item(OID, ID_EC_PUBLIC_KEY) /\ curve = Item(OID, curveOid)
    OBVIOUS
  <2>6. Len(curveOid) < Carried /\ ReadTlv(s, SEQUENCE) = Ok(inner)
    BY <2>2, <2>4, <2>5, SpkiParts
  <2>7. inner.value = AlgOf(curveOid) /\ alg.value = ID_EC_PUBLIC_KEY /\ curve.value = curveOid
    BY <2>5 DEF Item
  <2>8. ReadTlv(inner.value, OID) = Ok(alg)
        /\ ReadTlv(From(inner.value, alg.used + 1), OID) = Ok(curve)
    BY <2>5, <2>6, <2>7, AlgIs
  <2>9. ToOption(Ok(request.curveOid)) = Some(request.curveOid)
    BY Results, Zenon DEF ToOption
  <2> QED  BY <2>1, <2>3, <2>6, <2>7, <2>8, <2>9, Results, SMTT(60) DEF NamedCurveIn, IfOk
<1>6. \A i \in 1 .. 6 : i \in {1, 2} \/ i \in {3, 4, 5, 6}
  OBVIOUS
<1> QED  BY <1>3, <1>4, <1>5, <1>6

\* The search for a curve, in parts that can be rewritten.
NamingField(fields) == FirstSuchThat(fields, LAMBDA field : NamedCurveIn(field).some)
FieldsOf(tbs)       == Walk(tbs, ReadTlvAny).tlvs

LEMMA NamedCurveParts ==
  \A der : CertificateNamedCurveOid(der) =
    IfSome(ToOption(ReadTlvAny(der)), LAMBDA cert :
    IfSome(ToOption(ReadTlvAny(cert.value)), LAMBDA tbs :
    IfSome(NamingField(FieldsOf(tbs.value)), NamedCurveIn)))
  BY DEF CertificateNamedCurveOid, NamingField, FieldsOf

\* The field that is found by its shape is the one that is found by position
\* (x509.rs 547-612).
LEMMA FoundByShape ==
  ASSUME NEW request \in Requested, NEW items, IsItems(request, items)
  PROVE  NamingField(items) = Some(items[7])
<1> DEFINE I == {i \in 1 .. Len(items) : NamedCurveIn(items[i]).some}
<1>1. DOMAIN items = 1 .. 8 /\ Len(items) = 8
  BY DEF IsItems
<1>2. NamedCurveIn(items[7]).some /\ \A i \in 1 .. 6 : ~NamedCurveIn(items[i]).some
  <2>1. NamedCurveIn(items[7]) = Some(request.curveOid) /\ \A i \in 1 .. 6 : ~NamedCurveIn(items[i]).some
    BY OneFieldNames
  <2>2. Some(request.curveOid).some
    BY DEF Some
  <2> QED  BY <2>1, <2>2
<1>3. 7 \in I /\ \A i \in I : i \in Int /\ i >= 7
  <2>1. \A i \in 1 .. 8 : i \in 1 .. 6 \/ i >= 7
    OBVIOUS
  <2> QED  BY <1>1, <1>2, <2>1
<1> HIDE DEF I
<1>4. (CHOOSE i \in I : \A j \in I : i =< j) = 7
  <2>1. \A j \in I : 7 =< j
    BY <1>3
  <2>2. \A i \in I : (\A j \in I : i =< j) => i = 7
    BY <1>3
  <2> QED  BY <1>3, <2>1, <2>2
<1>5. SelectInSeq(items, LAMBDA field : NamedCurveIn(field).some) = 7
  <2>1. I # {}
    BY <1>3
  <2> QED  BY <1>4, <2>1 DEF SelectInSeq, Min, I
<1> QED  BY <1>1, <1>2, <1>5 DEF FirstSuchThat, NamingField

\* Octets that hold the TBS of a request where it should be: the key is the one that was
\* asked for, and both readers name its curve.
LEMMA BothReadersState ==
  ASSUME NEW request \in Requested, NEW fields, NEW items,
         Walk(fields, ReadTlvAny) = [clean |-> TRUE, tlvs |-> items], IsItems(request, items),
         NEW der, der # <<>>, NEW cert, NEW tbs, ReadTlv(der, SEQUENCE) = Ok(cert),
         ReadTlv(cert.value, SEQUENCE) = Ok(tbs), tbs.value = fields
  PROVE  /\ CertificateNamedCurveOid(der) = Some(request.curveOid)
         /\ Supported(request.curveOid) => StatesKey(der, request)
         /\ ~Supported(request.curveOid) => FromDer(der) = Err("Certificate")
<1>1. ExtractSpkiPublicKey(der) = KeyOf(SpkiOf(request.curveOid, request.point))
  BY KeyIn
<1>2. CertificateNamedCurveOid(der) = Some(request.curveOid)
  <2>1. FieldsOf(fields) = items
    BY DEF FieldsOf
  <2>2. NamingField(items) = Some(items[7])
    BY FoundByShape
  <2>3. NamedCurveIn(items[7]) = Some(request.curveOid)
    BY OneFieldNames
  <2>4. \A v : Some(v).some = TRUE /\ Some(v).val = v
    BY DEF Some
  <2>5. ReadTlvAny(der) = Ok(cert) /\ ReadTlvAny(cert.value) = Ok(tbs)
    BY ReadTlvIs, Results
  <2>6. ToOption(ReadTlvAny(der)) = Some(cert) /\ ToOption(ReadTlvAny(cert.value)) = Some(tbs)
    BY <2>5, Results DEF ToOption
  <2> QED  BY <2>1, <2>2, <2>3, <2>4, <2>6, NamedCurveParts DEF IfSome
<1> QED  BY <1>1, <1>2, KeyStated

\* A certificate that is whole, whatever follows it: what is read of its key is what was
\* asked for.
LEMMA WholeCertificateStates ==
  ASSUME NEW request \in Requested, NEW signature \in Seq(Octet), Len(signature) = 3,
         NEW rest \in Seq(Octet),
         NEW der, der = Assemble(Tbs(request), signature) \o rest
  PROVE  /\ CertificateNamedCurveOid(der) = Some(request.curveOid)
         /\ Supported(request.curveOid) => StatesKey(der, request)
         /\ ~Supported(request.curveOid) => FromDer(der) = Err("Certificate")
<1>1. PICK inside \in Seq(Octet), behind \in Seq(Octet), content \in Seq(Octet) :
        /\ Tbs(request) = Tlv(SEQUENCE, inside) /\ Len(inside) < Carried
        /\ behind = Behind(signature) /\ content = Tbs(request) \o behind
        /\ Assemble(Tbs(request), signature) = Tlv(SEQUENCE, content) /\ Len(content) < Carried
  BY CertificateIs
<1>2. PICK fields, items :
        /\ fields \in Seq(Octet) /\ Tbs(request) = Tlv(SEQUENCE, fields) /\ Len(fields) < Carried
        /\ Walk(fields, ReadTlvAny) = [clean |-> TRUE, tlvs |-> items]
        /\ IsItems(request, items)
  BY ItemsOf
<1>3. content = Tlv(SEQUENCE, fields) \o behind /\ der = Tlv(SEQUENCE, content) \o rest
  BY <1>1, <1>2
<1>4. PICK cert, tbs : cert = Item(SEQUENCE, content) /\ tbs = Item(SEQUENCE, fields)
  OBVIOUS
<1>5. cert.value = content /\ tbs.value = fields
  BY <1>4 DEF Item
<1>6. ReadTlv(der, SEQUENCE) = Ok(cert)
  <2>1. SEQUENCE \in Octet
    BY Tags
  <2>2. Len(content) < Carried
    BY <1>1
  <2>3. ReadTlv(Tlv(SEQUENCE, content) \o rest, SEQUENCE) = Ok(Item(SEQUENCE, content))
    BY <2>1, <2>2, ReadsFirst, ZenonT(60)
  <2> QED  BY <1>3, <1>4, <2>3, ZenonT(60)
<1>7. ReadTlv(content, SEQUENCE) = Ok(tbs)
  <2>1. Len(fields) < Carried /\ Len(Tlv(SEQUENCE, fields) \o behind) < Carried
    BY <1>1, <1>2, <1>3, Zenon
  <2>2. ReadTlv(Tlv(SEQUENCE, fields) \o behind, SEQUENCE) = Ok(Item(SEQUENCE, fields))
    BY <1>2, <2>1, ContentIs, ZenonT(60)
  <2> QED  BY <1>3, <1>4, <2>2, Zenon
<1>8. der # <<>>
  <2>1. PICK t \in Seq(Octet) : t = Tlv(SEQUENCE, content) /\ Len(t) >= 2
    <3>1. Tlv(SEQUENCE, content) \in Seq(Octet) /\ Len(Tlv(SEQUENCE, content)) >= Len(content) + 2
      BY Tags, TlvTyped
    <3>2. PICK a \in Nat : a = Len(content)
      OBVIOUS
    <3>3. PICK t \in Seq(Octet) : t = Tlv(SEQUENCE, content) /\ Len(t) >= a + 2
      BY <3>1, <3>2
    <3> QED  BY <3>3
  <2>2. der \in Seq(Octet) /\ Len(der) = Len(t) + Len(rest)
    BY <1>3, <2>1, TwoParts
  <2>3. Len(t) \in Nat /\ Len(rest) \in Nat
    BY <2>1
  <2>4. Len(der) >= 2
    BY <2>1, <2>2, <2>3
  <2> QED  BY <2>4
<1> QED  BY <1>2, <1>5, <1>6, <1>7, <1>8, BothReadersState

\* KeyAsIssued: the two sides, written apart, agree on the place of the key and on the
\* names of the curves (testpki.rs 399-424, x509.rs 547-612 and 697-745).
THEOREM KeyArrives == Spec => []KeyAsIssued
<1>1. IInv => KeyAsIssued
  <2> SUFFICES ASSUME IInv, Whole
               PROVE  /\ CertificateNamedCurveOid(reading.der) = Some(reading.request.curveOid)
                      /\ IF Supported(reading.request.curveOid)
                         THEN StatesKey(reading.der, reading.request)
                         ELSE FromDer(reading.der) = Err("Certificate")
    BY DEF KeyAsIssued
  <2>1. PICK c \in issued : reading.request = c.request /\ reading.der = c.der
    BY ReadingIs DEF Whole
  <2>2. PICK request \in Requested, s \in Seq(Octet) :
           Len(s) = 3 /\ request = c.request /\ c.der = Assemble(Tbs(request), s)
    BY CertificateOf
  <2>3. PICK der \in Seq(Octet) : der = c.der
    BY IssuedTyped
  <2>4. PICK nothing \in Seq(Octet) : der = Assemble(Tbs(request), s) \o nothing
    <3>1. der = der \o << >> /\ << >> \in Seq(Octet)
      BY ConcatEmptySeq
    <3> QED  BY <2>2, <2>3, <3>1
  <2>5. /\ CertificateNamedCurveOid(der) = Some(request.curveOid)
        /\ Supported(request.curveOid) => StatesKey(der, request)
        /\ ~Supported(request.curveOid) => FromDer(der) = Err("Certificate")
    <3>1. Len(s) = 3
      BY <2>2
    <3> QED  BY <2>4, <3>1, WholeCertificateStates
  <2> QED  BY <2>1, <2>2, <2>3, <2>5
<1> QED  BY <1>1, Invariant, PTL

\* What is extracted is at the front of what the certificate holds.
FrontOf(der, content, signature, front, rest) ==
  /\ front \in Seq(Octet) /\ rest \in Seq(Octet) /\ content = front \o rest
  /\ ExtractTbsAndSignature(der) = Ok([tbs |-> front, signature |-> signature])

\* When nothing is behind a certificate, the TBS that is verified, which is cut out of the
\* whole input, is the beginning of what the certificate holds.
LEMMA VerifiedFromTheFront ==
  ASSUME NEW der \in Seq(Octet), NothingBehind(der), NEW tbs, NEW signature,
         NEW parts, ReadTlv(der, SEQUENCE) = Ok(parts),
         ReadTlv(parts.value, SEQUENCE) = Ok(tbs),
         SignatureIn(From(parts.value, tbs.used + 1)) = Ok(signature)
  PROVE  \E front, rest : FrontOf(der, parts.value, signature, front, rest)
<1>1. ReadTlvAny(der) = Ok(parts) /\ ReadTlvAny(parts.value) = Ok(tbs)
  BY ReadTlvIs, Results
<1>2. PICK h \in Nat, u \in Nat :
        /\ 2 <= h /\ h <= u /\ u <= Len(der)
        /\ ReadTlvAny(der) = Ok([tag |-> der[1], value |-> SubSeq(der, h + 1, u), used |-> u])
  BY <1>1, Results, ReadsWithin
<1>3. u = Len(der) /\ parts.value = SubSeq(der, h + 1, u)
  <2>1. PICK p : p = [tag |-> der[1], value |-> SubSeq(der, h + 1, u), used |-> u]
    OBVIOUS
  <2>2. p.used = u /\ p.value = SubSeq(der, h + 1, u)
    BY <2>1
  <2>3. p = parts
    BY <1>1, <1>2, <2>1, Results, ZenonT(60)
  <2>4. ReadTlv(der, SEQUENCE).val = parts
    BY Results
  <2> QED  BY <2>2, <2>3, <2>4 DEF NothingBehind
<1>4. PICK n \in Nat : u = h + n
  <2>1. ASSUME NEW a \in Nat, NEW b \in Nat, a <= b PROVE \E n \in Nat : b = a + n
    <3>1. b - a \in Nat /\ b = a + (b - a)
      BY <2>1
    <3> QED  BY <3>1
  <2> QED  BY <1>2, <2>1, Zenon
<1>5. PICK content \in Seq(Octet) : content = parts.value /\ Len(content) = n
                                    /\ \A i \in 1 .. n : content[i] = der[h + i]
  <2>1. h + n <= Len(der)
    BY <1>3, <1>4
  <2>2. /\ SubSeq(der, h + 1, h + n) \in Seq(Octet) /\ Len(SubSeq(der, h + 1, h + n)) = n
        /\ \A i \in 1 .. n : SubSeq(der, h + 1, h + n)[i] = der[h + i]
    BY <2>1, Slice
  <2> QED  BY <1>3, <1>4, <2>2
<1>6. PICK g \in Nat, k \in Nat :
        /\ 2 <= g /\ g <= k /\ k <= Len(content)
        /\ ReadTlvAny(content) = Ok([tag |-> content[1], value |-> SubSeq(content, g + 1, k), used |-> k])
  BY <1>1, <1>5, Results, ReadsWithin
<1>7. tbs.used = k
  <2>1. PICK p : p = [tag |-> content[1], value |-> SubSeq(content, g + 1, k), used |-> k]
    OBVIOUS
  <2>2. p.used = k
    BY <2>1
  <2>3. ReadTlvAny(content) = Ok(p) /\ ReadTlvAny(content) = Ok(tbs)
    BY <1>1, <1>5, <1>6, <2>1
  <2>4. p = tbs
    BY <2>3, Results
  <2> QED  BY <2>2, <2>4
<1>8. k \in 0 .. Len(content)
  BY <1>6
<1>9. PICK front \in Seq(Octet), rest \in Seq(Octet) :
        /\ front = SubSeq(content, 1, k) /\ Len(front) = k /\ content = front \o rest
  BY <1>8, BeginningAndRest
<1>10. \A i \in 1 .. k : front[i] = content[i]
  BY <1>9, TwoParts
<1>11. \A i \in 1 .. k : i \in 1 .. n
  BY <1>5, <1>8
<1>12. \A i \in 1 .. k : der[h + i] = front[i]
  BY <1>5, <1>10, <1>11
<1>13. SubSeq(der, h + 1, h + k) = front
  <2>1. h + k <= Len(der)
    BY <1>3, <1>4, <1>5, <1>8
  <2> QED  BY <1>9, <1>12, <2>1, SliceIs
<1>14. PICK start : start = Len(der) - Len(parts.value)
  OBVIOUS
<1>15. start = h
  <2>1. start = (h + n) - n
    BY <1>3, <1>4, <1>5, <1>14
  <2> QED  BY <2>1
<1>16. Extracted(der, parts.value, tbs.used, signature) = Ok([tbs |-> front, signature |-> signature])
  <2>1. ~(h + k > Len(der))
    <3>1. Len(der) = h + n /\ k <= n
      <4>1. Len(der) = h + n
        BY <1>3, <1>4
      <4>2. k \in 0 .. n
        BY <1>5, <1>8
      <4> QED  BY <4>1, <4>2
    <3>2. ~(h + k > h + n)
      BY <3>1
    <3> QED  BY <3>1, <3>2
  <2>2. Len(der) - Len(parts.value) = h
    BY <1>14, <1>15
  <2> QED  BY <1>7, <1>13, <2>1, <2>2 DEF Extracted
<1>17. ExtractTbsAndSignature(der) = Extracted(der, parts.value, tbs.used, signature)
  BY ExtractSteps
<1> QED  BY <1>5, <1>9, <1>16, <1>17 DEF FrontOf

\* What the readers have read when they succeed.
LEMMA ReadSteps ==
  ASSUME NEW der, NEW key, FromDer(der).ok, VerifySignedByKey(der, key).ok
  PROVE  \E cert, tbs, signature :
           /\ der # <<>> /\ ReadTlv(der, SEQUENCE) = Ok(cert) /\ ReadTlv(cert.value, SEQUENCE) = Ok(tbs)
           /\ SignatureIn(From(cert.value, tbs.used + 1)) = Ok(signature)
<1>1. der # <<>>
  BY Results DEF FromDer
<1>2. PICK a : a = ReadTlv(der, SEQUENCE)
  OBVIOUS
<1>3. a.ok
  BY <1>2, Results DEF VerifySignedByKey, ExtractTbsAndSignature, IfOk
<1>4. PICK b : b = ReadTlv(a.val.value, SEQUENCE)
  OBVIOUS
<1>5. b.ok
  BY <1>2, <1>3, <1>4, Results DEF VerifySignedByKey, ExtractTbsAndSignature, IfOk
<1>6. PICK c : c = SignatureIn(From(a.val.value, b.val.used + 1))
  OBVIOUS
<1>7. c.ok
  BY <1>2, <1>3, <1>4, <1>5, <1>6, Results DEF VerifySignedByKey, ExtractTbsAndSignature, IfOk
<1>8. a = Ok(a.val) /\ b = Ok(b.val)
  BY <1>2, <1>3, <1>4, <1>5, ReadTlvIs
<1>9. c = Ok(c.val)
  <2>1. \A input : BitStringOctets(input).ok => BitStringOctets(input) = Ok(BitStringOctets(input).val)
    BY Results DEF BitStringOctets, IfOk
  <2> QED  BY <1>6, <1>7, <2>1, Results DEF SignatureIn, IfOk
<1> QED  BY <1>1, <1>2, <1>4, <1>6, <1>8, <1>9

\* Octets that verify, with nothing behind them: what is verified is the TBS of a
\* certificate that the key has issued, and what is read is that same TBS.
LEMMA VerifiedStates ==
  ASSUME IInv, reading.made, NothingBehind(reading.der), FromDer(reading.der).ok,
         NEW key \in Key, VerifySignedByKey(reading.der, key).ok
  PROVE  \E c \in issued : /\ c.request.issuer = key /\ StatesKey(reading.der, c.request)
                           /\ CertificateNamedCurveOid(reading.der) = Some(c.request.curveOid)
<1>1. PICK der \in Seq(Octet) : der = reading.der
  BY ReadingIs
<1>2. PICK cert, tbs, s :
        /\ der # <<>> /\ ReadTlv(der, SEQUENCE) = Ok(cert) /\ ReadTlv(cert.value, SEQUENCE) = Ok(tbs)
        /\ SignatureIn(From(cert.value, tbs.used + 1)) = Ok(s)
  BY <1>1, ReadSteps
<1>3. PICK front, rest : FrontOf(der, cert.value, s, front, rest)
  <2>1. NothingBehind(der)
    BY <1>1
  <2> QED  BY <1>2, <2>1, VerifiedFromTheFront
<1>4. VerifyDer(key, front, s).ok
  <2>1. PICK parts : parts = [tbs |-> front, signature |-> s]
    OBVIOUS
  <2>2. parts.tbs = front /\ parts.signature = s
    BY <2>1
  <2>3. VerifySignedByKey(der, key) = VerifyDer(key, front, s)
    BY <1>3, <2>1, <2>2, Results DEF VerifySignedByKey, IfOk, FrontOf
  <2> QED  BY <1>1, <2>3
<1>5. PICK n \in DOMAIN signed : signed[n] = [key |-> key, message |-> front]
  BY <1>4, VerifiedIsInTheLog
<1>6. PICK c \in issued : signed[n] = EntryOf(c.request)
  <2>1. n \in 1 .. Len(signed)
    BY DEF IInv, LogInv
  <2> QED  BY <2>1 DEF IInv, EnteredInv
<1>7. PICK request \in Requested : request = c.request
  BY CertificateOf
<1>8. request.issuer = key /\ Tbs(request) = front
  BY <1>5, <1>6, <1>7 DEF EntryOf
<1>9. PICK fields, items :
        /\ fields \in Seq(Octet) /\ Tbs(request) = Tlv(SEQUENCE, fields) /\ Len(fields) < Carried
        /\ Walk(fields, ReadTlvAny) = [clean |-> TRUE, tlvs |-> items]
        /\ IsItems(request, items)
  BY ItemsOf
<1>10. ReadTlv(cert.value, SEQUENCE) = Ok(Item(SEQUENCE, fields))
  <2>1. cert.value = Tlv(SEQUENCE, fields) \o rest /\ SEQUENCE \in Octet
    BY <1>3, <1>8, <1>9, Tags DEF FrontOf
  <2>2. rest \in Seq(Octet)
    BY <1>3 DEF FrontOf
  <2> QED  BY <1>9, <2>1, <2>2, ReadsFirst
<1>11. tbs.value = fields
  <2>1. tbs = Item(SEQUENCE, fields)
    BY <1>2, <1>10, Results
  <2> QED  BY <2>1 DEF Item
<1>12. /\ CertificateNamedCurveOid(der) = Some(request.curveOid)
       /\ Supported(request.curveOid) => StatesKey(der, request)
       /\ ~Supported(request.curveOid) => FromDer(der) = Err("Certificate")
  BY <1>2, <1>9, <1>11, BothReadersState
<1>13. Supported(request.curveOid)
  <2>1. ~(FromDer(der) = Err("Certificate"))
    BY <1>1, Results
  <2> QED  BY <1>12, <2>1
<1> QED  BY <1>1, <1>7, <1>8, <1>12, <1>13

\* VerifiedKeyWasIssued: what is verified is the TBS of a certificate that the key has
\* issued, and what is read is that same TBS (x509.rs 524-545 and 697-745).
THEOREM VerifiedKeys == Spec => []VerifiedKeyWasIssued
<1>1. IInv => VerifiedKeyWasIssued
  <2> SUFFICES ASSUME IInv, reading.made, NothingBehind(reading.der), FromDer(reading.der).ok,
                      NEW key \in Key, VerifySignedByKey(reading.der, key).ok
               PROVE  \E c \in issued : c.request.issuer = key /\ StatesKey(reading.der, c.request)
    BY DEF VerifiedKeyWasIssued
  <2> QED  BY VerifiedStates
<1> QED  BY <1>1, Invariant, PTL

\* Readings that begin with a whole certificate, that have lost their end, or that verify
\* and have nothing behind them.  Left out are octets that were changed on the way and
\* that no key verifies, or that are followed by others.
Undisturbed ==
  \/ Len(reading.der) < Len(reading.sent)
  \/ \E rest \in Seq(Octet) : reading.der = reading.sent \o rest
  \/ NothingBehind(reading.der) /\ \E key \in Key : VerifySignedByKey(reading.der, key).ok

\* CurveReadersAgree, of every reading that is not disturbed: the reader that goes by
\* position and the one that goes by shape name the same curve (x509.rs 547-612 and
\* 697-745).
THEOREM OneCurve == Spec => [](Undisturbed => CurveReadersAgree)
<1>1. IInv => (Undisturbed => CurveReadersAgree)
  <2> SUFFICES ASSUME IInv, Undisturbed, reading.made, FromDer(reading.der).ok
               PROVE  CertificateNamedCurveOid(reading.der) =
                        Some(CurveOid(FromDer(reading.der).val.public_key.curve))
    BY DEF CurveReadersAgree
  <2>1. PICK der \in Seq(Octet), c \in issued :
          der = reading.der /\ reading.sent = c.der /\ (Len(der) < Len(c.der) => Agrees(der, c.der))
    BY ReadingIs
  <2>2. PICK issuedFor \in Requested, s \in Seq(Octet) :
          Len(s) = 3 /\ c.der = Assemble(Tbs(issuedFor), s)
    BY CertificateOf
  <2>3. ~(Len(der) < Len(c.der))
    BY <2>1, <2>2, CutCannotBeRead
  <2>4. PICK request : /\ CertificateNamedCurveOid(der) = Some(request.curveOid)
                       /\ StatesKey(der, request)
    <3>1. CASE \E rest \in Seq(Octet) : der = c.der \o rest
      <4>1. PICK rest \in Seq(Octet) : der = Assemble(Tbs(issuedFor), s) \o rest
        BY <2>2, <3>1
      <4>2. /\ CertificateNamedCurveOid(der) = Some(issuedFor.curveOid)
            /\ Supported(issuedFor.curveOid) => StatesKey(der, issuedFor)
            /\ ~Supported(issuedFor.curveOid) => FromDer(der) = Err("Certificate")
        BY <2>2, <4>1, WholeCertificateStates
      <4>3. ~(FromDer(der) = Err("Certificate"))
        BY <2>1, Results
      <4> QED  BY <4>2, <4>3
    <3>2. CASE NothingBehind(der) /\ \E key \in Key : VerifySignedByKey(der, key).ok
      BY <2>1, <3>2, VerifiedStates
    <3> QED  BY <2>1, <2>3, <3>1, <3>2 DEF Undisturbed
  <2> QED  BY <2>1, <2>4 DEF StatesKey
<1> QED  BY <1>1, Invariant, PTL

-----------------------------------------------------------------------------
(* A search *)

\* The identifiers of the extensions differ in their last octet.
Kinds == {14, 17, 32, 35}

ExtensionId(x) == <<OID, 3, 85, 29, x>>

\* One of them is at a place.
IsAt(q, i, x) ==
  q[i] = OID /\ q[i + 1] = 3 /\ q[i + 2] = 85 /\ q[i + 3] = 29 /\ q[i + 4] = x

\* Octets in which it is nowhere, and in which it is once, with something behind it.
Silent(q, x) == \A i \in 1 .. Len(q) - 4 : ~IsAt(q, i, x)

Announces(q, x, t) ==
  \E p \in 1 .. Len(q) - 4, rest \in Seq(Octet) :
    /\ IsAt(q, p, x) /\ From(q, p + 5) = t \o rest
    /\ \A i \in 1 .. Len(q) - 4 : IsAt(q, i, x) => i = p

\* What can follow others without completing an identifier.
Opens(b) ==
  b = <<>> \/ /\ b[1] \notin {85, 29} \cup Kinds
              /\ b[1] = 3 => Len(b) >= 2 /\ b[2] # 85

\* Where an identifier is in two parts: in one of them.
LEMMA SeamIs ==
  ASSUME NEW a \in Seq(Octet), NEW b \in Seq(Octet), NEW x \in Kinds, Opens(b),
         NEW i \in 1 .. Len(a \o b) - 4
  PROVE  /\ i \in Nat
         /\ IsAt(a \o b, i, x) <=> \/ i <= Len(a) - 4 /\ IsAt(a, i, x)
                                   \/ i > Len(a) /\ IsAt(b, i - Len(a), x)
<1>0. PICK q \in Seq(Octet) : q = a \o b
  BY Joined
<1>1. PICK m \in Nat, n \in Nat : m = Len(a) /\ n = Len(b)
  OBVIOUS
<1>2. /\ q \in Seq(Octet) /\ Len(q) = m + n
      /\ \A k \in 1 .. m : q[k] = a[k]
      /\ \A k \in 1 .. n : q[m + k] = b[k]
  BY <1>0, <1>1, TwoParts
<1>3. i \in Nat /\ i >= 1 /\ i + 4 <= m + n
  BY <1>0, <1>2
<1>4. CASE i + 4 <= m
  <2>1. i \in 1 .. m /\ i + 1 \in 1 .. m /\ i + 2 \in 1 .. m /\ i + 3 \in 1 .. m /\ i + 4 \in 1 .. m
    BY <1>3, <1>4
  <2>2. IsAt(q, i, x) <=> IsAt(a, i, x)
    BY <1>2, <2>1, SMTT(30) DEF IsAt
  <2>3. i <= m - 4 /\ ~(i > m)
    BY <1>3, <1>4
  <2> QED  BY <1>0, <1>1, <1>3, <2>2, <2>3
<1>5. CASE i > m
  <2>1. PICK k \in Nat : i = m + k /\ k = i - m /\ k >= 1
    <3>1. i - m \in Nat /\ i = m + (i - m) /\ i - m >= 1
      BY <1>3, <1>5
    <3> QED  BY <3>1
  <2>2. k \in 1 .. n /\ k + 1 \in 1 .. n /\ k + 2 \in 1 .. n /\ k + 3 \in 1 .. n /\ k + 4 \in 1 .. n
    BY <1>3, <2>1
  <2>3. i = m + k /\ i + 1 = m + (k + 1) /\ i + 2 = m + (k + 2) /\ i + 3 = m + (k + 3)
        /\ i + 4 = m + (k + 4)
    BY <2>1
  <2>4. IsAt(q, i, x) <=> IsAt(b, k, x)
    <3>1. /\ q[m + k] = b[k] /\ q[m + (k + 1)] = b[k + 1] /\ q[m + (k + 2)] = b[k + 2]
          /\ q[m + (k + 3)] = b[k + 3] /\ q[m + (k + 4)] = b[k + 4]
      BY <1>2, <2>2
    <3>2. /\ q[i] = b[k] /\ q[i + 1] = b[k + 1] /\ q[i + 2] = b[k + 2]
          /\ q[i + 3] = b[k + 3] /\ q[i + 4] = b[k + 4]
      BY <2>3, <3>1, Zenon
    <3> QED  BY <3>2, Zenon DEF IsAt
  <2>5. ~(i <= m - 4)
    BY <1>3, <1>5
  <2> QED  BY <1>0, <1>1, <1>3, <1>5, <2>1, <2>4, <2>5
<1>6. CASE ~(i + 4 <= m) /\ ~(i > m)
  <2>1. 1 \in 1 .. n
    BY <1>3, <1>6
  <2>2. /\ q[m + 1] = b[1] /\ b[1] \notin {85, 29} \cup Kinds
        /\ b[1] = 3 => 2 \in 1 .. n /\ q[m + 2] = b[2] /\ b[2] # 85
    <3>1. b # <<>>
      BY <1>1, <2>1
    <3> QED  BY <1>1, <1>2, <2>1, <3>1 DEF Opens
  <2>3. ASSUME m + 1 = i + 1 PROVE ~IsAt(q, i, x)
    <3>1. m + 2 = i + 2
      BY <1>3, <2>3
    <3>2. q[i + 1] = b[1]
      BY <2>2, <2>3, Zenon
    <3>3. b[1] = 3 => q[i + 2] # 85
      BY <2>2, <3>1, ZenonT(60)
    <3> QED  BY <3>2, <3>3, Zenon DEF IsAt
  <2>4. ASSUME m + 1 = i + 2 \/ m + 1 = i + 3 \/ m + 1 = i + 4 PROVE ~IsAt(q, i, x)
    <3>1. \/ q[i + 2] \notin {85, 29} \cup Kinds \/ q[i + 3] \notin {85, 29} \cup Kinds
          \/ q[i + 4] \notin {85, 29} \cup Kinds
      BY <2>2, <2>4, Zenon
    <3> QED  BY <3>1 DEF IsAt
  <2>5. ~(i <= m - 4)
    BY <1>3, <1>6
  <2>6. m + 1 = i + 1 \/ m + 1 = i + 2 \/ m + 1 = i + 3 \/ m + 1 = i + 4
    BY <1>3, <1>6
  <2>7. ~IsAt(q, i, x)
    BY <2>3, <2>4, <2>6
  <2> QED  BY <1>0, <1>1, <1>3, <1>6, <2>5, <2>7
<1> QED  BY <1>4, <1>5, <1>6

LEMMA SilentTogether ==
  ASSUME NEW a \in Seq(Octet), NEW b \in Seq(Octet), NEW x \in Kinds, Opens(b),
         Silent(a, x), Silent(b, x)
  PROVE  Silent(a \o b, x)
<1>1. PICK q \in Seq(Octet) : q = a \o b
  BY Joined
<1>2. ASSUME NEW i \in 1 .. Len(q) - 4 PROVE ~IsAt(q, i, x)
  <2>0. Len(a) \in Nat /\ Len(b) \in Nat /\ Len(q) = Len(a) + Len(b)
    BY <1>1, TwoParts
  <2>1. /\ i \in Nat
        /\ IsAt(q, i, x) <=> \/ i <= Len(a) - 4 /\ IsAt(a, i, x)
                             \/ i > Len(a) /\ IsAt(b, i - Len(a), x)
    BY <1>1, SeamIs
  <2>2. i <= Len(a) - 4 => i \in 1 .. Len(a) - 4
    BY <2>0
  <2>3. i > Len(a) => i - Len(a) \in 1 .. Len(b) - 4
    BY <2>0
  <2> QED  BY <2>1, <2>2, <2>3 DEF Silent
<1> QED  BY <1>1, <1>2 DEF Silent

\* What is behind a place in the first of two parts, and in the second.
LEMMA BehindFirst ==
  ASSUME NEW a \in Seq(Octet), NEW b \in Seq(Octet), NEW n \in 0 .. Len(a)
  PROVE  From(a \o b, n + 1) = From(a, n + 1) \o b
<1>1. PICK c \in Seq(Octet), d \in Seq(Octet) :
        /\ Len(c) = n /\ d = From(a, n + 1) /\ a = c \o d
  BY BeginningAndRest
<1>2. PICK e \in Seq(Octet) : e = d \o b
  BY Joined
<1>3. a \o b = c \o e
  <2>1. (c \o d) \o b = c \o (d \o b)
    BY JoinedTwice, ZenonT(60)
  <2> QED  BY <1>1, <1>2, <2>1, Zenon
<1>4. From(c \o e, Len(c) + 1) = e
  BY CutApart
<1> QED  BY <1>1, <1>2, <1>3, <1>4

LEMMA BehindSecond ==
  ASSUME NEW a \in Seq(Octet), NEW b \in Seq(Octet), NEW n \in 0 .. Len(b)
  PROVE  From(a \o b, (Len(a) + n) + 1) = From(b, n + 1)
<1>1. PICK c \in Seq(Octet), d \in Seq(Octet) :
        /\ Len(c) = n /\ d = From(b, n + 1) /\ b = c \o d
  BY BeginningAndRest
<1>2. PICK e \in Seq(Octet) : e = a \o c /\ Len(e) = Len(a) + n
  BY <1>1, TwoParts
<1>3. a \o b = e \o d
  <2>1. (a \o c) \o d = a \o (c \o d)
    BY JoinedTwice, ZenonT(60)
  <2> QED  BY <1>1, <1>2, <2>1, Zenon
<1>4. From(e \o d, Len(e) + 1) = d
  BY CutApart
<1> QED  BY <1>1, <1>2, <1>3, <1>4

LEMMA AnnouncesFirst ==
  ASSUME NEW a \in Seq(Octet), NEW b \in Seq(Octet), NEW x \in Kinds, Opens(b),
         NEW t \in Seq(Octet), Announces(a, x, t), Silent(b, x)
  PROVE  Announces(a \o b, x, t)
<1>1. PICK q \in Seq(Octet) : q = a \o b
  BY Joined
<1>2. \A i \in 1 .. Len(q) - 4 :
        /\ i \in Nat
        /\ IsAt(q, i, x) <=> \/ i <= Len(a) - 4 /\ IsAt(a, i, x)
                             \/ i > Len(a) /\ IsAt(b, i - Len(a), x)
  BY <1>1, SeamIs
<1>3. PICK p \in 1 .. Len(a) - 4, rest \in Seq(Octet) :
        /\ IsAt(a, p, x) /\ From(a, p + 5) = t \o rest
        /\ \A i \in 1 .. Len(a) - 4 : IsAt(a, i, x) => i = p
  BY DEF Announces
<1>4. PICK m \in Nat, n \in Nat : m = Len(a) /\ n = Len(b) /\ Len(q) = m + n
  <2>1. Len(q) = Len(a) + Len(b)
    BY <1>1, TwoParts
  <2> QED  BY <2>1
<1>5. ASSUME NEW i \in 1 .. Len(q) - 4
      PROVE  IsAt(q, i, x) <=> i = p
  <2>1. i <= Len(a) - 4 => i \in 1 .. Len(a) - 4
    BY <1>4
  <2>2. i > Len(a) => i - Len(a) \in 1 .. Len(b) - 4
    BY <1>4
  <2>3. p <= Len(a) - 4
    BY <1>4
  <2> QED  BY <1>2, <1>3, <2>1, <2>2, <2>3 DEF Silent
<1>6. p \in 1 .. Len(q) - 4 /\ p + 4 \in 0 .. Len(a) /\ (p + 4) + 1 = p + 5
  BY <1>4
<1>7. From(q, p + 5) = (t \o rest) \o b
  <2>1. From(a \o b, (p + 4) + 1) = From(a, (p + 4) + 1) \o b
    BY <1>6, BehindFirst
  <2> QED  BY <1>1, <1>3, <1>6, <2>1
<1>8. PICK more \in Seq(Octet) : more = rest \o b /\ From(q, p + 5) = t \o more
  <2>1. rest \o b \in Seq(Octet)
    BY Joined
  <2>2. (t \o rest) \o b = t \o (rest \o b)
    BY JoinedTwice, ZenonT(60)
  <2> QED  BY <1>7, <2>1, <2>2, Zenon
<1> QED  BY <1>1, <1>5, <1>6, <1>8 DEF Announces

LEMMA AnnouncesSecond ==
  ASSUME NEW a \in Seq(Octet), NEW b \in Seq(Octet), NEW x \in Kinds, Opens(b),
         NEW t \in Seq(Octet), Silent(a, x), Announces(b, x, t)
  PROVE  Announces(a \o b, x, t)
<1>1. PICK q \in Seq(Octet) : q = a \o b
  BY Joined
<1>2. \A i \in 1 .. Len(q) - 4 :
        /\ i \in Nat
        /\ IsAt(q, i, x) <=> \/ i <= Len(a) - 4 /\ IsAt(a, i, x)
                             \/ i > Len(a) /\ IsAt(b, i - Len(a), x)
  BY <1>1, SeamIs
<1>3. PICK p \in 1 .. Len(b) - 4, rest \in Seq(Octet) :
        /\ IsAt(b, p, x) /\ From(b, p + 5) = t \o rest
        /\ \A i \in 1 .. Len(b) - 4 : IsAt(b, i, x) => i = p
  BY DEF Announces
<1>4. PICK m \in Nat, n \in Nat : m = Len(a) /\ n = Len(b) /\ Len(q) = m + n
  <2>1. Len(q) = Len(a) + Len(b)
    BY <1>1, TwoParts
  <2> QED  BY <2>1
<1>5. PICK at \in 1 .. Len(q) - 4 : at = m + p
  <2>1. p \in Nat /\ p >= 1 /\ p <= n - 4
    BY <1>4
  <2>2. m + p >= 1 /\ m + p <= (m + n) - 4 /\ m + p \in Nat
    BY <2>1
  <2>3. m + p \in 1 .. Len(q) - 4
    BY <1>4, <2>2
  <2> QED  BY <2>3
<1>6. ASSUME NEW i \in 1 .. Len(q) - 4
      PROVE  IsAt(q, i, x) <=> i = at
  <2>1. i <= Len(a) - 4 => i \in 1 .. Len(a) - 4
    BY <1>4
  <2>2. i > Len(a) => i - Len(a) \in 1 .. Len(b) - 4
    BY <1>4
  <2>3. i = at => i > Len(a) /\ i - Len(a) = p
    BY <1>4, <1>5
  <2>4. i > Len(a) /\ i - Len(a) = p => i = at
    BY <1>4, <1>5
  <2> QED  BY <1>2, <1>3, <2>1, <2>2, <2>3, <2>4 DEF Silent
<1>7. p + 4 \in 0 .. Len(b) /\ (p + 4) + 1 = p + 5 /\ (Len(a) + (p + 4)) + 1 = at + 5
  BY <1>4, <1>5
<1>8. From(q, at + 5) = t \o rest
  <2>1. PICK k \in 0 .. Len(b) : k = p + 4
    BY <1>7
  <2>2. From(a \o b, (Len(a) + k) + 1) = From(b, k + 1)
    BY BehindSecond
  <2>3. (Len(a) + k) + 1 = at + 5 /\ k + 1 = p + 5
    BY <1>7, <2>1, Zenon
  <2>4. From(q, at + 5) = From(b, p + 5)
    BY <1>1, <2>2, <2>3, ZenonT(60)
  <2> QED  BY <1>3, <2>4, ZenonT(60)
<1> QED  BY <1>1, <1>5, <1>6, <1>8 DEF Announces

LEMMA OpensTogether ==
  ASSUME NEW a \in Seq(Octet), NEW b \in Seq(Octet), Opens(a), Opens(b)
  PROVE  Opens(a \o b)
<1>1. CASE a = <<>>
  <2>1. << >> \o b = b
    BY ConcatEmptySeq
  <2> QED  BY <1>1, <2>1
<1>2. CASE a # <<>>
  <2>1. PICK m \in Nat, n \in Nat : m = Len(a) /\ n = Len(b) /\ m >= 1
    BY <1>2
  <2>2. PICK q \in Seq(Octet) : q = a \o b /\ Len(q) = m + n /\ \A i \in 1 .. m : q[i] = a[i]
    BY <2>1, TwoParts
  <2>3. q[1] = a[1] /\ (m >= 2 => Len(q) >= 2 /\ q[2] = a[2])
    BY <2>1, <2>2
  <2> QED  BY <1>2, <2>1, <2>2, <2>3 DEF Opens
<1> QED  BY <1>1, <1>2

\* Few octets hold no identifier.
LEMMA FewAreSilent ==
  ASSUME NEW a \in Seq(Octet), Len(a) <= 4, NEW x
  PROVE  Silent(a, x)
<1>1. \A i \in 1 .. Len(a) - 4 : FALSE
  OBVIOUS
<1> QED  BY <1>1 DEF Silent

\* A TLV holds the identifiers that its value holds.
LEMMA TlvHolds ==
  ASSUME NEW tag \in Octet, NEW v \in Seq(Octet), NEW x \in Kinds, Opens(v)
  PROVE  /\ Silent(v, x) => Silent(Tlv(tag, v), x)
         /\ \A t \in Seq(Octet) : Announces(v, x, t) => Announces(Tlv(tag, v), x, t)
<1>1. PICK s \in Seq(Octet) : s = DerLength(Len(v)) /\ Len(s) \in 1 .. 3
  <2>1. Len(v) \in Nat
    OBVIOUS
  <2> QED  BY <2>1, LengthOctets
<1>2. PICK a \in Seq(Octet) : a = <<tag>> /\ Len(a) = 1
  <2>1. <<tag>> \in Seq(Octet) /\ Len(<<tag>>) = 1
    OBVIOUS
  <2> QED  BY <2>1
<1>3. PICK h \in Seq(Octet) : h = a \o s /\ Len(h) <= 4
  <2>1. a \o s \in Seq(Octet) /\ Len(a \o s) = Len(a) + Len(s)
    BY TwoParts
  <2>2. PICK k \in 1 .. 3 : k = Len(s)
    BY <1>1
  <2>3. PICK h \in Seq(Octet) : h = a \o s /\ Len(h) = 1 + k
    BY <1>2, <2>1, <2>2
  <2>4. 1 + k <= 4
    OBVIOUS
  <2> QED  BY <2>3, <2>4, Zenon
<1>4. Tlv(tag, v) = h \o v
  BY <1>1, <1>2, <1>3 DEF Tlv
<1>5. Silent(h, x)
  BY <1>3, FewAreSilent
<1>6. Silent(v, x) => Silent(h \o v, x)
  BY <1>5, SilentTogether
<1>7. ASSUME NEW t \in Seq(Octet), Announces(v, x, t) PROVE Announces(h \o v, x, t)
  BY <1>5, <1>7, AnnouncesSecond
<1> QED  BY <1>4, <1>6, <1>7

\* A TLV completes no identifier.
LEMMA TlvOpens ==
  ASSUME NEW tag \in Octet, NEW v \in Seq(Octet), tag \notin {3, 85, 29} \cup Kinds
  PROVE  Opens(Tlv(tag, v))
  BY TlvTyped DEF Opens

\* An identifier announces what follows it, and no other.
LEMMA IdAnnounces ==
  ASSUME NEW x \in Kinds, NEW after \in Seq(Octet), Opens(after),
         \A y \in Kinds : Silent(after, y)
  PROVE  /\ ExtensionId(x) \in Seq(Octet)
         /\ \A t, rest \in Seq(Octet) : after = t \o rest => Announces(ExtensionId(x) \o after, x, t)
         /\ \A y \in Kinds : y # x => Silent(ExtensionId(x) \o after, y)
<1>1. PICK a \in Seq(Octet) :
        /\ a = ExtensionId(x) /\ Len(a) = 5
        /\ a[1] = OID /\ a[2] = 3 /\ a[3] = 85 /\ a[4] = 29 /\ a[5] = x
  <2>1. OID \in Octet /\ 3 \in Octet /\ 85 \in Octet /\ 29 \in Octet
    BY Tags
  <2>2. x \in Octet
    BY DEF Kinds, Octet
  <2>3. ASSUME NEW o \in Octet
        PROVE  /\ <<o, 3, 85, 29, x>> \in Seq(Octet) /\ Len(<<o, 3, 85, 29, x>>) = 5
               /\ <<o, 3, 85, 29, x>>[1] = o /\ <<o, 3, 85, 29, x>>[2] = 3
               /\ <<o, 3, 85, 29, x>>[3] = 85 /\ <<o, 3, 85, 29, x>>[4] = 29
               /\ <<o, 3, 85, 29, x>>[5] = x
    BY <2>1, <2>2
  <2> QED  BY <2>1, <2>3, ZenonT(60) DEF ExtensionId
<1>2. PICK q \in Seq(Octet) : q = a \o after /\ Len(q) = 5 + Len(after)
  <2>1. a \o after \in Seq(Octet) /\ Len(a \o after) = Len(a) + Len(after)
    BY TwoParts
  <2> QED  BY <1>1, <2>1
<1>3. \A y : IsAt(a, 1, y) <=> y = x
  BY <1>1 DEF IsAt
<1>4. ASSUME NEW y \in Kinds, NEW i \in 1 .. Len(q) - 4
      PROVE  IsAt(q, i, y) <=> i = 1 /\ y = x
  <2>1. /\ i \in Nat
        /\ IsAt(q, i, y) <=> \/ i <= Len(a) - 4 /\ IsAt(a, i, y)
                             \/ i > Len(a) /\ IsAt(after, i - Len(a), y)
    BY <1>2, SeamIs
  <2>2. i <= Len(a) - 4 <=> i = 1
    BY <1>1
  <2>3. i > Len(a) => i - Len(a) \in 1 .. Len(after) - 4
    BY <1>1, <1>2
  <2> QED  BY <1>3, <2>1, <2>2, <2>3 DEF Silent
<1>5. From(q, 5 + 1) = after
  BY <1>1, <1>2, CutApart
<1>6. ASSUME NEW t \in Seq(Octet), NEW rest \in Seq(Octet), after = t \o rest
      PROVE  Announces(q, x, t)
  <2>1. 1 \in 1 .. Len(q) - 4 /\ 1 + 5 = 5 + 1
    BY <1>2
  <2>2. From(q, 1 + 5) = t \o rest
    BY <1>5, <1>6, <2>1
  <2> QED  BY <1>4, <2>1, <2>2 DEF Announces
<1>7. ASSUME NEW y \in Kinds, y # x PROVE Silent(q, y)
  BY <1>4, <1>7 DEF Silent
<1> QED  BY <1>1, <1>2, <1>6, <1>7

(* What a certificate holds *)

\* A TLV of the short form, which the readers of extensions know.
LEMMA ShortTlv ==
  ASSUME NEW tag \in Octet, NEW v \in Seq(Octet), Len(v) <= 127
  PROVE  /\ Tlv(tag, v) \in Seq(Octet) /\ Len(Tlv(tag, v)) = Len(v) + 2
         /\ Tlv(tag, v)[1] = tag /\ Tlv(tag, v)[2] = Len(v)
         /\ \E h \in Seq(Octet) : Tlv(tag, v) = h \o v /\ Len(h) = 2
<1>0. PICK k \in Nat : k = Len(v) /\ k <= 127
  OBVIOUS
<1>1. DerLength(k) = <<k>> /\ k \in Octet
  <2>1. k < 128 /\ k \in 0 .. 255
    <3>1. \A j \in Nat : j <= 127 => j < 128 /\ j \in 0 .. 255
      OBVIOUS
    <3> QED  BY <1>0, <3>1
  <2>2. DerLength(k) = <<k>>
    BY <2>1, Zenon DEF DerLength
  <2> QED  BY <2>1, <2>2, Zenon DEF Octet
<1>2. PICK h \in Seq(Octet) : h = <<tag>> \o <<k>> /\ Len(h) = 2 /\ h[1] = tag /\ h[2] = k
  <2>1. ASSUME NEW o \in Octet
        PROVE  /\ <<o>> \o <<k>> \in Seq(Octet) /\ Len(<<o>> \o <<k>>) = 2
               /\ (<<o>> \o <<k>>)[1] = o /\ (<<o>> \o <<k>>)[2] = k
    BY <1>1
  <2> QED  BY <2>1
<1>3. Tlv(tag, v) = h \o v
  BY <1>0, <1>1, <1>2 DEF Tlv
<1>4. PICK q \in Seq(Octet) : q = h \o v /\ Len(q) = k + 2 /\ q[1] = tag /\ q[2] = k
  <2>1. h \o v \in Seq(Octet) /\ Len(h \o v) = Len(h) + Len(v) /\ \A i \in 1 .. Len(h) : (h \o v)[i] = h[i]
    BY TwoParts
  <2>2. 1 \in 1 .. Len(h) /\ 2 \in 1 .. Len(h) /\ Len(h) + Len(v) = k + 2
    BY <1>0, <1>2
  <2> QED  BY <1>2, <2>1, <2>2
<1> QED  BY <1>0, <1>2, <1>3, <1>4

LEMMA FiveOctets ==
  ASSUME NEW a \in Seq(Octet), NEW b \in Seq(Octet), Len(a) = 5, Len(b) = 5, \A j \in 1 .. 5 : b[j] = a[j]
  PROVE  b = a
  OBVIOUS

\* Octets are an identifier where it is (x509.rs 445).
LEMMA IdIsAt ==
  ASSUME NEW q \in Seq(Octet), NEW x \in Kinds, NEW i \in 1 .. Len(q) - 4
  PROVE  /\ i \in Nat /\ SubSeq(q, i, i + 4) = ExtensionId(x) <=> IsAt(q, i, x)
         /\ Len(ExtensionId(x)) = 5 /\ ExtensionId(x) \in Seq(Octet)
<1>1. PICK a \in Seq(Octet) :
        /\ a = ExtensionId(x) /\ Len(a) = 5
        /\ a[1] = OID /\ a[2] = 3 /\ a[3] = 85 /\ a[4] = 29 /\ a[5] = x
  <2>1. OID \in Octet /\ 3 \in Octet /\ 85 \in Octet /\ 29 \in Octet
    BY Tags
  <2>2. x \in Octet
    BY DEF Kinds, Octet
  <2>3. ASSUME NEW o \in Octet
        PROVE  /\ <<o, 3, 85, 29, x>> \in Seq(Octet) /\ Len(<<o, 3, 85, 29, x>>) = 5
               /\ <<o, 3, 85, 29, x>>[1] = o /\ <<o, 3, 85, 29, x>>[2] = 3
               /\ <<o, 3, 85, 29, x>>[3] = 85 /\ <<o, 3, 85, 29, x>>[4] = 29
               /\ <<o, 3, 85, 29, x>>[5] = x
    BY <2>1, <2>2
  <2> QED  BY <2>1, <2>3, ZenonT(60) DEF ExtensionId
<1>2. PICK m \in Nat : i = m + 1 /\ m + 5 <= Len(q) /\ i + 4 = m + 5
  <2>1. i - 1 \in Nat /\ i = (i - 1) + 1 /\ (i - 1) + 5 <= Len(q) /\ i + 4 = (i - 1) + 5
    OBVIOUS
  <2> QED  BY <2>1
<1>3. /\ SubSeq(q, m + 1, m + 5) \in Seq(Octet) /\ Len(SubSeq(q, m + 1, m + 5)) = 5
      /\ \A j \in 1 .. 5 : SubSeq(q, m + 1, m + 5)[j] = q[m + j]
  BY <1>2, Slice
<1>4. PICK s \in Seq(Octet) : s = SubSeq(q, i, i + 4) /\ Len(s) = 5 /\ \A j \in 1 .. 5 : s[j] = q[m + j]
  BY <1>2, <1>3
<1>5. m + 1 = i /\ m + 2 = i + 1 /\ m + 3 = i + 2 /\ m + 4 = i + 3 /\ m + 5 = i + 4
  BY <1>2
<1>6. s[1] = q[i] /\ s[2] = q[i + 1] /\ s[3] = q[i + 2] /\ s[4] = q[i + 3] /\ s[5] = q[i + 4]
  <2>1. 1 \in 1 .. 5 /\ 2 \in 1 .. 5 /\ 3 \in 1 .. 5 /\ 4 \in 1 .. 5 /\ 5 \in 1 .. 5
    OBVIOUS
  <2> QED  BY <1>4, <1>5, <2>1
<1>7. ASSUME IsAt(q, i, x) PROVE s = a
  <2>1. s[1] = a[1] /\ s[2] = a[2] /\ s[3] = a[3] /\ s[4] = a[4] /\ s[5] = a[5]
    BY <1>1, <1>6, <1>7, Zenon DEF IsAt
  <2>2. \A j \in 1 .. 5 : j = 1 \/ j = 2 \/ j = 3 \/ j = 4 \/ j = 5
    OBVIOUS
  <2>3. \A j \in 1 .. 5 : s[j] = a[j]
    BY <2>1, <2>2, Zenon
  <2> QED  BY <1>1, <1>4, <2>3, FiveOctets, ZenonT(60)
<1>8. ASSUME s = a PROVE IsAt(q, i, x)
  BY <1>1, <1>6, <1>8, Zenon DEF IsAt
<1>9. s = a <=> IsAt(q, i, x)
  BY <1>7, <1>8, Zenon
<1>10. i \in Nat
  OBVIOUS
<1> QED  BY <1>1, <1>4, <1>9, <1>10, Zenon

\* What octets bear: of the identifiers in S that f has something for, each once and
\* with that behind it, and no other; and they complete none when they follow others.
Bears(q, f, S) ==
  /\ q \in Seq(Octet) /\ Opens(q)
  /\ \A x \in Kinds : IF x \in S /\ f[x].some THEN Announces(q, x, f[x].val) ELSE Silent(q, x)

LEMMA BearsTogether ==
  ASSUME NEW f, \A x \in Kinds : f[x].some => f[x].val \in Seq(Octet),
         NEW a, NEW b, NEW S, NEW T, Bears(a, f, S), Bears(b, f, T), S \cap T = {}
  PROVE  Bears(a \o b, f, S \cup T)
<1>1. a \in Seq(Octet) /\ b \in Seq(Octet) /\ Opens(a) /\ Opens(b)
  BY DEF Bears
<1>2. a \o b \in Seq(Octet) /\ Opens(a \o b)
  BY <1>1, Joined, OpensTogether
<1>3. ASSUME NEW x \in Kinds
      PROVE  IF x \in S \cup T /\ f[x].some THEN Announces(a \o b, x, f[x].val) ELSE Silent(a \o b, x)
  <2>1. /\ IF x \in S /\ f[x].some THEN Announces(a, x, f[x].val) ELSE Silent(a, x)
        /\ IF x \in T /\ f[x].some THEN Announces(b, x, f[x].val) ELSE Silent(b, x)
    BY DEF Bears
  <2>2. CASE f[x].some /\ x \in S
    <3>1. Announces(a, x, f[x].val) /\ Silent(b, x) /\ f[x].val \in Seq(Octet)
      BY <2>1, <2>2
    <3>2. Announces(a \o b, x, f[x].val)
      BY <1>1, <3>1, AnnouncesFirst
    <3> QED  BY <2>2, <3>2
  <2>3. CASE f[x].some /\ x \in T
    <3>1. Silent(a, x) /\ Announces(b, x, f[x].val) /\ f[x].val \in Seq(Octet)
      BY <2>1, <2>3
    <3>2. Announces(a \o b, x, f[x].val)
      BY <1>1, <3>1, AnnouncesSecond
    <3> QED  BY <2>3, <3>2
  <2>4. CASE ~(f[x].some /\ x \in S \cup T)
    <3>1. Silent(a, x) /\ Silent(b, x)
      BY <2>1, <2>4
    <3>2. Silent(a \o b, x)
      BY <1>1, <3>1, SilentTogether
    <3> QED  BY <2>4, <3>2
  <2> QED  BY <2>2, <2>3, <2>4
<1> QED  BY <1>2, <1>3 DEF Bears

LEMMA BearsInTlv ==
  ASSUME NEW f, \A x \in Kinds : f[x].some => f[x].val \in Seq(Octet),
         NEW v, NEW S, Bears(v, f, S), NEW tag \in Octet, tag \notin {3, 85, 29} \cup Kinds
  PROVE  Bears(Tlv(tag, v), f, S)
<1>1. v \in Seq(Octet) /\ Opens(v)
  BY DEF Bears
<1>2. Tlv(tag, v) \in Seq(Octet) /\ Opens(Tlv(tag, v))
  BY <1>1, TlvTyped, TlvOpens
<1>3. ASSUME NEW x \in Kinds
      PROVE  IF x \in S /\ f[x].some THEN Announces(Tlv(tag, v), x, f[x].val) ELSE Silent(Tlv(tag, v), x)
  <2>1. /\ Silent(v, x) => Silent(Tlv(tag, v), x)
        /\ \A t \in Seq(Octet) : Announces(v, x, t) => Announces(Tlv(tag, v), x, t)
    BY <1>1, TlvHolds
  <2>2. IF x \in S /\ f[x].some THEN Announces(v, x, f[x].val) ELSE Silent(v, x)
    BY DEF Bears
  <2> QED  BY <2>1, <2>2
<1> QED  BY <1>2, <1>3 DEF Bears

\* Octets without an identifier bear nothing, and few octets have none.
LEMMA BearsNothing ==
  ASSUME NEW f, NEW q \in Seq(Octet), Opens(q), \A x \in Kinds : Silent(q, x)
  PROVE  Bears(q, f, {})
  BY DEF Bears

LEMMA FewBearNothing ==
  ASSUME NEW f, NEW q \in Seq(Octet), Opens(q), Len(q) <= 4
  PROVE  Bears(q, f, {})
<1>1. \A x \in Kinds : Silent(q, x)
  BY FewAreSilent
<1> QED  BY <1>1, BearsNothing

\* An extension, behind its identifier.
After(critical, value) == (IF critical THEN Tlv(BOOLEAN_TAG, << 255 >>) ELSE <<>>) \o Tlv(OCTETS, value)

\* No tag that is written completes an identifier, but that of a BIT STRING might.
LEMMA TagsOpen ==
  \A tag \in {SEQUENCE, SET, OID, INTEGER, BOOLEAN_TAG, OCTETS, NULL, UTC_TIME, VERSION,
              EXTENSIONS, KEY_ID, REGISTERED} :
    tag \in Octet /\ tag \notin {3, 85, 29} \cup Kinds
<1>1. \A tag \in {SEQUENCE, SET, OID, INTEGER, BOOLEAN_TAG, OCTETS, NULL, UTC_TIME, VERSION,
              EXTENSIONS, KEY_ID, REGISTERED} : tag \notin {3, 85, 29} \cup Kinds
  BY DEF SEQUENCE, SET, OID, INTEGER, BOOLEAN_TAG, OCTETS, NULL, UTC_TIME, VERSION,
         EXTENSIONS, KEY_ID, REGISTERED, Kinds
<1> QED  BY <1>1, Tags

LEMMA ExtensionBears ==
  ASSUME NEW f, \A y \in Kinds : f[y].some => f[y].val \in Seq(Octet),
         NEW x \in Kinds, NEW critical \in BOOLEAN, NEW value, Bears(value, f, {}),
         f[x].some, f[x].val = After(critical, value)
  PROVE  Bears(Extension(ExtensionId(x), critical, value), f, {x})
<1>1. PICK b \in Seq(Octet) : /\ b = IF critical THEN Tlv(BOOLEAN_TAG, << 255 >>) ELSE <<>>
                              /\ Bears(b, f, {})
  <2>1. PICK o \in Seq(Octet) : o = << 255 >> /\ Len(o) = 1 /\ o[1] = 255
    <3>1. 255 \in Octet  BY DEF Octet
    <3>2. << 255 >> \in Seq(Octet) /\ Len(<< 255 >>) = 1 /\ << 255 >>[1] = 255
      BY <3>1
    <3> QED  BY <3>2, ZenonT(60)
  <2>2. Bears(o, f, {})
    <3>1. Opens(o)
      BY <2>1 DEF Opens, Kinds
    <3>2. Len(o) <= 4
      BY <2>1
    <3> QED  BY <3>1, <3>2, FewBearNothing
  <2>3. Tlv(BOOLEAN_TAG, o) \in Seq(Octet) /\ Bears(Tlv(BOOLEAN_TAG, o), f, {})
    <3>1. Bears(Tlv(BOOLEAN_TAG, o), f, {})
      BY <2>2, TagsOpen, BearsInTlv
    <3> QED  BY <3>1 DEF Bears
  <2>4. << >> \in Seq(Octet) /\ Bears(<< >>, f, {})
    <3>1. << >> \in Seq(Octet) /\ Len(<< >>) <= 4
      OBVIOUS
    <3>2. Opens(<< >>)
      BY DEF Opens
    <3> QED  BY <3>1, <3>2, FewBearNothing
  <2> QED  BY <2>1, <2>3, <2>4, ZenonT(60)
<1>2. PICK o \in Seq(Octet) : o = Tlv(OCTETS, value) /\ Bears(o, f, {})
  <2>1. Bears(Tlv(OCTETS, value), f, {})
    BY TagsOpen, BearsInTlv
  <2> QED  BY <2>1 DEF Bears
<1>3. PICK after \in Seq(Octet) : after = b \o o /\ Bears(after, f, {})
  <2>1. Bears(b \o o, f, {} \cup {})
    BY <1>1, <1>2, BearsTogether, SMTT(30)
  <2>2. {} \cup {} = {}
    OBVIOUS
  <2>3. Bears(b \o o, f, {})
    BY <2>1, <2>2
  <2> QED  BY <2>3 DEF Bears
<1>4. After(critical, value) = after
  BY <1>1, <1>2, <1>3, Zenon DEF After
<1>5. Opens(after) /\ \A y \in Kinds : Silent(after, y)
  BY <1>3 DEF Bears
<1>6. /\ ExtensionId(x) \in Seq(Octet)
      /\ \A t, rest \in Seq(Octet) : after = t \o rest => Announces(ExtensionId(x) \o after, x, t)
      /\ \A y \in Kinds : y # x => Silent(ExtensionId(x) \o after, y)
  BY <1>5, IdAnnounces
<1>7. PICK id \in Seq(Octet) : id = ExtensionId(x)
  BY <1>6
<1>8. Announces(id \o after, x, after)
  <2>1. << >> \in Seq(Octet) /\ after \o << >> = after
    BY ConcatEmptySeq
  <2> QED  BY <1>6, <1>7, <2>1
<1>9. PICK q \in Seq(Octet) : q = id \o after
  BY Joined
<1>10. Opens(q)
  <2>1. Opens(id)
    <3>1. PICK t \in Octet : t = OID /\ t \notin {3, 85, 29} \cup Kinds
      BY TagsOpen
    <3>2. <<t, 3, 85, 29, x>>[1] = t
      OBVIOUS
    <3>3. id[1] = t
      BY <1>7, <3>1, <3>2, Zenon DEF ExtensionId
    <3> QED  BY <3>1, <3>3 DEF Opens
  <2> QED  BY <1>5, <1>9, <2>1, OpensTogether
<1>11. Bears(q, f, {x})
  <2>1. ASSUME NEW y \in Kinds
        PROVE  IF y \in {x} /\ f[y].some THEN Announces(q, y, f[y].val) ELSE Silent(q, y)
    <3>1. CASE y = x
      BY <1>4, <1>8, <1>9, <3>1
    <3>2. CASE y # x
      BY <1>6, <1>7, <1>9, <3>2
    <3> QED  BY <3>1, <3>2
  <2> QED  BY <1>10, <2>1 DEF Bears
<1>12. Bears(Tlv(SEQUENCE, q), f, {x})
  BY <1>11, TagsOpen, BearsInTlv
<1>13. Extension(ExtensionId(x), critical, value) = Tlv(SEQUENCE, q)
  <2>1. (id \o b) \o o = id \o (b \o o)
    BY JoinedTwice
  <2>2. Extension(ExtensionId(x), critical, value) = Tlv(SEQUENCE, (id \o b) \o o)
    BY <1>1, <1>2, <1>7, Zenon DEF Extension
  <2> QED  BY <1>3, <1>9, <2>1, <2>2, Zenon
<1> QED  BY <1>12, <1>13

\* The values of the extensions (testpki.rs 426-480).
KeyIdsOf(issuer) == Tlv(SEQUENCE, Tlv(KEY_ID, Fingerprint(issuer)))
PoliciesOf(role) == Tlv(SEQUENCE, Tlv(SEQUENCE, Tlv(OID, role)))
NamesOf(san)     == Tlv(SEQUENCE, Tlv(REGISTERED, san))
KeyIdOf(ski)     == Tlv(OCTETS, ski)

\* What a request has a certificate state behind each identifier.
Stated(request) ==
  [x \in Kinds |->
    IF x = 35 THEN Some(After(FALSE, KeyIdsOf(request.issuer)))
    ELSE IF x = 32 THEN Some(After(TRUE, PoliciesOf(request.role.val)))
    ELSE IF x = 17 THEN IF request.san.some THEN Some(After(FALSE, NamesOf(request.san.val))) ELSE None
    ELSE IF request.ski.some THEN Some(After(FALSE, KeyIdOf(request.ski.val))) ELSE None]

\* What has to be short in a request is.
LEMMA RequestShort ==
  ASSUME NEW request \in Requested
  PROVE  /\ request \in Requests
         /\ request.role.some /\ request.role.val \in Seq(Octet) /\ Len(request.role.val) <= 121
         /\ request.san.some => request.san.val \in Seq(Octet)
         /\ request.ski.some => request.ski.val \in Seq(Octet) /\ Len(request.ski.val) = 1
         /\ request.san.some \in BOOLEAN /\ request.ski.some \in BOOLEAN
         /\ request.san = None \/ request.san = Some(request.san.val)
         /\ request.ski = None \/ request.ski = Some(request.ski.val)
         /\ request.role = Some(request.role.val)
         /\ Fingerprint(request.issuer) \in Seq(Octet) /\ Len(Fingerprint(request.issuer)) = 1
<1>1. request \in Requests
  BY RequestedTyped
<1>2. Some(0).some = TRUE /\ \A v : Some(v).val = v /\ Some(v).some = TRUE
  BY DEF Some
<1>3. None.some = FALSE
  BY DEF None
<1>4. \A role \in RSP_ROLE_OIDS : Len(role) <= 121
  <2>1. Len(<<0>>) <= 121 /\ Len(<<1>>) <= 121 /\ Len(<<2>>) <= 121 /\ Len(<<3>>) <= 121
        /\ Len(<<4>>) <= 121 /\ Len(<<5>>) <= 121 /\ Len(<<6>>) <= 121 /\ Len(<<7>>) <= 121
        /\ Len(<<0, 0>>) <= 121 /\ Len(<<0, 0, 0>>) <= 121 /\ Len(<<0, 0, 0, 0>>) <= 121
        /\ Len(<<0, 0, 0, 0, 0>>) <= 121 /\ Len(<<0, 0, 1>>) <= 121 /\ Len(<<0, 0, 1, 0>>) <= 121
        /\ Len(<<0, 0, 1, 1>>) <= 121 /\ Len(<<0, 0, 1, 2>>) <= 121 /\ Len(<<0, 0, 2>>) <= 121
        /\ Len(<<0, 0, 2, 0>>) <= 121 /\ Len(<<0, 0, 2, 1>>) <= 121
    OBVIOUS
  <2> QED  BY <2>1, ZenonT(60) DEF RSP_ROLE_OIDS, AuthRoles, PbRoles, OID_RSP_ROLE_CI, OID_RSP_ROLE_CI_SUB_CA,
              OID_RSP_ROLE_EUM, OID_RSP_ROLE_EUM_SUB_CA, OID_RSP_ROLE_EUICC, OID_RSP_ROLE_DP_SUB_CA,
              OID_RSP_ROLE_DP_TLS, OID_RSP_ROLE_DP_AUTH, OID_RSP_ROLE_DP_PB, OID_RSP_ROLE_DS_SUB_CA,
              OID_RSP_ROLE_DS_TLS, OID_RSP_ROLE_DS_AUTH, OID_RSP_ROLE_EUICC_V2, OID_RSP_ROLE_EUM_V2,
              OID_RSP_ROLE_DP_TLS_V2, OID_RSP_ROLE_DP_AUTH_V2, OID_RSP_ROLE_DP_PB_V2,
              OID_RSP_ROLE_DS_TLS_V2, OID_RSP_ROLE_DS_AUTH_V2
<1>5. PICK role \in Role \cup RSP_ROLE_OIDS : request.role = Some(role)
  BY <1>1 DEF Requests
<1>6. role \in Seq(Octet) /\ Len(role) <= 121
  BY <1>4, <1>5, RoleAssumption, DataAssumption, Identifiers
<1>7. request.san = None \/ \E o \in Seq(Octet) : request.san = Some(o)
  BY <1>1, RequestFields
<1>8. request.ski = None \/ \E k \in Key : request.ski = Some(Fingerprint(k))
  BY <1>1 DEF Requests
<1>9. \A k \in Key : Fingerprint(k) \in Seq(Octet) /\ Len(Fingerprint(k)) = 1
  BY Points, Fingerprints
<1>10. request.issuer \in Key
  BY <1>1, RequestFields
<1>11. request.role.some /\ request.role.val \in Seq(Octet) /\ Len(request.role.val) <= 121
       /\ request.role = Some(request.role.val)
  BY <1>2, <1>5, <1>6
<1>12. /\ request.san.some => request.san.val \in Seq(Octet)
       /\ request.san.some \in BOOLEAN
       /\ request.san = None \/ request.san = Some(request.san.val)
  BY <1>2, <1>3, <1>7
<1>13. /\ request.ski.some => request.ski.val \in Seq(Octet) /\ Len(request.ski.val) = 1
       /\ request.ski.some \in BOOLEAN
       /\ request.ski = None \/ request.ski = Some(request.ski.val)
  BY <1>2, <1>3, <1>8, <1>9
<1> QED  BY <1>1, <1>9, <1>10, <1>11, <1>12, <1>13

\* What a request brings holds no identifier.
LEMMA BroughtBears ==
  ASSUME NEW request \in Requested, NEW f, NEW o \in Seq(Octet), o \in Brought(request), Opens(o)
  PROVE  Bears(o, f, {})
<1>1. ASSUME NEW x \in Kinds, NEW i \in 1 .. Len(o) - 4 PROVE ~IsAt(o, i, x)
  <2>1. ExtensionId(x) \in ExtensionIds
    <3>1. x = 14 \/ x = 17 \/ x = 32 \/ x = 35
      BY DEF Kinds
    <3>2. CASE x = 14
      BY <3>2, Zenon DEF ExtensionId, ExtensionIds, OID_SUBJECT_KEY_IDENTIFIER
    <3>3. CASE x = 17
      BY <3>3, Zenon DEF ExtensionId, ExtensionIds, OID_SUBJECT_ALT_NAME
    <3>4. CASE x = 32
      BY <3>4, Zenon DEF ExtensionId, ExtensionIds, OID_CERTIFICATE_POLICIES
    <3>5. CASE x = 35
      BY <3>5, Zenon DEF ExtensionId, ExtensionIds, OID_AUTHORITY_KEY_IDENTIFIER
    <3> QED  BY <3>1, <3>2, <3>3, <3>4, <3>5
  <2>2. SubSeq(o, i, i + 4) # ExtensionId(x)
    BY <2>1, IdentifierAssumption
  <2> QED  BY <2>2, IdIsAt
<1>2. \A x \in Kinds : Silent(o, x)
  BY <1>1 DEF Silent
<1> QED  BY <1>2, BearsNothing

\* A TLV of at most two octets bears nothing, nor does one that a request brings.
LEMMA SmallTlvBears ==
  ASSUME NEW f, NEW tag \in Octet, tag \notin {3, 85, 29} \cup Kinds, NEW v \in Seq(Octet), Len(v) <= 2
  PROVE  Bears(Tlv(tag, v), f, {})
<1>1. PICK k \in Nat : k = Len(v) /\ k <= 127 /\ k <= 2
  <2>1. Len(v) \in Nat /\ Len(v) <= 127
    OBVIOUS
  <2> QED  BY <2>1
<1>2. Tlv(tag, v) \in Seq(Octet) /\ Len(Tlv(tag, v)) = k + 2
  BY <1>1, ShortTlv
<1>3. k + 2 <= 4
  BY <1>1
<1>4. Opens(Tlv(tag, v))
  BY TlvOpens
<1> QED  BY <1>2, <1>3, <1>4, FewBearNothing

LEMMA StatedIs ==
  ASSUME NEW request \in Requested
  PROVE  LET f == Stated(request)
         IN  /\ f[35] = Some(After(FALSE, KeyIdsOf(request.issuer)))
             /\ f[32] = Some(After(TRUE, PoliciesOf(request.role.val)))
             /\ f[17] = IF request.san.some THEN Some(After(FALSE, NamesOf(request.san.val))) ELSE None
             /\ f[14] = IF request.ski.some THEN Some(After(FALSE, KeyIdOf(request.ski.val))) ELSE None
<1> DEFINE f == Stated(request)
<1>1. 35 \in Kinds /\ 32 \in Kinds /\ 17 \in Kinds /\ 14 \in Kinds
  BY DEF Kinds
<1>2. f[35] = Some(After(FALSE, KeyIdsOf(request.issuer)))
  BY <1>1 DEF Stated
<1>3. f[32] = Some(After(TRUE, PoliciesOf(request.role.val)))
  <2>1. 32 # 35
    OBVIOUS
  <2> QED  BY <1>1, <2>1 DEF Stated
<1>4. f[17] = IF request.san.some THEN Some(After(FALSE, NamesOf(request.san.val))) ELSE None
  BY <1>1 DEF Stated
<1>5. f[14] = IF request.ski.some THEN Some(After(FALSE, KeyIdOf(request.ski.val))) ELSE None
  BY <1>1 DEF Stated
<1> QED  BY <1>2, <1>3, <1>4, <1>5

\* The values are octets and bear nothing.
LEMMA ValuesBear ==
  ASSUME NEW request \in Requested, NEW f, \A y \in Kinds : f[y].some => f[y].val \in Seq(Octet)
  PROVE  /\ Bears(KeyIdsOf(request.issuer), f, {})
         /\ Bears(PoliciesOf(request.role.val), f, {})
         /\ request.san.some => Bears(NamesOf(request.san.val), f, {})
         /\ request.ski.some => Bears(KeyIdOf(request.ski.val), f, {})
<1>1. Bears(KeyIdsOf(request.issuer), f, {})
  <2>1. PICK o \in Seq(Octet) : o = Fingerprint(request.issuer) /\ Len(o) = 1
    BY RequestShort
  <2>2. Bears(Tlv(KEY_ID, o), f, {})
    <3>1. Len(o) <= 2
      BY <2>1
    <3> QED  BY <3>1, TagsOpen, SmallTlvBears
  <2>3. Bears(Tlv(SEQUENCE, Tlv(KEY_ID, o)), f, {})
    BY <2>2, TagsOpen, BearsInTlv
  <2> QED  BY <2>1, <2>3 DEF KeyIdsOf
<1>2. Bears(PoliciesOf(request.role.val), f, {})
  <2>1. PICK o \in Seq(Octet) : o = request.role.val
    BY RequestShort
  <2>2. Bears(Tlv(OID, o), f, {})
    <3>1. Tlv(OID, o) \in Brought(request)
      BY <2>1 DEF Brought
    <3>2. Tlv(OID, o) \in Seq(Octet) /\ Opens(Tlv(OID, o))
      BY TagsOpen, TlvTyped, TlvOpens
    <3> QED  BY <3>1, <3>2, BroughtBears
  <2>3. Bears(Tlv(SEQUENCE, Tlv(OID, o)), f, {})
    BY <2>2, TagsOpen, BearsInTlv
  <2>4. Bears(Tlv(SEQUENCE, Tlv(SEQUENCE, Tlv(OID, o))), f, {})
    BY <2>3, TagsOpen, BearsInTlv
  <2> QED  BY <2>1, <2>4 DEF PoliciesOf
<1>3. ASSUME request.san.some PROVE Bears(NamesOf(request.san.val), f, {})
  <2>1. PICK o \in Seq(Octet) : o = request.san.val
    BY <1>3, RequestShort
  <2>2. Bears(Tlv(REGISTERED, o), f, {})
    <3>1. Tlv(REGISTERED, o) \in Brought(request)
      BY <1>3, <2>1 DEF Brought
    <3>2. Tlv(REGISTERED, o) \in Seq(Octet) /\ Opens(Tlv(REGISTERED, o))
      BY TagsOpen, TlvTyped, TlvOpens
    <3> QED  BY <3>1, <3>2, BroughtBears
  <2>3. Bears(Tlv(SEQUENCE, Tlv(REGISTERED, o)), f, {})
    BY <2>2, TagsOpen, BearsInTlv
  <2> QED  BY <2>1, <2>3 DEF NamesOf
<1>4. ASSUME request.ski.some PROVE Bears(KeyIdOf(request.ski.val), f, {})
  <2>1. PICK o \in Seq(Octet) : o = request.ski.val /\ Len(o) = 1
    BY <1>4, RequestShort
  <2>2. Bears(Tlv(OCTETS, o), f, {})
    <3>1. Len(o) <= 2
      BY <2>1
    <3> QED  BY <3>1, TagsOpen, SmallTlvBears
  <2> QED  BY <2>1, <2>2 DEF KeyIdOf
<1> QED  BY <1>1, <1>2, <1>3, <1>4

LEMMA AfterTyped ==
  ASSUME NEW critical \in BOOLEAN, NEW value \in Seq(Octet)
  PROVE  After(critical, value) \in Seq(Octet)
<1>1. PICK a \in Seq(Octet) : a = IF critical THEN Tlv(BOOLEAN_TAG, << 255 >>) ELSE <<>>
  <2>1. << 255 >> \in Seq(Octet) /\ <<>> \in Seq(Octet)
    <3>1. 255 \in Octet  BY DEF Octet
    <3> QED  BY <3>1
  <2>2. Tlv(BOOLEAN_TAG, << 255 >>) \in Seq(Octet)
    BY <2>1, Tags, TlvTyped
  <2> QED  BY <2>1, <2>2
<1>2. PICK b \in Seq(Octet) : b = Tlv(OCTETS, value)
  BY Tags, TlvTyped
<1>3. a \o b \in Seq(Octet)
  BY Joined
<1> QED  BY <1>1, <1>2, <1>3, Zenon DEF After

LEMMA StatedTyped ==
  ASSUME NEW request \in Requested
  PROVE  \A x \in Kinds : Stated(request)[x].some => Stated(request)[x].val \in Seq(Octet)
<1> DEFINE nothing == [x \in Kinds |-> None]
<1>1. \A y \in Kinds : nothing[y].some => nothing[y].val \in Seq(Octet)
  <2>1. None.some = FALSE
    BY DEF None
  <2> QED  BY <2>1
<1> HIDE DEF nothing
<1>2. /\ KeyIdsOf(request.issuer) \in Seq(Octet)
      /\ PoliciesOf(request.role.val) \in Seq(Octet)
      /\ request.san.some => NamesOf(request.san.val) \in Seq(Octet)
      /\ request.ski.some => KeyIdOf(request.ski.val) \in Seq(Octet)
  BY <1>1, ValuesBear DEF Bears
<1>3. /\ After(FALSE, KeyIdsOf(request.issuer)) \in Seq(Octet)
      /\ After(TRUE, PoliciesOf(request.role.val)) \in Seq(Octet)
      /\ request.san.some => After(FALSE, NamesOf(request.san.val)) \in Seq(Octet)
      /\ request.ski.some => After(FALSE, KeyIdOf(request.ski.val)) \in Seq(Octet)
  BY <1>2, AfterTyped
<1>4. None.some = FALSE /\ \A v : Some(v).val = v
  BY DEF None, Some
<1>5. PICK f : f = Stated(request)
  OBVIOUS
<1>6. /\ f[35] = Some(After(FALSE, KeyIdsOf(request.issuer)))
      /\ f[32] = Some(After(TRUE, PoliciesOf(request.role.val)))
      /\ f[17] = IF request.san.some THEN Some(After(FALSE, NamesOf(request.san.val))) ELSE None
      /\ f[14] = IF request.ski.some THEN Some(After(FALSE, KeyIdOf(request.ski.val))) ELSE None
  BY <1>5, StatedIs
<1>7. /\ f[35].val \in Seq(Octet) /\ f[32].val \in Seq(Octet)
      /\ f[17].some => f[17].val \in Seq(Octet)
  BY <1>3, <1>4, <1>6, ZenonT(60)
<1>8. ASSUME f[14].some PROVE f[14].val \in Seq(Octet)
  <2>1. request.ski.some
    BY <1>4, <1>6, <1>8
  <2>2. f[14] = Some(After(FALSE, KeyIdOf(request.ski.val)))
    BY <1>6, <2>1, Zenon
  <2>3. After(FALSE, KeyIdOf(request.ski.val)) \in Seq(Octet)
    BY <1>3, <2>1, Zenon
  <2> QED  BY <1>4, <2>2, <2>3, Zenon
<1>9. \A x \in Kinds : x = 14 \/ x = 17 \/ x = 32 \/ x = 35
  BY DEF Kinds
<1> QED  BY <1>5, <1>7, <1>8, <1>9, Zenon

\* One octet and no octet bear nothing.
LEMMA FewOctets ==
  ASSUME NEW f, NEW o \in Octet, o \notin {3, 85, 29} \cup Kinds
  PROVE  /\ <<o>> \in Seq(Octet) /\ Len(<<o>>) = 1 /\ Bears(<<o>>, f, {})
         /\ <<>> \in Seq(Octet) /\ Len(<<>>) = 0 /\ Bears(<<>>, f, {})
<1>1. PICK q \in Seq(Octet) : q = <<o>> /\ Len(q) = 1 /\ q[1] = o
  <2>1. <<o>> \in Seq(Octet) /\ Len(<<o>>) = 1 /\ <<o>>[1] = o
    OBVIOUS
  <2> QED  BY <2>1
<1>2. Opens(q) /\ Len(q) <= 4
  BY <1>1 DEF Opens
<1>3. <<>> \in Seq(Octet) /\ Len(<<>>) = 0 /\ Len(<<>>) <= 4
  OBVIOUS
<1>4. Opens(<<>>)
  BY DEF Opens
<1>5. Bears(q, f, {}) /\ Bears(<<>>, f, {})
  BY <1>2, <1>3, <1>4, FewBearNothing
<1> QED  BY <1>1, <1>3, <1>5

\* Nothing follows nothing.
LEMMA NothingTogether ==
  ASSUME NEW f, \A x \in Kinds : f[x].some => f[x].val \in Seq(Octet),
         NEW a, NEW b, Bears(a, f, {}), Bears(b, f, {})
  PROVE  Bears(a \o b, f, {})
<1>1. {} \cup {} = {} /\ {} \cap {} = {}
  OBVIOUS
<1> QED  BY <1>1, BearsTogether

\* The extensions: each of the four bears its own identifier, if it is there.
LEMMA ExtensionsBear ==
  ASSUME NEW request \in Requested
  PROVE  Bears(Extensions(request), Stated(request), Kinds)
<1>1. PICK f : f = Stated(request)
  OBVIOUS
<1>2. \A y \in Kinds : f[y].some => f[y].val \in Seq(Octet)
  BY <1>1, StatedTyped
<1>3. /\ Bears(KeyIdsOf(request.issuer), f, {})
      /\ Bears(PoliciesOf(request.role.val), f, {})
      /\ request.san.some => Bears(NamesOf(request.san.val), f, {})
      /\ request.ski.some => Bears(KeyIdOf(request.ski.val), f, {})
  BY <1>2, ValuesBear
<1>4. /\ f[35] = Some(After(FALSE, KeyIdsOf(request.issuer)))
      /\ f[32] = Some(After(TRUE, PoliciesOf(request.role.val)))
      /\ f[17] = IF request.san.some THEN Some(After(FALSE, NamesOf(request.san.val))) ELSE None
      /\ f[14] = IF request.ski.some THEN Some(After(FALSE, KeyIdOf(request.ski.val))) ELSE None
  BY <1>1, StatedIs
<1>5. None.some = FALSE /\ \A v : Some(v).val = v /\ Some(v).some = TRUE
  BY DEF None, Some
<1>6. 35 \in Kinds /\ 32 \in Kinds /\ 17 \in Kinds /\ 14 \in Kinds
  BY DEF Kinds
<1>7. ASSUME NEW x \in Kinds, NEW critical \in BOOLEAN, NEW value, Bears(value, f, {}),
             f[x] = Some(After(critical, value))
      PROVE  Bears(Extension(ExtensionId(x), critical, value), f, {x})
  <2>1. f[x].some /\ f[x].val = After(critical, value)
    BY <1>5, <1>7
  <2> QED  BY <1>2, <1>7, <2>1, ExtensionBears
<1>8. ASSUME NEW x \in Kinds, f[x] = None PROVE Bears(<<>>, f, {x})
  <2>1. PICK o \in Octet : o = OID /\ o \notin {3, 85, 29} \cup Kinds
    BY TagsOpen
  <2>2. Bears(<<>>, f, {})
    BY <2>1, FewOctets
  <2>3. ~f[x].some
    BY <1>5, <1>8
  <2> QED  BY <2>2, <2>3 DEF Bears
<1>9. PICK a \in Seq(Octet) :
        /\ a = Extension(OID_AUTHORITY_KEY_IDENTIFIER, FALSE,
                         Tlv(SEQUENCE, Tlv(KEY_ID, Fingerprint(request.issuer))))
        /\ Bears(a, f, {35})
  <2>1. Bears(Extension(ExtensionId(35), FALSE, KeyIdsOf(request.issuer)), f, {35})
    BY <1>3, <1>4, <1>6, <1>7
  <2>2. OID_AUTHORITY_KEY_IDENTIFIER = ExtensionId(35)
    BY Zenon DEF OID_AUTHORITY_KEY_IDENTIFIER, ExtensionId
  <2>3. Extension(ExtensionId(35), FALSE, KeyIdsOf(request.issuer)) \in Seq(Octet)
    BY <2>1 DEF Bears
  <2> QED  BY <2>1, <2>2, <2>3 DEF KeyIdsOf
<1>10. PICK r \in Seq(Octet) :
        /\ r = IF request.role.some
               THEN Extension(OID_CERTIFICATE_POLICIES, TRUE,
                              Tlv(SEQUENCE, Tlv(SEQUENCE, Tlv(OID, request.role.val))))
               ELSE <<>>
        /\ Bears(r, f, {32})
  <2>1. Bears(Extension(ExtensionId(32), TRUE, PoliciesOf(request.role.val)), f, {32})
    BY <1>3, <1>4, <1>6, <1>7
  <2>2. OID_CERTIFICATE_POLICIES = ExtensionId(32)
    BY Zenon DEF OID_CERTIFICATE_POLICIES, ExtensionId
  <2>3. Extension(ExtensionId(32), TRUE, PoliciesOf(request.role.val)) \in Seq(Octet)
    BY <2>1 DEF Bears
  <2>4. request.role.some
    BY RequestShort
  <2> QED  BY <2>1, <2>2, <2>3, <2>4 DEF PoliciesOf
<1>11. PICK s \in Seq(Octet) :
        /\ s = IF request.san.some
               THEN Extension(OID_SUBJECT_ALT_NAME, FALSE,
                              Tlv(SEQUENCE, Tlv(REGISTERED, request.san.val)))
               ELSE <<>>
        /\ Bears(s, f, {17})
  <2>1. CASE request.san.some
    <3>1. f[17] = Some(After(FALSE, NamesOf(request.san.val)))
      BY <1>4, <2>1, Zenon
    <3>2. Bears(Extension(ExtensionId(17), FALSE, NamesOf(request.san.val)), f, {17})
      BY <1>3, <1>6, <1>7, <2>1, <3>1
    <3>3. OID_SUBJECT_ALT_NAME = ExtensionId(17)
      BY Zenon DEF OID_SUBJECT_ALT_NAME, ExtensionId
    <3>4. Extension(ExtensionId(17), FALSE, NamesOf(request.san.val)) \in Seq(Octet)
      BY <3>2 DEF Bears
    <3> QED  BY <2>1, <3>2, <3>3, <3>4 DEF NamesOf
  <2>2. CASE ~request.san.some
    <3>1. f[17] = None
      BY <1>4, <2>2, Zenon
    <3>2. Bears(<<>>, f, {17}) /\ <<>> \in Seq(Octet)
      BY <1>6, <1>8, <3>1, Tags
    <3> QED  BY <2>2, <3>2
  <2> QED  BY <2>1, <2>2
<1>12. PICK k \in Seq(Octet) :
        /\ k = IF request.ski.some
               THEN Extension(OID_SUBJECT_KEY_IDENTIFIER, FALSE, Tlv(OCTETS, request.ski.val))
               ELSE <<>>
        /\ Bears(k, f, {14})
  <2>1. CASE request.ski.some
    <3>1. f[14] = Some(After(FALSE, KeyIdOf(request.ski.val)))
      BY <1>4, <2>1, Zenon
    <3>2. Bears(Extension(ExtensionId(14), FALSE, KeyIdOf(request.ski.val)), f, {14})
      BY <1>3, <1>6, <1>7, <2>1, <3>1
    <3>3. OID_SUBJECT_KEY_IDENTIFIER = ExtensionId(14)
      BY Zenon DEF OID_SUBJECT_KEY_IDENTIFIER, ExtensionId
    <3>4. Extension(ExtensionId(14), FALSE, KeyIdOf(request.ski.val)) \in Seq(Octet)
      BY <3>2 DEF Bears
    <3> QED  BY <2>1, <3>2, <3>3, <3>4 DEF KeyIdOf
  <2>2. CASE ~request.ski.some
    <3>1. f[14] = None
      BY <1>4, <2>2, Zenon
    <3>2. Bears(<<>>, f, {14}) /\ <<>> \in Seq(Octet)
      BY <1>6, <1>8, <3>1, Tags
    <3> QED  BY <2>2, <3>2
  <2> QED  BY <2>1, <2>2
<1>13. PICK x \in Seq(Octet) : x = a \o r /\ Bears(x, f, {35, 32})
  <2>1. {35} \cap {32} = {} /\ {35} \cup {32} = {35, 32}
    OBVIOUS
  <2>2. Bears(a \o r, f, {35} \cup {32})
    BY <1>2, <1>9, <1>10, <2>1, BearsTogether, ZenonT(60)
  <2>3. a \o r \in Seq(Octet)
    BY Joined
  <2> QED  BY <2>1, <2>2, <2>3
<1>14. PICK y \in Seq(Octet) : y = x \o s /\ Bears(y, f, {35, 32, 17})
  <2>1. {35, 32} \cap {17} = {} /\ {35, 32} \cup {17} = {35, 32, 17}
    OBVIOUS
  <2>2. Bears(x \o s, f, {35, 32} \cup {17})
    BY <1>2, <1>11, <1>13, <2>1, BearsTogether, ZenonT(60)
  <2>3. x \o s \in Seq(Octet)
    BY Joined
  <2> QED  BY <2>1, <2>2, <2>3, ZenonT(60)
<1>15. PICK z \in Seq(Octet) : z = y \o k /\ Bears(z, f, Kinds)
  <2>1. {35, 32, 17} \cap {14} = {} /\ {35, 32, 17} \cup {14} = Kinds
    BY DEF Kinds
  <2>2. Bears(y \o k, f, {35, 32, 17} \cup {14})
    BY <1>2, <1>12, <1>14, <2>1, BearsTogether
  <2>3. y \o k \in Seq(Octet)
    BY Joined
  <2> QED  BY <2>1, <2>2, <2>3
<1>16. PICK v \in Seq(Octet) : v = Tlv(SEQUENCE, z) /\ Bears(v, f, Kinds)
  <2>1. Bears(Tlv(SEQUENCE, z), f, Kinds)
    BY <1>2, <1>15, TagsOpen, BearsInTlv
  <2> QED  BY <2>1 DEF Bears
<1>17. Bears(Tlv(EXTENSIONS, v), f, Kinds)
  BY <1>2, <1>16, TagsOpen, BearsInTlv
<1>18. Extensions(request) = Tlv(EXTENSIONS, v)
  BY <1>9, <1>10, <1>11, <1>12, <1>13, <1>14, <1>15, <1>16, Zenon DEF Extensions, Optional
<1> QED  BY <1>1, <1>17, <1>18

\* An AlgorithmIdentifier and a Validity bear nothing.
LEMMA FixedBear ==
  ASSUME NEW f, \A x \in Kinds : f[x].some => f[x].val \in Seq(Octet)
  PROVE  Bears(SigAlg, f, {}) /\ Bears(Validity, f, {}) /\ Bears(Tlv(VERSION, Tlv(INTEGER, << 2 >>)), f, {})
<1>1. 4 \in Octet /\ 3 \in Octet /\ 2 \in Octet /\ 1 \in Octet
  BY Tags
<1>2. 2 \notin {3, 85, 29} \cup Kinds /\ 1 \notin {3, 85, 29} \cup Kinds
  BY DEF Kinds
<1>3. /\ << 2 >> \in Seq(Octet) /\ Len(<< 2 >>) = 1 /\ << 1 >> \in Seq(Octet) /\ Len(<< 1 >>) = 1
      /\ <<>> \in Seq(Octet) /\ Len(<<>>) = 0
      /\ Len(<< 2 >>) <= 2 /\ Len(<< 1 >>) <= 2 /\ Len(<<>>) <= 2
  BY <1>1
<1>4. PICK a \in Seq(Octet) : a = Tlv(OID, <<4, 3, 2>>) /\ Bears(a, f, {})
  <2>1. PICK q \in Seq(Octet) : q = <<4, 3, 2>> /\ Len(q) = 3 /\ q[1] = 4
    <3>1. <<4, 3, 2>> \in Seq(Octet) /\ Len(<<4, 3, 2>>) = 3 /\ <<4, 3, 2>>[1] = 4
      BY <1>1
    <3> QED  BY <3>1
  <2>2. Opens(q) /\ Len(q) <= 4
    BY <2>1 DEF Opens, Kinds
  <2>3. Bears(q, f, {})
    BY <2>2, FewBearNothing
  <2>4. Bears(Tlv(OID, q), f, {})
    BY <2>3, TagsOpen, BearsInTlv
  <2> QED  BY <2>1, <2>4 DEF Bears
<1>5. PICK b \in Seq(Octet) : b = Tlv(NULL, <<>>) /\ Bears(b, f, {})
  <2>1. PICK q \in Seq(Octet) : q = <<>> /\ Len(q) <= 2
    BY <1>3, Zenon
  <2>2. Bears(Tlv(NULL, q), f, {})
    BY <2>1, TagsOpen, SmallTlvBears
  <2> QED  BY <2>1, <2>2 DEF Bears
<1>6. PICK c \in Seq(Octet) : c = a \o b /\ Bears(c, f, {})
  <2>1. Bears(a \o b, f, {})
    BY <1>4, <1>5, NothingTogether
  <2> QED  BY <2>1 DEF Bears
<1>7. Bears(SigAlg, f, {})
  <2>1. Bears(Tlv(SEQUENCE, c), f, {})
    BY <1>6, TagsOpen, BearsInTlv
  <2> QED  BY <1>4, <1>5, <1>6, <2>1 DEF SigAlg
<1>8. PICK d \in Seq(Octet) : d = Tlv(UTC_TIME, << 1 >>) /\ Bears(d, f, {})
  <2>1. PICK q \in Seq(Octet) : q = << 1 >> /\ Len(q) <= 2
    BY <1>3, Zenon
  <2>2. Bears(Tlv(UTC_TIME, q), f, {})
    BY <2>1, TagsOpen, SmallTlvBears
  <2> QED  BY <2>1, <2>2 DEF Bears
<1>9. PICK e \in Seq(Octet) : e = d \o d /\ Bears(e, f, {})
  <2>1. Bears(d \o d, f, {})
    BY <1>8, NothingTogether
  <2> QED  BY <2>1 DEF Bears
<1>10. Bears(Validity, f, {})
  <2>1. Bears(Tlv(SEQUENCE, e), f, {})
    BY <1>9, TagsOpen, BearsInTlv
  <2> QED  BY <1>8, <1>9, <2>1 DEF Validity
<1>11. PICK g \in Seq(Octet) : g = Tlv(INTEGER, << 2 >>) /\ Bears(g, f, {})
  <2>1. PICK q \in Seq(Octet) : q = << 2 >> /\ Len(q) <= 2
    BY <1>3, Zenon
  <2>2. Bears(Tlv(INTEGER, q), f, {})
    BY <2>1, TagsOpen, SmallTlvBears
  <2> QED  BY <2>1, <2>2 DEF Bears
<1>12. Bears(Tlv(VERSION, g), f, {})
  BY <1>11, TagsOpen, BearsInTlv
<1> QED  BY <1>7, <1>10, <1>11, <1>12

\* A serial number bears nothing.
LEMMA SerialBears ==
  ASSUME NEW f, NEW o \in Seq(Octet), Len(o) = 1
  PROVE  Bears(Integer(o), f, {})
<1>1. PICK z \in Seq(Octet) : z = << 0 >> /\ Len(z) = 1
  <2>1. 0 \in Octet  BY Tags
  <2>2. << 0 >> \in Seq(Octet) /\ Len(<< 0 >>) = 1
    BY <2>1
  <2> QED  BY <2>2
<1>2. z \o o \in Seq(Octet) /\ Len(z \o o) <= 2 /\ Len(o) <= 2
  <2>1. z \o o \in Seq(Octet) /\ Len(z \o o) = Len(z) + Len(o)
    BY TwoParts
  <2> QED  BY <1>1, <2>1
<1>3. PICK v \in Seq(Octet) : v = (IF o[1] >= 128 THEN << 0 >> \o o ELSE o) /\ Len(v) <= 2
  BY <1>1, <1>2, Zenon
<1>4. Bears(Tlv(INTEGER, v), f, {})
  BY <1>3, TagsOpen, SmallTlvBears
<1> QED  BY <1>3, <1>4 DEF Integer

\* What follows the TBS bears nothing.
LEMMA BehindBears ==
  ASSUME NEW f, \A x \in Kinds : f[x].some => f[x].val \in Seq(Octet),
         NEW signature \in Seq(Octet), Len(signature) = 3
  PROVE  Bears(Behind(signature), f, {})
<1>1. PICK v \in Seq(Octet) : v = << 0 >> \o signature /\ Len(v) = 4 /\ Opens(v)
  <2>1. PICK z \in Seq(Octet) : z = << 0 >> /\ Len(z) = 1 /\ z[1] = 0
    <3>1. 0 \in Octet  BY Tags
    <3>2. << 0 >> \in Seq(Octet) /\ Len(<< 0 >>) = 1 /\ << 0 >>[1] = 0
      BY <3>1
    <3> QED  BY <3>2
  <2>2. z \o signature \in Seq(Octet) /\ \A i \in 1 .. Len(z) : (z \o signature)[i] = z[i]
    BY TwoParts
  <2>3. Len(<< 0 >> \o signature) = 4
    BY BehindIs
  <2>4. PICK v \in Seq(Octet) : v = z \o signature /\ v[1] = 0
    <3>1. 1 \in 1 .. Len(z)
      BY <2>1
    <3> QED  BY <2>1, <2>2, <3>1, Zenon
  <2>5. Opens(v)
    BY <2>4 DEF Opens, Kinds
  <2> QED  BY <2>1, <2>3, <2>4, <2>5
<1>2. PICK b \in Seq(Octet), h \in Seq(Octet) :
        /\ b = Tlv(BIT_STRING, v) /\ Len(b) = 6 /\ b[1] = BIT_STRING /\ b[2] = 4
        /\ b = h \o v /\ Len(h) = 2
  <2>1. BIT_STRING \in Octet /\ Len(v) <= 127
    BY <1>1, Tags
  <2>2. /\ Tlv(BIT_STRING, v) \in Seq(Octet) /\ Len(Tlv(BIT_STRING, v)) = Len(v) + 2
        /\ Tlv(BIT_STRING, v)[1] = BIT_STRING /\ Tlv(BIT_STRING, v)[2] = Len(v)
        /\ \E h \in Seq(Octet) : Tlv(BIT_STRING, v) = h \o v /\ Len(h) = 2
    BY <2>1, ShortTlv
  <2>3. Len(v) + 2 = 6
    BY <1>1
  <2> QED  BY <1>1, <2>2, <2>3, Zenon
<1>3. \A x \in Kinds : Silent(b, x)
  <2>1. Len(h) <= 4 /\ Len(v) <= 4
    BY <1>1, <1>2
  <2>2. \A x \in Kinds : Silent(h, x) /\ Silent(v, x)
    BY <2>1, FewAreSilent
  <2>3. \A x \in Kinds : Silent(h \o v, x)
    BY <1>1, <2>2, SilentTogether
  <2> QED  BY <1>2, <2>3
<1>4. Opens(b)
  <2>1. b[1] = 3 /\ 3 \notin {85, 29} \cup Kinds /\ Len(b) >= 2 /\ b[2] # 85
    BY <1>2 DEF Kinds, BIT_STRING
  <2> QED  BY <2>1 DEF Opens
<1>5. Bears(b, f, {})
  BY <1>3, <1>4, BearsNothing
<1>6. Bears(SigAlg \o b, f, {})
  BY <1>5, FixedBear, NothingTogether
<1> QED  BY <1>1, <1>2, <1>6 DEF Behind

\* A TBS bears what its extensions bear, and nothing else.
LEMMA TbsBears ==
  ASSUME NEW request \in Requested
  PROVE  Bears(Tbs(request), Stated(request), Kinds)
<1>1. PICK f : f = Stated(request)
  OBVIOUS
<1>2. \A y \in Kinds : f[y].some => f[y].val \in Seq(Octet)
  BY <1>1, StatedTyped
<1>3. \A q, S : Bears(q, f, S) => q \in Seq(Octet)
  BY DEF Bears
<1>4. ASSUME NEW a \in Seq(Octet), NEW b \in Seq(Octet), Bears(a, f, {}), Bears(b, f, {})
      PROVE  a \o b \in Seq(Octet) /\ Bears(a \o b, f, {})
  BY <1>2, <1>3, <1>4, NothingTogether
<1>5. request \in Requests
  BY RequestedTyped
<1>6. PICK t1 \in Seq(Octet) : t1 = Tlv(VERSION, Tlv(INTEGER, << 2 >>)) /\ Bears(t1, f, {})
  BY <1>2, <1>3, FixedBear
<1>7. PICK t2 \in Seq(Octet) : /\ t2 = Integer(Fingerprint([point |-> request.point]))
                               /\ Bears(t2, f, {})
  <2>1. PICK o \in Seq(Octet) : o = Fingerprint([point |-> request.point]) /\ Len(o) = 1
    <3>1. request.point \in Seq(Octet) \ {<<>>}
      BY <1>5, RequestFields
    <3> QED  BY <3>1, Fingerprints
  <2>2. Bears(Integer(o), f, {})
    BY <2>1, SerialBears
  <2> QED  BY <1>3, <2>1, <2>2
<1>8. PICK t3 \in Seq(Octet) : t3 = SigAlg /\ Bears(t3, f, {})
  BY <1>2, <1>3, FixedBear
<1>9. PICK t5 \in Seq(Octet) : t5 = Validity /\ Bears(t5, f, {})
  BY <1>2, <1>3, FixedBear
<1>10. ASSUME NEW v \in Seq(Octet), Tlv(SEQUENCE, v) \in Brought(request)
       PROVE  Tlv(SEQUENCE, v) \in Seq(Octet) /\ Bears(Tlv(SEQUENCE, v), f, {})
  <2>1. Tlv(SEQUENCE, v) \in Seq(Octet) /\ Opens(Tlv(SEQUENCE, v))
    BY TagsOpen, TlvTyped, TlvOpens
  <2> QED  BY <1>10, <2>1, BroughtBears
<1>11. PICK t4 \in Seq(Octet) : t4 = Name(request.issuerName) /\ Bears(t4, f, {})
  <2>1. PICK v \in Seq(Octet) : Name(request.issuerName) = Tlv(SEQUENCE, v)
    BY <1>5, RequestFields, NameIs
  <2>2. Name(request.issuerName) \in Brought(request)
    BY DEF Brought
  <2> QED  BY <1>10, <2>1, <2>2
<1>12. PICK t6 \in Seq(Octet) : t6 = Name(request.subjectName) /\ Bears(t6, f, {})
  <2>1. PICK v \in Seq(Octet) : Name(request.subjectName) = Tlv(SEQUENCE, v)
    BY <1>5, RequestFields, NameIs
  <2>2. Name(request.subjectName) \in Brought(request)
    BY DEF Brought
  <2> QED  BY <1>10, <2>1, <2>2
<1>13. PICK t7 \in Seq(Octet) : t7 = Spki(request.curveOid, request.point) /\ Bears(t7, f, {})
  <2>1. PICK v \in Seq(Octet) : Spki(request.curveOid, request.point) = Tlv(SEQUENCE, v)
    <3>1. request.curveOid \in Seq(Octet) /\ request.point \in Seq(Octet)
      BY <1>5, RequestFields
    <3> QED  BY <3>1, SpkiTyped
  <2>2. Spki(request.curveOid, request.point) \in Brought(request)
    BY DEF Brought
  <2> QED  BY <1>10, <2>1, <2>2
<1>14. PICK t8 \in Seq(Octet) : t8 = Extensions(request) /\ Bears(t8, f, Kinds)
  BY <1>1, <1>3, ExtensionsBear
<1>15. PICK l2 \in Seq(Octet) : l2 = t1 \o t2 /\ Bears(l2, f, {})
  BY <1>4, <1>6, <1>7
<1>16. PICK l3 \in Seq(Octet) : l3 = l2 \o t3 /\ Bears(l3, f, {})
  BY <1>4, <1>8, <1>15
<1>17. PICK l4 \in Seq(Octet) : l4 = l3 \o t4 /\ Bears(l4, f, {})
  BY <1>4, <1>11, <1>16
<1>18. PICK l5 \in Seq(Octet) : l5 = l4 \o t5 /\ Bears(l5, f, {})
  BY <1>4, <1>9, <1>17
<1>19. PICK l6 \in Seq(Octet) : l6 = l5 \o t6 /\ Bears(l6, f, {})
  BY <1>4, <1>12, <1>18
<1>20. PICK l7 \in Seq(Octet) : l7 = l6 \o t7 /\ Bears(l7, f, {})
  BY <1>4, <1>13, <1>19
<1>21. PICK l8 \in Seq(Octet) : l8 = l7 \o t8 /\ Bears(l8, f, Kinds)
  <2>1. {} \cap Kinds = {} /\ {} \cup Kinds = Kinds
    OBVIOUS
  <2>2. Bears(l7 \o t8, f, {} \cup Kinds)
    BY <1>2, <1>14, <1>20, <2>1, BearsTogether
  <2> QED  BY <1>3, <2>1, <2>2
<1>22. Bears(Tlv(SEQUENCE, l8), f, Kinds)
  BY <1>2, <1>21, TagsOpen, BearsInTlv
<1>23. Tbs(request) = Tlv(SEQUENCE, l8)
  BY <1>6, <1>7, <1>8, <1>9, <1>11, <1>12, <1>13, <1>14, <1>15, <1>16, <1>17, <1>18, <1>19, <1>20,
     <1>21, Zenon DEF Tbs
<1> QED  BY <1>1, <1>22, <1>23

\* And so does the certificate.
LEMMA CertificateBears ==
  ASSUME NEW request \in Requested, NEW signature \in Seq(Octet), Len(signature) = 3
  PROVE  Bears(Assemble(Tbs(request), signature), Stated(request), Kinds)
<1>1. PICK f : f = Stated(request)
  OBVIOUS
<1>2. \A y \in Kinds : f[y].some => f[y].val \in Seq(Octet)
  BY <1>1, StatedTyped
<1>3. PICK t \in Seq(Octet) : t = Tbs(request) /\ Bears(t, f, Kinds)
  BY <1>1, TbsBears DEF Bears
<1>4. PICK b \in Seq(Octet) : b = Behind(signature) /\ Bears(b, f, {})
  <2>1. Bears(Behind(signature), f, {})
    BY <1>2, BehindBears
  <2> QED  BY <2>1 DEF Bears
<1>5. Bears(t \o b, f, Kinds)
  <2>1. Kinds \cap {} = {} /\ Kinds \cup {} = Kinds
    OBVIOUS
  <2>2. Bears(t \o b, f, Kinds \cup {})
    BY <1>2, <1>3, <1>4, <2>1, BearsTogether
  <2> QED  BY <2>1, <2>2
<1>6. Bears(Tlv(SEQUENCE, t \o b), f, Kinds)
  BY <1>2, <1>5, TagsOpen, BearsInTlv
<1>7. Assemble(t, signature) = Tlv(SEQUENCE, t \o b)
  BY <1>4, AssembleIs
<1> QED  BY <1>1, <1>3, <1>6, <1>7

\* What a walk over n octets finds from each place, given what is read there.
WalkOver(n, reads, h) ==
  h = [i \in 1 .. n + 1 |->
        IF i > n THEN [clean |-> TRUE, tlvs |-> <<>>]
        ELSE IF ~reads[i].ok THEN [clean |-> FALSE, tlvs |-> <<>>]
        ELSE [clean |-> h[i + reads[i].val.used].clean,
              tlvs |-> <<reads[i].val>> \o h[i + reads[i].val.used].tlvs]]

\* A walk ends if each TLV takes an octet at least.
LEMMA WalkEnds ==
  ASSUME NEW n \in Nat, NEW reads,
         \A i \in 1 .. n : reads[i].ok =>
           reads[i].val.used \in Nat /\ reads[i].val.used >= 1 /\ i + reads[i].val.used <= n + 1
  PROVE  \E h : WalkOver(n, reads, h)
<1>1. PICK V : V = {reads[i].val : i \in 1 .. n}
  OBVIOUS
<1>2. PICK S : S = [clean : BOOLEAN, tlvs : Seq(V)]
  OBVIOUS
<1>3. PICK next \in [1 .. n -> 1 .. n + 1] :
        /\ \A i \in 1 .. n : i < next[i]
        /\ \A i \in 1 .. n : reads[i].ok => next[i] = i + reads[i].val.used
  <2> DEFINE x == [i \in 1 .. n |-> IF reads[i].ok THEN i + reads[i].val.used ELSE i + 1]
  <2>1. \A i \in 1 .. n : x[i] = IF reads[i].ok THEN i + reads[i].val.used ELSE i + 1
    OBVIOUS
  <2>2. ASSUME NEW i \in 1 .. n PROVE x[i] \in 1 .. n + 1 /\ i < x[i]
    <3> HIDE DEF x
    <3>1. CASE reads[i].ok
      <4>1. PICK u \in Nat : u = reads[i].val.used /\ u >= 1 /\ i + u <= n + 1 /\ x[i] = i + u
        BY <2>1, <3>1
      <4>2. i + u \in 1 .. n + 1 /\ i < i + u
        BY <4>1
      <4> QED  BY <4>1, <4>2
    <3>2. CASE ~reads[i].ok
      <4>1. x[i] = i + 1
        BY <2>1, <3>2
      <4> QED  BY <4>1
    <3> QED  BY <3>1, <3>2
  <2>3. x = [i \in 1 .. n |-> x[i]]
    OBVIOUS
  <2> HIDE DEF x
  <2> QED  BY <2>1, <2>2, <2>3
<1>4. PICK g \in [(1 .. n) \X S -> S] :
        \A i \in 1 .. n, w \in S :
          g[<<i, w>>] = IF ~reads[i].ok THEN [clean |-> FALSE, tlvs |-> <<>>]
                        ELSE [clean |-> w.clean, tlvs |-> <<reads[i].val>> \o w.tlvs]
  <2> DEFINE R(i, w) == IF ~reads[i].ok THEN [clean |-> FALSE, tlvs |-> <<>>]
                        ELSE [clean |-> w.clean, tlvs |-> <<reads[i].val>> \o w.tlvs]
             step == [p \in (1 .. n) \X S |-> R(p[1], p[2])]
  <2>1. ASSUME NEW i \in 1 .. n, NEW w \in S PROVE R(i, w) \in S
    <3>1. PICK e \in V : e = reads[i].val
      BY <1>1
    <3>2. w.clean \in BOOLEAN /\ w.tlvs \in Seq(V)
      BY <1>2
    <3>3. <<e>> \o w.tlvs \in Seq(V) /\ <<>> \in Seq(V)
      <4>1. <<e>> \in Seq(V) /\ <<>> \in Seq(V)
        OBVIOUS
      <4> QED  BY <3>2, <4>1
    <3> QED  BY <1>2, <3>1, <3>2, <3>3
  <2>2. step \in [(1 .. n) \X S -> S]
    <3> HIDE DEF R
    <3> QED  BY <2>1
  <2>3. \A i \in 1 .. n, w \in S : step[<<i, w>>] = R(i, w)
    <3> HIDE DEF R
    <3> QED  OBVIOUS
  <2> HIDE DEF step
  <2> QED  BY <2>2, <2>3
<1>5. PICK end \in S : end = [clean |-> TRUE, tlvs |-> <<>>]
  <2>1. <<>> \in Seq(V)
    OBVIOUS
  <2>2. [clean |-> TRUE, tlvs |-> <<>>] \in S
    BY <1>2, <2>1
  <2> QED  BY <2>2
<1>6. PICK f : GoesBack(n, S, end, g, next, f)
  BY <1>3, Backwards
<1>7. ASSUME NEW i \in 1 .. n + 1
      PROVE  f[i] = IF i > n THEN [clean |-> TRUE, tlvs |-> <<>>]
                    ELSE IF ~reads[i].ok THEN [clean |-> FALSE, tlvs |-> <<>>]
                    ELSE [clean |-> f[i + reads[i].val.used].clean,
                          tlvs |-> <<reads[i].val>> \o f[i + reads[i].val.used].tlvs]
  <2>1. CASE i = n + 1
    <3>1. i > n
      BY <2>1
    <3> QED  BY <1>5, <1>6, <2>1, <3>1 DEF GoesBack
  <2>2. CASE i # n + 1
    <3>1. i \in 1 .. n /\ ~(i > n)
      BY <2>2
    <3>2. f[i] = g[<<i, f[next[i]]>>] /\ f[next[i]] \in S
      BY <1>6, <3>1 DEF GoesBack
    <3>3. f[i] = IF ~reads[i].ok THEN [clean |-> FALSE, tlvs |-> <<>>]
                 ELSE [clean |-> f[next[i]].clean, tlvs |-> <<reads[i].val>> \o f[next[i]].tlvs]
      BY <1>4, <3>1, <3>2
    <3> QED  BY <1>3, <3>1, <3>3
  <2> QED  BY <2>1, <2>2
<1>8. f = [i \in 1 .. n + 1 |-> f[i]]
  BY <1>6 DEF GoesBack
<1>9. WalkOver(n, reads, f)
  BY <1>7, <1>8, ZenonT(60) DEF WalkOver
<1> QED  BY <1>9

\* The reader of short lengths stays within the octets that it reads from as well.
LEMMA ShortWithin ==
  ASSUME NEW q \in Seq(Octet), ReadShortTlv(q).ok
  PROVE  /\ ReadShortTlv(q).val.used \in Nat /\ ReadShortTlv(q).val.used >= 1
         /\ ReadShortTlv(q).val.used <= Len(q)
<1>1. Len(q) >= 2 /\ ~(q[2] > 127 \/ 2 + q[2] > Len(q))
  BY Results DEF ReadShortTlv
<1>2. ReadShortTlv(q) = Ok([tag |-> q[1], value |-> SubSeq(q, 3, 2 + q[2]), used |-> 2 + q[2]])
  BY <1>1 DEF ReadShortTlv
<1>3. q[2] \in Nat /\ Len(q) \in Nat
  <2>1. 2 \in 1 .. Len(q)
    BY <1>1
  <2>2. q[2] \in Octet
    BY <2>1
  <2>3. \A o \in Octet : o \in Nat
    BY DEF Octet
  <2> QED  BY <2>2, <2>3
<1>4. ReadShortTlv(q).val.used = 2 + q[2]
  BY <1>2, Results
<1>5. PICK u \in Nat : u = 2 + q[2] /\ u >= 1 /\ u <= Len(q)
  <2>1. 2 + q[2] \in Nat /\ 2 + q[2] >= 1 /\ 2 + q[2] <= Len(q)
    BY <1>1, <1>3
  <2> QED  BY <2>1
<1> QED  BY <1>4, <1>5

LEMMA ShortWalkIs ==
  ASSUME NEW buf \in Seq(Octet)
  PROVE  \E f : /\ Walk(buf, ReadShortTlv) = f[1]
                /\ WalkOver(Len(buf), [i \in 1 .. Len(buf) |-> ReadShortTlv(From(buf, i))], f)
<1>1. PICK n \in Nat : n = Len(buf)
  OBVIOUS
<1> DEFINE reads == [i \in 1 .. n |-> ReadShortTlv(From(buf, i))]
           Is(h) == h = [i \in 1 .. n + 1 |->
                          LET read == ReadShortTlv(From(buf, i))
                              rest == h[i + read.val.used]
                          IN  IF i > Len(buf) THEN [clean |-> TRUE, tlvs |-> <<>>]
                              ELSE IF ~read.ok THEN [clean |-> FALSE, tlvs |-> <<>>]
                              ELSE [clean |-> rest.clean, tlvs |-> <<read.val>> \o rest.tlvs]]
<1>2. ASSUME NEW i \in 1 .. n, reads[i].ok
      PROVE  reads[i].val.used \in Nat /\ reads[i].val.used >= 1 /\ i + reads[i].val.used <= n + 1
  <2>1. PICK k \in 0 .. Len(buf) : i = k + 1 /\ k \in Nat
    <3>1. i - 1 \in 0 .. Len(buf) /\ i = (i - 1) + 1 /\ i - 1 \in Nat
      BY <1>1
    <3> QED  BY <3>1
  <2>2. PICK q \in Seq(Octet) : q = From(buf, i) /\ Len(q) = Len(buf) - k
    BY <2>1, BeginningAndRest
  <2>3. reads[i] = ReadShortTlv(q)
    BY <2>2
  <2> HIDE DEF reads
  <2>4. ReadShortTlv(q).ok
    BY <1>2, <2>3
  <2>5. PICK u \in Nat : u = reads[i].val.used /\ u >= 1 /\ u <= Len(q)
    BY <2>3, <2>4, ShortWithin
  <2>6. i + u <= n + 1
    BY <1>1, <2>1, <2>2, <2>5
  <2> QED  BY <2>5, <2>6
<1>3. \E h : WalkOver(n, reads, h)
  <2> HIDE DEF reads
  <2> QED  BY <1>2, WalkEnds
<1>4. \A h : WalkOver(n, reads, h) <=> Is(h)
  <2> SUFFICES ASSUME NEW h PROVE WalkOver(n, reads, h) <=> Is(h)
    OBVIOUS
  <2>1. \A i \in 1 .. n : reads[i] = ReadShortTlv(From(buf, i))
    OBVIOUS
  <2>2. \A i \in 1 .. n + 1 : i > n <=> ~(i \in 1 .. n)
    OBVIOUS
  <2> HIDE DEF reads
  <2>3. [i \in 1 .. n + 1 |->
          IF i > n THEN [clean |-> TRUE, tlvs |-> <<>>]
          ELSE IF ~reads[i].ok THEN [clean |-> FALSE, tlvs |-> <<>>]
          ELSE [clean |-> h[i + reads[i].val.used].clean,
                tlvs |-> <<reads[i].val>> \o h[i + reads[i].val.used].tlvs]]
        = [i \in 1 .. n + 1 |->
            LET read == ReadShortTlv(From(buf, i))
                rest == h[i + read.val.used]
            IN  IF i > Len(buf) THEN [clean |-> TRUE, tlvs |-> <<>>]
                ELSE IF ~read.ok THEN [clean |-> FALSE, tlvs |-> <<>>]
                ELSE [clean |-> rest.clean, tlvs |-> <<read.val>> \o rest.tlvs]]
    BY <1>1, <2>1, <2>2, ZenonT(60)
  <2> QED  BY <2>3, Zenon DEF WalkOver
<1> DEFINE from[i \in 1 .. Len(buf) + 1] ==
             LET read == ReadShortTlv(From(buf, i))
                 rest == from[i + read.val.used]
             IN  IF i > Len(buf) THEN [clean |-> TRUE, tlvs |-> <<>>]
                 ELSE IF ~read.ok THEN [clean |-> FALSE, tlvs |-> <<>>]
                 ELSE [clean |-> rest.clean, tlvs |-> <<read.val>> \o rest.tlvs]
<1>5. Walk(buf, ReadShortTlv) = from[1]
  BY DEF Walk
<1>6. from = CHOOSE h : Is(h)
  BY <1>1
<1>7. WalkOver(n, reads, from)
  <2>1. \E h : Is(h)
    <3> HIDE DEF Is, reads
    <3> QED  BY <1>3, <1>4
  <2>2. Is(from)
    <3> HIDE DEF from, Is
    <3> QED  BY <1>6, <2>1
  <2> HIDE DEF Is, from, reads
  <2> QED  BY <1>4, <2>2
<1> HIDE DEF from
<1> QED  BY <1>1, <1>5, <1>7

\* A short TLV is read whatever follows it.
LEMMA ShortReads ==
  ASSUME NEW tag \in Octet, NEW v \in Seq(Octet), Len(v) <= 127, NEW rest \in Seq(Octet)
  PROVE  /\ ReadShortTlv(Tlv(tag, v) \o rest) = Ok(Item(tag, v))
         /\ ReadShortTlv(Tlv(tag, v)) = Ok(Item(tag, v))
         /\ Item(tag, v).used = Len(v) + 2
<1>1. PICK k \in Nat : k = Len(v) /\ k <= 127
  OBVIOUS
<1>2. PICK b \in Seq(Octet), h \in Seq(Octet) :
        /\ b = Tlv(tag, v) /\ Len(b) = k + 2 /\ b[1] = tag /\ b[2] = k /\ b = h \o v /\ Len(h) = 2
  <2>1. /\ Tlv(tag, v) \in Seq(Octet) /\ Len(Tlv(tag, v)) = Len(v) + 2
        /\ Tlv(tag, v)[1] = tag /\ Tlv(tag, v)[2] = Len(v)
        /\ \E h \in Seq(Octet) : Tlv(tag, v) = h \o v /\ Len(h) = 2
    BY ShortTlv
  <2> QED  BY <1>1, <2>1, Zenon
<1>3. ASSUME NEW q \in Seq(Octet), Len(q) >= k + 2, \A i \in 1 .. k + 2 : q[i] = b[i]
      PROVE  ReadShortTlv(q) = Ok(Item(tag, v))
  <2>1. q[1] = tag /\ q[2] = k
    <3>1. 1 \in 1 .. k + 2 /\ 2 \in 1 .. k + 2
      OBVIOUS
    <3> QED  BY <1>2, <1>3, <3>1
  <2>2. SubSeq(q, 3, 2 + k) = v
    <3>1. \A i \in 1 .. k : b[2 + i] = v[i]
      <4>1. \A i \in 1 .. Len(v) : (h \o v)[Len(h) + i] = v[i]
        BY TwoParts
      <4> QED  BY <1>1, <1>2, <4>1
    <3>2. \A i \in 1 .. Len(v) : q[2 + i] = v[i]
      <4>1. \A i \in 1 .. k : 2 + i \in 1 .. k + 2
        OBVIOUS
      <4> QED  BY <1>1, <1>3, <3>1, <4>1
    <3>3. 2 + Len(v) <= Len(q) /\ 2 \in Nat /\ 2 + 1 = 3
      BY <1>1, <1>3
    <3>4. SubSeq(q, 2 + 1, 2 + Len(v)) = v
      BY <3>2, <3>3, SliceIs
    <3> QED  BY <1>1, <3>3, <3>4
  <2>3. Len(q) >= 2 /\ ~(k > 127) /\ ~(2 + k > Len(q)) /\ k + 2 = 2 + k
    BY <1>1, <1>3
  <2>4. ReadShortTlv(q) = Ok([tag |-> tag, value |-> v, used |-> 2 + k])
    <3>1. ~(Len(q) < 2)
      BY <2>3
    <3> QED  BY <2>1, <2>2, <2>3, <3>1, Zenon DEF ReadShortTlv
  <2> QED  BY <1>2, <2>3, <2>4, Zenon DEF Item
<1>4. b \o rest \in Seq(Octet) /\ Len(b \o rest) >= k + 2 /\ \A i \in 1 .. k + 2 : (b \o rest)[i] = b[i]
  BY <1>2, TwoParts
<1>5. Item(tag, v).used = k + 2
  BY <1>2 DEF Item
<1>6. ReadShortTlv(b) = Ok(Item(tag, v))
  <2>1. Len(b) >= k + 2
    BY <1>2
  <2> QED  BY <1>3, <2>1
<1>7. ReadShortTlv(b \o rest) = Ok(Item(tag, v))
  BY <1>3, <1>4
<1> QED  BY <1>1, <1>2, <1>5, <1>6, <1>7

\* A walk over one TLV finds it.
LEMMA ShortWalkOfOne ==
  ASSUME NEW tag \in Octet, NEW v \in Seq(Octet), Len(v) <= 127
  PROVE  Walk(Tlv(tag, v), ReadShortTlv).tlvs = <<Item(tag, v)>>
<1>1. PICK buf \in Seq(Octet) : buf = Tlv(tag, v)
  BY TlvTyped
<1>2. PICK n \in Nat : n = Len(buf) /\ n = Len(v) + 2 /\ n >= 1
  BY <1>1, ShortTlv
<1>3. ReadShortTlv(buf) = Ok(Item(tag, v)) /\ Item(tag, v).used = n
  BY <1>1, <1>2, ShortReads, Tags
<1> DEFINE reads == [i \in 1 .. n |-> ReadShortTlv(From(buf, i))]
<1>4. PICK f : Walk(buf, ReadShortTlv) = f[1] /\ WalkOver(n, reads, f)
  BY <1>2, ShortWalkIs
<1>5. reads[1] = Ok(Item(tag, v))
  <2>1. From(buf, 1) = buf
    BY DEF From
  <2>2. 1 \in 1 .. n
    BY <1>2
  <2> QED  BY <1>3, <2>1, <2>2
<1> HIDE DEF reads
<1>6. reads[1].ok /\ reads[1].val = Item(tag, v)
  BY <1>5, Results
<1>7. 1 \in 1 .. n + 1 /\ 1 + n \in 1 .. n + 1 /\ 1 + n > n /\ ~(1 > n)
  BY <1>2
<1>8. \A i \in 1 .. n + 1 :
        f[i] = IF i > n THEN [clean |-> TRUE, tlvs |-> <<>>]
               ELSE IF ~reads[i].ok THEN [clean |-> FALSE, tlvs |-> <<>>]
               ELSE [clean |-> f[i + reads[i].val.used].clean,
                     tlvs |-> <<reads[i].val>> \o f[i + reads[i].val.used].tlvs]
  BY <1>4, Zenon DEF WalkOver
<1>9. f[1 + n].tlvs = <<>> /\ f[1].tlvs = <<Item(tag, v)>> \o f[1 + n].tlvs
  <2>1. f[1 + n] = [clean |-> TRUE, tlvs |-> <<>>]
    BY <1>7, <1>8, Zenon
  <2>2. f[1] = [clean |-> f[1 + n].clean, tlvs |-> <<Item(tag, v)>> \o f[1 + n].tlvs]
    BY <1>3, <1>6, <1>7, <1>8, Zenon
  <2> QED  BY <2>1, <2>2
<1>10. <<Item(tag, v)>> \o <<>> = <<Item(tag, v)>>
  <2>1. ASSUME NEW e PROVE <<e>> \o <<>> = <<e>>
    <3>0. PICK V : e \in V
      <4>1. e \in {e}
        OBVIOUS
      <4> QED  BY <4>1
    <3>1. PICK s \in Seq(V) : s = <<e>>
      <4>1. <<e>> \in Seq(V)
        BY <3>0
      <4> QED  BY <4>1
    <3>2. s \o <<>> = s
      BY ConcatEmptySeq
    <3> QED  BY <3>1, <3>2, Zenon
  <2> QED  BY <2>1, Zenon
<1> QED  BY <1>1, <1>4, <1>9, <1>10

\* A TLV that is not short says so in its second octet.
LEMMA LongTlv ==
  ASSUME NEW tag \in Octet, NEW v \in Seq(Octet), Len(v) > 127
  PROVE  Tlv(tag, v)[2] > 127
<1>1. PICK n \in Nat : n = Len(v) /\ ~(n < 128)
  OBVIOUS
<1>2. PICK s \in Seq(Octet) : s = DerLength(n) /\ Len(s) \in 1 .. 3
  BY LengthOctets
<1>3. s[1] = 129 \/ s[1] = 130
  <2>1. CASE n < 256
    <3>1. s = <<129, n>>
      BY <1>1, <1>2, <2>1, ZenonT(60) DEF DerLength
    <3>2. s[1] = 129
      BY ONLY <3>1
    <3> QED  BY <3>2
  <2>2. CASE ~(n < 256)
    <3>1. s = <<130, (n \div 256) % 256, n % 256>>
      BY <1>1, <1>2, <2>2, Zenon DEF DerLength
    <3>2. s[1] = 130
      BY ONLY <3>1
    <3> QED  BY <3>2
  <2> QED  BY <2>1, <2>2
<1>4. Tlv(tag, v)[1 + 1] = s[1]
  <2>1. PICK k \in 1 .. 3 : k = Len(s)
    BY <1>2
  <2>2. 1 \in 1 .. k
    OBVIOUS
  <2>3. \A i \in 1 .. Len(DerLength(Len(v))) : Tlv(tag, v)[1 + i] = DerLength(Len(v))[i]
    BY TlvOctets
  <2> QED  BY <1>1, <1>2, <2>1, <2>2, <2>3, Zenon
<1>5. 1 + 1 = 2 /\ 129 > 127 /\ 130 > 127
  OBVIOUS
<1> QED  BY <1>3, <1>4, <1>5

\* Where one place of a certificate is another's first, its next is the other's second.
PlacesAgree(der, i, q) ==
  /\ Len(q) = (Len(der) + 1) - i
  /\ \A j \in 1 .. Len(q) : i + (j - 1) \in 1 .. Len(der) /\ der[i + (j - 1)] = q[j]
  /\ \A m \in 0 .. Len(q) : From(der, i + m) = From(q, m + 1)

LEMMA PlacesBehind ==
  ASSUME NEW der \in Seq(Octet), NEW i \in 1 .. Len(der) + 1, NEW q \in Seq(Octet), From(der, i) = q
  PROVE  PlacesAgree(der, i, q)
<1>1. PICK k \in 0 .. Len(der) : i = k + 1 /\ k \in Nat
  <2>1. i - 1 \in 0 .. Len(der) /\ i = (i - 1) + 1 /\ i - 1 \in Nat
    OBVIOUS
  <2> QED  BY <2>1
<1>2. PICK c \in Seq(Octet) : c = SubSeq(der, 1, k) /\ Len(c) = k /\ der = c \o q
  BY <1>1, BeginningAndRest, ZenonT(60)
<1>3. Len(q) = Len(der) - k /\ \A j \in 1 .. Len(q) : der[k + j] = q[j]
  <2>1. /\ Len(From(der, k + 1)) = Len(der) - k
        /\ \A j \in 1 .. Len(der) - k : From(der, k + 1)[j] = der[k + j]
    BY BeginningAndRest
  <2> QED  BY <1>1, <2>1
<1>4. ASSUME NEW j \in 1 .. Len(q)
      PROVE  i + (j - 1) \in 1 .. Len(der) /\ der[i + (j - 1)] = q[j]
  <2>1. PICK n \in Nat : n = Len(der)
    OBVIOUS
  <2>2. PICK m \in Nat : m = Len(q)
    OBVIOUS
  <2>3. m = n - k /\ j \in 1 .. m
    BY <1>3, <2>1, <2>2, Zenon
  <2>4. i + (j - 1) = k + j /\ i + (j - 1) \in 1 .. n
    BY <1>1, <2>3
  <2> QED  BY <1>3, <2>1, <2>4, Zenon
<1>5. ASSUME NEW m \in 0 .. Len(q)
      PROVE  From(der, i + m) = From(q, m + 1)
  <2>1. (Len(c) + m) + 1 = i + m
    BY <1>1, <1>2
  <2>2. From(c \o q, (Len(c) + m) + 1) = From(q, m + 1)
    BY BehindSecond
  <2> QED  BY <1>2, <2>1, <2>2
<1>6. Len(q) = (Len(der) + 1) - i
  BY <1>1, <1>3
<1> QED  BY <1>4, <1>5, <1>6 DEF PlacesAgree

\* An OCTET STRING behind an identifier ends the search, with its value if it is short
\* (x509.rs 456-470).
LEMMA OctetsRead ==
  ASSUME NEW der \in Seq(Octet), NEW i \in 1 .. Len(der) + 1, NEW v \in Seq(Octet), NEW rest \in Seq(Octet),
         From(der, i) = Tlv(OCTETS, v) \o rest
  PROVE  OctetsAt(der, i) = EndWith(IF Len(v) <= 127 THEN Some(v) ELSE None)
<1>1. PICK b \in Seq(Octet) : b = Tlv(OCTETS, v) /\ Len(b) >= 2 /\ b[1] = OCTETS
  <2>1. /\ Tlv(OCTETS, v) \in Seq(Octet) /\ Len(Tlv(OCTETS, v)) >= Len(v) + 2
        /\ Tlv(OCTETS, v)[1] = OCTETS
    BY Tags, TlvTyped
  <2>2. PICK b \in Seq(Octet) : b = Tlv(OCTETS, v)
    BY <2>1
  <2>3. Len(b) >= 2
    BY <2>1, <2>2
  <2> QED  BY <2>1, <2>2, <2>3
<1>2. PICK q \in Seq(Octet) : q = b \o rest /\ Len(q) >= 2 /\ q[1] = b[1] /\ q[2] = b[2]
  <2>1. /\ b \o rest \in Seq(Octet) /\ Len(b \o rest) = Len(b) + Len(rest)
        /\ \A j \in 1 .. Len(b) : (b \o rest)[j] = b[j]
    BY TwoParts
  <2>2. Len(b) + Len(rest) >= 2 /\ 1 \in 1 .. Len(b) /\ 2 \in 1 .. Len(b)
    BY <1>1
  <2> QED  BY <2>1, <2>2
<1>3. From(der, i) = q
  BY <1>1, <1>2
<1>4. i \in 1 .. Len(der) /\ i < Len(der) /\ der[i] = q[1] /\ der[i + 1] = q[2]
  <2>1. /\ Len(q) = (Len(der) + 1) - i
        /\ \A j \in 1 .. Len(q) : i + (j - 1) \in 1 .. Len(der) /\ der[i + (j - 1)] = q[j]
        /\ \A m \in 0 .. Len(q) : From(der, i + m) = From(q, m + 1)
    <3>1. PlacesAgree(der, i, q)
      BY <1>3, PlacesBehind, Zenon
    <3> QED  BY <3>1 DEF PlacesAgree
  <2>2. 1 \in 1 .. Len(q) /\ 2 \in 1 .. Len(q) /\ i + (1 - 1) = i /\ i + (2 - 1) = i + 1
    BY <1>2
  <2>3. der[i] = q[1] /\ der[i + 1] = q[2]
    BY <2>1, <2>2
  <2>4. i \in 1 .. Len(der) /\ i < Len(der)
    BY <1>2, <2>1
  <2> QED  BY <2>3, <2>4
<1>5. ~(i > Len(der)) /\ i # Len(der)
  BY <1>4
<1>6. CASE Len(v) <= 127
  <2>1. ~(b[2] > 127)
    <3>1. Tlv(OCTETS, v)[2] = Len(v)
      BY <1>6, Tags, ShortTlv
    <3> QED  BY <1>1, <1>6, <3>1
  <2>2. ReadShortTlv(q) = Ok(Item(OCTETS, v))
    BY <1>1, <1>2, <1>6, Tags, ShortReads
  <2>3. EndWithValue(Ok(Item(OCTETS, v))) = EndWith(Some(v))
    BY Results DEF EndWithValue, Item
  <2> QED  BY <1>1, <1>2, <1>3, <1>4, <1>5, <1>6, <2>1, <2>2, <2>3, Zenon DEF OctetsAt
<1>7. CASE ~(Len(v) <= 127)
  <2>1. b[2] > 127
    <3>1. Len(v) > 127
      BY <1>7
    <3> QED  BY <1>1, <3>1, Tags, LongTlv
  <2> QED  BY <1>1, <1>2, <1>4, <1>5, <1>7, <2>1, Zenon DEF OctetsAt
<1> QED  BY <1>6, <1>7

\* The octets that say that an extension is critical.
LEMMA Flag ==
  /\ Tlv(BOOLEAN_TAG, << 255 >>) \in Seq(Octet) /\ Len(Tlv(BOOLEAN_TAG, << 255 >>)) = 3
  /\ Tlv(BOOLEAN_TAG, << 255 >>)[1] = BOOLEAN_TAG /\ Tlv(BOOLEAN_TAG, << 255 >>)[2] = 1
<1>1. PICK o : o = << 255 >> /\ o \in Seq(Octet) /\ Len(o) = 1
  <2>1. 255 \in Octet
    BY DEF Octet
  <2>2. << 255 >> \in Seq(Octet) /\ Len(<< 255 >>) = 1
    BY <2>1
  <2> QED  BY <2>2
<1>2. Len(o) <= 127 /\ Len(o) + 2 = 3
  <2>1. 1 <= 127 /\ 1 + 2 = 3
    OBVIOUS
  <2> QED  BY <1>1, <2>1, Zenon
<1>3. BOOLEAN_TAG \in Octet
  BY DEF BOOLEAN_TAG, Octet
<1>4. /\ Tlv(BOOLEAN_TAG, o) \in Seq(Octet) /\ Len(Tlv(BOOLEAN_TAG, o)) = Len(o) + 2
      /\ Tlv(BOOLEAN_TAG, o)[1] = BOOLEAN_TAG /\ Tlv(BOOLEAN_TAG, o)[2] = Len(o)
      /\ \E h \in Seq(Octet) : Tlv(BOOLEAN_TAG, o) = h \o o /\ Len(h) = 2
  <2>1. o \in Seq(Octet) /\ Len(o) <= 127
    BY <1>1, <1>2, Zenon
  <2> QED  BY <1>3, <2>1, ShortTlv
<1> QED  BY <1>1, <1>2, <1>4, ZenonT(60)

\* And so if it is critical.
LEMMA ExtensionRead ==
  ASSUME NEW der \in Seq(Octet), NEW i \in 1 .. Len(der) + 1, NEW critical \in BOOLEAN,
         NEW v \in Seq(Octet), NEW rest \in Seq(Octet), From(der, i) = After(critical, v) \o rest
  PROVE  /\ i \in 1 .. Len(der)
         /\ ExtensionAt(der, i) = EndWith(IF Len(v) <= 127 THEN Some(v) ELSE None)
<1>1. PICK b \in Seq(Octet) : b = Tlv(OCTETS, v) /\ Len(b) >= 2 /\ b[1] = OCTETS
  <2>1. /\ Tlv(OCTETS, v) \in Seq(Octet) /\ Len(Tlv(OCTETS, v)) >= Len(v) + 2
        /\ Tlv(OCTETS, v)[1] = OCTETS
    BY Tags, TlvTyped
  <2>2. PICK b \in Seq(Octet) : b = Tlv(OCTETS, v)
    BY <2>1
  <2>3. Len(b) >= 2
    BY <2>1, <2>2
  <2> QED  BY <2>1, <2>2, <2>3
<1>2. PICK t \in Seq(Octet) : t = b \o rest /\ Len(t) >= 2 /\ t[1] = OCTETS
  <2>1. /\ b \o rest \in Seq(Octet) /\ Len(b \o rest) = Len(b) + Len(rest)
        /\ \A j \in 1 .. Len(b) : (b \o rest)[j] = b[j]
    BY TwoParts
  <2>2. Len(b) + Len(rest) >= 2 /\ 1 \in 1 .. Len(b)
    BY <1>1
  <2> QED  BY <1>1, <2>1, <2>2
<1>3. CASE ~critical
  <2>1. After(critical, v) = b
    <3>1. << >> \o b = b
      BY ConcatEmptySeq
    <3> QED  BY <1>1, <1>3, <3>1, Zenon DEF After
  <2>2. From(der, i) = t
    BY <1>2, <2>1
  <2>3. i \in 1 .. Len(der) /\ der[i] = OCTETS
    <3>1. /\ Len(t) = (Len(der) + 1) - i
          /\ \A j \in 1 .. Len(t) : i + (j - 1) \in 1 .. Len(der) /\ der[i + (j - 1)] = t[j]
          /\ \A m \in 0 .. Len(t) : From(der, i + m) = From(t, m + 1)
      <4>1. PlacesAgree(der, i, t)
        BY <2>2, PlacesBehind, Zenon
      <4> QED  BY <4>1 DEF PlacesAgree
    <3>2. 1 \in 1 .. Len(t) /\ i + (1 - 1) = i
      BY <1>2
    <3> QED  BY <1>2, <3>1, <3>2
  <2>4. OCTETS # BOOLEAN_TAG
    BY DEF OCTETS, BOOLEAN_TAG
  <2>5. OctetsAt(der, i) = EndWith(IF Len(v) <= 127 THEN Some(v) ELSE None)
    BY <1>1, <1>2, <2>2, OctetsRead
  <2> QED  BY <2>3, <2>4, <2>5, Zenon DEF ExtensionAt
<1>4. CASE critical
  <2>1. PICK c \in Seq(Octet) :
          /\ Len(c) = 3 /\ c[1] = BOOLEAN_TAG /\ c[2] = 1 /\ After(critical, v) = c \o Tlv(OCTETS, v)
    <3>1. PICK c \in Seq(Octet) : c = Tlv(BOOLEAN_TAG, << 255 >>) /\ Len(c) = 3 /\ c[1] = BOOLEAN_TAG /\ c[2] = 1
      BY Flag, Zenon
    <3>2. After(critical, v) = c \o Tlv(OCTETS, v)
      BY <1>4, <3>1, Zenon DEF After
    <3> QED  BY <3>1, <3>2, Zenon
  <2>2. PICK q \in Seq(Octet) : q = c \o t /\ Len(q) >= 3 /\ q[1] = BOOLEAN_TAG /\ q[2] = 1 /\ From(q, 3 + 1) = t
    <3>1. /\ c \o t \in Seq(Octet) /\ Len(c \o t) = Len(c) + Len(t)
          /\ \A j \in 1 .. Len(c) : (c \o t)[j] = c[j]
      BY TwoParts
    <3>2. Len(c) + Len(t) >= 3 /\ 1 \in 1 .. Len(c) /\ 2 \in 1 .. Len(c)
      <4>1. PICK l \in Nat : l = Len(t)
        OBVIOUS
      <4>2. 3 + l >= 3 /\ 1 \in 1 .. 3 /\ 2 \in 1 .. 3
        OBVIOUS
      <4> QED  BY <2>1, <4>1, <4>2, Zenon
    <3>3. From(c \o t, Len(c) + 1) = t
      BY CutApart
    <3> QED  BY <2>1, <3>1, <3>2, <3>3
  <2>3. From(der, i) = q
    <3>1. After(critical, v) = c \o b
      BY <1>1, <2>1, Zenon
    <3>2. (c \o b) \o rest = c \o (b \o rest)
      BY JoinedTwice, ZenonT(60)
    <3>3. From(der, i) = (c \o b) \o rest
      BY <3>1, Zenon
    <3>4. q = c \o t /\ t = b \o rest
      BY <1>2, <2>2, Zenon
    <3>5. From(der, i) = c \o (b \o rest)
      BY <3>2, <3>3, Zenon
    <3> QED  BY <3>4, <3>5, Zenon
  <2>4. /\ i \in 1 .. Len(der) /\ i < Len(der) /\ i + 3 \in 1 .. Len(der) + 1
        /\ der[i] = BOOLEAN_TAG /\ der[i + 1] = 1 /\ From(der, i + 3) = t
    <3>1. /\ Len(q) = (Len(der) + 1) - i
          /\ \A j \in 1 .. Len(q) : i + (j - 1) \in 1 .. Len(der) /\ der[i + (j - 1)] = q[j]
          /\ \A m \in 0 .. Len(q) : From(der, i + m) = From(q, m + 1)
      <4>1. PlacesAgree(der, i, q)
        BY <2>3, PlacesBehind, Zenon
      <4> QED  BY <4>1 DEF PlacesAgree
    <3>2. 1 \in 1 .. Len(q) /\ 2 \in 1 .. Len(q) /\ i + (1 - 1) = i /\ i + (2 - 1) = i + 1
          /\ 3 \in 0 .. Len(q)
      BY <2>2
    <3>3. i < Len(der) /\ i + 3 \in 1 .. Len(der) + 1
      BY <2>2, <3>1
    <3>4. der[i] = q[1] /\ der[i + 1] = q[2] /\ i \in 1 .. Len(der)
      BY <3>1, <3>2
    <3>5. From(der, i + 3) = From(q, 3 + 1)
      BY <3>1, <3>2
    <3> QED  BY <2>2, <3>3, <3>4, <3>5
  <2>5. OctetsAt(der, i + 3) = EndWith(IF Len(v) <= 127 THEN Some(v) ELSE None)
    BY <1>1, <1>2, <2>4, OctetsRead
  <2>6. i + 2 + der[i + 1] = i + 3 /\ i # Len(der) /\ ~(der[i + 1] > 127)
    BY <2>4
  <2>7. ExtensionAt(der, i) = OctetsAt(der, i + 3)
    BY <2>4, <2>6, Zenon DEF ExtensionAt
  <2> QED  BY <2>4, <2>5, <2>7
<1> QED  BY <1>3, <1>4

\* Where an identifier is the search ends, and where it is not there is no search
\* (x509.rs 439-473).
LEMMA Searched ==
  ASSUME NEW der \in Seq(Octet), NEW x \in Kinds
  PROVE  /\ Silent(der, x) => ExtensionValue(der, ExtensionId(x)) = None
         /\ \A critical \in BOOLEAN, v \in Seq(Octet) :
              Announces(der, x, After(critical, v)) =>
                ExtensionValue(der, ExtensionId(x)) = IF Len(v) <= 127 THEN Some(v) ELSE None
<1>1. PICK id : id = ExtensionId(x) /\ Len(id) = 5
  <2>1. Len(<<OID, 3, 85, 29, x>>) = 5
    OBVIOUS
  <2> QED  BY <2>1 DEF ExtensionId
<1>2. ASSUME NEW i
      PROVE  i \in Occurrences(der, id) <=> i \in 1 .. Len(der) - 5 /\ IsAt(der, i, x)
  <2>1. \A j \in 1 .. Len(der) - 5 : j \in 1 .. Len(der) - 4 /\ j + 5 - 1 = j + 4
    OBVIOUS
  <2>2. i \in Occurrences(der, id) <=> i \in 1 .. Len(der) - 5 /\ SubSeq(der, i, i + 5 - 1) = id
    BY <1>1 DEF Occurrences
  <2>3. ASSUME i \in 1 .. Len(der) - 5
        PROVE  SubSeq(der, i, i + 5 - 1) = id <=> IsAt(der, i, x)
    <3>1. i \in 1 .. Len(der) - 4 /\ i + 5 - 1 = i + 4
      BY <2>1, <2>3
    <3>2. SubSeq(der, i, i + 4) = ExtensionId(x) <=> IsAt(der, i, x)
      BY <3>1, IdIsAt
    <3> QED  BY <1>1, <3>1, <3>2, Zenon
  <2> QED  BY <2>2, <2>3, Zenon
<1>3. ExtensionValue(der, id) =
        LET ending == {i \in Occurrences(der, id) : ExtensionAt(der, i + 5).done}
        IN  IF ending = {} THEN None ELSE ExtensionAt(der, Min(ending) + 5).option
  BY <1>1 DEF ExtensionValue, Search
<1>4. ASSUME Silent(der, x) PROVE ExtensionValue(der, id) = None
  <2>1. ASSUME NEW i \in Occurrences(der, id) PROVE FALSE
    <3>1. i \in 1 .. Len(der) - 5 /\ IsAt(der, i, x)
      BY <1>2
    <3>2. i \in 1 .. Len(der) - 4
      BY <3>1
    <3> QED  BY <1>4, <3>1, <3>2 DEF Silent
  <2>2. {i \in Occurrences(der, id) : ExtensionAt(der, i + 5).done} = {}
    BY <2>1
  <2> QED  BY <1>3, <2>2
<1>5. ASSUME NEW critical \in BOOLEAN, NEW v \in Seq(Octet), Announces(der, x, After(critical, v))
      PROVE  ExtensionValue(der, id) = IF Len(v) <= 127 THEN Some(v) ELSE None
  <2>1. PICK p \in 1 .. Len(der) - 4, rest \in Seq(Octet) :
          /\ IsAt(der, p, x) /\ From(der, p + 5) = After(critical, v) \o rest
          /\ \A i \in 1 .. Len(der) - 4 : IsAt(der, i, x) => i = p
    BY <1>5 DEF Announces
  <2>2. p + 5 \in 1 .. Len(der) + 1 /\ p \in Nat
    OBVIOUS
  <2>3. /\ p + 5 \in 1 .. Len(der)
        /\ ExtensionAt(der, p + 5) = EndWith(IF Len(v) <= 127 THEN Some(v) ELSE None)
    BY <2>1, <2>2, ExtensionRead
  <2>4. ExtensionAt(der, p + 5).done
        /\ ExtensionAt(der, p + 5).option = IF Len(v) <= 127 THEN Some(v) ELSE None
    <3>1. \A option : EndWith(option).done = TRUE /\ EndWith(option).option = option
      BY DEF EndWith
    <3> QED  BY <2>3, <3>1, Zenon
  <2>5. \A i : i \in Occurrences(der, id) <=> i = p
    <3>1. p \in 1 .. Len(der) - 5
      BY <2>2, <2>3
    <3>2. \A i \in 1 .. Len(der) - 5 : i \in 1 .. Len(der) - 4
      OBVIOUS
    <3> QED  BY <1>2, <2>1, <3>1, <3>2, Zenon
  <2>6. {i \in Occurrences(der, id) : ExtensionAt(der, i + 5).done} = {p}
    BY <2>4, <2>5
  <2>7. Min({p}) = p
    <3>1. p <= p
      BY <2>2
    <3> QED  BY <3>1 DEF Min
  <2> QED  BY <1>3, <2>4, <2>6, <2>7
<1> QED  BY <1>1, <1>4, <1>5

LEMMA Options == \A v : Some(v).some = TRUE /\ Some(v).val = v /\ None.some = FALSE
  BY DEF Some, None

\* A short SEQUENCE is unwrapped (x509.rs 487-492).
LEMMA Unwrapped ==
  ASSUME NEW m \in Seq(Octet), Len(m) <= 127
  PROVE  UnwrapSequence(Tlv(SEQUENCE, m)) = Some(m)
<1>1. ReadShortTlv(Tlv(SEQUENCE, m)) = Ok(Item(SEQUENCE, m))
  <2>1. PICK none \in Seq(Octet) : none = <<>>
    BY Tags
  <2> QED  BY Tags, <2>1, ShortReads
<1>2. ToOption(Ok(Item(SEQUENCE, m))) = Some(Item(SEQUENCE, m))
  BY Results DEF ToOption
<1>3. Item(SEQUENCE, m).tag = SEQUENCE /\ Item(SEQUENCE, m).value = m
  BY DEF Item
<1>4. Some(Item(SEQUENCE, m)).some = TRUE /\ Some(Item(SEQUENCE, m)).val = Item(SEQUENCE, m)
  BY Options
<1> QED  BY <1>1, <1>2, <1>3, <1>4, Zenon DEF UnwrapSequence, IfSome

\* A short TLV that is read on its own.
LEMMA ShortRead ==
  ASSUME NEW tag \in Octet, NEW m \in Seq(Octet), Len(m) <= 127
  PROVE  /\ ToOption(ReadShortTlv(Tlv(tag, m))) = Some(Item(tag, m))
         /\ Item(tag, m).tag = tag /\ Item(tag, m).value = m
<1>1. ReadShortTlv(Tlv(tag, m)) = Ok(Item(tag, m))
  <2>1. PICK none \in Seq(Octet) : none = <<>>
    BY Tags
  <2> QED  BY <2>1, ShortReads
<1>2. ToOption(Ok(Item(tag, m))) = Some(Item(tag, m))
  BY Results DEF ToOption
<1>3. Item(tag, m).tag = tag /\ Item(tag, m).value = m
  BY DEF Item
<1> QED  BY <1>1, <1>2, <1>3

\* authorityKeyIdentifier (testpki.rs 433-438, x509.rs 333-350).
LEMMA KeyIdsRead ==
  ASSUME NEW der, NEW o \in Seq(Octet), Len(o) = 1,
         ExtensionValue(der, OID_AUTHORITY_KEY_IDENTIFIER) = Some(Tlv(SEQUENCE, Tlv(KEY_ID, o)))
  PROVE  AuthorityKeyIdentifier(der) = Some(o)
<1>1. PICK m \in Seq(Octet) : m = Tlv(KEY_ID, o) /\ Len(m) <= 127
  <2>1. /\ Tlv(KEY_ID, o) \in Seq(Octet) /\ Len(Tlv(KEY_ID, o)) = Len(o) + 2
        /\ Tlv(KEY_ID, o)[1] = KEY_ID /\ Tlv(KEY_ID, o)[2] = Len(o)
        /\ \E h \in Seq(Octet) : Tlv(KEY_ID, o) = h \o o /\ Len(h) = 2
    <3>1. Len(o) <= 127
      OBVIOUS
    <3> QED  BY <3>1, Tags, ShortTlv, ZenonT(60)
  <2>2. PICK m \in Seq(Octet) : m = Tlv(KEY_ID, o)
    BY <2>1
  <2>3. Len(m) <= 127
    BY <2>1, <2>2
  <2> QED  BY <2>2, <2>3
<1>2. ExtensionSequence(der, OID_AUTHORITY_KEY_IDENTIFIER) = Some(m)
  <2>1. UnwrapSequence(Tlv(SEQUENCE, m)) = Some(m)
    BY <1>1, Unwrapped
  <2> QED  BY <1>1, <2>1, Options, Zenon DEF ExtensionSequence, IfSome
<1>3. PICK e : e = Item(KEY_ID, o)
  OBVIOUS
<1>4. e.tag = KEY_ID /\ e.value = o
  BY <1>3 DEF Item
<1>5. PICK items : items = Walk(m, ReadShortTlv).tlvs /\ items = << e >>
  <2>1. Len(o) <= 127
    OBVIOUS
  <2> QED  BY <1>1, <1>3, <2>1, Tags, ShortWalkOfOne, Zenon
<1>6. DOMAIN items = {1} /\ Len(items) = 1 /\ items[1] = e
  BY ONLY <1>5
<1>7. FirstSuchThat(items, LAMBDA member : member.tag = KEY_ID) = Some(e)
  <2>1. SelectInSeq(items, LAMBDA member : member.tag = KEY_ID) = 1
    <3> DEFINE I == {i \in 1 .. Len(items) : items[i].tag = KEY_ID}
    <3>1. I = {1}
      BY <1>4, <1>6
    <3>2. (CHOOSE i \in I : \A j \in I : i =< j) = 1
      <4>1. 1 =< 1
        OBVIOUS
      <4> QED  BY <3>1, <4>1, Zenon
    <3> QED  BY <3>1, <3>2 DEF SelectInSeq, Min
  <2> QED  BY <1>4, <1>6, <2>1 DEF FirstSuchThat
<1>8. IfSome(Some(m), LAMBDA members : IfSome(FirstSuchThat(Walk(members, ReadShortTlv).tlvs,
                                                          LAMBDA member : member.tag = KEY_ID), Value))
      = Some(o)
  <2>1. IfSome(Some(e), Value) = Some(o)
    BY <1>4, Options, Zenon DEF IfSome, Value
  <2> QED  BY <1>5, <1>7, <2>1, Options, Zenon DEF IfSome
<1> QED  BY <1>2, <1>8, Zenon DEF AuthorityKeyIdentifier

\* subjectKeyIdentifier, of another authority's certificates (x509.rs 318-331).
LEMMA KeyIdRead ==
  ASSUME NEW der, NEW o \in Seq(Octet), Len(o) = 1,
         ExtensionValue(der, OID_SUBJECT_KEY_IDENTIFIER) = Some(Tlv(OCTETS, o))
  PROVE  SubjectKeyIdentifier(der) = Some(o)
<1>1. Len(o) <= 127
  OBVIOUS
<1>2. /\ ToOption(ReadShortTlv(Tlv(OCTETS, o))) = Some(Item(OCTETS, o))
      /\ Item(OCTETS, o).tag = OCTETS /\ Item(OCTETS, o).value = o
  BY <1>1, Tags, ShortRead
<1> QED  BY <1>2, Options, ZenonT(60) DEF SubjectKeyIdentifier, IfSome, Value

\* subjectAltName (x509.rs 300-316).
LEMMA NamesRead ==
  ASSUME NEW der, NEW o \in Seq(Octet),
         ExtensionValue(der, OID_SUBJECT_ALT_NAME) =
           IF Len(Tlv(SEQUENCE, Tlv(REGISTERED, o))) <= 127
           THEN Some(Tlv(SEQUENCE, Tlv(REGISTERED, o))) ELSE None
  PROVE  SubjectAltName(der) = ReadBack(Some(o), 4)
<1>1. PICK k \in Nat : k = Len(o)
  OBVIOUS
<1>2. PICK m \in Seq(Octet) : m = Tlv(REGISTERED, o)
  BY Tags, TlvTyped
<1>3. PICK n \in Nat : n = Len(m) /\ (k <= 127 => n = k + 2) /\ n >= k + 2
  <2>1. Len(o) <= 127 => Len(Tlv(REGISTERED, o)) = Len(o) + 2
    BY Tags, ShortTlv
  <2>2. Len(Tlv(REGISTERED, o)) >= Len(o) + 2
    BY Tags, TlvTyped
  <2>3. Len(m) \in Nat
    OBVIOUS
  <2> QED  BY <1>1, <1>2, <2>1, <2>2, <2>3
<1>4. PICK l \in Nat : l = Len(Tlv(SEQUENCE, m)) /\ (n <= 127 => l = n + 2) /\ l >= n + 2
  <2>1. Len(m) <= 127 => Len(Tlv(SEQUENCE, m)) = Len(m) + 2
    BY Tags, ShortTlv
  <2>2. Len(Tlv(SEQUENCE, m)) >= Len(m) + 2 /\ Tlv(SEQUENCE, m) \in Seq(Octet)
    BY Tags, TlvTyped
  <2>3. Len(Tlv(SEQUENCE, m)) \in Nat
    BY <2>2
  <2> QED  BY <1>3, <2>1, <2>2, <2>3
<1>5. ReadBack(Some(o), 4) = IF k + 4 > 127 THEN None ELSE Some(o)
  BY <1>1, Options, Zenon DEF ReadBack
<1>6. CASE k + 4 > 127
  <2>1. ~(l <= 127)
    BY <1>3, <1>4, <1>6
  <2>2. ExtensionValue(der, OID_SUBJECT_ALT_NAME) = None
    BY <1>2, <1>4, <2>1, Zenon
  <2> QED  BY <1>5, <1>6, <2>2, Options, Zenon DEF SubjectAltName, ExtensionSequence, IfSome
<1>7. CASE ~(k + 4 > 127)
  <2>1. l <= 127 /\ n <= 127 /\ k <= 127
    BY <1>3, <1>4, <1>7
  <2>2. ExtensionValue(der, OID_SUBJECT_ALT_NAME) = Some(Tlv(SEQUENCE, m))
    BY <1>2, <1>4, <2>1, Zenon
  <2>3. UnwrapSequence(Tlv(SEQUENCE, m)) = Some(m)
    BY <1>3, <2>1, Unwrapped
  <2>4. /\ ToOption(ReadShortTlv(Tlv(REGISTERED, o))) = Some(Item(REGISTERED, o))
        /\ Item(REGISTERED, o).tag = REGISTERED /\ Item(REGISTERED, o).value = o
    BY <1>1, <2>1, Tags, ShortRead
  <2>5. ExtensionSequence(der, OID_SUBJECT_ALT_NAME) = Some(m)
    BY <2>2, <2>3, Options, Zenon DEF ExtensionSequence, IfSome
  <2>6. SubjectAltName(der) = IfSome(ToOption(ReadShortTlv(m)), Value)
    BY <2>5, Options, Zenon DEF SubjectAltName, IfSome
  <2>7. ToOption(ReadShortTlv(m)) = Some(Item(REGISTERED, o))
    BY <1>2, <2>4, Zenon
  <2>8. SubjectAltName(der) = Some(o)
    BY <2>4, <2>6, <2>7, Options, Zenon DEF IfSome, Value
  <2> QED  BY <1>5, <1>7, <2>8, Zenon
<1> QED  BY <1>6, <1>7

\* One element passes a test, or does not.
LEMMA PassingOne ==
  ASSUME NEW x
  PROVE  /\ FlattenSeq(<< << x >> >>) = << x >>
         /\ FlattenSeq(<< << >> >>) = << >>
<1>1. ASSUME NEW e PROVE FlattenSeq(<< e >>) = e
  <2>1. PICK s : s = << e >> /\ Len(s) = 1 /\ s[1] = e
    <3>1. Len(<< e >>) = 1 /\ << e >>[1] = e
      OBVIOUS
    <3> QED  BY <3>1, Zenon
  <2> DEFINE Is(h) == h = [i \in 1 .. Len(s) |-> IF i = 1 THEN s[i] ELSE h[i - 1] \o s[i]]
             flatten[i \in 1 .. Len(s)] == IF i = 1 THEN s[i] ELSE flatten[i - 1] \o s[i]
             h1 == [i \in 1 .. Len(s) |-> e]
  <2>2. FlattenSeq(s) = flatten[Len(s)]
    BY <2>1 DEF FlattenSeq
  <2>3. flatten = CHOOSE h : Is(h)
    OBVIOUS
  <2>4. Is(h1)
    <3>1. \A i \in 1 .. Len(s) : i = 1
      BY <2>1
    <3>2. \A i \in 1 .. Len(s) : h1[i] = IF i = 1 THEN s[i] ELSE h1[i - 1] \o s[i]
      BY <2>1, <3>1
    <3> QED  BY <3>2
  <2> HIDE DEF h1
  <2>5. Is(flatten)
    <3> HIDE DEF Is, flatten
    <3> QED  BY <2>3, <2>4, Zenon
  <2>6. flatten[1] = s[1]
    BY <2>1, <2>5
  <2> QED  BY <2>1, <2>2, <2>6, Zenon
<1> QED  BY <1>1, Zenon

\* certificatePolicies: one role is read, and told to be a server's or not
\* (testpki.rs 440-450, x509.rs 352-416).
LEMMA PoliciesRead ==
  ASSUME NEW der, NEW o \in Seq(Octet), Len(o) <= 121,
         ExtensionValue(der, OID_CERTIFICATE_POLICIES) =
           Some(Tlv(SEQUENCE, Tlv(SEQUENCE, Tlv(OID, o))))
  PROVE  CertificatePolicies(der) = Some(<< o >>)
<1>1. PICK a \in Seq(Octet) : a = Tlv(OID, o) /\ Len(a) <= 123
  <2>1. Len(o) <= 127 /\ Len(o) + 2 <= 123
    OBVIOUS
  <2>2. /\ Tlv(OID, o) \in Seq(Octet) /\ Len(Tlv(OID, o)) = Len(o) + 2
        /\ Tlv(OID, o)[1] = OID /\ Tlv(OID, o)[2] = Len(o)
        /\ \E h \in Seq(Octet) : Tlv(OID, o) = h \o o /\ Len(h) = 2
    BY <2>1, Tags, ShortTlv
  <2> QED  BY <2>1, <2>2, ZenonT(60)
<1>2. PICK m \in Seq(Octet) : m = Tlv(SEQUENCE, a) /\ Len(m) <= 127
  <2>1. Len(a) <= 127 /\ Len(a) + 2 <= 127
    BY <1>1
  <2>2. /\ Tlv(SEQUENCE, a) \in Seq(Octet) /\ Len(Tlv(SEQUENCE, a)) = Len(a) + 2
        /\ Tlv(SEQUENCE, a)[1] = SEQUENCE /\ Tlv(SEQUENCE, a)[2] = Len(a)
        /\ \E h \in Seq(Octet) : Tlv(SEQUENCE, a) = h \o a /\ Len(h) = 2
    BY <2>1, Tags, ShortTlv
  <2> QED  BY <2>1, <2>2, ZenonT(60)
<1>3. ExtensionSequence(der, OID_CERTIFICATE_POLICIES) = Some(m)
  <2>1. UnwrapSequence(Tlv(SEQUENCE, m)) = Some(m)
    BY <1>2, Unwrapped
  <2> QED  BY <1>1, <1>2, <2>1, Options, Zenon DEF ExtensionSequence, IfSome
<1>4. PICK e : e = Item(SEQUENCE, a) /\ e.tag = SEQUENCE /\ e.value = a
  <2>1. Item(SEQUENCE, a).tag = SEQUENCE /\ Item(SEQUENCE, a).value = a
    BY DEF Item
  <2> QED  BY <2>1, Zenon
<1>5. PICK items : items = Walk(m, ReadShortTlv).tlvs /\ items = << e >>
  <2>1. Len(a) <= 127
    BY <1>1
  <2> QED  BY <1>2, <1>4, <2>1, Tags, ShortWalkOfOne, Zenon
<1>6. DOMAIN items = {1} /\ items[1] = e
  BY ONLY <1>5
<1>7. PolicyIn(e) = Some(o)
  <2>1. Len(o) <= 127
    OBVIOUS
  <2>2. /\ ToOption(ReadShortTlv(Tlv(OID, o))) = Some(Item(OID, o))
        /\ Item(OID, o).tag = OID /\ Item(OID, o).value = o
    BY <2>1, Tags, ShortRead
  <2>3. ToOption(ReadShortTlv(e.value)) = Some(Item(OID, o))
    BY <1>1, <1>4, <2>2, Zenon
  <2>4. PolicyIn(e) = IF Item(OID, o).tag = OID THEN Value(Item(OID, o)) ELSE None
    BY <1>4, <2>3, Options, Zenon DEF PolicyIn, IfSome
  <2> QED  BY <2>2, <2>4, Zenon DEF Value
<1>8. Passing(items, LAMBDA entry : PolicyIn(entry).some) = << e >>
  <2>1. PICK parts : parts = [i \in DOMAIN items |->
                                IF PolicyIn(items[i]).some THEN << items[i] >> ELSE <<>>]
    OBVIOUS
  <2>2. PolicyIn(items[1]).some = TRUE
    BY <1>6, <1>7, Options, Zenon
  <2>3. parts = << << e >> >>
    <3>1. parts = [i \in {1} |-> << e >>]
      BY <1>6, <2>1, <2>2
    <3>2. \A v : [i \in {1} |-> v] = << v >>
      OBVIOUS
    <3> QED  BY <3>1, <3>2, Zenon
  <2> QED  BY <2>1, <2>3, PassingOne, Zenon DEF Passing
<1>9. PICK entries : entries = Passing(items, LAMBDA entry : PolicyIn(entry).some) /\ entries = << e >>
  BY <1>8, Zenon
<1>10. [i \in DOMAIN entries |-> PolicyIn(entries[i]).val] = << o >>
  <2>1. DOMAIN entries = {1} /\ entries[1] = e
    BY ONLY <1>9
  <2>2. PolicyIn(entries[1]).val = o
    BY <1>7, <2>1, Options, Zenon
  <2>3. [i \in DOMAIN entries |-> PolicyIn(entries[i]).val] = [i \in {1} |-> o]
    BY <2>1, <2>2
  <2>4. \A v : [i \in {1} |-> v] = << v >>
    OBVIOUS
  <2> QED  BY <2>3, <2>4, Zenon
<1>11. CertificatePolicies(der) =
         Some([i \in DOMAIN Passing(Walk(m, ReadShortTlv).tlvs, LAMBDA entry : PolicyIn(entry).some) |->
                 PolicyIn(Passing(Walk(m, ReadShortTlv).tlvs, LAMBDA entry : PolicyIn(entry).some)[i]).val])
  BY <1>3, Options DEF CertificatePolicies, IfSome
<1> QED  BY <1>5, <1>9, <1>10, <1>11, Zenon

\* And so it is told whether it is a server's role.
LEMMA RolesTold ==
  ASSUME NEW der, NEW o, CertificatePolicies(der) = Some(<< o >>)
  PROVE  /\ IsServerCertificateRole(der) = Some(o \in AuthRoles)
         /\ IndicatesDpPbRole(der) = Some(o \in PbRoles)
<1>1. PICK policies : policies = << o >>
  OBVIOUS
<1>2. DOMAIN policies = {1} /\ policies[1] = o /\ Len(policies) = 1
  BY <1>1
<1>3. ToSet(policies) = {o}
  BY <1>2 DEF ToSet
<1>4. IndicatesDpPbRole(der) = Some(o \in PbRoles)
  <2>1. (ToSet(policies) \cap PbRoles # {}) <=> o \in PbRoles
    BY <1>3
  <2>2. (ToSet(policies) \cap PbRoles # {}) = (o \in PbRoles)
    BY <2>1
  <2> QED  BY <1>1, <2>2, Options, Zenon DEF IndicatesDpPbRole, IfSome
<1>5. PICK roles : RspRoles(der) = Some(roles) /\ roles = IF o \in RSP_ROLE_OIDS THEN << o >> ELSE <<>>
  <2>1. PICK parts : parts = [i \in DOMAIN policies |->
                                IF policies[i] \in RSP_ROLE_OIDS THEN << policies[i] >> ELSE <<>>]
    OBVIOUS
  <2>2. parts = << IF o \in RSP_ROLE_OIDS THEN << o >> ELSE <<>> >>
    <3>1. parts = [i \in {1} |-> IF o \in RSP_ROLE_OIDS THEN << o >> ELSE <<>>]
      BY <1>2, <2>1
    <3>2. \A v : [i \in {1} |-> v] = << v >>
      OBVIOUS
    <3> QED  BY <3>1, <3>2, Zenon
  <2>3. FlattenSeq(parts) = IF o \in RSP_ROLE_OIDS THEN << o >> ELSE <<>>
    <3>1. CASE o \in RSP_ROLE_OIDS
      BY <2>2, <3>1, PassingOne, Zenon
    <3>2. CASE o \notin RSP_ROLE_OIDS
      BY <2>2, <3>2, PassingOne, Zenon
    <3> QED  BY <3>1, <3>2
  <2>4. Passing(policies, LAMBDA oid : oid \in RSP_ROLE_OIDS) = FlattenSeq(parts)
    BY <2>1, Zenon DEF Passing
  <2>5. RspRoles(der) = Some(FlattenSeq(parts))
    BY <1>1, <2>4, Options, Zenon DEF RspRoles, IfSome
  <2> QED  BY <2>3, <2>5, Zenon
<1>6. (ToSet(roles) \cap AuthRoles # {}) <=> o \in AuthRoles
  <2>1. CASE o \in RSP_ROLE_OIDS
    BY <1>1, <1>3, <1>5, <2>1
  <2>2. CASE o \notin RSP_ROLE_OIDS
    <3>1. o \notin AuthRoles
      BY <2>2, Zenon DEF RSP_ROLE_OIDS
    <3>2. PICK none : none = <<>> /\ ToSet(none) = {}
      BY DEF ToSet
    <3>3. roles = none
      BY <1>5, <2>2, <3>2, Zenon
    <3> QED  BY <3>1, <3>2, <3>3
  <2> QED  BY <2>1, <2>2
<1>7. (ToSet(roles) \cap AuthRoles # {}) = (o \in AuthRoles)
  BY <1>6
<1>8. IsServerCertificateRole(der) = Some(o \in AuthRoles)
  BY <1>5, <1>7, Options, Zenon DEF IsServerCertificateRole, IfSome
<1> QED  BY <1>4, <1>8

\* A certificate that is whole says of the subject what was asked for.
LEMMA SubjectStated ==
  ASSUME NEW request \in Requested, NEW signature \in Seq(Octet), Len(signature) = 3
  PROVE  StatesSubject(Assemble(Tbs(request), signature), request)
<1>a. PICK f : f = Stated(request)
  OBVIOUS
<1>1. PICK der \in Seq(Octet) :
        /\ der = Assemble(Tbs(request), signature) /\ f = Stated(request)
        /\ \A x \in Kinds : IF f[x].some THEN Announces(der, x, f[x].val) ELSE Silent(der, x)
  BY <1>a, CertificateBears DEF Bears
<1>2. /\ f[35] = Some(After(FALSE, KeyIdsOf(request.issuer)))
      /\ f[32] = Some(After(TRUE, PoliciesOf(request.role.val)))
      /\ f[17] = IF request.san.some THEN Some(After(FALSE, NamesOf(request.san.val))) ELSE None
      /\ f[14] = IF request.ski.some THEN Some(After(FALSE, KeyIdOf(request.ski.val))) ELSE None
  BY <1>1, StatedIs, Zenon
<1>3. 35 \in Kinds /\ 32 \in Kinds /\ 17 \in Kinds /\ 14 \in Kinds
  BY DEF Kinds
<1>0. SEQUENCE \in Octet /\ OID \in Octet /\ OCTETS \in Octet
  BY Tags
<1>4. ASSUME NEW x \in Kinds, NEW critical \in BOOLEAN, NEW v \in Seq(Octet),
             f[x] = Some(After(critical, v))
      PROVE  ExtensionValue(der, ExtensionId(x)) = IF Len(v) <= 127 THEN Some(v) ELSE None
  <2>1. Announces(der, x, After(critical, v))
    BY <1>1, <1>4, Options, Zenon
  <2> QED  BY <2>1, Searched
<1>5. ASSUME NEW x \in Kinds, f[x] = None
      PROVE  ExtensionValue(der, ExtensionId(x)) = None
  <2>1. Silent(der, x)
    BY <1>1, <1>5, Options, Zenon
  <2> QED  BY <2>1, Searched
<1>6. /\ OID_AUTHORITY_KEY_IDENTIFIER = ExtensionId(35) /\ OID_CERTIFICATE_POLICIES = ExtensionId(32)
      /\ OID_SUBJECT_ALT_NAME = ExtensionId(17) /\ OID_SUBJECT_KEY_IDENTIFIER = ExtensionId(14)
  BY Zenon DEF OID_AUTHORITY_KEY_IDENTIFIER, OID_CERTIFICATE_POLICIES, OID_SUBJECT_ALT_NAME,
               OID_SUBJECT_KEY_IDENTIFIER, ExtensionId
<1>7. /\ request.role.some /\ request.role.val \in Seq(Octet) /\ Len(request.role.val) <= 121
      /\ request.san.some => request.san.val \in Seq(Octet)
      /\ request.ski.some => request.ski.val \in Seq(Octet) /\ Len(request.ski.val) = 1
      /\ request.san.some \in BOOLEAN /\ request.ski.some \in BOOLEAN
      /\ request.san = None \/ request.san = Some(request.san.val)
      /\ request.ski = None \/ request.ski = Some(request.ski.val)
      /\ request.role = Some(request.role.val)
      /\ Fingerprint(request.issuer) \in Seq(Octet) /\ Len(Fingerprint(request.issuer)) = 1
  BY RequestShort
<1>8. AuthorityKeyIdentifier(der) = Some(Fingerprint(request.issuer))
  <2>1. PICK o \in Seq(Octet) : o = Fingerprint(request.issuer) /\ Len(o) = 1 /\ Len(o) <= 127
    <3>1. 1 <= 127
      OBVIOUS
    <3> QED  BY <1>7, <3>1, ZenonT(60)
  <2>2. PICK v \in Seq(Octet) : v = Tlv(SEQUENCE, Tlv(KEY_ID, o)) /\ Len(v) <= 127
    <3>1. PICK m \in Seq(Octet) : m = Tlv(KEY_ID, o) /\ Len(m) = 3
      <4>1. /\ Tlv(KEY_ID, o) \in Seq(Octet) /\ Len(Tlv(KEY_ID, o)) = Len(o) + 2
            /\ Tlv(KEY_ID, o)[1] = KEY_ID /\ Tlv(KEY_ID, o)[2] = Len(o)
            /\ \E h \in Seq(Octet) : Tlv(KEY_ID, o) = h \o o /\ Len(h) = 2
        <5>1. KEY_ID \in Octet
          BY Tags
        <5> QED  BY <2>1, <5>1, ShortTlv, ZenonT(60)
      <4>2. 1 + 2 = 3
        OBVIOUS
      <4> QED  BY <2>1, <4>1, <4>2, Zenon
    <3>2. Len(m) <= 127
      BY <3>1
    <3>4. 3 + 2 <= 127
      OBVIOUS
    <3>3. /\ Tlv(SEQUENCE, m) \in Seq(Octet) /\ Len(Tlv(SEQUENCE, m)) = Len(m) + 2
          /\ Tlv(SEQUENCE, m)[1] = SEQUENCE /\ Tlv(SEQUENCE, m)[2] = Len(m)
          /\ \E h \in Seq(Octet) : Tlv(SEQUENCE, m) = h \o m /\ Len(h) = 2
      BY <1>0, <3>2, ShortTlv, ZenonT(60)
    <3> QED  BY <3>1, <3>3, <3>4, Zenon
  <2>3. f[35] = Some(After(FALSE, v))
    BY <1>2, <2>1, <2>2, Zenon DEF KeyIdsOf
  <2>4. ExtensionValue(der, ExtensionId(35)) = Some(v)
    BY <1>3, <1>4, <2>2, <2>3, Zenon
  <2>5. ExtensionValue(der, OID_AUTHORITY_KEY_IDENTIFIER) = Some(Tlv(SEQUENCE, Tlv(KEY_ID, o)))
    BY <1>6, <2>2, <2>4, Zenon
  <2> QED  BY <2>1, <2>5, KeyIdsRead
<1>9. CertificatePolicies(der) = Some(<< request.role.val >>)
  <2>1. PICK o \in Seq(Octet) : o = request.role.val /\ Len(o) <= 121
    BY <1>7
  <2>2. PICK v \in Seq(Octet) : v = Tlv(SEQUENCE, Tlv(SEQUENCE, Tlv(OID, o))) /\ Len(v) <= 127
    <3>1. PICK n \in Nat : n = Len(o) /\ n <= 121 /\ n <= 127 /\ n + 2 <= 127 /\ (n + 2) + 2 <= 127
                           /\ ((n + 2) + 2) + 2 <= 127
      BY <2>1
    <3>2. PICK a \in Seq(Octet) : a = Tlv(OID, o) /\ Len(a) = n + 2
      <4>1. /\ Tlv(OID, o) \in Seq(Octet) /\ Len(Tlv(OID, o)) = Len(o) + 2
            /\ Tlv(OID, o)[1] = OID /\ Tlv(OID, o)[2] = Len(o)
            /\ \E h \in Seq(Octet) : Tlv(OID, o) = h \o o /\ Len(h) = 2
        BY <1>0, <2>1, <3>1, ShortTlv, Zenon
      <4> QED  BY <3>1, <4>1, Zenon
    <3>3. PICK b \in Seq(Octet) : b = Tlv(SEQUENCE, a) /\ Len(b) = (n + 2) + 2
      <4>1. /\ Tlv(SEQUENCE, a) \in Seq(Octet) /\ Len(Tlv(SEQUENCE, a)) = Len(a) + 2
            /\ Tlv(SEQUENCE, a)[1] = SEQUENCE /\ Tlv(SEQUENCE, a)[2] = Len(a)
            /\ \E h \in Seq(Octet) : Tlv(SEQUENCE, a) = h \o a /\ Len(h) = 2
        <5>1. Len(a) <= 127
          BY <3>1, <3>2
        <5> QED  BY <1>0, <5>1, ShortTlv, ZenonT(60)
      <4> QED  BY <3>2, <4>1, Zenon
    <3>4. Len(b) <= 127
      BY <3>1, <3>3
    <3>5. /\ Tlv(SEQUENCE, b) \in Seq(Octet) /\ Len(Tlv(SEQUENCE, b)) = Len(b) + 2
          /\ Tlv(SEQUENCE, b)[1] = SEQUENCE /\ Tlv(SEQUENCE, b)[2] = Len(b)
          /\ \E h \in Seq(Octet) : Tlv(SEQUENCE, b) = h \o b /\ Len(h) = 2
      BY <1>0, <3>4, ShortTlv, ZenonT(60)
    <3>6. PICK v \in Seq(Octet) : v = Tlv(SEQUENCE, b) /\ Len(v) = ((n + 2) + 2) + 2
      BY <3>3, <3>5, Zenon
    <3>7. Len(v) <= 127
      BY <3>1, <3>6
    <3>8. v = Tlv(SEQUENCE, Tlv(SEQUENCE, Tlv(OID, o)))
      BY <3>2, <3>3, <3>6, Zenon
    <3> QED  BY <3>7, <3>8, Zenon
  <2>3. f[32] = Some(After(TRUE, v))
    BY <1>2, <2>1, <2>2, Zenon DEF PoliciesOf
  <2>4. ExtensionValue(der, ExtensionId(32)) = Some(v)
    BY <1>3, <1>4, <2>2, <2>3, Zenon
  <2>5. ExtensionValue(der, OID_CERTIFICATE_POLICIES) = Some(Tlv(SEQUENCE, Tlv(SEQUENCE, Tlv(OID, o))))
    BY <1>6, <2>2, <2>4, Zenon
  <2>6. CertificatePolicies(der) = Some(<< o >>)
    BY <2>1, <2>5, PoliciesRead
  <2> QED  BY <2>1, <2>6, Zenon
<1>10. SubjectAltName(der) = ReadBack(request.san, 4)
  <2>1. CASE request.san.some
    <3>1. PICK o \in Seq(Octet) : o = request.san.val /\ request.san = Some(o)
      BY <1>7, <2>1, Options, Zenon
    <3>2. PICK v \in Seq(Octet) : v = Tlv(SEQUENCE, Tlv(REGISTERED, o))
      <4>1. PICK m \in Seq(Octet) : m = Tlv(REGISTERED, o)
        BY Tags, TlvTyped
      <4>2. Tlv(SEQUENCE, m) \in Seq(Octet)
        BY Tags, TlvTyped
      <4> QED  BY <4>1, <4>2
    <3>3. f[17] = Some(After(FALSE, v))
      BY <1>2, <2>1, <3>1, <3>2, Zenon DEF NamesOf
    <3>4. ExtensionValue(der, ExtensionId(17)) = IF Len(v) <= 127 THEN Some(v) ELSE None
      BY <1>3, <1>4, <3>3, Zenon
    <3>5. ExtensionValue(der, OID_SUBJECT_ALT_NAME) =
            IF Len(Tlv(SEQUENCE, Tlv(REGISTERED, o))) <= 127
            THEN Some(Tlv(SEQUENCE, Tlv(REGISTERED, o))) ELSE None
      BY <1>6, <3>2, <3>4, Zenon
    <3>6. SubjectAltName(der) = ReadBack(Some(o), 4)
      BY <3>5, NamesRead, Zenon
    <3> QED  BY <3>1, <3>6, Zenon
  <2>2. CASE ~request.san.some
    <3>1. request.san = None
      BY <1>7, <2>2, Options, Zenon
    <3>2. ExtensionValue(der, ExtensionId(17)) = None
      BY <1>2, <1>3, <1>5, <2>2, Zenon
    <3>3. SubjectAltName(der) = None
      BY <1>6, <3>2, Options, Zenon DEF SubjectAltName, ExtensionSequence, IfSome
    <3>4. ReadBack(None, 4) = None
      BY Options, Zenon DEF ReadBack
    <3> QED  BY <3>1, <3>3, <3>4, Zenon
  <2> QED  BY <2>1, <2>2
<1>11. SubjectKeyIdentifier(der) = request.ski
  <2>1. CASE request.ski.some
    <3>1. PICK o \in Seq(Octet) : o = request.ski.val /\ Len(o) = 1 /\ request.ski = Some(o)
      BY <1>7, <2>1, Options, Zenon
    <3>2. PICK v \in Seq(Octet) : v = Tlv(OCTETS, o) /\ Len(v) <= 127
      <4>1. Len(o) <= 127 /\ 1 + 2 <= 127
        BY <3>1
      <4>2. /\ Tlv(OCTETS, o) \in Seq(Octet) /\ Len(Tlv(OCTETS, o)) = Len(o) + 2
            /\ Tlv(OCTETS, o)[1] = OCTETS /\ Tlv(OCTETS, o)[2] = Len(o)
            /\ \E h \in Seq(Octet) : Tlv(OCTETS, o) = h \o o /\ Len(h) = 2
        BY <1>0, <4>1, ShortTlv, Zenon
      <4> QED  BY <3>1, <4>1, <4>2, Zenon
    <3>3. f[14] = Some(After(FALSE, v))
      BY <1>2, <2>1, <3>1, <3>2, Zenon DEF KeyIdOf
    <3>4. ExtensionValue(der, ExtensionId(14)) = Some(v)
      BY <1>3, <1>4, <3>2, <3>3, Zenon
    <3>5. ExtensionValue(der, OID_SUBJECT_KEY_IDENTIFIER) = Some(Tlv(OCTETS, o))
      BY <1>6, <3>2, <3>4, Zenon
    <3>6. SubjectKeyIdentifier(der) = Some(o)
      BY <3>1, <3>5, KeyIdRead
    <3> QED  BY <3>1, <3>6, Zenon
  <2>2. CASE ~request.ski.some
    <3>1. request.ski = None
      BY <1>7, <2>2, Options, Zenon
    <3>2. ExtensionValue(der, ExtensionId(14)) = None
      BY <1>2, <1>3, <1>5, <2>2, Zenon
    <3>3. SubjectKeyIdentifier(der) = None
      BY <1>6, <3>2, Options, Zenon DEF SubjectKeyIdentifier, IfSome
    <3> QED  BY <3>1, <3>3, Zenon
  <2> QED  BY <2>1, <2>2
<1>12. /\ IsServerCertificateRole(der) = Some(request.role.val \in AuthRoles)
       /\ IndicatesDpPbRole(der) = Some(request.role.val \in PbRoles)
  BY <1>9, RolesTold, Zenon
<1> QED  BY <1>1, <1>8, <1>9, <1>10, <1>11, <1>12, Zenon DEF StatesSubject

\* The roles of a chain's certificates.
LEMMA RolesApart ==
  /\ OID_RSP_ROLE_DP_AUTH \in AuthRoles /\ OID_RSP_ROLE_DP_AUTH \notin PbRoles
  /\ OID_RSP_ROLE_DP_PB \in PbRoles /\ OID_RSP_ROLE_DP_PB \notin AuthRoles
  /\ OID_RSP_ROLE_EUICC \notin AuthRoles \cup PbRoles
  /\ OID_RSP_ROLE_CI_SUB_CA \notin AuthRoles \cup PbRoles
BY DEF AuthRoles, PbRoles, OID_RSP_ROLE_DP_AUTH, OID_RSP_ROLE_DP_PB, OID_RSP_ROLE_EUICC,
       OID_RSP_ROLE_CI_SUB_CA, OID_RSP_ROLE_DP_AUTH_V2, OID_RSP_ROLE_DP_PB_V2,
       OID_RSP_ROLE_DS_AUTH, OID_RSP_ROLE_DS_AUTH_V2

\* Their entities, which are short enough to be read back.
LEMMA EntitiesApart ==
  /\ Some(EUICC_SAN_OID) # Some(EUM_SAN_OID) /\ Some(CI_SAN_OID) # Some(EUM_SAN_OID)
  /\ \A san \in {EUM_SAN_OID, EUICC_SAN_OID, CI_SAN_OID} : ReadBack(Some(san), 4) = Some(san)
<1>1. /\ EUM_SAN_OID[3] = 103 /\ EUICC_SAN_OID[3] = 104 /\ CI_SAN_OID[3] = 105
      /\ \A san \in {EUM_SAN_OID, EUICC_SAN_OID, CI_SAN_OID} : Len(san) = 3
  BY DEF EUM_SAN_OID, EUICC_SAN_OID, CI_SAN_OID
<1>2. \A v : Some(v).some = TRUE /\ Some(v).val = v
  BY Options
<1>3. Some(EUICC_SAN_OID) # Some(EUM_SAN_OID) /\ Some(CI_SAN_OID) # Some(EUM_SAN_OID)
  BY <1>1, <1>2
<1>4. ASSUME NEW san \in {EUM_SAN_OID, EUICC_SAN_OID, CI_SAN_OID}
      PROVE  ReadBack(Some(san), 4) = Some(san)
  <2>1. Len(Some(san).val) = 3
    <3>1. Some(san).val = san
      BY <1>2, Zenon
    <3>2. Len(san) = 3
      BY <1>1, Zenon
    <3> QED  BY <3>1, <3>2, Zenon
  <2>2. ~(Len(Some(san).val) + 4 > 127)
    BY <2>1
  <2> QED  BY <2>2 DEF ReadBack
<1> QED  BY <1>3, <1>4

\* Each of a chain's requests has the role and the entity of its place.
LEMMA ChainRequests ==
  ASSUME NEW pki, NEW request \in ToSet(Chain(pki))
  PROVE  /\ (request.role.val \in AuthRoles) = (request = Chain(pki)[1])
         /\ (request.role.val \in PbRoles) = (request = Chain(pki)[4])
         /\ ReadBack(request.san, 4) = Some(EUM_SAN_OID) <=>
              request = Chain(pki)[1] \/ request = Chain(pki)[4]
<1>1. PICK chain : chain = Chain(pki)
  OBVIOUS
<1>2. /\ chain[1].role.val = OID_RSP_ROLE_DP_AUTH /\ chain[1].san = Some(EUM_SAN_OID)
      /\ chain[2].role.val = OID_RSP_ROLE_EUICC /\ chain[2].san = Some(EUICC_SAN_OID)
      /\ chain[3].role.val = OID_RSP_ROLE_CI_SUB_CA /\ chain[3].san = Some(CI_SAN_OID)
      /\ chain[4].role.val = OID_RSP_ROLE_DP_PB /\ chain[4].san = Some(EUM_SAN_OID)
  BY <1>1, Options DEF Chain, Request
<1>3. request = chain[1] \/ request = chain[2] \/ request = chain[3] \/ request = chain[4]
  <2>1. DOMAIN chain = 1 .. 4
    BY <1>1 DEF Chain
  <2>2. PICK i \in 1 .. 4 : request = chain[i]
    BY <1>1, <2>1 DEF ToSet
  <2> QED  BY <2>2
<1>4. /\ (request.role.val \in AuthRoles) = (request = chain[1])
      /\ (request.role.val \in PbRoles) = (request = chain[4])
  BY <1>2, <1>3, RolesApart
<1>5. ReadBack(request.san, 4) = Some(EUM_SAN_OID) <=> request = chain[1] \/ request = chain[4]
  <2>1. CASE request = chain[1] \/ request = chain[4]
    BY <1>2, <2>1, EntitiesApart, Zenon
  <2>2. CASE request = chain[2]
    BY <1>2, <1>4, <2>2, EntitiesApart, RolesApart, Zenon
  <2>3. CASE request = chain[3]
    BY <1>2, <1>4, <2>3, EntitiesApart, RolesApart, Zenon
  <2> QED  BY <1>3, <2>1, <2>2, <2>3
<1> QED  BY <1>1, <1>4, <1>5, Zenon

\* So octets that state the subject that was asked for serve in their chain.
LEMMA StatedServes ==
  ASSUME NEW der, NEW request, StatesSubject(der, request)
  PROVE  ServesInChain(der, request)
<1> SUFFICES ASSUME NEW pki \in made, request \in ToSet(Chain(pki))
             PROVE  /\ IsServerCertificateRole(der) = Some(request = Chain(pki)[1])
                    /\ IndicatesDpPbRole(der) = Some(request = Chain(pki)[4])
                    /\ SubjectAltName(der) = Some(EUM_SAN_OID) <=>
                         request = Chain(pki)[1] \/ request = Chain(pki)[4]
  BY Zenon DEF ServesInChain
<1>1. /\ SubjectAltName(der) = ReadBack(request.san, 4)
      /\ IsServerCertificateRole(der) = Some(request.role.val \in AuthRoles)
      /\ IndicatesDpPbRole(der) = Some(request.role.val \in PbRoles)
  BY Zenon DEF StatesSubject
<1>2. /\ (request.role.val \in AuthRoles) = (request = Chain(pki)[1])
      /\ (request.role.val \in PbRoles) = (request = Chain(pki)[4])
      /\ ReadBack(request.san, 4) = Some(EUM_SAN_OID) <=>
           request = Chain(pki)[1] \/ request = Chain(pki)[4]
  BY ChainRequests
<1>3. IsServerCertificateRole(der) = Some(request = Chain(pki)[1])
  BY <1>1, <1>2
<1>4. IndicatesDpPbRole(der) = Some(request = Chain(pki)[4])
  BY <1>1, <1>2
<1>5. SubjectAltName(der) = Some(EUM_SAN_OID) <=>
        request = Chain(pki)[1] \/ request = Chain(pki)[4]
  BY <1>1, <1>2
<1> QED  BY <1>3, <1>4, <1>5

\* A certificate that arrives whole says of its subject and its issuer what was asked for,
\* though every extension is found by a search of all its octets (testpki.rs 426-480,
\* x509.rs 439-473): nothing in front of an extension, and nothing behind it, is mistaken
\* for it.  And one of a chain serves what it is made for and nothing else: one
\* authenticates a server, one binds profiles, and these two name one entity
\* (testpki.rs 128-179).
THEOREM SubjectArrives == Spec => []SubjectAsIssued
<1>1. IInv => SubjectAsIssued
  <2> SUFFICES ASSUME IInv, Whole
               PROVE  /\ StatesSubject(reading.der, reading.request)
                      /\ ServesInChain(reading.der, reading.request)
    BY DEF SubjectAsIssued
  <2>1. PICK c \in issued : reading.request = c.request /\ reading.der = c.der
    BY ReadingIs DEF Whole
  <2>2. PICK request \in Requested, s \in Seq(Octet) :
           Len(s) = 3 /\ request = c.request /\ c.der = Assemble(Tbs(request), s)
    BY CertificateOf
  <2>3. StatesSubject(Assemble(Tbs(request), s), request)
    BY <2>2, SubjectStated
  <2>4. StatesSubject(reading.der, reading.request)
    BY <2>1, <2>2, <2>3, Zenon
  <2> QED  BY <2>4, StatedServes, Zenon
<1> QED  BY <1>1, Invariant, PTL
=============================================================================
