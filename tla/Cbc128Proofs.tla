---------------------------- MODULE Cbc128Proofs ----------------------------
(***************************************************************************)
(* What encrypt and decrypt of cbc128.rs promise, for every block length,  *)
(* every range of bytes, every cipher and every plaintext.                 *)
(***************************************************************************)
EXTENDS Cbc128, FunctionTheorems, SequenceTheorems, WellFoundedInduction, TLAPS

LEMMA Split ==
  ASSUME NEW n \in Nat
  PROVE  /\ n \div BLOCK_LEN \in Nat
         /\ n % BLOCK_LEN \in 0 .. BLOCK_LEN - 1
         /\ n = BLOCK_LEN * (n \div BLOCK_LEN) + (n % BLOCK_LEN)
<1>1. \A b \in Nat \ {0} : /\ n \div b \in Nat
                           /\ n % b \in 0 .. b - 1
                           /\ n = b * (n \div b) + (n % b)
  OBVIOUS
<1> QED  BY <1>1, BlockAssumption

LEMMA Distributes ==
  ASSUME NEW b \in Nat, NEW q \in Nat
  PROVE  b * (q + 1) = b * q + b
OBVIOUS

LEMMA WholeBlocks ==
  ASSUME NEW b \in Nat \ {0}, NEW q \in Nat
  PROVE  (b * q) % b = 0
OBVIOUS

\* Padding ends on a block boundary and is never empty.
LEMMA PaddedLength ==
  ASSUME NEW n \in Nat
  PROVE  /\ BLOCK_LEN - (n % BLOCK_LEN) \in 1 .. BLOCK_LEN
         /\ (n + (BLOCK_LEN - (n % BLOCK_LEN))) % BLOCK_LEN = 0
<1>1. BLOCK_LEN \in Nat \ {0}  BY BlockAssumption
<1>2. BLOCK_LEN - (n % BLOCK_LEN) \in 1 .. BLOCK_LEN
  BY <1>1, Split
<1>3. PICK q \in Nat, r \in 0 .. BLOCK_LEN - 1 :
        /\ r = n % BLOCK_LEN
        /\ n = BLOCK_LEN * q + r
  BY Split
<1>4. PICK p \in Nat : p = BLOCK_LEN * q
  BY <1>1
<1>5. n + (BLOCK_LEN - r) = p + BLOCK_LEN
  BY <1>1, <1>3, <1>4
<1>6. n + (BLOCK_LEN - r) = BLOCK_LEN * (q + 1)
  BY <1>1, <1>4, <1>5, Distributes
<1>7. (BLOCK_LEN * (q + 1)) % BLOCK_LEN = 0
  <2>1. q + 1 \in Nat  OBVIOUS
  <2> QED  BY <1>1, <2>1, WholeBlocks
<1> QED  BY <1>2, <1>3, <1>6, <1>7

LEMMA PaddingBytes ==
  ASSUME NEW n \in Nat
  PROVE  /\ Padding(n) \in Seq(Octet)
         /\ Len(Padding(n)) = n
         /\ \A i \in 1 .. n : Padding(n)[i] = IF i = 1 THEN Marker ELSE 0
<1>1. Marker \in Octet /\ 0 \in Octet
  BY OctetAssumption DEF Octet
<1>2. \A i \in 1 .. n : (IF i = 1 THEN Marker ELSE 0) \in Octet
  BY <1>1
<1> QED  BY <1>2 DEF Padding

\* Where everything in a padded plaintext is.
LEMMA PaddedBytes ==
  ASSUME NEW data \in Seq(Octet)
  PROVE  /\ Pad(data) \in Seq(Octet)
         /\ Len(Pad(data)) >= Len(data) + 1
         /\ Len(Pad(data)) % BLOCK_LEN = 0
         /\ \A i \in 1 .. Len(data) : Pad(data)[i] = data[i]
         /\ Pad(data)[Len(data) + 1] = Marker
         /\ \A i \in Len(data) + 2 .. Len(Pad(data)) : Pad(data)[i] = 0
<1> DEFINE n == BLOCK_LEN - (Len(data) % BLOCK_LEN)
<1>1. Len(data) \in Nat  OBVIOUS
<1>2. n \in 1 .. BLOCK_LEN /\ (Len(data) + n) % BLOCK_LEN = 0
  BY <1>1, PaddedLength
<1>3. n \in Nat /\ n >= 1
  BY <1>2, BlockAssumption
<1>4. Pad(data) = data \o Padding(n)
  BY DEF Pad
<1> HIDE DEF n
<1>5. Padding(n) \in Seq(Octet) /\ Len(Padding(n)) = n
  BY <1>3, PaddingBytes
<1>6. Pad(data) \in Seq(Octet) /\ Len(Pad(data)) = Len(data) + n
  BY <1>4, <1>5, ConcatProperties
<1>7. \A i \in 1 .. Len(data) : Pad(data)[i] = data[i]
  BY <1>4, <1>5
<1>8. \A i \in Len(data) + 1 .. Len(data) + n : Pad(data)[i] = Padding(n)[i - Len(data)]
  BY <1>4, <1>5, <1>3
<1>9. Padding(n)[1] = Marker
  BY <1>3, PaddingBytes
<1>10. \A i \in 2 .. n : Padding(n)[i] = 0
  BY <1>3, PaddingBytes, SMTT(40)
<1>11. Pad(data)[Len(data) + 1] = Marker
  BY <1>1, <1>3, <1>8, <1>9
<1>12. ASSUME NEW i \in Len(data) + 2 .. Len(data) + n
       PROVE  Pad(data)[i] = 0
  <2>1. i - Len(data) \in 2 .. n  BY <1>1, <1>3
  <2>2. i \in Len(data) + 1 .. Len(data) + n  BY <1>1, <1>3
  <2> QED  BY <1>8, <1>10, <2>1, <2>2
<1> QED  BY <1>1, <1>2, <1>3, <1>6, <1>7, <1>11, <1>12

\* A marker that only zeroes follow is the last one, whatever stands before it.
LEMMA MarkerIsLast ==
  ASSUME NEW S, NEW p \in Seq(S), NEW k \in Nat, Len(p) >= k + 1,
         p[k + 1] = Marker, \A i \in k + 2 .. Len(p) : p[i] = 0
  PROVE  LastMarker(p) = k + 1 /\ IsMarked(p)
<1> DEFINE Last(i) == p[i] = Marker /\ \A j \in i + 1 .. Len(p) : p[j] # Marker
<1>1. Len(p) \in Nat /\ k + 1 \in 1 .. Len(p)
  OBVIOUS
<1>2. Last(k + 1)
  <2>1. ASSUME NEW j \in (k + 1) + 1 .. Len(p) PROVE p[j] # Marker
    <3>1. j \in k + 2 .. Len(p)  BY <1>1
    <3> QED  BY <3>1, OctetAssumption
  <2> QED  BY <2>1
<1>3. ASSUME NEW i \in 1 .. Len(p), Last(i) PROVE i = k + 1
  <2>1. CASE i < k + 1
    <3>1. k + 1 \in i + 1 .. Len(p)  BY <1>1, <2>1
    <3> QED  BY <1>3, <3>1
  <2>2. CASE i > k + 1
    <3>1. i \in k + 2 .. Len(p)  BY <1>1, <2>2
    <3>2. p[i] = 0  BY <3>1
    <3> QED  BY <1>3, <3>2, OctetAssumption
  <2> QED  BY <1>1, <2>1, <2>2
<1>4. LastMarker(p) = CHOOSE i \in 1 .. Len(p) : Last(i)
  BY DEF LastMarker
<1> HIDE DEF Last
<1>5. LastMarker(p) = k + 1
  BY <1>1, <1>2, <1>3, <1>4
<1> QED  BY <1>1, <1>5 DEF IsMarked

\* What unpad returns of data that ends with padding: all that precedes it.
LEMMA UnpadAtMarker ==
  ASSUME NEW S, NEW p \in Seq(S), NEW k \in Nat, Len(p) >= k + 1, Len(p) % BLOCK_LEN = 0,
         p[k + 1] = Marker, \A i \in k + 2 .. Len(p) : p[i] = 0
  PROVE  /\ Unpad(p) = Ok(SubSeq(p, 1, k))
         /\ SubSeq(p, 1, k) \in Seq(S)
         /\ Len(SubSeq(p, 1, k)) = k
         /\ \A i \in 1 .. k : SubSeq(p, 1, k)[i] = p[i]
<1>1. LastMarker(p) = k + 1 /\ IsMarked(p)
  BY MarkerIsLast
<1>2. p # <<>> /\ Len(p) \in Nat /\ k <= Len(p)
  OBVIOUS
<1>3. \A j \in LastMarker(p) + 1 .. Len(p) : p[j] = 0
  <2>1. LastMarker(p) + 1 = k + 2  BY <1>1
  <2> QED  BY <2>1
<1>4. LastMarker(p) - 1 = k
  BY <1>1
<1>5. Unpad(p) = Ok(SubSeq(p, 1, k))
  BY <1>1, <1>2, <1>3, <1>4 DEF Unpad
<1> QED  BY <1>2, <1>5

\* pad always adds a marker, so that unpad can always tell padding from data
\* (cbc128.rs 54-66): stripping gives back any plaintext, those that end in
\* zeroes or in the marker itself included.
THEOREM PaddingRoundTrip ==
  ASSUME NEW data \in Seq(Octet)
  PROVE  Unpad(Pad(data)) = Ok(data)
<1> DEFINE p == Pad(data)
<1>1. PICK k \in Nat : k = Len(data)
  OBVIOUS
<1>2. /\ p \in Seq(Octet)
      /\ Len(p) >= k + 1
      /\ Len(p) % BLOCK_LEN = 0
      /\ \A i \in 1 .. k : p[i] = data[i]
      /\ p[k + 1] = Marker
      /\ \A i \in k + 2 .. Len(p) : p[i] = 0
  BY <1>1, PaddedBytes
<1> HIDE DEF p
<1>3. /\ Unpad(p) = Ok(SubSeq(p, 1, k))
      /\ SubSeq(p, 1, k) \in Seq(Octet)
      /\ Len(SubSeq(p, 1, k)) = k
      /\ \A i \in 1 .. k : SubSeq(p, 1, k)[i] = p[i]
  BY <1>2, UnpadAtMarker
<1>4. SubSeq(p, 1, k) = data
  BY <1>1, <1>2, <1>3, SeqEqual
<1> QED  BY <1>3, <1>4 DEF p

-----------------------------------------------------------------------------
(* What unpad accepts *)

\* A nonempty set of positions has a last one.
LEMMA LastOne ==
  ASSUME NEW n \in Nat, NEW T, T \subseteq 1 .. n, T # {}
  PROVE  \E i \in T : \A j \in T : j <= i
<1> DEFINE U == {n - i : i \in T}
<1>1. U \subseteq Nat /\ U # {}
  <2>1. \A i \in 1 .. n : n - i \in Nat  OBVIOUS
  <2> QED  BY <2>1
<1>2. PICK u \in U : \A v \in U : ~ (<<v, u>> \in OpToRel(<, Nat))
  <2> HIDE DEF U
  <2> QED  BY <1>1, NatLessThanWellFounded, WFMin
<1>3. \A v \in U : ~ (v < u)
  <2>1. \A v \in Nat, w \in Nat : v < w => <<v, w>> \in OpToRel(<, Nat)
    BY DEF OpToRel
  <2> HIDE DEF U
  <2> QED  BY <1>1, <1>2, <2>1
<1>4. PICK i \in T : u = n - i
  OBVIOUS
<1>5. ASSUME NEW j \in T PROVE j <= i
  <2>1. ~ (n - j < n - i)  BY <1>3, <1>4
  <2> QED  BY <2>1
<1> QED  BY <1>5

LEMMA LastMarkerIsLast ==
  ASSUME NEW S, NEW p \in Seq(S), IsMarked(p)
  PROVE  /\ LastMarker(p) \in 1 .. Len(p)
         /\ p[LastMarker(p)] = Marker
         /\ \A j \in LastMarker(p) + 1 .. Len(p) : p[j] # Marker
<1> DEFINE T == {i \in 1 .. Len(p) : p[i] = Marker}
           Last(i) == p[i] = Marker /\ \A j \in i + 1 .. Len(p) : p[j] # Marker
<1>1. Len(p) \in Nat /\ T \subseteq 1 .. Len(p) /\ T # {}
  BY DEF IsMarked
<1>2. PICK i \in T : \A j \in T : j <= i
  <2> HIDE DEF T
  <2> QED  BY <1>1, LastOne
<1>3. i \in 1 .. Len(p) /\ Last(i)
  <2>1. ASSUME NEW j \in i + 1 .. Len(p), p[j] = Marker PROVE FALSE
    <3>1. j \in T  BY <1>1, <2>1
    <3> QED  BY <1>1, <1>2, <3>1
  <2> QED  BY <2>1
<1>4. LastMarker(p) = CHOOSE k \in 1 .. Len(p) : Last(k)
  BY DEF LastMarker
<1>5. LastMarker(p) \in 1 .. Len(p) /\ Last(LastMarker(p))
  <2> HIDE DEF Last
  <2> QED  BY <1>3, <1>4
<1> QED  BY <1>5

LEMMA SeqWidens ==
  ASSUME NEW S, NEW T, NEW s, s \in Seq(S) \/ s \in Seq(T)
  PROVE  s \in Seq(S \cup T)
OBVIOUS

\* A sequence is its beginning followed by its end.
LEMMA Reassembled ==
  ASSUME NEW T, NEW p \in Seq(T), NEW d \in Seq(T), NEW e \in Seq(T),
         Len(d) + Len(e) = Len(p),
         \A i \in 1 .. Len(d) : d[i] = p[i],
         \A i \in 1 .. Len(e) : e[i] = p[Len(d) + i]
  PROVE  d \o e = p
<1>1. d \o e \in Seq(T) /\ Len(d \o e) = Len(p)
  BY ConcatProperties
<1>2. ASSUME NEW i \in 1 .. Len(p) PROVE (d \o e)[i] = p[i]
  <2>1. (d \o e)[i] = IF i <= Len(d) THEN d[i] ELSE e[i - Len(d)]
    BY ConcatProperties
  <2>2. CASE i <= Len(d)
    BY <2>1, <2>2
  <2>3. CASE i > Len(d)
    <3>1. i - Len(d) \in 1 .. Len(e)  BY <2>3
    <3>2. Len(d) + (i - Len(d)) = i  OBVIOUS
    <3> QED  BY <2>1, <2>3, <3>1, <3>2
  <2> QED  BY <2>2, <2>3
<1> QED  BY <1>1, <1>2, SeqEqual

\* Whatever unpad strips is a marker and zeroes.
LEMMA UnpadStrips ==
  ASSUME NEW S, NEW p \in Seq(S), Unpad(p).ok
  PROVE  \E k \in 0 .. Len(p) - 1 :
           p = SubSeq(p, 1, k) \o Padding(Len(p) - k) /\ Unpad(p) = Ok(SubSeq(p, 1, k))
<1> DEFINE m == LastMarker(p)
           d == SubSeq(p, 1, m - 1)
           n == Len(p) - Len(d)
<1>1. /\ IsMarked(p)
      /\ \A j \in m + 1 .. Len(p) : p[j] = 0
      /\ Unpad(p) = Ok(d)
  BY DEF Unpad, Ok, Err
<1>2. m \in 1 .. Len(p) /\ p[m] = Marker
  BY <1>1, LastMarkerIsLast
<1> HIDE DEF m
<1>3. /\ d \in Seq(S)
      /\ Len(d) = m - 1
      /\ \A i \in 1 .. m - 1 : d[i] = p[i]
  BY <1>2
<1> HIDE DEF d
<1>4. n \in Nat /\ n = Len(p) - m + 1
  BY <1>2, <1>3
<1>5. n = Len(p) - Len(d)
  OBVIOUS
<1> HIDE DEF n
<1>6. /\ Padding(n) \in Seq(Octet)
      /\ Len(Padding(n)) = n
      /\ \A i \in 1 .. n : Padding(n)[i] = IF i = 1 THEN Marker ELSE 0
  BY <1>4, PaddingBytes
<1>7. /\ d \in Seq(S \cup Octet)
      /\ Padding(n) \in Seq(S \cup Octet)
      /\ p \in Seq(S \cup Octet)
  BY <1>3, <1>6, SeqWidens
<1>8. Len(d) + Len(Padding(n)) = Len(p)
  <2>1. Len(d) \in Nat /\ Len(p) \in Nat  BY <1>3
  <2> QED  BY <1>6, <2>1, <1>5
<1>9. ASSUME NEW i \in 1 .. Len(Padding(n))
      PROVE  Padding(n)[i] = p[Len(d) + i]
  <2>1. i \in 1 .. n  BY <1>6
  <2>2. CASE i = 1
    BY <1>2, <1>3, <1>6, <2>1, <2>2
  <2>3. CASE i # 1
    <3>1. Len(d) + i \in m + 1 .. Len(p)
      BY <1>2, <1>3, <1>4, <2>1, <2>3
    <3> QED  BY <1>1, <1>6, <2>1, <2>3, <3>1
  <2> QED  BY <2>2, <2>3
<1>10. \A i \in 1 .. Len(d) : d[i] = p[i]
  BY <1>3
<1>11. d \o Padding(n) = p
  <2>1. PICK T, e : /\ d \in Seq(T) /\ e \in Seq(T) /\ p \in Seq(T)
                    /\ e = Padding(n)
    BY <1>7
  <2>2. d \o e = p
    BY <1>8, <1>9, <1>10, <2>1, Reassembled
  <2> QED  BY <2>1, <2>2
<1>12. m - 1 \in 0 .. Len(p) - 1 /\ n = Len(p) - (m - 1)
  BY <1>2, <1>4
<1>13. p = SubSeq(p, 1, m - 1) \o Padding(Len(p) - (m - 1))
  BY <1>11, <1>12 DEF d
<1> QED  BY <1>1, <1>12, <1>13 DEF d

\* And whatever ends in a marker and zeroes is stripped of these.
LEMMA UnpadAccepts ==
  ASSUME NEW S, NEW p \in Seq(S), Len(p) % BLOCK_LEN = 0, NEW k \in 0 .. Len(p) - 1,
         p = SubSeq(p, 1, k) \o Padding(Len(p) - k)
  PROVE  Unpad(p) = Ok(SubSeq(p, 1, k))
<1>1. PICK n \in Nat : n = Len(p) - k /\ n >= 1
  OBVIOUS
<1>2. k \in Nat /\ Len(p) >= k + 1 /\ Len(p) = k + n
  BY <1>1
<1>0. p \in Seq(S) /\ Len(p) \in Nat /\ k <= Len(p)
  BY <1>2
<1>3. PICK d \in Seq(S) : d = SubSeq(p, 1, k) /\ Len(d) = k
  <2>1. SubSeq(p, 1, k) \in Seq(S) /\ Len(SubSeq(p, 1, k)) = k
    BY <1>0, <1>2
  <2> QED  BY <2>1
<1>4. PICK e \in Seq(Octet) : /\ e = Padding(n) /\ Len(e) = n
                              /\ \A i \in 1 .. n : e[i] = IF i = 1 THEN Marker ELSE 0
  BY <1>1, PaddingBytes
<1>5. p = d \o e
  BY <1>1, <1>3, <1>4
<1>6. \A i \in 1 .. n : p[k + i] = e[i]
  <2>1. d \in Seq(S \cup Octet) /\ e \in Seq(S \cup Octet)
    BY <1>3, <1>4, SeqWidens
  <2>2. \A i \in 1 .. n : k + i \in 1 .. Len(d) + Len(e) /\ ~(k + i <= Len(d)) /\ (k + i) - Len(d) = i
    BY <1>2, <1>3, <1>4
  <2> QED  BY <1>5, <2>1, <2>2, ConcatProperties
<1>7. p[k + 1] = Marker
  <2>1. 1 \in 1 .. n
    BY <1>1
  <2> QED  BY <1>4, <1>6, <2>1
<1>8. ASSUME NEW i \in k + 2 .. Len(p) PROVE p[i] = 0
  <2>1. PICK l \in 1 .. n : l = i - k /\ l # 1 /\ k + l = i
    BY <1>2
  <2> QED  BY <1>4, <1>6, <2>1
<1> QED  BY <1>2, <1>7, <1>8, UnpadAtMarker

-----------------------------------------------------------------------------
(* What a caller of decrypt gets *)

\* Some sequence, whatever its elements are.
IsSequence(s) == \E S : s \in Seq(S)

LEMMA JoinedIsSequence ==
  ASSUME NEW block, NEW n \in Nat
  PROVE  IsSequence(Joined(block, n)) /\ Len(Joined(block, n)) % BLOCK_LEN = 0
<1> DEFINE byte(i) == block[((i - 1) \div BLOCK_LEN) + 1][((i - 1) % BLOCK_LEN) + 1]
<1>1. PICK m \in Nat : m = n * BLOCK_LEN
  BY BlockAssumption
<1>2. Joined(block, n) = [i \in 1 .. m |-> byte(i)]
  BY <1>1 DEF Joined
<1> HIDE DEF byte
<1>3. [i \in 1 .. m |-> byte(i)] \in Seq({byte(i) : i \in 1 .. m})
  OBVIOUS
<1>4. Len([i \in 1 .. m |-> byte(i)]) = m
  OBVIOUS
<1>5. m % BLOCK_LEN = 0
  <2>1. n * BLOCK_LEN = BLOCK_LEN * n
    BY BlockAssumption
  <2> QED  BY <1>1, <2>1, WholeBlocks, BlockAssumption
<1> QED  BY <1>2, <1>3, <1>4, <1>5 DEF IsSequence

LEMMA CountIsNatural ==
  ASSUME NEW s, IsSequence(s)
  PROVE  BlockCount(s) \in Nat
<1>1. Len(s) \in Nat  BY DEF IsSequence
<1> QED  BY <1>1, Split DEF BlockCount

LEMMA CbcEncryptIsSequence ==
  ASSUME NEW key, NEW iv, NEW padded, IsSequence(padded)
  PROVE  IsSequence(CbcEncrypt(key, iv, padded))
<1> DEFINE cipher[j \in 0 .. BlockCount(padded)] ==
             IF j = 0 THEN iv ELSE Aes[key][XorBlock(BlockAt(padded, j), cipher[j - 1])]
<1>1. CbcEncrypt(key, iv, padded) = Joined(cipher, BlockCount(padded))
  BY DEF CbcEncrypt
<1> HIDE DEF cipher
<1> QED  BY <1>1, CountIsNatural, JoinedIsSequence

LEMMA CbcDecryptIsSequence ==
  ASSUME NEW key, NEW iv, NEW bytes, IsSequence(bytes)
  PROVE  IsSequence(CbcDecrypt(key, iv, bytes)) /\ Len(CbcDecrypt(key, iv, bytes)) % BLOCK_LEN = 0
<1> DEFINE before(j) == IF j = 1 THEN iv ELSE BlockAt(bytes, j - 1)
           plain == [j \in 1 .. BlockCount(bytes) |->
                       XorBlock(Inverse(Aes[key], Block, Block)[BlockAt(bytes, j)], before(j))]
<1>1. CbcDecrypt(key, iv, bytes) = Joined(plain, BlockCount(bytes))
  BY DEF CbcDecrypt
<1> HIDE DEF plain
<1> QED  BY <1>1, CountIsNatural, JoinedIsSequence

\* Both calls are what they claim to be.
CallsRecorded ==
  /\ sealed.made /\ sealed.out.ok => IsSequence(sealed.out.val)
  /\ opened.made => /\ IsSequence(opened.in)
                    /\ opened.out = Decrypt(opened.key, opened.in, opened.number)

LEMMA BytesAreSequences ==
  ASSUME NEW s \in Bytes
  PROVE  s \in Seq(Octet) /\ IsSequence(s)
<1>1. PICK n \in 0 .. MaxLen : s \in [1 .. n -> Octet]
  BY DEF Bytes
<1>2. s \in Seq(Octet)
  BY <1>1
<1> QED  BY <1>2 DEF IsSequence

LEMMA SealRecorded ==
  ASSUME CallsRecorded, NEW key, NEW number, NEW plaintext \in Bytes,
         Seal(key, number, plaintext)
  PROVE  CallsRecorded'
<1>1. /\ sealed' = Call(key, number, plaintext, Encrypt(key, plaintext, number))
      /\ ~opened.made /\ opened' = opened
  BY DEF Seal
<1>2. sealed'.out = Encrypt(key, plaintext, number)
  BY <1>1 DEF Call
<1>3. ASSUME Encrypt(key, plaintext, number).ok
      PROVE  IsSequence(Encrypt(key, plaintext, number).val)
  <2>1. IsSequence(Pad(plaintext))
    BY BytesAreSequences, PaddedBytes DEF IsSequence
  <2>2. IsSequence(CbcEncrypt(key, Icv(key, number), Pad(plaintext)))
    BY <2>1, CbcEncryptIsSequence
  <2>3. Encrypt(key, plaintext, number).val = CbcEncrypt(key, Icv(key, number), Pad(plaintext))
    BY <1>3 DEF Encrypt, Ok, Err
  <2> QED  BY <2>2, <2>3
<1> QED  BY <1>1, <1>2, <1>3 DEF CallsRecorded

LEMMA OpenRecorded ==
  ASSUME CallsRecorded, NEW key, NEW number, NEW bytes, IsSequence(bytes),
         opened' = Call(key, number, bytes, Decrypt(key, bytes, number)),
         UNCHANGED sealed
  PROVE  CallsRecorded'
<1>1. /\ opened'.in = bytes
      /\ opened'.key = key
      /\ opened'.number = number
      /\ opened'.out = Decrypt(key, bytes, number)
  BY DEF Call
<1> QED  BY <1>1 DEF CallsRecorded

LEMMA AlwaysRecorded == Spec => []CallsRecorded
<1>1. Init => CallsRecorded
  BY DEF Init, CallsRecorded, NoCall
<1>2. ASSUME CallsRecorded, [Next]_vars PROVE CallsRecorded'
  <2>1. CASE Next
    <3>1. PICK key \in Key \cup BadKey, number \in Numbers :
            \/ \E plaintext \in Bytes : Seal(key, number, plaintext)
            \/ Open(key, number)
            \/ \E bytes \in Bytes : OpenForeign(key, number, bytes)
      BY <2>1 DEF Next
    <3>2. CASE \E plaintext \in Bytes : Seal(key, number, plaintext)
      BY <1>2, <3>2, SealRecorded
    <3>3. CASE Open(key, number)
      <4>1. IsSequence(sealed.out.val)
        BY <1>2, <3>3 DEF Open, CallsRecorded
      <4> QED  BY <1>2, <3>3, <4>1, OpenRecorded DEF Open
    <3>4. CASE \E bytes \in Bytes : OpenForeign(key, number, bytes)
      <4>1. PICK bytes \in Bytes : OpenForeign(key, number, bytes)  BY <3>4
      <4>2. IsSequence(bytes)  BY BytesAreSequences
      <4> QED  BY <1>2, <4>1, <4>2, OpenRecorded DEF OpenForeign
    <3> QED  BY <3>1, <3>2, <3>3, <3>4
  <2>2. CASE UNCHANGED vars
    BY <1>2, <2>2 DEF vars, CallsRecorded
  <2> QED  BY <1>2, <2>1, <2>2
<1> QED  BY <1>1, <1>2, PTL DEF Spec

\* Of any bytes, under any key and block number, decrypt strips a marker and the
\* zeroes behind it and nothing else, and refuses what does not end in them
\* (cbc128.rs 73-97).
THEOREM OnlyMarkerAndZeroesStripped == Spec => []StripsMarkerAndZeroes
<1>1. ASSUME CallsRecorded PROVE StripsMarkerAndZeroes
  <2> DEFINE padded == CbcDecrypt(opened.key, Icv(opened.key, opened.number), opened.in)
             Ends(k) == padded = SubSeq(padded, 1, k) \o Padding(Len(padded) - k)
  <2>1. SUFFICES ASSUME opened.made, opened.key \in Key, Len(opened.in) % BLOCK_LEN = 0
                 PROVE  /\ \A k \in 0 .. Len(padded) - 1 :
                             Ends(k) => opened.out = Ok(SubSeq(padded, 1, k))
                        /\ opened.out.ok =>
                             \E k \in 0 .. Len(padded) - 1 :
                               Ends(k) /\ opened.out = Ok(SubSeq(padded, 1, k))
    BY DEF StripsMarkerAndZeroes
  <2>2. /\ IsSequence(opened.in)
        /\ opened.out = Decrypt(opened.key, opened.in, opened.number)
    BY <1>1, <2>1 DEF CallsRecorded
  <2>3. opened.out = Unpad(padded)
    BY <2>1, <2>2 DEF Decrypt
  <2>4. IsSequence(padded) /\ Len(padded) % BLOCK_LEN = 0
    BY <2>2, CbcDecryptIsSequence
  <2> HIDE DEF padded
  <2>5. PICK S : padded \in Seq(S)
    BY <2>4 DEF IsSequence
  <2>6. \A k \in 0 .. Len(padded) - 1 : Ends(k) => opened.out = Ok(SubSeq(padded, 1, k))
    BY <2>3, <2>4, <2>5, UnpadAccepts
  <2>7. opened.out.ok =>
          \E k \in 0 .. Len(padded) - 1 : Ends(k) /\ opened.out = Ok(SubSeq(padded, 1, k))
    BY <2>3, <2>5, UnpadStrips
  <2> QED  BY <2>6, <2>7
<1> QED  BY <1>1, AlwaysRecorded, PTL

-----------------------------------------------------------------------------
(* Division into blocks *)

\* A product with a block length keeps the order.
LEMMA ProductGrows ==
  ASSUME NEW b \in Nat \ {0}, NEW m \in Nat, NEW n \in Nat, m < n
  PROVE  b * m + b <= b * n
<1>1. PICK d \in Nat : n = (m + 1) + d
  <2>1. n - (m + 1) \in Nat /\ n = (m + 1) + (n - (m + 1))  OBVIOUS
  <2> QED  BY <2>1
<1>2. b * n = b * (m + 1) + b * d
  BY <1>1
<1>3. b * d \in Nat /\ b * m \in Nat
  OBVIOUS
<1>4. b * (m + 1) = b * m + b
  BY Distributes
<1> QED  BY <1>2, <1>3, <1>4

\* Quotient and remainder are what they look like.
LEMMA Quotient ==
  ASSUME NEW q \in Nat, NEW r \in 0 .. BLOCK_LEN - 1
  PROVE  /\ BLOCK_LEN * q + r \in Nat
         /\ (BLOCK_LEN * q + r) \div BLOCK_LEN = q
         /\ (BLOCK_LEN * q + r) % BLOCK_LEN = r
<1>1. BLOCK_LEN \in Nat \ {0} /\ r \in Nat
  BY BlockAssumption
<1>2. BLOCK_LEN * q \in Nat
  BY <1>1
<1>3. PICK n \in Nat : n = BLOCK_LEN * q + r
  BY <1>1, <1>2
<1>4. PICK p \in Nat, s \in 0 .. BLOCK_LEN - 1 :
        p = n \div BLOCK_LEN /\ s = n % BLOCK_LEN /\ n = BLOCK_LEN * p + s
  BY Split
<1>5. BLOCK_LEN * p \in Nat /\ s \in Nat /\ s < BLOCK_LEN /\ r < BLOCK_LEN
  BY <1>1
<1>6. CASE p < q
  <2>1. BLOCK_LEN * p + BLOCK_LEN <= BLOCK_LEN * q  BY <1>1, <1>6, ProductGrows
  <2> QED  BY <1>1, <1>2, <1>3, <1>4, <1>5, <2>1
<1>7. CASE q < p
  <2>1. BLOCK_LEN * q + BLOCK_LEN <= BLOCK_LEN * p  BY <1>1, <1>7, ProductGrows
  <2> QED  BY <1>1, <1>2, <1>3, <1>4, <1>5, <2>1
<1>8. CASE p = q
  BY <1>2, <1>3, <1>4, <1>5, <1>8
<1> QED  BY <1>6, <1>7, <1>8

\* Where a byte is in its block, and that there are as many blocks as that.
LEMMA InBlocks ==
  ASSUME NEW n \in Nat, NEW i \in 1 .. BLOCK_LEN * n
  PROVE  /\ ((i - 1) \div BLOCK_LEN) + 1 \in 1 .. n
         /\ ((i - 1) % BLOCK_LEN) + 1 \in 1 .. BLOCK_LEN
         /\ i = BLOCK_LEN * ((i - 1) \div BLOCK_LEN) + (((i - 1) % BLOCK_LEN) + 1)
<1>1. BLOCK_LEN \in Nat \ {0} /\ BLOCK_LEN * n \in Nat
  BY BlockAssumption
<1>2. PICK q \in Nat, r \in 0 .. BLOCK_LEN - 1 :
        q = (i - 1) \div BLOCK_LEN /\ r = (i - 1) % BLOCK_LEN /\ i - 1 = BLOCK_LEN * q + r
  <2>1. i - 1 \in Nat  BY <1>1
  <2> QED  BY <2>1, Split
<1>3. BLOCK_LEN * q \in Nat
  BY <1>1
<1>4. q < n
  <2>1. CASE n < q
    BY <1>1, <1>2, <1>3, <2>1, ProductGrows
  <2>2. CASE n = q
    BY <1>1, <1>2, <1>3, <2>2
  <2> QED  BY <2>1, <2>2
<1> QED  BY <1>1, <1>2, <1>3, <1>4

\* And where the bytes of a block are.
LEMMA OfBlocks ==
  ASSUME NEW n \in Nat, NEW j \in 1 .. n, NEW i \in 1 .. BLOCK_LEN
  PROVE  /\ BLOCK_LEN * (j - 1) + i \in 1 .. BLOCK_LEN * n
         /\ (((BLOCK_LEN * (j - 1) + i) - 1) \div BLOCK_LEN) + 1 = j
         /\ (((BLOCK_LEN * (j - 1) + i) - 1) % BLOCK_LEN) + 1 = i
<1>1. BLOCK_LEN \in Nat \ {0} /\ BLOCK_LEN * n \in Nat
  BY BlockAssumption
<1>2. PICK q \in Nat : q = j - 1 /\ q < n
  OBVIOUS
<1>3. PICK p \in Nat : p = BLOCK_LEN * q
  BY <1>1
<1>4. p + BLOCK_LEN <= BLOCK_LEN * n
  BY <1>1, <1>2, <1>3, ProductGrows
<1>5. i - 1 \in 0 .. BLOCK_LEN - 1
  BY <1>1
<1>6. (p + (i - 1)) \div BLOCK_LEN = q /\ (p + (i - 1)) % BLOCK_LEN = i - 1
  BY <1>2, <1>3, <1>5, Quotient
<1>7. (p + i) - 1 = p + (i - 1)
  BY <1>1
<1> QED  BY <1>1, <1>2, <1>3, <1>4, <1>6, <1>7

\* A block is what stands in its place.
LEMMA BlockBytes ==
  ASSUME NEW s \in Seq(Octet), NEW n \in Nat, Len(s) = BLOCK_LEN * n, NEW j \in 1 .. n
  PROVE  /\ BlockAt(s, j) \in Block
         /\ \A i \in 1 .. BLOCK_LEN : BlockAt(s, j)[i] = s[BLOCK_LEN * (j - 1) + i]
<1>1. BLOCK_LEN \in Nat \ {0} /\ j - 1 \in Nat
  BY BlockAssumption
<1>2. PICK p \in Nat : p = BLOCK_LEN * (j - 1) /\ p = (j - 1) * BLOCK_LEN
  BY <1>1
<1>3. j * BLOCK_LEN = p + BLOCK_LEN
  <2>1. BLOCK_LEN * ((j - 1) + 1) = BLOCK_LEN * (j - 1) + BLOCK_LEN  BY <1>1, Distributes
  <2>2. (j - 1) + 1 = j /\ BLOCK_LEN * j = j * BLOCK_LEN  BY <1>1
  <2> QED  BY <1>2, <2>1, <2>2
<1>4. \A i \in 1 .. BLOCK_LEN : p + i \in 1 .. Len(s)
  BY <1>2, OfBlocks
<1>5. BlockAt(s, j) = SubSeq(s, p + 1, p + BLOCK_LEN)
  BY <1>2, <1>3 DEF BlockAt
<1>6. SubSeq(s, p + 1, p + BLOCK_LEN) = [i \in 1 .. BLOCK_LEN |-> s[p + i]]
  <2>1. BLOCK_LEN \in 1 .. BLOCK_LEN  BY <1>1
  <2>2. p + BLOCK_LEN <= Len(s)  BY <1>4, <2>1
  <2> QED  BY <1>1, <1>4, <2>2
<1>7. \A i \in 1 .. BLOCK_LEN : s[p + i] \in Octet
  BY <1>4
<1> QED  BY <1>2, <1>5, <1>6, <1>7 DEF Block

\* The bytes of blocks that are joined.
LEMMA JoinedBytes ==
  ASSUME NEW block, NEW n \in Nat, \A j \in 1 .. n : block[j] \in Block
  PROVE  /\ Joined(block, n) \in Seq(Octet)
         /\ Len(Joined(block, n)) = BLOCK_LEN * n
         /\ \A i \in 1 .. BLOCK_LEN * n :
              Joined(block, n)[i] =
                block[((i - 1) \div BLOCK_LEN) + 1][((i - 1) % BLOCK_LEN) + 1]
<1> DEFINE byte(i) == block[((i - 1) \div BLOCK_LEN) + 1][((i - 1) % BLOCK_LEN) + 1]
<1>1. BLOCK_LEN \in Nat \ {0} /\ BLOCK_LEN * n \in Nat /\ n * BLOCK_LEN = BLOCK_LEN * n
  BY BlockAssumption
<1>2. Joined(block, n) = [i \in 1 .. BLOCK_LEN * n |-> byte(i)]
  BY <1>1 DEF Joined
<1>3. ASSUME NEW i \in 1 .. BLOCK_LEN * n PROVE byte(i) \in Octet
  <2>1. PICK j \in 1 .. n, r \in 1 .. BLOCK_LEN :
          j = ((i - 1) \div BLOCK_LEN) + 1 /\ r = ((i - 1) % BLOCK_LEN) + 1
    BY InBlocks
  <2>2. block[j] \in [1 .. BLOCK_LEN -> Octet]  BY DEF Block
  <2> QED  BY <2>1, <2>2
<1> HIDE DEF byte
<1>4. PICK m \in Nat : m = BLOCK_LEN * n
  BY <1>1
<1>5. [i \in 1 .. m |-> byte(i)] \in Seq(Octet) /\ Len([i \in 1 .. m |-> byte(i)]) = m
  BY <1>3, <1>4
<1> QED  BY <1>2, <1>4, <1>5 DEF byte

LEMMA BlocksEqual ==
  ASSUME NEW a \in Block, NEW b \in Block, \A i \in 1 .. BLOCK_LEN : a[i] = b[i]
  PROVE  a = b
<1>1. a = [i \in 1 .. BLOCK_LEN |-> a[i]] /\ b = [i \in 1 .. BLOCK_LEN |-> b[i]]
  BY DEF Block
<1>2. [i \in 1 .. BLOCK_LEN |-> a[i]] = [i \in 1 .. BLOCK_LEN |-> b[i]]
  BY Zenon
<1> QED  BY <1>1, <1>2, Zenon

\* Joining and cutting are inverse to each other.
LEMMA CutWhatWasJoined ==
  ASSUME NEW block, NEW n \in Nat, \A j \in 1 .. n : block[j] \in Block, NEW j \in 1 .. n
  PROVE  BlockAt(Joined(block, n), j) = block[j]
<1> DEFINE s == Joined(block, n)
<1>1. /\ s \in Seq(Octet)
      /\ Len(s) = BLOCK_LEN * n
      /\ \A i \in 1 .. BLOCK_LEN * n :
           s[i] = block[((i - 1) \div BLOCK_LEN) + 1][((i - 1) % BLOCK_LEN) + 1]
  BY JoinedBytes
<1> HIDE DEF s
<1>2. /\ BlockAt(s, j) \in Block
      /\ \A i \in 1 .. BLOCK_LEN : BlockAt(s, j)[i] = s[BLOCK_LEN * (j - 1) + i]
  BY <1>1, BlockBytes
<1>3. ASSUME NEW i \in 1 .. BLOCK_LEN PROVE BlockAt(s, j)[i] = block[j][i]
  <2>1. PICK k \in 1 .. BLOCK_LEN * n :
          /\ k = BLOCK_LEN * (j - 1) + i
          /\ ((k - 1) \div BLOCK_LEN) + 1 = j
          /\ ((k - 1) % BLOCK_LEN) + 1 = i
    <3> DEFINE at == BLOCK_LEN * (j - 1) + i
    <3>1. /\ at \in 1 .. BLOCK_LEN * n
          /\ ((at - 1) \div BLOCK_LEN) + 1 = j
          /\ ((at - 1) % BLOCK_LEN) + 1 = i
      BY OfBlocks, ZenonT(60)
    <3> HIDE DEF at
    <3>2. at = BLOCK_LEN * (j - 1) + i  BY DEF at
    <3> QED  BY <3>1, <3>2
  <2> QED  BY <1>1, <1>2, <2>1
<1>4. BlockAt(s, j) = block[j]
  BY <1>2, <1>3, BlocksEqual
<1> QED  BY <1>4 DEF s

LEMMA JoinWhatWasCut ==
  ASSUME NEW s \in Seq(Octet), NEW n \in Nat, Len(s) = BLOCK_LEN * n,
         NEW block, \A j \in 1 .. n : block[j] = BlockAt(s, j)
  PROVE  Joined(block, n) = s
<1>1. \A j \in 1 .. n : /\ BlockAt(s, j) \in Block
                        /\ \A i \in 1 .. BLOCK_LEN :
                             BlockAt(s, j)[i] = s[BLOCK_LEN * (j - 1) + i]
  BY BlockBytes
<1>2. /\ Joined(block, n) \in Seq(Octet)
      /\ Len(Joined(block, n)) = BLOCK_LEN * n
      /\ \A i \in 1 .. BLOCK_LEN * n :
           Joined(block, n)[i] =
             block[((i - 1) \div BLOCK_LEN) + 1][((i - 1) % BLOCK_LEN) + 1]
  BY <1>1, JoinedBytes
<1>3. ASSUME NEW i \in 1 .. Len(s) PROVE Joined(block, n)[i] = s[i]
  <2>1. PICK j \in 1 .. n, r \in 1 .. BLOCK_LEN :
          /\ j = ((i - 1) \div BLOCK_LEN) + 1
          /\ r = ((i - 1) % BLOCK_LEN) + 1
          /\ i = BLOCK_LEN * (j - 1) + r
    <3>1. i \in 1 .. BLOCK_LEN * n  OBVIOUS
    <3>2. /\ ((i - 1) \div BLOCK_LEN) + 1 \in 1 .. n
          /\ ((i - 1) % BLOCK_LEN) + 1 \in 1 .. BLOCK_LEN
          /\ i = BLOCK_LEN * ((i - 1) \div BLOCK_LEN) + (((i - 1) % BLOCK_LEN) + 1)
      BY <3>1, InBlocks
    <3>3. i - 1 \in Nat  BY <3>1, BlockAssumption
    <3>4. ((i - 1) \div BLOCK_LEN) \in Nat  BY <3>3, Split
    <3>5. (((i - 1) \div BLOCK_LEN) + 1) - 1 = (i - 1) \div BLOCK_LEN  BY <3>4
    <3> QED  BY <3>2, <3>5
  <2> QED  BY <1>1, <1>2, <2>1
<1>4. Len(Joined(block, n)) = Len(s)
  BY <1>2
<1> HIDE DEF Joined
<1> QED  BY <1>2, <1>3, <1>4, SeqEqual

-----------------------------------------------------------------------------
(* The chain *)

\* One step of the chain.
Link(key, s, j, previous) == Aes[key][XorBlock(BlockAt(s, j), previous)]

\* The recursion of CbcEncrypt.
ChainsFrom(key, iv, s, n, f) ==
  f = [j \in 0 .. n |-> IF j = 0 THEN iv ELSE Link(key, s, j, f[j - 1])]

\* A chain of any length exists, and so the recursion defines it.
LEMMA ChainExists ==
  ASSUME NEW key, NEW iv, NEW s, NEW n \in Nat
  PROVE  \E f : ChainsFrom(key, iv, s, n, f)
<1> DEFINE Chains(m, f) ==
             f = [j \in 0 .. m |-> IF j = 0 THEN iv ELSE Link(key, s, j, f[j - 1])]
           T == {m \in Nat : ~ \E f : Chains(m, f)}
<1>1. SUFFICES ASSUME T # {} PROVE FALSE
  BY DEF ChainsFrom
<1>2. PICK m \in T : \A k \in T : ~ (<<k, m>> \in OpToRel(<, Nat))
  <2>1. T \subseteq Nat  OBVIOUS
  <2> HIDE DEF T
  <2> QED  BY <1>1, <2>1, NatLessThanWellFounded, WFMin
<1>3. \A k \in Nat : k < m => \E f : Chains(k, f)
  <2>1. \A k \in Nat, l \in Nat : k < l => <<k, l>> \in OpToRel(<, Nat)
    BY DEF OpToRel
  <2> HIDE DEF Chains
  <2> QED  BY <1>2, <2>1
<1>4. CASE m = 0
  <2>1. Chains(0, [j \in 0 .. 0 |-> iv])
    OBVIOUS
  <2> HIDE DEF Chains
  <2> QED  BY <1>4, <2>1
<1>5. CASE m # 0
  <2>1. m \in Nat /\ m - 1 \in Nat /\ m - 1 < m  BY <1>5
  <2>2. PICK f : Chains(m - 1, f)
    <3> HIDE DEF Chains
    <3> QED  BY <1>3, <2>1
  <2>3. \A j \in 0 .. m - 1 : f[j] = IF j = 0 THEN iv ELSE Link(key, s, j, f[j - 1])
    BY <2>2
  <2> DEFINE g == [j \in 0 .. m |-> IF j = m THEN Link(key, s, m, f[m - 1]) ELSE f[j]]
  <2>4. \A j \in 0 .. m - 1 : g[j] = f[j]
    BY <2>1
  <2>5. ASSUME NEW j \in 0 .. m
        PROVE  g[j] = IF j = 0 THEN iv ELSE Link(key, s, j, g[j - 1])
    <3>1. CASE j = m
      <4>1. m - 1 \in 0 .. m - 1  BY <2>1
      <4>2. g[m - 1] = f[m - 1]  BY <2>4, <4>1
      <4>3. g[m] = Link(key, s, m, f[m - 1])  BY <2>1
      <4> HIDE DEF g
      <4> QED  BY <1>5, <3>1, <4>2, <4>3
    <3>2. CASE j \in 1 .. m - 1
      <4>1. j - 1 \in 0 .. m - 1 /\ j \in 0 .. m - 1 /\ j # 0  BY <2>1, <3>2
      <4>2. g[j] = f[j] /\ g[j - 1] = f[j - 1]  BY <2>4, <4>1
      <4>3. f[j] = Link(key, s, j, f[j - 1])  BY <2>3, <4>1
      <4> HIDE DEF g
      <4> QED  BY <4>1, <4>2, <4>3
    <3>3. CASE j = 0
      <4>1. 0 \in 0 .. m - 1  BY <2>1
      <4>2. g[0] = f[0] /\ f[0] = iv  BY <2>3, <2>4, <4>1
      <4> HIDE DEF g
      <4> QED  BY <3>3, <4>2
    <3>4. j = m \/ j \in 1 .. m - 1 \/ j = 0  BY <2>1
    <3> QED  BY <3>1, <3>2, <3>3, <3>4
  <2>6. Chains(m, g)
    <3>1. g = [j \in 0 .. m |-> g[j]]  OBVIOUS
    <3> HIDE DEF g
    <3> QED  BY <2>5, <3>1
  <2> HIDE DEF Chains
  <2> QED  BY <2>6
<1> QED  BY <1>4, <1>5

LEMMA XorIsBlock ==
  ASSUME NEW a \in Block, NEW b \in Block
  PROVE  /\ XorBlock(a, b) \in Block
         /\ XorBlock(XorBlock(a, b), b) = a
<1>1. \A i \in 1 .. BLOCK_LEN : a[i] \in Octet /\ b[i] \in Octet
  BY DEF Block
<1>2. \A i \in 1 .. BLOCK_LEN : XorBlock(a, b)[i] = Xor(a[i], b[i])
  BY DEF XorBlock
<1>3. \A i \in 1 .. BLOCK_LEN :
        Xor(a[i], b[i]) \in Octet /\ Xor(Xor(a[i], b[i]), b[i]) = a[i]
  BY <1>1, XorAssumption
<1>4. \A x, y : (\A i \in 1 .. BLOCK_LEN : Xor(x[i], y[i]) \in Octet) => XorBlock(x, y) \in Block
  BY DEF XorBlock, Block
<1>5. XorBlock(a, b) \in Block
  BY <1>3, <1>4
<1>6. \A i \in 1 .. BLOCK_LEN : XorBlock(XorBlock(a, b), b)[i] = Xor(XorBlock(a, b)[i], b[i])
  BY DEF XorBlock
<1>7. \A i \in 1 .. BLOCK_LEN : Xor(XorBlock(a, b)[i], b[i]) = a[i]
  BY <1>2, <1>3
<1>8. \A i \in 1 .. BLOCK_LEN : Xor(XorBlock(a, b)[i], b[i]) \in Octet
  BY <1>1, <1>7
<1>9. XorBlock(XorBlock(a, b), b) \in Block
  BY <1>4, <1>8
<1>10. \A i \in 1 .. BLOCK_LEN : XorBlock(XorBlock(a, b), b)[i] = a[i]
  BY <1>6, <1>7
<1> QED  BY <1>5, <1>9, <1>10, BlocksEqual

LEMMA CipherUndone ==
  ASSUME NEW key \in Key, NEW b \in Block
  PROVE  /\ Aes[key][b] \in Block
         /\ Inverse(Aes[key], Block, Block)[Aes[key][b]] = b
<1>1. Aes[key] \in Bijection(Block, Block)
  BY CipherAssumption
<1>2. Aes[key] \in [Block -> Block]
  BY <1>1 DEF Bijection, Injection, Surjection
<1> HIDE DEF Block
<1>3. \A s \in Block : Inverse(Aes[key], Block, Block)[Aes[key][s]] = s
  BY <1>1, Fun_BijInverse
<1> QED  BY <1>2, <1>3

\* The blocks of a padded plaintext are as many as its length says.
LEMMA BlocksOfPadded ==
  ASSUME NEW s \in Seq(Octet), Len(s) % BLOCK_LEN = 0
  PROVE  BlockCount(s) \in Nat /\ Len(s) = BLOCK_LEN * BlockCount(s)
<1>1. Len(s) \in Nat  OBVIOUS
<1>2. BlockCount(s) \in Nat /\ Len(s) = BLOCK_LEN * BlockCount(s) + (Len(s) % BLOCK_LEN)
  BY <1>1, Split DEF BlockCount
<1>3. BLOCK_LEN * BlockCount(s) \in Nat  BY <1>2, BlockAssumption
<1> QED  BY <1>2, <1>3

\* What encryption writes, block by block.
IsChain(key, iv, s, n, f) ==
  /\ \A j \in 0 .. n : f[j] \in Block
  /\ f[0] = iv
  /\ \A j \in 1 .. n : f[j] = Link(key, s, j, f[j - 1])

LEMMA Encrypted ==
  ASSUME NEW key \in Key, NEW iv \in Block, NEW s \in Seq(Octet), NEW n \in Nat,
         n = BlockCount(s), Len(s) = BLOCK_LEN * n
  PROVE  \E f : /\ IsChain(key, iv, s, n, f)
                /\ CbcEncrypt(key, iv, s) = Joined(f, n)
<1> DEFINE cipher[j \in 0 .. n] ==
             IF j = 0 THEN iv ELSE Link(key, s, j, cipher[j - 1])
           Chains(f) == f = [j \in 0 .. n |-> IF j = 0 THEN iv ELSE Link(key, s, j, f[j - 1])]
<1>1. CbcEncrypt(key, iv, s) = Joined(cipher, n)
  BY DEF CbcEncrypt, Link
<1>2. Chains(cipher)
  <2>1. \E f : Chains(f)
    <3>1. \A f : Chains(f) <=> ChainsFrom(key, iv, s, n, f)  BY DEF ChainsFrom
    <3> HIDE DEF Chains
    <3> QED  BY <3>1, ChainExists
  <2>2. cipher = CHOOSE f : Chains(f)  OBVIOUS
  <2> HIDE DEF cipher, Chains
  <2> QED  BY <2>1, <2>2
<1> HIDE DEF cipher
<1>3. \A j \in 0 .. n : cipher[j] = IF j = 0 THEN iv ELSE Link(key, s, j, cipher[j - 1])
  BY <1>2
<1>4. \A j \in 0 .. n : cipher[j] \in Block
  <2> DEFINE T == {j \in 0 .. n : cipher[j] \notin Block}
  <2>1. SUFFICES ASSUME T # {} PROVE FALSE
    OBVIOUS
  <2>2. PICK m \in T : \A k \in T : ~ (<<k, m>> \in OpToRel(<, Nat))
    <3>1. T \subseteq Nat  OBVIOUS
    <3> HIDE DEF T
    <3> QED  BY <2>1, <3>1, NatLessThanWellFounded, WFMin
  <2>3. m \in 0 .. n /\ cipher[m] \notin Block
    OBVIOUS
  <2>4. m # 0
    BY <1>3, <2>3
  <2>5. m - 1 \in 0 .. n /\ m \in 1 .. n
    BY <2>3, <2>4
  <2>6. <<m - 1, m>> \in OpToRel(<, Nat)
    BY <2>5 DEF OpToRel
  <2>7. cipher[m - 1] \in Block
    BY <2>2, <2>5, <2>6
  <2>8. BlockAt(s, m) \in Block
    BY <2>5, BlockBytes
  <2>9. Link(key, s, m, cipher[m - 1]) \in Block
    BY <2>7, <2>8, XorIsBlock, CipherUndone DEF Link
  <2> QED  BY <1>3, <2>3, <2>4, <2>9
<1>5. IsChain(key, iv, s, n, cipher)
  BY <1>3, <1>4 DEF IsChain
<1> QED  BY <1>1, <1>5

\* Decryption undoes it, given the ICV that it began with.
LEMMA CbcRoundTrip ==
  ASSUME NEW key \in Key, NEW iv \in Block, NEW s \in Seq(Octet), Len(s) % BLOCK_LEN = 0
  PROVE  /\ CbcEncrypt(key, iv, s) \in Seq(Octet)
         /\ Len(CbcEncrypt(key, iv, s)) = Len(s)
         /\ CbcDecrypt(key, iv, CbcEncrypt(key, iv, s)) = s
<1>1. PICK n \in Nat : n = BlockCount(s) /\ Len(s) = BLOCK_LEN * n
  BY BlocksOfPadded
<1>2. PICK f : IsChain(key, iv, s, n, f) /\ CbcEncrypt(key, iv, s) = Joined(f, n)
  BY <1>1, Encrypted
<1>3. PICK c : c = CbcEncrypt(key, iv, s)
  OBVIOUS
<1>4. \A j \in 1 .. n : f[j] \in Block
  BY <1>2 DEF IsChain
<1>5. c \in Seq(Octet) /\ Len(c) = BLOCK_LEN * n
  BY <1>2, <1>3, <1>4, JoinedBytes
<1>6. \A j \in 1 .. n : BlockAt(c, j) = f[j]
  BY <1>2, <1>3, <1>4, CutWhatWasJoined
<1>7. BlockCount(c) = n
  BY <1>1, <1>5 DEF BlockCount
<1> DEFINE before(j) == IF j = 1 THEN iv ELSE BlockAt(c, j - 1)
           plain == [j \in 1 .. n |->
                      XorBlock(Inverse(Aes[key], Block, Block)[BlockAt(c, j)], before(j))]
<1>8. CbcDecrypt(key, iv, c) = Joined(plain, n)
  BY <1>7 DEF CbcDecrypt
<1>9. ASSUME NEW j \in 1 .. n PROVE plain[j] = BlockAt(s, j)
  <2>1. before(j) = f[j - 1]
    <3>1. CASE j = 1  BY <1>2, <3>1 DEF IsChain
    <3>2. CASE j # 1
      <4>1. j - 1 \in 1 .. n  BY <3>2
      <4> QED  BY <1>6, <3>2, <4>1
    <3> QED  BY <3>1, <3>2
  <2>2. f[j - 1] \in Block /\ f[j] = Link(key, s, j, f[j - 1])
    <3>1. j - 1 \in 0 .. n  OBVIOUS
    <3> QED  BY <1>2, <3>1 DEF IsChain
  <2>3. BlockAt(s, j) \in Block
    BY <1>1, BlockBytes
  <2>4. plain[j] = XorBlock(Inverse(Aes[key], Block, Block)[f[j]], f[j - 1])
    BY <1>6, <2>1
  <2> HIDE DEF plain, before
  <2>5. XorBlock(BlockAt(s, j), f[j - 1]) \in Block
    BY <2>2, <2>3, XorIsBlock
  <2>6. Inverse(Aes[key], Block, Block)[f[j]] = XorBlock(BlockAt(s, j), f[j - 1])
    BY <2>2, <2>5, CipherUndone DEF Link
  <2>7. XorBlock(XorBlock(BlockAt(s, j), f[j - 1]), f[j - 1]) = BlockAt(s, j)
    BY <2>2, <2>3, XorIsBlock
  <2> QED  BY <2>4, <2>6, <2>7
<1> HIDE DEF plain
<1>10. Joined(plain, n) = s
  BY <1>1, <1>9, JoinWhatWasCut
<1> QED  BY <1>1, <1>3, <1>5, <1>8, <1>10

-----------------------------------------------------------------------------
(* What a caller of both gets *)

\* The calls are what they claim to be, and a decryption that follows an
\* encryption is of its result.
OwnRecorded ==
  /\ sealed.made =>
       /\ sealed.key \in Key \cup BadKey /\ sealed.number \in Numbers /\ sealed.in \in Bytes
       /\ sealed.out = Encrypt(sealed.key, sealed.in, sealed.number)
  /\ opened.made =>
       /\ opened.number \in Numbers
       /\ opened.out = Decrypt(opened.key, opened.in, opened.number)
  /\ OpenedOwn => sealed.out.ok /\ opened.in = sealed.out.val

LEMMA OwnSeal ==
  ASSUME OwnRecorded, NEW key \in Key \cup BadKey, NEW number \in Numbers,
         NEW plaintext \in Bytes, Seal(key, number, plaintext)
  PROVE  OwnRecorded'
<1>1. /\ sealed'.key = key /\ sealed'.number = number /\ sealed'.in = plaintext
      /\ sealed'.out = Encrypt(key, plaintext, number)
      /\ ~opened.made /\ opened' = opened
  BY DEF Seal, Call
<1> QED  BY <1>1 DEF OwnRecorded, OpenedOwn

LEMMA OwnOpen ==
  ASSUME OwnRecorded, NEW key, NEW number \in Numbers, Open(key, number)
  PROVE  OwnRecorded'
<1>1. /\ opened'.key = key /\ opened'.number = number /\ opened'.in = sealed.out.val
      /\ opened'.out = Decrypt(key, sealed.out.val, number)
      /\ sealed.out.ok /\ sealed' = sealed
  BY DEF Open, Call
<1> QED  BY <1>1 DEF OwnRecorded, OpenedOwn

LEMMA OwnOpenForeign ==
  ASSUME OwnRecorded, NEW key, NEW number \in Numbers, NEW bytes,
         OpenForeign(key, number, bytes)
  PROVE  OwnRecorded'
<1>1. /\ opened'.key = key /\ opened'.number = number /\ opened'.in = bytes
      /\ opened'.out = Decrypt(key, bytes, number)
      /\ ~sealed.made /\ sealed' = sealed
  BY DEF OpenForeign, Call
<1> QED  BY <1>1 DEF OwnRecorded, OpenedOwn

LEMMA AlwaysOwn == Spec => []OwnRecorded
<1>1. Init => OwnRecorded
  BY DEF Init, OwnRecorded, OpenedOwn, NoCall
<1>2. ASSUME OwnRecorded, [Next]_vars PROVE OwnRecorded'
  <2>1. CASE Next
    BY <1>2, <2>1, OwnSeal, OwnOpen, OwnOpenForeign DEF Next
  <2>2. CASE UNCHANGED vars
    BY <1>2, <2>2 DEF vars, OwnRecorded, OpenedOwn
  <2> QED  BY <1>2, <2>1, <2>2
<1> QED  BY <1>1, <1>2, PTL DEF Spec

\* What encrypt returns under a key that it accepts.
LEMMA SealedIsCiphertext ==
  ASSUME OwnRecorded, OpenedOwn
  PROVE  /\ sealed.key \in Key /\ sealed.in \in Seq(Octet)
         /\ sealed.number \in Numbers /\ opened.number \in Numbers
         /\ opened.in = CbcEncrypt(sealed.key, Icv(sealed.key, sealed.number), Pad(sealed.in))
         /\ opened.out = Decrypt(opened.key, opened.in, opened.number)
<1>1. /\ sealed.in \in Bytes /\ sealed.number \in Numbers /\ opened.number \in Numbers
      /\ sealed.out = Encrypt(sealed.key, sealed.in, sealed.number)
      /\ opened.out = Decrypt(opened.key, opened.in, opened.number)
      /\ sealed.out.ok /\ opened.in = sealed.out.val
  BY DEF OwnRecorded, OpenedOwn
<1>2. sealed.key \in Key
  BY <1>1 DEF Encrypt, Err
<1>3. sealed.out.val = CbcEncrypt(sealed.key, Icv(sealed.key, sealed.number), Pad(sealed.in))
  BY <1>1, <1>2 DEF Encrypt, Ok
<1> QED  BY <1>1, <1>2, <1>3, BytesAreSequences

LEMMA IcvIsBlock ==
  ASSUME NEW key \in Key, NEW number \in Numbers
  PROVE  Icv(key, number) \in Block
<1>1. NumberBlock(number) \in Block
  BY NumberAssumption DEF Numbers
<1> QED  BY <1>1, CipherUndone DEF Icv

\* decrypt gives back what encrypt was given, whatever it is and whatever it ends
\* with, under the same key and the same block number (cbc128.rs 34-97).
THEOREM OwnPlaintextComesBack == Spec => []RoundTrip
<1>1. ASSUME OwnRecorded PROVE RoundTrip
  <2>1. SUFFICES ASSUME OpenedOwn, SameKey, opened.number = sealed.number
                 PROVE  opened.out = Ok(sealed.in)
    BY DEF RoundTrip
  <2>2. PICK key \in Key, number \in Numbers, plain \in Seq(Octet) :
          /\ key = sealed.key /\ number = sealed.number /\ plain = sealed.in
          /\ key = opened.key /\ number = opened.number
          /\ opened.in = CbcEncrypt(key, Icv(key, number), Pad(plain))
          /\ opened.out = Decrypt(key, opened.in, number)
    BY <1>1, <2>1, SealedIsCiphertext DEF SameKey
  <2>3. Pad(plain) \in Seq(Octet) /\ Len(Pad(plain)) % BLOCK_LEN = 0
    BY PaddedBytes
  <2>4. Icv(key, number) \in Block
    BY IcvIsBlock
  <2>5. /\ Len(opened.in) % BLOCK_LEN = 0
        /\ CbcDecrypt(key, Icv(key, number), opened.in) = Pad(plain)
    BY <2>2, <2>3, <2>4, CbcRoundTrip
  <2>6. opened.out = Unpad(Pad(plain))
    BY <2>2, <2>5 DEF Decrypt
  <2> QED  BY <2>2, <2>6, PaddingRoundTrip
<1> QED  BY <1>1, AlwaysOwn, PTL

-----------------------------------------------------------------------------
(* The wrong block number *)

\* Two blocks differ where they differ.
LEMMA XorCancels ==
  ASSUME NEW a \in Block, NEW b \in Block, NEW x \in Block,
         XorBlock(x, a) = XorBlock(x, b)
  PROVE  a = b
<1>1. \A i \in 1 .. BLOCK_LEN : a[i] \in Octet /\ b[i] \in Octet /\ x[i] \in Octet
  BY DEF Block
<1>2. \A i \in 1 .. BLOCK_LEN : /\ XorBlock(x, a)[i] = Xor(x[i], a[i])
                                /\ XorBlock(x, b)[i] = Xor(x[i], b[i])
  BY DEF XorBlock
<1>3. ASSUME NEW i \in 1 .. BLOCK_LEN PROVE a[i] = b[i]
  <2>1. Xor(x[i], a[i]) = Xor(x[i], b[i])
    BY <1>2
  <2>2. Xor(a[i], x[i]) = Xor(b[i], x[i])
    BY <1>1, <2>1, XorAssumption
  <2>3. Xor(Xor(a[i], x[i]), x[i]) = a[i] /\ Xor(Xor(b[i], x[i]), x[i]) = b[i]
    BY <1>1, XorAssumption
  <2> QED  BY <2>2, <2>3
<1> QED  BY <1>3, BlocksEqual

\* Two block numbers never have the same ICV under one key.
LEMMA IcvsDiffer ==
  ASSUME NEW key \in Key, NEW m \in Numbers, NEW n \in Numbers, m # n
  PROVE  Icv(key, m) # Icv(key, n)
<1>1. /\ NumberBlock(m) \in Block /\ NumberBlock(n) \in Block
      /\ NumberBlock(m) # NumberBlock(n)
  BY NumberAssumption DEF Numbers
<1>2. \A b \in Block : Inverse(Aes[key], Block, Block)[Aes[key][b]] = b
  BY CipherUndone
<1> QED  BY <1>1, <1>2 DEF Icv

\* The same length and the same bytes but for the first block, which is another.
FirstBlockGarbled(s, t) ==
  /\ t \in Seq(Octet)
  /\ Len(t) = Len(s)
  /\ BlockAt(t, 1) # BlockAt(s, 1)
  /\ \A i \in BLOCK_LEN + 1 .. Len(s) : t[i] = s[i]

\* That is what decryption with another ICV returns.
LEMMA CbcWrongIv ==
  ASSUME NEW key \in Key, NEW iv \in Block, NEW other \in Block, iv # other,
         NEW s \in Seq(Octet), Len(s) % BLOCK_LEN = 0, Len(s) >= BLOCK_LEN
  PROVE  FirstBlockGarbled(s, CbcDecrypt(key, other, CbcEncrypt(key, iv, s)))
<1>1. PICK n \in Nat : n = BlockCount(s) /\ Len(s) = BLOCK_LEN * n
  BY BlocksOfPadded
<1>2. PICK f : IsChain(key, iv, s, n, f) /\ CbcEncrypt(key, iv, s) = Joined(f, n)
  BY <1>1, Encrypted
<1>3. PICK c : c = CbcEncrypt(key, iv, s)
  OBVIOUS
<1>4. \A j \in 1 .. n : f[j] \in Block
  BY <1>2 DEF IsChain
<1>5. c \in Seq(Octet) /\ Len(c) = BLOCK_LEN * n
  BY <1>2, <1>3, <1>4, JoinedBytes
<1>6. \A j \in 1 .. n : BlockAt(c, j) = f[j]
  BY <1>2, <1>3, <1>4, CutWhatWasJoined
<1>7. BlockCount(c) = n
  BY <1>1, <1>5 DEF BlockCount
<1> DEFINE before(j) == IF j = 1 THEN other ELSE BlockAt(c, j - 1)
           plain == [j \in 1 .. n |->
                      XorBlock(Inverse(Aes[key], Block, Block)[BlockAt(c, j)], before(j))]
<1>8. CbcDecrypt(key, other, c) = Joined(plain, n)
  BY <1>7 DEF CbcDecrypt
<1>9. ASSUME NEW j \in 1 .. n
      PROVE  /\ BlockAt(s, j) \in Block
             /\ f[j - 1] \in Block
             /\ Inverse(Aes[key], Block, Block)[BlockAt(c, j)] =
                  XorBlock(BlockAt(s, j), f[j - 1])
             /\ XorBlock(BlockAt(s, j), f[j - 1]) \in Block
  <2>1. f[j - 1] \in Block /\ f[j] = Link(key, s, j, f[j - 1])
    <3>1. j - 1 \in 0 .. n  OBVIOUS
    <3> QED  BY <1>2, <3>1 DEF IsChain
  <2>2. BlockAt(s, j) \in Block
    BY <1>1, BlockBytes
  <2>3. XorBlock(BlockAt(s, j), f[j - 1]) \in Block
    BY <2>1, <2>2, XorIsBlock
  <2> QED  BY <1>6, <2>1, <2>2, <2>3, CipherUndone DEF Link
<1>10. ASSUME NEW j \in 2 .. n PROVE plain[j] = BlockAt(s, j)
  <2>1. j \in 1 .. n /\ j # 1 /\ j - 1 \in 1 .. n
    OBVIOUS
  <2>2. plain[j] = XorBlock(XorBlock(BlockAt(s, j), f[j - 1]), f[j - 1])
    BY <1>6, <1>9, <2>1
  <2> QED  BY <1>9, <2>1, <2>2, XorIsBlock
<1>11. 1 \in 1 .. n
  <2>1. n # 0  BY <1>1, BlockAssumption
  <2> QED  BY <2>1
<1>12. plain[1] \in Block /\ plain[1] # BlockAt(s, 1)
  <2>1. f[0] = iv /\ iv \in Block  BY <1>2 DEF IsChain
  <2>2. plain[1] = XorBlock(XorBlock(BlockAt(s, 1), iv), other)
    BY <1>9, <1>11, <2>1
  <2>3. BlockAt(s, 1) \in Block /\ XorBlock(BlockAt(s, 1), iv) \in Block
    BY <1>9, <1>11, <2>1
  <2>4. XorBlock(XorBlock(BlockAt(s, 1), iv), iv) = BlockAt(s, 1)
    BY <2>1, <2>3, XorIsBlock
  <2> HIDE DEF plain
  <2> QED  BY <2>1, <2>2, <2>3, <2>4, XorIsBlock, XorCancels
<1>13. PICK t : t = Joined(plain, n) /\ t = CbcDecrypt(key, other, CbcEncrypt(key, iv, s))
  BY <1>3, <1>8
<1> HIDE DEF plain
<1>14. ASSUME NEW j \in 1 .. n PROVE plain[j] \in Block
  <2>1. CASE j = 1  BY <1>12, <2>1
  <2>2. CASE j \in 2 .. n  BY <1>9, <1>10, <2>2
  <2> QED  BY <2>1, <2>2
<1>15. t \in Seq(Octet) /\ Len(t) = BLOCK_LEN * n
  BY <1>14, <1>13, JoinedBytes
<1>16. \A j \in 1 .. n : BlockAt(t, j) = plain[j]
  BY <1>14, <1>13, CutWhatWasJoined
<1>17. ASSUME NEW i \in BLOCK_LEN + 1 .. Len(s) PROVE t[i] = s[i]
  <2>1. i \in 1 .. BLOCK_LEN * n /\ i - 1 \in Nat
    BY <1>1, BlockAssumption
  <2>2. PICK j \in 1 .. n, r \in 1 .. BLOCK_LEN : i = BLOCK_LEN * (j - 1) + r
    <3> DEFINE q == (i - 1) \div BLOCK_LEN
    <3>1. /\ q + 1 \in 1 .. n
          /\ ((i - 1) % BLOCK_LEN) + 1 \in 1 .. BLOCK_LEN
          /\ i = BLOCK_LEN * q + (((i - 1) % BLOCK_LEN) + 1)
      BY <2>1, InBlocks
    <3>2. q \in Nat  BY <2>1, Split
    <3> HIDE DEF q
    <3>3. (q + 1) - 1 = q  BY <3>2
    <3> QED  BY <3>1, <3>3
  <2>3. j # 1
    <3>1. CASE j = 1
      <4>1. BLOCK_LEN * (j - 1) = 0  BY <3>1, BlockAssumption
      <4> QED  BY <2>2, <4>1, BlockAssumption
    <3> QED  BY <3>1
  <2>4. j \in 2 .. n  BY <2>3
  <2>5. BlockAt(t, j) = BlockAt(s, j)
    BY <1>10, <1>16, <2>4
  <2>6. BlockAt(t, j)[r] = t[BLOCK_LEN * (j - 1) + r]
    BY <1>15, BlockBytes
  <2>7. BlockAt(s, j)[r] = s[BLOCK_LEN * (j - 1) + r]
    BY <1>1, BlockBytes
  <2> QED  BY <2>2, <2>5, <2>6, <2>7
<1> QED  BY <1>1, <1>11, <1>12, <1>13, <1>15, <1>16, <1>17 DEF FirstBlockGarbled

\* The beginning of a sequence has the same first block.
LEMMA FirstBlockOf ==
  ASSUME NEW s \in Seq(Octet), NEW t \in Seq(Octet), BLOCK_LEN <= Len(s), BLOCK_LEN <= Len(t),
         \A i \in 1 .. BLOCK_LEN : s[i] = t[i]
  PROVE  BlockAt(s, 1) = BlockAt(t, 1)
<1>1. BLOCK_LEN \in Nat /\ (1 - 1) * BLOCK_LEN + 1 = 1 /\ 1 * BLOCK_LEN = BLOCK_LEN
  BY BlockAssumption
<1>2. BlockAt(s, 1) = SubSeq(s, 1, BLOCK_LEN) /\ BlockAt(t, 1) = SubSeq(t, 1, BLOCK_LEN)
  BY <1>1 DEF BlockAt
<1>3. /\ SubSeq(s, 1, BLOCK_LEN) \in Seq(Octet) /\ Len(SubSeq(s, 1, BLOCK_LEN)) = BLOCK_LEN
      /\ SubSeq(t, 1, BLOCK_LEN) \in Seq(Octet) /\ Len(SubSeq(t, 1, BLOCK_LEN)) = BLOCK_LEN
      /\ \A i \in 1 .. BLOCK_LEN : SubSeq(s, 1, BLOCK_LEN)[i] = s[i]
      /\ \A i \in 1 .. BLOCK_LEN : SubSeq(t, 1, BLOCK_LEN)[i] = t[i]
  BY <1>1
<1>4. SubSeq(s, 1, BLOCK_LEN) = SubSeq(t, 1, BLOCK_LEN)
  <2>1. PICK a \in Seq(Octet), b \in Seq(Octet) :
          /\ a = SubSeq(s, 1, BLOCK_LEN) /\ b = SubSeq(t, 1, BLOCK_LEN)
          /\ Len(a) = BLOCK_LEN /\ Len(b) = BLOCK_LEN
          /\ \A i \in 1 .. BLOCK_LEN : a[i] = b[i]
    BY <1>3
  <2> QED  BY <2>1, SeqEqual
<1> QED  BY <1>2, <1>4

\* What decrypt makes of a plaintext of a block or more, with the wrong ICV.
LEMMA WrongIvOutcome ==
  ASSUME NEW key \in Key, NEW iv \in Block, NEW other \in Block, iv # other,
         NEW data \in Seq(Octet), Len(data) >= BLOCK_LEN
  PROVE  LET out == Unpad(CbcDecrypt(key, other, CbcEncrypt(key, iv, Pad(data))))
         IN  /\ out.ok
             /\ Len(out.val) = Len(data)
             /\ BlockAt(out.val, 1) # BlockAt(data, 1)
             /\ \A i \in BLOCK_LEN + 1 .. Len(data) : out.val[i] = data[i]
<1>1. PICK k \in Nat, p \in Seq(Octet) : k = Len(data) /\ p = Pad(data)
  BY PaddedBytes
<1>2. /\ Len(p) >= k + 1
      /\ Len(p) % BLOCK_LEN = 0
      /\ \A i \in 1 .. k : p[i] = data[i]
      /\ p[k + 1] = Marker
      /\ \A i \in k + 2 .. Len(p) : p[i] = 0
  BY <1>1, PaddedBytes
<1>3. BLOCK_LEN \in Nat \ {0} /\ BLOCK_LEN <= k /\ Len(p) \in Nat /\ Len(p) >= BLOCK_LEN
  BY <1>1, <1>2, BlockAssumption
<1>4. FirstBlockGarbled(p, CbcDecrypt(key, other, CbcEncrypt(key, iv, p)))
  <2>1. Len(p) % BLOCK_LEN = 0 /\ Len(p) >= BLOCK_LEN
    BY <1>2, <1>3
  <2> QED  BY <2>1, CbcWrongIv
<1>5. PICK t : /\ t = CbcDecrypt(key, other, CbcEncrypt(key, iv, p))
               /\ t \in Seq(Octet)
               /\ Len(t) = Len(p)
               /\ BlockAt(t, 1) # BlockAt(p, 1)
               /\ \A i \in BLOCK_LEN + 1 .. Len(p) : t[i] = p[i]
  BY <1>4 DEF FirstBlockGarbled
<1>6. t[k + 1] = Marker /\ \A i \in k + 2 .. Len(t) : t[i] = 0
  BY <1>2, <1>3, <1>5
<1>7. PICK v \in Seq(Octet) : /\ Unpad(t) = Ok(v)
                              /\ Len(v) = k
                              /\ \A i \in 1 .. k : v[i] = t[i]
  <2>1. t \in Seq(Octet) /\ k \in Nat /\ Len(t) >= k + 1 /\ Len(t) % BLOCK_LEN = 0
    BY <1>2, <1>5
  <2>2. /\ Unpad(t) = Ok(SubSeq(t, 1, k))
        /\ SubSeq(t, 1, k) \in Seq(Octet)
        /\ Len(SubSeq(t, 1, k)) = k
        /\ \A i \in 1 .. k : SubSeq(t, 1, k)[i] = t[i]
    BY <1>6, <2>1, UnpadAtMarker
  <2> QED  BY <2>2
<1>8. BlockAt(v, 1) = BlockAt(t, 1)
  <2>1. BLOCK_LEN <= Len(v) /\ BLOCK_LEN <= Len(t)
    BY <1>3, <1>5, <1>7
  <2>2. \A i \in 1 .. BLOCK_LEN : v[i] = t[i]
    BY <1>3, <1>7
  <2> QED  BY <1>5, <2>1, <2>2, FirstBlockOf
<1>9. BlockAt(data, 1) = BlockAt(p, 1)
  BY <1>1, <1>2, <1>3, FirstBlockOf, SMTT(40)
<1>10. \A i \in BLOCK_LEN + 1 .. k : v[i] = data[i]
  BY <1>2, <1>3, <1>5, <1>7
<1>11. Unpad(t).ok /\ Unpad(t).val = v
  BY <1>7 DEF Ok
<1> QED  BY <1>1, <1>5, <1>7, <1>8, <1>9, <1>10, <1>11

\* A wrong block number never shows as an error once there is a whole block: the
\* plaintext comes back with another first block and nothing else changed
\* (cbc128.rs 44-52 and 117-128).
THEOREM OnlyFirstBlockGarbled == Spec => []WrongNumberGarblesFirstBlock
<1>1. ASSUME OwnRecorded PROVE WrongNumberGarblesFirstBlock
  <2>1. SUFFICES ASSUME OpenedOwn, SameKey, opened.number # sealed.number,
                        Len(sealed.in) >= BLOCK_LEN
                 PROVE  /\ opened.out.ok
                        /\ Len(opened.out.val) = Len(sealed.in)
                        /\ BlockAt(opened.out.val, 1) # BlockAt(sealed.in, 1)
                        /\ \A i \in BLOCK_LEN + 1 .. Len(sealed.in) :
                             opened.out.val[i] = sealed.in[i]
    BY DEF WrongNumberGarblesFirstBlock
  <2>2. PICK key \in Key, m \in Numbers, n \in Numbers, data \in Seq(Octet) :
          /\ key = sealed.key /\ m = sealed.number /\ data = sealed.in
          /\ key = opened.key /\ n = opened.number
          /\ opened.in = CbcEncrypt(key, Icv(key, m), Pad(data))
          /\ opened.out = Decrypt(key, opened.in, n)
    BY <1>1, <2>1, SealedIsCiphertext DEF SameKey
  <2>3. Pad(data) \in Seq(Octet) /\ Len(Pad(data)) % BLOCK_LEN = 0
    BY PaddedBytes
  <2>4. Icv(key, m) \in Block /\ Icv(key, n) \in Block /\ Icv(key, m) # Icv(key, n)
    BY <2>1, <2>2, IcvIsBlock, IcvsDiffer
  <2>5. Len(opened.in) % BLOCK_LEN = 0
    BY <2>2, <2>3, <2>4, CbcRoundTrip
  <2>6. opened.out = Unpad(CbcDecrypt(key, Icv(key, n), CbcEncrypt(key, Icv(key, m), Pad(data))))
    BY <2>2, <2>5 DEF Decrypt
  <2>7. Len(data) >= BLOCK_LEN
    BY <2>1, <2>2
  <2>8. /\ opened.out.ok
        /\ Len(opened.out.val) = Len(data)
        /\ BlockAt(opened.out.val, 1) # BlockAt(data, 1)
        /\ \A i \in BLOCK_LEN + 1 .. Len(data) : opened.out.val[i] = data[i]
    BY <2>4, <2>6, <2>7, WrongIvOutcome
  <2> QED  BY <2>2, <2>8
<1> QED  BY <1>1, AlwaysOwn, PTL
=============================================================================
