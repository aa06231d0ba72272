------------------------- MODULE AvdtpPacketsProofs -------------------------
(***************************************************************************)
(* The packet parser and the SET_CONFIGURATION builder, for packets of any *)
(* length with any content, cut anywhere.                                  *)
(***************************************************************************)
EXTENDS AvdtpPackets, WellFoundedInduction, TLAPS

-----------------------------------------------------------------------------
(* Induction over the numbers, on a set instead of a predicate.            *)

\* A set that holds 0 and the successors of its members holds every number.
LEMMA SetInduction ==
  ASSUME NEW S, 0 \in S, \A n \in Nat : n \in S => n + 1 \in S
  PROVE  \A n \in Nat : n \in S
<1> DEFINE T == {n \in Nat : n \notin S}
<1>1. SUFFICES ASSUME T # {} PROVE FALSE
  BY <1>1
<1>2. IsWellFoundedOn(OpToRel(<, Nat), Nat)
  BY NatLessThanWellFounded
<1>3. PICK m \in T : \A y \in T : ~ (<<y, m>> \in OpToRel(<, Nat))
  <2> HIDE DEF T
  <2>1. T \subseteq Nat
    BY DEF T
  <2>2. QED
    BY <1>1, <1>2, <2>1, WFMin, Zenon
<1>4. \A y \in T : ~ (y < m)
  BY <1>3 DEF OpToRel
<1>5. m # 0 /\ m - 1 \in Nat /\ m - 1 < m /\ (m - 1) + 1 = m
  OBVIOUS
<1>6. m - 1 \in S
  BY <1>4, <1>5
<1>7. QED
  BY <1>5, <1>6
-----------------------------------------------------------------------------
(* What Concat computes.                                                   *)

\* f[k] is the concatenation of the first k elements of ss, for k up to n.
Joins(f, ss, n) == f = [k \in 0..n |-> IF k = 0 THEN << >> ELSE f[k - 1] \o ss[k]]

\* There are such prefixes up to every n.
LEMMA JoinsExist ==
  ASSUME NEW ss
  PROVE  \A n \in Nat : \E f : Joins(f, ss, n)
<1> DEFINE S == {n \in Nat : \E f : Joins(f, ss, n)}
<1>1. 0 \in S
  <2>1. Joins([k \in 0..0 |-> << >>], ss, 0)
    BY DEF Joins
  <2>2. QED
    BY <2>1
<1>2. ASSUME NEW n \in Nat, n \in S PROVE n + 1 \in S
  <2>1. PICK f : Joins(f, ss, n)
    BY <1>2
  <2> DEFINE g == [k \in 0..(n + 1) |-> IF k = n + 1 THEN f[n] \o ss[n + 1] ELSE f[k]]
  <2>2. \A k \in 0..n : g[k] = f[k]
    OBVIOUS
  <2>3. \A k \in 0..n : f[k] = IF k = 0 THEN << >> ELSE f[k - 1] \o ss[k]
    BY <2>1 DEF Joins
  <2>4. ASSUME NEW k \in 0..(n + 1)
        PROVE  g[k] = IF k = 0 THEN << >> ELSE g[k - 1] \o ss[k]
    <3>1. CASE k = n + 1
      <4>1. k # 0 /\ k - 1 = n /\ n \in 0..n
        BY <3>1
      <4>2. QED
        BY <2>2, <3>1, <4>1
    <3>2. CASE k # n + 1
      <4>1. k \in 0..n /\ (k # 0 => k - 1 \in 0..n)
        BY <3>2
      <4>2. QED
        BY <2>2, <2>3, <4>1
    <3>3. QED
      BY <3>1, <3>2
  <2>5. Joins(g, ss, n + 1)
    <3> HIDE DEF g
    <3>1. g = [k \in 0..(n + 1) |-> g[k]]
      BY DEF g
    <3>2. QED
      BY <2>4, <3>1 DEF Joins
  <2>6. QED
    BY <2>5
<1>3. \A n \in Nat : n \in S
  <2> HIDE DEF S
  <2>1. QED
    BY <1>1, <1>2, SetInduction
<1>4. QED
  BY <1>3

\* They depend only on the elements they join.
LEMMA JoinsAgree ==
  ASSUME NEW ss, NEW tt, NEW m \in Nat, NEW n \in Nat, n <= m,
         NEW f, NEW g, Joins(f, ss, m), Joins(g, tt, n),
         \A k \in 1..n : ss[k] = tt[k]
  PROVE  f[n] = g[n]
<1> DEFINE S == {k \in Nat : k <= n => f[k] = g[k]}
<1>1. /\ \A k \in 0..m : f[k] = IF k = 0 THEN << >> ELSE f[k - 1] \o ss[k]
      /\ \A k \in 0..n : g[k] = IF k = 0 THEN << >> ELSE g[k - 1] \o tt[k]
  BY DEF Joins
<1>2. 0 \in S
  BY <1>1
<1>3. ASSUME NEW k \in Nat, k \in S PROVE k + 1 \in S
  <2> SUFFICES ASSUME k + 1 <= n PROVE f[k + 1] = g[k + 1]
    OBVIOUS
  <2>1. f[k] = g[k] /\ k + 1 \in 0..n /\ k + 1 \in 0..m /\ k + 1 \in 1..n
        /\ k + 1 # 0 /\ (k + 1) - 1 = k
    BY <1>3
  <2>2. f[k + 1] = f[k] \o ss[k + 1] /\ g[k + 1] = g[k] \o tt[k + 1]
    BY <1>1, <2>1
  <2>3. QED
    BY <2>1, <2>2
<1>4. \A k \in Nat : k \in S
  <2> HIDE DEF S
  <2>1. QED
    BY <1>2, <1>3, SetInduction
<1>5. QED
  BY <1>4

\* Concat is the last of them.
LEMMA ConcatJoins ==
  ASSUME NEW ss, Len(ss) \in Nat
  PROVE  \E f : Joins(f, ss, Len(ss)) /\ Concat(ss) = f[Len(ss)]
<1> DEFINE f == CHOOSE f : f = [k \in 0..Len(ss) |-> IF k = 0 THEN << >> ELSE f[k - 1] \o ss[k]]
<1>1. \E g : Joins(g, ss, Len(ss))
  BY JoinsExist
<1>2. Joins(f, ss, Len(ss))
  BY <1>1 DEF Joins
<1>3. Concat(ss) = f[Len(ss)]
  BY DEF Concat
<1>4. QED
  BY <1>2, <1>3
\* The first k elements of s, and what they are joined.
Part(s, k) == [j \in 1..k |-> s[j]]
Prefix(s, k) == Concat(Part(s, k))

\* A function on 1..k with values in S is a sequence over S of length k.
LEMMA IsSequence ==
  ASSUME NEW S, NEW k \in Nat, NEW s \in [1..k -> S]
  PROVE  s \in Seq(S) /\ Len(s) = k
OBVIOUS

\* Prefixes grow by one element at a time.
LEMMA PrefixSteps ==
  ASSUME NEW S, NEW n \in Nat, NEW s \in [1..n -> Seq(S)]
  PROVE  /\ Prefix(s, 0) = << >>
         /\ \A k \in 1..n : Prefix(s, k) = Prefix(s, k - 1) \o s[k]
         /\ Prefix(s, n) = Concat(s)
<1>1. ASSUME NEW k \in 0..n
      PROVE  Len(Part(s, k)) = k /\ \A j \in 1..k : Part(s, k)[j] = s[j]
  <2>1. k \in Nat /\ Part(s, k) \in [1..k -> Seq(S)] /\ \A j \in 1..k : Part(s, k)[j] = s[j]
    BY DEF Part
  <2>2. QED
    BY <2>1, IsSequence
<1>2. ASSUME NEW k \in 0..n
      PROVE  \E f : Joins(f, Part(s, k), k) /\ Prefix(s, k) = f[k]
  <2>1. Len(Part(s, k)) = k /\ k \in Nat
    BY <1>1
  <2>2. QED
    BY <2>1, ConcatJoins DEF Prefix
<1>3. Prefix(s, 0) = << >>
  <2>0. 0 \in 0..n
    OBVIOUS
  <2>1. PICK f : Joins(f, Part(s, 0), 0) /\ Prefix(s, 0) = f[0]
    BY <1>2, <2>0
  <2>2. QED
    BY <2>1 DEF Joins
<1>4. ASSUME NEW k \in 1..n PROVE Prefix(s, k) = Prefix(s, k - 1) \o s[k]
  <2>0. k \in 0..n /\ k - 1 \in 0..n /\ k \in Nat /\ k - 1 \in Nat /\ k # 0 /\ k - 1 <= k
        /\ k \in 1..k /\ k \in 0..k /\ k - 1 \in 0..(k - 1)
    OBVIOUS
  <2>1. PICK f : Joins(f, Part(s, k), k) /\ Prefix(s, k) = f[k]
    BY <1>2, <2>0
  <2>2. PICK g : Joins(g, Part(s, k - 1), k - 1) /\ Prefix(s, k - 1) = g[k - 1]
    BY <1>2, <2>0
  <2>3. \A j \in 1..(k - 1) : Part(s, k)[j] = Part(s, k - 1)[j]
    BY <1>1, <2>0
  <2>4. f[k - 1] = g[k - 1]
    <3>1. PICK m \in Nat : m = k - 1 /\ m <= k
      BY <2>0
    <3>2. PICK p : p = Part(s, k)
      OBVIOUS
    <3>3. PICK q : q = Part(s, k - 1)
      OBVIOUS
    <3>4. Joins(f, p, k) /\ Joins(g, q, m)
      BY <2>1, <2>2, <3>1, <3>2, <3>3
    <3>5. \A j \in 1..m : p[j] = q[j]
      BY <2>3, <3>1, <3>2, <3>3
    <3>6. f[m] = g[m]
      BY <2>0, <3>1, <3>4, <3>5, JoinsAgree, SMTT(30)
    <3>7. QED
      BY <3>1, <3>6
  <2>5. f[k] = f[k - 1] \o Part(s, k)[k]
    BY <2>0, <2>1 DEF Joins
  <2>6. Part(s, k)[k] = s[k]
    BY <1>1, <2>0
  <2>7. QED
    BY <2>1, <2>2, <2>4, <2>5, <2>6
<1>5. Part(s, n) = s
  BY DEF Part
<1>6. QED
  BY <1>3, <1>4, <1>5 DEF Prefix

\* What a concatenation of two sequences is made of.
LEMMA TwoParts ==
  ASSUME NEW S, NEW p \in Seq(S), NEW q \in Seq(S)
  PROVE  /\ p \o q \in Seq(S) /\ Len(p \o q) = Len(p) + Len(q)
         /\ \A j \in 1..Len(p) : (p \o q)[j] = p[j]
         /\ \A j \in 1..Len(q) : (p \o q)[Len(p) + j] = q[j]
OBVIOUS

\* Prefixes are sequences over the same set.
LEMMA PrefixType ==
  ASSUME NEW S, NEW n \in Nat, NEW s \in [1..n -> Seq(S)]
  PROVE  \A k \in 0..n : Prefix(s, k) \in Seq(S) /\ Len(Prefix(s, k)) \in Nat
<1> DEFINE T == {k \in Nat : k <= n => Prefix(s, k) \in Seq(S)}
<1>1. 0 \in T
  <2>1. Prefix(s, 0) = << >>
    BY PrefixSteps
  <2>2. << >> \in Seq(S)
    OBVIOUS
  <2>3. QED
    BY <2>1, <2>2
<1>2. ASSUME NEW k \in Nat, k \in T PROVE k + 1 \in T
  <2> SUFFICES ASSUME k + 1 <= n PROVE Prefix(s, k + 1) \in Seq(S)
    OBVIOUS
  <2>1. k + 1 \in 1..n /\ (k + 1) - 1 = k /\ Prefix(s, k) \in Seq(S) /\ s[k + 1] \in Seq(S)
    BY <1>2
  <2>2. Prefix(s, k + 1) = Prefix(s, k) \o s[k + 1]
    BY <2>1, PrefixSteps
  <2>3. QED
    BY <2>1, <2>2, TwoParts
<1>3. \A k \in Nat : k \in T
  <2> HIDE DEF T
  <2>1. QED
    BY <1>1, <1>2, SetInduction
<1>4. QED
  BY <1>3

\* So is the concatenation of all.
LEMMA ConcatType ==
  ASSUME NEW S, NEW n \in Nat, NEW s \in [1..n -> Seq(S)]
  PROVE  Concat(s) \in Seq(S)
<1>1. n \in 0..n
  OBVIOUS
<1>2. Prefix(s, n) \in Seq(S) /\ Prefix(s, n) = Concat(s)
  BY <1>1, PrefixType, PrefixSteps
<1>3. QED
  BY <1>2

\* p is a beginning of q.
Begins(p, q) == Len(p) <= Len(q) /\ \A j \in 1..Len(p) : q[j] = p[j]

\* A shorter prefix is the beginning of a longer one.
LEMMA PrefixPlaces ==
  ASSUME NEW S, NEW n \in Nat, NEW s \in [1..n -> Seq(S)], NEW k \in 0..n
  PROVE  \A m \in 0..n : k <= m => Begins(Prefix(s, k), Prefix(s, m))
<1> DEFINE T == {m \in Nat : k <= m /\ m <= n => Begins(Prefix(s, k), Prefix(s, m))}
<1>0. Len(Prefix(s, k)) \in Nat
  BY PrefixType
<1>1. 0 \in T
  <2>1. k <= 0 => k = 0
    OBVIOUS
  <2>2. k = 0 => Begins(Prefix(s, k), Prefix(s, 0))
    BY <1>0 DEF Begins
  <2>3. QED
    BY <2>1, <2>2
<1>2. ASSUME NEW m \in Nat, m \in T PROVE m + 1 \in T
  <2> SUFFICES ASSUME k <= m + 1, m + 1 <= n PROVE Begins(Prefix(s, k), Prefix(s, m + 1))
    OBVIOUS
  <2>1. CASE k = m + 1
    BY <1>0, <2>1 DEF Begins
  <2>2. CASE k # m + 1
    <3>1. k <= m /\ m <= n /\ m + 1 \in 1..n /\ (m + 1) - 1 = m /\ m \in 0..n
      BY <2>2
    <3>2. Begins(Prefix(s, k), Prefix(s, m))
      BY <1>2, <3>1
    <3>3. Prefix(s, m + 1) = Prefix(s, m) \o s[m + 1]
      BY <3>1, PrefixSteps
    <3>4. Prefix(s, m) \in Seq(S) /\ s[m + 1] \in Seq(S) /\ Len(Prefix(s, m)) \in Nat
      BY <3>1, PrefixType
    <3>5. /\ Len(Prefix(s, m + 1)) = Len(Prefix(s, m)) + Len(s[m + 1])
          /\ \A j \in 1..Len(Prefix(s, m)) : Prefix(s, m + 1)[j] = Prefix(s, m)[j]
          /\ Len(s[m + 1]) \in Nat
      BY <3>3, <3>4, TwoParts
    <3>6. QED
      BY <1>0, <3>2, <3>4, <3>5 DEF Begins
  <2>3. QED
    BY <2>1, <2>2
<1>3. \A m \in Nat : m \in T
  <2> HIDE DEF T
  <2>1. QED
    BY <1>1, <1>2, SetInduction
<1>4. QED
  BY <1>3

\* The place of every element of s in the whole.
Placed(s, n) ==
  \A k \in 1..n :
    /\ Len(Prefix(s, k)) = Len(Prefix(s, k - 1)) + Len(s[k])
    /\ Len(Prefix(s, k)) <= Len(Concat(s))
    /\ \A j \in 1..Len(s[k]) : Concat(s)[Len(Prefix(s, k - 1)) + j] = s[k][j]

\* Every element is in its place.
LEMMA UnitPlace ==
  ASSUME NEW S, NEW n \in Nat, NEW s \in [1..n -> Seq(S)]
  PROVE  Placed(s, n)
<1> SUFFICES ASSUME NEW k \in 1..n
    PROVE  /\ Len(Prefix(s, k)) = Len(Prefix(s, k - 1)) + Len(s[k])
           /\ Len(Prefix(s, k)) <= Len(Concat(s))
           /\ \A j \in 1..Len(s[k]) : Concat(s)[Len(Prefix(s, k - 1)) + j] = s[k][j]
  BY DEF Placed
<1>0. k \in 0..n /\ k - 1 \in 0..n /\ n \in 0..n /\ k <= n /\ s[k] \in Seq(S)
  OBVIOUS
<1>1. /\ Prefix(s, k - 1) \in Seq(S) /\ Len(Prefix(s, k - 1)) \in Nat
      /\ Prefix(s, k) = Prefix(s, k - 1) \o s[k] /\ Prefix(s, n) = Concat(s)
      /\ Prefix(s, n) \in Seq(S)
  BY <1>0, PrefixType, PrefixSteps
<1>2. /\ Len(Prefix(s, k)) = Len(Prefix(s, k - 1)) + Len(s[k]) /\ Len(s[k]) \in Nat
      /\ \A j \in 1..Len(s[k]) : Prefix(s, k)[Len(Prefix(s, k - 1)) + j] = s[k][j]
  BY <1>0, <1>1, TwoParts
<1>3. /\ Len(Prefix(s, k)) <= Len(Concat(s))
      /\ \A j \in 1..Len(Prefix(s, k)) : Concat(s)[j] = Prefix(s, k)[j]
  <2>1. Begins(Prefix(s, k), Prefix(s, n))
    BY <1>0, PrefixPlaces
  <2>2. QED
    BY <1>1, <2>1 DEF Begins
<1>4. \A j \in 1..Len(s[k]) : Len(Prefix(s, k - 1)) + j \in 1..Len(Prefix(s, k))
  BY <1>1, <1>2
<1>5. QED
  BY <1>1, <1>2, <1>3, <1>4
-----------------------------------------------------------------------------
(* The packets.                                                            *)

\* The units the sink sent, as it wrote them.
SepWire == [k \in 1..Len(units) |-> EncodeSep(units[k])]
CapWire == [k \in 1..Len(units) |-> EncodeCapability(units[k])]

\* What arrived is the beginning of w.
Arrived(w) ==
  /\ Len(data) >= 2 /\ pay_len <= Len(Concat(w))
  /\ \A o \in 1..pay_len : data[2 + o] = Concat(w)[o]

\* An end point is two octets.
LEMMA SepBytes ==
  ASSUME NEW s \in Seps
  PROVE  /\ EncodeSep(s) \in Seq(Byte) /\ Len(EncodeSep(s)) = 2
         /\ s[1] \in 1..62 /\ s[2] \in BOOLEAN /\ s[3] \in BOOLEAN /\ s[4] \in 0..15
         /\ EncodeSep(s)[1] = s[1] * 4 + (IF s[2] THEN 2 ELSE 0)
         /\ EncodeSep(s)[2] = s[4] * 16 + (IF s[3] THEN 8 ELSE 0)
<1>1. s[1] \in 1..62 /\ s[2] \in BOOLEAN /\ s[3] \in BOOLEAN /\ s[4] \in 0..15
  BY InputAssumption
<1>2. s[1] * 4 + (IF s[2] THEN 2 ELSE 0) \in Byte /\ s[4] * 16 + (IF s[3] THEN 8 ELSE 0) \in Byte
  BY <1>1 DEF Byte
<1>3. QED
  BY <1>1, <1>2 DEF EncodeSep

\* A capability is a category, a length and its content.
LEMMA CapabilityBytes ==
  ASSUME NEW c \in Capabilities
  PROVE  /\ EncodeCapability(c) \in Seq(Byte)
         /\ Content(c) \in Seq(Byte) /\ Len(Content(c)) \in Byte
         /\ Len(EncodeCapability(c)) = 2 + Len(Content(c))
         /\ EncodeCapability(c)[1] = c[1] /\ EncodeCapability(c)[2] = Len(Content(c))
         /\ \A j \in 1..Len(Content(c)) : EncodeCapability(c)[2 + j] = Content(c)[j]
<1>1. Content(c) \in Seq(Byte) /\ c[1] \in Byte /\ Len(Content(c)) \in Byte
  BY InputAssumption DEF Content
<1> DEFINE h == <<c[1], Len(Content(c))>>
<1>2. h \in Seq(Byte) /\ Len(h) = 2 /\ h[1] = c[1] /\ h[2] = Len(Content(c))
  BY <1>1
<1> HIDE DEF h
<1>3. PICK q \in Seq(Byte) : q = Content(c)
  BY <1>1
<1>4. PICK p \in Seq(Byte) : p = h
  BY <1>2
<1>5. /\ p \o q \in Seq(Byte) /\ Len(p \o q) = Len(p) + Len(q)
      /\ \A j \in 1..Len(p) : (p \o q)[j] = p[j]
      /\ \A j \in 1..Len(q) : (p \o q)[Len(p) + j] = q[j]
  BY TwoParts
<1>6. EncodeCapability(c) = p \o q
  BY <1>3, <1>4 DEF EncodeCapability, h
<1>7. /\ Len(p) = 2 /\ p[1] = c[1] /\ p[2] = Len(q) /\ Len(q) \in Byte
  BY <1>1, <1>2, <1>3, <1>4
<1>8. /\ (p \o q)[1] = c[1] /\ (p \o q)[2] = Len(q) /\ Len(p \o q) = 2 + Len(q)
      /\ \A j \in 1..Len(q) : (p \o q)[2 + j] = q[j]
  BY <1>5, <1>7
<1>9. QED
  BY <1>3, <1>5, <1>6, <1>7, <1>8, Zenon

\* AvdtpHandleSignalingPacket: at least the header, and a beginning of the rest.
LEMMA Received ==
  ASSUME NEW h \in Seq(Byte), Len(h) = 2, NEW w, Concat(w) \in Seq(Byte),
         AvdtpHandleSignalingPacket(h \o Concat(w))
  PROVE  /\ data' \in Seq(Byte) /\ reads' = {0, 1} /\ Len(data') >= 2
         /\ pay_len' <= Len(Concat(w))
         /\ \A o \in 1..pay_len' : data'[2 + o] = Concat(w)[o]
<1> DEFINE b == h \o Concat(w)
<1>1. /\ b \in Seq(Byte) /\ Len(b) = 2 + Len(Concat(w))
      /\ \A j \in 1..Len(Concat(w)) : b[2 + j] = Concat(w)[j]
  <2> HIDE DEF b
  <2>1. PICK q \in Seq(Byte) : q = Concat(w)
    OBVIOUS
  <2>2. /\ h \o q \in Seq(Byte) /\ Len(h \o q) = Len(h) + Len(q)
        /\ \A j \in 1..Len(q) : (h \o q)[Len(h) + j] = q[j]
    <3>1. ASSUME NEW x \in Seq(Byte), NEW y \in Seq(Byte)
          PROVE  /\ x \o y \in Seq(Byte) /\ Len(x \o y) = Len(x) + Len(y)
                 /\ \A j \in 1..Len(y) : (x \o y)[Len(x) + j] = y[j]
      BY TwoParts
    <3>2. QED
      BY <3>1, Zenon
  <2>3. b = h \o q
    BY <2>1 DEF b
  <2>4. QED
    BY <2>1, <2>2, <2>3
<1>2. PICK n \in 2..Len(b) : data' = SubSeq(b, 1, n)
  BY DEF AvdtpHandleSignalingPacket
<1> HIDE DEF b
<1>3. Len(b) \in Nat /\ n \in Nat /\ n <= Len(b) /\ Len(Concat(w)) \in Nat
  BY <1>1
<1>4. data' \in Seq(Byte) /\ Len(data') = n /\ \A j \in 1..n : data'[j] = b[j]
  BY <1>1, <1>2, <1>3
<1>5. pay_len' = n - 2
  BY <1>4 DEF pay_len
<1>6. \A o \in 1..pay_len' : data'[2 + o] = Concat(w)[o]
  BY <1>1, <1>3, <1>4, <1>5, SMTT(30)
<1>7. QED
  BY <1>1, <1>3, <1>4, <1>5, <1>6 DEF AvdtpHandleSignalingPacket

\* A byte that arrived is a byte, and so is what At gives for one that did not.
LEMMA AtByte ==
  ASSUME TypeOK, NEW o \in Nat
  PROVE  At(o) \in Byte /\ Len(data) \in Nat /\ pay_len \in Nat
<1>1. data \in Seq(Byte) /\ Len(data) \in Nat
  BY DEF TypeOK
<1>2. o < Len(data) => data[o + 1] \in Byte
  BY <1>1
<1>3. QED
  BY <1>1, <1>2 DEF At, pay_len, Byte-----------------------------------------------------------------------------
(* No read is out of bounds.                                               *)

\* The index is reset between packets, and what is built is in the table.
BoundInv ==
  /\ pc \in {"discover", "caps"} => i = 0
  /\ pc \in {"build", "done"} => codec \in Configs

SafeInv == TypeOK /\ ReadsInBounds /\ BoundInv

\* The wire form of what the sink sent is a sequence of bytes.
LEMMA SepsSent ==
  ASSUME NEW m \in Nat, NEW sent \in [1..m -> Seps],
         NEW w, w = [k \in 1..m |-> EncodeSep(sent[k])]
  PROVE  w \in [1..m -> Seq(Byte)] /\ Concat(w) \in Seq(Byte)
<1>1. w \in [1..m -> Seq(Byte)]
  BY SepBytes
<1>2. Concat(w) \in Seq(Byte)
  BY <1>1, ConcatType, Zenon
<1>3. QED
  BY <1>1, <1>2

\* The same for capabilities.
LEMMA CapabilitiesSent ==
  ASSUME NEW m \in Nat, NEW sent \in [1..m -> Capabilities],
         NEW w, w = [k \in 1..m |-> EncodeCapability(sent[k])]
  PROVE  w \in [1..m -> Seq(Byte)] /\ Concat(w) \in Seq(Byte)
<1>1. w \in [1..m -> Seq(Byte)]
  BY CapabilityBytes
<1>2. Concat(w) \in Seq(Byte)
  BY <1>1, ConcatType, Zenon
<1>3. QED
  BY <1>1, <1>2

\* What ReceiveDiscover leaves: the sink's end points and a beginning of their
\* wire form.
LEMMA DiscoverReceived ==
  ASSUME ReceiveDiscover
  PROVE  \E m \in Nat : \E sent \in [1..m -> Seps], w \in [1..m -> Seq(Byte)] :
           /\ units' = sent /\ w = [k \in 1..m |-> EncodeSep(sent[k])]
           /\ data' \in Seq(Byte) /\ reads' = {0, 1} /\ Len(data') >= 2
           /\ pay_len' <= Len(Concat(w))
           /\ \A o \in 1..pay_len' : data'[2 + o] = Concat(w)[o]
<1>1. PICK m \in 0..MaxUnits : \E sent \in [1..m -> Seps] :
         /\ units' = sent
         /\ AvdtpHandleSignalingPacket(
              DiscoverHeader \o Concat([k \in 1..m |-> EncodeSep(sent[k])]))
  BY DEF ReceiveDiscover
<1>2. PICK sent \in [1..m -> Seps] :
         /\ units' = sent
         /\ AvdtpHandleSignalingPacket(
              DiscoverHeader \o Concat([k \in 1..m |-> EncodeSep(sent[k])]))
  BY <1>1
<1>3. m \in Nat
  BY InputAssumption
<1> DEFINE w == [k \in 1..m |-> EncodeSep(sent[k])]
<1>4. AvdtpHandleSignalingPacket(DiscoverHeader \o Concat(w))
  BY <1>2
<1>5. w \in [1..m -> Seq(Byte)] /\ Concat(w) \in Seq(Byte)
  BY <1>3, SepsSent
<1>6. DiscoverHeader \in Seq(Byte) /\ Len(DiscoverHeader) = 2
  BY DEF DiscoverHeader, Byte
<1>7. w = [k \in 1..m |-> EncodeSep(sent[k])]
  OBVIOUS
<1> HIDE DEF w
<1>8. /\ data' \in Seq(Byte) /\ reads' = {0, 1} /\ Len(data') >= 2
      /\ pay_len' <= Len(Concat(w))
      /\ \A o \in 1..pay_len' : data'[2 + o] = Concat(w)[o]
  BY <1>4, <1>5, <1>6, Received
<1>9. QED
  BY <1>2, <1>3, <1>5, <1>7, <1>8, Zenon

\* What ReceiveCapabilities leaves.
LEMMA CapabilitiesReceived ==
  ASSUME ReceiveCapabilities
  PROVE  \E m \in Nat : \E sent \in [1..m -> Capabilities], w \in [1..m -> Seq(Byte)] :
           /\ units' = sent /\ w = [k \in 1..m |-> EncodeCapability(sent[k])]
           /\ data' \in Seq(Byte) /\ reads' = {0, 1} /\ Len(data') >= 2
           /\ pay_len' <= Len(Concat(w))
           /\ \A o \in 1..pay_len' : data'[2 + o] = Concat(w)[o]
<1>1. PICK m \in 0..MaxUnits : \E sent \in [1..m -> Capabilities] :
         /\ units' = sent
         /\ AvdtpHandleSignalingPacket(
              GetCapabilitiesHeader \o Concat([k \in 1..m |-> EncodeCapability(sent[k])]))
  BY DEF ReceiveCapabilities
<1>2. PICK sent \in [1..m -> Capabilities] :
         /\ units' = sent
         /\ AvdtpHandleSignalingPacket(
              GetCapabilitiesHeader \o Concat([k \in 1..m |-> EncodeCapability(sent[k])]))
  BY <1>1
<1>3. m \in Nat
  BY InputAssumption
<1> DEFINE w == [k \in 1..m |-> EncodeCapability(sent[k])]
<1>4. AvdtpHandleSignalingPacket(GetCapabilitiesHeader \o Concat(w))
  BY <1>2
<1>5. w \in [1..m -> Seq(Byte)] /\ Concat(w) \in Seq(Byte)
  BY <1>3, CapabilitiesSent
<1>6. GetCapabilitiesHeader \in Seq(Byte) /\ Len(GetCapabilitiesHeader) = 2
  BY DEF GetCapabilitiesHeader, Byte
<1>7. w = [k \in 1..m |-> EncodeCapability(sent[k])]
  OBVIOUS
<1> HIDE DEF w
<1>8. /\ data' \in Seq(Byte) /\ reads' = {0, 1} /\ Len(data') >= 2
      /\ pay_len' <= Len(Concat(w))
      /\ \A o \in 1..pay_len' : data'[2 + o] = Concat(w)[o]
  BY <1>4, <1>5, <1>6, Received
<1>9. QED
  BY <1>2, <1>3, <1>5, <1>7, <1>8, Zenon
\* The base case.
LEMMA SafeInit == Init => SafeInv
BY DEF Init, SafeInv, TypeOK, ReadsInBounds, BoundInv, Labels, Byte, SEID_NONE, Codecs,
       SET_CONFIGURATION_MAX_LEN

\* A packet arrives: only its header has been read.
LEMMA SafeReceive ==
  ASSUME SafeInv, ReceiveDiscover \/ ReceiveCapabilities
  PROVE  SafeInv'
<1>1. /\ data' \in Seq(Byte) /\ reads' = {0, 1} /\ Len(data') >= 2 /\ Len(data') \in Nat
  BY DiscoverReceived, CapabilitiesReceived
<1>2. /\ i = 0 /\ UNCHANGED <<i, seid, RemoteSeid, PreferredCodecId, codec, buf>>
      /\ pc' \in {"find", "contain"}
  BY DEF SafeInv, BoundInv, ReceiveDiscover, ReceiveCapabilities, AvdtpHandleSignalingPacket
<1>3. TypeOK'
  BY <1>1, <1>2 DEF SafeInv, TypeOK, Labels
<1>4. ReadsInBounds'
  BY <1>1 DEF ReadsInBounds
<1>5. BoundInv'
  BY <1>2 DEF BoundInv
<1>6. QED
  BY <1>3, <1>4, <1>5 DEF SafeInv

\* An iteration over the end points reads two octets of the payload.
LEMMA SafeFind ==
  ASSUME SafeInv, find_free_audio_sink_seid
  PROVE  SafeInv'
<1>1. TypeOK /\ ReadsInBounds /\ BoundInv
  BY DEF SafeInv
<1>2. /\ data \in Seq(Byte) /\ Len(data) \in Nat /\ i \in Nat /\ i <= Len(data) /\ pay_len \in Nat
      /\ data' = data /\ pc = "find"
      /\ pay_len = IF Len(data) > 2 THEN Len(data) - 2 ELSE 0
  BY <1>1 DEF TypeOK, find_free_audio_sink_seid, pay_len
<1>3. SepLeft => i + 4 <= Len(data)
  BY <1>2 DEF SepLeft, SEP_INFO_LEN
<1>4. /\ reads' = {} \/ (SepLeft /\ reads' = {i + 2, i + 3})
      /\ i' = i \/ (SepLeft /\ i' = i + 2)
      /\ pc' \in {"find", "found"}
  BY <1>2 DEF find_free_audio_sink_seid, SepLeft, SEP_INFO_LEN, Payload
<1>5. seid' \in 0..63
  <2>1. At(Payload(i)) \in Byte
    BY <1>1, <1>2, AtByte DEF Payload
  <2>2. (At(Payload(i)) \div 4) % 64 \in 0..63
    BY <2>1 DEF Byte
  <2>3. seid \in 0..63
    BY <1>1 DEF TypeOK
  <2>4. seid' \in {seid, 0, (At(Payload(i)) \div 4) % 64}
    BY DEF find_free_audio_sink_seid, SEID_NONE
  <2>5. QED
    BY <2>2, <2>3, <2>4
<1>6. ReadsInBounds'
  BY <1>2, <1>3, <1>4 DEF ReadsInBounds
<1>7. i' \in 0..Len(data) /\ reads' \subseteq Nat
  BY <1>2, <1>3, <1>4
<1>8. TypeOK'
  BY <1>1, <1>2, <1>4, <1>5, <1>7 DEF TypeOK, find_free_audio_sink_seid, Labels
<1>9. BoundInv'
  BY <1>4 DEF BoundInv
<1>10. QED
  BY <1>6, <1>8, <1>9 DEF SafeInv

\* HandleDiscoverResponse reads nothing and drops the packet.
LEMMA SafeHandleDiscover ==
  ASSUME SafeInv, HandleDiscoverResponse
  PROVE  SafeInv'
<1>1. /\ data' = << >> /\ i' = 0 /\ reads' = {} /\ pc' \in {"discover", "caps"}
      /\ RemoteSeid' \in {RemoteSeid, seid}
      /\ UNCHANGED <<seid, PreferredCodecId, codec, buf>>
  BY DEF HandleDiscoverResponse
<1>2. << >> \in Seq(Byte) /\ Len(<< >>) = 0
  OBVIOUS
<1>3. TypeOK'
  BY <1>1, <1>2 DEF SafeInv, TypeOK, Labels
<1>4. QED
  BY <1>1, <1>3 DEF SafeInv, ReadsInBounds, BoundInv

\* An iteration over the capabilities reads a capability only as far as its
\* length octet allows, and only one that is whole.
LEMMA SafeContain ==
  ASSUME SafeInv, capabilities_contain_config
  PROVE  SafeInv'
<1>1. TypeOK /\ ReadsInBounds /\ BoundInv
  BY DEF SafeInv
<1>2. /\ data \in Seq(Byte) /\ Len(data) \in Nat /\ i \in Nat /\ i <= Len(data) /\ pay_len \in Nat
      /\ data' = data /\ pc = "contain"
      /\ pay_len = IF Len(data) > 2 THEN Len(data) - 2 ELSE 0
  BY <1>1 DEF TypeOK, capabilities_contain_config, pay_len
<1> DEFINE o == Payload(i)
           config == kCodecConfigs[PreferredCodecId]
           capability_len == CAPABILITY_HEADER_LEN + At(o + 1)
<1>3. At(o + 1) \in Nat /\ o = 2 + i
  <2>1. o = 2 + i /\ o + 1 \in Nat
    BY <1>2 DEF Payload
  <2>2. PICK x \in Nat : x = o + 1
    BY <2>1
  <2>3. At(x) \in Byte
    BY <1>1, AtByte
  <2>4. QED
    BY <2>1, <2>2, <2>3 DEF Byte
<1>4. CASE PreferredCodecId \notin Configs \/ i + CAPABILITY_HEADER_LEN > pay_len
  <2>1. reads' = {} /\ codec' = "sbc" /\ pc' = "build" /\ i' = 0
    BY <1>4 DEF capabilities_contain_config, Select
  <2>2. QED
    BY <1>1, <1>2, <2>1 DEF SafeInv, TypeOK, ReadsInBounds, BoundInv, capabilities_contain_config,
       Labels, Codecs, Configs, kCodecConfigs
<1>5. CASE PreferredCodecId \in Configs /\ i + CAPABILITY_HEADER_LEN <= pay_len
  <2>0. i + 2 <= pay_len /\ ~(i + CAPABILITY_HEADER_LEN > pay_len) /\ o + 1 < Len(data)
    BY <1>2, <1>3, <1>5 DEF CAPABILITY_HEADER_LEN
  <2>1. IF Overruns(capability_len)
        THEN reads' = {o + 1} /\ Select("sbc")
        ELSE /\ reads' = MatchReads(o, config)
             /\ IF media_codec_matches(o, config)
                THEN Select(PreferredCodecId)
                ELSE i' = i + capability_len /\ UNCHANGED <<codec, pc>>
    BY <1>5, <2>0 DEF capabilities_contain_config
  <2>2. config.match_len \in Nat
    BY <1>5, TableAssumption
  <2>3. ASSUME ~Overruns(capability_len)
        PROVE  /\ i + capability_len \in 0..Len(data)
               /\ \A x \in MatchReads(o, config) : x \in Nat /\ x < Len(data)
    <3>1. i + 2 + At(o + 1) <= pay_len /\ capability_len = 2 + At(o + 1)
      BY <1>2, <1>3, <2>3 DEF Overruns, CAPABILITY_HEADER_LEN
    <3>2. At(o + 1) >= 1 + config.match_len => o + 2 + config.match_len < Len(data)
      <4> HIDE DEF o, config, capability_len
      <4>1. PICK a \in Nat : a = At(o + 1)
        BY <1>3
      <4>2. PICK m \in Nat : m = config.match_len
        BY <2>2
      <4>3. i + 2 + a <= pay_len /\ pay_len <= Len(data) - 2
        BY <1>2, <2>0, <3>1, <4>1
      <4>4. a >= 1 + m => 2 + i + 2 + m < Len(data)
        BY <1>2, <4>1, <4>2, <4>3
      <4>5. QED
        BY <1>3, <4>1, <4>2, <4>4
    <3> HIDE DEF o, config
    <3>3. \A x \in MatchReads(o, config) : x \in Nat /\ x < Len(data)
      BY <1>2, <1>3, <2>0, <2>2, <3>2 DEF MatchReads, CAPABILITY_HEADER_LEN
    <3>4. QED
      BY <1>2, <1>3, <3>1, <3>3
  <2>4. /\ \A x \in reads' : x \in Nat /\ x < Len(data)
        /\ i' \in 0..Len(data)
    <3>1. CASE Overruns(capability_len)
      BY <1>2, <1>3, <2>0, <2>1, <3>1 DEF Select
    <3>2. CASE ~Overruns(capability_len)
      <4> HIDE DEF o, config, capability_len
      <4>1. i' \in {0, i + capability_len} /\ reads' = MatchReads(o, config)
        BY <2>1, <3>2 DEF Select
      <4>2. QED
        BY <1>2, <2>3, <3>2, <4>1
    <3>3. QED
      BY <3>1, <3>2
  <2>5. \/ codec' \in {"sbc", PreferredCodecId} /\ pc' = "build"
        \/ codec' = codec /\ pc' = pc
    <3> HIDE DEF o, config, capability_len
    <3>1. QED
      BY <2>1 DEF Select
  <2>6. UNCHANGED <<units, data, seid, RemoteSeid, PreferredCodecId, buf>>
    BY DEF capabilities_contain_config
  <2>7. "sbc" \in Configs /\ Configs \subseteq Codecs
    BY DEF Configs, kCodecConfigs, Codecs
  <2> HIDE DEF o, config, capability_len
  <2>8. TypeOK'
    BY <1>1, <1>2, <1>5, <2>4, <2>5, <2>6, <2>7 DEF TypeOK, Labels
  <2>9. ReadsInBounds' /\ BoundInv'
    BY <1>2, <1>5, <2>4, <2>5, <2>7 DEF ReadsInBounds, BoundInv
  <2>10. QED
    BY <2>8, <2>9 DEF SafeInv
<1>6. QED
  <2>1. i + CAPABILITY_HEADER_LEN \in Nat /\ pay_len \in Nat
    BY <1>2 DEF CAPABILITY_HEADER_LEN
  <2>2. QED
    BY <1>4, <1>5, <2>1

\* The entries of the table.
LEMMA TableInfo ==
  ASSUME NEW c \in Configs
  PROVE  /\ kCodecConfigs[c].info \in Seq(Byte)
         /\ Len(kCodecConfigs[c].info) \in 1..12
<1>1. kCodecConfigs[c].info \in Seq(Byte)
  BY TableAssumption
<1>2. c \in {"sbc", "aac", "aptx", "aptxhd", "ldac"}
  BY DEF Configs, kCodecConfigs
<1>3. Len(kCodecConfigs[c].info) \in 1..12
  <2>1. CASE c = "sbc"
    BY <2>1 DEF kCodecConfigs
  <2>2. CASE c = "aac"
    BY <2>2 DEF kCodecConfigs
  <2>3. CASE c = "aptx"
    BY <2>3 DEF kCodecConfigs
  <2>4. CASE c = "aptxhd"
    BY <2>4 DEF kCodecConfigs
  <2>5. CASE c = "ldac"
    BY <2>5 DEF kCodecConfigs
  <2>6. QED
    BY <1>2, <2>1, <2>2, <2>3, <2>4, <2>5
<1>4. QED
  BY <1>1, <1>3
\* What is built: seven octets of headers, then the codec's bytes.
LEMMA Built ==
  ASSUME SafeInv, build_set_configuration
  PROVE  /\ buf' \in Seq(Byte)
         /\ Len(buf') = 7 + Len(kCodecConfigs[codec].info)
         /\ buf'[1] = 4 * RemoteSeid /\ buf'[6] = Len(buf') - 6
         /\ \A j \in 1..Len(kCodecConfigs[codec].info) :
              buf'[7 + j] = kCodecConfigs[codec].info[j]
<1>1. codec \in Configs /\ RemoteSeid \in 0..63
  BY DEF SafeInv, TypeOK, BoundInv, build_set_configuration
<1>2. PICK q \in Seq(Byte) : q = kCodecConfigs[codec].info /\ Len(q) \in 1..12
  BY <1>1, TableInfo
<1>3. encode_seid(RemoteSeid) = 4 * RemoteSeid /\ encode_seid(LocalSeid) \in Byte
      /\ 4 * RemoteSeid \in Byte
  BY <1>1 DEF encode_seid, LocalSeid, Byte
<1> DEFINE h == << encode_seid(RemoteSeid), encode_seid(LocalSeid),
                   MEDIA_TRANSPORT, 0, MEDIA_CODEC, 1 + Len(q), AUDIO * 16 >>
<1>4. PICK p \in Seq(Byte) : /\ p = h /\ Len(p) = 7
                             /\ p[1] = 4 * RemoteSeid /\ p[6] = 1 + Len(q)
  <2>0. PICK n \in 1..12 : n = Len(q)
    BY <1>2
  <2>1. 1 + n \in Byte /\ AUDIO * 16 \in Byte /\ MEDIA_TRANSPORT \in Byte
        /\ 0 \in Byte /\ MEDIA_CODEC \in Byte
    BY DEF Byte, AUDIO, MEDIA_TRANSPORT, MEDIA_CODEC
  <2>2. h \in Seq(Byte) /\ Len(h) = 7 /\ h[1] = 4 * RemoteSeid /\ h[6] = 1 + Len(q)
    BY <1>3, <2>0, <2>1
  <2> HIDE DEF h
  <2>3. QED
    BY <2>2
<1>5. buf' = p \o q
  <2>0. PICK n \in 1..12 : n = Len(q)
    BY <1>2
  <2>1. ~(SET_CONFIGURATION_MAX_LEN < 2 + CAPABILITY_HEADER_LEN + CAPABILITY_HEADER_LEN + (1 + n))
    BY DEF SET_CONFIGURATION_MAX_LEN, CAPABILITY_HEADER_LEN
  <2>2. buf' = h \o q
    BY <1>2, <2>0, <2>1 DEF build_set_configuration
  <2>3. QED
    BY <1>4, <2>2
<1>6. /\ p \o q \in Seq(Byte) /\ Len(p \o q) = Len(p) + Len(q)
      /\ \A j \in 1..Len(p) : (p \o q)[j] = p[j]
      /\ \A j \in 1..Len(q) : (p \o q)[Len(p) + j] = q[j]
  <2>1. ASSUME NEW x \in Seq(Byte), NEW y \in Seq(Byte)
        PROVE  /\ x \o y \in Seq(Byte) /\ Len(x \o y) = Len(x) + Len(y)
               /\ \A j \in 1..Len(x) : (x \o y)[j] = x[j]
               /\ \A j \in 1..Len(y) : (x \o y)[Len(x) + j] = y[j]
    BY TwoParts
  <2>2. QED
    BY <2>1, Zenon
<1> HIDE DEF h
<1>7. /\ Len(p \o q) = 7 + Len(q) /\ (p \o q)[1] = 4 * RemoteSeid
      /\ (p \o q)[6] = Len(p \o q) - 6
      /\ \A j \in 1..Len(q) : (p \o q)[7 + j] = q[j]
  BY <1>2, <1>4, <1>6
<1>8. QED
  BY <1>2, <1>5, <1>6, <1>7

\* It fits the buffer.
LEMMA SafeBuild ==
  ASSUME SafeInv, build_set_configuration
  PROVE  SafeInv'
<1>1. buf' \in Seq(Byte) /\ Len(buf') = 7 + Len(kCodecConfigs[codec].info)
  BY Built
<1>2. codec \in Configs /\ TypeOK
  BY DEF SafeInv, BoundInv, build_set_configuration
<1>3. Len(buf') <= SET_CONFIGURATION_MAX_LEN
  <2>1. PICK n \in 1..12 : n = Len(kCodecConfigs[codec].info)
    BY <1>2, TableInfo
  <2>2. 7 + n <= SET_CONFIGURATION_MAX_LEN
    BY DEF SET_CONFIGURATION_MAX_LEN
  <2>3. QED
    BY <1>1, <2>1, <2>2
<1>4. /\ pc' = "done" /\ reads' = {}
      /\ UNCHANGED <<units, data, i, seid, RemoteSeid, PreferredCodecId, codec>>
  BY DEF build_set_configuration
<1>5. TypeOK'
  BY <1>1, <1>2, <1>3, <1>4 DEF TypeOK, Labels
<1>6. QED
  BY <1>2, <1>4, <1>5 DEF SafeInv, ReadsInBounds, BoundInv

\* SafeInv is inductive.
LEMMA SafeNext ==
  ASSUME SafeInv, [Next]_vars
  PROVE  SafeInv'
<1>1. CASE UNCHANGED vars
  BY <1>1 DEF vars, SafeInv, TypeOK, ReadsInBounds, BoundInv
<1>2. CASE ReceiveDiscover \/ ReceiveCapabilities
  BY <1>2, SafeReceive
<1>3. CASE find_free_audio_sink_seid
  BY <1>3, SafeFind
<1>4. CASE HandleDiscoverResponse
  BY <1>4, SafeHandleDiscover
<1>5. CASE capabilities_contain_config
  BY <1>5, SafeContain
<1>6. CASE build_set_configuration
  BY <1>6, SafeBuild
<1>7. QED
  BY <1>1, <1>2, <1>3, <1>4, <1>5, <1>6 DEF Next

\* The invariant holds for packets of any number of units, cut anywhere.
THEOREM SafeInvariance == Spec => []SafeInv
BY SafeInit, SafeNext, PTL DEF Spec

\* SEIDs, indices and the payload built stay in their types: the index never
\* leaves the packet, and SET_CONFIGURATION fits its 19 octets
\* (avdtp_packets.h:15).
THEOREM TypeCorrect == Spec => []TypeOK
<1>1. SafeInv => TypeOK
  BY DEF SafeInv
<1>2. QED
  BY <1>1, SafeInvariance, PTL

\* No loop of the parser reads past the bytes that arrived, whatever the
\* length octets inside them claim (avdtp_packets.c:109-140).
THEOREM InBounds == Spec => []ReadsInBounds
<1>1. SafeInv => ReadsInBounds
  BY DEF SafeInv
<1>2. QED
  BY <1>1, SafeInvariance, PTL-----------------------------------------------------------------------------
(* What the parser makes of the packet is what the sink meant.             *)

\* The end point found is the first free audio sink of the response.
FirstSink ==
  seid # SEID_NONE => \E k \in FreeSinks : /\ seid = Seid(units[k])
                                           /\ \A j \in FreeSinks : k <= j

\* The loop over the end points is at the beginning of one, and none before it
\* is a free audio sink.
FindInv ==
  pc \in {"find", "found"} =>
    /\ Len(units) \in Nat /\ units \in [1..Len(units) -> Seps] /\ Arrived(SepWire)
    /\ pc = "find" => \E k \in 0..Len(units) :
         i = 2 * k /\ \A j \in 1..k : ~FreeAudioSink(units[j])
    /\ pc = "found" => FirstSink

\* A capability that arrived complete offers codec P.
Offers(P) == \E k \in Complete : units[k][2] = P

\* The codec the response calls for.
Named ==
  IF Offers(PreferredCodecId) /\ PreferredCodecId \in Configs
  THEN PreferredCodecId ELSE "sbc"

\* The loop over the capabilities is at the beginning of one, and none before
\* it offers the preferred codec.
ContainInv ==
  pc \in {"contain", "build", "done"} =>
    /\ Len(units) \in Nat /\ units \in [1..Len(units) -> Capabilities] /\ Arrived(CapWire)
    /\ pc = "contain" => \E k \in 0..Len(units) :
         i = Len(Prefix(CapWire, k)) /\ \A j \in 1..k : units[j][2] # PreferredCodecId
    /\ pc \in {"build", "done"} => codec = Named

\* The payload built is the codec's.
BuildInv ==
  pc = "done" =>
    /\ Len(buf) = 7 + Len(kCodecConfigs[codec].info)
    /\ buf[1] = 4 * RemoteSeid /\ buf[6] = Len(buf) - 6
    /\ \A j \in 1..Len(kCodecConfigs[codec].info) :
         buf[7 + j] = kCodecConfigs[codec].info[j]

MeaningInv == SafeInv /\ FindInv /\ ContainInv /\ BuildInv

\* An octet of the payload is the octet the sink wrote there.
LEMMA WireByte ==
  ASSUME TypeOK, NEW w, Arrived(w), NEW o \in Nat, o < pay_len
  PROVE  At(2 + o) = Concat(w)[o + 1]
<1>1. Len(data) \in Nat /\ pay_len = Len(data) - 2 /\ o + 1 \in 1..pay_len
  BY DEF TypeOK, Arrived, pay_len
<1>2. data[2 + (o + 1)] = Concat(w)[o + 1]
  BY <1>1 DEF Arrived
<1>3. 2 + o < Len(data) /\ (2 + o) + 1 = 2 + (o + 1)
  BY <1>1
<1>4. QED
  BY <1>2, <1>3 DEF At

\* k end points are 2 * k octets.
LEMMA SepLengths ==
  ASSUME NEW n \in Nat, NEW u \in [1..n -> Seps], NEW w \in [1..n -> Seq(Byte)],
         \A k \in 1..n : w[k] = EncodeSep(u[k])
  PROVE  \A k \in 0..n : Len(Prefix(w, k)) = 2 * k
<1> DEFINE T == {k \in Nat : k <= n => Len(Prefix(w, k)) = 2 * k}
<1>1. 0 \in T
  <2>1. Prefix(w, 0) = << >>
    BY PrefixSteps
  <2>2. QED
    BY <2>1
<1>2. ASSUME NEW k \in Nat, k \in T PROVE k + 1 \in T
  <2> SUFFICES ASSUME k + 1 <= n PROVE Len(Prefix(w, k + 1)) = 2 * (k + 1)
    OBVIOUS
  <2>1. PICK m \in 1..n : m = k + 1 /\ m - 1 = k
    OBVIOUS
  <2>2. Len(Prefix(w, m)) = Len(Prefix(w, m - 1)) + Len(w[m])
    <3>1. Placed(w, n)
      BY UnitPlace, Zenon
    <3>2. QED
      BY <3>1 DEF Placed
  <2>3. Len(w[m]) = 2
    BY SepBytes
  <2>4. Len(Prefix(w, k)) = 2 * k
    BY <1>2
  <2>5. QED
    BY <2>1, <2>2, <2>3, <2>4
<1>3. \A k \in Nat : k \in T
  <2> HIDE DEF T
  <2>1. QED
    BY <1>1, <1>2, SetInduction
<1>4. QED
  BY <1>3

\* The two octets of the end point after the first k.
LEMMA SepAt ==
  ASSUME TypeOK, NEW n \in Nat, NEW u \in [1..n -> Seps], NEW w \in [1..n -> Seq(Byte)],
         \A k \in 1..n : w[k] = EncodeSep(u[k]), Arrived(w),
         NEW k \in 0..n, 2 * k + 2 <= pay_len
  PROVE  /\ k + 1 \in 1..n
         /\ At(2 + 2 * k) = EncodeSep(u[k + 1])[1]
         /\ At(2 + 2 * k + 1) = EncodeSep(u[k + 1])[2]
<1>0. pay_len \in Nat /\ pay_len <= Len(Concat(w))
  BY DEF TypeOK, Arrived, pay_len
<1>1. Len(Concat(w)) = 2 * n
  <2>1. Prefix(w, n) = Concat(w)
    BY PrefixSteps, Zenon
  <2>2. n \in 0..n
    OBVIOUS
  <2>3. QED
    BY <2>1, <2>2, SepLengths
<1>2. k + 1 \in 1..n
  BY <1>0, <1>1
<1>3. PICK m \in 1..n : m = k + 1 /\ m - 1 = k
  BY <1>2
<1>4. /\ Len(Prefix(w, m - 1)) = 2 * k /\ w[m] = EncodeSep(u[m]) /\ Len(w[m]) = 2
  <2>1. Len(Prefix(w, k)) = 2 * k
    BY SepLengths
  <2>2. QED
    BY <1>3, <2>1, SepBytes
<1>5. \A j \in 1..Len(w[m]) : Concat(w)[Len(Prefix(w, m - 1)) + j] = w[m][j]
  <2>1. Placed(w, n)
    BY UnitPlace, Zenon
  <2>2. QED
    BY <2>1, Zenon DEF Placed
<1>6. Concat(w)[2 * k + 1] = w[m][1] /\ Concat(w)[2 * k + 2] = w[m][2]
  BY <1>4, <1>5
<1>7. PICK a \in Nat : a = 2 * k
  OBVIOUS
<1>8. At(2 + a) = Concat(w)[a + 1]
  BY <1>0, <1>7, WireByte
<1>9. At(2 + (a + 1)) = Concat(w)[(a + 1) + 1]
  <2>1. PICK b \in Nat : b = a + 1 /\ b < pay_len
    BY <1>0, <1>7
  <2>2. At(2 + b) = Concat(w)[b + 1]
    BY <2>1, WireByte
  <2>3. QED
    BY <2>1, <2>2
<1>10. /\ 2 + (a + 1) = 2 + 2 * k + 1 /\ (a + 1) + 1 = 2 * k + 2
       /\ 2 + a = 2 + 2 * k /\ a + 1 = 2 * k + 1
  BY <1>7
<1>11. QED
  BY <1>2, <1>3, <1>4, <1>6, <1>8, <1>9, <1>10

\* is_free_audio_sink and the SEID taken from the octet agree with the end point.
LEMMA SepRead ==
  ASSUME NEW s \in Seps, NEW o \in Nat,
         At(o) = EncodeSep(s)[1], At(o + 1) = EncodeSep(s)[2]
  PROVE  /\ is_free_audio_sink(o) <=> FreeAudioSink(s)
         /\ (At(o) \div 4) % 64 = Seid(s)
<1>1. PICK a \in 1..62 : a = s[1]
  BY SepBytes
<1>2. PICK b \in 0..15 : b = s[4]
  BY SepBytes
<1>3. PICK x \in {0, 2} : x = (IF s[2] THEN 2 ELSE 0)
  OBVIOUS
<1>4. PICK y \in {0, 8} : y = (IF s[3] THEN 8 ELSE 0)
  OBVIOUS
<1>5. At(o) = a * 4 + x /\ At(o + 1) = b * 16 + y
  BY <1>1, <1>2, <1>3, <1>4, SepBytes
<1>6. /\ ((a * 4 + x) \div 2) % 2 = 0 <=> x = 0
      /\ ((a * 4 + x) \div 4) % 64 = a
  <2>1. CASE x = 0
    BY <2>1
  <2>2. CASE x = 2
    BY <2>2
  <2>3. QED
    BY <2>1, <2>2
<1>7. /\ ((b * 16 + y) \div 8) % 2 = 1 <=> y = 8
      /\ (b * 16 + y) \div 16 = b
  <2>1. CASE y = 0
    BY <2>1
  <2>2. CASE y = 8
    BY <2>2
  <2>3. QED
    BY <2>1, <2>2
<1>8. (x = 0 <=> ~s[2]) /\ (y = 8 <=> s[3])
  BY <1>3, <1>4
<1>9. is_free_audio_sink(o) <=> x = 0 /\ y = 8 /\ b = AUDIO
  BY <1>5, <1>6, <1>7 DEF is_free_audio_sink
<1>10. FreeAudioSink(s) <=> x = 0 /\ y = 8 /\ b = AUDIO
  BY <1>2, <1>8 DEF FreeAudioSink
<1>11. QED
  BY <1>1, <1>5, <1>6, <1>9, <1>10 DEF Seid
\* A DISCOVER response arrives: the loop is at its first end point.
LEMMA FindReceive ==
  ASSUME MeaningInv, ReceiveDiscover
  PROVE  FindInv'
<1>1. PICK m \in Nat : \E sent \in [1..m -> Seps], w \in [1..m -> Seq(Byte)] :
           /\ units' = sent /\ w = [k \in 1..m |-> EncodeSep(sent[k])]
           /\ data' \in Seq(Byte) /\ reads' = {0, 1} /\ Len(data') >= 2
           /\ pay_len' <= Len(Concat(w))
           /\ \A o \in 1..pay_len' : data'[2 + o] = Concat(w)[o]
  BY DiscoverReceived
<1>2. PICK sent \in [1..m -> Seps], w \in [1..m -> Seq(Byte)] :
           /\ units' = sent /\ w = [k \in 1..m |-> EncodeSep(sent[k])]
           /\ Len(data') >= 2
           /\ pay_len' <= Len(Concat(w))
           /\ \A o \in 1..pay_len' : data'[2 + o] = Concat(w)[o]
  BY <1>1
<1>3. Len(units') = m /\ units' \in [1..m -> Seps]
  BY <1>2, IsSequence
<1>4. SepWire' = w
  BY <1>2, <1>3 DEF SepWire
<1>5. Arrived(SepWire)'
  BY <1>2, <1>4, Zenon DEF Arrived
<1>6. i' = 0 /\ pc' = "find"
  BY DEF ReceiveDiscover, AvdtpHandleSignalingPacket, MeaningInv, SafeInv, BoundInv
<1>7. \E k \in 0..Len(units') : i' = 2 * k /\ \A j \in 1..k : ~FreeAudioSink(units'[j])
  BY <1>3, <1>6
<1>8. QED
  BY <1>3, <1>5, <1>6, <1>7 DEF FindInv

\* An iteration over the end points.
LEMMA FindStep ==
  ASSUME MeaningInv, find_free_audio_sink_seid
  PROVE  FindInv'
<1>1. /\ pc = "find" /\ units' = units /\ data' = data
      /\ TypeOK /\ FindInv
  BY DEF MeaningInv, SafeInv, find_free_audio_sink_seid
<1>2. PICK n \in Nat : n = Len(units)
  BY <1>1 DEF FindInv
<1>3. PICK u \in [1..n -> Seps] : u = units
  BY <1>1, <1>2 DEF FindInv
<1>4. PICK w \in [1..n -> Seq(Byte)] : w = SepWire /\ \A k \in 1..n : w[k] = EncodeSep(u[k])
  <2>1. \A k \in 1..n : EncodeSep(u[k]) \in Seq(Byte)
    BY SepBytes
  <2>2. SepWire = [k \in 1..n |-> EncodeSep(u[k])]
    BY <1>2, <1>3 DEF SepWire
  <2>3. SepWire \in [1..n -> Seq(Byte)] /\ \A k \in 1..n : SepWire[k] = EncodeSep(u[k])
    BY <2>1, <2>2, Zenon
  <2>4. QED
    BY <2>3, Zenon
<1>5. Arrived(w)
  BY <1>1, <1>4, Zenon DEF FindInv, Arrived
<1>6. Arrived(SepWire)'
  <2>1. SepWire' = w /\ pay_len' = pay_len
    BY <1>1, <1>4 DEF SepWire, pay_len
  <2>2. QED
    BY <1>1, <1>5, <2>1, Zenon DEF Arrived
<1>7. PICK k \in 0..n : i = 2 * k /\ \A j \in 1..k : ~FreeAudioSink(u[j])
  BY <1>1, <1>2, <1>3 DEF FindInv
<1>8. Len(units') \in Nat /\ units' \in [1..Len(units') -> Seps]
  BY <1>1 DEF FindInv
<1>9. CASE ~SepLeft
  <2>1. pc' = "found" /\ seid' = SEID_NONE
    BY <1>9 DEF find_free_audio_sink_seid
  <2>2. QED
    BY <1>6, <1>8, <2>1 DEF FindInv, FirstSink
<1>10. CASE SepLeft
  <2>1. 2 * k + 2 <= pay_len /\ Payload(i) = 2 + 2 * k
    BY <1>7, <1>10 DEF SepLeft, SEP_INFO_LEN, Payload
  <2>2. /\ k + 1 \in 1..n
        /\ At(2 + 2 * k) = EncodeSep(u[k + 1])[1]
        /\ At(2 + 2 * k + 1) = EncodeSep(u[k + 1])[2]
    BY <1>1, <1>4, <1>5, <2>1, SepAt
  <2>3. PICK s \in Seps : s = u[k + 1]
    BY <2>2
  <2>4. PICK o \in Nat : o = 2 + 2 * k
    OBVIOUS
  <2>5. /\ is_free_audio_sink(o) <=> FreeAudioSink(s)
        /\ (At(o) \div 4) % 64 = Seid(s)
    BY <2>2, <2>3, <2>4, SepRead
  <2>6. CASE FreeAudioSink(s)
    <3>1. seid' = Seid(s) /\ pc' = "found"
      BY <1>10, <2>1, <2>4, <2>5, <2>6 DEF find_free_audio_sink_seid
    <3>2. FreeSinks' = {x \in 1..n : FreeAudioSink(u[x])}
      BY <1>1, <1>3 DEF FreeSinks
    <3>3. k + 1 \in FreeSinks' /\ \A j \in FreeSinks' : k + 1 <= j
      BY <1>7, <2>2, <2>3, <2>6, <3>2
    <3>4. units'[k + 1] = s
      BY <1>1, <1>3, <2>3
    <3>5. FirstSink'
      BY <3>1, <3>3, <3>4 DEF FirstSink
    <3>6. QED
      BY <1>6, <1>8, <3>1, <3>5 DEF FindInv
  <2>7. CASE ~FreeAudioSink(s)
    <3>1. i' = i + 2 /\ pc' = "find"
      BY <1>1, <1>10, <2>1, <2>4, <2>5, <2>7 DEF find_free_audio_sink_seid, SEP_INFO_LEN
    <3>2. PICK m \in 0..n : m = k + 1
      BY <2>2
    <3>3. i' = 2 * m /\ \A j \in 1..m : ~FreeAudioSink(u[j])
      BY <1>7, <2>3, <2>7, <3>1, <3>2
    <3>4. \E x \in 0..Len(units') : i' = 2 * x /\ \A j \in 1..x : ~FreeAudioSink(units'[j])
      BY <1>1, <1>2, <1>3, <3>3, Zenon
    <3>5. QED
      BY <1>6, <1>8, <3>1, <3>4 DEF FindInv
  <2>8. QED
    BY <2>6, <2>7
<1>11. QED
  BY <1>9, <1>10
\* w is the wire form of the n capabilities u.
Written(u, w, n) ==
  /\ u \in [1..n -> Capabilities] /\ w \in [1..n -> Seq(Byte)]
  /\ \A k \in 1..n : w[k] = EncodeCapability(u[k])

\* c is the capability at offset a of the payload, as far as it arrived.
ReadsAs(c, a) ==
  /\ Len(Content(c)) \in Nat
  /\ At(2 + a) = c[1] /\ At(2 + a + 1) = Len(Content(c))
  /\ a + 2 + Len(Content(c)) <= pay_len =>
       \A j \in 1..Len(Content(c)) : At(2 + a + 1 + j) = Content(c)[j]

\* After the first k capabilities, which end at offset a, comes the next.
NextIs(u, w, n, k, a) ==
  /\ k + 1 \in 1..n
  /\ Len(Prefix(w, k + 1)) = a + 2 + Len(Content(u[k + 1]))
  /\ ReadsAs(u[k + 1], a)

\* The octets of the capability after the first k, as far as they arrived.
LEMMA CapAt ==
  ASSUME TypeOK, NEW n \in Nat, NEW u, NEW w, Written(u, w, n), Arrived(w),
         NEW k \in 0..n, NEW a \in Nat, a = Len(Prefix(w, k)), a + 2 <= pay_len
  PROVE  NextIs(u, w, n, k, a)
<1> /\ u \in [1..n -> Capabilities] /\ w \in [1..n -> Seq(Byte)]
    /\ \A x \in 1..n : w[x] = EncodeCapability(u[x])
  BY DEF Written
<1>0. pay_len \in Nat /\ pay_len <= Len(Concat(w))
  BY DEF TypeOK, Arrived, pay_len
<1>1. Prefix(w, n) = Concat(w)
  BY PrefixSteps, Zenon
<1>2. Len(Concat(w)) \in Nat
  <2>1. Len(Prefix(w, n)) \in Nat
    <3>1. n \in 0..n
      OBVIOUS
    <3>2. QED
      BY <3>1, PrefixType, Zenon
  <2>2. QED
    BY <1>1, <2>1
<1>3. k # n
  BY <1>0, <1>1, <1>2
<1>4. k + 1 \in 1..n
  BY <1>3
<1>5. PICK m \in 1..n : m = k + 1 /\ m - 1 = k
  BY <1>4
<1>6. PICK c \in Capabilities : c = u[m]
  OBVIOUS
<1>7. PICK l \in Nat : l = Len(Content(c))
  BY CapabilityBytes DEF Byte
<1>8. /\ Len(w[m]) = 2 + l /\ w[m][1] = c[1] /\ w[m][2] = l
      /\ \A j \in 1..l : w[m][2 + j] = Content(c)[j]
  <2>1. w[m] = EncodeCapability(c)
    BY <1>6
  <2>2. /\ Len(EncodeCapability(c)) = 2 + Len(Content(c))
        /\ EncodeCapability(c)[1] = c[1] /\ EncodeCapability(c)[2] = Len(Content(c))
        /\ \A j \in 1..Len(Content(c)) : EncodeCapability(c)[2 + j] = Content(c)[j]
    BY CapabilityBytes
  <2>3. QED
    BY <1>7, <2>1, <2>2, Zenon
<1>9. /\ Len(Prefix(w, m)) = a + 2 + l
      /\ \A j \in 1..(2 + l) : Concat(w)[a + j] = w[m][j]
  <2>1. Placed(w, n)
    BY UnitPlace, Zenon
  <2>2. Len(Prefix(w, m)) = Len(Prefix(w, m - 1)) + Len(w[m])
    BY <2>1, Zenon DEF Placed
  <2>3. \A j \in 1..Len(w[m]) : Concat(w)[Len(Prefix(w, m - 1)) + j] = w[m][j]
    BY <2>1, Zenon DEF Placed
  <2>4. Len(Prefix(w, m - 1)) = a
    BY <1>5
  <2>5. /\ Len(Prefix(w, m)) = a + (2 + l)
        /\ \A j \in 1..(2 + l) : Concat(w)[a + j] = w[m][j]
    BY <1>8, <2>2, <2>3, <2>4, Zenon
  <2>6. a + (2 + l) = a + 2 + l
    OBVIOUS
  <2>7. QED
    BY <2>5, <2>6, Zenon
<1>10. ASSUME NEW j \in 1..(2 + l), a + j <= pay_len
       PROVE  At(2 + a + j - 1) = w[m][j]
  <2>0. a + j - 1 \in Nat
    OBVIOUS
  <2>1. PICK o \in Nat : o = a + j - 1
    BY <2>0, Zenon
  <2>2. o < pay_len
    BY <1>0, <1>10, <2>1
  <2>3. At(2 + o) = Concat(w)[o + 1]
    BY <2>2, WireByte
  <2>4. o + 1 = a + j /\ 2 + o = 2 + a + j - 1
    BY <2>1
  <2>5. QED
    BY <1>9, <2>3, <2>4
<1>11. At(2 + a) = c[1] /\ At(2 + a + 1) = l
  <2>1. 1 \in 1..(2 + l) /\ 2 \in 1..(2 + l) /\ a + 1 <= pay_len
        /\ 2 + a + 1 - 1 = 2 + a /\ 2 + a + 2 - 1 = 2 + a + 1
    BY <1>0
  <2>2. At(2 + a + 1 - 1) = w[m][1]
    BY <1>10, <2>1
  <2>3. At(2 + a + 2 - 1) = w[m][2]
    BY <1>10, <2>1
  <2>4. QED
    BY <1>8, <2>1, <2>2, <2>3
<1>12. ASSUME a + 2 + l <= pay_len, NEW j \in 1..l
       PROVE  At(2 + a + 1 + j) = Content(c)[j]
  <2>1. PICK x \in 1..(2 + l) : x = 2 + j
    OBVIOUS
  <2>2. a + x <= pay_len /\ 2 + a + x - 1 = 2 + a + 1 + j
    BY <1>0, <1>12, <2>1
  <2>3. At(2 + a + x - 1) = w[m][x]
    BY <1>10, <2>2
  <2>4. QED
    BY <1>8, <2>1, <2>2, <2>3
<1>13. u[k + 1] = c /\ Len(Content(u[k + 1])) = l
  BY <1>5, <1>6, <1>7
<1>14. Len(Prefix(w, k + 1)) = a + 2 + l
  BY <1>5, <1>9
<1>15. ReadsAs(u[k + 1], a)
  BY <1>7, <1>11, <1>12, <1>13 DEF ReadsAs
<1>16. QED
  BY <1>4, <1>13, <1>14, <1>15 DEF NextIs

\* media_codec_matches agrees with what the capability offers.
LEMMA CapRead ==
  ASSUME NEW c \in Capabilities, NEW name \in Configs, NEW o \in Nat,
         At(o) = c[1], At(o + 1) = Len(Content(c)),
         \A j \in 1..Len(Content(c)) : At(o + 1 + j) = Content(c)[j]
  PROVE  media_codec_matches(o, kCodecConfigs[name]) <=> c[2] = name
<1>1. PICK l \in Nat : l = Len(Content(c))
  BY CapabilityBytes DEF Byte
<1>2. PICK config : config = kCodecConfigs[name]
  OBVIOUS
<1>3. PICK ml \in Nat : ml = config.match_len
  BY <1>2, TableAssumption
<1>4. c[2] = name <=>
        /\ c[1] = MEDIA_CODEC /\ l > ml
        /\ Content(c)[1] \div 16 = AUDIO
        /\ \A k \in 1..ml : Content(c)[1 + k] = config.info[k]
  BY <1>1, <1>2, <1>3, NamingAssumption, ZenonT(60)
<1>5. media_codec_matches(o, config) <=>
        /\ At(o) = MEDIA_CODEC /\ At(o + 1) >= 1 + ml
        /\ At(o + 2) \div 16 = AUDIO
        /\ \A k \in 1..ml : At(o + 2 + k) = config.info[k]
  BY <1>3 DEF media_codec_matches, CAPABILITY_HEADER_LEN
<1>6. At(o + 1) >= 1 + ml <=> l > ml
  BY <1>1
<1>7. ASSUME l > ml
      PROVE  /\ At(o + 2) = Content(c)[1]
             /\ \A k \in 1..ml : At(o + 2 + k) = Content(c)[1 + k]
  <2>1. ASSUME NEW j \in 1..l PROVE At(o + 1 + j) = Content(c)[j]
    BY <1>1
  <2>2. 1 \in 1..l /\ o + 1 + 1 = o + 2
    BY <1>7
  <2>3. At(o + 2) = Content(c)[1]
    BY <2>1, <2>2
  <2>4. ASSUME NEW k \in 1..ml PROVE At(o + 2 + k) = Content(c)[1 + k]
    <3>1. PICK x \in 1..l : x = 1 + k
      BY <1>7
    <3>2. At(o + 1 + x) = Content(c)[x] /\ o + 1 + x = o + 2 + k
      BY <2>1, <3>1
    <3>3. QED
      BY <3>1, <3>2
  <2>5. QED
    BY <2>3, <2>4
<1>8. QED
  BY <1>2, <1>4, <1>5, <1>6, <1>7
\* A GET_CAPABILITIES response arrives: the loop is at its first capability.
LEMMA ContainReceive ==
  ASSUME MeaningInv, ReceiveCapabilities
  PROVE  ContainInv'
<1>1. PICK m \in Nat : \E sent \in [1..m -> Capabilities], w \in [1..m -> Seq(Byte)] :
           /\ units' = sent /\ w = [k \in 1..m |-> EncodeCapability(sent[k])]
           /\ data' \in Seq(Byte) /\ reads' = {0, 1} /\ Len(data') >= 2
           /\ pay_len' <= Len(Concat(w))
           /\ \A o \in 1..pay_len' : data'[2 + o] = Concat(w)[o]
  BY CapabilitiesReceived
<1>2. PICK sent \in [1..m -> Capabilities], w \in [1..m -> Seq(Byte)] :
           /\ units' = sent /\ w = [k \in 1..m |-> EncodeCapability(sent[k])]
           /\ Len(data') >= 2
           /\ pay_len' <= Len(Concat(w))
           /\ \A o \in 1..pay_len' : data'[2 + o] = Concat(w)[o]
  BY <1>1
<1>3. Len(units') = m /\ units' \in [1..m -> Capabilities]
  BY <1>2, IsSequence
<1>4. CapWire' = w
  BY <1>2, <1>3 DEF CapWire
<1>5. Arrived(CapWire)'
  BY <1>2, <1>4, Zenon DEF Arrived
<1>6. i' = 0 /\ pc' = "contain"
  BY DEF ReceiveCapabilities, AvdtpHandleSignalingPacket, MeaningInv, SafeInv, BoundInv
<1>7. \E k \in 0..Len(units') : /\ i' = Len(Prefix(CapWire', k))
                                /\ \A j \in 1..k : units'[j][2] # PreferredCodecId'
  <2>1. Prefix(w, 0) = << >>
    BY PrefixSteps, Zenon
  <2>2. i' = Len(Prefix(CapWire', 0))
    BY <1>4, <1>6, <2>1
  <2>3. 0 \in 0..Len(units') /\ \A j \in 1..0 : units'[j][2] # PreferredCodecId'
    BY <1>3
  <2>4. QED
    BY <2>2, <2>3, Zenon
<1>8. QED
  BY <1>3, <1>5, <1>6, <1>7 DEF ContainInv

\* Complete, in terms of prefixes.
LEMMA CompleteIs ==
  ASSUME NEW n \in Nat, NEW u, NEW w, Written(u, w, n), u = units
  PROVE  \A k : k \in Complete <=> k \in 1..n /\ Len(Prefix(w, k)) <= pay_len
<1>1. ASSUME NEW k \in 1..n
      PROVE  Concat([j \in 1..k |-> EncodeCapability(units[j])]) = Prefix(w, k)
  <2>1. [j \in 1..k |-> EncodeCapability(units[j])] = Part(w, k)
    BY DEF Part, Written
  <2>2. QED
    BY <2>1, Zenon DEF Prefix
<1>2. DOMAIN units = 1..n
  BY DEF Written
<1>3. QED
  BY <1>1, <1>2, Zenon DEF Complete

\* The first k capabilities do not offer P, and the next is not complete.
Passed(u, w, n, k, P) ==
  /\ \A j \in 1..k : u[j][2] # P
  /\ k < n => Len(Prefix(w, k + 1)) > pay_len

\* The loop has seen every capability that arrived complete: none offers P.
LEMMA NoneOffered ==
  ASSUME NEW n \in Nat, NEW u, NEW w, Written(u, w, n), u = units,
         NEW k \in 0..n, NEW P, Passed(u, w, n, k, P), pay_len \in Nat
  PROVE  ~Offers(P)
<1> SUFFICES ASSUME NEW x \in Complete PROVE u[x][2] # P
  BY DEF Offers
<1> /\ w \in [1..n -> Seq(Byte)] /\ \A j \in 1..k : u[j][2] # P
    /\ k < n => Len(Prefix(w, k + 1)) > pay_len
  BY DEF Written, Passed
<1>1. x \in 1..n /\ Len(Prefix(w, x)) <= pay_len
  BY CompleteIs, Zenon
<1>2. CASE x <= k
  BY <1>1, <1>2
<1>3. CASE x > k
  <2>1. PICK m \in 0..n : m = k + 1 /\ m <= x
    BY <1>1, <1>3
  <2>2. x \in 0..n
    BY <1>1
  <2>3. Len(Prefix(w, m)) <= Len(Prefix(w, x))
    <3>1. Begins(Prefix(w, m), Prefix(w, x))
      BY <2>1, <2>2, PrefixPlaces, Zenon
    <3>2. QED
      BY <3>1 DEF Begins
  <2>4. Len(Prefix(w, m)) \in Nat /\ Len(Prefix(w, x)) \in Nat
    BY <2>2, PrefixType, Zenon
  <2>5. Len(Prefix(w, m)) > pay_len
    BY <1>1, <1>3, <2>1
  <2>6. QED
    BY <1>1, <2>3, <2>4, <2>5
<1>4. QED
  BY <1>1, <1>2, <1>3

\* An iteration over the capabilities.
LEMMA ContainStep ==
  ASSUME MeaningInv, capabilities_contain_config
  PROVE  ContainInv'
<1>1. /\ pc = "contain" /\ TypeOK /\ ContainInv
      /\ UNCHANGED <<units, data, PreferredCodecId>>
  BY DEF MeaningInv, SafeInv, capabilities_contain_config
<1>2. PICK n \in Nat : n = Len(units)
  BY <1>1 DEF ContainInv
<1>3. PICK u \in [1..n -> Capabilities] : u = units
  BY <1>1, <1>2 DEF ContainInv
<1>4. PICK w \in [1..n -> Seq(Byte)] : w = CapWire /\ Written(u, w, n)
  <2>1. \A k \in 1..n : EncodeCapability(u[k]) \in Seq(Byte)
    BY CapabilityBytes
  <2>2. CapWire = [k \in 1..n |-> EncodeCapability(u[k])]
    BY <1>2, <1>3 DEF CapWire
  <2>3. CapWire \in [1..n -> Seq(Byte)] /\ \A k \in 1..n : CapWire[k] = EncodeCapability(u[k])
    BY <2>1, <2>2, Zenon
  <2>4. QED
    BY <2>3, Zenon DEF Written
<1>5. Arrived(w)
  BY <1>1, <1>4, Zenon DEF ContainInv, Arrived
<1>6. CapWire' = w /\ pay_len' = pay_len /\ Complete' = Complete
  BY <1>1, <1>4 DEF CapWire, pay_len, Complete
<1>7. Arrived(CapWire)'
  BY <1>1, <1>5, <1>6, Zenon DEF Arrived
<1>8. Len(units') \in Nat /\ units' \in [1..Len(units') -> Capabilities]
  BY <1>1 DEF ContainInv
<1>9. PICK P : P = PreferredCodecId
  OBVIOUS
<1>10. PICK k \in 0..n : i = Len(Prefix(w, k)) /\ \A j \in 1..k : u[j][2] # P
  BY <1>1, <1>2, <1>3, <1>4, <1>9, Zenon DEF ContainInv
<1>11. PICK a \in Nat : a = i
  BY <1>1 DEF TypeOK
<1>12. pay_len \in Nat
  BY <1>1 DEF TypeOK, pay_len
<1>13. Named' = Named
  BY <1>1, <1>6, Zenon DEF Named, Offers
<1>14. ASSUME codec' = Named, pc' = "build"
       PROVE  ContainInv'
  BY <1>7, <1>8, <1>13, <1>14 DEF ContainInv
<1>15. ASSUME k < n => Len(Prefix(w, k + 1)) > pay_len
       PROVE  Named = "sbc"
  <2>1. ~Offers(P)
    <3>1. Passed(u, w, n, k, P) /\ Written(u, w, n) /\ u = units
      BY <1>3, <1>4, <1>10, <1>15 DEF Passed
    <3>2. QED
      BY <1>12, <3>1, NoneOffered
  <2>2. QED
    BY <1>9, <2>1 DEF Named
<1>16. CASE PreferredCodecId \notin Configs
  <2>1. codec' = "sbc" /\ pc' = "build"
    BY <1>16 DEF capabilities_contain_config, Select
  <2>2. Named = "sbc"
    BY <1>16 DEF Named
  <2>3. QED
    BY <1>14, <2>1, <2>2
<1>17. CASE PreferredCodecId \in Configs /\ a + 2 > pay_len
  <2>1. codec' = "sbc" /\ pc' = "build"
    BY <1>11, <1>17 DEF capabilities_contain_config, Select, CAPABILITY_HEADER_LEN
  <2>2. k < n => Len(Prefix(w, k + 1)) > pay_len
    <3> SUFFICES ASSUME k < n PROVE Len(Prefix(w, k + 1)) > pay_len
      OBVIOUS
    <3>1. PICK m \in 1..n : m = k + 1 /\ m - 1 = k
      OBVIOUS
    <3>2. Placed(w, n)
      BY UnitPlace, Zenon
    <3>3. Len(Prefix(w, m)) = Len(Prefix(w, m - 1)) + Len(w[m])
      BY <3>2, Zenon DEF Placed
    <3>4. Len(w[m]) = 2 + Len(Content(u[m])) /\ Len(Content(u[m])) \in Nat
      <4>1. PICK c \in Capabilities : c = u[m]
        OBVIOUS
      <4>2. Len(EncodeCapability(c)) = 2 + Len(Content(c)) /\ Len(Content(c)) \in Byte
        BY CapabilityBytes
      <4>3. QED
        BY <1>4, <4>1, <4>2 DEF Byte, Written
    <3>5. Len(Prefix(w, m)) = a + Len(w[m])
      BY <1>10, <1>11, <3>1, <3>3
    <3>6. Len(Prefix(w, m)) > pay_len
      BY <1>12, <1>17, <3>4, <3>5
    <3>7. QED
      BY <3>1, <3>6
  <2>3. QED
    BY <1>14, <1>15, <2>1, <2>2
<1>18. CASE PreferredCodecId \in Configs /\ a + 2 <= pay_len
  <2>1. /\ k + 1 \in 1..n
        /\ Len(Prefix(w, k + 1)) = a + 2 + Len(Content(u[k + 1]))
        /\ ReadsAs(u[k + 1], a)
    <3>1. a = Len(Prefix(w, k)) /\ a + 2 <= pay_len
      BY <1>10, <1>11, <1>18
    <3>2. NextIs(u, w, n, k, a)
      BY <1>1, <1>4, <1>5, <3>1, CapAt
    <3>3. QED
      BY <3>2, Zenon DEF NextIs
  <2>2. PICK m \in 1..n : m = k + 1 /\ m - 1 = k
    BY <2>1
  <2>3. PICK c \in Capabilities : c = u[m]
    OBVIOUS
  <2>4. PICK l \in Nat : l = Len(Content(c))
    BY <2>1, <2>2, <2>3 DEF ReadsAs
  <2>5. PICK o \in Nat : o = 2 + a
    OBVIOUS
  <2>6. /\ Len(Prefix(w, m)) = a + 2 + l /\ At(o) = c[1] /\ At(o + 1) = l
        /\ a + 2 + l <= pay_len => \A j \in 1..l : At(o + 1 + j) = Content(c)[j]
    BY <2>1, <2>2, <2>3, <2>4, <2>5 DEF ReadsAs
  <2>7. CASE a + 2 + l > pay_len
    <3>1. i + (CAPABILITY_HEADER_LEN + At(Payload(i) + 1)) > pay_len
      BY <1>11, <2>5, <2>6, <2>7 DEF CAPABILITY_HEADER_LEN, Payload
    <3>2. ~(i + CAPABILITY_HEADER_LEN > pay_len)
      BY <1>11, <1>12, <1>18 DEF CAPABILITY_HEADER_LEN
    <3>3. codec' = "sbc" /\ pc' = "build"
      BY <1>18, <3>1, <3>2 DEF capabilities_contain_config, Overruns, Select
    <3>4. Len(Prefix(w, k + 1)) > pay_len
      BY <2>2, <2>6, <2>7
    <3>5. QED
      BY <1>14, <1>15, <3>3, <3>4
  <2>8. CASE a + 2 + l <= pay_len
    <3>1. ~(i + (CAPABILITY_HEADER_LEN + At(Payload(i) + 1)) > pay_len) /\ Payload(i) = o
      BY <1>11, <1>12, <2>5, <2>6, <2>8 DEF CAPABILITY_HEADER_LEN, Payload
    <3>2. ~(i + CAPABILITY_HEADER_LEN > pay_len)
      BY <1>11, <1>12, <1>18 DEF CAPABILITY_HEADER_LEN
    <3>3. IF media_codec_matches(o, kCodecConfigs[PreferredCodecId])
          THEN Select(PreferredCodecId)
          ELSE i' = i + (CAPABILITY_HEADER_LEN + At(o + 1)) /\ UNCHANGED <<codec, pc>>
      BY <1>18, <3>1, <3>2 DEF capabilities_contain_config, Overruns
    <3>4. media_codec_matches(o, kCodecConfigs[P]) <=> c[2] = P
      <4>1. P \in Configs
        BY <1>9, <1>18
      <4>2. /\ At(o) = c[1] /\ At(o + 1) = Len(Content(c))
            /\ \A j \in 1..Len(Content(c)) : At(o + 1 + j) = Content(c)[j]
        BY <2>4, <2>6, <2>8
      <4>3. QED
        BY <4>1, <4>2, CapRead
    <3>5. CASE c[2] = P
      <4>1. codec' = P /\ pc' = "build"
        BY <1>9, <3>3, <3>4, <3>5 DEF Select
      <4>2. m \in Complete
        <5>1. Len(Prefix(w, m)) <= pay_len
          BY <2>6, <2>8
        <5>2. QED
          BY <1>3, <1>4, <5>1, CompleteIs, Zenon
      <4>3. units[m][2] = PreferredCodecId
        BY <1>3, <1>9, <2>3, <3>5
      <4>4. Named = P
        BY <1>9, <1>18, <4>2, <4>3 DEF Named, Offers
      <4>5. QED
        BY <1>14, <4>1, <4>4
    <3>6. CASE c[2] # P
      <4>1. i' = i + (2 + At(o + 1)) /\ pc' = "contain"
        BY <1>1, <1>9, <3>3, <3>4, <3>6 DEF CAPABILITY_HEADER_LEN
      <4>2. i' = Len(Prefix(w, m))
        BY <1>11, <2>6, <4>1
      <4>3. \A j \in 1..m : u[j][2] # P
        <5>1. \A j \in 1..m : j \in 1..k \/ j = m
          BY <2>2
        <5>2. QED
          BY <1>10, <2>3, <3>6, <5>1, Zenon
      <4>4. m \in 0..n
        OBVIOUS
      <4>5. \E x \in 0..Len(units') : /\ i' = Len(Prefix(CapWire', x))
                                      /\ \A j \in 1..x : units'[j][2] # PreferredCodecId'
        BY <1>1, <1>2, <1>3, <1>6, <1>9, <4>2, <4>3, <4>4, Zenon
      <4>6. QED
        BY <1>7, <1>8, <4>1, <4>5 DEF ContainInv
    <3>7. QED
      BY <3>5, <3>6
  <2>9. QED
    BY <1>12, <2>7, <2>8
<1>19. QED
  BY <1>12, <1>16, <1>17, <1>18
\* Nothing to say before a packet has arrived.
LEMMA MeaningInit == Init => MeaningInv
BY SafeInit DEF Init, MeaningInv, FindInv, ContainInv, BuildInv

\* The payload is built for the codec selected.
LEMMA BuildStep ==
  ASSUME MeaningInv, build_set_configuration
  PROVE  ContainInv' /\ BuildInv'
<1>1. /\ pc = "build" /\ pc' = "done" /\ SafeInv /\ ContainInv
      /\ UNCHANGED <<units, data, RemoteSeid, PreferredCodecId, codec>>
  BY DEF MeaningInv, build_set_configuration
<1>2. BuildInv'
  BY <1>1, Built DEF BuildInv
<1>3. CapWire' = CapWire /\ pay_len' = pay_len /\ Complete' = Complete
  BY <1>1 DEF CapWire, pay_len, Complete
<1>4. Named' = Named
  BY <1>1, <1>3, Zenon DEF Named, Offers
<1>5. Arrived(CapWire)'
  BY <1>1, <1>3, Zenon DEF ContainInv, Arrived
<1>6. ContainInv'
  BY <1>1, <1>4, <1>5 DEF ContainInv
<1>7. QED
  BY <1>2, <1>6

\* A step that changes nothing changes no meaning.
LEMMA MeaningStutters ==
  ASSUME MeaningInv, UNCHANGED vars
  PROVE  FindInv' /\ ContainInv' /\ BuildInv'
<1>1. /\ SepWire' = SepWire /\ CapWire' = CapWire /\ pay_len' = pay_len
      /\ Complete' = Complete /\ FreeSinks' = FreeSinks
  BY DEF vars, CapWire, SepWire, pay_len, Complete, FreeSinks
<1>2. Named' = Named
  BY <1>1, Zenon DEF vars, Named, Offers
<1>3. (Arrived(CapWire) => Arrived(CapWire)') /\ (Arrived(SepWire) => Arrived(SepWire)')
  BY <1>1, Zenon DEF vars, Arrived
<1>4. FirstSink => FirstSink'
  BY <1>1 DEF vars, FirstSink
<1>5. FindInv'
  BY <1>3, <1>4 DEF MeaningInv, FindInv, vars
<1>6. ContainInv'
  <2>1. \A k : Prefix(CapWire', k) = Prefix(CapWire, k)
    BY <1>1
  <2>2. QED
    BY <1>2, <1>3, <2>1 DEF MeaningInv, ContainInv, vars
<1>7. BuildInv'
  BY DEF MeaningInv, BuildInv, vars
<1>8. QED
  BY <1>5, <1>6, <1>7

\* MeaningInv is inductive.
LEMMA MeaningNext ==
  ASSUME MeaningInv, [Next]_vars
  PROVE  MeaningInv'
<1>1. SafeInv'
  BY SafeNext DEF MeaningInv
<1>2. CASE UNCHANGED vars
  BY <1>1, <1>2, MeaningStutters DEF MeaningInv
<1>3. CASE ReceiveDiscover
  <2>1. pc' = "find"
    BY <1>3 DEF ReceiveDiscover
  <2>2. ContainInv' /\ BuildInv'
    BY <2>1 DEF ContainInv, BuildInv
  <2>3. QED
    BY <1>1, <1>3, <2>2, FindReceive DEF MeaningInv
<1>4. CASE find_free_audio_sink_seid
  <2>1. pc' \in {"find", "found"}
    BY <1>4 DEF find_free_audio_sink_seid
  <2>2. ContainInv' /\ BuildInv'
    BY <2>1 DEF ContainInv, BuildInv
  <2>3. QED
    BY <1>1, <1>4, <2>2, FindStep DEF MeaningInv
<1>5. CASE HandleDiscoverResponse
  <2>1. pc' \in {"discover", "caps"}
    BY <1>5 DEF HandleDiscoverResponse
  <2>2. QED
    BY <1>1, <2>1 DEF MeaningInv, FindInv, ContainInv, BuildInv
<1>6. CASE ReceiveCapabilities
  <2>1. pc' = "contain"
    BY <1>6 DEF ReceiveCapabilities
  <2>2. FindInv' /\ BuildInv'
    BY <2>1 DEF FindInv, BuildInv
  <2>3. QED
    BY <1>1, <1>6, <2>2, ContainReceive DEF MeaningInv
<1>7. CASE capabilities_contain_config
  <2>1. pc' \in {"contain", "build"}
    BY <1>7 DEF capabilities_contain_config, Select
  <2>2. FindInv' /\ BuildInv'
    BY <2>1 DEF FindInv, BuildInv
  <2>3. QED
    BY <1>1, <1>7, <2>2, ContainStep DEF MeaningInv
<1>8. CASE build_set_configuration
  <2>1. pc' = "done"
    BY <1>8 DEF build_set_configuration
  <2>2. FindInv'
    BY <2>1 DEF FindInv
  <2>3. QED
    BY <1>1, <1>8, <2>2, BuildStep DEF MeaningInv
<1>9. QED
  BY <1>2, <1>3, <1>4, <1>5, <1>6, <1>7, <1>8 DEF Next

\* The loops keep to the units of the packet, for every packet.
THEOREM MeaningInvariance == Spec => []MeaningInv
BY MeaningInit, MeaningNext, PTL DEF Spec

\* The bytes behind the headers are the codec's.
LEMMA CodecBytes ==
  ASSUME NEW b \in Seq(Byte), NEW q \in Seq(Byte), Len(b) = 7 + Len(q),
         \A j \in 1..Len(q) : b[7 + j] = q[j]
  PROVE  SubSeq(b, 8, Len(b)) = q
<1>1. PICK l \in Nat : l = Len(q) /\ Len(b) = 7 + l
  OBVIOUS
<1>2. PICK t : t = SubSeq(b, 8, Len(b))
  OBVIOUS
<1>3. t \in Seq(Byte) /\ Len(t) = l /\ \A j \in 1..l : t[j] = q[j]
  BY <1>1, <1>2
<1>4. t = q
  BY <1>1, <1>3
<1>5. QED
  BY <1>2, <1>4

\* From any DISCOVER and GET_CAPABILITIES response, cut anywhere, the driver
\* addresses the first free audio sink listed and configures the preferred
\* codec exactly if a complete capability offers it, SBC otherwise, with that
\* codec's bytes behind a right length octet (avdtp_packets.c:109-174).
THEOREM ConfigurationRight == Spec => []ConfigurationAgrees
<1>1. ASSUME MeaningInv PROVE ConfigurationAgrees
  <2>1. pc = "found" /\ seid # SEID_NONE =>
          \E k \in FreeSinks : /\ seid = Seid(units[k])
                               /\ \A j \in FreeSinks : k <= j
    BY <1>1, Zenon DEF MeaningInv, FindInv, FirstSink
  <2>2. ASSUME pc = "done"
        PROVE  /\ Len(buf) > 7 /\ buf[1] = 4 * RemoteSeid /\ buf[6] = Len(buf) - 6
               /\ codec = Named /\ SubSeq(buf, 8, Len(buf)) = kCodecConfigs[Named].info
    <3>1. codec \in Configs /\ codec = Named /\ buf \in Seq(Byte)
      BY <1>1, <2>2 DEF MeaningInv, SafeInv, BoundInv, TypeOK, ContainInv
    <3>2. PICK q \in Seq(Byte) : q = kCodecConfigs[codec].info /\ Len(q) \in 1..12
      BY <3>1, TableInfo
    <3>3. PICK b \in Seq(Byte) : b = buf
      BY <3>1
    <3>4. /\ Len(b) = 7 + Len(q) /\ b[1] = 4 * RemoteSeid /\ b[6] = Len(b) - 6
          /\ \A j \in 1..Len(q) : b[7 + j] = q[j]
      BY <1>1, <2>2, <3>2, <3>3 DEF MeaningInv, BuildInv
    <3>5. SubSeq(b, 8, Len(b)) = q
      BY <3>4, CodecBytes
    <3>6. Len(b) > 7
      <4>1. PICK n \in 1..12 : n = Len(q)
        BY <3>2
      <4>2. QED
        BY <3>4, <4>1
    <3>7. QED
      BY <3>1, <3>2, <3>3, <3>4, <3>5, <3>6, Zenon
  <2>3. QED
    BY <2>1, <2>2, Zenon DEF ConfigurationAgrees, Named, Offers
<1>2. QED
  BY <1>1, MeaningInvariance, PTL
=============================================================================
