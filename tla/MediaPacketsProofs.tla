------------------------- MODULE MediaPacketsProofs -------------------------
(***************************************************************************)
(* An access unit of any length, in bytes of any number of bits, comes out *)
(* of its LATM packet as it went in; and the RTP counters, of any width,   *)
(* follow the packets and the PCM of a session.                            *)
(***************************************************************************)
EXTENDS MediaPackets, WellFoundedInduction, TLAPS

-----------------------------------------------------------------------------
(* Induction over the numbers, on a set instead of a predicate.            *)

\* A set that holds 0 and the successors of its members holds every number.
LEMMA SetInduction ==
  ASSUME NEW S, 0 \in S, \A n \in Nat : n \in S => n + 1 \in S
  PROVE  \A n \in Nat : n \in S
<1> DEFINE T == {n \in Nat : n \notin S}
<1>1. SUFFICES ASSUME T # {} PROVE FALSE
  BY <1>1
<1>2. IsWellFoundedOn(OpToRel(<, Nat), Nat)
  BY NatLessThanWellFounded
<1>3. PICK m \in T : \A y \in T : ~ (<<y, m>> \in OpToRel(<, Nat))
  <2> HIDE DEF T
  <2>1. T \subseteq Nat
    BY DEF T
  <2>2. QED
    BY <1>1, <1>2, <2>1, WFMin, Zenon
<1>4. \A y \in T : ~ (y < m)
  BY <1>3 DEF OpToRel
<1>5. m # 0 /\ m - 1 \in Nat /\ m - 1 < m /\ (m - 1) + 1 = m
  OBVIOUS
<1>6. m - 1 \in S
  BY <1>4, <1>5
<1>7. QED
  BY <1>5, <1>6

-----------------------------------------------------------------------------
(* Division.                                                               *)

\* The quotient and the remainder of a sum of multiples and a remainder.
LEMMA DivUnique ==
  ASSUME NEW m \in Nat, m > 0, NEW q \in Nat, NEW r \in Nat, r < m
  PROVE  (m * q + r) % m = r /\ (m * q + r) \div m = q
OBVIOUS

\* A number is what its quotient and its remainder make.
LEMMA DivMod ==
  ASSUME NEW m \in Nat, m > 0, NEW x \in Nat
  PROVE  /\ x = m * (x \div m) + (x % m)
         /\ x \div m \in Nat /\ x % m \in Nat /\ x % m < m
OBVIOUS

\* Dividing by p keeps one bit more than dividing by twice p.
LEMMA DivTwice ==
  ASSUME NEW v \in Nat, NEW p \in Nat, p > 0
  PROVE  v \div p = 2 * (v \div (2 * p)) + ((v \div p) % 2)
<1> DEFINE q == v \div p
           h == q \div 2
           b == q % 2
           r == v % p
<1>1. q \in Nat /\ r \in Nat /\ r < p /\ v = p * q + r
  BY DivMod
<1>2. h \in Nat /\ b \in Nat /\ b < 2 /\ q = 2 * h + b
  BY <1>1, DivMod
<1> HIDE DEF q, h, b, r
<1>3. p * q = (2 * p) * h + p * b
  BY <1>1, <1>2
<1>4. p * b + r < 2 * p /\ p * b + r \in Nat
  <2>1. b = 0 \/ b = 1
    BY <1>2
  <2>2. p * b = IF b = 0 THEN 0 ELSE p
    BY <2>1
  <2>3. QED
    BY <1>1, <2>1, <2>2
<1>5. PICK d \in Nat : d = 2 * p /\ d > 0
  OBVIOUS
<1>6. PICK s \in Nat : s = p * b + r /\ s < d
  BY <1>4, <1>5
<1>7. v = d * h + s
  BY <1>1, <1>2, <1>3, <1>5, <1>6
<1>8. v \div d = h
  BY <1>2, <1>5, <1>6, <1>7, DivUnique
<1>9. QED
  BY <1>2, <1>5, <1>8 DEF q, b

-----------------------------------------------------------------------------
(* Powers of two.                                                          *)

\* f is the powers up to 2^n.
Doubles(f, n) == f = [k \in 0..n |-> IF k = 0 THEN 1 ELSE 2 * f[k - 1]]

LEMMA DoublesExist == \A n \in Nat : \E f : Doubles(f, n)
<1> DEFINE S == {n \in Nat : \E f : Doubles(f, n)}
<1>1. 0 \in S
  <2>1. Doubles([k \in 0..0 |-> 1], 0)
    BY DEF Doubles
  <2>2. QED
    BY <2>1
<1>2. ASSUME NEW n \in Nat, n \in S PROVE n + 1 \in S
  <2>1. PICK f : Doubles(f, n)
    BY <1>2
  <2> DEFINE g == [k \in 0..(n + 1) |-> IF k = n + 1 THEN 2 * f[n] ELSE f[k]]
  <2>2. \A k \in 0..n : g[k] = f[k]
    OBVIOUS
  <2>3. \A k \in 0..n : f[k] = IF k = 0 THEN 1 ELSE 2 * f[k - 1]
    BY <2>1 DEF Doubles
  <2>4. ASSUME NEW k \in 0..(n + 1)
        PROVE  g[k] = IF k = 0 THEN 1 ELSE 2 * g[k - 1]
    <3>1. CASE k = n + 1
      <4>1. k # 0 /\ k - 1 = n /\ n \in 0..n
        BY <3>1
      <4>2. QED
        BY <2>2, <3>1, <4>1
    <3>2. CASE k # n + 1
      <4>1. k \in 0..n /\ (k # 0 => k - 1 \in 0..n)
        BY <3>2
      <4>2. QED
        BY <2>2, <2>3, <4>1
    <3>3. QED
      BY <3>1, <3>2
  <2>5. Doubles(g, n + 1)
    <3> HIDE DEF g
    <3>1. g = [k \in 0..(n + 1) |-> g[k]]
      BY DEF g
    <3>2. QED
      BY <2>4, <3>1 DEF Doubles
  <2>6. QED
    BY <2>5
<1>3. \A n \in Nat : n \in S
  <2> HIDE DEF S
  <2>1. QED
    BY <1>1, <1>2, SetInduction
<1>4. QED
  BY <1>3

\* They depend on nothing else.
LEMMA DoublesAgree ==
  ASSUME NEW m \in Nat, NEW n \in Nat, n <= m, NEW f, NEW g, Doubles(f, m), Doubles(g, n)
  PROVE  f[n] = g[n]
<1> DEFINE S == {k \in Nat : k <= n => f[k] = g[k]}
<1>1. /\ \A k \in 0..m : f[k] = IF k = 0 THEN 1 ELSE 2 * f[k - 1]
      /\ \A k \in 0..n : g[k] = IF k = 0 THEN 1 ELSE 2 * g[k - 1]
  BY DEF Doubles
<1>2. 0 \in S
  BY <1>1
<1>3. ASSUME NEW k \in Nat, k \in S PROVE k + 1 \in S
  <2> SUFFICES ASSUME k + 1 <= n PROVE f[k + 1] = g[k + 1]
    OBVIOUS
  <2>1. f[k] = g[k] /\ k + 1 \in 0..n /\ k + 1 \in 0..m /\ k + 1 # 0 /\ (k + 1) - 1 = k
    BY <1>3
  <2>2. QED
    BY <1>1, <2>1
<1>4. \A k \in Nat : k \in S
  <2> HIDE DEF S
  <2>1. QED
    BY <1>2, <1>3, SetInduction
<1>5. QED
  BY <1>4

\* What Pow2 computes.
LEMMA Pow2Steps == Pow2[0] = 1 /\ \A n \in Nat : Pow2[n + 1] = 2 * Pow2[n]
<1> DEFINE p == [n \in Nat |-> (CHOOSE f : Doubles(f, n))[n]]
<1>1. ASSUME NEW n \in Nat PROVE p[n] = IF n = 0 THEN 1 ELSE 2 * p[n - 1]
  <2>1. PICK f : Doubles(f, n) /\ p[n] = f[n]
    BY DoublesExist
  <2>2. CASE n = 0
    BY <2>1, <2>2 DEF Doubles
  <2>3. CASE n # 0
    <3>1. PICK m \in Nat : m = n - 1 /\ m <= n
      BY <2>3
    <3>2. PICK g : Doubles(g, m) /\ p[m] = g[m]
      BY DoublesExist
    <3>3. f[m] = g[m]
      BY <2>1, <3>1, <3>2, DoublesAgree
    <3>4. f[n] = 2 * f[m]
      BY <2>1, <2>3, <3>1 DEF Doubles
    <3>5. QED
      BY <2>1, <2>3, <3>1, <3>2, <3>3, <3>4
  <2>4. QED
    BY <2>2, <2>3
<1>2. p = [n \in Nat |-> IF n = 0 THEN 1 ELSE 2 * p[n - 1]]
  <2>1. p = [n \in Nat |-> p[n]]
    OBVIOUS
  <2> HIDE DEF p
  <2>2. QED
    BY <1>1, <2>1
<1> HIDE DEF p
<1>3. Pow2 = [n \in Nat |-> IF n = 0 THEN 1 ELSE 2 * Pow2[n - 1]]
  BY <1>2, Zenon DEF Pow2
<1>4. \A n \in Nat : Pow2[n] = IF n = 0 THEN 1 ELSE 2 * Pow2[n - 1]
  BY <1>3, Zenon
<1>5. Pow2[0] = 1
  BY <1>4
<1>6. ASSUME NEW n \in Nat PROVE Pow2[n + 1] = 2 * Pow2[n]
  <2>1. n + 1 \in Nat /\ n + 1 # 0 /\ (n + 1) - 1 = n
    OBVIOUS
  <2>2. QED
    BY <1>4, <2>1
<1>7. QED
  BY <1>5, <1>6

LEMMA Pow2Positive == \A n \in Nat : Pow2[n] \in Nat /\ Pow2[n] > 0
<1> DEFINE S == {n \in Nat : Pow2[n] \in Nat /\ Pow2[n] > 0}
<1>1. 0 \in S
  BY Pow2Steps
<1>2. \A n \in Nat : n \in S => n + 1 \in S
  BY Pow2Steps
<1>3. QED
  <2> HIDE DEF S
  <2>1. \A n \in Nat : n \in S
    BY <1>1, <1>2, SetInduction
  <2>2. QED
    BY <2>1 DEF S

-----------------------------------------------------------------------------
(* What Value computes.                                                    *)

\* v is the numbers that the first bits after at stand for, up to n bits.
Scans(v, bits, at, n) ==
  v = [k \in 0..n |-> IF k = 0 THEN 0 ELSE 2 * v[k - 1] + bits[at + k]]

LEMMA ScansExist ==
  ASSUME NEW bits, NEW at
  PROVE  \A n \in Nat : \E v : Scans(v, bits, at, n)
<1> DEFINE S == {n \in Nat : \E v : Scans(v, bits, at, n)}
<1>1. 0 \in S
  <2>1. Scans([k \in 0..0 |-> 0], bits, at, 0)
    BY DEF Scans
  <2>2. QED
    BY <2>1
<1>2. ASSUME NEW n \in Nat, n \in S PROVE n + 1 \in S
  <2>1. PICK v : Scans(v, bits, at, n)
    BY <1>2
  <2> DEFINE w == [k \in 0..(n + 1) |-> IF k = n + 1 THEN 2 * v[n] + bits[at + (n + 1)] ELSE v[k]]
  <2>2. \A k \in 0..n : w[k] = v[k]
    OBVIOUS
  <2>3. \A k \in 0..n : v[k] = IF k = 0 THEN 0 ELSE 2 * v[k - 1] + bits[at + k]
    BY <2>1 DEF Scans
  <2>4. ASSUME NEW k \in 0..(n + 1)
        PROVE  w[k] = IF k = 0 THEN 0 ELSE 2 * w[k - 1] + bits[at + k]
    <3>1. CASE k = n + 1
      <4>1. k # 0 /\ k - 1 = n /\ n \in 0..n
        BY <3>1
      <4>2. QED
        BY <2>2, <3>1, <4>1
    <3>2. CASE k # n + 1
      <4>1. k \in 0..n /\ (k # 0 => k - 1 \in 0..n)
        BY <3>2
      <4>2. QED
        BY <2>2, <2>3, <4>1
    <3>3. QED
      BY <3>1, <3>2
  <2>5. Scans(w, bits, at, n + 1)
    <3> HIDE DEF w
    <3>1. w = [k \in 0..(n + 1) |-> w[k]]
      BY DEF w
    <3>2. QED
      BY <2>4, <3>1 DEF Scans
  <2>6. QED
    BY <2>5
<1>3. \A n \in Nat : n \in S
  <2> HIDE DEF S
  <2>1. QED
    BY <1>1, <1>2, SetInduction
<1>4. QED
  BY <1>3

LEMMA ScansAgree ==
  ASSUME NEW bits, NEW at, NEW m \in Nat, NEW n \in Nat, n <= m,
         NEW v, NEW w, Scans(v, bits, at, m), Scans(w, bits, at, n)
  PROVE  v[n] = w[n]
<1> DEFINE S == {k \in Nat : k <= n => v[k] = w[k]}
<1>1. /\ \A k \in 0..m : v[k] = IF k = 0 THEN 0 ELSE 2 * v[k - 1] + bits[at + k]
      /\ \A k \in 0..n : w[k] = IF k = 0 THEN 0 ELSE 2 * w[k - 1] + bits[at + k]
  BY DEF Scans
<1>2. 0 \in S
  BY <1>1
<1>3. ASSUME NEW k \in Nat, k \in S PROVE k + 1 \in S
  <2> SUFFICES ASSUME k + 1 <= n PROVE v[k + 1] = w[k + 1]
    OBVIOUS
  <2>1. v[k] = w[k] /\ k + 1 \in 0..n /\ k + 1 \in 0..m /\ k + 1 # 0 /\ (k + 1) - 1 = k
    BY <1>3
  <2>2. QED
    BY <1>1, <2>1
<1>4. \A k \in Nat : k \in S
  <2> HIDE DEF S
  <2>1. QED
    BY <1>2, <1>3, SetInduction
<1>5. QED
  BY <1>4

\* Value is the last of them.
LEMMA ValueScans ==
  ASSUME NEW bits, NEW at, NEW n \in Nat
  PROVE  \E v : Scans(v, bits, at, n) /\ Value(bits, at, n) = v[n]
<1> DEFINE v == CHOOSE v : v = [k \in 0..n |-> IF k = 0 THEN 0 ELSE 2 * v[k - 1] + bits[at + k]]
<1>1. \E w : Scans(w, bits, at, n)
  BY ScansExist
<1>2. Scans(v, bits, at, n)
  BY <1>1 DEF Scans
<1>3. Value(bits, at, n) = v[n]
  BY DEF Value
<1>4. QED
  BY <1>2, <1>3

\* Every bit read doubles the number and adds itself.
LEMMA ValueSteps ==
  ASSUME NEW bits, NEW at
  PROVE  /\ Value(bits, at, 0) = 0
         /\ \A n \in Nat : Value(bits, at, n + 1) = 2 * Value(bits, at, n) + bits[at + (n + 1)]
<1>1. Value(bits, at, 0) = 0
  <2>1. PICK v : Scans(v, bits, at, 0) /\ Value(bits, at, 0) = v[0]
    BY ValueScans
  <2>2. QED
    BY <2>1 DEF Scans
<1>2. ASSUME NEW n \in Nat
      PROVE  Value(bits, at, n + 1) = 2 * Value(bits, at, n) + bits[at + (n + 1)]
  <2>1. PICK m \in Nat : m = n + 1 /\ n <= m /\ m # 0 /\ m - 1 = n /\ m \in 0..m
    OBVIOUS
  <2>2. PICK v : Scans(v, bits, at, m) /\ Value(bits, at, m) = v[m]
    BY ValueScans
  <2>3. PICK w : Scans(w, bits, at, n) /\ Value(bits, at, n) = w[n]
    BY ValueScans
  <2>4. v[n] = w[n]
    BY <2>1, <2>2, <2>3, ScansAgree
  <2>5. v[m] = 2 * v[n] + bits[at + m]
    BY <2>1, <2>2 DEF Scans
  <2>6. QED
    BY <2>1, <2>2, <2>3, <2>4, <2>5
<1>3. QED
  BY <1>1, <1>2

-----------------------------------------------------------------------------
(* A number is read as it was put.                                         *)

\* The n bits after at are those that put makes of v.
PutAt(bits, at, v, n) == \A k \in 1..n : bits[at + k] = put(v, n)[k]

LEMMA PutBits ==
  ASSUME NEW v \in Nat, NEW n \in Nat
  PROVE  /\ put(v, n) \in Seq({0, 1}) /\ Len(put(v, n)) = n
         /\ \A k \in 1..n : put(v, n)[k] = (v \div Pow2[n - k]) % 2
<1>1. ASSUME NEW k \in 1..n PROVE (v \div Pow2[n - k]) % 2 \in {0, 1}
  <2>1. PICK p \in Nat : p = Pow2[n - k] /\ p > 0
    BY Pow2Positive
  <2>2. v \div p \in Nat
    BY <2>1, DivMod
  <2>3. QED
    BY <2>1, <2>2
<1>2. put(v, n) \in [1..n -> {0, 1}]
  BY <1>1 DEF put
<1>3. QED
  BY <1>2 DEF put

LEMMA PutValue ==
  ASSUME NEW v \in Nat, NEW n \in Nat, v < Pow2[n],
         NEW bits, NEW at \in Nat, PutAt(bits, at, v, n)
  PROVE  Value(bits, at, n) = v
<1> DEFINE S == {k \in Nat : k <= n => Value(bits, at, k) = v \div Pow2[n - k]}
<1>1. 0 \in S
  <2>1. PICK p \in Nat : p = Pow2[n] /\ p > 0 /\ v < p
    BY Pow2Positive
  <2>2. v \div p = 0
    BY <2>1
  <2>3. QED
    BY <2>1, <2>2, ValueSteps
<1>2. ASSUME NEW k \in Nat, k \in S PROVE k + 1 \in S
  <2> SUFFICES ASSUME k + 1 <= n PROVE Value(bits, at, k + 1) = v \div Pow2[n - (k + 1)]
    OBVIOUS
  <2>1. PICK m \in Nat : m = n - (k + 1) /\ n - k = m + 1
    OBVIOUS
  <2>2. PICK p \in Nat : p = Pow2[m] /\ p > 0
    BY Pow2Positive
  <2>3. Pow2[n - k] = 2 * p
    BY <2>1, <2>2, Pow2Steps
  <2>4. Value(bits, at, k) = v \div (2 * p)
    BY <1>2, <2>3
  <2>5. bits[at + (k + 1)] = (v \div p) % 2
    <3>1. k + 1 \in 1..n
      OBVIOUS
    <3>2. bits[at + (k + 1)] = put(v, n)[k + 1]
      BY <3>1 DEF PutAt
    <3>3. put(v, n)[k + 1] = (v \div Pow2[n - (k + 1)]) % 2
      BY <3>1, PutBits
    <3>4. QED
      BY <2>1, <2>2, <3>2, <3>3
  <2>6. Value(bits, at, k + 1) = 2 * (v \div (2 * p)) + ((v \div p) % 2)
    BY <2>4, <2>5, ValueSteps
  <2>7. QED
    BY <2>1, <2>2, <2>6, DivTwice
<1>3. n \in S
  <2> HIDE DEF S
  <2>1. QED
    BY <1>1, <1>2, SetInduction
<1>4. Value(bits, at, n) = v \div Pow2[0]
  BY <1>3
<1>5. QED
  BY <1>4, Pow2Steps

\* Zeros are read as 0.
LEMMA ZeroValue ==
  ASSUME NEW n \in Nat, NEW bits, NEW at \in Nat, \A k \in 1..n : bits[at + k] = 0
  PROVE  Value(bits, at, n) = 0
<1> DEFINE S == {k \in Nat : k <= n => Value(bits, at, k) = 0}
<1>1. 0 \in S
  BY ValueSteps
<1>2. ASSUME NEW k \in Nat, k \in S PROVE k + 1 \in S
  <2> SUFFICES ASSUME k + 1 <= n PROVE Value(bits, at, k + 1) = 0
    OBVIOUS
  <2>1. Value(bits, at, k) = 0 /\ bits[at + (k + 1)] = 0
    BY <1>2
  <2>2. Value(bits, at, k + 1) = 2 * Value(bits, at, k) + bits[at + (k + 1)]
    BY ValueSteps
  <2>3. QED
    BY <2>1, <2>2
<1>3. n \in S
  <2> HIDE DEF S
  <2>1. QED
    BY <1>1, <1>2, SetInduction
<1>4. QED
  BY <1>3

-----------------------------------------------------------------------------
(* Bytes among bits.                                                       *)

LEMMA EscapeFacts ==
  /\ Escape \in Nat /\ Escape >= 3 /\ Pow2[ByteBits] = Escape + 1
<1>1. PICK m \in Nat : ByteBits = (m + 1) + 1
  <2>1. ByteBits - 2 \in Nat /\ ByteBits = ((ByteBits - 2) + 1) + 1
    BY SizesAssumption
  <2>2. QED
    BY <2>1
<1>2. PICK p \in Nat : p = Pow2[m] /\ p > 0
  BY Pow2Positive
<1>3. Pow2[m + 1] = 2 * p /\ Pow2[(m + 1) + 1] = 2 * Pow2[m + 1]
  BY <1>2, Pow2Steps
<1>4. QED
  BY <1>1, <1>2, <1>3 DEF Escape

\* The bits after at are those that put_bytes makes of s.
BytesAt(bits, at, s) ==
  \A j \in 1..Len(s) : PutAt(bits, at + (j - 1) * ByteBits, s[j], ByteBits)

LEMMA PutBytes ==
  ASSUME NEW s \in Seq(Octets)
  PROVE  /\ put_bytes(s) \in Seq({0, 1}) /\ Len(put_bytes(s)) = Len(s) * ByteBits
         /\ BytesAt(put_bytes(s), 0, s)
<1>1. PICK b \in Nat : b = ByteBits /\ b > 0
  BY SizesAssumption
<1>2. PICK n \in Nat : n = Len(s) /\ n * b \in Nat
  BY <1>1
<1>3. \A j \in 1..n : s[j] \in Nat
  BY <1>2, EscapeFacts DEF Octets
<1>4. put_bytes(s) = [k \in 1..(n * b) |-> put(s[((k - 1) \div b) + 1], b)[((k - 1) % b) + 1]]
  BY <1>1, <1>2 DEF put_bytes
<1>5. ASSUME NEW k \in 1..(n * b)
      PROVE  put(s[((k - 1) \div b) + 1], b)[((k - 1) % b) + 1] \in {0, 1}
  <2>1. PICK x \in Nat : x = k - 1 /\ x < n * b
    BY <1>2
  <2>2. PICK q \in Nat, r \in Nat : q = x \div b /\ r = x % b /\ r < b /\ x = b * q + r
    BY <1>1, DivMod
  <2>3. q < n
    <3>1. SUFFICES ASSUME q >= n PROVE FALSE
      BY <1>2, <2>2
    <3>2. PICK d \in Nat : q = n + d
      BY <1>2, <2>2, <3>1
    <3>3. b * q = n * b + b * d /\ b * d \in Nat
      BY <1>1, <1>2, <3>2
    <3>4. QED
      BY <1>2, <2>1, <2>2, <3>3
  <2>4. q + 1 \in 1..n /\ r + 1 \in 1..b
    BY <1>1, <1>2, <2>2, <2>3
  <2>5. s[q + 1] \in Nat
    BY <1>3, <2>4
  <2>6. put(s[q + 1], b) \in Seq({0, 1}) /\ Len(put(s[q + 1], b)) = b
    BY <1>1, <2>5, PutBits
  <2>7. put(s[q + 1], b)[r + 1] \in {0, 1}
    BY <2>4, <2>6
  <2>8. QED
    BY <2>1, <2>2, <2>7
<1>6. put_bytes(s) \in [1..(n * b) -> {0, 1}]
  BY <1>4, <1>5
<1>7. put_bytes(s) \in Seq({0, 1}) /\ Len(put_bytes(s)) = n * b
  BY <1>2, <1>6
<1>8. ASSUME NEW j \in 1..n, NEW i \in 1..b
      PROVE  put_bytes(s)[0 + (j - 1) * b + i] = put(s[j], b)[i]
  <2>1. PICK q \in Nat, r \in Nat : q = j - 1 /\ r = i - 1 /\ r < b /\ q < n
    BY <1>1, <1>2
  <2>2. PICK k \in Nat : k = b * q + r
    BY <1>1, <2>1
  <2>3. k % b = r /\ k \div b = q
    BY <1>1, <2>1, <2>2, DivUnique
  <2>4. k + 1 \in 1..(n * b)
    <3>1. PICK d \in Nat : n = q + 1 + d
      <4>1. n - (q + 1) \in Nat /\ n = q + 1 + (n - (q + 1))
        BY <1>2, <2>1
      <4>2. QED
        BY <4>1
    <3>2. n * b = b * q + b + b * d /\ b * d \in Nat
      BY <1>1, <3>1, <2>1
    <3>3. QED
      BY <1>1, <1>2, <2>1, <2>2, <3>2
  <2>5. put_bytes(s)[k + 1] = put(s[(((k + 1) - 1) \div b) + 1], b)[(((k + 1) - 1) % b) + 1]
    BY <1>4, <2>4
  <2>6. (k + 1) - 1 = k /\ q + 1 = j /\ r + 1 = i
    BY <2>1, <2>2
  <2>7. 0 + (j - 1) * b + i = k + 1
    BY <1>1, <2>1, <2>2
  <2>8. QED
    BY <2>3, <2>5, <2>6, <2>7
<1>9. QED
  BY <1>1, <1>2, <1>7, <1>8 DEF BytesAt, PutAt

\* They are read as they were put.
LEMMA BytesRead ==
  ASSUME NEW s \in Seq(Octets), NEW bits, NEW at \in Nat, BytesAt(bits, at, s),
         NEW j \in 1..Len(s)
  PROVE  Value(bits, at + (j - 1) * ByteBits, ByteBits) = s[j]
<1>1. ByteBits \in Nat /\ (j - 1) \in Nat
  BY SizesAssumption
<1>2. PICK o \in Nat : o = at + (j - 1) * ByteBits
  BY <1>1
<1>3. PICK v \in Nat : v = s[j] /\ v < Pow2[ByteBits]
  BY EscapeFacts DEF Octets
<1>4. PutAt(bits, o, v, ByteBits)
  BY <1>2, <1>3 DEF BytesAt
<1>5. QED
  BY <1>1, <1>2, <1>3, <1>4, PutValue

\* The elements of z after at are those of y.
Carries(z, at, y) == \A k \in 1..Len(y) : z[at + k] = y[k]

LEMMA ConcatCarries ==
  ASSUME NEW S, NEW x \in Seq(S), NEW y \in Seq(S)
  PROVE  /\ x \o y \in Seq(S) /\ Len(x \o y) = Len(x) + Len(y)
         /\ Carries(x \o y, 0, x) /\ Carries(x \o y, Len(x), y)
BY DEF Carries

IsBits(x, n) == x \in Seq({0, 1}) /\ Len(x) = n

LEMMA BitsJoin ==
  ASSUME NEW n \in Nat, NEW m \in Nat, NEW x, NEW y, IsBits(x, n), IsBits(y, m)
  PROVE  IsBits(x \o y, n + m) /\ Carries(x \o y, 0, x) /\ Carries(x \o y, n, y)
BY DEF IsBits, Carries

LEMMA CarriesInside ==
  ASSUME NEW n \in Nat, NEW m \in Nat, NEW x, NEW y, IsBits(x, n), IsBits(y, m),
         NEW z, NEW at \in Nat, NEW in \in Nat,
         Carries(z, at, y), Carries(y, in, x), in + n <= m
  PROVE  Carries(z, at + in, x)
<1>1. ASSUME NEW k \in 1..n PROVE z[at + in + k] = x[k]
  <2>1. PICK o \in Nat : o = in + k /\ o \in 1..m
    OBVIOUS
  <2>2. z[at + o] = y[o] /\ y[in + k] = x[k]
    BY <2>1 DEF Carries, IsBits
  <2>3. at + in + k = at + o
    BY <2>1
  <2>4. QED
    BY <2>1, <2>2, <2>3
<1>2. QED
  BY <1>1 DEF Carries, IsBits

\* What begins y is carried where y is.
LEMMA CarriesFirst ==
  ASSUME NEW n \in Nat, NEW m \in Nat, NEW x, NEW y, IsBits(x, n), IsBits(y, m), n <= m,
         NEW z, NEW at \in Nat, Carries(z, at, y), Carries(y, 0, x)
  PROVE  Carries(z, at, x)
<1>1. 0 \in Nat /\ 0 + n <= m /\ at + 0 = at
  OBVIOUS
<1>2. QED
  BY <1>1, CarriesInside, Zenon

LEMMA CarriesBytes ==
  ASSUME NEW s \in Seq(Octets), NEW bits, NEW at \in Nat, Carries(bits, at, put_bytes(s))
  PROVE  BytesAt(bits, at, s)
<1>1. PICK b \in Nat : b = ByteBits /\ b > 0
  BY SizesAssumption
<1>2. PICK n \in Nat : n = Len(s) /\ n * b \in Nat /\ Len(put_bytes(s)) = n * b
  BY <1>1, PutBytes
<1>3. ASSUME NEW j \in 1..n, NEW i \in 1..b
      PROVE  bits[at + (j - 1) * b + i] = put(s[j], b)[i]
  <2>1. PICK q \in Nat : q = j - 1 /\ q < n
    BY <1>2
  <2>2. PICK k \in Nat : k = q * b + i
    BY <1>1, <2>1
  <2>3. k \in 1..(n * b)
    <3>1. PICK d \in Nat : n = q + 1 + d
      <4>1. n - (q + 1) \in Nat /\ n = q + 1 + (n - (q + 1))
        BY <1>2, <2>1
      <4>2. QED
        BY <4>1
    <3>2. n * b = q * b + b + b * d /\ b * d \in Nat /\ q * b \in Nat
      BY <1>1, <3>1, <2>1
    <3>3. QED
      BY <1>1, <1>2, <2>1, <2>2, <3>2
  <2>4. bits[at + k] = put_bytes(s)[k]
    BY <1>2, <2>3 DEF Carries
  <2>5. put_bytes(s)[0 + (j - 1) * b + i] = put(s[j], b)[i]
    BY <1>1, <1>2, PutBytes DEF BytesAt, PutAt
  <2>6. 0 + (j - 1) * b + i = k /\ at + (j - 1) * b + i = at + k
    BY <1>1, <2>1, <2>2
  <2>7. QED
    BY <2>4, <2>5, <2>6
<1>4. QED
  BY <1>1, <1>2, <1>3 DEF BytesAt, PutAt

-----------------------------------------------------------------------------
(* An AudioMuxElement.                                                     *)

Zeros(x, n) == IsBits(x, n) /\ \A k \in 1..n : x[k] = 0

LEMMA ZeroBits == \A n \in Nat : Zeros(put(0, n), n)
<1> SUFFICES ASSUME NEW n \in Nat PROVE Zeros(put(0, n), n)
  OBVIOUS
<1>1. ASSUME NEW k \in 1..n PROVE put(0, n)[k] = 0
  <2>1. put(0, n)[k] = (0 \div Pow2[n - k]) % 2
    BY PutBits
  <2>2. PICK p \in Nat : p = Pow2[n - k] /\ p > 0
    BY Pow2Positive
  <2>3. (0 \div p) % 2 = 0
    BY <2>2
  <2>4. QED
    BY <2>1, <2>2, <2>3
<1>2. 0 \in Nat
  OBVIOUS
<1>3. IsBits(put(0, n), n)
  BY <1>2, PutBits DEF IsBits
<1>4. QED
  BY <1>1, <1>3 DEF Zeros

LEMMA AscBytes == Asc \in Seq(Octets) /\ Len(Asc) = 2 /\ HeadBits = 29 + 2 * ByteBits
<1>1. Asc \in Seq(Octets) /\ Len(Asc) = 2
  BY EscapeFacts DEF Asc, Octets
<1>2. QED
  BY <1>1, SizesAssumption DEF HeadBits

\* Of the n bits of x only the second is set.
Second(x, n) == IsBits(x, n) /\ \A k \in 1..n : x[k] = IF k = 2 THEN 1 ELSE 0

LEMMA SecondGrows ==
  ASSUME NEW n \in Nat, NEW m \in Nat, NEW x, NEW y, n >= 2, Second(x, n), Zeros(y, m)
  PROVE  Second(x \o y, n + m)
<1> DEFINE z == x \o y
<1>1. IsBits(x, n) /\ IsBits(y, m)
  BY DEF Second, Zeros
<1>2. IsBits(z, n + m) /\ Carries(z, 0, x) /\ Carries(z, n, y)
  BY <1>1, BitsJoin, Zenon
<1> HIDE DEF z
<1>3. ASSUME NEW k \in 1..(n + m) PROVE z[k] = IF k = 2 THEN 1 ELSE 0
  <2>1. CASE k <= n
    <3>1. k \in 1..Len(x) /\ k \in 1..n /\ 0 + k = k
      BY <1>1, <2>1 DEF IsBits
    <3>2. z[0 + k] = x[k] /\ x[k] = IF k = 2 THEN 1 ELSE 0
      BY <1>2, <3>1 DEF Carries, Second
    <3>3. QED
      BY <3>1, <3>2
  <2>2. CASE k > n
    <3>1. PICK j \in 1..m : n + j = k
      <4>1. k - n \in 1..m /\ n + (k - n) = k
        BY <2>2
      <4>2. QED
        BY <4>1
    <3>2. z[n + j] = y[j] /\ y[j] = 0
      BY <1>1, <1>2 DEF Carries, Zeros, IsBits
    <3>3. QED
      BY <2>2, <3>1, <3>2
  <2>3. QED
    BY <2>1, <2>2
<1>4. QED
  BY <1>2, <1>3 DEF Second, z

\* The 15 bits that StreamMuxConfig begins with.
FirstFields == (((put(0, 1) \o put(1, 1)) \o put(0, 6)) \o put(0, 4)) \o put(0, 3)

LEMMA FirstFieldsBits == Second(FirstFields, 15)
<1>1. PICK z : z = put(0, 1)
  OBVIOUS
<1>2. PICK o : o = put(1, 1)
  OBVIOUS
<1>3. PICK z6 : z6 = put(0, 6)
  OBVIOUS
<1>4. PICK z4 : z4 = put(0, 4)
  OBVIOUS
<1>5. PICK z3 : z3 = put(0, 3)
  OBVIOUS
<1>6. Zeros(z, 1) /\ Zeros(z6, 6) /\ Zeros(z4, 4) /\ Zeros(z3, 3)
  BY <1>1, <1>3, <1>4, <1>5, ZeroBits
<1>7. IsBits(o, 1) /\ o[1] = 1
  <2>1. 1 \in Nat /\ 1 \in 1..1 /\ 1 - 1 = 0 /\ (1 \div 1) % 2 = 1
    OBVIOUS
  <2>2. IsBits(o, 1) /\ o[1] = (1 \div Pow2[1 - 1]) % 2
    BY <1>2, <2>1, PutBits DEF IsBits
  <2>3. QED
    BY <2>1, <2>2, Pow2Steps
<1>8. PICK a : a = z \o o
  OBVIOUS
<1>9. Second(a, 2)
  <2>1. IsBits(z, 1) /\ 1 \in Nat /\ 1 + 1 = 2
    BY <1>6 DEF Zeros
  <2>2. IsBits(a, 1 + 1) /\ Carries(a, 0, z) /\ Carries(a, 1, o)
    BY <1>7, <1>8, <2>1, BitsJoin, Zenon
  <2>3. a[0 + 1] = z[1] /\ a[1 + 1] = o[1]
    BY <1>7, <2>1, <2>2 DEF Carries, IsBits
  <2>4. a[1] = 0 /\ a[2] = 1
    BY <1>6, <1>7, <2>3 DEF Zeros
  <2>5. QED
    BY <2>1, <2>2, <2>4 DEF Second
<1>10. PICK b : b = a \o z6
  OBVIOUS
<1>11. PICK c : c = b \o z4
  OBVIOUS
<1>12. /\ 2 \in Nat /\ 6 \in Nat /\ 8 \in Nat /\ 4 \in Nat /\ 12 \in Nat /\ 3 \in Nat
       /\ 2 + 6 = 8 /\ 8 + 4 = 12 /\ 12 + 3 = 15 /\ 2 >= 2 /\ 8 >= 2 /\ 12 >= 2
  OBVIOUS
<1>13. Second(b, 2 + 6)
  BY <1>6, <1>9, <1>10, <1>12, SecondGrows, Zenon
<1>14. Second(c, 8 + 4)
  BY <1>6, <1>11, <1>12, <1>13, SecondGrows, Zenon
<1>15. Second(c \o z3, 12 + 3)
  BY <1>6, <1>12, <1>14, SecondGrows, Zenon
<1>16. FirstFields = c \o z3
  BY <1>1, <1>2, <1>3, <1>4, <1>5, <1>8, <1>10, <1>11, Zenon DEF FirstFields
<1>17. QED
  BY <1>12, <1>15, <1>16, Zenon

\* The bits of a head, one by one.
HeadRight(b) ==
  /\ Len(b) >= HeadBits
  /\ \A k \in 1..16 : b[k] = IF k = 3 THEN 1 ELSE 0
  /\ BytesAt(b, 16, Asc)
  /\ \A k \in 1..3 : b[HeadBits - 13 + k] = 0
  /\ \A k \in 1..2 : b[HeadBits - 2 + k] = 0

MuxHead == put(0, 1) \o write_stream_mux_config(Asc)

LEMMA HeadWritten == IsBits(MuxHead, HeadBits) /\ HeadRight(MuxHead)
<1>1. PICK w \in Nat : w = 2 * ByteBits
  BY SizesAssumption
<1>2. PICK y : y = put_bytes(Asc)
  OBVIOUS
<1>3. PICK z1 : z1 = put(0, 1)
  OBVIOUS
<1>4. PICK z3 : z3 = put(0, 3)
  OBVIOUS
<1>5. PICK f8 : f8 = put(255, 8)
  OBVIOUS
<1>6. PICK d : d = FirstFields
  OBVIOUS
<1>7. Zeros(z1, 1) /\ IsBits(z1, 1) /\ Zeros(z3, 3) /\ IsBits(z3, 3)
  BY <1>3, <1>4, ZeroBits DEF Zeros
<1>8. IsBits(f8, 8)
  <2>1. PICK v \in Nat, n \in Nat : v = 255 /\ n = 8
    OBVIOUS
  <2>2. IsBits(put(v, n), n)
    BY PutBits DEF IsBits
  <2>3. QED
    BY <1>5, <2>1, <2>2, Zenon
<1>9. IsBits(d, 15) /\ \A k \in 1..15 : d[k] = IF k = 2 THEN 1 ELSE 0
  BY <1>6, FirstFieldsBits DEF Second
<1>10. IsBits(y, w)
  BY <1>1, <1>2, AscBytes, PutBytes DEF IsBits
<1>11. PICK e : e = d \o y
  OBVIOUS
<1>12. PICK f : f = e \o z3
  OBVIOUS
<1>13. PICK g : g = f \o f8
  OBVIOUS
<1>14. PICK h : h = g \o z1
  OBVIOUS
<1>15. PICK i : i = h \o z1
  OBVIOUS
<1>16. PICK m : m = z1 \o i
  OBVIOUS
<1>17. MuxHead = m
  BY <1>2, <1>3, <1>4, <1>5, <1>6, <1>11, <1>12, <1>13, <1>14, <1>15, <1>16, Zenon
     DEF MuxHead, write_stream_mux_config, FirstFields
<1>18. /\ 15 + w \in Nat /\ 18 + w \in Nat /\ 26 + w \in Nat /\ 27 + w \in Nat /\ 28 + w \in Nat
       /\ (15 + w) + 3 = 18 + w /\ (18 + w) + 8 = 26 + w /\ (26 + w) + 1 = 27 + w
       /\ (27 + w) + 1 = 28 + w /\ 1 + (28 + w) = 29 + w /\ 1 + (26 + w) = 27 + w
       /\ 1 + (27 + w) = 28 + w /\ 1 + (15 + w) = 16 + w /\ 1 + 15 = 16
       /\ 15 <= 15 + w /\ 15 + w <= 18 + w /\ 18 + w <= 26 + w /\ 26 + w <= 27 + w
       /\ 27 + w <= 28 + w /\ 1 \in Nat /\ 3 \in Nat /\ 8 \in Nat /\ 15 \in Nat
  OBVIOUS
<1>19. IsBits(e, 15 + w) /\ Carries(e, 0, d) /\ Carries(e, 15, y)
  BY <1>9, <1>10, <1>11, <1>18, BitsJoin, Zenon
<1>20. IsBits(f, 18 + w) /\ Carries(f, 0, e) /\ Carries(f, 15 + w, z3)
  <2>1. IsBits(f, (15 + w) + 3) /\ Carries(f, 0, e) /\ Carries(f, 15 + w, z3)
    BY <1>7, <1>12, <1>18, <1>19, BitsJoin, Zenon
  <2>2. QED
    BY <1>18, <2>1, Zenon
<1>21. IsBits(g, 26 + w) /\ Carries(g, 0, f)
  <2>1. IsBits(g, (18 + w) + 8) /\ Carries(g, 0, f)
    BY <1>8, <1>13, <1>18, <1>20, BitsJoin, Zenon
  <2>2. QED
    BY <1>18, <2>1, Zenon
<1>22. IsBits(h, 27 + w) /\ Carries(h, 0, g) /\ Carries(h, 26 + w, z1)
  <2>1. IsBits(h, (26 + w) + 1) /\ Carries(h, 0, g) /\ Carries(h, 26 + w, z1)
    BY <1>7, <1>14, <1>18, <1>21, BitsJoin, Zenon
  <2>2. QED
    BY <1>18, <2>1, Zenon
<1>23. IsBits(i, 28 + w) /\ Carries(i, 0, h) /\ Carries(i, 27 + w, z1)
  <2>1. IsBits(i, (27 + w) + 1) /\ Carries(i, 0, h) /\ Carries(i, 27 + w, z1)
    BY <1>7, <1>15, <1>18, <1>22, BitsJoin, Zenon
  <2>2. QED
    BY <1>18, <2>1, Zenon
<1>24. IsBits(m, 29 + w) /\ Carries(m, 0, z1) /\ Carries(m, 1, i)
  <2>1. IsBits(m, 1 + (28 + w)) /\ Carries(m, 0, z1) /\ Carries(m, 1, i)
    BY <1>7, <1>16, <1>18, <1>23, BitsJoin, Zenon
  <2>2. QED
    BY <1>18, <2>1, Zenon
<1>25. Carries(m, 1, h)
  BY <1>18, <1>22, <1>23, <1>24, CarriesFirst, Zenon
<1>26. Carries(m, 1, g)
  BY <1>18, <1>21, <1>22, <1>25, CarriesFirst, Zenon
<1>27. Carries(m, 1, f)
  BY <1>18, <1>20, <1>21, <1>26, CarriesFirst, Zenon
<1>28. Carries(m, 1, e)
  BY <1>18, <1>19, <1>20, <1>27, CarriesFirst, Zenon
<1>29. Carries(m, 1, d)
  BY <1>9, <1>18, <1>19, <1>28, CarriesFirst, Zenon
<1>30. Carries(m, 16, y)
  <2>1. Carries(m, 1 + 15, y)
    <3>1. 15 + w <= 15 + w
      OBVIOUS
    <3>2. QED
      BY <1>10, <1>18, <1>19, <1>28, <3>1, CarriesInside, Zenon
  <2>2. QED
    BY <1>18, <2>1, Zenon
<1>31. Carries(m, 16 + w, z3)
  <2>1. Carries(m, 1 + (15 + w), z3)
    <3>1. (15 + w) + 3 <= 18 + w
      OBVIOUS
    <3>2. QED
      BY <1>7, <1>18, <1>20, <1>27, <3>1, CarriesInside, Zenon
  <2>2. QED
    BY <1>18, <2>1, Zenon
<1>32. Carries(m, 27 + w, z1)
  <2>1. Carries(m, 1 + (26 + w), z1)
    <3>1. (26 + w) + 1 <= 27 + w
      OBVIOUS
    <3>2. QED
      BY <1>7, <1>18, <1>22, <1>25, <3>1, CarriesInside, Zenon
  <2>2. QED
    BY <1>18, <2>1, Zenon
<1>33. Carries(m, 28 + w, z1)
  <2>1. Carries(m, 1 + (27 + w), z1)
    <3>1. /\ 28 + w \in Nat /\ 27 + w \in Nat /\ 1 \in Nat
          /\ (27 + w) + 1 <= 28 + w
      OBVIOUS
    <3>2. IsBits(z1, 1) /\ IsBits(i, 28 + w) /\ Carries(i, 27 + w, z1) /\ Carries(m, 1, i)
      BY <1>7, <1>23, <1>24, Zenon
    <3>3. QED
      BY <3>1, <3>2, CarriesInside, Zenon
  <2>2. QED
    BY <1>18, <2>1, Zenon
<1>34. BytesAt(m, 16, Asc)
  BY <1>2, <1>30, AscBytes, CarriesBytes
<1>35. ASSUME NEW k \in 1..16 PROVE m[k] = IF k = 3 THEN 1 ELSE 0
  <2>1. CASE k = 1
    <3>1. m[0 + 1] = z1[1] /\ z1[1] = 0
      BY <1>7, <1>24 DEF Carries, IsBits, Zeros
    <3>2. QED
      BY <2>1, <3>1
  <2>2. CASE k # 1
    <3>1. PICK j \in 1..15 : k = 1 + j
      <4>1. k - 1 \in 1..15 /\ k = 1 + (k - 1)
        BY <2>2
      <4>2. QED
        BY <4>1
    <3>2. m[1 + j] = d[j]
      BY <1>9, <1>29 DEF Carries, IsBits
    <3>3. d[j] = IF j = 2 THEN 1 ELSE 0
      BY <1>9
    <3>4. j = 2 <=> k = 3
      BY <3>1
    <3>5. QED
      BY <3>1, <3>2, <3>3, <3>4
  <2>3. QED
    BY <2>1, <2>2
<1>36. HeadBits = 29 + w
  BY <1>1, AscBytes
<1>37. ASSUME NEW k \in 1..3 PROVE m[HeadBits - 13 + k] = 0
  <2>1. m[16 + w + k] = z3[k] /\ z3[k] = 0
    BY <1>7, <1>31 DEF Carries, IsBits, Zeros
  <2>2. HeadBits - 13 + k = 16 + w + k
    BY <1>36
  <2>3. QED
    BY <2>1, <2>2
<1>38. ASSUME NEW k \in 1..2 PROVE m[HeadBits - 2 + k] = 0
  <2>1. m[27 + w + 1] = 0 /\ m[28 + w + 1] = 0
    BY <1>7, <1>32, <1>33 DEF Carries, IsBits, Zeros
  <2>2. k = 1 => HeadBits - 2 + k = 27 + w + 1
    BY <1>36
  <2>3. k = 2 => HeadBits - 2 + k = 28 + w + 1
    BY <1>36
  <2>4. k = 1 \/ k = 2
    OBVIOUS
  <2>5. QED
    BY <2>1, <2>2, <2>3, <2>4
<1>39. Len(m) >= HeadBits
  BY <1>24, <1>36 DEF IsBits
<1>40. HeadRight(m)
  BY <1>34, <1>35, <1>37, <1>38, <1>39 DEF HeadRight
<1>41. QED
  BY <1>17, <1>24, <1>36, <1>40

LEMMA HeadCarried ==
  ASSUME NEW b, Len(b) \in Nat, Len(b) >= HeadBits, Carries(b, 0, MuxHead)
  PROVE  HeadRight(b)
<1>1. PICK w \in Nat : w = ByteBits /\ HeadBits = 29 + 2 * w
  BY AscBytes, SizesAssumption
<1>2. PICK m : m = MuxHead
  OBVIOUS
<1>3. Len(m) = HeadBits /\ HeadRight(m)
  BY <1>2, HeadWritten DEF IsBits
<1>4. ASSUME NEW k \in 1..HeadBits PROVE b[k] = m[k]
  <2>1. b[0 + k] = m[k]
    BY <1>2, <1>3 DEF Carries
  <2>2. 0 + k = k
    BY <1>1
  <2>3. QED
    BY <2>1, <2>2
<1>5. \A k \in 1..16 : b[k] = IF k = 3 THEN 1 ELSE 0
  <2>1. \A k \in 1..16 : m[k] = IF k = 3 THEN 1 ELSE 0
    BY <1>3, Zenon DEF HeadRight
  <2>2. \A k \in 1..16 : k \in 1..HeadBits
    BY <1>1
  <2>3. QED
    BY <1>4, <2>1, <2>2, Zenon
<1>6. ASSUME NEW k \in 1..3 PROVE b[HeadBits - 13 + k] = 0
  <2>1. HeadBits - 13 + k \in 1..HeadBits
    BY <1>1
  <2>2. QED
    BY <1>3, <1>4, <2>1 DEF HeadRight
<1>7. ASSUME NEW k \in 1..2 PROVE b[HeadBits - 2 + k] = 0
  <2>1. HeadBits - 2 + k \in 1..HeadBits
    BY <1>1
  <2>2. QED
    BY <1>3, <1>4, <2>1 DEF HeadRight
<1>8. BytesAt(b, 16, Asc)
  <2>1. ASSUME NEW j \in 1..2, NEW k \in 1..w
        PROVE  b[16 + (j - 1) * w + k] = put(Asc[j], w)[k]
    <3>1. m[16 + (j - 1) * w + k] = put(Asc[j], w)[k]
      BY <1>1, <1>3, AscBytes DEF HeadRight, BytesAt, PutAt
    <3>2. 16 + (j - 1) * w + k \in 1..HeadBits
      <4>1. CASE j = 1
        BY <1>1, <4>1
      <4>2. CASE j = 2
        BY <1>1, <4>2
      <4>3. QED
        BY <4>1, <4>2
    <3>3. QED
      BY <1>4, <3>1, <3>2
  <2>2. QED
    BY <1>1, <2>1, AscBytes DEF BytesAt, PutAt
<1>9. QED
  BY <1>5, <1>6, <1>7, <1>8 DEF HeadRight

\* A head is understood.
LEMMA HeadUnderstood ==
  ASSUME NEW b, HeadRight(b)
  PROVE  MuxUnderstood(b)
<1>1. HeadBits \in Nat /\ HeadBits - 13 \in Nat /\ HeadBits - 2 \in Nat
  BY AscBytes, SizesAssumption
<1>fields. \A k \in 1..16 : b[k] = IF k = 3 THEN 1 ELSE 0
  BY Zenon DEF HeadRight
<1>2. Value(b, 0, 2) = 0
  <2>1. \A k \in 1..2 : b[0 + k] = 0
    BY <1>fields
  <2>2. QED
    BY <2>1, ZeroValue
<1>3. Value(b, 2, 1) = 1
  <2>1. Value(b, 2, 0 + 1) = 2 * Value(b, 2, 0) + b[2 + (0 + 1)] /\ Value(b, 2, 0) = 0
    BY ValueSteps
  <2>2. b[3] = 1
    BY <1>fields
  <2>3. QED
    BY <2>1, <2>2
<1>4. Value(b, 3, 13) = 0
  <2>1. \A k \in 1..13 : b[3 + k] = 0
    BY <1>fields
  <2>2. QED
    BY <2>1, ZeroValue
<1>5. Value(b, HeadBits - 13, 3) = 0
  <2>1. \A k \in 1..3 : b[HeadBits - 13 + k] = 0
    BY DEF HeadRight
  <2>2. QED
    BY <1>1, <2>1, ZeroValue
<1>6. Value(b, HeadBits - 2, 2) = 0
  <2>1. \A k \in 1..2 : b[HeadBits - 2 + k] = 0
    BY DEF HeadRight
  <2>2. QED
    BY <1>1, <2>1, ZeroValue
<1>7. \A j \in 1..Len(Asc) : Value(b, 16 + (j - 1) * ByteBits, ByteBits) = Asc[j]
  <2>1. 16 \in Nat /\ Asc \in Seq(Octets) /\ BytesAt(b, 16, Asc)
    BY AscBytes DEF HeadRight
  <2>2. QED
    BY <2>1, BytesRead, Zenon
<1>8. QED
  BY <1>2, <1>3, <1>4, <1>5, <1>6, <1>7 DEF MuxUnderstood, HeadRight

\* The bytes of a length: an Escape for each whole one, then the rest.
Info(n) == [i \in 1..(n \div Escape) |-> Escape] \o <<n % Escape>>

LEMMA InfoBytes ==
  ASSUME NEW n \in Nat, NEW e \in Nat, e = n \div Escape
  PROVE  /\ Info(n) \in Seq(Octets) /\ Len(Info(n)) = e + 1
         /\ \A i \in 1..e : Info(n)[i] = Escape
         /\ Info(n)[e + 1] \in Nat /\ Info(n)[e + 1] < Escape
         /\ n = e * Escape + Info(n)[e + 1]
<1>1. PICK c \in Nat : c = Escape /\ c > 0
  BY EscapeFacts
<1>2. PICK r \in Nat : r = n % Escape /\ r < c /\ n = c * e + r
  BY <1>1, DivMod
<1>3. c \in Octets /\ r \in Octets
  BY <1>1, <1>2 DEF Octets
<1>4. PICK x : x = [i \in 1..e |-> c]
  OBVIOUS
<1>5. x \in Seq(Octets) /\ Len(x) = e /\ \A i \in 1..e : x[i] = c
  BY <1>3, <1>4
<1>6. PICK y : y = <<r>>
  OBVIOUS
<1>7. y \in Seq(Octets) /\ Len(y) = 1 /\ y[1] = r
  BY <1>3, <1>6
<1>8. Info(n) = x \o y
  BY <1>1, <1>2, <1>4, <1>6 DEF Info
<1>9. /\ x \o y \in Seq(Octets) /\ Len(x \o y) = Len(x) + Len(y)
      /\ Carries(x \o y, 0, x) /\ Carries(x \o y, Len(x), y)
  BY <1>5, <1>7, ConcatCarries, Zenon
<1>10. \A i \in 1..e : (x \o y)[i] = c
  <2>1. \A i \in 1..e : (x \o y)[0 + i] = c
    BY <1>5, <1>9, Zenon DEF Carries
  <2>2. \A i \in 1..e : 0 + i = i
    OBVIOUS
  <2>3. QED
    BY <2>1, <2>2
<1>11. (x \o y)[e + 1] = r
  <2>1. 1 \in 1..1
    OBVIOUS
  <2>2. QED
    BY <1>5, <1>7, <1>9, <2>1, Zenon DEF Carries
<1>12. n = e * c + r
  BY <1>1, <1>2
<1>13. QED
  BY <1>1, <1>2, <1>5, <1>7, <1>8, <1>9, <1>10, <1>11, <1>12

\* What latm_pack makes of an access unit, in u whole bytes after the head
\* and less than a byte of filling.
LEMMA Packed ==
  ASSUME NEW au \in Seq(Octets), NEW n \in Nat, n = Len(au), NEW e \in Nat, e = n \div Escape
  PROVE  \E b : \E fill \in Nat :
           /\ b = latm_pack(Asc, au) /\ b \in Seq({0, 1}) /\ fill < ByteBits
           /\ Len(b) = HeadBits + (e + 1 + n) * ByteBits + fill
           /\ HeadRight(b) /\ BytesAt(b, HeadBits, Info(n))
           /\ BytesAt(b, HeadBits + (e + 1) * ByteBits, au)
<1>1. PICK w \in Nat : w = ByteBits /\ w > 0
  BY SizesAssumption
<1>2. PICK hb \in Nat : hb = HeadBits
  BY AscBytes, SizesAssumption
<1>3. PICK m : m = MuxHead
  OBVIOUS
<1>4. PICK x : x = put_bytes(Info(n))
  OBVIOUS
<1>5. PICK y : y = put_bytes(au)
  OBVIOUS
<1>6. PICK lx \in Nat : lx = (e + 1) * w
  BY <1>1
<1>7. PICK ly \in Nat : ly = n * w
  BY <1>1
<1>8. IsBits(m, hb) /\ IsBits(x, lx) /\ IsBits(y, ly)
  <2>1. IsBits(m, hb)
    BY <1>2, <1>3, HeadWritten, Zenon
  <2>2. Info(n) \in Seq(Octets) /\ Len(Info(n)) = e + 1
    BY InfoBytes, Zenon
  <2>3. IsBits(x, lx)
    BY <1>1, <1>4, <1>6, <2>2, PutBytes DEF IsBits
  <2>4. IsBits(y, ly)
    BY <1>1, <1>5, <1>7, PutBytes DEF IsBits
  <2>5. QED
    BY <2>1, <2>3, <2>4
<1>9. PICK p : p = m \o x
  OBVIOUS
<1>10. IsBits(p, hb + lx) /\ Carries(p, 0, m) /\ Carries(p, hb, x)
  BY <1>8, <1>9, BitsJoin, Zenon
<1>11. PICK q : q = p \o y
  OBVIOUS
<1>12. PICK lq \in Nat : lq = hb + lx + ly /\ hb + lx \in Nat
  OBVIOUS
<1>13. IsBits(q, lq) /\ Carries(q, 0, p) /\ Carries(q, hb + lx, y)
  BY <1>8, <1>10, <1>11, <1>12, BitsJoin, Zenon
<1>14. PICK fill \in Nat : fill = (w - (Len(q) % w)) % w /\ fill < w
  <2>1. Len(q) \in Nat
    BY <1>13 DEF IsBits
  <2>2. Len(q) % w \in 0..(w - 1)
    BY <1>1, <2>1
  <2>3. w - (Len(q) % w) \in Nat
    BY <1>1, <2>2
  <2>4. (w - (Len(q) % w)) % w \in 0..(w - 1)
    BY <1>1, <2>3
  <2>5. QED
    BY <2>4
<1>15. PICK z : z = [i \in 1..fill |-> 0]
  OBVIOUS
<1>16. IsBits(z, fill)
  BY <1>15 DEF IsBits
<1>17. PICK b : b = q \o z
  OBVIOUS
<1>18. IsBits(b, lq + fill) /\ Carries(b, 0, q)
  BY <1>13, <1>16, <1>17, BitsJoin, Zenon
<1>19. b = latm_pack(Asc, au)
  <2>1. b = take(q)
    BY <1>1, <1>14, <1>15, <1>17 DEF take
  <2>2. q = put(0, 1) \o write_stream_mux_config(Asc)
             \o write_payload_length_info(Len(au)) \o put_bytes(au)
    BY <1>3, <1>4, <1>5, <1>9, <1>11, Zenon DEF MuxHead, Info, write_payload_length_info
  <2>3. QED
    BY <2>1, <2>2, Zenon DEF latm_pack
<1>20. 0 \in Nat /\ hb + lx <= lq /\ hb <= hb + lx /\ (hb + lx) + ly <= lq /\ hb + lx <= hb + lx
       /\ 0 + hb = hb /\ 0 + (hb + lx) = hb + lx
  BY <1>12
<1>21. Carries(b, 0, p)
  BY <1>10, <1>12, <1>13, <1>18, <1>20, CarriesFirst, Zenon
<1>22. Carries(b, 0, m)
  BY <1>8, <1>10, <1>12, <1>20, <1>21, CarriesFirst, Zenon
<1>23. Carries(b, hb, x)
  <2>1. Carries(b, 0 + hb, x)
    BY <1>8, <1>10, <1>12, <1>20, <1>21, CarriesInside, Zenon
  <2>2. QED
    BY <1>20, <2>1, Zenon
<1>24. Carries(b, hb + lx, y)
  <2>1. Carries(b, 0 + (hb + lx), y)
    BY <1>8, <1>12, <1>13, <1>18, <1>20, CarriesInside, Zenon
  <2>2. QED
    BY <1>20, <2>1, Zenon
<1>25. Len(b) = lq + fill /\ b \in Seq({0, 1})
  BY <1>18 DEF IsBits
<1>26. HeadRight(b)
  <2>1. Len(b) \in Nat /\ Len(b) >= HeadBits
    BY <1>2, <1>12, <1>25
  <2>2. QED
    BY <1>3, <1>22, <2>1, HeadCarried, Zenon
<1>27. BytesAt(b, HeadBits, Info(n))
  BY <1>2, <1>4, <1>23, InfoBytes, CarriesBytes, Zenon
<1>28. BytesAt(b, hb + lx, au)
  BY <1>5, <1>12, <1>24, CarriesBytes, Zenon
<1>29. lq + fill = hb + (e + 1 + n) * w + fill
  <2>1. PICK d \in Nat : d = e + 1
    OBVIOUS
  <2>2. (d + n) * w = d * w + n * w /\ d * w \in Nat /\ n * w \in Nat
    BY <1>1
  <2>3. QED
    BY <1>6, <1>7, <1>12, <2>1, <2>2
<1>30. QED
  BY <1>1, <1>2, <1>6, <1>14, <1>19, <1>25, <1>26, <1>27, <1>28, <1>29

\* latm_pack and the headset's reader: an access unit of any length, with any
\* content, is found in its packet as the encoder emitted it.
THEOREM RoundTrip ==
  ASSUME NEW au \in Seq(Octets)
  PROVE  latm_pack(Asc, au) \in Seq({0, 1}) /\ Decode(latm_pack(Asc, au)) = au
<1>1. PICK n \in Nat : n = Len(au)
  OBVIOUS
<1>2. PICK c \in Nat : c = Escape /\ c > 0
  BY EscapeFacts
<1>3. PICK e \in Nat : e = n \div Escape
  BY <1>2, DivMod
<1>4. PICK b : \E f \in Nat :
           /\ b = latm_pack(Asc, au) /\ b \in Seq({0, 1}) /\ f < ByteBits
           /\ Len(b) = HeadBits + (e + 1 + n) * ByteBits + f
           /\ HeadRight(b) /\ BytesAt(b, HeadBits, Info(n))
           /\ BytesAt(b, HeadBits + (e + 1) * ByteBits, au)
  BY <1>1, <1>3, Packed, Zenon
<1>fill. PICK fill \in Nat : fill < ByteBits
                           /\ Len(b) = HeadBits + (e + 1 + n) * ByteBits + fill
  BY <1>4
<1>5. PICK w \in Nat : w = ByteBits /\ w > 0
  BY SizesAssumption
<1>6. PICK hb \in Nat : hb = HeadBits
  BY AscBytes, SizesAssumption
<1>7. PICK i : i = Info(n)
  OBVIOUS
<1>8. /\ i \in Seq(Octets) /\ Len(i) = e + 1
      /\ \A j \in 1..e : i[j] = c
      /\ i[e + 1] \in Nat /\ i[e + 1] < c
      /\ n = e * c + i[e + 1]
  BY <1>2, <1>3, <1>7, InfoBytes
<1> DEFINE Byte(j) == Value(b, HeadBits + (j - 1) * ByteBits, ByteBits)
           whole   == (Len(b) - HeadBits) \div ByteBits
           ends    == {j \in 1..whole : Byte(j) # Escape}
           last    == CHOOSE j \in ends : \A k \in ends : j <= k
           length  == (last - 1) * Escape + Byte(last)
<1>9. Decode(b) = IF ~MuxUnderstood(b) \/ ends = {} \/ last + length > whole
                  THEN << >>
                  ELSE [j \in 1..length |-> Byte(last + j)]
  BY DEF Decode
<1>10. \A j \in 1..(e + 1) : Byte(j) = i[j]
  <2>1. \A j \in 1..Len(i) : Value(b, HeadBits + (j - 1) * ByteBits, ByteBits) = i[j]
    <3>1. HeadBits \in Nat /\ i \in Seq(Octets) /\ BytesAt(b, HeadBits, i)
      BY <1>4, <1>6, <1>7, <1>8, Zenon
    <3>2. QED
      BY <3>1, BytesRead, Zenon
  <2>2. QED
    BY <1>8, <2>1
<1>11. ASSUME NEW j \in 1..n PROVE Byte(e + 1 + j) = au[j]
  <2>1. PICK o \in Nat : o = hb + (e + 1) * w
    BY <1>5
  <2>2. Value(b, o + (j - 1) * ByteBits, ByteBits) = au[j]
    BY <1>1, <1>4, <1>5, <1>6, <2>1, BytesRead
  <2>3. o + (j - 1) * w = hb + ((e + 1 + j) - 1) * w
    BY <1>5, <2>1
  <2>4. QED
    BY <1>5, <1>6, <2>2, <2>3
<1>12. whole = e + 1 + n
  <2>1. PICK u \in Nat : u = e + 1 + n
    OBVIOUS
  <2>2. Len(b) - HeadBits = w * u + fill
    BY <1>fill, <1>5, <1>6, <2>1
  <2>3. (w * u + fill) \div w = u
    BY <1>fill, <1>5, DivUnique
  <2>4. QED
    BY <1>5, <2>1, <2>2, <2>3
<1> HIDE DEF Byte, whole
<1>13. e + 1 \in ends /\ \A k \in ends : e + 1 <= k
  <2>1. e + 1 \in ends
    BY <1>2, <1>8, <1>10, <1>12
  <2>2. ASSUME NEW k \in ends PROVE e + 1 <= k
    <3>1. k \in 1..(e + 1 + n) /\ Byte(k) # Escape
      BY <1>12
    <3>2. ~(k \in 1..e)
      <4>1. SUFFICES ASSUME k \in 1..e PROVE FALSE
        OBVIOUS
      <4>2. k \in 1..(e + 1)
        BY <4>1
      <4>3. QED
        BY <1>2, <1>8, <1>10, <3>1, <4>1, <4>2
    <3>3. QED
      BY <3>1, <3>2
  <2>3. QED
    BY <2>1, <2>2
<1>14. last = e + 1
  <2>1. last \in ends /\ \A k \in ends : last <= k
    BY <1>13, Zenon
  <2>2. last \in Nat
    BY <1>12, <2>1
  <2>3. last <= e + 1 /\ e + 1 <= last
    BY <1>13, <2>1
  <2>4. QED
    BY <2>2, <2>3
<1> HIDE DEF ends, last
<1>15. length = n
  <2>1. length = ((e + 1) - 1) * c + i[e + 1]
    BY <1>2, <1>10, <1>14
  <2>2. QED
    BY <1>8, <2>1
<1> HIDE DEF length
<1>16. MuxUnderstood(b)
  BY <1>4, HeadUnderstood, Zenon
<1>17. ends # {} /\ ~(last + length > whole)
  BY <1>12, <1>13, <1>14, <1>15
<1>18. Decode(b) = [j \in 1..n |-> Byte(e + 1 + j)]
  BY <1>9, <1>14, <1>15, <1>16, <1>17
<1>19. au = [j \in 1..n |-> au[j]]
  BY <1>1
<1>20. Decode(b) = au
  BY <1>11, <1>18, <1>19
<1>21. QED
  BY <1>4, <1>20

-----------------------------------------------------------------------------
(* Counters.                                                               *)

\* Two counters that advance by the same stay as far apart.
LEMMA AheadShift ==
  ASSUME NEW m \in Nat, m > 0, NEW a \in 0..(m - 1), NEW b \in 0..(m - 1), NEW k \in Nat
  PROVE  Ahead((a + k) % m, (b + k) % m, m) = Ahead(a, b, m)
<1>1. PICK r \in Nat, q \in Nat : r = k % m /\ r < m /\ k = m * q + r
  BY DivMod
<1>2. ASSUME NEW x \in 0..(m - 1)
      PROVE  (x + k) % m = IF x + r < m THEN x + r ELSE x + r - m
  <2>1. CASE x + r < m
    <3>1. PICK s \in Nat : s = x + r /\ s < m
      BY <2>1
    <3>2. x + k = m * q + s
      BY <1>1, <3>1
    <3>3. QED
      BY <2>1, <3>1, <3>2, DivUnique
  <2>2. CASE ~(x + r < m)
    <3>1. PICK s \in Nat : s = x + r - m /\ s < m
      BY <1>1, <2>2
    <3>2. PICK p \in Nat : p = q + 1
      OBVIOUS
    <3>3. x + k = m * p + s
      <4>1. m * p = m * q + m
        BY <3>2
      <4>2. QED
        BY <1>1, <3>1, <4>1
    <3>4. (m * p + s) % m = s
      BY <3>1, DivUnique
    <3>5. QED
      BY <2>2, <3>1, <3>3, <3>4
  <2>3. QED
    BY <2>1, <2>2
<1>3. ASSUME NEW x \in 0..(m - 1), NEW y \in 0..(m - 1)
      PROVE  Ahead(x, y, m) = IF x >= y THEN x - y ELSE x + m - y
  BY DEF Ahead
<1>4. PICK c \in 0..(m - 1) : c = (a + k) % m /\ c = IF a + r < m THEN a + r ELSE a + r - m
  BY <1>1, <1>2
<1>5. PICK d \in 0..(m - 1) : d = (b + k) % m /\ d = IF b + r < m THEN b + r ELSE b + r - m
  BY <1>1, <1>2
<1>6. Ahead(c, d, m) = Ahead(a, b, m)
  BY <1>1, <1>3, <1>4, <1>5
<1>7. QED
  BY <1>4, <1>5, <1>6

\* Of two pairs as far apart, the firsts are as far apart as the seconds.
LEMMA AheadSwap ==
  ASSUME NEW m \in Nat, m > 0, NEW a \in 0..(m - 1), NEW b \in 0..(m - 1),
         NEW c \in 0..(m - 1), NEW d \in 0..(m - 1), Ahead(a, b, m) = Ahead(c, d, m)
  PROVE  Ahead(a, c, m) = Ahead(b, d, m)
<1>1. ASSUME NEW x \in 0..(m - 1), NEW y \in 0..(m - 1)
      PROVE  Ahead(x, y, m) = IF x >= y THEN x - y ELSE x + m - y
  BY DEF Ahead
<1>2. QED
  BY <1>1

LEMMA ModInRange ==
  ASSUME NEW m \in Nat \ {0}, NEW x \in Nat
  PROVE  x % m \in 0..(m - 1)
OBVIOUS

-----------------------------------------------------------------------------
(***************************************************************************)
(* The inductive invariant.                                                *)
(***************************************************************************)
\* What is under way is a frame of its codec: AAC and LC3 frames are of the
\* length the framing policy assumes, and what is numbered has an RTP header.
FrameInv ==
  /\ send.pc # "idle" =>
       /\ send.codec \in Codecs
       /\ send.codec = "AAC" => send.body = latm_pack(Asc, send.au) /\ send.pcm = 1024
       /\ send.codec = "LC3" => send.pcm = 480
       /\ send.codec = "SBC" => send.count = 1
  /\ send.pc \in {"seq", "inc", "ts", "add"} => OwbMediaFraming(send.codec).rtp

\* Frames, packets and channels are of sessions there have been; a channel is
\* the current session's, and there is none while the indication is under way.
SessionInv ==
  /\ channel # 0 => channel = sessions
  /\ ind # "none" => channel = 0
  /\ send.born <= sessions
  /\ sink.session <= sessions
  /\ sink.last.clock.born <= sessions

\* A frame that has not been numbered, and one that has not been timed.
Unnumbered == send.pc \in {"seq", "inc"}
Untimed    == send.pc \in {"seq", "inc", "ts", "add"}

\* The history is ahead of the counters by the frame under way.
HistoryInv ==
  /\ Untimed => /\ pos.n = (send.n + 1) % SeqSize
                /\ pos.pcm = (send.at + send.pcm) % TsSize
  /\ Untimed /\ send.born = sessions /\ pos.fits => Fits(send)

\* The packets and the PCM that the counters stand for now.
Numbered == IF Unnumbered THEN send.n ELSE pos.n
Timed    == IF Untimed THEN send.at ELSE pos.pcm

\* A header made with these counters in the session that is on.
Current(c) == c.rtp /\ c.born = sessions

\* The counters are as far ahead of c's as the history is.
SeqFollows(c) == Ahead(c.seq, c.n, SeqSize) = Ahead(RtpSeqNum, Numbered, SeqSize)
TsFollows(c)  == Ahead(c.ts, c.at, TsSize) = Ahead(RtpTimestamp, Timed, TsSize)

\* While the link is up, for the last packet and for the one under way, as far
\* as its header is written.  A frame of an earlier session that is still under
\* way disturbs the counters only before there is a packet of this one.
ClockInv ==
  channel # 0 =>
    /\ Current(sink.last.clock) =>
         /\ SeqFollows(sink.last.clock)
         /\ pos.fits => TsFollows(sink.last.clock)
         /\ Untimed => send.born = sessions
    /\ send.born = sessions =>
         /\ send.pc = "inc" => send.seq = RtpSeqNum
         /\ send.pc \in {"inc", "ts", "add"} => SeqFollows(send)
         /\ send.pc = "add" => send.ts = RtpTimestamp
    /\ send.pc = "submit" /\ OwbMediaFraming(send.codec).rtp /\ send.born = sessions =>
         /\ SeqFollows(send)
         /\ pos.fits => TsFollows(send)

IndInv ==
  /\ TypeOK /\ FrameInv /\ SessionInv /\ HistoryInv /\ ClockInv
  /\ PacketsDecode /\ TimestampsFollow

-----------------------------------------------------------------------------
(* Init and the steps.                                                     *)

LEMMA Framings ==
  ASSUME NEW c \in Codecs
  PROVE  /\ OwbMediaFraming(c).rtp \in BOOLEAN
         /\ OwbMediaFraming(c).rtp <=> c # "APTX"
         /\ OwbMediaFraming(c).header <=> c \in {"SBC", "LDAC"}
         /\ OwbMediaFraming(c).ts \in Nat
         /\ OwbMediaFraming(c).ts = IF c = "APTX" THEN 0 ELSE IF c = "AAC" THEN 1024
                                    ELSE IF c = "LC3" THEN 480 ELSE 128
<1> DEFINE f == OwbMediaFraming(c)
<1>1. CASE c = "APTX"
  <2>1. f = [rtp |-> FALSE, header |-> FALSE, ts |-> 0]
    BY <1>1 DEF OwbMediaFraming
  <2>2. f.rtp = FALSE /\ f.header = FALSE /\ f.ts = 0
    BY <2>1
  <2>3. f.rtp \in BOOLEAN /\ (f.rtp <=> c # "APTX")
    BY <1>1, <2>2
  <2>4. f.header <=> c \in {"SBC", "LDAC"}
    BY <1>1, <2>2
  <2>5. QED
    BY <1>1, <2>2, <2>3, <2>4
<1>2. CASE c = "AAC"
  <2>1. f = [rtp |-> TRUE, header |-> FALSE, ts |-> 1024]
    BY <1>2 DEF OwbMediaFraming
  <2>2. f.rtp = TRUE /\ f.header = FALSE /\ f.ts = 1024
    BY <2>1
  <2>3. f.rtp \in BOOLEAN /\ (f.rtp <=> c # "APTX")
    BY <1>2, <2>2
  <2>4. f.header <=> c \in {"SBC", "LDAC"}
    BY <1>2, <2>2
  <2>5. QED
    BY <1>2, <2>2, <2>3, <2>4
<1>3. CASE c = "LC3"
  <2>1. f = [rtp |-> TRUE, header |-> FALSE, ts |-> 480]
    BY <1>3 DEF OwbMediaFraming
  <2>2. f.rtp = TRUE /\ f.header = FALSE /\ f.ts = 480
    BY <2>1
  <2>3. f.rtp \in BOOLEAN /\ (f.rtp <=> c # "APTX")
    BY <1>3, <2>2
  <2>4. f.header <=> c \in {"SBC", "LDAC"}
    BY <1>3, <2>2
  <2>5. QED
    BY <1>3, <2>2, <2>3, <2>4
<1>4. CASE c = "SBC" \/ c = "LDAC"
  <2>1. f = [rtp |-> TRUE, header |-> TRUE, ts |-> 128]
    BY <1>4 DEF OwbMediaFraming
  <2>2. QED
    BY <1>4, <2>1
<1>5. QED
  BY <1>1, <1>2, <1>3, <1>4 DEF Codecs

LEMMA Sizes ==
  /\ SeqSize \in Nat /\ SeqSize > 0 /\ TsSize \in Nat /\ TsSize > 0
  /\ 0 \in Counts /\ 0 \in Times
  /\ \A x \in Nat : x % SeqSize \in Counts /\ x % TsSize \in Times
<1>1. SeqSize \in Nat /\ SeqSize > 0 /\ TsSize \in Nat /\ TsSize > 0
  BY SizesAssumption
<1>2. \A x \in Nat : x % SeqSize \in 0..(SeqSize - 1) /\ x % TsSize \in 0..(TsSize - 1)
  BY SizesAssumption, ModInRange
<1>3. QED
  BY <1>1, <1>2 DEF Counts, Times

LEMMA NewEncoder ==
  ASSUME NEW c, NEW e \in NewEncoders(c)
  PROVE  e \in Encoders
<1>1. PICK b : b = IF c = "AAC" THEN BOOLEAN ELSE {TRUE}
  OBVIOUS
<1>2. e \in [ready : b, size : {128}, held : {0}]
  BY <1>1 DEF NewEncoders
<1>3. e = [ready |-> e.ready, size |-> 128, held |-> 0] /\ e.ready \in b
  BY <1>2
<1>4. e.ready \in BOOLEAN
  BY <1>1, <1>3
<1>5. QED
  BY <1>3, <1>4 DEF Encoders

LEMMA EncoderKept ==
  ASSUME NEW e \in Encoders, NEW k \in Nat
  PROVE  /\ e.size \in Nat /\ e.held \in Nat
         /\ [e EXCEPT !.size = k] \in Encoders /\ [e EXCEPT !.held = k] \in Encoders
BY DEF Encoders

LEMMA InitIndInv == Init => IndInv
<1> SUFFICES ASSUME Init PROVE IndInv
  OBVIOUS
<1>1. enc \in Encoders
  BY NewEncoder DEF Init
<1>2. << >> \in Seq(Octets) /\ << >> \in Seq({0, 1})
  OBVIOUS
<1>3. NoClock \in Clocks
  BY Sizes DEF NoClock, Clocks
<1>4. TypeOK
  BY <1>1, <1>2, <1>3, Sizes DEF Init, TypeOK, Sends, Packets, Idle, NoPacket, Codecs
<1>5. FrameInv /\ HistoryInv
  BY DEF Init, FrameInv, HistoryInv, Untimed, Idle
<1>6. SessionInv
  BY DEF Init, SessionInv, Idle, NoPacket, NoClock
<1>7. ClockInv
  BY DEF Init, ClockInv
<1>8. PacketsDecode
  BY DEF Init, PacketsDecode, NoPacket
<1>9. TimestampsFollow
  BY DEF Init, TimestampsFollow, NoClock
<1>10. QED
  BY <1>4, <1>5, <1>6, <1>7, <1>8, <1>9 DEF IndInv

\* What the frame under way, the link and the history say of the packets, but
\* for the codec of the service.
LEMMA Unmoved ==
  ASSUME IndInv, UNCHANGED <<send, rtpVars, channel, ind, sessions, pos, sink>>
  PROVE  FrameInv' /\ SessionInv' /\ HistoryInv' /\ ClockInv' /\ PacketsDecode' /\ TimestampsFollow'
<1>1. UNCHANGED <<send, RtpSeqNum, RtpTimestamp, channel, ind, sessions, pos, sink>>
  BY DEF rtpVars
<1>2. /\ FrameInv /\ SessionInv /\ HistoryInv /\ ClockInv /\ PacketsDecode /\ TimestampsFollow
  BY DEF IndInv
<1>3. FrameInv'
  BY <1>1, <1>2 DEF FrameInv
<1>4. SessionInv'
  BY <1>1, <1>2 DEF SessionInv
<1>5. HistoryInv'
  BY <1>1, <1>2 DEF HistoryInv, Untimed
<1>6. ClockInv'
  BY <1>1, <1>2 DEF ClockInv, Current, SeqFollows, TsFollows, Numbered, Timed, Unnumbered, Untimed
<1>7. PacketsDecode'
  BY <1>1, <1>2 DEF PacketsDecode
<1>8. TimestampsFollow'
  BY <1>1, <1>2 DEF TimestampsFollow
<1>9. QED
  BY <1>3, <1>4, <1>5, <1>6, <1>7, <1>8

LEMMA StepRebuild ==
  ASSUME IndInv, NEW c \in Codecs, rebuild_codec(c)
  PROVE  IndInv'
<1>1. TypeOK'
  BY NewEncoder DEF IndInv, TypeOK, rebuild_codec, rtpVars, linkVars
<1>2. QED
  BY <1>1, Unmoved DEF IndInv, rebuild_codec, linkVars

LEMMA StepSetParam ==
  ASSUME IndInv, set_param
  PROVE  IndInv'
<1>1. enc' \in Encoders
  <2>1. enc \in Encoders
    BY DEF IndInv, TypeOK
  <2>2. CASE \E k \in SbcSizes : enc' = [enc EXCEPT !.size = k]
    BY <2>1, <2>2, EncoderKept, SizesAssumption
  <2>3. CASE enc' \in NewEncoders(codec)
    BY <2>3, NewEncoder
  <2>4. QED
    BY <2>2, <2>3 DEF set_param
<1>2. TypeOK'
  BY <1>1 DEF IndInv, TypeOK, set_param, rtpVars, linkVars
<1>3. QED
  BY <1>2, Unmoved DEF IndInv, set_param, linkVars

-----------------------------------------------------------------------------
(* The encoder hands a frame over.                                         *)

LEMMA FrameValue ==
  ASSUME NEW pcm, NEW count, NEW au
  PROVE  Frame(pcm, count, au) =
           [pc |-> "check", codec |-> codec, pcm |-> pcm, count |-> count, au |-> au,
            body |-> IF codec = "AAC" THEN latm_pack(Asc, au) ELSE << >>,
            born |-> 0, n |-> 0, at |-> 0, seq |-> 0, ts |-> 0]
<1>1. PICK b : b = IF codec = "AAC" THEN latm_pack(Asc, au) ELSE << >>
  OBVIOUS
<1>2. Frame(pcm, count, au) =
        [Idle EXCEPT !.pc = "check", !.codec = codec, !.pcm = pcm, !.count = count,
                     !.au = au, !.body = b]
  BY <1>1, Zenon DEF Frame
<1>3. Frame(pcm, count, au) =
        [pc |-> "check", codec |-> codec, pcm |-> pcm, count |-> count, au |-> au,
         body |-> b, born |-> 0, n |-> 0, at |-> 0, seq |-> 0, ts |-> 0]
  BY <1>2 DEF Idle
<1>4. QED
  BY <1>1, <1>3, Zenon

LEMMA AuOctets ==
  ASSUME NEW n \in Nat
  PROVE  Au(n) \in Seq(Octets)
<1>1. PICK m \in Nat : m = Escape + 1 /\ m > 0
  BY EscapeFacts
<1>2. ASSUME NEW i \in 1..n PROVE (i + n) % m \in 0..Escape
  <2>1. i + n \in Nat
    OBVIOUS
  <2>2. (i + n) % m \in 0..(m - 1)
    BY <1>1, <2>1, ModInRange
  <2>3. QED
    BY <1>1, <2>2, EscapeFacts
<1>3. Au(n) = [i \in 1..n |-> (i + n) % m]
  BY <1>1 DEF Au
<1>4. QED
  BY <1>2, <1>3 DEF Octets

\* The frame there may be after Encode.
NewFrame(f) ==
  \E pcm \in Nat, count \in Nat, au \in Seq(Octets) :
     /\ f = Frame(pcm, count, au)
     /\ codec = "AAC" => pcm = 1024
     /\ codec = "LC3" => pcm = 480
     /\ codec = "SBC" => count = 1

LEMMA Encoded ==
  ASSUME TypeOK, Encode
  PROVE  /\ enc' \in Encoders
         /\ \/ UNCHANGED <<send, frames>>
            \/ NewFrame(send') /\ frames' = frames + 1
<1> DEFINE Out == /\ enc' \in Encoders
                  /\ \/ UNCHANGED <<send, frames>>
                     \/ NewFrame(send') /\ frames' = frames + 1
<1>1. /\ codec \in Codecs /\ enc \in Encoders
      /\ enc.size \in Nat /\ enc.held \in Nat /\ enc.held + 1 \in Nat
  <2>1. codec \in Codecs /\ enc \in Encoders
    BY DEF TypeOK
  <2>2. enc.size \in Nat /\ enc.held \in Nat
    BY <2>1, EncoderKept
  <2>3. QED
    BY <2>1, <2>2
<1>2. << >> \in Seq(Octets)
  OBVIOUS
<1>3. ASSUME NEW pcm \in Nat, EncodeOne(pcm), codec # "AAC", codec = "LC3" => pcm = 480
      PROVE  Out
  <2>1. CASE Nothing
    BY <1>1, <1>3, <2>1 DEF EncodeOne, Nothing
  <2>2. CASE Handed(Frame(pcm, 1, << >>))
    <3>1. NewFrame(Frame(pcm, 1, << >>))
      <4>1. PICK au \in Seq(Octets) : au = << >>
        BY <1>2, Zenon
      <4>2. PICK one \in Nat : one = 1
        OBVIOUS
      <4>3. NewFrame(Frame(pcm, one, au))
        BY <1>3, <4>2 DEF NewFrame
      <4>4. QED
        BY <4>1, <4>2, <4>3, Zenon
    <3>2. QED
      BY <1>1, <1>3, <2>2, <3>1 DEF EncodeOne, Handed
  <2>3. QED
    BY <1>3, <2>1, <2>2 DEF EncodeOne
<1>4. ASSUME codec = "LDAC", EncodeLdac PROVE Out
  <2>1. CASE enc.held < 1 /\ enc' = [enc EXCEPT !.held = @ + 1] /\ Nothing
    BY <1>1, <2>1, EncoderKept, Zenon DEF Nothing
  <2>2. CASE /\ enc' = [enc EXCEPT !.held = 0]
             /\ Handed(Frame((enc.held + 1) * 128, enc.held + 1, << >>))
    <3>1. PICK count \in Nat, pcm \in Nat : count = enc.held + 1 /\ pcm = (enc.held + 1) * 128
      BY <1>1
    <3>2. NewFrame(send') /\ frames' = frames + 1
      BY <1>2, <1>4, <2>2, <3>1 DEF Handed, NewFrame
    <3>3. QED
      BY <1>1, <2>2, <3>2, EncoderKept
  <2>3. QED
    BY <1>4, <2>1, <2>2 DEF EncodeLdac
<1>5. ASSUME codec = "AAC", EncodeAac PROVE Out
  <2>1. CASE UNCHANGED enc /\ Nothing
    BY <1>1, <2>1 DEF Nothing
  <2>2. CASE enc' = [enc EXCEPT !.held = @ + 1] /\ Nothing
    BY <1>1, <2>2, EncoderKept, Zenon DEF Nothing
  <2>3. ASSUME UNCHANGED enc, NEW n \in AuSizes, Handed(Frame(1024, 1, Au(n)))
        PROVE  Out
    <3>1. Au(n) \in Seq(Octets)
      BY AuOctets, SizesAssumption
    <3>2. NewFrame(send') /\ frames' = frames + 1
      BY <1>5, <2>3, <3>1 DEF Handed, NewFrame
    <3>3. QED
      BY <1>1, <2>3, <3>2
  <2> HIDE DEF Out
  <2>4. QED
    BY <1>5, <2>1, <2>2, <2>3 DEF EncodeAac
<1>6. /\ codec = "SBC"  => EncodeOne(enc.size)
      /\ codec = "LC3"  => EncodeOne(480)
      /\ codec = "APTX" => EncodeOne(4)
      /\ codec = "LDAC" => EncodeLdac
      /\ codec = "AAC"  => EncodeAac
  BY DEF Encode
<1> HIDE DEF Out
<1>7. Out
  BY <1>1, <1>3, <1>4, <1>5, <1>6 DEF Codecs
<1>8. QED
  BY <1>7 DEF Out

LEMMA StepEncode ==
  ASSUME IndInv, Encode
  PROVE  IndInv'
<1>1. TypeOK /\ FrameInv /\ SessionInv /\ HistoryInv /\ ClockInv /\ PacketsDecode /\ TimestampsFollow
  BY DEF IndInv
<1>2. /\ send = Idle
      /\ UNCHANGED <<codec, changes, RtpSeqNum, RtpTimestamp>>
      /\ UNCHANGED <<state, channel, ind, sessions, pos, sink>>
  BY DEF Encode, rtpVars, linkVars
<1>3. enc' \in Encoders
  BY <1>1, Encoded
<1>4. CASE UNCHANGED <<send, frames>>
  <2>1. TypeOK'
    BY <1>1, <1>2, <1>3, <1>4 DEF TypeOK
  <2>2. QED
    BY <1>2, <1>4, <2>1, Unmoved DEF IndInv, rtpVars
<1>5. CASE NewFrame(send') /\ frames' = frames + 1
  <2>1. PICK pcm \in Nat, count \in Nat, au \in Seq(Octets) :
            /\ send' = Frame(pcm, count, au)
            /\ codec = "AAC" => pcm = 1024
            /\ codec = "LC3" => pcm = 480
            /\ codec = "SBC" => count = 1
    BY <1>5 DEF NewFrame
  <2>2. PICK body \in Seq({0, 1}) : body = IF codec = "AAC" THEN latm_pack(Asc, au) ELSE << >>
    <3>1. latm_pack(Asc, au) \in Seq({0, 1}) /\ << >> \in Seq({0, 1})
      BY RoundTrip
    <3>2. QED
      BY <3>1
  <2>3. send' = [pc |-> "check", codec |-> codec, pcm |-> pcm, count |-> count, au |-> au,
                 body |-> body, born |-> 0, n |-> 0, at |-> 0, seq |-> 0, ts |-> 0]
    BY <2>1, <2>2, FrameValue
  <2>4. TypeOK'
    <3>1. codec \in Codecs
      BY <1>1 DEF TypeOK
    <3>2. send' \in Sends
      BY <2>3, <3>1, Sizes DEF Sends
    <3>3. QED
      BY <1>1, <1>2, <1>3, <1>5, <3>2 DEF TypeOK
  <2>5. /\ send'.pc = "check" /\ send'.codec = codec /\ send'.pcm = pcm /\ send'.count = count
        /\ send'.au = au /\ send'.body = body /\ send'.born = 0
    BY <2>3
  <2>6. send.pc = "idle"
    BY <1>2 DEF Idle
  <2>7. FrameInv'
    <3>1. codec \in Codecs
      BY <1>1 DEF TypeOK
    <3>2. QED
      BY <2>1, <2>2, <2>5, <3>1 DEF FrameInv
  <2>8. SessionInv'
    BY <1>1, <1>2, <2>5 DEF SessionInv, TypeOK
  <2>9. HistoryInv'
    BY <2>5 DEF HistoryInv, Untimed
  <2>10. ClockInv'
    BY <1>1, <1>2, <2>5, <2>6
       DEF ClockInv, Current, SeqFollows, TsFollows, Numbered, Timed, Unnumbered, Untimed
  <2>11. PacketsDecode' /\ TimestampsFollow'
    BY <1>1, <1>2 DEF PacketsDecode, TimestampsFollow
  <2>12. QED
    BY <2>4, <2>7, <2>8, <2>9, <2>10, <2>11 DEF IndInv
<1>6. QED
  BY <1>1, <1>4, <1>5, Encoded

-----------------------------------------------------------------------------
(* The driver sends it.                                                    *)

LEMMA FieldTypes ==
  ASSUME TypeOK
  PROVE  /\ send.codec \in Codecs \cup {"none"} /\ send.pcm \in Nat /\ send.count \in Nat
         /\ send.au \in Seq(Octets) /\ send.body \in Seq({0, 1}) /\ send.born \in Nat
         /\ send.n \in Counts /\ send.at \in Times /\ send.seq \in Counts /\ send.ts \in Times
         /\ pos.n \in Counts /\ pos.pcm \in Times /\ pos.fits \in BOOLEAN
         /\ sink.session \in Nat /\ sink.prev \in Clocks /\ sink.last.clock \in Clocks
         /\ RtpSeqNum \in Counts /\ RtpTimestamp \in Times /\ sessions \in Nat
BY DEF TypeOK, Sends, Packets

LEMMA ClockTypes ==
  ASSUME NEW c \in Clocks
  PROVE  c.rtp \in BOOLEAN /\ c.born \in Nat /\ c.seq \in Counts /\ c.ts \in Times
         /\ c.n \in Counts /\ c.at \in Times
BY DEF Clocks

\* An advanced counter stays within its width.
LEMMA SumInRange ==
  /\ \A a \in Counts : (a + 1) % SeqSize \in Counts
  /\ \A a \in Times, k \in Nat : (a + k) % TsSize \in Times
<1>1. Counts \subseteq Nat /\ Times \subseteq Nat
  BY Sizes DEF Counts, Times
<1>2. /\ \A a \in Counts : a + 1 \in Nat
      /\ \A a \in Times, k \in Nat : a + k \in Nat
  BY <1>1
<1>3. QED
  BY <1>2, Sizes, Zenon

\* The two counters as AheadShift and AheadSwap are stated for them.
LEMMA SeqShift ==
  ASSUME NEW a \in Counts, NEW b \in Counts
  PROVE  Ahead((a + 1) % SeqSize, (b + 1) % SeqSize, SeqSize) = Ahead(a, b, SeqSize)
BY AheadShift, Sizes DEF Counts

LEMMA TsShift ==
  ASSUME NEW a \in Times, NEW b \in Times, NEW k \in Nat
  PROVE  Ahead((a + k) % TsSize, (b + k) % TsSize, TsSize) = Ahead(a, b, TsSize)
BY AheadShift, Sizes DEF Times

LEMMA SeqSwap ==
  ASSUME NEW a \in Counts, NEW b \in Counts, NEW c \in Counts, NEW d \in Counts,
         Ahead(a, b, SeqSize) = Ahead(c, d, SeqSize)
  PROVE  Ahead(a, c, SeqSize) = Ahead(b, d, SeqSize)
BY AheadSwap, Sizes DEF Counts

LEMMA TsSwap ==
  ASSUME NEW a \in Times, NEW b \in Times, NEW c \in Times, NEW d \in Times,
         Ahead(a, b, TsSize) = Ahead(c, d, TsSize)
  PROVE  Ahead(a, c, TsSize) = Ahead(b, d, TsSize)
BY AheadSwap, Sizes DEF Times

LEMMA IdleIsSend == Idle \in Sends
<1>1. << >> \in Seq(Octets) /\ << >> \in Seq({0, 1})
  OBVIOUS
<1>2. QED
  BY <1>1, Sizes DEF Idle, Sends

\* The frame is given up, or has nothing more to do with the counters.
LEMMA Dropped ==
  ASSUME IndInv, send.pc \in {"check", "submit"}, send' = Idle, SendFrame,
         UNCHANGED <<rtpVars, pos, sink>>
  PROVE  IndInv'
<1>1. TypeOK /\ FrameInv /\ SessionInv /\ HistoryInv /\ ClockInv /\ PacketsDecode /\ TimestampsFollow
  BY DEF IndInv
<1>2. /\ UNCHANGED <<codec, enc, changes, RtpSeqNum, RtpTimestamp, frames>>
      /\ UNCHANGED <<state, channel, ind, sessions, pos, sink>>
  BY DEF SendFrame, serviceVars, linkVars, rtpVars
<1>3. send'.pc = "idle" /\ send'.born = 0
  BY DEF Idle
<1>4. TypeOK'
  BY <1>1, <1>2, IdleIsSend DEF TypeOK
<1>5. FrameInv' /\ HistoryInv'
  BY <1>3 DEF FrameInv, HistoryInv, Untimed
<1>6. SessionInv'
  BY <1>1, <1>2, <1>3, FieldTypes DEF SessionInv
<1>7. ClockInv'
  BY <1>1, <1>2, <1>3
     DEF ClockInv, Current, SeqFollows, TsFollows, Numbered, Timed, Unnumbered, Untimed
<1>8. PacketsDecode' /\ TimestampsFollow'
  BY <1>1, <1>2 DEF PacketsDecode, TimestampsFollow
<1>9. QED
  BY <1>4, <1>5, <1>6, <1>7, <1>8 DEF IndInv

LEMMA StepSendCheck ==
  ASSUME IndInv, SendCheck
  PROVE  IndInv'
<1>1. TypeOK /\ FrameInv /\ SessionInv /\ HistoryInv /\ ClockInv /\ PacketsDecode /\ TimestampsFollow
  BY DEF IndInv
<1>2. /\ send.pc = "check"
      /\ UNCHANGED <<codec, enc, changes, RtpSeqNum, RtpTimestamp, frames>>
      /\ UNCHANGED <<state, channel, ind, sessions, sink>>
  BY DEF SendCheck, SendFrame, serviceVars, linkVars, rtpVars
<1>3. CASE send' = Idle /\ UNCHANGED pos
  BY <1>2, <1>3, Dropped DEF SendCheck
<1>4. PacketsDecode' /\ TimestampsFollow'
  BY <1>1, <1>2 DEF PacketsDecode, TimestampsFollow
<1>5. CASE /\ OwbMediaFraming(send.codec).rtp
           /\ send' = [send EXCEPT !.pc = "seq", !.born = sessions, !.n = pos.n, !.at = pos.pcm]
           /\ pos' = [n |-> (pos.n + 1) % SeqSize, pcm |-> (pos.pcm + send.pcm) % TsSize,
                      fits |-> pos.fits /\ Fits(send)]
  <2>1. /\ send' \in Sends /\ send'.pc = "seq" /\ send'.born = sessions
        /\ send'.n = pos.n /\ send'.at = pos.pcm
        /\ send'.codec = send.codec /\ send'.pcm = send.pcm /\ send'.count = send.count
        /\ send'.au = send.au /\ send'.body = send.body
    BY <1>1, <1>5, FieldTypes DEF TypeOK, Sends
  <2>2. /\ (pos.n + 1) % SeqSize \in Counts /\ (pos.pcm + send.pcm) % TsSize \in Times
    BY <1>1, FieldTypes, SumInRange
  <2>3. /\ pos' \in [n : Counts, pcm : Times, fits : BOOLEAN]
        /\ pos'.n = (pos.n + 1) % SeqSize /\ pos'.pcm = (pos.pcm + send.pcm) % TsSize
        /\ pos'.fits = (pos.fits /\ Fits(send))
    BY <1>5, <2>2
  <2>4. TypeOK'
    BY <1>1, <1>2, <2>1, <2>3 DEF TypeOK
  <2>5. FrameInv'
    BY <1>1, <1>2, <1>5, <2>1 DEF FrameInv
  <2>6. SessionInv'
    BY <1>1, <1>2, <2>1, FieldTypes DEF SessionInv
  <2>7. HistoryInv'
    BY <2>1, <2>3 DEF HistoryInv, Untimed, Fits
  <2>8. ClockInv'
    BY <1>1, <1>2, <2>1, <2>3
       DEF ClockInv, Current, SeqFollows, TsFollows, Numbered, Timed, Unnumbered, Untimed
  <2>9. QED
    BY <1>4, <2>4, <2>5, <2>6, <2>7, <2>8 DEF IndInv
<1>6. CASE /\ ~OwbMediaFraming(send.codec).rtp
           /\ send' = [send EXCEPT !.pc = "submit"] /\ UNCHANGED pos
  <2>1. /\ send' \in Sends /\ send'.pc = "submit" /\ send'.born = send.born
        /\ send'.codec = send.codec /\ send'.pcm = send.pcm /\ send'.count = send.count
        /\ send'.au = send.au /\ send'.body = send.body
    BY <1>1, <1>6 DEF TypeOK, Sends
  <2>2. TypeOK'
    BY <1>1, <1>2, <1>6, <2>1 DEF TypeOK
  <2>3. FrameInv'
    BY <1>1, <1>2, <2>1 DEF FrameInv
  <2>4. SessionInv'
    BY <1>1, <1>2, <2>1 DEF SessionInv
  <2>5. HistoryInv'
    BY <2>1 DEF HistoryInv, Untimed
  <2>6. ClockInv'
    BY <1>1, <1>2, <1>6, <2>1
       DEF ClockInv, Current, SeqFollows, TsFollows, Numbered, Timed, Unnumbered, Untimed
  <2>7. QED
    BY <1>4, <2>2, <2>3, <2>4, <2>5, <2>6 DEF IndInv
<1>7. QED
  BY <1>3, <1>5, <1>6 DEF SendCheck

LEMMA StepLoadSeq ==
  ASSUME IndInv, LoadSeq
  PROVE  IndInv'
<1>1. TypeOK /\ FrameInv /\ SessionInv /\ HistoryInv /\ ClockInv /\ PacketsDecode /\ TimestampsFollow
  BY DEF IndInv
<1>2. /\ send.pc = "seq" /\ send' = [send EXCEPT !.pc = "inc", !.seq = RtpSeqNum]
      /\ UNCHANGED <<codec, enc, changes, RtpSeqNum, RtpTimestamp, frames>>
      /\ UNCHANGED <<state, channel, ind, sessions, pos, sink>>
  BY DEF LoadSeq, SendFrame, serviceVars, linkVars, rtpVars
<1>3. /\ send' \in Sends /\ send'.pc = "inc" /\ send'.seq = RtpSeqNum
      /\ send'.born = send.born /\ send'.n = send.n /\ send'.at = send.at
      /\ send'.codec = send.codec /\ send'.pcm = send.pcm /\ send'.count = send.count
      /\ send'.au = send.au /\ send'.body = send.body
  BY <1>1, <1>2, FieldTypes DEF TypeOK, Sends
<1>4. TypeOK'
  BY <1>1, <1>2, <1>3 DEF TypeOK
<1>5. FrameInv'
  BY <1>1, <1>2, <1>3 DEF FrameInv
<1>6. SessionInv'
  BY <1>1, <1>2, <1>3 DEF SessionInv
<1>7. HistoryInv'
  BY <1>1, <1>2, <1>3 DEF HistoryInv, Untimed, Fits
<1>8. ClockInv'
  BY <1>1, <1>2, <1>3
     DEF ClockInv, Current, SeqFollows, TsFollows, Numbered, Timed, Unnumbered, Untimed
<1>9. PacketsDecode' /\ TimestampsFollow'
  BY <1>1, <1>2 DEF PacketsDecode, TimestampsFollow
<1>10. QED
  BY <1>4, <1>5, <1>6, <1>7, <1>8, <1>9 DEF IndInv

LEMMA StepStoreSeq ==
  ASSUME IndInv, StoreSeq
  PROVE  IndInv'
<1>1. TypeOK /\ FrameInv /\ SessionInv /\ HistoryInv /\ ClockInv /\ PacketsDecode /\ TimestampsFollow
  BY DEF IndInv
<1>2. /\ send.pc = "inc" /\ send' = [send EXCEPT !.pc = "ts"]
      /\ RtpSeqNum' = (send.seq + 1) % SeqSize
      /\ UNCHANGED <<codec, enc, changes, RtpTimestamp, frames>>
      /\ UNCHANGED <<state, channel, ind, sessions, pos, sink>>
  BY DEF StoreSeq, SendFrame, serviceVars, linkVars
<1>3. /\ send' \in Sends /\ send'.pc = "ts" /\ send'.seq = send.seq
      /\ send'.born = send.born /\ send'.n = send.n /\ send'.at = send.at
      /\ send'.codec = send.codec /\ send'.pcm = send.pcm /\ send'.count = send.count
      /\ send'.au = send.au /\ send'.body = send.body
  BY <1>1, <1>2 DEF TypeOK, Sends
<1>4. RtpSeqNum' \in Counts
  BY <1>1, <1>2, FieldTypes, SumInRange
<1>5. TypeOK'
  BY <1>1, <1>2, <1>3, <1>4 DEF TypeOK
<1>6. FrameInv'
  BY <1>1, <1>2, <1>3 DEF FrameInv
<1>7. SessionInv'
  BY <1>1, <1>2, <1>3 DEF SessionInv
<1>8. HistoryInv'
  BY <1>1, <1>2, <1>3 DEF HistoryInv, Untimed, Fits
<1>9. ASSUME send.seq = RtpSeqNum
      PROVE  Ahead(RtpSeqNum', Numbered', SeqSize) = Ahead(RtpSeqNum, Numbered, SeqSize)
  <2>1. Numbered' = pos.n /\ Numbered = send.n /\ pos.n = (send.n + 1) % SeqSize
    BY <1>1, <1>2, <1>3 DEF Numbered, Unnumbered, HistoryInv, Untimed
  <2>2. QED
    BY <1>1, <1>2, <1>9, <2>1, FieldTypes, SeqShift
<1>10. ClockInv'
  <2> SUFFICES ASSUME channel # 0 PROVE ClockInv'
    BY <1>2 DEF ClockInv
  <2>1. ASSUME Current(sink.last.clock)
        PROVE  /\ SeqFollows(sink.last.clock)'
               /\ pos.fits => TsFollows(sink.last.clock)'
               /\ send.born = sessions
    <3>1. send.born = sessions /\ send.seq = RtpSeqNum
      BY <1>1, <1>2, <2>1 DEF ClockInv, Untimed
    <3>2. SeqFollows(sink.last.clock)'
      BY <1>1, <1>2, <1>9, <2>1, <3>1 DEF ClockInv, SeqFollows
    <3>3. pos.fits => TsFollows(sink.last.clock)'
      BY <1>1, <1>2, <1>3, <2>1 DEF ClockInv, TsFollows, Timed, Untimed
    <3>4. QED
      BY <3>1, <3>2, <3>3
  <2>2. ASSUME send.born = sessions PROVE SeqFollows(send)'
    <3>1. send.seq = RtpSeqNum /\ SeqFollows(send)
      BY <1>1, <1>2, <2>2 DEF ClockInv
    <3>2. QED
      BY <1>2, <1>3, <1>9, <3>1 DEF SeqFollows
  <2>3. QED
    BY <1>2, <1>3, <2>1, <2>2 DEF ClockInv, Current, Untimed
<1>11. PacketsDecode' /\ TimestampsFollow'
  BY <1>1, <1>2 DEF PacketsDecode, TimestampsFollow
<1>12. QED
  BY <1>5, <1>6, <1>7, <1>8, <1>10, <1>11 DEF IndInv

LEMMA StepLoadTs ==
  ASSUME IndInv, LoadTs
  PROVE  IndInv'
<1>1. TypeOK /\ FrameInv /\ SessionInv /\ HistoryInv /\ ClockInv /\ PacketsDecode /\ TimestampsFollow
  BY DEF IndInv
<1>2. /\ send.pc = "ts" /\ send' = [send EXCEPT !.pc = "add", !.ts = RtpTimestamp]
      /\ UNCHANGED <<codec, enc, changes, RtpSeqNum, RtpTimestamp, frames>>
      /\ UNCHANGED <<state, channel, ind, sessions, pos, sink>>
  BY DEF LoadTs, SendFrame, serviceVars, linkVars, rtpVars
<1>3. /\ send' \in Sends /\ send'.pc = "add" /\ send'.ts = RtpTimestamp
      /\ send'.born = send.born /\ send'.n = send.n /\ send'.at = send.at
      /\ send'.seq = send.seq
      /\ send'.codec = send.codec /\ send'.pcm = send.pcm /\ send'.count = send.count
      /\ send'.au = send.au /\ send'.body = send.body
  BY <1>1, <1>2, FieldTypes DEF TypeOK, Sends
<1>4. TypeOK'
  BY <1>1, <1>2, <1>3 DEF TypeOK
<1>5. FrameInv'
  BY <1>1, <1>2, <1>3 DEF FrameInv
<1>6. SessionInv'
  BY <1>1, <1>2, <1>3 DEF SessionInv
<1>7. HistoryInv'
  BY <1>1, <1>2, <1>3 DEF HistoryInv, Untimed, Fits
<1>8. ClockInv'
  BY <1>1, <1>2, <1>3
     DEF ClockInv, Current, SeqFollows, TsFollows, Numbered, Timed, Unnumbered, Untimed
<1>9. PacketsDecode' /\ TimestampsFollow'
  BY <1>1, <1>2 DEF PacketsDecode, TimestampsFollow
<1>10. QED
  BY <1>4, <1>5, <1>6, <1>7, <1>8, <1>9 DEF IndInv

LEMMA StepStoreTs ==
  ASSUME IndInv, StoreTs
  PROVE  IndInv'
<1>1. TypeOK /\ FrameInv /\ SessionInv /\ HistoryInv /\ ClockInv /\ PacketsDecode /\ TimestampsFollow
  BY DEF IndInv
<1>2. /\ send.pc = "add" /\ send' = [send EXCEPT !.pc = "submit"]
      /\ UNCHANGED <<codec, enc, changes, RtpSeqNum, frames>>
      /\ UNCHANGED <<state, channel, ind, sessions, pos, sink>>
  BY DEF StoreTs, SendFrame, serviceVars, linkVars
<1>3. /\ send' \in Sends /\ send'.pc = "submit" /\ send'.seq = send.seq /\ send'.ts = send.ts
      /\ send'.born = send.born /\ send'.n = send.n /\ send'.at = send.at
      /\ send'.codec = send.codec /\ send'.pcm = send.pcm /\ send'.count = send.count
      /\ send'.au = send.au /\ send'.body = send.body
  BY <1>1, <1>2 DEF TypeOK, Sends
<1>4. send.codec \in Codecs
  BY <1>1, <1>2 DEF FrameInv
<1>5. PICK k \in Nat : k = OwbMediaFraming(send.codec).ts
  BY <1>4, Framings
<1>6. PICK t \in {send.ts, RtpTimestamp} : RtpTimestamp' = (t + k) % TsSize
  BY <1>5 DEF StoreTs
<1>7. RtpTimestamp' \in Times
  BY <1>1, <1>6, FieldTypes, SumInRange
<1>8. TypeOK'
  BY <1>1, <1>2, <1>3, <1>7 DEF TypeOK
<1>9. FrameInv'
  BY <1>1, <1>2, <1>3 DEF FrameInv
<1>10. SessionInv'
  BY <1>1, <1>2, <1>3 DEF SessionInv
<1>11. HistoryInv'
  BY <1>1, <1>2, <1>3 DEF HistoryInv, Untimed, Fits
<1>12. ASSUME Fits(send) PROVE send.pcm = k
  BY <1>1, <1>2, <1>4, <1>5, <1>12, Framings DEF FrameInv, Fits
<1>13. ASSUME send.ts = RtpTimestamp, Fits(send)
       PROVE  Ahead(RtpTimestamp', Timed', TsSize) = Ahead(RtpTimestamp, Timed, TsSize)
  <2>1. Timed' = pos.pcm /\ Timed = send.at /\ pos.pcm = (send.at + k) % TsSize
    BY <1>1, <1>2, <1>3, <1>12, <1>13 DEF Timed, HistoryInv, Untimed
  <2>2. RtpTimestamp' = (RtpTimestamp + k) % TsSize
    BY <1>6, <1>13
  <2>3. QED
    BY <1>1, <2>1, <2>2, FieldTypes, TsShift
<1>14. ClockInv'
  <2> SUFFICES ASSUME channel # 0 PROVE ClockInv'
    BY <1>2 DEF ClockInv
  <2>1. Numbered' = Numbered
    BY <1>2, <1>3 DEF Numbered, Unnumbered
  <2>2. ASSUME send.born = sessions PROVE send.ts = RtpTimestamp /\ (pos.fits => Fits(send))
    BY <1>1, <1>2, <2>2 DEF ClockInv, HistoryInv, Untimed
  <2>3. ASSUME Current(sink.last.clock)
        PROVE  /\ SeqFollows(sink.last.clock)'
               /\ pos.fits => TsFollows(sink.last.clock)'
    <3>1. send.born = sessions
      BY <1>1, <1>2, <2>3 DEF ClockInv, Untimed
    <3>2. SeqFollows(sink.last.clock)'
      BY <1>1, <1>2, <2>1, <2>3 DEF ClockInv, SeqFollows
    <3>3. ASSUME pos.fits PROVE TsFollows(sink.last.clock)'
      <4>1. TsFollows(sink.last.clock)
        BY <1>1, <2>3, <3>3 DEF ClockInv
      <4>2. QED
        BY <1>2, <1>13, <2>2, <3>1, <3>3, <4>1 DEF TsFollows
    <3>4. QED
      BY <3>2, <3>3
  <2>4. ASSUME send.born = sessions
        PROVE  /\ SeqFollows(send)'
               /\ pos.fits => TsFollows(send)'
    <3>1. SeqFollows(send)
      BY <1>1, <1>2, <2>4 DEF ClockInv
    <3>2. SeqFollows(send)'
      BY <1>2, <1>3, <2>1, <3>1 DEF SeqFollows
    <3>3. ASSUME pos.fits PROVE TsFollows(send)'
      <4>1. send.ts = RtpTimestamp /\ Fits(send) /\ Timed = send.at
        BY <1>2, <2>2, <2>4, <3>3 DEF Timed, Untimed
      <4>2. Ahead(send.ts, send.at, TsSize) = Ahead(RtpTimestamp', Timed', TsSize)
        BY <1>13, <4>1
      <4>3. QED
        BY <1>3, <4>2 DEF TsFollows
    <3>4. QED
      BY <3>2, <3>3
  <2>5. QED
    BY <1>2, <1>3, <2>3, <2>4 DEF ClockInv, Current, Untimed
<1>15. PacketsDecode' /\ TimestampsFollow'
  BY <1>1, <1>2 DEF PacketsDecode, TimestampsFollow
<1>16. QED
  BY <1>8, <1>9, <1>10, <1>11, <1>14, <1>15 DEF IndInv

\* The packet on the air, as the headset will take it apart.
LEMMA PacketRight ==
  ASSUME IndInv, send.pc = "submit"
  PROVE  /\ Packet \in Packets
         /\ Packet.fits = pos.fits
         /\ Packet.clock = [rtp |-> OwbMediaFraming(send.codec).rtp, born |-> send.born,
                            seq |-> send.seq, ts |-> send.ts, n |-> send.n, at |-> send.at]
         /\ Understood(Packet)
<1>1. TypeOK /\ FrameInv
  BY DEF IndInv
<1>2. PICK c \in Codecs : c = send.codec
  BY <1>1 DEF FrameInv
<1>3. PICK rtp \in BOOLEAN : rtp = OwbMediaFraming(c).rtp /\ (rtp <=> c # "APTX")
  BY Framings
<1>4. PICK h \in {0, 1} : /\ h = (IF OwbMediaFraming(c).header THEN 1 ELSE 0)
                          /\ h = IF c \in {"SBC", "LDAC"} THEN 1 ELSE 0
  BY Framings
<1>5. PICK k : k = [rtp |-> rtp, born |-> send.born, seq |-> send.seq, ts |-> send.ts,
                    n |-> send.n, at |-> send.at]
  OBVIOUS
<1>6. k \in Clocks /\ k.rtp = rtp
  BY <1>1, <1>5, FieldTypes DEF Clocks
<1>7. Packet = [codec |-> c, count |-> send.count, au |-> send.au, body |-> send.body,
                header |-> h, fits |-> pos.fits, clock |-> k]
  BY <1>2, <1>3, <1>4, <1>5, Zenon DEF Packet
<1>8. /\ Packet.codec = c /\ Packet.count = send.count /\ Packet.au = send.au
      /\ Packet.body = send.body /\ Packet.header = h /\ Packet.fits = pos.fits
      /\ Packet.clock = k
  BY <1>7
<1>9. Packet \in Packets
  BY <1>1, <1>6, <1>7, FieldTypes DEF Packets
<1>10. c = "AAC" => Decode(send.body) = send.au
  <2> SUFFICES ASSUME c = "AAC" PROVE Decode(send.body) = send.au
    OBVIOUS
  <2>1. send.body = latm_pack(Asc, send.au) /\ send.au \in Seq(Octets)
    BY <1>1, <1>2, FieldTypes DEF FrameInv
  <2>2. QED
    BY <2>1, RoundTrip, Zenon
<1>11. c = "SBC" => send.count = 1
  BY <1>1, <1>2 DEF FrameInv
<1>12. /\ c = "AAC"  => rtp /\ h = 0 /\ Decode(send.body) = send.au
       /\ c = "SBC"  => rtp /\ h = send.count
       /\ c = "LDAC" => rtp /\ h # 0
       /\ c = "LC3"  => rtp /\ h = 0
       /\ c = "APTX" => ~rtp /\ h = 0
  BY <1>3, <1>4, <1>10, <1>11
<1>13. Understood(Packet)
  <2>1. /\ c = "AAC" \/ c = "SBC" \/ c = "LDAC" \/ c = "LC3" \/ c = "APTX"
    BY DEF Codecs
  <2>2. QED
    BY <1>6, <1>8, <1>12, <2>1 DEF Understood
<1>14. QED
  BY <1>2, <1>3, <1>5, <1>8, <1>9, <1>13

LEMMA StepSubmit ==
  ASSUME IndInv, Submit
  PROVE  IndInv'
<1>1. TypeOK /\ FrameInv /\ SessionInv /\ HistoryInv /\ ClockInv /\ PacketsDecode /\ TimestampsFollow
  BY DEF IndInv
<1>2. /\ send.pc = "submit" /\ send' = Idle
      /\ UNCHANGED <<codec, enc, changes, RtpSeqNum, RtpTimestamp, frames>>
      /\ UNCHANGED <<state, channel, ind, sessions, pos>>
  BY DEF Submit, SendFrame, serviceVars, linkVars, rtpVars
<1>3. CASE UNCHANGED sink
  BY <1>2, <1>3, Dropped DEF Submit
<1>4. CASE /\ channel # 0
           /\ sink' = [session |-> channel, last |-> Packet,
                       prev |-> IF sink.session = channel THEN sink.last.clock ELSE NoClock]
  <2>1. PICK p \in Clocks : p = IF sink.session = channel THEN sink.last.clock ELSE NoClock
    <3>1. NoClock \in Clocks
      BY Sizes DEF NoClock, Clocks
    <3>2. QED
      BY <1>1, <3>1, FieldTypes
  <2>2. PICK q \in Packets : q = Packet
    BY <1>2, PacketRight, Zenon
  <2>3. sink' = [session |-> channel, last |-> q, prev |-> p]
    BY <1>4, <2>1, <2>2
  <2>4. sink'.session = channel /\ sink'.last = q /\ sink'.prev = p
    BY <2>3
  <2>5. channel \in Nat /\ channel = sessions
    BY <1>1, <1>4 DEF TypeOK, SessionInv
  <2>6. q.fits = pos.fits
    BY <1>2, <2>2, PacketRight, Zenon
  <2>7. PICK k \in Clocks : k = q.clock
    BY DEF Packets
  <2>8. k = [rtp |-> OwbMediaFraming(send.codec).rtp, born |-> send.born,
             seq |-> send.seq, ts |-> send.ts, n |-> send.n, at |-> send.at]
    BY <1>2, <2>2, <2>7, PacketRight, Zenon
  <2>9. /\ k.rtp = OwbMediaFraming(send.codec).rtp /\ k.born = send.born
        /\ k.seq = send.seq /\ k.ts = send.ts /\ k.n = send.n /\ k.at = send.at
    BY <2>8
  <2>10. send'.pc = "idle" /\ send'.born = 0
    BY <1>2 DEF Idle
  <2>11. Numbered' = Numbered /\ Timed' = Timed
    BY <1>2, <2>10 DEF Numbered, Timed, Unnumbered, Untimed
  <2>12. TypeOK'
    BY <1>1, <1>2, <2>3, <2>5, IdleIsSend DEF TypeOK
  <2>13. FrameInv' /\ HistoryInv'
    BY <2>10 DEF FrameInv, HistoryInv, Untimed
  <2>14. SessionInv'
    BY <1>1, <1>2, <2>4, <2>5, <2>7, <2>9, <2>10, FieldTypes DEF SessionInv
  <2>15. ASSUME k.rtp, k.born = sessions
         PROVE  /\ Ahead(k.seq, k.n, SeqSize) = Ahead(RtpSeqNum, Numbered, SeqSize)
                /\ pos.fits => Ahead(k.ts, k.at, TsSize) = Ahead(RtpTimestamp, Timed, TsSize)
    <3>1. SeqFollows(send) /\ (pos.fits => TsFollows(send))
      BY <1>1, <1>2, <1>4, <2>9, <2>15 DEF ClockInv
    <3>2. QED
      BY <2>9, <3>1 DEF SeqFollows, TsFollows
  <2>16. ClockInv'
    <3>1. Current(sink.last.clock)' => k.rtp /\ k.born = sessions
      BY <1>2, <2>4, <2>7 DEF Current
    <3>2. (k.rtp /\ k.born = sessions) =>
             SeqFollows(sink.last.clock)' /\ (pos.fits' => TsFollows(sink.last.clock)')
      BY <1>2, <2>4, <2>7, <2>11, <2>15 DEF SeqFollows, TsFollows
    <3>3. send'.pc \notin {"seq", "inc", "ts", "add", "submit"} /\ send'.born # sessions'
      BY <1>2, <1>4, <2>5, <2>10
    <3>4. QED
      BY <3>1, <3>2, <3>3 DEF ClockInv, Untimed
  <2>17. PacketsDecode'
    <3>1. Understood(q)
      BY <1>2, <2>2, PacketRight, Zenon
    <3>2. QED
      BY <2>4, <3>1 DEF PacketsDecode
  <2>18. TimestampsFollow'
    <3> SUFFICES ASSUME p.rtp, p.born = sessions, k.rtp, k.born = sessions, pos.fits
                 PROVE  /\ Ahead(k.seq, p.seq, SeqSize) = Ahead(k.n, p.n, SeqSize)
                        /\ Ahead(k.ts, p.ts, TsSize) = Ahead(k.at, p.at, TsSize)
      BY <1>2, <2>4, <2>5, <2>6, <2>7 DEF TimestampsFollow
    <3>1. p = sink.last.clock /\ Current(sink.last.clock)
      BY <2>1 DEF NoClock, Current
    <3>2. /\ Ahead(p.seq, p.n, SeqSize) = Ahead(RtpSeqNum, Numbered, SeqSize)
          /\ Ahead(p.ts, p.at, TsSize) = Ahead(RtpTimestamp, Timed, TsSize)
      BY <1>1, <1>4, <3>1 DEF ClockInv, SeqFollows, TsFollows
    <3>3. /\ Ahead(k.seq, k.n, SeqSize) = Ahead(p.seq, p.n, SeqSize)
          /\ Ahead(k.ts, k.at, TsSize) = Ahead(p.ts, p.at, TsSize)
      BY <2>15, <3>2
    <3>4. /\ k.seq \in Counts /\ k.n \in Counts /\ p.seq \in Counts /\ p.n \in Counts
          /\ k.ts \in Times /\ k.at \in Times /\ p.ts \in Times /\ p.at \in Times
      BY ClockTypes
    <3>5. QED
      BY <3>3, <3>4, SeqSwap, TsSwap
  <2>19. QED
    BY <2>12, <2>13, <2>14, <2>16, <2>17, <2>18 DEF IndInv
<1>5. QED
  BY <1>3, <1>4 DEF Submit

-----------------------------------------------------------------------------
(* The link goes down, comes up and changes its codec.                     *)

LEMMA StepDisconnect ==
  ASSUME IndInv, Disconnect
  PROVE  IndInv'
<1>1. TypeOK /\ FrameInv /\ SessionInv /\ HistoryInv /\ ClockInv /\ PacketsDecode /\ TimestampsFollow
  BY DEF IndInv
<1>2. UNCHANGED <<codec, enc, changes, send, sessions, frames, pos, sink>>
  BY DEF Disconnect, serviceVars
<1>3. /\ channel' = 0
      /\ RtpSeqNum' \in Counts /\ RtpTimestamp' \in Times
      /\ state' \in {"Idle", "Streaming"} /\ ind' \in {"none", "seq", "ts", "state"}
  <2>1. CASE IndHandles
    BY <1>1, <2>1 DEF IndHandles, TypeOK, rtpVars
  <2>2. CASE IndSeq
    BY <1>1, <2>2, Sizes DEF IndSeq, TypeOK, SessionInv
  <2>3. CASE IndTs
    BY <1>1, <2>3, Sizes DEF IndTs, TypeOK, SessionInv
  <2>4. CASE IndState
    BY <1>1, <2>4 DEF IndState, TypeOK, SessionInv, rtpVars
  <2>5. QED
    BY <2>1, <2>2, <2>3, <2>4 DEF Disconnect
<1>4. TypeOK'
  BY <1>1, <1>2, <1>3 DEF TypeOK
<1>5. FrameInv'
  BY <1>1, <1>2 DEF FrameInv
<1>6. SessionInv'
  BY <1>1, <1>2, <1>3 DEF SessionInv
<1>7. HistoryInv'
  BY <1>1, <1>2 DEF HistoryInv, Untimed
<1>8. ClockInv'
  BY <1>3 DEF ClockInv
<1>9. PacketsDecode' /\ TimestampsFollow'
  BY <1>1, <1>2 DEF PacketsDecode, TimestampsFollow
<1>10. QED
  BY <1>4, <1>5, <1>6, <1>7, <1>8, <1>9 DEF IndInv

\* Nothing there is belongs to the session that begins.
LEMMA StepStart ==
  ASSUME IndInv, Start
  PROVE  IndInv'
<1>1. TypeOK /\ FrameInv /\ SessionInv /\ HistoryInv /\ ClockInv /\ PacketsDecode /\ TimestampsFollow
  BY DEF IndInv
<1>2. /\ UNCHANGED <<codec, enc, changes, send, RtpSeqNum, RtpTimestamp, ind, frames, sink>>
      /\ ind = "none" /\ state' = "Streaming"
      /\ sessions' = sessions + 1 /\ channel' = sessions'
      /\ pos' = [pos EXCEPT !.fits = TRUE]
  BY DEF Start, serviceVars, rtpVars
<1>3. /\ pos' \in [n : Counts, pcm : Times, fits : BOOLEAN]
      /\ pos'.n = pos.n /\ pos'.pcm = pos.pcm
  BY <1>1, <1>2 DEF TypeOK
<1>4. TypeOK'
  BY <1>1, <1>2, <1>3 DEF TypeOK
<1>5. FrameInv'
  BY <1>1, <1>2 DEF FrameInv
<1>6. /\ send.born # sessions' /\ sink.last.clock.born # sessions'
      /\ send.born <= sessions' /\ sink.session <= sessions' /\ sink.last.clock.born <= sessions'
  <2>1. /\ send.born \in Nat /\ sink.session \in Nat /\ sink.last.clock.born \in Nat
        /\ sessions \in Nat
    BY <1>1, FieldTypes, ClockTypes
  <2>2. QED
    BY <1>1, <1>2, <2>1 DEF SessionInv
<1>7. SessionInv'
  BY <1>2, <1>6 DEF SessionInv
<1>8. HistoryInv'
  BY <1>1, <1>2, <1>3, <1>6 DEF HistoryInv, Untimed
<1>9. ClockInv'
  BY <1>2, <1>6 DEF ClockInv, Current
<1>10. PacketsDecode' /\ TimestampsFollow'
  BY <1>1, <1>2 DEF PacketsDecode, TimestampsFollow
<1>11. QED
  BY <1>4, <1>5, <1>7, <1>8, <1>9, <1>10 DEF IndInv

LEMMA StepSuspend ==
  ASSUME IndInv, Suspend
  PROVE  IndInv'
<1>1. TypeOK'
  BY DEF IndInv, TypeOK, Suspend, serviceVars, rtpVars
<1>2. QED
  BY <1>1, Unmoved DEF IndInv, Suspend

LEMMA NextIndInv == IndInv /\ [Next]_vars => IndInv'
<1> SUFFICES ASSUME IndInv, [Next]_vars PROVE IndInv'
  OBVIOUS
<1>1. CASE UNCHANGED vars
  <2>1. /\ UNCHANGED <<codec, enc, changes, send, rtpVars>>
        /\ UNCHANGED <<RtpSeqNum, RtpTimestamp, state, channel, ind, sessions, frames, pos, sink>>
    BY <1>1 DEF vars, serviceVars, rtpVars, linkVars
  <2>2. TypeOK'
    BY <2>1 DEF IndInv, TypeOK
  <2>3. QED
    BY <2>1, <2>2, Unmoved DEF IndInv
<1>2. CASE \E c \in Codecs : rebuild_codec(c)
  BY <1>2, StepRebuild
<1>3. CASE set_param
  BY <1>3, StepSetParam
<1>4. CASE Encode
  BY <1>4, StepEncode
<1>5. CASE SendCheck
  BY <1>5, StepSendCheck
<1>6. CASE LoadSeq
  BY <1>6, StepLoadSeq
<1>7. CASE StoreSeq
  BY <1>7, StepStoreSeq
<1>8. CASE LoadTs
  BY <1>8, StepLoadTs
<1>9. CASE StoreTs
  BY <1>9, StepStoreTs
<1>10. CASE Submit
  BY <1>10, StepSubmit
<1>11. CASE Disconnect
  BY <1>11, StepDisconnect
<1>12. CASE Start
  BY <1>12, StepStart
<1>13. CASE Suspend
  BY <1>13, StepSuspend
<1>14. QED
  BY <1>1, <1>2, <1>3, <1>4, <1>5, <1>6, <1>7, <1>8, <1>9, <1>10, <1>11, <1>12, <1>13
     DEF Next

LEMMA Invariance == Spec => []IndInv
<1>1. QED
  BY InitIndInv, NextIndInv, PTL DEF Spec

-----------------------------------------------------------------------------
\* The frame under way, the counters and what the headset got always have
\* their types: neither counter leaves its width, of whatever size, and what
\* latm_pack makes is bits.
THEOREM TypeCorrect == Spec => []TypeOK
<1>1. IndInv => TypeOK
  BY DEF IndInv
<1>2. QED
  BY <1>1, Invariance, PTL

\* latm_pack, OwbMediaFraming: whatever the encoder makes, the headset finds
\* the headers its codec prescribes and in an AAC packet the access unit, for
\* every size of byte, of access unit and of SBC frame.
THEOREM PacketsUnderstood == Spec => []PacketsDecode
<1>1. IndInv => PacketsDecode
  BY DEF IndInv
<1>2. QED
  BY <1>1, Invariance, PTL

\* L2capSendMediaFrame: two packets of the headset's session are as far apart
\* as what was built between them, wherever a disconnect indication has cut
\* into the updates of an earlier session, for every width of the counters.
THEOREM ClocksFollow == Spec => []TimestampsFollow
<1>1. IndInv => TimestampsFollow
  BY DEF IndInv
<1>2. QED
  BY <1>1, Invariance, PTL
=============================================================================
