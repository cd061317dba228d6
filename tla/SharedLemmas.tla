------------------------------ MODULE SharedLemmas ------------------------------
(***************************************************************************)
(* Facts that the proofs about several programs rest on: about finite sets   *)
(* of numbers, about chains of neighbours, and about a queue of n messages   *)
(* in a ring of cap cells, the oldest in cell h: what an insertion at its     *)
(* end, an extraction at its head and a copy to the front make of it.        *)
(***************************************************************************)
EXTENDS Integers, Sequences, FiniteSetTheorems, SequenceTheorems, WellFoundedInduction, TLAPS

(* Numbers: lab01 and the course work *)

\* A set of numbers has a least one.
LEMMA Smallest ==
    ASSUME NEW S \in SUBSET Nat, S # {}
    PROVE  \E m \in S : \A k \in S : m <= k
<1> DEFINE R == OpToRel(<, Nat)
<1>1. \A a, b \in Nat : <<a, b>> \in R <=> a < b
  BY DEF OpToRel
<1>2. IsWellFoundedOn(R, Nat)
  BY NatLessThanWellFounded
<1> HIDE DEF R
<1>3. PICK m \in S : \A k \in S : ~(<<k, m>> \in R)
  BY <1>2, WFMin
<1>4. \A k \in S : ~(k < m)
  BY <1>1, <1>3
<1>5. QED
  BY <1>3, <1>4

Below(S, e) == {o \in S : o < e}

\* Among the members of a finite set of numbers there is, for each i less than
\* their count, one with i others below it; and no two have the same.
LEMMA Ranks ==
    ASSUME NEW S \in SUBSET Nat, IsFiniteSet(S)
    PROVE  /\ Cardinality(S) \in Nat
           /\ \A e \in S : Cardinality(Below(S, e)) \in 0..Cardinality(S) - 1
           /\ \A a, b \in S : a < b => Cardinality(Below(S, a)) < Cardinality(Below(S, b))
           /\ \A i \in 0..Cardinality(S) - 1 : \E e \in S : Cardinality(Below(S, e)) = i
<1>1. Cardinality(S) \in Nat
  BY FS_CardinalityType
<1>2. ASSUME NEW e \in S PROVE Cardinality(Below(S, e)) \in 0..Cardinality(S) - 1
  <2>1. Below(S, e) \in SUBSET S /\ e \notin Below(S, e)
    BY DEF Below
  <2>2. /\ IsFiniteSet(Below(S, e)) /\ Cardinality(Below(S, e)) <= Cardinality(S)
        /\ Cardinality(S) = Cardinality(Below(S, e)) => S = Below(S, e)
    BY <2>1, FS_Subset
  <2>3. Cardinality(Below(S, e)) \in Nat
    BY <2>2, FS_CardinalityType
  <2>4. Cardinality(Below(S, e)) # Cardinality(S)
    BY <2>1, <2>2
  <2>5. QED
    BY <1>1, <2>2, <2>3, <2>4
<1>3. ASSUME NEW a \in S, NEW b \in S, a < b
      PROVE  Cardinality(Below(S, a)) < Cardinality(Below(S, b))
  <2>1. Below(S, a) \in SUBSET Below(S, b) /\ a \in Below(S, b) /\ a \notin Below(S, a)
    <3>1. a \in Nat /\ b \in Nat /\ \A o \in S : o \in Nat
      OBVIOUS
    <3>2. \A o \in S : o < a => o < b
      BY <1>3, <3>1
    <3>3. ~(a < a)
      BY <3>1
    <3>4. QED
      BY <1>3, <3>2, <3>3 DEF Below
  <2>2. Below(S, b) \in SUBSET S
    BY DEF Below
  <2>3. IsFiniteSet(Below(S, b))
    BY <2>2, FS_Subset
  <2>4. /\ Cardinality(Below(S, a)) <= Cardinality(Below(S, b))
        /\ Cardinality(Below(S, b)) = Cardinality(Below(S, a)) => Below(S, b) = Below(S, a)
    BY <2>1, <2>3, FS_Subset
  <2>5. Cardinality(Below(S, a)) \in Nat /\ Cardinality(Below(S, b)) \in Nat
    BY <1>1, <1>2
  <2>6. QED
    BY <2>1, <2>4, <2>5
<1>4. \A i \in 0..Cardinality(S) - 1 : \E e \in S : Cardinality(Below(S, e)) = i
  <2> DEFINE n == Cardinality(S)
             f == [e \in S |-> Cardinality(Below(S, e))]
             T == 0..n - 1
  <2>1. IsFiniteSet(T) /\ Cardinality(T) = n
    <3>1. 0 \in Int /\ n - 1 \in Int /\ (n - 1) - 0 + 1 = n /\ (0 > n - 1 => n = 0)
      BY <1>1
    <3>2. QED
      BY <3>1, FS_Interval
  <2>2. f \in Injection(S, T)
    <3>1. f \in [S -> T]
      BY <1>2
    <3>2. ASSUME NEW a \in S, NEW b \in S, f[a] = f[b] PROVE a = b
      <4>1. a \in Nat /\ b \in Nat
        OBVIOUS
      <4>2. ~(a < b) /\ ~(b < a)
        <5>1. f[a] \in Int /\ f[b] \in Int
          BY <3>1
        <5>2. a < b => f[a] < f[b]
          BY <1>3
        <5>3. b < a => f[b] < f[a]
          BY <1>3
        <5>4. QED
          BY <3>2, <5>1, <5>2, <5>3
      <4>3. QED
        BY <4>1, <4>2
    <3> HIDE DEF T, f
    <3>3. QED
      BY <3>1, <3>2 DEF Injection, IsInjective
  <2>3. f \in Surjection(S, T)
    <3> HIDE DEF T, f
    <3>1. n = Cardinality(T)
      BY <2>1
    <3>2. QED
      BY <2>1, <2>2, <3>1, FS_Injection
  <2>4. QED
    BY <2>3 DEF Surjection
<1>5. QED
  BY <1>1, <1>2, <1>3, <1>4

\* c numbers the members of S from 0 to n - 1.
Numbers(n, c, S) ==
    /\ \A i \in 0..n - 1 : c[i] \in S
    /\ \A s \in S : \E i \in 0..n - 1 : c[i] = s
    /\ \A i, j \in 0..n - 1 : c[i] = c[j] => i = j

LEMMA NumberedCard ==
    ASSUME NEW n \in Nat, NEW c, NEW S, Numbers(n, c, S)
    PROVE  Cardinality(S) = n
<1> DEFINE f == [i \in 0..n - 1 |-> c[i]]
<1>1. IsFiniteSet(0..n - 1) /\ Cardinality(0..n - 1) = n
  <2>1. 0 \in Int /\ n - 1 \in Int /\ (n - 1) - 0 + 1 = n /\ (0 > n - 1 => n = 0)
    OBVIOUS
  <2>2. QED
    BY <2>1, FS_Interval
<1>2. f \in [0..n - 1 -> S]
  BY DEF Numbers
<1>3. \A i, j \in 0..n - 1 : f[i] = f[j] => i = j
  BY DEF Numbers
<1>4. \A s \in S : \E i \in 0..n - 1 : f[i] = s
  BY DEF Numbers
<1> HIDE DEF f
<1>5. f \in Bijection(0..n - 1, S)
  BY <1>2, <1>3, <1>4 DEF Bijection, Injection, IsInjective, Surjection
<1>6. ExistsBijection(0..n - 1, S)
  BY <1>5 DEF ExistsBijection
<1>7. QED
  BY <1>1, <1>6, FS_Bijection

\* What each of a row of neighbours hands on to the next reaches the last.
LEMMA ChainEqual ==
    ASSUME NEW a \in Nat, NEW b \in Nat, a <= b, NEW h,
           \A k \in a..b - 1 : h[k] = h[k + 1]
    PROVE  h[a] = h[b]
<1> DEFINE Bad == {k \in a..b : h[k] # h[a]}
<1>1. SUFFICES ASSUME h[b] # h[a] PROVE FALSE
  OBVIOUS
<1>2. b \in Bad /\ Bad \in SUBSET Nat
  BY <1>1
<1>3. PICK m \in Bad : \A k \in Bad : m <= k
  <2> HIDE DEF Bad
  <2>1. QED
    BY <1>2, Smallest
<1>4. m \in a..b /\ h[m] # h[a] /\ m # a
  BY <1>3
<1>5. m - 1 \in a..b - 1 /\ (m - 1) + 1 = m /\ m - 1 \in a..b /\ ~(m <= m - 1)
  BY <1>4
<1>6. h[m - 1] = h[m]
  BY <1>5
<1>7. m - 1 \in Bad
  BY <1>4, <1>5, <1>6
<1>8. QED
  BY <1>3, <1>5, <1>7

LEMMA ChainLess ==
    ASSUME NEW a \in Nat, NEW b \in Nat, a <= b, NEW h,
           \A k \in a..b : h[k] \in Int,
           \A k \in a..b - 1 : h[k] <= h[k + 1]
    PROVE  h[a] <= h[b]
<1> DEFINE Bad == {k \in a..b : ~(h[a] <= h[k])}
<1>1. SUFFICES ASSUME ~(h[a] <= h[b]) PROVE FALSE
  OBVIOUS
<1>2. b \in Bad /\ Bad \in SUBSET Nat
  BY <1>1
<1>3. PICK m \in Bad : \A k \in Bad : m <= k
  <2> HIDE DEF Bad
  <2>1. QED
    BY <1>2, Smallest
<1>4. m \in a..b /\ ~(h[a] <= h[m]) /\ a \in a..b
  BY <1>3
<1>5. m # a
  <2>1. h[a] \in Int
    BY <1>4
  <2>2. h[a] <= h[a]
    BY <2>1
  <2>3. QED
    BY <1>4, <2>2
<1>6. m - 1 \in a..b - 1 /\ (m - 1) + 1 = m /\ m - 1 \in a..b /\ ~(m <= m - 1)
  BY <1>4, <1>5
<1>7. h[m - 1] <= h[m]
  BY <1>6
<1>8. m - 1 \in Bad
  <2>1. h[m - 1] \in Int /\ h[m] \in Int /\ h[a] \in Int
    BY <1>4, <1>6
  <2>2. ~(h[a] <= h[m - 1])
    BY <1>4, <1>7, <2>1
  <2>3. QED
    BY <1>6, <2>2
<1>9. QED
  BY <1>3, <1>6, <1>8

-----------------------------------------------------------------------------
(* Rings: lab04, lab05-1 and lab05-2 *)

Ring(b, h, n, cap) == [i \in 1..n |-> b[(h + i - 1) % cap]]

\* Every cell of the ring holds one of S.
Filled(b, cap, S) == \A i \in 0..cap - 1 : b[i] \in S

\* s is the queue of n messages from cell h on.
RingHolds(s, b, h, n, cap, S) ==
    s \in Seq(S) /\ Len(s) = n /\ \A i \in 1..n : s[i] = b[(h + i - 1) % cap]

\* b2 is b with m written to cell i.
StoredAt(b, b2, i, m, cap) == b2[i] = m /\ \A j \in 0..cap - 1 : j # i => b2[j] = b[j]

\* The first n cells of b2 are the n cells of the ring b from cell h on.
Copies(b, b2, h, n, cap) == \A i \in 0..n - 1 : b2[i] = b[(h + i) % cap]

\* Sums of an index and a count, as long as they pass the end at most once.
LEMMA ModSmall == \A cap \in Nat \ {0} : \A a \in 0..cap - 1 : a % cap = a
OBVIOUS

LEMMA ModWraps == \A cap \in Nat \ {0} : \A a \in cap..2 * cap - 1 : a % cap = a - cap
OBVIOUS

LEMMA ModInRing == \A cap \in Nat \ {0} : \A a \in Int : a % cap \in 0..cap - 1
OBVIOUS

\* The cell n places behind cell h.
LEMMA RingIndex ==
    ASSUME NEW cap \in Nat \ {0}, NEW h \in 0..cap - 1, NEW n \in 0..cap
    PROVE  (h + n) % cap = IF h + n < cap THEN h + n ELSE h + n - cap
<1>1. CASE h + n < cap
  BY <1>1, ModSmall
<1>2. CASE ~(h + n < cap)
  <2>1. h + n \in cap..2 * cap - 1
    BY <1>2
  <2>2. QED
    BY <1>2, <2>1, ModWraps
<1>3. QED
  BY <1>1, <1>2

\* Two places of one ring, less than cap apart, are different cells.
LEMMA CellsDiffer ==
    ASSUME NEW cap \in Nat \ {0}, NEW h \in 0..cap - 1,
           NEW i \in 0..cap - 1, NEW j \in 0..cap - 1, i # j
    PROVE  (h + i) % cap # (h + j) % cap
<1>1. (h + i) % cap = IF h + i < cap THEN h + i ELSE h + i - cap
  <2>1. i \in 0..cap
    OBVIOUS
  <2>2. QED
    BY <2>1, RingIndex
<1>2. (h + j) % cap = IF h + j < cap THEN h + j ELSE h + j - cap
  <2>1. j \in 0..cap
    OBVIOUS
  <2>2. QED
    BY <2>1, RingIndex
<1>3. QED
  BY <1>1, <1>2

\* The cell after a cell of the ring.
LEMMA NextCell ==
    ASSUME NEW cap \in Nat \ {0}, NEW h \in 0..cap - 1, NEW n \in 0..cap - 1
    PROVE  /\ (((h + n) % cap) + 1) % cap = (h + n + 1) % cap
           /\ (((h + 1) % cap) + n) % cap = (h + n + 1) % cap
<1>1. 1 \in 0..cap /\ n \in 0..cap /\ n + 1 \in 0..cap
  OBVIOUS
<1>2. (h + n) % cap = IF h + n < cap THEN h + n ELSE h + n - cap
  BY <1>1, RingIndex
<1>3. (h + 1) % cap = IF h + 1 < cap THEN h + 1 ELSE h + 1 - cap
  BY <1>1, RingIndex
<1>4. (h + (n + 1)) % cap = IF h + (n + 1) < cap THEN h + (n + 1) ELSE h + (n + 1) - cap
  BY <1>1, RingIndex
<1> DEFINE k == (h + n) % cap
           l == (h + 1) % cap
<1>5. k \in 0..cap - 1 /\ l \in 0..cap - 1
  BY ModInRing
<1> HIDE DEF k, l
<1>6. (k + 1) % cap = IF k + 1 < cap THEN k + 1 ELSE k + 1 - cap
  BY <1>1, <1>5, RingIndex
<1>7. (l + n) % cap = IF l + n < cap THEN l + n ELSE l + n - cap
  BY <1>1, <1>5, RingIndex
<1>8. h + (n + 1) = h + n + 1
  OBVIOUS
<1>9. (k + 1) % cap = (h + n + 1) % cap
  <2>1. k = IF h + n < cap THEN h + n ELSE h + n - cap
    BY <1>2 DEF k
  <2>2. QED
    BY <1>4, <1>6, <1>8, <2>1
<1>10. (l + n) % cap = (h + n + 1) % cap
  <2>1. l = IF h + 1 < cap THEN h + 1 ELSE h + 1 - cap
    BY <1>3 DEF l
  <2>2. QED
    BY <1>4, <1>7, <1>8, <2>1
<1>11. QED
  BY <1>9, <1>10 DEF k, l

LEMMA RingIsSeq ==
    ASSUME NEW cap \in Nat \ {0}, NEW h \in Nat, NEW n \in Nat,
           NEW S, NEW b, Filled(b, cap, S)
    PROVE  RingHolds(Ring(b, h, n, cap), b, h, n, cap, S)
<1>1. \A i \in 1..n : b[(h + i - 1) % cap] \in S
  BY ModInRing DEF Filled
<1>2. QED
  BY <1>1 DEF Ring, RingHolds

\* What is written behind the last message of a ring with room is appended.
LEMMA RingAppend ==
    ASSUME NEW cap \in Nat \ {0}, NEW h \in 0..cap - 1, NEW n \in 0..cap - 1,
           NEW S, NEW b, Filled(b, cap, S), NEW m \in S,
           NEW b2, StoredAt(b, b2, (h + n) % cap, m, cap)
    PROVE  Ring(b2, h, n + 1, cap) = Append(Ring(b, h, n, cap), m)
<1> DEFINE old == Ring(b, h, n, cap)
           new == Ring(b2, h, n + 1, cap)
<1>1. h \in Nat /\ n \in Nat /\ Filled(b2, cap, S)
  BY DEF Filled, StoredAt
<1>2. /\ old \in Seq(S) /\ Len(old) = n
      /\ \A i \in 1..n : old[i] = b[(h + i - 1) % cap]
  <2>1. RingHolds(old, b, h, n, cap, S)
    BY <1>1, RingIsSeq
  <2>2. QED
    BY <2>1 DEF RingHolds
<1>3. /\ new \in Seq(S) /\ Len(new) = n + 1
      /\ \A i \in 1..n + 1 : new[i] = b2[(h + i - 1) % cap]
  <2> DEFINE next == n + 1
  <2>1. next \in Nat
    OBVIOUS
  <2> HIDE DEF next
  <2>2. RingHolds(Ring(b2, h, next, cap), b2, h, next, cap, S)
    BY <1>1, <2>1, RingIsSeq
  <2>3. QED
    BY <2>2 DEF next, RingHolds
<1> HIDE DEF old, new
<1>4. new[n + 1] = m
  <2>1. new[n + 1] = b2[(h + (n + 1) - 1) % cap] /\ h + (n + 1) - 1 = h + n
    BY <1>3
  <2>2. QED
    BY <2>1 DEF StoredAt
<1>5. ASSUME NEW i \in 1..n
      PROVE  new[i] = old[i]
  <2>1. i - 1 \in 0..cap - 1 /\ i - 1 # n /\ h + (i - 1) = h + i - 1
    OBVIOUS
  <2>2. (h + i - 1) % cap # (h + n) % cap
    BY <2>1, CellsDiffer
  <2>3. h + i - 1 \in Int
    OBVIOUS
  <2>4. (h + i - 1) % cap \in 0..cap - 1
    BY <2>3, ModInRing
  <2>5. b2[(h + i - 1) % cap] = b[(h + i - 1) % cap]
    BY <2>2, <2>4 DEF StoredAt
  <2>6. i \in 1..n + 1
    OBVIOUS
  <2>7. new[i] = b2[(h + i - 1) % cap] /\ old[i] = b[(h + i - 1) % cap]
    BY <1>2, <1>3, <2>6
  <2>8. QED
    BY <2>5, <2>7
<1>6. /\ Append(old, m) \in Seq(S) /\ Len(Append(old, m)) = n + 1
      /\ \A i \in 1..n : Append(old, m)[i] = old[i]
      /\ Append(old, m)[n + 1] = m
  BY <1>2
<1>7. \A i \in 1..n + 1 : new[i] = Append(old, m)[i]
  BY <1>4, <1>5, <1>6
<1>8. new = Append(old, m)
  BY <1>3, <1>6, <1>7, SeqEqual
<1>9. QED
  BY <1>8 DEF old, new

\* The oldest message is in cell h, and the rest is the tail.
LEMMA RingTail ==
    ASSUME NEW cap \in Nat \ {0}, NEW h \in 0..cap - 1, NEW n \in 1..cap,
           NEW S, NEW b, Filled(b, cap, S)
    PROVE  /\ Ring(b, h, n, cap) # <<>>
           /\ Head(Ring(b, h, n, cap)) = b[h]
           /\ Tail(Ring(b, h, n, cap)) = Ring(b, (h + 1) % cap, n - 1, cap)
<1> DEFINE old == Ring(b, h, n, cap)
           new == Ring(b, (h + 1) % cap, n - 1, cap)
<1>1. h \in Nat /\ n \in Nat /\ (h + 1) % cap \in Nat /\ n - 1 \in Nat
  BY ModInRing
<1>2. /\ old \in Seq(S) /\ Len(old) = n
      /\ \A i \in 1..n : old[i] = b[(h + i - 1) % cap]
  <2>1. RingHolds(old, b, h, n, cap, S)
    BY <1>1, RingIsSeq
  <2>2. QED
    BY <2>1 DEF RingHolds
<1>3. /\ new \in Seq(S) /\ Len(new) = n - 1
      /\ \A i \in 1..n - 1 : new[i] = b[(((h + 1) % cap) + i - 1) % cap]
  <2> DEFINE k == (h + 1) % cap
             rest == n - 1
  <2>1. k \in Nat /\ rest \in Nat
    BY <1>1
  <2> HIDE DEF k, rest
  <2>2. RingHolds(Ring(b, k, rest, cap), b, k, rest, cap, S)
    BY <1>1, <2>1, RingIsSeq
  <2>3. QED
    BY <2>2 DEF k, rest, RingHolds
<1> HIDE DEF old, new
<1>4. old[1] = b[h]
  <2>1. h % cap = h /\ h + 1 - 1 = h
    BY ModSmall
  <2>2. 1 \in 1..n
    OBVIOUS
  <2>3. old[1] = b[(h + 1 - 1) % cap]
    BY <1>2, <2>2, Zenon
  <2>4. QED
    BY <2>1, <2>3
<1>5. ASSUME NEW i \in 1..n - 1
      PROVE  new[i] = old[i + 1]
  <2>1. i - 1 \in 0..cap - 1 /\ i + 1 \in 1..n
    OBVIOUS
  <2>2. (((h + 1) % cap) + (i - 1)) % cap = (h + (i - 1) + 1) % cap
    BY <2>1, NextCell
  <2>3. ((h + 1) % cap) + (i - 1) = ((h + 1) % cap) + i - 1
    BY <1>1
  <2>4. h + (i - 1) + 1 = h + (i + 1) - 1
    OBVIOUS
  <2>5. new[i] = b[(((h + 1) % cap) + i - 1) % cap]
    BY <1>3
  <2>6. old[i + 1] = b[(h + (i + 1) - 1) % cap]
    BY <1>2, <2>1
  <2>7. QED
    BY <2>2, <2>3, <2>4, <2>5, <2>6
<1>6. /\ old # <<>> /\ Head(old) = old[1]
      /\ Tail(old) \in Seq(S) /\ Len(Tail(old)) = n - 1
      /\ \A i \in 1..n - 1 : Tail(old)[i] = old[i + 1]
  BY <1>2
<1>7. Tail(old) = new
  BY <1>3, <1>5, <1>6, SeqEqual
<1>8. QED
  BY <1>4, <1>6, <1>7 DEF old, new

\* A ring that is copied in order to the front of another is the same queue.
LEMMA RingCopied ==
    ASSUME NEW cap \in Nat \ {0}, NEW cap2 \in Nat \ {0}, NEW h \in Nat, NEW n \in 0..cap2,
           NEW b, NEW b2, Copies(b, b2, h, n, cap)
    PROVE  Ring(b2, 0, n, cap2) = Ring(b, h, n, cap)
<1>1. ASSUME NEW i \in 1..n
      PROVE  b2[(0 + i - 1) % cap2] = b[(h + i - 1) % cap]
  <2>1. /\ i - 1 \in 0..cap2 - 1 /\ i - 1 \in 0..n - 1
        /\ 0 + i - 1 = i - 1 /\ h + (i - 1) = h + i - 1
    OBVIOUS
  <2>2. (i - 1) % cap2 = i - 1
    BY <2>1, ModSmall
  <2>3. b2[i - 1] = b[(h + (i - 1)) % cap]
    BY <2>1 DEF Copies
  <2>4. QED
    BY <2>1, <2>2, <2>3
<1>2. QED
  BY <1>1 DEF Ring
================================================================================
