------------------------------ MODULE DupesProofs ------------------------------
(***************************************************************************)
(* What holds of Dupes for any finite set of files, any contents, sizes,      *)
(* types and hashes, any links, any command line and any number of files     *)
(* rewritten meanwhile.                                                     *)
(***************************************************************************)
EXTENDS Dupes, SharedLemmas

-----------------------------------------------------------------------------
(* The inductive invariant *)

\* A list names found files, each once.
ListOK(L) ==
    /\ L \in Seq(Entries)
    /\ \A i \in DOMAIN L : L[i].full_path \in found
    /\ \A i, j \in DOMAIN L : L[i].full_path = L[j].full_path => i = j

PathsOf(L) == {L[i].full_path : i \in DOMAIN L}

SizesRight(L) == \A i \in DOMAIN L : L[i].file_size = size_of[Holds(L[i].full_path)]

BySize(L) == \A i, j \in DOMAIN L : i < j => L[i].file_size <= L[j].file_size

Hash(e) == IF Readable(e.full_path) THEN hash_of[Holds(e.full_path)] ELSE 0

ByHash(L) == \A i, j \in DOMAIN L : i < j => Hash(L[i]) <= Hash(L[j])

Fits == {p \in found : WithinLimits(size_of[Holds(p)])}

Twins == {p \in Fits : \E q \in found \ {p} : files_are_identical(p, q)}

Stages == Filters \cup {"start", "scan", "limits", "result", "delete", "exited", "printed",
                        "undefined"}

Typed ==
    /\ opts \in Options /\ layout \in Layouts
    /\ content \in [Paths -> Contents] /\ compared \in [Paths -> Contents]
    /\ present \in SUBSET Paths /\ found \in SUBSET Paths
    /\ pc \in Stages
    /\ ListOK(file_list)
    /\ idx \in 1..Len(file_list) + 1
    /\ edits \in 0..MaxEdits

\* Before the deletion the files that were found are all there.
DiskOK ==
    pc \notin {"delete", "exited"} => idx = 1 /\ \A p \in found : Exists(p)

\* Each file in the list had a twin when it was compared.
HadTwin(p) == \E q \in found \ {p} : compared[Opens(p)] = compared[Opens(q)]

TwinsOK == pc \in {"result", "delete"} => \A i \in DOMAIN file_list : HadTwin(file_list[i].full_path)

\* What the filters have come to: no twin is lost on the way, and each leaves
\* the order that a later one leans on.
FiltersOK ==
    /\ pc \in Filters \cup {"limits", "result"} => SizesRight(file_list)
    /\ pc = "limits" => PathsOf(file_list) = found
    /\ pc \in Filters => Twins \subseteq PathsOf(file_list) /\ PathsOf(file_list) \subseteq Fits
    /\ pc = "mime" => BySize(file_list)
    /\ pc \in {"cmp", "result"} => ByHash(file_list)
    /\ pc = "result" => PathsOf(file_list) = Twins

RoomOK == pc = "undefined" => Len(file_list) > FirstCapacity

\* What the deletion has not come to is still there.
AheadOK ==
    pc = "delete" /\ Untouched /\ Plain /\ SetsApart
       => \A j \in idx..Len(file_list) : file_list[j].full_path \in present

IInv ==
    /\ Typed /\ DiskOK /\ TwinsOK /\ RoomOK /\ AheadOK
    /\ Untouched => FiltersOK
    /\ ContentsSurvive /\ PrintsTheSets

-----------------------------------------------------------------------------
(* Lists: what is picked from one, and what a sort makes of it *)

\* M has m elements, its k-th is element e[k] of L, and these are the kept ones.
Takes(m, e, M, L, kept) ==
    /\ m \in Nat /\ M = [k \in 1..m |-> L[e[k]]]
    /\ \A k \in 1..m : e[k] \in kept
    /\ \A i \in kept : \E k \in 1..m : e[k] = i
    /\ \A j, k \in 1..m : e[j] = e[k] => j = k

Rising(e, m) == \A j, k \in 1..m : j < k => e[j] < e[k]

LEMMA PickedTakes ==
    ASSUME NEW n \in Nat, NEW L, NEW kept \in SUBSET (1..n)
    PROVE  \E m, e : Takes(m, e, Picked(L, kept), L, kept) /\ Rising(e, m)
<1> DEFINE m == Cardinality(kept)
           e == [k \in 1..m |-> CHOOSE i \in kept : Cardinality({j \in kept : j < i}) = k - 1]
<1>1. kept \in SUBSET Nat /\ IsFiniteSet(kept)
  <2>1. 1 \in Int /\ n \in Int
    OBVIOUS
  <2>2. IsFiniteSet(1..n)
    BY <2>1, FS_Interval
  <2>3. IsFiniteSet(kept)
    BY <2>2, FS_Subset
  <2>4. \A i \in 1..n : i \in Nat
    OBVIOUS
  <2>5. QED
    BY <2>3, <2>4
<1>2. /\ m \in Nat
      /\ \A i \in kept : Cardinality(Below(kept, i)) \in 0..m - 1
      /\ \A a, b \in kept : a < b => Cardinality(Below(kept, a)) < Cardinality(Below(kept, b))
      /\ \A k \in 0..m - 1 : \E i \in kept : Cardinality(Below(kept, i)) = k
  BY <1>1, Ranks
<1>3. Picked(L, kept) = [k \in 1..m |-> L[e[k]]]
  BY DEF Picked
<1>4. \A k \in 1..m : e[k] \in kept /\ Cardinality(Below(kept, e[k])) = k - 1
  <2>1. SUFFICES ASSUME NEW k \in 1..m
                 PROVE  e[k] \in kept /\ Cardinality(Below(kept, e[k])) = k - 1
    OBVIOUS
  <2>2. PICK i \in kept : Cardinality(Below(kept, i)) = k - 1
    <3>1. k - 1 \in 0..m - 1
      BY <1>2
    <3>2. QED
      BY <1>2, <3>1
  <2>3. Cardinality({j \in kept : j < i}) = k - 1
    BY <2>2 DEF Below
  <2>4. e[k] \in kept /\ Cardinality({j \in kept : j < e[k]}) = k - 1
    BY <2>3
  <2>5. QED
    BY <2>4 DEF Below
<1> HIDE DEF m, e
<1>5. \A j, k \in 1..m : e[j] = e[k] => j = k
  BY <1>2, <1>4
<1>6. Rising(e, m)
  <2>1. SUFFICES ASSUME NEW j \in 1..m, NEW k \in 1..m, j < k PROVE e[j] < e[k]
    BY DEF Rising
  <2>2. /\ e[j] \in kept /\ e[k] \in kept /\ e[j] \in Nat /\ e[k] \in Nat
        /\ Cardinality(Below(kept, e[j])) < Cardinality(Below(kept, e[k]))
    <3>1. e[j] \in kept /\ e[k] \in kept
      BY <1>4
    <3>2. Cardinality(Below(kept, e[j])) = j - 1 /\ Cardinality(Below(kept, e[k])) = k - 1
      BY <1>4
    <3>3. j - 1 < k - 1
      BY <1>2, <2>1
    <3>4. e[j] \in Nat /\ e[k] \in Nat
      BY <1>1, <3>1
    <3>5. QED
      BY <3>1, <3>2, <3>3, <3>4
  <2>3. ~(e[k] < e[j]) /\ e[j] # e[k]
    <3>1. Cardinality(Below(kept, e[j])) \in Int /\ Cardinality(Below(kept, e[k])) \in Int
      BY <1>2, <2>2
    <3>2. e[k] < e[j] => Cardinality(Below(kept, e[k])) < Cardinality(Below(kept, e[j]))
      BY <1>2, <2>2
    <3>3. QED
      BY <2>2, <3>1, <3>2
  <2>4. QED
    BY <2>2, <2>3
<1>7. \A i \in kept : \E k \in 1..m : e[k] = i
  <2>1. SUFFICES ASSUME NEW i \in kept PROVE \E k \in 1..m : e[k] = i
    OBVIOUS
  <2>2. PICK k \in 1..m : k - 1 = Cardinality(Below(kept, i))
    <3>1. Cardinality(Below(kept, i)) + 1 \in 1..m /\ (Cardinality(Below(kept, i)) + 1) - 1 = Cardinality(Below(kept, i))
      BY <1>2
    <3>2. QED
      BY <3>1
  <2>3. /\ e[k] \in kept /\ e[k] \in Nat /\ i \in Nat
        /\ Cardinality(Below(kept, e[k])) = Cardinality(Below(kept, i))
        /\ Cardinality(Below(kept, i)) \in Int
    <3>1. e[k] \in kept /\ Cardinality(Below(kept, e[k])) = Cardinality(Below(kept, i))
      BY <1>4, <2>2
    <3>2. e[k] \in Nat /\ i \in Nat
      BY <1>1, <3>1
    <3>3. Cardinality(Below(kept, i)) \in Int
      BY <1>2
    <3>4. QED
      BY <3>1, <3>2, <3>3
  <2>4. ~(e[k] < i) /\ ~(i < e[k])
    <3>1. e[k] < i => Cardinality(Below(kept, e[k])) < Cardinality(Below(kept, i))
      BY <1>2, <2>3
    <3>2. i < e[k] => Cardinality(Below(kept, i)) < Cardinality(Below(kept, e[k]))
      BY <1>2, <2>3
    <3>3. QED
      BY <2>3, <3>1, <3>2
  <2>5. e[k] = i
    BY <2>3, <2>4
  <2>6. QED
    BY <2>5
<1>8. Takes(m, e, Picked(L, kept), L, kept)
  BY <1>2, <1>3, <1>4, <1>5, <1>7 DEF Takes
<1>9. QED
  BY <1>6, <1>8

LEMMA EntryParts == \A e \in Entries : e.full_path \in Paths /\ e.file_size \in Nat
<1>1. \A c \in Contents : size_of[c] \in Nat
  BY DupesAssumption
<1>2. QED
  BY <1>1 DEF Entries

\* What is taken from a list is a list of some of its files.
LEMMA TakesKeeps ==
    ASSUME NEW L, ListOK(L), NEW kept \in SUBSET DOMAIN L, NEW m, NEW e, NEW M, Takes(m, e, M, L, kept)
    PROVE  /\ ListOK(M) /\ Len(M) = m /\ DOMAIN M = 1..m
           /\ PathsOf(M) = {L[i].full_path : i \in kept}
           /\ SizesRight(L) => SizesRight(M)
<1>1. /\ m \in Nat /\ M = [k \in 1..m |-> L[e[k]]]
      /\ \A k \in 1..m : e[k] \in kept /\ e[k] \in DOMAIN L
      /\ \A i \in kept : \E k \in 1..m : e[k] = i
      /\ \A j, k \in 1..m : e[j] = e[k] => j = k
  BY DEF Takes
<1>2. \A i \in DOMAIN L : L[i] \in Entries /\ L[i].full_path \in found
  <2>1. L \in Seq(Entries)
    BY DEF ListOK
  <2>2. \A i \in DOMAIN L : L[i] \in Entries
    BY <2>1, ElementOfSeq, LenProperties
  <2>3. QED
    BY <2>2 DEF ListOK
<1>3. DOMAIN M = 1..m /\ \A k \in 1..m : M[k] = L[e[k]]
  BY <1>1
<1>4. M \in Seq(Entries) /\ Len(M) = m
  <2>1. M \in [1..m -> Entries]
    BY <1>1, <1>2
  <2>2. QED
    BY <1>1, <2>1, LenProperties
<1>5. \A i \in DOMAIN M : M[i].full_path \in found
  BY <1>1, <1>2, <1>3
<1>6. ASSUME NEW i \in DOMAIN M, NEW j \in DOMAIN M, M[i].full_path = M[j].full_path
      PROVE  i = j
  <2>1. i \in 1..m /\ j \in 1..m /\ L[e[i]].full_path = L[e[j]].full_path
    BY <1>3, <1>6
  <2>2. e[i] = e[j]
    BY <1>1, <2>1 DEF ListOK
  <2>3. QED
    BY <1>1, <2>1, <2>2
<1>7. PathsOf(M) = {L[i].full_path : i \in kept}
  <2>1. \A p \in PathsOf(M) : \E i \in kept : p = L[i].full_path
    BY <1>1, <1>3 DEF PathsOf
  <2>2. \A i \in kept : \E k \in DOMAIN M : L[i].full_path = M[k].full_path
    BY <1>1, <1>3
  <2>3. QED
    BY <2>1, <2>2 DEF PathsOf
<1>8. SizesRight(L) => SizesRight(M)
  BY <1>1, <1>3 DEF SizesRight
<1>9. QED
  BY <1>3, <1>4, <1>5, <1>6, <1>7, <1>8 DEF ListOK

LEMMA ListLen == ASSUME NEW L, ListOK(L)
                 PROVE  /\ L \in Seq(Entries) /\ Len(L) \in Nat /\ DOMAIN L = 1..Len(L)
                        /\ \A i \in DOMAIN L : L[i] \in Entries /\ L[i].full_path \in Paths /\ L[i].file_size \in Nat
<1>1. L \in Seq(Entries)
  BY DEF ListOK
<1>2. Len(L) \in Nat /\ DOMAIN L = 1..Len(L) /\ \A i \in DOMAIN L : L[i] \in Entries
  BY <1>1, ElementOfSeq, LenProperties
<1>3. QED
  BY <1>1, <1>2, EntryParts

\* What is picked keeps the order of the list.
LEMMA PickedKeeps ==
    ASSUME NEW L, ListOK(L), NEW kept \in SUBSET DOMAIN L
    PROVE  LET M == Picked(L, kept)
           IN /\ ListOK(M) /\ PathsOf(M) = {L[i].full_path : i \in kept}
              /\ SizesRight(L) => SizesRight(M)
              /\ BySize(L) => BySize(M)
              /\ ByHash(L) => ByHash(M)
<1> DEFINE M == Picked(L, kept)
<1>1. Len(L) \in Nat /\ DOMAIN L = 1..Len(L) /\ kept \in SUBSET (1..Len(L))
  BY ListLen
<1>2. PICK m, e : Takes(m, e, M, L, kept) /\ Rising(e, m)
  BY <1>1, PickedTakes
<1> HIDE DEF M
<1>3. /\ ListOK(M) /\ DOMAIN M = 1..m
      /\ PathsOf(M) = {L[i].full_path : i \in kept}
      /\ SizesRight(L) => SizesRight(M)
  BY <1>2, TakesKeeps
<1>4. /\ \A k \in 1..m : M[k] = L[e[k]] /\ e[k] \in DOMAIN L
      /\ \A j, k \in 1..m : j < k => e[j] < e[k]
  BY <1>2 DEF Takes, Rising
<1>5. BySize(L) => BySize(M)
  BY <1>3, <1>4 DEF BySize
<1>6. ByHash(L) => ByHash(M)
  BY <1>3, <1>4 DEF ByHash
<1>7. QED
  BY <1>3, <1>5, <1>6 DEF M

\* A sort rearranges the list, each key no larger than the next.
LEMMA SortedTakes ==
    ASSUME NEW L, ListOK(L), NEW key, NEW M \in Sorted(L, key)
    PROVE  /\ \E e : Takes(Len(L), e, M, L, DOMAIN L)
           /\ \A i \in 1..Len(L) - 1 : key[M[i]] <= key[M[i + 1]]
<1>1. PICK f \in Bijection(DOMAIN L, DOMAIN L) : M = [i \in DOMAIN L |-> L[f[i]]]
  BY DEF Sorted
<1>2. Len(L) \in Nat /\ DOMAIN L = 1..Len(L) /\ Len(M) = Len(L)
  <2>1. Len(L) \in Nat /\ DOMAIN L = 1..Len(L)
    BY ListLen
  <2>2. DOMAIN M = 1..Len(L)
    BY <1>1, <2>1
  <2>3. QED
    BY <2>1, <2>2
<1>3. /\ \A k \in DOMAIN L : f[k] \in DOMAIN L
      /\ \A i \in DOMAIN L : \E k \in DOMAIN L : f[k] = i
      /\ \A j, k \in DOMAIN L : f[j] = f[k] => j = k
  BY DEF Bijection, Injection, Surjection, IsInjective
<1>4. Takes(Len(L), f, M, L, DOMAIN L)
  BY <1>1, <1>2, <1>3 DEF Takes
<1>5. QED
  BY <1>4 DEF Sorted

-----------------------------------------------------------------------------
(* What the files hold *)

LEMMA LayoutFacts ==
    ASSUME layout \in Layouts, content \in [Paths -> Contents]
    PROVE  /\ \A p \in Paths : /\ Opens(p) \in Paths /\ layout.entry[p] \in Paths
                               /\ Holds(p) \in Contents /\ hash_of[Holds(p)] \in Nat \ {0}
                               /\ size_of[Holds(p)] \in Nat /\ mime_of[Holds(p)] # NoMime
           /\ Plain => \A p \in Paths : Opens(p) = p /\ layout.entry[p] = p /\ Holds(p) = content[p]
<1>1. /\ layout.denotes \in [Paths -> Paths] /\ layout.entry \in [Paths -> Paths]
      /\ \A p \in Paths : layout.denotes[layout.entry[p]] = layout.denotes[p]
  BY DupesAssumption
<1>2. \A p \in Paths : Opens(p) \in Paths /\ layout.entry[p] \in Paths /\ Holds(p) \in Contents
  BY <1>1 DEF Opens, Holds
<1>3. \A c \in Contents : hash_of[c] \in Nat \ {0} /\ size_of[c] \in Nat /\ mime_of[c] # NoMime
  BY DupesAssumption
<1>4. ASSUME Plain, NEW p \in Paths
      PROVE  Opens(p) = p /\ layout.entry[p] = p /\ Holds(p) = content[p]
  <2>1. layout.entry[p] \in Paths /\ layout.denotes[p] = p
    BY <1>1, <1>4 DEF Plain
  <2>2. layout.denotes[layout.entry[p]] = layout.entry[p]
    BY <1>4, <2>1 DEF Plain
  <2>3. layout.entry[p] = p
    BY <1>1, <2>1, <2>2
  <2>4. QED
    BY <2>1, <2>3 DEF Opens, Holds
<1>5. QED
  BY <1>2, <1>3, <1>4

LEMMA HashNat ==
    ASSUME layout \in Layouts, content \in [Paths -> Contents], NEW e \in Entries
    PROVE  Hash(e) \in Nat
<1>1. e.full_path \in Paths
  BY EntryParts
<1>2. hash_of[Holds(e.full_path)] \in Nat
  BY <1>1, LayoutFacts
<1>3. QED
  BY <1>2 DEF Hash

LEMMA SizeOfIs == ASSUME NEW L, NEW i \in DOMAIN L PROVE SizeOf(L)[L[i]] = L[i].file_size
BY DEF SizeOf, ToSet

LEMMA HashOfIs == ASSUME NEW L, NEW i \in DOMAIN L PROVE HashOf(L)[L[i]] = Hash(L[i])
BY DEF HashOf, Hash, ToSet

\* M lists the files of L.
SameList(M, L) == /\ ListOK(M) /\ DOMAIN M = 1..Len(L) /\ PathsOf(M) = PathsOf(L)
                  /\ SizesRight(L) => SizesRight(M)

LEMMA SortedKeeps ==
    ASSUME NEW L, ListOK(L), NEW key, NEW M \in Sorted(L, key)
    PROVE  SameList(M, L)
<1>1. PICK e : Takes(Len(L), e, M, L, DOMAIN L)
  BY SortedTakes
<1>2. /\ ListOK(M) /\ DOMAIN M = 1..Len(L) /\ PathsOf(M) = {L[i].full_path : i \in DOMAIN L}
      /\ SizesRight(L) => SizesRight(M)
  BY <1>1, TakesKeeps
<1>3. QED
  BY <1>2 DEF SameList, PathsOf

LEMMA SortedBySize ==
    ASSUME NEW L, ListOK(L), NEW M \in Sorted(L, SizeOf(L))
    PROVE  ListOK(M) /\ PathsOf(M) = PathsOf(L) /\ (SizesRight(L) => SizesRight(M)) /\ BySize(M)
<1> DEFINE key == SizeOf(L)
<1>1. PICK e : Takes(Len(L), e, M, L, DOMAIN L)
  BY SortedTakes
<1>2. \A i \in 1..Len(L) - 1 : key[M[i]] <= key[M[i + 1]]
  BY SortedTakes
<1>3. SameList(M, L)
  BY SortedKeeps
<1>4. Len(L) \in Nat /\ DOMAIN L = 1..Len(L)
  BY ListLen
<1>5. \A k \in 1..Len(L) : key[M[k]] = M[k].file_size /\ M[k].file_size \in Nat
  <2>1. SUFFICES ASSUME NEW k \in 1..Len(L) PROVE key[M[k]] = M[k].file_size /\ M[k].file_size \in Nat
    OBVIOUS
  <2>2. e[k] \in DOMAIN L /\ M[k] = L[e[k]]
    BY <1>1 DEF Takes
  <2>3. QED
    BY <2>2, SizeOfIs, ListLen
<1> HIDE DEF key
<1>6. BySize(M)
  <2>1. SUFFICES ASSUME NEW i \in 1..Len(L), NEW j \in 1..Len(L), i < j
                 PROVE  M[i].file_size <= M[j].file_size
    BY <1>3 DEF SameList, BySize
  <2> DEFINE h == [k \in 1..Len(L) |-> M[k].file_size]
  <2>2. /\ \A k \in i..j : k \in 1..Len(L)
        /\ \A k \in i..j - 1 : k \in 1..Len(L) - 1 /\ k + 1 \in 1..Len(L) /\ k \in 1..Len(L)
    BY <1>4, <2>1
  <2>3. \A k \in i..j : h[k] \in Int
    BY <1>5, <2>2
  <2>4. \A k \in i..j - 1 : h[k] <= h[k + 1]
    BY <1>2, <1>5, <2>2
  <2>5. i \in Nat /\ j \in Nat /\ i <= j /\ h[i] = M[i].file_size /\ h[j] = M[j].file_size
    BY <1>4, <2>1
  <2> HIDE DEF h
  <2>6. h[i] <= h[j]
    BY <2>3, <2>4, <2>5, ChainLess
  <2>7. QED
    BY <2>5, <2>6
<1>7. QED
  BY <1>3, <1>6 DEF SameList

LEMMA SortedByHash ==
    ASSUME layout \in Layouts, content \in [Paths -> Contents],
           NEW L, ListOK(L), NEW M \in Sorted(L, HashOf(L))
    PROVE  ListOK(M) /\ PathsOf(M) = PathsOf(L) /\ (SizesRight(L) => SizesRight(M)) /\ ByHash(M)
<1> DEFINE key == HashOf(L)
<1>1. PICK e : Takes(Len(L), e, M, L, DOMAIN L)
  BY SortedTakes
<1>2. \A i \in 1..Len(L) - 1 : key[M[i]] <= key[M[i + 1]]
  BY SortedTakes
<1>3. SameList(M, L)
  BY SortedKeeps
<1>4. Len(L) \in Nat /\ DOMAIN L = 1..Len(L)
  BY ListLen
<1>5. \A k \in 1..Len(L) : key[M[k]] = Hash(M[k]) /\ Hash(M[k]) \in Nat
  <2>1. SUFFICES ASSUME NEW k \in 1..Len(L) PROVE key[M[k]] = Hash(M[k]) /\ Hash(M[k]) \in Nat
    OBVIOUS
  <2>2. e[k] \in DOMAIN L /\ M[k] = L[e[k]]
    BY <1>1 DEF Takes
  <2>3. L[e[k]] \in Entries
    BY <2>2, ListLen
  <2>4. QED
    BY <2>2, <2>3, HashOfIs, HashNat
<1> HIDE DEF key
<1>6. ByHash(M)
  <2>1. SUFFICES ASSUME NEW i \in 1..Len(L), NEW j \in 1..Len(L), i < j
                 PROVE  Hash(M[i]) <= Hash(M[j])
    BY <1>3 DEF SameList, ByHash
  <2> DEFINE h == [k \in 1..Len(L) |-> Hash(M[k])]
  <2>2. /\ \A k \in i..j : k \in 1..Len(L)
        /\ \A k \in i..j - 1 : k \in 1..Len(L) - 1 /\ k + 1 \in 1..Len(L) /\ k \in 1..Len(L)
    BY <1>4, <2>1
  <2>3. \A k \in i..j : h[k] \in Int
    BY <1>5, <2>2
  <2>4. \A k \in i..j - 1 : h[k] <= h[k + 1]
    BY <1>2, <1>5, <2>2
  <2>5. i \in Nat /\ j \in Nat /\ i <= j /\ h[i] = Hash(M[i]) /\ h[j] = Hash(M[j])
    BY <1>4, <2>1
  <2> HIDE DEF h
  <2>6. h[i] <= h[j]
    BY <2>3, <2>4, <2>5, ChainLess
  <2>7. QED
    BY <2>5, <2>6
<1>7. QED
  BY <1>3, <1>6 DEF SameList

\* In a list ordered by a key, those with one key are neighbours.
LEMMA RunOfSize ==
    ASSUME NEW L, ListOK(L), BySize(L), NEW i \in DOMAIN L, NEW j \in DOMAIN L \ {i},
           L[i].file_size = L[j].file_size
    PROVE  i \in InRuns(L, SizeOf(L)) /\ SameRun(L, i, j)
<1>1. /\ Len(L) \in Nat /\ DOMAIN L = 1..Len(L) /\ \A k \in DOMAIN L : L[k].file_size \in Nat
      /\ i \in Nat /\ j \in Nat /\ i # j
  BY ListLen
<1>2. ASSUME NEW a \in DOMAIN L, NEW b \in DOMAIN L, a < b, L[a].file_size = L[b].file_size,
             NEW k \in a..b
      PROVE  k \in DOMAIN L /\ L[k].file_size = L[a].file_size
  <2>1. k \in DOMAIN L /\ a \in Nat /\ b \in Nat /\ k \in Nat /\ a <= k /\ k <= b
    BY <1>1
  <2>2. (a < k => L[a].file_size <= L[k].file_size) /\ (k < b => L[k].file_size <= L[b].file_size)
    BY <2>1 DEF BySize
  <2>3. L[k].file_size \in Nat /\ L[a].file_size \in Nat
    BY <1>1, <2>1
  <2>4. CASE a < k /\ k < b
    BY <1>2, <2>1, <2>2, <2>3, <2>4
  <2>5. CASE k = a \/ k = b
    BY <1>2, <2>1, <2>5
  <2>6. QED
    BY <2>1, <2>4, <2>5
<1>3. SameRun(L, i, j)
  <2>1. SUFFICES ASSUME NEW k \in (i..j) \cup (j..i) PROVE L[k].file_size = L[i].file_size
    BY DEF SameRun
  <2>2. CASE i < j
    <3>1. k \in i..j
      BY <1>1, <2>1, <2>2
    <3>2. QED
      BY <1>2, <2>2, <3>1
  <2>3. CASE j < i
    <3>1. k \in j..i
      BY <1>1, <2>1, <2>3
    <3>2. QED
      BY <1>2, <2>3, <3>1
  <2>4. QED
    BY <1>1, <2>2, <2>3
<1>4. PICK n \in {i - 1, i + 1} \cap DOMAIN L : L[n].file_size = L[i].file_size
  <2>1. CASE i < j
    <3>1. i + 1 \in i..j /\ i \in DOMAIN L /\ j \in DOMAIN L
      BY <1>1, <2>1
    <3>2. i + 1 \in DOMAIN L /\ L[i + 1].file_size = L[i].file_size
      BY <1>2, <2>1, <3>1
    <3>3. QED
      BY <3>2
  <2>2. CASE j < i
    <3>1. i - 1 \in j..i /\ i \in DOMAIN L /\ j \in DOMAIN L
      BY <1>1, <2>2
    <3>2. i - 1 \in DOMAIN L /\ L[i - 1].file_size = L[j].file_size
      BY <1>2, <2>2, <3>1
    <3>3. QED
      BY <3>2
  <2>3. QED
    BY <1>1, <2>1, <2>2
<1>5. SizeOf(L)[L[i]] = L[i].file_size /\ SizeOf(L)[L[n]] = L[n].file_size
  BY SizeOfIs
<1>6. QED
  BY <1>3, <1>4, <1>5 DEF InRuns

LEMMA RunOfHash ==
    ASSUME layout \in Layouts, content \in [Paths -> Contents],
           NEW L, ListOK(L), ByHash(L), NEW i \in DOMAIN L, NEW j \in DOMAIN L \ {i},
           Hash(L[i]) = Hash(L[j])
    PROVE  i \in InRuns(L, HashOf(L)) /\ \A k \in (i..j) \cup (j..i) : k \in DOMAIN L /\ Hash(L[k]) = Hash(L[i])
<1>1. /\ Len(L) \in Nat /\ DOMAIN L = 1..Len(L)
      /\ i \in Nat /\ j \in Nat /\ i # j
  BY ListLen
<1>7. \A k \in DOMAIN L : Hash(L[k]) \in Nat
  BY ListLen, HashNat
<1>2. ASSUME NEW a \in DOMAIN L, NEW b \in DOMAIN L, a < b, Hash(L[a]) = Hash(L[b]),
             NEW k \in a..b
      PROVE  k \in DOMAIN L /\ Hash(L[k]) = Hash(L[a])
  <2>1. k \in DOMAIN L /\ a \in Nat /\ b \in Nat /\ k \in Nat /\ a <= k /\ k <= b
    BY <1>1
  <2>2. (a < k => Hash(L[a]) <= Hash(L[k])) /\ (k < b => Hash(L[k]) <= Hash(L[b]))
    BY <2>1 DEF ByHash
  <2>3. Hash(L[k]) \in Nat /\ Hash(L[a]) \in Nat
    BY <1>7, <2>1
  <2>4. CASE a < k /\ k < b
    BY <1>2, <2>1, <2>2, <2>3, <2>4
  <2>5. CASE k = a \/ k = b
    BY <1>2, <2>1, <2>5
  <2>6. QED
    BY <2>1, <2>4, <2>5
<1>3. \A k \in (i..j) \cup (j..i) : k \in DOMAIN L /\ Hash(L[k]) = Hash(L[i])
  <2>1. SUFFICES ASSUME NEW k \in (i..j) \cup (j..i) PROVE k \in DOMAIN L /\ Hash(L[k]) = Hash(L[i])
    OBVIOUS
  <2>2. CASE i < j
    <3>1. k \in i..j
      BY <1>1, <2>1, <2>2
    <3>2. QED
      BY <1>2, <2>2, <3>1
  <2>3. CASE j < i
    <3>1. k \in j..i
      BY <1>1, <2>1, <2>3
    <3>2. QED
      BY <1>2, <2>3, <3>1
  <2>4. QED
    BY <1>1, <2>2, <2>3
<1>4. PICK n \in {i - 1, i + 1} \cap DOMAIN L : Hash(L[n]) = Hash(L[i])
  <2>1. CASE i < j
    <3>1. i + 1 \in (i..j) \cup (j..i) /\ i + 1 \in {i - 1, i + 1}
      BY <1>1, <2>1
    <3>2. i + 1 \in DOMAIN L /\ Hash(L[i + 1]) = Hash(L[i])
      BY <1>3, <3>1
    <3>3. QED
      BY <3>1, <3>2
  <2>2. CASE j < i
    <3>1. i - 1 \in (i..j) \cup (j..i) /\ i - 1 \in {i - 1, i + 1}
      BY <1>1, <2>2
    <3>2. i - 1 \in DOMAIN L /\ Hash(L[i - 1]) = Hash(L[i])
      BY <1>3, <3>1
    <3>3. QED
      BY <3>1, <3>2
  <2>3. QED
    BY <1>1, <2>1, <2>2
<1>5. HashOf(L)[L[i]] = Hash(L[i]) /\ HashOf(L)[L[n]] = Hash(L[n])
  BY HashOfIs
<1>6. QED
  BY <1>3, <1>4, <1>5 DEF InRuns

-----------------------------------------------------------------------------
(* The capacity of the list that is kept by size *)

Body(f, L, k) ==
    IF k = 0 THEN 0
    ELSE LET last == f[k - 1]
         IN IF k \in RunEnds(L) /\ Count(L, k) > last THEN Grown(last) ELSE last

Unfolds(f, L, n) == f = [k \in 0..n |-> Body(f, L, k)]

\* The recursive definition of Capacity has a solution, so it is one.
LEMMA CapacityUnfolds ==
    ASSUME NEW L, Len(L) \in Nat
    PROVE  Unfolds(Capacity(L), L, Len(L))
<1> DEFINE Bad == {m \in Nat : ~ \E f : Unfolds(f, L, m)}
<1>1. Bad = {}
  <2>1. SUFFICES ASSUME Bad # {} PROVE FALSE
    OBVIOUS
  <2>2. PICK m \in Bad : \A k \in Bad : m <= k
    <3>1. Bad \in SUBSET Nat
      OBVIOUS
    <3> HIDE DEF Bad
    <3>2. QED
      BY <2>1, <3>1, Smallest
  <2>3. m \in Nat /\ ~ \E f : Unfolds(f, L, m)
    BY <2>2
  <2>4. CASE m = 0
    <3> DEFINE f == [k \in 0..0 |-> 0]
    <3>1. f = [k \in 0..0 |-> Body(f, L, k)]
      BY DEF Body
    <3>2. QED
      BY <2>3, <2>4, <3>1 DEF Unfolds
  <2>5. CASE m # 0
    <3>1. m - 1 \in Nat /\ ~(m <= m - 1)
      BY <2>3, <2>5
    <3>2. PICK f : Unfolds(f, L, m - 1)
      BY <2>2, <3>1
    <3>3. \A k \in 0..m - 1 : f[k] = Body(f, L, k)
      BY <3>2 DEF Unfolds
    <3> DEFINE g == [k \in 0..m |-> IF k = m THEN Body(f, L, m) ELSE f[k]]
    <3>4. \A k \in 0..m : (k = 0 \/ g[k - 1] = f[k - 1]) /\ (k # m => k \in 0..m - 1)
      BY <2>3
    <3>5. ASSUME NEW k \in 0..m PROVE g[k] = Body(g, L, k)
      <4>1. Body(g, L, k) = Body(f, L, k)
        BY <3>4 DEF Body
      <4>2. g[k] = Body(f, L, k)
        BY <3>3, <3>4
      <4>3. QED
        BY <4>1, <4>2
    <3>6. g = [k \in 0..m |-> g[k]]
      OBVIOUS
    <3> HIDE DEF g
    <3>7. Unfolds(g, L, m)
      BY <3>5, <3>6 DEF Unfolds
    <3>8. QED
      BY <2>3, <3>7
  <2>6. QED
    BY <2>4, <2>5
<1>2. \E f : Unfolds(f, L, Len(L))
  BY <1>1
<1>3. QED
  BY <1>2 DEF Capacity, Unfolds, Body

\* A list of at most FirstCapacity elements is never overrun.
LEMMA RoomForFew ==
    ASSUME NEW L, ListOK(L), Overflows(L)
    PROVE  Len(L) > FirstCapacity
<1> DEFINE n == Len(L)
           c == Capacity(L)
<1>1. n \in Nat /\ DOMAIN L = 1..n /\ FirstCapacity \in Nat \ {0}
  BY ListLen, DupesAssumption
<1>2. \A k \in 0..n : c[k] = Body(c, L, k)
  <2>1. Unfolds(c, L, n)
    BY <1>1, CapacityUnfolds
  <2>2. QED
    BY <2>1 DEF Unfolds
<1>3. \A k \in 0..n : Count(L, k) \in Nat /\ Count(L, k) <= n
  <2>1. SUFFICES ASSUME NEW k \in 0..n PROVE Count(L, k) \in Nat /\ Count(L, k) <= n
    OBVIOUS
  <2>2. 1 \in Int /\ k \in Int /\ k \in Nat /\ k <= n
    BY <1>1
  <2>3. IsFiniteSet(1..k) /\ Cardinality(1..k) = k
    <3>1. IsFiniteSet(1..k) /\ Cardinality(1..k) = IF 1 > k THEN 0 ELSE k - 1 + 1
      BY <2>2, FS_Interval
    <3>2. QED
      BY <2>2, <3>1
  <2> DEFINE S == InRuns(L, SizeOf(L)) \cap 1..k
  <2>4. S \in SUBSET (1..k)
    OBVIOUS
  <2> HIDE DEF S
  <2>5. IsFiniteSet(S) /\ Cardinality(S) <= Cardinality(1..k)
    BY <2>3, <2>4, FS_Subset
  <2>6. Cardinality(S) \in Nat
    BY <2>5, FS_CardinalityType
  <2>7. Count(L, k) = Cardinality(S)
    BY DEF Count, S
  <2>8. QED
    BY <1>1, <2>2, <2>3, <2>5, <2>6, <2>7
<1> DEFINE Roomy(r) == r \in Nat /\ (r = 0 \/ r >= FirstCapacity)
<1> HIDE DEF c
<1>4. \A r : Roomy(r) => Roomy(Grown(r)) /\ Grown(r) >= FirstCapacity
  BY <1>1 DEF Grown
<1>5. \A k \in 0..n : Roomy(c[k])
  <2> DEFINE Bad == {k \in 0..n : ~Roomy(c[k])}
  <2>1. SUFFICES ASSUME Bad # {} PROVE FALSE
    OBVIOUS
  <2>2. PICK m \in Bad : \A k \in Bad : m <= k
    <3>1. Bad \in SUBSET Nat
      OBVIOUS
    <3> HIDE DEF Bad
    <3>2. QED
      BY <2>1, <3>1, Smallest
  <2>3. m \in 0..n /\ ~Roomy(c[m]) /\ c[m] = Body(c, L, m)
    BY <1>2, <2>2
  <2>4. m # 0
    <3>1. Roomy(0)
      OBVIOUS
    <3>2. Body(c, L, 0) = 0
      BY DEF Body
    <3>3. QED
      BY <2>3, <3>1, <3>2
  <2>5. m - 1 \in 0..n /\ ~(m <= m - 1)
    BY <1>1, <2>3, <2>4
  <2>6. Roomy(c[m - 1])
    BY <2>2, <2>5
  <2>7. c[m] = c[m - 1] \/ c[m] = Grown(c[m - 1])
    BY <2>3, <2>4 DEF Body
  <2> HIDE DEF Roomy
  <2>8. QED
    BY <1>4, <2>3, <2>6, <2>7
<1>6. PICK k \in RunEnds(L) : Count(L, k) > c[k]
  BY DEF Overflows, c
<1>7. k \in 1..n /\ k \in 0..n /\ k - 1 \in 0..n /\ k # 0
  <2>1. k \in DOMAIN L
    BY DEF RunEnds, InRuns
  <2>2. QED
    BY <1>1, <2>1
<1>8. c[k] = IF Count(L, k) > c[k - 1] THEN Grown(c[k - 1]) ELSE c[k - 1]
  BY <1>2, <1>6, <1>7 DEF Body
<1>9. Roomy(c[k - 1]) /\ Roomy(c[k]) /\ Count(L, k) \in Nat /\ Count(L, k) <= n
  BY <1>3, <1>5, <1>7
<1>10. CASE Count(L, k) > c[k - 1]
  <2>1. c[k] >= FirstCapacity
    BY <1>4, <1>8, <1>9, <1>10
  <2>2. QED
    BY <1>1, <1>6, <1>9, <2>1
<1>11. CASE ~(Count(L, k) > c[k - 1])
  BY <1>6, <1>8, <1>11
<1>12. QED
  BY <1>10, <1>11

-----------------------------------------------------------------------------
(* The steps up to the comparison *)

\* Nothing was removed yet, so nothing was lost.
LEMMA NothingLost == Typed /\ DiskOK /\ pc \notin {"delete", "exited"} => ContentsSurvive
<1> SUFFICES ASSUME Typed, DiskOK, pc \notin {"delete", "exited"}, Plain, NEW p \in found
             PROVE  ContentLeft(p)
  BY DEF ContentsSurvive
<1>1. p \in Paths /\ Exists(p)
  BY DEF Typed, DiskOK
<1>2. layout.entry[p] = p
  BY <1>1, LayoutFacts DEF Typed
<1>3. p \in present
  BY <1>1, <1>2 DEF Exists
<1>4. QED
  BY <1>3 DEF ContentLeft

LEMMA NothingLostNext == (Typed /\ DiskOK /\ pc \notin {"delete", "exited"} => ContentsSurvive)'
BY NothingLost, PTL

\* Facts about lists mean the same before and after a step that leaves the
\* files and what was found of them.
LEMMA SameFiles ==
    ASSUME UNCHANGED <<fixed, disk, found>>
    PROVE  /\ Fits' = Fits /\ Twins' = Twins
           /\ ListOK(file_list)' <=> ListOK(file_list')
           /\ SizesRight(file_list)' <=> SizesRight(file_list')
           /\ BySize(file_list)' <=> BySize(file_list')
           /\ ByHash(file_list)' <=> ByHash(file_list')
           /\ PathsOf(file_list)' = PathsOf(file_list')
<1>1. layout' = layout /\ opts' = opts /\ content' = content /\ present' = present /\ found' = found
  BY DEF fixed, disk
<1>2. Fits' = Fits
  BY <1>1 DEF Fits, WithinLimits, Holds, Opens
<1>3. Twins' = Twins
  BY <1>1, <1>2 DEF Twins, files_are_identical, Readable, Exists, Holds, Opens
<1>4. ListOK(file_list)' <=> ListOK(file_list')
  BY <1>1 DEF ListOK
<1>5. SizesRight(file_list)' <=> SizesRight(file_list')
  BY <1>1 DEF SizesRight, Holds, Opens
<1>6. BySize(file_list)' <=> BySize(file_list')
  BY <1>1 DEF BySize
<1>7. ByHash(file_list)' <=> ByHash(file_list')
  BY <1>1 DEF ByHash, Hash, Readable, Exists, Holds, Opens
<1>8. PathsOf(file_list)' = PathsOf(file_list')
  BY DEF PathsOf
<1>9. QED
  BY <1>2, <1>3, <1>4, <1>5, <1>6, <1>7, <1>8

\* A twin's twin is one.
LEMMA TwinsPair ==
    ASSUME NEW p \in Twins
    PROVE  \E q \in Twins \ {p} : files_are_identical(p, q) /\ files_are_identical(q, p)
<1>1. PICK q \in found \ {p} : files_are_identical(p, q)
  BY DEF Twins
<1>2. files_are_identical(q, p) /\ Holds(q) = Holds(p) /\ p \in found \ {q}
  BY <1>1 DEF files_are_identical, Twins, Fits
<1>3. q \in Fits
  BY <1>1, <1>2 DEF Twins, Fits
<1>4. QED
  BY <1>1, <1>2, <1>3 DEF Twins

Kept(M) == /\ ListOK(M) /\ SizesRight(M)
           /\ Twins \subseteq PathsOf(M) /\ PathsOf(M) \subseteq Fits

\* A stage that leaves the files, and what it has to show of its new list.
LEMMA StageKeeps ==
    ASSUME IInv, NEW f, NEW g, Stage(f, g), g \in Filters \cup {"scan", "limits"}, UNCHANGED <<idx, found, compared>>,
           pc \notin {"delete", "exited"},
           ListOK(file_list'),
           Untouched => /\ g \in Filters \cup {"limits"} => SizesRight(file_list')
                        /\ g = "limits" => PathsOf(file_list') = found
                        /\ g \in Filters => Kept(file_list')
                        /\ g = "mime" => BySize(file_list')
                        /\ g = "cmp" => ByHash(file_list')
    PROVE  IInv'
<1>1. UNCHANGED <<fixed, disk, found>> /\ pc' = g /\ edits' = edits
  BY DEF Stage
<1>2. Len(file_list') \in Nat
  BY ListLen
<1>3. Typed'
  <2>1. ListOK(file_list)'
    BY <1>1, SameFiles
  <2>2. idx' \in 1..Len(file_list') + 1
    BY <1>2 DEF IInv, DiskOK
  <2>3. pc' \in Stages
    BY <1>1 DEF Stages
  <2>4. QED
    BY <1>1, <2>1, <2>2, <2>3 DEF IInv, Typed, fixed, disk
<1>4. DiskOK'
  BY <1>1 DEF IInv, DiskOK, Exists, Opens, fixed, disk
<1>5. g \notin {"result", "delete", "exited", "printed", "undefined"}
  BY DEF Filters
<1>6. TwinsOK' /\ RoomOK' /\ AheadOK' /\ PrintsTheSets'
  BY <1>1, <1>5 DEF TwinsOK, RoomOK, AheadOK, PrintsTheSets
<1>7. ContentsSurvive'
  BY <1>1, <1>3, <1>4, <1>5, NothingLostNext
<1>8. Untouched' => FiltersOK'
  BY <1>1, <1>5, SameFiles DEF FiltersOK, Untouched, Kept
<1>9. QED
  BY <1>3, <1>4, <1>6, <1>7, <1>8 DEF IInv

\* Leaving the program.
LEMMA ExitKeeps ==
    ASSUME IInv, pc' = "exited", UNCHANGED <<fixed, disk, edits, printout, file_list, idx, found, compared>>
    PROVE  IInv'
<1>1. Typed'
  BY SameFiles DEF IInv, Typed, Stages, fixed, disk
<1>2. ContentsSurvive'
  BY DEF IInv, ContentsSurvive, Untouched, Plain, SetsApart, ContentLeft, Holds, Opens, fixed, disk
<1>3. DiskOK' /\ TwinsOK' /\ RoomOK' /\ AheadOK' /\ PrintsTheSets' /\ FiltersOK'
  BY DEF DiskOK, TwinsOK, RoomOK, AheadOK, PrintsTheSets, FiltersOK, Filters
<1>4. QED
  BY <1>1, <1>2, <1>3 DEF IInv

LEMMA StartKeeps == ASSUME IInv, Start PROVE IInv'
<1>1. UNCHANGED <<file_list, idx, found, compared>>
  BY DEF Start
<1>2. CASE opts.deletion /\ opts.summary
  BY <1>1, <1>2, ExitKeeps DEF Start, Stage
<1>3. CASE ~(opts.deletion /\ opts.summary)
  <2>1. Stage("start", "scan")
    BY <1>3 DEF Start
  <2>2. ListOK(file_list') /\ pc = "start"
    BY <1>1, <2>1 DEF IInv, Typed, Stage
  <2>3. QED
    BY <1>1, <2>1, <2>2, StageKeeps DEF Filters
<1>4. QED
  BY <1>2, <1>3

LEMMA AbortKeeps == ASSUME IInv, Abort PROVE IInv'
BY ExitKeeps DEF Abort, Stage

Walked(L, order) ==
    L = [i \in DOMAIN order |-> [full_path |-> order[i], file_size |-> size_of[Holds(order[i])]]]

ListsAll(L, S) ==
    /\ L \in Seq(Entries)
    /\ \A i \in DOMAIN L : L[i].full_path \in S
    /\ \A i, j \in DOMAIN L : L[i].full_path = L[j].full_path => i = j
    /\ SizesRight(L) /\ PathsOf(L) = S

\* The walk lists each file it can reach once, with its size.
LEMMA ScanLists ==
    ASSUME Typed, NEW S \in SUBSET Paths, NEW order, order = SetToSeq(S), NEW L, Walked(L, order)
    PROVE  ListsAll(L, S)
<1> DEFINE n == Cardinality(S)
<1>1. IsFiniteSet(S) /\ n \in Nat
  BY DupesAssumption, FS_Subset, FS_CardinalityType
<1>2. ExistsBijection(1..n, S)
  BY <1>1, FS_NatBijection, FS_CountingElements
<1>3. PICK f \in Bijection(1..n, S) : TRUE
  BY <1>2 DEF ExistsBijection
<1>4. f \in [1..n -> S] /\ IsInjective(f)
  BY <1>3 DEF Bijection, Injection
<1>5. order \in [1..n -> S] /\ IsInjective(order)
  BY <1>4 DEF SetToSeq
<1>6. \A p \in S : \E i \in 1..n : order[i] = p
  <2>1. IsFiniteSet(1..n) /\ Cardinality(1..n) = n
    <3>1. 1 \in Int /\ n \in Int
      BY <1>1
    <3>2. IsFiniteSet(1..n) /\ Cardinality(1..n) = IF 1 > n THEN 0 ELSE n - 1 + 1
      BY <3>1, FS_Interval
    <3>3. QED
      BY <1>1, <3>2
  <2> DEFINE T == 1..n
  <2>2. order \in Injection(T, S)
    BY <1>5 DEF Injection
  <2>3. IsFiniteSet(T) /\ Cardinality(T) = Cardinality(S)
    BY <2>1
  <2> HIDE DEF T
  <2>4. order \in Surjection(T, S)
    BY <1>1, <2>2, <2>3, FS_Injection
  <2>5. QED
    BY <2>4 DEF Surjection, T
<1>7. /\ DOMAIN L = 1..n
      /\ \A i \in 1..n : L[i] = [full_path |-> order[i], file_size |-> size_of[Holds(order[i])]]
  BY <1>5 DEF Walked
<1> HIDE DEF n
<1>8. \A i \in 1..n : order[i] \in S /\ order[i] \in Paths /\ Holds(order[i]) \in Contents
  BY <1>5, LayoutFacts DEF Typed
<1>9. \A i \in 1..n : L[i] \in Entries
  BY <1>7, <1>8 DEF Entries
<1>10. L \in Seq(Entries)
  <2>1. L = [i \in 1..n |-> L[i]]
    BY <1>7 DEF Walked
  <2>2. L \in [1..n -> Entries]
    BY <1>9, <2>1
  <2>3. QED
    BY <1>1, <2>2
<1>11. \A i, j \in 1..n : order[i] = order[j] => i = j
  BY <1>5 DEF IsInjective
<1>12. PathsOf(L) = S
  <2>1. \A p \in S : \E i \in DOMAIN L : p = L[i].full_path
    BY <1>6, <1>7
  <2>2. \A i \in DOMAIN L : L[i].full_path \in S
    BY <1>7, <1>8
  <2>3. QED
    BY <2>1, <2>2 DEF PathsOf
<1>13. SizesRight(L)
  BY <1>7, <1>8 DEF SizesRight
<1>14. QED
  <2>1. \A i \in DOMAIN L : L[i].full_path \in S
    BY <1>7, <1>8
  <2>2. \A i, j \in DOMAIN L : L[i].full_path = L[j].full_path => i = j
    BY <1>7, <1>11
  <2>3. QED
    BY <1>10, <1>12, <1>13, <2>1, <2>2 DEF ListsAll

LEMMA ScanKeeps == ASSUME IInv, scan_directory PROVE IInv'
<1>1. PICK walked \in {Paths \ Nested} \cup IF opts.recursive THEN {Paths} ELSE {} :
        /\ found' = {p \in walked : Exists(p)}
        /\ LET order == SetToSeq(found')
           IN file_list' = [i \in DOMAIN order |-> [full_path |-> order[i],
                                                    file_size |-> size_of[Holds(order[i])]]]
  BY DEF scan_directory
<1>2. /\ Stage("scan", "limits") /\ UNCHANGED <<fixed, disk, edits, idx, compared>> /\ pc = "scan"
      /\ pc' = "limits" /\ idx = 1
  BY DEF scan_directory, Stage, IInv, DiskOK
<1>3. found' \in SUBSET Paths /\ \A p \in found' : Exists(p)
  BY <1>1
<1>4. ListsAll(file_list', found')
  <2> DEFINE order == SetToSeq(found')
  <2>1. Walked(file_list', order)
    BY <1>1 DEF Walked
  <2> HIDE DEF order
  <2>2. order = SetToSeq(found')
    BY DEF order
  <2>3. QED
    BY <1>3, <2>1, <2>2, ScanLists DEF IInv
<1>5. Typed'
  <2>1. ListOK(file_list)'
    BY <1>4 DEF ListOK, ListsAll
  <2>2. Len(file_list') \in Nat
    BY <1>4, LenProperties DEF ListsAll
  <2>3. idx' \in 1..Len(file_list') + 1
    BY <1>2, <2>2
  <2>4. QED
    BY <1>2, <1>3, <2>1, <2>3 DEF IInv, Typed, Stages, fixed, disk
<1>6. DiskOK'
  <2>1. \A p \in found' : Exists(p)'
    BY <1>2, <1>3 DEF Exists, Opens, fixed, disk
  <2>2. QED
    BY <1>2, <2>1 DEF DiskOK
<1>7. TwinsOK' /\ RoomOK' /\ AheadOK' /\ PrintsTheSets'
  BY <1>2 DEF TwinsOK, RoomOK, AheadOK, PrintsTheSets
<1>8. ContentsSurvive'
  BY <1>2, <1>5, <1>6, NothingLostNext
<1>9. FiltersOK'
  BY <1>2, <1>4 DEF ListsAll, FiltersOK, Filters, SizesRight, PathsOf, Holds, Opens, fixed, disk
<1>10. QED
  BY <1>5, <1>6, <1>7, <1>8, <1>9 DEF IInv

LEMMA SizeLimitsKeep == ASSUME IInv, filter_size_list PROVE IInv'
<1> DEFINE kept == {i \in DOMAIN file_list : WithinLimits(file_list[i].file_size)}
<1>1. /\ Stage("limits", "size") /\ file_list' = Picked(file_list, kept)
      /\ UNCHANGED <<idx, found, compared>> /\ pc = "limits"
  BY DEF filter_size_list, Stage
<1>2. ListOK(file_list)
  BY DEF IInv, Typed
<1>3. /\ ListOK(file_list') /\ PathsOf(file_list') = {file_list[i].full_path : i \in kept}
      /\ SizesRight(file_list) => SizesRight(file_list')
  BY <1>1, <1>2, PickedKeeps
<1>4. ASSUME Untouched PROVE Kept(file_list')
  <2>1. SizesRight(file_list) /\ PathsOf(file_list) = found
    BY <1>1, <1>4 DEF IInv, FiltersOK
  <2>2. \A p \in Fits : \E i \in kept : p = file_list[i].full_path
    BY <2>1 DEF Fits, PathsOf, SizesRight
  <2>3. \A i \in kept : file_list[i].full_path \in Fits
    BY <2>1 DEF Fits, PathsOf, SizesRight
  <2> HIDE DEF kept
  <2>4. PathsOf(file_list') = Fits
    BY <1>3, <2>2, <2>3
  <2>5. Twins \subseteq Fits
    BY DEF Twins
  <2>6. QED
    BY <1>3, <2>1, <2>4, <2>5 DEF Kept
<1>5. QED
  BY <1>1, <1>3, <1>4, StageKeeps DEF Filters, Kept

LEMMA FilterFacts ==
    ASSUME IInv, NEW from, NEW to, NEW list, Filter(from, to, list), from \in Filters
    PROVE  /\ Stage(from, to) /\ file_list' = list /\ pc = from /\ UNCHANGED <<idx, found>>
           /\ pc \notin {"delete", "exited"}
           /\ ListOK(file_list) /\ layout \in Layouts /\ content \in [Paths -> Contents]
           /\ Untouched => Kept(file_list) /\ FiltersOK
BY DEF Filter, Stage, IInv, Typed, FiltersOK, Kept, Filters

\* Places i and j of a list hold p and a twin of it.
PairAt(M, p, i, j) ==
    /\ i \in DOMAIN M /\ j \in DOMAIN M \ {i}
    /\ M[i].full_path = p
    /\ M[i].file_size = M[j].file_size
    /\ files_are_identical(p, M[j].full_path)
    /\ Hash(M[i]) = Hash(M[j]) /\ Readable(p) /\ Readable(M[j].full_path)
    /\ Holds(p) = Holds(M[j].full_path)

LEMMA TwinPlaces ==
    ASSUME NEW M, Kept(M), NEW p \in Twins
    PROVE  \E i, j : PairAt(M, p, i, j)
<1>1. PICK q \in Twins \ {p} : files_are_identical(p, q)
  BY TwinsPair
<1>2. Readable(p) /\ Readable(q) /\ Holds(p) = Holds(q)
  BY <1>1 DEF files_are_identical
<1>3. PICK i \in DOMAIN M : M[i].full_path = p
  BY DEF Kept, PathsOf
<1>4. PICK j \in DOMAIN M : M[j].full_path = q
  BY <1>1 DEF Kept, PathsOf
<1>5. j # i
  BY <1>1, <1>3, <1>4
<1>6. M[i].file_size = M[j].file_size
  BY <1>2, <1>3, <1>4 DEF Kept, SizesRight
<1>7. Hash(M[i]) = Hash(M[j])
  BY <1>2, <1>3, <1>4 DEF Hash
<1>8. QED
  BY <1>1, <1>2, <1>3, <1>4, <1>5, <1>6, <1>7 DEF PairAt

\* What is picked from a list of candidates is one if no twin is left out.
LEMMA PickedKept ==
    ASSUME NEW M, Kept(M), NEW kept \in SUBSET DOMAIN M,
           \A i \in DOMAIN M : M[i].full_path \in Twins => i \in kept
    PROVE  Kept(Picked(M, kept))
<1>1. /\ ListOK(Picked(M, kept)) /\ SizesRight(Picked(M, kept))
      /\ PathsOf(Picked(M, kept)) = {M[i].full_path : i \in kept}
  BY PickedKeeps DEF Kept
<1>2. Twins \subseteq {M[i].full_path : i \in kept}
  BY DEF Kept, PathsOf
<1>3. {M[i].full_path : i \in kept} \subseteq Fits
  BY DEF Kept, PathsOf
<1>4. QED
  BY <1>1, <1>2, <1>3 DEF Kept

LEMMA NoneLeftKeeps == ASSUME IInv, NoneLeft PROVE IInv'
<1>1. PICK f \in Filters : Stage(f, "result")
  BY DEF NoneLeft
<1>2. /\ UNCHANGED <<fixed, disk, edits, printout, file_list, idx, found, compared>>
      /\ pc = f /\ pc' = "result" /\ file_list = <<>> /\ pc \in Filters
  BY <1>1 DEF NoneLeft, Stage
<1>3. Typed'
  BY <1>2, SameFiles DEF IInv, Typed, Stages, fixed, disk
<1>4. DiskOK'
  BY <1>2 DEF IInv, DiskOK, Exists, Opens, fixed, disk, Filters
<1>5. DOMAIN file_list' = {}
  BY <1>2
<1>6. TwinsOK' /\ RoomOK' /\ AheadOK' /\ PrintsTheSets'
  BY <1>2, <1>5 DEF TwinsOK, RoomOK, AheadOK, PrintsTheSets
<1>7. ContentsSurvive'
  BY <1>2, <1>3, <1>4, NothingLostNext
<1>8. ASSUME Untouched' PROVE FiltersOK'
  <2>1. Twins \subseteq PathsOf(file_list)
    BY <1>2, <1>8 DEF IInv, FiltersOK, Untouched
  <2>2. PathsOf(file_list) = {} /\ PathsOf(file_list') = {}
    BY <1>2, <1>5 DEF PathsOf
  <2>3. Twins = {}
    BY <2>1, <2>2
  <2>4. SizesRight(file_list') /\ ByHash(file_list')
    BY <1>5 DEF SizesRight, ByHash
  <2>5. QED
    BY <1>2, <2>2, <2>3, <2>4, SameFiles DEF FiltersOK, Filters
<1>9. QED
  BY <1>3, <1>4, <1>6, <1>7, <1>8 DEF IInv

\* No twin falls out where the runs of a list in order are picked.
LEMMA SizeRunsKept ==
    ASSUME NEW M, Kept(M), BySize(M)
    PROVE  Kept(Picked(M, InRuns(M, SizeOf(M))))
<1> DEFINE kept == InRuns(M, SizeOf(M))
<1>1. kept \in SUBSET DOMAIN M
  BY DEF InRuns
<1>2. ASSUME NEW i \in DOMAIN M, M[i].full_path \in Twins PROVE i \in kept
  <2>1. PICK a, j : PairAt(M, M[i].full_path, a, j)
    BY <1>2, TwinPlaces
  <2>2. a = i
    BY <1>2, <2>1 DEF PairAt, Kept, ListOK
  <2>3. QED
    BY <2>1, <2>2, RunOfSize DEF PairAt, Kept
<1> HIDE DEF kept
<1>3. Kept(Picked(M, kept))
  BY <1>1, <1>2, PickedKept
<1>4. QED
  BY <1>3 DEF kept

LEMMA HashRunsKept ==
    ASSUME layout \in Layouts, content \in [Paths -> Contents], NEW M, Kept(M), ByHash(M)
    PROVE  Kept(Picked(M, InRuns(M, HashOf(M))))
<1> DEFINE kept == InRuns(M, HashOf(M))
<1>1. kept \in SUBSET DOMAIN M
  BY DEF InRuns
<1>2. ASSUME NEW i \in DOMAIN M, M[i].full_path \in Twins PROVE i \in kept
  <2>1. PICK a, j : PairAt(M, M[i].full_path, a, j)
    BY <1>2, TwinPlaces
  <2>2. a = i
    BY <1>2, <2>1 DEF PairAt, Kept, ListOK
  <2>3. QED
    BY <2>1, <2>2, RunOfHash DEF PairAt, Kept
<1> HIDE DEF kept
<1>3. Kept(Picked(M, kept))
  BY <1>1, <1>2, PickedKept
<1>4. QED
  BY <1>3 DEF kept

LEMMA SizeFilterKeeps == ASSUME IInv, filter_file_list PROVE IInv'
<1>1. PICK s \in Sorted(file_list, SizeOf(file_list)) :
         \/ Filter("size", "mime", Picked(s, InRuns(s, SizeOf(s))))
         \/ Filter("size", "undefined", file_list) /\ Overflows(s)
  BY DEF filter_file_list
<1>2. /\ ListOK(file_list) /\ pc = "size" /\ UNCHANGED compared
      /\ Untouched => Kept(file_list)
  BY DEF filter_file_list, IInv, Typed, FiltersOK, Kept, Filters
<1>3. /\ ListOK(s) /\ PathsOf(s) = PathsOf(file_list) /\ BySize(s)
      /\ SizesRight(file_list) => SizesRight(s)
  BY <1>1, <1>2, SortedBySize
<1>4. CASE Filter("size", "mime", Picked(s, InRuns(s, SizeOf(s))))
  <2> DEFINE kept == InRuns(s, SizeOf(s))
  <2>1. /\ Stage("size", "mime") /\ UNCHANGED <<idx, found, compared>>
        /\ file_list' = Picked(s, kept)
    BY <1>2, <1>4 DEF Filter
  <2>2. kept \in SUBSET DOMAIN s
    BY DEF InRuns
  <2>3. ASSUME Untouched PROVE Kept(Picked(s, kept))
    BY <1>2, <1>3, <2>3, SizeRunsKept DEF Kept
  <2> HIDE DEF kept
  <2>4. ListOK(file_list') /\ BySize(file_list')
    BY <1>3, <2>1, <2>2, PickedKeeps
  <2>5. "mime" \in Filters /\ pc \notin {"delete", "exited"}
    BY <1>2 DEF Filters
  <2>6. Untouched => Kept(file_list') /\ SizesRight(file_list')
    BY <2>1, <2>3 DEF Kept
  <2>7. QED
    BY <2>1, <2>4, <2>5, <2>6, StageKeeps
<1>5. CASE Filter("size", "undefined", file_list) /\ Overflows(s)
  <2>1. UNCHANGED <<fixed, disk, edits, printout, file_list, idx, found, compared>> /\ pc' = "undefined"
    BY <1>2, <1>5 DEF Filter, Stage
  <2>2. Len(file_list') > FirstCapacity
    <3>1. Len(s) > FirstCapacity
      BY <1>3, <1>5, RoomForFew
    <3>2. PICK e : Takes(Len(file_list), e, s, file_list, DOMAIN file_list)
      BY <1>1, <1>2, SortedTakes
    <3>3. Len(s) = Len(file_list)
      BY <1>2, <3>2, TakesKeeps
    <3>4. QED
      BY <2>1, <3>1, <3>3
  <2>3. Typed'
    BY <2>1, SameFiles DEF IInv, Typed, Stages, fixed, disk
  <2>4. DiskOK'
    BY <1>2, <2>1 DEF IInv, DiskOK, Exists, Opens, fixed, disk
  <2>5. ContentsSurvive'
    BY <2>1, <2>3, <2>4, NothingLostNext
  <2>6. TwinsOK' /\ RoomOK' /\ AheadOK' /\ PrintsTheSets' /\ FiltersOK'
    BY <2>1, <2>2 DEF TwinsOK, RoomOK, AheadOK, PrintsTheSets, FiltersOK, Filters
  <2>7. QED
    BY <2>3, <2>4, <2>5, <2>6 DEF IInv
<1>6. QED
  BY <1>1, <1>4, <1>5

LEMMA MimeFilterKeeps == ASSUME IInv, filter_mime_list PROVE IInv'
<1>1. PICK words \in {NoMime, "cannot be read"} :
         LET mime == [i \in DOMAIN file_list |-> MimeOf(file_list[i], words)]
             kept == {i \in DOMAIN file_list :
                        /\ mime[i] # NoMime
                        /\ \E j \in DOMAIN file_list \ {i} :
                             SameRun(file_list, i, j) /\ mime[j] = mime[i]}
         IN Filter("mime", "hash", Picked(file_list, kept))
  BY DEF filter_mime_list
<1> DEFINE mime == [i \in DOMAIN file_list |-> MimeOf(file_list[i], words)]
           kept == {i \in DOMAIN file_list :
                        /\ mime[i] # NoMime
                        /\ \E j \in DOMAIN file_list \ {i} :
                             SameRun(file_list, i, j) /\ mime[j] = mime[i]}
<1>2. /\ Stage("mime", "hash") /\ file_list' = Picked(file_list, kept) /\ pc = "mime"
      /\ UNCHANGED <<idx, found, compared>>
  BY <1>1 DEF Filter, filter_mime_list, Stage
<1>3. /\ ListOK(file_list) /\ Typed
      /\ Untouched => Kept(file_list) /\ BySize(file_list)
  BY <1>2 DEF IInv, Typed, FiltersOK, Kept, Filters
<1>4. kept \in SUBSET DOMAIN file_list
  OBVIOUS
<1>5. ASSUME Untouched, NEW i \in DOMAIN file_list, file_list[i].full_path \in Twins PROVE i \in kept
  <2>1. PICK a, j : PairAt(file_list, file_list[i].full_path, a, j)
    BY <1>3, <1>5, TwinPlaces
  <2>2. a = i
    BY <1>3, <1>5, <2>1 DEF PairAt, ListOK
  <2>3. /\ j \in DOMAIN file_list \ {i} /\ file_list[i].file_size = file_list[j].file_size
        /\ Readable(file_list[i].full_path) /\ Readable(file_list[j].full_path)
        /\ Holds(file_list[i].full_path) = Holds(file_list[j].full_path)
    BY <2>1, <2>2 DEF PairAt
  <2>4. SameRun(file_list, i, j)
    BY <1>3, <1>5, <2>3, RunOfSize
  <2>5. mime[i] = mime[j] /\ mime[i] = mime_of[Holds(file_list[i].full_path)]
    BY <2>3 DEF MimeOf
  <2>6. mime[i] # NoMime
    <3>1. file_list[i].full_path \in Paths
      BY <1>3, ListLen
    <3>2. QED
      BY <1>3, <2>5, <3>1, LayoutFacts DEF Typed
  <2> HIDE DEF mime
  <2>7. QED
    BY <2>3, <2>4, <2>5, <2>6
<1> HIDE DEF kept
<1>6. ListOK(file_list')
  BY <1>2, <1>3, <1>4, PickedKeeps
<1>7. ASSUME Untouched PROVE Kept(file_list') /\ SizesRight(file_list')
  <2>1. Kept(Picked(file_list, kept))
    BY <1>3, <1>4, <1>5, <1>7, PickedKept
  <2>2. QED
    BY <1>2, <2>1 DEF Kept
<1>8. "hash" \in Filters /\ pc \notin {"delete", "exited"}
  BY <1>2 DEF Filters
<1>9. QED
  BY <1>2, <1>6, <1>7, <1>8, StageKeeps

LEMMA HashFilterKeeps == ASSUME IInv, filter_hash_list PROVE IInv'
<1>1. PICK s \in Sorted(file_list, HashOf(file_list)) :
         Filter("hash", "cmp", Picked(s, InRuns(s, HashOf(s))))
  BY DEF filter_hash_list, HashSorted
<1>2. /\ ListOK(file_list) /\ pc = "hash" /\ UNCHANGED compared
      /\ layout \in Layouts /\ content \in [Paths -> Contents]
      /\ Untouched => Kept(file_list)
  BY DEF filter_hash_list, IInv, Typed, FiltersOK, Kept, Filters
<1>3. /\ ListOK(s) /\ PathsOf(s) = PathsOf(file_list) /\ ByHash(s)
      /\ SizesRight(file_list) => SizesRight(s)
  BY <1>1, <1>2, SortedByHash
<1> DEFINE kept == InRuns(s, HashOf(s))
<1>4. /\ Stage("hash", "cmp") /\ UNCHANGED <<idx, found, compared>>
      /\ file_list' = Picked(s, kept)
  BY <1>1, <1>2 DEF Filter
<1>5. kept \in SUBSET DOMAIN s
  BY DEF InRuns
<1>6. ASSUME Untouched PROVE Kept(Picked(s, kept))
  BY <1>2, <1>3, <1>6, HashRunsKept DEF Kept
<1> HIDE DEF kept
<1>7. ListOK(file_list') /\ ByHash(file_list')
  BY <1>3, <1>4, <1>5, PickedKeeps
<1>8. "cmp" \in Filters /\ pc \notin {"delete", "exited"}
  BY <1>2 DEF Filters
<1>9. Untouched => Kept(file_list') /\ SizesRight(file_list')
  BY <1>4, <1>6 DEF Kept
<1>10. QED
  BY <1>4, <1>7, <1>8, <1>9, StageKeeps

LEMMA CompareKeeps == ASSUME IInv, filter_cmp_list PROVE IInv'
<1> DEFINE kept == {i \in DOMAIN file_list :
                      \E j \in DOMAIN file_list \ {i} :
                        /\ file_list[i].file_size = file_list[j].file_size
                        /\ files_are_identical(file_list[i].full_path, file_list[j].full_path)}
<1>1. /\ Filter("cmp", "result", Picked(file_list, kept)) /\ compared' = content
  BY DEF filter_cmp_list
<1>2. /\ UNCHANGED <<fixed, disk, edits, printout, idx, found>> /\ compared' = content
      /\ file_list' = Picked(file_list, kept) /\ pc = "cmp" /\ pc' = "result"
  BY <1>1 DEF Filter, Stage
<1>3. /\ ListOK(file_list) /\ Typed /\ DiskOK /\ idx = 1
      /\ Untouched => Kept(file_list) /\ ByHash(file_list)
  BY <1>2 DEF IInv, Typed, DiskOK, FiltersOK, Kept, Filters
<1>4. kept \in SUBSET DOMAIN file_list
  OBVIOUS
<1>5. \A i \in kept : /\ i \in DOMAIN file_list /\ file_list[i].full_path \in found
                      /\ \E q \in found \ {file_list[i].full_path} :
                           files_are_identical(file_list[i].full_path, q)
  BY <1>3 DEF ListOK
<1>6. ASSUME Untouched, NEW p \in Twins PROVE \E i \in kept : p = file_list[i].full_path
  <2>1. PICK i, j : PairAt(file_list, p, i, j)
    BY <1>3, <1>6, TwinPlaces
  <2>2. QED
    BY <2>1 DEF PairAt
<1> HIDE DEF kept
<1>7. /\ ListOK(file_list') /\ PathsOf(file_list') = {file_list[i].full_path : i \in kept}
      /\ SizesRight(file_list) => SizesRight(file_list')
      /\ ByHash(file_list) => ByHash(file_list')
  BY <1>2, <1>3, <1>4, PickedKeeps
<1>8. Typed'
  <2>1. ListOK(file_list)'
    BY <1>2, <1>7, SameFiles
  <2>2. Len(file_list') \in Nat
    BY <1>7, ListLen
  <2>3. idx' \in 1..Len(file_list') + 1
    BY <1>2, <1>3, <2>2
  <2>4. QED
    BY <1>2, <2>1, <2>3 DEF IInv, Typed, Stages, fixed, disk
<1>9. DiskOK'
  BY <1>2, <1>3 DEF DiskOK, Exists, Opens, fixed, disk
<1>10. TwinsOK'
  <2>1. SUFFICES ASSUME NEW i \in DOMAIN file_list' PROVE HadTwin(file_list[i].full_path)'
    BY DEF TwinsOK
  <2>2. PICK k \in kept : file_list'[i].full_path = file_list[k].full_path
    BY <1>7 DEF PathsOf
  <2>3. PICK q \in found \ {file_list[k].full_path} : files_are_identical(file_list[k].full_path, q)
    BY <1>5
  <2>4. content[Opens(file_list[k].full_path)] = content[Opens(q)]
    BY <2>3 DEF files_are_identical, Holds
  <2>5. QED
    BY <1>2, <2>2, <2>3, <2>4 DEF HadTwin, Opens, fixed
<1>11. RoomOK' /\ AheadOK' /\ PrintsTheSets'
  BY <1>2 DEF RoomOK, AheadOK, PrintsTheSets
<1>12. ContentsSurvive'
  BY <1>2, <1>8, <1>9, NothingLostNext
<1>13. ASSUME Untouched' PROVE FiltersOK'
  <2>1. Untouched /\ Kept(file_list) /\ ByHash(file_list)
    BY <1>2, <1>3, <1>13 DEF Untouched
  <2>2. \A i \in kept : file_list[i].full_path \in Twins
    BY <1>5, <2>1 DEF Kept, PathsOf, Twins
  <2>3. PathsOf(file_list') = Twins
    BY <1>6, <1>7, <2>1, <2>2
  <2>4. SizesRight(file_list') /\ ByHash(file_list')
    BY <1>7, <2>1 DEF Kept
  <2>5. QED
    BY <1>2, <2>3, <2>4, SameFiles DEF FiltersOK, Filters
<1>14. QED
  BY <1>8, <1>9, <1>10, <1>11, <1>12, <1>13 DEF IInv

\* Another process writes: what holds only of untouched files is given up,
\* what the files held when they were compared is not.
LEMMA EditKeeps == ASSUME IInv, NEW f \in Rewritable, Edit(f) PROVE IInv'
<1>1. /\ edits < MaxEdits /\ edits' = edits + 1 /\ f \in present
      /\ compared' = IF pc \in {"result", "delete"} THEN compared ELSE content'
      /\ UNCHANGED <<fixed, present, pc, file_list, idx, found, printout>>
  BY DEF Edit
<1>2. PICK c \in Contents : content' = [content EXCEPT ![f] = c]
  BY DEF Edit
<1>3. Typed
  BY DEF IInv
<1>4. content' \in [Paths -> Contents]
  BY <1>1, <1>2, <1>3 DEF Typed
<1>5. edits \in Nat /\ edits' \in 0..MaxEdits /\ edits' # 0
  BY <1>1, <1>3, DupesAssumption DEF Typed
<1>6. Typed'
  <2>1. ListOK(file_list)'
    BY <1>1, <1>3 DEF Typed, ListOK
  <2>2. compared' \in [Paths -> Contents]
    BY <1>1, <1>3, <1>4 DEF Typed
  <2>3. QED
    BY <1>1, <1>3, <1>4, <1>5, <2>1, <2>2 DEF Typed, fixed
<1>7. DiskOK'
  BY <1>1 DEF IInv, DiskOK, Exists, Opens, fixed
<1>8. TwinsOK'
  BY <1>1 DEF IInv, TwinsOK, HadTwin, Opens, fixed
<1>9. RoomOK'
  BY <1>1 DEF IInv, RoomOK
<1>10. ~Untouched'
  BY <1>5 DEF Untouched
<1>11. AheadOK' /\ ContentsSurvive' /\ PrintsTheSets'
  BY <1>10 DEF AheadOK, ContentsSurvive, PrintsTheSets
<1>12. QED
  BY <1>6, <1>7, <1>8, <1>9, <1>10, <1>11 DEF IInv

-----------------------------------------------------------------------------
(* The deletion *)

LEMMA ResultKeeps == ASSUME IInv, Result PROVE IInv'
<1>1. /\ UNCHANGED <<fixed, disk, edits, printout, file_list, idx, found, compared>>
      /\ pc = "result" /\ pc' = "delete"
  BY DEF Result, Stage
<1>2. Typed /\ DiskOK /\ idx = 1 /\ ContentsSurvive /\ \A p \in found : Exists(p)
  BY <1>1 DEF IInv, DiskOK
<1>3. Typed'
  BY <1>1, <1>2, SameFiles DEF Typed, Stages, fixed, disk
<1>4. TwinsOK'
  BY <1>1 DEF IInv, TwinsOK, HadTwin, Opens, fixed
<1>5. ASSUME Plain' PROVE \A j \in idx'..Len(file_list') : file_list'[j].full_path \in present'
  <2>1. SUFFICES ASSUME NEW j \in idx'..Len(file_list') PROVE file_list[j].full_path \in present
    BY <1>1 DEF disk
  <2>2. j \in DOMAIN file_list
    <3>1. DOMAIN file_list = 1..Len(file_list) /\ Len(file_list) \in Nat
      BY <1>2, ListLen DEF Typed
    <3>2. QED
      BY <1>1, <1>2, <3>1
  <2>3. file_list[j].full_path \in found /\ file_list[j].full_path \in Paths
    BY <1>2, <2>2, ListLen DEF Typed, ListOK
  <2>4. Plain
    BY <1>1, <1>5 DEF Plain, fixed
  <2>5. layout.entry[file_list[j].full_path] = file_list[j].full_path
    BY <1>2, <2>3, <2>4, LayoutFacts DEF Typed
  <2>6. QED
    BY <1>2, <2>3, <2>5 DEF Exists
<1>6. AheadOK'
  BY <1>5 DEF AheadOK
<1>7. ContentsSurvive'
  BY <1>1, <1>2 DEF ContentsSurvive, Untouched, Plain, SetsApart, ContentLeft, Holds, Opens, fixed, disk
<1>8. DiskOK' /\ RoomOK' /\ PrintsTheSets' /\ FiltersOK'
  BY <1>1 DEF DiskOK, RoomOK, PrintsTheSets, FiltersOK, Filters
<1>9. QED
  BY <1>3, <1>4, <1>6, <1>7, <1>8 DEF IInv

\* The group at idx lies between idx and the place where the next one starts.
LEMMA GroupFacts ==
    ASSUME Typed, idx <= Len(file_list)
    PROVE  /\ idx \in Group /\ Group \subseteq DOMAIN file_list /\ Group \subseteq idx..Len(file_list)
           /\ idx + Cardinality(Group) \in 1..Len(file_list) + 1
           /\ \A j \in Group : j < idx + Cardinality(Group)
           /\ idx < idx + Cardinality(Group)
<1> DEFINE n == Len(file_list)
           c == Cardinality(Group)
<1>1. n \in Nat /\ DOMAIN file_list = 1..n /\ idx \in 1..n
  BY ListLen DEF Typed
<1>2. idx \in Group /\ Group \subseteq idx..n /\ Group \subseteq DOMAIN file_list
  <2>1. SameRun(file_list, idx, idx)
    <3>1. \A k \in (idx..idx) \cup (idx..idx) : k = idx
      BY <1>1
    <3>2. QED
      BY <3>1 DEF SameRun
  <2>2. Group \subseteq idx..n
    BY DEF Group
  <2>3. idx \in idx..n /\ idx..n \subseteq 1..n
    BY <1>1
  <2>4. QED
    BY <1>1, <2>1, <2>2, <2>3 DEF Group
<1>3. IsFiniteSet(Group) /\ c <= n - idx + 1 /\ c \in Nat
  <2>1. idx \in Int /\ n \in Int /\ ~(idx > n)
    BY <1>1
  <2>2. IsFiniteSet(idx..n) /\ Cardinality(idx..n) = n - idx + 1
    BY <2>1, FS_Interval
  <2>3. IsFiniteSet(Group) /\ c <= Cardinality(idx..n)
    BY <1>2, <2>2, FS_Subset
  <2>4. c \in Nat
    BY <2>3, FS_CardinalityType
  <2>5. QED
    BY <2>2, <2>3, <2>4
<1>4. ASSUME NEW j \in Group PROVE j - idx + 1 <= c
  <2>1. j \in idx..n /\ SameRun(file_list, idx, j)
    BY DEF Group
  <2>2. idx..j \subseteq Group
    <3>1. SUFFICES ASSUME NEW k \in idx..j PROVE k \in Group
      OBVIOUS
    <3>2. k \in idx..n
      BY <1>1, <2>1
    <3>3. \A l \in (idx..k) \cup (k..idx) : l \in (idx..j) \cup (j..idx)
      BY <1>1, <2>1
    <3>4. SameRun(file_list, idx, k)
      BY <2>1, <3>3 DEF SameRun
    <3>5. QED
      BY <3>2, <3>4 DEF Group
  <2>3. idx \in Int /\ j \in Int /\ ~(idx > j)
    BY <1>1, <2>1
  <2>4. Cardinality(idx..j) = j - idx + 1
    BY <2>3, FS_Interval
  <2>5. Cardinality(idx..j) <= c
    BY <1>3, <2>2, FS_Subset
  <2>6. QED
    BY <2>4, <2>5
<1>5. \A j \in Group : j < idx + c
  <2>1. SUFFICES ASSUME NEW j \in Group PROVE j < idx + c
    OBVIOUS
  <2>2. j \in Int /\ j - idx + 1 <= c
    BY <1>1, <1>2, <1>4
  <2> HIDE DEF c
  <2>3. QED
    BY <1>1, <1>3, <2>2
<1>6. idx + c \in 1..n + 1 /\ idx < idx + c
  <2>1. idx < idx + c
    BY <1>2, <1>5
  <2> HIDE DEF c
  <2>2. QED
    BY <1>1, <1>3, <2>1
<1>7. QED
  BY <1>2, <1>5, <1>6

\* Where sets do not meet, the files of a group hold the same.
LEMMA GroupHolds ==
    ASSUME Typed, SetsApart, idx <= Len(file_list), NEW j \in Group
    PROVE  Holds(file_list[j].full_path) = Holds(file_list[idx].full_path)
<1> DEFINE h == [k \in DOMAIN file_list |-> Holds(file_list[k].full_path)]
<1>1. /\ Len(file_list) \in Nat /\ DOMAIN file_list = 1..Len(file_list)
      /\ idx \in 1..Len(file_list) /\ j \in idx..Len(file_list)
  BY ListLen DEF Typed, Group
<1>2. \A k \in idx..j : k \in DOMAIN file_list /\ file_list[k].file_size = file_list[idx].file_size
  <2>1. \A k \in idx..j : file_list[k].file_size = file_list[idx].file_size
    BY DEF Group, SameRun
  <2>2. \A k \in idx..j : k \in DOMAIN file_list
    BY <1>1
  <2>3. QED
    BY <2>1, <2>2
<1>3. ASSUME NEW k \in idx..j - 1 PROVE h[k] = h[k + 1]
  <2>1. k \in idx..j /\ k + 1 \in idx..j /\ k \in 1..Len(file_list) - 1
    BY <1>1
  <2>2. file_list[k].file_size = file_list[k + 1].file_size
    BY <1>2, <2>1
  <2>3. Holds(file_list[k].full_path) = Holds(file_list[k + 1].full_path)
    BY <2>1, <2>2 DEF SetsApart
  <2>4. k \in DOMAIN file_list /\ k + 1 \in DOMAIN file_list
    BY <1>2, <2>1
  <2>5. QED
    BY <2>3, <2>4
<1>4. idx \in Nat /\ j \in Nat /\ idx <= j /\ idx \in DOMAIN file_list /\ j \in DOMAIN file_list
  BY <1>1
<1>5. h[j] = Holds(file_list[j].full_path) /\ h[idx] = Holds(file_list[idx].full_path)
  BY <1>4
<1> HIDE DEF h
<1>6. h[idx] = h[j]
  BY <1>3, <1>4, ChainEqual
<1>7. QED
  BY <1>5, <1>6

\* Going on to the next group without removing anything.
LEMMA PassKeeps ==
    ASSUME IInv, pc = "delete", idx <= Len(file_list), Deleting("delete"), NextGroup, UNCHANGED present
    PROVE  IInv'
<1>1. /\ UNCHANGED <<fixed, disk, edits, printout, file_list, found, compared>>
      /\ pc' = "delete" /\ idx' = idx + Cardinality(Group)
  BY DEF Deleting, NextGroup, aside, disk
<1>2. Typed /\ idx < idx' /\ idx' \in 1..Len(file_list) + 1 /\ idx \in Nat /\ Len(file_list) \in Nat
  BY <1>1, GroupFacts, ListLen DEF IInv, Typed
<1>3. Typed'
  BY <1>1, <1>2, SameFiles DEF Typed, fixed, disk
<1>4. TwinsOK'
  BY <1>1 DEF IInv, TwinsOK, HadTwin, Opens, fixed
<1>5. \A j \in idx'..Len(file_list) : j \in idx..Len(file_list)
  BY <1>2
<1>6. AheadOK'
  BY <1>1, <1>5 DEF IInv, AheadOK, Untouched, Plain, SetsApart, Holds, Opens, fixed, disk
<1>7. ContentsSurvive'
  BY <1>1 DEF IInv, ContentsSurvive, Untouched, Plain, SetsApart, ContentLeft, Holds, Opens, fixed, disk
<1>8. DiskOK' /\ RoomOK' /\ PrintsTheSets' /\ FiltersOK'
  BY <1>1 DEF DiskOK, RoomOK, PrintsTheSets, FiltersOK, Filters
<1>9. QED
  BY <1>3, <1>4, <1>6, <1>7, <1>8 DEF IInv

LEMMA SkipKeeps == ASSUME IInv, SkipSingle PROVE IInv'
<1>1. pc = "delete" /\ idx <= Len(file_list) /\ Deleting("delete") /\ NextGroup /\ UNCHANGED present
  BY DEF SkipSingle, Deleting
<1>2. QED
  BY <1>1, PassKeeps

LEMMA DeclineKeeps == ASSUME IInv, Decline PROVE IInv'
<1>1. CASE Deleting("delete") /\ NextGroup
  <2>1. pc = "delete" /\ idx <= Len(file_list) /\ UNCHANGED present
    BY <1>1 DEF Decline, Deleting
  <2>2. QED
    BY <1>1, <2>1, PassKeeps
<1>2. CASE Deleting("exited") /\ UNCHANGED idx
  <2>1. pc' = "exited" /\ UNCHANGED <<fixed, disk, edits, printout, file_list, idx, found, compared>>
    BY <1>2 DEF Decline, Deleting, aside, disk
  <2>2. QED
    BY <2>1, ExitKeeps
<1>3. QED
  BY <1>1, <1>2 DEF Decline

LEMMA EndKeeps == ASSUME IInv, DeletionEnds PROVE IInv'
<1>1. pc' = "exited" /\ UNCHANGED <<fixed, disk, edits, printout, file_list, idx, found, compared>>
  BY DEF DeletionEnds, Deleting, aside, disk
<1>2. QED
  BY <1>1, ExitKeeps

\* What a step of the deletion takes away: entries of files of one group, of
\* which one stays.
LEMMA Removal ==
    ASSUME Typed, DeleteGroup
    PROVE  \E keep \in Group : \E removed \in SUBSET (Group \ {keep}) :
             present' = present \ {layout.entry[file_list[j].full_path] : j \in removed}
<1>1. PICK keep \in MayKeep : \E removed \in SUBSET (Group \ {keep}) :
             present' = present \ {layout.entry[file_list[j].full_path] : j \in removed}
  BY DEF DeleteGroup
<1>2. keep \in Group
  <2>1. idx \in Group
    BY GroupFacts DEF DeleteGroup
  <2>2. QED
    BY <2>1 DEF MayKeep
<1>3. QED
  BY <1>1, <1>2

LEMMA DeleteKeeps == ASSUME IInv, DeleteGroup PROVE IInv'
<1>1. /\ UNCHANGED <<fixed, content, edits, printout, file_list, found, compared>>
      /\ pc = "delete" /\ pc' = "delete" /\ idx' = idx + Cardinality(Group)
      /\ idx <= Len(file_list)
  BY DEF DeleteGroup, Deleting, NextGroup, aside
<1>2. Typed /\ ListOK(file_list) /\ AheadOK /\ ContentsSurvive
  BY DEF IInv, Typed
<1>3. PICK keep \in Group : \E removed \in SUBSET (Group \ {keep}) :
             present' = present \ {layout.entry[file_list[j].full_path] : j \in removed}
  BY <1>2, Removal
<1>4. PICK removed \in SUBSET (Group \ {keep}) :
             present' = present \ {layout.entry[file_list[j].full_path] : j \in removed}
  BY <1>3
<1>5. /\ idx \in Group /\ Group \subseteq DOMAIN file_list /\ Group \subseteq idx..Len(file_list)
      /\ \A j \in Group : j < idx'
      /\ idx < idx' /\ idx' \in 1..Len(file_list) + 1 /\ idx \in Nat /\ Len(file_list) \in Nat
  BY <1>1, <1>2, GroupFacts, ListLen DEF Typed
<1>6. Typed'
  <2>1. ListOK(file_list)'
    BY <1>1, <1>2 DEF ListOK
  <2>2. QED
    BY <1>1, <1>2, <1>4, <1>5, <2>1 DEF Typed, fixed
<1>7. TwinsOK'
  BY <1>1 DEF IInv, TwinsOK, HadTwin, Opens, fixed
\* Without links, what is removed are files of the group other than the one kept.
<1>8. ASSUME Plain, NEW i \in DOMAIN file_list, i \notin removed, file_list[i].full_path \in present
      PROVE  file_list[i].full_path \in present'
  <2>1. \A j \in removed : j \in DOMAIN file_list /\ layout.entry[file_list[j].full_path] = file_list[j].full_path
    BY <1>2, <1>5, <1>8, ListLen, LayoutFacts DEF Typed
  <2>2. \A j \in removed : layout.entry[file_list[j].full_path] # file_list[i].full_path
    BY <1>2, <1>8, <2>1 DEF ListOK
  <2>3. QED
    BY <1>4, <1>8, <2>2
<1>9. AheadOK'
  <2>1. SUFFICES ASSUME Untouched, Plain, SetsApart, NEW j \in idx'..Len(file_list)
                 PROVE  file_list[j].full_path \in present'
    BY <1>1 DEF AheadOK, Untouched, Plain, SetsApart, Holds, Opens, fixed
  <2>2. j \in idx..Len(file_list) /\ ~(j < idx') /\ j \in DOMAIN file_list
    <3>1. DOMAIN file_list = 1..Len(file_list)
      BY <1>2, ListLen
    <3>2. idx' \in Nat
      BY <1>5
    <3>3. QED
      BY <1>2, <1>5, <2>1, <3>1, <3>2 DEF Typed
  <2>3. file_list[j].full_path \in present
    BY <1>1, <1>2, <2>1, <2>2 DEF AheadOK
  <2>4. j \notin removed
    BY <1>4, <1>5, <2>2
  <2>5. QED
    BY <1>8, <2>1, <2>2, <2>3, <2>4
<1>10. ContentsSurvive'
  <2>1. SUFFICES ASSUME Untouched, Plain, SetsApart, NEW p \in found
                 PROVE  \E q \in present' : content[q] = content[p]
    BY <1>1 DEF ContentsSurvive, ContentLeft, Untouched, Plain, SetsApart, Holds, Opens, fixed
  <2>2. PICK q \in present : content[q] = content[p]
    BY <1>2, <2>1 DEF ContentsSurvive, ContentLeft
  <2>3. CASE q \in present'
    BY <2>2, <2>3
  <2>4. CASE q \notin present'
    <3>1. PICK j \in removed : q = layout.entry[file_list[j].full_path]
      BY <1>4, <2>2, <2>4
    <3>2. j \in Group /\ j \in DOMAIN file_list /\ keep \in DOMAIN file_list /\ keep \notin removed
      BY <1>4, <1>5, <3>1
    <3>3. Holds(file_list[keep].full_path) = Holds(file_list[j].full_path)
      BY <1>1, <1>2, <2>1, <3>2, GroupHolds
    <3>4. /\ file_list[j].full_path \in Paths /\ file_list[keep].full_path \in Paths
          /\ q = file_list[j].full_path
          /\ content[file_list[keep].full_path] = Holds(file_list[keep].full_path)
          /\ content[file_list[j].full_path] = Holds(file_list[j].full_path)
      BY <1>2, <2>1, <3>1, <3>2, ListLen, LayoutFacts DEF Typed
    <3>5. file_list[keep].full_path \in present'
      <4>1. keep \in idx..Len(file_list)
        BY <1>5
      <4>2. file_list[keep].full_path \in present
        BY <1>1, <1>2, <2>1, <4>1 DEF AheadOK
      <4>3. QED
        BY <1>8, <2>1, <3>2, <4>2
    <3>6. QED
      BY <2>2, <3>3, <3>4, <3>5
  <2>5. QED
    BY <2>3, <2>4
<1>11. DiskOK' /\ RoomOK' /\ PrintsTheSets' /\ FiltersOK'
  BY <1>1 DEF DiskOK, RoomOK, PrintsTheSets, FiltersOK, Filters
<1>12. QED
  BY <1>6, <1>7, <1>9, <1>10, <1>11 DEF IInv

-----------------------------------------------------------------------------
(* Printing *)

Listed == PathsOf(file_list)

SetOf(p) == {q \in Listed : files_are_identical(p, q)}

Sets == {SetOf(p) : p \in Listed}

\* The filters are done, no hash collides and sets of one size do not meet.
Ready == Typed /\ FiltersOK /\ pc = "result" /\ NoCollision /\ SetsApart

\* In such a list the runs of one size are the sets of equal files.
LEMMA RunIffSame ==
    ASSUME Ready, NEW i \in DOMAIN file_list, NEW j \in DOMAIN file_list
    PROVE  SameRun(file_list, i, j) <=> files_are_identical(file_list[i].full_path, file_list[j].full_path)
<1> DEFINE n == Len(file_list)
           h == [k \in DOMAIN file_list |-> Holds(file_list[k].full_path)]
<1>1. /\ n \in Nat /\ DOMAIN file_list = 1..n /\ ListOK(file_list)
      /\ i \in 1..n /\ j \in 1..n
      /\ layout \in Layouts /\ content \in [Paths -> Contents]
      /\ SizesRight(file_list) /\ ByHash(file_list) /\ Listed = Twins
  BY ListLen DEF Ready, Typed, FiltersOK, Listed, Filters
<1>2. \A k \in DOMAIN file_list : Readable(file_list[k].full_path)
  BY <1>1 DEF Listed, PathsOf, Twins, files_are_identical
<1>3. ASSUME NEW a \in 1..n, NEW b \in 1..n, a <= b,
             \A k \in a..b : file_list[k].file_size = file_list[i].file_size
      PROVE  h[a] = h[b]
  <2>1. ASSUME NEW k \in a..b - 1 PROVE h[k] = h[k + 1]
    <3>1. k \in a..b /\ k + 1 \in a..b /\ k \in 1..n - 1 /\ k \in 1..n /\ k + 1 \in 1..n
      BY <1>1, <1>3
    <3>2. file_list[k].file_size = file_list[k + 1].file_size
      BY <1>3, <3>1
    <3>3. Holds(file_list[k].full_path) = Holds(file_list[k + 1].full_path)
      BY <3>1, <3>2 DEF Ready, SetsApart
    <3>4. QED
      BY <1>1, <3>1, <3>3
  <2>2. a \in Nat /\ b \in Nat
    BY <1>1
  <2> HIDE DEF h
  <2>3. QED
    BY <1>3, <2>1, <2>2, ChainEqual
<1>4. h[i] = Holds(file_list[i].full_path) /\ h[j] = Holds(file_list[j].full_path)
  OBVIOUS
<1>5. ASSUME SameRun(file_list, i, j) PROVE h[i] = h[j]
  <2>1. \A k \in (i..j) \cup (j..i) : file_list[k].file_size = file_list[i].file_size
    BY <1>5 DEF SameRun
  <2>2. CASE i <= j
    BY <1>1, <1>3, <2>1, <2>2
  <2>3. CASE ~(i <= j)
    <3>1. j <= i
      BY <1>1, <2>3
    <3>2. QED
      BY <1>1, <1>3, <2>1, <3>1
  <2>4. QED
    BY <2>2, <2>3
<1>6. ASSUME Holds(file_list[i].full_path) = Holds(file_list[j].full_path)
      PROVE  SameRun(file_list, i, j)
  <2>1. SUFFICES ASSUME NEW k \in (i..j) \cup (j..i)
                 PROVE  file_list[k].file_size = file_list[i].file_size
    BY DEF SameRun
  <2>2. Hash(file_list[i]) = Hash(file_list[j])
    BY <1>2, <1>6 DEF Hash
  <2>3. k \in DOMAIN file_list /\ Hash(file_list[k]) = Hash(file_list[i])
    <3>1. CASE i = j
      BY <1>1, <2>1, <3>1
    <3>2. CASE i # j
      BY <1>1, <2>1, <2>2, <3>2, RunOfHash
    <3>3. QED
      BY <3>1, <3>2
  <2>4. hash_of[Holds(file_list[k].full_path)] = hash_of[Holds(file_list[i].full_path)]
    BY <1>2, <2>3 DEF Hash
  <2>5. Holds(file_list[k].full_path) = Holds(file_list[i].full_path)
    BY <2>3, <2>4 DEF Ready, NoCollision
  <2>6. QED
    BY <1>1, <2>3, <2>5 DEF SizesRight
<1>7. QED
  BY <1>2, <1>4, <1>5, <1>6 DEF files_are_identical

LEMMA SetOfRun ==
    ASSUME Ready, NEW i \in DOMAIN file_list
    PROVE  {file_list[j].full_path : j \in {k \in DOMAIN file_list : SameRun(file_list, i, k)}}
             = SetOf(file_list[i].full_path)
<1> DEFINE G == {file_list[j].full_path : j \in {k \in DOMAIN file_list : SameRun(file_list, i, k)}}
           p == file_list[i].full_path
<1>1. \A j \in DOMAIN file_list : SameRun(file_list, i, j) <=> files_are_identical(p, file_list[j].full_path)
  BY RunIffSame
<1>2. \A q : q \in G <=> \E j \in DOMAIN file_list : q = file_list[j].full_path /\ SameRun(file_list, i, j)
  OBVIOUS
<1>3. \A q : q \in SetOf(p) <=> \E j \in DOMAIN file_list : q = file_list[j].full_path /\ files_are_identical(p, q)
  BY DEF SetOf, Listed, PathsOf
<1> HIDE DEF G, p
<1>4. \A q : q \in G <=> q \in SetOf(p)
  BY <1>1, <1>2, <1>3
<1>5. G = SetOf(p)
  BY <1>4
<1>6. QED
  BY <1>5 DEF G, p

LEMMA GroupsAreSets == ASSUME Ready PROVE Groups = Sets
<1> DEFINE G(i) == {file_list[j].full_path : j \in {k \in DOMAIN file_list : SameRun(file_list, i, k)}}
<1>1. \A i \in DOMAIN file_list : G(i) = SetOf(file_list[i].full_path)
  BY SetOfRun
<1>2. Groups = {G(i) : i \in DOMAIN file_list}
  BY DEF Groups
<1> HIDE DEF G
<1>3. \A g : g \in Groups <=> \E i \in DOMAIN file_list : g = SetOf(file_list[i].full_path)
  BY <1>1, <1>2
<1>4. \A g : g \in Sets <=> \E i \in DOMAIN file_list : g = SetOf(file_list[i].full_path)
  BY DEF Sets, Listed, PathsOf
<1>5. QED
  BY <1>3, <1>4

\* Each of the sets has two files or more.
LEMMA SetsArePairs ==
    ASSUME Ready, NEW g \in Sets
    PROVE  Cardinality(g) > 1
<1>1. PICK p \in Listed : g = SetOf(p)
  BY DEF Sets
<1>2. Listed = Twins /\ Twins \subseteq Paths
  BY DEF Ready, FiltersOK, Listed, Twins, Fits, Typed, Filters
<1>3. PICK q \in Twins \ {p} : files_are_identical(p, q)
  BY <1>1, <1>2, TwinsPair
<1>4. p \in g /\ q \in g /\ p # q
  BY <1>1, <1>2, <1>3 DEF SetOf, files_are_identical
<1>5. IsFiniteSet(g)
  <2>1. g \subseteq Paths
    BY <1>1, <1>2 DEF SetOf
  <2>2. QED
    BY <2>1, DupesAssumption, FS_Subset
<1>6. {p, q} \subseteq g
  BY <1>4
<1>7. Cardinality({p, q}) = 2
  <2>1. IsFiniteSet({p}) /\ Cardinality({p}) = 1
    BY FS_Singleton
  <2>2. Cardinality({p} \cup {q}) = Cardinality({p}) + 1
    BY <1>4, <2>1, FS_AddElement
  <2>3. {p} \cup {q} = {p, q}
    OBVIOUS
  <2>4. QED
    BY <2>1, <2>2, <2>3
<1>8. Cardinality({p, q}) <= Cardinality(g) /\ Cardinality(g) \in Nat
  BY <1>5, <1>6, FS_Subset, FS_CardinalityType
<1>9. QED
  BY <1>7, <1>8

\* The firsts of the runs and the sets are as many as one another.
Firsts == DOMAIN file_list \ Spare(file_list)

LEMMA FirstOfEach ==
    ASSUME Ready, NEW i \in DOMAIN file_list
    PROVE  \E k \in Firsts : SetOf(file_list[k].full_path) = SetOf(file_list[i].full_path)
<1> DEFINE n == Len(file_list)
           Run == {k \in DOMAIN file_list : SameRun(file_list, i, k)}
<1>1. n \in Nat /\ DOMAIN file_list = 1..n /\ i \in 1..n
  BY ListLen DEF Ready, Typed
<1>2. i \in Run /\ Run \in SUBSET Nat
  <2>1. \A l \in (i..i) \cup (i..i) : l = i
    BY <1>1
  <2>2. QED
    BY <1>1, <2>1 DEF SameRun
<1>3. PICK k \in Run : \A l \in Run : k <= l
  <2> HIDE DEF Run
  <2>1. QED
    BY <1>2, Smallest
<1>4. k \in 1..n /\ SameRun(file_list, i, k) /\ k <= i
  BY <1>1, <1>2, <1>3
<1>5. k \in Firsts
  <2>1. SUFFICES ASSUME k \in Spare(file_list) PROVE FALSE
    BY <1>1, <1>4 DEF Firsts
  <2>2. k \in 2..n /\ file_list[k - 1].file_size = file_list[k].file_size
    BY <2>1 DEF Spare
  <2>3. k - 1 \in 1..n /\ ~(k <= k - 1)
    BY <1>1, <2>2
  <2>4. file_list[k].file_size = file_list[i].file_size
    <3>1. k \in (i..k) \cup (k..i)
      BY <1>1, <1>4
    <3>2. QED
      BY <1>4, <3>1 DEF SameRun
  <2>5. \A l \in (i..k - 1) \cup (k - 1..i) : l = k - 1 \/ l \in (i..k) \cup (k..i)
    BY <1>1, <1>4
  <2>6. SameRun(file_list, i, k - 1)
    BY <1>4, <2>2, <2>4, <2>5 DEF SameRun
  <2>7. QED
    BY <1>1, <1>3, <2>3, <2>6
<1>6. files_are_identical(file_list[i].full_path, file_list[k].full_path)
  BY <1>1, <1>4, RunIffSame
<1>7. SetOf(file_list[k].full_path) = SetOf(file_list[i].full_path)
  BY <1>6 DEF SetOf, files_are_identical
<1>8. QED
  BY <1>5, <1>7

LEMMA FirstsApart ==
    ASSUME Ready, NEW i \in Firsts, NEW j \in Firsts,
           SetOf(file_list[i].full_path) = SetOf(file_list[j].full_path)
    PROVE  i = j
<1> DEFINE n == Len(file_list)
<1>1. n \in Nat /\ DOMAIN file_list = 1..n /\ i \in 1..n /\ j \in 1..n
  BY ListLen DEF Ready, Typed, Firsts
<1>2. \A k \in DOMAIN file_list : file_list[k].full_path \in Listed /\ Readable(file_list[k].full_path)
  BY DEF Ready, FiltersOK, Listed, PathsOf, Twins, files_are_identical, Filters
<1>3. files_are_identical(file_list[i].full_path, file_list[j].full_path)
  <2>1. file_list[j].full_path \in SetOf(file_list[j].full_path)
    BY <1>1, <1>2 DEF SetOf, files_are_identical
  <2>2. QED
    BY <2>1 DEF SetOf
<1>4. SameRun(file_list, i, j) /\ SameRun(file_list, j, i)
  BY <1>1, <1>3, RunIffSame DEF files_are_identical
<1>5. ASSUME NEW a \in Firsts, NEW b \in Firsts, a \in 1..n, b \in 1..n, a < b, SameRun(file_list, a, b)
      PROVE  FALSE
  <2>1. b - 1 \in a..b /\ b \in a..b /\ b \in 2..n
    BY <1>1, <1>5
  <2>2. file_list[b - 1].file_size = file_list[b].file_size
    BY <1>5, <2>1 DEF SameRun
  <2>3. b \in Spare(file_list)
    BY <2>1, <2>2 DEF Spare
  <2>4. QED
    BY <2>3 DEF Firsts
<1>6. ~(i < j) /\ ~(j < i)
  BY <1>1, <1>4, <1>5
<1>7. QED
  BY <1>1, <1>6

LEMMA CountSets ==
    ASSUME Ready
    PROVE  Cardinality(Spare(file_list)) = Cardinality(Listed) - Cardinality(Sets)
<1> DEFINE n == Len(file_list)
           D == DOMAIN file_list
           S == Spare(file_list)
           F == Firsts
<1>1. n \in Nat /\ D = 1..n /\ ListOK(file_list)
  BY ListLen DEF Ready, Typed
<1>2. IsFiniteSet(D)
  <2>1. 1 \in Int /\ n \in Int
    BY <1>1
  <2>2. IsFiniteSet(1..n)
    BY <2>1, FS_Interval
  <2>3. QED
    BY <1>1, <2>2
<1>3. Cardinality(Listed) = Cardinality(D)
  <2> DEFINE f == [i \in D |-> file_list[i].full_path]
  <2>1. f \in Bijection(D, Listed)
    <3>1. f \in [D -> Listed]
      BY DEF Listed, PathsOf
    <3>2. \A i, j \in D : f[i] = f[j] => i = j
      BY <1>1 DEF ListOK
    <3>3. \A p \in Listed : \E i \in D : f[i] = p
      BY DEF Listed, PathsOf
    <3> HIDE DEF f, D
    <3>4. QED
      BY <3>1, <3>2, <3>3 DEF Bijection, Injection, Surjection, IsInjective
  <2>2. ExistsBijection(D, Listed)
    BY <2>1 DEF ExistsBijection
  <2> HIDE DEF f, D
  <2>3. QED
    BY <1>2, <2>2, FS_Bijection
<1>4. Cardinality(Sets) = Cardinality(F)
  <2> DEFINE f == [i \in F |-> SetOf(file_list[i].full_path)]
  <2>1. f \in Bijection(F, Sets)
    <3>1. f \in [F -> Sets]
      BY DEF Firsts, Sets, Listed, PathsOf
    <3>2. \A i, j \in F : f[i] = f[j] => i = j
      BY FirstsApart
    <3>3. ASSUME NEW g \in Sets PROVE \E i \in F : f[i] = g
      <4>1. PICK i \in DOMAIN file_list : g = SetOf(file_list[i].full_path)
        BY DEF Sets, Listed, PathsOf
      <4>2. QED
        BY <4>1, FirstOfEach
    <3> HIDE DEF f, F
    <3>4. QED
      BY <3>1, <3>2, <3>3 DEF Bijection, Injection, Surjection, IsInjective
  <2>2. ExistsBijection(F, Sets)
    BY <2>1 DEF ExistsBijection
  <2>3. IsFiniteSet(F)
    BY <1>2, FS_Subset DEF Firsts
  <2> HIDE DEF f, F
  <2>4. QED
    BY <2>2, <2>3, FS_Bijection
<1>5. S \subseteq D
  BY <1>1 DEF Spare
<1>6. F = D \ S
  BY DEF Firsts
<1> HIDE DEF D, S, F
<1>7. IsFiniteSet(S) /\ IsFiniteSet(F) /\ Cardinality(S) \in Nat /\ Cardinality(F) \in Nat /\ Cardinality(D) \in Nat
  BY <1>2, <1>5, <1>6, FS_Subset, FS_CardinalityType
<1>8. D \cap S = S
  BY <1>5
<1>9. Cardinality(F) = Cardinality(D) - Cardinality(S)
  BY <1>2, <1>6, <1>8, FS_Difference
<1>10. Cardinality(S) = Cardinality(D) - Cardinality(F)
  <2> DEFINE d == Cardinality(D)
             s == Cardinality(S)
             f == Cardinality(F)
  <2>1. f = d - s /\ d \in Int /\ s \in Int
    BY <1>7, <1>9
  <2> HIDE DEF d, s, f
  <2>2. s = d - f
    BY <2>1
  <2>3. QED
    BY <2>2 DEF d, s, f
<1>11. QED
  BY <1>3, <1>4, <1>10 DEF S

PrintedRight ==
    IF opts.summary THEN summary = <<Cardinality(Sets), Cardinality(Listed) - Cardinality(Sets)>>
                    ELSE listing = Sets

LEMMA ListedIs == {e.full_path : e \in ToSet(file_list)} = Listed
<1>1. \A p : p \in {e.full_path : e \in ToSet(file_list)} <=> \E i \in DOMAIN file_list : p = file_list[i].full_path
  BY DEF ToSet
<1>2. \A p : p \in Listed <=> \E i \in DOMAIN file_list : p = file_list[i].full_path
  BY DEF Listed, PathsOf
<1>3. QED
  BY <1>1, <1>2

\* The sets that PrintsTheSets speaks of, by their names here.
PrintsSets == pc = "printed" /\ Untouched /\ NoCollision /\ SetsApart => PrintedRight

LEMMA PrintsIs == PrintsTheSets <=> PrintsSets
<1> DEFINE paths == {e.full_path : e \in ToSet(file_list)}
           sets == {{q \in paths : files_are_identical(p, q)} : p \in paths}
           printed == IF opts.summary
                      THEN summary = <<Cardinality(sets), Cardinality(paths) - Cardinality(sets)>>
                      ELSE listing = sets
<1>1. paths = Listed
  BY ListedIs
<1> HIDE DEF paths
<1>2. sets = Sets
  BY <1>1 DEF Sets, SetOf
<1> HIDE DEF sets
<1>3. printed <=> PrintedRight
  BY <1>1, <1>2 DEF PrintedRight
<1> HIDE DEF printed
<1>4. PrintsTheSets <=> (pc = "printed" /\ Untouched /\ NoCollision /\ SetsApart => printed)
  BY DEF PrintsTheSets, paths, sets, printed
<1>5. QED
  BY <1>3, <1>4 DEF PrintsSets

LEMMA PrintsIsNext == (PrintsTheSets <=> PrintsSets)'
BY PrintsIs, PTL

\* The two ways to print leave everything but what they print.
LEMMA PrintKeeps ==
    ASSUME IInv, Printing, Ready => PrintedRight'
    PROVE  IInv'
<1>1. /\ UNCHANGED <<fixed, disk, edits, file_list, idx, found, compared>>
      /\ pc = "result" /\ pc' = "printed"
  BY DEF Printing, aside
<1>2. Typed /\ DiskOK
  BY DEF IInv
<1>3. Typed'
  BY <1>1, <1>2, SameFiles DEF Typed, Stages, fixed, disk
<1>4. DiskOK'
  BY <1>1 DEF IInv, DiskOK, Exists, Opens, fixed, disk
<1>5. ContentsSurvive'
  BY <1>1, <1>3, <1>4, NothingLostNext
<1>6. PrintsTheSets'
  <2>1. CASE Untouched /\ NoCollision /\ SetsApart
    <3>1. Ready
      BY <1>1, <2>1 DEF IInv, Ready
    <3>2. QED
      BY <3>1, PrintsIsNext DEF PrintsSets
  <2>2. CASE ~(Untouched /\ NoCollision /\ SetsApart)
    <3>1. ~(Untouched /\ NoCollision /\ SetsApart)'
      BY <1>1, <2>2 DEF Untouched, NoCollision, SetsApart, Holds, Opens, fixed, disk
    <3>2. QED
      BY <3>1, PrintsIsNext DEF PrintsSets
  <2>3. QED
    BY <2>1, <2>2
<1>7. TwinsOK' /\ RoomOK' /\ AheadOK' /\ FiltersOK'
  BY <1>1 DEF TwinsOK, RoomOK, AheadOK, FiltersOK, Filters
<1>8. QED
  BY <1>2, <1>3, <1>4, <1>5, <1>6, <1>7 DEF IInv

\* The sets are the same after a step that leaves the files and the list.
LEMMA SameSets ==
    ASSUME UNCHANGED <<fixed, disk, file_list>>
    PROVE  Listed' = Listed /\ Sets' = Sets
<1>1. layout' = layout /\ content' = content /\ present' = present /\ file_list' = file_list
  BY DEF fixed, disk
<1>2. Listed' = Listed
  BY <1>1 DEF Listed, PathsOf
<1>3. \A p, q : files_are_identical(p, q)' <=> files_are_identical(p, q)
  BY <1>1 DEF files_are_identical, Readable, Exists, Holds, Opens
<1>4. Sets' = Sets
  BY <1>1, <1>2 DEF Sets, SetOf, files_are_identical, Readable, Exists, Holds, Opens
<1>5. QED
  BY <1>2, <1>4

LEMMA ListingKeeps == ASSUME IInv, print_filtered_file_list PROVE IInv'
<1>1. Printing /\ ~opts.summary /\ listing' = Groups /\ opts' = opts
      /\ UNCHANGED <<fixed, disk, file_list>>
  BY DEF print_filtered_file_list, Printing, fixed
<1>2. ASSUME Ready PROVE PrintedRight'
  BY <1>1, <1>2, SameSets, GroupsAreSets DEF PrintedRight
<1>3. QED
  BY <1>1, <1>2, PrintKeeps

LEMMA SummaryKeeps == ASSUME IInv, print_summary PROVE IInv'
<1> DEFINE sets == {g \in Groups : Cardinality(g) > 1}
<1>1. /\ Printing /\ opts.summary /\ opts' = opts
      /\ summary' = <<Cardinality(sets), Cardinality(Spare(file_list))>>
      /\ UNCHANGED <<fixed, disk, file_list>>
  BY DEF print_summary, Printing, fixed
<1>2. ASSUME Ready PROVE PrintedRight'
  <2>1. sets = Sets
    BY <1>2, GroupsAreSets, SetsArePairs
  <2> HIDE DEF sets
  <2>2. Cardinality(Spare(file_list)) = Cardinality(Listed) - Cardinality(Sets)
    BY <1>2, CountSets
  <2>3. Listed' = Listed /\ Sets' = Sets
    BY <1>1, SameSets
  <2>4. QED
    BY <1>1, <2>1, <2>2, <2>3 DEF PrintedRight
<1> HIDE DEF sets
<1>3. QED
  BY <1>1, <1>2, PrintKeeps

-----------------------------------------------------------------------------
(* The theorems *)

LEMMA InitHolds == Init => IInv
<1> SUFFICES ASSUME Init PROVE IInv
  OBVIOUS
<1>1. /\ opts \in Options /\ layout \in Layouts /\ content \in [Paths -> Contents]
      /\ compared = content /\ present = {layout.entry[p] : p \in Paths}
      /\ pc = "start" /\ file_list = <<>> /\ idx = 1 /\ found = {} /\ edits = 0
  BY DupesAssumption DEF Init
<1>2. Typed
  <2>1. ListOK(file_list)
    <3>1. file_list \in Seq(Entries) /\ DOMAIN file_list = {}
      BY <1>1
    <3>2. QED
      BY <3>1 DEF ListOK
  <2>2. present \in SUBSET Paths
    BY <1>1, LayoutFacts
  <2>3. edits \in 0..MaxEdits
    BY <1>1, DupesAssumption
  <2>4. idx \in 1..Len(file_list) + 1
    BY <1>1
  <2>5. QED
    BY <1>1, <2>1, <2>2, <2>3, <2>4 DEF Typed, Stages
<1>3. DiskOK /\ ContentsSurvive
  BY <1>1 DEF DiskOK, ContentsSurvive
<1>4. TwinsOK /\ RoomOK /\ AheadOK /\ FiltersOK /\ PrintsTheSets
  BY <1>1 DEF TwinsOK, RoomOK, AheadOK, FiltersOK, PrintsTheSets, Filters
<1>5. QED
  BY <1>2, <1>3, <1>4 DEF IInv

LEMMA StutterKeeps == ASSUME IInv, UNCHANGED vars PROVE IInv'
<1>1. UNCHANGED <<fixed, disk, pc, file_list, idx, found, compared, edits, printout>>
  BY DEF vars, aside
<1>2. Typed'
  BY <1>1, SameFiles DEF IInv, Typed, fixed, disk
<1>3. DiskOK' /\ TwinsOK' /\ RoomOK'
  BY <1>1 DEF IInv, DiskOK, Exists, TwinsOK, HadTwin, RoomOK, Opens, fixed, disk
<1>4. AheadOK' /\ ContentsSurvive'
  BY <1>1 DEF IInv, AheadOK, ContentsSurvive, Untouched, Plain, SetsApart, ContentLeft, Holds, Opens, fixed, disk
<1>5. Untouched' => FiltersOK'
  BY <1>1, SameFiles DEF IInv, FiltersOK, Untouched
<1>6. PrintsTheSets'
  <2>1. PrintsSets
    BY PrintsIs DEF IInv
  <2>2. Listed' = Listed /\ Sets' = Sets
    BY <1>1, SameSets
  <2>3. PrintsSets'
    BY <1>1, <2>1, <2>2 DEF PrintsSets, PrintedRight, Untouched, NoCollision, SetsApart, Holds, Opens,
                            fixed, disk, printout
  <2>4. QED
    BY <2>3, PrintsIsNext
<1>7. QED
  BY <1>2, <1>3, <1>4, <1>5, <1>6 DEF IInv

LEMMA NextKeeps == IInv /\ [Next]_vars => IInv'
<1> SUFFICES ASSUME IInv, [Next]_vars PROVE IInv'
  OBVIOUS
<1>1. CASE Start
  BY <1>1, StartKeeps
<1>2. CASE scan_directory
  BY <1>2, ScanKeeps
<1>3. CASE filter_size_list
  BY <1>3, SizeLimitsKeep
<1>4. CASE NoneLeft
  BY <1>4, NoneLeftKeeps
<1>5. CASE filter_file_list
  BY <1>5, SizeFilterKeeps
<1>6. CASE filter_mime_list
  BY <1>6, MimeFilterKeeps
<1>7. CASE filter_hash_list
  BY <1>7, HashFilterKeeps
<1>8. CASE filter_cmp_list
  BY <1>8, CompareKeeps
<1>9. CASE Abort
  BY <1>9, AbortKeeps
<1>10. CASE Result
  BY <1>10, ResultKeeps
<1>11. CASE print_filtered_file_list
  BY <1>11, ListingKeeps
<1>12. CASE print_summary
  BY <1>12, SummaryKeeps
<1>13. CASE DeletionEnds
  BY <1>13, EndKeeps
<1>14. CASE SkipSingle
  BY <1>14, SkipKeeps
<1>15. CASE DeleteGroup
  BY <1>15, DeleteKeeps
<1>16. CASE Decline
  BY <1>16, DeclineKeeps
<1>17. CASE \E f \in Rewritable : Edit(f)
  BY <1>17, EditKeeps
<1>18. CASE Ended \/ UNCHANGED vars
  BY <1>18, StutterKeeps DEF Ended
<1>19. QED
  BY <1>1, <1>2, <1>3, <1>4, <1>5, <1>6, <1>7, <1>8, <1>9, <1>10, <1>11, <1>12, <1>13, <1>14, <1>15,
     <1>16, <1>17, <1>18 DEF Next

LEMMA InvariantHolds == Spec => []IInv
BY InitHolds, NextKeeps, PTL DEF Spec

LEMMA TypedGivesTypeOK == IInv => TypeOK
<1> SUFFICES ASSUME IInv PROVE TypeOK
  OBVIOUS
<1>1. Typed /\ ListOK(file_list)
  BY DEF IInv, Typed
<1>2. /\ Len(file_list) \in Nat /\ DOMAIN file_list = 1..Len(file_list)
      /\ \A i \in DOMAIN file_list : file_list[i] \in Entries
  BY <1>1, ListLen
<1>3. ToSet(file_list) \subseteq Entries
  BY <1>2 DEF ToSet
<1>4. Len(file_list) <= Cardinality(found)
  <2> DEFINE n == Len(file_list)
             D == 1..n
             f == [i \in D |-> file_list[i].full_path]
  <2>1. f \in Injection(D, found)
    <3>1. f \in [D -> found] /\ \A i, j \in D : f[i] = f[j] => i = j
      BY <1>1, <1>2 DEF ListOK
    <3> HIDE DEF f, D
    <3>2. QED
      BY <3>1 DEF Injection, IsInjective
  <2>2. IsFiniteSet(found)
    BY <1>1, DupesAssumption, FS_Subset DEF Typed
  <2>3. Cardinality(D) = n
    <3>1. 1 \in Int /\ n \in Int /\ (1 > n => n = 0) /\ n - 1 + 1 = n
      BY <1>2
    <3>2. QED
      BY <3>1, FS_Interval
  <2> HIDE DEF f, D
  <2>4. Cardinality(D) <= Cardinality(found)
    BY <2>1, <2>2, FS_Injection
  <2>5. QED
    BY <2>3, <2>4
<1>5. QED
  BY <1>1, <1>3, <1>4 DEF Typed, TypeOK, Stages

\* Whatever is found, filtered, rewritten and removed, the program's variables
\* keep their kinds: the list never names more than the walk found
\* (filter_size.c:41-70) and the deletion never runs past its end
\* (deletion.c:72-140).
THEOREM TypesHold == Spec => []TypeOK
BY InvariantHolds, TypedGivesTypeOK, PTL

LEMMA FiltersAreRight == IInv => FiltersFindDuplicates
<1> SUFFICES ASSUME IInv PROVE FiltersFindDuplicates
  OBVIOUS
<1>1. ASSUME pc = "result", Untouched
      PROVE  Listed = {p \in found : /\ WithinLimits(size_of[Holds(p)])
                                     /\ \E q \in found \ {p} : files_are_identical(p, q)}
  <2>1. Listed = Twins
    BY <1>1 DEF IInv, FiltersOK, Listed
  <2>2. QED
    BY <2>1 DEF Twins, Fits
<1>2. pc = "undefined" => Len(file_list) > FirstCapacity
  BY DEF IInv, RoomOK
<1>3. QED
  BY <1>1, <1>2, ListedIs DEF FiltersFindDuplicates

\* Five filters that lean on each other's order come to what a duplicate is
\* (main.c:69-80), for any number of files, any sizes, types, hashes and links,
\* and any order in which qsort leaves equal elements; and a list of no more
\* than the first capacity is never written past its end (filter_size.c:51-66).
THEOREM FiltersHold == Spec => []FiltersFindDuplicates
BY InvariantHolds, FiltersAreRight, PTL

LEMMA ContentsAreLeft == IInv => ContentsSurvive
BY DEF IInv

\* Whatever the user answers and whichever removals fail, the deletion
\* (deletion.c:72-140) leaves a file of every content that was found, where
\* there are no links and no two sets of one size are neighbours.
THEOREM SurvivalHolds == Spec => []ContentsSurvive
BY InvariantHolds, ContentsAreLeft, PTL

LEMMA PrintedIsRight == IInv => PrintsTheSets
BY DEF IInv

\* The groups that result.c forms by size in a list ordered by hash
\* (result.c:21-42, 55-78) are the sets of equal files, and the summary counts
\* them and the files that could go, for any number of sets of any sizes.
THEOREM PrintingHolds == Spec => []PrintsTheSets
BY InvariantHolds, PrintedIsRight, PTL

OnlyTwinsGo ==
    \A e \in present \ present' :
      \E p \in found : /\ layout.entry[p] = e
                       /\ \E q \in found \ {p} : compared[Opens(p)] = compared[Opens(q)]

LEMMA StepsRemoveTwins == IInv /\ [Next]_vars => [OnlyTwinsGo]_vars
<1> SUFFICES ASSUME IInv, Next PROVE OnlyTwinsGo
  OBVIOUS
<1>1. CASE DeleteGroup
  <2>1. Typed /\ pc = "delete" /\ idx <= Len(file_list)
    BY <1>1 DEF IInv, DeleteGroup, Deleting
  <2>2. PICK removed \in SUBSET Group :
               present' = present \ {layout.entry[file_list[j].full_path] : j \in removed}
    BY <1>1, <2>1, Removal
  <2>3. Group \subseteq DOMAIN file_list
    BY <2>1, GroupFacts
  <2>4. SUFFICES ASSUME NEW e \in present \ present'
                 PROVE  \E p \in found : layout.entry[p] = e /\ HadTwin(p)
    BY DEF OnlyTwinsGo, HadTwin
  <2>5. PICK j \in removed : e = layout.entry[file_list[j].full_path]
    BY <2>2, <2>4
  <2>6. j \in DOMAIN file_list
    BY <2>2, <2>3, <2>5
  <2>7. HadTwin(file_list[j].full_path) /\ file_list[j].full_path \in found
    BY <2>1, <2>6 DEF IInv, TwinsOK, Typed, ListOK
  <2>8. QED
    BY <2>5, <2>7
<1>2. CASE ~DeleteGroup
  <2>1. present' = present
    BY <1>2 DEF Next, Start, scan_directory, filter_size_list, NoneLeft, filter_file_list, filter_mime_list,
                filter_hash_list, filter_cmp_list, Abort, Result, print_filtered_file_list, print_summary,
                DeletionEnds, SkipSingle, Decline, Edit, Ended, Stage, Filter, Printing, vars, disk
  <2>2. QED
    BY <2>1 DEF OnlyTwinsGo
<1>3. QED
  BY <1>1, <1>2

\* Whatever is rewritten while the program runs, and however groups are mixed
\* up, it removes no file that had no twin when filter_cmp_list compared it
\* (filter_cmp.c:68-77, deletion.c:88-98, 128-134).
THEOREM RemovalsHold == Spec => NothingUniqueIsRemoved
<1>1. IInv /\ [Next]_vars => [OnlyTwinsGo]_vars
  BY StepsRemoveTwins
<1>2. QED
  BY InvariantHolds, <1>1, PTL DEF Spec, NothingUniqueIsRemoved, OnlyTwinsGo

===============================================================================
