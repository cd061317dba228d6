-------------------------- MODULE ExternalSortProofs --------------------------
(***************************************************************************)
(* What holds of ExternalSort for any number of threads and blocks and any    *)
(* file, wherever signals and failures fall: no two threads are at the same   *)
(* records, no thread leaves the segment, no record is lost, and, without a    *)
(* signal, what is written as sorted is sorted.                              *)
(***************************************************************************)
EXTENDS ExternalSort, SharedLemmas

-----------------------------------------------------------------------------
(* The inductive invariant.  While a segment is sorted, each thread has a     *)
(* block of its own: the one of its number, or one that the counter gave it.  *)
(* While it is merged, the one barrier keeps the threads in one of three       *)
(* groups of places: before the first wait of a round, behind it, or, once a   *)
(* signal has split them, on the way out, where nobody merges any more.       *)

Types ==
    /\ main_pc \in Ended \cup {"map", "sort", "merge"}
    /\ terminate_flag \in BOOLEAN
    /\ offset \in Nat
    /\ next_block \in Nat /\ num_blocks \in Nat /\ block_size \in Nat
    /\ tpc \in [Tids -> Places]
    /\ block_index \in [Tids -> Nat]

AllAt(places) == \A t \in Tids : tpc[t] \in places

SortPhase ==
    /\ AllAt({"unborn", "first", "next", "own", "sorted", "sort_wait", "done"})
    /\ next_block >= Threads
    /\ \A t \in Tids : tpc[t] = "own" => block_index[t] \in Threads..next_block - 1
    /\ \A t, u \in Tids : t # u /\ tpc[t] = "own" /\ tpc[u] = "own"
                             => block_index[t] # block_index[u]

Merging == {"merge", "merged", "merged_wait"}
Leaving == {"last", "last_wait"}

\* Before the first wait: whether the loop goes on is the same for all of
\* them, unless a signal came between two of their looks at the flag.
BeforeWait ==
    /\ AllAt({"unborn", "loop"} \cup Merging \cup Leaving)
    /\ (\E t \in Tids : tpc[t] \in Merging) => num_blocks > 1
    /\ (\E t \in Tids : tpc[t] \in Leaving) => terminate_flag \/ num_blocks <= 1

BehindWait ==
    \/ AllAt({"halve", "halved", "halved_wait"})
    \/ terminate_flag /\ AllAt({"halve", "halved", "halved_wait", "done"} \cup Leaving)

OnTheWayOut == terminate_flag /\ AllAt({"loop", "done"} \cup Leaving)

AllDone == AllAt({"done"})

MergePhase == BeforeWait \/ BehindWait \/ OnTheWayOut \/ AllDone

Phases ==
    /\ main_pc = "sort" => SortPhase
    /\ main_pc = "merge" => MergePhase
    /\ main_pc \in {"map", "success"} => AllDone
    /\ main_pc = "failure" => SortPhase \/ MergePhase

IInv == Types /\ Phases

-----------------------------------------------------------------------------
(* The number of blocks is a power of two *)

DoublingUpTo(f, n) == f = [g \in 0..n |-> IF g = 0 THEN 1 ELSE 2 * f[g - 1]]

\* The recursive definition of 1 << g has a solution, so it is one.
LEMMA ShiftedUnfolds == DoublingUpTo(Shifted, Granul)
<1> DEFINE Bad == {m \in Nat : ~ \E f : DoublingUpTo(f, m)}
<1>1. Bad = {}
  <2>1. SUFFICES ASSUME Bad # {} PROVE FALSE
    OBVIOUS
  <2>2. PICK m \in Bad : \A k \in Bad : m <= k
    <3>1. Bad \in SUBSET Nat
      OBVIOUS
    <3> HIDE DEF Bad
    <3>2. QED
      BY <2>1, <3>1, Smallest
  <2>3. m \in Nat /\ ~ \E f : DoublingUpTo(f, m)
    BY <2>2
  <2>4. CASE m = 0
    <3> DEFINE f == [g \in 0..0 |-> 1]
    <3>1. f = [g \in 0..0 |-> IF g = 0 THEN 1 ELSE 2 * f[g - 1]]
      OBVIOUS
    <3>2. QED
      BY <2>3, <2>4, <3>1 DEF DoublingUpTo
  <2>5. CASE m # 0
    <3>1. m - 1 \in Nat /\ ~(m <= m - 1)
      BY <2>3, <2>5
    <3>2. PICK f : DoublingUpTo(f, m - 1)
      BY <2>2, <3>1
    <3>3. \A g \in 0..m - 1 : f[g] = IF g = 0 THEN 1 ELSE 2 * f[g - 1]
      BY <3>2 DEF DoublingUpTo
    <3> DEFINE h == [g \in 0..m |-> IF g = m THEN 2 * f[m - 1] ELSE f[g]]
    <3>4. \A g \in 0..m : (g = 0 \/ h[g - 1] = f[g - 1]) /\ (g # m => g \in 0..m - 1)
      BY <2>3
    <3>5. \A g \in 0..m : h[g] = IF g = 0 THEN 1 ELSE 2 * h[g - 1]
      BY <2>5, <3>3, <3>4
    <3>6. h = [g \in 0..m |-> h[g]]
      OBVIOUS
    <3> HIDE DEF h
    <3>7. DoublingUpTo(h, m)
      BY <3>5, <3>6 DEF DoublingUpTo
    <3>8. QED
      BY <2>3, <3>7
  <2>6. QED
    BY <2>4, <2>5
<1>2. \E f : DoublingUpTo(f, Granul)
  BY <1>1, SortAssumption
<1>3. QED
  BY <1>2 DEF Shifted, DoublingUpTo

IsPower(n) == \E g \in 0..Granul : n = Shifted[g]

LEMMA Powers ==
    /\ Blocks \in Nat \ {0} /\ IsPower(Blocks)
    /\ \A n : IsPower(n) => n \in Nat \ {0}
    /\ \A n : IsPower(n) /\ n > 1 => n % 2 = 0 /\ IsPower(n \div 2) /\ 2 * (n \div 2) = n
<1>1. \A g \in 0..Granul : Shifted[g] = IF g = 0 THEN 1 ELSE 2 * Shifted[g - 1]
  BY ShiftedUnfolds DEF DoublingUpTo
<1>2. Granul \in Nat
  BY SortAssumption
<1>3. \A g \in 0..Granul : Shifted[g] \in Nat \ {0}
  <2> DEFINE Bad == {g \in 0..Granul : Shifted[g] \notin Nat \ {0}}
  <2>1. SUFFICES ASSUME Bad # {} PROVE FALSE
    OBVIOUS
  <2>2. PICK g \in Bad : \A k \in Bad : g <= k
    <3>1. Bad \in SUBSET Nat
      OBVIOUS
    <3> HIDE DEF Bad
    <3>2. QED
      BY <2>1, <3>1, Smallest
  <2>3. g \in 0..Granul /\ Shifted[g] \notin Nat \ {0} /\ g # 0
    BY <1>1, <2>2
  <2>4. g - 1 \in 0..Granul /\ ~(g <= g - 1)
    BY <1>2, <2>3
  <2>5. Shifted[g - 1] \in Nat \ {0}
    BY <2>2, <2>4
  <2>6. 2 * Shifted[g - 1] \in Nat \ {0}
    BY <2>5
  <2>7. QED
    BY <1>1, <2>3, <2>6
<1>4. ASSUME NEW n, IsPower(n), n > 1
      PROVE  n % 2 = 0 /\ IsPower(n \div 2) /\ 2 * (n \div 2) = n
  <2>1. PICK g \in 0..Granul : n = Shifted[g]
    BY <1>4 DEF IsPower
  <2>2. g # 0
    BY <1>1, <1>4, <2>1
  <2>3. g - 1 \in 0..Granul /\ n = 2 * Shifted[g - 1]
    BY <1>1, <1>2, <2>1, <2>2
  <2> DEFINE q == Shifted[g - 1]
  <2>4. q \in Nat
    BY <1>3, <2>3
  <2>5. IsPower(q) /\ n = 2 * q
    BY <2>3 DEF IsPower
  <2> HIDE DEF q
  <2>6. (2 * q) % 2 = 0 /\ (2 * q) \div 2 = q
    BY <2>4
  <2>7. QED
    BY <2>4, <2>5, <2>6
<1>5. Granul \in 0..Granul
  BY <1>2
<1>6. QED
  BY <1>3, <1>4, <1>5 DEF IsPower, Blocks

-----------------------------------------------------------------------------
(* The phases keep the threads apart *)

\* Two blocks of one size share no cell.
LEMMA BlocksApart ==
    ASSUME Types, NEW size \in Nat, NEW a \in Nat, NEW b \in Nat, a # b
    PROVE  Cells(a, size) \cap Cells(b, size) = {}
<1>1. ASSUME NEW i \in Nat, NEW j \in Nat, i < j
      PROVE  (i + 1) * size <= j * size
  <2>1. PICK d \in Nat : j = i + 1 + d
    <3>1. j - (i + 1) \in Nat /\ j = i + 1 + (j - (i + 1))
      BY <1>1
    <3>2. QED
      BY <3>1
  <2>2. j * size = (i + 1) * size + d * size /\ d * size \in Nat
    BY <2>1
  <2>3. (i + 1) * size \in Nat
    OBVIOUS
  <2>4. QED
    BY <2>2, <2>3
<1>2. /\ a * size \in Nat /\ b * size \in Nat
      /\ (a + 1) * size \in Nat /\ (b + 1) * size \in Nat
  OBVIOUS
<1>3. (a + 1) * size <= b * size \/ (b + 1) * size <= a * size
  BY <1>1
<1>4. QED
  BY <1>2, <1>3 DEF Cells, Types

LEMMA PhasesKeepApart ==
    ASSUME Types, SortPhase \/ MergePhase
    PROVE  OwnCells
<1> SUFFICES ASSUME NEW t \in Tids
             PROVE  /\ \A u \in Tids \ {t} : MayWrite(t) \cap MayWrite(u) = {}
                    /\ t = 0 /\ tpc[t] = "halve" => \A u \in Tids : MayWrite(u) = {}
  BY DEF OwnCells
<1>1. t \in Nat /\ t < Threads
  BY SortAssumption DEF Tids
<1>2. CASE SortPhase
  <2>1. tpc[t] # "halve" /\ \A u \in Tids : tpc[u] # "merge"
    BY <1>2 DEF SortPhase, AllAt
  <2>2. ASSUME NEW u \in Tids \ {t}
        PROVE  MayWrite(t) \cap MayWrite(u) = {}
    <3>1. u \in Nat /\ u < Threads
      BY SortAssumption DEF Tids
    <3> DEFINE Block(v) == IF tpc[v] = "first" THEN v ELSE block_index[v]
    <3>2. ASSUME tpc[t] \in {"first", "own"}, tpc[u] \in {"first", "own"}
          PROVE  Block(t) \in Nat /\ Block(u) \in Nat /\ Block(t) # Block(u)
      BY <1>1, <1>2, <3>1, <3>2, SortAssumption DEF SortPhase, Types
    <3>3. \A v \in {t, u} : MayWrite(v) = IF tpc[v] \in {"first", "own"}
                                          THEN Cells(Block(v), block_size) ELSE {}
      BY <2>1 DEF MayWrite
    <3>4. CASE tpc[t] \in {"first", "own"} /\ tpc[u] \in {"first", "own"}
      <4> HIDE DEF Block
      <4>1. Cells(Block(t), block_size) \cap Cells(Block(u), block_size) = {}
        BY <3>2, <3>4, BlocksApart DEF Types
      <4>2. QED
        BY <3>3, <3>4, <4>1
    <3>5. CASE ~(tpc[t] \in {"first", "own"} /\ tpc[u] \in {"first", "own"})
      BY <3>3, <3>5
    <3>6. QED
      BY <3>4, <3>5
  <2>3. QED
    BY <2>1, <2>2
<1>3. CASE MergePhase
  <2>1. \A u \in Tids : tpc[u] \notin {"first", "own"}
    BY <1>3 DEF MergePhase, BeforeWait, BehindWait, OnTheWayOut, AllDone, AllAt, Merging, Leaving
  <2>2. ASSUME tpc[t] = "halve", NEW u \in Tids
        PROVE  MayWrite(u) = {}
    <3>1. tpc[u] # "merge"
      BY <1>3, <2>2 DEF MergePhase, BeforeWait, BehindWait, OnTheWayOut, AllDone, AllAt,
                        Merging, Leaving
    <3>2. QED
      BY <2>1, <3>1 DEF MayWrite
  <2>3. ASSUME NEW u \in Tids \ {t}
        PROVE  MayWrite(t) \cap MayWrite(u) = {}
    <3>1. u \in Nat /\ u < Threads
      BY SortAssumption DEF Tids
    <3>2. Cells(t, 2 * block_size) \cap Cells(u, 2 * block_size) = {}
      BY <1>1, <3>1, BlocksApart DEF Types
    <3>3. \A v \in {t, u} : MayWrite(v) \subseteq Cells(v, 2 * block_size)
      BY <2>1 DEF MayWrite
    <3>4. QED
      BY <3>2, <3>3
  <2>4. QED
    BY <2>2, <2>3
<1>4. QED
  BY <1>2, <1>3

-----------------------------------------------------------------------------
(* The barrier *)

LEMMA AfterWaits ==
    /\ After("sort_wait") = "done" /\ After("merged_wait") = "halve"
    /\ After("halved_wait") = "loop" /\ After("last_wait") = "done"
BY DEF After

\* A thread that comes to the barrier waits there, or all the others wait and
\* everybody goes on.
LEMMA ArriveSteps ==
    ASSUME Types, NEW t \in Tids, NEW from, from \notin Waits, NEW wait \in Waits,
           Arrive(t, from, wait)
    PROVE  /\ tpc[t] = from
           /\ \/ tpc' = [tpc EXCEPT ![t] = wait]
              \/ /\ \A u \in Tids \ {t} : tpc[u] \in Waits
                 /\ tpc' = [u \in Tids |-> IF u = t THEN After(wait) ELSE After(tpc[u])]
<1> DEFINE waiting == {u \in Tids : tpc[u] \in Waits}
<1>1. tpc[t] = from /\ t \notin waiting
  BY DEF Arrive
<1>2. CASE Cardinality(waiting) + 1 < Threads
  BY <1>1, <1>2 DEF Arrive
<1>3. CASE ~(Cardinality(waiting) + 1 < Threads)
  <2>1. tpc' = [u \in Tids |-> CASE u = t       -> After(wait)
                                 [] u \in waiting -> After(tpc[u])
                                 [] OTHER       -> tpc[u]]
    BY <1>3 DEF Arrive
  <2>2. IsFiniteSet(Tids) /\ Cardinality(Tids) = Threads
    <3>1. Threads \in Nat \ {0} /\ 0 \in Int /\ Threads - 1 \in Int /\ (Threads - 1) - 0 + 1 = Threads
      BY SortAssumption
    <3>2. QED
      BY <3>1, FS_Interval DEF Tids
  <2>3. IsFiniteSet(Tids \ {t}) /\ Cardinality(Tids \ {t}) = Threads - 1
    BY <2>2, FS_RemoveElement
  <2>4. waiting \in SUBSET (Tids \ {t})
    BY <1>1
  <2>5. /\ Cardinality(waiting) \in Nat /\ Cardinality(waiting) <= Threads - 1
        /\ Cardinality(waiting) = Threads - 1 => waiting = Tids \ {t}
    BY <2>3, <2>4, FS_Subset, FS_CardinalityType
  <2>6. waiting = Tids \ {t}
    BY <1>3, <2>5, SortAssumption
  <2>7. \A u \in Tids \ {t} : tpc[u] \in Waits
    BY <2>6
  <2>8. tpc' = [u \in Tids |-> IF u = t THEN After(wait) ELSE After(tpc[u])]
    <3> HIDE DEF waiting
    <3>1. \A u \in Tids : IF u = t THEN u \notin waiting ELSE u \in waiting
      BY <1>1, <2>6
    <3>2. QED
      BY <2>1, <3>1
  <2>9. QED
    BY <1>1, <2>7, <2>8
<1>4. QED
  BY <1>2, <1>3

-----------------------------------------------------------------------------
(* The steps of a thread *)

LEMMA SortSteps ==
    ASSUME IInv, main_pc = "sort", NEW t \in Tids, sort_blocks(t)
    PROVE  IInv'
<1> USE DEF IInv
<1>1. SortPhase /\ t \in Nat /\ t < Threads
  BY SortAssumption DEF Phases, Tids
<1>2. UNCHANGED <<main_pc, offset, terminate_flag, num_blocks, block_size>>
  BY DEF sort_blocks, SortFirst, ReserveBlock, SortOwn, StopSorting, Arrive, others, segment,
         mainVars
<1>3. CASE SortFirst(t) \/ SortOwn(t) \/ StopSorting(t)
  <2>1. PICK to \in {"next", "sorted"} :
          tpc' = [tpc EXCEPT ![t] = to] /\ UNCHANGED <<next_block, block_index>>
    BY <1>3 DEF SortFirst, SortOwn, StopSorting, Goto, segment
  <2>2. Types'
    BY <1>2, <2>1 DEF Types, Places
  <2>3. SortPhase'
    BY <1>1, <2>1 DEF SortPhase, AllAt, Types
  <2>4. QED
    BY <1>2, <2>2, <2>3 DEF Phases, Ended
<1>4. CASE ReserveBlock(t)
  <2>1. /\ tpc' = [tpc EXCEPT ![t] = "own"]
        /\ block_index' = [block_index EXCEPT ![t] = next_block]
        /\ next_block' = next_block + 1
    BY <1>4 DEF ReserveBlock, ReserveNext, Goto
  <2>2. Types'
    BY <1>2, <2>1 DEF Types, Places
  <2>3. SortPhase'
    <3>1. AllAt({"unborn", "first", "next", "own", "sorted", "sort_wait", "done"})'
      BY <1>1, <2>1 DEF SortPhase, AllAt, Types
    <3>2. \A u \in Tids : tpc'[u] = "own" => block_index'[u] \in Threads..next_block' - 1
      BY <1>1, <2>1, SortAssumption DEF SortPhase, Types
    <3>3. \A u, v \in Tids : u # v /\ tpc'[u] = "own" /\ tpc'[v] = "own"
                               => block_index'[u] # block_index'[v]
      BY <1>1, <2>1, SortAssumption DEF SortPhase, Types
    <3>4. QED
      BY <1>1, <2>1, <3>1, <3>2, <3>3, SortAssumption DEF SortPhase, Types
  <2>4. QED
    BY <1>2, <2>2, <2>3 DEF Phases, Ended
<1>5. CASE Arrive(t, "sorted", "sort_wait")
  <2>1. UNCHANGED <<next_block, block_index>>
    BY <1>5 DEF Arrive, segment
  <2>2. \/ tpc' = [tpc EXCEPT ![t] = "sort_wait"]
        \/ /\ \A u \in Tids \ {t} : tpc[u] \in Waits
           /\ tpc' = [u \in Tids |-> IF u = t THEN After("sort_wait") ELSE After(tpc[u])]
    BY <1>5, ArriveSteps DEF Waits
  <2>3. CASE tpc' = [tpc EXCEPT ![t] = "sort_wait"]
    <3>1. Types' /\ SortPhase'
      BY <1>1, <1>2, <2>1, <2>3 DEF Types, Places, Waits, SortPhase, AllAt
    <3>2. QED
      BY <1>2, <3>1 DEF Phases, Ended
  <2>4. CASE /\ \A u \in Tids \ {t} : tpc[u] \in Waits
             /\ tpc' = [u \in Tids |-> IF u = t THEN After("sort_wait") ELSE After(tpc[u])]
    <3>1. \A u \in Tids \ {t} : tpc[u] = "sort_wait"
      BY <1>1, <2>4 DEF SortPhase, AllAt, Waits
    <3>2. tpc' = [u \in Tids |-> "done"]
      BY <2>4, <3>1 DEF After
    <3>3. Types' /\ SortPhase'
      BY <1>1, <1>2, <2>1, <3>2 DEF Types, Places, SortPhase, AllAt
    <3>4. QED
      BY <1>2, <3>3 DEF Phases, Ended
  <2>5. QED
    BY <2>2, <2>3, <2>4
<1>6. QED
  BY <1>3, <1>4, <1>5 DEF sort_blocks

\* What a place of the merge means for the flag and the round.
LEMMA MergeSteps ==
    ASSUME IInv, main_pc = "merge", NEW t \in Tids, merge_blocks_phase(t)
    PROVE  IInv'
<1> USE DEF IInv
<1>1. MergePhase
  BY DEF Phases
<1> HIDE DEF IInv
<1>2. CASE MergeFails(t)
  <2>1. /\ main_pc' = "failure"
        /\ UNCHANGED <<offset, terminate_flag, next_block, num_blocks, block_size, tpc,
                       block_index>>
    BY <1>2 DEF MergeFails, Exit, segment, threads
  <2>2. Types' /\ MergePhase'
    BY <1>1, <2>1 DEF IInv, Types, Ended, MergePhase, BeforeWait, BehindWait, OnTheWayOut,
                      AllDone, AllAt
  <2>3. QED
    BY <2>1, <2>2 DEF IInv, Phases
<1>3. ASSUME ~MergeFails(t)
      PROVE  /\ UNCHANGED <<main_pc, offset, terminate_flag, next_block, block_index>>
             /\ CountRound(t) \/ UNCHANGED <<num_blocks, block_size>>
  BY <1>3 DEF merge_blocks_phase, MergeLoop, MergeOwnPair, CountRound, Arrive, others,
              segment, mainVars
<1>4. CASE MergeLoop(t)
  <2>1. /\ tpc[t] = "loop"
        /\ tpc' = [tpc EXCEPT ![t] = IF num_blocks > 1 /\ ~terminate_flag THEN "merge"
                                                                         ELSE "last"]
        /\ UNCHANGED <<main_pc, offset, terminate_flag, next_block, num_blocks, block_size,
                       block_index>>
    BY <1>4 DEF MergeLoop, Goto, others, segment, mainVars
  <2>2. Types'
    BY <2>1 DEF IInv, Types, Places, Waits
  <2>3. BeforeWait \/ OnTheWayOut
    BY <1>1, <2>1 DEF MergePhase, BehindWait, AllDone, AllAt, Leaving
  <2>4. ASSUME OnTheWayOut PROVE MergePhase'
    BY <2>1, <2>4 DEF OnTheWayOut, AllAt, Leaving, IInv, Types, MergePhase
  <2>5. ASSUME BeforeWait PROVE MergePhase'
    <3>1. BeforeWait'
      BY <2>1, <2>5 DEF BeforeWait, AllAt, Merging, Leaving, IInv, Types
    <3>2. QED
      BY <3>1 DEF MergePhase
  <2>6. QED
    BY <2>1, <2>2, <2>3, <2>4, <2>5 DEF IInv, Phases, MergePhase, Ended
<1>5. CASE MergeOwnPair(t)
  <2>1. /\ tpc[t] = "merge"
        /\ tpc' = [tpc EXCEPT ![t] = "merged"]
        /\ UNCHANGED <<main_pc, offset, terminate_flag, next_block, num_blocks, block_size,
                       block_index>>
    BY <1>5 DEF MergeOwnPair, Goto, others, segment, mainVars
  <2>2. Types'
    BY <2>1 DEF IInv, Types, Places
  <2>3. BeforeWait
    BY <1>1, <2>1 DEF MergePhase, BehindWait, OnTheWayOut, AllDone, AllAt, Leaving
  <2>4. BeforeWait'
    BY <2>1, <2>3 DEF BeforeWait, AllAt, Merging, Leaving, IInv, Types
  <2>5. QED
    BY <2>1, <2>2, <2>4 DEF IInv, Phases, MergePhase, Ended
<1>6. CASE CountRound(t)
  <2>1. /\ tpc[t] = "halve"
        /\ \/ tpc' = [tpc EXCEPT ![t] = "halved"]
           \/ terminate_flag /\ tpc' = [tpc EXCEPT ![t] = "last"]
        /\ UNCHANGED <<main_pc, offset, terminate_flag, next_block, block_index>>
    BY <1>6 DEF CountRound, Goto, others, mainVars
  <2>2. num_blocks' \in Nat /\ block_size' \in Nat
    BY <1>6 DEF CountRound, Halve, IInv, Types
  <2>3. Types'
    BY <2>1, <2>2 DEF IInv, Types, Places
  <2>4. BehindWait
    BY <1>1, <2>1 DEF MergePhase, BeforeWait, OnTheWayOut, AllDone, AllAt, Merging, Leaving
  <2>5. BehindWait'
    BY <2>1, <2>4 DEF BehindWait, AllAt, Leaving, IInv, Types
  <2>6. QED
    BY <2>1, <2>3, <2>5 DEF IInv, Phases, MergePhase, Ended
<1>7. ASSUME NEW wait \in {"merged_wait", "halved_wait", "last_wait"}, NEW from,
             from = CASE wait = "merged_wait" -> "merged" [] wait = "halved_wait" -> "halved"
                      [] wait = "last_wait" -> "last",
             Arrive(t, from, wait)
      PROVE  IInv'
  <2>1. UNCHANGED <<main_pc, offset, terminate_flag, next_block, num_blocks, block_size,
                    block_index>>
    BY <1>7 DEF Arrive, others, segment, mainVars
  <2>2. /\ tpc[t] = from
        /\ \/ tpc' = [tpc EXCEPT ![t] = wait]
           \/ /\ \A u \in Tids \ {t} : tpc[u] \in Waits
              /\ tpc' = [u \in Tids |-> IF u = t THEN After(wait) ELSE After(tpc[u])]
    <3>1. from \notin Waits /\ wait \in Waits
      BY <1>7 DEF Waits
    <3>2. QED
      BY <1>7, <3>1, ArriveSteps DEF IInv
  <2>3. CASE tpc' = [tpc EXCEPT ![t] = wait]
    <3>1. Types'
      BY <1>7, <2>1, <2>3 DEF IInv, Types, Places, Waits
    <3>2. BeforeWait => BeforeWait'
      BY <1>7, <2>1, <2>2, <2>3 DEF BeforeWait, AllAt, Merging, Leaving, IInv, Types
    <3>3. BehindWait => BehindWait'
      BY <1>7, <2>1, <2>2, <2>3 DEF BehindWait, AllAt, Leaving, IInv, Types
    <3>4. OnTheWayOut => OnTheWayOut'
      BY <1>7, <2>1, <2>2, <2>3 DEF OnTheWayOut, AllAt, Leaving, IInv, Types
    <3>5. ~AllDone
      BY <1>7, <2>2 DEF AllDone, AllAt
    <3>6. QED
      BY <1>1, <2>1, <3>1, <3>2, <3>3, <3>4, <3>5 DEF IInv, Phases, MergePhase, Ended
  <2>4. CASE /\ \A u \in Tids \ {t} : tpc[u] \in Waits
             /\ tpc' = [u \in Tids |-> IF u = t THEN After(wait) ELSE After(tpc[u])]
    <3> DEFINE at(u) == IF u = t THEN wait ELSE tpc[u]
    <3>1. tpc' = [u \in Tids |-> After(at(u))]
      BY <2>4
    <3>2. \A u \in Tids : at(u) \in Waits
      BY <1>7, <2>4 DEF Waits
    <3> HIDE DEF at
    <3>3. Types'
      BY <2>1, <3>1, <3>2, AfterWaits DEF IInv, Types, Places, Waits
    <3>4. CASE BeforeWait
      <4>1. \A u \in Tids : at(u) \in {"merged_wait", "last_wait"}
        BY <1>7, <2>2, <3>2, <3>4 DEF at, BeforeWait, AllAt, Merging, Leaving, Waits
      <4>2. ASSUME \A u \in Tids : at(u) = "merged_wait"
            PROVE  MergePhase'
        <5>1. tpc' = [u \in Tids |-> "halve"]
          BY <3>1, <4>2, AfterWaits
        <5>2. BehindWait'
          BY <5>1 DEF BehindWait, AllAt
        <5>3. QED
          BY <5>2 DEF MergePhase
      <4>3. ASSUME \A u \in Tids : at(u) = "last_wait"
            PROVE  MergePhase'
        <5>1. tpc' = [u \in Tids |-> "done"]
          BY <3>1, <4>3, AfterWaits
        <5>2. QED
          BY <5>1 DEF AllDone, AllAt, MergePhase
      <4>4. ASSUME (\E u \in Tids : at(u) = "merged_wait") /\ (\E u \in Tids : at(u) = "last_wait")
            PROVE  MergePhase'
        <5>1. (\E u \in Tids : tpc[u] \in Merging) /\ (\E u \in Tids : tpc[u] \in Leaving)
          BY <1>7, <2>2, <4>4 DEF at, Merging, Leaving
        <5>2. terminate_flag
          BY <3>4, <5>1 DEF BeforeWait, IInv, Types
        <5>3. \A u \in Tids : tpc'[u] \in {"halve", "done"}
          BY <3>1, <4>1, AfterWaits
        <5>4. BehindWait'
          BY <2>1, <5>2, <5>3 DEF BehindWait, AllAt
        <5>5. QED
          BY <5>4 DEF MergePhase
      <4>5. MergePhase'
        BY <4>1, <4>2, <4>3, <4>4
      <4>6. QED
        BY <2>1, <3>3, <4>5 DEF IInv, Phases, Ended
    <3>5. CASE BehindWait
      <4>1. \A u \in Tids : at(u) \in {"halved_wait", "last_wait"}
        BY <1>7, <2>2, <2>4, <3>5 DEF at, BehindWait, AllAt, Leaving, Waits
      <4>2. ASSUME \A u \in Tids : at(u) = "halved_wait"
            PROVE  MergePhase'
        <5>1. tpc' = [u \in Tids |-> "loop"]
          BY <3>1, <4>2, AfterWaits
        <5>2. BeforeWait'
          BY <5>1 DEF BeforeWait, AllAt, Merging, Leaving
        <5>3. QED
          BY <5>2 DEF MergePhase
      <4>3. ASSUME \E u \in Tids : at(u) = "last_wait"
            PROVE  MergePhase'
        <5>1. \E u \in Tids : tpc[u] \in Leaving
          BY <1>7, <2>2, <4>3 DEF at, Leaving
        <5>2. terminate_flag
          BY <3>5, <5>1 DEF BehindWait, AllAt, Leaving
        <5>3. \A u \in Tids : tpc'[u] \in {"loop", "done"}
          BY <3>1, <4>1, AfterWaits
        <5>4. OnTheWayOut'
          BY <2>1, <5>2, <5>3 DEF OnTheWayOut, AllAt
        <5>5. QED
          BY <5>4 DEF MergePhase
      <4>4. MergePhase'
        BY <4>1, <4>2, <4>3
      <4>5. QED
        BY <2>1, <3>3, <4>4 DEF IInv, Phases, Ended
    <3>6. CASE OnTheWayOut
      <4>1. \A u \in Tids : at(u) = "last_wait"
        BY <1>7, <2>2, <2>4, <3>6 DEF at, OnTheWayOut, AllAt, Leaving, Waits
      <4>2. tpc' = [u \in Tids |-> "done"]
        BY <3>1, <4>1, AfterWaits
      <4>3. MergePhase'
        BY <4>2 DEF AllDone, AllAt, MergePhase
      <4>4. QED
        BY <2>1, <3>3, <4>3 DEF IInv, Phases, Ended
    <3>7. ~AllDone
      BY <1>7, <2>2 DEF AllDone, AllAt
    <3>8. QED
      BY <1>1, <3>4, <3>5, <3>6, <3>7 DEF MergePhase
  <2>5. QED
    BY <2>2, <2>3, <2>4
<1>8. CASE Arrive(t, "merged", "merged_wait") \/ Arrive(t, "halved", "halved_wait")
             \/ Arrive(t, "last", "last_wait")
  BY <1>7, <1>8
<1>9. QED
  BY <1>2, <1>4, <1>5, <1>6, <1>8 DEF merge_blocks_phase

\* A thread sorts while main waits for the sort, and merges while it waits for
\* the merge.
LEMMA ThreadSteps ==
    ASSUME IInv, NEW t \in Tids, Thread(t)
    PROVE  IInv'
<1>1. main_pc \notin Ended /\ tpc[t] \notin {"done", "unborn"}
  BY DEF Thread, sort_blocks, merge_blocks_phase, SortFirst, ReserveBlock, SortOwn, StopSorting,
         Arrive, MergeLoop, MergeOwnPair, MergeFails, CountRound, Goto
<1>2. main_pc \in {"sort", "merge"}
  BY <1>1 DEF IInv, Types, Phases, AllDone, AllAt, Ended
<1>3. CASE main_pc = "sort"
  <2>1. ~merge_blocks_phase(t)
    BY <1>3 DEF IInv, Phases, SortPhase, AllAt, merge_blocks_phase, MergeLoop, MergeOwnPair,
                MergeFails, CountRound, Arrive, Goto
  <2>2. QED
    BY <1>3, <2>1, SortSteps DEF Thread
<1>4. CASE main_pc = "merge"
  <2>1. ~sort_blocks(t)
    BY <1>4 DEF IInv, Phases, MergePhase, BeforeWait, BehindWait, OnTheWayOut, AllDone, AllAt,
                Merging, Leaving, sort_blocks, SortFirst, ReserveBlock, SortOwn, StopSorting,
                Arrive, Goto
  <2>2. QED
    BY <1>4, <2>1, MergeSteps DEF Thread
<1>5. QED
  BY <1>2, <1>3, <1>4

-----------------------------------------------------------------------------
(* The steps of main and the handler *)

LEMMA MainSteps ==
    ASSUME IInv, MainStep
    PROVE  IInv'
<1>1. CASE Refuse \/ Finish
  <2>1. /\ main_pc = "map" /\ main_pc' \in {"failure", "success"}
        /\ UNCHANGED <<offset, terminate_flag, next_block, num_blocks, block_size, tpc,
                       block_index>>
    BY <1>1 DEF Refuse, Finish, segment, threads
  <2>2. Types' /\ AllDone'
    BY <2>1 DEF IInv, Types, Phases, AllDone, AllAt, Ended
  <2>3. QED
    BY <2>1, <2>2 DEF IInv, Phases, MergePhase
<1>2. CASE StartSort
  <2>1. RecordsInSegment(offset) \div Blocks \in Nat
    <3>1. Blocks \in Nat /\ Blocks > 0
      BY Powers
    <3>2. Least(SegmentRecords, TotalRecords - offset) \in Nat
      BY <1>2, SortAssumption DEF StartSort, Least, IInv, Types
    <3>3. \A n \in Nat : n \div Blocks \in Nat
      BY <3>1
    <3>4. \A n \in Nat : n * Blocks \in Nat
      BY <3>1
    <3>5. RecordsInSegment(offset) \in Nat
      BY <3>2, <3>3, <3>4 DEF RecordsInSegment
    <3>6. QED
      BY <3>3, <3>5
  <2>2. /\ main_pc' = "sort" /\ tpc' = [t \in Tids |-> "unborn"]
        /\ next_block' = Threads /\ num_blocks' = Blocks
        /\ block_size' = RecordsInSegment(offset) \div Blocks
        /\ block_index' = [t \in Tids |-> t]
        /\ UNCHANGED <<offset, terminate_flag>>
    BY <1>2 DEF StartSort, Start, FirstFree
  <2>3. Types'
    BY <2>1, <2>2, Powers, SortAssumption DEF IInv, Types, Places, Tids
  <2>4. SortPhase'
    BY <2>2, SortAssumption DEF SortPhase, AllAt
  <2>5. QED
    BY <2>2, <2>3, <2>4 DEF IInv, Phases, Ended
<1>3. CASE CreateNext
  <2>1. PICK t \in Tids : tpc[t] = "unborn" /\ tpc' = [tpc EXCEPT ![t] = Enter]
    BY <1>3 DEF CreateNext, NextUnborn
  <2>2. /\ main_pc \in {"sort", "merge"}
        /\ UNCHANGED <<main_pc, offset, terminate_flag, next_block, num_blocks, block_size,
                       block_index>>
    BY <1>3 DEF CreateNext, segment, others, mainVars
  <2>3. Types'
    BY <2>1, <2>2 DEF IInv, Types, Places, Enter
  <2>4. CASE main_pc = "sort"
    <3>1. SortPhase'
      BY <2>1, <2>2, <2>4 DEF IInv, Types, Phases, SortPhase, AllAt, Enter
    <3>2. QED
      BY <2>2, <2>3, <2>4, <3>1 DEF IInv, Phases, Ended
  <2>5. CASE main_pc = "merge"
    <3>1. BeforeWait
      BY <2>1, <2>5 DEF IInv, Phases, MergePhase, BehindWait, OnTheWayOut, AllDone, AllAt, Leaving
    <3>2. BeforeWait'
      BY <2>1, <2>2, <2>5, <3>1 DEF IInv, Types, BeforeWait, AllAt, Merging, Leaving, Enter
    <3>3. QED
      BY <2>2, <2>3, <2>5, <3>2 DEF IInv, Phases, MergePhase, Ended
  <2>6. QED
    BY <2>2, <2>4, <2>5
<1>4. CASE CreateFails
  <2>1. /\ main_pc \in {"sort", "merge"} /\ main_pc' = "failure"
        /\ UNCHANGED <<offset, terminate_flag, next_block, num_blocks, block_size, tpc,
                       block_index>>
    BY <1>4 DEF CreateFails, Exit, segment, threads
  <2>2. Types' /\ (SortPhase => SortPhase') /\ (MergePhase => MergePhase')
    BY <2>1 DEF IInv, Types, Ended, SortPhase, MergePhase, BeforeWait, BehindWait, OnTheWayOut,
                AllDone, AllAt
  <2>3. QED
    BY <2>1, <2>2 DEF IInv, Phases
<1>5. CASE StartMerge
  <2>1. /\ main_pc' = "merge" /\ tpc' = [t \in Tids |-> "unborn"]
        /\ UNCHANGED <<offset, terminate_flag, next_block, num_blocks, block_size, block_index>>
    BY <1>5 DEF StartMerge, Start, segment
  <2>2. Types' /\ BeforeWait'
    BY <2>1 DEF IInv, Types, Places, BeforeWait, AllAt, Merging, Leaving
  <2>3. QED
    BY <2>1, <2>2 DEF IInv, Phases, MergePhase, Ended
<1>6. CASE WriteSegment
  <2>1. /\ main_pc' \in {"map", "failure"} /\ offset' \in {offset, offset + SegmentRecords}
        /\ AllDone
        /\ UNCHANGED <<terminate_flag, next_block, num_blocks, block_size, tpc, block_index>>
    BY <1>6 DEF WriteSegment, Joined, AllDone, AllAt, segment, threads
  <2>2. Types' /\ AllDone'
    BY <2>1, SortAssumption DEF IInv, Types, AllDone, AllAt, Ended
  <2>3. QED
    BY <2>1, <2>2 DEF IInv, Phases, MergePhase
<1>7. QED
  BY <1>1, <1>2, <1>3, <1>4, <1>5, <1>6 DEF MainStep

\* The flag only ever goes up, which no phase minds.
LEMMA SignalStep ==
    ASSUME IInv, sigint_handler
    PROVE  IInv'
<1>1. /\ terminate_flag' = TRUE
      /\ UNCHANGED <<main_pc, offset, next_block, num_blocks, block_size, tpc, block_index>>
  BY DEF sigint_handler, mainVars, segment, threads
<1>2. Types'
  BY <1>1 DEF IInv, Types
<1>3. (SortPhase => SortPhase') /\ (AllDone => AllDone')
  BY <1>1 DEF SortPhase, AllDone, AllAt
<1>4. MergePhase => MergePhase'
  <2>1. BeforeWait => BeforeWait'
    BY <1>1 DEF BeforeWait, AllAt
  <2>2. BehindWait => BehindWait'
    BY <1>1 DEF BehindWait, AllAt
  <2>3. OnTheWayOut => OnTheWayOut'
    BY <1>1 DEF OnTheWayOut, AllAt
  <2>4. QED
    BY <1>3, <2>1, <2>2, <2>3 DEF MergePhase
<1>5. QED
  BY <1>1, <1>2, <1>3, <1>4 DEF IInv, Phases

-----------------------------------------------------------------------------
(* The theorem *)

LEMMA InvariantHolds == Spec => []IInv
<1>1. Init => IInv
  <2> SUFFICES ASSUME Init PROVE IInv
    OBVIOUS
  <2>1. 0 \in Nat /\ "done" \in Places
    BY DEF Places
  <2>2. Types
    BY <2>1 DEF Init, Types
  <2>3. Phases
    BY DEF Init, Phases, AllDone, AllAt
  <2>4. QED
    BY <2>2, <2>3 DEF IInv
<1>2. IInv /\ [Next]_vars => IInv'
  <2> SUFFICES ASSUME IInv, [Next]_vars PROVE IInv'
    OBVIOUS
  <2>1. CASE UNCHANGED vars
    BY <2>1 DEF IInv, Types, Phases, SortPhase, MergePhase, BeforeWait, BehindWait,
                OnTheWayOut, AllDone, AllAt, vars, mainVars, segment, threads
  <2>2. CASE \E t \in Tids : Thread(t)
    BY <2>2, ThreadSteps
  <2>3. CASE MainStep
    BY <2>3, MainSteps
  <2>4. CASE sigint_handler
    BY <2>4, SignalStep
  <2>5. QED
    BY <2>1, <2>2, <2>3, <2>4 DEF Next
<1>3. QED
  BY <1>1, <1>2, PTL DEF Spec

\* No two threads of lab06 are ever at the same record, and nobody merges while
\* thread 0 counts a round, for any number of threads and blocks, any file, and
\* wherever a signal splits the threads.
THEOREM ThreadsKeepApart == Spec => []OwnCells
<1>1. IInv => OwnCells
  <2> SUFFICES ASSUME IInv PROVE OwnCells
    OBVIOUS
  <2>1. AllDone => MergePhase
    BY DEF MergePhase
  <2>2. Types /\ (SortPhase \/ MergePhase)
    BY <2>1 DEF IInv, Types, Phases, Ended
  <2>3. QED
    BY <2>2, PhasesKeepApart
<1>2. QED
  BY <1>1, InvariantHolds, PTL
-----------------------------------------------------------------------------
(* Counting the cells of a set by their key.  f is a file, S a set of cells    *)
(* with numbers in them.                                                      *)

Under(f, S, k) == Cardinality({j \in S : f[j] < k})
UpTo(f, S, k)  == Cardinality({j \in S : f[j] <= k})
Equal(f, S, k) == Cardinality({j \in S : f[j] = k})

\* In the n cells from a on.
InRow(f, a, n, k) == Equal(f, a..a + n - 1, k)

Keyed(f, S) == IsFiniteSet(S) /\ \A j \in S : f[j] \in Int

LEMMA Counts ==
    ASSUME NEW f, NEW S, Keyed(f, S), NEW k \in Int
    PROVE  /\ Under(f, S, k) \in Nat /\ UpTo(f, S, k) \in Nat /\ Equal(f, S, k) \in Nat
           /\ UpTo(f, S, k) = Under(f, S, k) + Equal(f, S, k)
           /\ Cardinality(S) \in Nat /\ UpTo(f, S, k) <= Cardinality(S)
<1> DEFINE U == {j \in S : f[j] < k}
           E == {j \in S : f[j] = k}
           T == {j \in S : f[j] <= k}
<1>1. /\ U \in SUBSET S /\ E \in SUBSET S /\ T \in SUBSET S
      /\ T = U \cup E /\ U \cap E = {}
  BY DEF Keyed
<1> HIDE DEF U, E, T
<1>2. IsFiniteSet(S) /\ IsFiniteSet(U) /\ IsFiniteSet(E) /\ IsFiniteSet(T)
  BY <1>1, FS_Subset DEF Keyed
<1>3. Cardinality(T) <= Cardinality(S)
  BY <1>1, <1>2, FS_Subset
<1>4. Cardinality(T) = Cardinality(U) + Cardinality(E) - Cardinality(U \cap E)
  BY <1>1, <1>2, FS_Union
<1>5. Cardinality(U \cap E) = 0
  BY <1>1, FS_EmptySet
<1>6. /\ Cardinality(U) \in Nat /\ Cardinality(E) \in Nat /\ Cardinality(T) \in Nat
      /\ Cardinality(S) \in Nat
  BY <1>2, FS_CardinalityType
<1>7. Cardinality(T) = Cardinality(U) + Cardinality(E)
  BY <1>4, <1>5, <1>6
<1>8. Under(f, S, k) = Cardinality(U) /\ Equal(f, S, k) = Cardinality(E)
      /\ UpTo(f, S, k) = Cardinality(T)
  BY DEF U, E, T, Under, Equal, UpTo
<1>9. QED
  BY <1>3, <1>6, <1>7, <1>8

\* What is at most k is less than any larger key, and a cell counts for its own.
LEMMA CountsGrow ==
    ASSUME NEW f, NEW S, Keyed(f, S), NEW k \in Int, NEW l \in Int, k < l
    PROVE  /\ UpTo(f, S, k) <= Under(f, S, l)
           /\ (\E j \in S : f[j] = l) => UpTo(f, S, k) < UpTo(f, S, l)
<1> DEFINE T == {j \in S : f[j] <= k}
           U == {j \in S : f[j] < l}
<1>1. U \in SUBSET S /\ T \in SUBSET U
  BY DEF Keyed
<1> HIDE DEF T, U
<1>2. IsFiniteSet(U)
  BY <1>1, FS_Subset DEF Keyed
<1>3. Cardinality(T) <= Cardinality(U)
  BY <1>1, <1>2, FS_Subset
<1>4. UpTo(f, S, k) <= Under(f, S, l)
  BY <1>3 DEF T, U, UpTo, Under
<1>5. ASSUME NEW j \in S, f[j] = l PROVE Equal(f, S, l) > 0
  <2> DEFINE E == {i \in S : f[i] = l}
  <2>1. E \in SUBSET S /\ E # {}
    BY <1>5
  <2> HIDE DEF E
  <2>2. IsFiniteSet(E)
    BY <2>1, FS_Subset DEF Keyed
  <2>3. Cardinality(E) \in Nat /\ Cardinality(E) # 0
    BY <2>1, <2>2, FS_CardinalityType, FS_EmptySet
  <2>4. Equal(f, S, l) = Cardinality(E)
    BY DEF Equal, E
  <2>5. QED
    BY <2>3, <2>4
<1>6. /\ UpTo(f, S, k) \in Nat /\ UpTo(f, S, l) \in Nat /\ Under(f, S, l) \in Nat
      /\ Equal(f, S, l) \in Nat /\ UpTo(f, S, l) = Under(f, S, l) + Equal(f, S, l)
  BY Counts
<1>7. QED
  BY <1>4, <1>5, <1>6

\* A set of cells has one with the greatest key.
LEMMA Greatest ==
    ASSUME NEW f, NEW S, Keyed(f, S), NEW D \in SUBSET S, D # {}
    PROVE  \E d \in D : \A e \in D : f[e] <= f[d]
<1> DEFINE c == Cardinality(S)
           far(d) == c - UpTo(f, S, f[d])
           Far == {far(d) : d \in D}
<1>1. \A d \in D : f[d] \in Int /\ d \in S
  BY DEF Keyed
<1>2. \A d \in D : UpTo(f, S, f[d]) \in Nat /\ c \in Nat /\ UpTo(f, S, f[d]) <= c
  BY <1>1, Counts
<1>3. Far \in SUBSET Nat /\ Far # {}
  BY <1>2
<1>4. PICK d \in D : \A e \in D : far(d) <= far(e)
  <2> HIDE DEF Far
  <2>1. PICK m \in Far : \A n \in Far : m <= n
    BY <1>3, Smallest
  <2>2. QED
    BY <2>1 DEF Far
<1>5. ASSUME NEW e \in D, ~(f[e] <= f[d]) PROVE FALSE
  <2>1. f[d] \in Int /\ f[e] \in Int /\ f[d] < f[e] /\ e \in S
    BY <1>1, <1>5
  <2>2. UpTo(f, S, f[d]) < UpTo(f, S, f[e])
    BY <2>1, CountsGrow
  <2>3. QED
    BY <1>2, <1>4, <2>2
<1>6. QED
  BY <1>5

\* For each place there is a key that belongs there: fewer cells are under it
\* than come to it.
LEMMA PlaceTaken ==
    ASSUME NEW f, NEW S, Keyed(f, S), NEW r \in Nat, r < Cardinality(S)
    PROVE  \E j \in S : Under(f, S, f[j]) <= r /\ r < UpTo(f, S, f[j])
<1> DEFINE G == {j \in S : UpTo(f, S, f[j]) > r}
           Up == {UpTo(f, S, f[j]) : j \in G}
<1>1. \A j \in S : /\ f[j] \in Int
                   /\ UpTo(f, S, f[j]) \in Nat /\ Under(f, S, f[j]) \in Nat
  BY Counts DEF Keyed
<1>2. G # {}
  <2>1. S # {}
    BY FS_EmptySet
  <2>2. PICK d \in S : \A e \in S : f[e] <= f[d]
    BY <2>1, Greatest
  <2>3. {j \in S : f[j] <= f[d]} = S
    BY <2>2
  <2>4. UpTo(f, S, f[d]) = Cardinality(S)
    BY <2>3 DEF UpTo
  <2>5. QED
    BY <1>1, <2>4
<1>3. PICK j \in G : \A i \in G : UpTo(f, S, f[j]) <= UpTo(f, S, f[i])
  <2>1. Up \in SUBSET Nat /\ Up # {}
    BY <1>1, <1>2
  <2> HIDE DEF Up
  <2>2. PICK m \in Up : \A n \in Up : m <= n
    BY <2>1, Smallest
  <2>3. QED
    BY <2>2 DEF Up
<1>4. j \in S /\ r < UpTo(f, S, f[j]) /\ f[j] \in Int
  BY <1>1, <1>3
<1>5. ASSUME ~(Under(f, S, f[j]) <= r) PROVE FALSE
  <2> DEFINE D == {i \in S : f[i] < f[j]}
  <2>1. D \in SUBSET S /\ Cardinality(D) = Under(f, S, f[j])
    BY DEF Under
  <2>2. D # {}
    <3> HIDE DEF D
    <3>1. Cardinality(D) # 0
      BY <1>1, <1>4, <1>5, <2>1
    <3>2. QED
      BY <3>1, FS_EmptySet
  <2>3. PICK d \in D : \A e \in D : f[e] <= f[d]
    <3> HIDE DEF D
    <3>1. QED
      BY <2>1, <2>2, Greatest
  <2>4. d \in S /\ f[d] \in Int /\ f[d] < f[j]
    BY <1>1, <2>3
  <2>5. {i \in S : f[i] <= f[d]} = D
    BY <1>1, <1>4, <2>3, <2>4
  <2>6. UpTo(f, S, f[d]) = Under(f, S, f[j])
    BY <2>1, <2>5 DEF UpTo
  <2>7. d \in G
    BY <1>1, <1>4, <1>5, <2>4, <2>6
  <2>8. UpTo(f, S, f[d]) < UpTo(f, S, f[j])
    BY <1>4, <2>4, CountsGrow
  <2>9. QED
    BY <1>1, <1>3, <1>4, <2>4, <2>7, <2>8
<1>6. QED
  BY <1>4, <1>5

\* The set of the numbers first..first + n - 1.
LEMMA Row ==
    ASSUME NEW first \in Nat, NEW n \in Nat
    PROVE  IsFiniteSet(first..first + n - 1) /\ Cardinality(first..first + n - 1) = n
<1> DEFINE last == first + n - 1
<1>1. first \in Int /\ last \in Int /\ (first > last => n = 0) /\ last - first + 1 = n
  OBVIOUS
<1> HIDE DEF last
<1>2. IsFiniteSet(first..last) /\ Cardinality(first..last) = IF first > last THEN 0 ELSE last - first + 1
  BY <1>1, FS_Interval
<1>3. Cardinality(first..last) = n
  BY <1>1, <1>2
<1>4. QED
  BY <1>2, <1>3 DEF last

-----------------------------------------------------------------------------
(* The sort of a block *)

FileOK == file \in [0..TotalRecords - 1 -> Keys]

\* The key k belongs to the cell i of the block of cells from first on.
Belongs(k, i, cells, first) ==
    /\ k \in Keys
    /\ Under(file, cells, k) <= i - first
    /\ i - first < UpTo(file, cells, k)

\* The file g is the file with the n cells from first on in another order.
Permutes(g, first, n) ==
    /\ g \in [0..TotalRecords - 1 -> Keys]
    /\ \A i \in 0..TotalRecords - 1 : i \notin first..first + n - 1 => g[i] = file[i]
    /\ \A k \in Keys : InRow(g, first, n, k) = InRow(file, first, n, k)

Ordered(g, first, n) == \A i \in first..first + n - 2 : g[i] <= g[i + 1]

LEMMA BlockSorted ==
    ASSUME FileOK, NEW first \in Nat, NEW n \in Nat, first + n <= TotalRecords
    PROVE  /\ Permutes(SortedBlock(first..first + n - 1, first), first, n)
           /\ Ordered(SortedBlock(first..first + n - 1, first), first, n)
<1> DEFINE cells == first..first + n - 1
           g == SortedBlock(cells, first)
<1>1. /\ IsFiniteSet(cells) /\ Cardinality(cells) = n
      /\ cells \in SUBSET (0..TotalRecords - 1) /\ TotalRecords \in Nat
  <2>1. cells \in SUBSET (0..TotalRecords - 1) /\ TotalRecords \in Nat
    BY SortAssumption
  <2>2. QED
    BY <2>1, Row
<1>2. DOMAIN file = 0..TotalRecords - 1 /\ Keys \subseteq Int
      /\ \A i \in 0..TotalRecords - 1 : file[i] \in Keys
  BY SortAssumption DEF FileOK
<1>3. Keyed(file, cells)
  BY <1>1, <1>2 DEF Keyed
<1>4. \A i \in cells : i - first \in Nat /\ i - first < n
  OBVIOUS
<1> DEFINE m(i) == CHOOSE k \in Keys :
                     /\ Cardinality({j \in cells : file[j] < k}) <= i - first
                     /\ i - first < Cardinality({j \in cells : file[j] <= k})
<1>5. g = [i \in 0..TotalRecords - 1 |-> IF i \notin cells THEN file[i] ELSE m(i)]
  <2> HIDE DEF cells
  <2>1. QED
    BY <1>2, Zenon DEF SortedBlock
<1> HIDE DEF cells, g
<1>6. ASSUME NEW i \in cells PROVE Belongs(m(i), i, cells, first)
  <2>1. i - first \in Nat /\ i - first < Cardinality(cells)
    BY <1>1, <1>4
  <2>2. PICK j \in cells : /\ Under(file, cells, file[j]) <= i - first
                           /\ i - first < UpTo(file, cells, file[j])
    BY <1>3, <2>1, PlaceTaken
  <2>3. file[j] \in Keys
    BY <1>1, <1>2, <2>2
  <2>4. \E k \in Keys : /\ Cardinality({c \in cells : file[c] < k}) <= i - first
                         /\ i - first < Cardinality({c \in cells : file[c] <= k})
    BY <2>2, <2>3, Zenon DEF Under, UpTo
  <2>5. QED
    BY <2>4, Zenon DEF Belongs, Under, UpTo
<1>7. \A i \in cells : g[i] = m(i) /\ Belongs(g[i], i, cells, first)
  BY <1>1, <1>5, <1>6
<1> HIDE DEF m
<1>8. g \in [0..TotalRecords - 1 -> Keys]
  <2>1. \A i \in cells : m(i) \in Keys
    BY <1>6 DEF Belongs
  <2>2. QED
    BY <1>2, <1>5, <2>1
<1>9. \A i \in 0..TotalRecords - 1 : i \notin cells => g[i] = file[i]
  BY <1>5
<1>10. \A k \in Keys : /\ k \in Int
                       /\ Under(file, cells, k) \in Nat /\ UpTo(file, cells, k) \in Nat
                       /\ Equal(file, cells, k) \in Nat
                       /\ UpTo(file, cells, k) = Under(file, cells, k) + Equal(file, cells, k)
                       /\ UpTo(file, cells, k) <= n
  <2>1. \A k \in Keys : k \in Int
    BY <1>2
  <2>2. QED
    BY <1>1, <1>3, <2>1, Counts
<1>11. ASSUME NEW i \in cells, NEW j \in cells, NEW k \in Keys, NEW l \in Keys,
              Belongs(k, i, cells, first), Belongs(l, j, cells, first), l < k
       PROVE  j < i
  <2>1. UpTo(file, cells, l) <= Under(file, cells, k)
    BY <1>3, <1>10, <1>11, CountsGrow
  <2>2. i \in Nat /\ j \in Nat
    BY <1>1
  <2>3. Under(file, cells, k) <= i - first /\ j - first < UpTo(file, cells, l)
    BY <1>11 DEF Belongs
  <2>4. QED
    BY <1>10, <2>1, <2>2, <2>3
<1>12. ASSUME NEW i \in cells, NEW j \in cells, i < j PROVE g[i] <= g[j]
  <2>1. g[i] \in Keys /\ g[j] \in Keys /\ g[i] \in Int /\ g[j] \in Int
    BY <1>7, <1>10 DEF Belongs
  <2>2. i \in Nat /\ j \in Nat
    BY <1>1
  <2>3. g[j] < g[i] => j < i
    BY <1>7, <1>11, <2>1
  <2>4. QED
    BY <1>12, <2>1, <2>2, <2>3
<1>13. ASSUME NEW k \in Keys PROVE Equal(g, cells, k) = Equal(file, cells, k)
  <2> DEFINE a == first + Under(file, cells, k)
             e == Equal(file, cells, k)
  <2>1. a \in Nat /\ e \in Nat /\ a + e = first + UpTo(file, cells, k) /\ first <= a
        /\ a + e <= first + n
    BY <1>10
  <2>2. {i \in cells : g[i] = k} = a..a + e - 1
    <3>1. ASSUME NEW i \in cells, g[i] = k PROVE i \in a..a + e - 1
      <4>1. i \in Nat /\ Belongs(k, i, cells, first)
        BY <1>1, <1>7, <3>1
      <4>2. Under(file, cells, k) <= i - first /\ i - first < UpTo(file, cells, k)
        BY <4>1 DEF Belongs
      <4>3. QED
        BY <1>10, <2>1, <4>1, <4>2
    <3>2. ASSUME NEW i \in a..a + e - 1 PROVE i \in cells /\ g[i] = k
      <4>1. i \in Nat /\ i \in cells
        BY <2>1 DEF cells
      <4>2. Under(file, cells, k) <= i - first /\ i - first < UpTo(file, cells, k)
        BY <1>10, <2>1
      <4>3. Belongs(k, i, cells, first)
        BY <4>2 DEF Belongs
      <4>4. g[i] \in Keys /\ Belongs(g[i], i, cells, first) /\ g[i] \in Int /\ k \in Int
        BY <1>7, <1>10, <4>1 DEF Belongs
      <4>5. ~(g[i] < k) /\ ~(k < g[i])
        <5>1. g[i] < k => i < i
          BY <1>11, <4>1, <4>3, <4>4
        <5>2. k < g[i] => i < i
          BY <1>11, <4>1, <4>3, <4>4
        <5>3. QED
          BY <4>1, <5>1, <5>2
      <4>6. QED
        BY <4>1, <4>4, <4>5
    <3>3. QED
      BY <3>1, <3>2
  <2> HIDE DEF a, e
  <2>3. Cardinality(a..a + e - 1) = e
    BY <2>1, Row
  <2>4. QED
    BY <2>2, <2>3 DEF Equal, e
<1>14. Permutes(g, first, n)
  BY <1>8, <1>9, <1>13 DEF Permutes, InRow, cells
<1>15. Ordered(g, first, n)
  <2>1. SUFFICES ASSUME NEW i \in first..first + n - 2 PROVE g[i] <= g[i + 1]
    BY DEF Ordered
  <2>2. i \in cells /\ i + 1 \in cells /\ i < i + 1
    BY DEF cells
  <2>3. QED
    BY <1>12, <2>2
<1>16. QED
  BY <1>14, <1>15 DEF g, cells

-----------------------------------------------------------------------------
(* The merge of two blocks *)

LEMMA EqualIsNat ==
    ASSUME NEW f, NEW S, IsFiniteSet(S), NEW k
    PROVE  Equal(f, S, k) \in Nat
<1> DEFINE E == {i \in S : f[i] = k}
<1>1. E \in SUBSET S
  OBVIOUS
<1> HIDE DEF E
<1>2. Cardinality(E) \in Nat
  BY <1>1, FS_Subset, FS_CardinalityType
<1>3. QED
  BY <1>2 DEF Equal, E

LEMMA EqualUnion ==
    ASSUME NEW f, NEW S, NEW T, IsFiniteSet(S), IsFiniteSet(T), S \cap T = {}, NEW k
    PROVE  Equal(f, S \cup T, k) = Equal(f, S, k) + Equal(f, T, k)
<1> DEFINE A == {i \in S : f[i] = k}
           B == {i \in T : f[i] = k}
<1>1. A \in SUBSET S /\ B \in SUBSET T /\ A \cap B = {}
      /\ {i \in S \cup T : f[i] = k} = A \cup B
  OBVIOUS
<1> HIDE DEF A, B
<1>2. IsFiniteSet(A) /\ IsFiniteSet(B)
  BY <1>1, FS_Subset
<1>3. Cardinality(A \cup B) = Cardinality(A) + Cardinality(B) - Cardinality(A \cap B)
  BY <1>2, FS_Union
<1>4. Cardinality(A) \in Nat /\ Cardinality(B) \in Nat /\ Cardinality(A \cap B) = 0
  BY <1>1, <1>2, FS_CardinalityType, FS_EmptySet
<1>5. Cardinality(A \cup B) = Cardinality(A) + Cardinality(B)
  BY <1>3, <1>4
<1>6. QED
  BY <1>1, <1>5 DEF Equal, A, B

LEMMA EqualOne ==
    ASSUME NEW f, NEW i, NEW k
    PROVE  Equal(f, {i}, k) = IF f[i] = k THEN 1 ELSE 0
<1>1. CASE f[i] = k
  <2>1. {j \in {i} : f[j] = k} = {i}
    BY <1>1
  <2>2. QED
    BY <1>1, <2>1, FS_Singleton DEF Equal
<1>2. CASE f[i] # k
  <2>1. {j \in {i} : f[j] = k} = {}
    BY <1>2
  <2>2. QED
    BY <1>2, <2>1, FS_EmptySet DEF Equal
<1>3. QED
  BY <1>1, <1>2

LEMMA RowIsNat ==
    ASSUME NEW f, NEW a \in Nat, NEW n \in Nat, NEW k
    PROVE  InRow(f, a, n, k) \in Nat
BY Row, EqualIsNat DEF InRow

\* A row is its first cell and the row behind it, and two rows in a row are one.
LEMMA RowFirst ==
    ASSUME NEW f, NEW a \in Nat, NEW n \in Nat, n > 0, NEW k
    PROVE  InRow(f, a, n, k) = (IF f[a] = k THEN 1 ELSE 0) + InRow(f, a + 1, n - 1, k)
<1> DEFINE R == a + 1..(a + 1) + (n - 1) - 1
<1>1. a..a + n - 1 = {a} \cup R /\ {a} \cap R = {}
  OBVIOUS
<1>2. IsFiniteSet({a}) /\ IsFiniteSet(R)
  <2>1. a + 1 \in Nat /\ n - 1 \in Nat
    OBVIOUS
  <2>2. QED
    BY <2>1, Row, FS_Singleton
<1> HIDE DEF R
<1>3. Equal(f, {a} \cup R, k) = Equal(f, {a}, k) + Equal(f, R, k)
  BY <1>1, <1>2, EqualUnion
<1>4. Equal(f, {a}, k) = IF f[a] = k THEN 1 ELSE 0
  BY EqualOne
<1>5. InRow(f, a, n, k) = Equal(f, {a}, k) + Equal(f, R, k)
  BY <1>1, <1>3 DEF InRow
<1>6. InRow(f, a + 1, n - 1, k) = Equal(f, R, k)
  BY DEF InRow, R
<1>7. QED
  BY <1>4, <1>5, <1>6

LEMMA RowsJoin ==
    ASSUME NEW f, NEW a \in Nat, NEW n \in Nat, NEW m \in Nat, NEW k
    PROVE  InRow(f, a, n + m, k) = InRow(f, a, n, k) + InRow(f, a + n, m, k)
<1> DEFINE S == a..a + n - 1
           T == a + n..(a + n) + m - 1
<1>1. a..a + (n + m) - 1 = S \cup T /\ S \cap T = {}
  OBVIOUS
<1>2. IsFiniteSet(S) /\ IsFiniteSet(T)
  <2>1. a + n \in Nat
    OBVIOUS
  <2>2. QED
    BY <2>1, Row
<1>3. InRow(f, a, n, k) = Equal(f, S, k) /\ InRow(f, a + n, m, k) = Equal(f, T, k)
  BY DEF InRow
<1> HIDE DEF S, T
<1>4. Equal(f, S \cup T, k) = Equal(f, S, k) + Equal(f, T, k)
  BY <1>1, <1>2, EqualUnion
<1>5. InRow(f, a, n + m, k) = Equal(f, S \cup T, k)
  BY <1>1 DEF InRow
<1>6. QED
  BY <1>3, <1>4, <1>5

LEMMA EmptyRow ==
    ASSUME NEW f, NEW a \in Nat, NEW k
    PROVE  InRow(f, a, 0, k) = 0
<1>1. {i \in a..a + 0 - 1 : f[i] = k} = {}
  OBVIOUS
<1>2. QED
  BY <1>1, FS_EmptySet DEF Equal, InRow

\* g from b on is f from a on.
SameRow(f, a, g, b, n) == \A i \in 0..n - 1 : g[b + i] = f[a + i]

LEMMA RowShift ==
    ASSUME NEW f, NEW g, NEW a \in Nat, NEW b \in Nat, NEW n \in Nat, SameRow(f, a, g, b, n), NEW k
    PROVE  InRow(f, a, n, k) = InRow(g, b, n, k)
<1> DEFINE A == {i \in a..a + n - 1 : f[i] = k}
           B == {i \in b..b + n - 1 : g[i] = k}
           to == [i \in A |-> b + (i - a)]
<1>1. ASSUME NEW i \in A PROVE to[i] \in B
  <2>1. i - a \in 0..n - 1 /\ a + (i - a) = i /\ b + (i - a) \in b..b + n - 1
    OBVIOUS
  <2>2. QED
    BY <2>1 DEF SameRow
<1>2. ASSUME NEW i \in A, NEW j \in A, to[i] = to[j] PROVE i = j
  BY <1>2
<1>3. ASSUME NEW j \in B PROVE \E i \in A : to[i] = j
  <2>1. /\ j - b \in 0..n - 1 /\ b + (j - b) = j /\ a + (j - b) \in a..a + n - 1
        /\ b + ((a + (j - b)) - a) = j
    OBVIOUS
  <2>2. a + (j - b) \in A
    BY <2>1 DEF SameRow
  <2>3. QED
    BY <2>1, <2>2
<1>4. to \in [A -> B]
  BY <1>1
<1>5. A \in SUBSET (a..a + n - 1) /\ IsFiniteSet(a..a + n - 1)
  BY Row
<1> HIDE DEF A, B, to
<1>6. to \in Bijection(A, B)
  BY <1>2, <1>3, <1>4 DEF Bijection, Injection, IsInjective, Surjection
<1>7. IsFiniteSet(A) /\ ExistsBijection(A, B)
  BY <1>5, <1>6, FS_Subset DEF ExistsBijection
<1>8. Cardinality(A) = Cardinality(B)
  BY <1>7, FS_Bijection, FS_CardinalityType
<1>9. QED
  BY <1>8 DEF A, B, Equal, InRow

Square(n) == (0..n) \X (0..n)

RestOf(first, k, n) == [i \in 1..n - k |-> file[first + k + i - 1]]

MergeBody(f, a, b, n, ij) ==
    IF ij[1] < n /\ ij[2] < n
    THEN IF LeftFirst(file[a + ij[1]], file[b + ij[2]])
         THEN <<file[a + ij[1]]>> \o f[<<ij[1] + 1, ij[2]>>]
         ELSE <<file[b + ij[2]]>> \o f[<<ij[1], ij[2] + 1>>]
    ELSE IF ij[1] < n THEN RestOf(a, ij[1], n) ELSE RestOf(b, ij[2], n)

Merges(f, a, b, n) == f = [ij \in Square(n) |-> MergeBody(f, a, b, n, ij)]

\* The pairs from which at most s records are left.
Left(n, s) == {ij \in Square(n) : 2 * n <= ij[1] + ij[2] + s}

\* f solves the recursion there.
Partly(f, a, b, n, s) == f = [ij \in Left(n, s) |-> MergeBody(f, a, b, n, ij)]

LEMMA PartlyGrows ==
    ASSUME NEW a, NEW b, NEW n \in Nat, NEW s \in Nat, NEW f, Partly(f, a, b, n, s)
    PROVE  \E g : Partly(g, a, b, n, s + 1)
<1> DEFINE g == [ij \in Left(n, s + 1) |-> MergeBody(f, a, b, n, ij)]
<1>1. \A ij \in Left(n, s) : ij \in Left(n, s + 1)
  BY DEF Left, Square
<1>2. \A ij \in Left(n, s) : g[ij] = MergeBody(f, a, b, n, ij) /\ f[ij] = MergeBody(f, a, b, n, ij)
  BY <1>1 DEF Partly
<1>3. \A ij \in Left(n, s) : g[ij] = f[ij]
  BY <1>2
<1>4. ASSUME NEW ij \in Left(n, s + 1)
      PROVE  MergeBody(g, a, b, n, ij) = MergeBody(f, a, b, n, ij)
  <2>1. ij[1] \in 0..n /\ ij[2] \in 0..n /\ 2 * n <= ij[1] + ij[2] + (s + 1)
    BY DEF Left, Square
  <2>2. CASE ij[1] < n /\ ij[2] < n
    <3>1. /\ ij[1] + 1 \in 0..n /\ ij[2] + 1 \in 0..n
          /\ 2 * n <= (ij[1] + 1) + ij[2] + s /\ 2 * n <= ij[1] + (ij[2] + 1) + s
      BY <2>1, <2>2
    <3>2. <<ij[1] + 1, ij[2]>> \in Left(n, s) /\ <<ij[1], ij[2] + 1>> \in Left(n, s)
      BY <2>1, <3>1 DEF Left, Square
    <3>3. /\ g[<<ij[1] + 1, ij[2]>>] = f[<<ij[1] + 1, ij[2]>>]
          /\ g[<<ij[1], ij[2] + 1>>] = f[<<ij[1], ij[2] + 1>>]
      BY <1>3, <3>2
    <3> HIDE DEF g
    <3>4. QED
      BY <3>3 DEF MergeBody
  <2>3. CASE ij[1] = n \/ ij[2] = n
    <3> HIDE DEF g
    <3>1. ~(n < n)
      OBVIOUS
    <3>2. QED
      BY <2>1, <2>3, <3>1 DEF MergeBody
  <2>4. QED
    BY <2>1, <2>2, <2>3
<1>5. g = [ij \in Left(n, s + 1) |-> MergeBody(g, a, b, n, ij)]
  <2> DEFINE h == [ij \in Left(n, s + 1) |-> MergeBody(g, a, b, n, ij)]
  <2>1. \A ij \in Left(n, s + 1) : g[ij] = h[ij]
    BY <1>4
  <2>2. QED
    BY <1>4
<1>6. QED
  BY <1>5 DEF Partly

\* The recursive definition of the merge has a solution, so it is one.
LEMMA MergeUnfolds ==
    ASSUME NEW a, NEW b, NEW n \in Nat
    PROVE  \E f : Merges(f, a, b, n) /\ MergedFrom(a, b, n) = f[<<0, 0>>]
<1> DEFINE Bad == {s \in Nat : ~ \E f : Partly(f, a, b, n, s)}
<1>1. Bad = {}
  <2>1. SUFFICES ASSUME Bad # {} PROVE FALSE
    OBVIOUS
  <2>2. PICK s \in Bad : \A r \in Bad : s <= r
    <3>1. Bad \in SUBSET Nat
      OBVIOUS
    <3> HIDE DEF Bad
    <3>2. QED
      BY <2>1, <3>1, Smallest
  <2>3. CASE s = 0
    <3> DEFINE f == [ij \in Left(n, 0) |-> RestOf(b, ij[2], n)]
    <3>1. \A ij \in Left(n, 0) : ij[1] = n
      BY DEF Left, Square
    <3>2. \A h, ij : ij[1] = n => MergeBody(h, a, b, n, ij) = RestOf(b, ij[2], n)
      <4>1. ~(n < n)
        OBVIOUS
      <4>2. QED
        BY <4>1 DEF MergeBody
    <3>3. \A ij \in Left(n, 0) : MergeBody(f, a, b, n, ij) = RestOf(b, ij[2], n)
      <4> HIDE DEF f
      <4>1. QED
        BY <3>1, <3>2
    <3>4. f = [ij \in Left(n, 0) |-> MergeBody(f, a, b, n, ij)]
      BY <3>3
    <3>5. QED
      BY <2>2, <2>3, <3>4 DEF Partly
  <2>4. CASE s # 0
    <3>1. s - 1 \in Nat /\ ~(s <= s - 1) /\ (s - 1) + 1 = s
      BY <2>2, <2>4
    <3>2. PICK f : Partly(f, a, b, n, s - 1)
      BY <2>2, <3>1
    <3>3. \E g : Partly(g, a, b, n, (s - 1) + 1)
      BY <3>1, <3>2, PartlyGrows
    <3>4. QED
      BY <2>2, <3>1, <3>3
  <2>5. QED
    BY <2>3, <2>4
<1>2. 2 * n \in Nat
  OBVIOUS
<1>3. \E f : Partly(f, a, b, n, 2 * n)
  BY <1>1, <1>2
<1>4. Left(n, 2 * n) = Square(n)
  BY DEF Left, Square
<1>5. \E f : Merges(f, a, b, n)
  BY <1>3, <1>4 DEF Partly, Merges
<1> DEFINE sol == CHOOSE f : Merges(f, a, b, n)
<1>6. Merges(sol, a, b, n)
  BY <1>5
<1>7. MergedFrom(a, b, n) = sol[<<0, 0>>]
  BY DEF MergedFrom, Merges, MergeBody, RestOf, Square
<1> HIDE DEF sol
<1>8. QED
  BY <1>6, <1>7

\* s is what the merge makes of the cells left when i and j are taken: as long as
\* they are many, with as many of each key, in order if the blocks are.
MergeOK(s, a, b, n, i, j) ==
    /\ s \in Seq(Keys) /\ Len(s) = (n - i) + (n - j)
    /\ \A k \in Keys : InRow(s, 1, (n - i) + (n - j), k)
                         = InRow(file, a + i, n - i, k) + InRow(file, b + j, n - j, k)
    /\ Len(s) > 0 => (i < n /\ s[1] = file[a + i]) \/ (j < n /\ s[1] = file[b + j])
    /\ InOrder(a, n) /\ InOrder(b, n) => \A p \in 1..Len(s) - 1 : s[p] <= s[p + 1]

\* The blocks of n cells from a and b on are in the file.
BlocksIn(a, b, n) ==
    /\ a \in Nat /\ b \in Nat /\ n \in Nat
    /\ \A i \in 0..n - 1 : file[a + i] \in Keys /\ file[b + i] \in Keys

LEMMA RestFacts ==
    ASSUME NEW first \in Nat, NEW n \in Nat, NEW k \in 0..n,
           \A i \in 0..n - 1 : file[first + i] \in Keys
    PROVE  /\ RestOf(first, k, n) \in Seq(Keys) /\ Len(RestOf(first, k, n)) = n - k
           /\ \A p \in 1..n - k : RestOf(first, k, n)[p] = file[first + k + p - 1]
           /\ \A v : InRow(RestOf(first, k, n), 1, n - k, v) = InRow(file, first + k, n - k, v)
<1> DEFINE s == RestOf(first, k, n)
           m == n - k
<1>1. m \in Nat
  OBVIOUS
<1>2. ASSUME NEW p \in 1..m PROVE file[first + k + p - 1] \in Keys
  <2>1. k + p - 1 \in 0..n - 1 /\ first + (k + p - 1) = first + k + p - 1
    OBVIOUS
  <2>2. QED
    BY <2>1
<1>3. s = [p \in 1..m |-> file[first + k + p - 1]]
  BY DEF RestOf
<1>4. /\ s \in Seq(Keys) /\ Len(s) = m
      /\ \A p \in 1..m : s[p] = file[first + k + p - 1]
  <2> HIDE DEF m, s
  <2>1. QED
    BY <1>1, <1>2, <1>3
<1>5. ASSUME NEW v PROVE InRow(s, 1, m, v) = InRow(file, first + k, m, v)
  <2> DEFINE c == first + k
  <2>1. c \in Nat /\ 1 \in Nat
    OBVIOUS
  <2>2. SameRow(file, c, s, 1, m)
    <3>1. SUFFICES ASSUME NEW i \in 0..m - 1 PROVE s[1 + i] = file[c + i]
      BY DEF SameRow
    <3>2. 1 + i \in 1..m /\ first + k + (1 + i) - 1 = c + i
      BY <1>1
    <3> HIDE DEF c, s, m
    <3>3. s[1 + i] = file[first + k + (1 + i) - 1]
      BY <1>4, <3>2
    <3>4. QED
      BY <3>2, <3>3
  <2> HIDE DEF c, s, m
  <2>3. InRow(file, c, m, v) = InRow(s, 1, m, v)
    BY <1>1, <2>1, <2>2, RowShift
  <2>4. QED
    BY <2>3 DEF c
<1>6. QED
  BY <1>4, <1>5

LEMMA ConsFacts ==
    ASSUME NEW x \in Keys, NEW t \in Seq(Keys), NEW m \in Nat, Len(t) = m
    PROVE  /\ <<x>> \o t \in Seq(Keys) /\ Len(<<x>> \o t) = m + 1
           /\ (<<x>> \o t)[1] = x /\ \A p \in 1..m : (<<x>> \o t)[p + 1] = t[p]
           /\ \A v : InRow(<<x>> \o t, 1, m + 1, v) = (IF x = v THEN 1 ELSE 0) + InRow(t, 1, m, v)
<1> DEFINE s == <<x>> \o t
<1>1. /\ s \in Seq(Keys) /\ Len(s) = m + 1
      /\ s[1] = x /\ \A p \in 1..m : s[p + 1] = t[p]
  OBVIOUS
<1> HIDE DEF s
<1>2. ASSUME NEW v
      PROVE  InRow(s, 1, m + 1, v) = (IF x = v THEN 1 ELSE 0) + InRow(t, 1, m, v)
  <2> DEFINE m1 == m + 1
  <2>1. m1 \in Nat /\ m1 > 0 /\ 1 \in Nat /\ 2 \in Nat /\ 1 + 1 = 2 /\ m1 - 1 = m
    OBVIOUS
  <2> HIDE DEF m1
  <2>2. InRow(s, 1, m1, v) = (IF s[1] = v THEN 1 ELSE 0) + InRow(s, 1 + 1, m1 - 1, v)
    BY <2>1, RowFirst
  <2>3. SameRow(t, 1, s, 2, m)
    <3>1. SUFFICES ASSUME NEW i \in 0..m - 1 PROVE s[2 + i] = t[1 + i]
      BY DEF SameRow
    <3>2. 1 + i \in 1..m /\ (1 + i) + 1 = 2 + i
      OBVIOUS
    <3>3. s[(1 + i) + 1] = t[1 + i]
      BY <1>1, <3>2
    <3>4. QED
      BY <3>2, <3>3
  <2>4. InRow(t, 1, m, v) = InRow(s, 2, m, v)
    BY <2>1, <2>3, RowShift
  <2>5. QED
    BY <1>1, <2>1, <2>2, <2>4 DEF m1
<1>3. QED
  BY <1>1, <1>2 DEF s

\* One step of the merge: the key taken goes before the merge of the rest.
LEMMA MergeTakes ==
    ASSUME NEW a, NEW b, NEW n, BlocksIn(a, b, n), NEW i \in 0..n - 1, NEW j \in 0..n - 1,
           NEW t, NEW s,
           \/ /\ file[a + i] <= file[b + j]
              /\ MergeOK(t, a, b, n, i + 1, j) /\ s = <<file[a + i]>> \o t
           \/ /\ ~(file[a + i] <= file[b + j])
              /\ MergeOK(t, a, b, n, i, j + 1) /\ s = <<file[b + j]>> \o t
    PROVE  MergeOK(s, a, b, n, i, j)
<1>1. a \in Nat /\ b \in Nat /\ n \in Nat /\ Keys \subseteq Int
  BY SortAssumption DEF BlocksIn
<1>2. /\ file[a + i] \in Keys /\ file[b + j] \in Keys
      /\ file[a + i] \in Int /\ file[b + j] \in Int
  BY <1>1 DEF BlocksIn
<1> DEFINE m == (n - i) + (n - j) - 1
<1>3. /\ m \in Nat /\ m + 1 = (n - i) + (n - j)
      /\ (n - (i + 1)) + (n - j) = m /\ (n - i) + (n - (j + 1)) = m
  BY <1>1
<1> HIDE DEF m
<1>4. t \in Seq(Keys) /\ Len(t) = m
  BY <1>3 DEF MergeOK
<1>5. \A k : InRow(file, a + i, n - i, k)
               = (IF file[a + i] = k THEN 1 ELSE 0) + InRow(file, a + (i + 1), n - (i + 1), k)
  <2> DEFINE c == a + i
             r == n - i
  <2>1. c \in Nat /\ r \in Nat /\ r > 0 /\ r - 1 = n - (i + 1) /\ c + 1 = a + (i + 1)
    BY <1>1
  <2> HIDE DEF c, r
  <2>2. \A k : InRow(file, c, r, k) = (IF file[c] = k THEN 1 ELSE 0) + InRow(file, c + 1, r - 1, k)
    BY <2>1, RowFirst
  <2>3. QED
    BY <2>1, <2>2 DEF c, r
<1>6. \A k : InRow(file, b + j, n - j, k)
               = (IF file[b + j] = k THEN 1 ELSE 0) + InRow(file, b + (j + 1), n - (j + 1), k)
  <2> DEFINE c == b + j
             r == n - j
  <2>1. c \in Nat /\ r \in Nat /\ r > 0 /\ r - 1 = n - (j + 1) /\ c + 1 = b + (j + 1)
    BY <1>1
  <2> HIDE DEF c, r
  <2>2. \A k : InRow(file, c, r, k) = (IF file[c] = k THEN 1 ELSE 0) + InRow(file, c + 1, r - 1, k)
    BY <2>1, RowFirst
  <2>3. QED
    BY <2>1, <2>2 DEF c, r
<1>7. \A k : /\ InRow(file, a + (i + 1), n - (i + 1), k) \in Nat
             /\ InRow(file, b + (j + 1), n - (j + 1), k) \in Nat
             /\ InRow(file, b + j, n - j, k) \in Nat /\ InRow(file, a + i, n - i, k) \in Nat
  <2>1. /\ a + (i + 1) \in Nat /\ b + (j + 1) \in Nat /\ b + j \in Nat /\ a + i \in Nat
        /\ n - (i + 1) \in Nat /\ n - (j + 1) \in Nat /\ n - j \in Nat /\ n - i \in Nat
    BY <1>1
  <2>2. QED
    BY <2>1, RowIsNat
<1>8. ASSUME NEW x \in Keys, s = <<x>> \o t
      PROVE  /\ s \in Seq(Keys) /\ Len(s) = m + 1
             /\ s[1] = x /\ \A p \in 1..m : s[p + 1] = t[p]
             /\ \A v : InRow(s, 1, m + 1, v) = (IF x = v THEN 1 ELSE 0) + InRow(t, 1, m, v)
  BY <1>3, <1>4, <1>8, ConsFacts
\* Nothing in the rest is less than what is taken.
<1>9. ASSUME NEW x \in Keys, s = <<x>> \o t,
             InOrder(a, n), InOrder(b, n),
             \A p \in 1..m - 1 : t[p] <= t[p + 1],
             m > 0 => x <= t[1]
      PROVE  \A p \in 1..Len(s) - 1 : s[p] <= s[p + 1]
  <2>1. Len(s) = m + 1
    BY <1>8, <1>9
  <2>2. Len(s) - 1 = m
    BY <1>3, <2>1
  <2>3. SUFFICES ASSUME NEW p \in 1..m PROVE s[p] <= s[p + 1]
    BY <2>2
  <2>4. s[p + 1] = t[p]
    BY <1>8, <1>9
  <2>5. CASE p = 1
    <3>1. m > 0 /\ s[1] = x
      BY <1>3, <1>8, <1>9
    <3>2. QED
      BY <1>9, <2>4, <2>5, <3>1
  <2>6. CASE p # 1
    <3>1. p - 1 \in 1..m /\ (p - 1) + 1 = p /\ p - 1 \in 1..m - 1
      BY <1>3, <2>6
    <3>2. s[(p - 1) + 1] = t[p - 1] /\ t[p - 1] <= t[(p - 1) + 1]
      BY <1>8, <1>9, <3>1
    <3>3. QED
      BY <2>4, <3>1, <3>2
  <2>7. QED
    BY <2>5, <2>6
<1>10. CASE /\ file[a + i] <= file[b + j]
            /\ MergeOK(t, a, b, n, i + 1, j) /\ s = <<file[a + i]>> \o t
  <2> DEFINE x == file[a + i]
  <2>1. /\ \A k \in Keys : InRow(t, 1, m, k) = InRow(file, a + (i + 1), n - (i + 1), k)
                                                         + InRow(file, b + j, n - j, k)
        /\ m > 0 => (i + 1 < n /\ t[1] = file[a + (i + 1)]) \/ (j < n /\ t[1] = file[b + j])
        /\ InOrder(a, n) /\ InOrder(b, n) => \A p \in 1..m - 1 : t[p] <= t[p + 1]
    BY <1>3, <1>4, <1>10 DEF MergeOK
  <2>2. ASSUME InOrder(a, n), m > 0 PROVE x <= t[1]
    <3>1. CASE i + 1 < n /\ t[1] = file[a + (i + 1)]
      <4>1. a + i \in a..a + n - 2 /\ (a + i) + 1 = a + (i + 1)
        BY <1>1, <3>1
      <4>2. QED
        BY <2>2, <3>1, <4>1 DEF InOrder
    <3>2. QED
      BY <1>10, <2>1, <2>2, <3>1
  <2>3. ASSUME NEW k \in Keys
        PROVE  InRow(s, 1, m + 1, k)
                 = InRow(file, a + i, n - i, k) + InRow(file, b + j, n - j, k)
    <3>1. InRow(s, 1, m + 1, k) = (IF x = k THEN 1 ELSE 0) + InRow(t, 1, m, k)
      BY <1>2, <1>8, <1>10
    <3>2. QED
      BY <1>5, <1>7, <2>1, <3>1
  <2>4. s \in Seq(Keys) /\ Len(s) = m + 1 /\ s[1] = x
    BY <1>2, <1>8, <1>10
  <2>5. InOrder(a, n) /\ InOrder(b, n) => \A p \in 1..Len(s) - 1 : s[p] <= s[p + 1]
    BY <1>2, <1>9, <1>10, <2>1, <2>2
  <2>6. i < n /\ s[1] = file[a + i]
    BY <1>1, <2>4
  <2> DEFINE r == (n - i) + (n - j)
  <2>7. m + 1 = r
    BY <1>3
  <2> HIDE DEF x, r
  <2>8. /\ s \in Seq(Keys) /\ Len(s) = r
        /\ \A k \in Keys : InRow(s, 1, r, k)
                             = InRow(file, a + i, n - i, k) + InRow(file, b + j, n - j, k)
    BY <2>3, <2>4, <2>7
  <2>9. QED
    BY <2>5, <2>6, <2>8 DEF MergeOK, r
<1>11. CASE /\ ~(file[a + i] <= file[b + j])
            /\ MergeOK(t, a, b, n, i, j + 1) /\ s = <<file[b + j]>> \o t
  <2> DEFINE x == file[b + j]
  <2>1. /\ \A k \in Keys : InRow(t, 1, m, k) = InRow(file, a + i, n - i, k)
                                                         + InRow(file, b + (j + 1), n - (j + 1), k)
        /\ m > 0 => (i < n /\ t[1] = file[a + i]) \/ (j + 1 < n /\ t[1] = file[b + (j + 1)])
        /\ InOrder(a, n) /\ InOrder(b, n) => \A p \in 1..m - 1 : t[p] <= t[p + 1]
    BY <1>3, <1>4, <1>11 DEF MergeOK
  <2>2. ASSUME InOrder(b, n), m > 0 PROVE x <= t[1]
    <3>1. CASE j + 1 < n /\ t[1] = file[b + (j + 1)]
      <4>1. b + j \in b..b + n - 2 /\ (b + j) + 1 = b + (j + 1)
        BY <1>1, <3>1
      <4>2. QED
        BY <2>2, <3>1, <4>1 DEF InOrder
    <3>2. QED
      BY <1>2, <1>11, <2>1, <2>2, <3>1
  <2>3. ASSUME NEW k \in Keys
        PROVE  InRow(s, 1, m + 1, k)
                 = InRow(file, a + i, n - i, k) + InRow(file, b + j, n - j, k)
    <3>1. InRow(s, 1, m + 1, k) = (IF x = k THEN 1 ELSE 0) + InRow(t, 1, m, k)
      BY <1>2, <1>8, <1>11
    <3>2. QED
      BY <1>6, <1>7, <2>1, <3>1
  <2>4. s \in Seq(Keys) /\ Len(s) = m + 1 /\ s[1] = x
    BY <1>2, <1>8, <1>11
  <2>5. InOrder(a, n) /\ InOrder(b, n) => \A p \in 1..Len(s) - 1 : s[p] <= s[p + 1]
    BY <1>2, <1>9, <1>11, <2>1, <2>2
  <2>6. j < n /\ s[1] = file[b + j]
    BY <1>1, <2>4
  <2> DEFINE r == (n - i) + (n - j)
  <2>7. m + 1 = r
    BY <1>3
  <2> HIDE DEF x, r
  <2>8. /\ s \in Seq(Keys) /\ Len(s) = r
        /\ \A k \in Keys : InRow(s, 1, r, k)
                             = InRow(file, a + i, n - i, k) + InRow(file, b + j, n - j, k)
    BY <2>3, <2>4, <2>7
  <2>9. QED
    BY <2>5, <2>6, <2>8 DEF MergeOK, r
<1>12. QED
  BY <1>10, <1>11

\* The rest of one block, when the other is used up.
LEMMA MergeRests ==
    ASSUME NEW a, NEW b, NEW n, BlocksIn(a, b, n), NEW i \in 0..n, NEW j \in 0..n,
           NEW s, (i < n /\ j = n /\ s = RestOf(a, i, n)) \/ (i = n /\ s = RestOf(b, j, n))
    PROVE  MergeOK(s, a, b, n, i, j)
<1>1. a \in Nat /\ b \in Nat /\ n \in Nat
  BY DEF BlocksIn
<1>2. ASSUME NEW c \in Nat, \A q \in 0..n - 1 : file[c + q] \in Keys, NEW l \in 0..n,
             s = RestOf(c, l, n)
      PROVE  /\ s \in Seq(Keys) /\ Len(s) = n - l
             /\ \A k : InRow(s, 1, n - l, k) = InRow(file, c + l, n - l, k)
             /\ n - l > 0 => s[1] = file[c + l]
             /\ InOrder(c, n) => \A p \in 1..Len(s) - 1 : s[p] <= s[p + 1]
  <2>1. /\ s \in Seq(Keys) /\ Len(s) = n - l
        /\ \A p \in 1..n - l : s[p] = file[c + l + p - 1]
        /\ \A k : InRow(s, 1, n - l, k) = InRow(file, c + l, n - l, k)
    <3> DEFINE u == RestOf(c, l, n)
    <3>1. /\ u \in Seq(Keys) /\ Len(u) = n - l
          /\ \A p \in 1..n - l : u[p] = file[c + l + p - 1]
          /\ \A k : InRow(u, 1, n - l, k) = InRow(file, c + l, n - l, k)
      BY <1>1, <1>2, RestFacts
    <3> HIDE DEF u
    <3>2. s = u
      BY <1>2 DEF u
    <3>3. QED
      BY <3>1, <3>2
  <2>2. ASSUME n - l > 0 PROVE s[1] = file[c + l]
    <3>1. 1 \in 1..n - l /\ c + l + 1 - 1 = c + l
      BY <1>1, <2>2
    <3>2. s[1] = file[c + l + 1 - 1]
      BY <2>1, <3>1
    <3>3. QED
      BY <3>1, <3>2
  <2>3. ASSUME InOrder(c, n), NEW p \in 1..Len(s) - 1 PROVE s[p] <= s[p + 1]
    <3>1. /\ p \in 1..n - l /\ p + 1 \in 1..n - l
          /\ c + l + p - 1 \in c..c + n - 2 /\ c + l + (p + 1) - 1 = (c + l + p - 1) + 1
      BY <1>1, <2>1
    <3>2. s[p] = file[c + l + p - 1] /\ s[p + 1] = file[c + l + (p + 1) - 1]
      BY <2>1, <3>1
    <3>3. QED
      BY <2>3, <3>1, <3>2 DEF InOrder
  <2>4. QED
    BY <2>1, <2>2, <2>3
<1>3. \A c \in Nat : \A k : InRow(file, c, 0, k) = 0 /\ \A r \in Nat : InRow(file, c, r, k) \in Nat
  BY EmptyRow, RowIsNat
<1>4. CASE i < n /\ j = n /\ s = RestOf(a, i, n)
  <2>1. \A l \in 0..n - 1 : file[a + l] \in Keys
    BY DEF BlocksIn
  <2> DEFINE r == n - i
             c == a + i
             d == b + j
  <2>2. r \in Nat /\ r > 0 /\ n - j = 0 /\ c \in Nat /\ d \in Nat /\ r + 0 = r
    BY <1>1, <1>4
  <2>3. /\ s \in Seq(Keys) /\ Len(s) = r
        /\ \A k : InRow(s, 1, r, k) = InRow(file, c, r, k)
        /\ s[1] = file[c]
        /\ InOrder(a, n) => \A p \in 1..Len(s) - 1 : s[p] <= s[p + 1]
    BY <1>1, <1>2, <1>4, <2>1, <2>2
  <2> HIDE DEF r, c, d
  <2>4. \A k : InRow(s, 1, r + 0, k) = InRow(file, c, r, k) + InRow(file, d, 0, k)
    <3>1. \A k : InRow(file, d, 0, k) = 0 /\ InRow(file, c, r, k) \in Nat
      BY <1>3, <2>2
    <3>2. QED
      BY <2>2, <2>3, <3>1
  <2>5. Len(s) = r + 0
    BY <2>2, <2>3
  <2>6. QED
    BY <1>4, <2>2, <2>3, <2>4, <2>5 DEF MergeOK, r, c, d
<1>5. CASE i = n /\ s = RestOf(b, j, n)
  <2>1. \A l \in 0..n - 1 : file[b + l] \in Keys
    BY DEF BlocksIn
  <2> DEFINE r == n - j
             c == a + i
             d == b + j
  <2>2. r \in Nat /\ (r > 0 => j < n) /\ n - i = 0 /\ c \in Nat /\ d \in Nat /\ 0 + r = r
    BY <1>1, <1>5
  <2>3. /\ s \in Seq(Keys) /\ Len(s) = r
        /\ \A k : InRow(s, 1, r, k) = InRow(file, d, r, k)
        /\ r > 0 => s[1] = file[d]
        /\ InOrder(b, n) => \A p \in 1..Len(s) - 1 : s[p] <= s[p + 1]
    BY <1>1, <1>2, <1>5, <2>1, <2>2
  <2> HIDE DEF r, c, d
  <2>4. \A k : InRow(s, 1, 0 + r, k) = InRow(file, c, 0, k) + InRow(file, d, r, k)
    <3>1. \A k : InRow(file, c, 0, k) = 0 /\ InRow(file, d, r, k) \in Nat
      BY <1>3, <2>2
    <3>2. QED
      BY <2>2, <2>3, <3>1
  <2>5. Len(s) = 0 + r
    BY <2>2, <2>3
  <2>6. QED
    BY <1>5, <2>2, <2>3, <2>4, <2>5 DEF MergeOK, r, c, d
<1>6. QED
  BY <1>4, <1>5

\* merge_two_sorted_blocks loses nothing, and makes one sorted block of two.
LEMMA MergeMerges ==
    ASSUME NEW a, NEW b, NEW n, BlocksIn(a, b, n)
    PROVE  MergeOK(MergedFrom(a, b, n), a, b, n, 0, 0)
<1>1. n \in Nat
  BY DEF BlocksIn
<1>2. PICK f : Merges(f, a, b, n) /\ MergedFrom(a, b, n) = f[<<0, 0>>]
  BY <1>1, MergeUnfolds
<1>3. \A i, j \in 0..n : f[<<i, j>>] = MergeBody(f, a, b, n, <<i, j>>)
  BY <1>2 DEF Merges, Square
<1> DEFINE Bad == {s \in Nat : \E i, j \in 0..n : /\ i + j + s = 2 * n
                                                  /\ ~MergeOK(f[<<i, j>>], a, b, n, i, j)}
<1>4. Bad = {}
  <2>1. SUFFICES ASSUME Bad # {} PROVE FALSE
    OBVIOUS
  <2>2. PICK s \in Bad : \A r \in Bad : s <= r
    <3>1. Bad \in SUBSET Nat
      OBVIOUS
    <3> HIDE DEF Bad
    <3>2. QED
      BY <2>1, <3>1, Smallest
  <2>3. PICK i \in 0..n, j \in 0..n : /\ i + j + s = 2 * n
                                      /\ ~MergeOK(f[<<i, j>>], a, b, n, i, j)
    BY <2>2
  <2>4. CASE i < n /\ j < n
    <3>1. /\ i \in 0..n - 1 /\ j \in 0..n - 1 /\ i + 1 \in 0..n /\ j + 1 \in 0..n
          /\ s - 1 \in Nat /\ ~(s <= s - 1)
          /\ (i + 1) + j + (s - 1) = 2 * n /\ i + (j + 1) + (s - 1) = 2 * n
      BY <1>1, <2>2, <2>3, <2>4
    <3>2. s - 1 \notin Bad
      BY <2>2, <3>1
    <3>3. /\ MergeOK(f[<<i + 1, j>>], a, b, n, i + 1, j)
          /\ MergeOK(f[<<i, j + 1>>], a, b, n, i, j + 1)
      BY <3>1, <3>2
    <3>4. f[<<i, j>>] = IF file[a + i] <= file[b + j]
                        THEN <<file[a + i]>> \o f[<<i + 1, j>>]
                        ELSE <<file[b + j]>> \o f[<<i, j + 1>>]
      BY <1>3, <2>4 DEF MergeBody, LeftFirst
    <3>5. CASE file[a + i] <= file[b + j]
      <4>1. f[<<i, j>>] = <<file[a + i]>> \o f[<<i + 1, j>>]
        BY <3>4, <3>5
      <4>2. QED
        BY <2>3, <3>1, <3>3, <3>5, <4>1, MergeTakes
    <3>6. CASE ~(file[a + i] <= file[b + j])
      <4>1. f[<<i, j>>] = <<file[b + j]>> \o f[<<i, j + 1>>]
        BY <3>4, <3>6
      <4>2. QED
        BY <2>3, <3>1, <3>3, <3>6, <4>1, MergeTakes
    <3>7. QED
      BY <3>5, <3>6
  <2>5. CASE ~(i < n /\ j < n)
    <3>1. f[<<i, j>>] = IF i < n THEN RestOf(a, i, n) ELSE RestOf(b, j, n)
      BY <1>3, <2>5 DEF MergeBody
    <3>2. i = n \/ (i < n /\ j = n)
      BY <1>1, <2>5
    <3>3. i = n => ~(i < n)
      BY <1>1
    <3>4. QED
      BY <2>3, <3>1, <3>2, <3>3, MergeRests
  <2>6. QED
    BY <2>4, <2>5
<1>5. 2 * n \in Nat /\ 0 \in 0..n /\ 0 + 0 + 2 * n = 2 * n
  BY <1>1
<1>6. MergeOK(f[<<0, 0>>], a, b, n, 0, 0)
  BY <1>4, <1>5
<1>7. QED
  BY <1>2, <1>6

\* What a thread does to a pair of blocks.
LEMMA PairMerged ==
    ASSUME FileOK, NEW first \in Nat, NEW n \in Nat, first + 2 * n <= TotalRecords,
           NEW g, g = [i \in DOMAIN file |->
                         IF i \in first..first + 2 * n - 1
                         THEN MergedFrom(first, first + n, n)[i - first + 1] ELSE file[i]]
    PROVE  /\ Permutes(g, first, 2 * n)
           /\ InOrder(first, n) /\ InOrder(first + n, n) => Ordered(g, first, 2 * n)
<1> DEFINE s == MergedFrom(first, first + n, n)
           b == first + n
           m == 2 * n
<1>1. /\ DOMAIN file = 0..TotalRecords - 1 /\ TotalRecords \in Nat
      /\ \A i \in 0..TotalRecords - 1 : file[i] \in Keys
  BY SortAssumption DEF FileOK
<1>2. BlocksIn(first, b, n)
  <2>1. \A i \in 0..n - 1 : first + i \in 0..TotalRecords - 1 /\ b + i \in 0..TotalRecords - 1
    BY <1>1
  <2>2. QED
    BY <1>1, <2>1 DEF BlocksIn
<1>3. MergeOK(s, first, b, n, 0, 0)
  <2> HIDE DEF b
  <2>1. MergeOK(MergedFrom(first, b, n), first, b, n, 0, 0)
    BY <1>2, MergeMerges
  <2>2. QED
    BY <2>1 DEF b
<1>4. (n - 0) + (n - 0) = m /\ first + 0 = first /\ b + 0 = b /\ n - 0 = n /\ m \in Nat /\ n + n = m
      /\ b \in Nat
  OBVIOUS
<1> HIDE DEF s, b, m
<1>5. /\ s \in Seq(Keys) /\ Len(s) = m
      /\ \A k \in Keys : InRow(s, 1, m, k) = InRow(file, first, n, k) + InRow(file, b, n, k)
      /\ InOrder(first, n) /\ InOrder(b, n) => \A p \in 1..m - 1 : s[p] <= s[p + 1]
  BY <1>3, <1>4 DEF MergeOK
<1>6. g = [i \in 0..TotalRecords - 1 |-> IF i \in first..first + m - 1
                                         THEN s[i - first + 1] ELSE file[i]]
  BY <1>1 DEF s, b, m
<1>7. /\ \A p \in 1..m : s[p] \in Keys
      /\ \A i \in first..first + m - 1 : i - first + 1 \in 1..m /\ i \in 0..TotalRecords - 1
  <2>1. first + m <= TotalRecords
    BY DEF m
  <2>2. QED
    BY <1>1, <1>4, <1>5, <2>1
<1>8. \A i \in first..first + m - 1 : g[i] = s[i - first + 1]
  BY <1>6, <1>7
<1>9. g \in [0..TotalRecords - 1 -> Keys]
  BY <1>1, <1>6, <1>7
<1>10. \A i \in 0..TotalRecords - 1 : i \notin first..first + m - 1 => g[i] = file[i]
  BY <1>6
<1>11. ASSUME NEW k \in Keys PROVE InRow(g, first, m, k) = InRow(file, first, m, k)
  <2>1. SameRow(s, 1, g, first, m)
    <3>1. SUFFICES ASSUME NEW i \in 0..m - 1 PROVE g[first + i] = s[1 + i]
      BY DEF SameRow
    <3>2. first + i \in first..first + m - 1 /\ (first + i) - first + 1 = 1 + i
      BY <1>4
    <3>3. g[first + i] = s[(first + i) - first + 1]
      BY <1>8, <3>2
    <3>4. QED
      BY <3>2, <3>3
  <2>2. 1 \in Nat
    OBVIOUS
  <2>3. InRow(s, 1, m, k) = InRow(g, first, m, k)
    BY <1>4, <2>1, <2>2, RowShift
  <2>4. InRow(file, first, n + n, k) = InRow(file, first, n, k) + InRow(file, first + n, n, k)
    BY RowsJoin
  <2>5. InRow(file, first, m, k) = InRow(file, first, n, k) + InRow(file, b, n, k)
    BY <1>4, <2>4 DEF b
  <2>6. QED
    BY <1>5, <2>3, <2>5
<1>12. ASSUME InOrder(first, n), InOrder(b, n) PROVE Ordered(g, first, m)
  <2>1. SUFFICES ASSUME NEW i \in first..first + m - 2 PROVE g[i] <= g[i + 1]
    BY DEF Ordered
  <2>2. /\ i \in first..first + m - 1 /\ i + 1 \in first..first + m - 1
        /\ i - first + 1 \in 1..m - 1 /\ (i + 1) - first + 1 = (i - first + 1) + 1
    BY <1>4
  <2>3. g[i] = s[i - first + 1] /\ g[i + 1] = s[(i + 1) - first + 1]
    BY <1>8, <2>2
  <2>4. s[i - first + 1] <= s[(i - first + 1) + 1]
    BY <1>5, <1>12, <2>2
  <2>5. QED
    BY <2>2, <2>3, <2>4
<1>13. QED
  BY <1>9, <1>10, <1>11, <1>12 DEF Permutes, m, b

-----------------------------------------------------------------------------
(* What a step may do to the file *)

\* A file with some cells in another order has as many records of each key.
LEMMA PermutingKeeps ==
    ASSUME FileOK, NEW first \in Nat, NEW n \in Nat, first + n <= TotalRecords,
           NEW g, Permutes(g, first, n), NEW k \in Keys
    PROVE  HowMany(g, k) = HowMany(file, k)
<1> DEFINE c == first + n
           r == TotalRecords - c
<1>1. /\ DOMAIN file = 0..TotalRecords - 1 /\ DOMAIN g = 0..TotalRecords - 1
      /\ TotalRecords \in Nat
  BY SortAssumption DEF FileOK, Permutes
<1>2. /\ c \in Nat /\ r \in Nat /\ n + r \in Nat /\ first + (n + r) = TotalRecords /\ 0 \in Nat
      /\ 0 + first = first /\ 0 + TotalRecords - 1 = TotalRecords - 1
  BY <1>1
<1>3. SameRow(file, 0, g, 0, first) /\ SameRow(file, c, g, c, r)
  <2>1. ASSUME NEW i \in 0..first - 1 PROVE g[0 + i] = file[0 + i]
    <3>1. 0 + i \in 0..TotalRecords - 1 /\ 0 + i \notin first..first + n - 1
      BY <1>1
    <3>2. QED
      BY <3>1 DEF Permutes
  <2>2. ASSUME NEW i \in 0..r - 1 PROVE g[c + i] = file[c + i]
    <3>1. c + i \in 0..TotalRecords - 1 /\ c + i \notin first..first + n - 1
      BY <1>1
    <3>2. QED
      BY <3>1 DEF Permutes
  <2>3. QED
    BY <2>1, <2>2 DEF SameRow
<1>4. /\ InRow(file, 0, first, k) = InRow(g, 0, first, k)
      /\ InRow(file, c, r, k) = InRow(g, c, r, k)
  <2> HIDE DEF c, r
  <2>1. QED
    BY <1>2, <1>3, RowShift
<1>5. \A f : InRow(f, 0, TotalRecords, k) = InRow(f, 0, first, k) + (InRow(f, first, n, k) + InRow(f, c, r, k))
  <2>1. SUFFICES ASSUME NEW f
                 PROVE  InRow(f, 0, TotalRecords, k)
                          = InRow(f, 0, first, k) + (InRow(f, first, n, k) + InRow(f, c, r, k))
    OBVIOUS
  <2> HIDE DEF r
  <2>2. InRow(f, first, n + r, k) = InRow(f, first, n, k) + InRow(f, first + n, r, k)
    BY <1>2, RowsJoin
  <2> DEFINE q == n + r
             z == 0
  <2>3. q \in Nat /\ z \in Nat
    BY <1>2
  <2>4. z + first = first
    OBVIOUS
  <2> HIDE DEF q, z
  <2>5. InRow(f, z, first + q, k) = InRow(f, z, first, k) + InRow(f, z + first, q, k)
    BY <2>3, RowsJoin
  <2>6. QED
    BY <1>2, <2>2, <2>4, <2>5 DEF q, z
<1>6. InRow(g, first, n, k) = InRow(file, first, n, k)
  BY DEF Permutes
<1>7. HowMany(g, k) = InRow(g, 0, TotalRecords, k) /\ HowMany(file, k) = InRow(file, 0, TotalRecords, k)
  BY <1>1, <1>2 DEF HowMany, InRow, Equal
<1>8. QED
  BY <1>4, <1>5, <1>6, <1>7

-----------------------------------------------------------------------------
(* Sizes: with a power of two, a round halves the number of blocks evenly, and *)
(* the blocks always make up the segment.                                     *)

\* A thread is at work, or main will go on with the segment.
Working == main_pc \in {"sort", "merge"} \/ ~AllDone

SegmentCut ==
    /\ offset < TotalRecords
    /\ IsPower(num_blocks)
    /\ num_blocks * block_size = RecordsInSegment(offset)

Sizes ==
    /\ next_block <= Blocks /\ num_blocks <= Blocks
    /\ block_index \in [Tids -> 0..Blocks - 1]
    /\ tpc[0] = "halve" => num_blocks > 1
    /\ main_pc = "sort" \/ (\E t \in Tids : tpc[t] \in {"first", "own"}) => num_blocks = Blocks
    /\ Working => SegmentCut

LEMMA SegmentInFile ==
    ASSUME NEW o \in Nat, o < TotalRecords
    PROVE  /\ RecordsInSegment(o) \in Nat /\ RecordsInSegment(o) <= SegmentRecords
           /\ o + RecordsInSegment(o) <= TotalRecords
           /\ RecordsInSegment(o) \div Blocks \in Nat
           /\ Blocks * (RecordsInSegment(o) \div Blocks) = RecordsInSegment(o)
<1> DEFINE l == Least(SegmentRecords, TotalRecords - o)
<1>1. Blocks \in Nat \ {0} /\ SegmentRecords \in Nat /\ TotalRecords \in Nat
  BY Powers, SortAssumption
<1>2. l \in Nat /\ l <= SegmentRecords /\ l <= TotalRecords - o
  BY <1>1 DEF Least
<1>3. \A n \in Nat : \A m \in Nat \ {0} : n \div m \in Nat /\ (n \div m) * m <= n
  OBVIOUS
<1>4. \A q \in Nat : \A m \in Nat \ {0} : (q * m) \div m = q /\ q * m \in Nat /\ m * q = q * m
  OBVIOUS
<1> DEFINE q == l \div Blocks
<1>5. RecordsInSegment(o) = q * Blocks
  BY DEF RecordsInSegment
<1>6. q \in Nat /\ q * Blocks <= l
  <2> HIDE DEF l
  <2>1. QED
    BY <1>1, <1>2, <1>3
<1> HIDE DEF q, l
<1>7. (q * Blocks) \div Blocks = q /\ q * Blocks \in Nat /\ Blocks * q = q * Blocks
  BY <1>1, <1>4, <1>6
<1> DEFINE r == q * Blocks
<1>8. r \in Nat /\ r <= l /\ RecordsInSegment(o) = r /\ r \div Blocks = q /\ Blocks * q = r
  BY <1>5, <1>6, <1>7
<1> HIDE DEF r
<1>9. QED
  BY <1>1, <1>2, <1>6, <1>8

LEMMA TimesGrows ==
    ASSUME NEW i \in Nat, NEW j \in Nat, i <= j, NEW size \in Nat
    PROVE  i * size \in Nat /\ j * size \in Nat /\ i * size <= j * size
<1>1. PICK d \in Nat : j = i + d
  <2>1. j - i \in Nat /\ j = i + (j - i)
    OBVIOUS
  <2>2. QED
    BY <2>1
<1>2. j * size = i * size + d * size /\ d * size \in Nat /\ i * size \in Nat
  BY <1>1
<1>3. QED
  BY <1>2

\* Block b as a row of cells; one of m blocks lies within them.
LEMMA BlockIsRow ==
    ASSUME NEW b \in Nat, NEW size \in Nat, offset \in Nat
    PROVE  /\ offset + b * size \in Nat
           /\ Cells(b, size) = offset + b * size..(offset + b * size) + size - 1
           /\ \A m \in Nat : b < m => (offset + b * size) + size <= offset + m * size
<1>1. b * size \in Nat /\ (b + 1) * size = b * size + size
  OBVIOUS
<1>2. ASSUME NEW m \in Nat, b < m PROVE (b + 1) * size <= m * size /\ m * size \in Nat
  <2>1. b + 1 \in Nat /\ b + 1 <= m
    BY <1>2
  <2>2. QED
    BY <2>1, TimesGrows
<1> DEFINE p == b * size
           r == (b + 1) * size
<1>3. p \in Nat /\ r = p + size
  BY <1>1
<1>4. Cells(b, size) = offset + p..offset + r - 1
  BY DEF Cells
<1> HIDE DEF p, r
<1>5. \A m \in Nat : b < m => r <= m * size /\ m * size \in Nat
  BY <1>2 DEF r
<1>6. offset + p..offset + r - 1 = offset + p..(offset + p) + size - 1
  BY <1>3
<1>7. \A m \in Nat : b < m => (offset + p) + size <= offset + m * size
  BY <1>3, <1>5
<1>8. QED
  BY <1>3, <1>4, <1>6, <1>7 DEF p

\* The n cells from first on are those of thread t, inside the segment.
Share(t, first, n) ==
    /\ first \in Nat /\ n \in Nat /\ RecordsInSegment(offset) \in Nat
    /\ MayWrite(t) = first..first + n - 1
    /\ offset <= first /\ first + n <= offset + RecordsInSegment(offset)
    /\ offset + RecordsInSegment(offset) <= TotalRecords

LEMMA Shares ==
    ASSUME IInv, Sizes, NEW t \in Tids
    PROVE  /\ tpc[t] = "first" => Share(t, offset + t * block_size, block_size)
           /\ tpc[t] = "own" => Share(t, offset + block_index[t] * block_size, block_size)
           /\ tpc[t] = "merge" /\ t < num_blocks \div 2
                => Share(t, offset + 2 * t * block_size, 2 * block_size)
           /\ \/ tpc[t] \in {"first", "own"}
              \/ tpc[t] = "merge" /\ t < num_blocks \div 2
              \/ MayWrite(t) = {}
<1>1. /\ offset \in Nat /\ block_size \in Nat /\ num_blocks \in Nat
      /\ t \in Nat /\ t < Threads /\ Threads \in Nat /\ Threads < Blocks
      /\ Blocks \in Nat /\ block_index[t] \in Nat /\ block_index[t] < Blocks
  BY SortAssumption, Powers DEF IInv, Types, Sizes, Tids
<1>2. ASSUME tpc[t] \in {"first", "own", "merge"}
      PROVE  /\ num_blocks * block_size = RecordsInSegment(offset)
             /\ tpc[t] # "merge" => num_blocks = Blocks
             /\ offset + RecordsInSegment(offset) <= TotalRecords
             /\ RecordsInSegment(offset) \in Nat
  <2>1. Working
    BY <1>2 DEF Working, AllDone, AllAt
  <2>2. SegmentCut
    BY <2>1 DEF Sizes
  <2>3. QED
    BY <1>1, <1>2, <2>2, SegmentInFile DEF SegmentCut, Sizes
<1>3. ASSUME NEW b \in Nat, b < Blocks, MayWrite(t) = Cells(b, block_size),
             tpc[t] \in {"first", "own"}
      PROVE  Share(t, offset + b * block_size, block_size)
  <2> DEFINE c == offset + b * block_size
  <2>1. /\ c \in Nat /\ Cells(b, block_size) = c..c + block_size - 1
        /\ c + block_size <= offset + Blocks * block_size
    BY <1>1, <1>3, BlockIsRow
  <2>2. c >= offset
    <3>1. b * block_size \in Nat
      BY <1>1
    <3>2. QED
      BY <1>1, <3>1
  <2>3. Blocks * block_size = RecordsInSegment(offset)
    BY <1>2, <1>3
  <2> HIDE DEF c
  <2>4. Share(t, c, block_size)
    BY <1>1, <1>2, <1>3, <2>1, <2>2, <2>3 DEF Share
  <2>5. QED
    BY <2>4 DEF c
<1>4. CASE tpc[t] = "first"
  <2>1. MayWrite(t) = Cells(t, block_size) /\ t < Blocks
    BY <1>1, <1>4 DEF MayWrite
  <2>2. QED
    BY <1>1, <1>3, <1>4, <2>1
<1>5. CASE tpc[t] = "own"
  <2>1. MayWrite(t) = Cells(block_index[t], block_size)
    BY <1>5 DEF MayWrite
  <2>2. QED
    BY <1>1, <1>3, <1>5, <2>1
<1>6. CASE tpc[t] = "merge"
  <2>1. CASE t < num_blocks \div 2
    <3> DEFINE c == offset + t * (2 * block_size)
               size == 2 * block_size
               half == num_blocks \div 2
    <3>1. size \in Nat /\ half \in Nat /\ 2 * half <= num_blocks
      BY <1>1
    <3>2. /\ c \in Nat /\ Cells(t, size) = c..c + size - 1
          /\ c + size <= offset + half * size
      <4> HIDE DEF half
      <4>1. t < half
        BY <2>1 DEF half
      <4>2. QED
        BY <1>1, <3>1, <4>1, BlockIsRow
    <3>3. half * size = (2 * half) * block_size
      BY <1>1, <3>1
    <3>4. (2 * half) * block_size <= num_blocks * block_size /\ (2 * half) * block_size \in Nat
          /\ num_blocks * block_size \in Nat
      <4> DEFINE d == 2 * half
      <4>1. d \in Nat /\ d <= num_blocks
        BY <3>1
      <4> HIDE DEF d
      <4>2. QED
        BY <1>1, <4>1, TimesGrows DEF d
    <3>5. num_blocks * block_size = RecordsInSegment(offset)
          /\ offset + RecordsInSegment(offset) <= TotalRecords /\ RecordsInSegment(offset) \in Nat
      BY <1>2, <1>6
    <3>6. c >= offset
      <4>1. t * (2 * block_size) \in Nat
        BY <1>1
      <4>2. QED
        BY <1>1, <4>1
    <3>7. MayWrite(t) = Cells(t, size)
      BY <1>6, <2>1 DEF MayWrite
    <3>8. offset + 2 * t * block_size = c
      BY <1>1
    <3> HIDE DEF c, size, half
    <3>9. c + size <= offset + RecordsInSegment(offset)
      <4> DEFINE r == RecordsInSegment(offset)
                 h == half * size
      <4>1. h <= r /\ h \in Nat /\ r \in Nat
        BY <3>3, <3>4, <3>5
      <4>2. c + size <= offset + h
        BY <3>2
      <4> HIDE DEF r, h
      <4>3. c + size <= offset + r
        BY <1>1, <3>1, <3>2, <4>1, <4>2
      <4>4. QED
        BY <4>3 DEF r
    <3>10. Share(t, c, size)
      BY <3>1, <3>2, <3>5, <3>6, <3>7, <3>9 DEF Share
    <3>11. Share(t, offset + 2 * t * block_size, 2 * block_size)
      BY <3>8, <3>10 DEF size
    <3>12. tpc[t] # "first" /\ tpc[t] # "own"
      BY <1>6
    <3>13. QED
      BY <1>6, <2>1, <3>11, <3>12, Zenon
  <2>2. CASE ~(t < num_blocks \div 2)
    BY <1>6, <2>2 DEF MayWrite
  <2>3. QED
    BY <2>1, <2>2
<1>7. CASE tpc[t] \notin {"first", "own", "merge"}
  BY <1>7 DEF MayWrite
<1>8. QED
  BY <1>4, <1>5, <1>6, <1>7

\* What any thread may write lies in the segment and in the file.
LEMMA SharesInside ==
    ASSUME IInv, Sizes, NEW t \in Tids
    PROVE  /\ MayWrite(t) \subseteq offset..offset + RecordsInSegment(offset) - 1
           /\ MayWrite(t) \subseteq 0..TotalRecords - 1
<1>1. offset \in Nat /\ TotalRecords \in Nat
  BY SortAssumption DEF IInv, Types
<1>2. ASSUME NEW c, NEW n, Share(t, c, n)
      PROVE  /\ MayWrite(t) \subseteq offset..offset + RecordsInSegment(offset) - 1
             /\ MayWrite(t) \subseteq 0..TotalRecords - 1
  <2> DEFINE r == RecordsInSegment(offset)
  <2>1. /\ c \in Nat /\ n \in Nat /\ r \in Nat /\ MayWrite(t) = c..c + n - 1 /\ offset <= c
        /\ c + n <= offset + r /\ offset + r <= TotalRecords
    BY <1>2 DEF Share
  <2> HIDE DEF r
  <2>2. MayWrite(t) \subseteq offset..offset + r - 1 /\ MayWrite(t) \subseteq 0..TotalRecords - 1
    BY <1>1, <2>1
  <2>3. QED
    BY <2>2 DEF r
<1>3. QED
  BY <1>2, Shares

LEMMA SortWrites ==
    ASSUME FileOK, IInv, NEW t \in Tids, NEW b \in Nat, SortBlock(b),
           Share(t, offset + b * block_size, block_size)
    PROVE  /\ Permutes(file', offset + b * block_size, block_size)
           /\ Ordered(file', offset + b * block_size, block_size)
<1> DEFINE c == offset + b * block_size
<1>1. offset \in Nat /\ block_size \in Nat /\ TotalRecords \in Nat
  BY SortAssumption DEF IInv, Types
<1>2. Cells(b, block_size) = c..c + block_size - 1
  BY <1>1, BlockIsRow
<1>3. c \in Nat /\ c + block_size <= TotalRecords
  <2> HIDE DEF c
  <2>1. Share(t, c, block_size)
    BY DEF c
  <2> DEFINE r == RecordsInSegment(offset)
  <2>2. /\ c \in Nat /\ r \in Nat /\ c + block_size <= offset + r /\ offset + r <= TotalRecords
    BY <2>1 DEF Share
  <2> HIDE DEF r
  <2>3. QED
    BY <1>1, <2>2
<1>4. file' = SortedBlock(Cells(b, block_size), c)
  BY DEF SortBlock
<1> HIDE DEF c
<1>5. file' = SortedBlock(c..c + block_size - 1, c)
  BY <1>2, <1>4
<1>6. /\ Permutes(SortedBlock(c..c + block_size - 1, c), c, block_size)
      /\ Ordered(SortedBlock(c..c + block_size - 1, c), c, block_size)
  BY <1>1, <1>3, BlockSorted
<1>7. Permutes(file', c, block_size) /\ Ordered(file', c, block_size)
  BY <1>5, <1>6
<1>8. QED
  BY <1>7 DEF c

LEMMA MergeWrites ==
    ASSUME FileOK, IInv, NEW t \in Tids, MergePair(t),
           Share(t, offset + 2 * t * block_size, 2 * block_size)
    PROVE  /\ Permutes(file', offset + 2 * t * block_size, 2 * block_size)
           /\ InOrder(offset + 2 * t * block_size, block_size)
              /\ InOrder(offset + 2 * t * block_size + block_size, block_size)
              => Ordered(file', offset + 2 * t * block_size, 2 * block_size)
<1> DEFINE c == offset + 2 * t * block_size
<1>1. offset \in Nat /\ block_size \in Nat /\ TotalRecords \in Nat
  BY SortAssumption DEF IInv, Types
<1>2. file' = [i \in DOMAIN file |->
                 IF i \in c..c + 2 * block_size - 1
                 THEN MergedFrom(c, c + block_size, block_size)[i - c + 1] ELSE file[i]]
  BY DEF MergePair
<1>3. Share(t, c, 2 * block_size)
  OBVIOUS
<1> HIDE DEF c
<1>4. c \in Nat /\ c + 2 * block_size <= TotalRecords
  <2> DEFINE r == RecordsInSegment(offset)
  <2>1. /\ c \in Nat /\ r \in Nat /\ c + 2 * block_size <= offset + r /\ offset + r <= TotalRecords
    BY <1>3 DEF Share
  <2> HIDE DEF r
  <2>2. QED
    BY <1>1, <2>1
<1>5. /\ Permutes(file', c, 2 * block_size)
      /\ InOrder(c, block_size) /\ InOrder(c + block_size, block_size)
           => Ordered(file', c, 2 * block_size)
  BY <1>1, <1>2, <1>4, PairMerged
<1>6. QED
  BY <1>5 DEF c

-----------------------------------------------------------------------------
(* The types, and the records *)

TInv == IInv /\ Sizes /\ FileOK

\* What a step does to the file: nothing, or a thread puts the cells of its share
\* in another order, or the program exits over the threads at work.
FileStep ==
    \/ UNCHANGED file
    \/ \E t \in Tids : \E first, n : Share(t, first, n) /\ Permutes(file', first, n)
    \/ /\ main_pc' = "failure"
       /\ \E t \in Tids : \E i, j \in MayWrite(t) : file' = [file EXCEPT ![i] = file[j]]

LEMMA FileSteps ==
    ASSUME TInv, Next
    PROVE  FileStep
<1> USE DEF TInv
<1>1. ASSUME NEW cut, cut \subseteq Tids, Exit(cut)
      PROVE  FileStep
  BY <1>1 DEF Exit, FileStep
<1>2. ASSUME NEW t \in Tids, sort_blocks(t)
      PROVE  FileStep
  <2>1. CASE SortFirst(t) /\ ~terminate_flag
    <3>1. tpc[t] = "first" /\ SortBlock(t) /\ t \in Nat
      BY <2>1, SortAssumption DEF SortFirst, Goto, Tids
    <3>2. Share(t, offset + t * block_size, block_size)
      BY <3>1, Shares
    <3>3. Permutes(file', offset + t * block_size, block_size)
      BY <3>1, <3>2, SortWrites
    <3>4. QED
      BY <3>2, <3>3 DEF FileStep
  <2>2. CASE SortOwn(t)
    <3>1. tpc[t] = "own" /\ SortBlock(block_index[t]) /\ block_index[t] \in Nat
      BY <2>2 DEF SortOwn, Goto, IInv, Types
    <3>2. Share(t, offset + block_index[t] * block_size, block_size)
      BY <3>1, Shares
    <3>3. Permutes(file', offset + block_index[t] * block_size, block_size)
      BY <3>1, <3>2, SortWrites
    <3>4. QED
      BY <3>2, <3>3 DEF FileStep
  <2>3. CASE \/ SortFirst(t) /\ terminate_flag
             \/ ReserveBlock(t) \/ StopSorting(t) \/ Arrive(t, "sorted", "sort_wait")
    <3>1. UNCHANGED file
      BY <2>3 DEF SortFirst, ReserveBlock, StopSorting, Arrive
    <3>2. QED
      BY <3>1 DEF FileStep
  <2>4. QED
    BY <1>2, <2>1, <2>2, <2>3 DEF sort_blocks
<1>3. ASSUME NEW t \in Tids, merge_blocks_phase(t)
      PROVE  FileStep
  <2>1. CASE MergeOwnPair(t) /\ MergePair(t) /\ t < num_blocks \div 2
    <3>1. tpc[t] = "merge"
      BY <2>1 DEF MergeOwnPair, Goto
    <3>2. Share(t, offset + 2 * t * block_size, 2 * block_size)
      BY <2>1, <3>1, Shares
    <3>3. Permutes(file', offset + 2 * t * block_size, 2 * block_size)
      BY <2>1, <3>2, MergeWrites
    <3>4. QED
      BY <3>2, <3>3 DEF FileStep
  <2>2. CASE MergeFails(t)
    <3>1. Exit(Tids \ {t})
      BY <2>2 DEF MergeFails
    <3>2. QED
      BY <1>1, <3>1
  <2>3. CASE \/ MergeOwnPair(t) /\ ~(MergePair(t) /\ t < num_blocks \div 2)
             \/ MergeLoop(t) \/ CountRound(t)
             \/ Arrive(t, "merged", "merged_wait") \/ Arrive(t, "halved", "halved_wait")
             \/ Arrive(t, "last", "last_wait")
    <3>1. UNCHANGED file
      BY <2>3 DEF MergeOwnPair, MergeLoop, CountRound, Arrive
    <3>2. QED
      BY <3>1 DEF FileStep
  <2>4. QED
    BY <1>3, <2>1, <2>2, <2>3 DEF merge_blocks_phase
<1>4. CASE MainStep
  <2>1. CASE CreateFails
    <3>1. Exit(Tids)
      BY <2>1 DEF CreateFails
    <3>2. QED
      BY <1>1, <3>1
  <2>2. CASE ~CreateFails
    <3>1. UNCHANGED file
      BY <1>4, <2>2 DEF MainStep, Refuse, Finish, StartSort, CreateNext, StartMerge, WriteSegment
    <3>2. QED
      BY <3>1 DEF FileStep
  <2>3. QED
    BY <2>1, <2>2
<1>5. CASE sigint_handler
  BY <1>5 DEF sigint_handler, FileStep
<1>6. QED
  BY <1>2, <1>3, <1>4, <1>5 DEF Next, Thread

\* The sizes fit the segment, step by step.
LEMMA SizesSteps ==
    ASSUME IInv, Sizes, [Next]_vars
    PROVE  Sizes'
<1>1. 0 \in Tids
  BY SortAssumption DEF Tids
<1>2. tpc \in [Tids -> Places] /\ Blocks \in Nat \ {0} /\ Threads \in Nat /\ Threads < Blocks
      /\ next_block \in Nat /\ num_blocks \in Nat /\ block_size \in Nat
  BY SortAssumption, Powers DEF IInv, Types
\* A step that leaves the sizes alone, unless a thread comes to a place that matters.
<1>3. ASSUME UNCHANGED <<offset, num_blocks, block_size>>,
             next_block' <= Blocks, block_index' \in [Tids -> 0..Blocks - 1],
             tpc'[0] = "halve" => tpc[0] = "halve" \/ num_blocks > 1,
             main_pc' = "sort" => main_pc = "sort",
             \A t \in Tids : tpc'[t] \in {"first", "own"} => tpc[t] \in {"first", "own"} \/ main_pc = "sort",
             Working' => Working
      PROVE  Sizes'
  <2>1. SegmentCut => SegmentCut'
    BY <1>3 DEF SegmentCut
  <2>2. tpc'[0] = "halve" => num_blocks' > 1
    BY <1>3 DEF Sizes
  <2>3. main_pc' = "sort" \/ (\E t \in Tids : tpc'[t] \in {"first", "own"}) => num_blocks' = Blocks
    BY <1>3 DEF Sizes
  <2>4. Working' => SegmentCut'
    BY <1>3, <2>1 DEF Sizes
  <2>5. num_blocks' <= Blocks
    BY <1>3 DEF Sizes
  <2>6. QED
    BY <1>3, <2>2, <2>3, <2>4, <2>5 DEF Sizes
<1>4. CASE UNCHANGED vars
  BY <1>4 DEF vars, mainVars, segment, threads, Sizes, SegmentCut, Working, AllDone, AllAt
<1>5. ASSUME main_pc \in {"sort", "merge"} PROVE Working
  BY <1>5 DEF Working
<1>6. ASSUME NEW cut, Exit(cut), Working PROVE Sizes'
  <2>1. UNCHANGED <<offset, num_blocks, block_size, next_block, block_index, tpc>>
        /\ main_pc' = "failure"
    BY <1>6 DEF Exit, segment, threads
  <2>2. QED
    BY <1>3, <1>6, <2>1 DEF Sizes
<1>7. ASSUME NEW t \in Tids, Thread(t) PROVE Sizes'
  <2>1. Working
    <3>1. tpc[t] # "done"
      BY <1>7 DEF Thread, sort_blocks, merge_blocks_phase, SortFirst, ReserveBlock, SortOwn,
                  StopSorting, Arrive, MergeLoop, MergeOwnPair, MergeFails, CountRound, Goto
    <3>2. QED
      BY <3>1 DEF Working, AllDone, AllAt
  <2>2. ASSUME ~MergeFails(t)
        PROVE  UNCHANGED <<main_pc, offset>>
    BY <1>7, <2>2 DEF Thread, sort_blocks, merge_blocks_phase, SortFirst, ReserveBlock, SortOwn,
                      StopSorting, Arrive, MergeLoop, MergeOwnPair, CountRound, others, mainVars
  <2>3. CASE MergeFails(t)
    BY <1>6, <2>1, <2>3 DEF MergeFails
  <2>4. CASE SortFirst(t) \/ SortOwn(t) \/ StopSorting(t) \/ MergeLoop(t) \/ MergeOwnPair(t)
    <3>1. PICK to \in {"next", "sorted", "merge", "last", "merged"} :
            /\ tpc' = [tpc EXCEPT ![t] = to]
            /\ UNCHANGED <<num_blocks, block_size, next_block, block_index>>
      BY <2>4 DEF SortFirst, SortOwn, StopSorting, MergeLoop, MergeOwnPair, Goto, segment
    <3>2. ~MergeFails(t) \/ MergeFails(t)
      OBVIOUS
    <3>3. /\ tpc'[0] = "halve" => tpc[0] = "halve"
          /\ \A u \in Tids : tpc'[u] \in {"first", "own"} => tpc[u] \in {"first", "own"}
      BY <1>1, <1>2, <3>1
    <3>4. QED
      BY <1>3, <2>1, <2>2, <2>3, <3>1, <3>3 DEF Sizes
  <2>5. CASE ReserveBlock(t)
    <3>1. /\ tpc' = [tpc EXCEPT ![t] = "own"] /\ tpc[t] = "next"
          /\ block_index' = [block_index EXCEPT ![t] = next_block]
          /\ next_block' = next_block + 1 /\ next_block < Blocks
          /\ UNCHANGED <<num_blocks, block_size>>
      BY <2>5 DEF ReserveBlock, ReserveNext, Goto
    <3>2. main_pc = "sort"
      <4>1. main_pc \notin Ended
        BY <1>7 DEF Thread
      <4>2. QED
        BY <3>1, <4>1 DEF IInv, Types, Phases, MergePhase, BeforeWait, BehindWait, OnTheWayOut,
                          AllDone, AllAt, Merging, Leaving, Ended
    <3>3. next_block' <= Blocks
      BY <1>2, <3>1
    <3>4. block_index' \in [Tids -> 0..Blocks - 1]
      <4>1. next_block \in 0..Blocks - 1
        BY <1>2, <3>1
      <4>2. block_index \in [Tids -> 0..Blocks - 1]
        BY DEF Sizes
      <4>3. QED
        BY <3>1, <4>1, <4>2
    <3>5. tpc'[0] = "halve" => tpc[0] = "halve"
      BY <1>1, <1>2, <3>1
    <3>6. QED
      BY <1>3, <2>1, <2>2, <2>3, <3>1, <3>2, <3>3, <3>4, <3>5
  <2>6. CASE CountRound(t)
    <3>1. /\ tpc[t] = "halve"
          /\ \E to \in {"halved", "last"} : tpc' = [tpc EXCEPT ![t] = to]
          /\ UNCHANGED <<next_block, block_index>>
      BY <2>6 DEF CountRound, Goto
    <3>2. ~(\E u \in Tids : tpc[u] \in {"first", "own"}) /\ main_pc # "sort"
      BY <3>1 DEF IInv, Phases, SortPhase, MergePhase, BeforeWait, BehindWait, OnTheWayOut,
                  AllDone, AllAt, Merging, Leaving, Ended, Types
    <3>3. tpc'[0] = "halve" => tpc[0] = "halve" /\ t # 0
      BY <1>1, <1>2, <3>1
    <3>4. \A u \in Tids : tpc'[u] \in {"first", "own"} => tpc[u] \in {"first", "own"}
      BY <1>2, <3>1
    <3>5. CASE UNCHANGED <<num_blocks, block_size>>
      BY <1>3, <2>1, <2>2, <2>3, <3>1, <3>3, <3>4, <3>5 DEF Sizes
    <3>6. CASE t = 0 /\ Halve(t)
      <4>1. num_blocks > 1 /\ SegmentCut
        BY <2>1, <3>1, <3>6 DEF Sizes
      <4>2. /\ num_blocks % 2 = 0 /\ IsPower(num_blocks \div 2)
            /\ 2 * (num_blocks \div 2) = num_blocks
        BY <4>1, Powers DEF SegmentCut
      <4>3. num_blocks' = num_blocks \div 2 /\ block_size' = 2 * block_size
        BY <3>6, <4>2 DEF Halve
      <4> DEFINE h == num_blocks \div 2
      <4>4. h \in Nat
        BY <1>2
      <4> HIDE DEF h
      <4>5. 2 * h = num_blocks /\ num_blocks' = h /\ IsPower(h)
        BY <4>2, <4>3 DEF h
      <4>6. h * (2 * block_size) = (2 * h) * block_size
        BY <1>2, <4>4
      <4>7. num_blocks' * block_size' = num_blocks * block_size
        BY <4>3, <4>5, <4>6
      <4>8. offset' = offset /\ main_pc' = main_pc
        BY <2>2, <2>6, <3>1 DEF MergeFails
      <4>9. SegmentCut'
        BY <4>1, <4>5, <4>7, <4>8 DEF SegmentCut
      <4>10. num_blocks' <= Blocks
        BY <1>2, <4>4, <4>5 DEF Sizes
      <4>11. next_block' <= Blocks /\ block_index' \in [Tids -> 0..Blocks - 1]
        BY <3>1 DEF Sizes
      <4>12. tpc'[0] # "halve" /\ ~(main_pc' = "sort" \/ \E u \in Tids : tpc'[u] \in {"first", "own"})
        BY <3>2, <3>3, <3>4, <3>6, <4>8
      <4>13. QED
        BY <4>9, <4>10, <4>11, <4>12 DEF Sizes
    <3>7. QED
      BY <2>6, <3>5, <3>6 DEF CountRound, Halve
  <2>7. ASSUME NEW from, from \notin Waits, NEW wait \in Waits, Arrive(t, from, wait),
               wait = "merged_wait" => from = "merged"
        PROVE  Sizes'
    <3>1. UNCHANGED <<main_pc, offset, next_block, num_blocks, block_size, block_index>>
      BY <2>7 DEF Arrive, others, segment, mainVars
    <3>2. /\ tpc[t] = from
          /\ \/ tpc' = [tpc EXCEPT ![t] = wait]
             \/ /\ \A u \in Tids \ {t} : tpc[u] \in Waits
                /\ tpc' = [u \in Tids |-> IF u = t THEN After(wait) ELSE After(tpc[u])]
      BY <2>7, ArriveSteps DEF IInv
    <3> DEFINE at(u) == IF u = t THEN wait ELSE tpc[u]
    <3>3. \A u \in Tids : /\ tpc'[u] \in {"first", "own"} => tpc[u] \in {"first", "own"}
                          /\ tpc'[u] = "halve" => tpc[u] = "halve" \/ at(u) = "merged_wait"
      <4>1. CASE tpc' = [tpc EXCEPT ![t] = wait]
        BY <1>2, <2>7, <4>1 DEF Waits
      <4>2. CASE /\ \A u \in Tids \ {t} : tpc[u] \in Waits
                 /\ tpc' = [u \in Tids |-> IF u = t THEN After(wait) ELSE After(tpc[u])]
        <5>1. \A u \in Tids : at(u) \in Waits /\ tpc'[u] = After(at(u))
          BY <2>7, <4>2
        <5> HIDE DEF at
        <5>2. \A u \in Tids : tpc'[u] \notin {"first", "own"} /\ (tpc'[u] = "halve" => at(u) = "merged_wait")
          BY <5>1, AfterWaits DEF Waits
        <5>3. QED
          BY <5>2
      <4>3. QED
        BY <3>2, <4>1, <4>2
    <3>4. ASSUME at(0) = "merged_wait" PROVE num_blocks > 1
      <4>1. tpc[0] \in {"merged", "merged_wait"}
        BY <2>7, <3>2, <3>4
      <4>2. SortPhase \/ MergePhase
        BY DEF IInv, Phases, MergePhase, Types, Ended
      <4>3. BeforeWait
        BY <1>1, <4>1, <4>2 DEF SortPhase, MergePhase, BehindWait, OnTheWayOut, AllDone, AllAt, Leaving
      <4>4. QED
        BY <1>1, <4>1, <4>3 DEF BeforeWait, Merging
    <3>5. next_block' <= Blocks /\ block_index' \in [Tids -> 0..Blocks - 1]
      BY <3>1 DEF Sizes
    <3> HIDE DEF at
    <3>6. QED
      BY <1>1, <1>3, <2>1, <3>1, <3>3, <3>4, <3>5
  <2>8. CASE \/ Arrive(t, "sorted", "sort_wait") \/ Arrive(t, "merged", "merged_wait")
             \/ Arrive(t, "halved", "halved_wait") \/ Arrive(t, "last", "last_wait")
    BY <2>7, <2>8 DEF Waits
  <2>9. QED
    BY <1>7, <2>3, <2>4, <2>5, <2>6, <2>8 DEF Thread, sort_blocks, merge_blocks_phase
<1>8. CASE MainStep
  <2>1. CASE Refuse \/ Finish
    <3>1. /\ main_pc = "map" /\ main_pc' \in {"failure", "success"}
          /\ UNCHANGED <<offset, next_block, num_blocks, block_size, tpc, block_index>>
      BY <2>1 DEF Refuse, Finish, segment, threads
    <3>2. AllDone /\ AllDone'
      BY <3>1 DEF IInv, Phases, AllDone, AllAt
    <3>3. ~Working'
      BY <3>1, <3>2 DEF Working
    <3>4. QED
      BY <1>3, <3>1, <3>3 DEF Sizes
  <2>2. CASE StartSort
    <3>1. /\ main_pc' = "sort" /\ tpc' = [t \in Tids |-> "unborn"]
          /\ next_block' = Threads /\ num_blocks' = Blocks
          /\ block_size' = RecordsInSegment(offset) \div Blocks
          /\ block_index' = [t \in Tids |-> t]
          /\ offset' = offset /\ offset < TotalRecords
      BY <2>2 DEF StartSort, Start, FirstFree
    <3>2. block_index' \in [Tids -> 0..Blocks - 1]
      <4>1. \A t \in Tids : t \in 0..Blocks - 1
        BY <1>2 DEF Tids
      <4>2. QED
        BY <3>1, <4>1
    <3>3. next_block' <= Blocks /\ num_blocks' <= Blocks
      BY <1>2, <3>1
    <3>4. offset \in Nat
      BY DEF IInv, Types
    <3>5. num_blocks' * block_size' = RecordsInSegment(offset)
      BY <3>1, <3>4, SegmentInFile
    <3>6. SegmentCut'
      BY <3>1, <3>5, Powers DEF SegmentCut, RecordsInSegment
    <3>7. tpc'[0] # "halve"
      BY <1>1, <3>1
    <3>8. QED
      BY <3>1, <3>2, <3>3, <3>6, <3>7 DEF Sizes
  <2>3. CASE CreateNext
    <3>1. PICK t \in Tids : tpc[t] = "unborn" /\ tpc' = [tpc EXCEPT ![t] = Enter]
      BY <2>3 DEF CreateNext, NextUnborn
    <3>2. /\ main_pc \in {"sort", "merge"}
          /\ UNCHANGED <<main_pc, offset, next_block, num_blocks, block_size, block_index>>
      BY <2>3 DEF CreateNext, segment, others, mainVars
    <3>3. \A u \in Tids : /\ tpc'[u] \in {"first", "own"} => tpc[u] \in {"first", "own"} \/ main_pc = "sort"
                          /\ tpc'[u] = "halve" => tpc[u] = "halve"
      BY <1>2, <3>1 DEF Enter
    <3>4. QED
      BY <1>1, <1>3, <1>5, <3>2, <3>3 DEF Sizes
  <2>4. CASE CreateFails
    <3>1. Exit(Tids) /\ Working
      BY <1>5, <2>4 DEF CreateFails
    <3>2. QED
      BY <1>6, <3>1
  <2>5. CASE StartMerge
    <3>1. /\ main_pc = "sort" /\ main_pc' = "merge" /\ tpc' = [t \in Tids |-> "unborn"]
          /\ UNCHANGED <<offset, next_block, num_blocks, block_size, block_index>>
      BY <2>5 DEF StartMerge, Start, segment
    <3>2. QED
      BY <1>1, <1>3, <1>5, <3>1 DEF Sizes
  <2>6. CASE WriteSegment
    <3>1. /\ main_pc' \in {"map", "failure"} /\ AllDone
          /\ UNCHANGED <<next_block, num_blocks, block_size, tpc, block_index>>
      BY <2>6 DEF WriteSegment, Joined, AllDone, AllAt, segment, threads
    <3>2. AllDone' /\ ~Working'
      BY <3>1 DEF AllDone, AllAt, Working
    <3>3. \A t \in Tids : tpc'[t] = "done"
      BY <3>1 DEF AllDone, AllAt
    <3>4. QED
      BY <1>1, <3>1, <3>2, <3>3 DEF Sizes
  <2>7. QED
    BY <1>8, <2>1, <2>2, <2>3, <2>4, <2>5, <2>6 DEF MainStep
<1>9. CASE sigint_handler
  <2>1. UNCHANGED <<main_pc, offset, next_block, num_blocks, block_size, tpc, block_index>>
    BY <1>9 DEF sigint_handler, mainVars, segment, threads
  <2>2. Working' => Working
    BY <2>1 DEF Working, AllDone, AllAt
  <2>3. QED
    BY <1>3, <2>1, <2>2 DEF Sizes
<1>10. QED
  BY <1>4, <1>7, <1>8, <1>9 DEF Next

LEMMA FileKeepsItsType ==
    ASSUME TInv, FileStep
    PROVE  FileOK'
<1>1. CASE UNCHANGED file
  BY <1>1 DEF TInv, FileOK
<1>2. CASE \E t \in Tids : \E first, n : Share(t, first, n) /\ Permutes(file', first, n)
  BY <1>2 DEF FileOK, Permutes
<1>3. ASSUME NEW t \in Tids, NEW i \in MayWrite(t), NEW j \in MayWrite(t),
             file' = [file EXCEPT ![i] = file[j]]
      PROVE  FileOK'
  <2>1. i \in 0..TotalRecords - 1 /\ j \in 0..TotalRecords - 1
    BY SharesInside DEF TInv
  <2>2. QED
    BY <1>3, <2>1 DEF TInv, FileOK
<1>4. QED
  BY <1>1, <1>2, <1>3 DEF FileStep

LEMMA TypesInvariant == Spec => []TInv
<1>1. Init => FileOK /\ Sizes
  <2> SUFFICES ASSUME Init PROVE FileOK /\ Sizes
    OBVIOUS
  <2>1. Blocks \in Nat \ {0} /\ Threads \in Nat /\ Threads < Blocks
    BY Powers, SortAssumption
  <2>2. FileOK
    BY SortAssumption DEF Init, FileOK
  <2>3. 0 \in Tids /\ \A t \in Tids : tpc[t] = "done"
    BY SortAssumption DEF Init, Tids
  <2>4. ~Working
    BY <2>3 DEF Init, Working, AllDone, AllAt
  <2>5. block_index \in [Tids -> 0..Blocks - 1]
    BY <2>1 DEF Init
  <2>6. next_block <= Blocks /\ num_blocks <= Blocks
    BY <2>1 DEF Init
  <2>7. ~(main_pc = "sort" \/ (\E t \in Tids : tpc[t] \in {"first", "own"})) /\ tpc[0] # "halve"
    BY <2>3 DEF Init
  <2>8. QED
    BY <2>2, <2>4, <2>5, <2>6, <2>7 DEF Sizes
<1>2. TInv /\ IInv' /\ [Next]_vars => TInv'
  <2> SUFFICES ASSUME TInv, IInv', [Next]_vars PROVE TInv'
    OBVIOUS
  <2>1. Sizes'
    BY SizesSteps DEF TInv
  <2>2. FileStep
    <3>1. CASE UNCHANGED vars
      BY <3>1 DEF vars, FileStep
    <3>2. CASE Next
      BY <3>2, FileSteps
    <3>3. QED
      BY <3>1, <3>2
  <2>3. FileOK'
    BY <2>2, FileKeepsItsType
  <2>4. QED
    BY <2>1, <2>3 DEF TInv
<1>3. FileOK /\ Sizes /\ IInv => TInv
  BY DEF TInv
<1>4. QED
  BY <1>1, <1>2, <1>3, InvariantHolds, PTL DEF Spec

\* The variables of lab06 keep their kinds, the file its length, and no thread
\* leaves the segment, whatever the sizes and wherever signals and failures fall.
THEOREM TypesHold == Spec => []TypeOK
<1>1. TInv => TypeOK
  <2> SUFFICES ASSUME TInv PROVE TypeOK
    OBVIOUS
  <2>1. next_block \in 0..Blocks /\ num_blocks \in 0..Blocks
    BY Powers DEF TInv, IInv, Types, Sizes
  <2>2. \A t \in Tids : MayWrite(t) \subseteq offset..offset + RecordsInSegment(offset) - 1
    BY SharesInside DEF TInv
  <2>3. QED
    BY <2>1, <2>2 DEF TypeOK, TInv, IInv, Types, Sizes, FileOK
<1>2. QED
  BY <1>1, TypesInvariant, PTL

\* No step of lab06 loses or doubles a record, unless the program exits over a
\* thread at work: sorting a block and merging a pair put cells in another order.
THEOREM RecordsHold == Spec => RecordsAreKept
<1>1. TInv /\ [Next]_vars
        => [ \/ \A k \in Keys : HowMany(file', k) = HowMany(file, k)
             \/ main_pc' = "failure" /\ \E t \in Tids : MayWrite(t) # {} ]_vars
  <2> SUFFICES ASSUME TInv, Next
               PROVE  \/ \A k \in Keys : HowMany(file', k) = HowMany(file, k)
                      \/ main_pc' = "failure" /\ \E t \in Tids : MayWrite(t) # {}
    OBVIOUS
  <2>1. FileStep
    BY FileSteps
  <2>2. CASE UNCHANGED file
    BY <2>2
  <2>3. ASSUME NEW t \in Tids, NEW first, NEW n, Share(t, first, n), Permutes(file', first, n),
               NEW k \in Keys
        PROVE  HowMany(file', k) = HowMany(file, k)
    <3> DEFINE r == RecordsInSegment(offset)
    <3>1. /\ first \in Nat /\ n \in Nat /\ r \in Nat /\ first + n <= offset + r
          /\ offset + r <= TotalRecords /\ offset \in Nat /\ TotalRecords \in Nat
      BY <2>3, SortAssumption DEF Share, TInv, IInv, Types
    <3> HIDE DEF r
    <3>2. first + n <= TotalRecords
      BY <3>1
    <3>3. QED
      BY <2>3, <3>1, <3>2, PermutingKeeps DEF TInv
  <2>4. CASE /\ main_pc' = "failure"
             /\ \E t \in Tids : \E i, j \in MayWrite(t) : file' = [file EXCEPT ![i] = file[j]]
    BY <2>4
  <2>5. QED
    BY <2>1, <2>2, <2>3, <2>4 DEF FileStep
<1>2. QED
  BY <1>1, TypesInvariant, PTL DEF Spec, RecordsAreKept

-----------------------------------------------------------------------------
(* What is reported as sorted.  With a thread for every pair and no signal, a  *)
(* thread that left its first block, or took one of the others, leaves it       *)
(* sorted; the counter cannot run past a block that nobody sorts; and in the    *)
(* merge all blocks of the round are sorted all along, while those of the next  *)
(* one become so pair by pair, until thread 0 counts the round.                 *)

BlockOrdered(b) == Ordered(file, offset + b * block_size, block_size)
PairOrdered(p) == Ordered(file, offset + 2 * p * block_size, 2 * block_size)

SortOrder ==
    /\ \A t \in Tids : tpc[t] \notin {"unborn", "first"} => BlockOrdered(t)
    /\ \A b \in Threads..next_block - 1 :
         BlockOrdered(b) \/ \E t \in Tids : tpc[t] = "own" /\ block_index[t] = b
    /\ \A t \in Tids : tpc[t] \in {"sorted", "sort_wait", "done"} => next_block >= Blocks

Halving == tpc[0] = "halve"

MergeOrder ==
    /\ \A b \in 0..num_blocks - 1 : BlockOrdered(b)
    /\ \A p \in 0..num_blocks \div 2 - 1 :
         Halving \/ (p \in Tids /\ tpc[p] \in {"merged", "merged_wait"}) => PairOrdered(p)
    /\ \A t \in Tids : tpc[t] \in Leaving \cup {"done"} => num_blocks <= 1

WrittenOrdered == \A o \in Written : Ordered(file, o, RecordsInSegment(o))

Undisturbed == ~terminate_flag /\ 2 * Threads >= Blocks

AtSegment == offset % SegmentRecords = 0

SInv ==
    /\ AtSegment
    /\ Undisturbed => WrittenOrdered
    /\ Undisturbed /\ main_pc = "sort" => SortOrder
    /\ Undisturbed /\ main_pc = "merge" => MergeOrder

\* Cells that a step does not touch stay in order.
LEMMA OrderKept ==
    ASSUME FileOK, NEW first \in Nat, NEW n \in Nat, Permutes(file', first, n),
           NEW o \in Nat, NEW m \in Nat, o + m <= TotalRecords,
           o + m <= first \/ first + n <= o, Ordered(file, o, m)
    PROVE  Ordered(file', o, m)
<1> SUFFICES ASSUME NEW i \in o..o + m - 2 PROVE file'[i] <= file'[i + 1]
  BY DEF Ordered
<1>1. TotalRecords \in Nat
  BY SortAssumption
<1>2. /\ i \in 0..TotalRecords - 1 /\ i + 1 \in 0..TotalRecords - 1
      /\ i \notin first..first + n - 1 /\ i + 1 \notin first..first + n - 1
  BY <1>1
<1>3. file'[i] = file[i] /\ file'[i + 1] = file[i + 1]
  BY <1>2 DEF Permutes
<1>4. QED
  BY <1>3 DEF Ordered

LEMMA PartOrdered ==
    ASSUME NEW f, NEW first \in Nat, NEW n \in Nat, Ordered(f, first, n),
           NEW o \in Nat, NEW m \in Nat, first <= o, o + m <= first + n
    PROVE  Ordered(f, o, m)
BY DEF Ordered

\* Segments do not overlap: one that was written ends before the offset.
LEMMA Multiples ==
    ASSUME NEW m \in Nat \ {0}, NEW a \in Nat, NEW b \in Nat, a % m = 0, b % m = 0, a < b
    PROVE  a + m <= b
<1>1. \A n \in Nat \ {0} : \A c \in Nat : c % n = 0 => c \div n \in Nat /\ c = (c \div n) * n
  OBVIOUS
<1> DEFINE p == a \div m
           q == b \div m
<1>2. p \in Nat /\ q \in Nat /\ a = p * m /\ b = q * m
  BY <1>1
<1> HIDE DEF p, q
<1>3. p + 1 <= q
  <2>1. SUFFICES ASSUME q <= p PROVE FALSE
    BY <1>2
  <2>2. q * m <= p * m
    BY <1>2, <2>1, TimesGrows
  <2>3. QED
    BY <1>2, <2>2
<1>4. (p + 1) * m <= q * m
  BY <1>2, <1>3, TimesGrows
<1>5. (p + 1) * m = p * m + m
  BY <1>2
<1>6. QED
  BY <1>2, <1>4, <1>5

LEMMA NextMultiple ==
    ASSUME NEW m \in Nat \ {0}, NEW a \in Nat, a % m = 0
    PROVE  (a + m) % m = 0
<1>1. \A n \in Nat \ {0} : \A c \in Nat : c % n = 0 => c \div n \in Nat /\ c = (c \div n) * n
  OBVIOUS
<1>2. \A n \in Nat \ {0} : \A c \in Nat : (c * n) % n = 0
  OBVIOUS
<1> DEFINE p == a \div m
<1>3. p \in Nat /\ a = p * m
  BY <1>1
<1> HIDE DEF p
<1>4. (p + 1) * m = a + m /\ p + 1 \in Nat
  <2>1. (p + 1) * m = p * m + m
    BY <1>3
  <2>2. QED
    BY <1>3, <2>1
<1>5. ((p + 1) * m) % m = 0
  BY <1>2, <1>4
<1>6. QED
  BY <1>4, <1>5

LEMMA WrittenBefore ==
    ASSUME offset \in Nat, AtSegment, NEW o \in Written
    PROVE  o \in Nat /\ o + SegmentRecords <= offset /\ o < TotalRecords
<1>1. /\ o \in Nat /\ o < offset /\ o % SegmentRecords = 0 /\ offset % SegmentRecords = 0
      /\ o < TotalRecords /\ SegmentRecords \in Nat \ {0} /\ TotalRecords \in Nat
  BY SortAssumption DEF Written, AtSegment
<1>2. QED
  BY <1>1, Multiples

\* The cells before the segment are not touched.
LEMMA BeforeUntouched ==
    ASSUME TInv, FileStep, NEW i \in 0..TotalRecords - 1, i < offset
    PROVE  file'[i] = file[i]
<1>1. offset \in Nat /\ TotalRecords \in Nat
  BY SortAssumption DEF TInv, IInv, Types
<1>2. ASSUME NEW t \in Tids, NEW first, NEW n, Share(t, first, n), Permutes(file', first, n)
      PROVE  file'[i] = file[i]
  <2>1. first \in Nat /\ n \in Nat /\ offset <= first
    BY <1>2 DEF Share
  <2>2. i \notin first..first + n - 1
    BY <1>1, <2>1
  <2>3. QED
    BY <1>2, <2>2 DEF Permutes
<1>3. ASSUME NEW t \in Tids, NEW k \in MayWrite(t), NEW j \in MayWrite(t),
             file' = [file EXCEPT ![k] = file[j]]
      PROVE  file'[i] = file[i]
  <2>1. k \in offset..offset + RecordsInSegment(offset) - 1
    BY SharesInside DEF TInv
  <2>2. k # i
    BY <1>1, <2>1
  <2>3. QED
    BY <1>3, <2>2 DEF TInv, FileOK
<1>4. QED
  BY <1>2, <1>3 DEF FileStep

LEMMA WrittenKept ==
    ASSUME TInv, AtSegment, FileStep, WrittenOrdered, NEW o \in Written
    PROVE  Ordered(file', o, RecordsInSegment(o))
<1> DEFINE n == RecordsInSegment(o)
<1>1. /\ o \in Nat /\ o + SegmentRecords <= offset /\ o < TotalRecords /\ offset \in Nat
      /\ SegmentRecords \in Nat /\ TotalRecords \in Nat
  BY WrittenBefore, SortAssumption DEF TInv, IInv, Types
<1>2. n \in Nat /\ n <= SegmentRecords /\ o + n <= TotalRecords
  BY <1>1, SegmentInFile
<1>3. Ordered(file, o, n)
  BY DEF WrittenOrdered
<1> HIDE DEF n
<1> SUFFICES ASSUME NEW i \in o..o + n - 2 PROVE file'[i] <= file'[i + 1]
  BY DEF Ordered, n
<1>4. /\ i \in 0..TotalRecords - 1 /\ i + 1 \in 0..TotalRecords - 1
      /\ i < offset /\ i + 1 < offset
  BY <1>1, <1>2
<1>5. file'[i] = file[i] /\ file'[i + 1] = file[i + 1]
  BY <1>4, BeforeUntouched
<1>6. QED
  BY <1>3, <1>5 DEF Ordered

\* A block of the round, and one that another is written over or that lies in a
\* pair that is written over.
LEMMA BlockInFile ==
    ASSUME TInv, SegmentCut, NEW b \in Nat, b < num_blocks
    PROVE  /\ offset + b * block_size \in Nat
           /\ offset + b * block_size + block_size <= TotalRecords
<1>1. offset \in Nat /\ block_size \in Nat /\ num_blocks \in Nat /\ TotalRecords \in Nat
  BY SortAssumption DEF TInv, IInv, Types
<1> DEFINE c == offset + b * block_size
           e == offset + num_blocks * block_size
<1>2. c \in Nat /\ c + block_size <= e
  BY <1>1, BlockIsRow
<1>3. e = offset + RecordsInSegment(offset) /\ offset < TotalRecords
  BY DEF SegmentCut
<1>4. e <= TotalRecords
  BY <1>1, <1>3, SegmentInFile
<1>5. e \in Nat
  <2>1. num_blocks * block_size \in Nat
    BY <1>1
  <2>2. QED
    BY <1>1, <2>1
<1> HIDE DEF c, e
<1>6. c \in Nat /\ c + block_size <= TotalRecords
  BY <1>1, <1>2, <1>4, <1>5
<1>7. QED
  BY <1>6 DEF c

LEMMA BlockKept ==
    ASSUME TInv, SegmentCut, NEW b \in Nat, b < num_blocks, NEW d \in Nat, b # d,
           BlockOrdered(b), Permutes(file', offset + d * block_size, block_size)
    PROVE  Ordered(file', offset + b * block_size, block_size)
<1>1. offset \in Nat /\ block_size \in Nat
  BY DEF TInv, IInv, Types
<1> DEFINE c == offset + b * block_size
           e == offset + d * block_size
<1>2. c \in Nat /\ c + block_size <= TotalRecords
  BY BlockInFile
<1>3. e \in Nat /\ (b < d => c + block_size <= e) /\ (d < b => e + block_size <= c)
  BY <1>1, BlockIsRow
<1>4. c + block_size <= e \/ e + block_size <= c
  BY <1>3
<1>5. Ordered(file, c, block_size)
  BY DEF BlockOrdered
<1> HIDE DEF c, e
<1>6. Permutes(file', e, block_size)
  BY DEF e
<1>7. Ordered(file', c, block_size)
  BY <1>1, <1>2, <1>3, <1>4, <1>5, <1>6, OrderKept DEF TInv
<1>8. QED
  BY <1>7 DEF c

\* The pair p of blocks, as its two blocks, and next to the others.
LEMMA PairPlace ==
    ASSUME TInv, NEW p \in Nat
    PROVE  /\ offset + 2 * p * block_size \in Nat
           /\ offset + 2 * p * block_size = offset + (2 * p) * block_size
           /\ offset + 2 * p * block_size + block_size = offset + (2 * p + 1) * block_size
           /\ offset + 2 * p * block_size = offset + p * (2 * block_size)
           /\ \A q \in Nat : p < q => offset + 2 * p * block_size + 2 * block_size
                                        <= offset + 2 * q * block_size
<1>1. offset \in Nat /\ block_size \in Nat
  BY DEF TInv, IInv, Types
<1> DEFINE size == 2 * block_size
<1>2. \A q \in Nat : 2 * q * block_size = q * size /\ 2 * q * block_size = (2 * q) * block_size
                     /\ (2 * q) * block_size + block_size = (2 * q + 1) * block_size
                     /\ q * size \in Nat
  BY <1>1
<1>3. size \in Nat
  BY <1>1
<1> HIDE DEF size
<1>4. \A q \in Nat : p < q => (offset + p * size) + size <= offset + q * size
  BY <1>1, <1>3, BlockIsRow
<1>5. QED
  BY <1>1, <1>2, <1>4 DEF size

LEMMA PairKept ==
    ASSUME TInv, SegmentCut, NEW p \in Nat, 2 * p + 1 < num_blocks, NEW q \in Nat, p # q,
           PairOrdered(p), Permutes(file', offset + 2 * q * block_size, 2 * block_size)
    PROVE  Ordered(file', offset + 2 * p * block_size, 2 * block_size)
<1>1. offset \in Nat /\ block_size \in Nat /\ 2 * p + 1 \in Nat /\ TotalRecords \in Nat
  BY SortAssumption DEF TInv, IInv, Types
<1> DEFINE c == offset + 2 * p * block_size
           e == offset + 2 * q * block_size
           z == offset + (2 * p + 1) * block_size
           size == 2 * block_size
<1>2. z \in Nat /\ z + block_size <= TotalRecords
  BY <1>1, BlockInFile
<1>3. c \in Nat /\ e \in Nat /\ c + block_size = z
      /\ (p < q => c + size <= e) /\ (q < p => e + size <= c)
  BY PairPlace
<1>4. size \in Nat /\ size = block_size + block_size
  BY <1>1
<1>5. Ordered(file, c, size)
  BY DEF PairOrdered
<1> HIDE DEF c, e, z, size
<1>6. c + size <= TotalRecords
  BY <1>1, <1>2, <1>3, <1>4
<1>7. Permutes(file', e, size)
  BY DEF e, size
<1>8. c + size <= e \/ e + size <= c
  BY <1>3
<1>9. Ordered(file', c, size)
  BY <1>3, <1>4, <1>5, <1>6, <1>7, <1>8, OrderKept DEF TInv
<1>10. QED
  BY <1>9 DEF c, size

LEMMA BlockBesidePair ==
    ASSUME TInv, SegmentCut, NEW b \in Nat, b < num_blocks, NEW q \in Nat,
           BlockOrdered(b), Permutes(file', offset + 2 * q * block_size, 2 * block_size),
           Ordered(file', offset + 2 * q * block_size, 2 * block_size)
    PROVE  Ordered(file', offset + b * block_size, block_size)
<1>1. offset \in Nat /\ block_size \in Nat /\ TotalRecords \in Nat
  BY SortAssumption DEF TInv, IInv, Types
<1> DEFINE c == offset + b * block_size
           e == offset + (2 * q) * block_size
           z == offset + (2 * q + 1) * block_size
           size == 2 * block_size
<1>2. c \in Nat /\ c + block_size <= TotalRecords
  BY BlockInFile
<1>3. e \in Nat /\ e + block_size = z /\ z \in Nat
  BY <1>1, PairPlace
<1>4. (b < 2 * q => c + block_size <= e) /\ (2 * q + 1 < b => z + block_size <= c)
  <2> DEFINE l == 2 * q
             r == 2 * q + 1
  <2>1. l \in Nat /\ r \in Nat
    OBVIOUS
  <2> HIDE DEF l, r
  <2>2. b < l => c + block_size <= offset + l * block_size
    BY <1>1, <2>1, BlockIsRow
  <2>3. r < b => (offset + r * block_size) + block_size <= c
    BY <1>1, <2>1, BlockIsRow
  <2>4. QED
    BY <2>2, <2>3 DEF l, r
<1>5. b < 2 * q \/ 2 * q + 1 < b \/ b = 2 * q \/ b = 2 * q + 1
  OBVIOUS
<1>6. c + block_size <= e \/ e + size <= c \/ c = e \/ c = z
  <2>1. (b = 2 * q => c = e) /\ (b = 2 * q + 1 => c = z)
    OBVIOUS
  <2> HIDE DEF c, e, z
  <2>2. e + size = z + block_size
    BY <1>1, <1>3
  <2>3. QED
    BY <1>4, <1>5, <2>1, <2>2
<1>7. Ordered(file, c, block_size)
  BY DEF BlockOrdered
<1>8. Permutes(file', e, size) /\ Ordered(file', e, size)
  BY PairPlace
<1>9. size \in Nat /\ size = block_size + block_size
  BY <1>1
<1> HIDE DEF c, e, z, size
<1>10. CASE c + block_size <= e \/ e + size <= c
  BY <1>1, <1>2, <1>3, <1>7, <1>8, <1>9, <1>10, OrderKept DEF TInv, c
<1>11. CASE c = e \/ c = z
  <2>1. e <= c /\ c + block_size <= e + size
    BY <1>1, <1>3, <1>9, <1>11
  <2>2. Ordered(file', c, block_size)
    BY <1>1, <1>2, <1>3, <1>8, <1>9, <2>1, PartOrdered
  <2>3. QED
    BY <2>2 DEF c
<1>12. QED
  BY <1>6, <1>10, <1>11

-----------------------------------------------------------------------------
(* The order, step by step *)

LEMMA InSort ==
    ASSUME TInv, main_pc = "sort"
    PROVE  /\ SegmentCut /\ num_blocks = Blocks /\ SortPhase
           /\ \A u \in Tids : u \in Nat /\ u < num_blocks
           /\ next_block \in Nat /\ next_block <= Blocks /\ Threads \in Nat /\ Blocks \in Nat
           /\ offset \in Nat /\ block_size \in Nat /\ tpc \in [Tids -> Places]
           /\ block_index \in [Tids -> Nat]
<1>1. SegmentCut /\ num_blocks = Blocks /\ SortPhase
  BY DEF TInv, Sizes, Working, IInv, Phases
<1>2. QED
  BY <1>1, Powers, SortAssumption DEF TInv, Sizes, IInv, Types, Tids

\* A step that only moves a thread.
LEMMA SortOrderFrame ==
    ASSUME TInv, SortOrder, main_pc = "sort", UNCHANGED <<file, offset, block_size, next_block,
                                                        block_index>>,
           tpc' \in [Tids -> Places],
           \A t \in Tids : /\ tpc'[t] = "own" <=> tpc[t] = "own"
                           /\ tpc'[t] \notin {"unborn", "first"} => tpc[t] \notin {"unborn", "first"}
                           /\ tpc'[t] \in {"sorted", "sort_wait", "done"}
                                => tpc[t] \in {"sorted", "sort_wait", "done"} \/ next_block >= Blocks
    PROVE  SortOrder'
<1>1. \A b : BlockOrdered(b) => Ordered(file', offset' + b * block_size', block_size')
  BY DEF BlockOrdered
<1>2. \A b : BlockOrdered(b)' <=> Ordered(file', offset' + b * block_size', block_size')
  BY DEF BlockOrdered
<1>3. \A b : BlockOrdered(b) => BlockOrdered(b)'
  BY <1>1, <1>2
<1> HIDE DEF BlockOrdered
<1>4. \A t \in Tids : tpc'[t] \notin {"unborn", "first"} => BlockOrdered(t)'
  BY <1>3 DEF SortOrder
<1>5. \A b \in Threads..next_block' - 1 :
        BlockOrdered(b)' \/ \E t \in Tids : tpc'[t] = "own" /\ block_index'[t] = b
  BY <1>3 DEF SortOrder
<1>6. \A t \in Tids : tpc'[t] \in {"sorted", "sort_wait", "done"} => next_block' >= Blocks
  BY DEF SortOrder
<1>7. QED
  BY <1>4, <1>5, <1>6 DEF SortOrder

\* A thread sorts its block b: the other blocks are as they were.
LEMMA SortOrderWrite ==
    ASSUME TInv, SortOrder, main_pc = "sort", NEW t \in Tids, NEW b \in Nat,
           \/ tpc[t] = "first" /\ b = t
           \/ tpc[t] = "own" /\ b = block_index[t],
           Permutes(file', offset + b * block_size, block_size),
           Ordered(file', offset + b * block_size, block_size),
           tpc' = [tpc EXCEPT ![t] = "next"],
           UNCHANGED <<offset, block_size, next_block, block_index>>
    PROVE  SortOrder'
<1>1. \A d : BlockOrdered(d)' <=> Ordered(file', offset + d * block_size, block_size)
  BY DEF BlockOrdered
<1>2. /\ SegmentCut /\ num_blocks = Blocks /\ SortPhase
      /\ \A u \in Tids : u \in Nat /\ u < num_blocks
      /\ next_block \in Nat /\ next_block <= Blocks /\ Threads \in Nat /\ Blocks \in Nat
      /\ tpc \in [Tids -> Places]
  BY InSort
<1>3. BlockOrdered(b)'
  BY <1>1
<1>4. ASSUME NEW d \in Nat, d < num_blocks, BlockOrdered(d)
      PROVE  BlockOrdered(d)'
  <2>1. CASE d = b
    BY <1>3, <2>1
  <2>2. CASE d # b
    <3>1. Ordered(file', offset + d * block_size, block_size)
      BY <1>2, <1>4, <2>2, BlockKept
    <3>2. QED
      BY <1>1, <3>1
  <2>3. QED
    BY <2>1, <2>2
<1> HIDE DEF BlockOrdered
<1>5. \A u \in Tids : u # t => tpc'[u] = tpc[u]
  BY <1>2
<1>6. tpc'[t] = "next"
  BY <1>2
<1>7. ASSUME NEW u \in Tids, tpc'[u] \notin {"unborn", "first"}
      PROVE  BlockOrdered(u)'
  <2>1. CASE u = b
    BY <1>3, <2>1
  <2>2. CASE u # b
    <3>1. tpc[u] \notin {"unborn", "first"}
      BY <1>5, <1>7, <2>2
    <3>2. BlockOrdered(u)
      BY <3>1 DEF SortOrder
    <3>3. QED
      BY <1>2, <1>4, <3>2
  <2>3. QED
    BY <2>1, <2>2
<1>8. ASSUME NEW d \in Threads..next_block - 1
      PROVE  BlockOrdered(d)' \/ \E u \in Tids : tpc'[u] = "own" /\ block_index'[u] = d
  <2>1. d \in Nat /\ d < num_blocks
    BY <1>2
  <2>2. CASE BlockOrdered(d)
    BY <1>4, <2>1, <2>2
  <2>3. CASE ~BlockOrdered(d)
    <3>1. PICK u \in Tids : tpc[u] = "own" /\ block_index[u] = d
      BY <2>3 DEF SortOrder
    <3>2. CASE u = t
      BY <1>3, <3>1, <3>2
    <3>3. CASE u # t
      BY <1>5, <3>1, <3>3
    <3>4. QED
      BY <3>2, <3>3
  <2>4. QED
    BY <2>2, <2>3
<1>9. \A u \in Tids : tpc'[u] \in {"sorted", "sort_wait", "done"} => next_block' >= Blocks
  BY <1>5, <1>6 DEF SortOrder
<1>10. QED
  BY <1>7, <1>8, <1>9 DEF SortOrder

LEMMA SortOrderThread ==
    ASSUME TInv, SortOrder, ~terminate_flag, main_pc = "sort", NEW t \in Tids, Thread(t)
    PROVE  SortOrder'
<1>1. /\ SortPhase /\ next_block \in Nat /\ next_block <= Blocks /\ Threads \in Nat /\ Blocks \in Nat
      /\ tpc \in [Tids -> Places] /\ block_index \in [Tids -> Nat] /\ t \in Nat
  BY InSort
<1>2. sort_blocks(t)
  BY <1>1 DEF SortPhase, AllAt, Thread, merge_blocks_phase, MergeLoop, MergeOwnPair,
              MergeFails, CountRound, Arrive, Goto
<1>3. UNCHANGED <<offset, block_size>>
  BY <1>2 DEF sort_blocks, SortFirst, ReserveBlock, SortOwn, StopSorting, Arrive, others, segment,
              mainVars
<1>4. CASE SortFirst(t)
  <2>1. /\ tpc[t] = "first" /\ tpc' = [tpc EXCEPT ![t] = "next"] /\ SortBlock(t)
        /\ UNCHANGED <<next_block, block_index>>
    BY <1>4 DEF SortFirst, Goto, segment
  <2>2. Share(t, offset + t * block_size, block_size)
    BY <2>1, Shares DEF TInv
  <2>3. /\ Permutes(file', offset + t * block_size, block_size)
        /\ Ordered(file', offset + t * block_size, block_size)
    BY <1>1, <2>1, <2>2, SortWrites DEF TInv
  <2>4. QED
    BY <1>1, <1>3, <2>1, <2>3, SortOrderWrite
<1>5. CASE SortOwn(t)
  <2>1. /\ tpc[t] = "own" /\ tpc' = [tpc EXCEPT ![t] = "next"] /\ SortBlock(block_index[t])
        /\ UNCHANGED <<next_block, block_index>>
    BY <1>5 DEF SortOwn, Goto, segment
  <2>2. Share(t, offset + block_index[t] * block_size, block_size)
    BY <2>1, Shares DEF TInv
  <2> DEFINE b == block_index[t]
  <2>3. b \in Nat
    BY <1>1
  <2>4. /\ Permutes(file', offset + b * block_size, block_size)
        /\ Ordered(file', offset + b * block_size, block_size)
    BY <2>1, <2>2, <2>3, SortWrites DEF TInv
  <2>5. tpc[t] = "own" /\ b = block_index[t]
    BY <2>1
  <2> HIDE DEF b
  <2>6. QED
    BY <1>3, <2>1, <2>3, <2>4, <2>5, SortOrderWrite
<1>6. CASE StopSorting(t)
  <2>1. /\ tpc[t] = "next" /\ next_block >= Blocks /\ tpc' = [tpc EXCEPT ![t] = "sorted"]
        /\ UNCHANGED <<file, next_block, block_index>>
    BY <1>6 DEF StopSorting, segment
  <2>2. tpc' \in [Tids -> Places]
    BY <1>1, <2>1 DEF Places
  <2>3. \A u \in Tids : /\ tpc'[u] = "own" <=> tpc[u] = "own"
                        /\ tpc'[u] \notin {"unborn", "first"} => tpc[u] \notin {"unborn", "first"}
                        /\ tpc'[u] \in {"sorted", "sort_wait", "done"}
                             => tpc[u] \in {"sorted", "sort_wait", "done"} \/ next_block >= Blocks
    BY <1>1, <2>1
  <2>4. QED
    BY <1>3, <2>1, <2>2, <2>3, SortOrderFrame
<1>7. CASE Arrive(t, "sorted", "sort_wait")
  <2>1. UNCHANGED <<file, next_block, block_index>>
    BY <1>7 DEF Arrive, segment
  <2>2. /\ tpc[t] = "sorted"
        /\ \/ tpc' = [tpc EXCEPT ![t] = "sort_wait"]
           \/ /\ \A u \in Tids \ {t} : tpc[u] \in Waits
              /\ tpc' = [u \in Tids |-> IF u = t THEN After("sort_wait") ELSE After(tpc[u])]
    BY <1>7, ArriveSteps DEF Waits, TInv, IInv
  <2>3. CASE tpc' = [tpc EXCEPT ![t] = "sort_wait"]
    <3>1. tpc' \in [Tids -> Places]
      BY <1>1, <2>3 DEF Places, Waits
    <3>2. \A u \in Tids : /\ tpc'[u] = "own" <=> tpc[u] = "own"
                          /\ tpc'[u] \notin {"unborn", "first"} => tpc[u] \notin {"unborn", "first"}
                          /\ tpc'[u] \in {"sorted", "sort_wait", "done"}
                               => tpc[u] \in {"sorted", "sort_wait", "done"} \/ next_block >= Blocks
      BY <1>1, <2>2, <2>3
    <3>3. QED
      BY <1>3, <2>1, <3>1, <3>2, SortOrderFrame
  <2>4. CASE /\ \A u \in Tids \ {t} : tpc[u] \in Waits
             /\ tpc' = [u \in Tids |-> IF u = t THEN After("sort_wait") ELSE After(tpc[u])]
    <3>1. \A u \in Tids \ {t} : tpc[u] = "sort_wait"
      BY <1>1, <2>4 DEF SortPhase, AllAt, Waits
    <3>2. tpc' = [u \in Tids |-> "done"]
      BY <2>4, <3>1, AfterWaits
    <3>3. tpc' \in [Tids -> Places]
      BY <3>2 DEF Places
    <3>4. \A u \in Tids : /\ tpc'[u] = "own" <=> tpc[u] = "own"
                          /\ tpc'[u] \notin {"unborn", "first"} => tpc[u] \notin {"unborn", "first"}
                          /\ tpc'[u] \in {"sorted", "sort_wait", "done"}
                               => tpc[u] \in {"sorted", "sort_wait", "done"} \/ next_block >= Blocks
      BY <2>2, <3>1, <3>2
    <3>5. QED
      BY <1>3, <2>1, <3>3, <3>4, SortOrderFrame
  <2>5. QED
    BY <2>2, <2>3, <2>4
<1>8. CASE ReserveBlock(t)
  <2>1. /\ tpc[t] = "next" /\ tpc' = [tpc EXCEPT ![t] = "own"]
        /\ block_index' = [block_index EXCEPT ![t] = next_block]
        /\ next_block' = next_block + 1 /\ UNCHANGED file
    BY <1>8 DEF ReserveBlock, ReserveNext, Goto
  <2>2. \A d : BlockOrdered(d) <=> BlockOrdered(d)'
    BY <1>3, <2>1 DEF BlockOrdered
  <2> HIDE DEF BlockOrdered
  <2>3. \A u \in Tids : tpc'[u] \notin {"unborn", "first"} => BlockOrdered(u)'
    <3>1. \A u \in Tids : tpc'[u] \notin {"unborn", "first"} => tpc[u] \notin {"unborn", "first"}
      BY <1>1, <2>1
    <3>2. QED
      BY <2>2, <3>1 DEF SortOrder
  <2>4. ASSUME NEW d \in Threads..next_block' - 1
        PROVE  BlockOrdered(d)' \/ \E u \in Tids : tpc'[u] = "own" /\ block_index'[u] = d
    <3>1. CASE d = next_block
      <4>1. tpc'[t] = "own" /\ block_index'[t] = d
        BY <1>1, <2>1, <3>1
      <4>2. QED
        BY <4>1
    <3>2. CASE d # next_block
      <4>1. d \in Threads..next_block - 1
        BY <1>1, <2>1, <3>2
      <4>2. CASE BlockOrdered(d)
        BY <2>2, <4>2
      <4>3. CASE ~BlockOrdered(d)
        <5>1. PICK u \in Tids : tpc[u] = "own" /\ block_index[u] = d
          BY <4>1, <4>3 DEF SortOrder
        <5>2. tpc'[u] = "own" /\ block_index'[u] = d
          BY <1>1, <2>1, <5>1
        <5>3. QED
          BY <5>2
      <4>4. QED
        BY <4>2, <4>3
    <3>3. QED
      BY <3>1, <3>2
  <2>5. \A u \in Tids : tpc'[u] \in {"sorted", "sort_wait", "done"} => next_block' >= Blocks
    <3>1. \A u \in Tids : tpc'[u] \in {"sorted", "sort_wait", "done"} => tpc[u] \in {"sorted", "sort_wait", "done"}
      BY <1>1, <2>1
    <3>2. next_block >= Blocks => next_block' >= Blocks
      BY <1>1, <2>1
    <3>3. QED
      BY <3>1, <3>2 DEF SortOrder
  <2>6. QED
    BY <2>3, <2>4, <2>5 DEF SortOrder
<1>9. QED
  BY <1>2, <1>4, <1>5, <1>6, <1>7, <1>8 DEF sort_blocks

LEMMA InMerge ==
    ASSUME TInv, main_pc = "merge"
    PROVE  /\ SegmentCut /\ num_blocks \in Nat /\ num_blocks \div 2 \in Nat
           /\ 2 * (num_blocks \div 2) <= num_blocks
           /\ num_blocks <= Blocks /\ Blocks \in Nat /\ Threads \in Nat
           /\ tpc \in [Tids -> Places] /\ 0 \in Tids
           /\ \A u \in Tids : u \in Nat
           /\ BeforeWait \/ BehindWait \/ OnTheWayOut \/ AllDone
<1>1. SegmentCut
  BY DEF TInv, Sizes, Working
<1>2. MergePhase
  BY DEF TInv, IInv, Phases
<1>3. num_blocks \in Nat /\ tpc \in [Tids -> Places] /\ num_blocks <= Blocks
  BY DEF TInv, Sizes, IInv, Types
<1>4. num_blocks \div 2 \in Nat /\ 2 * (num_blocks \div 2) <= num_blocks
  BY <1>3
<1>5. Blocks \in Nat /\ Threads \in Nat /\ 0 \in Tids /\ \A u \in Tids : u \in Nat
  BY Powers, SortAssumption DEF Tids
<1>6. QED
  BY <1>1, <1>2, <1>3, <1>4, <1>5 DEF MergePhase

\* The pairs that the places of the threads say are merged.
Merged(p) == Halving \/ (p \in Tids /\ tpc[p] \in {"merged", "merged_wait"})

LEMMA MergeOrderFrame ==
    ASSUME MergeOrder, UNCHANGED <<file, offset, block_size, num_blocks>>,
           \A p \in 0..num_blocks \div 2 - 1 : Merged(p)' => PairOrdered(p),
           \A t \in Tids : tpc'[t] \in Leaving \cup {"done"} => num_blocks <= 1
    PROVE  MergeOrder'
<1>1. \A b : BlockOrdered(b) => BlockOrdered(b)'
  BY DEF BlockOrdered
<1>2. \A b : PairOrdered(b) => PairOrdered(b)'
  BY DEF PairOrdered
<1> HIDE DEF BlockOrdered, PairOrdered
<1>3. \A b \in 0..num_blocks' - 1 : BlockOrdered(b)'
  BY <1>1 DEF MergeOrder
<1>4. \A p \in 0..num_blocks' \div 2 - 1 :
        (Halving \/ (p \in Tids /\ tpc[p] \in {"merged", "merged_wait"}))' => PairOrdered(p)'
  BY <1>2 DEF Merged
<1>5. \A t \in Tids : tpc'[t] \in Leaving \cup {"done"} => num_blocks' <= 1
  OBVIOUS
<1>6. QED
  BY <1>3, <1>4, <1>5 DEF MergeOrder

\* A thread merges its pair: the blocks stay sorted, and so do the other pairs.
LEMMA MergeOrderWrite ==
    ASSUME TInv, MergeOrder, main_pc = "merge", NEW t \in Tids, t < num_blocks \div 2,
           tpc[t] = "merge", ~Halving, MergePair(t), tpc' = [tpc EXCEPT ![t] = "merged"],
           UNCHANGED <<offset, block_size, num_blocks>>
    PROVE  MergeOrder'
<1>1. /\ SegmentCut /\ num_blocks \in Nat /\ num_blocks \div 2 \in Nat
      /\ 2 * (num_blocks \div 2) <= num_blocks /\ tpc \in [Tids -> Places] /\ 0 \in Tids
      /\ t \in Nat /\ \A u \in Tids : u \in Nat
  BY InMerge
<1>2. \A b : BlockOrdered(b)' <=> Ordered(file', offset + b * block_size, block_size)
  BY DEF BlockOrdered
<1>3. \A p : PairOrdered(p)' <=> Ordered(file', offset + 2 * p * block_size, 2 * block_size)
  BY DEF PairOrdered
<1> DEFINE half == num_blocks \div 2
           l == 2 * t
           r == 2 * t + 1
<1>4. l \in 0..num_blocks - 1 /\ r \in 0..num_blocks - 1
  <2>1. half \in Nat /\ t < half /\ 2 * half <= num_blocks
    BY <1>1
  <2> HIDE DEF half
  <2>2. QED
    BY <1>1, <2>1
<1>5. Share(t, offset + 2 * t * block_size, 2 * block_size)
  BY Shares DEF TInv
<1>6. InOrder(offset + 2 * t * block_size, block_size)
      /\ InOrder(offset + 2 * t * block_size + block_size, block_size)
  <2>1. BlockOrdered(l) /\ BlockOrdered(r)
    BY <1>4 DEF MergeOrder
  <2>2. Ordered(file, offset + l * block_size, block_size) /\ Ordered(file, offset + r * block_size, block_size)
    BY <2>1 DEF BlockOrdered
  <2>3. /\ offset + 2 * t * block_size = offset + l * block_size
        /\ offset + 2 * t * block_size + block_size = offset + r * block_size
    BY <1>1, PairPlace
  <2> HIDE DEF l, r
  <2>4. QED
    BY <2>2, <2>3 DEF Ordered, InOrder
<1>7. /\ Permutes(file', offset + 2 * t * block_size, 2 * block_size)
      /\ Ordered(file', offset + 2 * t * block_size, 2 * block_size)
  BY <1>5, <1>6, MergeWrites DEF TInv
<1>8. ASSUME NEW b \in 0..num_blocks - 1
      PROVE  BlockOrdered(b)'
  <2>1. b \in Nat /\ b < num_blocks /\ BlockOrdered(b)
    BY <1>1 DEF MergeOrder
  <2>2. Ordered(file', offset + b * block_size, block_size)
    BY <1>1, <1>7, <2>1, BlockBesidePair
  <2>3. QED
    BY <1>2, <2>2
<1>9. ASSUME NEW p \in 0..num_blocks \div 2 - 1, Merged(p)'
      PROVE  PairOrdered(p)'
  <2>1. CASE p = t
    BY <1>3, <1>7, <2>1
  <2>2. CASE p # t
    <3>1. Merged(p)
      BY <1>1, <1>9, <2>2 DEF Merged, Halving
    <3>2. PairOrdered(p)
      BY <3>1 DEF MergeOrder, Merged
    <3>3. p \in Nat /\ 2 * p + 1 < num_blocks
      <4>1. half \in Nat /\ 2 * half <= num_blocks /\ p \in 0..half - 1
        BY <1>1
      <4> HIDE DEF half
      <4>2. QED
        BY <1>1, <4>1
    <3>4. Ordered(file', offset + 2 * p * block_size, 2 * block_size)
      BY <1>1, <1>7, <2>2, <3>2, <3>3, PairKept
    <3>5. QED
      BY <1>3, <3>4
  <2>3. QED
    BY <2>1, <2>2
<1>10. \A u \in Tids : tpc'[u] \in Leaving \cup {"done"} => num_blocks' <= 1
  <2>1. \A u \in Tids : tpc'[u] \in Leaving \cup {"done"} => tpc[u] \in Leaving \cup {"done"}
    BY <1>1 DEF Leaving
  <2>2. QED
    BY <2>1 DEF MergeOrder
<1> HIDE DEF BlockOrdered, PairOrdered
<1>11. QED
  BY <1>8, <1>9, <1>10 DEF MergeOrder, Merged

\* Thread 0 counts the round: what were pairs are the blocks of the next one.
LEMMA MergeOrderHalve ==
    ASSUME TInv, MergeOrder, ~terminate_flag, main_pc = "merge", tpc[0] = "halve", Halve(0),
           tpc' = [tpc EXCEPT ![0] = "halved"], UNCHANGED <<file, offset>>
    PROVE  MergeOrder'
<1>1. /\ SegmentCut /\ num_blocks \in Nat /\ num_blocks \div 2 \in Nat
      /\ tpc \in [Tids -> Places] /\ 0 \in Tids /\ \A u \in Tids : u \in Nat
      /\ AllAt({"halve", "halved", "halved_wait"})
  <2>1. AllAt({"halve", "halved", "halved_wait"})
    BY InMerge DEF BeforeWait, BehindWait, OnTheWayOut, AllDone, AllAt, Merging, Leaving
  <2>2. QED
    BY <2>1, InMerge
<1>2. num_blocks > 1 /\ num_blocks % 2 = 0
  BY <1>1, Powers DEF TInv, Sizes, SegmentCut
<1>3. num_blocks' = num_blocks \div 2 /\ block_size' = 2 * block_size
  BY <1>2 DEF Halve
<1>4. ASSUME NEW b \in 0..num_blocks' - 1
      PROVE  BlockOrdered(b)'
  <2>1. PairOrdered(b)
    BY <1>3, <1>4 DEF MergeOrder, Halving
  <2>2. b \in Nat
    BY <1>1, <1>3
  <2>3. offset + 2 * b * block_size = offset + b * (2 * block_size)
    BY <2>2, PairPlace
  <2>4. Ordered(file, offset + b * (2 * block_size), 2 * block_size)
    BY <2>1, <2>3 DEF PairOrdered
  <2>5. Ordered(file', offset' + b * block_size', block_size')
    BY <1>3, <2>4
  <2>6. QED
    BY <2>5 DEF BlockOrdered
<1>5. \A u \in Tids : tpc'[u] \in {"halve", "halved", "halved_wait"} /\ tpc'[0] = "halved"
  BY <1>1 DEF AllAt
<1>6. \A p : ~(tpc'[0] = "halve") /\ ~(p \in Tids /\ tpc'[p] \in {"merged", "merged_wait"})
  BY <1>1, <1>5
<1>7. \A u \in Tids : tpc'[u] \in Leaving \cup {"done"} => num_blocks' <= 1
  BY <1>5 DEF Leaving
<1> HIDE DEF BlockOrdered, PairOrdered
<1>8. QED
  BY <1>4, <1>6, <1>7 DEF MergeOrder, Halving

LEMMA MergeOrderThread ==
    ASSUME TInv, MergeOrder, Undisturbed, main_pc = "merge", main_pc' = "merge",
           NEW t \in Tids, Thread(t)
    PROVE  MergeOrder'
<1>1. /\ SegmentCut /\ num_blocks \in Nat /\ num_blocks \div 2 \in Nat
      /\ 2 * (num_blocks \div 2) <= num_blocks
      /\ num_blocks <= Blocks /\ Blocks \in Nat /\ Threads \in Nat
      /\ tpc \in [Tids -> Places] /\ 0 \in Tids
      /\ \A u \in Tids : u \in Nat
  BY InMerge
<1>2. BeforeWait \/ AllAt({"halve", "halved", "halved_wait"}) \/ AllDone
  BY InMerge DEF Undisturbed, BehindWait, OnTheWayOut
<1>3. /\ merge_blocks_phase(t) /\ ~MergeFails(t)
  <2>1. ~MergeFails(t)
    BY DEF MergeFails, Exit
  <2>2. ~sort_blocks(t)
    BY <1>2 DEF BeforeWait, AllDone, AllAt, Merging, Leaving, sort_blocks, SortFirst,
                ReserveBlock, SortOwn, StopSorting, Arrive, Goto
  <2>3. QED
    BY <2>1, <2>2 DEF Thread
<1>4. ~terminate_flag /\ 2 * Threads >= Blocks
  BY DEF Undisturbed
<1>5. \A p \in 0..num_blocks \div 2 - 1 : p \in Tids
  <2> DEFINE half == num_blocks \div 2
  <2>1. half \in Nat /\ 2 * half <= num_blocks
    BY <1>1
  <2> HIDE DEF half
  <2>2. \A p \in 0..half - 1 : p \in Tids
    BY <1>1, <1>4, <2>1 DEF Tids
  <2>3. QED
    BY <2>2 DEF half
<1>6. \A p \in 0..num_blocks \div 2 - 1 : Merged(p) => PairOrdered(p)
  BY DEF MergeOrder, Merged
<1>7. \A u \in Tids : tpc[u] \in Leaving \cup {"done"} => num_blocks <= 1
  BY DEF MergeOrder
<1>8. CASE MergeLoop(t)
  <2>1. /\ tpc[t] = "loop" /\ UNCHANGED <<file, offset, block_size, num_blocks>>
        /\ tpc' = [tpc EXCEPT ![t] = IF num_blocks > 1 THEN "merge" ELSE "last"]
    BY <1>4, <1>8 DEF MergeLoop, Goto, segment, others, mainVars
  <2>2. \A p \in 0..num_blocks \div 2 - 1 : Merged(p)' => Merged(p)
    BY <1>1, <2>1 DEF Merged, Halving
  <2>3. \A u \in Tids : tpc'[u] \in Leaving \cup {"done"} => num_blocks <= 1
    BY <1>1, <1>7, <2>1 DEF Leaving
  <2>4. QED
    BY <1>6, <2>1, <2>2, <2>3, MergeOrderFrame
<1>9. CASE MergeOwnPair(t)
  <2>1. /\ tpc[t] = "merge" /\ tpc' = [tpc EXCEPT ![t] = "merged"]
        /\ UNCHANGED <<offset, block_size, num_blocks>>
    BY <1>9 DEF MergeOwnPair, Goto, segment, others, mainVars
  <2>2. ~Halving
    BY <1>1, <1>2, <2>1 DEF Halving, BeforeWait, AllDone, AllAt, Merging, Leaving
  <2>3. CASE t < num_blocks \div 2 /\ MergePair(t)
    BY <2>1, <2>2, <2>3, MergeOrderWrite
  <2>4. CASE t >= num_blocks \div 2 /\ UNCHANGED file
    <3>1. ASSUME NEW p \in 0..num_blocks \div 2 - 1, Merged(p)'
          PROVE  Merged(p)
      <4>1. p # t
        BY <1>1, <2>4
      <4>2. QED
        BY <1>1, <2>1, <3>1, <4>1 DEF Merged, Halving
    <3>2. \A u \in Tids : tpc'[u] \in Leaving \cup {"done"} => num_blocks <= 1
      BY <1>1, <1>7, <2>1 DEF Leaving
    <3>3. QED
      BY <1>6, <2>1, <2>4, <3>1, <3>2, MergeOrderFrame
  <2>5. QED
    BY <1>9, <2>3, <2>4 DEF MergeOwnPair
<1>10. CASE CountRound(t)
  <2>1. /\ tpc[t] = "halve" /\ tpc' = [tpc EXCEPT ![t] = "halved"] /\ Halve(t)
        /\ UNCHANGED <<file, offset>>
    BY <1>4, <1>10 DEF CountRound, Goto, others, mainVars
  <2>2. CASE t = 0
    BY <1>4, <2>1, <2>2, MergeOrderHalve
  <2>3. CASE t # 0
    <3>1. UNCHANGED <<num_blocks, block_size>>
      BY <2>1, <2>3 DEF Halve
    <3>2. \A p \in 0..num_blocks \div 2 - 1 : Merged(p)' => Merged(p)
      BY <1>1, <2>1 DEF Merged, Halving
    <3>3. \A u \in Tids : tpc'[u] \in Leaving \cup {"done"} => num_blocks <= 1
      BY <1>1, <1>7, <2>1 DEF Leaving
    <3>4. QED
      BY <1>6, <2>1, <3>1, <3>2, <3>3, MergeOrderFrame
  <2>4. QED
    BY <2>2, <2>3
<1>11. ASSUME NEW from \in {"merged", "halved", "last"}, NEW wait \in Waits,
              Arrive(t, from, wait), wait = (CASE from = "merged" -> "merged_wait"
                                               [] from = "halved" -> "halved_wait"
                                               [] from = "last"   -> "last_wait")
       PROVE  MergeOrder'
  <2>1. UNCHANGED <<file, offset, block_size, num_blocks>>
    BY <1>11 DEF Arrive, segment, others, mainVars
  <2>2. /\ tpc[t] = from
        /\ \/ tpc' = [tpc EXCEPT ![t] = wait]
           \/ /\ \A u \in Tids \ {t} : tpc[u] \in Waits
              /\ tpc' = [u \in Tids |-> IF u = t THEN After(wait) ELSE After(tpc[u])]
    BY <1>11, ArriveSteps DEF Waits, TInv, IInv
  <2>3. CASE tpc' = [tpc EXCEPT ![t] = wait]
    <3>1. \A p \in 0..num_blocks \div 2 - 1 : Merged(p)' => Merged(p)
      BY <1>1, <1>11, <2>2, <2>3 DEF Merged, Halving
    <3>2. \A u \in Tids : tpc'[u] \in Leaving \cup {"done"} => num_blocks <= 1
      BY <1>1, <1>7, <1>11, <2>2, <2>3 DEF Leaving
    <3>3. QED
      BY <1>6, <2>1, <3>1, <3>2, MergeOrderFrame
  <2>4. CASE /\ \A u \in Tids \ {t} : tpc[u] \in Waits
             /\ tpc' = [u \in Tids |-> IF u = t THEN After(wait) ELSE After(tpc[u])]
    <3>1. CASE from = "merged"
      <4>1. BeforeWait /\ num_blocks > 1
        BY <1>2, <2>2, <3>1 DEF BeforeWait, AllDone, AllAt, Merging
      <4>2. \A u \in Tids \ {t} : tpc[u] = "merged_wait"
        BY <1>1, <1>4, <2>4, <4>1 DEF BeforeWait, AllAt, Waits, Merging, Leaving
      <4>3. \A p \in 0..num_blocks \div 2 - 1 : Merged(p)
        BY <1>5, <2>2, <3>1, <4>2 DEF Merged
      <4>4. \A u \in Tids : tpc'[u] = "halve"
        BY <1>11, <2>4, <3>1, <4>2, AfterWaits
      <4>5. \A u \in Tids : tpc'[u] \in Leaving \cup {"done"} => num_blocks <= 1
        BY <4>4 DEF Leaving
      <4>6. QED
        BY <1>6, <2>1, <4>3, <4>5, MergeOrderFrame
    <3>2. CASE from = "halved"
      <4>1. \A u \in Tids \ {t} : tpc[u] = "halved_wait"
        BY <1>2, <2>2, <2>4, <3>2 DEF BeforeWait, AllDone, AllAt, Waits, Merging, Leaving
      <4>2. \A u \in Tids : tpc'[u] = "loop"
        BY <1>11, <2>4, <3>2, <4>1, AfterWaits
      <4>3. \A p \in 0..num_blocks \div 2 - 1 : ~Merged(p)'
        BY <1>1, <4>2 DEF Merged, Halving
      <4>4. \A u \in Tids : tpc'[u] \in Leaving \cup {"done"} => num_blocks <= 1
        BY <4>2 DEF Leaving
      <4>5. QED
        BY <2>1, <4>3, <4>4, MergeOrderFrame
    <3>3. CASE from = "last"
      <4>1. num_blocks <= 1
        BY <1>7, <2>2, <3>3 DEF Leaving
      <4>2. \A p \in 0..num_blocks \div 2 - 1 : FALSE
        <5> DEFINE half == num_blocks \div 2
        <5>1. half \in Nat /\ 2 * half <= num_blocks
          BY <1>1
        <5> HIDE DEF half
        <5>2. half = 0
          BY <1>1, <4>1, <5>1
        <5>3. QED
          BY <5>2 DEF half
      <4>3. QED
        BY <2>1, <4>1, <4>2, MergeOrderFrame
    <3>4. QED
      BY <3>1, <3>2, <3>3
  <2>5. QED
    BY <2>2, <2>3, <2>4
<1>12. QED
  BY <1>3, <1>8, <1>9, <1>10, <1>11 DEF merge_blocks_phase, Waits

\* main writes the segment: its one block is sorted, and it is the next one after
\* those that were written.
LEMMA WriteSteps ==
    ASSUME TInv, SInv, Undisturbed, WriteSegment, offset' = offset + SegmentRecords
    PROVE  AtSegment' /\ WrittenOrdered'
<1>1. /\ offset \in Nat /\ SegmentRecords \in Nat \ {0} /\ TotalRecords \in Nat
      /\ block_size \in Nat /\ num_blocks \in Nat /\ 0 \in Tids
  BY SortAssumption DEF TInv, IInv, Types, Tids
<1>2. main_pc = "merge" /\ UNCHANGED file /\ \A t \in Tids : tpc[t] = "done"
  BY DEF WriteSegment, Joined
<1>3. SegmentCut /\ MergeOrder
  BY <1>2 DEF SInv, TInv, Sizes, Working
<1>4. num_blocks = 1
  <2>1. num_blocks <= 1
    BY <1>1, <1>2, <1>3 DEF MergeOrder
  <2>2. num_blocks \in Nat \ {0}
    BY <1>3, Powers DEF SegmentCut
  <2>3. QED
    BY <2>1, <2>2
<1>5. Ordered(file, offset, RecordsInSegment(offset))
  <2>1. BlockOrdered(0)
    BY <1>3, <1>4 DEF MergeOrder
  <2>2. offset + 0 * block_size = offset /\ 1 * block_size = block_size
    BY <1>1
  <2>3. RecordsInSegment(offset) = block_size
    BY <1>3, <1>4, <2>2 DEF SegmentCut
  <2>4. QED
    BY <2>1, <2>2, <2>3 DEF BlockOrdered
<1>6. ASSUME NEW o \in Written'
      PROVE  Ordered(file', o, RecordsInSegment(o))
  <2>1. /\ o \in 0..TotalRecords - 1 /\ o < offset + SegmentRecords /\ o % SegmentRecords = 0
        /\ offset % SegmentRecords = 0 /\ o \in Nat
    BY <1>1 DEF Written, SInv, AtSegment
  <2>2. o < offset \/ o = offset
    <3>1. CASE offset < o
      <4>1. offset + SegmentRecords <= o
        BY <1>1, <2>1, <3>1, Multiples
      <4>2. QED
        BY <1>1, <2>1, <4>1
    <3>2. CASE ~(offset < o)
      BY <1>1, <2>1, <3>2
    <3>3. QED
      BY <3>1, <3>2
  <2>3. CASE o = offset
    BY <1>2, <1>5, <2>3
  <2>4. CASE o < offset
    <3>1. o \in Written
      BY <2>1, <2>4 DEF Written
    <3>2. QED
      BY <1>2, <3>1 DEF SInv, WrittenOrdered
  <2>5. QED
    BY <2>2, <2>3, <2>4
<1>7. AtSegment'
  BY <1>1, NextMultiple DEF SInv, AtSegment
<1>8. WrittenOrdered'
  BY <1>6 DEF WrittenOrdered, RecordsInSegment, Least
<1>9. QED
  BY <1>7, <1>8

LEMMA StaysUndisturbed ==
    ASSUME TInv, [Next]_vars
    PROVE  Undisturbed' => Undisturbed
<1>1. terminate_flag \in BOOLEAN
  BY DEF TInv, IInv, Types
<1>2. UNCHANGED terminate_flag \/ terminate_flag' = TRUE
  BY DEF Next, vars, Thread, sort_blocks, merge_blocks_phase, SortFirst, ReserveBlock, SortOwn,
         StopSorting, Arrive, MergeLoop, MergeOwnPair, MergeFails, CountRound, Exit, others,
         MainStep, Refuse, Finish, StartSort, CreateNext, CreateFails, StartMerge, WriteSegment,
         sigint_handler
<1>3. QED
  BY <1>1, <1>2 DEF Undisturbed

LEMMA SegmentsSteps ==
    ASSUME TInv, SInv, [Next]_vars
    PROVE  AtSegment' /\ (Undisturbed' => WrittenOrdered')
<1>1. FileStep
  BY FileSteps DEF FileStep, vars
<1>2. Undisturbed' => Undisturbed
  BY StaysUndisturbed
<1>3. UNCHANGED offset \/ (WriteSegment /\ offset' = offset + SegmentRecords)
  BY DEF Next, vars, Thread, sort_blocks, merge_blocks_phase, SortFirst, ReserveBlock, SortOwn,
         StopSorting, Arrive, MergeLoop, MergeOwnPair, MergeFails, CountRound, Exit, others,
         MainStep, Refuse, Finish, StartSort, CreateNext, CreateFails, StartMerge, WriteSegment,
         sigint_handler, mainVars
<1>4. CASE UNCHANGED offset
  <2>1. AtSegment'
    BY <1>4 DEF SInv, AtSegment
  <2>2. ASSUME Undisturbed', NEW o \in Written'
        PROVE  Ordered(file', o, RecordsInSegment(o))
    <3>1. o \in Written /\ WrittenOrdered /\ AtSegment
      BY <1>2, <1>4, <2>2 DEF Written, SInv
    <3>2. QED
      BY <1>1, <3>1, WrittenKept
  <2>3. Undisturbed' => WrittenOrdered'
    BY <2>2 DEF WrittenOrdered, RecordsInSegment, Least
  <2>4. QED
    BY <2>1, <2>3
<1>5. CASE WriteSegment /\ offset' = offset + SegmentRecords
  <2>1. CASE Undisturbed'
    BY <1>2, <1>5, <2>1, WriteSteps
  <2>2. AtSegment'
    BY <1>5, NextMultiple, SortAssumption DEF SInv, AtSegment, TInv, IInv, Types
  <2>3. QED
    BY <2>1, <2>2
<1>6. QED
  BY <1>3, <1>4, <1>5

LEMMA OrderSteps ==
    ASSUME TInv, SInv, Next, Undisturbed'
    PROVE  /\ main_pc' = "sort" => SortOrder'
           /\ main_pc' = "merge" => MergeOrder'
<1>1. Undisturbed /\ ~terminate_flag /\ ~terminate_flag'
  BY StaysUndisturbed DEF Undisturbed
<1>2. /\ main_pc = "sort" => SortOrder
      /\ main_pc = "merge" => MergeOrder
  BY <1>1 DEF SInv
<1>3. tpc \in [Tids -> Places] /\ main_pc \in Ended \cup {"map", "sort", "merge"} /\ 0 \in Tids
  BY SortAssumption DEF TInv, IInv, Types, Tids
<1>4. ASSUME NEW t \in Tids, Thread(t)
      PROVE  /\ main_pc' = "sort" => SortOrder'
             /\ main_pc' = "merge" => MergeOrder'
  <2>1. main_pc' \in {main_pc, "failure"}
    BY <1>4 DEF Thread, sort_blocks, merge_blocks_phase, SortFirst, ReserveBlock, SortOwn,
                StopSorting, Arrive, MergeLoop, MergeOwnPair, MergeFails, CountRound, Exit, others,
                mainVars
  <2>2. CASE main_pc = "sort"
    <3>1. SortOrder'
      BY <1>1, <1>2, <1>4, <2>2, SortOrderThread
    <3>2. QED
      BY <2>1, <2>2, <3>1
  <2>3. CASE main_pc = "merge" /\ main_pc' = "merge"
    <3>1. MergeOrder'
      BY <1>1, <1>2, <1>4, <2>3, MergeOrderThread
    <3>2. QED
      BY <2>3, <3>1
  <2>4. CASE main_pc # "sort" /\ ~(main_pc = "merge" /\ main_pc' = "merge")
    BY <2>1, <2>4
  <2>5. QED
    BY <2>2, <2>3, <2>4
<1>5. CASE Refuse \/ Finish \/ CreateFails \/ WriteSegment
  BY <1>5 DEF Refuse, Finish, CreateFails, Exit, WriteSegment
<1>6. CASE StartSort
  <2>1. /\ main_pc' = "sort" /\ tpc' = [t \in Tids |-> "unborn"] /\ next_block' = Threads
    BY <1>6 DEF StartSort, Start, FirstFree
  <2>2. \A t \in Tids : tpc'[t] = "unborn"
    BY <2>1
  <2>3. Threads..next_block' - 1 = {}
    BY <2>1, SortAssumption
  <2>4. SortOrder'
    BY <2>2, <2>3 DEF SortOrder
  <2>5. QED
    BY <2>1, <2>4
<1>7. CASE CreateNext
  <2>1. PICK t \in Tids : tpc[t] = "unborn" /\ tpc' = [tpc EXCEPT ![t] = Enter]
    BY <1>7 DEF CreateNext, NextUnborn
  <2>2. /\ main_pc \in {"sort", "merge"} /\ main_pc' = main_pc
        /\ UNCHANGED <<file, offset, block_size, num_blocks, next_block, block_index>>
    BY <1>7 DEF CreateNext, segment, others, mainVars
  <2>3. CASE main_pc = "sort"
    <3>1. tpc' \in [Tids -> Places]
      BY <1>3, <2>1, <2>3 DEF Enter, Places
    <3>2. \A u \in Tids : /\ tpc'[u] = "own" <=> tpc[u] = "own"
                          /\ tpc'[u] \notin {"unborn", "first"} => tpc[u] \notin {"unborn", "first"}
                          /\ tpc'[u] \in {"sorted", "sort_wait", "done"}
                               => tpc[u] \in {"sorted", "sort_wait", "done"} \/ next_block >= Blocks
      BY <1>3, <2>1, <2>3 DEF Enter
    <3>3. SortOrder'
      BY <1>2, <2>2, <2>3, <3>1, <3>2, SortOrderFrame
    <3>4. QED
      BY <2>2, <2>3, <3>3
  <2>4. CASE main_pc = "merge"
    <3>1. \A p \in 0..num_blocks \div 2 - 1 : Merged(p)' => Merged(p)
      BY <1>3, <2>1, <2>4 DEF Merged, Halving, Enter
    <3>2. \A p \in 0..num_blocks \div 2 - 1 : Merged(p)' => PairOrdered(p)
      BY <1>2, <2>4, <3>1 DEF MergeOrder, Merged
    <3>3. \A u \in Tids : tpc'[u] \in Leaving \cup {"done"} => num_blocks <= 1
      <4>1. \A u \in Tids : tpc'[u] \in Leaving \cup {"done"} => tpc[u] \in Leaving \cup {"done"}
        BY <1>3, <2>1, <2>4 DEF Enter, Leaving
      <4>2. QED
        BY <1>2, <2>4, <4>1 DEF MergeOrder
    <3>4. MergeOrder'
      BY <1>2, <2>2, <2>4, <3>2, <3>3, MergeOrderFrame
    <3>5. QED
      BY <2>2, <2>4, <3>4
  <2>5. QED
    BY <2>2, <2>3, <2>4
<1>8. CASE StartMerge
  <2>1. /\ main_pc = "sort" /\ main_pc' = "merge" /\ tpc' = [t \in Tids |-> "unborn"]
        /\ \A t \in Tids : tpc[t] = "done"
        /\ UNCHANGED <<file, offset, num_blocks, block_size>>
    BY <1>8 DEF StartMerge, Start, Joined, segment
  <2>2. /\ num_blocks = Blocks /\ next_block \in Nat /\ next_block <= Blocks
        /\ Threads \in Nat /\ Blocks \in Nat
    BY <2>1, InSort
  <2>3. SortOrder
    BY <1>2, <2>1
  <2>4. next_block >= Blocks
    BY <1>3, <2>1, <2>3 DEF SortOrder
  <2>5. \A b : BlockOrdered(b) => BlockOrdered(b)'
    BY <2>1 DEF BlockOrdered
  <2> HIDE DEF BlockOrdered
  <2>6. ASSUME NEW b \in 0..num_blocks' - 1
        PROVE  BlockOrdered(b)'
    <3>1. b \in Tids \/ b \in Threads..next_block - 1
      BY <2>1, <2>2, <2>4 DEF Tids
    <3>2. BlockOrdered(b)
      BY <2>1, <2>3, <3>1 DEF SortOrder
    <3>3. QED
      BY <2>5, <3>2
  <2>7. \A u \in Tids : tpc'[u] = "unborn"
    BY <2>1
  <2>8. \A p : ~(tpc'[0] = "halve") /\ ~(p \in Tids /\ tpc'[p] \in {"merged", "merged_wait"})
    BY <1>3, <2>7
  <2>9. \A u \in Tids : tpc'[u] \notin Leaving \cup {"done"}
    BY <2>7 DEF Leaving
  <2>10. MergeOrder'
    BY <2>6, <2>8, <2>9 DEF MergeOrder, Halving
  <2>11. QED
    BY <2>1, <2>10
<1>9. CASE sigint_handler
  BY <1>1, <1>9 DEF sigint_handler
<1>10. QED
  BY <1>4, <1>5, <1>6, <1>7, <1>8, <1>9 DEF Next, MainStep

\* Without a signal, and with a thread for every pair of blocks, what lab06 writes as
\* a sorted segment is one, for any number of threads, blocks and records: the blocks
\* are sorted once the threads have met, and each round makes sorted pairs of them.
THEOREM WrittenHolds == Spec => []WrittenIsSorted
<1>1. Init => SInv
  <2> SUFFICES ASSUME Init PROVE SInv
    OBVIOUS
  <2>1. offset = 0 /\ main_pc = "map"
    BY DEF Init
  <2>2. \A m \in Nat \ {0} : 0 % m = 0
    OBVIOUS
  <2>3. AtSegment
    BY <2>1, <2>2, SortAssumption DEF AtSegment
  <2>4. WrittenOrdered
    BY <2>1, SortAssumption DEF WrittenOrdered, Written
  <2>5. QED
    BY <2>1, <2>3, <2>4 DEF SInv
<1>2. TInv /\ SInv /\ [Next]_vars => SInv'
  <2> SUFFICES ASSUME TInv, SInv, [Next]_vars PROVE SInv'
    OBVIOUS
  <2>1. AtSegment' /\ (Undisturbed' => WrittenOrdered')
    BY SegmentsSteps
  <2>2. CASE Next
    <3>1. Undisturbed' => (main_pc' = "sort" => SortOrder') /\ (main_pc' = "merge" => MergeOrder')
      BY <2>2, OrderSteps
    <3>2. QED
      BY <2>1, <3>1 DEF SInv
  <2>3. CASE UNCHANGED vars
    <3>1. UNCHANGED <<file, offset, main_pc, terminate_flag, next_block, num_blocks, block_size,
                      tpc, block_index>>
      BY <2>3 DEF vars, mainVars, segment, threads
    <3>2. (SortOrder => SortOrder') /\ (MergeOrder => MergeOrder')
      BY <3>1 DEF SortOrder, MergeOrder, BlockOrdered, PairOrdered, Halving
    <3>3. Undisturbed' => Undisturbed
      BY <3>1 DEF Undisturbed
    <3>4. QED
      BY <2>1, <3>1, <3>2, <3>3 DEF SInv
  <2>4. QED
    BY <2>2, <2>3
<1>3. SInv => WrittenIsSorted
  BY DEF SInv, WrittenIsSorted, WrittenOrdered, Undisturbed, Ordered, InOrder
<1>4. QED
  BY <1>1, <1>2, <1>3, TypesInvariant, PTL DEF Spec

===============================================================================
