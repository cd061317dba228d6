--------------------------- MODULE ThreadQueueProofs ---------------------------
(***************************************************************************)
(* What holds of ThreadQueue for any number of threads, messages and cells, *)
(* and whatever the user types: types, the agreement between the queue and   *)
(* its semaphores, what a resize does to the ring, and that a ring that is    *)
(* not resized is a bounded FIFO queue.                                      *)
(***************************************************************************)
EXTENDS ThreadQueue, SharedLemmas

USE DEF Producers, Consumers

\* One thread goes to another place.
Moves(pc, moved, t, to) ==
    IsFiniteSet(DOMAIN pc) /\ t \in DOMAIN pc /\ moved = [pc EXCEPT ![t] = to]

\* It changes the number of threads at a set of places by what it adds or
\* takes away.
LEMMA NumberMove ==
    \A pc, moved, t, to, A :
      Moves(pc, moved, t, to) =>
        /\ Number(pc, A) \in Nat
        /\ Number(moved, A) \in Nat
        /\ pc[t] \in A /\ to \in A => Number(moved, A) = Number(pc, A)
        /\ pc[t] \notin A /\ to \notin A => Number(moved, A) = Number(pc, A)
        /\ pc[t] \notin A /\ to \in A => Number(moved, A) = Number(pc, A) + 1
        /\ pc[t] \in A /\ to \notin A => Number(pc, A) = Number(moved, A) + 1
<1> SUFFICES ASSUME NEW pc, NEW moved, NEW t, NEW to, NEW A, Moves(pc, moved, t, to)
             PROVE  /\ Number(pc, A) \in Nat
                    /\ Number(moved, A) \in Nat
                    /\ pc[t] \in A /\ to \in A => Number(moved, A) = Number(pc, A)
                    /\ pc[t] \notin A /\ to \notin A => Number(moved, A) = Number(pc, A)
                    /\ pc[t] \notin A /\ to \in A => Number(moved, A) = Number(pc, A) + 1
                    /\ pc[t] \in A /\ to \notin A => Number(pc, A) = Number(moved, A) + 1
  OBVIOUS
<1> DEFINE D == DOMAIN pc
           S == {u \in D : pc[u] \in A}
           T == {u \in D : moved[u] \in A}
<1>1. /\ IsFiniteSet(D) /\ t \in D /\ DOMAIN moved = D
      /\ moved[t] = to /\ \A u \in D : u # t => moved[u] = pc[u]
  BY DEF Moves
<1>2. IsFiniteSet(S) /\ IsFiniteSet(T)
  <2>1. S \subseteq D /\ T \subseteq D
    OBVIOUS
  <2>2. QED
    BY <1>1, <2>1, FS_Subset
<1>3. Number(pc, A) = Cardinality(S) /\ Number(moved, A) = Cardinality(T)
  BY <1>1 DEF Number
<1>4. Cardinality(S) \in Nat /\ Cardinality(T) \in Nat
  BY <1>2, FS_CardinalityType
<1>5. CASE pc[t] \in A <=> to \in A
  <2>1. S = T
    BY <1>1, <1>5
  <2>2. QED
    BY <1>3, <1>4, <1>5, <2>1
<1>6. CASE pc[t] \notin A /\ to \in A
  <2>1. T = S \cup {t} /\ t \notin S
    BY <1>1, <1>6
  <2>2. Cardinality(T) = Cardinality(S) + 1
    BY <1>2, <2>1, FS_AddElement
  <2>3. QED
    BY <1>3, <1>4, <1>6, <2>2
<1>7. CASE pc[t] \in A /\ to \notin A
  <2>1. S = T \cup {t} /\ t \notin T
    BY <1>1, <1>7
  <2>2. Cardinality(S) = Cardinality(T) + 1
    BY <1>2, <2>1, FS_AddElement
  <2>3. QED
    BY <1>3, <1>4, <1>7, <2>2
<1>8. QED
  BY <1>5, <1>6, <1>7

-----------------------------------------------------------------------------
(* The inductive invariant.  The types alone are not inductive: that count  *)
(* stays a natural number rests on the tokens, and that the ring stays       *)
(* within its bounds on what main put into new_capacity.                     *)

Resizing == {"resize_enter", "resize_lock", "resize"}

Bookkeeping ==
    /\ main_pc = "join_producer" => prod_count > 0
    /\ main_pc = "join_consumer" => cons_count > 0
    /\ \A p \in Producers : p > prod_count => ppc[p] = "absent"
    /\ \A c \in Consumers : c > cons_count => cpc[c] = "absent"
    /\ main_pc \in Resizing =>
         /\ new_capacity > 0
         /\ new_capacity = capacity + 1 \/ new_capacity = capacity - 1
         /\ "<" \notin Commands => new_capacity = capacity + 1

FreeTokensInv == FreeTokensCover /\ ("<" \notin Commands => FreeTokensMatch)

IInv == TypeOK /\ Bookkeeping /\ FullTokensMatch /\ FreeTokensInv

LEMMA NumbersAreNat ==
    ASSUME TypeOK
    PROVE  /\ Number(ppc, Inserting) \in Nat /\ Number(ppc, Posting) \in Nat
           /\ Number(cpc, Extracting) \in Nat /\ Number(cpc, Posting) \in Nat
<1>1. \A D, pc, A : IsFiniteSet(D) /\ DOMAIN pc = D => Number(pc, A) \in Nat
  <2>1. SUFFICES ASSUME NEW pc, NEW A, IsFiniteSet(DOMAIN pc)
                 PROVE  Number(pc, A) \in Nat
    OBVIOUS
  <2>2. {t \in DOMAIN pc : pc[t] \in A} \subseteq DOMAIN pc
    OBVIOUS
  <2>3. QED
    BY <2>1, <2>2, FS_Subset, FS_CardinalityType DEF Number
<1>2. /\ IsFiniteSet(Producers) /\ DOMAIN ppc = Producers
      /\ IsFiniteSet(Consumers) /\ DOMAIN cpc = Consumers
  BY SizesAssumption, FS_Interval DEF TypeOK, WorkerTypes
<1>3. QED
  BY <1>1, <1>2

-----------------------------------------------------------------------------
(* Producers *)

\* What every step of a producer keeps.
LEMMA ProducerFrame ==
    ASSUME IInv, NEW p \in Producers, NEW from, NEW to \in ProducerPlaces,
           PMove(p, from, to), from # "absent", UNCHANGED capacity
    PROVE  /\ FlagTypes' /\ WorkerTypes' /\ MainTypes' /\ Bookkeeping'
           /\ Moves(ppc, ppc', p, to)
<1>1. FlagTypes'
  BY DEF IInv, PMove, TypeOK, FlagTypes, flags, exit_flags
<1>2. WorkerTypes' /\ MainTypes'
  BY DEF IInv, PMove, TypeOK, WorkerTypes, MainTypes, mainVars, counts
<1>3. Bookkeeping'
  BY DEF IInv, PMove, TypeOK, WorkerTypes, MainTypes, Bookkeeping, Resizing, mainVars, counts
<1>4. Moves(ppc, ppc', p, to)
  BY SizesAssumption, FS_Interval DEF Moves, IInv, PMove, TypeOK, WorkerTypes
<1>5. QED
  BY <1>1, <1>2, <1>3, <1>4

\* Steps of a producer that touch no token and no shared variable.
LEMMA ProducerWalks ==
    ASSUME IInv, NEW p \in Producers, NEW from, NEW to \in ProducerPlaces,
           PWalk(p, from, to), from # "absent",
           from \notin Inserting \cup Posting, to \notin Inserting \cup Posting
    PROVE  IInv'
<1>1. FlagTypes' /\ WorkerTypes' /\ MainTypes' /\ Bookkeeping' /\ Moves(ppc, ppc', p, to)
  BY ProducerFrame DEF PWalk, ring
<1>2. RingTypes' /\ SyncTypes'
  BY DEF IInv, TypeOK, RingTypes, SyncTypes, PWalk, ring, sync
<1>3. /\ Number(ppc', Inserting) = Number(ppc, Inserting)
      /\ Number(ppc', Posting) = Number(ppc, Posting)
  <2>1. /\ ppc[p] \notin Inserting /\ to \notin Inserting
        /\ ppc[p] \notin Posting /\ to \notin Posting
    BY DEF PWalk, PMove
  <2>2. QED
    BY <1>1, <2>1, NumberMove
<1>4. FullTokensMatch' /\ FreeTokensInv'
  BY <1>3 DEF IInv, PWalk, PMove, FullTokensMatch, FreeTokensInv, FreeTokensCover,
              FreeTokensMatch, FullTokens, FreeTokens, ring, sync
<1>5. QED
  BY <1>1, <1>2, <1>4 DEF IInv, TypeOK

LEMMA ProducerAcquires == ASSUME IInv, NEW p \in Producers, ProducerAcquire(p) PROVE IInv'
<1>1. FlagTypes' /\ WorkerTypes' /\ MainTypes' /\ Bookkeeping' /\ Moves(ppc, ppc', p, "lock")
  BY ProducerFrame DEF ProducerAcquire, ring, ProducerPlaces
<1>2. RingTypes' /\ SyncTypes'
  BY DEF IInv, TypeOK, RingTypes, SyncTypes, ProducerAcquire, ring
<1>3. /\ Number(ppc', Inserting) = Number(ppc, Inserting) + 1
      /\ Number(ppc', Posting) = Number(ppc, Posting)
  <2>1. /\ ppc[p] \notin Inserting /\ "lock" \in Inserting
        /\ ppc[p] \notin Posting /\ "lock" \notin Posting
    BY DEF ProducerAcquire, PMove, Inserting, Posting
  <2>2. QED
    BY <1>1, <2>1, NumberMove
<1>4. FullTokensMatch' /\ FreeTokensInv'
  BY <1>3, NumbersAreNat DEF IInv, TypeOK, SyncTypes, RingTypes, ProducerAcquire, PMove,
     FullTokensMatch, FreeTokensInv, FreeTokensCover, FreeTokensMatch, FullTokens, FreeTokens, ring
<1>5. QED
  BY <1>1, <1>2, <1>4 DEF IInv, TypeOK

LEMMA ProducerInserts == ASSUME IInv, NEW p \in Producers, ProducerInsert(p) PROVE IInv'
<1>1. FlagTypes' /\ WorkerTypes' /\ MainTypes' /\ Bookkeeping' /\ Moves(ppc, ppc', p, "post")
  BY ProducerFrame DEF ProducerInsert, ProducerPlaces
<1>2. RingTypes' /\ SyncTypes'
  <2>1. buffer' \in [Cells -> Contents]
    BY DEF IInv, TypeOK, RingTypes, ProducerInsert, Stored, Contents, Messages
  <2>2. tail' \in Cells
    BY SizesAssumption DEF IInv, TypeOK, RingTypes, ProducerInsert, Advance, Cells
  <2>3. RingTypes'
    BY <2>1, <2>2 DEF IInv, TypeOK, RingTypes, ProducerInsert
  <2>4. SyncTypes'
    BY DEF IInv, TypeOK, SyncTypes, ProducerInsert, Owners
  <2>5. QED
    BY <2>3, <2>4
<1>3. /\ Number(ppc, Inserting) = Number(ppc', Inserting) + 1
      /\ Number(ppc', Posting) = Number(ppc, Posting) + 1
      /\ Number(ppc', Inserting) \in Nat
  <2>1. /\ ppc[p] \in Inserting /\ "post" \notin Inserting
        /\ ppc[p] \notin Posting /\ "post" \in Posting
    BY DEF ProducerInsert, PMove, Inserting, Posting
  <2>2. Number(ppc', Inserting) \in Nat
    BY <1>1, NumberMove
  <2>3. QED
    BY <1>1, <2>1, <2>2, NumberMove
<1>4. FullTokensMatch' /\ FreeTokensInv'
  BY <1>3, NumbersAreNat DEF IInv, TypeOK, SyncTypes, RingTypes, ProducerInsert, PMove,
     FullTokensMatch, FreeTokensInv, FreeTokensCover, FreeTokensMatch, FullTokens, FreeTokens
<1>5. QED
  BY <1>1, <1>2, <1>4 DEF IInv, TypeOK

LEMMA ProducerLocks == ASSUME IInv, NEW p \in Producers, ProducerLock(p) PROVE IInv'
<1>1. FlagTypes' /\ WorkerTypes' /\ MainTypes' /\ Bookkeeping' /\ Moves(ppc, ppc', p, "insert")
  BY ProducerFrame DEF ProducerLock, ring, ProducerPlaces
<1>2. RingTypes'
  BY DEF IInv, TypeOK, RingTypes, ProducerLock, ring
<1>3. SyncTypes'
  BY DEF IInv, TypeOK, SyncTypes, ProducerLock, Owners
<1>4. /\ Number(ppc', Inserting) = Number(ppc, Inserting)
      /\ Number(ppc', Posting) = Number(ppc, Posting)
  <2>1. /\ ppc[p] \in Inserting /\ "insert" \in Inserting
        /\ ppc[p] \notin Posting /\ "insert" \notin Posting
    BY DEF ProducerLock, PMove, Inserting, Posting
  <2>2. QED
    BY <1>1, <2>1, NumberMove
<1>5. FullTokensMatch' /\ FreeTokensInv'
  BY <1>4 DEF IInv, ProducerLock, PMove, FullTokensMatch, FreeTokensInv, FreeTokensCover,
              FreeTokensMatch, FullTokens, FreeTokens, ring
<1>6. QED
  BY <1>1, <1>2, <1>3, <1>5 DEF IInv, TypeOK

LEMMA ProducerPosts == ASSUME IInv, NEW p \in Producers, ProducerPost(p) PROVE IInv'
<1>1. FlagTypes' /\ WorkerTypes' /\ MainTypes' /\ Bookkeeping' /\ Moves(ppc, ppc', p, "top")
  BY ProducerFrame DEF ProducerPost, ring, ProducerPlaces
<1>2. RingTypes' /\ SyncTypes'
  BY DEF IInv, TypeOK, RingTypes, SyncTypes, ProducerPost, PostFull, ring
<1>3. /\ Number(ppc', Inserting) = Number(ppc, Inserting)
      /\ Number(ppc, Posting) = Number(ppc', Posting) + 1
      /\ Number(ppc', Posting) \in Nat
  <2>1. /\ ppc[p] \notin Inserting /\ "top" \notin Inserting
        /\ ppc[p] \in Posting /\ "top" \notin Posting
    BY DEF ProducerPost, PMove, Inserting, Posting
  <2>2. Number(ppc', Posting) \in Nat
    BY <1>1, NumberMove
  <2>3. Number(ppc, Posting) = Number(ppc', Posting) + 1
    BY <1>1, <2>1, NumberMove
  <2>4. Number(ppc', Inserting) = Number(ppc, Inserting)
    BY <1>1, <2>1, NumberMove
  <2>5. QED
    BY <2>2, <2>3, <2>4
<1>4. FullTokensMatch' /\ FreeTokensInv'
  <2>1. UNCHANGED <<count, capacity, sem_free, cpc>> /\ sem_full' = sem_full + 1
    BY DEF ProducerPost, PostFull, PMove, ring
  <2>2. FullTokensMatch'
    BY <1>3, <2>1, NumbersAreNat DEF IInv, TypeOK, SyncTypes, FullTokensMatch, FullTokens
  <2>3. FreeTokensInv'
    BY <1>3, <2>1 DEF IInv, FreeTokensInv, FreeTokensCover, FreeTokensMatch, FreeTokens
  <2>4. QED
    BY <2>2, <2>3
<1>5. QED
  BY <1>1, <1>2, <1>4 DEF IInv, TypeOK

LEMMA ProducerSteps == ASSUME IInv, NEW p \in Producers, producer_thread(p) PROVE IInv'
<1> USE DEF ProducerPlaces, Inserting, Posting
<1>1. CASE ProducerStop(p)
  BY <1>1, ProducerWalks DEF ProducerStop
<1>2. CASE ProducerGenerate(p)
  BY <1>2, ProducerWalks DEF ProducerGenerate
<1>3. CASE ProducerUnpaused(p)
  BY <1>3, ProducerWalks DEF ProducerUnpaused
<1>4. CASE ProducerGate(p)
  BY <1>4, ProducerWalks DEF ProducerGate
<1>5. CASE ProducerAcquire(p)
  BY <1>5, ProducerAcquires
<1>6. CASE ProducerTimeout(p)
  BY <1>6, ProducerWalks DEF ProducerTimeout
<1>7. CASE ProducerTimedOut(p)
  BY <1>7, ProducerWalks DEF ProducerTimedOut
<1>8. CASE ProducerLock(p)
  BY <1>8, ProducerLocks
<1>9. CASE ProducerInsert(p)
  BY <1>9, ProducerInserts
<1>10. CASE ProducerPost(p)
  BY <1>10, ProducerPosts
<1>11. QED
  BY <1>1, <1>2, <1>3, <1>4, <1>5, <1>6, <1>7, <1>8, <1>9, <1>10 DEF producer_thread

-----------------------------------------------------------------------------
(* Consumers *)

\* What every step of a consumer keeps.
LEMMA ConsumerFrame ==
    ASSUME IInv, NEW c \in Consumers, NEW from, NEW to \in ConsumerPlaces,
           CMove(c, from, to), from # "absent", UNCHANGED capacity,
           message' \in [Consumers -> Contents]
    PROVE  /\ FlagTypes' /\ WorkerTypes' /\ MainTypes' /\ Bookkeeping'
           /\ Moves(cpc, cpc', c, to)
<1>1. FlagTypes'
  BY DEF IInv, CMove, TypeOK, FlagTypes, flags, exit_flags
<1>2. WorkerTypes' /\ MainTypes'
  BY DEF IInv, CMove, TypeOK, WorkerTypes, MainTypes, mainVars, counts
<1>3. Bookkeeping'
  BY DEF IInv, CMove, TypeOK, WorkerTypes, MainTypes, Bookkeeping, Resizing, mainVars, counts
<1>4. Moves(cpc, cpc', c, to)
  BY SizesAssumption, FS_Interval DEF Moves, IInv, CMove, TypeOK, WorkerTypes
<1>5. QED
  BY <1>1, <1>2, <1>3, <1>4

\* Steps of a consumer that touch no token and no shared variable.
LEMMA ConsumerWalks ==
    ASSUME IInv, NEW c \in Consumers, NEW from, NEW to \in ConsumerPlaces,
           CWalk(c, from, to), from # "absent",
           from \notin Extracting \cup Posting, to \notin Extracting \cup Posting
    PROVE  IInv'
<1>1. message' \in [Consumers -> Contents]
  BY DEF IInv, TypeOK, WorkerTypes, CWalk
<1>2. FlagTypes' /\ WorkerTypes' /\ MainTypes' /\ Bookkeeping' /\ Moves(cpc, cpc', c, to)
  BY <1>1, ConsumerFrame DEF CWalk, ring
<1>3. RingTypes' /\ SyncTypes'
  BY DEF IInv, TypeOK, RingTypes, SyncTypes, CWalk, ring, sync
<1>4. /\ Number(cpc', Extracting) = Number(cpc, Extracting)
      /\ Number(cpc', Posting) = Number(cpc, Posting)
  <2>1. /\ cpc[c] \notin Extracting /\ to \notin Extracting
        /\ cpc[c] \notin Posting /\ to \notin Posting
    BY DEF CWalk, CMove
  <2>2. QED
    BY <1>2, <2>1, NumberMove
<1>5. FullTokensMatch' /\ FreeTokensInv'
  BY <1>4 DEF IInv, CWalk, CMove, FullTokensMatch, FreeTokensInv, FreeTokensCover,
              FreeTokensMatch, FullTokens, FreeTokens, ring, sync
<1>6. QED
  BY <1>2, <1>3, <1>5 DEF IInv, TypeOK

LEMMA ConsumerAcquires == ASSUME IInv, NEW c \in Consumers, ConsumerAcquire(c) PROVE IInv'
<1>1. message' \in [Consumers -> Contents]
  BY DEF IInv, TypeOK, WorkerTypes, ConsumerAcquire
<1>2. FlagTypes' /\ WorkerTypes' /\ MainTypes' /\ Bookkeeping' /\ Moves(cpc, cpc', c, "lock")
  BY <1>1, ConsumerFrame DEF ConsumerAcquire, ring, ConsumerPlaces
<1>3. RingTypes' /\ SyncTypes'
  BY DEF IInv, TypeOK, RingTypes, SyncTypes, ConsumerAcquire, TokenReady, ring
<1>4. /\ Number(cpc', Extracting) = Number(cpc, Extracting) + 1
      /\ Number(cpc', Posting) = Number(cpc, Posting)
  <2>1. /\ cpc[c] \notin Extracting /\ "lock" \in Extracting
        /\ cpc[c] \notin Posting /\ "lock" \notin Posting
    BY DEF ConsumerAcquire, CMove, Extracting, Posting
  <2>2. QED
    BY <1>2, <2>1, NumberMove
<1>5. FullTokensMatch' /\ FreeTokensInv'
  BY <1>4, NumbersAreNat DEF IInv, TypeOK, SyncTypes, RingTypes, ConsumerAcquire, CMove,
     FullTokensMatch, FreeTokensInv, FreeTokensCover, FreeTokensMatch, FullTokens, FreeTokens, ring
<1>6. QED
  BY <1>2, <1>3, <1>5 DEF IInv, TypeOK

LEMMA ConsumerLocks == ASSUME IInv, NEW c \in Consumers, ConsumerLock(c) PROVE IInv'
<1>1. message' \in [Consumers -> Contents]
  BY DEF IInv, TypeOK, WorkerTypes, ConsumerLock
<1>2. FlagTypes' /\ WorkerTypes' /\ MainTypes' /\ Bookkeeping' /\ Moves(cpc, cpc', c, "extract")
  BY <1>1, ConsumerFrame DEF ConsumerLock, ring, ConsumerPlaces
<1>3. RingTypes'
  BY DEF IInv, TypeOK, RingTypes, ConsumerLock, ring
<1>4. SyncTypes'
  BY DEF IInv, TypeOK, SyncTypes, ConsumerLock, Owners
<1>5. /\ Number(cpc', Extracting) = Number(cpc, Extracting)
      /\ Number(cpc', Posting) = Number(cpc, Posting)
  <2>1. /\ cpc[c] \in Extracting /\ "extract" \in Extracting
        /\ cpc[c] \notin Posting /\ "extract" \notin Posting
    BY DEF ConsumerLock, CMove, Extracting, Posting
  <2>2. QED
    BY <1>2, <2>1, NumberMove
<1>6. FullTokensMatch' /\ FreeTokensInv'
  BY <1>5 DEF IInv, ConsumerLock, CMove, FullTokensMatch, FreeTokensInv, FreeTokensCover,
              FreeTokensMatch, FullTokens, FreeTokens, ring
<1>7. QED
  BY <1>2, <1>3, <1>4, <1>6 DEF IInv, TypeOK

\* The token the consumer holds is what keeps count above zero.
LEMMA ConsumerExtracts == ASSUME IInv, NEW c \in Consumers, ConsumerExtract(c) PROVE IInv'
<1>1. message' \in [Consumers -> Contents]
  BY DEF IInv, TypeOK, WorkerTypes, RingTypes, ConsumerExtract, Loaded, Contents
<1>2. FlagTypes' /\ WorkerTypes' /\ MainTypes' /\ Bookkeeping' /\ Moves(cpc, cpc', c, "post")
  BY <1>1, ConsumerFrame DEF ConsumerExtract, ConsumerPlaces
<1>3. /\ cpc[c] \in Extracting /\ "post" \notin Extracting
      /\ cpc[c] \notin Posting /\ "post" \in Posting
  BY DEF ConsumerExtract, CMove, Extracting, Posting
<1>4. Number(cpc, Extracting) = Number(cpc', Extracting) + 1
  BY <1>2, <1>3, NumberMove
<1>5. Number(cpc', Posting) = Number(cpc, Posting) + 1
  BY <1>2, <1>3, NumberMove
<1>6. Number(cpc', Extracting) \in Nat
  BY <1>2, NumberMove
<1>7. count \in Nat /\ count > 0
  BY <1>4, <1>6, NumbersAreNat DEF IInv, TypeOK, RingTypes, SyncTypes, FullTokensMatch, FullTokens
<1>8. head' \in Cells
  BY SizesAssumption DEF IInv, TypeOK, RingTypes, ConsumerExtract, Advance, Cells
<1>9. RingTypes'
  BY <1>7, <1>8 DEF IInv, TypeOK, RingTypes, ConsumerExtract
<1>10. SyncTypes'
  BY DEF IInv, TypeOK, SyncTypes, ConsumerExtract, Owners
<1>11. FullTokensMatch'
  BY <1>4, <1>6, <1>7, NumbersAreNat
     DEF IInv, TypeOK, SyncTypes, ConsumerExtract, CMove, FullTokensMatch, FullTokens
<1>12. FreeTokensInv'
  BY <1>5, <1>7, NumbersAreNat
     DEF IInv, TypeOK, RingTypes, SyncTypes, ConsumerExtract, CMove, FreeTokensInv,
         FreeTokensCover, FreeTokensMatch, FreeTokens
<1>13. QED
  BY <1>2, <1>9, <1>10, <1>11, <1>12 DEF IInv, TypeOK

LEMMA ConsumerPosts == ASSUME IInv, NEW c \in Consumers, ConsumerPost(c) PROVE IInv'
<1>1. message' \in [Consumers -> Contents]
  BY DEF IInv, TypeOK, WorkerTypes, ConsumerPost
<1>2. FlagTypes' /\ WorkerTypes' /\ MainTypes' /\ Bookkeeping' /\ Moves(cpc, cpc', c, "top")
  BY <1>1, ConsumerFrame DEF ConsumerPost, ring, ConsumerPlaces
<1>3. RingTypes' /\ SyncTypes'
  BY DEF IInv, TypeOK, RingTypes, SyncTypes, ConsumerPost, ring
<1>4. /\ cpc[c] \notin Extracting /\ "top" \notin Extracting
      /\ cpc[c] \in Posting /\ "top" \notin Posting
  BY DEF ConsumerPost, CMove, Extracting, Posting
<1>5. Number(cpc', Extracting) = Number(cpc, Extracting)
  BY <1>2, <1>4, NumberMove
<1>6. Number(cpc, Posting) = Number(cpc', Posting) + 1
  BY <1>2, <1>4, NumberMove
<1>7. Number(cpc', Posting) \in Nat
  BY <1>2, NumberMove
<1>8. UNCHANGED <<count, capacity, sem_full, ppc>> /\ sem_free' = sem_free + 1
  BY DEF ConsumerPost, CMove, ring
<1>9. FullTokensMatch'
  BY <1>5, <1>8 DEF IInv, FullTokensMatch, FullTokens
<1>10. FreeTokensInv'
  BY <1>6, <1>7, <1>8, NumbersAreNat
     DEF IInv, TypeOK, RingTypes, SyncTypes, FreeTokensInv, FreeTokensCover, FreeTokensMatch, FreeTokens
<1>11. QED
  BY <1>2, <1>3, <1>9, <1>10 DEF IInv, TypeOK

LEMMA ConsumerSteps == ASSUME IInv, NEW c \in Consumers, consumer_thread(c) PROVE IInv'
<1> USE DEF ConsumerPlaces, Extracting, Posting
<1>1. CASE ConsumerTop(c)
  BY <1>1, ConsumerWalks DEF ConsumerTop
<1>2. CASE ConsumerGate(c)
  BY <1>2, ConsumerWalks DEF ConsumerGate
<1>3. CASE ConsumerAcquire(c)
  BY <1>3, ConsumerAcquires
<1>4. CASE ConsumerTimeout(c)
  BY <1>4, ConsumerWalks DEF ConsumerTimeout
<1>5. CASE ConsumerTimedOut(c)
  BY <1>5, ConsumerWalks DEF ConsumerTimedOut
<1>6. CASE ConsumerLock(c)
  BY <1>6, ConsumerLocks
<1>7. CASE ConsumerExtract(c)
  BY <1>7, ConsumerExtracts
<1>8. CASE ConsumerPost(c)
  BY <1>8, ConsumerPosts
<1>9. QED
  BY <1>1, <1>2, <1>3, <1>4, <1>5, <1>6, <1>7, <1>8 DEF consumer_thread

-----------------------------------------------------------------------------
(* Main *)

\* Steps of main that leave the ring, the semaphores and the workers alone.
LEMMA QuietSteps ==
    ASSUME IInv, FlagTypes', MainTypes', SyncTypes', Bookkeeping',
           UNCHANGED <<ring, sem_free, sem_full, workers>>
    PROVE  IInv'
<1>1. RingTypes'
  BY DEF IInv, TypeOK, RingTypes, ring
<1>2. WorkerTypes'
  BY DEF IInv, TypeOK, WorkerTypes, workers
<1>3. FullTokensMatch' /\ FreeTokensInv'
  BY DEF IInv, FullTokensMatch, FreeTokensInv, FreeTokensCover, FreeTokensMatch,
         FullTokens, FreeTokens, ring, workers
<1>4. QED
  BY <1>1, <1>2, <1>3 DEF IInv, TypeOK

\* A thread that comes or goes holds no token.
LEMMA ProducerComesOrGoes == ASSUME IInv, AddProducer \/ JoinProducer PROVE IInv'
<1>1. PICK p \in Producers, to \in {"top", "absent"} :
        ppc' = [ppc EXCEPT ![p] = to] /\ ppc[p] \in {"absent", "done"}
  <2>1. CASE AddProducer
    <3>1. prod_count' \in Producers /\ prod_count' > prod_count
      BY <2>1, SizesAssumption DEF AddProducer, IInv, TypeOK, MainTypes
    <3>2. ppc[prod_count'] = "absent"
      BY <2>1, <3>1 DEF IInv, Bookkeeping
    <3>3. ppc' = [ppc EXCEPT ![prod_count'] = "top"]
      BY <2>1 DEF AddProducer
    <3>4. QED
      BY <3>1, <3>2, <3>3
  <2>2. CASE JoinProducer
    <3>1. prod_count \in Producers
      BY <2>2, SizesAssumption DEF JoinProducer, Main, IInv, TypeOK, MainTypes, Bookkeeping
    <3>2. ppc[prod_count] = "done" /\ ppc' = [ppc EXCEPT ![prod_count] = "absent"]
      BY <2>2 DEF JoinProducer
    <3>3. QED
      BY <3>1, <3>2
  <2>3. QED
    BY <2>1, <2>2
<1>2. FlagTypes'
  BY DEF AddProducer, JoinProducer, IInv, TypeOK, FlagTypes, flags, exit_flags
<1>3. RingTypes' /\ SyncTypes'
  BY DEF AddProducer, JoinProducer, IInv, TypeOK, RingTypes, SyncTypes, ring, sync
<1>4. WorkerTypes'
  BY <1>1 DEF AddProducer, JoinProducer, IInv, TypeOK, WorkerTypes, ProducerPlaces
<1>5. MainTypes' /\ Bookkeeping'
  <2>1. CASE AddProducer
    BY <2>1, SizesAssumption DEF AddProducer, Command, Main, IInv, TypeOK, MainTypes, MainPlaces,
                                 WorkerTypes, Bookkeeping, Resizing
  <2>2. CASE JoinProducer
    BY <2>2, SizesAssumption DEF JoinProducer, Main, IInv, TypeOK, MainTypes, MainPlaces,
                                 WorkerTypes, Bookkeeping, Resizing
  <2>3. QED
    BY <2>1, <2>2
<1>6. Moves(ppc, ppc', p, to)
  BY <1>1, SizesAssumption, FS_Interval DEF Moves, IInv, TypeOK, WorkerTypes
<1>7. /\ ppc[p] \notin Inserting /\ to \notin Inserting
      /\ ppc[p] \notin Posting /\ to \notin Posting
  BY <1>1 DEF Inserting, Posting
<1>8. Number(ppc', Inserting) = Number(ppc, Inserting)
  BY <1>6, <1>7, NumberMove
<1>9. Number(ppc', Posting) = Number(ppc, Posting)
  BY <1>6, <1>7, NumberMove
<1>10. FullTokensMatch' /\ FreeTokensInv'
  BY <1>8, <1>9 DEF AddProducer, JoinProducer, IInv, FullTokensMatch, FreeTokensInv,
     FreeTokensCover, FreeTokensMatch, FullTokens, FreeTokens, ring, sync
<1>11. QED
  BY <1>2, <1>3, <1>4, <1>5, <1>10 DEF IInv, TypeOK

LEMMA ConsumerComesOrGoes == ASSUME IInv, AddConsumer \/ JoinConsumer PROVE IInv'
<1>1. PICK c \in Consumers, to \in {"top", "absent"} :
        cpc' = [cpc EXCEPT ![c] = to] /\ cpc[c] \in {"absent", "done"}
  <2>1. CASE AddConsumer
    <3>1. cons_count' \in Consumers /\ cons_count' > cons_count
      BY <2>1, SizesAssumption DEF AddConsumer, IInv, TypeOK, MainTypes
    <3>2. cpc[cons_count'] = "absent"
      BY <2>1, <3>1 DEF IInv, Bookkeeping
    <3>3. cpc' = [cpc EXCEPT ![cons_count'] = "top"]
      BY <2>1 DEF AddConsumer
    <3>4. QED
      BY <3>1, <3>2, <3>3
  <2>2. CASE JoinConsumer
    <3>1. cons_count \in Consumers
      BY <2>2, SizesAssumption DEF JoinConsumer, Main, IInv, TypeOK, MainTypes, Bookkeeping
    <3>2. cpc[cons_count] = "done" /\ cpc' = [cpc EXCEPT ![cons_count] = "absent"]
      BY <2>2 DEF JoinConsumer
    <3>3. QED
      BY <3>1, <3>2
  <2>3. QED
    BY <2>1, <2>2
<1>2. FlagTypes'
  BY DEF AddConsumer, JoinConsumer, IInv, TypeOK, FlagTypes, flags, exit_flags
<1>3. RingTypes' /\ SyncTypes'
  BY DEF AddConsumer, JoinConsumer, IInv, TypeOK, RingTypes, SyncTypes, ring, sync
<1>4. WorkerTypes'
  BY <1>1 DEF AddConsumer, JoinConsumer, IInv, TypeOK, WorkerTypes, ConsumerPlaces
<1>5. MainTypes' /\ Bookkeeping'
  <2>1. CASE AddConsumer
    BY <2>1, SizesAssumption DEF AddConsumer, Command, Main, IInv, TypeOK, MainTypes, MainPlaces,
                                 WorkerTypes, Bookkeeping, Resizing
  <2>2. CASE JoinConsumer
    BY <2>2, SizesAssumption DEF JoinConsumer, Main, IInv, TypeOK, MainTypes, MainPlaces,
                                 WorkerTypes, Bookkeeping, Resizing
  <2>3. QED
    BY <2>1, <2>2
<1>6. Moves(cpc, cpc', c, to)
  BY <1>1, SizesAssumption, FS_Interval DEF Moves, IInv, TypeOK, WorkerTypes
<1>7. /\ cpc[c] \notin Extracting /\ to \notin Extracting
      /\ cpc[c] \notin Posting /\ to \notin Posting
  BY <1>1 DEF Extracting, Posting
<1>8. Number(cpc', Extracting) = Number(cpc, Extracting)
  BY <1>6, <1>7, NumberMove
<1>9. Number(cpc', Posting) = Number(cpc, Posting)
  BY <1>6, <1>7, NumberMove
<1>10. FullTokensMatch' /\ FreeTokensInv'
  BY <1>8, <1>9 DEF AddConsumer, JoinConsumer, IInv, FullTokensMatch, FreeTokensInv,
     FreeTokensCover, FreeTokensMatch, FullTokens, FreeTokens, ring, sync
<1>11. QED
  BY <1>2, <1>3, <1>4, <1>5, <1>10 DEF IInv, TypeOK

LEMMA CommandSteps ==
    ASSUME IInv, RemoveProducer \/ RemoveConsumer \/ Grow \/ Shrink \/ Quit
    PROVE  IInv'
<1> USE DEF Command, Main
<1>1. SyncTypes'
  BY DEF RemoveProducer, RemoveConsumer, Grow, Shrink, Quit, IInv, TypeOK, SyncTypes, sync
<1>2. UNCHANGED <<ring, sem_free, sem_full, workers>>
  BY DEF RemoveProducer, RemoveConsumer, Grow, Shrink, Quit, sync
<1>3. FlagTypes'
  BY DEF RemoveProducer, RemoveConsumer, Grow, Shrink, Quit, IInv, TypeOK, FlagTypes, flags, exit_flags
<1>4. MainTypes'
  BY SizesAssumption
     DEF RemoveProducer, RemoveConsumer, Grow, Shrink, Quit, IInv, TypeOK, MainTypes, MainPlaces,
         RingTypes, counts, ring
<1>5. Bookkeeping'
  BY <1>2, SizesAssumption
     DEF RemoveProducer, RemoveConsumer, Grow, Shrink, Quit, IInv, TypeOK, MainTypes, RingTypes,
         Bookkeeping, Resizing, counts, ring, workers
<1>6. QED
  BY <1>1, <1>2, <1>3, <1>4, <1>5, QuietSteps

LEMMA OtherQuietSteps ==
    ASSUME IInv, sigint_handler \/ ResizeEnter \/ ResizeLock \/ Resume \/ JoinAll
                 \/ deadlock_monitor \/ Exited
    PROVE  IInv'
<1> USE DEF Main
<1>1. SyncTypes'
  BY DEF sigint_handler, ResizeEnter, ResizeLock, Resume, JoinAll, deadlock_monitor, Exited, vars,
         IInv, TypeOK, SyncTypes, Owners, sync
<1>2. UNCHANGED <<ring, sem_free, sem_full, workers>>
  BY DEF sigint_handler, ResizeEnter, ResizeLock, Resume, JoinAll, deadlock_monitor, Exited, vars, sync
<1>3. FlagTypes'
  BY DEF sigint_handler, ResizeEnter, ResizeLock, Resume, JoinAll, deadlock_monitor, Exited, vars,
         IInv, TypeOK, FlagTypes, flags, exit_flags
<1>4. MainTypes'
  BY DEF sigint_handler, ResizeEnter, ResizeLock, Resume, JoinAll, deadlock_monitor, Exited, vars,
         IInv, TypeOK, MainTypes, MainPlaces, mainVars, counts
<1>5. Bookkeeping'
  BY <1>2 DEF sigint_handler, ResizeEnter, ResizeLock, Resume, JoinAll, deadlock_monitor, Exited, vars,
         IInv, TypeOK, MainTypes, Bookkeeping, Resizing, mainVars, counts, ring, workers
<1>6. QED
  BY <1>1, <1>2, <1>3, <1>4, <1>5, QuietSteps

\* Giving the locks back, refused or resized.
LEMMA ReturnFrame ==
    ASSUME IInv, ResizeReturn, new_capacity > 0
    PROVE  /\ FlagTypes' /\ WorkerTypes' /\ MainTypes'
           /\ mutex' \in Owners /\ resize_mutex' = NoOne
           /\ main_pc' \in {"resume", "command"}
           /\ UNCHANGED <<ppc, cpc, count, added_count, removed_count, sem_full,
                          prod_count, cons_count>>
<1>1. FlagTypes'
  BY DEF ResizeReturn, IInv, TypeOK, FlagTypes, flags, exit_flags
<1>2. WorkerTypes' /\ MainTypes'
  BY DEF ResizeReturn, Main, IInv, TypeOK, WorkerTypes, MainTypes, MainPlaces, workers, counts
<1>3. QED
  BY <1>1, <1>2 DEF ResizeReturn, UnlockBoth, Main, Owners, workers, counts

LEMMA RefusedStep == ASSUME IInv, ResizeRefused PROVE IInv'
<1>1. new_capacity > 0
  BY DEF ResizeRefused, ResizeReturn, Main, IInv, Bookkeeping, Resizing
<1>2. /\ FlagTypes' /\ WorkerTypes' /\ MainTypes'
      /\ mutex' \in Owners /\ resize_mutex' = NoOne
      /\ main_pc' \in {"resume", "command"}
      /\ UNCHANGED <<ppc, cpc, count, added_count, removed_count, sem_full,
                     prod_count, cons_count>>
  BY <1>1, ReturnFrame DEF ResizeRefused
<1>3. RingTypes' /\ SyncTypes'
  BY <1>2 DEF ResizeRefused, IInv, TypeOK, RingTypes, SyncTypes
<1>4. Bookkeeping'
  BY <1>2 DEF IInv, Bookkeeping, Resizing
<1>5. FullTokensMatch' /\ FreeTokensInv'
  BY <1>2 DEF ResizeRefused, IInv, FullTokensMatch, FreeTokensInv, FreeTokensCover,
              FreeTokensMatch, FullTokens, FreeTokens
<1>6. QED
  BY <1>2, <1>3, <1>4, <1>5 DEF IInv, TypeOK

\* A resize by one adds or takes one free token; taking may fail, adding not.
LEMMA ResizedStep == ASSUME IInv, Resized PROVE IInv'
<1>1. /\ new_capacity \in 1..MaxCapacity
      /\ new_capacity = capacity + 1 \/ new_capacity = capacity - 1
      /\ "<" \notin Commands => new_capacity = capacity + 1
  BY DEF Resized, ResizeReturn, Main, IInv, TypeOK, MainTypes, Bookkeeping, Resizing
<1>2. /\ FlagTypes' /\ WorkerTypes' /\ MainTypes'
      /\ mutex' \in Owners /\ resize_mutex' = NoOne
      /\ main_pc' \in {"resume", "command"}
      /\ UNCHANGED <<ppc, cpc, count, added_count, removed_count, sem_full,
                     prod_count, cons_count>>
  BY <1>1, ReturnFrame DEF Resized
<1>3. \A kept \in BOOLEAN : Reallocated(kept) \in [Cells -> Contents]
  BY SizesAssumption DEF Reallocated, IInv, TypeOK, RingTypes, Contents, Cells
<1>4. \A cells \in [Cells -> Contents] : Straightened(cells) \in [Cells -> Contents]
  <2>1. SUFFICES ASSUME NEW cells \in [Cells -> Contents], NEW i \in Cells, i < count
                 PROVE  (head + i) % capacity \in Cells
    BY DEF Straightened
  <2>2. QED
    BY SizesAssumption DEF IInv, TypeOK, RingTypes, Cells
<1>5. buffer' \in [Cells -> Contents]
  BY <1>3, <1>4 DEF Resized
<1>6. head' \in Cells /\ tail' \in Cells
  <2>1. 0 \in Cells /\ count \in Cells
    BY <1>1, SizesAssumption DEF Resized, IInv, TypeOK, RingTypes, Cells
  <2>2. QED
    BY <2>1 DEF Resized, RestartIndexes, IInv, TypeOK, RingTypes
<1>7. capacity' = new_capacity /\ count \in Nat /\ sem_free \in Nat
  BY DEF Resized, IInv, TypeOK, RingTypes, SyncTypes
<1>8. sem_free' \in Nat
  BY <1>1, <1>7 DEF Resized, CorrectFree, AfterTrywait, IInv, TypeOK, RingTypes
<1>9. RingTypes' /\ SyncTypes'
  BY <1>1, <1>2, <1>5, <1>6, <1>7, <1>8 DEF IInv, TypeOK, RingTypes, SyncTypes
<1>10. Bookkeeping'
  BY <1>2 DEF IInv, Bookkeeping, Resizing
<1>11. FullTokensMatch'
  BY <1>2 DEF IInv, FullTokensMatch, FullTokens
<1>12. /\ new_capacity = capacity + 1 => sem_free' = sem_free + 1
       /\ new_capacity = capacity - 1 => sem_free' >= sem_free - 1
  BY <1>1, <1>7 DEF Resized, CorrectFree, AfterTrywait, IInv, TypeOK, RingTypes
<1>13. FreeTokensInv'
  <2>1. UNCHANGED <<ppc, cpc, count>>
    BY <1>2
  <2>2. FreeTokensCover'
    BY <1>1, <1>7, <1>8, <1>12, <2>1, NumbersAreNat
       DEF IInv, TypeOK, RingTypes, FreeTokensInv, FreeTokensCover, FreeTokens
  <2>3. ASSUME "<" \notin Commands PROVE FreeTokensMatch'
    BY <1>1, <1>7, <1>8, <1>12, <2>1, <2>3, NumbersAreNat
       DEF IInv, TypeOK, RingTypes, FreeTokensInv, FreeTokensMatch, FreeTokens
  <2>4. QED
    BY <2>2, <2>3 DEF FreeTokensInv
<1>14. QED
  BY <1>2, <1>9, <1>10, <1>11, <1>13 DEF IInv, TypeOK

-----------------------------------------------------------------------------
(* The theorems *)

LEMMA NumberOfNone ==
    ASSUME NEW D, NEW places, "absent" \notin places
    PROVE  Number([t \in D |-> "absent"], places) = 0
<1>1. {t \in D : [u \in D |-> "absent"][t] \in places} = {}
  OBVIOUS
<1>2. QED
  BY <1>1, FS_EmptySet DEF Number

LEMMA InitHolds == Init => IInv
<1> SUFFICES ASSUME Init PROVE IInv
  OBVIOUS
<1>1. TypeOK
  <2>1. FlagTypes /\ WorkerTypes
    BY DEF Init, FlagTypes, WorkerTypes, ProducerPlaces, ConsumerPlaces, Contents
  <2>2. RingTypes
    BY SizesAssumption DEF Init, RingTypes, Contents, Cells
  <2>3. SyncTypes /\ MainTypes
    BY SizesAssumption DEF Init, SyncTypes, MainTypes, Owners, MainPlaces
  <2>4. QED
    BY <2>1, <2>2, <2>3 DEF TypeOK
<1>2. Bookkeeping
  BY DEF Init, Bookkeeping, Resizing
<1>3. /\ Number(ppc, Inserting) = 0 /\ Number(ppc, Posting) = 0
      /\ Number(cpc, Extracting) = 0 /\ Number(cpc, Posting) = 0
  BY NumberOfNone DEF Init, Inserting, Extracting, Posting
<1>4. FullTokensMatch /\ FreeTokensInv
  BY <1>3, SizesAssumption DEF Init, FullTokensMatch, FreeTokensInv, FreeTokensCover,
     FreeTokensMatch, FullTokens, FreeTokens
<1>5. QED
  BY <1>1, <1>2, <1>4 DEF IInv

LEMMA StepKeeps == IInv /\ [Next]_vars => IInv'
<1> SUFFICES ASSUME IInv, [Next]_vars PROVE IInv'
  OBVIOUS
<1>1. ASSUME NEW p \in Producers, producer_thread(p) PROVE IInv'
  BY <1>1, ProducerSteps
<1>2. ASSUME NEW c \in Consumers, consumer_thread(c) PROVE IInv'
  BY <1>2, ConsumerSteps
<1>3. CASE UserCommand
  BY <1>3, ProducerComesOrGoes, ConsumerComesOrGoes, CommandSteps DEF UserCommand
<1>4. CASE MainWork
  BY <1>4, ProducerComesOrGoes, ConsumerComesOrGoes, OtherQuietSteps, RefusedStep, ResizedStep
     DEF MainWork, resize_thread_queue
<1>5. CASE sigint_handler \/ deadlock_monitor \/ Exited
  BY <1>5, OtherQuietSteps
<1>6. CASE UNCHANGED vars
  BY <1>6 DEF vars, IInv, TypeOK, FlagTypes, RingTypes, SyncTypes, WorkerTypes, MainTypes,
     Bookkeeping, FullTokensMatch, FreeTokensInv, FreeTokensCover, FreeTokensMatch, FullTokens,
     FreeTokens, flags, exit_flags, ring, sync, workers, mainVars, counts
<1>7. QED
  BY <1>1, <1>2, <1>3, <1>4, <1>5, <1>6 DEF Next

LEMMA Invariance == Spec => []IInv
BY InitHolds, StepKeeps, PTL DEF Spec

\* Every variable keeps its type: in particular count never goes below zero
\* and no index leaves the cells (thread_queue.c, producer.c, consumer.c).
THEOREM TypesHold == Spec => []TypeOK
<1>1. IInv => TypeOK
  BY DEF IInv
<1>2. QED
  BY <1>1, Invariance, PTL

\* sem_full and the threads between their two halves always account for
\* exactly the messages in the queue, whatever commands are given.
THEOREM FullTokensHold == Spec => []FullTokensMatch
<1>1. IInv => FullTokensMatch
  BY DEF IInv
<1>2. QED
  BY <1>1, Invariance, PTL

\* No free slot is ever lost to the semaphores, whatever commands are given.
THEOREM FreeTokensHold == Spec => []FreeTokensCover
<1>1. IInv => FreeTokensCover
  BY DEF IInv, FreeTokensInv
<1>2. QED
  BY <1>1, Invariance, PTL

\* While the ring is never shrunk the free slots are matched exactly.
THEOREM FreeTokensExact == ASSUME "<" \notin Commands PROVE Spec => []FreeTokensMatch
<1>1. IInv => FreeTokensMatch
  BY DEF IInv, FreeTokensInv
<1>2. QED
  BY <1>1, Invariance, PTL

\* While the ring is never shrunk it never holds more messages than cells.
THEOREM NeverOverfull == ASSUME "<" \notin Commands PROVE Spec => [](count <= capacity)
<1>1. IInv => count <= capacity
  BY NumbersAreNat DEF IInv, FreeTokensInv, FreeTokensMatch, FreeTokens, TypeOK, RingTypes, SyncTypes
<1>2. QED
  BY <1>1, Invariance, PTL

-----------------------------------------------------------------------------
(* Resizes *)

LEMMA ViewIsRing ==
    /\ View = Ring(buffer, head, count, capacity)
    /\ View' = Ring(buffer', head', count', capacity')
BY DEF View, Ring

LEMMA RingIsFilled ==
    ASSUME RingTypes
    PROVE  /\ capacity \in Nat \ {0} /\ count \in Nat /\ head \in Nat
           /\ Filled(buffer, capacity, Contents)
           /\ Len(View) = count
<1>1. capacity \in Nat \ {0} /\ count \in Nat /\ head \in Nat /\ 0..capacity - 1 \subseteq Cells
  BY SizesAssumption DEF RingTypes, Cells
<1>2. Filled(buffer, capacity, Contents)
  BY <1>1 DEF RingTypes, Filled
<1>3. Len(View) = count
  BY <1>1 DEF View
<1>4. QED
  BY <1>1, <1>2, <1>3

\* capacity is assigned in resize_thread_queue alone.
LEMMA OnlyResizedResizes ==
    ASSUME [Next]_vars, capacity' # capacity
    PROVE  Resized
<1>1. CASE \E p \in Producers : producer_thread(p)
  BY <1>1 DEF producer_thread, ProducerStop, ProducerGenerate, ProducerUnpaused, ProducerGate,
              ProducerAcquire, ProducerTimeout, ProducerTimedOut, ProducerLock, ProducerInsert,
              ProducerPost, PWalk, ring
<1>2. CASE \E c \in Consumers : consumer_thread(c)
  BY <1>2 DEF consumer_thread, ConsumerTop, ConsumerGate, ConsumerAcquire, ConsumerTimeout,
              ConsumerTimedOut, ConsumerLock, ConsumerExtract, ConsumerPost, CWalk, ring
<1>3. CASE UserCommand \/ sigint_handler \/ deadlock_monitor \/ Exited \/ UNCHANGED vars
  BY <1>3 DEF UserCommand, AddProducer, AddConsumer, RemoveProducer, RemoveConsumer, Grow, Shrink,
              Quit, sigint_handler, deadlock_monitor, Exited, vars, ring
<1>4. CASE MainWork
  BY <1>4 DEF MainWork, JoinProducer, JoinConsumer, resize_thread_queue, ResizeEnter, ResizeLock,
              ResizeRefused, Resume, JoinAll, ring
<1>5. QED
  BY <1>1, <1>2, <1>3, <1>4 DEF Next

LEMMA ResizedFacts ==
    ASSUME IInv, Resized, RingOK
    PROVE  /\ capacity' = new_capacity /\ new_capacity \in Nat \ {0}
           /\ new_capacity <= MaxCapacity /\ capacity \in Nat \ {0} /\ capacity <= MaxCapacity
           /\ count' = count /\ count \in Nat /\ count <= new_capacity /\ count <= capacity
           /\ head \in 0..capacity - 1
           /\ tail = (head + count) % capacity
<1>1. /\ main_pc = "resize" /\ count <= new_capacity /\ capacity' = new_capacity /\ count' = count
  BY DEF Resized, ResizeReturn, Main
<1>2. new_capacity \in 1..MaxCapacity
  BY <1>1 DEF IInv, TypeOK, MainTypes, Bookkeeping, Resizing
<1>3. capacity \in 1..MaxCapacity /\ head \in Nat /\ count \in Nat
  BY SizesAssumption DEF IInv, TypeOK, RingTypes, Cells
<1>4. head \in 0..capacity - 1 /\ count <= capacity /\ tail = (head + count) % capacity
  BY <1>3 DEF RingOK
<1>5. QED
  BY <1>1, <1>2, <1>3, <1>4, SizesAssumption

\* The copy to the front keeps what realloc kept.
LEMMA StraightenedView ==
    ASSUME IInv, Resized, RingOK, NEW kept \in BOOLEAN,
           buffer' = Straightened(Reallocated(kept)), head' = 0,
           capacity' < capacity => head + count <= capacity'
    PROVE  View' = View
<1>1. /\ capacity' = new_capacity /\ new_capacity \in Nat \ {0}
      /\ new_capacity <= MaxCapacity /\ capacity \in Nat \ {0} /\ capacity <= MaxCapacity
      /\ count' = count /\ count \in Nat /\ count <= new_capacity /\ count <= capacity
      /\ head \in 0..capacity - 1
  BY ResizedFacts
<1>2. ASSUME NEW i \in 0..count - 1
      PROVE  buffer'[i] = buffer[(head + i) % capacity]
  <2>1. i \in Cells /\ i < count
    BY <1>1, SizesAssumption DEF Cells
  <2>2. buffer'[i] = Reallocated(kept)[(head + i) % capacity]
    BY <2>1 DEF Straightened
  <2>3. (head + i) % capacity \in 0..capacity - 1
    <3>1. head + i \in Int
      BY <1>1
    <3>2. QED
      BY <1>1, <3>1, ModInRing
  <2>4. (head + i) % capacity \in Cells
    BY <1>1, <2>3, SizesAssumption DEF Cells
  <2>5. (head + i) % capacity < new_capacity
    <3>1. CASE capacity <= new_capacity
      BY <1>1, <2>3, <3>1
    <3>2. CASE new_capacity < capacity
      <4>1. head + i \in 0..capacity - 1 /\ head + i < new_capacity
        BY <1>1, <3>2
      <4>2. (head + i) % capacity = head + i
        BY <1>1, <4>1, ModSmall
      <4>3. QED
        BY <4>1, <4>2
    <3>3. QED
      BY <1>1, <3>1, <3>2
  <2>6. QED
    BY <1>1, <2>2, <2>3, <2>4, <2>5 DEF Reallocated
<1>3. Ring(buffer', 0, count, capacity') = Ring(buffer, head, count, capacity)
  <2>1. count \in 0..capacity' /\ head \in Nat /\ capacity' \in Nat \ {0}
    BY <1>1
  <2>2. Copies(buffer, buffer', head, count, capacity)
    BY <1>2 DEF Copies
  <2>3. QED
    BY <1>1, <2>1, <2>2, RingCopied
<1>4. QED
  BY <1>1, <1>3, ViewIsRing

\* A ring that begins in cell 0, or is empty, needs no copy.
LEMMA ReallocatedView ==
    ASSUME IInv, Resized, RingOK, NEW kept \in BOOLEAN,
           buffer' = Reallocated(kept), head' = head, count > 0 => head = 0
    PROVE  View' = View
<1>1. /\ capacity' = new_capacity /\ new_capacity \in Nat \ {0}
      /\ new_capacity <= MaxCapacity /\ capacity \in Nat \ {0} /\ capacity <= MaxCapacity
      /\ count' = count /\ count \in Nat /\ count <= new_capacity /\ count <= capacity
  BY ResizedFacts
<1>2. CASE count = 0
  BY <1>1, <1>2 DEF View
<1>3. CASE count > 0
  <2>1. head = 0 /\ head' = 0
    BY <1>3
  <2>2. ASSUME NEW i \in 0..count - 1
        PROVE  buffer'[i] = buffer[(0 + i) % capacity]
    <3>1. i \in Cells /\ i < new_capacity /\ i < capacity /\ i \in 0..capacity - 1 /\ 0 + i = i
      BY <1>1, SizesAssumption DEF Cells
    <3>2. i % capacity = i
      BY <1>1, <3>1, ModSmall
    <3>3. buffer'[i] = buffer[i]
      BY <3>1 DEF Reallocated
    <3>4. QED
      BY <3>1, <3>2, <3>3
  <2>3. Ring(buffer', 0, count, capacity') = Ring(buffer, 0, count, capacity)
    <3>1. count \in 0..capacity' /\ 0 \in Nat /\ capacity' \in Nat \ {0}
      BY <1>1
    <3>2. Copies(buffer, buffer', 0, count, capacity)
      BY <2>2 DEF Copies
    <3>3. QED
      BY <1>1, <3>1, <3>2, RingCopied
  <2>4. QED
    BY <1>1, <2>1, <2>3, ViewIsRing
<1>4. QED
  BY <1>1, <1>2, <1>3

LEMMA ResizedKeepsView ==
    ASSUME IInv, Resized, RingOK, count > 0 => head' = 0,
           capacity' < capacity => head + count <= capacity'
    PROVE  View' = View
<1>1. PICK kept \in BOOLEAN :
        \/ buffer' = Straightened(Reallocated(kept)) /\ RestartIndexes
        \/ buffer' = Reallocated(kept) /\ UNCHANGED <<head, tail>>
  BY DEF Resized
<1>2. CASE buffer' = Straightened(Reallocated(kept)) /\ RestartIndexes
  BY <1>2, StraightenedView DEF RestartIndexes
<1>3. CASE buffer' = Reallocated(kept) /\ UNCHANGED <<head, tail>>
  BY <1>3, ReallocatedView
<1>4. QED
  BY <1>1, <1>2, <1>3

LEMMA GrownRing ==
    ASSUME IInv, Resized, RingOK, capacity' > capacity, count > 0 => head' = 0,
           ~(count = capacity /\ head = 0)
    PROVE  RingOK'
<1>1. /\ capacity' = new_capacity /\ new_capacity \in Nat \ {0} /\ capacity \in Nat \ {0}
      /\ count' = count /\ count \in Nat /\ count <= capacity
      /\ head \in 0..capacity - 1 /\ tail = (head + count) % capacity
  BY ResizedFacts
<1>2. \/ head' = 0 /\ tail' = count
      \/ head' = head /\ tail' = tail
  BY DEF Resized, RestartIndexes
<1>3. count % capacity' = count /\ head % capacity' = head
  <2>1. count \in 0..capacity' - 1 /\ head \in 0..capacity' - 1 /\ capacity' \in Nat \ {0}
    BY <1>1
  <2>2. QED
    BY <2>1, ModSmall
<1>4. CASE head' = 0 /\ tail' = count
  <2>1. 0 + count = count
    BY <1>1
  <2>2. QED
    BY <1>1, <1>3, <1>4, <2>1 DEF RingOK
<1>5. CASE head' = head /\ tail' = tail /\ count = 0
  <2>1. head + count = head /\ head % capacity = head
    BY <1>1, <1>5, ModSmall
  <2>2. QED
    BY <1>1, <1>3, <1>5, <2>1 DEF RingOK
<1>6. CASE head' = head /\ tail' = tail /\ count # 0
  <2>1. head = 0 /\ count \in 0..capacity - 1 /\ 0 + count = count
    BY <1>1, <1>6
  <2>2. count % capacity = count
    BY <1>1, <2>1, ModSmall
  <2>3. QED
    BY <1>1, <1>3, <1>6, <2>1, <2>2 DEF RingOK
<1>7. QED
  BY <1>2, <1>4, <1>5, <1>6

\* resize_thread_queue (thread_queue.c:47-77) moves no message, wherever the
\* ring begins and whatever realloc leaves behind the old or the new end.
THEOREM ResizesHold == Spec => ResizeKeepsMessages
<1> DEFINE Moved == /\ capacity' # capacity /\ RingOK
                    /\ count > 0 => head' = 0
                    /\ capacity' < capacity => head + count <= capacity'
<1>1. IInv /\ [Next]_vars => [Moved => View' = View]_vars
  <2>1. SUFFICES ASSUME IInv, [Next]_vars, Moved
                 PROVE  View' = View
    OBVIOUS
  <2>2. QED
    BY <2>1, OnlyResizedResizes, ResizedKeepsView
<1>2. QED
  BY <1>1, Invariance, PTL DEF Spec, ResizeKeepsMessages

\* After '>' the indexes are sound again (thread_queue.c:55-77), unless the
\* ring was full with its first message in cell 0.
THEOREM GrowsHold == Spec => GrowKeepsTail
<1> DEFINE Grown == /\ capacity' > capacity /\ RingOK
                    /\ count > 0 => head' = 0
                    /\ ~(count = capacity /\ head = 0)
<1>1. IInv /\ [Next]_vars => [Grown => RingOK']_vars
  <2>1. SUFFICES ASSUME IInv, [Next]_vars, Grown
                 PROVE  RingOK'
    OBVIOUS
  <2>2. capacity' # capacity
    BY <2>1 DEF IInv, TypeOK, RingTypes
  <2>3. QED
    BY <2>1, <2>2, OnlyResizedResizes, GrownRing
<1>2. QED
  BY <1>1, Invariance, PTL DEF Spec, GrowKeepsTail

-----------------------------------------------------------------------------
(* The refinement, for a ring that is never resized *)

NeverResized == ">" \notin Commands /\ "<" \notin Commands

SInv == IInv /\ main_pc \notin Resizing /\ RingOK

\* A producer about to insert holds a token, so there is room.
LEMMA InserterHasRoom ==
    ASSUME NeverResized, SInv, NEW p \in Producers, ProducerInsert(p)
    PROVE  count < capacity
<1>1. Moves(ppc, ppc', p, "post")
  BY SizesAssumption, FS_Interval DEF Moves, SInv, IInv, TypeOK, WorkerTypes, ProducerInsert, PMove
<1>2. Number(ppc, Inserting) = Number(ppc', Inserting) + 1 /\ Number(ppc', Inserting) \in Nat
  <2>1. ppc[p] \in Inserting /\ "post" \notin Inserting
    BY DEF ProducerInsert, PMove, Inserting
  <2>2. Number(ppc', Inserting) \in Nat
    BY <1>1, NumberMove
  <2>3. QED
    BY <1>1, <2>1, <2>2, NumberMove
<1>3. capacity = count + FreeTokens
  BY DEF NeverResized, SInv, IInv, FreeTokensInv, FreeTokensMatch
<1>4. QED
  BY <1>2, <1>3, NumbersAreNat DEF FreeTokens, SInv, IInv, TypeOK, RingTypes, SyncTypes

\* A consumer about to extract holds a token, so there is a message.
LEMMA ExtractorHasMessage ==
    ASSUME SInv, NEW c \in Consumers, ConsumerExtract(c)
    PROVE  count > 0
<1>1. Moves(cpc, cpc', c, "post")
  BY SizesAssumption, FS_Interval DEF Moves, SInv, IInv, TypeOK, WorkerTypes, ConsumerExtract, CMove
<1>2. Number(cpc, Extracting) = Number(cpc', Extracting) + 1 /\ Number(cpc', Extracting) \in Nat
  <2>1. cpc[c] \in Extracting /\ "post" \notin Extracting
    BY DEF ConsumerExtract, CMove, Extracting
  <2>2. Number(cpc', Extracting) \in Nat
    BY <1>1, NumberMove
  <2>3. QED
    BY <1>1, <2>1, <2>2, NumberMove
<1>3. count = FullTokens
  BY DEF SInv, IInv, FullTokensMatch
<1>4. QED
  BY <1>2, <1>3, NumbersAreNat DEF FullTokens, SInv, IInv, TypeOK, SyncTypes

\* Where the ring of a sound state begins and ends.
LEMMA SoundRing ==
    ASSUME SInv
    PROVE  /\ capacity \in Nat \ {0} /\ count \in 0..capacity /\ head \in 0..capacity - 1
           /\ tail = (head + count) % capacity /\ tail \in 0..capacity - 1
           /\ 0..capacity - 1 \subseteq Cells
           /\ Filled(buffer, capacity, Contents) /\ Len(View) = count
<1>1. /\ capacity \in Nat \ {0} /\ count \in Nat /\ head \in Nat
      /\ Filled(buffer, capacity, Contents) /\ Len(View) = count
  BY RingIsFilled DEF SInv, IInv, TypeOK
<1>2. count \in 0..capacity /\ head \in 0..capacity - 1 /\ tail = (head + count) % capacity
  BY <1>1 DEF SInv, RingOK
<1>3. tail \in 0..capacity - 1
  <2>1. head + count \in Int
    BY <1>1
  <2>2. QED
    BY <1>1, <1>2, <2>1, ModInRing
<1>4. 0..capacity - 1 \subseteq Cells
  BY SizesAssumption DEF SInv, IInv, TypeOK, RingTypes, Cells
<1>5. QED
  BY <1>1, <1>2, <1>3, <1>4

LEMMA InsertIsPut ==
    ASSUME NeverResized, SInv, NEW p \in Producers, ProducerInsert(p)
    PROVE  RingOK' /\ Queue!Put
<1>1. /\ capacity \in Nat \ {0} /\ count \in 0..capacity /\ head \in 0..capacity - 1
      /\ tail = (head + count) % capacity /\ tail \in 0..capacity - 1
      /\ 0..capacity - 1 \subseteq Cells
      /\ Filled(buffer, capacity, Contents) /\ Len(View) = count
  BY SoundRing
<1>2. count < capacity /\ count \in 0..capacity - 1
  BY <1>1, InserterHasRoom
<1>3. /\ added_count' = added_count + 1 /\ count' = count + 1 /\ tail' = (tail + 1) % capacity
      /\ UNCHANGED <<capacity, head, message>>
  BY DEF ProducerInsert, Advance, PMove
<1>4. buffer' = [buffer EXCEPT ![tail] = added_count']
  <2>1. Stored(tail, added_count') = {added_count'}
    BY <1>1 DEF Stored
  <2>2. QED
    BY <2>1 DEF ProducerInsert
<1>5. StoredAt(buffer, buffer', (head + count) % capacity, added_count', capacity)
  BY <1>1, <1>4 DEF SInv, IInv, TypeOK, RingTypes, StoredAt
<1>6. added_count' \in Contents
  BY <1>3 DEF SInv, IInv, TypeOK, RingTypes, Contents, Messages
<1>7. Ring(buffer', head, count + 1, capacity)
        = Append(Ring(buffer, head, count, capacity), added_count')
  <2> DEFINE m  == added_count'
             b2 == buffer'
  <2>1. m \in Contents /\ StoredAt(buffer, b2, (head + count) % capacity, m, capacity)
    BY <1>5, <1>6
  <2> HIDE DEF m, b2
  <2>2. Ring(b2, head, count + 1, capacity) = Append(Ring(buffer, head, count, capacity), m)
    BY <1>1, <1>2, <2>1, RingAppend
  <2>3. QED
    BY <2>2 DEF m, b2
<1>8. View' = Append(View, added_count')
  BY <1>3, <1>7, ViewIsRing
<1>9. RingOK'
  <2>1. (((head + count) % capacity) + 1) % capacity = (head + count + 1) % capacity
    BY <1>1, <1>2, NextCell
  <2>2. head + count + 1 = head + (count + 1)
    BY <1>1
  <2>3. QED
    BY <1>1, <1>2, <1>3, <2>1, <2>2 DEF RingOK
<1>10. QED
  BY <1>1, <1>2, <1>3, <1>8, <1>9 DEF Queue!Put

LEMMA ExtractIsTake ==
    ASSUME SInv, NEW c \in Consumers, ConsumerExtract(c)
    PROVE  RingOK' /\ Queue!Take(c)
<1>1. /\ capacity \in Nat \ {0} /\ count \in 0..capacity /\ head \in 0..capacity - 1
      /\ tail = (head + count) % capacity
      /\ Filled(buffer, capacity, Contents)
  BY SoundRing
<1>2. count \in 1..capacity
  BY <1>1, ExtractorHasMessage
<1>3. /\ head' = (head + 1) % capacity /\ count' = count - 1
      /\ UNCHANGED <<buffer, capacity, tail, added_count>>
  BY DEF ConsumerExtract, Advance
<1>4. message' = [message EXCEPT ![c] = buffer[head]]
  <2>1. Loaded(head) = {buffer[head]}
    BY <1>1 DEF Loaded
  <2>2. QED
    BY <2>1 DEF ConsumerExtract
<1>5. /\ Ring(buffer, head, count, capacity) # <<>>
      /\ Head(Ring(buffer, head, count, capacity)) = buffer[head]
      /\ Tail(Ring(buffer, head, count, capacity))
           = Ring(buffer, (head + 1) % capacity, count - 1, capacity)
  BY <1>1, <1>2, RingTail
<1>6. View # <<>> /\ Head(View) = buffer[head] /\ View' = Tail(View)
  BY <1>3, <1>5, ViewIsRing
<1>7. RingOK'
  <2>1. count - 1 \in 0..capacity - 1
    BY <1>1, <1>2
  <2>2. (((head + 1) % capacity) + (count - 1)) % capacity = (head + (count - 1) + 1) % capacity
    BY <1>1, <2>1, NextCell
  <2>3. head + (count - 1) + 1 = head + count
    BY <1>1
  <2>4. (head + 1) % capacity \in 0..capacity - 1
    <3>1. head + 1 \in Int
      BY <1>1
    <3>2. QED
      BY <1>1, <3>1, ModInRing
  <2>5. QED
    BY <1>1, <1>2, <1>3, <2>2, <2>3, <2>4 DEF RingOK
<1>8. QED
  BY <1>3, <1>4, <1>6, <1>7 DEF Queue!Take

\* All other steps leave the queue alone.
LEMMA OthersStutter ==
    ASSUME [Next]_vars, ~Resized,
           \A p \in Producers : ~ProducerInsert(p), \A c \in Consumers : ~ConsumerExtract(c)
    PROVE  UNCHANGED <<buffer, capacity, head, tail, count, added_count, message>>
<1>1. CASE \E p \in Producers : producer_thread(p)
  BY <1>1 DEF producer_thread, ProducerStop, ProducerGenerate, ProducerUnpaused, ProducerGate,
              ProducerAcquire, ProducerTimeout, ProducerTimedOut, ProducerLock,
              ProducerPost, PMove, PWalk, ring
<1>2. CASE \E c \in Consumers : consumer_thread(c)
  BY <1>2 DEF consumer_thread, ConsumerTop, ConsumerGate, ConsumerAcquire, ConsumerTimeout,
              ConsumerTimedOut, ConsumerLock, ConsumerPost, CWalk, ring
<1>3. CASE UserCommand \/ sigint_handler \/ deadlock_monitor \/ Exited \/ UNCHANGED vars
  BY <1>3 DEF UserCommand, AddProducer, AddConsumer, RemoveProducer, RemoveConsumer, Grow, Shrink,
              Quit, sigint_handler, deadlock_monitor, Exited, vars, ring, workers
<1>4. CASE MainWork
  BY <1>4 DEF MainWork, JoinProducer, JoinConsumer, resize_thread_queue, ResizeEnter, ResizeLock,
              ResizeRefused, ResizeReturn, Resume, JoinAll, ring, workers
<1>5. QED
  BY <1>1, <1>2, <1>3, <1>4 DEF Next

\* Without '>' and '<' main never gets to resize_thread_queue.
LEMMA MainNeverResizes ==
    ASSUME NeverResized, SInv, [Next]_vars
    PROVE  ~Resized /\ main_pc' \notin Resizing
<1> USE DEF Resizing
<1>1. ~Resized
  BY DEF Resized, ResizeReturn, Main, SInv
<1>2. CASE \E p \in Producers : producer_thread(p)
  BY <1>1, <1>2 DEF SInv, producer_thread, ProducerStop, ProducerGenerate, ProducerUnpaused, ProducerGate,
              ProducerAcquire, ProducerTimeout, ProducerTimedOut, ProducerLock, ProducerInsert,
              ProducerPost, PMove, PWalk, mainVars
<1>3. CASE \E c \in Consumers : consumer_thread(c)
  BY <1>1, <1>3 DEF SInv, consumer_thread, ConsumerTop, ConsumerGate, ConsumerAcquire, ConsumerTimeout,
              ConsumerTimedOut, ConsumerLock, ConsumerExtract, ConsumerPost, CMove, CWalk, mainVars
<1>4. CASE UserCommand \/ sigint_handler \/ deadlock_monitor \/ Exited \/ UNCHANGED vars
  BY <1>1, <1>4 DEF SInv, NeverResized, UserCommand, AddProducer, AddConsumer, RemoveProducer,
              RemoveConsumer, Grow, Shrink, Quit, Command, Main, sigint_handler, deadlock_monitor,
              Exited, vars, mainVars
<1>5. CASE MainWork
  BY <1>1, <1>5 DEF SInv, MainWork, JoinProducer, JoinConsumer, resize_thread_queue, ResizeEnter,
              ResizeLock, ResizeRefused, Resized, ResizeReturn, Resume, JoinAll, Main
<1>6. QED
  BY <1>1, <1>2, <1>3, <1>4, <1>5 DEF Next

LEMMA SoundStep ==
    ASSUME NeverResized, SInv, [Next]_vars
    PROVE  SInv' /\ [Queue!Next]_(Queue!vars)
<1>1. IInv' /\ ~Resized /\ main_pc' \notin Resizing
  BY StepKeeps, MainNeverResizes DEF SInv
<1>2. CASE \E p \in Producers : ProducerInsert(p)
  <2>1. RingOK' /\ Queue!Put
    BY <1>2, InsertIsPut
  <2>2. QED
    BY <1>1, <2>1 DEF SInv, Queue!Next
<1>3. CASE \E c \in Consumers : ConsumerExtract(c)
  <2>1. RingOK' /\ \E c \in Consumers : Queue!Take(c)
    BY <1>3, ExtractIsTake
  <2>2. QED
    BY <1>1, <2>1 DEF SInv, Queue!Next
<1>4. CASE /\ \A p \in Producers : ~ProducerInsert(p)
           /\ \A c \in Consumers : ~ConsumerExtract(c)
  <2>1. UNCHANGED <<buffer, capacity, head, tail, count, added_count, message>>
    BY <1>1, <1>4, OthersStutter
  <2>2. View' = View
    BY <2>1, ViewIsRing
  <2>3. RingOK'
    BY <2>1 DEF SInv, RingOK
  <2>4. QED
    BY <1>1, <2>1, <2>2, <2>3 DEF SInv, Queue!vars
<1>5. QED
  BY <1>2, <1>3, <1>4

LEMMA SoundInit == Init => SInv /\ Queue!Init
<1> SUFFICES ASSUME Init PROVE SInv /\ Queue!Init
  OBVIOUS
<1>1. IInv
  BY InitHolds
<1>2. main_pc \notin Resizing
  BY DEF Init, Resizing
<1>3. RingOK
  <2>1. 0 % capacity = 0
    BY SizesAssumption, ModSmall DEF Init
  <2>2. QED
    BY <2>1, SizesAssumption DEF Init, RingOK
<1>4. View = <<>>
  BY DEF Init, View
<1>5. Queue!Init
  BY <1>4 DEF Init, Queue!Init
<1>6. QED
  BY <1>1, <1>2, <1>3, <1>5 DEF SInv

\* While nobody resizes it, the ring with its mutex and its two semaphores
\* (producer.c:66-83, consumer.c:31-46) implements the bounded FIFO queue, for
\* any number of threads that come, go and are told to stop.
THEOREM RefinementHolds == ASSUME NeverResized PROVE Spec => RefinesQueue
<1>1. Init => SInv /\ Queue!Init
  BY SoundInit
<1>2. SInv /\ [Next]_vars => SInv' /\ [Queue!Next]_(Queue!vars)
  BY SoundStep
<1>3. QED
  BY <1>1, <1>2, PTL DEF Spec, RefinesQueue, Queue!Spec
===============================================================================
