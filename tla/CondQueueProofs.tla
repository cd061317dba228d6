---------------------------- MODULE CondQueueProofs ----------------------------
(***************************************************************************)
(* What holds of CondQueue for any number of threads, messages and cells,   *)
(* and whatever the users type: types, that no wakeup is lost, that a       *)
(* resize moves no message, and that the ring is a bounded FIFO queue.       *)
(***************************************************************************)
EXTENDS CondQueue, SharedLemmas

-----------------------------------------------------------------------------
(* Threads that wait and threads on their way.  pc is the program counter of *)
(* one kind of worker, D their numbers, n how much there is to do for them.  *)

Counter(pc, D) == IsFiniteSet(D) /\ pc \in [D -> WorkerPlaces]

\* A thread waits only if for all there is to do a thread is on its way.
Room(pc, n) == At(pc, "wait") # {} => n <= Cardinality(At(pc, "lock"))

\* One thread goes to another place.
Moves(pc, moved, t, to) == t \in DOMAIN pc /\ moved = [pc EXCEPT ![t] = to]

LEMMA AtFinite ==
    \A pc, D, place : Counter(pc, D) =>
      IsFiniteSet(At(pc, place)) /\ Cardinality(At(pc, place)) \in Nat
<1> SUFFICES ASSUME NEW pc, NEW D, NEW place, Counter(pc, D)
             PROVE  IsFiniteSet(At(pc, place)) /\ Cardinality(At(pc, place)) \in Nat
  OBVIOUS
<1>1. At(pc, place) \subseteq D /\ IsFiniteSet(D)
  BY DEF At, Counter
<1>2. QED
  BY <1>1, FS_Subset, FS_CardinalityType

\* A thread that neither leaves the way to the queue nor begins to wait.
LEMMA RoomKept ==
    \A pc, moved, D, t, to, n :
      Counter(pc, D) /\ Moves(pc, moved, t, to) /\ pc[t] # "lock" /\ to # "wait"
        /\ n \in Int /\ Room(pc, n) => Room(moved, n)
<1> SUFFICES ASSUME NEW pc, NEW moved, NEW D, NEW t, NEW to, NEW n \in Int,
                    Counter(pc, D), Moves(pc, moved, t, to), pc[t] # "lock", to # "wait",
                    Room(pc, n)
             PROVE  Room(moved, n)
  OBVIOUS
<1>1. DOMAIN moved = DOMAIN pc /\ moved[t] = to /\ \A u \in DOMAIN pc : u # t => moved[u] = pc[u]
  BY DEF Moves
<1>2. IsFiniteSet(At(pc, "lock")) /\ Cardinality(At(pc, "lock")) \in Nat
  BY AtFinite
<1>3. At(moved, "wait") \subseteq At(pc, "wait")
  BY <1>1 DEF At
<1>4. At(moved, "lock") = At(pc, "lock") \/ At(moved, "lock") = At(pc, "lock") \cup {t}
  BY <1>1 DEF At, Moves
<1>5. /\ Cardinality(At(moved, "lock")) \in Nat
      /\ Cardinality(At(pc, "lock")) <= Cardinality(At(moved, "lock"))
  BY <1>2, <1>4, FS_AddElement
<1>6. QED
  BY <1>2, <1>3, <1>5 DEF Room

\* A thread that leaves the way to the queue, having done one piece of work.
LEMMA RoomUsed ==
    \A pc, moved, D, t, to, n :
      Counter(pc, D) /\ Moves(pc, moved, t, to) /\ pc[t] = "lock" /\ to \notin {"lock", "wait"}
        /\ n \in Int /\ Room(pc, n) => Room(moved, n - 1)
<1> SUFFICES ASSUME NEW pc, NEW moved, NEW D, NEW t, NEW to, NEW n \in Int,
                    Counter(pc, D), Moves(pc, moved, t, to), pc[t] = "lock",
                    to \notin {"lock", "wait"}, Room(pc, n)
             PROVE  Room(moved, n - 1)
  OBVIOUS
<1>1. DOMAIN moved = DOMAIN pc /\ moved[t] = to /\ \A u \in DOMAIN pc : u # t => moved[u] = pc[u]
  BY DEF Moves
<1>2. IsFiniteSet(At(pc, "lock")) /\ Cardinality(At(pc, "lock")) \in Nat
  BY AtFinite
<1>3. At(moved, "wait") = At(pc, "wait")
  BY <1>1 DEF At
<1>4. At(moved, "lock") = At(pc, "lock") \ {t} /\ t \in At(pc, "lock")
  BY <1>1 DEF At, Moves
<1>5. Cardinality(At(moved, "lock")) = Cardinality(At(pc, "lock")) - 1
  BY <1>2, <1>4, FS_RemoveElement
<1>6. QED
  BY <1>2, <1>3, <1>5 DEF Room

\* Where there is nothing to do anyone may wait.
LEMMA RoomForNothing ==
    \A pc, D : Counter(pc, D) => Room(pc, 0)
<1> SUFFICES ASSUME NEW pc, NEW D, Counter(pc, D)
             PROVE  Room(pc, 0)
  OBVIOUS
<1>1. Cardinality(At(pc, "lock")) \in Nat
  BY AtFinite
<1>2. QED
  BY <1>1 DEF Room

LEMMA WokenKeeps ==
    \A pc, D, S : Counter(pc, D) =>
      /\ Counter(Woken(pc, S), D)
      /\ \A t \in D : t \notin S => Woken(pc, S)[t] = pc[t]
BY DEF Counter, Woken, WorkerPlaces

\* pthread_cond_signal keeps the program counters of all but waiting threads.
LEMMA SignalKeeps ==
    \A pc, D, next : Counter(pc, D) /\ Signal(pc, next) =>
      /\ Counter(next, D)
      /\ \A t \in D : pc[t] # "wait" => next[t] = pc[t]
<1> SUFFICES ASSUME NEW pc, NEW D, NEW next, Counter(pc, D), Signal(pc, next)
             PROVE  Counter(next, D) /\ \A t \in D : pc[t] # "wait" => next[t] = pc[t]
  OBVIOUS
<1>1. CASE next = pc
  BY <1>1
<1>2. CASE next # pc
  <2>1. PICK s \in At(pc, "wait") : next = Woken(pc, {s})
    BY <1>2 DEF Signal
  <2>2. pc[s] = "wait"
    BY DEF At
  <2>3. QED
    BY <2>1, <2>2, WokenKeeps
<1>3. QED
  BY <1>1, <1>2

\* One signal is enough for one more piece of work.
LEMMA RoomSignalled ==
    \A pc, D, next, n :
      Counter(pc, D) /\ Signal(pc, next) /\ n \in Int /\ Room(pc, n) => Room(next, n + 1)
<1> SUFFICES ASSUME NEW pc, NEW D, NEW next, NEW n \in Int,
                    Counter(pc, D), Signal(pc, next), Room(pc, n)
             PROVE  Room(next, n + 1)
  OBVIOUS
<1>1. CASE At(pc, "wait") = {}
  BY <1>1 DEF Signal, Room
<1>2. CASE At(pc, "wait") # {}
  <2>1. PICK s \in At(pc, "wait") : next = Woken(pc, {s})
    BY <1>2 DEF Signal
  <2>2. IsFiniteSet(At(pc, "lock")) /\ Cardinality(At(pc, "lock")) \in Nat
    BY AtFinite
  <2>3. At(next, "lock") = At(pc, "lock") \cup {s} /\ s \notin At(pc, "lock")
    BY <2>1 DEF At, Woken
  <2>4. Cardinality(At(next, "lock")) = Cardinality(At(pc, "lock")) + 1
    BY <2>2, <2>3, FS_AddElement
  <2>5. QED
    BY <1>2, <2>2, <2>4 DEF Room
<1>3. QED
  BY <1>1, <1>2

\* After a broadcast nobody waits.
LEMMA RoomBroadcast == \A pc, n : Room(Woken(pc, At(pc, "wait")), n)
<1> SUFFICES ASSUME NEW pc, NEW n
             PROVE  Room(Woken(pc, At(pc, "wait")), n)
  OBVIOUS
<1>1. At(Woken(pc, At(pc, "wait")), "wait") = {}
  BY DEF At, Woken
<1>2. QED
  BY <1>1 DEF Room

-----------------------------------------------------------------------------
(* The inductive invariant.  The types rest on what main's place says of its *)
(* counts, and the numbers of waiting threads on every thread beyond them    *)
(* being absent.                                                            *)

RingTypes == /\ buffer \in [Cells -> Contents]
             /\ capacity \in 1..MaxCapacity
             /\ head \in Cells /\ tail \in Cells
             /\ count \in Nat /\ added_count \in Nat /\ removed_count \in Nat

WorkerTypes == /\ Counter(ppc, Producers) /\ Counter(cpc, Consumers)
               /\ message \in [Consumers -> Contents]

MainTypes == /\ session \in Session /\ main_pc \in MainPlaces
             /\ prod_count \in 0..MaxProducers /\ cons_count \in 0..MaxConsumers
             /\ new_capacity \in 0..MaxCapacity

OtherTypes == /\ session \in Sessions /\ terminate_flag \in BOOLEAN
              /\ mutex \in {NoOne, Main, Dead}
              /\ handling \in BOOLEAN /\ monitor \in {"top", "lock", "done"}

LEMMA TypesByParts ==
    /\ TypeOK <=> RingTypes /\ WorkerTypes /\ MainTypes /\ OtherTypes
    /\ TypeOK' <=> RingTypes' /\ WorkerTypes' /\ MainTypes' /\ OtherTypes'
<1>1. IsFiniteSet(Producers) /\ IsFiniteSet(Consumers)
  BY CondAssumption, FS_Interval DEF Producers, Consumers
<1>2. QED
  BY <1>1, CondAssumption
     DEF TypeOK, RingTypes, WorkerTypes, MainTypes, OtherTypes, Counter

Beyond ==
    /\ \A p \in Producers : p > prod_count => ppc[p] = "absent"
    /\ \A c \in Consumers : c > cons_count => cpc[c] = "absent"

Promises ==
    /\ main_pc = "join_producer" => prod_count > 0
    /\ main_pc = "join_consumer" => cons_count > 0
    /\ main_pc = "grow" => capacity < MaxCapacity
    /\ main_pc = "resize" => new_capacity > 0

IInv == RingTypes /\ WorkerTypes /\ MainTypes /\ OtherTypes /\ Beyond /\ Promises /\ NoLostWakeup

\* No wakeup is lost, said of the two kinds of workers by themselves.
LEMMA WakeupsByKind ==
    /\ NoLostWakeup <=> (~terminate_flag => Room(cpc, count) /\ Room(ppc, capacity - count))
    /\ NoLostWakeup' <=> (~terminate_flag' => Room(cpc', count') /\ Room(ppc', capacity' - count'))
BY DEF NoLostWakeup, Room, At

LEMMA InitHolds == Init => IInv
<1> SUFFICES ASSUME Init PROVE IInv
  OBVIOUS
<1>1. IsFiniteSet(Producers) /\ IsFiniteSet(Consumers)
  BY CondAssumption, FS_Interval DEF Producers, Consumers
<1>2. RingTypes
  BY CondAssumption DEF Init, RingTypes, Cells, Contents, Junk
<1>3. WorkerTypes
  BY <1>1 DEF Init, WorkerTypes, Counter, WorkerPlaces, Contents, Junk
<1>4. MainTypes /\ OtherTypes
  <2>1. session \in Session /\ session \in Sessions
    BY CondAssumption DEF Init
  <2>2. 0 \in 0..MaxProducers /\ 0 \in 0..MaxConsumers /\ 0 \in 0..MaxCapacity
    BY CondAssumption
  <2>3. QED
    BY <2>1, <2>2 DEF Init, MainTypes, OtherTypes, MainPlaces, Tasks
<1>5. Beyond /\ Promises
  BY DEF Init, Beyond, Promises
<1>6. NoLostWakeup
  <2>1. At(ppc, "wait") = {} /\ At(cpc, "wait") = {}
    BY DEF Init, At
  <2>2. QED
    BY <2>1 DEF NoLostWakeup
<1>7. QED
  BY <1>2, <1>3, <1>4, <1>5, <1>6 DEF IInv

-----------------------------------------------------------------------------
(* The workers *)

\* What a step of a producer keeps whatever it does to the ring.
LEMMA ProducerFrame ==
    ASSUME IInv, NEW p \in Producers, NEW from, NEW to \in WorkerPlaces, from # "absent",
           PGoto(p, from, to), UNCHANGED <<capacity, elsewhere>>,
           mutex' \in {NoOne, Main, Dead}
    PROVE  /\ Moves(ppc, ppc', p, to) /\ Counter(ppc', Producers)
           /\ MainTypes' /\ OtherTypes' /\ Promises'
           /\ \A q \in Producers : q > prod_count' => ppc'[q] = "absent"
<1>1. Moves(ppc, ppc', p, to) /\ Counter(ppc', Producers)
  BY DEF IInv, WorkerTypes, Counter, Moves, PGoto
<1>2. MainTypes' /\ OtherTypes' /\ Promises'
  BY DEF IInv, MainTypes, OtherTypes, Promises, elsewhere, mainVars, counts
<1>3. \A q \in Producers : q > prod_count' => ppc'[q] = "absent"
  BY DEF IInv, WorkerTypes, Counter, Beyond, PGoto, elsewhere, mainVars, counts
<1>4. QED
  BY <1>1, <1>2, <1>3

\* Steps of a producer that leave the ring and the consumers alone.
LEMMA ProducerWalks ==
    ASSUME IInv, NEW p \in Producers, NEW from, NEW to \in WorkerPlaces, from # "absent",
           PGoto(p, from, to), UNCHANGED <<ring, cpc, message, elsewhere>>,
           mutex' \in {NoOne, Main, Dead},
           \/ from # "lock" /\ to # "wait"
           \/ terminate_flag
           \/ count = capacity
    PROVE  IInv'
<1>1. /\ Moves(ppc, ppc', p, to) /\ Counter(ppc', Producers)
      /\ MainTypes' /\ OtherTypes' /\ Promises'
      /\ \A q \in Producers : q > prod_count' => ppc'[q] = "absent"
  BY ProducerFrame DEF ring
<1>2. RingTypes' /\ WorkerTypes'
  BY <1>1 DEF IInv, RingTypes, WorkerTypes, ring, Counter
<1>3. Beyond'
  BY <1>1 DEF IInv, Beyond, elsewhere, mainVars, counts
<1>4. NoLostWakeup'
  <2>1. /\ capacity - count \in Int /\ Counter(ppc, Producers)
        /\ ppc[p] = from /\ UNCHANGED <<count, capacity, cpc, terminate_flag>>
    BY DEF IInv, RingTypes, WorkerTypes, PGoto, ring, elsewhere
  <2>2. CASE terminate_flag
    BY <2>1, <2>2, WakeupsByKind
  <2>3. CASE ~terminate_flag /\ count = capacity
    <3>1. capacity' - count' = 0
      BY <2>1, <2>3 DEF IInv, RingTypes
    <3>2. Room(ppc', 0)
      BY <1>1, RoomForNothing
    <3>3. QED
      BY <2>1, <3>1, <3>2, WakeupsByKind DEF IInv
  <2>4. CASE ~terminate_flag /\ from # "lock" /\ to # "wait"
    <3>1. Room(cpc, count) /\ Room(ppc, capacity - count)
      BY <2>4, WakeupsByKind DEF IInv
    <3>2. Room(ppc', capacity - count)
      BY <1>1, <2>1, <2>4, <3>1, RoomKept
    <3>3. QED
      BY <2>1, <3>1, <3>2, WakeupsByKind
  <2>5. QED
    BY <2>2, <2>3, <2>4
<1>5. QED
  BY <1>1, <1>2, <1>3, <1>4 DEF IInv

LEMMA ProducerInserts ==
    ASSUME IInv, NEW p \in Producers, PushInsert(p)
    PROVE  IInv'
<1>1. /\ Moves(ppc, ppc', p, "sleep") /\ Counter(ppc', Producers)
      /\ MainTypes' /\ OtherTypes' /\ Promises'
      /\ \A q \in Producers : q > prod_count' => ppc'[q] = "absent"
  BY ProducerFrame DEF PushInsert, WorkerPlaces, IInv, OtherTypes
<1>2. RingTypes'
  <2>1. tail' \in Cells
    <3>1. tail + 1 \in Int /\ capacity \in Nat \ {0} /\ capacity <= MaxCapacity /\ MaxCapacity \in Nat
      BY CondAssumption DEF IInv, RingTypes, Cells
    <3>2. (tail + 1) % capacity \in 0..capacity - 1
      BY <3>1, ModInRing
    <3>3. QED
      BY <3>1, <3>2 DEF PushInsert, Advance, Cells
  <2>2. buffer' \in [Cells -> Contents]
    BY DEF IInv, RingTypes, PushInsert, Stored, Contents, Junk
  <2>3. QED
    BY <2>1, <2>2 DEF IInv, RingTypes, PushInsert
<1>3. Counter(cpc', Consumers) /\ \A c \in Consumers : cpc[c] # "wait" => cpc'[c] = cpc[c]
  BY SignalKeeps DEF IInv, WorkerTypes, PushInsert, SignalNotEmpty
<1>4. WorkerTypes'
  BY <1>1, <1>3 DEF IInv, WorkerTypes, PushInsert, Counter
<1>5. Beyond'
  BY <1>1, <1>3 DEF IInv, Beyond, PushInsert, elsewhere, mainVars, counts
<1>6. NoLostWakeup'
  <2>1. /\ count \in Nat /\ capacity - count \in Int
        /\ count' = count + 1 /\ capacity' = capacity /\ ppc[p] = "lock" /\ ~terminate_flag
    BY DEF IInv, RingTypes, PushInsert, PGoto
  <2>2. Room(cpc, count) /\ Room(ppc, capacity - count)
    BY <2>1, WakeupsByKind DEF IInv
  <2>3. Room(cpc', count + 1)
    BY <2>1, <2>2, RoomSignalled DEF IInv, WorkerTypes, PushInsert, SignalNotEmpty
  <2>4. Room(ppc', capacity - count - 1)
    BY <1>1, <2>1, <2>2, RoomUsed DEF IInv, WorkerTypes
  <2>5. capacity' - count' = capacity - count - 1
    BY <2>1 DEF IInv, RingTypes
  <2>6. QED
    BY <2>1, <2>3, <2>4, <2>5, WakeupsByKind
<1>7. QED
  BY <1>1, <1>2, <1>4, <1>5, <1>6 DEF IInv

LEMMA ProducerSteps ==
    ASSUME IInv, NEW p \in Producers, producer_thread(p)
    PROVE  IInv'
<1> USE DEF WorkerPlaces
<1>1. mutex \in {NoOne, Main, Dead}
  BY DEF IInv, OtherTypes
<1>2. CASE ProducerTop(p)
  BY <1>1, <1>2, ProducerWalks DEF ProducerTop
<1>3. CASE PushWait(p)
  BY <1>1, <1>3, ProducerWalks DEF PushWait, PushMustWait
<1>4. CASE PushGiveUp(p)
  BY <1>1, <1>4, ProducerWalks DEF PushGiveUp
<1>5. CASE PushInsert(p)
  BY <1>5, ProducerInserts
<1>6. CASE ProducerSleep(p)
  BY <1>1, <1>6, ProducerWalks DEF ProducerSleep
<1>7. CASE ProducerCancelled(p)
  BY <1>7, ProducerWalks DEF ProducerCancelled
<1>8. QED
  BY <1>2, <1>3, <1>4, <1>5, <1>6, <1>7 DEF producer_thread, push_message

LEMMA ConsumerFrame ==
    ASSUME IInv, NEW c \in Consumers, NEW from, NEW to \in WorkerPlaces, from # "absent",
           CGoto(c, from, to), UNCHANGED <<capacity, elsewhere>>,
           mutex' \in {NoOne, Main, Dead}
    PROVE  /\ Moves(cpc, cpc', c, to) /\ Counter(cpc', Consumers)
           /\ MainTypes' /\ OtherTypes' /\ Promises'
           /\ \A q \in Consumers : q > cons_count' => cpc'[q] = "absent"
<1>1. Moves(cpc, cpc', c, to) /\ Counter(cpc', Consumers)
  BY DEF IInv, WorkerTypes, Counter, Moves, CGoto
<1>2. MainTypes' /\ OtherTypes' /\ Promises'
  BY DEF IInv, MainTypes, OtherTypes, Promises, elsewhere, mainVars, counts
<1>3. \A q \in Consumers : q > cons_count' => cpc'[q] = "absent"
  BY DEF IInv, WorkerTypes, Counter, Beyond, CGoto, elsewhere, mainVars, counts
<1>4. QED
  BY <1>1, <1>2, <1>3

\* Steps of a consumer that leave the ring and the producers alone.
LEMMA ConsumerWalks ==
    ASSUME IInv, NEW c \in Consumers, NEW from, NEW to \in WorkerPlaces, from # "absent",
           CGoto(c, from, to), UNCHANGED <<ring, ppc, message, elsewhere>>,
           mutex' \in {NoOne, Main, Dead},
           \/ from # "lock" /\ to # "wait"
           \/ terminate_flag
           \/ count = 0
    PROVE  IInv'
<1>1. /\ Moves(cpc, cpc', c, to) /\ Counter(cpc', Consumers)
      /\ MainTypes' /\ OtherTypes' /\ Promises'
      /\ \A q \in Consumers : q > cons_count' => cpc'[q] = "absent"
  BY ConsumerFrame DEF ring
<1>2. RingTypes' /\ WorkerTypes'
  BY <1>1 DEF IInv, RingTypes, WorkerTypes, ring, Counter
<1>3. Beyond'
  BY <1>1 DEF IInv, Beyond, elsewhere, mainVars, counts
<1>4. NoLostWakeup'
  <2>1. /\ count \in Int /\ Counter(cpc, Consumers)
        /\ cpc[c] = from /\ UNCHANGED <<count, capacity, ppc, terminate_flag>>
    BY DEF IInv, RingTypes, WorkerTypes, CGoto, ring, elsewhere
  <2>2. CASE terminate_flag
    BY <2>1, <2>2, WakeupsByKind
  <2>3. CASE ~terminate_flag /\ count = 0
    <3>1. Room(cpc', 0)
      BY <1>1, RoomForNothing
    <3>2. QED
      BY <2>1, <2>3, <3>1, WakeupsByKind DEF IInv
  <2>4. CASE ~terminate_flag /\ from # "lock" /\ to # "wait"
    <3>1. Room(cpc, count) /\ Room(ppc, capacity - count)
      BY <2>4, WakeupsByKind DEF IInv
    <3>2. Room(cpc', count)
      BY <1>1, <2>1, <2>4, <3>1, RoomKept
    <3>3. QED
      BY <2>1, <3>1, <3>2, WakeupsByKind
  <2>5. QED
    BY <2>2, <2>3, <2>4
<1>5. QED
  BY <1>1, <1>2, <1>3, <1>4 DEF IInv

LEMMA ConsumerExtracts ==
    ASSUME IInv, NEW c \in Consumers, PopExtract(c)
    PROVE  IInv'
<1>1. /\ Moves(cpc, cpc', c, "sleep") /\ Counter(cpc', Consumers)
      /\ MainTypes' /\ OtherTypes' /\ Promises'
      /\ \A q \in Consumers : q > cons_count' => cpc'[q] = "absent"
  BY ConsumerFrame DEF PopExtract, WorkerPlaces, IInv, OtherTypes
<1>2. RingTypes'
  <2>1. head' \in Cells
    <3>1. head + 1 \in Int /\ capacity \in Nat \ {0} /\ capacity <= MaxCapacity /\ MaxCapacity \in Nat
      BY CondAssumption DEF IInv, RingTypes, Cells
    <3>2. (head + 1) % capacity \in 0..capacity - 1
      BY <3>1, ModInRing
    <3>3. QED
      BY <3>1, <3>2 DEF PopExtract, Advance, Cells
  <2>2. count' \in Nat
    BY DEF IInv, RingTypes, PopExtract, PopMustWait
  <2>3. QED
    BY <2>1, <2>2 DEF IInv, RingTypes, PopExtract
<1>3. Counter(ppc', Producers) /\ \A p \in Producers : ppc[p] # "wait" => ppc'[p] = ppc[p]
  BY SignalKeeps DEF IInv, WorkerTypes, PopExtract, SignalNotFull
<1>4. WorkerTypes'
  <2>1. message' \in [Consumers -> Contents]
    BY DEF IInv, WorkerTypes, RingTypes, PopExtract, Loaded, Contents, Junk
  <2>2. QED
    BY <1>1, <1>3, <2>1 DEF WorkerTypes, Counter
<1>5. Beyond'
  BY <1>1, <1>3 DEF IInv, Beyond, PopExtract, elsewhere, mainVars, counts
<1>6. NoLostWakeup'
  <2>1. /\ count \in Nat /\ capacity - count \in Int
        /\ count' = count - 1 /\ capacity' = capacity /\ cpc[c] = "lock" /\ ~terminate_flag
    BY DEF IInv, RingTypes, PopExtract, CGoto
  <2>2. Room(cpc, count) /\ Room(ppc, capacity - count)
    BY <2>1, WakeupsByKind DEF IInv
  <2>3. Room(ppc', capacity - count + 1)
    BY <2>1, <2>2, RoomSignalled DEF IInv, WorkerTypes, PopExtract, SignalNotFull
  <2>4. Room(cpc', count - 1)
    BY <1>1, <2>1, <2>2, RoomUsed DEF IInv, WorkerTypes
  <2>5. capacity' - count' = capacity - count + 1
    BY <2>1 DEF IInv, RingTypes
  <2>6. QED
    BY <2>1, <2>3, <2>4, <2>5, WakeupsByKind
<1>7. QED
  BY <1>1, <1>2, <1>4, <1>5, <1>6 DEF IInv

LEMMA ConsumerSteps ==
    ASSUME IInv, NEW c \in Consumers, consumer_thread(c)
    PROVE  IInv'
<1> USE DEF WorkerPlaces
<1>1. mutex \in {NoOne, Main, Dead}
  BY DEF IInv, OtherTypes
<1>2. CASE ConsumerTop(c)
  BY <1>1, <1>2, ConsumerWalks DEF ConsumerTop
<1>3. CASE PopWait(c)
  BY <1>1, <1>3, ConsumerWalks DEF PopWait, PopMustWait
<1>4. CASE PopGiveUp(c)
  BY <1>1, <1>4, ConsumerWalks DEF PopGiveUp
<1>5. CASE PopExtract(c)
  BY <1>5, ConsumerExtracts
<1>6. CASE ConsumerSleep(c)
  BY <1>1, <1>6, ConsumerWalks DEF ConsumerSleep
<1>7. CASE ConsumerCancelled(c)
  BY <1>7, ConsumerWalks DEF ConsumerCancelled
<1>8. QED
  BY <1>2, <1>3, <1>4, <1>5, <1>6, <1>7 DEF consumer_thread, pop_message

-----------------------------------------------------------------------------
(* Main, its handler and the monitor *)

LEMMA SpuriousKeeps == ASSUME IInv, SpuriousWakeup PROVE IInv'
<1>1. MainTypes' /\ OtherTypes' /\ Promises' /\ RingTypes'
  BY DEF IInv, MainTypes, OtherTypes, Promises, RingTypes, SpuriousWakeup, elsewhere, mainVars,
         counts, ring
<1>2. UNCHANGED <<terminate_flag, count, capacity, message, prod_count, cons_count>>
  BY DEF SpuriousWakeup, elsewhere, mainVars, counts, ring
<1>3. /\ count \in Int /\ capacity - count \in Int
      /\ Counter(ppc, Producers) /\ Counter(cpc, Consumers)
  BY DEF IInv, RingTypes, WorkerTypes
<1> DEFINE Wakes(pc, moved) == \E t \in At(pc, "wait") : moved = Woken(pc, {t})
<1>4. \A pc, moved, D, n : Counter(pc, D) /\ Wakes(pc, moved) /\ n \in Int =>
        /\ Counter(moved, D) /\ \A t \in D : pc[t] # "wait" => moved[t] = pc[t]
        /\ Room(pc, n) => Room(moved, n)
  <2> SUFFICES ASSUME NEW pc, NEW moved, NEW D, NEW n \in Int, Counter(pc, D),
                      NEW t \in At(pc, "wait"), moved = Woken(pc, {t})
               PROVE  /\ Counter(moved, D) /\ \A u \in D : pc[u] # "wait" => moved[u] = pc[u]
                      /\ Room(pc, n) => Room(moved, n)
    OBVIOUS
  <2>1. t \in DOMAIN pc /\ pc[t] = "wait"
    BY DEF At
  <2>2. Counter(moved, D) /\ \A u \in D : pc[u] # "wait" => moved[u] = pc[u]
    BY <2>1, WokenKeeps
  <2>3. Moves(pc, moved, t, "lock")
    BY <2>1 DEF Moves, Woken, Counter
  <2>4. QED
    BY <2>1, <2>2, <2>3, RoomKept
<1>5. CASE Wakes(ppc, ppc') /\ UNCHANGED cpc
  <2>1. Counter(ppc', Producers) /\ \A p \in Producers : ppc[p] # "wait" => ppc'[p] = ppc[p]
    BY <1>3, <1>4, <1>5
  <2>2. Room(ppc, capacity - count) => Room(ppc', capacity - count)
    BY <1>3, <1>4, <1>5
  <2>3. WorkerTypes' /\ Beyond'
    BY <1>2, <1>5, <2>1 DEF IInv, WorkerTypes, Beyond, Counter
  <2>4. NoLostWakeup'
    BY <1>2, <1>5, <2>2, WakeupsByKind DEF IInv
  <2>5. QED
    BY <1>1, <2>3, <2>4 DEF IInv
<1>6. CASE Wakes(cpc, cpc') /\ UNCHANGED ppc
  <2>1. Counter(cpc', Consumers) /\ \A c \in Consumers : cpc[c] # "wait" => cpc'[c] = cpc[c]
    BY <1>3, <1>4, <1>6
  <2>2. Room(cpc, count) => Room(cpc', count)
    BY <1>3, <1>4, <1>6
  <2>3. WorkerTypes' /\ Beyond'
    BY <1>2, <1>6, <2>1 DEF IInv, WorkerTypes, Beyond, Counter
  <2>4. NoLostWakeup'
    BY <1>2, <1>6, <2>2, WakeupsByKind DEF IInv
  <2>5. QED
    BY <1>1, <2>3, <2>4 DEF IInv
<1>7. QED
  BY <1>5, <1>6 DEF SpuriousWakeup

\* Steps that leave the ring and the workers alone.
LEMMA OthersKeep ==
    ASSUME IInv, UNCHANGED <<ring, workers, prod_count, cons_count>>, MainTypes', OtherTypes',
           Promises', terminate_flag => terminate_flag'
    PROVE  IInv'
<1>1. RingTypes' /\ WorkerTypes' /\ Beyond'
  BY DEF IInv, RingTypes, WorkerTypes, Beyond, Counter, ring, workers
<1>2. NoLostWakeup'
  <2>1. UNCHANGED <<cpc, ppc, count, capacity>>
    BY DEF ring, workers
  <2>2. QED
    BY <2>1, WakeupsByKind DEF IInv
<1>3. QED
  BY <1>1, <1>2 DEF IInv

\* Steps that broadcast both conditions, whatever they make of the ring.
LEMMA BroadcastKeeps ==
    ASSUME IInv, Broadcast, UNCHANGED <<message, prod_count, cons_count>>, RingTypes',
           MainTypes', OtherTypes', Promises'
    PROVE  IInv'
<1>1. /\ ppc' = Woken(ppc, At(ppc, "wait")) /\ cpc' = Woken(cpc, At(cpc, "wait"))
      /\ Counter(ppc, Producers) /\ Counter(cpc, Consumers)
  BY DEF Broadcast, IInv, WorkerTypes
<1>2. /\ Counter(ppc', Producers) /\ \A p \in Producers : ppc[p] = "absent" => ppc'[p] = ppc[p]
      /\ Counter(cpc', Consumers) /\ \A c \in Consumers : cpc[c] = "absent" => cpc'[c] = cpc[c]
  BY <1>1, WokenKeeps DEF At, Counter
<1>3. WorkerTypes' /\ Beyond'
  BY <1>2 DEF IInv, WorkerTypes, Beyond, Counter
<1>4. NoLostWakeup'
  BY <1>1, RoomBroadcast, WakeupsByKind
<1>5. QED
  BY <1>3, <1>4 DEF IInv

\* A producer that comes or goes: it is not on its way to the queue.
LEMMA ProducerComesOrGoes ==
    ASSUME IInv, NEW p \in Producers, NEW to \in {"top", "absent"},
           Moves(ppc, ppc', p, to), ppc[p] # "lock",
           UNCHANGED <<terminate_flag, ring, cpc, message, cons_count>>,
           MainTypes', OtherTypes', Promises',
           \A q \in Producers : q > prod_count' => ppc'[q] = "absent"
    PROVE  IInv'
<1>1. capacity - count \in Int /\ Counter(ppc, Producers)
  BY DEF IInv, RingTypes, WorkerTypes
<1>2. UNCHANGED <<count, capacity, cpc, terminate_flag, message>>
  BY DEF ring
<1>3. RingTypes'
  BY DEF IInv, RingTypes, ring
<1>4. Counter(ppc', Producers)
  BY <1>1 DEF Counter, Moves, WorkerPlaces
<1>5. WorkerTypes' /\ Beyond'
  BY <1>2, <1>4 DEF IInv, WorkerTypes, Beyond, Counter
<1>6. Room(ppc, capacity - count) => Room(ppc', capacity - count)
  BY <1>1, RoomKept
<1>7. NoLostWakeup'
  BY <1>2, <1>6, WakeupsByKind DEF IInv
<1>8. QED
  BY <1>3, <1>5, <1>7 DEF IInv

LEMMA ConsumerComesOrGoes ==
    ASSUME IInv, NEW c \in Consumers, NEW to \in {"top", "absent"},
           Moves(cpc, cpc', c, to), cpc[c] # "lock",
           UNCHANGED <<terminate_flag, ring, ppc, message, prod_count>>,
           MainTypes', OtherTypes', Promises',
           \A q \in Consumers : q > cons_count' => cpc'[q] = "absent"
    PROVE  IInv'
<1>1. count \in Int /\ Counter(cpc, Consumers)
  BY DEF IInv, RingTypes, WorkerTypes
<1>2. UNCHANGED <<count, capacity, ppc, terminate_flag, message>>
  BY DEF ring
<1>3. RingTypes'
  BY DEF IInv, RingTypes, ring
<1>4. Counter(cpc', Consumers)
  BY <1>1 DEF Counter, Moves, WorkerPlaces
<1>5. WorkerTypes' /\ Beyond'
  BY <1>2, <1>4 DEF IInv, WorkerTypes, Beyond, Counter
<1>6. Room(cpc, count) => Room(cpc', count)
  BY <1>1, RoomKept
<1>7. NoLostWakeup'
  BY <1>2, <1>6, WakeupsByKind DEF IInv
<1>8. QED
  BY <1>3, <1>5, <1>7 DEF IInv

LEMMA CommandsKeep == ASSUME IInv, UserCommand PROVE IInv'
<1> USE DEF Command, MainGoto
<1>1. MainTypes /\ OtherTypes /\ Promises /\ Counter(ppc, Producers) /\ Counter(cpc, Consumers)
  BY DEF IInv, WorkerTypes
<1>2. session.producers \in 0..MaxProducers /\ session.consumers \in 0..MaxConsumers
  BY <1>1 DEF MainTypes, Session
<1>3. CASE AddProducer
  <2>1. prod_count' = prod_count + 1 /\ prod_count' \in Producers
    BY <1>1, <1>2, <1>3, CondAssumption DEF AddProducer, MainTypes, Producers
  <2>2. ppc[prod_count'] = "absent"
    BY <1>1, <2>1 DEF IInv, Beyond, MainTypes, Producers
  <2>3. MainTypes' /\ OtherTypes' /\ Promises'
    BY <1>1, <1>2, <1>3, <2>1, CondAssumption
       DEF AddProducer, MainTypes, OtherTypes, Promises, MainPlaces, Tasks, Producers
  <2>4. Moves(ppc, ppc', prod_count', "top")
    BY <1>1, <1>3, <2>1 DEF AddProducer, Moves, Counter
  <2>5. \A q \in Producers : q > prod_count' => ppc'[q] = "absent"
    BY <1>1, <1>3, <2>1 DEF AddProducer, IInv, Beyond, Counter, MainTypes, Producers
  <2>6. QED
    BY <1>3, <2>1, <2>2, <2>3, <2>4, <2>5, ProducerComesOrGoes DEF AddProducer
<1>4. CASE AddConsumer
  <2>1. cons_count' = cons_count + 1 /\ cons_count' \in Consumers
    BY <1>1, <1>2, <1>4, CondAssumption DEF AddConsumer, MainTypes, Consumers
  <2>2. cpc[cons_count'] = "absent"
    BY <1>1, <2>1 DEF IInv, Beyond, MainTypes, Consumers
  <2>3. MainTypes' /\ OtherTypes' /\ Promises'
    BY <1>1, <1>2, <1>4, <2>1, CondAssumption
       DEF AddConsumer, MainTypes, OtherTypes, Promises, MainPlaces, Tasks, Consumers
  <2>4. Moves(cpc, cpc', cons_count', "top")
    BY <1>1, <1>4, <2>1 DEF AddConsumer, Moves, Counter
  <2>5. \A q \in Consumers : q > cons_count' => cpc'[q] = "absent"
    BY <1>1, <1>4, <2>1 DEF AddConsumer, IInv, Beyond, Counter, MainTypes, Consumers
  <2>6. QED
    BY <1>4, <2>1, <2>2, <2>3, <2>4, <2>5, ConsumerComesOrGoes DEF AddConsumer
<1>5. CASE RemoveProducer \/ RemoveConsumer
  <2>1. MainTypes' /\ OtherTypes' /\ Promises'
    BY <1>1, <1>5 DEF RemoveProducer, RemoveConsumer, MainTypes, OtherTypes, Promises,
                      MainPlaces, counts
  <2>2. QED
    BY <1>5, <2>1, OthersKeep DEF RemoveProducer, RemoveConsumer, counts
<1>6. CASE StartTask
  <2>1. capacity' = capacity /\ session.capacity \in InitCapacity..MaxCapacity
    BY <1>1, <1>6 DEF StartTask, ring, MainTypes, Session
  <2>2. MainTypes' /\ OtherTypes' /\ Promises'
    BY <1>1, <1>6, <2>1, CondAssumption DEF StartTask, MainTypes, OtherTypes, Promises, MainPlaces,
       Tasks, counts, IInv, RingTypes
  <2>3. QED
    BY <1>6, <2>2, OthersKeep DEF StartTask, counts
<1>7. CASE Quit
  <2>1. MainTypes' /\ OtherTypes' /\ Promises'
    BY <1>1, <1>7 DEF Quit, MainTypes, OtherTypes, Promises, MainPlaces, Tasks, counts
  <2>2. QED
    BY <1>7, <2>1, OthersKeep DEF Quit, counts
<1>8. QED
  BY <1>3, <1>4, <1>5, <1>6, <1>7 DEF UserCommand

LEMMA JoinsKeep == ASSUME IInv, JoinProducer \/ JoinConsumer PROVE IInv'
<1> USE DEF MainGoto
<1>1. MainTypes /\ OtherTypes /\ Promises /\ Counter(ppc, Producers) /\ Counter(cpc, Consumers)
  BY DEF IInv, WorkerTypes
<1>2. CASE JoinProducer
  <2>1. prod_count \in Producers /\ prod_count' = prod_count - 1
    BY <1>1, <1>2, CondAssumption DEF JoinProducer, MainTypes, Promises, Producers
  <2>2. MainTypes' /\ OtherTypes' /\ Promises'
    BY <1>1, <1>2, <2>1, CondAssumption
       DEF JoinProducer, MainTypes, OtherTypes, Promises, MainPlaces, Tasks, Producers
  <2>3. Moves(ppc, ppc', prod_count, "absent") /\ ppc[prod_count] = "done"
    BY <1>1, <1>2, <2>1 DEF JoinProducer, Moves, Counter
  <2>4. \A q \in Producers : q > prod_count' => ppc'[q] = "absent"
    BY <1>1, <1>2, <2>1 DEF JoinProducer, IInv, Beyond, Counter, MainTypes, Producers
  <2>5. QED
    BY <1>2, <2>1, <2>2, <2>3, <2>4, ProducerComesOrGoes DEF JoinProducer
<1>3. CASE JoinConsumer
  <2>1. cons_count \in Consumers /\ cons_count' = cons_count - 1
    BY <1>1, <1>3, CondAssumption DEF JoinConsumer, MainTypes, Promises, Consumers
  <2>2. MainTypes' /\ OtherTypes' /\ Promises'
    BY <1>1, <1>3, <2>1, CondAssumption
       DEF JoinConsumer, MainTypes, OtherTypes, Promises, MainPlaces, Tasks, Consumers
  <2>3. Moves(cpc, cpc', cons_count, "absent") /\ cpc[cons_count] = "done"
    BY <1>1, <1>3, <2>1 DEF JoinConsumer, Moves, Counter
  <2>4. \A q \in Consumers : q > cons_count' => cpc'[q] = "absent"
    BY <1>1, <1>3, <2>1 DEF JoinConsumer, IInv, Beyond, Counter, MainTypes, Consumers
  <2>5. QED
    BY <1>3, <2>1, <2>2, <2>3, <2>4, ConsumerComesOrGoes DEF JoinConsumer
<1>4. QED
  BY <1>2, <1>3

LEMMA ResizedKeeps == ASSUME IInv, Resized PROVE IInv'
<1>1. /\ main_pc = "resize" /\ new_capacity \in 1..MaxCapacity /\ count <= new_capacity
      /\ capacity' = new_capacity /\ UNCHANGED <<prod_count, cons_count, message>> /\ Broadcast
  BY DEF Resized, Unlock, MainGoto, IInv, Promises, MainTypes
<1>2. RingTypes'
  <2>1. buffer' \in [Cells -> Contents]
    <3>1. \A i \in Cells : (head + i) % capacity \in Cells
      <4>1. capacity \in Nat \ {0} /\ capacity <= MaxCapacity /\ MaxCapacity \in Nat /\ head \in Int
        BY CondAssumption DEF IInv, RingTypes, Cells
      <4>2. \A i \in Cells : (head + i) % capacity \in 0..capacity - 1
        BY <4>1, ModInRing DEF Cells
      <4>3. QED
        BY <4>1, <4>2 DEF Cells
    <3>2. QED
      BY <3>1 DEF Resized, Copied, IInv, RingTypes, Contents, Junk
  <2>2. /\ head' = 0 /\ tail' = count /\ count' = count
        /\ added_count' = added_count /\ removed_count' = removed_count
    BY DEF Resized
  <2>3. 0 \in Cells /\ count \in Cells
    BY <1>1, CondAssumption DEF Cells, IInv, RingTypes
  <2>4. QED
    BY <1>1, <2>1, <2>2, <2>3 DEF IInv, RingTypes
<1>3. MainTypes' /\ OtherTypes' /\ Promises'
  BY <1>1, CondAssumption
     DEF IInv, MainTypes, OtherTypes, Promises, Resized, Unlock, MainGoto, MainPlaces
<1>4. QED
  BY <1>1, <1>2, <1>3, BroadcastKeeps

LEMMA WorkKeeps == ASSUME IInv, MainWork PROVE IInv'
<1> USE DEF MainGoto, Unlock
<1>1. RingTypes /\ MainTypes /\ OtherTypes /\ Promises
  BY DEF IInv
<1>2. CASE JoinProducer \/ JoinConsumer
  BY <1>2, JoinsKeep
<1>3. CASE MainLock
  <2>1. MainTypes' /\ OtherTypes' /\ Promises'
    BY <1>1, <1>3 DEF MainLock, MainTypes, OtherTypes, Promises, MainPlaces, Tasks, counts, ring
  <2>2. QED
    BY <1>3, <2>1, OthersKeep DEF MainLock, counts
<1>4. CASE BroadcastTask
  <2>1. RingTypes' /\ MainTypes' /\ OtherTypes' /\ Promises'
    BY <1>1, <1>4 DEF BroadcastTask, RingTypes, MainTypes, OtherTypes, Promises, MainPlaces, Tasks,
       ring
  <2>2. QED
    BY <1>4, <2>1, BroadcastKeeps DEF BroadcastTask
<1>5. CASE StatusTask
  <2>1. MainTypes' /\ OtherTypes' /\ Promises'
    BY <1>1, <1>5 DEF StatusTask, MainTypes, OtherTypes, Promises, MainPlaces
  <2>2. QED
    BY <1>5, <2>1, OthersKeep DEF StatusTask
<1>6. CASE PlanResize
  <2>1. new_capacity' \in 1..MaxCapacity
    BY <1>1, <1>6, CondAssumption DEF PlanResize, Promises, RingTypes
  <2>2. MainTypes' /\ OtherTypes' /\ Promises'
    BY <1>1, <1>6, <2>1 DEF PlanResize, MainTypes, OtherTypes, Promises, MainPlaces, Tasks
  <2>3. QED
    BY <1>6, <2>2, OthersKeep DEF PlanResize
<1>7. CASE RefuseShrink
  <2>1. MainTypes' /\ OtherTypes' /\ Promises'
    BY <1>1, <1>7 DEF RefuseShrink, MainTypes, OtherTypes, Promises, MainPlaces
  <2>2. QED
    BY <1>7, <2>1, OthersKeep DEF RefuseShrink
<1>8. CASE ResizeFails
  <2>1. MainTypes' /\ OtherTypes' /\ Promises'
    BY <1>1, <1>8, CondAssumption DEF ResizeFails, MainTypes, OtherTypes, Promises, MainPlaces
  <2>2. QED
    BY <1>8, <2>1, OthersKeep DEF ResizeFails
<1>9. CASE Resized
  BY <1>9, ResizedKeeps
<1>10. CASE JoinAll
  <2>1. MainTypes' /\ OtherTypes' /\ Promises'
    BY <1>1, <1>10 DEF JoinAll, MainTypes, OtherTypes, Promises, MainPlaces, counts
  <2>2. QED
    BY <1>10, <2>1, OthersKeep DEF JoinAll, counts
<1>11. QED
  BY <1>2, <1>3, <1>4, <1>5, <1>6, <1>7, <1>8, <1>9, <1>10 DEF MainWork, resize_queue

LEMMA HandlerAndMonitorKeep ==
    ASSUME IInv, Sigint \/ SigintBroadcast \/ deadlock_monitor
    PROVE  IInv'
<1>1. RingTypes /\ MainTypes /\ OtherTypes /\ Promises
  BY DEF IInv
<1>2. CASE Sigint
  <2>1. MainTypes' /\ OtherTypes' /\ Promises'
    BY <1>1, <1>2 DEF Sigint, MainTypes, OtherTypes, Promises, mainVars, counts, ring
  <2>2. QED
    BY <1>2, <2>1, OthersKeep DEF Sigint, mainVars, counts
<1>3. CASE SigintBroadcast
  <2>1. RingTypes' /\ MainTypes' /\ OtherTypes' /\ Promises'
    BY <1>1, <1>3 DEF SigintBroadcast, RingTypes, MainTypes, OtherTypes, Promises, MainPlaces, Tasks,
       counts, ring
  <2>2. QED
    BY <1>3, <2>1, BroadcastKeeps DEF SigintBroadcast, counts
<1>4. CASE deadlock_monitor
  <2>1. MainTypes' /\ OtherTypes' /\ Promises'
    BY <1>1, <1>4 DEF deadlock_monitor, MainTypes, OtherTypes, Promises, mainVars, counts, ring
  <2>2. QED
    BY <1>4, <2>1, OthersKeep DEF deadlock_monitor, mainVars, counts
<1>5. QED
  BY <1>2, <1>3, <1>4

LEMMA StepsKeep == IInv /\ [Next]_vars => IInv'
<1> SUFFICES ASSUME IInv, [Next]_vars PROVE IInv'
  OBVIOUS
<1>1. CASE \E p \in Producers : producer_thread(p)
  BY <1>1, ProducerSteps
<1>2. CASE \E c \in Consumers : consumer_thread(c)
  BY <1>2, ConsumerSteps
<1>3. CASE SpuriousWakeup
  BY <1>3, SpuriousKeeps
<1>4. CASE UserCommand
  BY <1>4, CommandsKeep
<1>5. CASE MainWork
  BY <1>5, WorkKeeps
<1>6. CASE Sigint \/ SigintBroadcast \/ deadlock_monitor
  BY <1>6, HandlerAndMonitorKeep
<1>7. CASE UNCHANGED vars
  <2>1. MainTypes' /\ OtherTypes' /\ Promises'
    BY <1>7 DEF IInv, MainTypes, OtherTypes, Promises, vars, mainVars, counts, ring
  <2>2. QED
    BY <1>7, <2>1, OthersKeep DEF vars, mainVars, counts
<1>8. QED
  BY <1>1, <1>2, <1>3, <1>4, <1>5, <1>6, <1>7 DEF Next

-----------------------------------------------------------------------------
(* What the invariant gives *)

\* Whatever the interleaving, cancelled threads and handlers included, every
\* variable keeps its kind: count stays a natural number (queue.c:60), the
\* indexes stay within the allocation or one past it (queue.c:42, 58, 87).
THEOREM TypesHold == Spec => []TypeOK
<1>1. Init => IInv
  BY InitHolds
<1>2. IInv /\ [Next]_vars => IInv'
  BY StepsKeep
<1>3. IInv => TypeOK
  BY TypesByParts DEF IInv
<1>4. QED
  BY <1>1, <1>2, <1>3, PTL DEF Spec

\* One pthread_cond_signal per message and per free cell is enough for any
\* number of workers (queue.c:34-45, 52-63), with threads cancelled while they
\* wait, spurious wakeups and resizes (queue.c:88-89) in between.
THEOREM WakeupsHold == Spec => []NoLostWakeup
<1>1. Init => IInv
  BY InitHolds
<1>2. IInv /\ [Next]_vars => IInv'
  BY StepsKeep
<1>3. IInv => NoLostWakeup
  BY DEF IInv
<1>4. QED
  BY <1>1, <1>2, <1>3, PTL DEF Spec

-----------------------------------------------------------------------------
(* The queue in the ring *)

LEMMA ViewIsRing ==
    /\ View = Ring(buffer, head, count, capacity)
    /\ View' = Ring(buffer', head', count', capacity')
BY DEF View, Ring

LEMMA RingIsFilled ==
    ASSUME RingTypes
    PROVE  /\ capacity \in Nat \ {0} /\ count \in Nat /\ head \in Nat
           /\ Filled(buffer, capacity, Contents)
           /\ Len(View) = count
<1>1. capacity \in Nat \ {0} /\ count \in Nat /\ head \in Nat /\ 0..capacity - 1 \subseteq Cells
  BY CondAssumption DEF RingTypes, Cells
<1>2. Filled(buffer, capacity, Contents)
  BY <1>1 DEF RingTypes, Filled
<1>3. Len(View) = count
  BY <1>1 DEF View
<1>4. QED
  BY <1>1, <1>2, <1>3

\* capacity is assigned in resize_queue alone.
LEMMA OnlyResizedResizes ==
    ASSUME [Next]_vars, capacity' # capacity
    PROVE  Resized
<1>1. CASE \E p \in Producers : producer_thread(p)
  BY <1>1 DEF producer_thread, ProducerTop, push_message, PushWait, PushGiveUp, PushInsert,
              ProducerSleep, ProducerCancelled, ring
<1>2. CASE \E c \in Consumers : consumer_thread(c)
  BY <1>2 DEF consumer_thread, ConsumerTop, pop_message, PopWait, PopGiveUp, PopExtract,
              ConsumerSleep, ConsumerCancelled, ring
<1>3. CASE SpuriousWakeup \/ UserCommand \/ Sigint \/ SigintBroadcast \/ deadlock_monitor
  BY <1>3 DEF SpuriousWakeup, UserCommand, AddProducer, AddConsumer, RemoveProducer,
              RemoveConsumer, StartTask, Quit, Sigint, SigintBroadcast, deadlock_monitor, ring
<1>4. CASE MainWork
  BY <1>4 DEF MainWork, JoinProducer, JoinConsumer, MainLock, BroadcastTask, StatusTask, PlanResize,
              RefuseShrink, resize_queue, ResizeFails, JoinAll, ring
<1>5. CASE UNCHANGED vars
  BY <1>5 DEF vars, ring
<1>6. QED
  BY <1>1, <1>2, <1>3, <1>4, <1>5 DEF Next

\* A resize copies the queue to the front, in order.
LEMMA ResizedView ==
    ASSUME IInv, Resized
    PROVE  /\ View' = View /\ count <= capacity' /\ capacity' \in Nat \ {0}
           /\ UNCHANGED <<added_count, message, count>>
           /\ count < capacity' => RingOK'
<1>1. /\ capacity \in Nat \ {0} /\ count \in Nat /\ head \in Nat
      /\ count <= new_capacity /\ capacity' = new_capacity /\ new_capacity \in 1..MaxCapacity
      /\ head' = 0 /\ tail' = count /\ UNCHANGED <<added_count, message, count>>
  BY RingIsFilled DEF Resized, Unlock, MainGoto, IInv, Promises, MainTypes
<1>2. capacity' \in Nat \ {0} /\ count \in 0..capacity' /\ capacity' <= MaxCapacity
  BY <1>1, CondAssumption
<1>3. Copies(buffer, buffer', head, count, capacity)
  <2>1. \A i \in 0..count - 1 : i \in Cells /\ i < count
    BY <1>1, <1>2, CondAssumption DEF Cells
  <2>2. QED
    BY <2>1 DEF Resized, Copied, Copies
<1>4. Ring(buffer', 0, count, capacity') = Ring(buffer, head, count, capacity)
  BY <1>1, <1>2, <1>3, RingCopied
<1>5. View' = View
  BY <1>1, <1>4, ViewIsRing
<1>6. count < capacity' => RingOK'
  <2>1. SUFFICES ASSUME count < capacity' PROVE RingOK'
    OBVIOUS
  <2>2. count \in 0..capacity' - 1
    BY <1>1, <1>2, <2>1
  <2>3. count % capacity' = count
    BY <1>2, <2>2, ModSmall
  <2>4. QED
    BY <1>1, <1>2, <2>1, <2>3 DEF RingOK
<1>7. QED
  BY <1>1, <1>2, <1>5, <1>6

\* Growing or shrinking, with the ring wrapped or not, resize_queue
\* (queue.c:75-87) keeps every message in its order, and leaves a sound ring
\* unless the shrink fills it.
THEOREM ResizesHold == Spec => ResizeKeepsQueue
<1> DEFINE Kept == capacity' # capacity =>
                     View' = View /\ (RingOK /\ count < capacity' => RingOK')
<1>1. Init => IInv
  BY InitHolds
<1>2. IInv /\ [Next]_vars => IInv'
  BY StepsKeep
<1>3. IInv /\ [Next]_vars => [Kept]_vars
  <2>1. SUFFICES ASSUME IInv, [Next]_vars, capacity' # capacity
                 PROVE  View' = View /\ (RingOK /\ count < capacity' => RingOK')
    OBVIOUS
  <2>2. QED
    BY <2>1, OnlyResizedResizes, ResizedView
<1>4. QED
  BY <1>1, <1>2, <1>3, PTL DEF Spec, ResizeKeepsQueue

-----------------------------------------------------------------------------
(* The refinement *)

LEMMA InsertIsPut ==
    ASSUME IInv, RingOK, NEW p \in Producers, PushInsert(p)
    PROVE  Queue!Put
<1>1. /\ capacity \in Nat \ {0} /\ count \in Nat /\ head \in Nat
      /\ Filled(buffer, capacity, Contents) /\ Len(View) = count
  BY RingIsFilled DEF IInv
<1>2. /\ added_count' = added_count + 1 /\ count' = count + 1
      /\ UNCHANGED <<capacity, head, message>>
  BY DEF PushInsert
<1>3. count < capacity /\ head < capacity /\ tail = (head + count) % capacity
  BY <1>1 DEF PushInsert, PushMustWait, RingOK
<1>4. head \in 0..capacity - 1 /\ count \in 0..capacity - 1
  BY <1>1, <1>3
<1>5. tail \in 0..capacity - 1 /\ tail \in Cells
  <2>1. head + count \in Int
    BY <1>1
  <2>2. QED
    BY <1>1, <1>3, <2>1, ModInRing DEF IInv, RingTypes
<1>6. buffer' = [buffer EXCEPT ![tail] = added_count']
  <2>1. Stored(tail, added_count') = {added_count'}
    BY <1>1, <1>5 DEF Stored
  <2>2. QED
    BY <2>1 DEF PushInsert
<1>7. StoredAt(buffer, buffer', (head + count) % capacity, added_count', capacity)
  BY <1>3, <1>5, <1>6 DEF IInv, RingTypes, StoredAt
<1>8. added_count' \in Contents
  BY <1>2 DEF IInv, RingTypes, Contents
<1>9. Ring(buffer', head, count + 1, capacity)
        = Append(Ring(buffer, head, count, capacity), added_count')
  BY <1>1, <1>4, <1>7, <1>8, RingAppend
<1>10. View' = Append(View, added_count')
  BY <1>2, <1>9, ViewIsRing
<1>11. QED
  BY <1>1, <1>2, <1>3, <1>10 DEF Queue!Put

LEMMA ExtractIsTake ==
    ASSUME IInv, RingOK, NEW c \in Consumers, PopExtract(c)
    PROVE  Queue!Take(c)
<1>1. /\ capacity \in Nat \ {0} /\ count \in Nat /\ head \in Nat
      /\ Filled(buffer, capacity, Contents)
  BY RingIsFilled DEF IInv
<1>2. /\ head' = (head + 1) % capacity /\ count' = count - 1
      /\ UNCHANGED <<buffer, capacity, added_count>>
  BY DEF PopExtract, Advance
<1>3. head < capacity /\ count <= capacity /\ count # 0
  BY DEF PopExtract, PopMustWait, RingOK
<1>4. head \in 0..capacity - 1 /\ count \in 1..capacity
  BY <1>1, <1>3
<1>5. message' = [message EXCEPT ![c] = buffer[head]]
  BY <1>3 DEF PopExtract, Loaded
<1>6. /\ View # <<>> /\ Head(View) = buffer[head]
      /\ Tail(View) = Ring(buffer, (head + 1) % capacity, count - 1, capacity)
  <2>1. /\ Ring(buffer, head, count, capacity) # <<>>
        /\ Head(Ring(buffer, head, count, capacity)) = buffer[head]
        /\ Tail(Ring(buffer, head, count, capacity))
             = Ring(buffer, (head + 1) % capacity, count - 1, capacity)
    BY <1>1, <1>4, RingTail
  <2>2. QED
    BY <2>1, ViewIsRing
<1>7. View' = Tail(View)
  BY <1>2, <1>6, ViewIsRing
<1>8. QED
  BY <1>2, <1>5, <1>6, <1>7 DEF Queue!Take

\* All other steps leave the queue alone.
LEMMA OthersStutter ==
    ASSUME [Next]_vars, ~Resized,
           \A p \in Producers : ~PushInsert(p), \A c \in Consumers : ~PopExtract(c)
    PROVE  UNCHANGED <<buffer, capacity, head, count, added_count, message>>
<1>1. CASE \E p \in Producers : producer_thread(p)
  BY <1>1 DEF producer_thread, ProducerTop, push_message, PushWait, PushGiveUp,
              ProducerSleep, ProducerCancelled, ring
<1>2. CASE \E c \in Consumers : consumer_thread(c)
  BY <1>2 DEF consumer_thread, ConsumerTop, pop_message, PopWait, PopGiveUp,
              ConsumerSleep, ConsumerCancelled, ring
<1>3. CASE SpuriousWakeup \/ UserCommand \/ Sigint \/ SigintBroadcast \/ deadlock_monitor
  BY <1>3 DEF SpuriousWakeup, UserCommand, AddProducer, AddConsumer, RemoveProducer,
              RemoveConsumer, StartTask, Quit, Sigint, SigintBroadcast, deadlock_monitor, ring,
              workers
<1>4. CASE MainWork
  BY <1>4 DEF MainWork, JoinProducer, JoinConsumer, MainLock, BroadcastTask, StatusTask, PlanResize,
              RefuseShrink, resize_queue, ResizeFails, JoinAll, ring, workers
<1>5. CASE UNCHANGED vars
  BY <1>5 DEF vars, ring, workers
<1>6. QED
  BY <1>1, <1>2, <1>3, <1>4, <1>5 DEF Next

LEMMA StepRefines ==
    ASSUME IInv, [Next]_vars, RingOK
    PROVE  [Queue!Next]_(Queue!vars)
<1>1. CASE \E p \in Producers : PushInsert(p)
  BY <1>1, InsertIsPut DEF Queue!Next
<1>2. CASE \E c \in Consumers : PopExtract(c)
  BY <1>2, ExtractIsTake DEF Queue!Next
<1>3. CASE Resized
  <2>1. /\ View' = View /\ count <= capacity' /\ capacity' \in Nat
        /\ UNCHANGED <<added_count, message>>
    BY <1>3, ResizedView
  <2>2. Len(View) = count
    BY RingIsFilled DEF IInv
  <2>3. Queue!SetLimit
    BY <2>1, <2>2 DEF Queue!SetLimit
  <2>4. QED
    BY <2>3 DEF Queue!Next
<1>4. CASE /\ ~Resized
           /\ \A p \in Producers : ~PushInsert(p)
           /\ \A c \in Consumers : ~PopExtract(c)
  <2>1. UNCHANGED <<buffer, capacity, head, count, added_count, message>>
    BY <1>4, OthersStutter
  <2>2. View' = View
    BY <2>1, ViewIsRing
  <2>3. QED
    BY <2>1, <2>2 DEF Queue!vars
<1>5. QED
  BY <1>1, <1>2, <1>3, <1>4

\* The ring of lab05-2 is a bounded FIFO queue (queue.c:32-92) as long as its
\* indexes are sound: every insertion, extraction and resize, in any
\* interleaving, is a step of the abstract queue, and nothing else touches it.
THEOREM RefinementHolds == Spec => RefinesQueue
<1>1. Init => IInv
  BY InitHolds
<1>2. IInv /\ [Next]_vars => IInv'
  BY StepsKeep
<1>3. Init => Queue!Init
  <2>1. ASSUME Init PROVE View = <<>>
    BY <2>1 DEF Init, View
  <2>2. QED
    BY <2>1 DEF Init, Queue!Init
<1>4. IInv /\ [Next]_vars => [RingOK => [Queue!Next]_(Queue!vars)]_vars
  BY StepRefines
<1>5. QED
  BY <1>1, <1>2, <1>3, <1>4, PTL DEF Spec, RefinesQueue
================================================================================
