------------------------------ MODULE ThreadQueue ------------------------------
(***************************************************************************)
(* lab05-1: producer and consumer threads around one ring buffer guarded by *)
(* a mutex and two counting semaphores, and the main thread that reads      *)
(* commands, starts and joins workers, and resizes the ring while they run. *)
(*                                                                         *)
(* One step of the model is one stretch of code between two points where    *)
(* another thread can observe or change shared state.  What runs between    *)
(* the lock and the unlock of queue.mutex is one step.                      *)
(***************************************************************************)
EXTENDS Integers, Sequences, FiniteSets

CONSTANTS MaxProducers,  \* bound on prod_count (the code never checks MAX_THREADS)
          MaxConsumers,  \* bound on cons_count
          InitCapacity,  \* main passes 10
          MaxCapacity,   \* bound on what '>' grows the ring to
          MaxMessages,   \* bound on the messages producers generate
          Commands,      \* what the user, the terminal and signals may do
          AllocOutcomes  \* whether realloc and malloc may succeed, fail, or both

ASSUME SizesAssumption ==
    /\ MaxProducers \in Nat
    /\ MaxConsumers \in Nat
    /\ InitCapacity \in Nat \ {0}
    /\ MaxCapacity \in Nat
    /\ InitCapacity <= MaxCapacity
    /\ MaxMessages \in Nat

ASSUME CommandsAssumption ==
    /\ Commands \subseteq {"+", "-", "P", "C", ">", "<", "q", "EOF", "SIGINT"}
    /\ AllocOutcomes \subseteq BOOLEAN

Producers == 1..MaxProducers
Consumers == 1..MaxConsumers
Cells     == 0..MaxCapacity   \* one more than any allocation: tail may stand there

(* A message is named by its rank among the insertions.  A cell that holds *)
(* none is Junk when malloc or realloc left it unset, Blank after memset.  *)
Junk  == -1
Blank == 0
Messages == Nat \ {0}
Contents == Messages \cup {Junk, Blank}

NoOne       == <<"no one", 0>>
MainThread  == <<"main", 0>>
Producer(p) == <<"producer", p>>
Consumer(c) == <<"consumer", c>>
Owners == {NoOne, MainThread} \cup {Producer(p) : p \in Producers}
                              \cup {Consumer(c) : c \in Consumers}

VARIABLES
  terminate_flag, pause_processing, producer_exit_flags, consumer_exit_flags,
  buffer, capacity, head, tail, count, added_count, removed_count,
  mutex,                \* who holds queue.mutex
  resize_mutex,         \* who holds resize_mutex
  sem_free, sem_full,
  ppc, cpc,             \* where each worker stands in its loop
  message,              \* the consumers' local variable of that name
  main_pc, prod_count, cons_count, new_capacity,
  monitor               \* the deadlock_monitor thread: running or done

exit_flags == <<producer_exit_flags, consumer_exit_flags>>
flags    == <<terminate_flag, pause_processing, exit_flags>>
ring     == <<buffer, capacity, head, tail, count, added_count, removed_count>>
sync     == <<mutex, resize_mutex, sem_free, sem_full>>
workers  == <<ppc, cpc, message>>
counts   == <<prod_count, cons_count, new_capacity>>
mainVars == <<main_pc, counts>>
vars     == <<flags, ring, sync, workers, mainVars, monitor>>

ProducerPlaces == {"absent", "top", "paused", "gate", "wait", "timeout",
                   "lock", "insert", "post", "done"}
ConsumerPlaces == {"absent", "top", "gate", "wait", "timeout",
                   "lock", "extract", "post", "done"}
MainPlaces     == {"command", "join_producer", "join_consumer", "resize_enter",
                   "resize_lock", "resize", "resume", "join_all", "exited"}

\* How many of the threads with program counters pc stand at the places.
Number(pc, places) == Cardinality({t \in DOMAIN pc : pc[t] \in places})

Init ==
    /\ terminate_flag = FALSE
    /\ pause_processing = FALSE
    /\ producer_exit_flags = [p \in Producers |-> FALSE]
    /\ consumer_exit_flags = [c \in Consumers |-> FALSE]
    /\ buffer = [i \in Cells |-> Junk]
    /\ capacity = InitCapacity
    /\ head = 0 /\ tail = 0 /\ count = 0
    /\ added_count = 0 /\ removed_count = 0
    /\ mutex = NoOne /\ resize_mutex = NoOne
    /\ sem_free = InitCapacity /\ sem_full = 0
    /\ ppc = [p \in Producers |-> "absent"]
    /\ cpc = [c \in Consumers |-> "absent"]
    /\ message = [c \in Consumers |-> Junk]
    /\ main_pc = "command"
    /\ prod_count = 0 /\ cons_count = 0 /\ new_capacity = 0
    /\ monitor = "running"

-----------------------------------------------------------------------------
(* Ring arithmetic, as the code writes it.  An access at or beyond the      *)
(* allocation is undefined: the value may survive or not.                   *)

AdvanceLate(i) == (i + 1) % (capacity + 1)   \* mutant: wraps one cell late

Advance(i) == (i + 1) % capacity

Stored(i, m) == IF i < capacity THEN {m} ELSE {m, Junk}
Loaded(i)    == IF i < capacity THEN {buffer[i]} ELSE {buffer[i], Junk}

-----------------------------------------------------------------------------
(* producer_thread *)

PMove(p, from, to) == /\ ppc[p] = from /\ ppc' = [ppc EXCEPT ![p] = to]
                      /\ UNCHANGED <<flags, cpc, message, mainVars, monitor>>
PWalk(p, from, to) == PMove(p, from, to) /\ UNCHANGED <<ring, sync>>

\* The threads that generated a message and have not inserted it yet.
Pending == Number(ppc, {"paused", "gate", "wait", "timeout", "lock", "insert"})

ProducerStop(p) == (terminate_flag \/ producer_exit_flags[p]) /\ PWalk(p, "top", "done")

ProducerGenerate(p) ==
    /\ ~terminate_flag /\ ~producer_exit_flags[p]
    /\ added_count + Pending < MaxMessages
    /\ PWalk(p, "top", "paused")

\* The spin on pause_processing ends.
ProducerUnpaused(p) == ~pause_processing /\ PWalk(p, "paused", "gate")

\* resize_mutex is taken and given back at once.
ProducerGate(p) == resize_mutex = NoOne /\ PWalk(p, "gate", "wait")

ProducerAcquire(p) ==
    /\ sem_free > 0 /\ sem_free' = sem_free - 1
    /\ PMove(p, "wait", "lock")
    /\ UNCHANGED <<ring, mutex, resize_mutex, sem_full>>

\* sem_timedwait returned ETIMEDOUT.
ProducerTimeout(p) == sem_free = 0 /\ PWalk(p, "wait", "timeout")

ProducerRetries(p) == PWalk(p, "timeout", "wait")   \* mutant: the flag is not looked at

ProducerTimedOut(p) == PWalk(p, "timeout", IF terminate_flag THEN "done" ELSE "wait")

ProducerLock(p) ==
    /\ mutex = NoOne /\ mutex' = Producer(p)
    /\ PMove(p, "lock", "insert")
    /\ UNCHANGED <<ring, resize_mutex, sem_free, sem_full>>

ProducerInsert(p) ==
    /\ added_count' = added_count + 1
    /\ \E m \in Stored(tail, added_count') : buffer' = [buffer EXCEPT ![tail] = m]
    /\ tail' = Advance(tail)
    /\ count' = count + 1
    /\ mutex' = NoOne
    /\ PMove(p, "insert", "post")
    /\ UNCHANGED <<capacity, head, removed_count, resize_mutex, sem_free, sem_full>>

PostFullOnce == sem_full' = 1   \* mutant: a token is posted only where there is none

PostFull == sem_full' = sem_full + 1

ProducerPost(p) ==
    /\ PostFull
    /\ PMove(p, "post", "top")
    /\ UNCHANGED <<ring, mutex, resize_mutex, sem_free>>

producer_thread(p) ==
    \/ ProducerStop(p) \/ ProducerGenerate(p) \/ ProducerUnpaused(p) \/ ProducerGate(p)
    \/ ProducerAcquire(p) \/ ProducerTimeout(p) \/ ProducerTimedOut(p)
    \/ ProducerLock(p) \/ ProducerInsert(p) \/ ProducerPost(p)

-----------------------------------------------------------------------------
(* consumer_thread *)

CMove(c, from, to) == /\ cpc[c] = from /\ cpc' = [cpc EXCEPT ![c] = to]
                      /\ UNCHANGED <<flags, ppc, mainVars, monitor>>
CWalk(c, from, to) == CMove(c, from, to) /\ UNCHANGED <<ring, sync, message>>

ConsumerTop(c) ==
    CWalk(c, "top", IF terminate_flag \/ consumer_exit_flags[c] THEN "done" ELSE "gate")

ConsumerGate(c) == resize_mutex = NoOne /\ CWalk(c, "gate", "wait")

TokenAnyway == TRUE   \* mutant: the result of sem_timedwait is not looked at

TokenReady == sem_full > 0

ConsumerAcquire(c) ==
    /\ TokenReady /\ sem_full' = sem_full - 1
    /\ CMove(c, "wait", "lock")
    /\ UNCHANGED <<ring, message, mutex, resize_mutex, sem_free>>

ConsumerTimeout(c) == sem_full = 0 /\ CWalk(c, "wait", "timeout")

\* mutant: a timeout is taken for a token
ConsumerProceeds(c) == CWalk(c, "timeout", IF terminate_flag THEN "done" ELSE "lock")

ConsumerTimedOut(c) == CWalk(c, "timeout", IF terminate_flag THEN "done" ELSE "wait")

ConsumerLock(c) ==
    /\ mutex = NoOne /\ mutex' = Consumer(c)
    /\ CMove(c, "lock", "extract")
    /\ UNCHANGED <<ring, message, resize_mutex, sem_free, sem_full>>

ConsumerExtract(c) ==
    /\ \E m \in Loaded(head) : message' = [message EXCEPT ![c] = m]
    /\ head' = Advance(head)
    /\ count' = count - 1
    /\ removed_count' = removed_count + 1
    /\ mutex' = NoOne
    /\ CMove(c, "extract", "post")
    /\ UNCHANGED <<buffer, capacity, tail, added_count, resize_mutex, sem_free, sem_full>>

ConsumerKeepsSlot(c) == CWalk(c, "post", "top")   \* mutant: the free slot is not given back

ConsumerPost(c) ==
    /\ sem_free' = sem_free + 1
    /\ CMove(c, "post", "top")
    /\ UNCHANGED <<ring, message, mutex, resize_mutex, sem_full>>

consumer_thread(c) ==
    \/ ConsumerTop(c) \/ ConsumerGate(c) \/ ConsumerAcquire(c) \/ ConsumerTimeout(c)
    \/ ConsumerTimedOut(c) \/ ConsumerLock(c) \/ ConsumerExtract(c) \/ ConsumerPost(c)

-----------------------------------------------------------------------------
(* main: the commands.  A refused command changes nothing and is no step.   *)

\* main goes from one place to another; it alone changes its own variables.
Main(from, to) == main_pc = from /\ main_pc' = to /\ UNCHANGED monitor

Command(k, to) == k \in Commands /\ Main("command", to)

AddProducer ==
    /\ Command("+", "command")
    /\ prod_count < MaxProducers /\ prod_count' = prod_count + 1
    /\ ppc' = [ppc EXCEPT ![prod_count'] = "top"]
    /\ UNCHANGED <<flags, ring, sync, cpc, message, cons_count, new_capacity>>

AddConsumer ==
    /\ Command("-", "command")
    /\ cons_count < MaxConsumers /\ cons_count' = cons_count + 1
    /\ cpc' = [cpc EXCEPT ![cons_count'] = "top"]
    /\ UNCHANGED <<flags, ring, sync, ppc, message, prod_count, new_capacity>>

\* The exit flag is set here and never reset: a thread started later under
\* the same number sees it.
RemoveProducer ==
    /\ Command("P", "join_producer")
    /\ prod_count > 0
    /\ producer_exit_flags' = [producer_exit_flags EXCEPT ![prod_count] = TRUE]
    /\ UNCHANGED <<terminate_flag, pause_processing, consumer_exit_flags, counts, ring, sync, workers>>

RemoveConsumer ==
    /\ Command("C", "join_consumer")
    /\ cons_count > 0
    /\ consumer_exit_flags' = [consumer_exit_flags EXCEPT ![cons_count] = TRUE]
    /\ UNCHANGED <<terminate_flag, pause_processing, producer_exit_flags, counts, ring, sync, workers>>

JoinProducer ==
    /\ Main("join_producer", "command")
    /\ ppc[prod_count] = "done" /\ ppc' = [ppc EXCEPT ![prod_count] = "absent"]
    /\ prod_count' = prod_count - 1
    /\ UNCHANGED <<flags, ring, sync, cpc, message, cons_count, new_capacity>>

JoinConsumer ==
    /\ Main("join_consumer", "command")
    /\ cpc[cons_count] = "done" /\ cpc' = [cpc EXCEPT ![cons_count] = "absent"]
    /\ cons_count' = cons_count - 1
    /\ UNCHANGED <<flags, ring, sync, ppc, message, prod_count, new_capacity>>

Grow ==
    /\ Command(">", "resize_enter")
    /\ capacity < MaxCapacity /\ new_capacity' = capacity + 1
    /\ UNCHANGED <<flags, ring, sync, workers, prod_count, cons_count>>

\* count is read without a lock, and producers past their check of
\* pause_processing keep going during and after the sleep(1).
Shrink ==
    /\ Command("<", "resize_enter")
    /\ count = 0 /\ capacity > 2 /\ new_capacity' = capacity - 1
    /\ pause_processing' = TRUE
    /\ UNCHANGED <<terminate_flag, exit_flags, ring, sync, workers, prod_count, cons_count>>

\* The loop over the commands ends: 'q' sets the flag, end of input does not.
Quit ==
    /\ \/ Command("q", "join_all") /\ terminate_flag' = TRUE
       \/ Command("EOF", "join_all") /\ UNCHANGED terminate_flag
    /\ UNCHANGED <<pause_processing, exit_flags, counts, ring, sync, workers>>

\* The handler runs on the main thread.  Only a waiting fgets notices: it
\* fails with EINTR and ends the loop.  A signal that comes just before fgets
\* waits is seen by nobody in main; joins, locks and sleep carry on too.
sigint_handler ==
    /\ "SIGINT" \in Commands /\ main_pc # "exited"
    /\ terminate_flag' = TRUE
    /\ Main(main_pc, main_pc) \/ Main("command", "join_all")
    /\ UNCHANGED <<pause_processing, exit_flags, counts, ring, sync, workers>>

-----------------------------------------------------------------------------
(* main inside resize_thread_queue *)

ResizeEnter ==
    /\ Main("resize_enter", "resize_lock")
    /\ resize_mutex = NoOne /\ resize_mutex' = MainThread
    /\ UNCHANGED <<flags, counts, ring, mutex, sem_free, sem_full, workers>>

ResizeLock ==
    /\ Main("resize_lock", "resize")
    /\ mutex = NoOne /\ mutex' = MainThread
    /\ UNCHANGED <<flags, counts, ring, resize_mutex, sem_free, sem_full, workers>>

UnlockQueueOnly == mutex' = NoOne /\ UNCHANGED resize_mutex   \* mutant: resize_mutex is kept

UnlockBoth == mutex' = NoOne /\ resize_mutex' = NoOne

ResizeReturn ==
    /\ Main("resize", IF pause_processing THEN "resume" ELSE "command")
    /\ UnlockBoth
    /\ UNCHANGED <<flags, counts, count, added_count, removed_count, sem_full, workers>>

\* Too many messages, or realloc returned NULL.
ResizeRefused ==
    /\ new_capacity < count \/ FALSE \in AllocOutcomes
    /\ ResizeReturn
    /\ UNCHANGED <<buffer, capacity, head, tail, sem_free>>

\* What realloc and memset leave; beyond the new end nothing is promised.
Reallocated(kept) ==
    [i \in Cells |-> IF i < new_capacity
                     THEN IF i < capacity THEN buffer[i] ELSE Blank
                     ELSE IF kept THEN buffer[i] ELSE Junk]

\* mutant: the old ring is walked with the new modulus
StraightenedByNew(cells) ==
    [i \in Cells |-> IF i < count THEN cells[(head + i) % new_capacity] ELSE cells[i]]

\* The queue copied to the front, in order, by way of temp.
Straightened(cells) ==
    [i \in Cells |-> IF i < count THEN cells[(head + i) % capacity] ELSE cells[i]]

NeedsStraightening == head # 0 /\ count > 0

RestartHead == head' = 0 /\ UNCHANGED tail   \* mutant: tail stays behind

RestartIndexes == head' = 0 /\ tail' = count

AfterTrywait == IF sem_free > 0 THEN sem_free - 1 ELSE 0

TakeFree == sem_free' = AfterTrywait   \* mutant: growing takes a token

\* Main resizes by one, so the correction is one post or one sem_trywait,
\* which takes nothing when every token is out.
CorrectFree == sem_free' = IF new_capacity > capacity THEN sem_free + 1 ELSE AfterTrywait

Resized ==
    /\ count <= new_capacity /\ TRUE \in AllocOutcomes
    /\ capacity' = new_capacity
    /\ \E kept \in BOOLEAN :
         \/ /\ NeedsStraightening
            /\ buffer' = Straightened(Reallocated(kept)) /\ RestartIndexes
         \/ /\ ~NeedsStraightening \/ FALSE \in AllocOutcomes   \* no memory for temp
            /\ buffer' = Reallocated(kept) /\ UNCHANGED <<head, tail>>
    /\ CorrectFree
    /\ ResizeReturn

resize_thread_queue == ResizeEnter \/ ResizeLock \/ ResizeRefused \/ Resized

Resume ==
    /\ Main("resume", "command")
    /\ pause_processing' = FALSE
    /\ UNCHANGED <<terminate_flag, exit_flags, counts, ring, sync, workers>>

-----------------------------------------------------------------------------
(* The end *)

deadlock_monitor ==
    /\ terminate_flag
    /\ monitor = "running" /\ monitor' = "done"
    /\ UNCHANGED <<flags, ring, sync, workers, mainVars>>

\* The joins in the order of the code come to waiting for all of them; then
\* the ring is freed and the mutex and semaphores are destroyed.
JoinAll ==
    /\ Main("join_all", "exited")
    /\ \A p \in Producers : p <= prod_count => ppc[p] = "done"
    /\ \A c \in Consumers : c <= cons_count => cpc[c] = "done"
    /\ monitor = "done"
    /\ UNCHANGED <<flags, counts, ring, sync, workers>>

Exited == main_pc = "exited" /\ UNCHANGED vars

UserCommand == \/ AddProducer \/ AddConsumer \/ RemoveProducer \/ RemoveConsumer
               \/ Grow \/ Shrink \/ Quit

MainWork == JoinProducer \/ JoinConsumer \/ resize_thread_queue \/ Resume \/ JoinAll

Next == \/ \E p \in Producers : producer_thread(p)
        \/ \E c \in Consumers : consumer_thread(c)
        \/ UserCommand \/ sigint_handler \/ MainWork \/ deadlock_monitor
        \/ Exited

(* The scheduler runs every thread that can run.  A mutex or semaphore that *)
(* is handed to others again and again could starve a waiter for ever, but  *)
(* only while messages keep coming.  The user need not type anything.       *)
Fairness == /\ \A p \in Producers : WF_vars(producer_thread(p))
            /\ \A c \in Consumers : WF_vars(consumer_thread(c))
            /\ WF_vars(MainWork)
            /\ WF_vars(deadlock_monitor)

Spec     == Init /\ [][Next]_vars
FairSpec == Spec /\ Fairness

-----------------------------------------------------------------------------
(* Properties *)

FlagTypes == /\ terminate_flag \in BOOLEAN /\ pause_processing \in BOOLEAN
             /\ producer_exit_flags \in [Producers -> BOOLEAN]
             /\ consumer_exit_flags \in [Consumers -> BOOLEAN]

RingTypes == /\ buffer \in [Cells -> Contents]
             /\ capacity \in 1..MaxCapacity
             /\ head \in Cells /\ tail \in Cells
             /\ count \in Nat /\ added_count \in Nat /\ removed_count \in Nat

SyncTypes == /\ mutex \in Owners /\ resize_mutex \in {NoOne, MainThread}
             /\ sem_free \in Nat /\ sem_full \in Nat

WorkerTypes == /\ ppc \in [Producers -> ProducerPlaces]
               /\ cpc \in [Consumers -> ConsumerPlaces]
               /\ message \in [Consumers -> Contents]

MainTypes == /\ main_pc \in MainPlaces
             /\ prod_count \in 0..MaxProducers /\ cons_count \in 0..MaxConsumers
             /\ new_capacity \in 0..MaxCapacity
             /\ monitor \in {"running", "done"}

\* Every variable keeps its kind; counts are never negative and the indexes
\* never leave the largest ring by more than the one place tail may stand at.
TypeOK == FlagTypes /\ RingTypes /\ SyncTypes /\ WorkerTypes /\ MainTypes

\* Tokens in flight: taken from a semaphore by a thread that has not changed
\* count yet, or owed to one by a thread that has.
Inserting  == {"lock", "insert"}
Extracting == {"lock", "extract"}
Posting    == {"post"}

FreeTokens == sem_free + Number(ppc, Inserting) + Number(cpc, Posting)
FullTokens == sem_full + Number(cpc, Extracting) + Number(ppc, Posting)

\* The mutex and the semaphores agree on the queue (producer.c:66-83,
\* consumer.c:31-46, thread_queue.c:79-92): every message counted is one token
\* of sem_full, in the semaphore or in flight, whatever commands were given.
FullTokensMatch == count = FullTokens

\* No free slot is ever forgotten: a full ring and a blocked producer mean
\* what they say.  A shrink whose sem_trywait fails leaves a token too many.
FreeTokensCover == capacity <= count + FreeTokens

\* As long as the ring is never shrunk the free slots are matched exactly,
\* so that count never passes capacity.
FreeTokensMatch == capacity = count + FreeTokens

\* The queue as its users see it, oldest message first.
View == [i \in 1..count |-> buffer[(head + i - 1) % capacity]]

Queue == INSTANCE BoundedQueue WITH
            Takers <- Consumers, InitialLimit <- InitCapacity, Nothing <- Junk,
            items <- View, limit <- capacity, sent <- added_count, held <- message

\* The ring, the mutex and the two semaphores implement a bounded FIFO queue
\* while it is not resized: no message lost, repeated or overtaken by any
\* interleaving of insertions, extractions, removals of threads and shutdown.
RefinesQueue == Queue!Spec

RingOK == /\ head < capacity /\ count <= capacity
          /\ tail = (head + count) % capacity

\* A resize (thread_queue.c:47-77) moves no message: from a sound ring it
\* leaves the same queue, unless the copy could not be made or the shrink cut
\* off cells in use.
ResizeKeepsMessages ==
    [][ /\ capacity' # capacity /\ RingOK
        /\ count > 0 => head' = 0
        /\ capacity' < capacity => head + count <= capacity'
        => View' = View ]_vars

\* After '>' (main.c:139-144) the next insertion still goes behind the last
\* message, unless the ring was full with its first message in cell 0.
GrowKeepsTail ==
    [][ /\ capacity' > capacity /\ RingOK
        /\ count > 0 => head' = 0
        /\ ~(count = capacity /\ head = 0)
        => RingOK' ]_vars

\* thread_queue.h:14 calls count the number of messages in the queue: the
\* count cells from head on would all hold inserted messages.
QueueHoldsMessages == \A i \in DOMAIN View : View[i] \in Messages

\* A resize ends, and the pause it asked for ends, whatever the workers do
\* (main.c:156-160, thread_queue.c:37-98).
ResizeEnds == (main_pc \in {"resize_enter", "resize_lock", "resize"} \/ pause_processing)
                 ~> (main_pc = "command" /\ ~pause_processing)

\* A message that was inserted is taken, as long as some consumer is neither
\* told to stop nor gone (consumer.c:23-57).
MessagesAreTaken ==
    \A n \in 1..MaxMessages :
      (added_count >= n) ~>
        \/ removed_count >= n
        \/ terminate_flag
        \/ \A c \in Consumers : cpc[c] \in {"absent", "done"} \/ consumer_exit_flags[c]

\* Once main waits for its workers with the flag set, every worker, whatever
\* it was doing, notices, and main reaches the end (main.c:167-178).
ShutdownCompletes == (terminate_flag /\ main_pc = "join_all") ~> (main_pc = "exited")
===============================================================================
