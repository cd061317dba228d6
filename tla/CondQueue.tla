------------------------------- MODULE CondQueue -------------------------------
(***************************************************************************)
(* lab05-2: producer and consumer threads around one ring buffer guarded by *)
(* a mutex and the condition variables not_empty and not_full.  Main adds    *)
(* workers, removes them with pthread_cancel, resizes the ring and ends the  *)
(* program; its SIGINT handler takes the mutex too.                          *)
(*                                                                         *)
(* What a worker or the monitor does between lock and unlock is one step.    *)
(* Main's stretches are two, lock and the rest, because its own signal       *)
(* handler may run in between.                                              *)
(***************************************************************************)
EXTENDS Integers, Sequences, FiniteSets

CONSTANTS MaxProducers,  \* bound on prod_count (the code never checks MAX_THREADS)
          MaxConsumers,  \* bound on cons_count
          InitCapacity,  \* INITIAL_CAPACITY, 10 in the code
          MaxCapacity,   \* bound on what '>' grows the ring to
          MaxMessages,   \* bound on the messages producers generate
          Sessions       \* what users do, each within bounds of its own

\* The commands are what the user types, the end of input, and SIGINT.
Session == [producers : 0..MaxProducers, consumers : 0..MaxConsumers,
            capacity : InitCapacity..MaxCapacity, messages : 0..MaxMessages,
            commands : SUBSET {"+", "-", "d", "f", ">", "<", "p", "q", "EOF", "SIGINT"}]

ASSUME CondAssumption ==
    /\ MaxProducers \in Nat /\ MaxConsumers \in Nat /\ MaxMessages \in Nat
    /\ InitCapacity \in Nat \ {0} /\ MaxCapacity \in Nat
    /\ InitCapacity <= MaxCapacity
    /\ Sessions \subseteq Session

Producers == 1..MaxProducers
Consumers == 1..MaxConsumers
Cells     == 0..MaxCapacity   \* one more than any allocation: tail may stand there

\* A message is named by its rank among the insertions; Junk is what malloc left.
Junk     == 0
Contents == Nat

\* Who holds the mutex across a step: main, or a thread that was cancelled in
\* pthread_cond_wait, took the mutex back and died.
NoOne == "no one"   Main == "main"   Dead == "dead"

VARIABLES
  session,                 \* chosen once
  terminate_flag,
  buffer, capacity, head, tail, count, added_count, removed_count,
  mutex,
  ppc, cpc,                \* where each worker stands
  message,                 \* what pop_message last stored for each consumer
  main_pc, prod_count, cons_count, new_capacity,
  handling,                \* sigint_handler is running, on the main thread
  monitor

ring     == <<buffer, capacity, head, tail, count, added_count, removed_count>>
workers  == <<ppc, cpc, message>>
counts   == <<prod_count, cons_count, new_capacity>>
mainVars == <<session, main_pc, counts>>
vars     == <<terminate_flag, ring, mutex, workers, mainVars, handling, monitor>>

WorkerPlaces == {"absent", "top", "lock", "wait", "sleep", "done"}

\* What main does with the mutex in its hands.
Tasks == {"broadcast", "grow", "shrink", "resize", "status", "final"}
MainPlaces == Tasks \cup {"command", "join_producer", "join_consumer", "join_all", "exited"}

\* init_queue
Init ==
    /\ session \in Sessions
    /\ terminate_flag = FALSE
    /\ buffer = [i \in Cells |-> Junk]
    /\ capacity = InitCapacity
    /\ head = 0 /\ tail = 0 /\ count = 0
    /\ added_count = 0 /\ removed_count = 0
    /\ mutex = NoOne
    /\ ppc = [p \in Producers |-> "absent"]
    /\ cpc = [c \in Consumers |-> "absent"]
    /\ message = [c \in Consumers |-> Junk]
    /\ main_pc = "command"
    /\ prod_count = 0 /\ cons_count = 0 /\ new_capacity = 0
    /\ handling = FALSE /\ monitor = "top"

-----------------------------------------------------------------------------
(* Condition variables.  A thread waits on one alone: producers on not_full, *)
(* consumers on not_empty.  A woken thread must get the mutex, then looks at *)
(* the queue again, as one that has just come.                              *)

At(pc, place) == {t \in DOMAIN pc : pc[t] = place}

Woken(pc, S) == [t \in DOMAIN pc |-> IF t \in S THEN "lock" ELSE pc[t]]

\* pthread_cond_signal: one waiting thread, any of them, if there is one.
Signal(pc, next) ==
    IF At(pc, "wait") = {} THEN next = pc
                           ELSE \E t \in At(pc, "wait") : next = Woken(pc, {t})

Broadcast == ppc' = Woken(ppc, At(ppc, "wait")) /\ cpc' = Woken(cpc, At(cpc, "wait"))

-----------------------------------------------------------------------------
(* producer_thread and push_message *)

AdvanceLate(i) == (i + 1) % (capacity + 1)   \* mutant: wraps one cell late

Advance(i) == (i + 1) % capacity

\* Beyond the allocation a write may be lost and a read may find anything.
Stored(i, m) == IF i < capacity THEN {m} ELSE {m, Junk}
Loaded(i)    == IF i < capacity THEN {buffer[i]} ELSE {buffer[i], Junk}

PGoto(p, from, to) == ppc[p] = from /\ ppc' = [ppc EXCEPT ![p] = to]

elsewhere == <<terminate_flag, mainVars, handling, monitor>>

\* Main has asked for the end of the thread and waits for it.
PCancelled(p) == main_pc = "join_producer" /\ p = prod_count
CCancelled(c) == main_pc = "join_consumer" /\ c = cons_count

\* How many threads generated a message and have not inserted it yet.
Pending == Cardinality(At(ppc, "lock") \cup At(ppc, "wait"))

ProducerTop(p) ==
    /\ \/ terminate_flag /\ PGoto(p, "top", "done")
       \/ /\ ~terminate_flag /\ added_count + Pending < session.messages
          /\ PGoto(p, "top", "lock")
    /\ UNCHANGED <<ring, mutex, cpc, message, elsewhere>>

MustWaitAlways == count = capacity   \* mutant: the flag does not end the wait

PushMustWait == count = capacity /\ ~terminate_flag

PushWait(p) ==
    /\ mutex = NoOne /\ PushMustWait
    /\ PGoto(p, "lock", "wait")
    /\ UNCHANGED <<ring, mutex, cpc, message, elsewhere>>

\* The message is dropped, though the thread goes on to report it as added.
PushGiveUp(p) ==
    /\ mutex = NoOne /\ ~PushMustWait /\ terminate_flag
    /\ PGoto(p, "lock", "sleep")
    /\ UNCHANGED <<ring, mutex, cpc, message, elsewhere>>

\* mutant: not_empty is signalled only when the queue was empty
SignalIfEmpty(pc, next) == IF count = 0 THEN Signal(pc, next) ELSE next = pc

SignalNone(pc, next) == next = pc   \* mutant: nobody is told

SignalNotEmpty(pc, next) == Signal(pc, next)

PushInsert(p) ==
    /\ mutex = NoOne /\ ~PushMustWait /\ ~terminate_flag
    /\ added_count' = added_count + 1
    /\ \E m \in Stored(tail, added_count') : buffer' = [buffer EXCEPT ![tail] = m]
    /\ tail' = Advance(tail)
    /\ count' = count + 1
    /\ SignalNotEmpty(cpc, cpc')
    /\ PGoto(p, "lock", "sleep")
    /\ UNCHANGED <<capacity, head, removed_count, mutex, message, elsewhere>>

push_message(p) == PushWait(p) \/ PushGiveUp(p) \/ PushInsert(p)

\* sleep(3), a cancellation point like the printf before it.
ProducerSleep(p) ==
    /\ PGoto(p, "sleep", IF PCancelled(p) THEN "done" ELSE "top")
    /\ UNCHANGED <<ring, mutex, cpc, message, elsewhere>>

\* Cancellation in pthread_cond_wait: the mutex is taken back, and no cleanup
\* handler gives it up.
ProducerCancelled(p) ==
    /\ PCancelled(p) /\ mutex = NoOne
    /\ PGoto(p, "wait", "done") /\ mutex' = Dead
    /\ UNCHANGED <<ring, cpc, message, elsewhere>>

producer_thread(p) ==
    ProducerTop(p) \/ push_message(p) \/ ProducerSleep(p) \/ ProducerCancelled(p)

-----------------------------------------------------------------------------
(* consumer_thread and pop_message *)

CGoto(c, from, to) == cpc[c] = from /\ cpc' = [cpc EXCEPT ![c] = to]

ConsumerTop(c) ==
    /\ CGoto(c, "top", IF terminate_flag THEN "done" ELSE "lock")
    /\ UNCHANGED <<ring, mutex, ppc, message, elsewhere>>

NeverWaits == FALSE   \* mutant: an empty queue is taken from

PopMustWait == count = 0 /\ ~terminate_flag

PopWait(c) ==
    /\ mutex = NoOne /\ PopMustWait
    /\ CGoto(c, "lock", "wait")
    /\ UNCHANGED <<ring, mutex, ppc, message, elsewhere>>

\* *m is left unset; what the consumer prints and checks next is no message.
PopGiveUp(c) ==
    /\ mutex = NoOne /\ ~PopMustWait /\ terminate_flag
    /\ CGoto(c, "lock", "sleep")
    /\ UNCHANGED <<ring, mutex, ppc, message, elsewhere>>

SignalNotFull(pc, next) == Signal(pc, next)

PopExtract(c) ==
    /\ mutex = NoOne /\ ~PopMustWait /\ ~terminate_flag
    /\ \E m \in Loaded(head) : message' = [message EXCEPT ![c] = m]
    /\ head' = Advance(head)
    /\ count' = count - 1
    /\ removed_count' = removed_count + 1
    /\ SignalNotFull(ppc, ppc')
    /\ CGoto(c, "lock", "sleep")
    /\ UNCHANGED <<buffer, capacity, tail, added_count, mutex, elsewhere>>

pop_message(c) == PopWait(c) \/ PopGiveUp(c) \/ PopExtract(c)

ConsumerSleep(c) ==
    /\ CGoto(c, "sleep", IF CCancelled(c) THEN "done" ELSE "top")
    /\ UNCHANGED <<ring, mutex, ppc, message, elsewhere>>

ConsumerCancelled(c) ==
    /\ CCancelled(c) /\ mutex = NoOne
    /\ CGoto(c, "wait", "done") /\ mutex' = Dead
    /\ UNCHANGED <<ring, ppc, message, elsewhere>>

consumer_thread(c) ==
    ConsumerTop(c) \/ pop_message(c) \/ ConsumerSleep(c) \/ ConsumerCancelled(c)

\* pthread_cond_wait may return without a signal.
SpuriousWakeup ==
    /\ \/ \E p \in At(ppc, "wait") : ppc' = Woken(ppc, {p}) /\ UNCHANGED cpc
       \/ \E c \in At(cpc, "wait") : cpc' = Woken(cpc, {c}) /\ UNCHANGED ppc
    /\ UNCHANGED <<ring, mutex, message, elsewhere>>

-----------------------------------------------------------------------------
(* main: the commands.  A refused command changes nothing and is no step.   *)

MainGoto(from, to) == /\ ~handling /\ main_pc = from /\ main_pc' = to
                      /\ UNCHANGED <<session, handling, monitor>>

Command(k, to) == k \in session.commands /\ MainGoto("command", to)

AddProducer ==
    /\ Command("+", "command")
    /\ prod_count < session.producers /\ prod_count' = prod_count + 1
    /\ ppc' = [ppc EXCEPT ![prod_count'] = "top"]
    /\ UNCHANGED <<terminate_flag, ring, mutex, cpc, message, cons_count, new_capacity>>

AddConsumer ==
    /\ Command("-", "command")
    /\ cons_count < session.consumers /\ cons_count' = cons_count + 1
    /\ cpc' = [cpc EXCEPT ![cons_count'] = "top"]
    /\ UNCHANGED <<terminate_flag, ring, mutex, ppc, message, prod_count, new_capacity>>

RemoveProducer ==
    /\ Command("d", "join_producer") /\ prod_count > 0
    /\ UNCHANGED <<terminate_flag, ring, mutex, workers, counts>>

RemoveConsumer ==
    /\ Command("f", "join_consumer") /\ cons_count > 0
    /\ UNCHANGED <<terminate_flag, ring, mutex, workers, counts>>

JoinProducer ==
    /\ MainGoto("join_producer", "command")
    /\ ppc[prod_count] = "done" /\ ppc' = [ppc EXCEPT ![prod_count] = "absent"]
    /\ prod_count' = prod_count - 1
    /\ UNCHANGED <<terminate_flag, ring, mutex, cpc, message, cons_count, new_capacity>>

JoinConsumer ==
    /\ MainGoto("join_consumer", "command")
    /\ cpc[cons_count] = "done" /\ cpc' = [cpc EXCEPT ![cons_count] = "absent"]
    /\ cons_count' = cons_count - 1
    /\ UNCHANGED <<terminate_flag, ring, mutex, ppc, message, prod_count, new_capacity>>

\* The commands that begin with pthread_mutex_lock, and the end of input.
StartTask ==
    /\ \/ Command("p", "status")
       \/ Command(">", "grow") /\ capacity < session.capacity
       \/ Command("<", "shrink")
       \/ Command("EOF", "final")
    /\ UNCHANGED <<terminate_flag, ring, mutex, workers, counts>>

Quit ==
    /\ Command("q", "broadcast")
    /\ terminate_flag' = TRUE
    /\ UNCHANGED <<ring, mutex, workers, counts>>

MainLock ==
    /\ \E task \in Tasks : MainGoto(task, task)
    /\ mutex = NoOne /\ mutex' = Main
    /\ UNCHANGED <<terminate_flag, ring, workers, counts>>

\* The rest of a stretch, up to the unlock.
Unlock(task, to) == /\ MainGoto(task, to)
                    /\ mutex = Main /\ mutex' = NoOne
                    /\ UNCHANGED <<terminate_flag, prod_count, cons_count>>

BroadcastTask ==
    /\ Unlock("broadcast", "final") \/ Unlock("final", "join_all")
    /\ Broadcast
    /\ UNCHANGED <<ring, message, new_capacity>>

StatusTask == Unlock("status", "command") /\ UNCHANGED <<ring, workers, new_capacity>>

\* '>', and '<' on an empty ring, read the capacity here and call resize_queue
\* after the unlock.
PlanResize ==
    /\ \/ Unlock("grow", "resize") /\ new_capacity' = capacity + 1
       \/ /\ Unlock("shrink", "resize")
          /\ count = 0 /\ capacity > 2 /\ new_capacity' = capacity - 1
    /\ UNCHANGED <<ring, workers>>

RefuseShrink ==
    /\ Unlock("shrink", "command") /\ (count # 0 \/ capacity <= 2)
    /\ UNCHANGED <<ring, workers, new_capacity>>

\* new_capacity < count, or malloc returns NULL.
ResizeFails ==
    /\ Unlock("resize", "command") /\ new_capacity' = 0
    /\ UNCHANGED <<ring, workers>>

CopyFromZero == [i \in Cells |-> IF i < count THEN buffer[i] ELSE Junk]   \* mutant: from cell 0 on

Copied == [i \in Cells |-> IF i < count THEN buffer[(head + i) % capacity] ELSE Junk]

Resized ==
    /\ Unlock("resize", "command")
    /\ count <= new_capacity
    /\ buffer' = Copied /\ capacity' = new_capacity
    /\ head' = 0 /\ tail' = count
    /\ Broadcast /\ new_capacity' = 0   \* it was a local variable
    /\ UNCHANGED <<count, added_count, removed_count, message>>

resize_queue == ResizeFails \/ Resized

\* The joins in the order of the code come to waiting for all of them; then
\* destroy_queue.
JoinAll ==
    /\ MainGoto("join_all", "exited")
    /\ \A p \in Producers : p <= prod_count => ppc[p] = "done"
    /\ \A c \in Consumers : c <= cons_count => cpc[c] = "done"
    /\ monitor = "done"
    /\ UNCHANGED <<terminate_flag, ring, mutex, workers, counts>>

-----------------------------------------------------------------------------
(* sigint_handler, on the main thread wherever main stands; the monitor     *)

Sigint ==
    /\ "SIGINT" \in session.commands /\ main_pc # "exited"
    /\ ~handling /\ handling' = TRUE
    /\ terminate_flag' = TRUE
    /\ UNCHANGED <<ring, mutex, workers, mainVars, monitor>>

\* The handler needs the mutex, and will not get it from the main it stopped.
\* Afterwards fgets fails if it was already waiting for input.
SigintBroadcast ==
    /\ handling /\ handling' = FALSE
    /\ mutex = NoOne /\ Broadcast
    /\ main_pc' = main_pc \/ (main_pc = "command" /\ main_pc' = "final")
    /\ UNCHANGED <<session, terminate_flag, ring, mutex, message, counts, monitor>>

deadlock_monitor ==
    /\ \/ monitor = "top" /\ monitor' = IF terminate_flag THEN "done" ELSE "lock"
       \/ monitor = "lock" /\ mutex = NoOne /\ monitor' = "top"
    /\ UNCHANGED <<terminate_flag, ring, mutex, workers, mainVars, handling>>

UserCommand == AddProducer \/ AddConsumer \/ RemoveProducer \/ RemoveConsumer
                 \/ StartTask \/ Quit

MainWork == \/ JoinProducer \/ JoinConsumer \/ MainLock
            \/ BroadcastTask \/ StatusTask \/ PlanResize \/ RefuseShrink \/ resize_queue
            \/ JoinAll

Next == \/ \E p \in Producers : producer_thread(p)
        \/ \E c \in Consumers : consumer_thread(c)
        \/ SpuriousWakeup \/ UserCommand \/ MainWork \/ Sigint \/ SigintBroadcast
        \/ deadlock_monitor

(* The scheduler runs every thread that can run.  Commands and signals take *)
(* the mutex, or main's time, for a moment; however many are given, every    *)
(* thread gets its turn in between.  Nobody promises a command, a signal or  *)
(* a spurious wakeup.                                                       *)
Spec     == Init /\ [][Next]_vars
FairSpec == /\ Spec
            /\ \A p \in Producers : SF_vars(producer_thread(p))
            /\ \A c \in Consumers : SF_vars(consumer_thread(c))
            /\ SF_vars(MainWork) /\ WF_vars(SigintBroadcast)
            /\ SF_vars(deadlock_monitor)

-----------------------------------------------------------------------------
(* Properties *)

\* Every variable keeps its kind; counts are never negative and the indexes
\* never leave the largest ring by more than the one place tail may stand at.
TypeOK ==
    /\ session \in Sessions /\ terminate_flag \in BOOLEAN
    /\ buffer \in [Cells -> Contents]
    /\ capacity \in 1..MaxCapacity
    /\ head \in Cells /\ tail \in Cells
    /\ count \in Nat /\ added_count \in Nat /\ removed_count \in Nat
    /\ mutex \in {NoOne, Main, Dead}
    /\ ppc \in [Producers -> WorkerPlaces]
    /\ cpc \in [Consumers -> WorkerPlaces]
    /\ message \in [Consumers -> Contents]
    /\ main_pc \in MainPlaces
    /\ prod_count \in 0..MaxProducers /\ cons_count \in 0..MaxConsumers
    /\ new_capacity \in 0..MaxCapacity
    /\ handling \in BOOLEAN /\ monitor \in {"top", "lock", "done"}

\* No wakeup is lost (queue.c:34-45, 52-63, 88-89): while a consumer waits,
\* every message in the queue has a consumer on its way to it, and while a
\* producer waits every free cell has a producer on its way, resizes,
\* cancellations and spurious wakeups included, until the program ends.
NoLostWakeup ==
    ~terminate_flag =>
      /\ At(cpc, "wait") # {} => count <= Cardinality(At(cpc, "lock"))
      /\ At(ppc, "wait") # {} => capacity - count <= Cardinality(At(ppc, "lock"))

\* The queue as its users see it, oldest message first.
View == [i \in 1..count |-> buffer[(head + i - 1) % capacity]]

Queue == INSTANCE BoundedQueue WITH
            Takers <- Consumers, InitialLimit <- InitCapacity, Nothing <- Junk,
            items <- View, limit <- capacity, sent <- added_count, held <- message

\* A message that was inserted is taken, as long as there is a consumer and
\* no cancelled thread took the mutex with it.
MessagesAreTaken ==
    \A n \in 1..MaxMessages :
      (added_count >= n) ~>
        \/ removed_count >= n
        \/ terminate_flag
        \/ mutex = Dead
        \/ \A c \in Consumers : cpc[c] \in {"absent", "done"}

\* Once the flag is set main comes to its end, or asks the user for one more
\* line, in all but two cases: a cancelled thread took the mutex with it, or
\* the signal came while main itself held the mutex (main.c:40-48, 173-186).
ShutdownCompletes ==
    terminate_flag ~> \/ main_pc \in {"exited", "command"}
                      \/ mutex = Dead
                      \/ handling /\ mutex = Main

RingOK == head < capacity /\ count <= capacity /\ tail = (head + count) % capacity

\* As long as its indexes are sound the ring implements a bounded FIFO queue:
\* no message is lost, repeated or overtaken by any interleaving of workers,
\* removals, resizes and shutdown (queue.c:32-92).
RefinesQueue ==
    Queue!Init /\ [][RingOK => [Queue!Next]_(Queue!vars)]_vars

\* A resize moves no message (queue.c:75-87), a wrapped ring is straightened
\* and a shrink that finds messages after all keeps them; and the ring stays
\* sound, unless the shrink leaves it full: then tail is one past the buffer.
ResizeKeepsQueue ==
    [][ capacity' # capacity =>
          /\ View' = View
          /\ RingOK /\ count < capacity' => RingOK' ]_vars
===============================================================================
