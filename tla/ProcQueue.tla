------------------------------- MODULE ProcQueue -------------------------------
(***************************************************************************)
(* lab04: producer and consumer processes around a ring buffer in System V  *)
(* shared memory, three semaphores (0 free slots, 1 full slots, 2 mutex),   *)
(* and the main process that forks them, removes them with SIGTERM and       *)
(* finally deletes the IPC objects.                                         *)
(*                                                                         *)
(* semaphore_op ignores the result of semop, and semop is never restarted   *)
(* after a signal handler: a SIGTERM that finds a process asleep in semop    *)
(* sends it on without the token.  Mutual exclusion may break that way, so  *)
(* the critical section is modelled access by access.                       *)
(***************************************************************************)
EXTENDS Integers, Sequences, FiniteSets

CONSTANTS QUEUE_SIZE,    \* 10 in the code
          NumProducers,  \* bound on the producers ever started
          NumConsumers,  \* bound on the consumers ever started
          MaxMessages,   \* bound on the messages ever generated
          Sessions       \* what users do, each within bounds of its own

(* Process identifiers.  A failed fork leaves -1 in the table of pids. *)
Producers == 1..NumProducers
Consumers == NumProducers + 1 .. NumProducers + NumConsumers
Procs     == Producers \cup Consumers
NoPid     == -1

\* The commands are the lines main may read, and SIGINT; fork may succeed,
\* fail, or both; a session starts the processes of its own two sets.
Session == [producers : SUBSET Producers, consumers : SUBSET Consumers,
            messages : 0..MaxMessages,
            commands : SUBSET {"+", "-", ">", "<", "q", "other", "SIGINT"},
            forks : SUBSET BOOLEAN]

ASSUME ProcAssumption ==
    /\ QUEUE_SIZE \in Nat \ {0}
    /\ NumProducers \in Nat /\ NumConsumers \in Nat
    /\ MaxMessages \in Nat
    /\ Sessions \subseteq Session

Cells  == 0..QUEUE_SIZE - 1
Fields == {"head", "tail", "free_slots", "added_count", "removed_count"}

VARIABLES
  session,                       \* chosen once
  buffer, shm,                   \* the shared MessageQueue: its cells, its counters
  sem,                           \* the three semaphores
  ipc_removed,                   \* the semaphores and the memory's key are gone
  pc, terminate_flag,            \* of each process
  message, step, reg,            \* its message, which counter it updates, the value it read
  main_pc, main_flag,            \* main and its terminate_flag
  producer_pids, consumer_pids,  \* the tables, producer_count and consumer_count long
  generated,                     \* how many messages were generated, for the bound
  interrupted                    \* how many waits on each semaphore a signal broke off

memory == <<buffer, shm>>
procs  == <<pc, terminate_flag, message, step, reg>>
mainVars == <<session, main_pc, main_flag, producer_pids, consumer_pids>>
vars   == <<memory, sem, ipc_removed, procs, mainVars, generated, interrupted>>

Places == {"unborn", "start", "attach", "top", "slot", "mutex", "touch",
           "load", "store", "unlock", "post", "gone"}

\* init_resources
Init ==
    /\ session \in Sessions
    /\ buffer = [i \in Cells |-> 0]
    /\ shm = [f \in Fields |-> IF f = "free_slots" THEN QUEUE_SIZE ELSE 0]
    /\ sem = [k \in 0..2 |-> CASE k = 0 -> QUEUE_SIZE [] k = 1 -> 0 [] k = 2 -> 1]
    /\ ipc_removed = FALSE
    /\ pc = [p \in Procs |-> "unborn"]
    /\ terminate_flag = [p \in Procs |-> FALSE]
    /\ message = [p \in Procs |-> 0]
    /\ step = [p \in Procs |-> 1]
    /\ reg = [p \in Procs |-> 0]
    /\ main_pc = "command" /\ main_flag = FALSE
    /\ producer_pids = <<>> /\ consumer_pids = <<>>
    /\ generated = 0
    /\ interrupted = [k \in 0..2 |-> 0]

-----------------------------------------------------------------------------
(* A producer and a consumer run the same loop on different semaphores and  *)
(* counters.                                                                *)

WaitsFor(p) == IF p \in Producers THEN 0 ELSE 1
Signals(p)  == IF p \in Producers THEN 1 ELSE 0

Updates(p) == IF p \in Producers THEN <<"tail", "free_slots", "added_count">>
                                 ELSE <<"head", "free_slots", "removed_count">>

UpdatedPastEnd(p, f, v) == v + 1   \* mutant: no counter wraps or counts down

Updated(p, f, v) ==
    CASE f \in {"head", "tail"} -> (v + 1) % QUEUE_SIZE
      [] f = "free_slots"       -> IF p \in Producers THEN v - 1 ELSE v + 1
      [] OTHER                  -> v + 1

At(places) == {p \in Procs : pc[p] \in places}
Alive == Procs \ At({"unborn", "gone"})

Goto(p, from, to) == pc[p] = from /\ pc' = [pc EXCEPT ![p] = to]

quiet == <<mainVars, interrupted, ipc_removed>>
local == <<terminate_flag, message, step, reg>>

\* The processes S end, the others go where next says; what the ended ones
\* kept in variables of their own is gone with them.
End(S, next) ==
    /\ pc' = [p \in Procs |-> IF p \in S THEN "gone" ELSE next[p]]
    /\ terminate_flag' = [p \in Procs |-> p \notin S /\ terminate_flag[p]]
    /\ message' = [p \in Procs |-> IF p \in S THEN 0 ELSE message[p]]
    /\ step' = [p \in Procs |-> IF p \in S THEN 1 ELSE step[p]]
    /\ reg' = [p \in Procs |-> IF p \in S THEN 0 ELSE reg[p]]

\* signal(SIGTERM, ...): from here on SIGTERM no longer kills.
InstallHandler(p) ==
    /\ Goto(p, "start", "attach")
    /\ UNCHANGED <<memory, sem, local, generated, quiet>>

\* shmget and semget fail once the objects are removed.
Attach(p) ==
    /\ pc[p] = "attach"
    /\ \/ ~ipc_removed /\ Goto(p, "attach", "top") /\ UNCHANGED local
       \/ ipc_removed /\ End({p}, pc)
    /\ UNCHANGED <<memory, sem, generated, quiet>>

Leave(p) ==
    /\ pc[p] = "top" /\ terminate_flag[p]
    /\ End({p}, pc)
    /\ UNCHANGED <<memory, sem, generated, quiet>>

Generate(p) ==
    /\ p \in Producers /\ ~terminate_flag[p]
    /\ generated < session.messages /\ generated' = generated + 1
    /\ Goto(p, "top", "slot")
    /\ UNCHANGED <<memory, sem, local, quiet>>

Continue(p) ==
    /\ p \in Consumers /\ ~terminate_flag[p]
    /\ Goto(p, "top", "slot")
    /\ UNCHANGED <<memory, sem, local, generated, quiet>>

\* mutant: waiting on removed semaphores blocks as it does on empty ones
DownOrBlocked(k) == sem[k] > 0 /\ sem' = [sem EXCEPT ![k] = @ - 1]

\* semop(k, -1): takes a token, or fails at once when the set is removed.
Down(k) == \/ ~ipc_removed /\ sem[k] > 0 /\ sem' = [sem EXCEPT ![k] = @ - 1]
           \/ ipc_removed /\ UNCHANGED sem

\* mutant: the semaphore is set, not raised
UpToOne(k) == sem' = IF ipc_removed THEN sem ELSE [sem EXCEPT ![k] = 1]

Up(k) == sem' = IF ipc_removed THEN sem ELSE [sem EXCEPT ![k] = @ + 1]

TakeSlot(p) ==
    /\ Goto(p, "slot", "mutex")
    /\ Down(WaitsFor(p))
    /\ UNCHANGED <<memory, local, generated, quiet>>

NoMutex(p) ==   \* mutant: the mutex is not waited for
    /\ Goto(p, "mutex", "touch")
    /\ UNCHANGED <<memory, sem, local, generated, quiet>>

TakeMutex(p) ==
    /\ Goto(p, "mutex", "touch")
    /\ Down(2)
    /\ UNCHANGED <<memory, local, generated, quiet>>

\* queue->buffer[queue->tail] = message, or message = queue->buffer[queue->head];
\* a message is named by its rank.
Touch(p) ==
    /\ Goto(p, "touch", "load")
    /\ \/ /\ p \in Producers
          /\ buffer' = [buffer EXCEPT ![shm["tail"]] = shm["added_count"] + 1]
          /\ UNCHANGED message
       \/ /\ p \in Consumers
          /\ message' = [message EXCEPT ![p] = buffer[shm["head"]]]
          /\ UNCHANGED buffer
    /\ UNCHANGED <<shm, sem, terminate_flag, step, reg, generated, quiet>>

\* Each counter is read, then written: another process may come between.
Load(p) ==
    /\ Goto(p, "load", "store")
    /\ reg' = [reg EXCEPT ![p] = shm[Updates(p)[step[p]]]]
    /\ UNCHANGED <<memory, sem, terminate_flag, message, step, generated, quiet>>

Store(p) ==
    /\ LET f == Updates(p)[step[p]] IN
         shm' = [shm EXCEPT ![f] = Updated(p, f, reg[p])]
    /\ Goto(p, "store", IF step[p] < 3 THEN "load" ELSE "unlock")
    /\ step' = [step EXCEPT ![p] = IF @ < 3 THEN @ + 1 ELSE 1]
    /\ reg' = [reg EXCEPT ![p] = 0]   \* the value is no longer used
    /\ UNCHANGED <<buffer, sem, terminate_flag, message, generated, quiet>>

Unlock(p) ==
    /\ Goto(p, "unlock", "post")
    /\ Up(2)
    /\ UNCHANGED <<memory, local, generated, quiet>>

PostOwn(p) ==   \* mutant: the slot goes back where it came from
    /\ Goto(p, "post", "top")
    /\ Up(WaitsFor(p))
    /\ message' = [message EXCEPT ![p] = 0]
    /\ UNCHANGED <<memory, terminate_flag, step, reg, generated, quiet>>

Post(p) ==
    /\ Goto(p, "post", "top")
    /\ Up(Signals(p))
    /\ message' = [message EXCEPT ![p] = 0]
    /\ UNCHANGED <<memory, terminate_flag, step, reg, generated, quiet>>

Process(p) == \/ InstallHandler(p) \/ Attach(p) \/ Leave(p) \/ Generate(p) \/ Continue(p)
              \/ TakeSlot(p) \/ TakeMutex(p) \/ Touch(p) \/ Load(p) \/ Store(p)
              \/ Unlock(p) \/ Post(p)

-----------------------------------------------------------------------------
(* SIGTERM *)

SemOf(p) == IF pc[p] = "slot" THEN WaitsFor(p) ELSE 2

\* It may be asleep in semop, or about to call it: a signal breaks off the
\* first and leaves the second to sleep.
MayBeAsleep(p) == pc[p] \in {"slot", "mutex"} /\ ~ipc_removed /\ sem[SemOf(p)] = 0

Kill(S) ==
    \E asleep \in SUBSET {p \in S : MayBeAsleep(p)} :
      /\ pc' = [p \in Procs |->
                  CASE p \in S /\ pc[p] = "start"     -> "gone"    \* no handler yet
                    [] p \in asleep /\ pc[p] = "slot"  -> "mutex"
                    [] p \in asleep /\ pc[p] = "mutex" -> "touch"
                    [] OTHER                           -> pc[p]]
      /\ terminate_flag' = [p \in Procs |-> terminate_flag[p] \/ (p \in S /\ pc[p] # "start")]
      /\ interrupted' = [k \in 0..2 |->
                           interrupted[k] + Cardinality({p \in asleep : SemOf(p) = k})]
      /\ UNCHANGED <<memory, sem, message, step, reg>>

\* kill(pid, SIGTERM); with -1 it reaches every other process of the user.
Targets(pid) == IF pid = NoPid THEN Alive ELSE {pid} \cap Alive

-----------------------------------------------------------------------------
(* main *)

\* A line is carried out even when the flag was set meanwhile; then the loop ends.
Command(k) == /\ k \in session.commands /\ main_pc = "command"
              /\ main_pc' = IF main_flag THEN "join" ELSE "command"

idle == <<session, memory, sem, ipc_removed, generated, main_flag>>

\* The processes are numbered as they are started.
FirstUnborn(P) == {p \in P : pc[p] = "unborn" /\ \A o \in P : pc[o] = "unborn" => p <= o}

\* What fork returns is put into the table, the -1 of a failure too.
Fork(P, pids) ==
    /\ \/ \E p \in FirstUnborn(P) : /\ TRUE \in session.forks
                                   /\ pc' = [pc EXCEPT ![p] = "start"]
                                   /\ pids' = Append(pids, p)
       \/ /\ FALSE \in session.forks
          /\ pids' = Append(pids, NoPid) /\ UNCHANGED pc
    /\ UNCHANGED <<idle, local, interrupted>>

AddProducer ==
    /\ Command("+") /\ Len(producer_pids) < Cardinality(session.producers)
    /\ Fork(session.producers, producer_pids)
    /\ UNCHANGED consumer_pids

AddConsumer ==
    /\ Command("-") /\ Len(consumer_pids) < Cardinality(session.consumers)
    /\ Fork(session.consumers, consumer_pids)
    /\ UNCHANGED producer_pids

RemoveProducer ==
    /\ Command(">") /\ producer_pids # <<>>
    /\ Kill(Targets(producer_pids[Len(producer_pids)]))
    /\ producer_pids' = SubSeq(producer_pids, 1, Len(producer_pids) - 1)
    /\ UNCHANGED <<idle, consumer_pids>>

RemoveConsumer ==
    /\ Command("<") /\ consumer_pids # <<>>
    /\ Kill(Targets(consumer_pids[Len(consumer_pids)]))
    /\ consumer_pids' = SubSeq(consumer_pids, 1, Len(consumer_pids) - 1)
    /\ UNCHANGED <<idle, producer_pids>>

Quit ==
    /\ "q" \in session.commands /\ main_pc = "command" /\ main_pc' = "join"
    /\ main_flag' = TRUE
    /\ UNCHANGED <<session, memory, sem, ipc_removed, procs, producer_pids, consumer_pids,
                   generated, interrupted>>

\* fgets fails and the loop ends, unless the signal came just before fgets
\* began to wait: then main waits on, flag set, until the next line is read.
\* Typed at the terminal, the signal also goes to the children, and kills
\* them once they are past exec.
sigint_handler ==
    /\ "SIGINT" \in session.commands /\ main_pc # "exited"
    /\ main_flag' = TRUE
    /\ main_pc' = main_pc \/ (main_pc = "command" /\ main_pc' = "join")
    /\ \/ UNCHANGED procs
       \/ \E forked \in SUBSET At({"start"}) : End(Alive \ forked, pc)
    /\ UNCHANGED <<session, memory, sem, ipc_removed, producer_pids, consumer_pids,
                   generated, interrupted>>

\* 'p', an unknown command or a failed fgets.
OtherLine ==
    /\ Command("other")
    /\ UNCHANGED <<session, memory, sem, ipc_removed, procs, main_flag, producer_pids,
                   consumer_pids, generated, interrupted>>

\* deadlock_monitor changes nothing and ends once the flag is set.
JoinMonitor ==
    /\ main_pc = "join" /\ main_flag /\ main_pc' = "cleanup"
    /\ UNCHANGED <<session, memory, sem, ipc_removed, procs, main_flag, producer_pids,
                   consumer_pids, generated, interrupted>>

\* cleanup_resources: SIGTERM to one process of the tables after the other;
\* what the loop is done with leaves the tables here ...
KillNext ==
    /\ main_pc = "cleanup"
    /\ \/ /\ producer_pids # <<>> /\ Kill(Targets(Head(producer_pids)))
          /\ producer_pids' = Tail(producer_pids) /\ UNCHANGED consumer_pids
       \/ /\ producer_pids = <<>> /\ consumer_pids # <<>>
          /\ Kill(Targets(Head(consumer_pids)))
          /\ consumer_pids' = Tail(consumer_pids) /\ UNCHANGED producer_pids
    /\ UNCHANGED <<session, memory, sem, ipc_removed, generated, main_pc, main_flag>>

\* ... then the IPC objects go.  The memory stays mapped where it is in use.
RemoveIpc ==
    /\ main_pc = "cleanup" /\ main_pc' = "exited"
    /\ producer_pids = <<>> /\ consumer_pids = <<>>
    /\ ipc_removed' = TRUE
    /\ UNCHANGED <<session, memory, sem, procs, main_flag, producer_pids, consumer_pids, generated,
                   interrupted>>

Exited == main_pc = "exited" /\ Alive = {} /\ UNCHANGED vars

Next == \/ \E p \in Procs : Process(p)
        \/ AddProducer \/ AddConsumer \/ RemoveProducer \/ RemoveConsumer
        \/ Quit \/ sigint_handler \/ OtherLine
        \/ JoinMonitor \/ KillNext \/ RemoveIpc \/ Exited

(* The kernel runs every runnable process; main needs no input to finish *)
(* once its loop has ended.                                              *)
Spec     == Init /\ [][Next]_vars
FairSpec == /\ Spec
            /\ \A p \in Procs : WF_vars(Process(p))
            /\ WF_vars(JoinMonitor \/ KillNext \/ RemoveIpc)

-----------------------------------------------------------------------------
(* Properties *)

\* Every variable keeps its kind; the shared counters are integers, since
\* nothing keeps them in range once a wait was broken off.
TypeOK ==
    /\ session \in Sessions
    /\ buffer \in [Cells -> Nat]
    /\ shm \in [Fields -> Int] /\ shm["head"] \in Cells /\ shm["tail"] \in Cells
    /\ sem \in [0..2 -> Nat] /\ ipc_removed \in BOOLEAN
    /\ pc \in [Procs -> Places] /\ terminate_flag \in [Procs -> BOOLEAN]
    /\ message \in [Procs -> Nat] /\ step \in [Procs -> 1..3] /\ reg \in [Procs -> Int]
    /\ main_pc \in {"command", "join", "cleanup", "exited"}
    /\ main_flag \in BOOLEAN
    /\ producer_pids \in Seq(Producers \cup {NoPid})
    /\ consumer_pids \in Seq(Consumers \cup {NoPid})
    /\ generated \in Nat /\ interrupted \in [0..2 -> Nat]

InCriticalSection == At({"touch", "load", "store", "unlock"})
HoldingSlot == At({"mutex", "touch", "load", "store", "unlock", "post"})

\* While main runs, the semaphores go wrong in one way only: each wait that a
\* SIGTERM broke off (ipc.c:6-9) adds one token, of a slot or of the mutex,
\* and no interleaving of forks, removals and work adds or loses another.
TokensBalance ==
    ~main_flag =>
      /\ sem[0] + sem[1] + Cardinality(HoldingSlot) = QUEUE_SIZE + interrupted[0] + interrupted[1]
      /\ sem[2] + Cardinality(InCriticalSection) = 1 + interrupted[2]

Uninterrupted == ~main_flag /\ \A k \in 0..2 : interrupted[k] = 0

Count == shm["added_count"] - shm["removed_count"]

\* Until a wait is broken off the queue is what common.h:19-26 says: one
\* process at a time works on it, and between two of them the cells from head
\* to tail hold the messages added and not yet removed, in order.
SoundUntilInterrupted ==
    Uninterrupted =>
      /\ Cardinality(InCriticalSection) <= 1
      /\ InCriticalSection = {} =>
           /\ shm["free_slots"] = QUEUE_SIZE - Count
           /\ shm["tail"] = (shm["head"] + Count) % QUEUE_SIZE
           /\ \A i \in 0..Count - 1 :
                buffer[(shm["head"] + i) % QUEUE_SIZE] = shm["removed_count"] + i + 1
      /\ \A c \in Consumers : pc[c] \in {"load", "store", "unlock", "post"} => message[c] > 0

\* common.h:25: free_slots is the number of free slots in the buffer, so it
\* lies between none and all of them.
FreeSlotsInRange == shm["free_slots"] \in 0..QUEUE_SIZE

\* A message that was added is removed, while some consumer is neither gone
\* nor told to stop (consumer.c:46-78), unless a wait was broken off.
MessagesAreTaken ==
    \A n \in 1..MaxMessages :
      (shm["added_count"] >= n) ~>
        \/ shm["removed_count"] >= n
        \/ ~Uninterrupted
        \/ \A c \in Consumers : pc[c] \in {"unborn", "gone"} \/ terminate_flag[c]

\* Once main has deleted the semaphores no process stays behind, not even
\* one that was removed while it could get no token (main.c:74-86): every
\* wait on them fails and its loop sees the flag.
AllLeave == (main_pc = "exited") ~> (Alive = {})
===============================================================================
