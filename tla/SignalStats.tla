------------------------------ MODULE SignalStats ------------------------------
(***************************************************************************)
(* lab03: a parent starts children that collect random pairs; after every    *)
(* THRESHOLD pairs a child waits for SIGUSR2 and prints its statistics.  The *)
(* parent sends that signal to all children on 'o' and ends them by SIGTERM. *)
(*                                                                         *)
(* The wait is a loop that tests a flag and calls pause, so the place        *)
(* between the test and the pause is a place of its own, and so is the one   *)
(* between the printing and the reset of the flag.                          *)
(***************************************************************************)
EXTENDS Integers

CONSTANTS MAX_CHILDREN,  \* 100 in the code
          NumChildren,   \* bound on the children ever started
          THRESHOLD,     \* 101 in the code
          MaxAsks        \* bound on how often 'o' is typed

ASSUME StatsAssumption ==
    /\ MAX_CHILDREN \in Nat /\ NumChildren \in Nat /\ MaxAsks \in Nat
    /\ THRESHOLD \in Nat \ {0}

Children == 1..NumChildren   \* a pid is named by the rank of its fork
NoChild  == 0

VARIABLES
  children, child_count,   \* the parent's table
  main_pc, next,           \* what the parent does, and at which index of the table
  asks,                    \* how many 'o' were typed, for the bound
  fork_failed,
  pc,                      \* where each child stands
  iterations,              \* modulo THRESHOLD
  print_permission,
  asked, printed, shown,   \* history: the requests a child's handler saw, its
                           \* printings, the requests seen when it last printed
  missed                   \* history: the last request fell into a window

table  == <<children, child_count>>
parent == <<table, main_pc, next, asks, fork_failed>>
record == <<asked, printed, shown, missed>>
vars   == <<parent, pc, iterations, print_permission, record>>

\* start: no handler yet.  gap: print_permission was found unset and pause is
\* not reached.  reset: printed, and the flag not cleared yet.
Running == {"start", "collect", "test", "gap", "asleep", "print", "reset"}
Places  == Running \cup {"unborn", "zombie", "reaped"}

Init ==
    /\ children = [i \in 0..MAX_CHILDREN - 1 |-> NoChild] /\ child_count = 0
    /\ main_pc = "command" /\ next = 0 /\ asks = 0 /\ fork_failed = FALSE
    /\ pc = [c \in Children |-> "unborn"]
    /\ iterations = [c \in Children |-> 0]
    /\ print_permission = [c \in Children |-> FALSE]
    /\ asked = [c \in Children |-> 0]
    /\ printed = [c \in Children |-> 0]
    /\ shown = [c \in Children |-> 0]
    /\ missed = [c \in Children |-> FALSE]

-----------------------------------------------------------------------------
(* child.c *)

Goto(c, from, to) == pc[c] = from /\ pc' = [pc EXCEPT ![c] = to]

InstallHandlers(c) ==
    /\ Goto(c, "start", "collect")
    /\ UNCHANGED <<parent, iterations, print_permission, record>>

\* execl or sigaction fails: exit, and nobody waits for the child until it is
\* removed.
FailToStart(c) ==
    /\ Goto(c, "start", "zombie")
    /\ UNCHANGED <<parent, iterations, print_permission, record>>

\* raise(SIGUSR1) runs its handler before it returns, so every pair counts.
Collect(c) ==
    /\ iterations' = [iterations EXCEPT ![c] = (@ + 1) % THRESHOLD]
    /\ Goto(c, "collect", IF iterations'[c] = 0 THEN "test" ELSE "collect")
    /\ UNCHANGED <<parent, print_permission, record>>

TestPermission(c) ==
    /\ Goto(c, "test", IF print_permission[c] THEN "print" ELSE "gap")
    /\ UNCHANGED <<parent, iterations, print_permission, record>>

\* Whatever came before, pause sleeps until the next signal.
Pause(c) ==
    /\ Goto(c, "gap", "asleep")
    /\ UNCHANGED <<parent, iterations, print_permission, record>>

print_statistics(c) ==
    /\ Goto(c, "print", "reset")
    /\ printed' = [printed EXCEPT ![c] = @ + 1]
    /\ shown' = [shown EXCEPT ![c] = asked[c]]
    /\ UNCHANGED <<parent, iterations, print_permission, asked, missed>>

KeepPermission(c) == UNCHANGED print_permission   \* mutant: no reset

ClearPermission(c) == print_permission' = [print_permission EXCEPT ![c] = FALSE]

Reset(c) ==
    /\ Goto(c, "reset", "collect")
    /\ ClearPermission(c)
    /\ UNCHANGED <<parent, iterations, record>>

Child(c) == \/ InstallHandlers(c) \/ FailToStart(c) \/ Collect(c) \/ TestPermission(c)
            \/ Pause(c) \/ print_statistics(c) \/ Reset(c)

-----------------------------------------------------------------------------
(* Signals, as the parent sends them.  One to a zombie has no effect.       *)

HandlerWakesNobody(c) == pc' = pc   \* mutant: pause goes on after the handler

HandlerReturns(c) == pc' = [pc EXCEPT ![c] = IF @ = "asleep" THEN "test" ELSE @]

\* The places where a request is seen and then passed over: between the test
\* of the flag and pause, and between the printing and the reset.
Windows == {"gap", "reset"}

\* sigusr2_handler, or death while it is not installed.
Sigusr2(c) ==
    \/ /\ pc[c] = "start" /\ pc' = [pc EXCEPT ![c] = "zombie"]
       /\ UNCHANGED <<print_permission, asked, missed>>
    \/ /\ pc[c] = "zombie" /\ UNCHANGED <<pc, print_permission, asked, missed>>
    \/ /\ pc[c] \in Running \ {"start"}
       /\ print_permission' = [print_permission EXCEPT ![c] = TRUE]
       /\ asked' = [asked EXCEPT ![c] = @ + 1]
       /\ missed' = [missed EXCEPT ![c] = pc[c] \in Windows]
       /\ HandlerReturns(c)

\* kill(pid, SIGTERM); waitpid(pid, NULL, 0)
TermAndWait(c) == pc' = [pc EXCEPT ![c] = "reaped"]

-----------------------------------------------------------------------------
(* parent.c.  After the end of input getchar fails for ever and the loop in  *)
(* handle_input spins: a parent that reads no more commands.                *)

undisturbed == <<iterations, record, print_permission>>

add_child ==
    /\ main_pc = "command" /\ child_count < MAX_CHILDREN
    /\ \/ \E c \in Children :
            /\ pc[c] = "unborn" /\ \A o \in Children : pc[o] = "unborn" => c <= o
            /\ pc' = [pc EXCEPT ![c] = "start"]
            /\ children' = [children EXCEPT ![child_count] = c]
            /\ child_count' = child_count + 1
            /\ UNCHANGED <<main_pc, fork_failed>>
       \/ /\ main_pc' = "exited" /\ fork_failed' = TRUE
          /\ UNCHANGED <<table, pc>>
    /\ UNCHANGED <<next, asks, undisturbed>>

CountKept == child_count   \* mutant: the removed child stays in the table

CountTwoLess == child_count - 2   \* mutant: the index is lowered twice

CountLess == child_count - 1

remove_last_child ==
    /\ main_pc = "command" /\ child_count > 0
    /\ TermAndWait(children[child_count - 1])
    /\ child_count' = CountLess
    /\ UNCHANGED <<children, main_pc, next, asks, fork_failed, undisturbed>>

\* 'o', 'k' and 'q' go through the table.
StartLoop(to) == /\ main_pc = "command" /\ main_pc' = to
                 /\ UNCHANGED <<table, next, fork_failed, pc, undisturbed>>

AskAll  == StartLoop("ask") /\ asks < MaxAsks /\ asks' = asks + 1
KillAll == (StartLoop("kill") \/ StartLoop("quit")) /\ UNCHANGED asks

AllButOne == next < child_count - 1   \* mutant: the loop leaves the last child out

MoreChildren == next < child_count

\* The children go on during the 50 ms between two of them.
AskNext ==
    /\ main_pc = "ask" /\ MoreChildren
    /\ Sigusr2(children[next]) /\ next' = next + 1
    /\ UNCHANGED <<table, main_pc, asks, fork_failed, iterations, printed, shown>>

AskDone ==
    /\ main_pc = "ask" /\ ~MoreChildren
    /\ main_pc' = "command" /\ next' = 0
    /\ UNCHANGED <<table, asks, fork_failed, pc, undisturbed>>

KillNext ==
    /\ main_pc \in {"kill", "quit"} /\ MoreChildren
    /\ TermAndWait(children[next]) /\ next' = next + 1
    /\ UNCHANGED <<table, main_pc, asks, fork_failed, undisturbed>>

KillDone ==
    /\ main_pc \in {"kill", "quit"} /\ ~MoreChildren
    /\ main_pc' = (IF main_pc = "quit" THEN "exited" ELSE "command")
    /\ child_count' = 0 /\ next' = 0
    /\ UNCHANGED <<children, asks, fork_failed, pc, undisturbed>>

UserCommand == add_child \/ remove_last_child \/ AskAll \/ KillAll
ParentWork  == AskNext \/ AskDone \/ KillNext \/ KillDone

Next == (\E c \in Children : Child(c)) \/ UserCommand \/ ParentWork

(* Every child runs, and the parent's loops need no input; nobody promises a *)
(* command.                                                                 *)
Spec     == Init /\ [][Next]_vars
FairSpec == Spec /\ (\A c \in Children : WF_vars(Child(c))) /\ WF_vars(ParentWork)

-----------------------------------------------------------------------------
(* Properties *)

\* Every variable keeps its kind, and no index leaves the table.
TypeOK ==
    /\ children \in [0..MAX_CHILDREN - 1 -> Children \cup {NoChild}]
    /\ child_count \in 0..MAX_CHILDREN
    /\ main_pc \in {"command", "ask", "kill", "quit", "exited"}
    /\ next \in 0..child_count /\ asks \in 0..MaxAsks /\ fork_failed \in BOOLEAN
    /\ pc \in [Children -> Places]
    /\ iterations \in [Children -> 0..THRESHOLD - 1]
    /\ print_permission \in [Children -> BOOLEAN]
    /\ asked \in [Children -> Nat] /\ printed \in [Children -> Nat]
    /\ shown \in [Children -> Nat] /\ missed \in [Children -> BOOLEAN]

\* The indexes of the table that name a child not waited for.
Listed == (IF main_pc \in {"kill", "quit"} THEN next ELSE 0) .. child_count - 1

Unreaped == {c \in Children : pc[c] \notin {"unborn", "reaped"}}

\* While the parent runs its table names every child it has not waited for,
\* the dead ones too, each once and no other process (parent.c:29, 41-43,
\* 57-62): a signal never goes to a pid that the kernel may have given away,
\* and none but a failed fork makes the parent leave children behind.
TableIsExact ==
    /\ main_pc # "exited" => /\ {children[i] : i \in Listed} = Unreaped
                             /\ \A i, j \in Listed : children[i] = children[j] => i = j
    /\ main_pc = "exited" => fork_failed \/ Unreaped = {}

\* A child prints when it was asked since it last printed (child.c:90-94),
\* and never twice for one request, however signals fall among its steps.
OnRequest ==
    [][ \A c \in Children : printed'[c] # printed[c] => asked[c] > shown[c] ]_vars

\* A request that the handler saw is answered by a printing, at once or at the
\* end of the batch, unless the child is ended before, or the request fell
\* between the test of the flag and pause (child.c:90-91) or between the
\* printing and the reset (child.c:93-94), where it waits for another one.
RequestsAnswered ==
    \A c \in Children, n \in 1..MaxAsks :
      (asked[c] >= n /\ ~missed[c]) ~> (shown[c] >= n \/ pc[c] \notin Running)
===============================================================================
