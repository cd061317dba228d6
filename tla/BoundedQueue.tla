----------------------------- MODULE BoundedQueue -----------------------------
(***************************************************************************)
(* What the message queues of lab05-1 and lab05-2 promise, without threads, *)
(* locks or a ring: a first-in first-out sequence of bounded length.        *)
(* Messages are named by the order in which they were put, so that loss,    *)
(* duplication and reordering are all visible.                              *)
(***************************************************************************)
EXTENDS Naturals, Sequences

CONSTANTS Takers,        \* the threads that take messages
          InitialLimit,  \* the limit the queue is created with
          Nothing        \* what a taker holds before its first message

VARIABLES items,   \* the messages put and not yet taken, oldest first
          limit,   \* how many messages the queue may hold
          sent,    \* how many messages were ever put
          held     \* held[t]: the last message t took

vars == <<items, limit, sent, held>>

Init == /\ items = <<>>
        /\ limit = InitialLimit
        /\ sent = 0
        /\ held = [t \in Takers |-> Nothing]

\* A message enters at the back, only while there is room.
Put == /\ Len(items) < limit
       /\ sent' = sent + 1
       /\ items' = Append(items, sent')
       /\ UNCHANGED <<limit, held>>

\* The oldest message leaves, to one taker.
Take(t) == /\ items # <<>>
           /\ items' = Tail(items)
           /\ held' = [held EXCEPT ![t] = Head(items)]
           /\ UNCHANGED <<limit, sent>>

\* The limit changes, never below what is queued, and no message moves.
SetLimit == /\ limit' \in Nat
            /\ Len(items) <= limit'
            /\ UNCHANGED <<items, sent, held>>

Next == Put \/ (\E t \in Takers : Take(t)) \/ SetLimit

Spec == Init /\ [][Next]_vars
===============================================================================
