------------------------------ MODULE MCCondQueue ------------------------------
(* Instances of CondQueue for TLC: two workers of one kind compete, a ring is *)
(* resized both ways, and programs end in each of the ways they can.         *)
EXTENDS CondQueue

Within(p, c, cap, n, commands) ==
    [producers |-> p, consumers |-> c, capacity |-> cap, messages |-> n, commands |-> commands]

TwoProducers == Within(2, 1, 3, 3, {"+", "-", "d", ">", "q"})
TwoConsumers == Within(1, 2, 2, 2, {"+", "-", "f", "p", "EOF"})
Resizing     == Within(1, 1, 3, 2, {"+", "-", ">", "<", "SIGINT"})

AllSessions == {TwoProducers, TwoConsumers, Resizing}
===============================================================================
