------------------------------ MODULE MCProcQueue ------------------------------
(* Instances of ProcQueue for TLC: what is typed in each session, how many   *)
(* processes it starts and whether fork may fail.                           *)
EXTENDS ProcQueue

Within(p, c, n, commands, forks) ==
    [producers |-> 1..p, consumers |-> NumProducers + 1 .. NumProducers + c,
     messages |-> n, commands |-> commands, forks |-> forks]

TwoProducers == Within(2, 1, 3, {"+", "-", "<", "other"}, {TRUE})
TwoConsumers == Within(1, 2, 2, {"+", "-", "<", "other"}, {TRUE})
Removing     == Within(1, 1, 3, {"+", "-", ">", "<", "q"}, {TRUE})
Breaking     == Within(1, 1, 1, {"+", "-", ">", "<", "q", "SIGINT"}, BOOLEAN)

AllSessions == {TwoProducers, TwoConsumers, Removing, Breaking}
JustOne     == {Within(1, 1, 2, {"+", "-", "<", "q", "other"}, {TRUE})}
===============================================================================
