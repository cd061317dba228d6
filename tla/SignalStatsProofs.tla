--------------------------- MODULE SignalStatsProofs ---------------------------
(***************************************************************************)
(* What holds of SignalStats for any number of children, any size of the     *)
(* table and of a batch, and however often the user asks: types, the exact    *)
(* table of children, and that nothing is printed unasked.                   *)
(***************************************************************************)
EXTENDS SignalStats, TLAPS

-----------------------------------------------------------------------------
(* The inductive invariant.  That children[next] is a child rests on the     *)
(* table being exact, and that rests on where a loop starts.  That a child    *)
(* about to print was asked rests on what its flag stands for.               *)

LoopStartsAtZero == main_pc \notin {"ask", "kill", "quit"} => next = 0

\* A child that is about to print, or will find its flag set, has seen a
\* request since it last printed.
FlagMeansAsked ==
    \A c \in Children :
      /\ shown[c] <= asked[c]
      /\ \/ pc[c] = "print"
         \/ print_permission[c] /\ pc[c] \notin {"reset", "reaped"}
         => shown[c] < asked[c]

IInv == TypeOK /\ LoopStartsAtZero /\ TableIsExact /\ FlagMeansAsked

\* The table and the flags mean the same after a step as before it.
LEMMA TableKept ==
    ASSUME TableIsExact, Listed' = Listed, Unreaped' = Unreaped,
           UNCHANGED <<children, fork_failed>>, main_pc' = "exited" <=> main_pc = "exited"
    PROVE  TableIsExact'
<1>1. \A i \in Listed : children'[i] = children[i]
  OBVIOUS
<1>2. {children'[i] : i \in Listed'} = {children[i] : i \in Listed}
  OBVIOUS
<1> QED
  BY <1>1, <1>2 DEF TableIsExact

-----------------------------------------------------------------------------
(* The steps of a child *)

LEMMA ChildStep ==
    ASSUME IInv, NEW c \in Children, Child(c)
    PROVE  IInv'
<1> USE DEF IInv, Places, Running
<1>1. UNCHANGED parent
  BY DEF Child, InstallHandlers, FailToStart, Collect, TestPermission, Pause,
         print_statistics, Reset
<1>2. PICK to \in Running \cup {"zombie"} :
         pc[c] \in Running /\ pc' = [pc EXCEPT ![c] = to]
  BY DEF Child, Goto, InstallHandlers, FailToStart, Collect, TestPermission, Pause,
         print_statistics, Reset
<1>3. TypeOK'
  <2>1. pc' \in [Children -> Places]
    BY <1>2 DEF TypeOK
  <2>2. iterations' \in [Children -> 0..THRESHOLD - 1]
    <3>1. (iterations[c] + 1) % THRESHOLD \in 0..THRESHOLD - 1
      BY StatsAssumption DEF TypeOK
    <3>2. QED
      BY <3>1 DEF TypeOK, Child, InstallHandlers, FailToStart, Collect, TestPermission,
                  Pause, print_statistics, Reset
  <2>3. print_permission' \in [Children -> BOOLEAN]
    BY DEF TypeOK, Child, InstallHandlers, FailToStart, Collect, TestPermission,
           Pause, print_statistics, Reset, ClearPermission
  <2>4. /\ asked' \in [Children -> Nat] /\ printed' \in [Children -> Nat]
        /\ shown' \in [Children -> Nat] /\ missed' \in [Children -> BOOLEAN]
    <3>1. CASE print_statistics(c)
      BY <3>1 DEF TypeOK, print_statistics
    <3>2. CASE UNCHANGED record
      BY <3>2 DEF TypeOK, record
    <3>3. QED
      BY <3>1, <3>2 DEF Child, InstallHandlers, FailToStart, Collect, TestPermission,
                        Pause, Reset
  <2>5. QED
    BY <1>1, <2>1, <2>2, <2>3, <2>4 DEF TypeOK, parent, table
<1>4. LoopStartsAtZero'
  BY <1>1 DEF LoopStartsAtZero, parent, table
<1>5. TableIsExact'
  <2>1. Unreaped' = Unreaped
    BY <1>2 DEF Unreaped, TypeOK
  <2>2. Listed' = Listed
    BY <1>1 DEF Listed, parent, table
  <2>3. QED
    BY <1>1, <2>1, <2>2, TableKept DEF parent, table
<1>6. FlagMeansAsked'
  <2> SUFFICES ASSUME NEW d \in Children
               PROVE  /\ shown'[d] <= asked'[d]
                      /\ \/ pc'[d] = "print"
                         \/ print_permission'[d] /\ pc'[d] \notin {"reset", "reaped"}
                         => shown'[d] < asked'[d]
    BY DEF FlagMeansAsked
  <2>1. CASE print_statistics(c)
    BY <2>1 DEF print_statistics, Goto, TypeOK, FlagMeansAsked
  <2>2. CASE Reset(c)
    BY <2>2 DEF Reset, ClearPermission, Goto, record, TypeOK, FlagMeansAsked
  <2>3. CASE TestPermission(c)
    BY <2>3 DEF TestPermission, Goto, record, TypeOK, FlagMeansAsked
  <2>4. CASE InstallHandlers(c) \/ FailToStart(c) \/ Collect(c) \/ Pause(c)
    BY <2>4 DEF InstallHandlers, FailToStart, Collect, Pause, Goto, record, TypeOK,
                FlagMeansAsked
  <2>5. QED
    BY <2>1, <2>2, <2>3, <2>4 DEF Child
<1>7. QED
  BY <1>3, <1>4, <1>5, <1>6

-----------------------------------------------------------------------------
(* The steps of the parent *)

\* An entry of the table that the loops or '-' take is a child not waited for.
LEMMA ListedIsChild ==
    ASSUME IInv, NEW i \in Listed, main_pc # "exited"
    PROVE  children[i] \in Unreaped /\ children[i] \in Children
BY DEF IInv, TableIsExact, Unreaped

\* Reaping the child at one end of the listed indexes keeps the table exact.
LEMMA ReapedIsUnlisted ==
    ASSUME IInv, main_pc # "exited", NEW i \in Listed,
           TermAndWait(children[i]), UNCHANGED children,
           Listed' = Listed \ {i}
    PROVE  /\ {children'[j] : j \in Listed'} = Unreaped'
           /\ \A j, k \in Listed' : children'[j] = children'[k] => j = k
<1>1. children[i] \in Children
  BY ListedIsChild
<1>2. Unreaped' = Unreaped \ {children[i]}
  BY <1>1 DEF Unreaped, TermAndWait, IInv, TypeOK
<1>3. {children[j] : j \in Listed \ {i}} = Unreaped \ {children[i]}
  BY DEF IInv, TableIsExact
<1> QED
  BY <1>2, <1>3 DEF IInv, TableIsExact

LEMMA RemoveStep ==
    ASSUME IInv, remove_last_child
    PROVE  IInv'
<1> USE DEF IInv, remove_last_child
<1>1. child_count \in Nat /\ child_count > 0 /\ next = 0
  BY StatsAssumption DEF TypeOK, LoopStartsAtZero
<1>2. child_count - 1 \in Listed /\ Listed' = Listed \ {child_count - 1}
  BY <1>1 DEF Listed, CountLess
<1>3. children[child_count - 1] \in Children
  BY <1>2, ListedIsChild
<1>4. TypeOK'
  BY <1>1, <1>3, StatsAssumption DEF TypeOK, TermAndWait, Places, CountLess, undisturbed, record
<1>5. LoopStartsAtZero'
  BY DEF LoopStartsAtZero
<1>6. TableIsExact'
  BY <1>2, ReapedIsUnlisted DEF TableIsExact
<1>7. FlagMeansAsked'
  BY <1>3 DEF FlagMeansAsked, TermAndWait, TypeOK, undisturbed, record
<1> QED
  BY <1>4, <1>5, <1>6, <1>7

LEMMA KillStep ==
    ASSUME IInv, KillNext
    PROVE  IInv'
<1> USE DEF IInv, KillNext, MoreChildren
<1>1. child_count \in Nat /\ next \in Nat /\ next < child_count
  BY StatsAssumption DEF TypeOK
<1>2. next \in Listed /\ Listed' = Listed \ {next}
  BY <1>1 DEF Listed, table
<1>3. children[next] \in Children
  BY <1>2, ListedIsChild
<1>4. TypeOK'
  BY <1>1, <1>3, StatsAssumption DEF TypeOK, TermAndWait, Places, table, undisturbed, record
<1>5. LoopStartsAtZero'
  BY DEF LoopStartsAtZero
<1>6. TableIsExact'
  BY <1>2, ReapedIsUnlisted DEF TableIsExact, table
<1>7. FlagMeansAsked'
  BY <1>3 DEF FlagMeansAsked, TermAndWait, TypeOK, undisturbed, record
<1> QED
  BY <1>4, <1>5, <1>6, <1>7

LEMMA AddStep ==
    ASSUME IInv, add_child
    PROVE  IInv'
<1> USE DEF IInv, add_child, undisturbed, record
<1>1. child_count \in Nat /\ child_count < MAX_CHILDREN /\ next = 0
  BY StatsAssumption DEF TypeOK, LoopStartsAtZero
<1>2. CASE main_pc' = "exited"
  BY <1>1, <1>2 DEF TypeOK, LoopStartsAtZero, TableIsExact, FlagMeansAsked, table
<1>3. CASE main_pc' # "exited"
  <2>1. PICK c \in Children :
           /\ pc[c] = "unborn" /\ pc' = [pc EXCEPT ![c] = "start"]
           /\ children' = [children EXCEPT ![child_count] = c]
           /\ child_count' = child_count + 1
           /\ UNCHANGED <<main_pc, fork_failed>>
    BY <1>3
  <2>2. TypeOK'
    BY <1>1, <2>1, StatsAssumption DEF TypeOK, Places, Running
  <2>3. LoopStartsAtZero'
    BY <2>1 DEF LoopStartsAtZero
  <2>4. FlagMeansAsked'
    BY <2>1 DEF FlagMeansAsked, TypeOK
  <2>5. TableIsExact'
    <3>1. Listed' = Listed \cup {child_count} /\ child_count \notin Listed
      BY <1>1, <2>1 DEF Listed
    <3>2. Unreaped' = Unreaped \cup {c} /\ c \notin Unreaped
      BY <2>1 DEF Unreaped, TypeOK
    <3>3. children'[child_count] = c /\ \A i \in Listed : children'[i] = children[i]
      <4>1. child_count \in 0..MAX_CHILDREN - 1
        BY <1>1, StatsAssumption
      <4>2. children'[child_count] = c
        BY <2>1, <4>1 DEF TypeOK
      <4>3. \A i \in Listed : i \in 0..MAX_CHILDREN - 1 /\ i # child_count
        BY <1>1, StatsAssumption DEF Listed
      <4>4. QED
        BY <2>1, <4>2, <4>3 DEF TypeOK
    <3>4. \A i \in Listed : children[i] \in Unreaped
      BY <1>3, <2>1, ListedIsChild
    <3>5. {children'[i] : i \in Listed'} = Unreaped'
      BY <1>3, <2>1, <3>1, <3>2, <3>3 DEF TableIsExact
    <3>6. \A i, j \in Listed' : children'[i] = children'[j] => i = j
      BY <1>3, <2>1, <3>1, <3>2, <3>3, <3>4 DEF TableIsExact
    <3>7. QED
      BY <1>3, <3>5, <3>6 DEF TableIsExact
  <2>6. QED
    BY <2>2, <2>3, <2>4, <2>5
<1> QED
  BY <1>2, <1>3

LEMMA AskStep ==
    ASSUME IInv, AskNext
    PROVE  IInv'
<1> USE DEF IInv, AskNext, MoreChildren
<1> DEFINE c == children[next]
<1>1. child_count \in Nat /\ next \in Nat /\ next < child_count
  BY StatsAssumption DEF TypeOK
<1>2. next \in Listed
  BY <1>1 DEF Listed
<1>3. c \in Children /\ pc[c] \in Running \cup {"zombie"}
  BY <1>2, ListedIsChild DEF Unreaped, TypeOK, Places
<1>4. Sigusr2(c)
  OBVIOUS
<1>5. \E to \in Running \cup {"zombie"} : pc' = [pc EXCEPT ![c] = to]
  BY <1>3, <1>4 DEF Sigusr2, HandlerReturns, Running, TypeOK
<1>6. TypeOK'
  <2>1. pc' \in [Children -> Places]
    BY <1>3, <1>5 DEF TypeOK, Places
  <2>2. /\ print_permission' \in [Children -> BOOLEAN] /\ asked' \in [Children -> Nat]
        /\ missed' \in [Children -> BOOLEAN]
    <3>1. CASE UNCHANGED <<print_permission, asked, missed>>
      BY <3>1 DEF TypeOK
    <3>2. CASE /\ print_permission' = [print_permission EXCEPT ![c] = TRUE]
               /\ asked' = [asked EXCEPT ![c] = @ + 1]
               /\ missed' = [missed EXCEPT ![c] = pc[c] \in Windows]
      <4>1. print_permission' \in [Children -> BOOLEAN]
        BY <3>2 DEF TypeOK
      <4>2. asked' \in [Children -> Nat]
        BY <1>3, <3>2 DEF TypeOK
      <4>3. \E b \in BOOLEAN : missed' = [missed EXCEPT ![c] = b]
        <5>1. (pc[c] \in Windows) \in BOOLEAN
          OBVIOUS
        <5>2. QED
          BY <3>2, <5>1
      <4>4. missed' \in [Children -> BOOLEAN]
        BY <4>3 DEF TypeOK
      <4>5. QED
        BY <4>1, <4>2, <4>4
    <3>3. QED
      BY <1>4, <3>1, <3>2 DEF Sigusr2
  <2>3. QED
    BY <1>1, <2>1, <2>2, StatsAssumption DEF TypeOK, table
<1>7. LoopStartsAtZero'
  BY DEF LoopStartsAtZero
<1>8. TableIsExact'
  <2>1. Unreaped' = Unreaped
    BY <1>3, <1>5 DEF Unreaped, TypeOK, Running
  <2>2. Listed' = Listed
    BY DEF Listed, table
  <2>3. QED
    BY <2>1, <2>2, TableKept DEF table
<1>9. FlagMeansAsked'
  <2>1. /\ asked \in [Children -> Nat] /\ shown \in [Children -> Nat]
        /\ print_permission \in [Children -> BOOLEAN]
    BY DEF TypeOK
  <2>2. UNCHANGED shown
    BY <1>4 DEF Sigusr2
  <2>3. \A x \in Children \ {c} : /\ pc'[x] = pc[x] /\ asked'[x] = asked[x]
                                   /\ print_permission'[x] = print_permission[x]
    BY <1>4, <1>5, <2>1 DEF Sigusr2, TypeOK
  <2>4. \/ /\ pc'[c] = "zombie" /\ asked'[c] = asked[c]
           /\ print_permission'[c] = print_permission[c] /\ pc[c] \in {"start", "zombie"}
        \/ asked'[c] = asked[c] + 1
    BY <1>3, <1>4, <2>1 DEF Sigusr2, TypeOK
  <2>5. shown'[c] <= asked'[c] /\ (asked'[c] = asked[c] + 1 => shown'[c] < asked'[c])
    BY <1>3, <2>1, <2>2, <2>4 DEF FlagMeansAsked
  <2>6. \/ pc'[c] = "print"
        \/ print_permission'[c] /\ pc'[c] \notin {"reset", "reaped"}
        => shown'[c] < asked'[c]
    BY <1>3, <2>2, <2>4, <2>5 DEF FlagMeansAsked
  <2>7. QED
    BY <2>2, <2>3, <2>5, <2>6 DEF FlagMeansAsked
<1> QED
  BY <1>6, <1>7, <1>8, <1>9

\* A loop that starts or ends moves no child.
LEMMA LoopStep ==
    ASSUME IInv, AskAll \/ KillAll \/ AskDone \/ KillDone
    PROVE  IInv'
<1> USE DEF IInv, undisturbed, record, table
<1>1. UNCHANGED <<children, fork_failed, pc, iterations, print_permission, asked, printed,
                  shown, missed>>
  BY DEF AskAll, KillAll, StartLoop, AskDone, KillDone
<1>2. FlagMeansAsked' /\ Unreaped' = Unreaped
  BY <1>1 DEF FlagMeansAsked, Unreaped
<1>3. CASE AskAll \/ KillAll \/ AskDone
  <2>1. /\ UNCHANGED child_count /\ main_pc # "exited" /\ main_pc' # "exited"
        /\ main_pc' \in {"command", "ask", "kill", "quit"}
        /\ next' \in {0, next} /\ asks' \in {asks, asks + 1}
    BY <1>3 DEF AskAll, KillAll, StartLoop, AskDone
  <2>2. LoopStartsAtZero'
    BY <1>3 DEF LoopStartsAtZero, AskAll, KillAll, StartLoop, AskDone
  <2>3. asks' \in 0..MaxAsks
    BY <1>3, StatsAssumption DEF AskAll, KillAll, StartLoop, AskDone, TypeOK
  <2>4. TypeOK'
    BY <1>1, <2>1, <2>3, StatsAssumption DEF TypeOK
  <2>5. Listed' = Listed
    BY <1>3 DEF Listed, LoopStartsAtZero, AskAll, KillAll, StartLoop, AskDone
  <2>6. TableIsExact'
    BY <1>1, <1>2, <2>1, <2>5, TableKept
  <2>7. QED
    BY <1>2, <2>2, <2>4, <2>6
<1>4. CASE KillDone
  <2>1. next = child_count /\ child_count \in Nat
    BY <1>4, StatsAssumption DEF KillDone, MoreChildren, TypeOK
  <2>2. Listed = {} /\ Listed' = {}
    BY <1>4, <2>1 DEF Listed, KillDone
  <2>3. Unreaped = {}
    BY <1>4, <2>2 DEF TableIsExact, KillDone
  <2>4. TableIsExact'
    BY <1>2, <2>2, <2>3 DEF TableIsExact
  <2>5. TypeOK' /\ LoopStartsAtZero'
    BY <1>1, <1>4, StatsAssumption DEF TypeOK, LoopStartsAtZero, KillDone
  <2>6. QED
    BY <1>2, <2>4, <2>5
<1> QED
  BY <1>3, <1>4

-----------------------------------------------------------------------------
(* The theorems *)

LEMMA InvariantHolds == Spec => []IInv
<1>1. Init => IInv
  <2> SUFFICES ASSUME Init PROVE IInv
    OBVIOUS
  <2> USE DEF Init
  <2>1. TypeOK
    <3>1. /\ children \in [0..MAX_CHILDREN - 1 -> Children \cup {NoChild}]
          /\ pc \in [Children -> Places]
      BY DEF Places
    <3>2. /\ child_count \in 0..MAX_CHILDREN /\ next \in 0..child_count /\ asks \in 0..MaxAsks
          /\ 0 \in 0..THRESHOLD - 1
      BY StatsAssumption
    <3>3. QED
      BY <3>1, <3>2 DEF TypeOK
  <2>2. Unreaped = {} /\ Listed = {}
    BY DEF Unreaped, Listed
  <2>3. TableIsExact
    BY <2>2 DEF TableIsExact
  <2>4. LoopStartsAtZero /\ FlagMeansAsked
    BY DEF LoopStartsAtZero, FlagMeansAsked
  <2>5. QED
    BY <2>1, <2>3, <2>4 DEF IInv
<1>2. IInv /\ [Next]_vars => IInv'
  <2> SUFFICES ASSUME IInv, [Next]_vars PROVE IInv'
    OBVIOUS
  <2>1. CASE UNCHANGED vars
    BY <2>1 DEF IInv, TypeOK, LoopStartsAtZero, TableIsExact, FlagMeansAsked, Listed,
                Unreaped, vars, parent, table, record
  <2>2. CASE \E c \in Children : Child(c)
    BY <2>2, ChildStep
  <2>3. CASE UserCommand
    BY <2>3, AddStep, RemoveStep, LoopStep DEF UserCommand
  <2>4. CASE ParentWork
    BY <2>4, AskStep, KillStep, LoopStep DEF ParentWork
  <2>5. QED
    BY <2>1, <2>2, <2>3, <2>4 DEF Next
<1>3. QED
  BY <1>1, <1>2, PTL DEF Spec

\* Every variable of lab03 keeps its type, and no index leaves the table.
THEOREM TypesHold == Spec => []TypeOK
BY InvariantHolds, PTL DEF IInv

\* The parent's table always names exactly the children not waited for.
THEOREM TableHolds == Spec => []TableIsExact
BY InvariantHolds, PTL DEF IInv

\* No child prints unasked, or twice for one request.
THEOREM PrintsOnRequest == Spec => OnRequest
<1>1. IInv /\ [Next]_vars =>
        [\A c \in Children : printed'[c] # printed[c] => asked[c] > shown[c]]_vars
  <2> SUFFICES ASSUME IInv, Next, NEW c \in Children, printed'[c] # printed[c]
               PROVE  asked[c] > shown[c]
    OBVIOUS
  <2>1. PICK d \in Children : print_statistics(d)
    BY DEF Next, Child, InstallHandlers, FailToStart, Collect, TestPermission, Pause, Reset,
           UserCommand, add_child, remove_last_child, AskAll, KillAll, StartLoop,
           ParentWork, AskNext, AskDone, KillNext, KillDone, undisturbed, record
  <2>2. c = d /\ pc[c] = "print"
    BY <2>1 DEF print_statistics, Goto, IInv, TypeOK
  <2>3. QED
    BY <2>2 DEF IInv, FlagMeansAsked, TypeOK
<1>2. QED
  BY <1>1, InvariantHolds, PTL DEF Spec, OnRequest
===============================================================================
