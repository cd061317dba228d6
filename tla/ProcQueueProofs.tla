----------------------------- MODULE ProcQueueProofs -----------------------------
(***************************************************************************)
(* What holds of ProcQueue for any number of processes, messages and cells,  *)
(* and any session, with SIGTERM at any point of any process's work: the     *)
(* balance of the semaphores, what it means for the mutex, types, and, until  *)
(* a wait is broken off, the ring.                                           *)
(***************************************************************************)
EXTENDS ProcQueue, SharedLemmas

\* The processes at places of A, were f their program counter.
Where(f, A) == {q \in Procs : f[q] \in A}

CSPlaces   == {"touch", "load", "store", "unlock"}
SlotPlaces == CSPlaces \cup {"mutex", "post"}

-----------------------------------------------------------------------------
(* How many processes are where *)

LEMMA ProcsFinite == IsFiniteSet(Procs)
<1>1. IsFiniteSet(Producers) /\ IsFiniteSet(Consumers)
  BY ProcAssumption, FS_Interval DEF Producers, Consumers
<1>2. QED
  BY <1>1, FS_Union DEF Procs

LEMMA WhereFinite ==
    ASSUME NEW f, NEW A
    PROVE  IsFiniteSet(Where(f, A)) /\ Cardinality(Where(f, A)) \in Nat
<1>1. Where(f, A) \subseteq Procs
  BY DEF Where
<1>2. QED
  BY <1>1, ProcsFinite, FS_Subset, FS_CardinalityType

\* One process goes to another place.
Moves(f, g, p, to) == f \in [Procs -> Places] /\ g = [f EXCEPT ![p] = to]

\* It changes the number of processes at a set of places by what it enters
\* and leaves.
LEMMA OneMoves ==
    ASSUME NEW f, NEW g, NEW p \in Procs, NEW to, NEW A, Moves(f, g, p, to)
    PROVE  /\ (f[p] \in A <=> to \in A) => Cardinality(Where(g, A)) = Cardinality(Where(f, A))
           /\ f[p] \notin A /\ to \in A =>
                Cardinality(Where(g, A)) = Cardinality(Where(f, A)) + 1
           /\ f[p] \in A /\ to \notin A =>
                Cardinality(Where(g, A)) = Cardinality(Where(f, A)) - 1
<1>1. g[p] = to /\ \A q \in Procs : q # p => g[q] = f[q]
  BY DEF Moves
<1>2. /\ IsFiniteSet(Where(f, A)) /\ Cardinality(Where(f, A)) \in Nat
      /\ IsFiniteSet(Where(g, A)) /\ Cardinality(Where(g, A)) \in Nat
  BY WhereFinite
<1>3. CASE f[p] \in A <=> to \in A
  <2>1. Where(g, A) = Where(f, A)
    BY <1>1, <1>3 DEF Where
  <2>2. QED
    BY <1>3, <2>1
<1>4. CASE f[p] \notin A /\ to \in A
  <2>1. Where(g, A) = Where(f, A) \cup {p} /\ p \notin Where(f, A)
    BY <1>1, <1>4 DEF Where
  <2>2. Cardinality(Where(g, A)) = Cardinality(Where(f, A)) + 1
    BY <1>2, <2>1, FS_AddElement
  <2>3. QED
    BY <1>4, <2>2
<1>5. CASE f[p] \in A /\ to \notin A
  <2>1. Where(f, A) = Where(g, A) \cup {p} /\ p \notin Where(g, A)
    BY <1>1, <1>5 DEF Where
  <2>2. Cardinality(Where(f, A)) = Cardinality(Where(g, A)) + 1
    BY <1>2, <2>1, FS_AddElement
  <2>3. QED
    BY <1>2, <1>5, <2>2
<1>6. QED
  BY <1>3, <1>4, <1>5

\* A set of processes joins those at places of A.
LEMMA ManyJoin ==
    ASSUME NEW S \in SUBSET Procs, NEW T \in SUBSET Procs, S \cap T = {}
    PROVE  /\ IsFiniteSet(S) /\ IsFiniteSet(T)
           /\ Cardinality(S) \in Nat /\ Cardinality(T) \in Nat
           /\ Cardinality(S \cup T) = Cardinality(S) + Cardinality(T)
<1>1. IsFiniteSet(S) /\ IsFiniteSet(T)
  BY ProcsFinite, FS_Subset
<1>2. Cardinality(S \cap T) = 0
  BY FS_EmptySet
<1>3. Cardinality(S) \in Nat /\ Cardinality(T) \in Nat
  BY <1>1, FS_CardinalityType
<1>4. Cardinality(S \cup T) = Cardinality(S) + Cardinality(T) - Cardinality(S \cap T)
  BY <1>1, FS_Union
<1>5. QED
  BY <1>1, <1>2, <1>3, <1>4

-----------------------------------------------------------------------------
(* The inductive invariant.  The balance holds while main's flag is unset;   *)
(* that it is set before anything else of main's way out happens, the         *)
(* removal of the semaphores above all, is what the steps need besides.      *)

Kinds ==
    /\ session \in Session
    /\ sem \in [0..2 -> Nat] /\ interrupted \in [0..2 -> Nat]
    /\ pc \in [Procs -> Places]
    /\ ipc_removed \in BOOLEAN /\ main_flag \in BOOLEAN

FlagFirst == main_pc # "command" \/ ipc_removed => main_flag

IInv == Kinds /\ FlagFirst /\ TokensBalance

\* The balance by places; `on` is the program counter it is taken of.
Balanced(on, s, broken) ==
    /\ s[0] + s[1] + Cardinality(Where(on, SlotPlaces)) = QUEUE_SIZE + broken[0] + broken[1]
    /\ s[2] + Cardinality(Where(on, CSPlaces)) = 1 + broken[2]

LEMMA BalanceByPlaces ==
    /\ TokensBalance <=> (~main_flag => Balanced(pc, sem, interrupted))
    /\ TokensBalance' <=> (~main_flag' => Balanced(pc', sem', interrupted'))
<1>1. HoldingSlot = Where(pc, SlotPlaces) /\ InCriticalSection = Where(pc, CSPlaces)
  BY DEF HoldingSlot, InCriticalSection, At, Where, SlotPlaces, CSPlaces
<1>2. HoldingSlot' = Where(pc', SlotPlaces) /\ InCriticalSection' = Where(pc', CSPlaces)
  BY DEF HoldingSlot, InCriticalSection, At, Where, SlotPlaces, CSPlaces
<1>3. QED
  BY <1>1, <1>2 DEF TokensBalance, Balanced

LEMMA InitHolds ==
    ASSUME Init
    PROVE  IInv
<1>1. /\ session \in Session /\ ipc_removed = FALSE /\ main_flag = FALSE /\ main_pc = "command"
      /\ pc \in [Procs -> Places] /\ interrupted = [k \in 0..2 |-> 0]
  BY ProcAssumption DEF Init, Places
<1>2. /\ sem \in [0..2 -> Nat]
      /\ sem[0] = QUEUE_SIZE /\ sem[1] = 0 /\ sem[2] = 1
  BY ProcAssumption DEF Init
<1>3. Kinds /\ FlagFirst
  BY <1>1, <1>2 DEF Kinds, FlagFirst
<1>4. Where(pc, SlotPlaces) = {} /\ Where(pc, CSPlaces) = {}
  BY DEF Init, Where, SlotPlaces, CSPlaces
<1>5. Balanced(pc, sem, interrupted)
  BY <1>1, <1>2, <1>4, FS_EmptySet, ProcAssumption DEF Balanced
<1>6. QED
  BY <1>3, <1>5, BalanceByPlaces DEF IInv

-----------------------------------------------------------------------------
(* The processes.  A step is paid for when the tokens it takes or gives are   *)
(* what it enters or leaves the places of their holders with.                *)

In(place, A) == IF place \in A THEN 1 ELSE 0

PaidFor(s, from, to) ==
    /\ s[0] + s[1] + In(to, SlotPlaces) = sem[0] + sem[1] + In(from, SlotPlaces)
    /\ s[2] + In(to, CSPlaces) = sem[2] + In(from, CSPlaces)

LEMMA ProcessStep ==
    ASSUME IInv, NEW p \in Procs, NEW to \in Places, pc' = [pc EXCEPT ![p] = to],
           UNCHANGED quiet, sem' \in [0..2 -> Nat], ~ipc_removed => PaidFor(sem', pc[p], to)
    PROVE  IInv'
<1>1. Kinds' /\ FlagFirst'
  BY DEF IInv, Kinds, FlagFirst, quiet, mainVars
<1> DEFINE Held(A) == Cardinality(Where(pc', A)) + In(pc[p], A)
                        = Cardinality(Where(pc, A)) + In(to, A)
<1>5. \A A : Held(A)
  <2>1. SUFFICES ASSUME NEW A PROVE Held(A)
    OBVIOUS
  <2>2. Cardinality(Where(pc, A)) \in Nat
    BY WhereFinite
  <2>3. Moves(pc, pc', p, to)
    BY DEF IInv, Kinds, Moves
  <2>4. /\ (pc[p] \in A <=> to \in A) =>
             Cardinality(Where(pc', A)) = Cardinality(Where(pc, A))
        /\ pc[p] \notin A /\ to \in A =>
             Cardinality(Where(pc', A)) = Cardinality(Where(pc, A)) + 1
        /\ pc[p] \in A /\ to \notin A =>
             Cardinality(Where(pc', A)) = Cardinality(Where(pc, A)) - 1
    BY <2>3, OneMoves
  <2>5. QED
    BY <2>2, <2>4 DEF In
<1>2. CASE main_flag
  BY <1>1, <1>2, BalanceByPlaces DEF IInv, quiet, mainVars
<1>3. CASE ~main_flag
  <2>1. Balanced(pc, sem, interrupted) /\ ~ipc_removed
    BY <1>3, BalanceByPlaces DEF IInv, Kinds, FlagFirst
  <2>2. /\ Cardinality(Where(pc, SlotPlaces)) \in Nat
        /\ Cardinality(Where(pc, CSPlaces)) \in Nat
    BY WhereFinite
  <2>3. Cardinality(Where(pc', SlotPlaces)) + In(pc[p], SlotPlaces)
          = Cardinality(Where(pc, SlotPlaces)) + In(to, SlotPlaces)
    BY <1>5
  <2>4. Cardinality(Where(pc', CSPlaces)) + In(pc[p], CSPlaces)
          = Cardinality(Where(pc, CSPlaces)) + In(to, CSPlaces)
    BY <1>5
  <2>5. /\ Cardinality(Where(pc', SlotPlaces)) \in Nat
        /\ Cardinality(Where(pc', CSPlaces)) \in Nat
    BY WhereFinite
  <2>6. interrupted' = interrupted /\ interrupted \in [0..2 -> Nat] /\ sem \in [0..2 -> Nat]
    BY DEF IInv, Kinds, quiet
  <2>7. Balanced(pc', sem', interrupted')
    BY <2>1, <2>2, <2>3, <2>4, <2>5, <2>6, ProcAssumption DEF Balanced, PaidFor, In
  <2>8. QED
    BY <1>1, <2>7, BalanceByPlaces DEF IInv
<1>4. QED
  BY <1>2, <1>3 DEF IInv, Kinds

\* Steps that leave the semaphores alone.
LEMMA FreeStep ==
    ASSUME IInv, NEW p \in Procs, NEW to \in Places, pc' = [pc EXCEPT ![p] = to],
           UNCHANGED <<quiet, sem>>,
           pc[p] \in SlotPlaces <=> to \in SlotPlaces, pc[p] \in CSPlaces <=> to \in CSPlaces
    PROVE  IInv'
<1>1. sem' \in [0..2 -> Nat] /\ UNCHANGED quiet
  BY DEF IInv, Kinds
<1>2. PaidFor(sem', pc[p], to)
  BY DEF PaidFor, In, IInv, Kinds
<1>3. QED
  BY <1>1, <1>2, ProcessStep

LEMMA EndsByItself ==
    ASSUME IInv, NEW p \in Procs, pc[p] \in {"attach", "top"}, End({p}, pc),
           UNCHANGED <<quiet, sem>>
    PROVE  IInv'
<1>1. pc' = [pc EXCEPT ![p] = "gone"]
  BY DEF End, IInv, Kinds
<1>2. QED
  BY <1>1, FreeStep DEF SlotPlaces, CSPlaces, Places

LEMMA ProcessKeeps ==
    ASSUME IInv, NEW p \in Procs, Process(p)
    PROVE  IInv'
<1>1. Kinds
  BY DEF IInv
<1>2. CASE InstallHandler(p)
  BY <1>2, FreeStep DEF InstallHandler, Goto, SlotPlaces, CSPlaces, Places
<1>3. CASE Attach(p)
  <2>1. CASE Goto(p, "attach", "top")
    BY <1>3, <2>1, FreeStep DEF Attach, Goto, SlotPlaces, CSPlaces, Places
  <2>2. CASE End({p}, pc)
    BY <1>3, <2>2, EndsByItself DEF Attach
  <2>3. QED
    BY <1>3, <2>1, <2>2 DEF Attach
<1>4. CASE Leave(p)
  BY <1>4, EndsByItself DEF Leave
<1>5. CASE Generate(p) \/ Continue(p)
  BY <1>5, FreeStep DEF Generate, Continue, Goto, SlotPlaces, CSPlaces, Places
<1>6. CASE TakeSlot(p)
  <2>1. WaitsFor(p) \in 0..1
    BY DEF WaitsFor
  <2>2. /\ sem' \in [0..2 -> Nat]
        /\ ~ipc_removed => sem'[0] + sem'[1] = sem[0] + sem[1] - 1 /\ sem'[2] = sem[2]
    BY <1>1, <1>6, <2>1 DEF TakeSlot, Down, Kinds
  <2>3. pc[p] = "slot" /\ pc' = [pc EXCEPT ![p] = "mutex"]
    BY <1>6 DEF TakeSlot, Goto
  <2>4. ~ipc_removed => PaidFor(sem', "slot", "mutex")
    BY <1>1, <2>2 DEF PaidFor, In, SlotPlaces, CSPlaces, Kinds
  <2>5. QED
    BY <1>6, <2>2, <2>3, <2>4, ProcessStep DEF TakeSlot, Places
<1>7. CASE TakeMutex(p)
  <2>1. /\ sem' \in [0..2 -> Nat]
        /\ ~ipc_removed => sem'[0] = sem[0] /\ sem'[1] = sem[1] /\ sem'[2] = sem[2] - 1
    BY <1>1, <1>7 DEF TakeMutex, Down, Kinds
  <2>2. pc[p] = "mutex" /\ pc' = [pc EXCEPT ![p] = "touch"]
    BY <1>7 DEF TakeMutex, Goto
  <2>3. ~ipc_removed => PaidFor(sem', "mutex", "touch")
    BY <1>1, <2>1 DEF PaidFor, In, SlotPlaces, CSPlaces, Kinds
  <2>4. QED
    BY <1>7, <2>1, <2>2, <2>3, ProcessStep DEF TakeMutex, Places
<1>8. CASE Touch(p)
  BY <1>8, FreeStep DEF Touch, Goto, SlotPlaces, CSPlaces, Places
<1>9. CASE Load(p)
  BY <1>9, FreeStep DEF Load, Goto, SlotPlaces, CSPlaces, Places
<1>10. CASE Store(p)
  <2>1. PICK to \in {"load", "unlock"} : Goto(p, "store", to)
    BY <1>10 DEF Store
  <2>2. QED
    BY <1>10, <2>1, FreeStep DEF Store, Goto, SlotPlaces, CSPlaces, Places
<1>11. CASE Unlock(p)
  <2>1. /\ sem' \in [0..2 -> Nat]
        /\ ~ipc_removed => sem'[0] = sem[0] /\ sem'[1] = sem[1] /\ sem'[2] = sem[2] + 1
    BY <1>1, <1>11 DEF Unlock, Up, Kinds
  <2>2. pc[p] = "unlock" /\ pc' = [pc EXCEPT ![p] = "post"]
    BY <1>11 DEF Unlock, Goto
  <2>3. ~ipc_removed => PaidFor(sem', "unlock", "post")
    BY <1>1, <2>1 DEF PaidFor, In, SlotPlaces, CSPlaces, Kinds
  <2>4. QED
    BY <1>11, <2>1, <2>2, <2>3, ProcessStep DEF Unlock, Places
<1>12. CASE Post(p)
  <2>1. Signals(p) \in 0..1
    BY DEF Signals
  <2>2. /\ sem' \in [0..2 -> Nat]
        /\ ~ipc_removed => sem'[0] + sem'[1] = sem[0] + sem[1] + 1 /\ sem'[2] = sem[2]
    BY <1>1, <1>12, <2>1 DEF Post, Up, Kinds
  <2>3. pc[p] = "post" /\ pc' = [pc EXCEPT ![p] = "top"]
    BY <1>12 DEF Post, Goto
  <2>4. ~ipc_removed => PaidFor(sem', "post", "top")
    BY <1>1, <2>2 DEF PaidFor, In, SlotPlaces, CSPlaces, Kinds
  <2>5. QED
    BY <1>12, <2>2, <2>3, <2>4, ProcessStep DEF Post, Places
<1>13. QED
  BY <1>2, <1>3, <1>4, <1>5, <1>6, <1>7, <1>8, <1>9, <1>10, <1>11, <1>12 DEF Process

-----------------------------------------------------------------------------
(* main *)

\* Once the flag is set nothing is asked of the tokens.
LEMMA FlagIsUp ==
    ASSUME Kinds', main_flag'
    PROVE  IInv'
BY BalanceByPlaces DEF IInv, FlagFirst

\* Nothing the tokens are about changes.
LEMMA SameBalance ==
    ASSUME IInv, Kinds', FlagFirst', main_flag' = main_flag, UNCHANGED <<sem, interrupted>>,
           Where(pc', SlotPlaces) = Where(pc, SlotPlaces),
           Where(pc', CSPlaces) = Where(pc, CSPlaces)
    PROVE  IInv'
<1>1. Balanced(pc', sem', interrupted') <=> Balanced(pc, sem, interrupted)
  BY DEF Balanced
<1>2. QED
  BY <1>1, BalanceByPlaces DEF IInv

LEMMA CommandKeepsFlag ==
    ASSUME IInv, NEW k, Command(k), UNCHANGED <<ipc_removed, main_flag>>
    PROVE  FlagFirst'
BY DEF IInv, Kinds, FlagFirst, Command

LEMMA ForkKeeps ==
    ASSUME IInv, FlagFirst', NEW P \in SUBSET Procs,
           \/ \E p \in FirstUnborn(P) : pc' = [pc EXCEPT ![p] = "start"]
           \/ UNCHANGED pc,
           UNCHANGED <<idle, local, interrupted>>
    PROVE  IInv'
<1>1. Kinds'
  BY DEF IInv, Kinds, idle, FirstUnborn, Places
<1>2. \A A \in {SlotPlaces, CSPlaces} : Where(pc', A) = Where(pc, A)
  <2>1. CASE UNCHANGED pc
    BY <2>1 DEF Where
  <2>2. CASE \E p \in FirstUnborn(P) : pc' = [pc EXCEPT ![p] = "start"]
    <3>1. PICK p \in FirstUnborn(P) : pc' = [pc EXCEPT ![p] = "start"]
      BY <2>2
    <3>2. p \in Procs /\ pc[p] = "unborn" /\ pc \in [Procs -> Places]
      BY DEF FirstUnborn, IInv, Kinds
    <3>3. \A q \in Procs : pc'[q] = IF q = p THEN "start" ELSE pc[q]
      BY <3>1, <3>2
    <3>4. QED
      BY <3>2, <3>3 DEF Where, SlotPlaces, CSPlaces
  <2>3. QED
    BY <2>1, <2>2
<1>3. QED
  BY <1>1, <1>2, SameBalance DEF idle

\* SIGTERM: who is sent on without a token is counted among the interrupted.
LEMMA KillKeeps ==
    ASSUME IInv, FlagFirst', NEW S \in SUBSET Procs, Kill(S),
           UNCHANGED <<session, ipc_removed, main_flag>>
    PROVE  IInv'
<1>1. PICK asleep \in SUBSET {p \in S : MayBeAsleep(p)} :
        /\ pc' = [p \in Procs |->
                    CASE p \in S /\ pc[p] = "start"     -> "gone"
                      [] p \in asleep /\ pc[p] = "slot"  -> "mutex"
                      [] p \in asleep /\ pc[p] = "mutex" -> "touch"
                      [] OTHER                           -> pc[p]]
        /\ interrupted' = [k \in 0..2 |->
                             interrupted[k] + Cardinality({p \in asleep : SemOf(p) = k})]
        /\ UNCHANGED sem
  BY DEF Kill
<1> DEFINE Broken(k) == {p \in asleep : SemOf(p) = k}
<1>2. /\ asleep \subseteq Procs /\ \A p \in asleep : pc[p] \in {"slot", "mutex"}
      /\ pc \in [Procs -> Places]
  BY <1>1 DEF MayBeAsleep, IInv, Kinds
<1>3. \A p \in asleep : SemOf(p) = IF pc[p] = "mutex" THEN 2 ELSE WaitsFor(p)
  BY <1>2 DEF SemOf
<1>4. \A p \in asleep : WaitsFor(p) = 0 \/ WaitsFor(p) = 1
  BY DEF WaitsFor
<1>5. \A q \in Procs :
        pc'[q] = IF q \in S /\ pc[q] = "start" THEN "gone"
                 ELSE IF q \in asleep /\ pc[q] = "slot" THEN "mutex"
                 ELSE IF q \in asleep /\ pc[q] = "mutex" THEN "touch" ELSE pc[q]
  BY <1>1, <1>2
<1>6. /\ Where(pc', SlotPlaces) = Where(pc, SlotPlaces) \cup (Broken(0) \cup Broken(1))
      /\ Where(pc, SlotPlaces) \cap (Broken(0) \cup Broken(1)) = {}
      /\ Broken(0) \cap Broken(1) = {}
  <2>1. Broken(0) \cup Broken(1) = {p \in asleep : pc[p] = "slot"}
    BY <1>2, <1>3, <1>4
  <2>2. Where(pc', SlotPlaces) = Where(pc, SlotPlaces) \cup {p \in asleep : pc[p] = "slot"}
    BY <1>2, <1>5 DEF Where, SlotPlaces, CSPlaces
  <2>3. Where(pc, SlotPlaces) \cap {p \in asleep : pc[p] = "slot"} = {}
    BY DEF Where, SlotPlaces, CSPlaces
  <2>4. Broken(0) \cap Broken(1) = {}
    OBVIOUS
  <2>5. QED
    BY <2>1, <2>2, <2>3, <2>4
<1>7. /\ Where(pc', CSPlaces) = Where(pc, CSPlaces) \cup Broken(2)
      /\ Where(pc, CSPlaces) \cap Broken(2) = {}
  <2>1. Broken(2) = {p \in asleep : pc[p] = "mutex"}
    BY <1>2, <1>3, <1>4
  <2>2. Where(pc', CSPlaces) = Where(pc, CSPlaces) \cup {p \in asleep : pc[p] = "mutex"}
    BY <1>2, <1>5 DEF Where, CSPlaces
  <2>3. Where(pc, CSPlaces) \cap {p \in asleep : pc[p] = "mutex"} = {}
    BY DEF Where, CSPlaces
  <2>4. QED
    BY <2>1, <2>2, <2>3
<1>8. /\ \A k \in 0..2 : Broken(k) \in SUBSET Procs /\ Cardinality(Broken(k)) \in Nat
      /\ Where(pc, SlotPlaces) \in SUBSET Procs /\ Where(pc, CSPlaces) \in SUBSET Procs
      /\ Cardinality(Where(pc, SlotPlaces)) \in Nat /\ Cardinality(Where(pc, CSPlaces)) \in Nat
  <2>1. \A k \in 0..2 : Broken(k) \in SUBSET Procs
    BY <1>2
  <2>2. \A k \in 0..2 : Cardinality(Broken(k)) \in Nat
    BY <2>1, ProcsFinite, FS_Subset, FS_CardinalityType
  <2>3. Where(pc, SlotPlaces) \in SUBSET Procs /\ Where(pc, CSPlaces) \in SUBSET Procs
    BY DEF Where
  <2>4. QED
    BY <2>1, <2>2, <2>3, WhereFinite
<1>9. Cardinality(Where(pc', SlotPlaces))
        = Cardinality(Where(pc, SlotPlaces)) + Cardinality(Broken(0)) + Cardinality(Broken(1))
  <2>1. Cardinality(Broken(0) \cup Broken(1)) = Cardinality(Broken(0)) + Cardinality(Broken(1))
    BY <1>6, <1>8, ManyJoin
  <2>2. Broken(0) \cup Broken(1) \in SUBSET Procs
    BY <1>8
  <2>3. Cardinality(Where(pc, SlotPlaces) \cup (Broken(0) \cup Broken(1)))
          = Cardinality(Where(pc, SlotPlaces)) + Cardinality(Broken(0) \cup Broken(1))
    BY <1>6, <1>8, <2>2, ManyJoin
  <2>4. QED
    BY <1>6, <1>8, <2>1, <2>3
<1>10. Cardinality(Where(pc', CSPlaces))
         = Cardinality(Where(pc, CSPlaces)) + Cardinality(Broken(2))
  BY <1>7, <1>8, ManyJoin
<1>11. interrupted' \in [0..2 -> Nat] /\ \A k \in 0..2 :
         interrupted'[k] = interrupted[k] + Cardinality(Broken(k))
  BY <1>1, <1>8 DEF IInv, Kinds
<1>12. Kinds'
  <2>1. pc' \in [Procs -> Places]
    BY <1>1, <1>2, <1>5 DEF Places
  <2>2. QED
    BY <1>1, <1>11, <2>1 DEF IInv, Kinds
<1>13. Balanced(pc, sem, interrupted) => Balanced(pc', sem', interrupted')
  <2>1. sem' = sem /\ sem \in [0..2 -> Nat] /\ interrupted \in [0..2 -> Nat]
    BY <1>1 DEF IInv, Kinds
  <2>2. QED
    BY <1>8, <1>9, <1>10, <1>11, <2>1, ProcAssumption DEF Balanced
<1>14. QED
  BY <1>12, <1>13, BalanceByPlaces DEF IInv

LEMMA MainKeeps ==
    ASSUME IInv, \/ AddProducer \/ AddConsumer \/ RemoveProducer \/ RemoveConsumer
                 \/ Quit \/ sigint_handler \/ OtherLine
                 \/ JoinMonitor \/ KillNext \/ RemoveIpc
    PROVE  IInv'
<1>1. session.producers \in SUBSET Procs /\ session.consumers \in SUBSET Procs
  BY DEF IInv, Kinds, Session, Procs
<1>2. \A pid : Targets(pid) \in SUBSET Procs
  BY DEF Targets, Alive
<1>3. CASE AddProducer
  BY <1>1, <1>3, CommandKeepsFlag, ForkKeeps DEF AddProducer, Fork, idle
<1>4. CASE AddConsumer
  BY <1>1, <1>4, CommandKeepsFlag, ForkKeeps DEF AddConsumer, Fork, idle
<1>5. CASE RemoveProducer
  BY <1>2, <1>5, CommandKeepsFlag, KillKeeps DEF RemoveProducer, idle
<1>6. CASE RemoveConsumer
  BY <1>2, <1>6, CommandKeepsFlag, KillKeeps DEF RemoveConsumer, idle
<1>7. CASE Quit
  BY <1>7, FlagIsUp DEF Quit, IInv, Kinds, procs
<1>8. CASE sigint_handler
  <2>1. pc' \in [Procs -> Places]
    BY <1>8 DEF sigint_handler, End, IInv, Kinds, procs, Places
  <2>2. QED
    BY <1>8, <2>1, FlagIsUp DEF sigint_handler, IInv, Kinds
<1>9. CASE OtherLine
  <2>1. FlagFirst'
    BY <1>9, CommandKeepsFlag DEF OtherLine
  <2>2. QED
    BY <1>9, <2>1, SameBalance DEF OtherLine, IInv, Kinds, procs
<1>10. CASE JoinMonitor
  BY <1>10, FlagIsUp DEF JoinMonitor, IInv, Kinds, procs
<1>11. CASE KillNext
  <2>1. FlagFirst'
    BY <1>11 DEF KillNext, IInv, FlagFirst
  <2>2. PICK pid : Kill(Targets(pid))
    BY <1>11 DEF KillNext
  <2>3. QED
    BY <1>2, <1>11, <2>1, <2>2, KillKeeps DEF KillNext
<1>12. CASE RemoveIpc
  <2>1. main_flag'
    BY <1>12 DEF RemoveIpc, IInv, FlagFirst
  <2>2. QED
    BY <1>12, <2>1, FlagIsUp DEF RemoveIpc, IInv, Kinds, procs
<1>13. QED
  BY <1>3, <1>4, <1>5, <1>6, <1>7, <1>8, <1>9, <1>10, <1>11, <1>12

-----------------------------------------------------------------------------

LEMMA NextKeeps ==
    ASSUME IInv, [Next]_vars
    PROVE  IInv'
<1>1. CASE UNCHANGED vars
  <2>1. FlagFirst' /\ Kinds'
    BY <1>1 DEF vars, mainVars, procs, IInv, Kinds, FlagFirst
  <2>2. QED
    BY <1>1, <2>1, SameBalance DEF vars, mainVars, procs
<1>2. CASE Exited
  BY <1>1, <1>2 DEF Exited
<1>3. CASE \E p \in Procs : Process(p)
  BY <1>3, ProcessKeeps
<1>4. QED
  BY <1>1, <1>2, <1>3, MainKeeps DEF Next

\* For any number of processes and any session, the three semaphores of lab04
\* are out of balance by exactly the waits that SIGTERM broke off (ipc.c:6-9),
\* until main's flag is set.
THEOREM BalanceHolds == Spec => []TokensBalance
<1>1. Init => IInv
  BY InitHolds
<1>2. IInv /\ [Next]_vars => IInv'
  BY NextKeeps
<1>3. IInv => TokensBalance
  BY DEF IInv
<1>4. QED
  BY <1>1, <1>2, <1>3, PTL DEF Spec

LEMMA AtMostOne ==
    ASSUME IInv, Uninterrupted
    PROVE  Cardinality(InCriticalSection) <= 1
<1>1. InCriticalSection = Where(pc, CSPlaces)
  BY DEF InCriticalSection, At, Where, CSPlaces
<1>2. sem[2] + Cardinality(InCriticalSection) = 1 + interrupted[2] /\ interrupted[2] = 0
  BY DEF IInv, TokensBalance, Uninterrupted
<1>3. sem[2] \in Nat /\ Cardinality(InCriticalSection) \in Nat
  BY <1>1, WhereFinite DEF IInv, Kinds
<1>4. QED
  BY <1>2, <1>3

\* As long as no wait was broken off, one process at a time works on the ring.
THEOREM OneAtATime == Spec => [](Uninterrupted => Cardinality(InCriticalSection) <= 1)
<1>1. IInv => (Uninterrupted => Cardinality(InCriticalSection) <= 1)
  BY AtMostOne
<1>2. Init => IInv
  BY InitHolds
<1>3. IInv /\ [Next]_vars => IInv'
  BY NextKeeps
<1>4. QED
  BY <1>1, <1>2, <1>3, PTL DEF Spec

-----------------------------------------------------------------------------
(* Types.  That a message's rank is a natural number rests on added_count,    *)
(* which a producer reads in one step and writes back in another.            *)

RanksGrow ==
    /\ shm["added_count"] \in Nat
    /\ \A p \in Producers : step[p] = 3 => reg[p] \in Nat

TInv == TypeOK /\ RanksGrow

RingTypes ==
    /\ buffer \in [Cells -> Nat]
    /\ shm \in [Fields -> Int] /\ shm["head"] \in Cells /\ shm["tail"] \in Cells
    /\ shm["added_count"] \in Nat

ProcTypes ==
    /\ pc \in [Procs -> Places] /\ terminate_flag \in [Procs -> BOOLEAN]
    /\ message \in [Procs -> Nat] /\ step \in [Procs -> 1..3] /\ reg \in [Procs -> Int]
    /\ \A p \in Producers : step[p] = 3 => reg[p] \in Nat

TokenTypes == sem \in [0..2 -> Nat] /\ interrupted \in [0..2 -> Nat] /\ ipc_removed \in BOOLEAN

MainTypes ==
    /\ session \in Sessions /\ generated \in Nat
    /\ main_pc \in {"command", "join", "cleanup", "exited"}
    /\ main_flag \in BOOLEAN
    /\ producer_pids \in Seq(Producers \cup {NoPid})
    /\ consumer_pids \in Seq(Consumers \cup {NoPid})

LEMMA TInvByParts == TInv <=> RingTypes /\ ProcTypes /\ TokenTypes /\ MainTypes
BY DEF TInv, TypeOK, RanksGrow, RingTypes, ProcTypes, TokenTypes, MainTypes

LEMMA TInvByPartsNext == TInv' <=> RingTypes' /\ ProcTypes' /\ TokenTypes' /\ MainTypes'
BY DEF TInv, TypeOK, RanksGrow, RingTypes, ProcTypes, TokenTypes, MainTypes

LEMMA RingWraps == \A v \in Int : v % QUEUE_SIZE \in Cells
BY ProcAssumption DEF Cells

LEMMA CountersKnown ==
    \A p \in Procs, k \in 1..3 :
      /\ Updates(p)[k] \in Fields
      /\ Updates(p)[k] = "added_count" <=> p \in Producers /\ k = 3
BY DEF Updates, Fields

LEMMA InitTypes == Init => TInv
<1>1. SUFFICES ASSUME Init PROVE TInv
  OBVIOUS
<1>2. RingTypes
  BY <1>1, ProcAssumption DEF Init, RingTypes, Cells, Fields
<1>3. ProcTypes
  <2>1. /\ pc = [p \in Procs |-> "unborn"] /\ terminate_flag = [p \in Procs |-> FALSE]
        /\ message = [p \in Procs |-> 0] /\ step = [p \in Procs |-> 1]
        /\ reg = [p \in Procs |-> 0]
    BY <1>1 DEF Init
  <2>2. QED
    BY <2>1 DEF ProcTypes, Places, Procs
<1>4. TokenTypes
  <2>1. /\ sem \in [0..2 -> Nat] /\ ipc_removed = FALSE
        /\ interrupted = [k \in 0..2 |-> 0]
    BY <1>1, ProcAssumption DEF Init
  <2>2. QED
    BY <2>1 DEF TokenTypes
<1>5. MainTypes
  <2>1. /\ session \in Sessions /\ generated = 0 /\ main_pc = "command" /\ main_flag = FALSE
        /\ producer_pids = <<>> /\ consumer_pids = <<>>
    BY <1>1 DEF Init
  <2>2. /\ <<>> \in Seq(Producers \cup {NoPid})
        /\ <<>> \in Seq(Consumers \cup {NoPid})
    OBVIOUS
  <2>3. QED
    BY <2>1, <2>2 DEF MainTypes
<1>6. QED
  BY <1>2, <1>3, <1>4, <1>5, TInvByParts

LEMMA EndTypes ==
    ASSUME ProcTypes, NEW S, End(S, pc)
    PROVE  ProcTypes'
BY DEF End, ProcTypes, Places, Procs

LEMMA ProcessTypes ==
    ASSUME TInv, NEW p \in Procs, Process(p)
    PROVE  TInv'
<1>1. RingTypes /\ ProcTypes /\ TokenTypes /\ MainTypes
  BY TInvByParts
<1>2. TokenTypes' /\ MainTypes'
  <2>1. WaitsFor(p) \in 0..2 /\ Signals(p) \in 0..2
    BY DEF WaitsFor, Signals
  <2>2. MainTypes'
    BY <1>1 DEF MainTypes, Process, InstallHandler, Attach, Leave, Generate, Continue, TakeSlot,
                TakeMutex, Touch, Load, Store, Unlock, Post, quiet, mainVars
  <2>3. ipc_removed' = ipc_removed /\ interrupted' = interrupted
    BY DEF Process, InstallHandler, Attach, Leave, Generate, Continue, TakeSlot,
           TakeMutex, Touch, Load, Store, Unlock, Post, quiet
  <2>4. sem' \in [0..2 -> Nat]
    <3>1. CASE TakeSlot(p) \/ TakeMutex(p)
      BY <1>1, <2>1, <3>1 DEF TakeSlot, TakeMutex, Down, TokenTypes
    <3>2. CASE Unlock(p) \/ Post(p)
      BY <1>1, <2>1, <3>2 DEF Unlock, Post, Up, TokenTypes
    <3>3. CASE UNCHANGED sem
      BY <1>1, <3>3 DEF TokenTypes
    <3>4. QED
      BY <3>1, <3>2, <3>3 DEF Process, InstallHandler, Attach, Leave, Generate, Continue,
                              Touch, Load, Store
  <2>5. QED
    BY <1>1, <2>2, <2>3, <2>4 DEF TokenTypes
<1>3. CASE \/ InstallHandler(p) \/ Generate(p) \/ Continue(p) \/ TakeSlot(p) \/ TakeMutex(p)
           \/ Unlock(p) \/ Post(p)
           \/ Attach(p) /\ UNCHANGED local
  <2>1. RingTypes'
    BY <1>1, <1>3 DEF RingTypes, InstallHandler, Generate, Continue, TakeSlot, TakeMutex,
                      Unlock, Post, Attach, memory
  <2>2. pc' \in [Procs -> Places]
    BY <1>1, <1>3 DEF ProcTypes, InstallHandler, Generate, Continue, TakeSlot, TakeMutex,
                      Unlock, Post, Attach, Goto, End, Places
  <2>3. UNCHANGED <<terminate_flag, step, reg>> /\ message' \in [Procs -> Nat]
    BY <1>1, <1>3 DEF ProcTypes, InstallHandler, Generate, Continue, TakeSlot, TakeMutex,
                      Unlock, Post, local
  <2>4. QED
    BY <1>1, <1>2, <2>1, <2>2, <2>3, TInvByPartsNext DEF ProcTypes
<1>4. CASE (Attach(p) \/ Leave(p)) /\ End({p}, pc)
  <2>1. RingTypes'
    BY <1>1, <1>4 DEF RingTypes, Attach, Leave, memory
  <2>2. QED
    BY <1>1, <1>2, <1>4, <2>1, EndTypes, TInvByPartsNext
<1>5. CASE Touch(p)
  <2>1. ProcTypes'
    BY <1>1, <1>5 DEF ProcTypes, RingTypes, Touch, Goto, Places
  <2>2. RingTypes'
    BY <1>1, <1>5 DEF RingTypes, Touch
  <2>3. QED
    BY <1>2, <2>1, <2>2, TInvByPartsNext
<1>6. CASE Load(p)
  <2>1. step[p] \in 1..3
    BY <1>1 DEF ProcTypes
  <2>2. /\ shm[Updates(p)[step[p]]] \in Int
        /\ p \in Producers /\ step[p] = 3 => shm[Updates(p)[step[p]]] \in Nat
    BY <1>1, <2>1, CountersKnown DEF RingTypes
  <2>3. ProcTypes'
    BY <1>1, <1>6, <2>2 DEF ProcTypes, Load, Goto, Places, Procs
  <2>4. RingTypes'
    BY <1>1, <1>6 DEF RingTypes, Load, memory
  <2>5. QED
    BY <1>2, <2>3, <2>4, TInvByPartsNext
<1>7. CASE Store(p)
  <2> DEFINE f == Updates(p)[step[p]]
  <2>1. step[p] \in 1..3 /\ reg[p] \in Int
    BY <1>1 DEF ProcTypes
  <2>2. f \in Fields /\ (f = "added_count" => reg[p] \in Nat)
    BY <1>1, <2>1, CountersKnown DEF ProcTypes
  <2>3. /\ Updated(p, f, reg[p]) \in Int
        /\ f \in {"head", "tail"} => Updated(p, f, reg[p]) \in Cells
        /\ f = "added_count" => Updated(p, f, reg[p]) \in Nat
    <3>1. (reg[p] + 1) % QUEUE_SIZE \in Cells /\ Cells \subseteq Int
      BY <2>1, RingWraps DEF Cells
    <3>2. QED
      BY <2>1, <2>2, <3>1 DEF Updated, Fields
  <2>4. RingTypes'
    <3>1. shm' = [shm EXCEPT ![f] = Updated(p, f, reg[p])] /\ buffer' = buffer
      BY <1>7 DEF Store
    <3>2. QED
      BY <1>1, <2>2, <2>3, <3>1 DEF RingTypes, Fields
  <2>5. ProcTypes'
    BY <1>1, <1>7, <2>1 DEF ProcTypes, Store, Goto, Places, Procs
  <2>6. QED
    BY <1>2, <2>4, <2>5, TInvByPartsNext
<1>8. CASE Attach(p)
  BY <1>3, <1>4, <1>8 DEF Attach
<1>9. CASE Leave(p)
  BY <1>4, <1>9 DEF Leave
<1>10. QED
  BY <1>3, <1>5, <1>6, <1>7, <1>8, <1>9 DEF Process

LEMMA KillTypes ==
    ASSUME ProcTypes, TokenTypes, NEW S \in SUBSET Procs, Kill(S), UNCHANGED ipc_removed
    PROVE  ProcTypes' /\ TokenTypes'
<1>1. PICK asleep \in SUBSET {p \in S : MayBeAsleep(p)} :
        /\ pc' = [p \in Procs |->
                    CASE p \in S /\ pc[p] = "start"     -> "gone"
                      [] p \in asleep /\ pc[p] = "slot"  -> "mutex"
                      [] p \in asleep /\ pc[p] = "mutex" -> "touch"
                      [] OTHER                           -> pc[p]]
        /\ terminate_flag' = [p \in Procs |-> terminate_flag[p] \/ (p \in S /\ pc[p] # "start")]
        /\ interrupted' = [k \in 0..2 |->
                             interrupted[k] + Cardinality({p \in asleep : SemOf(p) = k})]
        /\ UNCHANGED <<sem, message, step, reg>>
  BY DEF Kill
<1>2. \A k \in 0..2 : Cardinality({p \in asleep : SemOf(p) = k}) \in Nat
  <2>1. \A k \in 0..2 : {p \in asleep : SemOf(p) = k} \in SUBSET Procs
    BY <1>1
  <2>2. QED
    BY <2>1, ProcsFinite, FS_Subset, FS_CardinalityType
<1>3. pc' \in [Procs -> Places]
  BY <1>1 DEF ProcTypes, Places
<1>4. ProcTypes'
  BY <1>1, <1>3 DEF ProcTypes
<1>5. TokenTypes'
  BY <1>1, <1>2 DEF TokenTypes
<1>6. QED
  BY <1>4, <1>5

\* A table of pids that loses its last or its first entry.
LEMMA Shorter ==
    \A T : \A s \in Seq(T) :
      s # <<>> => SubSeq(s, 1, Len(s) - 1) \in Seq(T) /\ Tail(s) \in Seq(T)
<1> SUFFICES ASSUME NEW T, NEW s \in Seq(T), s # <<>>
             PROVE  SubSeq(s, 1, Len(s) - 1) \in Seq(T) /\ Tail(s) \in Seq(T)
  OBVIOUS
<1>1. Tail(s) \in Seq(T)
  OBVIOUS
<1>2. Len(s) \in Nat /\ \A i \in 1..Len(s) - 1 : s[i] \in T
  OBVIOUS
<1>3. SubSeq(s, 1, Len(s) - 1) \in Seq(T)
  BY <1>2
<1>4. QED
  BY <1>1, <1>3

LEMMA MainStepTypes ==
    ASSUME TInv, \/ AddProducer \/ AddConsumer \/ RemoveProducer \/ RemoveConsumer
                 \/ Quit \/ sigint_handler \/ OtherLine
                 \/ JoinMonitor \/ KillNext \/ RemoveIpc
    PROVE  TInv'
<1>1. RingTypes /\ ProcTypes /\ TokenTypes /\ MainTypes
  BY TInvByParts
<1>2. RingTypes'
  BY <1>1 DEF AddProducer, AddConsumer, Fork, RemoveProducer, RemoveConsumer, Quit,
              sigint_handler, OtherLine, JoinMonitor, KillNext, RemoveIpc, RingTypes, idle, memory
<1>3. \A pid : Targets(pid) \in SUBSET Procs
  BY DEF Targets, Alive
<1>4. CASE AddProducer \/ AddConsumer
  <2>1. session.producers \in SUBSET Producers /\ session.consumers \in SUBSET Consumers
    BY <1>1, ProcAssumption DEF MainTypes, Session
  <2>2. TokenTypes'
    BY <1>1, <1>4 DEF AddProducer, AddConsumer, Fork, TokenTypes, idle
  <2>3. ProcTypes'
    BY <1>1, <1>4 DEF AddProducer, AddConsumer, Fork, ProcTypes, local, Places
  <2>4. MainTypes'
    <3>1. /\ session' = session /\ generated' = generated /\ main_flag' = main_flag
          /\ main_pc' \in {"command", "join"}
      BY <1>4 DEF AddProducer, AddConsumer, Command, Fork, idle
    <3>2. producer_pids' \in Seq(Producers \cup {NoPid})
      <4>1. \/ UNCHANGED producer_pids
            \/ \E x \in Producers \cup {NoPid} : producer_pids' = Append(producer_pids, x)
        BY <1>4, <2>1 DEF AddProducer, AddConsumer, Fork, FirstUnborn
      <4>2. QED
        BY <1>1, <4>1 DEF MainTypes
    <3>3. consumer_pids' \in Seq(Consumers \cup {NoPid})
      <4>1. \/ UNCHANGED consumer_pids
            \/ \E x \in Consumers \cup {NoPid} : consumer_pids' = Append(consumer_pids, x)
        BY <1>4, <2>1 DEF AddProducer, AddConsumer, Fork, FirstUnborn
      <4>2. QED
        BY <1>1, <4>1 DEF MainTypes
    <3>4. QED
      BY <1>1, <3>1, <3>2, <3>3 DEF MainTypes
  <2>5. QED
    BY <1>2, <2>2, <2>3, <2>4, TInvByPartsNext
<1>5. CASE RemoveProducer \/ RemoveConsumer \/ KillNext
  <2>1. PICK pid : Kill(Targets(pid))
    BY <1>5 DEF RemoveProducer, RemoveConsumer, KillNext
  <2>2. ipc_removed' = ipc_removed
    BY <1>5 DEF RemoveProducer, RemoveConsumer, KillNext, idle
  <2>3. ProcTypes' /\ TokenTypes'
    BY <1>1, <1>3, <2>1, <2>2, KillTypes
  <2>4. MainTypes'
    <3>1. /\ session' = session /\ generated' = generated /\ main_flag' = main_flag
          /\ main_pc' \in {"command", "join", "cleanup"}
      BY <1>5 DEF RemoveProducer, RemoveConsumer, KillNext, Command, idle
    <3>2. producer_pids' \in Seq(Producers \cup {NoPid})
      BY <1>1, <1>5, Shorter DEF RemoveProducer, RemoveConsumer, KillNext, MainTypes
    <3>3. consumer_pids' \in Seq(Consumers \cup {NoPid})
      BY <1>1, <1>5, Shorter DEF RemoveProducer, RemoveConsumer, KillNext, MainTypes
    <3>4. QED
      BY <1>1, <3>1, <3>2, <3>3 DEF MainTypes
  <2>5. QED
    BY <1>2, <2>3, <2>4, TInvByPartsNext
<1>6. CASE sigint_handler
  <2>1. ProcTypes'
    <3>1. CASE UNCHANGED procs
      BY <1>1, <3>1 DEF ProcTypes, procs
    <3>2. CASE \E forked \in SUBSET At({"start"}) : End(Alive \ forked, pc)
      BY <1>1, <3>2, EndTypes
    <3>3. QED
      BY <1>6, <3>1, <3>2 DEF sigint_handler
  <2>2. TokenTypes' /\ MainTypes'
    BY <1>1, <1>6 DEF sigint_handler, TokenTypes, MainTypes
  <2>3. QED
    BY <1>2, <2>1, <2>2, TInvByPartsNext
<1>7. CASE Quit \/ OtherLine \/ JoinMonitor \/ RemoveIpc
  <2>1. ProcTypes'
    BY <1>1, <1>7 DEF Quit, OtherLine, JoinMonitor, RemoveIpc, ProcTypes, procs
  <2>2. TokenTypes' /\ MainTypes'
    BY <1>1, <1>7 DEF Quit, OtherLine, JoinMonitor, RemoveIpc, Command, TokenTypes, MainTypes
  <2>3. QED
    BY <1>2, <2>1, <2>2, TInvByPartsNext
<1>8. QED
  BY <1>4, <1>5, <1>6, <1>7

LEMMA NextTypes ==
    ASSUME TInv, [Next]_vars
    PROVE  TInv'
<1>1. CASE UNCHANGED vars
  BY <1>1 DEF vars, memory, procs, mainVars, TInv, TypeOK, RanksGrow
<1>2. QED
  BY <1>1, ProcessTypes, MainStepTypes DEF Next, Exited

\* For any number of processes and any session every variable of lab04 keeps
\* its type: no index leaves the ring, no semaphore goes below zero.
THEOREM TypesHold == Spec => []TypeOK
<1>1. Init => TInv
  BY InitTypes
<1>2. TInv /\ [Next]_vars => TInv'
  BY NextTypes
<1>3. TInv => TypeOK
  BY DEF TInv
<1>4. QED
  BY <1>1, <1>2, <1>3, PTL DEF Spec

-----------------------------------------------------------------------------
(* The ring, until a wait is broken off.  One process at a time works on it,  *)
(* so the counters differ from what the cells hold by what that one process   *)
(* has done of its work: Ahead(P, k) is 1 when it is one of P and has come    *)
(* to its k-th counter.                                                      *)

Working == {"load", "store"}

Ahead(P, k) == IF \E p \in P : pc[p] \in Working /\ step[p] >= k THEN 1 ELSE 0

\* The n cells from cell h on hold the messages that follow message m.
InOrder(b, h, m, n) == \A i \in 0..n - 1 : b[(h + i) % QUEUE_SIZE] = m + i + 1

\* The cells from head to tail, and what a process at work has written behind
\* them, in terms of the messages counted.
Oldest  == shm["removed_count"] + Ahead(Consumers, 2)
Newest  == shm["added_count"] + Ahead(Producers, 2)
Entered == shm["added_count"] + Ahead(Producers, 1)

RingSound ==
    /\ shm["tail"] = (shm["head"] + (Newest - Oldest)) % QUEUE_SIZE
    /\ shm["free_slots"] = QUEUE_SIZE - (Count + Ahead(Producers, 3) - Ahead(Consumers, 3))
    /\ InOrder(buffer, shm["head"], Oldest, Entered - Oldest)

\* A producer that works on a message holds a free slot until the message is
\* counted, and a full one from then on; a consumer the other way round.
Before == {"mutex", "touch", "load", "store"}
After  == {"unlock", "post"}

Mine(p, A, B) == IF p \in Producers THEN A ELSE B
Holding(on, A, B) == {q \in Procs : on[q] \in Mine(q, A, B)}

SlotsCounted ==
    /\ sem[0] + Cardinality(Holding(pc, Before, After)) + Count = QUEUE_SIZE
    /\ sem[1] + Cardinality(Holding(pc, After, Before)) = Count

\* What is read from a counter is still there when it is written back.
ReadsCurrent == \A p \in Procs : pc[p] = "store" => reg[p] = shm[Updates(p)[step[p]]]

TakenIsReal ==
    \A c \in Consumers : pc[c] \in {"load", "store", "unlock", "post"} => message[c] > 0

\* Who is not at the counters will begin with the first.
FirstStep == \A p \in Procs : pc[p] \notin Working => step[p] = 1

Sound == shm["removed_count"] \in Nat /\ SlotsCounted /\ RingSound /\ ReadsCurrent /\ TakenIsReal

SInv == TInv /\ IInv /\ FirstStep /\ (Uninterrupted => Sound)

LEMMA TwoKinds ==
    /\ Producers \in SUBSET Procs /\ Consumers \in SUBSET Procs
    /\ \A p \in Procs : p \in Consumers <=> p \notin Producers
BY ProcAssumption DEF Producers, Consumers, Procs

\* What one process enters and leaves is the difference it makes.
LEMMA OnePasses ==
    ASSUME NEW f, NEW g, NEW p \in Procs, NEW to, Moves(f, g, p, to), NEW A, NEW B
    PROVE  /\ Cardinality(Holding(f, A, B)) \in Nat /\ Cardinality(Holding(g, A, B)) \in Nat
           /\ Cardinality(Holding(g, A, B)) + In(f[p], Mine(p, A, B))
                = Cardinality(Holding(f, A, B)) + In(to, Mine(p, A, B))
<1>1. g[p] = to /\ \A q \in Procs : q # p => g[q] = f[q]
  BY DEF Moves
<1>2. \A h : IsFiniteSet(Holding(h, A, B)) /\ Cardinality(Holding(h, A, B)) \in Nat
  <2>1. \A h : Holding(h, A, B) \in SUBSET Procs
    BY DEF Holding
  <2>2. QED
    BY <2>1, ProcsFinite, FS_Subset, FS_CardinalityType
<1> DEFINE M == Mine(p, A, B)
<1>3. CASE f[p] \in M <=> to \in M
  <2>1. Holding(g, A, B) = Holding(f, A, B)
    BY <1>1, <1>3 DEF Holding
  <2>2. QED
    BY <1>2, <1>3, <2>1 DEF In
<1>4. CASE f[p] \notin M /\ to \in M
  <2>1. Holding(g, A, B) = Holding(f, A, B) \cup {p} /\ p \notin Holding(f, A, B)
    BY <1>1, <1>4 DEF Holding
  <2>2. Cardinality(Holding(g, A, B)) = Cardinality(Holding(f, A, B)) + 1
    BY <1>2, <2>1, FS_AddElement
  <2>3. QED
    BY <1>2, <1>4, <2>2 DEF In
<1>5. CASE f[p] \in M /\ to \notin M
  <2>1. Holding(f, A, B) = Holding(g, A, B) \cup {p} /\ p \notin Holding(g, A, B)
    BY <1>1, <1>5 DEF Holding
  <2>2. Cardinality(Holding(f, A, B)) = Cardinality(Holding(g, A, B)) + 1
    BY <1>2, <2>1, FS_AddElement
  <2>3. QED
    BY <1>2, <1>5, <2>2 DEF In
<1>6. QED
  BY <1>3, <1>4, <1>5

LEMMA Alone ==
    ASSUME IInv, Uninterrupted, NEW p \in Procs, NEW q \in Procs,
           pc[p] \in CSPlaces, pc[q] \in CSPlaces
    PROVE  p = q
<1>1. SUFFICES ASSUME p # q PROVE FALSE
  OBVIOUS
<1>2. InCriticalSection = Where(pc, CSPlaces) /\ {p, q} \subseteq Where(pc, CSPlaces)
  BY DEF InCriticalSection, At, Where, CSPlaces
<1>3. IsFiniteSet(Where(pc, CSPlaces)) /\ Cardinality(Where(pc, CSPlaces)) \in Nat
  BY WhereFinite
<1>4. sem[2] + Cardinality(Where(pc, CSPlaces)) = 1 /\ sem[2] \in Nat
  BY <1>2, <1>3 DEF IInv, TokensBalance, Uninterrupted, Kinds
<1>5. Cardinality({p, q}) <= Cardinality(Where(pc, CSPlaces))
  BY <1>2, <1>3, FS_Subset
<1>6. Cardinality({p, q}) = 2
  <2>1. Cardinality({p}) = 1 /\ IsFiniteSet({p})
    BY FS_Singleton
  <2>2. {p, q} = {p} \cup {q} /\ q \notin {p}
    BY <1>1
  <2>3. QED
    BY <2>1, <2>2, FS_AddElement
<1>7. QED
  BY <1>3, <1>4, <1>5, <1>6

\* With one process in the critical section it alone can be ahead.
LEMMA AheadIsHis ==
    ASSUME NEW p \in Procs
    PROVE  /\ (\A q \in Procs : pc[q] \in CSPlaces => q = p) =>
                \A P \in SUBSET Procs : \A k \in 1..3 :
                  Ahead(P, k) = IF p \in P /\ pc[p] \in Working /\ step[p] >= k THEN 1 ELSE 0
           /\ (\A q \in Procs : pc'[q] \in CSPlaces => q = p) =>
                \A P \in SUBSET Procs : \A k \in 1..3 :
                  Ahead(P, k)' = IF p \in P /\ pc'[p] \in Working /\ step'[p] >= k THEN 1 ELSE 0
BY DEF Ahead, Working, CSPlaces

-----------------------------------------------------------------------------
(* What an insertion and an extraction do to the cells. *)

LEMMA InOrderAdds ==
    ASSUME NEW h \in Cells, NEW m \in Nat, NEW n \in 0..QUEUE_SIZE - 1,
           NEW b \in [Cells -> Nat], InOrder(b, h, m, n)
    PROVE  InOrder([b EXCEPT ![(h + n) % QUEUE_SIZE] = m + n + 1], h, m, n + 1)
<1> DEFINE c == (h + n) % QUEUE_SIZE
           b2 == [b EXCEPT ![c] = m + n + 1]
<1>1. QUEUE_SIZE \in Nat \ {0} /\ Cells = 0..QUEUE_SIZE - 1
  BY ProcAssumption DEF Cells
<1>2. ASSUME NEW i \in 0..n
      PROVE  b2[(h + i) % QUEUE_SIZE] = m + i + 1
  <2>1. (h + i) % QUEUE_SIZE \in Cells /\ c \in Cells
    BY <1>1, ModInRing
  <2>2. CASE i = n
    BY <2>1, <2>2
  <2>3. CASE i # n
    <3>1. i \in 0..QUEUE_SIZE - 1 /\ i \in 0..n - 1
      BY <1>1, <2>3
    <3>2. (h + i) % QUEUE_SIZE # c
      BY <1>1, <2>3, <3>1, CellsDiffer
    <3>3. b[(h + i) % QUEUE_SIZE] = m + i + 1
      BY <3>1 DEF InOrder
    <3>4. QED
      BY <2>1, <3>2, <3>3
  <2>4. QED
    BY <2>2, <2>3
<1> HIDE DEF b2
<1>3. InOrder(b2, h, m, n + 1)
  BY <1>2 DEF InOrder
<1>4. QED
  BY <1>3 DEF b2

LEMMA InOrderTakes ==
    ASSUME NEW h \in Cells, NEW m \in Nat, NEW n \in 1..QUEUE_SIZE, NEW b, InOrder(b, h, m, n)
    PROVE  InOrder(b, (h + 1) % QUEUE_SIZE, m + 1, n - 1)
<1>1. QUEUE_SIZE \in Nat \ {0} /\ Cells = 0..QUEUE_SIZE - 1
  BY ProcAssumption DEF Cells
<1>2. ASSUME NEW i \in 0..(n - 1) - 1
      PROVE  b[(((h + 1) % QUEUE_SIZE) + i) % QUEUE_SIZE] = m + 1 + i + 1
  <2>1. i \in 0..QUEUE_SIZE - 1 /\ i + 1 \in 0..n - 1 /\ h + i + 1 = h + (i + 1)
    BY <1>1
  <2>2. (((h + 1) % QUEUE_SIZE) + i) % QUEUE_SIZE = (h + i + 1) % QUEUE_SIZE
    BY <1>1, <2>1, NextCell
  <2>3. b[(h + (i + 1)) % QUEUE_SIZE] = m + (i + 1) + 1
    BY <2>1 DEF InOrder
  <2>4. QED
    BY <2>1, <2>2, <2>3
<1>3. QED
  BY <1>2 DEF InOrder

-----------------------------------------------------------------------------
(* Steps that touch neither the ring nor anybody's work on it. *)

\* q stays as it is, or is away from the counters before and after.
Calm(q) ==
    \/ pc'[q] = pc[q] /\ step'[q] = step[q] /\ reg'[q] = reg[q] /\ message'[q] = message[q]
    \/ /\ pc[q] \notin Working /\ pc'[q] \notin Working /\ step'[q] = 1
       /\ pc'[q] \in After => pc[q] \in After /\ message'[q] = message[q]

LEMMA AheadKept ==
    ASSUME \A q \in Procs : (pc'[q] \in Working <=> pc[q] \in Working)
                            /\ (pc[q] \in Working => step'[q] = step[q])
    PROVE  \A P \in SUBSET Procs : \A k : Ahead(P, k)' = Ahead(P, k)
BY DEF Ahead

LEMMA RingKept ==
    ASSUME RingSound, UNCHANGED memory,
           \A q \in Procs : (pc'[q] \in Working <=> pc[q] \in Working)
                            /\ (pc[q] \in Working => step'[q] = step[q])
    PROVE  RingSound'
<1>1. \A P \in {Producers, Consumers} : \A k : Ahead(P, k)' = Ahead(P, k)
  BY AheadKept, TwoKinds
<1>2. buffer' = buffer /\ shm' = shm
  BY DEF memory
<1>3. Oldest' = Oldest /\ Newest' = Newest /\ Entered' = Entered /\ Count' = Count
  BY <1>1, <1>2 DEF Oldest, Newest, Entered, Count
<1>4. InOrder(buffer, shm["head"], Oldest, Entered - Oldest)' <=>
      InOrder(buffer, shm["head"], Oldest, Entered - Oldest)
  BY <1>2, <1>3 DEF InOrder
<1>5. QED
  BY <1>1, <1>2, <1>3, <1>4 DEF RingSound

LEMMA CalmFirst ==
    ASSUME FirstStep, \A q \in Procs : Calm(q)
    PROVE  FirstStep'
BY DEF FirstStep, Calm

LEMMA CalmKeeps ==
    ASSUME Sound, UNCHANGED memory, \A q \in Procs : Calm(q), SlotsCounted'
    PROVE  Sound'
<1>1. RingSound'
  BY RingKept DEF Sound, Calm
<1>2. ReadsCurrent'
  BY DEF Sound, ReadsCurrent, Calm, memory, Working
<1>3. TakenIsReal'
  BY TwoKinds DEF Sound, TakenIsReal, Calm, Working, After
<1>4. QED
  BY <1>1, <1>2, <1>3 DEF Sound, memory

\* Nobody takes or gives a slot.
LEMMA SlotsKept ==
    ASSUME SlotsCounted, UNCHANGED <<memory, sem>>,
           \A q \in Procs : pc'[q] = pc[q] \/ (pc[q] \notin SlotPlaces /\ pc'[q] \notin SlotPlaces)
    PROVE  SlotsCounted'
<1>1. /\ Holding(pc', Before, After) = Holding(pc, Before, After)
      /\ Holding(pc', After, Before) = Holding(pc, After, Before)
  BY DEF Holding, Mine, Before, After, SlotPlaces, CSPlaces
<1>2. Count' = Count /\ sem' = sem
  BY DEF Count, memory
<1>3. QED
  BY <1>1, <1>2 DEF SlotsCounted

\* One process passes, and the tokens change with what it holds.
LEMMA SlotsPaid ==
    ASSUME SlotsCounted, TInv, NEW p \in Procs, NEW to, pc' = [pc EXCEPT ![p] = to],
           sem' \in [0..2 -> Nat], Count' \in Int,
           sem'[0] + In(to, Mine(p, Before, After)) + Count'
             = sem[0] + In(pc[p], Mine(p, Before, After)) + Count,
           sem'[1] + In(to, Mine(p, After, Before)) - Count'
             = sem[1] + In(pc[p], Mine(p, After, Before)) - Count
    PROVE  SlotsCounted'
<1>1. Moves(pc, pc', p, to)
  BY DEF Moves, TInv, TypeOK
<1> DEFINE free  == Cardinality(Holding(pc, Before, After))
           free2 == Cardinality(Holding(pc', Before, After))
           full  == Cardinality(Holding(pc, After, Before))
           full2 == Cardinality(Holding(pc', After, Before))
<1>2. /\ free \in Nat /\ free2 \in Nat
      /\ free2 + In(pc[p], Mine(p, Before, After)) = free + In(to, Mine(p, Before, After))
  BY <1>1, OnePasses
<1>3. /\ full \in Nat /\ full2 \in Nat
      /\ full2 + In(pc[p], Mine(p, After, Before)) = full + In(to, Mine(p, After, Before))
  BY <1>1, OnePasses
<1>4. sem[0] + free + Count = QUEUE_SIZE /\ sem[1] + full = Count
  BY DEF SlotsCounted
<1>5. Count \in Int /\ sem \in [0..2 -> Nat]
  <2>1. Count \in Int
    <3>1. shm \in [Fields -> Int]
      BY DEF TInv, TypeOK
    <3>2. QED
      BY <3>1 DEF Count, Fields
  <2>2. sem \in [0..2 -> Nat]
    BY DEF TInv, TypeOK
  <2>3. QED
    BY <2>1, <2>2
<1>6. \A place, A : In(place, A) \in {0, 1}
  BY DEF In
<1> HIDE DEF free, free2, full, full2
<1>7. sem'[0] \in Nat /\ sem'[1] \in Nat /\ sem[0] \in Nat /\ sem[1] \in Nat
  BY <1>5
<1>8. sem'[0] + free2 + Count' = QUEUE_SIZE
  BY <1>2, <1>4, <1>5, <1>6, <1>7
<1>9. sem'[1] + full2 = Count'
  BY <1>3, <1>4, <1>5, <1>6, <1>7
<1>10. QED
  BY <1>8, <1>9 DEF SlotsCounted, free2, full2

\* A producer that has its slot finds room, a consumer that has his a message.
LEMMA RoomForHolder ==
    ASSUME SInv, Uninterrupted, NEW p \in Procs, pc[p] \in Before
    PROVE  /\ Count \in 0..QUEUE_SIZE
           /\ p \in Producers => Count < QUEUE_SIZE
           /\ p \in Consumers => Count > 0
<1>1. Moves(pc, pc, p, pc[p])
  BY DEF Moves, SInv, TInv, TypeOK
<1> DEFINE free == Cardinality(Holding(pc, Before, After))
           full == Cardinality(Holding(pc, After, Before))
<1>2. free \in Nat /\ full \in Nat
  BY <1>1, OnePasses
<1>3. sem[0] + free + Count = QUEUE_SIZE /\ sem[1] + full = Count
  BY DEF SInv, Sound, SlotsCounted
<1>4. sem[0] \in Nat /\ sem[1] \in Nat /\ Count \in Int /\ QUEUE_SIZE \in Nat
  BY ProcAssumption DEF SInv, TInv, TypeOK, Count, Fields
<1>5. \A A, B : p \in Holding(pc, A, B) => Cardinality(Holding(pc, A, B)) # 0
  <2>1. \A A, B : Holding(pc, A, B) \in SUBSET Procs
    BY DEF Holding
  <2>2. \A A, B : IsFiniteSet(Holding(pc, A, B))
    BY <2>1, ProcsFinite, FS_Subset
  <2>3. QED
    BY <2>2, FS_EmptySet
<1>6. p \in Producers => free # 0
  BY <1>5 DEF Holding, Mine
<1>7. p \in Consumers => full # 0
  BY <1>5, TwoKinds DEF Holding, Mine
<1> HIDE DEF free, full
<1>8. QED
  BY <1>2, <1>3, <1>4, <1>6, <1>7

-----------------------------------------------------------------------------
(* The steps at the ring. *)

\* What is known of the counters while p is in the critical section.
Known(p) ==
    /\ shm["head"] \in Cells /\ shm["tail"] \in Cells /\ shm["free_slots"] \in Int
    /\ shm["added_count"] \in Nat /\ shm["removed_count"] \in Nat
    /\ buffer \in [Cells -> Nat] /\ shm \in [Fields -> Int]
    /\ step[p] \in 1..3 /\ p \in Procs
    /\ Count \in 0..QUEUE_SIZE
    /\ p \in Producers => Count < QUEUE_SIZE
    /\ p \in Consumers => Count > 0
    /\ pc \in [Procs -> Places] /\ step \in [Procs -> 1..3] /\ message \in [Procs -> Nat]
    /\ reg \in [Procs -> Int]
    /\ \A q \in Procs : pc[q] \in CSPlaces => q = p

LEMMA KnownInside ==
    ASSUME SInv, Uninterrupted, NEW p \in Procs, pc[p] \in CSPlaces, pc[p] \in Before
    PROVE  Known(p)
<1>1. /\ Count \in 0..QUEUE_SIZE
      /\ p \in Producers => Count < QUEUE_SIZE
      /\ p \in Consumers => Count > 0
  BY RoomForHolder
<1>2. \A q \in Procs : pc[q] \in CSPlaces => q = p
  BY Alone DEF SInv
<1>3. /\ shm["head"] \in Cells /\ shm["tail"] \in Cells /\ shm["free_slots"] \in Int
      /\ shm["added_count"] \in Nat /\ shm["removed_count"] \in Nat
      /\ buffer \in [Cells -> Nat] /\ shm \in [Fields -> Int]
  BY DEF SInv, TInv, TypeOK, RanksGrow, Sound, Fields
<1>4. /\ step[p] \in 1..3 /\ pc \in [Procs -> Places] /\ step \in [Procs -> 1..3]
      /\ message \in [Procs -> Nat] /\ reg \in [Procs -> Int]
  BY DEF SInv, TInv, TypeOK
<1>5. QED
  BY <1>1, <1>2, <1>3, <1>4 DEF Known

LEMMA TouchSound ==
    ASSUME SInv, Uninterrupted, NEW p \in Procs, Touch(p)
    PROVE  Sound'
<1>1. pc[p] = "touch" /\ pc' = [pc EXCEPT ![p] = "load"]
      /\ UNCHANGED <<shm, sem, step, reg>>
  BY DEF Touch, Goto
<1>2. Known(p) /\ step[p] = 1
  BY <1>1, KnownInside DEF SInv, FirstStep, CSPlaces, Before, Working
<1>3. /\ pc'[p] = "load" /\ \A q \in Procs : q # p => pc'[q] = pc[q]
      /\ \A q \in Procs : pc'[q] \in CSPlaces => q = p
  BY <1>1, <1>2 DEF Known
<1>4. SlotsCounted'
  <2>1. /\ Holding(pc', Before, After) = Holding(pc, Before, After)
        /\ Holding(pc', After, Before) = Holding(pc, After, Before)
    BY <1>1, <1>3 DEF Holding, Mine, Before, After
  <2>2. QED
    BY <1>1, <2>1 DEF SInv, Sound, SlotsCounted, Count
<1>5. ReadsCurrent'
  BY <1>1, <1>3 DEF SInv, Sound, ReadsCurrent
<1>6. /\ \A P \in SUBSET Procs : \A k \in 1..3 : Ahead(P, k) = 0
      /\ \A P \in SUBSET Procs : \A k \in 1..3 :
           Ahead(P, k)' = IF p \in P /\ k = 1 THEN 1 ELSE 0
  <2>1. \A q \in Procs : pc[q] \in CSPlaces => q = p
    BY <1>2 DEF Known
  <2>2. \A P \in SUBSET Procs : \A k \in 1..3 : Ahead(P, k) = 0
    BY <1>1, <2>1, AheadIsHis DEF Working
  <2>3. \A P \in SUBSET Procs : \A k \in 1..3 :
          Ahead(P, k)' = IF p \in P /\ pc'[p] \in Working /\ step'[p] >= k THEN 1 ELSE 0
    BY <1>3, AheadIsHis
  <2>4. QED
    BY <1>1, <1>2, <1>3, <2>2, <2>3 DEF Working
<1>7. /\ Oldest = shm["removed_count"] /\ Newest = shm["added_count"]
      /\ Entered = shm["added_count"]
      /\ Ahead(Producers, 3) = 0 /\ Ahead(Consumers, 3) = 0
  BY <1>2, <1>6, TwoKinds DEF Oldest, Newest, Entered, Known
<1>8. /\ Oldest' = shm["removed_count"] /\ Newest' = shm["added_count"]
      /\ Entered' = shm["added_count"] + (IF p \in Producers THEN 1 ELSE 0)
      /\ Ahead(Producers, 3)' = 0 /\ Ahead(Consumers, 3)' = 0 /\ Count' = Count
  BY <1>1, <1>2, <1>6, TwoKinds DEF Oldest, Newest, Entered, Known, Count
<1>9. /\ shm["tail"] = (shm["head"] + Count) % QUEUE_SIZE
      /\ shm["free_slots"] = QUEUE_SIZE - (Count + 0 - 0)
      /\ InOrder(buffer, shm["head"], shm["removed_count"], Count)
  BY <1>7 DEF SInv, Sound, RingSound, Count
<1>10. CASE p \in Producers
  <2>1. p \notin Consumers
    BY <1>10, TwoKinds
  <2>2. buffer' = [buffer EXCEPT ![shm["tail"]] = shm["added_count"] + 1] /\ message' = message
    BY <2>1 DEF Touch
  <2> DEFINE m == shm["removed_count"]
  <2>3. /\ shm["head"] \in Cells /\ m \in Nat /\ Count \in 0..QUEUE_SIZE - 1
        /\ buffer \in [Cells -> Nat]
    BY <1>2, <1>10, ProcAssumption DEF Known
  <2>4. shm["added_count"] + 1 = m + Count + 1
    BY <1>2 DEF Known, Count
  <2>5. buffer' = [buffer EXCEPT ![(shm["head"] + Count) % QUEUE_SIZE] = m + Count + 1]
    BY <1>9, <2>2, <2>4
  <2>6. InOrder(buffer, shm["head"], m, Count)
    BY <1>9
  <2> HIDE DEF m
  <2>7. InOrder(buffer', shm["head"], m, Count + 1)
    BY <2>3, <2>5, <2>6, InOrderAdds
  <2>8. Entered' - Oldest' = Count + 1 /\ Oldest' = m /\ Newest' - Oldest' = Count
    BY <1>2, <1>8, <1>10 DEF Known, Count, m
  <2>9. RingSound'
    BY <1>1, <1>8, <1>9, <2>7, <2>8 DEF RingSound
  <2>10. TakenIsReal'
    BY <1>3, <2>1, <2>2, TwoKinds DEF SInv, Sound, TakenIsReal
  <2>11. QED
    BY <1>1, <1>2, <1>4, <1>5, <2>9, <2>10 DEF Sound, Known
<1>11. CASE p \in Consumers
  <2>1. p \notin Producers
    BY <1>11, TwoKinds
  <2>2. message' = [message EXCEPT ![p] = buffer[shm["head"]]] /\ buffer' = buffer
    BY <2>1 DEF Touch
  <2>3. buffer[shm["head"]] > 0
    <3>1. 0 \in 0..Count - 1
      BY <1>2, <1>11 DEF Known
    <3>2. buffer[(shm["head"] + 0) % QUEUE_SIZE] = shm["removed_count"] + 0 + 1
      BY <1>9, <3>1 DEF InOrder
    <3>3. shm["head"] + 0 = shm["head"] /\ shm["head"] \in 0..QUEUE_SIZE - 1
      BY <1>2 DEF Known, Cells
    <3>4. shm["head"] % QUEUE_SIZE = shm["head"]
      BY <3>3, ModSmall, ProcAssumption
    <3>5. QED
      BY <1>2, <3>2, <3>3, <3>4 DEF Known
  <2>4. TakenIsReal'
    BY <1>2, <1>3, <2>2, <2>3, TwoKinds DEF SInv, Sound, TakenIsReal, Known
  <2>5. Entered' - Oldest' = Count /\ Oldest' = shm["removed_count"] /\ Newest' - Oldest' = Count
    BY <1>2, <1>8, <2>1 DEF Known, Count
  <2>6. RingSound'
    BY <1>1, <1>8, <1>9, <2>2, <2>5 DEF RingSound
  <2>7. QED
    BY <1>1, <1>2, <1>4, <1>5, <2>4, <2>6 DEF Sound, Known
<1>12. QED
  BY <1>10, <1>11, TwoKinds

\* A counter is written back.  Which of the two kinds p is and which counter
\* it has come to make six cases, each of which moves one bound of the ring.
LEMMA StoreKnown ==
    ASSUME SInv, Uninterrupted, NEW p \in Procs, Store(p)
    PROVE  /\ Known(p) /\ pc[p] = "store"
           /\ reg[p] = shm[Updates(p)[step[p]]]
           /\ shm' = [shm EXCEPT ![Updates(p)[step[p]]] =
                        Updated(p, Updates(p)[step[p]], shm[Updates(p)[step[p]]])]
           /\ UNCHANGED <<buffer, sem, message>>
           /\ pc' = [pc EXCEPT ![p] = IF step[p] < 3 THEN "load" ELSE "unlock"]
           /\ pc'[p] = IF step[p] < 3 THEN "load" ELSE "unlock"
           /\ step'[p] = IF step[p] < 3 THEN step[p] + 1 ELSE 1
           /\ \A q \in Procs : q # p => pc'[q] = pc[q] /\ step'[q] = step[q] /\ reg'[q] = reg[q]
           /\ \A P \in SUBSET Procs : \A k \in 1..3 :
                /\ Ahead(P, k) = IF p \in P /\ step[p] >= k THEN 1 ELSE 0
                /\ Ahead(P, k)' = IF p \in P /\ step[p] < 3 /\ step[p] + 1 >= k THEN 1 ELSE 0
<1>1. pc[p] = "store"
  BY DEF Store, Goto
<1>2. Known(p)
  BY <1>1, KnownInside DEF CSPlaces, Before
<1>3. reg[p] = shm[Updates(p)[step[p]]]
  BY <1>1 DEF SInv, Sound, ReadsCurrent
<1>4. /\ pc' = [pc EXCEPT ![p] = IF step[p] < 3 THEN "load" ELSE "unlock"]
      /\ step' = [step EXCEPT ![p] = IF @ < 3 THEN @ + 1 ELSE 1]
      /\ reg' = [reg EXCEPT ![p] = 0]
      /\ UNCHANGED <<buffer, sem, message>>
  BY DEF Store, Goto
<1>5. /\ pc'[p] = IF step[p] < 3 THEN "load" ELSE "unlock"
      /\ step'[p] = IF step[p] < 3 THEN step[p] + 1 ELSE 1
      /\ \A q \in Procs : q # p => pc'[q] = pc[q] /\ step'[q] = step[q] /\ reg'[q] = reg[q]
  BY <1>2, <1>4 DEF Known
<1>6. /\ \A q \in Procs : pc[q] \in CSPlaces => q = p
      /\ \A q \in Procs : pc'[q] \in CSPlaces => q = p
  BY <1>2, <1>5 DEF Known
<1>7. \A P \in SUBSET Procs : \A k \in 1..3 :
        /\ Ahead(P, k) = IF p \in P /\ pc[p] \in Working /\ step[p] >= k THEN 1 ELSE 0
        /\ Ahead(P, k)' = IF p \in P /\ pc'[p] \in Working /\ step'[p] >= k THEN 1 ELSE 0
  BY <1>6, AheadIsHis
<1>8. \A P \in SUBSET Procs : \A k \in 1..3 :
        /\ Ahead(P, k) = IF p \in P /\ step[p] >= k THEN 1 ELSE 0
        /\ Ahead(P, k)' = IF p \in P /\ step[p] < 3 /\ step[p] + 1 >= k THEN 1 ELSE 0
  <2>1. pc[p] \in Working /\ (pc'[p] \in Working <=> step[p] < 3) /\ step[p] \in 1..3
    BY <1>1, <1>2, <1>5 DEF Working, Known
  <2>2. QED
    BY <1>5, <1>7, <2>1
<1>9. shm' = [shm EXCEPT ![Updates(p)[step[p]]] =
                Updated(p, Updates(p)[step[p]], shm[Updates(p)[step[p]]])]
  BY <1>3 DEF Store
<1>10. QED
  BY <1>1, <1>2, <1>3, <1>4, <1>5, <1>8, <1>9

LEMMA ProducerStores ==
    ASSUME SInv, Uninterrupted, NEW p \in Producers, Store(p)
    PROVE  /\ RingSound' /\ shm'["removed_count"] = shm["removed_count"]
           /\ shm'["added_count"] = shm["added_count"] + (IF step[p] = 3 THEN 1 ELSE 0)
<1>1. p \in Procs /\ p \notin Consumers
  BY TwoKinds
<1> DEFINE f == Updates(p)[step[p]]
<1>2. /\ Known(p) /\ buffer' = buffer
      /\ shm' = [shm EXCEPT ![f] = Updated(p, f, shm[f])]
  BY <1>1, StoreKnown
<1>3. \A k \in 1..3 :
        /\ Ahead(Producers, k) = IF step[p] >= k THEN 1 ELSE 0
        /\ Ahead(Producers, k)' = IF step[p] < 3 /\ step[p] + 1 >= k THEN 1 ELSE 0
        /\ Ahead(Consumers, k) = 0 /\ Ahead(Consumers, k)' = 0
  BY <1>1, StoreKnown, TwoKinds
<1> DEFINE A == shm["added_count"]
           R == shm["removed_count"]
           h == shm["head"]
<1>4. /\ A \in Nat /\ R \in Nat /\ h \in Cells /\ A - R \in 0..QUEUE_SIZE - 1
      /\ Count = A - R /\ shm["tail"] \in Cells /\ shm["free_slots"] \in Int
      /\ step[p] \in 1..3 /\ shm \in [Fields -> Int]
  BY <1>2, ProcAssumption DEF Known, Count
<1>5. /\ Oldest = R /\ Oldest' = shm'["removed_count"]
      /\ Newest = A + Ahead(Producers, 2) /\ Newest' = shm'["added_count"] + Ahead(Producers, 2)'
      /\ Entered = A + Ahead(Producers, 1) /\ Entered' = shm'["added_count"] + Ahead(Producers, 1)'
      /\ Count' = shm'["added_count"] - shm'["removed_count"]
      /\ Ahead(Consumers, 3) = 0 /\ Ahead(Consumers, 3)' = 0
  <2>1. shm'["added_count"] \in Int /\ shm'["removed_count"] \in Int
    BY <1>2, <1>4 DEF Updates, Updated, Fields
  <2>2. QED
    BY <1>3, <1>4, <2>1 DEF Oldest, Newest, Entered, Count
<1>6. /\ shm["tail"] = (h + (Newest - R)) % QUEUE_SIZE
      /\ shm["free_slots"] = QUEUE_SIZE - (Count + Ahead(Producers, 3) - 0)
      /\ InOrder(buffer, h, R, Entered - R)
  BY <1>5 DEF SInv, Sound, RingSound
<1>7. CASE step[p] = 1
  <2>1. f = "tail"
    BY <1>7 DEF Updates
  <2>2. /\ shm'["tail"] = (shm["tail"] + 1) % QUEUE_SIZE
        /\ shm'["head"] = h /\ shm'["free_slots"] = shm["free_slots"]
        /\ shm'["added_count"] = A /\ shm'["removed_count"] = R
    BY <1>2, <1>4, <2>1 DEF Updated, Fields
  <2>3. /\ Ahead(Producers, 1) = 1 /\ Ahead(Producers, 2) = 0 /\ Ahead(Producers, 3) = 0
        /\ Ahead(Producers, 1)' = 1 /\ Ahead(Producers, 2)' = 1 /\ Ahead(Producers, 3)' = 0
    BY <1>3, <1>7
  <2>4. /\ Newest - R = A - R /\ Newest' - Oldest' = A - R + 1 /\ Oldest' = R
        /\ Entered' = Entered /\ Count' = Count
    BY <1>4, <1>5, <2>2, <2>3
  <2>5. shm'["tail"] = (h + (A - R + 1)) % QUEUE_SIZE
    <3> DEFINE n == A - R
    <3>1. n \in 0..QUEUE_SIZE - 1 /\ h \in 0..QUEUE_SIZE - 1
      BY <1>4 DEF Cells
    <3>2. shm["tail"] = (h + n) % QUEUE_SIZE
      BY <1>6, <2>4
    <3> HIDE DEF n
    <3>3. (((h + n) % QUEUE_SIZE) + 1) % QUEUE_SIZE = (h + n + 1) % QUEUE_SIZE
      BY <3>1, NextCell, ProcAssumption
    <3>4. h + n + 1 = h + (n + 1)
      BY <3>1
    <3>5. QED
      BY <2>2, <3>2, <3>3, <3>4 DEF n
  <2>6. RingSound'
    BY <1>2, <1>5, <1>6, <2>2, <2>3, <2>4, <2>5 DEF RingSound
  <2>7. QED
    BY <1>4, <1>7, <2>2, <2>6
<1>8. CASE step[p] = 2
  <2>1. f = "free_slots"
    BY <1>8 DEF Updates
  <2>2. /\ shm'["free_slots"] = shm["free_slots"] - 1
        /\ shm'["head"] = h /\ shm'["tail"] = shm["tail"]
        /\ shm'["added_count"] = A /\ shm'["removed_count"] = R
    BY <1>2, <1>4, <2>1 DEF Updated, Fields
  <2>3. /\ Ahead(Producers, 1) = 1 /\ Ahead(Producers, 2) = 1 /\ Ahead(Producers, 3) = 0
        /\ Ahead(Producers, 1)' = 1 /\ Ahead(Producers, 2)' = 1 /\ Ahead(Producers, 3)' = 1
    BY <1>3, <1>8
  <2>4. Newest' = Newest /\ Entered' = Entered /\ Count' = Count /\ Oldest' = R
    BY <1>4, <1>5, <2>2, <2>3
  <2>5. shm'["free_slots"] = QUEUE_SIZE - (Count + 1 - 0)
    BY <1>4, <1>6, <2>2, <2>3, ProcAssumption
  <2>6. RingSound'
    BY <1>2, <1>5, <1>6, <2>2, <2>3, <2>4, <2>5 DEF RingSound
  <2>7. QED
    BY <1>4, <1>8, <2>2, <2>6
<1>9. CASE step[p] = 3
  <2>1. f = "added_count"
    BY <1>9 DEF Updates
  <2>2. /\ shm'["added_count"] = A + 1 /\ shm'["removed_count"] = R
        /\ shm'["head"] = h /\ shm'["tail"] = shm["tail"]
        /\ shm'["free_slots"] = shm["free_slots"]
    BY <1>2, <1>4, <2>1 DEF Updated, Fields
  <2>3. /\ Ahead(Producers, 1) = 1 /\ Ahead(Producers, 2) = 1 /\ Ahead(Producers, 3) = 1
        /\ Ahead(Producers, 1)' = 0 /\ Ahead(Producers, 2)' = 0 /\ Ahead(Producers, 3)' = 0
    BY <1>3, <1>9
  <2>4. /\ Newest' = Newest /\ Entered' = Entered /\ Oldest' = R
        /\ Count' + 0 - 0 = Count + 1 - 0
    BY <1>4, <1>5, <2>2, <2>3
  <2>5. RingSound'
    BY <1>2, <1>5, <1>6, <2>2, <2>3, <2>4 DEF RingSound
  <2>6. QED
    BY <1>9, <2>2, <2>5
<1>10. QED
  BY <1>4, <1>7, <1>8, <1>9

LEMMA ConsumerStores ==
    ASSUME SInv, Uninterrupted, NEW p \in Consumers, Store(p)
    PROVE  /\ RingSound' /\ shm'["added_count"] = shm["added_count"]
           /\ shm'["removed_count"] = shm["removed_count"] + (IF step[p] = 3 THEN 1 ELSE 0)
<1>1. p \in Procs /\ p \notin Producers
  BY TwoKinds
<1> DEFINE f == Updates(p)[step[p]]
<1>2. /\ Known(p) /\ buffer' = buffer
      /\ shm' = [shm EXCEPT ![f] = Updated(p, f, shm[f])]
  BY <1>1, StoreKnown
<1>3. \A k \in 1..3 :
        /\ Ahead(Consumers, k) = IF step[p] >= k THEN 1 ELSE 0
        /\ Ahead(Consumers, k)' = IF step[p] < 3 /\ step[p] + 1 >= k THEN 1 ELSE 0
        /\ Ahead(Producers, k) = 0 /\ Ahead(Producers, k)' = 0
  BY <1>1, StoreKnown, TwoKinds
<1> DEFINE A == shm["added_count"]
           R == shm["removed_count"]
           h == shm["head"]
<1>4. /\ A \in Nat /\ R \in Nat /\ h \in Cells /\ A - R \in 1..QUEUE_SIZE
      /\ Count = A - R /\ shm["tail"] \in Cells /\ shm["free_slots"] \in Int
      /\ step[p] \in 1..3 /\ shm \in [Fields -> Int]
  BY <1>2, ProcAssumption DEF Known, Count
<1>5. /\ Oldest = R + Ahead(Consumers, 2)
      /\ Oldest' = shm'["removed_count"] + Ahead(Consumers, 2)'
      /\ Newest = A /\ Newest' = shm'["added_count"]
      /\ Entered = A /\ Entered' = shm'["added_count"]
      /\ Count' = shm'["added_count"] - shm'["removed_count"]
      /\ Ahead(Producers, 3) = 0 /\ Ahead(Producers, 3)' = 0
  <2>1. shm'["added_count"] \in Int /\ shm'["removed_count"] \in Int
    BY <1>2, <1>4 DEF Updates, Updated, Fields
  <2>2. QED
    BY <1>3, <1>4, <2>1 DEF Oldest, Newest, Entered, Count
<1>6. /\ shm["tail"] = (h + (A - Oldest)) % QUEUE_SIZE
      /\ shm["free_slots"] = QUEUE_SIZE - (Count + 0 - Ahead(Consumers, 3))
      /\ InOrder(buffer, h, Oldest, A - Oldest)
  BY <1>5 DEF SInv, Sound, RingSound
<1>7. CASE step[p] = 1
  <2>1. f = "head"
    BY <1>1, <1>7 DEF Updates
  <2>2. /\ shm'["head"] = (h + 1) % QUEUE_SIZE
        /\ shm'["tail"] = shm["tail"] /\ shm'["free_slots"] = shm["free_slots"]
        /\ shm'["added_count"] = A /\ shm'["removed_count"] = R
    BY <1>2, <1>4, <2>1 DEF Updated, Fields
  <2>3. /\ Ahead(Consumers, 2) = 0 /\ Ahead(Consumers, 3) = 0
        /\ Ahead(Consumers, 2)' = 1 /\ Ahead(Consumers, 3)' = 0
    BY <1>3, <1>7
  <2> DEFINE n == A - R
  <2>4. /\ Oldest = R /\ Oldest' = R + 1 /\ Newest' = A /\ Entered' = A /\ Count' = Count
        /\ A - Oldest = n /\ A - Oldest' = n - 1
    BY <1>4, <1>5, <2>2, <2>3
  <2>5. n \in 1..QUEUE_SIZE /\ h \in 0..QUEUE_SIZE - 1
    BY <1>4 DEF Cells
  <2>6. shm["tail"] = (h + n) % QUEUE_SIZE /\ InOrder(buffer, h, R, n)
    BY <1>6, <2>4
  <2> HIDE DEF n
  <2>7. shm'["tail"] = (shm'["head"] + (n - 1)) % QUEUE_SIZE
    <3> DEFINE k == n - 1
    <3>1. k \in 0..QUEUE_SIZE - 1 /\ h + k + 1 = h + n
      BY <2>5, ProcAssumption
    <3> HIDE DEF k
    <3>2. (((h + 1) % QUEUE_SIZE) + k) % QUEUE_SIZE = (h + k + 1) % QUEUE_SIZE
      BY <2>5, <3>1, NextCell, ProcAssumption
    <3>3. QED
      BY <2>2, <2>6, <3>1, <3>2 DEF k
  <2>8. InOrder(buffer, shm'["head"], R + 1, n - 1)
    BY <1>4, <2>2, <2>5, <2>6, InOrderTakes
  <2>9. RingSound'
    BY <1>2, <1>5, <1>6, <2>2, <2>3, <2>4, <2>7, <2>8 DEF RingSound
  <2>10. QED
    BY <1>4, <1>7, <2>2, <2>9
<1>8. CASE step[p] = 2
  <2>1. f = "free_slots"
    BY <1>8 DEF Updates
  <2>2. /\ shm'["free_slots"] = shm["free_slots"] + 1
        /\ shm'["head"] = h /\ shm'["tail"] = shm["tail"]
        /\ shm'["added_count"] = A /\ shm'["removed_count"] = R
    BY <1>1, <1>2, <1>4, <2>1 DEF Updated, Fields
  <2>3. /\ Ahead(Consumers, 2) = 1 /\ Ahead(Consumers, 3) = 0
        /\ Ahead(Consumers, 2)' = 1 /\ Ahead(Consumers, 3)' = 1
    BY <1>3, <1>8
  <2>4. Oldest' = Oldest /\ Newest' = A /\ Entered' = A /\ Count' = Count
    BY <1>4, <1>5, <2>2, <2>3
  <2>5. shm'["free_slots"] = QUEUE_SIZE - (Count + 0 - 1)
    BY <1>4, <1>6, <2>2, <2>3, ProcAssumption
  <2>6. RingSound'
    BY <1>2, <1>5, <1>6, <2>2, <2>3, <2>4, <2>5 DEF RingSound
  <2>7. QED
    BY <1>4, <1>8, <2>2, <2>6
<1>9. CASE step[p] = 3
  <2>1. f = "removed_count"
    BY <1>1, <1>9 DEF Updates
  <2>2. /\ shm'["removed_count"] = R + 1 /\ shm'["added_count"] = A
        /\ shm'["head"] = h /\ shm'["tail"] = shm["tail"]
        /\ shm'["free_slots"] = shm["free_slots"]
    BY <1>2, <1>4, <2>1 DEF Updated, Fields
  <2>3. /\ Ahead(Consumers, 2) = 1 /\ Ahead(Consumers, 3) = 1
        /\ Ahead(Consumers, 2)' = 0 /\ Ahead(Consumers, 3)' = 0
    BY <1>3, <1>9
  <2>4. /\ Oldest' = Oldest /\ Newest' = A /\ Entered' = A
        /\ Count' + 0 - 0 = Count + 0 - 1
    BY <1>4, <1>5, <2>2, <2>3
  <2>5. RingSound'
    BY <1>2, <1>5, <1>6, <2>2, <2>3, <2>4 DEF RingSound
  <2>6. QED
    BY <1>9, <2>2, <2>5
<1>10. QED
  BY <1>4, <1>7, <1>8, <1>9

LEMMA StoreSound ==
    ASSUME SInv, Uninterrupted, NEW p \in Procs, Store(p)
    PROVE  Sound'
<1> DEFINE to == IF step[p] < 3 THEN "load" ELSE "unlock"
<1>1. /\ Known(p) /\ pc[p] = "store" /\ UNCHANGED <<sem, message>>
      /\ pc' = [pc EXCEPT ![p] = to] /\ pc'[p] = to
      /\ \A q \in Procs : q # p => pc'[q] = pc[q] /\ step'[q] = step[q] /\ reg'[q] = reg[q]
  BY StoreKnown
<1>2. /\ RingSound'
      /\ shm'["added_count"] = shm["added_count"]
                                 + (IF p \in Producers /\ step[p] = 3 THEN 1 ELSE 0)
      /\ shm'["removed_count"] = shm["removed_count"]
                                   + (IF p \notin Producers /\ step[p] = 3 THEN 1 ELSE 0)
  <2>1. CASE p \in Producers
    <3>1. /\ RingSound' /\ shm'["removed_count"] = shm["removed_count"]
          /\ shm'["added_count"] = shm["added_count"] + (IF step[p] = 3 THEN 1 ELSE 0)
      BY <2>1, ProducerStores
    <3>2. QED
      BY <1>1, <2>1, <3>1 DEF Known
  <2>2. CASE p \notin Producers
    <3>1. /\ RingSound' /\ shm'["added_count"] = shm["added_count"]
          /\ shm'["removed_count"] = shm["removed_count"] + (IF step[p] = 3 THEN 1 ELSE 0)
      BY <2>2, ConsumerStores, TwoKinds
    <3>2. QED
      BY <1>1, <2>2, <3>1 DEF Known
  <2>3. QED
    BY <2>1, <2>2
<1>3. step[p] \in 1..3 /\ shm["removed_count"] \in Nat /\ shm["added_count"] \in Nat
  BY <1>1 DEF Known
<1>4. SlotsCounted'
  <2>1. /\ Count \in Int
        /\ Count' = Count + (IF step[p] = 3 THEN IF p \in Producers THEN 1 ELSE -1 ELSE 0)
    BY <1>2, <1>3 DEF Count
  <2>2. sem' = sem /\ sem \in [0..2 -> Nat]
    BY <1>1 DEF SInv, TInv, TypeOK
  <2>3. /\ In("store", Mine(p, Before, After)) = IF p \in Producers THEN 1 ELSE 0
        /\ In("store", Mine(p, After, Before)) = IF p \in Producers THEN 0 ELSE 1
        /\ In(to, Mine(p, Before, After))
             = IF step[p] < 3 <=> p \in Producers THEN 1 ELSE 0
        /\ In(to, Mine(p, After, Before))
             = IF step[p] < 3 <=> p \in Producers THEN 0 ELSE 1
    BY DEF In, Mine, Before, After
  <2>4. /\ sem[0] + In(to, Mine(p, Before, After)) + Count'
             = sem[0] + In("store", Mine(p, Before, After)) + Count
        /\ sem[1] + In(to, Mine(p, After, Before)) - Count'
             = sem[1] + In("store", Mine(p, After, Before)) - Count
        /\ Count' \in Int
    <3>1. sem[0] \in Nat /\ sem[1] \in Nat
      BY <2>2
    <3>2. QED
      BY <1>3, <2>1, <2>3, <3>1
  <2> HIDE DEF to
  <2>5. QED
    BY <1>1, <2>2, <2>4, SlotsPaid DEF SInv, Sound
<1>5. ReadsCurrent'
  <2>1. \A q \in Procs : pc'[q] # "store"
    BY <1>1 DEF Known, CSPlaces
  <2>2. QED
    BY <2>1 DEF ReadsCurrent
<1>6. TakenIsReal'
  <2>1. \A c \in Consumers : c # p => pc'[c] = pc[c]
    BY <1>1, TwoKinds
  <2>2. \A c \in Consumers : pc[c] \in {"load", "store", "unlock", "post"} => message[c] > 0
    BY DEF SInv, Sound, TakenIsReal
  <2>3. QED
    BY <1>1, <2>1, <2>2 DEF TakenIsReal
<1>7. QED
  BY <1>2, <1>3, <1>4, <1>5, <1>6 DEF Sound

LEMMA LoadSound ==
    ASSUME SInv, Uninterrupted, NEW p \in Procs, Load(p)
    PROVE  Sound'
<1>1. /\ pc[p] = "load" /\ pc' = [pc EXCEPT ![p] = "store"] /\ pc \in [Procs -> Places]
      /\ reg' = [reg EXCEPT ![p] = shm[Updates(p)[step[p]]]] /\ reg \in [Procs -> Int]
      /\ UNCHANGED <<memory, sem, message, step>>
  BY DEF Load, Goto, SInv, TInv, TypeOK
<1>2. /\ pc'[p] = "store" /\ reg'[p] = shm[Updates(p)[step[p]]]
      /\ \A q \in Procs : q # p => pc'[q] = pc[q] /\ reg'[q] = reg[q]
  BY <1>1
<1>3. RingSound'
  BY <1>1, <1>2, RingKept DEF SInv, Sound, Working
<1>4. SlotsCounted'
  <2>1. /\ Holding(pc', Before, After) = Holding(pc, Before, After)
        /\ Holding(pc', After, Before) = Holding(pc, After, Before)
    BY <1>1, <1>2 DEF Holding, Mine, Before, After
  <2>2. Count' = Count
    BY <1>1 DEF Count, memory
  <2>3. QED
    BY <1>1, <2>1, <2>2 DEF SInv, Sound, SlotsCounted
<1>5. ReadsCurrent'
  BY <1>1, <1>2 DEF SInv, Sound, ReadsCurrent, memory
<1>6. TakenIsReal'
  BY <1>1, <1>2, TwoKinds DEF SInv, Sound, TakenIsReal
<1>7. QED
  BY <1>1, <1>3, <1>4, <1>5, <1>6 DEF SInv, Sound, memory

-----------------------------------------------------------------------------
(* The other steps of the processes. *)

LEMMA FirstStepKept ==
    ASSUME SInv, NEW p \in Procs, Process(p)
    PROVE  FirstStep'
<1>1. /\ pc \in [Procs -> Places] /\ step \in [Procs -> 1..3]
      /\ \A q \in Procs : pc[q] \notin Working => step[q] = 1
  BY DEF SInv, TInv, TypeOK, FirstStep
<1>2. CASE Store(p)
  <2>1. /\ pc' = [pc EXCEPT ![p] = IF step[p] < 3 THEN "load" ELSE "unlock"]
        /\ step' = [step EXCEPT ![p] = IF @ < 3 THEN @ + 1 ELSE 1]
    BY <1>2 DEF Store, Goto
  <2>2. QED
    BY <1>1, <2>1 DEF FirstStep, Working
<1>3. CASE End({p}, pc)
  BY <1>1, <1>3 DEF End, FirstStep
<1>4. CASE UNCHANGED step /\ \E from, to \in Places : Goto(p, from, to)
                            /\ (from \in Working => to \in Working)
  BY <1>1, <1>4 DEF Goto, FirstStep
<1>5. QED
  BY <1>2, <1>3, <1>4 DEF Process, InstallHandler, Attach, Leave, Generate, Continue, TakeSlot,
     TakeMutex, Touch, Load, Unlock, Post, local, Places, Working

\* Steps by which p stays away from the ring and from everybody's tokens.
LEMMA AwaySound ==
    ASSUME SInv, Sound, NEW p \in Procs, UNCHANGED <<memory, sem>>, Calm(p),
           \A q \in Procs : q # p => pc'[q] = pc[q] /\ step'[q] = step[q]
                                     /\ reg'[q] = reg[q] /\ message'[q] = message[q],
           pc[p] \notin SlotPlaces, pc'[p] \notin SlotPlaces
    PROVE  Sound'
<1>1. \A q \in Procs : Calm(q)
  BY DEF Calm
<1>2. SlotsCounted'
  BY SlotsKept DEF Sound
<1>3. QED
  BY <1>1, <1>2, CalmKeeps

\* p goes on without touching the ring, its semaphore step paid for.
LEMMA TokenSound ==
    ASSUME SInv, Sound, NEW p \in Procs, NEW to \in Places \ Working, UNCHANGED memory,
           pc[p] \notin Working, pc' = [pc EXCEPT ![p] = to], UNCHANGED <<step, reg>>,
           to \in After => pc[p] \in After,
           \/ UNCHANGED message
           \/ to \notin After /\ \E v : message' = [message EXCEPT ![p] = v],
           sem' \in [0..2 -> Nat],
           sem'[0] + In(to, Mine(p, Before, After)) = sem[0] + In(pc[p], Mine(p, Before, After)),
           sem'[1] + In(to, Mine(p, After, Before)) = sem[1] + In(pc[p], Mine(p, After, Before))
    PROVE  Sound'
<1>1. pc \in [Procs -> Places] /\ message \in [Procs -> Nat] /\ sem \in [0..2 -> Nat]
  BY DEF SInv, TInv, TypeOK
<1>2. \A q \in Procs : Calm(q)
  <2>1. Calm(p)
    BY <1>1 DEF Calm, SInv, FirstStep
  <2>2. \A q \in Procs : q # p => Calm(q)
    BY <1>1 DEF Calm
  <2>3. QED
    BY <2>1, <2>2
<1>3. Count' = Count /\ Count \in Int
  <2>1. Count' = Count
    BY DEF Count, memory
  <2>2. Count \in Int
    <3>1. shm \in [Fields -> Int]
      BY DEF SInv, TInv, TypeOK
    <3>2. QED
      BY <3>1 DEF Count, Fields
  <2>3. QED
    BY <2>1, <2>2
<1>4. SlotsCounted'
  <2>1. \A place, A : In(place, A) \in {0, 1}
    BY DEF In
  <2>2. sem'[0] \in Nat /\ sem'[1] \in Nat /\ sem[0] \in Nat /\ sem[1] \in Nat
    BY <1>1
  <2>3. /\ sem'[0] + In(to, Mine(p, Before, After)) + Count'
             = sem[0] + In(pc[p], Mine(p, Before, After)) + Count
        /\ sem'[1] + In(to, Mine(p, After, Before)) - Count'
             = sem[1] + In(pc[p], Mine(p, After, Before)) - Count
    BY <1>3, <2>1, <2>2
  <2>4. Count' \in Int
    BY <1>3
  <2>5. QED
    BY <2>3, <2>4, SlotsPaid DEF SInv, Sound
<1>5. QED
  BY <1>2, <1>4, CalmKeeps

LEMMA ProcessSound ==
    ASSUME SInv, Uninterrupted, NEW p \in Procs, Process(p)
    PROVE  Sound'
<1>1. Sound /\ ~ipc_removed
  BY DEF SInv, IInv, FlagFirst, Uninterrupted
<1>2. /\ pc \in [Procs -> Places] /\ step \in [Procs -> 1..3] /\ reg \in [Procs -> Int]
      /\ message \in [Procs -> Nat] /\ sem \in [0..2 -> Nat]
      /\ \A q \in Procs : pc[q] \notin Working => step[q] = 1
  BY DEF SInv, TInv, TypeOK, FirstStep
<1>3. CASE \/ InstallHandler(p) \/ Generate(p) \/ Continue(p) \/ Leave(p) \/ Attach(p)
  <2>1. CASE End({p}, pc) /\ pc[p] \in {"attach", "top"} /\ UNCHANGED <<memory, sem>>
    <3>1. pc'[p] = "gone" /\ step'[p] = 1
      BY <2>1 DEF End
    <3>2. \A q \in Procs : q # p => pc'[q] = pc[q] /\ step'[q] = step[q]
                                    /\ reg'[q] = reg[q] /\ message'[q] = message[q]
      BY <2>1 DEF End
    <3>3. Calm(p)
      BY <2>1, <3>1 DEF Calm, Working, After
    <3>4. QED
      BY <1>1, <2>1, <3>1, <3>2, <3>3, AwaySound DEF SlotPlaces, CSPlaces
  <2>2. CASE /\ \E from \in {"start", "attach", "top"} : \E to \in {"attach", "top", "slot"} :
                  Goto(p, from, to)
             /\ UNCHANGED <<memory, sem, step, reg, message>>
    <3>1. PICK from \in {"start", "attach", "top"}, to \in {"attach", "top", "slot"} :
            Goto(p, from, to)
      BY <2>2
    <3>2. /\ pc[p] = from /\ pc'[p] = to
          /\ \A q \in Procs : q # p => pc'[q] = pc[q] /\ step'[q] = step[q]
                                       /\ reg'[q] = reg[q] /\ message'[q] = message[q]
      BY <1>2, <2>2, <3>1 DEF Goto
    <3>3. Calm(p)
      BY <1>2, <2>2, <3>2 DEF Calm, Working, After
    <3>4. QED
      BY <1>1, <2>2, <3>2, <3>3, AwaySound DEF SlotPlaces, CSPlaces
  <2>3. QED
    BY <1>3, <2>1, <2>2 DEF InstallHandler, Generate, Continue, Leave, Attach, local
<1>4. CASE TakeSlot(p)
  <2>1. /\ pc[p] = "slot" /\ pc' = [pc EXCEPT ![p] = "mutex"]
        /\ UNCHANGED <<memory, step, reg, message>>
        /\ sem[WaitsFor(p)] > 0 /\ sem' = [sem EXCEPT ![WaitsFor(p)] = @ - 1]
    BY <1>1, <1>4 DEF TakeSlot, Goto, Down, local
  <2>2. /\ sem' \in [0..2 -> Nat]
        /\ sem'[0] = sem[0] - (IF p \in Producers THEN 1 ELSE 0)
        /\ sem'[1] = sem[1] - (IF p \in Producers THEN 0 ELSE 1)
    BY <1>2, <2>1 DEF WaitsFor
  <2>3. /\ In("mutex", Mine(p, Before, After)) = IF p \in Producers THEN 1 ELSE 0
        /\ In("mutex", Mine(p, After, Before)) = IF p \in Producers THEN 0 ELSE 1
        /\ In("slot", Mine(p, Before, After)) = 0 /\ In("slot", Mine(p, After, Before)) = 0
    BY DEF In, Mine, Before, After
  <2>4. /\ sem'[0] + In("mutex", Mine(p, Before, After))
             = sem[0] + In(pc[p], Mine(p, Before, After))
        /\ sem'[1] + In("mutex", Mine(p, After, Before))
             = sem[1] + In(pc[p], Mine(p, After, Before))
    BY <1>2, <2>1, <2>2, <2>3
  <2>5. "mutex" \in Places \ Working /\ pc[p] \notin Working /\ "mutex" \notin After
    BY <2>1 DEF Places, Working, After
  <2>6. QED
    BY <1>1, <2>1, <2>2, <2>4, <2>5, TokenSound
<1>5. CASE TakeMutex(p)
  <2>1. /\ pc[p] = "mutex" /\ pc' = [pc EXCEPT ![p] = "touch"]
        /\ UNCHANGED <<memory, step, reg, message>>
        /\ sem[2] > 0 /\ sem' = [sem EXCEPT ![2] = @ - 1]
    BY <1>1, <1>5 DEF TakeMutex, Goto, Down, local
  <2>2. sem' \in [0..2 -> Nat] /\ sem'[0] = sem[0] /\ sem'[1] = sem[1]
    BY <1>2, <2>1
  <2>3. /\ In("touch", Mine(p, Before, After)) = In("mutex", Mine(p, Before, After))
        /\ In("touch", Mine(p, After, Before)) = In("mutex", Mine(p, After, Before))
    BY DEF In, Mine, Before, After
  <2>4. "touch" \in Places \ Working /\ pc[p] \notin Working /\ "touch" \notin After
    BY <2>1 DEF Places, Working, After
  <2>5. QED
    BY <1>1, <2>1, <2>2, <2>3, <2>4, TokenSound
<1>6. CASE Unlock(p)
  <2>1. /\ pc[p] = "unlock" /\ pc' = [pc EXCEPT ![p] = "post"]
        /\ UNCHANGED <<memory, step, reg, message>>
        /\ sem' = [sem EXCEPT ![2] = @ + 1]
    BY <1>1, <1>6 DEF Unlock, Goto, Up, local
  <2>2. sem' \in [0..2 -> Nat] /\ sem'[0] = sem[0] /\ sem'[1] = sem[1]
    BY <1>2, <2>1
  <2>3. /\ In("post", Mine(p, Before, After)) = In("unlock", Mine(p, Before, After))
        /\ In("post", Mine(p, After, Before)) = In("unlock", Mine(p, After, Before))
    BY DEF In, Mine, Before, After
  <2>4. "post" \in Places \ Working /\ pc[p] \notin Working /\ pc[p] \in After
    BY <2>1 DEF Places, Working, After
  <2>5. QED
    BY <1>1, <2>1, <2>2, <2>3, <2>4, TokenSound
<1>7. CASE Post(p)
  <2>1. /\ pc[p] = "post" /\ pc' = [pc EXCEPT ![p] = "top"]
        /\ message' = [message EXCEPT ![p] = 0]
        /\ UNCHANGED <<memory, step, reg>>
        /\ sem' = [sem EXCEPT ![Signals(p)] = @ + 1]
    BY <1>1, <1>7 DEF Post, Goto, Up
  <2>2. /\ sem' \in [0..2 -> Nat]
        /\ sem'[0] = sem[0] + (IF p \in Producers THEN 0 ELSE 1)
        /\ sem'[1] = sem[1] + (IF p \in Producers THEN 1 ELSE 0)
    BY <1>2, <2>1 DEF Signals
  <2>3. /\ In("post", Mine(p, Before, After)) = IF p \in Producers THEN 0 ELSE 1
        /\ In("post", Mine(p, After, Before)) = IF p \in Producers THEN 1 ELSE 0
        /\ In("top", Mine(p, Before, After)) = 0 /\ In("top", Mine(p, After, Before)) = 0
    BY DEF In, Mine, Before, After
  <2>4. /\ sem'[0] + In("top", Mine(p, Before, After))
             = sem[0] + In(pc[p], Mine(p, Before, After))
        /\ sem'[1] + In("top", Mine(p, After, Before))
             = sem[1] + In(pc[p], Mine(p, After, Before))
    BY <1>2, <2>1, <2>2, <2>3
  <2>5. "top" \in Places \ Working /\ pc[p] \notin Working /\ "top" \notin After
    BY <2>1 DEF Places, Working, After
  <2>6. QED
    BY <1>1, <2>1, <2>2, <2>4, <2>5, TokenSound
<1>8. QED
  BY <1>3, <1>4, <1>5, <1>6, <1>7, TouchSound, LoadSound, StoreSound DEF Process

-----------------------------------------------------------------------------
(* main.  A SIGTERM that breaks off no wait does nothing to the ring. *)

LEMMA KillSound ==
    ASSUME SInv, NEW S \in SUBSET Procs, Kill(S), UNCHANGED main_flag
    PROVE  FirstStep' /\ (Uninterrupted' => Sound')
<1>1. PICK asleep \in SUBSET {p \in S : MayBeAsleep(p)} :
        /\ pc' = [p \in Procs |->
                    CASE p \in S /\ pc[p] = "start"     -> "gone"
                      [] p \in asleep /\ pc[p] = "slot"  -> "mutex"
                      [] p \in asleep /\ pc[p] = "mutex" -> "touch"
                      [] OTHER                           -> pc[p]]
        /\ interrupted' = [k \in 0..2 |->
                             interrupted[k] + Cardinality({p \in asleep : SemOf(p) = k})]
        /\ UNCHANGED <<memory, sem, message, step, reg>>
  BY DEF Kill
<1>2. \A q \in Procs :
        pc'[q] = IF q \in S /\ pc[q] = "start" THEN "gone"
                 ELSE IF q \in asleep /\ pc[q] = "slot" THEN "mutex"
                 ELSE IF q \in asleep /\ pc[q] = "mutex" THEN "touch" ELSE pc[q]
  BY <1>1
<1>3. \A q \in Procs : Calm(q)
  BY <1>1, <1>2 DEF Calm, Working, After, SInv, FirstStep
<1>4. FirstStep'
  BY <1>3, CalmFirst DEF SInv
<1>5. ASSUME Uninterrupted'
      PROVE  Sound'
  <2> DEFINE broken(k) == {p \in asleep : SemOf(p) = k}
  <2>1. \A k \in 0..2 : IsFiniteSet(broken(k)) /\ Cardinality(broken(k)) \in Nat
    <3>1. \A k \in 0..2 : broken(k) \in SUBSET Procs
      BY <1>1
    <3>2. QED
      BY <3>1, ProcsFinite, FS_Subset, FS_CardinalityType
  <2>2. \A k \in 0..2 : interrupted[k] = 0 /\ Cardinality(broken(k)) = 0
    <3>1. SUFFICES ASSUME NEW k \in 0..2
                   PROVE  interrupted[k] = 0 /\ Cardinality(broken(k)) = 0
      OBVIOUS
    <3> DEFINE c == Cardinality(broken(k))
    <3>2. c \in Nat /\ interrupted[k] \in Nat
      BY <2>1 DEF SInv, TInv, TypeOK
    <3>3. interrupted'[k] = 0 /\ interrupted'[k] = interrupted[k] + c
      BY <1>1, <1>5 DEF Uninterrupted
    <3> HIDE DEF c
    <3>4. interrupted[k] = 0 /\ c = 0
      BY <3>2, <3>3
    <3>5. QED
      BY <3>4 DEF c
  <2>3. Sound
    BY <1>5, <2>2 DEF Uninterrupted, SInv
  <2>4. \A k \in 0..2 : broken(k) = {}
    <3> HIDE DEF broken
    <3>1. QED
      BY <2>1, <2>2, FS_EmptySet
  <2>5. asleep = {}
    <3>1. \A p \in asleep : SemOf(p) \in 0..2
      BY DEF SemOf, WaitsFor
    <3>2. QED
      BY <2>4, <3>1
  <2>6. \A q \in Procs :
          pc'[q] = pc[q] \/ (pc[q] \notin SlotPlaces /\ pc'[q] \notin SlotPlaces)
    BY <1>2, <2>5 DEF SlotPlaces, CSPlaces
  <2>7. SlotsCounted'
    BY <1>1, <2>3, <2>6, SlotsKept DEF Sound
  <2>8. QED
    BY <1>1, <1>3, <2>3, <2>7, CalmKeeps
<1>6. QED
  BY <1>4, <1>5

LEMMA ForkSound ==
    ASSUME SInv, NEW P \in SUBSET Procs,
           \/ \E p \in FirstUnborn(P) : pc' = [pc EXCEPT ![p] = "start"]
           \/ UNCHANGED pc,
           UNCHANGED <<idle, local, interrupted>>
    PROVE  FirstStep' /\ (Uninterrupted' => Sound')
<1>1. UNCHANGED <<memory, sem, message, step, reg, main_flag, interrupted>>
  BY DEF idle, local
<1>2. \A q \in Procs : pc'[q] = pc[q] \/ (pc[q] = "unborn" /\ pc'[q] = "start")
  BY DEF SInv, TInv, TypeOK, FirstUnborn
<1>3. \A q \in Procs : Calm(q)
  BY <1>1, <1>2 DEF Calm, Working, After, SInv, FirstStep
<1>4. FirstStep'
  BY <1>3, CalmFirst DEF SInv
<1>5. ASSUME Uninterrupted'
      PROVE  Sound'
  <2>1. Sound
    BY <1>1, <1>5 DEF Uninterrupted, SInv
  <2>2. SlotsCounted'
    BY <1>1, <1>2, <2>1, SlotsKept DEF Sound, SlotPlaces, CSPlaces
  <2>3. QED
    BY <1>1, <1>3, <2>1, <2>2, CalmKeeps
<1>6. QED
  BY <1>4, <1>5

LEMMA NobodyMoves ==
    ASSUME SInv, UNCHANGED <<memory, sem, procs, main_flag, interrupted>>
    PROVE  FirstStep' /\ (Uninterrupted' => Sound')
<1>1. \A q \in Procs : Calm(q) /\ pc'[q] = pc[q]
  BY DEF Calm, procs
<1>2. FirstStep'
  BY <1>1, CalmFirst DEF SInv
<1>3. ASSUME Uninterrupted'
      PROVE  Sound'
  <2>1. Sound
    BY <1>3 DEF Uninterrupted, SInv
  <2>2. SlotsCounted'
    BY <1>1, <2>1, SlotsKept DEF Sound
  <2>3. QED
    BY <1>1, <2>1, <2>2, CalmKeeps
<1>4. QED
  BY <1>2, <1>3

\* With main's flag set nothing more is asked of the ring.
LEMMA FlagFrees ==
    ASSUME SInv, main_flag', \/ UNCHANGED procs \/ \E S : End(S, pc)
    PROVE  FirstStep' /\ (Uninterrupted' => Sound')
<1>1. FirstStep'
  BY DEF SInv, FirstStep, procs, End
<1>2. ~Uninterrupted'
  BY DEF Uninterrupted
<1>3. QED
  BY <1>1, <1>2

LEMMA MainSound ==
    ASSUME SInv, \/ AddProducer \/ AddConsumer \/ RemoveProducer \/ RemoveConsumer
                 \/ Quit \/ sigint_handler \/ OtherLine
                 \/ JoinMonitor \/ KillNext \/ RemoveIpc
    PROVE  FirstStep' /\ (Uninterrupted' => Sound')
<1>1. session.producers \in SUBSET Procs /\ session.consumers \in SUBSET Procs
  BY DEF SInv, IInv, Kinds, Session, Procs
<1>2. \A pid : Targets(pid) \in SUBSET Procs
  BY DEF Targets, Alive
<1>3. CASE AddProducer \/ AddConsumer
  BY <1>1, <1>3, ForkSound DEF AddProducer, AddConsumer, Fork
<1>4. CASE RemoveProducer \/ RemoveConsumer \/ KillNext
  BY <1>2, <1>4, KillSound DEF RemoveProducer, RemoveConsumer, KillNext, idle
<1>5. CASE Quit \/ sigint_handler
  BY <1>5, FlagFrees DEF Quit, sigint_handler
<1>6. CASE OtherLine \/ JoinMonitor \/ RemoveIpc
  BY <1>6, NobodyMoves DEF OtherLine, JoinMonitor, RemoveIpc
<1>7. QED
  BY <1>3, <1>4, <1>5, <1>6

LEMMA InitSound == Init => SInv
<1>1. SUFFICES ASSUME Init PROVE SInv
  OBVIOUS
<1>2. TInv /\ IInv
  BY <1>1, InitTypes, InitHolds
<1>3. FirstStep
  BY <1>1 DEF Init, FirstStep
<1>4. \A q \in Procs : pc[q] = "unborn"
  BY <1>1 DEF Init
<1>5. /\ shm["head"] = 0 /\ shm["tail"] = 0 /\ shm["free_slots"] = QUEUE_SIZE
      /\ shm["added_count"] = 0 /\ shm["removed_count"] = 0
      /\ sem[0] = QUEUE_SIZE /\ sem[1] = 0
  BY <1>1 DEF Init, Fields
<1>6. \A P \in SUBSET Procs : \A k : Ahead(P, k) = 0
  BY <1>4 DEF Ahead, Working
<1>7. RingSound
  <2>1. Oldest = 0 /\ Newest = 0 /\ Entered = 0 /\ Count = 0
        /\ Ahead(Producers, 3) = 0 /\ Ahead(Consumers, 3) = 0
    BY <1>5, <1>6, TwoKinds DEF Oldest, Newest, Entered, Count
  <2>2. 0 % QUEUE_SIZE = 0
    BY ModSmall, ProcAssumption
  <2>3. InOrder(buffer, 0, 0, 0)
    BY DEF InOrder
  <2>4. QED
    BY <1>5, <2>1, <2>2, <2>3, ProcAssumption DEF RingSound
<1>8. SlotsCounted
  <2>1. Holding(pc, Before, After) = {} /\ Holding(pc, After, Before) = {}
    BY <1>4 DEF Holding, Mine, Before, After
  <2>2. Count = 0
    BY <1>5 DEF Count
  <2>3. QED
    BY <1>5, <2>1, <2>2, FS_EmptySet, ProcAssumption DEF SlotsCounted
<1>9. ReadsCurrent /\ TakenIsReal
  BY <1>4, TwoKinds DEF ReadsCurrent, TakenIsReal
<1>10. QED
  BY <1>2, <1>3, <1>5, <1>7, <1>8, <1>9 DEF SInv, Sound

LEMMA NextSound ==
    ASSUME SInv, [Next]_vars
    PROVE  SInv'
<1>1. TInv' /\ IInv'
  BY NextTypes, NextKeeps DEF SInv
<1>2. CASE UNCHANGED vars
  BY <1>1, <1>2, NobodyMoves DEF vars, mainVars, SInv
<1>3. CASE Exited
  BY <1>2, <1>3 DEF Exited
<1>4. CASE \E p \in Procs : Process(p)
  <2>1. PICK p \in Procs : Process(p)
    BY <1>4
  <2>2. UNCHANGED <<main_flag, interrupted>>
    BY <2>1 DEF Process, InstallHandler, Attach, Leave, Generate, Continue, TakeSlot,
                TakeMutex, Touch, Load, Store, Unlock, Post, quiet, mainVars
  <2>3. Uninterrupted' => Uninterrupted
    BY <2>2 DEF Uninterrupted
  <2>4. QED
    BY <1>1, <2>1, <2>3, FirstStepKept, ProcessSound DEF SInv
<1>5. QED
  BY <1>1, <1>2, <1>3, <1>4, MainSound DEF Next, SInv

\* For any number of processes, messages and cells and any session: as long as
\* no SIGTERM has broken off a wait, the mutex keeps the counters and the cells
\* of common.h:19-26 together, whatever the order of the steps (producer.c:48-64,
\* consumer.c:50-66).
THEOREM SoundHolds == Spec => []SoundUntilInterrupted
<1>1. SInv => SoundUntilInterrupted
  <2>1. SUFFICES ASSUME SInv, Uninterrupted
                 PROVE  /\ Cardinality(InCriticalSection) <= 1
                        /\ InCriticalSection = {} =>
                             /\ shm["free_slots"] = QUEUE_SIZE - Count
                             /\ shm["tail"] = (shm["head"] + Count) % QUEUE_SIZE
                             /\ \A i \in 0..Count - 1 :
                                  buffer[(shm["head"] + i) % QUEUE_SIZE]
                                    = shm["removed_count"] + i + 1
                        /\ TakenIsReal
    BY DEF SoundUntilInterrupted, TakenIsReal
  <2>2. Cardinality(InCriticalSection) <= 1
    BY <2>1, AtMostOne DEF SInv
  <2>3. ASSUME InCriticalSection = {}
        PROVE  /\ shm["free_slots"] = QUEUE_SIZE - Count
               /\ shm["tail"] = (shm["head"] + Count) % QUEUE_SIZE
               /\ \A i \in 0..Count - 1 :
                    buffer[(shm["head"] + i) % QUEUE_SIZE] = shm["removed_count"] + i + 1
    <3>1. \A q \in Procs : pc[q] \notin Working
      BY <2>3 DEF InCriticalSection, At, Working
    <3>2. \A P \in SUBSET Procs : \A k : Ahead(P, k) = 0
      BY <3>1 DEF Ahead
    <3>3. /\ shm["added_count"] \in Int /\ shm["removed_count"] \in Int
          /\ Count \in Int /\ QUEUE_SIZE \in Int
      BY <2>1, ProcAssumption DEF SInv, TInv, TypeOK, Fields, Count
    <3>4. /\ Oldest = shm["removed_count"]
          /\ Newest - Oldest = Count /\ Entered - Oldest = Count
          /\ Ahead(Producers, 3) = 0 /\ Ahead(Consumers, 3) = 0
      BY <3>2, <3>3, TwoKinds DEF Oldest, Newest, Entered, Count
    <3>5. RingSound
      BY <2>1 DEF SInv, Sound
    <3>6. shm["free_slots"] = QUEUE_SIZE - Count
      BY <3>3, <3>4, <3>5 DEF RingSound
    <3>7. /\ shm["tail"] = (shm["head"] + Count) % QUEUE_SIZE
          /\ InOrder(buffer, shm["head"], shm["removed_count"], Count)
      BY <3>4, <3>5 DEF RingSound
    <3>8. QED
      BY <3>6, <3>7 DEF InOrder
  <2>4. QED
    BY <2>1, <2>2, <2>3 DEF SInv, Sound
<1>2. Init => SInv
  BY InitSound
<1>3. SInv /\ [Next]_vars => SInv'
  BY NextSound
<1>4. QED
  BY <1>1, <1>2, <1>3, PTL DEF Spec
================================================================================
