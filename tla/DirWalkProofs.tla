----------------------------- MODULE DirWalkProofs -----------------------------
(***************************************************************************)
(* What holds of DirWalk for any finite tree, any options, any initial       *)
(* capacity and any number of changes to the tree, with SIGINT and failing   *)
(* allocations anywhere: types, the heap, and what is printed.               *)
(***************************************************************************)
EXTENDS DirWalk, SharedLemmas

Frame == [dir : Entries \cup {Root}, todo : SUBSET Entries, entry : Entries \cup {Root}]

\* The innermost entry is at hand: its path is on the heap.
AtHand == {"match", "room", "moved", "copy", "count", "descend", "open", "release"}
InWalk == AtHand \cup {"open", "read"}

\* The program ends, or has come to a call of exit.
Leaving == Exits \cup Ended

-----------------------------------------------------------------------------
(* The tree *)

LEMMA TreeFacts ==
    /\ Entries \subseteq Nat \ {0} /\ Root \notin Entries /\ IsFiniteSet(Entries)
    /\ \A e \in Entries : /\ Parent[e] \in Entries \cup {Root} /\ Parent[e] < e
                          /\ Parent[e] # e
<1>1. Entries \subseteq Nat \ {0} /\ IsFiniteSet(Entries)
  BY WalkAssumption
<1>2. ASSUME NEW e \in Entries
      PROVE  Parent[e] \in Entries \cup {Root} /\ Parent[e] < e /\ Parent[e] # e
  <2>1. Parent[e] = Root \/ Parent[e] \in Entries \cap 1..e - 1
    BY WalkAssumption
  <2>2. e \in Nat /\ e > 0
    BY <1>1
  <2>3. QED
    BY <2>1, <2>2 DEF Root
<1>3. QED
  BY <1>1, <1>2 DEF Root

-----------------------------------------------------------------------------
(* Sequences of open directories *)

LEMMA Pushed ==
    ASSUME NEW S, NEW s \in Seq(S), NEW f \in S
    PROVE  /\ <<f>> \o s \in Seq(S) /\ <<f>> \o s # <<>>
           /\ Len(<<f>> \o s) = Len(s) + 1
           /\ (<<f>> \o s)[1] = f /\ Head(<<f>> \o s) = f
           /\ \A i \in 1..Len(s) : (<<f>> \o s)[i + 1] = s[i]
<1> DEFINE t == <<f>> \o s
<1>1. <<f>> \in Seq(S) /\ Len(<<f>>) = 1 /\ <<f>>[1] = f /\ Len(s) \in Nat
  OBVIOUS
<1>2. /\ t \in Seq(S) /\ Len(t) = 1 + Len(s)
      /\ \A i \in 1..1 + Len(s) : t[i] = IF i <= 1 THEN <<f>>[i] ELSE s[i - 1]
  BY <1>1, ConcatProperties
<1> HIDE DEF t
<1>3. t[1] = f
  BY <1>1, <1>2
<1>4. t # <<>> /\ Head(t) = f
  BY <1>1, <1>2, <1>3
<1>5. \A i \in 1..Len(s) : t[i + 1] = s[i]
  BY <1>1, <1>2
<1>6. QED
  BY <1>1, <1>2, <1>3, <1>4, <1>5 DEF t

LEMMA Popped ==
    ASSUME NEW S, NEW s \in Seq(S), s # <<>>
    PROVE  /\ Tail(s) \in Seq(S) /\ Len(Tail(s)) = Len(s) - 1 /\ Len(s) \in Nat \ {0}
           /\ Head(s) = s[1] /\ s[1] \in S
           /\ \A i \in 1..Len(s) - 1 : Tail(s)[i] = s[i + 1]
<1>1. /\ Head(s) \in S /\ Tail(s) \in Seq(S) /\ Len(Tail(s)) = Len(s) - 1
      /\ \A i \in 1..Len(Tail(s)) : Tail(s)[i] = s[i + 1]
  BY HeadTailProperties
<1>2. Len(s) \in Nat \ {0} /\ Head(s) = s[1]
  BY EmptySeq
<1>3. QED
  BY <1>1, <1>2

-----------------------------------------------------------------------------
(* Types, the open directories, and room in the list.  A directory is open    *)
(* inside its parent, which stands behind it on the stack.                   *)

Nested ==
    /\ pc \in InWalk \ {"open"} => stack # <<>>
    /\ pc \notin InWalk \cup Leaving => stack = <<>>
    /\ \A i, j \in DOMAIN stack : i < j => stack[j].dir < stack[i].dir
    /\ \A i \in DOMAIN stack : i > 1 => stack[i].entry = stack[i - 1].dir
    /\ \A i \in DOMAIN stack : \A e \in stack[i].todo : Parent[e] = stack[i].dir
    /\ \A i \in DOMAIN stack :
         i > 1 \/ pc \in AtHand =>
           stack[i].entry \in Entries /\ Parent[stack[i].entry] = stack[i].dir

Simple ==
    /\ kind \in [Entries -> Kinds] /\ disturbed \in BOOLEAN /\ changes \in 0..MaxChanges
    /\ opts \in Options /\ pc \in Places /\ g_file_list \in BOOLEAN /\ fault \in BOOLEAN
    /\ items \in Nat /\ next \in Nat

\* A step that copies a path finds a cell for it.
Room ==
    /\ size \in Nat /\ capacity \in Nat /\ size <= capacity /\ capacity > 0
    /\ pc \in {"moved", "copy", "count"} => size < capacity

AInv == Simple /\ stack \in Seq(Frame) /\ Nested /\ Room

LEMMA InitA == Init => AInv
<1>1. SUFFICES ASSUME Init PROVE AInv
  OBVIOUS
<1>2. Simple
  <2>1. kind \in [Entries -> Kinds] /\ opts \in Options /\ disturbed \in BOOLEAN
    BY <1>1, WalkAssumption DEF Init
  <2>2. changes \in 0..MaxChanges
    BY <1>1, WalkAssumption DEF Init
  <2>3. g_file_list \in BOOLEAN /\ fault \in BOOLEAN /\ items \in Nat /\ next \in Nat
    BY <1>1 DEF Init
  <2>4. pc \in Places
    BY <1>1 DEF Init, Places, Exits
  <2>5. QED
    BY <2>1, <2>2, <2>3, <2>4 DEF Simple
<1>3. stack = <<>> /\ DOMAIN stack = {} /\ pc = "start"
  BY <1>1 DEF Init
<1>4. stack \in Seq(Frame) /\ Nested
  BY <1>3 DEF Nested, InWalk, AtHand, Leaving, Ended, Exits
<1>5. Room
  BY <1>1, WalkAssumption DEF Init, Room
<1>6. QED
  BY <1>2, <1>4, <1>5 DEF AInv

LEMMA StackFacts ==
    ASSUME stack \in Seq(Frame)
    PROVE  /\ DOMAIN stack = 1..Len(stack) /\ Len(stack) \in Nat
           /\ stack # <<>> => /\ Len(stack) > 0 /\ 1 \in DOMAIN stack /\ Head(stack) = stack[1]
                              /\ Here = stack[1].entry
           /\ stack = <<>> => Here = Root
           /\ \A i \in DOMAIN stack : stack[i] \in Frame
<1>1. DOMAIN stack = 1..Len(stack) /\ Len(stack) \in Nat
  BY LenProperties
<1>2. stack # <<>> => Len(stack) \in Nat \ {0} /\ Head(stack) = stack[1]
  BY Popped
<1>3. \A i \in DOMAIN stack : stack[i] \in Frame
  BY <1>1, ElementOfSeq
<1>4. QED
  BY <1>1, <1>2, <1>3 DEF Here

\* The stack stays; so do the paths at hand.
LEMMA NestedKept ==
    ASSUME Nested, stack' = stack, stack \in Seq(Frame),
           pc' \in InWalk \ {"open"} => stack # <<>>,
           pc' \notin InWalk \cup Leaving => stack = <<>>,
           pc' \in AtHand => pc \in AtHand \/ stack = <<>>
    PROVE  Nested'
<1>1. stack = <<>> => DOMAIN stack = {}
  OBVIOUS
<1>2. QED
  BY <1>1 DEF Nested

\* What OpenDir does to the stack.
OpensHere ==
    /\ pc = "open" /\ pc' = "read" /\ stack' # <<>> /\ Here \in Entries \cup {Root}
    /\ stack # <<>> => Here \in Entries /\ Parent[Here] = stack[1].dir
    /\ DOMAIN stack = 1..Len(stack) /\ DOMAIN stack' = 1..Len(stack) + 1 /\ Len(stack) \in Nat
    /\ stack'[1] = [dir |-> Here, todo |-> Contents(Here), entry |-> Root]
    /\ \A i \in DOMAIN stack' : i # 1 => i - 1 \in DOMAIN stack /\ stack'[i] = stack[i - 1] /\ i > 1
    /\ \A i \in DOMAIN stack : i + 1 \in DOMAIN stack' /\ i + 1 > 1 /\ stack'[i + 1] = stack[i]

LEMMA OpenDirOpens ==
    ASSUME AInv, OpenDir
    PROVE  OpensHere /\ stack' \in Seq(Frame)
<1> DEFINE f == [dir |-> Here, todo |-> Contents(Here), entry |-> Root]
<1>1. /\ pc = "open" /\ pc' = "read" /\ stack' = <<f>> \o stack
      /\ stack \in Seq(Frame) /\ Nested
  BY DEF OpenDir, Goto, AInv
<1>2. stack # <<>> => Here \in Entries /\ Parent[Here] = stack[1].dir
  BY <1>1, StackFacts DEF Nested, AtHand
<1>3. Here \in Entries \cup {Root} /\ f \in Frame
  <2>1. Here \in Entries \cup {Root}
    BY <1>1, <1>2, StackFacts
  <2>2. QED
    BY <2>1 DEF Frame, Contents
<1>4. /\ stack' \in Seq(Frame) /\ stack' # <<>> /\ Len(stack') = Len(stack) + 1
      /\ stack'[1] = f /\ \A i \in 1..Len(stack) : stack'[i + 1] = stack[i]
  BY <1>1, <1>3, Pushed
<1>5. DOMAIN stack = 1..Len(stack) /\ DOMAIN stack' = 1..Len(stack) + 1 /\ Len(stack) \in Nat
  BY <1>1, <1>4, LenProperties
<1>6. \A i \in DOMAIN stack' : i # 1 => i - 1 \in DOMAIN stack /\ stack'[i] = stack[i - 1] /\ i > 1
  <2>1. SUFFICES ASSUME NEW i \in DOMAIN stack', i # 1
                 PROVE  i - 1 \in DOMAIN stack /\ stack'[i] = stack[i - 1] /\ i > 1
    OBVIOUS
  <2>2. i - 1 \in 1..Len(stack) /\ (i - 1) + 1 = i /\ i > 1
    BY <1>5, <2>1
  <2>3. QED
    BY <1>4, <1>5, <2>2
<1>7. \A i \in DOMAIN stack : i + 1 \in DOMAIN stack' /\ i + 1 > 1 /\ stack'[i + 1] = stack[i]
  BY <1>4, <1>5
<1> HIDE DEF f
<1>8. QED
  BY <1>1, <1>2, <1>3, <1>4, <1>5, <1>6, <1>7 DEF OpensHere, f

LEMMA OpenDirNests ==
    ASSUME AInv, OpenDir
    PROVE  stack' \in Seq(Frame) /\ Nested'
<1>1. OpensHere /\ stack' \in Seq(Frame) /\ stack \in Seq(Frame) /\ Nested
  BY OpenDirOpens DEF AInv
<1> DEFINE f == [dir |-> Here, todo |-> Contents(Here), entry |-> Root]
<1>2. stack # <<>> => Here \in Entries /\ Parent[Here] = stack[1].dir
  BY <1>1 DEF OpensHere
<1>4. stack'[1] = f /\ stack' # <<>> /\ pc = "open" /\ pc' = "read"
  BY <1>1 DEF OpensHere
<1>6. f.dir = Here /\ \A e \in f.todo : Parent[e] = Here
  BY DEF Contents
<1> HIDE DEF f
<1>5. DOMAIN stack = 1..Len(stack) /\ DOMAIN stack' = 1..Len(stack) + 1 /\ Len(stack) \in Nat
  BY <1>1 DEF OpensHere
<1>7. \A i \in DOMAIN stack' : i # 1 => i - 1 \in DOMAIN stack /\ stack'[i] = stack[i - 1]
  BY <1>1 DEF OpensHere
<1>8. \A i \in DOMAIN stack : stack[i].dir < Here
  <2>1. SUFFICES ASSUME NEW i \in DOMAIN stack PROVE stack[i].dir < Here
    OBVIOUS
  <2>2. 1 \in DOMAIN stack /\ stack # <<>>
    BY <1>1, <2>1, StackFacts
  <2>3. stack[1].dir < Here /\ Here \in Nat
    BY <1>2, <2>2, TreeFacts
  <2>4. i = 1 \/ stack[i].dir < stack[1].dir
    <3>1. i = 1 \/ 1 < i
      BY <1>5
    <3>2. QED
      BY <1>1, <2>2, <3>1 DEF Nested
  <2>5. stack[i].dir \in Nat /\ stack[1].dir \in Nat
    <3>1. stack[i] \in Frame /\ stack[1] \in Frame
      BY <1>1, <2>2, StackFacts
    <3>2. Entries \cup {Root} \subseteq Nat
      BY TreeFacts DEF Root
    <3>3. QED
      BY <3>1, <3>2 DEF Frame
  <2>6. QED
    BY <2>3, <2>4, <2>5
<1>9. \A i, j \in DOMAIN stack' : i < j => stack'[j].dir < stack'[i].dir
  <2>1. SUFFICES ASSUME NEW i \in DOMAIN stack', NEW j \in DOMAIN stack', i < j
                 PROVE  stack'[j].dir < stack'[i].dir
    OBVIOUS
  <2>2. j # 1 /\ j - 1 \in DOMAIN stack /\ stack'[j] = stack[j - 1]
    BY <1>5, <1>7, <2>1
  <2>3. CASE i = 1
    BY <1>4, <1>6, <1>8, <2>2, <2>3
  <2>4. CASE i # 1
    <3>1. i - 1 \in DOMAIN stack /\ stack'[i] = stack[i - 1] /\ i - 1 < j - 1
      BY <1>5, <1>7, <2>1, <2>4
    <3>2. QED
      BY <1>1, <2>2, <3>1 DEF Nested
  <2>5. QED
    BY <2>3, <2>4
<1>10. ASSUME NEW i \in DOMAIN stack'
       PROVE  /\ i > 1 => stack'[i].entry = stack'[i - 1].dir
              /\ \A e \in stack'[i].todo : Parent[e] = stack'[i].dir
              /\ i > 1 => stack'[i].entry \in Entries /\ Parent[stack'[i].entry] = stack'[i].dir
  <2>1. CASE i = 1
    BY <1>4, <1>6, <2>1
  <2>2. CASE i # 1
    <3>1. i - 1 \in DOMAIN stack /\ stack'[i] = stack[i - 1]
      BY <1>7, <2>2
    <3>2. CASE i - 1 = 1
      <4>1. stack'[i] = stack[1] /\ stack'[i - 1] = f /\ stack # <<>>
        BY <1>4, <3>1, <3>2
      <4>2. Here = stack[1].entry
        BY <1>1, <4>1, StackFacts
      <4>3. QED
        BY <1>1, <1>2, <1>6, <3>1, <3>2, <4>1, <4>2 DEF Nested
    <3>3. CASE i - 1 # 1
      <4>1. i - 1 > 1 /\ i - 1 \in DOMAIN stack' /\ i - 2 \in DOMAIN stack
            /\ (i - 1) - 1 = i - 2
        BY <1>5, <3>1, <3>3
      <4>2. stack'[i - 1] = stack[i - 2]
        BY <1>7, <3>3, <4>1
      <4>3. QED
        BY <1>1, <3>1, <4>1, <4>2 DEF Nested
    <3>4. QED
      BY <3>2, <3>3
  <2>3. QED
    BY <2>1, <2>2
<1>11. QED
  BY <1>1, <1>4, <1>9, <1>10 DEF Nested, InWalk, AtHand, Leaving, Ended, Exits

\* What ReadEntry does to the stack, and where the entry comes from.
ReadsThere(e) ==
    /\ pc = "read" /\ pc' = "match" /\ stack # <<>> /\ e \in Entries /\ e \in stack[1].todo
    /\ Parent[e] = stack[1].dir /\ DOMAIN stack' = DOMAIN stack /\ 1 \in DOMAIN stack
    /\ stack'[1] = [dir |-> stack[1].dir, todo |-> stack[1].todo \ {e}, entry |-> e]
    /\ \A i \in DOMAIN stack : i # 1 => stack'[i] = stack[i]
    /\ Here' = e /\ heap' = heap \cup {Path(e)}

LEMMA ReadEntryReads ==
    ASSUME AInv, ReadEntry
    PROVE  stack' \in Seq(Frame) /\ \E e \in Entries : ReadsThere(e)
<1>1. /\ pc = "read" /\ pc' = "match" /\ stack \in Seq(Frame) /\ Nested /\ stack # <<>>
  BY DEF ReadEntry, Goto, AInv, Nested, InWalk, AtHand
<1>2. PICK e \in Head(stack).todo :
        /\ stack' = [stack EXCEPT ![1].todo = @ \ {e}, ![1].entry = e]
        /\ heap' = heap \cup {Path(e)}
  BY DEF ReadEntry, Allocate
<1>3. /\ DOMAIN stack = 1..Len(stack) /\ Len(stack) \in Nat /\ 1 \in DOMAIN stack
      /\ Head(stack) = stack[1] /\ \A i \in DOMAIN stack : stack[i] \in Frame
  BY <1>1, StackFacts
<1>4. stack[1] \in Frame /\ e \in stack[1].todo /\ e \in Entries /\ Parent[e] = stack[1].dir
  BY <1>1, <1>2, <1>3 DEF Frame, Nested
<1> DEFINE f == [dir |-> stack[1].dir, todo |-> stack[1].todo \ {e}, entry |-> e]
<1>5. f \in Frame /\ f.entry = e
  BY <1>4 DEF Frame
<1>6. stack' = [stack EXCEPT ![1] = f]
  <2>1. PICK d \in Entries \cup {Root}, t \in SUBSET Entries, x \in Entries \cup {Root} :
          stack[1] = [dir |-> d, todo |-> t, entry |-> x]
    BY <1>4 DEF Frame
  <2>2. stack[1].todo = t /\ stack[1].dir = d
    BY <2>1
  <2>3. [stack[1] EXCEPT !.todo = @ \ {e}] = [dir |-> d, todo |-> t \ {e}, entry |-> x]
    BY <2>1, <2>2
  <2>4. [[dir |-> d, todo |-> t \ {e}, entry |-> x] EXCEPT !.entry = e]
          = [dir |-> d, todo |-> t \ {e}, entry |-> e]
    OBVIOUS
  <2>5. [[stack[1] EXCEPT !.todo = @ \ {e}] EXCEPT !.entry = e] = f
    BY <2>2, <2>3, <2>4
  <2>6. stack' = [[stack EXCEPT ![1] = [stack[1] EXCEPT !.todo = @ \ {e}]]
                     EXCEPT ![1] = [[stack[1] EXCEPT !.todo = @ \ {e}] EXCEPT !.entry = e]]
    BY <1>2, <1>3
  <2>7. QED
    BY <2>5, <2>6
<1> HIDE DEF f
<1>7. /\ stack' \in Seq(Frame) /\ DOMAIN stack' = DOMAIN stack /\ stack' # <<>>
      /\ stack'[1] = f /\ \A i \in DOMAIN stack : i # 1 => stack'[i] = stack[i]
  BY <1>1, <1>3, <1>5, <1>6
<1>8. Here' = e
  <2>1. Head(stack') = stack'[1]
    BY <1>7, Popped
  <2>2. QED
    BY <1>5, <1>7, <2>1 DEF Here
<1>9. QED
  BY <1>1, <1>2, <1>3, <1>4, <1>7, <1>8 DEF ReadsThere, f

LEMMA ReadEntryNests ==
    ASSUME AInv, ReadEntry
    PROVE  stack' \in Seq(Frame) /\ Nested'
<1>1. /\ pc = "read" /\ pc' = "match" /\ stack \in Seq(Frame) /\ Nested /\ stack' \in Seq(Frame)
  BY ReadEntryReads DEF ReadEntry, Goto, AInv
<1>2. PICK e \in Entries : ReadsThere(e)
  BY ReadEntryReads
<1> DEFINE f == [dir |-> stack[1].dir, todo |-> stack[1].todo \ {e}, entry |-> e]
<1>3. f.dir = stack[1].dir /\ f.todo \subseteq stack[1].todo /\ f.entry = e
  OBVIOUS
<1>4. /\ e \in Entries /\ e \in stack[1].todo /\ Parent[e] = stack[1].dir
      /\ DOMAIN stack' = DOMAIN stack /\ 1 \in DOMAIN stack
      /\ stack'[1] = f /\ \A i \in DOMAIN stack : i # 1 => stack'[i] = stack[i]
  BY <1>2 DEF ReadsThere
<1> HIDE DEF f
<1>5. stack' # <<>>
  BY <1>4
<1>6. \A i \in DOMAIN stack : stack'[i].dir = stack[i].dir /\ stack'[i].todo \subseteq stack[i].todo
  BY <1>3, <1>4
<1>7. \A i \in DOMAIN stack : i > 1 => i - 1 \in DOMAIN stack /\ stack'[i].entry = stack[i].entry
  BY <1>1, <1>4, StackFacts
<1>8. QED
  BY <1>1, <1>3, <1>4, <1>5, <1>6, <1>7 DEF Nested, InWalk, AtHand, Leaving, Ended, Exits

LEMMA CloseNests ==
    ASSUME AInv, CloseDir \/ PathFails
    PROVE  stack' \in Seq(Frame) /\ Nested'
<1>1. /\ pc = "read" /\ stack \in Seq(Frame) /\ Nested /\ stack # <<>> /\ stack' = Tail(stack)
      /\ pc' \in {IF Tail(stack) = <<>> THEN "sort" ELSE "release", "exit"}
  BY DEF CloseDir, PathFails, closedir, Goto, AInv, Nested, InWalk, AtHand
<1>2. /\ stack' \in Seq(Frame) /\ Len(stack') = Len(stack) - 1 /\ Len(stack) \in Nat \ {0}
      /\ \A i \in 1..Len(stack) - 1 : stack'[i] = stack[i + 1]
  BY <1>1, Popped
<1>3. DOMAIN stack = 1..Len(stack) /\ DOMAIN stack' = 1..Len(stack) - 1
  BY <1>1, <1>2, LenProperties
<1>4. \A i \in DOMAIN stack' :
        i + 1 \in DOMAIN stack /\ i + 1 > 1 /\ i \in DOMAIN stack /\ stack'[i] = stack[i + 1]
  BY <1>2, <1>3
<1>5. \A i, j \in DOMAIN stack' : i < j => stack'[j].dir < stack'[i].dir
  <2>1. SUFFICES ASSUME NEW i \in DOMAIN stack', NEW j \in DOMAIN stack', i < j
                 PROVE  stack'[j].dir < stack'[i].dir
    OBVIOUS
  <2>2. i + 1 < j + 1
    BY <1>3, <2>1
  <2>3. QED
    BY <1>1, <1>4, <2>2 DEF Nested
<1>6. ASSUME NEW i \in DOMAIN stack'
      PROVE  /\ i > 1 => stack'[i].entry = stack'[i - 1].dir
             /\ \A e \in stack'[i].todo : Parent[e] = stack'[i].dir
             /\ stack'[i].entry \in Entries /\ Parent[stack'[i].entry] = stack'[i].dir
  <2>1. i > 1 => i - 1 \in DOMAIN stack' /\ (i - 1) + 1 = i /\ (i + 1) - 1 = i
    BY <1>3
  <2>2. i > 1 => stack'[i - 1] = stack[i]
    BY <1>4, <2>1
  <2>3. QED
    BY <1>1, <1>4, <2>1, <2>2 DEF Nested
<1>7. QED
  BY <1>1, <1>2, <1>5, <1>6 DEF Nested, InWalk, AtHand, Leaving, Ended, Exits

\* Whatever keeps the list keeps its room, unless it comes to where a path is copied.
LEMMA RoomKept ==
    ASSUME Room, UNCHANGED list, pc' \notin {"moved", "copy", "count"}
    PROVE  Room'
  BY DEF Room, list

LEMMA StepA == AInv /\ Next => AInv'
<1>1. SUFFICES ASSUME AInv, Next PROVE AInv'
  OBVIOUS
<1>2. Simple /\ stack \in Seq(Frame) /\ Nested /\ Room
  BY <1>1 DEF AInv
<1>3. CASE create_file_list \/ Publish
  <2>1. /\ UNCHANGED <<tree, opts, stack, list, next, items>> /\ fault' \in BOOLEAN
        /\ g_file_list' \in BOOLEAN /\ pc \in {"start", "publish"} /\ pc' \in {"publish", "open"}
    BY <1>2, <1>3 DEF create_file_list, Publish, calm, output, list, memory, Goto, Allocate, Simple
  <2>2. Simple'
    BY <1>2, <2>1 DEF Simple, tree, Places, Exits
  <2>3. Nested'
    <3>1. stack = <<>>
      BY <1>2, <2>1 DEF Nested, InWalk, AtHand, Leaving, Ended, Exits
    <3>2. QED
      BY <1>2, <2>1, <3>1, NestedKept DEF InWalk, AtHand, Leaving, Ended, Exits
  <2>4. Room'
    BY <1>2, <2>1, RoomKept
  <2>5. QED
    BY <1>2, <2>1, <2>2, <2>3, <2>4 DEF AInv
<1>4. CASE OpenDir
  <2>1. /\ UNCHANGED <<tree, opts, list, next, items, g_file_list, fault>> /\ pc' = "read"
    BY <1>4 DEF OpenDir, calm, output, list, Goto, Allocate
  <2>2. Simple'
    BY <1>2, <2>1 DEF Simple, tree, Places, Exits
  <2>3. QED
    BY <1>1, <1>2, <1>4, <2>1, <2>2, OpenDirNests, RoomKept DEF AInv
<1>5. CASE OpenFails
  <2>1. /\ UNCHANGED <<kind, changes, opts, stack, list, next, items, g_file_list, fault>>
        /\ disturbed' = TRUE /\ pc = "open" /\ pc' = IF stack = <<>> THEN "sort" ELSE "release"
    BY <1>5 DEF OpenFails, output, list, memory, Goto
  <2>2. Simple'
    BY <1>2, <2>1 DEF Simple, Places, Exits
  <2>3. Nested'
    BY <1>2, <2>1, NestedKept DEF InWalk, AtHand, Leaving, Ended, Exits
  <2>4. QED
    BY <1>2, <2>1, <2>2, <2>3, RoomKept DEF AInv
<1>6. CASE ReadEntry
  <2>1. /\ UNCHANGED <<tree, opts, list, next, items, g_file_list, fault>> /\ pc' = "match"
    BY <1>6 DEF ReadEntry, calm, output, list, Goto, Allocate
  <2>2. Simple'
    BY <1>2, <2>1 DEF Simple, tree, Places, Exits
  <2>3. QED
    BY <1>1, <1>2, <1>6, <2>1, <2>2, ReadEntryNests, RoomKept DEF AInv
<1>7. CASE CloseDir
  <2>1. /\ UNCHANGED <<tree, opts, list, next, items, g_file_list>> /\ fault' \in BOOLEAN
        /\ pc' \in {"sort", "release"}
    BY <1>2, <1>7 DEF CloseDir, closedir, calm, output, list, Goto, Free, Simple
  <2>2. Simple'
    BY <1>2, <2>1 DEF Simple, tree, Places, Exits
  <2>3. QED
    BY <1>1, <1>2, <1>7, <2>1, <2>2, CloseNests, RoomKept DEF AInv
<1>8. CASE match_type \/ Descend \/ Release
  <2>1. /\ UNCHANGED <<tree, opts, stack, list, next, items, g_file_list>> /\ fault' \in BOOLEAN
        /\ pc \in {"match", "descend", "release"} /\ pc' \in {"room", "descend", "open", "release", "read"}
        /\ pc' \in AtHand => pc \in AtHand
    BY <1>2, <1>8 DEF match_type, Descend, Release, FreePath, Free, calm, output, list, memory,
       Goto,
                      Simple, AtHand
  <2>2. Simple'
    BY <1>2, <2>1 DEF Simple, tree, Places, Exits
  <2>3. stack # <<>>
    BY <1>2, <2>1 DEF Nested, InWalk, AtHand
  <2>4. Nested'
    BY <1>2, <2>1, <2>3, NestedKept DEF InWalk, AtHand, Leaving, Ended, Exits
  <2>5. QED
    BY <1>2, <2>1, <2>2, <2>4, RoomKept DEF AInv
<1>9. CASE GrowList \/ StoreItems \/ HasRoom \/ CopyPath \/ CountUp
  <2>1. /\ UNCHANGED <<tree, opts, stack, next, g_file_list, fault>> /\ items' \in Nat
        /\ pc \in {"room", "moved", "copy", "count"} /\ pc' \in {"moved", "copy", "count", "descend"}
    <3>1. items + 1 \in Nat
      BY <1>2 DEF Simple
    <3>2. QED
      BY <1>2, <1>9, <3>1 DEF GrowList, StoreItems, HasRoom, CopyPath, CountUp, Allocate, calm,
         output,
                         list, memory, Goto, Simple
  <2>2. Simple'
    BY <1>2, <2>1 DEF Simple, tree, Places, Exits
  <2>3. stack # <<>>
    BY <1>2, <2>1 DEF Nested, InWalk, AtHand
  <2>4. Nested'
    BY <1>2, <2>1, <2>3, NestedKept DEF InWalk, AtHand, Leaving, Ended, Exits
  <2>5. Room'
    <3>1. CASE GrowList
      BY <1>2, <3>1 DEF GrowList, NeedsRoom, Room
    <3>2. CASE HasRoom
      BY <1>2, <3>2 DEF HasRoom, NeedsRoom, Room, list
    <3>3. CASE StoreItems \/ CopyPath
      BY <1>2, <3>3 DEF StoreItems, CopyPath, Goto, Room
    <3>4. CASE CountUp
      BY <1>2, <3>4 DEF CountUp, Goto, Room
    <3>5. QED
      BY <1>9, <3>1, <3>2, <3>3, <3>4
  <2>6. QED
    BY <1>2, <2>1, <2>2, <2>4, <2>5 DEF AInv
<1>10. CASE Sorting \/ QSortDone \/ NothingToSort \/ print_file_list \/ FreeNext
  <2>1. /\ UNCHANGED <<tree, opts, stack, size, capacity, items>> /\ g_file_list' \in BOOLEAN
        /\ next' \in Nat /\ fault' \in BOOLEAN
        /\ pc \in {"sort", "sorting", "print", "free"} /\ pc' \in {"sorting", "print", "free", "done"}
    <3>1. CASE FreeNext
      <4>1. next + 1 \in Nat
        BY <1>2 DEF Simple
      <4>2. fault' \in BOOLEAN
        BY <1>2, <3>1 DEF FreeNext, Free, memory, Simple
      <4>3. QED
        BY <1>2, <3>1, <4>1, <4>2 DEF FreeNext, list, Simple
    <3>2. CASE Sorting \/ QSortDone \/ NothingToSort \/ print_file_list
      BY <1>2, <3>2 DEF Sorting, QSortDone, NothingToSort, print_file_list, calm, output, list,
         memory,
                        Goto, Simple
    <3>3. QED
      BY <1>10, <3>1, <3>2
  <2>2. Simple'
    BY <1>2, <2>1 DEF Simple, tree, Places, Leaving, Ended, Exits
  <2>3. stack = <<>>
    BY <1>2, <2>1 DEF Nested, InWalk, AtHand, Leaving, Ended, Exits
  <2>4. Nested'
    BY <1>2, <2>1, <2>3, NestedKept DEF InWalk, AtHand, Leaving, Ended, Exits
  <2>5. Room'
    BY <1>2, <2>1 DEF Room
  <2>6. QED
    BY <1>2, <2>1, <2>2, <2>4, <2>5 DEF AInv
<1>11. CASE AllocationFails \/ Exit \/ sigint_handler
  <2>1. /\ UNCHANGED <<tree, opts, next>> /\ items' \in Nat /\ pc' \in Leaving
        /\ fault' \in BOOLEAN /\ g_file_list' \in BOOLEAN
    <3>1. /\ UNCHANGED <<tree, opts, next>> /\ items' \in {items, NULL} /\ pc' \in Leaving
          /\ g_file_list' \in {g_file_list, FALSE}
      BY <1>11 DEF AllocationFails, CreateFails, PathFails, ReallocFails, CopyFails, Exit,
         sigint_handler, calm, output, list, Goto, Leaving, Ended, Exits
    <3>2. fault' \in BOOLEAN
      BY <1>2, <1>11 DEF AllocationFails, CreateFails, PathFails, ReallocFails, CopyFails, Exit,
         sigint_handler, closedir, Allocate, Free, memory, Simple
    <3>3. items' \in Nat
      BY <1>2, <3>1 DEF Simple, NULL
    <3>4. g_file_list' \in BOOLEAN
      BY <1>2, <3>1, Zenon DEF Simple
    <3>5. QED
      BY <3>1, <3>2, <3>3, <3>4
  <2>2. Simple'
    BY <1>2, <2>1 DEF Simple, tree, Places, Leaving, Ended, Exits
  <2>3. stack' \in Seq(Frame) /\ Nested'
    <3>1. CASE PathFails
      BY <1>1, <3>1, CloseNests
    <3>2. CASE ~PathFails
      <4>1. stack' = stack
        BY <1>11, <3>2 DEF AllocationFails, CreateFails, ReallocFails, CopyFails, Exit,
           sigint_handler
      <4>2. QED
        BY <1>2, <2>1, <4>1, NestedKept DEF InWalk, AtHand, Leaving, Ended, Exits
    <3>3. QED
      BY <3>1, <3>2
  <2>4. Room'
    <3>1. size' = size /\ capacity' \in {capacity, capacity * 2}
      BY <1>11 DEF AllocationFails, CreateFails, PathFails, ReallocFails, CopyFails, Exit,
         sigint_handler, list
    <3>2. QED
      BY <1>2, <2>1, <3>1 DEF Room, Leaving, Ended, Exits
  <2>5. QED
    BY <2>2, <2>3, <2>4 DEF AInv
<1>12. CASE TreeChanges
  <2>1. /\ UNCHANGED <<opts, pc, stack, list, g_file_list, fault, next>> /\ disturbed' = TRUE
        /\ changes < MaxChanges /\ changes' = changes + 1
    BY <1>12 DEF TreeChanges, memory, output
  <2>2. kind' \in [Entries -> Kinds]
    <3>1. PICK e \in Entries, k \in Kinds :
            kind' = [x \in Entries |-> CASE x = e -> k
                                         [] e \in Above[x] -> "gone"
                                         [] OTHER -> kind[x]]
      BY <1>12 DEF TreeChanges
    <3>2. "gone" \in Kinds /\ \A x \in Entries : kind[x] \in Kinds
      BY <1>2 DEF Simple, Kinds
    <3>3. QED
      BY <3>1, <3>2
  <2>3. changes' \in 0..MaxChanges
    BY <1>2, <2>1, WalkAssumption DEF Simple
  <2>4. Simple'
    <3>1. disturbed' \in BOOLEAN /\ items' \in Nat /\ next' \in Nat
      BY <1>2, <2>1 DEF Simple, list
    <3>2. opts' \in Options /\ pc' \in Places /\ g_file_list' \in BOOLEAN /\ fault' \in BOOLEAN
      BY <1>2, <2>1 DEF Simple
    <3>3. QED
      BY <2>2, <2>3, <3>1, <3>2 DEF Simple
  <2>5. Nested' /\ Room'
    BY <1>2, <2>1 DEF Nested, Room, list
  <2>6. QED
    BY <1>2, <2>1, <2>4, <2>5 DEF AInv
<1>13. CASE Stop
  BY <1>2, <1>13 DEF Stop, vars, tree, list, AInv, Simple, Nested, Room
<1>14. QED
  BY <1>1, <1>3, <1>4, <1>5, <1>6, <1>7, <1>8, <1>9, <1>10, <1>11, <1>12, <1>13 DEF Next, Walk

-----------------------------------------------------------------------------
(* The rest of the invariant *)

Listed == {e \in Entries : String(e) \in heap}
Opened == {stack[i].dir : i \in DOMAIN stack}
Held   == {stack[i].entry : i \in {j \in DOMAIN stack : j > 1 \/ pc \in AtHand}}

Entered == {stack[i].entry : i \in DOMAIN stack}

\* The blocks of the list itself.
ListBlocks == {b \in {ListBlock} : pc # "start" /\ (pc = "free" => next <= size + 1)}
Block      == IF pc = "moved" THEN Items(items + 1) ELSE Items(items)
ItemBlocks == {b \in {Block} : pc # "start" /\ (pc = "free" => next <= size)}

Blocks(M, S, P, D) == M \cup {String(e) : e \in S} \cup {Path(e) : e \in P} \cup {Stream(d) : d \in D}

\* What is on the heap until the program ends: the list, the strings it names,
\* the paths at hand and the streams of the open directories.
HeapOK ==
    pc \notin Leaving =>
      /\ heap = Blocks(ListBlocks \cup ItemBlocks, Listed, Held, Opened) /\ ~fault
      /\ g_file_list <=> pc \notin {"start", "publish"}

\* Where the walk may still look below the entry at hand, and where it has
\* not listed it yet.
Ahead  == {"start", "publish", "open", "match", "room", "moved", "copy", "count", "descend"}
NotYet == {"match", "room", "moved", "copy"}

\* The cells in use name the strings, each once.
Alive == {i \in Used : pc = "free" => next <= i}
Cells == [0..MaxCells -> Entries \cup {Unset}]
Names ==
    /\ \A i \in Used : cells[i] \in Entries
    /\ \A i, j \in Used : cells[i] = cells[j] => i = j
    /\ Listed = {cells[i] : i \in Alive} \cup {e \in {Here} : pc = "count"}
CellsOK ==
    /\ cells \in Cells
    /\ pc \notin Leaving => size + (IF pc = "count" THEN 1 ELSE 0) <= Cardinality(Entries)
    /\ pc \notin Leaving \cup {"sorting"} => Names
    /\ pc = "count" => cells[size] = Here /\ \A i \in Used : cells[i] # Here
    /\ pc \in NotYet => Here \notin Listed
    /\ pc = "sorting" => Cardinality(Listed) = size /\ opts.sort
    /\ pc = "free" => next <= size + 2
    /\ pc \notin Leaving \cup {"free"} => next = 0

\* U is what the walk has not come to.
Frontier(U) ==
    /\ \A e \in Entries : Parent[e] \in U => e \in U
    /\ \A i \in DOMAIN stack : stack[i].todo \subseteq U /\ stack[i].dir \notin U
    /\ Listed \cap U = {}
    /\ pc \in AtHand => Here \notin U
    /\ pc \in Ahead => \A e \in Entries : Parent[e] = Here => e \in U

\* Until something changes, the walk will come by all that is in U and has
\* listed what it came by and was to list.
Covered(U) ==
    /\ \A e \in U : \/ kind[e] = "gone" \/ Parent[e] \in U
                    \/ \E i \in DOMAIN stack : e \in stack[i].todo
                    \/ pc \in Ahead /\ Parent[e] = Here
    /\ \A e \in Entries \ U : \/ pc \in NotYet /\ e = Here
                              \/ Wanted(kind[e]) <=> e \in Listed
    /\ pc \in NotYet \ {"match"} => Wanted(kind[Here])
    /\ kind = FirstKind

WalkOK ==
    pc \in InWalk \cup {"start", "publish"} =>
      \E U \in SUBSET Entries : Frontier(U) /\ (~disturbed => Covered(U))

BInv == AInv /\ HeapOK /\ CellsOK /\ WalkOK

-----------------------------------------------------------------------------
(* The blocks, by their purpose *)

\* What create_file_list and realloc allocate.
Own == {ListBlock} \cup {Items(v) : v \in Nat}

\* Blocks for different purposes are different, and so are those of different entries.
LEMMA Apart ==
    /\ \A b \in Own : \A e : b # String(e) /\ b # Path(e) /\ b # Stream(e)
    /\ \A e, f : String(e) # Path(f) /\ String(e) # Stream(f) /\ Path(e) # Stream(f)
    /\ \A e, f : /\ String(e) = String(f) => e = f
                 /\ Path(e) = Path(f) => e = f
                 /\ Stream(e) = Stream(f) => e = f
<1>1. \A b \in Own : \A e : b # String(e) /\ b # Path(e) /\ b # Stream(e)
  BY DEF Own, ListBlock, Items, String, Path, Stream
<1>2. \A e, f : String(e) # Path(f) /\ String(e) # Stream(f) /\ Path(e) # Stream(f)
  BY DEF String, Path, Stream
<1>3. \A e, f : /\ String(e) = String(f) => e = f
                /\ Path(e) = Path(f) => e = f
                /\ Stream(e) = Stream(f) => e = f
  BY DEF String, Path, Stream
<1>4. QED
  BY <1>1, <1>2, <1>3

LEMMA ByPurpose ==
    ASSUME NEW M \in SUBSET Own, NEW S, NEW P, NEW D
    PROVE  /\ \A e : String(e) \in Blocks(M, S, P, D) <=> e \in S
           /\ \A e : Path(e) \in Blocks(M, S, P, D) <=> e \in P
           /\ \A d : Stream(d) \in Blocks(M, S, P, D) <=> d \in D
           /\ \A b \in Own : b \in Blocks(M, S, P, D) <=> b \in M
  BY Apart DEF Blocks

LEMMA OwnBlocks ==
    Simple => /\ ListBlock \in Own /\ Items(items) \in Own /\ Items(items + 1) \in Own
              /\ Block \in Own /\ ListBlocks \cup ItemBlocks \in SUBSET Own
              /\ Items(items) # Items(items + 1)
              /\ ListBlock # Items(items) /\ ListBlock # Items(items + 1)
<1>1. SUFFICES ASSUME Simple
      PROVE  /\ ListBlock \in Own /\ Items(items) \in Own /\ Items(items + 1) \in Own
             /\ Block \in Own /\ ListBlocks \cup ItemBlocks \in SUBSET Own
             /\ Items(items) # Items(items + 1)
             /\ ListBlock # Items(items) /\ ListBlock # Items(items + 1)
  OBVIOUS
<1>2. items \in Nat /\ items + 1 \in Nat /\ items # items + 1
  BY <1>1 DEF Simple
<1>3. ListBlock \in Own /\ Items(items) \in Own /\ Items(items + 1) \in Own
  BY <1>2 DEF Own
<1>4. Items(items) # Items(items + 1) /\ ListBlock # Items(items) /\ ListBlock # Items(items + 1)
  BY <1>2 DEF Items, ListBlock
<1>5. Block \in Own
  BY <1>3 DEF Block
<1>6. QED
  BY <1>3, <1>4, <1>5 DEF ListBlocks, ItemBlocks

\* The strings are those that stand in the heap for them.
LEMMA ListedIs ==
    ASSUME NEW M \in SUBSET Own, NEW S \in SUBSET Entries, NEW P, NEW D,
           heap' = Blocks(M, S, P, D)
    PROVE  Listed' = S
<1>1. \A e : String(e) \in heap' <=> e \in S
  BY ByPurpose
<1>2. QED
  BY <1>1 DEF Listed

-----------------------------------------------------------------------------
(* The paths at hand and the streams, step by step *)

LEMMA HeldKept ==
    ASSUME stack' = stack, pc \in AtHand <=> pc' \in AtHand
    PROVE  Held' = Held /\ Opened' = Opened
  BY DEF Held, Opened

LEMMA OpenDirHolds ==
    ASSUME AInv, OpenDir
    PROVE  Held' = Held /\ Opened' = Opened \cup {Here} /\ Here \notin Opened
<1> DEFINE f == [dir |-> Here, todo |-> Contents(Here), entry |-> Root]
<1>1. OpensHere /\ stack \in Seq(Frame) /\ Nested
  BY OpenDirOpens DEF AInv
<1>4. stack'[1] = f /\ pc = "open" /\ pc' = "read" /\ Here \in Entries \cup {Root}
  BY <1>1 DEF OpensHere
<1>5. f.dir = Here
  OBVIOUS
<1> HIDE DEF f
<1>6. DOMAIN stack = 1..Len(stack) /\ DOMAIN stack' = 1..Len(stack) + 1 /\ Len(stack) \in Nat
  BY <1>1 DEF OpensHere
<1>7. \A i \in DOMAIN stack' : i # 1 => i - 1 \in DOMAIN stack /\ stack'[i] = stack[i - 1] /\ i > 1
  BY <1>1 DEF OpensHere
<1>8. \A i \in DOMAIN stack : i + 1 \in DOMAIN stack' /\ i + 1 > 1 /\ stack'[i + 1] = stack[i]
  BY <1>1 DEF OpensHere
<1>9. 1 \in DOMAIN stack' /\ ~(1 > 1)
  BY <1>6
<1>10. pc \in AtHand /\ pc' \notin AtHand
  BY <1>4 DEF AtHand
<1>11. Held' = Held
  <2>1. Held = {stack[i].entry : i \in DOMAIN stack}
    BY <1>10 DEF Held
  <2>2. Held' = {stack'[i].entry : i \in {j \in DOMAIN stack' : j > 1}}
    BY <1>10 DEF Held
  <2>3. QED
    BY <2>1, <2>2, <1>7, <1>8, <1>9
<1>12. Opened' = Opened \cup {Here}
  <2>1. \A x \in Opened' : x \in Opened \cup {Here}
    BY <1>4, <1>5, <1>7 DEF Opened
  <2>2. \A i \in DOMAIN stack : stack[i].dir \in Opened'
    BY <1>8 DEF Opened
  <2>3. Here \in Opened'
    BY <1>4, <1>5, <1>9 DEF Opened
  <2>4. QED
    BY <2>1, <2>2, <2>3 DEF Opened
<1>13. \A i \in DOMAIN stack : stack[i].dir # Here
  <2>1. SUFFICES ASSUME NEW i \in DOMAIN stack PROVE stack[i].dir # Here
    OBVIOUS
  <2>2. /\ 1 \in DOMAIN stack' /\ i + 1 \in DOMAIN stack' /\ 1 < i + 1
        /\ stack'[i + 1] = stack[i] /\ stack'[1].dir = Here
    BY <1>4, <1>5, <1>6, <1>8, <1>9
  <2>3. stack[i].dir < Here
    BY <2>2, OpenDirNests DEF Nested
  <2>4. Here \in Nat /\ stack[i].dir \in Nat
    <3>1. stack[i] \in Frame
      BY <1>1, <2>1, StackFacts
    <3>2. Entries \cup {Root} \subseteq Nat
      BY TreeFacts DEF Root
    <3>3. QED
      BY <1>4, <3>1, <3>2 DEF Frame
  <2>5. QED
    BY <2>3, <2>4
<1>14. QED
  BY <1>11, <1>12, <1>13 DEF Opened

LEMMA ReadEntryHolds ==
    ASSUME AInv, ReadEntry
    PROVE  \E e \in Entries : ReadsThere(e) /\ Held' = Held \cup {e} /\ Opened' = Opened
<1>1. pc = "read" /\ pc' = "match" /\ stack \in Seq(Frame)
  BY DEF ReadEntry, Goto, AInv
<1>2. PICK e \in Entries : ReadsThere(e)
  BY ReadEntryReads
<1> DEFINE f == [dir |-> stack[1].dir, todo |-> stack[1].todo \ {e}, entry |-> e]
<1>3. f.dir = stack[1].dir /\ f.entry = e
  OBVIOUS
<1>4. /\ DOMAIN stack' = DOMAIN stack /\ 1 \in DOMAIN stack
      /\ stack'[1] = f /\ \A i \in DOMAIN stack : i # 1 => stack'[i] = stack[i]
  BY <1>2 DEF ReadsThere
<1> HIDE DEF f
<1>5. pc \notin AtHand /\ pc' \in AtHand
  BY <1>1 DEF AtHand
<1>6. Held' = Held \cup {e}
  <2>1. Held = {stack[i].entry : i \in {j \in DOMAIN stack : j > 1}}
    BY <1>5 DEF Held
  <2>2. Held' = {stack'[i].entry : i \in DOMAIN stack'}
    BY <1>5 DEF Held
  <2>3. \A i \in DOMAIN stack : i # 1 => i > 1
    BY <1>1, StackFacts
  <2>4. ~(1 > 1)
    OBVIOUS
  <2>5. QED
    BY <2>1, <2>2, <2>3, <2>4, <1>3, <1>4
<1>7. Opened' = Opened
  BY <1>3, <1>4 DEF Opened
<1>8. QED
  BY <1>2, <1>6, <1>7

\* The innermost directory is closed, whether it was read to its end or not.
LEMMA CloseHolds ==
    ASSUME AInv, CloseDir \/ PathFails
    PROVE  /\ Entered' = Held /\ Opened' = Opened \ {Head(stack).dir} /\ Head(stack).dir \in Opened
           /\ pc = "read"
           /\ stack' # <<>> => Here' = Head(stack).dir
<1>1. /\ pc = "read" /\ stack \in Seq(Frame) /\ Nested /\ stack # <<>> /\ stack' = Tail(stack)
  BY DEF CloseDir, PathFails, closedir, Goto, AInv, Nested, InWalk, AtHand
<1>2. /\ stack' \in Seq(Frame) /\ Len(stack') = Len(stack) - 1 /\ Len(stack) \in Nat \ {0}
      /\ Head(stack) = stack[1] /\ \A i \in 1..Len(stack) - 1 : stack'[i] = stack[i + 1]
  BY <1>1, Popped
<1>3. DOMAIN stack = 1..Len(stack) /\ DOMAIN stack' = 1..Len(stack) - 1 /\ 1 \in DOMAIN stack
  BY <1>1, <1>2, LenProperties
<1>4. \A i \in DOMAIN stack' : i + 1 \in DOMAIN stack /\ i + 1 > 1 /\ stack'[i] = stack[i + 1]
  BY <1>2, <1>3
<1>5. \A i \in DOMAIN stack : i # 1 => /\ i > 1 /\ 1 < i /\ i - 1 \in DOMAIN stack'
                                       /\ stack'[i - 1] = stack[i]
  <2>1. SUFFICES ASSUME NEW i \in DOMAIN stack, i # 1
                 PROVE  i > 1 /\ 1 < i /\ i - 1 \in DOMAIN stack' /\ stack'[i - 1] = stack[i]
    OBVIOUS
  <2>2. i > 1 /\ 1 < i /\ i - 1 \in 1..Len(stack) - 1 /\ (i - 1) + 1 = i
    BY <1>2, <1>3, <2>1
  <2>3. QED
    BY <1>2, <1>3, <2>2
<1>6. Held = {stack[i].entry : i \in {j \in DOMAIN stack : j > 1}}
  BY <1>1 DEF Held, AtHand
<1>9. Entered' = Held
  <2>1. \A i \in DOMAIN stack : i > 1 => i # 1
    BY <1>3
  <2>2. QED
    BY <1>4, <1>5, <1>6, <2>1 DEF Entered
<1>10. \A i \in DOMAIN stack : i # 1 => stack[i].dir # stack[1].dir
  <2>1. SUFFICES ASSUME NEW i \in DOMAIN stack, i # 1 PROVE stack[i].dir # stack[1].dir
    OBVIOUS
  <2>2. stack[i].dir < stack[1].dir
    BY <1>1, <1>3, <1>5, <2>1 DEF Nested
  <2>3. stack[i].dir \in Nat /\ stack[1].dir \in Nat
    <3>1. stack[i] \in Frame /\ stack[1] \in Frame
      BY <1>1, <1>3, <2>1, StackFacts
    <3>2. Entries \cup {Root} \subseteq Nat
      BY TreeFacts DEF Root
    <3>3. QED
      BY <3>1, <3>2 DEF Frame
  <2>4. QED
    BY <2>2, <2>3
<1>11. Opened' = Opened \ {stack[1].dir}
  <2>1. \A i \in DOMAIN stack' : stack'[i].dir \in Opened /\ stack'[i].dir # stack[1].dir
    <3>1. SUFFICES ASSUME NEW i \in DOMAIN stack'
                   PROVE  stack'[i].dir \in Opened /\ stack'[i].dir # stack[1].dir
      OBVIOUS
    <3>2. i + 1 \in DOMAIN stack /\ stack'[i] = stack[i + 1] /\ i + 1 # 1
      BY <1>3, <1>4
    <3>3. QED
      BY <1>10, <3>2 DEF Opened
  <2>2. \A i \in DOMAIN stack : stack[i].dir # stack[1].dir => stack[i].dir \in Opened'
    <3>1. SUFFICES ASSUME NEW i \in DOMAIN stack, stack[i].dir # stack[1].dir
                   PROVE  stack[i].dir \in Opened'
      OBVIOUS
    <3>2. i # 1
      BY <3>1
    <3>3. i - 1 \in DOMAIN stack' /\ stack'[i - 1] = stack[i]
      BY <1>5, <3>2
    <3>4. QED
      BY <3>3 DEF Opened
  <2>3. QED
    BY <2>1, <2>2 DEF Opened
<1>12. stack' # <<>> => Here' = stack[1].dir
  <2>1. SUFFICES ASSUME stack' # <<>> PROVE Here' = stack[1].dir
    OBVIOUS
  <2>2. Head(stack') = stack'[1] /\ Len(stack') \in Nat \ {0}
    BY <1>2, <2>1, Popped
  <2>3. 1 \in DOMAIN stack' /\ 2 \in DOMAIN stack /\ stack'[1] = stack[2]
    <3>1. 1 \in DOMAIN stack' /\ 1 + 1 = 2
      BY <1>2, <1>3, <2>2
    <3>2. QED
      BY <1>4, <3>1
  <2>4. stack[2].entry = stack[1].dir
    <3>1. 2 > 1 /\ 2 - 1 = 1
      OBVIOUS
    <3>2. QED
      BY <1>1, <2>3, <3>1 DEF Nested
  <2>5. QED
    BY <2>1, <2>2, <2>3, <2>4 DEF Here
<1>13. QED
  BY <1>1, <1>2, <1>3, <1>9, <1>11, <1>12 DEF Opened

LEMMA CloseDirHolds ==
    ASSUME AInv, CloseDir
    PROVE  /\ Held' = Held /\ Opened' = Opened \ {Head(stack).dir} /\ Head(stack).dir \in Opened
           /\ pc = "read" /\ pc' \in {"sort", "release"}
           /\ pc' = "release" => stack' # <<>> /\ Here' = Head(stack).dir
<1>1. stack' = Tail(stack) /\ pc' = IF Tail(stack) = <<>> THEN "sort" ELSE "release"
  BY DEF CloseDir, closedir, Goto
<1>2. pc' = "release" \/ DOMAIN stack' = {}
  BY <1>1
<1>3. Held' = Entered'
  BY <1>2 DEF Held, Entered, AtHand
<1>4. QED
  BY <1>1, <1>3, CloseHolds

LEMMA ReleaseHolds ==
    ASSUME AInv, Release
    PROVE  /\ Held' = Held \ {Here} /\ Opened' = Opened /\ Here \in Held
           /\ pc = "release" /\ pc' = "read" /\ stack' = stack
<1>1. /\ pc = "release" /\ pc' = "read" /\ stack' = stack
      /\ stack \in Seq(Frame) /\ Nested /\ stack # <<>>
  BY DEF Release, Goto, AInv, Nested, InWalk, AtHand
<1>2. /\ DOMAIN stack = 1..Len(stack) /\ Len(stack) \in Nat /\ 1 \in DOMAIN stack
      /\ Here = stack[1].entry /\ \A i \in DOMAIN stack : stack[i] \in Frame
  BY <1>1, StackFacts
<1>3. Held = {stack[i].entry : i \in DOMAIN stack}
  BY <1>1 DEF Held, AtHand
<1>4. Held' = {stack[i].entry : i \in {j \in DOMAIN stack : j > 1}}
  BY <1>1 DEF Held, AtHand
<1>5. \A i \in DOMAIN stack : i > 1 => stack[i].entry # Here
  <2>1. SUFFICES ASSUME NEW i \in DOMAIN stack, i > 1 PROVE stack[i].entry # Here
    OBVIOUS
  <2>2. i - 1 \in DOMAIN stack /\ (i - 1 = 1 \/ 1 < i - 1)
    BY <1>2, <2>1
  <2>3. stack[i].entry = stack[i - 1].dir
    BY <1>1, <2>1 DEF Nested
  <2>4. i - 1 = 1 \/ stack[i - 1].dir < stack[1].dir
    BY <1>1, <1>2, <2>2 DEF Nested
  <2>5. Here \in Entries /\ Parent[Here] = stack[1].dir
    BY <1>1, <1>2 DEF Nested, AtHand
  <2>6. stack[1].dir < Here
    BY <2>5, TreeFacts
  <2>7. Here \in Nat /\ stack[1].dir \in Nat /\ stack[i - 1].dir \in Nat
    <3>1. stack[i - 1] \in Frame /\ stack[1] \in Frame
      BY <1>2, <2>2
    <3>2. Entries \cup {Root} \subseteq Nat
      BY TreeFacts DEF Root
    <3>3. QED
      BY <2>5, <3>1, <3>2 DEF Frame
  <2>8. CASE i - 1 = 1
    BY <2>3, <2>6, <2>7, <2>8
  <2>9. CASE stack[i - 1].dir < stack[1].dir
    BY <2>3, <2>6, <2>7, <2>9
  <2>10. QED
    BY <2>4, <2>8, <2>9
<1>6. \A i \in DOMAIN stack : i > 1 \/ i = 1
  BY <1>2
<1>7. Held' = Held \ {Here}
  BY <1>2, <1>3, <1>4, <1>5, <1>6
<1>8. QED
  BY <1>1, <1>2, <1>3, <1>7 DEF Opened

-----------------------------------------------------------------------------
(* The heap *)

\* The strings after a step.
NextListed ==
    IF pc = "copy" /\ pc' = "count" THEN Listed \cup {Here}
    ELSE IF pc = "free" /\ next' # next /\ next \in Used THEN Listed \ {cells[next]} ELSE Listed

HeapFollows == HeapOK' /\ Listed' = NextListed

\* What a failed allocation, exit and the handler have in common.
LEMMA Leaves == AllocationFails \/ Exit \/ sigint_handler \/ Stop => pc' \in Leaving
  BY DEF AllocationFails, CreateFails, PathFails, ReallocFails, CopyFails, Exit, sigint_handler,
     Stop, vars, Goto, Leaving, Ended, Exits

LEMMA Running == Next /\ pc' \notin Leaving => pc \notin Leaving
  BY DEF Next, Walk, create_file_list, Publish, OpenDir, OpenFails, ReadEntry, CloseDir, closedir,
     match_type, Descend,
         Release, GrowList, StoreItems, HasRoom, CopyPath, CountUp, Sorting, QSortDone,
         NothingToSort,
         print_file_list, FreeNext, AllocationFails, CreateFails, PathFails, ReallocFails,
       CopyFails, Exit, sigint_handler, TreeChanges, Stop, Goto,
         Leaving, Ended, Exits, vars

LEMMA HeapBecomes ==
    ASSUME NEW S \in SUBSET Entries
    PROVE  /\ Simple' /\ S = NextListed
           /\ heap' = Blocks(ListBlocks' \cup ItemBlocks', S, Held', Opened')
           /\ ~fault' /\ (g_file_list' <=> pc' \notin {"start", "publish"})
           => HeapFollows
<1>0. SUFFICES ASSUME /\ Simple' /\ S = NextListed
                      /\ heap' = Blocks(ListBlocks' \cup ItemBlocks', S, Held', Opened')
                      /\ ~fault' /\ (g_file_list' <=> pc' \notin {"start", "publish"})
               PROVE  HeapFollows
  OBVIOUS
<1>1. Simple' => items' \in Nat /\ items' + 1 \in Nat
  <2>1. Simple' => items' \in Nat
    BY DEF Simple
  <2>2. \A v \in Nat : v + 1 \in Nat
    OBVIOUS
  <2>3. QED
    BY <2>1, <2>2
<1>2. Block' \in Own /\ ListBlock \in Own
  BY <1>0, <1>1 DEF Block, Own
<1>3. ListBlocks' \cup ItemBlocks' \in SUBSET Own
  BY <1>2 DEF ListBlocks, ItemBlocks
<1>4. Listed' = S
  BY <1>0, <1>3, ListedIs
<1>5. QED
  BY <1>0, <1>4 DEF HeapFollows, HeapOK

LEMMA HeapKept ==
    ASSUME HeapOK, Simple', pc \notin Leaving, pc' \notin Leaving,
           heap' = heap, fault' = fault, g_file_list' = g_file_list, items' = items,
           pc \notin {"start", "publish", "moved", "free", "copy"},
           pc' \notin {"start", "publish", "moved", "free"},
           Held' = Held, Opened' = Opened
    PROVE  HeapFollows
<1>1. ListBlocks' \cup ItemBlocks' = ListBlocks \cup ItemBlocks
  BY DEF ListBlocks, ItemBlocks, Block
<1>2. Listed \in SUBSET Entries /\ NextListed = Listed
  BY DEF Listed, NextListed
<1>3. QED
  BY <1>1, <1>2, HeapBecomes DEF HeapOK

LEMMA HeapAtStart ==
    ASSUME BInv, create_file_list \/ Publish, Simple'
    PROVE  HeapFollows
<1>1. /\ pc \in {"start", "publish"} /\ pc' \in {"publish", "open"} /\ UNCHANGED <<stack, items>>
      /\ fault' = fault /\ Simple /\ Nested /\ HeapOK
  BY DEF create_file_list, Publish, Goto, Allocate, memory, list, BInv, AInv
<1>2. stack = <<>> /\ stack' = <<>>
  BY <1>1 DEF Nested, InWalk, AtHand, Leaving, Ended, Exits
<1>3. Held = {} /\ Opened = {} /\ Held' = {} /\ Opened' = {}
  BY <1>2 DEF Held, Opened
<1>4. /\ heap = Blocks(ListBlocks \cup ItemBlocks, Listed, {}, {}) /\ ~fault /\ ~g_file_list
      /\ Listed \in SUBSET Entries /\ NextListed = Listed
  BY <1>1, <1>3 DEF HeapOK, Listed, NextListed, Leaving, Ended, Exits
<1>5. ListBlocks' \cup ItemBlocks' = {ListBlock, Items(items)}
  BY <1>1 DEF ListBlocks, ItemBlocks, Block
<1>6. CASE create_file_list
  <2>1. /\ heap' = heap \cup {ListBlock, Items(items)} /\ pc = "start" /\ pc' = "publish"
        /\ g_file_list' = g_file_list
    BY <1>6 DEF create_file_list, Allocate, Goto, calm
  <2>2. ListBlocks \cup ItemBlocks = {}
    BY <2>1 DEF ListBlocks, ItemBlocks
  <2>3. heap' = Blocks({ListBlock, Items(items)}, Listed, {}, {})
    BY <1>4, <2>1, <2>2 DEF Blocks
  <2>4. QED
    BY <1>1, <1>3, <1>4, <1>5, <2>1, <2>3, HeapBecomes
<1>7. CASE Publish
  <2>1. heap' = heap /\ pc = "publish" /\ pc' = "open" /\ g_file_list' = TRUE
    BY <1>7 DEF Publish, Goto, memory
  <2>2. ListBlocks \cup ItemBlocks = {ListBlock, Items(items)}
    BY <2>1 DEF ListBlocks, ItemBlocks, Block
  <2>3. QED
    BY <1>1, <1>3, <1>4, <1>5, <2>1, <2>2, HeapBecomes
<1>8. QED
  BY <1>6, <1>7

LEMMA HeapInDirs ==
    ASSUME BInv, OpenDir \/ OpenFails \/ ReadEntry \/ CloseDir, Simple'
    PROVE  HeapFollows
<1>1. /\ pc \in {"open", "read"} /\ pc' \in {"read", "sort", "release", "match"}
      /\ UNCHANGED <<items, g_file_list>> /\ Simple /\ AInv /\ HeapOK
  BY DEF OpenDir, OpenFails, ReadEntry, CloseDir, closedir, Goto, list, calm, BInv, AInv
<1>2. pc \notin Leaving /\ pc' \notin Leaving
  BY <1>1 DEF Leaving, Ended, Exits
<1>3. ListBlocks' \cup ItemBlocks' = ListBlocks \cup ItemBlocks
  BY <1>1 DEF ListBlocks, ItemBlocks, Block
<1>4. /\ Listed \in SUBSET Entries /\ NextListed = Listed
      /\ heap = Blocks(ListBlocks \cup ItemBlocks, Listed, Held, Opened) /\ ~fault /\ g_file_list
  BY <1>1, <1>2 DEF Listed, NextListed, HeapOK
<1>5. ListBlocks \cup ItemBlocks \in SUBSET Own
  BY <1>1, OwnBlocks
<1> DEFINE M == ListBlocks \cup ItemBlocks
<1> HIDE DEF M
<1>6. CASE OpenDir
  <2>1. heap' = heap \cup {Stream(Here)} /\ fault' = fault
    BY <1>6 DEF OpenDir, Allocate
  <2>2. Held' = Held /\ Opened' = Opened \cup {Here}
    BY <1>1, <1>6, OpenDirHolds
  <2>3. Blocks(M, Listed, Held, Opened) \cup {Stream(Here)} = Blocks(M, Listed, Held, Opened \cup {Here})
    BY DEF Blocks
  <2>4. heap' = Blocks(ListBlocks \cup ItemBlocks, Listed, Held', Opened')
    BY <1>4, <2>1, <2>2, <2>3 DEF M
  <2>5. QED
    BY <1>1, <1>3, <1>4, <2>1, <2>4, HeapBecomes
<1>7. CASE OpenFails
  <2>1. /\ heap' = heap /\ fault' = fault /\ stack' = stack /\ pc = "open"
        /\ pc' = IF stack = <<>> THEN "sort" ELSE "release"
    BY <1>7 DEF OpenFails, memory, Goto
  <2>2. Held' = Held /\ Opened' = Opened
    <3>1. CASE stack = <<>>
      BY <2>1, <3>1 DEF Held, Opened
    <3>2. CASE stack # <<>>
      BY <2>1, <3>2, HeldKept DEF AtHand
    <3>3. QED
      BY <3>1, <3>2
  <2>3. QED
    BY <1>1, <1>3, <1>4, <2>1, <2>2, HeapBecomes
<1>8. CASE ReadEntry
  <2>1. PICK e \in Entries : ReadsThere(e) /\ Held' = Held \cup {e} /\ Opened' = Opened
    BY <1>1, <1>8, ReadEntryHolds
  <2>2. heap' = heap \cup {Path(e)} /\ fault' = fault
    BY <1>8, <2>1 DEF ReadsThere, ReadEntry, Allocate
  <2>3. Blocks(M, Listed, Held, Opened) \cup {Path(e)} = Blocks(M, Listed, Held \cup {e}, Opened)
    BY DEF Blocks
  <2>4. heap' = Blocks(ListBlocks \cup ItemBlocks, Listed, Held', Opened')
    BY <1>4, <2>1, <2>2, <2>3 DEF M
  <2>5. QED
    BY <1>1, <1>3, <1>4, <2>2, <2>4, HeapBecomes
<1>9. CASE CloseDir
  <2>1. /\ heap' = heap \ {Stream(Head(stack).dir)}
        /\ fault' = (fault \/ ~({Stream(Head(stack).dir)} \subseteq heap))
    BY <1>9 DEF CloseDir, closedir, Free
  <2>2. Held' = Held /\ Opened' = Opened \ {Head(stack).dir} /\ Head(stack).dir \in Opened
    BY <1>1, <1>9, CloseDirHolds
  <2>3. Stream(Head(stack).dir) \in heap
    BY <1>4, <1>5, <2>2, ByPurpose
  <2>4. M \in SUBSET Own
    BY <1>5 DEF M
  <2>5. Blocks(M, Listed, Held, Opened) \ {Stream(Head(stack).dir)}
          = Blocks(M, Listed, Held, Opened \ {Head(stack).dir})
    BY <2>4, Apart DEF Blocks
  <2>6. heap' = Blocks(ListBlocks \cup ItemBlocks, Listed, Held', Opened')
    BY <1>4, <2>1, <2>2, <2>5 DEF M
  <2>7. QED
    BY <1>1, <1>3, <1>4, <2>1, <2>3, <2>6, HeapBecomes
<1>10. QED
  BY <1>6, <1>7, <1>8, <1>9

LEMMA HeapAtEntry ==
    ASSUME BInv, match_type \/ Descend \/ HasRoom \/ CountUp \/ Release \/ GrowList \/ StoreItems \/ CopyPath,
           Simple'
    PROVE  HeapFollows
<1>1. /\ pc \in {"match", "descend", "room", "count", "release", "moved", "copy"}
      /\ pc' \in {"room", "descend", "open", "release", "copy", "read", "moved", "count"}
      /\ UNCHANGED <<stack, g_file_list>> /\ Simple /\ AInv /\ HeapOK
  BY DEF match_type, Descend, HasRoom, CountUp, Release, GrowList, StoreItems, CopyPath, Goto,
     calm, BInv, AInv
<1>2. pc \notin Leaving /\ pc' \notin Leaving
  BY <1>1 DEF Leaving, Ended, Exits
<1>3. /\ Listed \in SUBSET Entries /\ ListBlocks \cup ItemBlocks \in SUBSET Own
      /\ heap = Blocks(ListBlocks \cup ItemBlocks, Listed, Held, Opened) /\ ~fault /\ g_file_list
  BY <1>1, <1>2, OwnBlocks DEF Listed, HeapOK
<1>4. CASE match_type \/ Descend \/ HasRoom \/ CountUp
  <2>1. /\ heap' = heap /\ fault' = fault /\ items' = items
        /\ pc \in {"match", "descend", "room", "count"}
        /\ pc' \in {"room", "descend", "open", "release", "copy"}
    BY <1>4 DEF match_type, Descend, HasRoom, CountUp, memory, list, Goto
  <2>2. Held' = Held /\ Opened' = Opened
    BY <1>1, <2>1, HeldKept DEF AtHand
  <2>3. QED
    BY <1>1, <1>2, <2>1, <2>2, HeapKept
<1>5. CASE Release
  <2>1. /\ heap' = heap \ {Path(Here)} /\ fault' = (fault \/ ~({Path(Here)} \subseteq heap)) /\ items' = items
        /\ pc = "release" /\ pc' = "read"
    BY <1>5 DEF Release, FreePath, Free, list, Goto
  <2>2. Held' = Held \ {Here} /\ Opened' = Opened /\ Here \in Held
    BY <1>1, <1>5, ReleaseHolds
  <2>3. Path(Here) \in heap
    BY <1>3, <2>2, ByPurpose
  <2>4. ListBlocks' \cup ItemBlocks' = ListBlocks \cup ItemBlocks /\ NextListed = Listed
    BY <2>1 DEF ListBlocks, ItemBlocks, Block, NextListed
  <2> DEFINE M == ListBlocks \cup ItemBlocks
  <2>5. M \in SUBSET Own /\ heap = Blocks(M, Listed, Held, Opened)
    BY <1>3
  <2> HIDE DEF M
  <2>6. Blocks(M, Listed, Held, Opened) \ {Path(Here)} = Blocks(M, Listed, Held \ {Here}, Opened)
    BY <2>5, Apart DEF Blocks
  <2>7. heap' = Blocks(ListBlocks' \cup ItemBlocks', Listed, Held', Opened')
    BY <2>1, <2>2, <2>4, <2>5, <2>6 DEF M
  <2>8. QED
    BY <1>1, <1>3, <2>1, <2>3, <2>4, <2>7, HeapBecomes
<1>6. CASE GrowList
  <2>1. /\ heap' = (heap \ {Items(items)}) \cup {Items(items + 1)} /\ fault' = fault /\ items' = items
        /\ pc = "room" /\ pc' = "moved"
    BY <1>6 DEF GrowList, Goto
  <2>2. Held' = Held /\ Opened' = Opened
    BY <1>1, <2>1, HeldKept DEF AtHand
  <2>3. /\ ListBlocks \cup ItemBlocks = {ListBlock, Items(items)}
        /\ ListBlocks' \cup ItemBlocks' = {ListBlock, Items(items + 1)} /\ NextListed = Listed
    BY <2>1 DEF ListBlocks, ItemBlocks, Block, NextListed
  <2>4. /\ ListBlock \in Own /\ Items(items) \in Own /\ Items(items + 1) \in Own
        /\ Items(items) # Items(items + 1) /\ ListBlock # Items(items)
    BY <1>1, OwnBlocks
  <2>5. (Blocks({ListBlock, Items(items)}, Listed, Held, Opened) \ {Items(items)}) \cup {Items(items + 1)}
          = Blocks({ListBlock, Items(items + 1)}, Listed, Held, Opened)
    BY <2>4, Apart DEF Blocks
  <2>6. heap' = Blocks(ListBlocks' \cup ItemBlocks', Listed, Held', Opened')
    BY <1>3, <2>1, <2>2, <2>3, <2>5
  <2>7. QED
    BY <1>1, <1>3, <2>1, <2>3, <2>6, HeapBecomes
<1>7. CASE StoreItems
  <2>1. heap' = heap /\ fault' = fault /\ items' = items + 1 /\ pc = "moved" /\ pc' = "copy"
    BY <1>7 DEF StoreItems, Goto, memory
  <2>2. Held' = Held /\ Opened' = Opened
    BY <1>1, <2>1, HeldKept DEF AtHand
  <2>3. ListBlocks' \cup ItemBlocks' = ListBlocks \cup ItemBlocks /\ NextListed = Listed
    BY <2>1 DEF ListBlocks, ItemBlocks, Block, NextListed
  <2>4. QED
    BY <1>1, <1>3, <2>1, <2>2, <2>3, HeapBecomes
<1>8. CASE CopyPath
  <2>1. heap' = heap \cup {String(Here)} /\ fault' = fault /\ items' = items /\ pc = "copy" /\ pc' = "count"
    BY <1>8 DEF CopyPath, Allocate, Goto
  <2>2. Held' = Held /\ Opened' = Opened
    BY <1>1, <2>1, HeldKept DEF AtHand
  <2>3. ListBlocks' \cup ItemBlocks' = ListBlocks \cup ItemBlocks /\ NextListed = Listed \cup {Here}
    BY <2>1 DEF ListBlocks, ItemBlocks, Block, NextListed
  <2>4. Listed \cup {Here} \in SUBSET Entries
    <3>1. stack # <<>> /\ stack \in Seq(Frame) /\ Nested
      BY <1>1, <2>1 DEF AInv, Nested, InWalk, AtHand
    <3>2. Here \in Entries
      BY <2>1, <3>1, StackFacts DEF Nested, AtHand
    <3>3. QED
      BY <1>3, <3>2
  <2> DEFINE M == ListBlocks \cup ItemBlocks
  <2>5. heap = Blocks(M, Listed, Held, Opened)
    BY <1>3
  <2> HIDE DEF M
  <2>6. Blocks(M, Listed, Held, Opened) \cup {String(Here)} = Blocks(M, Listed \cup {Here}, Held, Opened)
    BY DEF Blocks
  <2>7. heap' = Blocks(ListBlocks' \cup ItemBlocks', Listed \cup {Here}, Held', Opened')
    BY <2>1, <2>2, <2>3, <2>5, <2>6 DEF M
  <2>8. QED
    BY <1>1, <1>3, <2>1, <2>3, <2>4, <2>7, HeapBecomes
<1>9. QED
  BY <1>4, <1>5, <1>6, <1>7, <1>8

LEMMA HeapAfterWalk ==
    ASSUME BInv, Sorting \/ QSortDone \/ NothingToSort \/ print_file_list \/ FreeNext, pc' \notin Leaving,
           Simple'
    PROVE  HeapFollows
<1>1. /\ pc \in {"sort", "sorting", "print", "free"} /\ pc' \in {"sorting", "print", "free"}
      /\ UNCHANGED <<stack, size, items>> /\ Simple /\ Nested /\ HeapOK /\ Room /\ CellsOK
      /\ pc = "free" => pc' = "free"
  BY DEF Sorting, QSortDone, NothingToSort, print_file_list, FreeNext, Goto, list, BInv, AInv, Leaving, Ended, Exits
<1>2. stack = <<>> /\ Held = {} /\ Opened = {} /\ Held' = {} /\ Opened' = {}
  <2>1. stack = <<>>
    BY <1>1 DEF Nested, InWalk, AtHand, Leaving, Ended, Exits
  <2>2. QED
    BY <1>1, <2>1 DEF Held, Opened
<1>3. /\ Listed \in SUBSET Entries /\ ListBlocks \cup ItemBlocks \in SUBSET Own
      /\ heap = Blocks(ListBlocks \cup ItemBlocks, Listed, {}, {}) /\ ~fault /\ g_file_list
  BY <1>1, <1>2, OwnBlocks DEF Listed, HeapOK, Leaving, Ended, Exits
<1>4. CASE Sorting \/ QSortDone \/ NothingToSort
  <2>1. /\ heap' = heap /\ fault' = fault /\ g_file_list' = g_file_list
        /\ pc \in {"sort", "sorting"} /\ pc' \in {"sorting", "print"}
    BY <1>4 DEF Sorting, QSortDone, NothingToSort, memory, calm, Goto
  <2>2. QED
    BY <1>1, <1>2, <2>1, HeapKept DEF Leaving, Ended, Exits
<1>5. CASE print_file_list
  <2>1. /\ heap' = heap /\ fault' = fault /\ g_file_list' = g_file_list /\ next' = next
        /\ pc = "print" /\ pc' = "free"
    BY <1>5 DEF print_file_list, memory, Goto
  <2>2. next' = 0 /\ 0 <= size /\ 0 <= size + 1
    BY <1>1, <2>1 DEF CellsOK, Room, Leaving, Ended, Exits
  <2>3. ListBlocks' \cup ItemBlocks' = ListBlocks \cup ItemBlocks /\ NextListed = Listed
    BY <1>1, <2>1, <2>2 DEF ListBlocks, ItemBlocks, Block, NextListed
  <2>4. QED
    BY <1>1, <1>2, <1>3, <2>1, <2>3, HeapBecomes
<1>6. CASE FreeNext
  <2>1. pc = "free" /\ pc' = "free" /\ next' = next + 1 /\ next \in Nat /\ size \in Nat
    BY <1>1, <1>6 DEF FreeNext, Simple, Room
  <2>2. \/ next \in Used /\ Free({String(cells[next])}) /\ UNCHANGED <<pc, g_file_list>>
        \/ next = size /\ Free({Items(items)}) /\ UNCHANGED <<pc, g_file_list>>
        \/ next = size + 1 /\ Free({ListBlock}) /\ UNCHANGED <<pc, g_file_list>>
    BY <1>6, <2>1 DEF FreeNext
  <2>3. g_file_list' /\ UNCHANGED items
    BY <1>1, <1>3, <2>2
  <2>4. Items(items) \in Own /\ ListBlock \in Own /\ ListBlock # Items(items)
    BY <1>1, OwnBlocks
  <2>5. CASE next \in Used
    <3>1. Free({String(cells[next])}) /\ next < size /\ next' # next
      BY <2>1, <2>2, <2>5 DEF Used
    <3>2. cells[next] \in Listed
      <4>1. Listed = {cells[i] : i \in Alive} \cup {e \in {Here} : pc = "count"} /\ next \in Alive
        BY <1>1, <2>1, <2>5 DEF CellsOK, Names, Leaving, Ended, Exits, Alive
      <4>2. QED
        BY <4>1
    <3>3. ListBlocks' \cup ItemBlocks' = ListBlocks \cup ItemBlocks /\ NextListed = Listed \ {cells[next]}
      <4>1. next' <= size /\ next' <= size + 1 /\ next <= size /\ next <= size + 1
        BY <2>1, <3>1
      <4>2. QED
        BY <1>1, <2>1, <2>5, <3>1, <4>1 DEF ListBlocks, ItemBlocks, Block, NextListed
    <3> DEFINE M == ListBlocks \cup ItemBlocks
    <3>4. M \in SUBSET Own /\ heap = Blocks(M, Listed, {}, {})
      BY <1>3
    <3> HIDE DEF M
    <3>5. String(cells[next]) \in heap
      BY <3>2 DEF Listed
    <3>6. Blocks(M, Listed, {}, {}) \ {String(cells[next])} = Blocks(M, Listed \ {cells[next]}, {}, {})
      BY <3>4, Apart DEF Blocks
    <3>7. heap' = Blocks(ListBlocks' \cup ItemBlocks', Listed \ {cells[next]}, Held', Opened') /\ ~fault'
      BY <1>2, <1>3, <3>1, <3>3, <3>4, <3>5, <3>6 DEF M, Free
    <3>8. QED
      BY <1>1, <1>3, <2>1, <2>3, <3>3, <3>7, HeapBecomes
  <2>6. CASE next = size
    <3>1. Free({Items(items)}) /\ next \notin Used
      BY <2>1, <2>2, <2>6 DEF Used
    <3>2. /\ ListBlocks \cup ItemBlocks = {ListBlock, Items(items)}
          /\ ListBlocks' \cup ItemBlocks' = {ListBlock} /\ NextListed = Listed
      <4>1. next <= size /\ next <= size + 1 /\ next' <= size + 1 /\ ~(next' <= size)
        BY <2>1, <2>6
      <4>2. QED
        BY <1>1, <2>1, <3>1, <4>1 DEF ListBlocks, ItemBlocks, Block, NextListed
    <3>3. Blocks({ListBlock, Items(items)}, Listed, {}, {}) \ {Items(items)} = Blocks({ListBlock}, Listed, {}, {})
      BY <2>4, Apart DEF Blocks
    <3>4. Items(items) \in heap
      BY <1>3, <3>2 DEF Blocks
    <3>5. heap' = Blocks(ListBlocks' \cup ItemBlocks', Listed, Held', Opened') /\ ~fault'
      BY <1>2, <1>3, <3>1, <3>2, <3>3, <3>4 DEF Free
    <3>6. QED
      BY <1>1, <1>3, <2>1, <2>3, <3>2, <3>5, HeapBecomes
  <2>7. CASE next = size + 1
    <3>1. Free({ListBlock}) /\ next \notin Used
      BY <2>1, <2>2, <2>7 DEF Used
    <3>2. /\ ListBlocks \cup ItemBlocks = {ListBlock}
          /\ ListBlocks' \cup ItemBlocks' = {} /\ NextListed = Listed
      <4>1. ~(next <= size) /\ next <= size + 1 /\ ~(next' <= size + 1) /\ ~(next' <= size)
        BY <2>1, <2>7
      <4>2. QED
        BY <1>1, <2>1, <3>1, <4>1 DEF ListBlocks, ItemBlocks, Block, NextListed
    <3>3. Blocks({ListBlock}, Listed, {}, {}) \ {ListBlock} = Blocks({}, Listed, {}, {})
      BY <2>4, Apart DEF Blocks
    <3>4. ListBlock \in heap
      BY <1>3, <3>2 DEF Blocks
    <3>5. heap' = Blocks(ListBlocks' \cup ItemBlocks', Listed, Held', Opened') /\ ~fault'
      BY <1>2, <1>3, <3>1, <3>2, <3>3, <3>4 DEF Free
    <3>6. QED
      BY <1>1, <1>3, <2>1, <2>3, <3>2, <3>5, HeapBecomes
  <2>8. QED
    BY <2>2, <2>5, <2>6, <2>7
<1>7. QED
  BY <1>4, <1>5, <1>6

LEMMA HeapStep == BInv /\ Next /\ AInv' /\ pc' \notin Leaving => HeapFollows
<1>1. SUFFICES ASSUME BInv, Next, AInv', pc' \notin Leaving PROVE HeapFollows
  OBVIOUS
<1>2. Simple' /\ pc \notin Leaving
  BY <1>1, Running DEF AInv
<1>3. CASE TreeChanges
  <2>1. UNCHANGED <<pc, stack, list, g_file_list, memory, next>>
    BY <1>3 DEF TreeChanges, output
  <2>2. /\ ListBlocks' \cup ItemBlocks' = ListBlocks \cup ItemBlocks /\ NextListed = Listed
        /\ Held' = Held /\ Opened' = Opened
    BY <2>1 DEF ListBlocks, ItemBlocks, Block, NextListed, Held, Opened, list
  <2>3. Listed \in SUBSET Entries /\ HeapOK
    BY <1>1 DEF Listed, BInv
  <2>4. QED
    BY <1>2, <2>1, <2>2, <2>3, HeapBecomes DEF HeapOK, memory
<1>4. CASE AllocationFails \/ Exit \/ sigint_handler \/ Stop
  BY <1>1, <1>4, Leaves
<1>5. QED
  BY <1>1, <1>2, <1>3, <1>4, HeapAtStart, HeapInDirs, HeapAtEntry, HeapAfterWalk DEF Next, Walk

-----------------------------------------------------------------------------
(* Counting the strings *)

LEMMA Counted ==
    ASSUME NEW n \in Nat, NEW c, \A i \in 0..n - 1 : c[i] \in Entries,
           \A i, j \in 0..n - 1 : c[i] = c[j] => i = j
    PROVE  /\ Cardinality({c[i] : i \in 0..n - 1}) = n /\ IsFiniteSet({c[i] : i \in 0..n - 1})
           /\ n <= Cardinality(Entries)
<1> DEFINE S == {c[i] : i \in 0..n - 1}
           f == [i \in 0..n - 1 |-> c[i]]
<1>1. IsFiniteSet(0..n - 1) /\ Cardinality(0..n - 1) = n
  <2>1. 0 \in Int /\ n - 1 \in Int /\ (n - 1) - 0 + 1 = n /\ (0 > n - 1 => n = 0)
    OBVIOUS
  <2>2. QED
    BY <2>1, FS_Interval
<1>2. f \in Bijection(0..n - 1, S)
  <2>1. f \in [0..n - 1 -> S]
    OBVIOUS
  <2>2. \A i, j \in 0..n - 1 : f[i] = f[j] => i = j
    OBVIOUS
  <2>3. \A s \in S : \E i \in 0..n - 1 : f[i] = s
    OBVIOUS
  <2> HIDE DEF S, f
  <2>4. QED
    BY <2>1, <2>2, <2>3 DEF Bijection, Injection, IsInjective, Surjection
<1>3. ExistsBijection(0..n - 1, S)
  BY <1>2 DEF ExistsBijection
<1>4. IsFiniteSet(S) /\ Cardinality(S) = n
  BY <1>1, <1>3, FS_Bijection
<1>5. S \in SUBSET Entries /\ IsFiniteSet(Entries)
  BY TreeFacts
<1>6. Cardinality(S) <= Cardinality(Entries)
  BY <1>5, FS_Subset
<1>7. QED
  BY <1>4, <1>6

-----------------------------------------------------------------------------
(* The cells of the list *)

LEMMA UsedCells ==
    ASSUME size \in Nat, size <= Cardinality(Entries)
    PROVE  /\ Used \subseteq 0..MaxCells /\ size \in 0..MaxCells /\ MaxCells \in Nat
           /\ Used = 0..size - 1 /\ size \notin Used
<1>1. Cardinality(Entries) \in Nat
  BY TreeFacts, FS_CardinalityType
<1>2. QED
  BY <1>1 DEF Used, MaxCells

\* qsort puts the strings into the cells by their rank.
LEMMA SortedIs ==
    ASSUME size \in Nat, size <= Cardinality(Entries), cells \in Cells, Cardinality(Listed) = size
    PROVE  /\ Sorted \in Cells
           /\ \A i \in Used : Sorted[i] \in Listed
           /\ \A i, j \in Used : Sorted[i] = Sorted[j] => i = j
           /\ Listed = {Sorted[i] : i \in Used}
           /\ \A i, j \in Used : i < j => Sorted[i] < Sorted[j]
<1>1. Used \subseteq 0..MaxCells /\ Used = 0..size - 1 /\ DOMAIN cells = 0..MaxCells
  BY UsedCells DEF Cells
<1>2. Listed \in SUBSET Nat /\ Listed \in SUBSET Entries /\ IsFiniteSet(Listed)
  <2>1. Listed \in SUBSET Entries
    BY DEF Listed
  <2>2. QED
    BY <2>1, TreeFacts, FS_Subset
<1>3. /\ \A e \in Listed : Cardinality(Below(Listed, e)) \in 0..size - 1
      /\ \A a, b \in Listed : a < b => Cardinality(Below(Listed, a)) < Cardinality(Below(Listed, b))
      /\ \A i \in 0..size - 1 : \E e \in Listed : Cardinality(Below(Listed, e)) = i
  BY <1>2, Ranks
<1>4. \A e \in Entries : {o \in Entries : String(o) \in heap /\ o < e} = Below(Listed, e)
  BY DEF Listed, Below
<1>5. \A i \in Used : /\ Sorted[i] \in Listed /\ Cardinality(Below(Listed, Sorted[i])) = i
  <2>1. SUFFICES ASSUME NEW i \in Used
                 PROVE  Sorted[i] \in Listed /\ Cardinality(Below(Listed, Sorted[i])) = i
    OBVIOUS
  <2>2. Sorted[i] = CHOOSE e \in Entries :
                      /\ String(e) \in heap
                      /\ Cardinality({o \in Entries : String(o) \in heap /\ o < e}) = i
    BY <1>1 DEF Sorted
  <2>3. PICK e \in Listed : Cardinality(Below(Listed, e)) = i
    BY <1>1, <1>3
  <2>4. /\ e \in Entries /\ String(e) \in heap
        /\ Cardinality({o \in Entries : String(o) \in heap /\ o < e}) = i
    BY <1>4, <2>3 DEF Listed
  <2>5. /\ Sorted[i] \in Entries /\ String(Sorted[i]) \in heap
        /\ Cardinality({o \in Entries : String(o) \in heap /\ o < Sorted[i]}) = i
    BY <2>2, <2>4
  <2>6. QED
    BY <1>4, <2>5 DEF Listed
<1>11. (\A i \in Used : i \in Int) /\ (\A e \in Listed : e \in Nat)
  BY <1>1, <1>2
<1>6. Sorted \in Cells
  <2>1. \A i \in 0..MaxCells : Sorted[i] \in Entries \cup {Unset}
    <3>1. SUFFICES ASSUME NEW i \in 0..MaxCells PROVE Sorted[i] \in Entries \cup {Unset}
      OBVIOUS
    <3>2. CASE i \in Used
      BY <1>2, <1>5, <3>2
    <3>3. CASE i \notin Used
      <4>1. Sorted[i] = cells[i]
        BY <1>1, <3>3 DEF Sorted
      <4>2. QED
        BY <4>1 DEF Cells
    <3>4. QED
      BY <3>2, <3>3
  <2>2. Sorted = [i \in 0..MaxCells |-> Sorted[i]]
    <3>1. DOMAIN Sorted = 0..MaxCells
      BY <1>1 DEF Sorted
    <3>2. QED
      BY <1>1, <3>1 DEF Sorted
  <2>3. QED
    BY <2>1, <2>2 DEF Cells
<1>7. \A i, j \in Used : i < j => Sorted[i] < Sorted[j]
  <2>1. SUFFICES ASSUME NEW i \in Used, NEW j \in Used, i < j PROVE Sorted[i] < Sorted[j]
    OBVIOUS
  <2>2. Sorted[i] \in Nat /\ Sorted[j] \in Nat /\ i \in Int /\ j \in Int
    BY <1>5, <1>11
  <2>3. Sorted[j] < Sorted[i] => j < i
    BY <1>3, <1>5
  <2>4. Sorted[j] # Sorted[i]
    BY <1>5, <2>1, <2>2
  <2>5. QED
    BY <2>1, <2>2, <2>3, <2>4
<1>8. Listed = {Sorted[i] : i \in Used}
  <2>1. SUFFICES ASSUME NEW e \in Listed PROVE \E i \in Used : Sorted[i] = e
    BY <1>5
  <2> DEFINE i == Cardinality(Below(Listed, e))
  <2>2. i \in Used
    BY <1>1, <1>3
  <2>3. Sorted[i] \in Listed /\ Cardinality(Below(Listed, Sorted[i])) = i
    BY <1>5, <2>2
  <2>4. e \in Nat /\ Sorted[i] \in Nat /\ i \in Int
    BY <1>11, <2>2, <2>3
  <2>5. ~(e < Sorted[i]) /\ ~(Sorted[i] < e)
    <3> HIDE DEF i
    <3>1. e < Sorted[i] => Cardinality(Below(Listed, e)) < Cardinality(Below(Listed, Sorted[i]))
      BY <1>3, <2>3
    <3>2. Sorted[i] < e => Cardinality(Below(Listed, Sorted[i])) < Cardinality(Below(Listed, e))
      BY <1>3, <2>3
    <3>3. QED
      BY <2>3, <2>4, <3>1, <3>2 DEF i
  <2>6. QED
    BY <2>2, <2>4, <2>5
<1>9. \A i, j \in Used : Sorted[i] = Sorted[j] => i = j
  BY <1>5
<1>10. QED
  BY <1>5, <1>6, <1>7, <1>8, <1>9

\* A step that leaves the list as it is.
LEMMA CellsKept ==
    ASSUME CellsOK, cells' = cells, size' = size, next' = next, Listed' = Listed,
           pc \notin Leaving \cup {"sorting", "count", "free"},
           pc' \notin Leaving \cup {"sorting", "count", "free"},
           pc' \in NotYet => Here' \notin Listed
    PROVE  CellsOK'
<1>1. Used' = Used /\ Alive' = Used /\ Alive = Used
  BY DEF Used, Alive
<1>2. Names'
  <2>1. Names
    BY DEF CellsOK
  <2>2. \A i \in Used : cells'[i] \in Entries
    BY <2>1 DEF Names
  <2>3. \A i, j \in Used : cells'[i] = cells'[j] => i = j
    BY <2>1 DEF Names
  <2>4. Listed = {cells[i] : i \in Used}
    BY <1>1, <2>1 DEF Names
  <2>5. {e \in {Here'} : pc' = "count"} = {}
    OBVIOUS
  <2>6. QED
    BY <1>1, <2>2, <2>3, <2>4, <2>5 DEF Names
<1>3. QED
  BY <1>2 DEF CellsOK

LEMMA CellsInWalk ==
    ASSUME BInv, HeapFollows,
           \/ create_file_list \/ Publish \/ OpenDir \/ OpenFails \/ ReadEntry \/ CloseDir \/ match_type
           \/ Descend \/ Release \/ GrowList \/ StoreItems \/ HasRoom \/ NothingToSort
    PROVE  CellsOK'
<1>1. CellsOK /\ AInv /\ Listed' = NextListed
  BY DEF BInv, HeapFollows
<1>2. /\ cells' = cells /\ size' = size /\ next' = next
      /\ pc \in {"start", "publish", "open", "read", "match", "descend", "release", "room", "moved", "sort"}
      /\ pc' \in {"publish", "open", "read", "match", "descend", "release", "room", "moved", "copy", "sort", "print"}
  BY DEF create_file_list, Publish, OpenDir, OpenFails, ReadEntry, CloseDir, closedir, match_type, Descend,
         Release, GrowList, StoreItems, HasRoom, NothingToSort, Goto, list, calm, output
<1>3. Listed' = Listed
  BY <1>1, <1>2 DEF NextListed
<1>4. pc' \in NotYet => Here' \notin Listed
  <2>1. CASE ReadEntry
    <3>1. PICK e \in Entries : ReadsThere(e)
      BY <1>1, <2>1, ReadEntryHolds
    <3>2. PICK U \in SUBSET Entries : Frontier(U)
      <4>1. pc = "read"
        BY <3>1 DEF ReadsThere
      <4>2. QED
        BY <4>1 DEF BInv, WalkOK, InWalk
    <3>3. e \in U
      BY <3>1, <3>2 DEF ReadsThere, Frontier
    <3>4. QED
      BY <3>1, <3>2, <3>3 DEF ReadsThere, Frontier
  <2>2. CASE match_type \/ GrowList \/ StoreItems \/ HasRoom
    <3>1. stack' = stack /\ pc \in NotYet
      BY <2>2 DEF match_type, GrowList, StoreItems, HasRoom, Goto, NotYet
    <3>2. QED
      BY <1>1, <3>1 DEF CellsOK, Here
  <2>3. CASE ~(ReadEntry \/ match_type \/ GrowList \/ StoreItems \/ HasRoom)
    <3>1. pc' \notin NotYet
      BY <2>3 DEF create_file_list, Publish, OpenDir, OpenFails, CloseDir, closedir, Descend, Release,
                  NothingToSort, Goto, NotYet
    <3>2. QED
      BY <3>1
  <2>4. QED
    BY <2>1, <2>2, <2>3
<1>5. QED
  BY <1>1, <1>2, <1>3, <1>4, CellsKept DEF Leaving, Ended, Exits

LEMMA CopyPathCells ==
    ASSUME BInv, HeapFollows, CopyPath
    PROVE  CellsOK'
<1>1. /\ pc = "copy" /\ pc' = "count" /\ cells' = [cells EXCEPT ![size] = Here]
      /\ UNCHANGED <<stack, size, next>> /\ CellsOK /\ AInv /\ Listed' = NextListed
  BY DEF CopyPath, Slot, Goto, calm, output, BInv, HeapFollows
<1>2. /\ size \in Nat /\ size <= Cardinality(Entries) /\ cells \in Cells /\ Names
      /\ Here \notin Listed /\ next = 0
  BY <1>1 DEF CellsOK, AInv, Room, Leaving, Ended, Exits, NotYet
<1>3. Here \in Entries
  <2>1. stack # <<>> /\ stack \in Seq(Frame) /\ Nested
    BY <1>1 DEF AInv, Nested, InWalk, AtHand
  <2>2. QED
    BY <1>1, <2>1, StackFacts DEF Nested, AtHand
<1>4. /\ Used \subseteq 0..MaxCells /\ size \in 0..MaxCells /\ Used = 0..size - 1 /\ size \notin Used
  BY <1>2, UsedCells
<1>5. /\ Listed = {cells[i] : i \in Used} /\ \A i \in Used : cells[i] \in Entries
      /\ \A i, j \in Used : cells[i] = cells[j] => i = j
  BY <1>1, <1>2 DEF Names, Alive
<1>6. /\ cells' \in Cells /\ cells'[size] = Here /\ \A i \in Used : cells'[i] = cells[i]
  BY <1>1, <1>2, <1>3, <1>4 DEF Cells
<1>7. \A i \in Used : cells[i] # Here
  BY <1>2, <1>5
<1>8. size + 1 <= Cardinality(Entries)
  <2> DEFINE n == size + 1
  <2>1. n \in Nat /\ 0..n - 1 = Used \cup {size}
    BY <1>2, <1>4
  <2>2. \A i \in 0..n - 1 : cells'[i] \in Entries
    BY <1>3, <1>5, <1>6, <2>1
  <2>3. \A i, j \in 0..n - 1 : cells'[i] = cells'[j] => i = j
    BY <1>5, <1>6, <1>7, <2>1
  <2> HIDE DEF n
  <2>4. n <= Cardinality(Entries)
    BY <2>1, <2>2, <2>3, Counted
  <2>5. QED
    BY <2>4 DEF n
<1>9. Used' = Used /\ Alive' = Used /\ Here' = Here
  BY <1>1 DEF Used, Alive, Here
<1>10. Listed' = Listed \cup {Here}
  BY <1>1 DEF NextListed
<1>11. Names'
  <2>1. Listed' = {cells'[i] : i \in Used} \cup {e \in {Here} : pc' = "count"}
    BY <1>1, <1>5, <1>6, <1>10
  <2>2. QED
    BY <1>5, <1>6, <1>9, <2>1 DEF Names
<1>12. QED
  BY <1>1, <1>2, <1>6, <1>7, <1>8, <1>9, <1>11 DEF CellsOK, NotYet, Leaving, Ended, Exits

LEMMA CountUpCells ==
    ASSUME BInv, HeapFollows, CountUp
    PROVE  CellsOK'
<1>1. /\ pc = "count" /\ pc' = "descend" /\ size' = size + 1
      /\ UNCHANGED <<stack, cells, next>> /\ CellsOK /\ AInv /\ Listed' = NextListed
  BY DEF CountUp, Goto, calm, output, BInv, HeapFollows
<1>2. /\ size \in Nat /\ size + 1 <= Cardinality(Entries) /\ cells \in Cells /\ Names
      /\ cells[size] = Here /\ (\A i \in Used : cells[i] # Here) /\ next = 0
  BY <1>1 DEF CellsOK, AInv, Room, Leaving, Ended, Exits
<1>3. Here \in Entries
  <2>1. stack # <<>> /\ stack \in Seq(Frame) /\ Nested
    BY <1>1 DEF AInv, Nested, InWalk, AtHand
  <2>2. QED
    BY <1>1, <2>1, StackFacts DEF Nested, AtHand
<1>4. Used' = Used \cup {size} /\ Alive' = Used' /\ Alive = Used
  BY <1>1, <1>2 DEF Used, Alive
<1>5. Listed' = Listed
  BY <1>1 DEF NextListed
<1>6. Names'
  <2>1. /\ Listed = {cells[i] : i \in Used} \cup {Here} /\ \A i \in Used : cells[i] \in Entries
        /\ \A i, j \in Used : cells[i] = cells[j] => i = j
    BY <1>1, <1>2, <1>4 DEF Names
  <2>2. \A i \in Used' : cells[i] \in Entries
    BY <1>2, <1>3, <1>4, <2>1
  <2>3. \A i, j \in Used' : cells[i] = cells[j] => i = j
    BY <1>2, <1>4, <2>1
  <2>4. Listed' = {cells[i] : i \in Used'} \cup {e \in {Here'} : pc' = "count"}
    BY <1>1, <1>2, <1>4, <1>5, <2>1
  <2>5. QED
    BY <1>1, <1>4, <2>2, <2>3, <2>4 DEF Names
<1>7. QED
  BY <1>1, <1>2, <1>6 DEF CellsOK, NotYet, Leaving, Ended, Exits

LEMMA SortCells ==
    ASSUME BInv, HeapFollows, Sorting \/ QSortDone \/ print_file_list
    PROVE  CellsOK'
<1>1. /\ pc \in {"sort", "sorting", "print"} /\ pc' \in {"sorting", "print", "free"}
      /\ UNCHANGED <<size, next, opts>> /\ CellsOK /\ AInv /\ Listed' = NextListed
  BY DEF Sorting, QSortDone, print_file_list, Goto, calm, output, list, BInv, HeapFollows
<1>2. /\ size \in Nat /\ size <= Cardinality(Entries) /\ cells \in Cells /\ next = 0
  BY <1>1 DEF CellsOK, AInv, Room, Leaving, Ended, Exits
<1>3. Listed' = Listed /\ Used' = Used
  BY <1>1 DEF NextListed, Used
<1>4. Used \subseteq 0..MaxCells /\ Used = 0..size - 1
  BY <1>2, UsedCells
<1>5. CASE Sorting
  <2>1. pc = "sort" /\ pc' = "sorting" /\ opts.sort
    BY <1>5 DEF Sorting, Goto
  <2>2. PICK i \in Used, j \in Used : cells' = [cells EXCEPT ![i] = cells[j]]
    BY <1>5 DEF Sorting
  <2>3. cells' \in Cells
    <3>1. cells[j] \in Entries \cup {Unset}
      BY <1>2, <1>4 DEF Cells
    <3>2. QED
      BY <1>2, <2>2, <3>1 DEF Cells
  <2>4. Names /\ Alive = Used
    BY <1>1, <2>1 DEF CellsOK, Leaving, Ended, Exits, Alive
  <2>5. Listed = {cells[k] : k \in 0..size - 1}
    BY <1>4, <2>1, <2>4 DEF Names
  <2>6. Cardinality(Listed) = size
    <3>1. /\ \A k \in 0..size - 1 : cells[k] \in Entries
          /\ \A k, l \in 0..size - 1 : cells[k] = cells[l] => k = l
      BY <1>4, <2>4 DEF Names
    <3>2. QED
      BY <1>2, <2>5, <3>1, Counted
  <2>7. QED
    BY <1>1, <1>2, <1>3, <2>1, <2>3, <2>6 DEF CellsOK, NotYet, Leaving, Ended, Exits
<1>6. CASE QSortDone
  <2>1. pc = "sorting" /\ pc' = "print" /\ cells' = Sorted /\ Cardinality(Listed) = size
    BY <1>1, <1>6 DEF QSortDone, Goto, CellsOK
  <2>2. /\ Sorted \in Cells /\ \A i \in Used : Sorted[i] \in Entries
        /\ \A i, j \in Used : Sorted[i] = Sorted[j] => i = j
        /\ Listed = {Sorted[i] : i \in Used}
    BY <1>2, <2>1, SortedIs DEF Listed
  <2>3. Alive' = Used
    BY <1>3, <2>1 DEF Alive
  <2>4. Names'
    BY <1>3, <2>1, <2>2, <2>3 DEF Names
  <2>5. QED
    BY <1>1, <1>2, <2>1, <2>2, <2>4 DEF CellsOK, NotYet, Leaving, Ended, Exits
<1>7. CASE print_file_list
  <2>1. pc = "print" /\ pc' = "free" /\ cells' = cells
    BY <1>7 DEF print_file_list, Goto, list
  <2>2. Names /\ Alive = Used /\ Alive' = Used
    <3>1. \A i \in Used : 0 <= i
      BY <1>4
    <3>2. QED
      BY <1>1, <1>2, <1>3, <2>1, <3>1 DEF CellsOK, Leaving, Ended, Exits, Alive
  <2>3. Names'
    BY <1>3, <2>1, <2>2 DEF Names
  <2>4. next' <= size' + 2
    BY <1>1, <1>2
  <2>5. QED
    BY <1>1, <1>2, <2>1, <2>3, <2>4 DEF CellsOK, NotYet, Leaving, Ended, Exits
<1>8. QED
  BY <1>5, <1>6, <1>7

LEMMA FreeNextCells ==
    ASSUME BInv, HeapFollows, FreeNext, pc' \notin Leaving
    PROVE  CellsOK'
<1>1. /\ pc = "free" /\ pc' = "free" /\ next' = next + 1
      /\ UNCHANGED <<size, cells, opts, stack>> /\ CellsOK /\ AInv /\ Listed' = NextListed
      /\ next \in Used \/ next = size \/ next = size + 1
  BY DEF FreeNext, list, BInv, HeapFollows, Leaving, Ended, Exits
<1>2. /\ size \in Nat /\ size <= Cardinality(Entries) /\ cells \in Cells /\ Names /\ next \in Nat
  BY <1>1 DEF CellsOK, AInv, Room, Simple, Leaving, Ended, Exits
<1>3. Used = 0..size - 1 /\ Used' = Used
  BY <1>1 DEF Used
<1>4. next' # next /\ next' <= size + 2
  BY <1>1, <1>2, <1>3
<1>5. /\ Listed = {cells[i] : i \in Alive} /\ \A i \in Used : cells[i] \in Entries
      /\ \A i, j \in Used : cells[i] = cells[j] => i = j
  BY <1>1, <1>2 DEF Names
<1>6. Alive = {i \in Used : next <= i} /\ Alive' = {i \in Used : next + 1 <= i}
  BY <1>1, <1>3 DEF Alive
<1>7. Listed' = {cells[i] : i \in Alive'}
  <2>1. CASE next \in Used
    <3>1. Listed' = Listed \ {cells[next]}
      BY <1>1, <1>4, <2>1 DEF NextListed
    <3>2. Alive' = Alive \ {next}
      BY <1>2, <1>3, <1>6
    <3>3. Alive \subseteq Used /\ Alive' \subseteq Used
      BY <1>6
    <3>4. \A i \in Alive : cells[i] = cells[next] => i = next
      BY <1>5, <2>1, <3>3
    <3>5. QED
      BY <1>5, <3>1, <3>2, <3>4
  <2>2. CASE next = size \/ next = size + 1
    <3>1. Alive = {} /\ Alive' = {} /\ next \notin Used
      BY <1>2, <1>3, <1>6, <2>2
    <3>2. QED
      BY <1>1, <1>5, <3>1 DEF NextListed
  <2>3. QED
    BY <1>1, <2>1, <2>2
<1>8. Names'
  <2>1. {e \in {Here'} : pc' = "count"} = {}
    BY <1>1
  <2>2. QED
    BY <1>1, <1>3, <1>5, <1>7, <2>1 DEF Names
<1>9. QED
  BY <1>1, <1>2, <1>4, <1>8 DEF CellsOK, NotYet, Leaving, Ended, Exits

LEMMA CellsStep == BInv /\ Next /\ AInv' => CellsOK'
<1>1. SUFFICES ASSUME BInv, Next, AInv' PROVE CellsOK'
  OBVIOUS
<1>2. CellsOK
  BY <1>1 DEF BInv
<1>3. CASE pc' \in Leaving
  <2>1. cells' \in {cells, [cells EXCEPT ![Slot] = Unset]}
    BY <1>1, <1>3 DEF Next, Walk, create_file_list, Publish, OpenDir, OpenFails, ReadEntry,
       CloseDir, closedir, match_type,
         Descend, Release, GrowList, StoreItems, HasRoom, CopyPath, CountUp, Sorting, QSortDone,
         NothingToSort,
         print_file_list, FreeNext, AllocationFails, CreateFails, PathFails, ReallocFails,
       CopyFails, Exit, sigint_handler, TreeChanges, Stop, Goto,
         Leaving, Ended, Exits, vars, list
  <2>2. QED
    BY <1>2, <1>3, <2>1 DEF CellsOK, Cells, NotYet, Leaving, Ended, Exits
<1>4. CASE pc' \notin Leaving
  <2>1. HeapFollows
    BY <1>1, <1>4, HeapStep
  <2>2. CASE TreeChanges
    <3>1. UNCHANGED <<pc, size, cells, next, opts, heap, stack>>
      BY <2>2 DEF TreeChanges, list, output, memory
    <3>2. Used' = Used /\ Alive' = Alive /\ Here' = Here /\ Listed' = Listed
      BY <3>1 DEF Used, Alive, Here, Listed
    <3>3. Names => Names'
      BY <3>1, <3>2 DEF Names
    <3>4. QED
      BY <1>2, <3>1, <3>2, <3>3 DEF CellsOK
  <2>3. CASE AllocationFails \/ Exit \/ sigint_handler \/ Stop
    BY <1>4, <2>3, Leaves
  <2>4. QED
    BY <1>1, <1>4, <2>1, <2>2, <2>3, CellsInWalk, CopyPathCells, CountUpCells, SortCells,
       FreeNextCells
       DEF Next, Walk
<1>5. QED
  BY <1>3, <1>4

-----------------------------------------------------------------------------
(* What the walk has not come to *)

Looking == InWalk \cup {"start", "publish"}

LEMMA StartsAtRoot ==
    AInv /\ pc \in {"start", "publish"} => stack = <<>> /\ Here = Root
<1>1. AInv /\ pc \in {"start", "publish"} => stack = <<>>
  BY DEF AInv, Nested, InWalk, AtHand, Leaving, Ended, Exits
<1>2. QED
  BY <1>1 DEF Here

\* The open directories stay as they are.
LEMMA FrontierKept ==
    ASSUME NEW U \in SUBSET Entries, Frontier(U), stack' = stack, Listed' \cap U = {},
           pc' \in AtHand => Here \notin U, pc' \in Ahead => pc \in Ahead
    PROVE  Frontier(U)'
<1>1. Here' = Here
  BY DEF Here
<1>2. QED
  BY <1>1 DEF Frontier

LEMMA OpenDirFrontier ==
    ASSUME BInv, OpenDir, Listed' = Listed, NEW U \in SUBSET Entries, Frontier(U)
    PROVE  Frontier(U)'
<1>1. OpensHere
  BY OpenDirOpens DEF BInv
<1> DEFINE f == [dir |-> Here, todo |-> Contents(Here), entry |-> Root]
<1>2. stack'[1] = f /\ pc = "open" /\ pc' = "read" /\ Here \notin U
  <2>1. pc = "open" /\ stack'[1] = f /\ pc' = "read"
    BY <1>1 DEF OpensHere
  <2>2. QED
    BY <2>1 DEF Frontier, AtHand
<1>3. f.dir \notin U /\ f.todo \subseteq U
  BY <1>2 DEF Frontier, Ahead, Contents
<1> HIDE DEF f
<1>4. \A i \in DOMAIN stack' : stack'[i].todo \subseteq U /\ stack'[i].dir \notin U
  <2>1. SUFFICES ASSUME NEW i \in DOMAIN stack' PROVE stack'[i].todo \subseteq U /\ stack'[i].dir \notin U
    OBVIOUS
  <2>2. CASE i = 1
    BY <1>2, <1>3, <2>2
  <2>3. CASE i # 1
    <3>1. i - 1 \in DOMAIN stack /\ stack'[i] = stack[i - 1]
      BY <1>1, <2>3 DEF OpensHere
    <3>2. QED
      BY <3>1 DEF Frontier
  <2>4. QED
    BY <2>2, <2>3
<1>5. QED
  BY <1>2, <1>4 DEF Frontier, AtHand, Ahead

LEMMA ReadEntryFrontier ==
    ASSUME BInv, Listed' = Listed, NEW e \in Entries, ReadsThere(e), NEW U \in SUBSET Entries, Frontier(U)
    PROVE  Frontier(U \ {e})' /\ e \in U
<1> DEFINE f == [dir |-> stack[1].dir, todo |-> stack[1].todo \ {e}, entry |-> e]
<1>1. /\ pc' = "match" /\ e \in stack[1].todo /\ Parent[e] = stack[1].dir
      /\ DOMAIN stack' = DOMAIN stack /\ 1 \in DOMAIN stack /\ Here' = e
      /\ stack'[1] = f /\ \A i \in DOMAIN stack : i # 1 => stack'[i] = stack[i]
  BY DEF ReadsThere
<1>2. f.dir = stack[1].dir /\ f.todo = stack[1].todo \ {e}
  OBVIOUS
<1> HIDE DEF f
<1>3. e \in U /\ stack[1].dir \notin U
  BY <1>1 DEF Frontier
<1>4. \A x \in Entries : Parent[x] \in U => x \in U /\ x # e
  BY <1>1, <1>3 DEF Frontier
<1>5. \A i \in DOMAIN stack' : stack'[i].todo \subseteq U \ {e} /\ stack'[i].dir \notin U
  <2>1. SUFFICES ASSUME NEW i \in DOMAIN stack'
                 PROVE  stack'[i].todo \subseteq U \ {e} /\ stack'[i].dir \notin U
    OBVIOUS
  <2>2. stack[i].todo \subseteq U /\ stack[i].dir \notin U
    BY <1>1 DEF Frontier
  <2>3. CASE i = 1
    BY <1>1, <1>2, <2>2, <2>3
  <2>4. CASE i # 1
    <3>1. stack'[i] = stack[i]
      BY <1>1, <2>4
    <3>2. e \notin stack[i].todo
      <4>1. stack \in Seq(Frame) /\ Nested /\ 1 < i
        <5>1. stack \in Seq(Frame) /\ Nested
          BY DEF BInv, AInv
        <5>2. QED
          BY <1>1, <2>4, <5>1, StackFacts
      <4>2. stack[i].dir < stack[1].dir /\ stack[1] \in Frame /\ stack[i] \in Frame
        BY <1>1, <4>1, StackFacts DEF Nested
      <4>3. Entries \cup {Root} \subseteq Nat
        BY TreeFacts DEF Root
      <4>4. stack[i].dir # stack[1].dir
        BY <4>2, <4>3 DEF Frame
      <4>5. QED
        BY <1>1, <4>1, <4>4 DEF Nested
    <3>3. QED
      BY <2>2, <3>1, <3>2
  <2>5. QED
    BY <2>3, <2>4
<1>6. Listed' \cap (U \ {e}) = {}
  BY DEF Frontier
<1>7. \A x \in Entries : Parent[x] \in U \ {e} => x \in U \ {e}
  BY <1>4
<1>8. \A x \in Entries : Parent[x] = Here' => x \in U \ {e}
  BY <1>1, <1>3, <1>4
<1>9. QED
  BY <1>1, <1>3, <1>5, <1>6, <1>7, <1>8 DEF Frontier

LEMMA CloseDirFrontier ==
    ASSUME BInv, CloseDir, Listed' = Listed, pc' = "release", NEW U \in SUBSET Entries, Frontier(U)
    PROVE  Frontier(U)'
<1>1. AInv /\ stack \in Seq(Frame) /\ Nested /\ stack # <<>> /\ stack' = Tail(stack)
  BY DEF BInv, CloseDir, closedir, Goto, AInv, Nested, InWalk, AtHand
<1>2. Here' = Head(stack).dir
  BY <1>1, CloseDirHolds
<1>3. /\ stack' \in Seq(Frame) /\ Len(stack') = Len(stack) - 1 /\ Len(stack) \in Nat \ {0}
      /\ Head(stack) = stack[1] /\ \A i \in 1..Len(stack) - 1 : stack'[i] = stack[i + 1]
  BY <1>1, Popped
<1>4. DOMAIN stack = 1..Len(stack) /\ DOMAIN stack' = 1..Len(stack) - 1 /\ 1 \in DOMAIN stack
  BY <1>1, <1>3, LenProperties
<1>5. \A i \in DOMAIN stack' : i + 1 \in DOMAIN stack /\ stack'[i] = stack[i + 1]
  BY <1>3, <1>4
<1>6. \A i \in DOMAIN stack' : stack'[i].todo \subseteq U /\ stack'[i].dir \notin U
  BY <1>5 DEF Frontier
<1>7. Here' \notin U
  BY <1>2, <1>3, <1>4 DEF Frontier
<1>8. QED
  BY <1>6, <1>7 DEF Frontier, Ahead

LEMMA FrontierStep ==
    ASSUME BInv, Next, HeapFollows, pc \in Looking, pc' \in Looking, ~ReadEntry,
           NEW U \in SUBSET Entries, Frontier(U)
    PROVE  Frontier(U)'
<1>1. AInv /\ Listed' = NextListed /\ pc' \notin Leaving /\ pc' # "sort"
  BY DEF BInv, HeapFollows, Looking, InWalk, AtHand, Leaving, Ended, Exits
<1>2. Listed \cap U = {}
  BY DEF Frontier
<1>3. CASE create_file_list \/ Publish
  <2>1. /\ stack' = stack /\ pc \in {"start", "publish"} /\ pc' \in {"publish", "open"}
    BY <1>3 DEF create_file_list, Publish, Goto
  <2>2. Listed' \cap U = {}
    BY <1>1, <1>2, <2>1 DEF NextListed
  <2>3. Here \notin U
    BY <1>1, <2>1, StartsAtRoot, TreeFacts
  <2>4. QED
    BY <2>1, <2>2, <2>3, FrontierKept DEF Ahead
<1>4. CASE OpenDir
  <2>1. Listed' = Listed
    BY <1>1, <1>4 DEF NextListed, OpenDir, Goto
  <2>2. QED
    BY <1>4, <2>1, OpenDirFrontier
<1>5. CASE CloseDir
  <2>1. Listed' = Listed /\ pc' = "release"
    BY <1>1, <1>5 DEF NextListed, CloseDir, closedir, Goto
  <2>2. QED
    BY <1>5, <2>1, CloseDirFrontier
<1>6. CASE CopyPath
  <2>1. stack' = stack /\ pc = "copy" /\ pc' = "count"
    BY <1>6 DEF CopyPath, Goto
  <2>2. Here \notin U
    BY <2>1 DEF Frontier, AtHand
  <2>3. Listed' \cap U = {}
    BY <1>1, <1>2, <2>1, <2>2 DEF NextListed
  <2>4. QED
    BY <2>1, <2>2, <2>3, FrontierKept DEF Ahead
<1>7. CASE OpenFails \/ match_type \/ Descend \/ Release \/ GrowList \/ StoreItems \/ HasRoom \/ CountUp
  <2>1. /\ stack' = stack /\ pc \in AtHand
        /\ pc \notin {"copy", "free"} /\ (pc' \in Ahead => pc \in Ahead)
    BY <1>7 DEF OpenFails, match_type, Descend, Release, GrowList, StoreItems, HasRoom, CountUp,
       Goto, Ahead, AtHand
  <2>2. Here \notin U /\ Listed' \cap U = {}
    BY <1>1, <1>2, <2>1 DEF Frontier, NextListed
  <2>3. QED
    BY <2>1, <2>2, FrontierKept
<1>8. CASE TreeChanges
  <2>1. stack' = stack /\ pc' = pc /\ next' = next
    BY <1>8 DEF TreeChanges, output
  <2>2. Listed' \cap U = {} /\ (pc' \in AtHand => Here \notin U)
    BY <1>1, <1>2, <2>1 DEF Frontier, NextListed
  <2>3. QED
    BY <2>1, <2>2, FrontierKept
<1>9. ~(Sorting \/ QSortDone \/ NothingToSort \/ print_file_list \/ FreeNext)
  BY DEF Sorting, QSortDone, NothingToSort, print_file_list, FreeNext, Goto, Looking, InWalk, AtHand
<1>10. ~(AllocationFails \/ Exit \/ sigint_handler \/ Stop)
  BY <1>1, Leaves
<1>11. QED
  BY <1>3, <1>4, <1>5, <1>6, <1>7, <1>8, <1>9, <1>10 DEF Next, Walk

\* An entry that is there is in a directory.
LEMMA ParentsAreDirs ==
    \A e \in Entries : FirstKind[e] # "gone" /\ Parent[e] # Root => FirstKind[Parent[e]] = "dir"
  BY WalkAssumption

LEMMA CoveredKept ==
    ASSUME NEW U \in SUBSET Entries, Covered(U), stack' = stack, UNCHANGED <<tree, opts>>,
           \A e \in Entries : pc \in Ahead /\ Parent[e] = Here => kind[e] = "gone" \/ pc' \in Ahead,
           \A e \in Entries \ U : \/ pc' \in NotYet /\ e = Here
                                  \/ Wanted(kind[e]) <=> e \in Listed',
           pc' \in NotYet \ {"match"} => Wanted(kind[Here])
    PROVE  Covered(U)'
<1>1. Here' = Here /\ kind' = kind
  BY DEF Here, tree
<1>2. \A k : Wanted(k)' <=> Wanted(k)
  BY DEF Wanted
<1>3. /\ \A e \in U : \/ kind[e] = "gone" \/ Parent[e] \in U
                      \/ \E i \in DOMAIN stack : e \in stack[i].todo
                      \/ pc' \in Ahead /\ Parent[e] = Here
  BY DEF Covered
<1>4. kind = FirstKind
  BY DEF Covered
<1>5. QED
  BY <1>1, <1>2, <1>3, <1>4 DEF Covered, Wanted

LEMMA OpenDirCovers ==
    ASSUME BInv, OpenDir, Listed' = Listed, NEW U \in SUBSET Entries, Covered(U)
    PROVE  Covered(U)'
<1>1. OpensHere /\ kind' = kind /\ opts' = opts
  BY OpenDirOpens DEF BInv, OpenDir, calm, tree
<1>2. /\ pc = "open" /\ pc' = "read" /\ 1 \in DOMAIN stack' /\ stack'[1].todo = Contents(Here)
      /\ \A i \in DOMAIN stack : i + 1 \in DOMAIN stack' /\ stack'[i + 1] = stack[i]
  BY <1>1 DEF OpensHere
<1>3. ASSUME NEW e \in U
      PROVE  kind[e] = "gone" \/ Parent[e] \in U \/ \E i \in DOMAIN stack' : e \in stack'[i].todo
  <2>1. CASE \E i \in DOMAIN stack : e \in stack[i].todo
    <3>1. PICK i \in DOMAIN stack : e \in stack[i].todo
      BY <2>1
    <3>2. i + 1 \in DOMAIN stack' /\ e \in stack'[i + 1].todo
      BY <1>2, <3>1
    <3>3. QED
      BY <3>2
  <2>2. CASE Parent[e] = Here
    <3>1. kind[e] # "gone" => e \in stack'[1].todo
      BY <1>2, <2>2 DEF Contents
    <3>2. QED
      BY <1>2, <3>1
  <2>3. QED
    BY <2>1, <2>2 DEF Covered
<1>4. \A e \in Entries \ U : Wanted(kind[e]) <=> e \in Listed
  BY <1>2 DEF Covered, NotYet
<1>5. kind = FirstKind
  BY DEF Covered
<1>6. QED
  BY <1>1, <1>2, <1>3, <1>4, <1>5 DEF Covered, Wanted, NotYet

LEMMA ReadEntryCovers ==
    ASSUME BInv, ReadEntry, Listed' = Listed, NEW e \in Entries, ReadsThere(e),
           NEW U \in SUBSET Entries, Covered(U)
    PROVE  Covered(U \ {e})'
<1> DEFINE f == [dir |-> stack[1].dir, todo |-> stack[1].todo \ {e}, entry |-> e]
<1>1. kind' = kind /\ opts' = opts /\ kind = FirstKind
  BY DEF ReadEntry, calm, tree, Covered
<1>2. /\ pc = "read" /\ pc' = "match" /\ DOMAIN stack' = DOMAIN stack /\ 1 \in DOMAIN stack /\ Here' = e
      /\ stack'[1] = f /\ \A i \in DOMAIN stack : i # 1 => stack'[i] = stack[i]
  BY DEF ReadsThere
<1>3. f.todo = stack[1].todo \ {e}
  OBVIOUS
<1> HIDE DEF f
<1>4. \A x \in U \ {e} : \/ kind[x] = "gone" \/ Parent[x] \in U \ {e} \/ Parent[x] = e
                         \/ \E i \in DOMAIN stack' : x \in stack'[i].todo
  <2>1. SUFFICES ASSUME NEW x \in U \ {e}
                 PROVE  \/ kind[x] = "gone" \/ Parent[x] \in U \ {e} \/ Parent[x] = e
                        \/ \E i \in DOMAIN stack' : x \in stack'[i].todo
    OBVIOUS
  <2>2. kind[x] = "gone" \/ Parent[x] \in U \/ \E i \in DOMAIN stack : x \in stack[i].todo
    BY <1>2 DEF Covered, Ahead
  <2>3. \A i \in DOMAIN stack : x \in stack[i].todo => x \in stack'[i].todo
    BY <1>2, <1>3
  <2>4. QED
    BY <1>2, <2>2, <2>3
<1>5. \A x \in Entries \ U : Wanted(kind[x]) <=> x \in Listed
  BY <1>2 DEF Covered, NotYet
<1>6. pc' \in Ahead /\ pc' \in NotYet
  BY <1>2 DEF Ahead, NotYet
<1>7. \A x \in Entries \ (U \ {e}) : x = Here' \/ (Wanted(kind[x]) <=> x \in Listed)
  BY <1>2, <1>5
<1>8. QED
  BY <1>1, <1>2, <1>4, <1>6, <1>7 DEF Covered, Wanted

LEMMA CloseDirCovers ==
    ASSUME BInv, CloseDir, Listed' = Listed, pc' = "release", NEW U \in SUBSET Entries, Covered(U)
    PROVE  Covered(U)'
<1>1. /\ AInv /\ stack \in Seq(Frame) /\ Nested /\ stack # <<>> /\ stack' = Tail(stack)
      /\ pc = "read" /\ kind' = kind /\ opts' = opts /\ Head(stack).todo = {}
  BY DEF BInv, CloseDir, closedir, Goto, AInv, Nested, InWalk, AtHand, calm, tree
<1>2. /\ stack' \in Seq(Frame) /\ Len(stack') = Len(stack) - 1 /\ Len(stack) \in Nat \ {0}
      /\ Head(stack) = stack[1] /\ \A i \in 1..Len(stack) - 1 : stack'[i] = stack[i + 1]
  BY <1>1, Popped
<1>3. DOMAIN stack = 1..Len(stack) /\ DOMAIN stack' = 1..Len(stack) - 1
  BY <1>1, <1>2, LenProperties
<1>4. \A i \in DOMAIN stack : i # 1 => i - 1 \in DOMAIN stack' /\ stack'[i - 1] = stack[i]
  <2>1. SUFFICES ASSUME NEW i \in DOMAIN stack, i # 1
                 PROVE  i - 1 \in DOMAIN stack' /\ stack'[i - 1] = stack[i]
    OBVIOUS
  <2>2. i - 1 \in 1..Len(stack) - 1 /\ (i - 1) + 1 = i
    BY <1>2, <1>3, <2>1
  <2>3. QED
    BY <1>2, <1>3, <2>2
<1>5. ASSUME NEW e \in U
      PROVE  kind[e] = "gone" \/ Parent[e] \in U \/ \E i \in DOMAIN stack' : e \in stack'[i].todo
  <2>1. kind[e] = "gone" \/ Parent[e] \in U \/ \E i \in DOMAIN stack : e \in stack[i].todo
    BY <1>1 DEF Covered, Ahead
  <2>2. ASSUME NEW i \in DOMAIN stack, e \in stack[i].todo
        PROVE  \E j \in DOMAIN stack' : e \in stack'[j].todo
    <3>1. i # 1
      BY <1>1, <1>2, <2>2
    <3>2. i - 1 \in DOMAIN stack' /\ e \in stack'[i - 1].todo
      BY <1>4, <2>2, <3>1
    <3>3. QED
      BY <3>2
  <2>3. QED
    BY <2>1, <2>2
<1>6. \A e \in Entries \ U : Wanted(kind[e]) <=> e \in Listed
  BY <1>1 DEF Covered, NotYet
<1>7. kind = FirstKind
  BY DEF Covered
<1>8. QED
  BY <1>1, <1>5, <1>6, <1>7 DEF Covered, Wanted, NotYet, Ahead

LEMMA CoveredStep ==
    ASSUME BInv, Next, HeapFollows, pc \in Looking, pc' \in Looking, ~disturbed', ~ReadEntry,
           NEW U \in SUBSET Entries, Covered(U)
    PROVE  Covered(U)'
<1>1. AInv /\ CellsOK /\ Listed' = NextListed /\ pc' \notin Leaving /\ pc' # "sort" /\ kind = FirstKind
  BY DEF BInv, HeapFollows, Looking, InWalk, AtHand, Leaving, Ended, Exits, Covered
<1>2. \A e \in Entries \ U : (pc \in NotYet /\ e = Here) \/ (Wanted(kind[e]) <=> e \in Listed)
  BY DEF Covered
<1>3. pc \in NotYet \ {"match"} => Wanted(kind[Here])
  BY DEF Covered
<1>4. CASE create_file_list \/ Publish \/ Release \/ CountUp
  <2>1. /\ stack' = stack /\ UNCHANGED <<tree, opts>> /\ pc \notin NotYet /\ pc' \notin NotYet
        /\ pc \in Ahead => pc' \in Ahead
        /\ pc \notin {"copy", "free"}
    BY <1>4 DEF create_file_list, Publish, Release, CountUp, Goto, calm, NotYet, Ahead
  <2>2. Listed' = Listed
    BY <1>1, <2>1 DEF NextListed
  <2>3. QED
    BY <1>2, <2>1, <2>2, CoveredKept
<1>5. CASE GrowList \/ StoreItems \/ HasRoom
  <2>1. /\ stack' = stack /\ UNCHANGED <<tree, opts>> /\ pc \in NotYet \ {"match"} /\ pc' \in NotYet \ {"match"}
        /\ pc' \in Ahead /\ pc \notin {"copy", "free"}
    BY <1>5 DEF GrowList, StoreItems, HasRoom, Goto, calm, NotYet, Ahead
  <2>2. Listed' = Listed
    BY <1>1, <2>1 DEF NextListed
  <2>3. QED
    BY <1>2, <1>3, <2>1, <2>2, CoveredKept
<1>6. CASE match_type
  <2>1. /\ stack' = stack /\ UNCHANGED <<tree, opts>> /\ pc = "match" /\ pc' \in Ahead
        /\ pc' = IF Wanted(kind[Here]) THEN "room" ELSE "descend"
    BY <1>6 DEF match_type, Goto, calm, Ahead
  <2>2. Listed' = Listed /\ Here \notin Listed
    BY <1>1, <2>1 DEF NextListed, CellsOK, NotYet
  <2>3. \A e \in Entries \ U : (pc' \in NotYet /\ e = Here) \/ (Wanted(kind[e]) <=> e \in Listed')
    <3>1. CASE Wanted(kind[Here])
      <4>1. pc' \in NotYet
        BY <2>1, <3>1 DEF NotYet
      <4>2. QED
        BY <1>2, <2>2, <4>1
    <3>2. CASE ~Wanted(kind[Here])
      BY <1>2, <2>2, <3>2
    <3>3. QED
      BY <3>1, <3>2
  <2>4. pc' \in NotYet \ {"match"} => Wanted(kind[Here])
    BY <2>1 DEF NotYet
  <2>5. QED
    BY <2>1, <2>3, <2>4, CoveredKept
<1>7. CASE CopyPath
  <2>1. /\ stack' = stack /\ UNCHANGED <<tree, opts>> /\ pc = "copy" /\ pc' = "count"
        /\ pc' \in Ahead /\ pc' \notin NotYet /\ pc \in NotYet \ {"match"}
    BY <1>7 DEF CopyPath, Goto, calm, Ahead, NotYet
  <2>2. Listed' = Listed \cup {Here}
    BY <1>1, <2>1 DEF NextListed
  <2>3. \A e \in Entries \ U : Wanted(kind[e]) <=> e \in Listed'
    BY <1>2, <1>3, <2>1, <2>2
  <2>4. QED
    BY <2>1, <2>3, CoveredKept
<1>8. CASE Descend
  <2>1. /\ stack' = stack /\ UNCHANGED <<tree, opts>> /\ pc = "descend" /\ pc' \notin NotYet /\ pc \notin NotYet
        /\ pc' = IF kind[Here] = "dir" THEN "open" ELSE "release"
    BY <1>8 DEF Descend, MayDescend, Goto, calm, NotYet
  <2>2. Listed' = Listed
    BY <1>1, <2>1 DEF NextListed
  <2>3. Here \in Entries
    <3>1. stack # <<>> /\ stack \in Seq(Frame) /\ Nested
      BY <1>1, <2>1 DEF AInv, Nested, InWalk, AtHand
    <3>2. QED
      BY <2>1, <3>1, StackFacts DEF Nested, AtHand
  <2>4. \A e \in Entries : Parent[e] = Here => kind[e] = "gone" \/ pc' \in Ahead
    <3>1. CASE kind[Here] = "dir"
      BY <2>1, <3>1 DEF Ahead
    <3>2. CASE kind[Here] # "dir"
      BY <1>1, <2>3, <3>2, ParentsAreDirs, TreeFacts
    <3>3. QED
      BY <3>1, <3>2
  <2>5. QED
    BY <1>2, <2>1, <2>2, <2>4, CoveredKept
<1>9. CASE OpenDir
  <2>1. Listed' = Listed
    BY <1>1, <1>9 DEF NextListed, OpenDir, Goto
  <2>2. QED
    BY <1>9, <2>1, OpenDirCovers
<1>10. CASE CloseDir
  <2>1. Listed' = Listed /\ pc' = "release"
    BY <1>1, <1>10 DEF NextListed, CloseDir, closedir, Goto
  <2>2. QED
    BY <1>10, <2>1, CloseDirCovers
<1>11. ~(OpenFails \/ TreeChanges)
  BY DEF OpenFails, TreeChanges
<1>12. ~(Sorting \/ QSortDone \/ NothingToSort \/ print_file_list \/ FreeNext)
  BY DEF Sorting, QSortDone, NothingToSort, print_file_list, FreeNext, Goto, Looking, InWalk, AtHand
<1>13. ~(AllocationFails \/ Exit \/ sigint_handler \/ Stop)
  BY <1>1, Leaves
<1>14. QED
  BY <1>4, <1>5, <1>6, <1>7, <1>8, <1>9, <1>10, <1>11, <1>12, <1>13 DEF Next, Walk

LEMMA Disturbs == AInv /\ Next /\ disturbed => disturbed'
  BY DEF AInv, Simple, Next, Walk, create_file_list, Publish, OpenDir, OpenFails, ReadEntry,
     CloseDir, closedir, match_type,
         Descend, Release, GrowList, StoreItems, HasRoom, CopyPath, CountUp, Sorting, QSortDone,
         NothingToSort,
         print_file_list, FreeNext, AllocationFails, CreateFails, PathFails, ReallocFails,
       CopyFails, Exit, sigint_handler, TreeChanges, Stop, vars,
         calm, tree

LEMMA LooksOn == Next /\ pc' \in Looking => pc \in Looking
  BY DEF Next, Walk, create_file_list, Publish, OpenDir, OpenFails, ReadEntry, CloseDir, closedir, match_type,
         Descend, Release, GrowList, StoreItems, HasRoom, CopyPath, CountUp, Sorting, QSortDone,
         NothingToSort,
         print_file_list, FreeNext, AllocationFails, CreateFails, PathFails, ReallocFails,
       CopyFails, Exit, sigint_handler, TreeChanges, Stop, vars, Goto,
         Looking, InWalk, AtHand, Leaving, Ended, Exits

LEMMA WalkStep == BInv /\ Next /\ AInv' => WalkOK'
<1>1. SUFFICES ASSUME BInv, Next, AInv', pc' \in Looking
               PROVE  \E V \in SUBSET Entries : Frontier(V)' /\ (~disturbed' => Covered(V)')
  BY DEF WalkOK, Looking
<1>2. /\ AInv /\ pc \in Looking /\ pc' \notin Leaving /\ HeapFollows /\ Listed' = NextListed
      /\ disturbed \in BOOLEAN /\ disturbed' \in BOOLEAN
  <2>1. pc' \notin Leaving
    BY <1>1 DEF Looking, InWalk, AtHand, Leaving, Ended, Exits
  <2>2. QED
    BY <1>1, <2>1, HeapStep, LooksOn DEF BInv, HeapFollows, AInv, Simple
<1>3. PICK U \in SUBSET Entries : Frontier(U) /\ (~disturbed => Covered(U))
  BY <1>1, <1>2 DEF BInv, WalkOK, Looking
<1>4. ~disturbed' => ~disturbed
  BY <1>1, <1>2, Disturbs
<1>5. CASE ReadEntry
  <2>1. PICK e \in Entries : ReadsThere(e)
    BY <1>2, <1>5, ReadEntryHolds
  <2>2. Listed' = Listed
    BY <1>2, <2>1 DEF ReadsThere, NextListed
  <2>3. Frontier(U \ {e})'
    BY <1>1, <1>3, <2>1, <2>2, ReadEntryFrontier
  <2>4. ~disturbed' => Covered(U \ {e})'
    BY <1>1, <1>3, <1>4, <1>5, <2>1, <2>2, ReadEntryCovers
  <2>5. QED
    BY <2>3, <2>4
<1>6. CASE ~ReadEntry
  <2>1. Frontier(U)'
    BY <1>1, <1>2, <1>3, <1>6, FrontierStep
  <2>2. ~disturbed' => Covered(U)'
    BY <1>1, <1>2, <1>3, <1>4, <1>6, CoveredStep
  <2>3. QED
    BY <2>1, <2>2
<1>7. QED
  BY <1>5, <1>6

LEMMA InitB == Init => BInv
<1>1. SUFFICES ASSUME Init PROVE BInv
  OBVIOUS
<1>2. AInv /\ pc = "start" /\ stack = <<>> /\ heap = {} /\ fault = FALSE /\ g_file_list = FALSE /\ size = 0
      /\ next = 0 /\ kind = FirstKind
  BY <1>1, InitA DEF Init
<1>3. /\ Listed = {} /\ Held = {} /\ Opened = {} /\ Used = {} /\ Alive = {}
  BY <1>2 DEF Listed, Held, Opened, Used, Alive
<1>4. HeapOK
  <2>1. ListBlocks \cup ItemBlocks = {}
    BY <1>2 DEF ListBlocks, ItemBlocks
  <2>2. QED
    BY <1>2, <1>3, <2>1 DEF HeapOK, Blocks
<1>5. CellsOK
  <2>1. cells \in Cells
    BY <1>1 DEF Init, Cells
  <2>2. 0 <= Cardinality(Entries)
    BY TreeFacts, FS_CardinalityType
  <2>3. Names
    BY <1>2, <1>3 DEF Names
  <2>4. QED
    BY <1>2, <2>1, <2>2, <2>3 DEF CellsOK, NotYet
<1>6. WalkOK
  <2>1. Frontier(Entries)
    BY <1>2, <1>3 DEF Frontier, AtHand
  <2>2. Covered(Entries)
    <3>1. \A e \in Entries : Parent[e] \in Entries \/ Parent[e] = Here
      BY <1>2, TreeFacts DEF Here
    <3>2. QED
      BY <1>2, <3>1 DEF Covered, Ahead, NotYet
  <2>3. QED
    BY <2>1, <2>2 DEF WalkOK
<1>7. QED
  BY <1>2, <1>4, <1>5, <1>6 DEF BInv

LEMMA StepB == BInv /\ [Next]_vars => BInv'
<1>1. SUFFICES ASSUME BInv, [Next]_vars PROVE BInv'
  OBVIOUS
<1>2. CASE Next
  <2>1. AInv'
    BY <1>1, <1>2, StepA DEF BInv
  <2>2. HeapOK'
    <3>1. CASE pc' \in Leaving
      BY <3>1 DEF HeapOK
    <3>2. CASE pc' \notin Leaving
      BY <1>1, <1>2, <2>1, <3>2, HeapStep DEF HeapFollows
    <3>3. QED
      BY <3>1, <3>2
  <2>3. CellsOK'
    BY <1>1, <1>2, <2>1, CellsStep DEF BInv
  <2>4. WalkOK'
    BY <1>1, <1>2, <2>1, WalkStep DEF BInv
  <2>5. QED
    BY <2>1, <2>2, <2>3, <2>4 DEF BInv
<1>3. CASE UNCHANGED vars
  <2>1. AInv'
    BY <1>1, <1>3 DEF vars, tree, list, BInv, AInv, Simple, Nested, Room, Here
  <2>2. HeapOK'
    BY <1>1, <1>3 DEF vars, tree, list, BInv, HeapOK, Alive, Used, Listed, Opened, Held,
       ListBlocks, ItemBlocks, Block
  <2>3. CellsOK'
    BY <1>1, <1>3 DEF vars, tree, list, BInv, CellsOK, Names, Alive, Used, Listed, Here
  <2>4. WalkOK'
    <3>1. \A U : Frontier(U)' <=> Frontier(U)
      BY <1>3 DEF vars, tree, list, Listed, Here, Frontier
    <3>2. \A U : Covered(U)' <=> Covered(U)
      BY <1>3 DEF vars, tree, list, Listed, Here, Covered, Wanted
    <3>3. pc' = pc /\ disturbed' = disturbed
      BY <1>3 DEF vars, tree
    <3>4. QED
      BY <1>1, <3>1, <3>2, <3>3 DEF BInv, WalkOK
  <2>5. QED
    BY <2>1, <2>2, <2>3, <2>4 DEF BInv
<1>4. QED
  BY <1>1, <1>2, <1>3

LEMMA BHolds == Spec => []BInv
<1>1. QED
  BY InitB, StepB, PTL DEF Spec

-----------------------------------------------------------------------------
(* What the program frees *)

\* On the way to exit the list is as sound as it was in the walk, unless its
\* items are lost: all the handler frees is live and stands in one cell, and
\* the other blocks belong to the directories still open.
ExitOK ==
    /\ pc \notin Ended => ~fault /\ (items = NULL => pc = "unset")
    /\ pc = "exit" /\ g_file_list =>
         /\ Owned \subseteq heap /\ \A i, j \in Used : cells[i] = cells[j] => i = j
         /\ heap \ Owned \subseteq {Path(e) : e \in Entered} \cup {Stream(d) : d \in Opened}

DInv == BInv /\ ExitOK

\* While the program runs, outside the windows.
LEMMA OwnedRunning ==
    ASSUME BInv, pc \notin Leaving \cup Windows, g_file_list
    PROVE  /\ Owned \subseteq heap /\ \A i, j \in Used : cells[i] = cells[j] => i = j
           /\ \A b \in heap \ Owned : \/ b \in {Path(e) : e \in Held} \cup {Stream(d) : d \in Opened}
                                      \/ pc = "count" /\ b = String(Here)
<1>1. /\ Simple /\ heap = Blocks(ListBlocks \cup ItemBlocks, Listed, Held, Opened) /\ Names
      /\ pc \notin {"start", "publish", "moved", "free"}
  BY DEF BInv, AInv, HeapOK, CellsOK, Windows
<1>2. ListBlocks \cup ItemBlocks = {ListBlock, Items(items)} /\ Alive = Used
  BY <1>1 DEF ListBlocks, ItemBlocks, Block, Alive
<1>3. ListBlock \in heap /\ Items(items) \in heap
  BY <1>1, <1>2 DEF Blocks
<1>4. \A i \in Used : cells[i] \in Listed
  BY <1>1, <1>2 DEF Names
<1>5. \A i \in Used : String(cells[i]) \in heap
  BY <1>4 DEF Listed
<1>6. \A i, j \in Used : cells[i] = cells[j] => i = j
  BY <1>1 DEF Names
<1>7. ASSUME NEW b \in heap \ Owned
      PROVE  \/ b \in {Path(e) : e \in Held} \cup {Stream(d) : d \in Opened}
             \/ pc = "count" /\ b = String(Here)
  <2>1. CASE b \in ListBlocks \cup ItemBlocks
    BY <1>2, <1>7, <2>1 DEF Owned
  <2>2. CASE \E e \in Listed : b = String(e)
    <3>1. PICK e \in Listed : b = String(e)
      BY <2>2
    <3>2. \A i \in Used : e # cells[i]
      BY <1>7, <3>1 DEF Owned
    <3>3. pc = "count" /\ e = Here
      BY <1>1, <1>2, <3>2 DEF Names
    <3>4. QED
      BY <3>1, <3>3
  <2>3. QED
    BY <1>1, <1>7, <2>1, <2>2 DEF Blocks
<1>8. QED
  BY <1>3, <1>5, <1>6, <1>7 DEF Owned

LEMMA HeldIsEntered == Held \subseteq Entered
  BY DEF Held, Entered

\* The same wherever the handler may come but in the windows.
LEMMA OwnedLive ==
    ASSUME DInv, pc \notin Ended \cup Windows, g_file_list
    PROVE  /\ Owned \subseteq heap /\ \A i, j \in Used : cells[i] = cells[j] => i = j
           /\ \A b \in heap \ Owned :
                \/ b \in {Path(e) : e \in Entered} \cup {Stream(d) : d \in Opened}
                \/ pc = "count" /\ b = String(Here)
<1>1. CASE pc \in Leaving
  BY <1>1 DEF DInv, ExitOK, Leaving, Exits, Windows
<1>2. CASE pc \notin Leaving
  BY <1>2, OwnedRunning, HeldIsEntered DEF DInv
<1>3. QED
  BY <1>1, <1>2

\* No step but that of the handler frees what is not live.
LEMMA NoFault ==
    ASSUME DInv, Next, ~sigint_handler, BInv'
    PROVE  fault' = fault
<1>1. fault \in BOOLEAN /\ fault' \in BOOLEAN /\ AInv
  BY DEF DInv, BInv, AInv, Simple
<1>2. CASE pc \notin Ended /\ pc' \notin Leaving
  BY <1>1, <1>2 DEF DInv, BInv, HeapOK, ExitOK
<1>3. CASE PathFails
  <2>1. Head(stack).dir \in Opened /\ pc = "read"
    BY <1>1, <1>3, CloseHolds
  <2>2. Stream(Head(stack).dir) \in heap
    BY <2>1 DEF DInv, BInv, HeapOK, Leaving, Ended, Exits, Blocks
  <2>3. QED
    BY <1>1, <1>3, <2>2 DEF PathFails, closedir, Free
<1>4. CASE (pc \in Ended \/ pc' \in Leaving) /\ ~PathFails
  BY <1>4 DEF Next, Walk, create_file_list, Publish, OpenDir, OpenFails, ReadEntry, CloseDir,
     match_type, Descend, Release, GrowList, StoreItems, HasRoom, CopyPath, CountUp, Sorting,
     QSortDone, NothingToSort, print_file_list, FreeNext, AllocationFails, CreateFails,
     ReallocFails, CopyFails, Exit, TreeChanges, Stop, Allocate, Goto, Leaving, Ended, Exits,
     vars, memory
<1>5. QED
  BY <1>2, <1>3, <1>4

\* The list loses its items nowhere else.
LEMMA KeepsItems ==
    ASSUME DInv, Next, pc' \notin Ended, items' = NULL
    PROVE  pc' = "unset"
<1>1. items \in Nat /\ items + 1 # NULL
  <2>1. items \in Nat
    BY DEF DInv, BInv, AInv, Simple
  <2>2. QED
    BY <2>1 DEF NULL
<1>2. CASE ReallocFails
  BY <1>2 DEF ReallocFails, Goto
<1>3. CASE ~ReallocFails
  <2>1. items' = items
    BY <1>1, <1>3 DEF Next, Walk, create_file_list, Publish, OpenDir, OpenFails, ReadEntry,
       CloseDir, match_type, Descend, Release, GrowList, StoreItems, HasRoom, CopyPath, CountUp,
       Sorting, QSortDone, NothingToSort, print_file_list, FreeNext, AllocationFails,
       CreateFails, PathFails, CopyFails, Exit, sigint_handler, TreeChanges, Stop, vars, list
  <2>2. pc \notin Ended /\ (pc = "unset" => pc' = "unset")
    BY <1>3 DEF Next, Walk, create_file_list, Publish, OpenDir, OpenFails, ReadEntry,
       CloseDir, match_type, Descend, Release, GrowList, StoreItems, HasRoom, CopyPath, CountUp,
       Sorting, QSortDone, NothingToSort, print_file_list, FreeNext, AllocationFails,
       CreateFails, PathFails, CopyFails, Exit, sigint_handler, TreeChanges, Stop, vars, Goto,
       Ended, Exits
  <2>3. QED
    BY <2>1, <2>2 DEF DInv, ExitOK
<1>4. QED
  BY <1>2, <1>3

LEMMA ExitStep == DInv /\ Next /\ BInv' => ExitOK'
<1>1. SUFFICES ASSUME DInv, Next, BInv' PROVE ExitOK'
  OBVIOUS
<1>2. AInv /\ HeapOK /\ CellsOK
  BY <1>1 DEF DInv, BInv
<1>3. pc' \notin Ended => ~fault' /\ (items' = NULL => pc' = "unset")
  <2>1. SUFFICES ASSUME pc' \notin Ended PROVE ~fault'
    BY <1>1, KeepsItems
  <2>2. ~sigint_handler /\ pc \notin Ended
    BY <1>1, <2>1 DEF Next, Walk, create_file_list, Publish, OpenDir, OpenFails, ReadEntry,
       CloseDir, match_type, Descend, Release, GrowList, StoreItems, HasRoom, CopyPath, CountUp,
       Sorting, QSortDone, NothingToSort, print_file_list, FreeNext, AllocationFails,
       CreateFails, PathFails, ReallocFails, CopyFails, Exit, sigint_handler, TreeChanges, Stop,
       vars, Goto, Ended, Exits
  <2>3. QED
    BY <1>1, <2>2, NoFault DEF DInv, ExitOK
<1>4. ASSUME pc' = "exit", g_file_list'
      PROVE  /\ Owned' \subseteq heap' /\ \A i, j \in Used' : cells'[i] = cells'[j] => i = j
             /\ heap' \ Owned' \subseteq {Path(e) : e \in Entered'} \cup {Stream(d) : d \in Opened'}
  <2>1. PathFails \/ CopyFails \/ CreateFails \/ TreeChanges
    BY <1>1, <1>4 DEF Next, Walk, create_file_list, Publish, OpenDir, OpenFails, ReadEntry,
       CloseDir, match_type, Descend, Release, GrowList, StoreItems, HasRoom, CopyPath, CountUp,
       Sorting, QSortDone, NothingToSort, print_file_list, FreeNext, AllocationFails,
       ReallocFails, Exit, sigint_handler, Stop, vars, Goto, Ended, Exits
  <2>2. CASE PathFails
    <3>1. /\ pc = "read" /\ heap' = heap \ {Stream(Head(stack).dir)}
          /\ UNCHANGED <<g_file_list, size, items, cells>>
      BY <2>2 DEF PathFails, closedir, Free, Goto, calm, list
    <3>2. Entered' = Held /\ Opened' = Opened \ {Head(stack).dir}
      BY <1>2, <2>2, CloseHolds
    <3>3. /\ Owned \subseteq heap /\ \A i, j \in Used : cells[i] = cells[j] => i = j
          /\ \A b \in heap \ Owned : b \in {Path(e) : e \in Held} \cup {Stream(d) : d \in Opened}
      BY <1>1, <1>4, <3>1, OwnedRunning DEF DInv, Leaving, Ended, Exits, Windows
    <3>4. Owned' = Owned /\ Used' = Used
      BY <3>1 DEF Owned, Used
    <3>5. Stream(Head(stack).dir) \notin Owned
      <4>1. items \in Nat
        BY <1>2 DEF AInv, Simple
      <4>2. QED
        BY <4>1, Apart DEF Owned, Own
    <3>6. QED
      BY <3>1, <3>2, <3>3, <3>4, <3>5
  <2>3. CASE CopyFails
    <3>1. /\ pc = "copy" /\ UNCHANGED <<heap, stack, size, items, g_file_list>>
          /\ cells' = [cells EXCEPT ![size] = Unset]
      BY <2>3 DEF CopyFails, Slot, Goto, calm, memory
    <3>2. /\ Owned \subseteq heap /\ \A i, j \in Used : cells[i] = cells[j] => i = j
          /\ \A b \in heap \ Owned : b \in {Path(e) : e \in Held} \cup {Stream(d) : d \in Opened}
      BY <1>1, <1>4, <3>1, OwnedRunning DEF DInv, Leaving, Ended, Exits, Windows
    <3>3. \A i \in Used : cells'[i] = cells[i]
      <4>1. \A i \in Used : i # size
        BY <1>2 DEF AInv, Room, Used
      <4>2. QED
        BY <3>1, <4>1
    <3>4. Owned' = Owned /\ Used' = Used /\ Opened' = Opened /\ Entered' = Entered
      BY <3>1, <3>3 DEF Owned, Used, Opened, Entered
    <3>5. QED
      BY <3>1, <3>2, <3>3, <3>4, HeldIsEntered
  <2>4. CASE CreateFails
    BY <1>2, <1>4, <2>4 DEF CreateFails, Goto, calm, HeapOK, Leaving, Ended, Exits
  <2>5. CASE TreeChanges
    <3>1. UNCHANGED <<pc, heap, stack, size, items, cells, g_file_list>>
      BY <2>5 DEF TreeChanges, list, memory
    <3>2. Owned' = Owned /\ Used' = Used /\ Opened' = Opened /\ Entered' = Entered
      BY <3>1 DEF Owned, Used, Opened, Entered
    <3>3. QED
      BY <1>1, <1>4, <3>1, <3>2 DEF DInv, ExitOK
  <2>6. QED
    BY <2>1, <2>2, <2>3, <2>4, <2>5
<1>5. QED
  BY <1>3, <1>4 DEF ExitOK

LEMMA DHolds == Spec => []DInv
<1>1. Init => DInv
  <2>1. Init => ExitOK
    BY DEF Init, ExitOK, NULL
  <2>2. QED
    BY <2>1, InitB DEF DInv
<1>2. DInv /\ [Next]_vars => DInv'
  <2>1. SUFFICES ASSUME DInv, [Next]_vars PROVE DInv'
    OBVIOUS
  <2>2. BInv'
    BY <2>1, StepB DEF DInv
  <2>3. CASE Next
    BY <2>1, <2>2, <2>3, ExitStep DEF DInv
  <2>4. CASE UNCHANGED vars
    BY <2>1, <2>2, <2>4 DEF DInv, ExitOK, vars, list, Owned, Used, Opened, Entered
  <2>5. QED
    BY <2>3, <2>4, <2>1
<1>3. QED
  BY <1>1, <1>2, PTL DEF Spec

\* free and realloc are given live blocks only, in the program (dirwalk.c:28-181)
\* and in the handler wherever it comes, before a call of exit too, but while
\* realloc has moved the items or has failed and qsort or free_file_list is at work.
THEOREM FreedOnceHolds == Spec => FreedOnce
<1>1. DInv /\ [Next]_vars => [fault' # fault => pc' = "interrupted" /\ pc \in Windows]_vars
  <2>1. SUFFICES ASSUME DInv, Next, fault' # fault PROVE pc' = "interrupted" /\ pc \in Windows
    OBVIOUS
  <2>2. BInv'
    BY <2>1, StepB DEF DInv
  <2>3. sigint_handler
    BY <2>1, <2>2, NoFault
  <2>4. pc \notin Ended /\ pc' = "interrupted" /\ g_file_list
    BY <2>1, <2>3 DEF sigint_handler, memory
  <2>5. CASE items = NULL
    BY <2>1, <2>4, <2>5 DEF DInv, ExitOK, Windows
  <2>6. CASE items # NULL
    <3>1. fault' = \/ ~(Owned \subseteq heap) \/ \E i, j \in Used : i # j /\ cells[i] = cells[j]
      BY <2>3, <2>4, <2>6 DEF sigint_handler
    <3>2. fault \in BOOLEAN /\ ~fault
      BY <2>1, <2>4 DEF DInv, ExitOK, BInv, AInv, Simple
    <3>3. QED
      BY <2>1, <2>4, <3>1, <3>2, OwnedLive
  <2>7. QED
    BY <2>5, <2>6
<1>2. QED
  BY <1>1, DHolds, PTL DEF Spec, FreedOnce

\* A walk that ends has freed all; SIGINT leaves the paths and streams at hand
\* and the string that is not counted yet (dirwalk.c:28-36, 107-181).
THEOREM NothingLeaksHolds == Spec => NothingLeaks
<1> DEFINE Ends == pc' = "done" => heap' = {}
           Stops == pc' = "interrupted" /\ g_file_list /\ pc \notin Windows =>
                      \A b \in heap' : \/ \E i \in DOMAIN stack :
                                            b \in {Stream(stack[i].dir), Path(stack[i].entry)}
                                       \/ pc = "count" /\ b = String(Here)
<1>1. BInv /\ Next => Ends \/ UNCHANGED vars
  <2>1. SUFFICES ASSUME BInv, Next, pc' = "done", ~UNCHANGED vars PROVE heap' = {}
    OBVIOUS
  <2>2. FreeNext /\ next = size + 2 /\ heap' = heap /\ pc = "free"
    BY <2>1 DEF Next, Walk, create_file_list, Publish, OpenDir, OpenFails, ReadEntry, CloseDir, closedir,
         match_type, Descend, Release, GrowList, StoreItems, HasRoom, CopyPath, CountUp, Sorting,
         QSortDone,
         NothingToSort, print_file_list, FreeNext, AllocationFails, CreateFails, PathFails, ReallocFails,
       CopyFails, Exit, sigint_handler, TreeChanges,
         Stop, Goto,
         Leaving, Ended, Exits, memory
  <2>3. /\ stack = <<>> /\ size \in Nat /\ Names /\ heap = Blocks(ListBlocks \cup ItemBlocks, Listed, Held, Opened)
    BY <2>1, <2>2 DEF BInv, AInv, Nested, InWalk, AtHand, Leaving, Ended, Exits, Room, CellsOK, HeapOK
  <2>4. Held = {} /\ Opened = {}
    BY <2>3 DEF Held, Opened
  <2>5. ~(next <= size) /\ ~(next <= size + 1)
    BY <2>2, <2>3
  <2>6. ListBlocks \cup ItemBlocks = {}
    BY <2>2, <2>5 DEF ListBlocks, ItemBlocks
  <2>7. Listed = {}
    <3>1. Alive = {}
      BY <2>2, <2>3 DEF Alive, Used
    <3>2. QED
      BY <2>2, <2>3, <3>1 DEF Names
  <2>8. QED
    BY <2>2, <2>3, <2>4, <2>6, <2>7 DEF Blocks
<1>2. DInv /\ Next => Stops \/ UNCHANGED vars
  <2>1. SUFFICES ASSUME DInv, Next, ~UNCHANGED vars, pc' = "interrupted", g_file_list, pc \notin Windows,
                        NEW b \in heap'
                 PROVE  \/ \E i \in DOMAIN stack : b \in {Stream(stack[i].dir), Path(stack[i].entry)}
                        \/ pc = "count" /\ b = String(Here)
    OBVIOUS
  <2>2. sigint_handler
    BY <2>1 DEF Next, Walk, create_file_list, Publish, OpenDir, OpenFails, ReadEntry, CloseDir,
       match_type, Descend, Release, GrowList, StoreItems, HasRoom, CopyPath, CountUp, Sorting,
       QSortDone, NothingToSort, print_file_list, FreeNext, AllocationFails, CreateFails,
       PathFails, ReallocFails, CopyFails, Exit, TreeChanges, Stop, Goto, Ended
  <2>3. pc \notin Ended /\ items # NULL /\ heap' = heap \ Owned
    BY <2>1, <2>2 DEF sigint_handler, DInv, ExitOK, Windows
  <2>4. \/ b \in {Path(e) : e \in Entered} \cup {Stream(d) : d \in Opened}
        \/ pc = "count" /\ b = String(Here)
    BY <2>1, <2>3, OwnedLive
  <2>5. QED
    BY <2>4 DEF Entered, Opened
<1>3. DInv /\ [Next]_vars => [Ends /\ Stops]_vars
  BY <1>1, <1>2 DEF DInv
<1>4. QED
  BY <1>3, DHolds, PTL DEF Spec, NothingLeaks

-----------------------------------------------------------------------------
(* What is listed, in what order, and printed *)

AllListed == Listed = {e \in Entries : Wanted(kind[e])}

\* Directories stand before what is in them, until sorted.
OrderOK ==
    /\ pc \in {"sort", "sorting", "print"} /\ ~disturbed => AllListed
    /\ pc \in Looking \cup {"sort"} \/ (pc = "print" /\ ~opts.sort) =>
         \A i, j \in Used : cells[i] \in Above[cells[j]] => i < j
    /\ pc = "print" /\ opts.sort => \A i, j \in Used : i < j => cells[i] < cells[j]

Typed ==
    /\ heap \subseteq {"list", "items", "string", "path", "stream"} \X Nat
    /\ printed \in Seq(Entries)

CInv == BInv /\ OrderOK /\ Typed /\ WalkIsComplete

\* What is below the entry at hand has not been come to.
LEMMA BelowHere ==
    ASSUME NEW U \in SUBSET Entries, NEW h \in Entries, h \notin U,
           \A e \in Entries : Parent[e] \in U => e \in U,
           \A e \in Entries : Parent[e] = h => e \in U,
           NEW x \in Entries, h \in Above[x]
    PROVE  x \in U
<1> DEFINE S == {d \in Entries : d \notin U /\ d # h}
<1>1. SUFFICES ASSUME x \notin U PROVE FALSE
  OBVIOUS
<1>2. Upward(S, x)
  <2>1. SUFFICES ASSUME NEW d \in S \cup {x} PROVE Parent[d] \in S \cup {Root}
    BY DEF Upward
  <2>2. d \in Entries /\ d \notin U
    BY <1>1, <2>1
  <2>3. Parent[d] \in Entries \cup {Root} /\ Parent[d] \notin U /\ Parent[d] # h
    BY <2>2, TreeFacts
  <2>4. QED
    BY <2>3
<1>3. \A T \in SUBSET Entries : Upward(T, x) => h \in T
  BY DEF Above
<1>4. h \in S
  <2>1. S \in SUBSET Entries
    OBVIOUS
  <2> HIDE DEF S
  <2>2. QED
    BY <1>2, <1>3, <2>1
<1>5. QED
  BY <1>4

\* The walk ends when nothing is left that it could come to.
LEMMA AllIsListed ==
    ASSUME NEW U \in SUBSET Entries, Covered(U), Listed \cap U = {}, pc \notin Ahead, pc \notin NotYet,
           \A i \in DOMAIN stack : stack[i].todo = {}
    PROVE  AllListed
<1> DEFINE L == {e \in U : kind[e] # "gone"}
<1>1. kind = FirstKind /\ \A e \in Entries \ U : Wanted(kind[e]) <=> e \in Listed
  BY DEF Covered
<1>2. \A e \in L : Parent[e] \in L /\ Parent[e] < e
  <2>1. SUFFICES ASSUME NEW e \in L PROVE Parent[e] \in L /\ Parent[e] < e
    OBVIOUS
  <2>2. e \in Entries /\ e \in U /\ kind[e] # "gone"
    OBVIOUS
  <2>3. Parent[e] \in U
    BY <2>2 DEF Covered
  <2>4. Parent[e] # Root
    BY <2>3, TreeFacts
  <2>5. kind[Parent[e]] = "dir"
    BY <1>1, <2>2, <2>4, ParentsAreDirs
  <2>6. QED
    BY <2>2, <2>3, <2>5, TreeFacts
<1>3. L = {}
  <2>1. SUFFICES ASSUME L # {} PROVE FALSE
    OBVIOUS
  <2>2. L \in SUBSET Nat
    BY TreeFacts
  <2> HIDE DEF L
  <2>3. PICK m \in L : \A k \in L : m <= k
    BY <2>1, <2>2, Smallest
  <2>4. Parent[m] \in L /\ Parent[m] < m
    BY <1>2
  <2>5. m <= Parent[m] /\ m \in Nat /\ Parent[m] \in Nat
    BY <2>2, <2>3, <2>4
  <2>6. QED
    BY <2>4, <2>5
<1>4. \A e \in U : ~Wanted(kind[e])
  BY <1>3 DEF Wanted
<1>5. QED
  BY <1>1, <1>4 DEF AllListed, Listed

\* Nothing listed is below the entry at hand when it gets its cell.
LEMMA HereIsLast ==
    ASSUME BInv, pc = "count"
    PROVE  /\ Here \in Entries /\ Here \notin Above[Here]
           /\ \A i \in Used : cells[i] \in Entries /\ Here \notin Above[cells[i]]
<1>1. stack # <<>> /\ stack \in Seq(Frame) /\ Nested
  BY DEF BInv, AInv, Nested, InWalk, AtHand
<1>2. Here \in Entries
  BY <1>1, StackFacts DEF Nested, AtHand
<1>3. PICK U \in SUBSET Entries : Frontier(U)
  BY DEF BInv, WalkOK, InWalk, AtHand
<1>4. /\ \A e \in Entries : Parent[e] \in U => e \in U
      /\ \A e \in Entries : Parent[e] = Here => e \in U
      /\ Here \notin U /\ Listed \cap U = {}
  BY <1>3 DEF Frontier, AtHand, Ahead
<1>5. \A x \in Entries : Here \in Above[x] => x \in U
  BY <1>2, <1>4, BelowHere
<1>6. \A i \in Used : cells[i] \in Entries /\ cells[i] \in Listed
  <2>1. Names /\ Alive = Used
    BY DEF BInv, CellsOK, Leaving, Ended, Exits, Alive
  <2>2. QED
    BY <2>1 DEF Names
<1>7. QED
  BY <1>2, <1>4, <1>5, <1>6

InOrder == \A i, j \in Used : cells[i] \in Above[cells[j]] => i < j

LEMMA InOrderKept ==
    ASSUME InOrder, cells' = cells, size' = size
    PROVE  InOrder'
  BY DEF InOrder, Used

LEMMA OrderStep == BInv /\ OrderOK /\ Next /\ BInv' => OrderOK'
<1>1. SUFFICES ASSUME BInv, OrderOK, Next, BInv' PROVE OrderOK'
  OBVIOUS
<1>2. /\ AInv /\ CellsOK /\ size \in Nat /\ disturbed \in BOOLEAN
      /\ pc \in Looking \cup {"sort"} \/ (pc = "print" /\ ~opts.sort) => InOrder
  BY <1>1 DEF BInv, AInv, Simple, Room, OrderOK, InOrder
<1>3. CASE pc' \in Leaving \cup {"free"}
  BY <1>3 DEF OrderOK, Looking, InWalk, AtHand, Leaving, Ended, Exits
<1>4. CASE pc' \in Looking
  <2>1. InOrder /\ pc \in Looking
    BY <1>1, <1>2, <1>4, LooksOn
  <2>2. InOrder'
    <3>1. CASE CopyPath
      <4>1. cells' = [cells EXCEPT ![size] = Here] /\ size' = size /\ pc = "copy"
        BY <3>1 DEF CopyPath, Slot, Goto
      <4>2. cells \in Cells /\ size <= Cardinality(Entries)
        BY <1>2, <4>1 DEF CellsOK, Leaving, Ended, Exits
      <4>3. Used \subseteq 0..MaxCells /\ size \notin Used
        BY <1>2, <4>2, UsedCells
      <4>4. \A i \in Used : cells'[i] = cells[i]
        BY <4>1, <4>2, <4>3 DEF Cells
      <4>5. Used' = Used
        BY <4>1 DEF Used
      <4>6. QED
        BY <2>1, <4>4, <4>5 DEF InOrder
    <3>2. CASE CountUp
      <4>1. cells' = cells /\ size' = size + 1 /\ pc = "count"
        BY <3>2 DEF CountUp, Goto
      <4>2. Used' = Used \cup {size} /\ cells[size] = Here /\ \A i \in Used : i < size
        BY <1>2, <4>1 DEF Used, CellsOK
      <4>3. (\A i \in Used : Here \notin Above[cells[i]]) /\ Here \notin Above[Here]
        BY <1>1, <4>1, HereIsLast
      <4>4. QED
        BY <2>1, <4>1, <4>2, <4>3 DEF InOrder
    <3>3. CASE ~(CopyPath \/ CountUp)
      <4>1. cells' = cells /\ size' = size
        BY <1>1, <1>4, <3>3 DEF Next, Walk, create_file_list, Publish, OpenDir, OpenFails,
           ReadEntry, CloseDir, closedir,
          match_type, Descend, Release, GrowList, StoreItems, HasRoom, Sorting, QSortDone,
          NothingToSort, print_file_list, FreeNext, AllocationFails, CreateFails, PathFails, ReallocFails,
       CopyFails, Exit, sigint_handler, TreeChanges,
          Stop, Goto,
          list, vars, Looking, InWalk, AtHand
      <4>2. QED
        BY <2>1, <4>1, InOrderKept
    <3>4. QED
      BY <3>1, <3>2, <3>3
  <2>3. QED
    BY <1>4, <2>2 DEF OrderOK, InOrder, Looking, InWalk, AtHand
<1>5. CASE pc' \in {"sort", "sorting", "print"}
  <2>1. ~disturbed' => AllListed'
    <3>1. SUFFICES ASSUME ~disturbed' PROVE AllListed'
      OBVIOUS
    <3>2. ~disturbed
      BY <1>1, <1>2, <3>1, Disturbs DEF BInv, AInv, Simple
    <3>3. pc' \notin Leaving /\ Listed' = NextListed
      BY <1>1, <1>5, HeapStep DEF HeapFollows, Leaving, Ended, Exits, BInv
    <3>4. CASE pc \in Looking
      <4>1. CloseDir \/ OpenFails
        BY <1>1, <1>5, <3>4 DEF Next, Walk, create_file_list, Publish, OpenDir, ReadEntry,
          match_type, Descend, Release, GrowList, StoreItems, HasRoom, CopyPath, CountUp, Sorting,
          QSortDone,
          NothingToSort, print_file_list, FreeNext, AllocationFails, CreateFails, PathFails, ReallocFails,
       CopyFails, Exit, sigint_handler, TreeChanges,
          Stop, Goto,
          vars, Looking, InWalk, AtHand, Leaving, Ended, Exits
      <4>2. CloseDir /\ pc = "read" /\ pc' = "sort" /\ Listed' = Listed /\ kind' = kind /\ opts' = opts
        BY <1>5, <3>1, <3>3, <4>1 DEF OpenFails, CloseDir, closedir, Goto, NextListed, calm, tree
      <4>3. \A i \in DOMAIN stack : stack[i].todo = {}
        <5>1. Tail(stack) = <<>> /\ Head(stack).todo = {} /\ stack # <<>> /\ stack \in Seq(Frame)
          BY <1>2, <4>2 DEF CloseDir, closedir, Goto, AInv, Nested, InWalk, AtHand
        <5>2. Len(Tail(stack)) = Len(stack) - 1 /\ Head(stack) = stack[1] /\ Len(stack) \in Nat
          BY <5>1, Popped
        <5>3. Len(stack) = 1
          BY <5>1, <5>2
        <5>4. DOMAIN stack = 1..1
          BY <5>1, <5>3, LenProperties
        <5>5. QED
          BY <5>1, <5>2, <5>4
      <4>4. PICK U \in SUBSET Entries : Frontier(U) /\ Covered(U)
        BY <1>1, <3>2, <3>4 DEF BInv, WalkOK, Looking
      <4>5. AllListed
        BY <4>2, <4>3, <4>4, AllIsListed DEF Frontier, Ahead, NotYet
      <4>6. QED
        BY <4>2, <4>5 DEF AllListed, Wanted
    <3>5. CASE pc \notin Looking
      <4>1. pc \in {"sort", "sorting", "print"} /\ kind' = kind /\ opts' = opts
        BY <1>1, <1>5, <3>1, <3>5 DEF Next, Walk, create_file_list, Publish, OpenDir, OpenFails,
           ReadEntry, CloseDir, closedir,
          match_type, Descend, Release, GrowList, StoreItems, HasRoom, CopyPath, CountUp, Sorting,
          QSortDone,
          NothingToSort, print_file_list, FreeNext, AllocationFails, CreateFails, PathFails, ReallocFails,
       CopyFails, Exit, sigint_handler, TreeChanges,
          Stop, Goto,
          vars, calm, tree, Looking, InWalk, AtHand, Leaving, Ended, Exits
      <4>2. AllListed
        BY <1>1, <3>2, <4>1 DEF OrderOK
      <4>3. Listed' = Listed
        BY <3>3, <4>1 DEF NextListed
      <4>4. QED
        BY <4>1, <4>2, <4>3 DEF AllListed, Wanted
    <3>6. QED
      BY <3>4, <3>5
  <2>2. pc' = "sort" \/ (pc' = "print" /\ ~opts'.sort) => InOrder'
    <3>1. SUFFICES ASSUME pc' = "sort" \/ (pc' = "print" /\ ~opts'.sort) PROVE InOrder'
      OBVIOUS
    <3>2. /\ opts' = opts /\ pc # "sorting"
      <4>1. opts' = opts
        BY <1>1 DEF Next, Walk, create_file_list, Publish, OpenDir, OpenFails, ReadEntry, CloseDir, closedir,
          match_type, Descend, Release, GrowList, StoreItems, HasRoom, CopyPath, CountUp, Sorting,
          QSortDone,
          NothingToSort, print_file_list, FreeNext, AllocationFails, CreateFails, PathFails, ReallocFails,
       CopyFails, Exit, sigint_handler, TreeChanges,
          Stop, vars, calm
      <4>2. pc = "sorting" => opts.sort /\ pc' # "sort"
        BY <1>1, <1>2 DEF CellsOK, Next, Walk, create_file_list, Publish, OpenDir, OpenFails,
           ReadEntry, CloseDir, closedir,
          match_type, Descend, Release, GrowList, StoreItems, HasRoom, CopyPath, CountUp, Sorting,
          QSortDone,
          NothingToSort, print_file_list, FreeNext, AllocationFails, CreateFails, PathFails, ReallocFails,
       CopyFails, Exit, sigint_handler, TreeChanges,
          Stop, vars, Goto, Leaving, Ended, Exits
      <4>3. QED
        BY <3>1, <4>1, <4>2
    <3>3. /\ cells' = cells /\ size' = size
          /\ pc \in Looking \cup {"sort"} \/ (pc = "print" /\ ~opts.sort)
      BY <1>1, <3>1, <3>2 DEF Next, Walk, create_file_list, Publish, OpenDir, OpenFails,
         ReadEntry, CloseDir, closedir,
          match_type, Descend, Release, GrowList, StoreItems, HasRoom, CopyPath, CountUp, Sorting,
          QSortDone,
          NothingToSort, print_file_list, FreeNext, AllocationFails, CreateFails, PathFails, ReallocFails,
       CopyFails, Exit, sigint_handler, TreeChanges,
          Stop, Goto,
          vars, list, Looking, InWalk, AtHand, Leaving, Ended, Exits
    <3>4. QED
      BY <1>2, <3>3, InOrderKept
  <2>3. pc' = "print" /\ opts'.sort => \A i, j \in Used' : i < j => cells'[i] < cells'[j]
    <3>1. SUFFICES ASSUME pc' = "print", opts'.sort
                   PROVE  \A i, j \in Used' : i < j => cells'[i] < cells'[j]
      OBVIOUS
    <3>2. QSortDone \/ NothingToSort \/ TreeChanges
      BY <1>1, <3>1 DEF Next, Walk, create_file_list, Publish, OpenDir, OpenFails, ReadEntry,
         CloseDir, closedir,
          match_type, Descend, Release, GrowList, StoreItems, HasRoom, CopyPath, CountUp, Sorting,
          print_file_list, FreeNext, AllocationFails, CreateFails, PathFails, ReallocFails,
       CopyFails, Exit, sigint_handler, Stop, Goto, Leaving, Ended, Exits, vars
    <3>3. CASE QSortDone
      <4>1. pc = "sorting" /\ cells' = Sorted /\ size' = size /\ Used' = Used
        BY <3>3 DEF QSortDone, Goto, Used
      <4>2. Cardinality(Listed) = size /\ cells \in Cells /\ size <= Cardinality(Entries)
        BY <1>2, <4>1 DEF CellsOK, Leaving, Ended, Exits
      <4>3. QED
        BY <1>2, <4>1, <4>2, SortedIs
    <3>4. CASE NothingToSort
      <4>1. size = 0 /\ size' = size
        BY <3>1, <3>4 DEF NothingToSort, calm, list
      <4>2. Used' = {}
        BY <4>1 DEF Used
      <4>3. QED
        BY <4>2
    <3>5. CASE TreeChanges
      <4>1. pc = "print" /\ opts.sort /\ cells' = cells /\ Used' = Used
        BY <3>1, <3>5 DEF TreeChanges, list, Used
      <4>2. QED
        BY <1>1, <4>1 DEF OrderOK
    <3>6. QED
      BY <3>2, <3>3, <3>4, <3>5
  <2>4. QED
    BY <1>5, <2>1, <2>2, <2>3 DEF OrderOK, InOrder, Looking, InWalk, AtHand
<1>6. pc' \in Places
  BY <1>1 DEF BInv, AInv, Simple
<1>7. QED
  BY <1>3, <1>4, <1>5, <1>6 DEF Places, Leaving, Ended, Exits, Looking, InWalk, AtHand

Shown == {printed[i] : i \in DOMAIN printed}
Complete ==
    /\ Cardinality(Shown) = Len(printed)
    /\ opts.sort => \A a, b \in Shown : a < b => Precedes(a, b)
    /\ ~opts.sort => \A a, b \in Shown : a \in Above[b] => Precedes(a, b)
    /\ ~disturbed => Shown = {e \in Entries : Wanted(kind[e])}

LEMMA CompleteIs == WalkIsComplete <=> (pc \in {"free", "done"} => Complete)
  BY DEF WalkIsComplete, Complete, Shown

LEMMA PrintShows ==
    ASSUME BInv, OrderOK, print_file_list
    PROVE  Complete' /\ printed' \in Seq(Entries)
<1>1. /\ pc = "print" /\ printed' = [i \in 1..size |-> cells[i - 1]] /\ UNCHANGED <<opts, disturbed, kind>>
      /\ size \in Nat /\ CellsOK
  BY DEF print_file_list, Goto, tree, BInv, AInv, Room
<1>2. Names /\ Alive = Used /\ Used = 0..size - 1
  BY <1>1 DEF CellsOK, Leaving, Ended, Exits, Alive, Used
<1>3. /\ Listed = {cells[i] : i \in 0..size - 1} /\ \A i \in 0..size - 1 : cells[i] \in Entries
      /\ \A i, j \in 0..size - 1 : cells[i] = cells[j] => i = j
  BY <1>1, <1>2 DEF Names
<1>4. Cardinality(Listed) = size
  <2>1. Numbers(size, cells, Listed)
    BY <1>3 DEF Numbers
  <2>2. QED
    BY <1>1, <2>1, NumberedCard
<1>5. /\ DOMAIN printed' = 1..size /\ \A i \in 1..size : i - 1 \in 0..size - 1 /\ printed'[i] = cells[i - 1]
      /\ \A i \in 0..size - 1 : i + 1 \in 1..size /\ (i + 1) - 1 = i
  BY <1>1
<1>6. printed' \in Seq(Entries) /\ Len(printed') = size
  <2>1. printed' \in [1..size -> Entries]
    BY <1>1, <1>3, <1>5
  <2>2. QED
    BY <1>1, <1>5, <2>1
<1>7. \A i \in 0..size - 1 : i + 1 \in DOMAIN printed' /\ printed'[i + 1] = cells[i]
  BY <1>5
<1>8. Shown' = Listed
  BY <1>3, <1>5, <1>7 DEF Shown
<1>9. ASSUME NEW i \in 0..size - 1, NEW j \in 0..size - 1, i < j
      PROVE  \E k, l \in DOMAIN printed' : k < l /\ printed'[k] = cells[i] /\ printed'[l] = cells[j]
  <2>1. i + 1 < j + 1
    BY <1>9
  <2>2. QED
    BY <1>7, <2>1
<1>10. ASSUME opts.sort, NEW a \in Listed, NEW b \in Listed, a < b PROVE Precedes(a, b)'
  <2>1. PICK i \in 0..size - 1, j \in 0..size - 1 : cells[i] = a /\ cells[j] = b
    BY <1>3
  <2>2. j < i => cells[j] < cells[i]
    BY <1>1, <1>2, <1>10 DEF OrderOK
  <2>3. a \in Nat /\ b \in Nat
    BY TreeFacts DEF Listed
  <2>4. i < j
    BY <1>10, <2>1, <2>2, <2>3
  <2>5. QED
    BY <1>9, <2>1, <2>4 DEF Precedes
<1>11. ASSUME ~opts.sort, NEW a \in Listed, NEW b \in Listed, a \in Above[b] PROVE Precedes(a, b)'
  <2>1. PICK i \in 0..size - 1, j \in 0..size - 1 : cells[i] = a /\ cells[j] = b
    BY <1>3
  <2>2. i < j
    BY <1>1, <1>2, <1>11, <2>1 DEF OrderOK
  <2>3. QED
    BY <1>9, <2>1, <2>2 DEF Precedes
<1>12. ~disturbed => Listed = {e \in Entries : Wanted(kind[e])}
  BY <1>1 DEF OrderOK, AllListed
<1>13. Complete'
  BY <1>1, <1>4, <1>6, <1>8, <1>10, <1>11, <1>12 DEF Complete, Wanted
<1>14. QED
  BY <1>6, <1>13

LEMMA CompleteKept ==
    ASSUME Complete, printed' = printed, opts' = opts, disturbed' \/ (kind' = kind /\ disturbed' = disturbed)
    PROVE  Complete'
<1>1. Shown' = Shown /\ \A a, b : Precedes(a, b)' <=> Precedes(a, b)
  BY DEF Shown, Precedes
<1>2. QED
  BY <1>1 DEF Complete, Wanted

LEMMA CompleteStep == BInv /\ OrderOK /\ WalkIsComplete /\ Next => WalkIsComplete'
<1>1. SUFFICES ASSUME BInv, OrderOK, WalkIsComplete, Next, pc' \in {"free", "done"} PROVE Complete'
  BY CompleteIs DEF WalkIsComplete, Complete, Shown
<1>2. CASE print_file_list
  BY <1>1, <1>2, PrintShows
<1>3. CASE ~print_file_list
  <2>1. /\ pc \in {"free", "done"} /\ printed' = printed /\ opts' = opts
        /\ disturbed' \/ (kind' = kind /\ disturbed' = disturbed)
    BY <1>1, <1>3 DEF Next, Walk, create_file_list, Publish, OpenDir, OpenFails, ReadEntry,
       CloseDir, closedir,
       match_type, Descend, Release, GrowList, StoreItems, HasRoom, CopyPath, CountUp, Sorting,
       QSortDone,
       NothingToSort, FreeNext, AllocationFails, CreateFails, PathFails, ReallocFails,
       CopyFails, Exit, sigint_handler, TreeChanges, Stop, Goto, Leaving, Ended, Exits,
       vars, tree, calm, output
  <2>2. Complete
    BY <1>1, <2>1, CompleteIs
  <2>3. QED
    BY <2>1, <2>2, CompleteKept
<1>4. QED
  BY <1>2, <1>3

LEMMA TypedStep == BInv /\ OrderOK /\ Typed /\ Next /\ BInv' => Typed'
<1>1. SUFFICES ASSUME BInv, OrderOK, Typed, Next, BInv' PROVE Typed'
  OBVIOUS
<1>2. printed' \in Seq(Entries)
  <2>1. CASE print_file_list
    BY <1>1, <2>1, PrintShows
  <2>2. CASE ~print_file_list
    BY <1>1, <2>2 DEF Typed, Next, Walk, create_file_list, Publish, OpenDir, OpenFails, ReadEntry,
       CloseDir, closedir,
       match_type, Descend, Release, GrowList, StoreItems, HasRoom, CopyPath, CountUp, Sorting,
       QSortDone,
       NothingToSort, FreeNext, AllocationFails, CreateFails, PathFails, ReallocFails,
       CopyFails, Exit, sigint_handler, TreeChanges, Stop, vars, calm,
       output
  <2>3. QED
    BY <2>1, <2>2
<1>3. heap' \subseteq {"list", "items", "string", "path", "stream"} \X Nat
  <2>1. CASE pc' \in Leaving
    <3>1. CASE sigint_handler
      BY <1>1, <3>1 DEF Typed, sigint_handler, memory
    <3>2. CASE AllocationFails
      <4>1. heap' \subseteq heap \cup {ListBlock}
        BY <3>2 DEF AllocationFails, CreateFails, PathFails, ReallocFails, CopyFails, closedir,
           Allocate, Free, memory
      <4>2. QED
        BY <1>1, <4>1 DEF Typed, ListBlock
    <3>3. CASE ~sigint_handler /\ ~AllocationFails
      <4>1. heap' = heap
        BY <1>1, <2>1, <3>3 DEF Next, Walk, create_file_list, Publish, OpenDir, OpenFails,
           ReadEntry, CloseDir, match_type, Descend, Release, GrowList, StoreItems, HasRoom,
           CopyPath, CountUp, Sorting, QSortDone, NothingToSort, print_file_list, FreeNext,
           Exit, TreeChanges, Stop, Goto, Leaving, Ended, Exits, vars, memory
      <4>2. QED
        BY <1>1, <4>1 DEF Typed
    <3>4. QED
      BY <3>1, <3>2, <3>3
  <2>2. CASE pc' \notin Leaving
    <3>1. /\ heap' = Blocks(ListBlocks' \cup ItemBlocks', Listed', Held', Opened') /\ items' \in Nat
          /\ stack' \in Seq(Frame)
      BY <1>1, <2>2 DEF BInv, AInv, HeapOK, Simple
    <3>2. Entries \cup {Root} \subseteq Nat
      BY TreeFacts DEF Root
    <3>3. DOMAIN stack' = 1..Len(stack') /\ \A i \in DOMAIN stack' : stack'[i] \in Frame
      <4>1. DOMAIN stack' = 1..Len(stack')
        BY <3>1, LenProperties
      <4>2. QED
        BY <3>1, <4>1, ElementOfSeq
    <3>4. \A e \in Listed' \cup Held' \cup Opened' : e \in Nat
      BY <3>2, <3>3 DEF Listed, Held, Opened, Frame
    <3>5. \A v \in Nat : v + 1 \in Nat
      OBVIOUS
    <3>6. \A b \in ListBlocks' \cup ItemBlocks' : b \in {"list", "items"} \X Nat
      BY <3>1, <3>5 DEF ListBlocks, ItemBlocks, Block, ListBlock, Items
    <3>7. QED
      BY <3>1, <3>4, <3>6 DEF Blocks, String, Path, Stream
  <2>3. QED
    BY <2>1, <2>2
<1>4. QED
  BY <1>2, <1>3 DEF Typed

LEMMA CHolds == Spec => []CInv
<1>1. Init => CInv
  <2>1. SUFFICES ASSUME Init PROVE CInv
    OBVIOUS
  <2>2. BInv
    BY <2>1, InitB
  <2>3. pc = "start" /\ size = 0 /\ heap = {} /\ printed = <<>>
    BY <2>1 DEF Init
  <2>4. Typed /\ WalkIsComplete
    BY <2>3 DEF Typed, WalkIsComplete
  <2>5. OrderOK
    BY <2>3 DEF OrderOK, Used
  <2>6. QED
    BY <2>2, <2>4, <2>5 DEF CInv
<1>2. CInv /\ [Next]_vars => CInv'
  <2>1. SUFFICES ASSUME CInv, [Next]_vars PROVE CInv'
    OBVIOUS
  <2>2. BInv'
    BY <2>1, StepB DEF CInv
  <2>3. CASE Next
    BY <2>1, <2>2, <2>3, OrderStep, TypedStep, CompleteStep DEF CInv
  <2>4. CASE UNCHANGED vars
    <3>1. OrderOK'
      BY <2>1, <2>4 DEF CInv, vars, tree, list, OrderOK, Used, AllListed, Listed, Wanted
    <3>2. Typed'
      BY <2>1, <2>4 DEF CInv, vars, Typed
    <3>3. WalkIsComplete'
      <4>1. /\ pc' = pc /\ printed' = printed /\ opts' = opts /\ kind' = kind /\ disturbed' = disturbed
        BY <2>4 DEF vars, tree
      <4>2. Complete => Complete'
        BY <4>1, CompleteKept
      <4>3. pc \in {"free", "done"} => Complete
        BY <2>1, CompleteIs DEF CInv
      <4>4. QED
        BY <4>1, <4>2, <4>3 DEF WalkIsComplete, Complete, Shown
    <3>4. QED
      BY <2>2, <3>1, <3>2, <3>3 DEF CInv
  <2>5. QED
    BY <2>1, <2>3, <2>4
<1>3. QED
  BY <1>1, <1>2, PTL DEF Spec

\* Every variable keeps its kind, the list has room for what it names, and no
\* directory is open inside itself (dirwalk.c:76-181).
THEOREM TypesHold == Spec => []TypeOK
<1>1. CInv => TypeOK
  <2>1. SUFFICES ASSUME CInv PROVE TypeOK
    OBVIOUS
  <2>2. /\ Simple /\ stack \in Seq(Frame) /\ Nested /\ Room /\ Typed /\ cells \in Cells
    BY <2>1 DEF CInv, BInv, AInv, CellsOK
  <2>3. size \in 0..capacity /\ capacity \in Nat
    BY <2>2 DEF Room
  <2>4. \A i, j \in DOMAIN stack : i < j => stack[j].dir < stack[i].dir
    BY <2>2 DEF Nested
  <2>5. kind \in [Entries -> Kinds] /\ disturbed \in BOOLEAN /\ changes \in 0..MaxChanges
    BY <2>2 DEF Simple
  <2>6. opts \in Options /\ pc \in Places /\ g_file_list \in BOOLEAN /\ fault \in BOOLEAN
        /\ items \in Nat /\ next \in Nat
    BY <2>2 DEF Simple
  <2>7. QED
    BY <2>2, <2>3, <2>4, <2>5, <2>6 DEF TypeOK, Typed, Cells, Frame
<1>2. QED
  BY <1>1, CHolds, PTL

\* What a walk prints (dirwalk.c:107-161): nothing twice, whatever happens to the
\* tree meanwhile; in order with -s, otherwise each directory before what is in
\* it; and, if the tree could be read and stayed, all that was asked for.
THEOREM WalksHold == Spec => []WalkIsComplete
<1>1. CInv => WalkIsComplete
  BY DEF CInv
<1>2. QED
  BY <1>1, CHolds, PTL
===============================================================================
