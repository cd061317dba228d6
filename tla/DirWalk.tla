-------------------------------- MODULE DirWalk --------------------------------
(***************************************************************************)
(* lab01: dirwalk lists what is found under a directory.  The paths go into   *)
(* a growing list on the heap, which the SIGINT handler frees before it ends  *)
(* the program; it may run between any two steps of the walk.  The tree may   *)
(* change meanwhile.                                                        *)
(*                                                                         *)
(* The calls of the allocator are one step each: what happens when the        *)
(* handler calls free inside one of them is undefined and not modelled.      *)
(***************************************************************************)
EXTENDS Integers, Sequences, FiniteSets

CONSTANTS INITIAL_CAPACITY,  \* 128 in the code
          Parent,            \* of each entry, Root at the top
          FirstKind,         \* what each entry is when the program starts
          Options,           \* the options it may be called with
          MaxChanges         \* bound on the changes to the tree

Entries == DOMAIN Parent   \* numbers, in the order of strcoll
Root    == 0
Kinds   == {"file", "dir", "link", "other", "gone"}

\* -f, -d and -l as a set, none of them for all; -s.
Option == [wanted : SUBSET {"file", "dir", "link"}, sort : BOOLEAN]

ASSUME WalkAssumption ==
    /\ INITIAL_CAPACITY \in Nat \ {0} /\ MaxChanges \in Nat
    /\ Entries \subseteq Nat \ {0} /\ IsFiniteSet(Entries)
    /\ \A e \in Entries : Parent[e] = Root \/ Parent[e] \in Entries \cap 1..e - 1
    /\ FirstKind \in [Entries -> Kinds]
    /\ \A e \in Entries : FirstKind[e] # "gone" /\ Parent[e] # Root => FirstKind[Parent[e]] = "dir"
    /\ Options \subseteq Option

VARIABLES
  kind, disturbed, changes,      \* the tree; whether it changed or could not be read
  opts,
  pc, stack,                     \* the open directories, the innermost first
  size, capacity, items, cells,  \* the list; items is the rank of its allocation, or NULL
  g_file_list,                   \* whether the handler knows the list
  heap, fault,                   \* the live blocks; one was freed or read that is not
  printed, next                  \* the output; how far free_file_list has come

tree == <<kind, disturbed, changes>>
list == <<size, capacity, items, cells>>
vars == <<tree, opts, pc, stack, list, g_file_list, heap, fault, printed, next>>

Ended  == {"done", "failed", "interrupted"}
Exits  == {"unset", "exit"}   \* an allocation has failed, exit is not called yet
Places == Ended \cup Exits \cup
            {"start", "publish", "open", "read", "match", "room", "moved", "copy",
             "count", "descend", "release", "sort", "sorting", "print", "free"}

\* The blocks of the heap, each allocated for one purpose.
ListBlock == <<"list", 0>>
Items(v)  == <<"items", v>>
String(e) == <<"string", e>>
Path(e)   == <<"path", e>>
Stream(d) == <<"stream", d>>

NULL  == 0   \* the items of a list whose realloc failed
Unset == 0   \* a cell without a string
MaxCells == Cardinality(Entries) + 1

Init ==
    /\ kind = FirstKind /\ disturbed = FALSE /\ changes = 0
    /\ opts \in Options
    /\ pc = "start" /\ stack = <<>>
    /\ size = 0 /\ capacity = INITIAL_CAPACITY /\ items = 1
    /\ cells = [i \in 0..MaxCells |-> Unset]
    /\ g_file_list = FALSE
    /\ heap = {} /\ fault = FALSE
    /\ printed = <<>> /\ next = 0

Goto(from, to) == pc = from /\ pc' = to

Allocate(blocks) == heap' = heap \cup blocks /\ UNCHANGED fault
Free(blocks)     == heap' = heap \ blocks /\ fault' = (fault \/ ~(blocks \subseteq heap))

memory == <<heap, fault>>
output == <<printed, next>>
calm   == <<tree, opts, g_file_list, output>>

-----------------------------------------------------------------------------
(* The walk.  The innermost directory is the head of the stack.             *)

create_file_list ==
    /\ Goto("start", "publish") /\ Allocate({ListBlock, Items(items)})
    /\ UNCHANGED <<calm, stack, list>>

Publish ==
    /\ Goto("publish", "open") /\ g_file_list' = TRUE
    /\ UNCHANGED <<tree, opts, output, stack, list, memory>>

Contents(d) == {e \in Entries : Parent[e] = d /\ kind[e] # "gone"}

\* The directory to open: the first one, or the entry at hand.
Here == IF stack = <<>> THEN Root ELSE Head(stack).entry

OpenDir ==
    /\ Goto("open", "read") /\ (Here # Root => kind[Here] = "dir")
    /\ stack' = <<[dir |-> Here, todo |-> Contents(Here), entry |-> Root]>> \o stack
    /\ Allocate({Stream(Here)})
    /\ UNCHANGED <<calm, list>>

\* It is gone, or may not be read.
OpenFails ==
    /\ Goto("open", IF stack = <<>> THEN "sort" ELSE "release")
    /\ disturbed' = TRUE
    /\ UNCHANGED <<kind, changes, opts, g_file_list, output, stack, list, memory>>

\* readdir gives what was there at opendir, in any order; the path gets a block of its own.
ReadEntry ==
    /\ Goto("read", "match")
    /\ \E e \in Head(stack).todo :
         /\ stack' = [stack EXCEPT ![1].todo = @ \ {e}, ![1].entry = e]
         /\ Allocate({Path(e)})
    /\ UNCHANGED <<calm, list>>

closedir == stack' = Tail(stack) /\ Free({Stream(Head(stack).dir)})

CloseDir ==
    /\ Goto("read", IF Tail(stack) = <<>> THEN "sort" ELSE "release")
    /\ Head(stack).todo = {} /\ closedir
    /\ UNCHANGED <<calm, list>>

Wanted(k) == k # "gone" /\ (opts.wanted = {} \/ k \in opts.wanted)

\* lstat for the first time.
match_type ==
    /\ Goto("match", IF Wanted(kind[Here]) THEN "room" ELSE "descend")
    /\ UNCHANGED <<calm, stack, list, memory>>

NeedsRoomLate == size > capacity   \* mutant: grows one entry too late

NeedsRoom == size >= capacity

\* realloc: the new block is there, the old one gone ...
GrowList ==
    /\ NeedsRoom /\ Goto("room", "moved")
    /\ capacity' = capacity * 2
    /\ heap' = (heap \ {Items(items)}) \cup {Items(items + 1)}
    /\ UNCHANGED <<calm, stack, size, items, cells, fault>>

\* ... and the list still names the old one until here.
StoreItems ==
    /\ Goto("moved", "copy") /\ items' = items + 1
    /\ UNCHANGED <<calm, stack, size, capacity, cells, memory>>

HasRoom ==
    /\ ~NeedsRoom /\ Goto("room", "copy")
    /\ UNCHANGED <<calm, stack, list, memory>>

SlotAfter == size + 1   \* mutant: the counter is raised before the string is there

Slot == size

CopyPath ==
    /\ Goto("copy", "count")
    /\ cells' = [cells EXCEPT ![Slot] = Here] /\ Allocate({String(Here)})
    /\ UNCHANGED <<calm, stack, size, capacity, items>>

CountUp ==
    /\ Goto("count", "descend") /\ size' = size + 1
    /\ UNCHANGED <<calm, stack, capacity, items, cells, memory>>

DescendIfListed(k) == k = "dir" /\ Wanted(k)   \* mutant: -f enters no directory

MayDescend(k) == k = "dir"

\* lstat once more: the entry may have changed.
Descend ==
    /\ Goto("descend", IF MayDescend(kind[Here]) THEN "open" ELSE "release")
    /\ UNCHANGED <<calm, stack, list, memory>>

FreeNoPath(e) == UNCHANGED memory   \* mutant: free(path) is missing

FreePath(e) == Free({Path(e)})

Release ==
    /\ Goto("release", "read") /\ FreePath(Here)
    /\ UNCHANGED <<calm, stack, list>>

Walk == \/ OpenDir \/ OpenFails \/ ReadEntry \/ CloseDir \/ match_type \/ Descend \/ Release
        \/ GrowList \/ StoreItems \/ HasRoom \/ CopyPath \/ CountUp

-----------------------------------------------------------------------------
(* What follows the walk *)

Used == 0..size - 1

\* Within qsort a pointer may stand in two cells and another in none.
Sorting ==
    /\ Goto("sort", "sorting") /\ opts.sort
    /\ \E i, j \in Used : cells' = [cells EXCEPT ![i] = cells[j]]
    /\ UNCHANGED <<calm, stack, size, capacity, items, memory>>

\* What the list names, from the blocks made for it, in the order of strcoll.
Sorted == [i \in DOMAIN cells |->
             IF i \notin Used THEN cells[i]
             ELSE CHOOSE e \in Entries :
                    /\ String(e) \in heap
                    /\ Cardinality({o \in Entries : String(o) \in heap /\ o < e}) = i]

QSortDone ==
    /\ Goto("sorting", "print") /\ cells' = Sorted
    /\ UNCHANGED <<calm, stack, size, capacity, items, memory>>

NothingToSort ==
    /\ Goto("sort", "print") /\ (~opts.sort \/ size = 0)
    /\ UNCHANGED <<calm, stack, list, memory>>

print_file_list ==
    /\ Goto("print", "free") /\ printed' = [i \in 1..size |-> cells[i - 1]]
    /\ UNCHANGED <<tree, opts, g_file_list, next, stack, list, memory>>

\* free_file_list: the strings, the items, the list; then the handler is told.
FreeNext ==
    /\ pc = "free" /\ next' = next + 1
    /\ \/ next \in Used /\ Free({String(cells[next])}) /\ UNCHANGED <<pc, g_file_list>>
       \/ next = size /\ Free({Items(items)}) /\ UNCHANGED <<pc, g_file_list>>
       \/ next = size + 1 /\ Free({ListBlock}) /\ UNCHANGED <<pc, g_file_list>>
       \/ next = size + 2 /\ pc' = "done" /\ g_file_list' = FALSE /\ UNCHANGED memory
    /\ UNCHANGED <<tree, opts, printed, stack, list>>

-----------------------------------------------------------------------------
(* malloc, realloc or strdup returns NULL: perror, then exit.  The handler may  *)
(* still come in between.                                                   *)

\* For the list, or for its items.
CreateFails ==
    /\ Goto("start", "exit") /\ (UNCHANGED memory \/ Allocate({ListBlock}))
    /\ UNCHANGED <<calm, stack, list>>

\* For a path: the directory at hand is closed, those around it are not.
PathFails ==
    /\ Goto("read", "exit") /\ Head(stack).todo # {} /\ closedir
    /\ UNCHANGED <<calm, list>>

\* For more room: the old items stay allocated, and the list forgets them.
ReallocFails ==
    /\ NeedsRoom /\ Goto("room", "unset")
    /\ capacity' = capacity * 2 /\ items' = NULL
    /\ UNCHANGED <<calm, stack, size, cells, memory>>

\* For a string.
CopyFails ==
    /\ Goto("copy", "exit") /\ cells' = [cells EXCEPT ![Slot] = Unset]
    /\ UNCHANGED <<calm, stack, size, capacity, items, memory>>

AllocationFails == CreateFails \/ PathFails \/ ReallocFails \/ CopyFails

Exit ==
    /\ pc \in Exits /\ pc' = "failed"
    /\ UNCHANGED <<calm, stack, list, memory>>

-----------------------------------------------------------------------------
(* The handler, and the rest of the world *)

Owned == {String(cells[i]) : i \in Used} \cup {Items(items), ListBlock}

\* free_file_list, then exit; a string that stands in two cells is freed twice,
\* and without items (size is not 0 then) reading the first cell is fatal.
sigint_handler ==
    /\ pc \notin Ended /\ pc' = "interrupted"
    /\ \/ /\ g_file_list /\ items # NULL /\ g_file_list' = FALSE
          /\ heap' = heap \ Owned
          /\ fault' = \/ ~(Owned \subseteq heap)
                      \/ \E i, j \in Used : i # j /\ cells[i] = cells[j]
       \/ g_file_list /\ items = NULL /\ fault' = TRUE /\ UNCHANGED <<g_file_list, heap>>
       \/ ~g_file_list /\ UNCHANGED <<g_file_list, memory>>
    /\ UNCHANGED <<tree, opts, output, stack, list>>

\* The directories above each entry: what is in every set that holds the parent
\* of the entry and, unless that is Root, the parent of each of its members.
Upward(S, first) == \A d \in S \cup {first} : Parent[d] \in S \cup {Root}
Above == [e \in Entries |->
            {d \in Entries : \A S \in SUBSET Entries : Upward(S, e) => d \in S}]

\* Something is removed or replaced, and what was below it is gone.
TreeChanges ==
    /\ pc \notin Ended /\ changes < MaxChanges /\ changes' = changes + 1
    /\ disturbed' = TRUE
    /\ \E e \in Entries, k \in Kinds :
         /\ k # kind[e] /\ \A a \in Above[e] : kind[a] = "dir"
         /\ kind' = [x \in Entries |-> CASE x = e -> k
                                         [] e \in Above[x] -> "gone"
                                         [] OTHER -> kind[x]]
    /\ UNCHANGED <<opts, pc, stack, list, g_file_list, memory, output>>

Stop == pc \in Ended /\ UNCHANGED vars

Next == \/ create_file_list \/ Publish \/ Walk
        \/ Sorting \/ QSortDone \/ NothingToSort \/ print_file_list \/ FreeNext
        \/ AllocationFails \/ Exit \/ sigint_handler \/ TreeChanges \/ Stop

Spec == Init /\ [][Next]_vars

-----------------------------------------------------------------------------
(* Properties *)

\* Every variable keeps its kind, the list never holds more than its block
\* has room for, and no directory is open inside itself.
TypeOK ==
    /\ kind \in [Entries -> Kinds] /\ disturbed \in BOOLEAN /\ changes \in 0..MaxChanges
    /\ opts \in Options /\ pc \in Places
    /\ stack \in Seq([dir : Entries \cup {Root}, todo : SUBSET Entries,
                      entry : Entries \cup {Root}])
    /\ \A i, j \in DOMAIN stack : i < j => stack[j].dir < stack[i].dir
    /\ size \in 0..capacity /\ capacity \in Nat /\ items \in Nat
    /\ cells \in [0..MaxCells -> Entries \cup {Unset}]
    /\ heap \subseteq {"list", "items", "string", "path", "stream"} \X Nat
    /\ g_file_list \in BOOLEAN /\ fault \in BOOLEAN
    /\ printed \in Seq(Entries) /\ next \in Nat

\* The places where the list names blocks that are not there, none, or one
\* twice: realloc has moved the cells, or failed and left NULL for them, qsort
\* is at work, free_file_list has begun.
Windows == {"moved", "unset", "sorting", "free"}

\* The program frees no block that is not live and reads no cell where there
\* are none, and neither does the handler (dirwalk.c:28-36), wherever it comes,
\* on the way to exit(EXIT_FAILURE) too, but for these four places.
FreedOnce ==
    [][ fault' # fault => pc' = "interrupted" /\ pc \in Windows ]_vars

\* A walk that comes to its end leaves nothing on the heap (dirwalk.c:126-181),
\* and outside the four places the handler leaves none of the list behind, only
\* the paths and streams of the directories then open and a string that
\* add_to_list was about to count.
NothingLeaks ==
    [][ /\ pc' = "done" => heap' = {}
        /\ pc' = "interrupted" /\ g_file_list /\ pc \notin Windows =>
             \A b \in heap' : \/ \E i \in DOMAIN stack :
                                   b \in {Stream(stack[i].dir), Path(stack[i].entry)}
                              \/ pc = "count" /\ b = String(Here) ]_vars

Precedes(a, b) == \E i, j \in DOMAIN printed : i < j /\ printed[i] = a /\ printed[j] = b

\* What a walk prints (dirwalk.c:107-161): nothing twice, whatever happens to
\* the tree meanwhile; with -s in order, otherwise each directory before what
\* is in it; and all that was asked for, if the tree could be read and stayed.
\* 'Nothing twice' assumes of readdir that it gives no name a second time when
\* its entry is removed and made again meanwhile, which POSIX leaves open.
WalkIsComplete ==
    pc \in {"free", "done"} =>
      LET shown == {printed[i] : i \in DOMAIN printed} IN
        /\ Cardinality(shown) = Len(printed)
        /\ opts.sort => \A a, b \in shown : a < b => Precedes(a, b)
        /\ ~opts.sort => \A a, b \in shown : a \in Above[b] => Precedes(a, b)
        /\ ~disturbed => shown = {e \in Entries : Wanted(kind[e])}
===============================================================================
