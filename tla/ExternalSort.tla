----------------------------- MODULE ExternalSort -----------------------------
(***************************************************************************)
(* lab06: sort_index maps a file of index records segment by segment and    *)
(* sorts each segment in place.  Threads first sort its blocks, taking them *)
(* from a shared counter, and then, in rounds separated by a barrier, merge *)
(* pairs of neighbouring blocks.  SIGINT only sets terminate_flag.          *)
(*                                                                         *)
(* Offsets and sizes count records; the header is left out, and memsize is  *)
(* taken to be a whole number of records.  qsort of a block and the merge of *)
(* a pair are one step: MayWrite says which cells a thread may write, and    *)
(* OwnCells that no other thread can be at them.  Only an exit can cut such a *)
(* step short.                                                              *)
(***************************************************************************)
EXTENDS Integers, Sequences, FiniteSets

CONSTANTS Threads,        \* threads_count
          Granul,         \* granul: there are 1 << granul blocks
          SegmentRecords, \* memsize in records
          TotalRecords,   \* the records of the file
          Keys,           \* the values of time_mark
          Files,          \* the files to sort
          Interrupts      \* whether SIGINT may come

Shifted[g \in 0..Granul] == IF g = 0 THEN 1 ELSE 2 * Shifted[g - 1]   \* 1 << g

Blocks == Shifted[Granul]

ASSUME SortAssumption ==
    /\ Threads \in Nat \ {0} /\ Granul \in Nat /\ Threads < Blocks
    /\ SegmentRecords \in Nat \ {0} /\ TotalRecords \in Nat
    /\ Keys \subseteq Int
    /\ Files \subseteq [0..TotalRecords - 1 -> Keys]
    /\ Interrupts \in BOOLEAN

Tids == 0..Threads - 1

VARIABLES
  file,                    \* the mapped file: only the keys matter
  offset,                  \* logical_offset
  main_pc, terminate_flag,
  next_block,              \* of sort_data
  num_blocks, block_size,  \* of merge_data; sort_data has the same block_size
  tpc, block_index         \* of each thread

segment  == <<next_block, num_blocks, block_size>>
mainVars == <<offset, main_pc>>
threads  == <<tpc, block_index>>
vars     == <<file, mainVars, terminate_flag, segment, threads>>

\* The three waits of the merge and the one of the sort, and what follows each.
Waits == {"sort_wait", "merged_wait", "halved_wait", "last_wait"}
After(wait) == CASE wait = "sort_wait"   -> "done"
                 [] wait = "merged_wait" -> "halve"
                 [] wait = "halved_wait" -> "loop"
                 [] wait = "last_wait"   -> "done"

Places == Waits \cup {"first", "next", "own", "sorted", "loop", "merge", "merged",
                      "halve", "halved", "last", "done", "unborn"}

Ended == {"success", "failure"}

Init ==
    /\ file \in Files
    /\ offset = 0
    /\ main_pc = "map" /\ terminate_flag = FALSE
    /\ next_block = 0 /\ num_blocks = 0 /\ block_size = 0
    /\ tpc = [t \in Tids |-> "done"]
    /\ block_index = [t \in Tids |-> 0]

-----------------------------------------------------------------------------
(* Records in place *)

\* Block b of the segment, as the cells it occupies.
Cells(b, size) == offset + b * size .. offset + (b + 1) * size - 1

\* qsort with cmp_index: the cell i of the block gets the key that as many
\* keys of the block precede.
SortedBlock(cells, first) ==
    [i \in DOMAIN file |->
       IF i \notin cells THEN file[i]
       ELSE CHOOSE k \in Keys :
              /\ Cardinality({j \in cells : file[j] < k}) <= i - first
              /\ i - first < Cardinality({j \in cells : file[j] <= k})]

SortBlock(b) == file' = SortedBlock(Cells(b, block_size), offset + b * block_size)

RightFirst(l, r) == l > r   \* mutant: the larger key goes first

LeftFirst(l, r) == l <= r

\* merge_two_sorted_blocks: what is left of the two blocks of n cells from
\* a and b on, once i and j of them have been taken.
MergedFrom(a, b, n) ==
    LET Rest(first, k) == [i \in 1..n - k |-> file[first + k + i - 1]]
        m[ij \in (0..n) \X (0..n)] ==
          LET i == ij[1]
              j == ij[2]
          IN IF i < n /\ j < n
             THEN IF LeftFirst(file[a + i], file[b + j])
                  THEN <<file[a + i]>> \o m[<<i + 1, j>>]
                  ELSE <<file[b + j]>> \o m[<<i, j + 1>>]
             ELSE IF i < n THEN Rest(a, i) ELSE Rest(b, j)
    IN m[<<0, 0>>]

MergeHalfCopied(l) ==   \* mutant: only the first block is copied back
    LET first  == offset + 2 * l * block_size
        merged == MergedFrom(first, first + block_size, block_size)
    IN file' = [i \in DOMAIN file |->
                  IF i \in first..first + block_size - 1 THEN merged[i - first + 1]
                                                         ELSE file[i]]

MergePair(l) ==
    LET first  == offset + 2 * l * block_size
        merged == MergedFrom(first, first + block_size, block_size)
    IN file' = [i \in DOMAIN file |->
                  IF i \in first..first + 2 * block_size - 1 THEN merged[i - first + 1]
                                                             ELSE file[i]]

\* The cells a thread may be reading and writing where it stands.
MayWrite(t) ==
    CASE tpc[t] = "first" -> Cells(t, block_size)
      [] tpc[t] = "own"   -> Cells(block_index[t], block_size)
      [] tpc[t] = "merge" -> IF t < num_blocks \div 2 THEN Cells(t, 2 * block_size) ELSE {}
      [] OTHER            -> {}

-----------------------------------------------------------------------------
(* Threads *)

Goto(t, from, to) == tpc[t] = from /\ tpc' = [tpc EXCEPT ![t] = to]

others == <<mainVars, terminate_flag>>

\* exit, while the threads in cut are in the middle of what they do: qsort and
\* memcpy write record by record, so one cell may already hold a copy of what
\* another one holds.
Exit(cut) ==
    /\ main_pc' = "failure"
    /\ \/ UNCHANGED file
       \/ \E t \in cut : \E i, j \in MayWrite(t) : file' = [file EXCEPT ![i] = file[j]]
    /\ UNCHANGED <<offset, terminate_flag, segment, threads>>

\* pthread_barrier_wait: the last of the threads to come lets all of them go,
\* whichever of the waits each is in.
Arrive(t, from, wait) ==
    /\ tpc[t] = from
    /\ LET waiting == {u \in Tids : tpc[u] \in Waits} IN
         IF Cardinality(waiting) + 1 < Threads
         THEN tpc' = [tpc EXCEPT ![t] = wait]
         ELSE tpc' = [u \in Tids |-> CASE u = t       -> After(wait)
                                       [] u \in waiting -> After(tpc[u])
                                       [] OTHER       -> tpc[u]]
    /\ UNCHANGED <<file, segment, block_index, others>>

\* sort_blocks: the thread's own block, if no signal came before ...
SortFirst(t) ==
    /\ Goto(t, "first", "next")
    /\ \/ ~terminate_flag /\ t < Blocks /\ SortBlock(t)
       \/ terminate_flag /\ UNCHANGED file
    /\ UNCHANGED <<segment, block_index, others>>

\* ... then the blocks it can reserve under the mutex.
NextBlockKept == UNCHANGED next_block   \* mutant: the block is not reserved

ReserveNext == next_block' = next_block + 1

ReserveAny(t) ==   \* mutant: the number of blocks is not looked at
    /\ ~terminate_flag
    /\ Goto(t, "next", "own")
    /\ block_index' = [block_index EXCEPT ![t] = next_block]
    /\ ReserveNext
    /\ UNCHANGED <<file, num_blocks, block_size, others>>

ReserveBlock(t) ==
    /\ ~terminate_flag /\ next_block < Blocks
    /\ Goto(t, "next", "own")
    /\ block_index' = [block_index EXCEPT ![t] = next_block]
    /\ ReserveNext
    /\ UNCHANGED <<file, num_blocks, block_size, others>>

SortOwn(t) ==
    /\ ~terminate_flag
    /\ Goto(t, "own", "next")
    /\ SortBlock(block_index[t])
    /\ UNCHANGED <<segment, block_index, others>>

StopAtOnce(t) ==   \* mutant: a thread that sees the flag does not go to the barrier
    /\ \/ tpc[t] = "next" /\ (terminate_flag \/ next_block >= Blocks)
       \/ tpc[t] = "own" /\ terminate_flag
    /\ tpc' = [tpc EXCEPT ![t] = IF terminate_flag THEN "done" ELSE "sorted"]
    /\ UNCHANGED <<file, segment, block_index, others>>

StopSorting(t) ==
    /\ \/ tpc[t] = "next" /\ (terminate_flag \/ next_block >= Blocks)
       \/ tpc[t] = "own" /\ terminate_flag
    /\ tpc' = [tpc EXCEPT ![t] = "sorted"]
    /\ UNCHANGED <<file, segment, block_index, others>>

sort_blocks(t) == \/ SortFirst(t) \/ ReserveBlock(t) \/ SortOwn(t) \/ StopSorting(t)
                  \/ Arrive(t, "sorted", "sort_wait")

\* merge_blocks_phase
MergeLoop(t) ==
    /\ Goto(t, "loop", IF num_blocks > 1 /\ ~terminate_flag THEN "merge" ELSE "last")
    /\ UNCHANGED <<file, segment, block_index, others>>

\* Pairs beyond the number of threads are merged by nobody.
MergeOwnPair(t) ==
    /\ Goto(t, "merge", "merged")
    /\ \/ t < num_blocks \div 2 /\ MergePair(t)
       \/ t >= num_blocks \div 2 /\ UNCHANGED file
    /\ UNCHANGED <<segment, block_index, others>>

\* merge_two_sorted_blocks gets no memory for its copy.
MergeFails(t) == tpc[t] = "merge" /\ t < num_blocks \div 2 /\ Exit(Tids \ {t})

HalveNever(t) == UNCHANGED <<num_blocks, block_size>>   \* mutant: the round is not counted

Halve(t) ==
    IF t = 0 THEN /\ num_blocks' = IF num_blocks % 2 = 0 THEN num_blocks \div 2
                                                         ELSE num_blocks \div 2 + 1
                  /\ block_size' = 2 * block_size
             ELSE UNCHANGED <<num_blocks, block_size>>

CountRound(t) ==
    /\ \/ ~terminate_flag /\ Goto(t, "halve", "halved") /\ Halve(t)
       \/ terminate_flag /\ Goto(t, "halve", "last") /\ UNCHANGED <<num_blocks, block_size>>
    /\ UNCHANGED <<file, next_block, block_index, others>>

merge_blocks_phase(t) ==
    \/ MergeLoop(t) \/ MergeOwnPair(t) \/ MergeFails(t) \/ CountRound(t)
    \/ Arrive(t, "merged", "merged_wait")
    \/ Arrive(t, "halved", "halved_wait")
    \/ Arrive(t, "last", "last_wait")

Thread(t) == main_pc \notin Ended /\ (sort_blocks(t) \/ merge_blocks_phase(t))

-----------------------------------------------------------------------------
(* main *)

Least(a, b) == IF a < b THEN a ELSE b

\* The records of the segment at o that are sorted: a multiple of the number
\* of blocks, so up to Blocks - 1 records at its end are left alone.
RecordsInSegment(o) == (Least(SegmentRecords, TotalRecords - o) \div Blocks) * Blocks

\* sort_init or merge_init; the threads are created one by one.
Start(phase) == /\ main_pc' = phase
                /\ tpc' = [t \in Tids |-> "unborn"]

Enter == IF main_pc = "sort" THEN "first" ELSE "loop"

NextUnborn(t) == tpc[t] = "unborn" /\ \A u \in Tids : tpc[u] = "unborn" => t <= u

CreateNext ==
    /\ main_pc \in {"sort", "merge"}
    /\ \E t \in Tids : NextUnborn(t) /\ tpc' = [tpc EXCEPT ![t] = Enter]
    /\ UNCHANGED <<file, segment, block_index, others>>

\* There is no memory or no thread: main unmaps the segment and exits, and
\* the threads it did create are at work until then.
CreateFails ==
    /\ main_pc \in {"sort", "merge"} /\ \E t \in Tids : NextUnborn(t)
    /\ Exit(Tids)

\* scan_file_segment cannot map the file, or refuses, the flag being set.
Refuse ==
    /\ main_pc = "map" /\ offset < TotalRecords
    /\ main_pc' = "failure"
    /\ UNCHANGED <<file, offset, terminate_flag, segment, threads>>

Finish ==
    /\ main_pc = "map"
    /\ \/ offset >= TotalRecords
       \/ offset < TotalRecords /\ ~terminate_flag /\ RecordsInSegment(offset) = 0
    /\ main_pc' = "success"
    /\ UNCHANGED <<file, offset, terminate_flag, segment, threads>>

FirstFree == Threads

StartSort ==
    /\ main_pc = "map" /\ offset < TotalRecords /\ ~terminate_flag
    /\ RecordsInSegment(offset) > 0
    /\ Start("sort")
    /\ next_block' = FirstFree
    /\ num_blocks' = Blocks /\ block_size' = RecordsInSegment(offset) \div Blocks
    /\ block_index' = [t \in Tids |-> t]
    /\ UNCHANGED <<file, offset, terminate_flag>>

Joined == \A t \in Tids : tpc[t] = "done"

StartMerge ==
    /\ main_pc = "sort" /\ Joined
    /\ Start("merge")
    /\ UNCHANGED <<file, offset, terminate_flag, segment, block_index>>

\* write_sorted_result; msync may fail.
WriteSegment ==
    /\ main_pc = "merge" /\ Joined
    /\ \/ main_pc' = "map" /\ offset' = offset + SegmentRecords
       \/ main_pc' = "failure" /\ UNCHANGED offset
    /\ UNCHANGED <<file, terminate_flag, segment, threads>>

sigint_handler ==
    /\ Interrupts /\ main_pc \notin Ended
    /\ ~terminate_flag /\ terminate_flag' = TRUE
    /\ UNCHANGED <<file, mainVars, segment, threads>>

MainStep == Refuse \/ Finish \/ StartSort \/ CreateNext \/ CreateFails
            \/ StartMerge \/ WriteSegment

Next == (\E t \in Tids : Thread(t)) \/ MainStep \/ sigint_handler

(* Every thread that can run runs on; nobody promises a signal. *)
Spec     == Init /\ [][Next]_vars
FairSpec == Spec /\ WF_vars(MainStep) /\ \A t \in Tids : WF_vars(Thread(t))

-----------------------------------------------------------------------------
(* Properties *)

\* Every variable keeps its kind, and no thread leaves the segment.
TypeOK ==
    /\ file \in [0..TotalRecords - 1 -> Keys]
    /\ offset \in Nat
    /\ main_pc \in Ended \cup {"map", "sort", "merge"}
    /\ terminate_flag \in BOOLEAN
    /\ next_block \in 0..Blocks /\ num_blocks \in 0..Blocks /\ block_size \in Nat
    /\ tpc \in [Tids -> Places]
    /\ block_index \in [Tids -> 0..Blocks - 1]
    /\ \A t \in Tids : MayWrite(t) \subseteq offset..offset + RecordsInSegment(offset) - 1

\* No two threads are ever at the same record (sort.c:45-66, merge.c:63-82),
\* and nobody merges while the round is being counted, wherever a signal
\* splits them.
OwnCells ==
    \A t \in Tids :
      /\ \A u \in Tids \ {t} : MayWrite(t) \cap MayWrite(u) = {}
      /\ t = 0 /\ tpc[t] = "halve" => \A u \in Tids : MayWrite(u) = {}

\* The first n records of the segment at o are in order.
InOrder(o, n) == \A i \in o..o + n - 2 : file[i] <= file[i + 1]

\* Segments that were written: write.c:20 reports each as a sorted result.
Written == {o \in 0..TotalRecords - 1 : o < offset /\ o % SegmentRecords = 0}

\* Without a signal, what write_sorted_result calls a sorted result is one,
\* up to the records that the rounding of sort_index.c:118 leaves alone, and
\* as long as there is a thread for every pair of blocks: merge.c:64 leaves
\* the pairs beyond the threads unmerged.
WrittenIsSorted ==
    ~terminate_flag /\ 2 * Threads >= Blocks => \A o \in Written : InOrder(o, RecordsInSegment(o))

HowMany(f, k) == Cardinality({i \in DOMAIN f : f[i] = k})

\* No step loses or doubles a record, with a signal or without, unless the
\* program exits over the head of a thread at work (sort_index.c:149-153 and
\* 180-185, merge.c:31-35): the file is sorted in place, and stays as it is then.
RecordsAreKept ==
    [][ \/ \A k \in Keys : HowMany(file', k) = HowMany(file, k)
        \/ main_pc' = "failure" /\ \E t \in Tids : MayWrite(t) # {} ]_vars

\* Without a signal the program ends: no thread is left behind at a barrier
\* and no round is counted twice (merge.c:60-85).
RunsToItsEnd == <>(terminate_flag \/ main_pc \in Ended)

\* A signal during the sort ends the program: all threads meet at the barrier
\* of the sort and all of them leave the merge at once.
StopsWhileSorting ==
    (terminate_flag /\ main_pc = "sort") ~> main_pc \in Ended

\* sort_index.c:24 announces the end of the work: the signal ends the program
\* wherever it finds it.
StopsOnSignal == terminate_flag ~> main_pc \in Ended
===============================================================================
