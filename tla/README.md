# TLA+ models of the osisp-linux-v2 laboratory programs

The repository holds eight small Linux programs in C: laboratory works 1 to 6
of a course on operating systems (the fifth is two programs) and its course
work. Four of them are concurrent: processes around a queue in shared memory
(`lab04`), threads around a queue with semaphores (`lab05-1`) and with condition
variables (`lab05-2`), and a parallel sort of a mapped file (`lab06`). Two more
live with signals: children that print when asked (`lab03`) and a directory walk
whose SIGINT handler frees the list under construction (`lab01`). The course
work, `bdupes`, finds and removes duplicate files; its difficulty is a chain of
filters that lean on each other's order. Interleavings, signals, failures in the
middle and shutdown are what no test in the repository reaches. This directory
models these seven programs, checks them with TLC, and proves with TLAPS every
safety property that the runs check, for every value of the constants.

Contents: [inventory](#inventory), [modules](#modules-and-code),
[runs](#runs), [bounds](#bounds), [fairness and deadlock](#fairness-and-deadlock),
[findings](#findings), [proofs](#proofs), [not modelled](#what-is-not-modelled),
[plan](#plan).

## Inventory

### lab04: processes and shared memory

*State.* A ring of 10 messages with `head`, `tail`, `free_slots`,
`added_count`, `removed_count` in System V shared memory; a set of three
semaphores (0: free slots, 1: full slots, 2: mutex); in main the tables of
pids and `terminate_flag`; in each child its own `terminate_flag`.
*Operations.* Main reads lines: `+` and `-` fork a producer or a consumer,
`>` and `<` remove the last one with SIGTERM, `p` prints, `q` or SIGINT ends
the loop; `cleanup_resources` then sends SIGTERM to everybody and deletes the
objects. A child takes a slot token, takes the mutex, touches the ring, gives
the mutex back and posts the other token.
*Hard.* `semaphore_op` looks at no result. A SIGTERM that wakes a process from
`semop` sends it on without the token; one that comes just before `semop`
leaves it asleep; removed semaphores let everybody through. Fork may fail and
its -1 goes into the table. A child may be killed before it has a handler.
*Correct means.* The tokens balance; one process at a time in the ring; the
cells from `head` to `tail` hold what was added and not removed; no process
outlives the program.

### lab05-1: threads, a mutex and semaphores

*State.* A heap-allocated ring (`ThreadMessageQueue`) with `capacity`, `count`,
indexes and totals, its mutex, `sem_free` and `sem_full`; `resize_mutex`;
`terminate_flag`, `pause_processing` and an exit flag for each thread.
*Operations.* Main starts (`+`, `-`) and joins (`P`, `C`) workers, grows and
shrinks the ring (`>`, `<`), and ends on `q`, SIGINT or end of input. Workers
wait for a token with a timeout, so that they look at `terminate_flag` now and
then. A monitor thread polls the flag and prints.
*Hard.* A token and the `count` it stands for change in different steps;
`resize_thread_queue` changes ring and semaphores under running workers; `<`
reads `count` without the mutex and replaces synchronisation by `sleep(1)`;
`realloc` and `malloc` may fail one after the other.
*Correct means.* Semaphores and `count` agree, the ring is a FIFO queue, a
resize keeps the messages, shutdown ends.

### lab05-2: threads, a mutex and condition variables

*State.* The same ring with `not_empty` and `not_full` in place of the
semaphores. *Operations.* As above, but workers are removed with
`pthread_cancel` (`d`, `f`), a resize copies into a new buffer, and the SIGINT
handler takes the mutex and broadcasts.
*Hard.* One signal per message, spurious wakeups, newcomers that overtake a
woken thread; cancellation inside `pthread_cond_wait` leaves the mutex locked;
the handler locks a mutex its own thread may hold; `<` acts on a check made
before the mutex was given up.
*Correct means.* No wakeup is lost, the ring is a FIFO queue, shutdown ends.

### lab06: parallel sort

*State.* The mapped segment; `next_block` under a mutex; `num_blocks` and
`block_size` shared by the merging threads; one barrier; `terminate_flag`.
*Operations.* For each segment of `memsize` bytes: sort the blocks (each thread
its own first, then from the counter), join, merge neighbouring blocks in
rounds separated by the barrier, join, `msync`. SIGINT sets the flag, which
every thread reads for itself.
*Hard.* All threads must arrive at the barrier equally often, although each
decides by its own read of the flag; thread 0 changes the round under the
others; more pairs than threads.
*Correct means.* Threads never touch the same records, no record is lost, what
is written is sorted, the program ends. (`gen`, `view`, `prep` and `finish` are
sequential.)

### course-work: bdupes

*State.* One global list of paths and sizes; the flags of the command line; the
index of the deletion. The files belong to everybody.
*Operations.* Scan a directory, drop files outside the size limits, keep files
with a neighbour of equal size, equal MIME type, equal MD5, equal bytes; then
print, or delete all but one of each group, asking the user or not.
*Hard.* Every filter takes runs of neighbours for groups and so leans on the
order an earlier one left; deletion groups by size a list sorted by hash;
`stat` follows links; a list grows once for a group of any size; files change
between comparison and removal.
*Correct means.* The list ends with exactly the duplicates, nothing is removed
that had no twin, and every content there was is still there.

### lab03: children that count signals

*State.* In the parent a table of pids with `child_count`; in each child
`iterations` and `print_permission`.
*Operations.* The parent forks a child (`+`), ends the last with SIGTERM and
waits for it (`-`), ends all (`k`, and `q` before it leaves), asks all to print
with SIGUSR2, 50 ms apart (`o`). A child collects a batch of pairs, then sleeps in
`pause` until it may print, prints, and takes the permission back.
*Hard.* The test of `print_permission` and `pause` are two steps, and so are the
printing and the reset; SIGUSR2 before its handler is installed kills; a child
that failed to start stays in the table as a zombie; a failed fork ends the
parent alone.
*Correct means.* The table names the children not waited for and nobody else, a
child prints only when asked, a request is answered.

### lab01: dirwalk

*State.* The list of paths on the heap (`items`, `size`, `capacity`),
`g_file_list` for the handler, the open directories of the recursion.
*Operations.* Walk the tree with `lstat` twice for each entry, append what the
options ask for, sort, print, free; on SIGINT free the list and exit.
*Hard.* The handler comes between any two steps: while the list names a block
that `realloc` has moved, while `qsort` holds a pointer aside, while the list is
being freed. The tree changes between the two `lstat`s; memory may run out,
and the handler may still come between `perror` and `exit`, at a list whose items
are gone.
*Correct means.* What was asked for is printed, once and in order; no block is
freed twice and none is left behind.

### lab02 and the rest

`lab02` prints environments and starts children that share nothing with it.
Build files, data and reports have no state. PROJECT.json lists these parts with
the reason each is left out, and the hazards of all parts at their lines.

## Modules and code

| module | models | role |
|---|---|---|
| `BoundedQueue` | the promise of both thread queues | abstract FIFO of bounded length |
| `ThreadQueue` | `lab05-1` | implements `BoundedQueue` |
| `CondQueue` | `lab05-2` | implements `BoundedQueue` |
| `ProcQueue` | `lab04` | main and processes, critical section access by access |
| `ExternalSort` | `lab06` | threads, barrier, rounds, segments, failures |
| `Dupes` | `course-work` | the list through its filters, deletion, printing, links, rewriting by others |
| `SignalStats` | `lab03` | the parent's table, the children's loop, signals at every point |
| `DirWalk` | `lab01` | the walk, the heap, the handler, a tree that changes |
| `ThreadQueueProofs`, `CondQueueProofs`, `ProcQueueProofs`, `ExternalSortProofs`, `DupesProofs`, `SignalStatsProofs`, `DirWalkProofs` | | theorems about the module they are named after |
| `SharedLemmas` | | what several of these proofs need: least and greatest numbers of finite sets, chains of neighbours, and what an insertion, an extraction and a copy make of a ring |
| `MC...` | | values of the constants that a `.cfg` cannot write |

Variables carry the names of the C variables. Program counters (`ppc`, `cpc`,
`pc`, `tpc`, `main_pc`) stand for the place in a function. A message is named
by its rank among the insertions, so that loss, duplication and reordering
show; its contents and checksum are left out. Every operator that models code
is in PROJECT.json under `map`, with its lines.

**ThreadQueue.** One step is a stretch of code between two points where another
thread can observe or change shared state; what runs under `queue.mutex` is one
step, and so is each operation on a semaphore. A failed or refused command is
no step. A resize is `Grow` or `Shrink`, then `resize_mutex`, then the mutex,
then `ResizeRefused` or `Resized`, then `Resume`. Cells beyond the allocation
may or may not keep a value (`Stored`, `Loaded`, `Reallocated`). SIGINT reaches
`fgets` or misses it: `sigint_handler` allows both.

**CondQueue.** `Signal` wakes any one waiter, `Broadcast` all, `SpuriousWakeup`
any; a woken thread competes for the mutex like a newcomer. Main's stretches
under the mutex are two steps, because the signal handler may come between
them. A thread cancelled in its wait dies holding the mutex (`mutex = Dead`).

**ProcQueue.** Mutual exclusion may fail here, so each counter is read (`Load`)
and written (`Store`) in steps of their own, the write to the ring (`Touch`) is
another. `Down` passes when the semaphores are gone; `Kill` chooses which of
the processes that may be asleep really are. `cleanup_resources` kills process
by process (`KillNext`), with the others at work meanwhile.

*Sessions.* `ProcQueue` and `CondQueue` take a set of `Sessions`: how many
workers a user starts, which commands are typed, how large the ring may become.
`Init` chooses one and it stays, so one run answers for several kinds of use,
each with the bounds it needs, and the theorems hold for every one of them.

**ExternalSort.** Sorting a block and merging a pair are one step each;
`MayWrite` says which cells a thread may be at, and `OwnCells` that no two
threads are at the same, which is what makes the single step sound. `Arrive` is
`pthread_barrier_wait`: the last to come releases everybody, whichever wait each
is in, as one barrier object does. Threads are created one by one
(`CreateNext`), and the first ones work before the last exists. What may fail
ends the program from where it is: `CreateFails`, `MergeFails` (the thread that
gets no memory exits for all), `Refuse` (mapping and writing back); `Exit` may
leave a record half written under a thread at work.

**Dupes.** A stage is one step, a group of the deletion another. A file's
content is a name with a size, a MIME type and a hash, so that hashes can
collide. `layout` says which file a path opens and which entry removing it
takes away: a link, or a second way through a linked directory, opens the same
file but removes something else. `qsort` leaves equal elements in any order
(`Sorted`). `Overflows` is the list of `filter_size.c` grown too little, once for a
run of any length (`Capacity`): the program may go on or stop being defined. What
the model assumes of the disk is named in `DupesAssumption`: a directory entry opens
the file its path opens, and libmagic gives no readable file the empty type. `found` and `compared` record what the
walk listed and what the files held when they were compared. The printing is the
groups of the listing and the counts of the summary (`listing`, `summary`); sizes
and dates are left out.

**SignalStats.** A child's places are the points between which a signal makes a
difference: `start` (no handler yet), `gap` (the flag tested, `pause` not
reached), `asleep`, `reset` (printed, the flag not cleared). `asked`, `printed`,
`shown` and `missed` are history: the requests a handler saw, the printings, the
requests seen at the last printing, and whether the last request fell into one
of the two windows. The children go on while the parent goes through its table.

**DirWalk.** The recursion is a stack of open directories, `readdir` any order
of what was there. The heap is a set of blocks, each made for one purpose; `fault`
is set when one is freed that is not there, or twice, or when the cells of a list
without items are read. `Owned` is what the handler frees. An allocation that fails
leads to a place of its own, from which `Exit` ends the program: `unset` behind
`realloc`, where the capacity is doubled and `items` is NULL, else `exit`, with the
directory at hand closed when it was for a path; the handler may come at both. `GrowList` and `StoreItems` are the two halves of
`items = realloc(items, ...)`, `Sorting` a `qsort` at work. `TreeChanges` replaces
or removes an entry and what was below it.

## Runs

| run | module | shows |
|---|---|---|
| `tq_traffic` | ThreadQueue | types; free slots matched exactly; refinement of `BoundedQueue`; messages are taken; shutdown completes. 2 producers, 1 consumer, ring of 2, 4 messages, all commands but resizes |
| `tq_resize` | ThreadQueue | tokens of `sem_full` match `count`, no free slot forgotten, a resize keeps messages and `tail`, a resize ends. 1 producer, 2 consumers, ring of 2..3, allocations may fail |
| `tq_grow` | ThreadQueue | *violated*: after `>` `count` cells hold messages |
| `pq_work` | ProcQueue | types; token balance with broken-off waits counted; soundness until a wait is broken off; messages are taken; nobody outlives the removal of the semaphores. Four sessions on a ring of 2: two producers, two consumers, removals of both kinds, SIGINT with forks that may fail |
| `pq_eintr` | ProcQueue | *violated*: `free_slots` stays a number of slots |
| `cq_work` | CondQueue | types; no lost wakeup; refinement of `BoundedQueue`; no resize moves a message, not even a shrink that finds some; messages are taken; shutdown completes but for the two lock-ups it names. Three sessions: two producers, two consumers, a ring resized between 2 and 3; cancellation; `q`, end of input, SIGINT |
| `es_sort` | ExternalSort | types; threads keep apart; written segments are sorted (there is a thread for every pair); records are kept unless an exit cuts a thread short; the program ends, on SIGINT too if it comes in the sort phase. 2 threads, 4 blocks, two segments, SIGINT at any time, threads, memory and mappings that may be refused |
| `es_signal` | ExternalSort | *violated*: SIGINT in the merge phase ends the program |
| `bd_delete` | Dupes | types; the filters find exactly the duplicates, and lists of at most ten are never overrun; no file without a twin at the comparison is removed; contents survive where sets do not meet and there are no links; what is printed are the sets. Four paths, four contents, links, unreadable files, one rewrite |
| `bd_sets` | Dupes | *violated*: one file of every content is kept |
| `ss_asks` | SignalStats | types; the table is exact; nobody prints unasked; requests outside the windows are answered. 3 children in a table of 2, batches of 2, `o` typed twice |
| `dw_walk` | DirWalk | types; the walk is complete and in order; no block is freed twice except in four windows; nothing leaks. 5 entries, a list that starts with one cell and grows twice, two changes to the tree, every set of options, allocations that fail, SIGINT at any step, before `exit` too |

Each property of a passing run has a mutant in PROJECT.json: a definition
changed as a plausible bug would change it, under which the run fails. The
mutated forms stand before the definition they replace, marked `mutant`.

## Bounds

The programs have no bound on messages and 10 or more cells; the models are
cut as follows, and each bound is a constant of its module.

- *Threads and processes* (`MaxProducers`, `MaxConsumers`, `NumProducers`,
  `NumConsumers`, `Threads`, `NumChildren`): two of a kind are needed for workers
  of a kind to compete, one of each for everything between kinds. Workers are
  interchangeable, so a third adds no new situation to pairs of them.
- *Cells*: 1 or 2 make the ring full, empty and wrapped within a few steps;
  3 lets it be resized in both directions (the code shrinks only above 2).
- *Messages* (`MaxMessages`): more than the ring has cells where indexes must wrap
  (`tq_traffic`, `pq_work`, and `tq_resize` and `cq_work` before the ring grows).
  At the bound a producer stays at the top of its loop, as one that sleeps.
- *Commands*: each run or session lists the commands that bear on its question;
  between them the passing runs of a module use all.
- *lab06*: four blocks give two rounds of merging; two threads are the most
  that leave a block for the counter and a thread idle in the second round.
  Keys are 0 and 1: a sort by comparisons that is right for these is right for
  any keys. The first segment takes all 256 contents, the second one content;
  it is there for the step from one segment to the next.
- *bdupes*: four files are needed for two sets; four contents give two sizes,
  two hashes and a collision between equal and unequal sizes. A list's first
  capacity is 3 in `bd_delete`, so that four files overflow it, as eleven do the
  ten of the code. One rewrite of two of the files, between any two stages. The
  order of `readdir` is one order, since the first `qsort` forgets it. Six
  command lines cover deletion of both kinds, both listings, both size limits
  and the recursion.
- *lab03* (`MAX_CHILDREN`, `NumChildren`, `THRESHOLD`, `MaxAsks`): a table of two
  is full, emptied and filled again by three children; a batch of two has an
  inside and an end; two requests can be one too many for one printing, and can
  fall into one window each.
- *lab01* (`INITIAL_CAPACITY`, `MaxChanges`): five entries have a directory in a
  directory, an entry behind a nested one, and make a list of one cell grow
  twice; with two changes an entry can be another thing at each of its `lstat`s
  and once more when it is opened.

`generated` in `ProcQueue` exists only for its bound. `interrupted` counts waits
broken off by a signal; it is bounded because each process is sent SIGTERM a
bounded number of times.

## Fairness and deadlock

- *ThreadQueue*: weak fairness of each worker, of main outside its commands,
  and of the monitor. The timed waits make every wait a step, and a thread
  that can always run is run. A waiter for the mutex may be passed over, but
  only while messages come, which are bounded.
- *ProcQueue*: weak fairness of each process and of main's way out; at the
  ends checked the tokens stay, or the semaphores are gone for good.
- *CondQueue*: strong fairness of workers, main's work and the monitor. The
  monitor takes the mutex again and again, so that under weak fairness a
  worker could find it taken each time; the kernel's scheduler wakes waiters
  for a futex in turn. Spurious wakeups, commands and signals are not fair.
- *ExternalSort*: weak fairness of main and of each thread. Failures are not
  fair: nothing has to fail.
- *SignalStats*: weak fairness of each child and of the parent's loops over its
  table; no command is promised, and a child that waits for permission waits.
- *DirWalk* and *Dupes*: none; their properties are about safety.

No run assumes that the user types anything. Deadlock is checked in every run
of `ThreadQueue`, `ProcQueue`, `DirWalk` and `Dupes`, where only the ended program
stops. It is not in `CondQueue`, which may wait for input with all workers asleep
and can really lock up (the cases `ShutdownCompletes` names), nor in `SignalStats`,
where all children may sleep under a parent whose user has gone, nor in
`ExternalSort`, whose program ends and which locks up in `es_signal`. `Dupes` has
no liveness: it is sequential, and its interactive loop spins for ever at the end
of input (`deletion.c:75`).

## Findings

1. `tq_grow`: a full ring with `head = 0` has `tail = 0`; `thread_queue.c:64`
   moves `tail` only if `head != 0`. After `>` the next producer overwrites the
   oldest message and the new, zeroed cell is counted as one.
2. `pq_eintr`: `ipc.c:8` ignores EINTR. A consumer removed while it waits on an
   empty queue "removes" a message: `free_slots` exceeds the size and `head`
   passes `tail`.
3. `es_signal`: the threads read `terminate_flag` one by one between waits on
   one barrier (`merge.c:61`, `merge.c:73`); if only some see it, they leave and
   the others wait for ever, and so does main.
4. `bd_sets`: the deletion forms groups of neighbours of one size
   (`deletion.c:48`, `deletion.c:117`) in a list that was sorted by hash. Two
   sets of duplicates of one size, with no set of another size between their
   hashes, are one group, and all but one file of both are removed, against
   `bdupes.1:19`.

Other behaviour that the properties name as exceptions, because they would fail
without it:

- `WrittenIsSorted` asks for a thread for every pair of blocks: `merge.c:64`
  merges the pair numbered as the thread, and `main` admits any number of threads
  below that of blocks (`sort_index.c:55`). With one thread and four blocks a pair
  is left unmerged, and `write.c:20` reports a sorted result all the same.
- `ResizeKeepsMessages` leaves out a shrink of `lab05-1` that cuts off cells in
  use. `<` reads `count` without the mutex (`main.c:146`) and sets
  `pause_processing` later, so a message that is inserted in between is in the ring
  when it is shrunk, against the refusal of `main.c:147`.
- `ResizeKeepsQueue` leaves out a shrink of `lab05-2` that leaves the ring full.
  `<` gives the mutex up between its check that the queue is empty
  (`main.c:152`) and the resize, so messages may have come, against
  `main.c:79`; `tail` is then one past the buffer.
- `ContentsSurvive` excludes links: a file whose only twin is a link to it may be
  removed in favour of the link.
- `FiltersFindDuplicates` promises that no list is overrun for at most ten files
  only; the first group of eleven is written past the end of its list
  (`filter_size.c:56`).
- `PrintsTheSets` excludes colliding hashes and sets of one size that meet: the
  listing groups by size too (`result.c:21`), so two such sets are shown as one.
- `RecordsAreKept` excludes an exit over a thread at work: the file is sorted in
  place, and `exit` in one thread stops another in the middle of a record
  (`sort_index.c:149`, `merge.c:31`).
- `RequestsAnswered` leaves out a request that comes between the test of the flag
  and `pause` (`child.c:90`) or between the printing and the reset (`child.c:93`):
  the first waits for the next SIGUSR2, the second is forgotten.
- `TableIsExact` lets a failed fork end the parent with children left behind
  (`parent.c:21`).
- `FreedOnce` names the four places where SIGINT finds a list that is not whole:
  behind `realloc` before its result is stored, behind a
  `realloc` that failed, with NULL for the items (`dirwalk.c:71`), inside `qsort`,
  and in `free_file_list`, which leaves `g_file_list` set until it is through.

`ShutdownCompletes` of `CondQueue` names two real lock-ups (a
cancelled waiter keeps the mutex; the handler interrupts a main that holds it),
and `MessagesAreTaken` of `ThreadQueue` excludes consumers whose exit flag is
set, because a flag is never reset for a later thread of the same number.

Seen while modelling, with no run of their own: the child of `lab03` counts the
pair (0, 1) under index 1 and prints that count as `{1,1}` (`child.c:38`); that
its children print in turn on `o` rests on the 50 ms between two signals
(`parent.c:86`); the consumer of `lab05-2` prints a message that
`pop_message` never stored when it is woken by the shutdown (`consumer.c:20`);
its main raises `prod_count` before a `pthread_create` that may fail
(`main.c:96`).

## Proofs

All theorems hold for every value of the constants that the named `ASSUME`s of
the modules admit, which TLC evaluates in every run.

| module | theorem | statement |
|---|---|---|
| `ThreadQueueProofs` | `TypesHold` | `Spec => []TypeOK`; `count` is never negative |
| | `FullTokensHold` | `Spec => []FullTokensMatch`: `sem_full` and the threads between its two halves make up `count`, resizes included |
| | `FreeTokensHold` | `Spec => []FreeTokensCover`: no free slot is forgotten |
| | `FreeTokensExact` | without `<`, `Spec => []FreeTokensMatch` |
| | `NeverOverfull` | without `<`, `Spec => [](count <= capacity)` |
| | `ResizesHold` | `Spec => ResizeKeepsMessages` |
| | `GrowsHold` | `Spec => GrowKeepsTail`: but for a full ring with its head in cell 0 |
| | `RefinementHolds` | without `>` and `<`, `Spec => RefinesQueue` |
| `CondQueueProofs` | `TypesHold` | `Spec => []TypeOK` |
| | `WakeupsHold` | `Spec => []NoLostWakeup`, cancellations, spurious wakeups and resizes included |
| | `ResizesHold` | `Spec => ResizeKeepsQueue` |
| | `RefinementHolds` | `Spec => RefinesQueue`, resizes included, as long as the indexes are sound |
| `ProcQueueProofs` | `BalanceHolds` | `Spec => []TokensBalance`: the semaphores are off by exactly the waits a SIGTERM broke off |
| | `OneAtATime` | until then at most one process is in the critical section |
| | `SoundHolds` | `Spec => []SoundUntilInterrupted`: until then cells and counters agree, too, whenever nobody is at them |
| | `TypesHold` | `Spec => []TypeOK`: indexes stay in the ring, semaphores at or above zero |
| `ExternalSortProofs` | `TypesHold` | `Spec => []TypeOK`: no thread leaves the segment |
| | `ThreadsKeepApart` | `Spec => []OwnCells`: no two threads are ever at the same record, whatever fails and wherever a signal splits them |
| | `RecordsHold` | `Spec => RecordsAreKept` |
| | `WrittenHolds` | `Spec => []WrittenIsSorted` |
| `DupesProofs` | `TypesHold` | `Spec => []TypeOK` |
| | `FiltersHold` | `Spec => []FiltersFindDuplicates` |
| | `RemovalsHold` | `Spec => NothingUniqueIsRemoved` |
| | `SurvivalHolds` | `Spec => []ContentsSurvive` |
| | `PrintingHolds` | `Spec => []PrintsTheSets` |
| `SignalStatsProofs` | `TypesHold` | `Spec => []TypeOK`: no loop leaves the table |
| | `TableHolds` | `Spec => []TableIsExact` |
| | `PrintsOnRequest` | `Spec => OnRequest` |
| `DirWalkProofs` | `TypesHold` | `Spec => []TypeOK`: the list has room for what it names |
| | `FreedOnceHolds` | `Spec => FreedOnce` |
| | `NothingLeaksHolds` | `Spec => NothingLeaks` |
| | `WalksHold` | `Spec => []WalkIsComplete` |

*ThreadQueue.* Types alone are not inductive: `count \in Nat` survives an
extraction only if a consumer that holds a token implies a message, and a
resize needs to know who may be between lock and unlock. The inductive
invariant therefore adds `FullTokensMatch`, the capacity main plans to have
next, and the token balances. The lemmas on `Number`
(how a count of threads at given places changes when one thread moves) carry
every step: a move between places of one class keeps the sum, a move out of a
class is paid for by the semaphore or by `count`. `FreeTokensCover` is an
inequality because a failing `sem_trywait` in a shrink leaves a token too many;
without `<` it is the equation, which `FreeTokensExact` and `NeverOverfull` assume.
The refinement is that of a ring which nobody resizes: it adds `RingOK`, the
indexes and the cells between them, and a thread about to insert finds room
because the token it holds is one of the balance. With `>` the refinement is false
(finding 1); what a resize does do is said by `ResizeKeepsMessages` and
`GrowKeepsTail`.

*CondQueue.* `NoLostWakeup` is inductive with the types, with the numbers beyond the
last worker being free (`Beyond`) and with what main has seen before it joins or
resizes (`Promises`). Both kinds of workers are the same argument with messages
and free cells exchanged, so it is made once, for a count `n` of what there is to
do (`Room(pc, n)`): a step of the other kind raises `n` by one and wakes one; a step
of the own kind lowers it, and the one that took it was one of those awake. The
lemmas on rings in `SharedLemmas` turn `head`, `tail` and `count` into a sequence, to
which an insertion appends, from which an extraction takes the first, and which a
resize copies whole. The refinement follows step by step: an insertion is `Put`, an
extraction `Take`, a resize `SetLimit`, and the rest stutters.

*ProcQueue.* The balance is inductive together with `FlagFirst`: main's flag is
set before anything else of its way out happens, so that as long as it is unset
the semaphores exist. A step of a process is paid for (`PaidFor`) when the tokens
it takes or gives equal what it enters or leaves of the places of their holders
(`OneMoves`). SIGTERM moves a whole set of processes on without tokens;
`KillKeeps` splits the set by semaphore and adds the parts, which are disjoint
from those already there (`ManyJoin`), to both sides. `OneAtATime` is then
arithmetic. For types, that a message's rank is a natural number rests on
`added_count`, which is read in one step and written in another (`RanksGrow`).
`SoundUntilInterrupted` asks for more, since counters and cells change access by
access: with one process in the critical section, what is in shared memory is the
queue of the last release with a known part of one update done (`Ahead`). `Sound`
says so for the ring (`RingSound`), for the value read and not yet written back
(`ReadsCurrent`), for the message taken out (`TakenIsReal`) and for the slots
(`SlotsCounted`).

*ExternalSort.* That threads keep apart follows from where they can be at the
same time. The invariant describes the phases: in the sort the counter has passed
every block a thread is at; in a merge each thread is before or behind the wait of
the round (`BeforeWait`, `BehindWait`), or on the way out; while thread 0 counts
the next round nobody merges. One lemma shows that the barrier opens only when
everybody has come, which turns "before" into "behind" for all at once. For the
types it adds `Sizes`: the number of blocks is a power of two, so every round halves
it evenly and the blocks always make up the segment. What a step does to the file
is then one of three things (`FileStep`): nothing, a share of one thread in another
order, or the cell that an exit leaves half written. That sorting a block puts its
cells in another, ascending order is counting (`BlockSorted`): the keys below a key
and those not above it leave it as many places as it has cells. For the merge,
the recursive function is unfolded at a smallest pair of indexes where it would not
unfold (`MergeUnfolds`), and the same argument shows that what is left of two blocks
comes out complete and in order (`MergeMerges`). `WrittenIsSorted` needs to know
what is sorted when (`SInv`): in the sort, the blocks that a thread has left
behind or that the counter gave out; in a merge, all blocks of the round, and the
pairs of the threads that have merged theirs; when thread 0 counts the round, the
pairs become the blocks; and a thread leaves when one block is left.

*Dupes.* A list is described by the set of its paths and by the order of its
neighbours (`FiltersOK`); the steps that drop or sort elements are `Picked` and
`Sorted`, for which there are lemmas: what is picked keeps its order, and a sort
is a bijection of places. In a sorted list the elements with a key are a run
without gaps, so having an equal neighbour is having an equal (`RunIffSame`), which
makes `FiltersFindDuplicates` inductive until a file is rewritten (`Untouched`).
The capacity of the list that `filter_size.c` grows is a recursive function; that ten
elements never outgrow it is proved by a smallest counterexample.
`ContentsSurvive` needs `AheadOK`: what the deletion has not come to is still
there. `PrintsTheSets` needs a bijection between the starts of runs and the sets.
`NothingUniqueIsRemoved` holds whatever is rewritten, because it speaks of the time
of the comparison (`TwinsOK`).

*SignalStats.* `TableIsExact` is inductive with types, with the index of a loop
being zero outside the loops (`LoopStartsAtZero`), and, for the printing, with
the fact that a set flag means a request not shown yet (`FlagMeansAsked`), which is
what survives a request in either window.

*DirWalk.* `HeapOK` says for each place of the program which blocks are on the heap:
those of the list, one string for each entry listed, the paths of the directories
the stack has open (`Held`), their streams (`Opened`). Between a failed allocation
and `exit` it is less: `ExitOK` says that the list is whole there and that
nothing but its blocks, the open directories and their paths is left, unless the
items are NULL. Where the program still runs, `FreedOnce` and `NothingLeaks` are read
off `HeapOK`, and on the way out off `ExitOK` (together `DInv`); the four windows are
the places where the handler's list is not this one. `CellsOK` says what the list names, each entry once. For the
completeness of the walk, `WalkOK` keeps a set of entries that are still to come by,
closed under what is below them (`Frontier`); until the tree changes, everything
outside of it that was asked for is listed (`Covered`). The order of what is printed is
carried by `OrderOK`.

*Checked by TLC only.* Liveness (`MessagesAreTaken`, `ShutdownCompletes`,
`ResizeEnds`, `AllLeave`, `RunsToItsEnd`, `StopsWhileSorting`, `RequestsAnswered`) and
the absence of deadlock, which rest on fairness and ENABLED, about which the provers
here cannot reason. The four violated properties are false and have
counterexamples instead of proofs.

## What is not modelled

- The contents of messages, their checksums, printing, the waits' lengths.
- `pthread_create` that fails in `lab05-2`: the code counts the thread all the
  same and later cancels or joins an unset `pthread_t`, which is undefined. In
  `lab05-1` a failure changes nothing, like any refused command.
- `lab06`: a `memsize` that splits records, the order of writes inside `qsort` and
  `memcpy` (they are within `MayWrite`); `gen` and `view`, which write and print a
  file sequentially, `prep`, which nothing calls, and `finish`.
- `lab04`: `execl` that fails, and `shmget`, `shmat` and `semget` that fail for other
  reasons than the cleanup: such a child is gone before it touches the ring, as one
  that SIGTERM reaches in `start`, or the parent never begins; reaping of zombies, reuse of a pid; what `kill(-1)` does to
  processes outside the program.
- `lab03`: the four counters and their random pairs; `l`, which changes nothing.
- `lab01`: the handler inside the allocator (`free` in a handler that interrupts
  `malloc` is undefined), paths that do not fit their buffer, `getopt`.
  Of `readdir` it is assumed that an entry removed and made again during the walk is
  not returned twice, which POSIX leaves open; without it the 'nothing twice' of
  `WalkIsComplete` would not hold. `opendir` follows a link that was put in the place
  of a directory behind its second `lstat`; in the model it fails there (`OpenDir`
  asks for a directory).
- `bdupes`: MD5 (bit arithmetic over any input; the model has hashes that may
  collide), the parsing of the command line, cycles of linked directories, paths
  longer than `PATH_MAX`.
- `lab02`: input and output, no protocol.

## Plan

Every program with a protocol is modelled, and every safety property of the runs
is proved. What is left:

1. For liveness, the part that needs no fairness: that from every reachable state of
   `lab06` without a signal some thread or main can step, as an invariant with
   the enabling conditions written out, and a measure that every step lowers.
2. The same for the shutdown of `lab04`: with the semaphores gone no process waits.
3. An abstract specification of `lab04` until its first broken-off wait, for which
   `SoundUntilInterrupted` is already the refinement's invariant.
