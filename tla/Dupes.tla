--------------------------------- MODULE Dupes ---------------------------------
(***************************************************************************)
(* course-work: bdupes lists the files of a directory, passes the list      *)
(* through five filters until only duplicates are left, and prints them or  *)
(* removes all but one of each set.  The file system belongs to others too:  *)
(* another process may rewrite a file between any two stages.               *)
(*                                                                         *)
(* A stage is one step, except the deletion, where a step is one group.     *)
(* A file's content is a name with a size, a MIME type and a hash; what a    *)
(* path opens and what removing it removes depend on links (layout).        *)
(***************************************************************************)
EXTENDS Integers, SequencesExt

CONSTANTS Paths,          \* the paths the walk can meet
          Nested,         \* those below a subdirectory
          Contents,       \* what a file may contain
          size_of, mime_of, hash_of,   \* what stat, libmagic and MD5 say of a content
          Disks,          \* what the files may hold at the start
          Layouts,        \* how paths and files may be related
          Options,        \* the command lines
          FirstCapacity,  \* of a list: 10 in the code
          Rewritable,     \* the files another process may rewrite
          MaxEdits        \* bound on the files rewritten meanwhile

\* What libmagic may answer for a file it cannot read, and for no other.
NoMime == "no type"

ASSUME DupesAssumption ==
    /\ IsFiniteSet(Paths) /\ Nested \subseteq Paths /\ Rewritable \subseteq Paths
    /\ size_of \in [Contents -> Nat] /\ hash_of \in [Contents -> Nat \ {0}]
    /\ \A c \in Contents : mime_of[c] # NoMime
    /\ Disks \subseteq [Paths -> Contents]
    /\ \A l \in Layouts : /\ l.denotes \in [Paths -> Paths] /\ l.entry \in [Paths -> Paths]
                          /\ l.unreadable \subseteq Paths
                          /\ \A p \in Paths : l.denotes[l.entry[p]] = l.denotes[p]
    /\ FirstCapacity \in Nat \ {0} /\ MaxEdits \in Nat

VARIABLES
  opts, layout,        \* chosen once
  content, present,    \* the file system: what each file holds, which entries exist
  pc, file_list, idx,  \* the program: its stage, its list, where the deletion is
  found,               \* the paths the walk listed
  compared,            \* what the files held when filter_cmp_list read them
  edits,
  listing, summary     \* what was printed: the groups, or two numbers

fixed == <<opts, layout>>
disk  == <<content, present>>
aside == <<found, compared, edits>>
printout == <<listing, summary>>
vars  == <<fixed, disk, pc, file_list, idx, aside, printout>>

(* layout.denotes: the file a path opens.  layout.entry: the directory entry  *)
(* that remove takes away: the path itself, also when it is a symbolic link;  *)
(* the file's own one when the path leads through a linked directory.        *)
Opens(p)    == layout.denotes[p]
Exists(p)   == {layout.entry[p], Opens(p)} \subseteq present
Readable(p) == Exists(p) /\ Opens(p) \notin layout.unreadable
Holds(p)    == content[Opens(p)]

Entries == [full_path : Paths, file_size : {size_of[c] : c \in Contents}]

Init ==
    /\ opts \in Options /\ layout \in Layouts
    /\ content \in {c \in Disks : \A p \in Paths : c[p] = c[Opens(p)]}
    /\ present = {layout.entry[p] : p \in Paths}
    /\ pc = "start" /\ file_list = <<>> /\ idx = 1
    /\ found = {} /\ compared = content /\ edits = 0
    /\ listing = {} /\ summary = <<0, 0>>

-----------------------------------------------------------------------------
(* Lists *)

\* The elements at the positions kept, in their order.
Picked(list, kept) ==
    [k \in 1..Cardinality(kept) |->
       list[CHOOSE i \in kept : Cardinality({j \in kept : j < i}) = k - 1]]

\* qsort by a key leaves equal elements in any order.
Sorted(list, key) ==
    {s \in {[i \in DOMAIN list |-> list[f[i]]] : f \in Bijection(DOMAIN list, DOMAIN list)} :
        \A i \in 1..Len(list) - 1 : key[s[i]] <= key[s[i + 1]]}

\* Positions in a run of at least two neighbours with one key.
InRuns(list, key) ==
    {i \in DOMAIN list : \E j \in {i - 1, i + 1} \cap DOMAIN list : key[list[i]] = key[list[j]]}

\* Positions i and j are in one run of neighbours of one size.
SameRun(list, i, j) == \A k \in (i..j) \cup (j..i) : list[k].file_size = list[i].file_size

SizeOf(list) == [e \in ToSet(list) |-> e.file_size]

\* A file that cannot be read has the empty string for a hash.
HashOf(list) == [e \in ToSet(list) |->
                   IF Readable(e.full_path) THEN hash_of[Holds(e.full_path)] ELSE 0]

\* libmagic answers NULL, or the same words for all files it may not read.
MimeOf(e, words) == IF Readable(e.full_path) THEN mime_of[Holds(e.full_path)] ELSE words

SameHash(p, q) ==   \* mutant: equal hashes are taken for equal bytes
    Readable(p) /\ Readable(q) /\ hash_of[Holds(p)] = hash_of[Holds(q)]

files_are_identical(p, q) == Readable(p) /\ Readable(q) /\ Holds(p) = Holds(q)

-----------------------------------------------------------------------------
(* The stages *)

Filters == {"size", "mime", "hash", "cmp"}

Stage(from, to) == pc = from /\ pc' = to /\ UNCHANGED <<fixed, disk, edits, printout>>

\* Flags -m and -d exclude each other.
Start ==
    /\ Stage("start", IF opts.deletion /\ opts.summary THEN "exited" ELSE "scan")
    /\ UNCHANGED <<file_list, idx, found, compared>>

\* stat follows links; what it cannot reach, and a directory that cannot be
\* opened or is not to be entered, is left out.  The order of readdir is lost
\* in the first qsort, so one will do.
scan_directory ==
    /\ Stage("scan", "limits")
    /\ \E walked \in {Paths \ Nested} \cup IF opts.recursive THEN {Paths} ELSE {} :
         /\ found' = {p \in walked : Exists(p)}
         /\ LET order == SetToSeq(found')
            IN file_list' = [i \in DOMAIN order |-> [full_path |-> order[i],
                                                     file_size |-> size_of[Holds(order[i])]]]
    /\ UNCHANGED <<idx, compared>>

WithinLimits(size) == /\ opts.min_size > 0 => size >= opts.min_size
                      /\ opts.max_size > 0 => size <= opts.max_size

filter_size_list ==
    /\ Stage("limits", "size")
    /\ file_list' = Picked(file_list, {i \in DOMAIN file_list : WithinLimits(file_list[i].file_size)})
    /\ UNCHANGED <<idx, found, compared>>

\* main leaves the loop over the filters once the list is empty.
NoneLeft ==
    /\ \E f \in Filters : Stage(f, "result")
    /\ file_list = <<>>
    /\ UNCHANGED <<file_list, idx, found, compared>>

\* A filter that runs to its end replaces the list.
Filter(from, to, list) == /\ Stage(from, to) /\ file_list # <<>>
                          /\ file_list' = list
                          /\ UNCHANGED <<idx, found>>

Grown(c) == IF c = 0 THEN FirstCapacity ELSE 2 * c

\* The last positions of the runs that the list keeps.
RunEnds(list) == {k \in InRuns(list, SizeOf(list)) :
                 k < Len(list) => list[k].file_size # list[k + 1].file_size}

\* What the new list holds after position k, and its capacity then: it grows
\* once for a run, however long the run is.
Count(list, k) == Cardinality(InRuns(list, SizeOf(list)) \cap 1..k)

Capacity(list) ==
    LET c[k \in 0..Len(list)] ==
          IF k = 0 THEN 0
          ELSE LET last == c[k - 1]
               IN IF k \in RunEnds(list) /\ Count(list, k) > last THEN Grown(last) ELSE last
    IN c

Overflows(list) == \E k \in RunEnds(list) : Count(list, k) > Capacity(list)[k]

filter_file_list ==
    /\ pc = "size"
    /\ \E s \in Sorted(file_list, SizeOf(file_list)) :
         \/ Filter("size", "mime", Picked(s, InRuns(s, SizeOf(s))))
         \/ Filter("size", "undefined", file_list) /\ Overflows(s)   \* written past the end
    /\ UNCHANGED compared

filter_mime_list ==
    /\ \E words \in {NoMime, "cannot be read"} :
         LET mime == [i \in DOMAIN file_list |-> MimeOf(file_list[i], words)]
             kept == {i \in DOMAIN file_list :
                        /\ mime[i] # NoMime
                        /\ \E j \in DOMAIN file_list \ {i} :
                             SameRun(file_list, i, j) /\ mime[j] = mime[i]}
         IN Filter("mime", "hash", Picked(file_list, kept))
    /\ UNCHANGED compared

Unsorted(list) == {list}   \* mutant: qsort by hash is left out

HashSorted(list) == Sorted(list, HashOf(list))

filter_hash_list ==
    /\ pc = "hash"
    /\ \E s \in HashSorted(file_list) : Filter("hash", "cmp", Picked(s, InRuns(s, HashOf(s))))
    /\ UNCHANGED compared

filter_cmp_list ==
    /\ LET kept == {i \in DOMAIN file_list :
                      \E j \in DOMAIN file_list \ {i} :
                        /\ file_list[i].file_size = file_list[j].file_size
                        /\ files_are_identical(file_list[i].full_path, file_list[j].full_path)}
       IN Filter("cmp", "result", Picked(file_list, kept))
    /\ compared' = content

\* Memory or libmagic fail: exit.
Abort ==
    /\ \/ Stage("scan", "exited")
       \/ file_list # <<>> /\ \E f \in Filters : Stage(f, "exited")
    /\ UNCHANGED <<file_list, idx, found, compared>>

\* With -d, on to the deletion.
Result ==
    /\ Stage("result", "delete") /\ opts.deletion
    /\ UNCHANGED <<file_list, idx, found, compared>>

-----------------------------------------------------------------------------
(* result.c.  Sizes, times and the space taken by duplicates are left out.   *)

\* The runs of neighbours of one size, as sets of paths.
Groups == {{file_list[j].full_path : j \in {k \in DOMAIN file_list : SameRun(file_list, i, k)}} :
             i \in DOMAIN file_list}

Printing == /\ pc = "result" /\ pc' = "printed" /\ ~opts.deletion
            /\ UNCHANGED <<fixed, disk, file_list, idx, aside>>

\* The three listings differ in what stands beside a path.
print_filtered_file_list ==
    /\ Printing /\ ~opts.summary
    /\ listing' = Groups /\ UNCHANGED summary

WithFirst(list) == InRuns(list, SizeOf(list))   \* mutant: the file to keep is counted

\* All of a run but its first.
Spare(list) == {i \in 2..Len(list) : list[i - 1].file_size = list[i].file_size}

print_summary ==
    /\ Printing /\ opts.summary
    /\ LET sets == {g \in Groups : Cardinality(g) > 1}
       IN summary' = <<Cardinality(sets), Cardinality(Spare(file_list))>>
    /\ UNCHANGED listing

-----------------------------------------------------------------------------
(* deletion.c: the groups are runs of neighbours of one size *)

Group == {j \in idx..Len(file_list) : SameRun(file_list, idx, j)}

Deleting(to) == /\ pc = "delete" /\ pc' = to
                /\ UNCHANGED <<fixed, content, file_list, aside, printout>>

NextGroupButOne == idx' = idx + Cardinality(Group) + 1   \* mutant: one entry is skipped

NextGroup == idx' = idx + Cardinality(Group)

DeletionEnds == idx > Len(file_list) /\ Deleting("exited") /\ UNCHANGED <<present, idx>>

SkipSingle == /\ idx <= Len(file_list) /\ Cardinality(Group) = 1
              /\ Deleting("delete") /\ NextGroup /\ UNCHANGED present

NoneKept == {0}   \* mutant: the first file goes too

\* The first, or the one the user names.
MayKeep == IF opts.no_interact THEN {idx} ELSE Group

\* remove may fail for any of the others; the loop goes on.
DeleteGroup ==
    /\ idx <= Len(file_list) /\ Cardinality(Group) >= 2
    /\ \E keep \in MayKeep : \E removed \in SUBSET (Group \ {keep}) :
         present' = present \ {layout.entry[file_list[j].full_path] : j \in removed}
    /\ Deleting("delete") /\ NextGroup

\* The answers "all" and "quit".
Decline ==
    /\ ~opts.no_interact /\ idx <= Len(file_list) /\ Cardinality(Group) >= 2
    /\ \/ Deleting("delete") /\ NextGroup
       \/ Deleting("exited") /\ UNCHANGED idx
    /\ UNCHANGED present

-----------------------------------------------------------------------------
\* Another process writes something else into a file.
Edit(f) ==
    /\ edits < MaxEdits /\ edits' = edits + 1
    /\ pc \notin {"exited", "printed", "undefined"} /\ f \in present /\ Opens(f) = f
    /\ \E c \in Contents \ {content[f]} : content' = [content EXCEPT ![f] = c]
    /\ compared' = IF pc \in {"result", "delete"} THEN compared ELSE content'
    /\ UNCHANGED <<fixed, present, pc, file_list, idx, found, printout>>

Ended == pc \in {"exited", "printed", "undefined"} /\ UNCHANGED vars

Next == \/ Start \/ scan_directory \/ filter_size_list \/ NoneLeft
        \/ filter_file_list \/ filter_mime_list \/ filter_hash_list \/ filter_cmp_list
        \/ Abort \/ Result \/ print_filtered_file_list \/ print_summary
        \/ DeletionEnds \/ SkipSingle \/ DeleteGroup \/ Decline
        \/ (\E f \in Rewritable : Edit(f)) \/ Ended

Spec == Init /\ [][Next]_vars

-----------------------------------------------------------------------------
(* Properties *)

\* Every variable keeps its kind; the list grows no longer than what was found
\* and the deletion stops right behind its end.
TypeOK ==
    /\ opts \in Options /\ layout \in Layouts
    /\ content \in [Paths -> Contents] /\ compared \in [Paths -> Contents]
    /\ present \subseteq Paths /\ found \subseteq Paths
    /\ pc \in Filters \cup {"start", "scan", "limits", "result", "delete", "exited", "printed",
                        "undefined"}
    /\ Len(file_list) <= Cardinality(found) /\ ToSet(file_list) \subseteq Entries
    /\ idx \in 1..Len(file_list) + 1
    /\ edits \in 0..MaxEdits

Untouched == edits = 0

\* The filters, each leaning on the order the one before it left, come to the
\* definition of a duplicate (main.c:69-80): the list holds exactly the files
\* found that can be read, are within the limits and have a twin.  A list of at
\* most ten files always gets there: the capacity that is raised once
\* (filter_size.c:55-56) is too small only for longer ones.
FiltersFindDuplicates ==
    /\ pc = "result" /\ Untouched =>
         {e.full_path : e \in ToSet(file_list)} =
           {p \in found : /\ WithinLimits(size_of[Holds(p)])
                          /\ \E q \in found \ {p} : files_are_identical(p, q)}
    /\ pc = "undefined" => Len(file_list) > FirstCapacity

\* Whatever is rewritten while the program runs, and however groups are mixed
\* up, it removes no file that had no twin when it was compared
\* (filter_cmp.c:68-77, deletion.c:88-98, 128-134).
NothingUniqueIsRemoved ==
    [][ \A e \in present \ present' :
          \E p \in found : /\ layout.entry[p] = e
                           /\ \E q \in found \ {p} :
                                compared[Opens(p)] = compared[Opens(q)] ]_vars

\* No two sets of duplicates are neighbours of one size in the list.
SetsApart ==
    \A i \in 1..Len(file_list) - 1 :
      file_list[i].file_size = file_list[i + 1].file_size =>
        Holds(file_list[i].full_path) = Holds(file_list[i + 1].full_path)

Plain == \A p \in Paths : layout.denotes[p] = p

ContentLeft(p) == \E q \in present : content[q] = content[p]

\* Where there are no links and sets do not meet, the deletion loses no
\* content, whatever the user answers and whichever removals fail.
ContentsSurvive == Untouched /\ Plain /\ SetsApart => \A p \in found : ContentLeft(p)

\* Two different contents in the list do not share a hash.
NoCollision ==
    \A i, j \in DOMAIN file_list :
      hash_of[Holds(file_list[i].full_path)] = hash_of[Holds(file_list[j].full_path)] =>
        Holds(file_list[i].full_path) = Holds(file_list[j].full_path)

\* What is printed are the sets of equal files, though the groups are formed by
\* size in a list that is ordered by hash (result.c:21-42, 55-78): the listing
\* shows each set as one group, the summary counts the sets and the files that
\* could go, as long as no hash collides and sets of one size do not meet.
PrintsTheSets ==
    pc = "printed" /\ Untouched /\ NoCollision /\ SetsApart =>
      LET paths == {e.full_path : e \in ToSet(file_list)}
          sets  == {{q \in paths : files_are_identical(p, q)} : p \in paths}
      IN IF opts.summary THEN summary = <<Cardinality(sets), Cardinality(paths) - Cardinality(sets)>>
                         ELSE listing = sets

\* bdupes.1:19 says that of each set of duplicates the first file is kept, so
\* one file of every content would be left.
EverySetKeepsOne == Untouched /\ Plain => \A p \in found : ContentLeft(p)
===============================================================================
