-------------------------------- MODULE MCDupes --------------------------------
(* Instances of Dupes for TLC: four paths, one in a subdirectory. *)
EXTENDS Dupes

Four  == 1..4
Below == {4}
Ends  == {1, 4}

\* a, b and d share a hash, and all but d a size.
Letters == {"a", "b", "c", "d"}
Sizes   == [x \in Letters |-> IF x = "d" THEN 2 ELSE 1]
Hashes  == [x \in Letters |-> IF x = "c" THEN 1 ELSE 2]
Types   == [x \in Letters |-> IF x = "c" THEN "text" ELSE "image"]

\* The paths are interchangeable where no link tells them apart, so one order
\* of their contents will do; 4 may hold what 1 holds, for the links.
InOrder == [x \in Letters |-> CASE x = "a" -> 1 [] x = "b" -> 2 [] x = "c" -> 3 [] x = "d" -> 4]
AnyDisk == {f \in [Four -> Letters] :
              /\ InOrder[f[1]] <= InOrder[f[2]] /\ InOrder[f[2]] <= InOrder[f[3]]
              /\ InOrder[f[3]] <= InOrder[f[4]] \/ f[4] = f[1]}

Own == [p \in Four |-> p]

\* Path 4 is a file; a link to 1; a second way to 1 through a linked directory.
PlainFiles == [denotes |-> Own, entry |-> Own, unreadable |-> {}]
Hidden     == [denotes |-> Own, entry |-> Own, unreadable |-> {1, 2}]
Link       == [denotes |-> [Own EXCEPT ![4] = 1], entry |-> Own, unreadable |-> {}]
SecondWay  == [denotes |-> [Own EXCEPT ![4] = 1], entry |-> [Own EXCEPT ![4] = 1],
               unreadable |-> {}]
AllLayouts == {PlainFiles, Hidden, Link, SecondWay}
NoLinks    == {PlainFiles}

Line(d, n, m, min, max, r) ==
    [deletion |-> d, no_interact |-> n, summary |-> m, min_size |-> min, max_size |-> max,
     recursive |-> r]
Lines == {Line(TRUE, TRUE, FALSE, 0, 0, TRUE), Line(TRUE, FALSE, FALSE, 0, 1, TRUE),
          Line(TRUE, TRUE, TRUE, 0, 0, FALSE), Line(FALSE, FALSE, FALSE, 2, 0, FALSE),
          Line(FALSE, FALSE, FALSE, 0, 0, TRUE), Line(FALSE, FALSE, TRUE, 0, 0, TRUE)}
BatchLines == {Line(TRUE, TRUE, FALSE, 0, 0, TRUE)}
===============================================================================
