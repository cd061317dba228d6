------------------------------- MODULE MCDirWalk -------------------------------
(* A small tree for TLC: a directory with a file and a directory in it, which *)
(* holds a link, and a file beside it; every combination of options.         *)
EXTENDS DirWalk

SmallTree  == <<0, 1, 1, 3, 0>>
SmallKinds == <<"dir", "file", "dir", "link", "file">>

AllOptions == Option
===============================================================================
