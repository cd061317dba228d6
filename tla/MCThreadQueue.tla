----------------------------- MODULE MCThreadQueue -----------------------------
(* Instances of ThreadQueue for TLC: the commands each run allows. *)
EXTENDS ThreadQueue

TrafficCommands == {"+", "-", "P", "C", "q", "EOF", "SIGINT"}
ResizeCommands  == {"+", "-", ">", "<"}
GrowCommands    == {"+", "-", ">"}

AllocSucceeds  == {TRUE}
AllocMayFail   == BOOLEAN
===============================================================================
