----------------------------- MODULE MCAttribution -----------------------------
(* Values for the constants of Attribution: a program with two routines    *)
(* next to each other, two libraries with a malloc, and a plugin that may  *)
(* take the place of one of them.                                          *)
EXTENDS Attribution

Rtn(addr, size, name) == [addr |-> addr, size |-> size, name |-> name]

MCImages == {
    [name |-> "program",  malloc |-> FALSE, routines |-> {Rtn(0, 2, "main"), Rtn(2, 3, "work")}],
    [name |-> "libc",     malloc |-> TRUE,  routines |-> {Rtn(8, 3, "malloc")}],
    [name |-> "tcmalloc", malloc |-> TRUE,  routines |-> {Rtn(12, 2, "malloc")}],
    [name |-> "plugin",   malloc |-> FALSE, routines |-> {Rtn(11, 2, "plugin")}]}

MCHeap == {20, 22}
=============================================================================
