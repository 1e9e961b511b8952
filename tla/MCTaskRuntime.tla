--------------------------- MODULE MCTaskRuntime ---------------------------
(***************************************************************************)
(* Small instances of TaskRuntime for TLC.                                 *)
(***************************************************************************)
EXTENDS TaskRuntime, TLC

CONSTANTS x, y, w, k, data

One == {x}
Three == {x, y, w}
None == {}
Shell == {k}
Data == {data}

\* x and w come under one key, y under another; all with the same input.
Twins == [q \in Requests |-> IF q = y THEN 2 ELSE 1]
OneBody == [q \in Requests |-> 1]
Alike == Permutations({x, w})

\* The jobs read the dataset and the foreground command writes it.
ReadersAndWriter == [o \in Requests \cup Commands |->
                        {<<data, IF o \in Commands THEN "write" ELSE "read">>}]
=============================================================================
