---------------------------- MODULE MCProcessList ----------------------------
(***************************************************************************)
(* Small process tables for ProcessList.                                   *)
(***************************************************************************)
EXTENDS ProcessList

\* A table of the pids 1..MaxPid, from the images and parents of the first.
Table(images, parents) ==
  [exe |-> [p \in Pids |-> IF p <= Len(images) THEN images[p] ELSE "none"],
   ppid |-> [p \in Pids |-> IF p <= Len(parents) THEN parents[p] ELSE 0]]

\* b2g runs one content process.
Running == Table(<<"other", "b2g", "plugin">>, <<0, 1, 2>>)
\* b2g.sh has not executed b2g yet.
Booting == Table(<<"other", "other">>, <<0, 1>>)
\* A content process runs a nested one.
Nested == Table(<<"other", "b2g", "plugin", "plugin">>, <<0, 1, 2, 3>>)
\* b2g died and its content process did not: init is about to restart it.
Orphaned == Table(<<"other", "zombie", "plugin">>, <<0, 1, 1>>)

\* The changes lead from these to the running and the nested ones.
FirstTables == {Booting, Orphaned}
AllTables == FirstTables \cup {Nested}
=============================================================================
