------------------------------ MODULE MCB2GInfo ------------------------------
(***************************************************************************)
(* A small process table and the command lines for B2GInfo.                *)
(***************************************************************************)
EXTENDS B2GInfo

\* b2g, process 2, runs the content processes given.
Running(content) ==
  [exe |-> [p \in Pids |-> CASE p = 1 -> "other" [] p = 2 -> "b2g"
                             [] p \in content -> "plugin" [] OTHER -> "none"],
   ppid |-> [p \in Pids |-> CASE p = 2 -> 1 [] p \in content -> 2 [] OTHER -> 0]]
RunningTables == {Running({3}), Running({3, 4})}

Sizes == [p \in Pids |-> 10 * p]

AllOptions == {"info", "threads", "pids", "main", "child", "help", "unknown",
               "many"}
=============================================================================
