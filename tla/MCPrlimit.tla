------------------------------ MODULE MCPrlimit ------------------------------
(***************************************************************************)
(* Small process tables and command lines for Prlimit.                     *)
(***************************************************************************)
EXTENDS Prlimit

\* init and the b2g.sh that runs the tool.
Boot == [exe |-> [p \in Pids |-> IF p <= 2 THEN "other" ELSE "none"],
         ppid |-> [p \in Pids |-> IF p = 2 THEN InitPid ELSE 0]]
\* With a daemon as well, and a freed pid between.
Hole == [Boot EXCEPT !.exe[4] = "other", !.ppid[4] = InitPid]

BootTables == {Boot, Hole}

Line(argc, core, pid, valid) ==
  [argc |-> argc, core |-> core, pid |-> pid, valid |-> valid]

\* "b2g-prlimit 0 core -1 -1", as b2g.sh runs it.
ForAll == Line(5, TRUE, {0}, TRUE)
OnlyForAll == {ForAll}

\* Too few arguments, too many, another resource, a soft limit above the hard
\* one, a pid that is no number, one that is, a negative one.
SomeLines ==
  {ForAll, Line(1, FALSE, {}, TRUE), Line(4, TRUE, {2}, TRUE),
   Line(5, FALSE, {2}, TRUE), Line(5, TRUE, {0}, FALSE),
   Line(5, TRUE, {}, TRUE), Line(5, TRUE, {2}, TRUE), Line(5, TRUE, {-1}, TRUE)}
=============================================================================
