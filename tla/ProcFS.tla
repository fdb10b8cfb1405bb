------------------------------- MODULE ProcFS -------------------------------
(***************************************************************************)
(* The kernel's process table, as the tools of gonk-misc observe it: the   *)
(* pids listed in /proc, the target of /proc/<pid>/exe and the ppid field  *)
(* of /proc/<pid>/stat.  The table is external to the repository; it is    *)
(* modelled from what the tools read, and it changes between any two       *)
(* system calls of a tool.                                                 *)
(***************************************************************************)
EXTENDS Integers, FiniteSets

CONSTANTS
  MaxPid,    \* pids are 1..MaxPid (a bound of the model)
  MaxChurn,  \* how many times the table may change (a bound of the model)
  AllowFifo, \* TRUE: tasks may become SCHED_FIFO (gonksched does that)
  Tables     \* the initial process tables

VARIABLES
  exe,       \* exe[p]: the image run by p, "zombie", or "none" (p is free)
  ppid,      \* ppid[p]: the parent of p
  fifo,      \* the pids whose main task is SCHED_FIFO
  lastPid,   \* the greatest pid ever allocated
  reused,    \* history: whether fork has allocated a pid that is not greater;
             \* a child with a lesser pid than its parent tells so
  churn      \* the number of changes so far

procVars == <<exe, ppid, fifo, lastPid, reused, churn>>

Pids == 1..MaxPid
InitPid == 1

B2GExes == {"b2g", "plugin"}       \* /system/b2g/b2g, .../plugin-container
Images == B2GExes \cup {"other"}
ExeStates == Images \cup {"zombie", "none"}

\* Who executes what: b2g.sh execs b2g, b2g launches content processes and
\* other programs.
Launches == {<<"other", "b2g">>, <<"b2g", "plugin">>, <<"b2g", "other">>}

ASSUME ProcFSAssumption ==
  /\ MaxPid \in Nat \ {0}
  /\ MaxChurn \in Nat
  /\ AllowFifo \in BOOLEAN
  /\ Tables \subseteq [exe : [Pids -> ExeStates], ppid : [Pids -> 0..MaxPid]]
  /\ \A t \in Tables : t.exe[InitPid] \in Images

\* The processes form a tree: no one is its own ancestor, orphans have become
\* children of init, and init, which is no B2G process, has no parent.
Tree(t) ==
  LET here == {p \in Pids : t.exe[p] # "none"}
  IN  /\ t.exe[InitPid] = "other" /\ t.ppid[InitPid] = 0
      /\ \A p \in here : t.ppid[p] = 0 \/ t.exe[t.ppid[p]] \in Images
      /\ \A s \in SUBSET here : s # {} => \E p \in s : t.ppid[p] \notin s

ASSUME TreeAssumption == \A t \in Tables : Tree(t)

-----------------------------------------------------------------------------
Live(p) == exe[p] \in Images         \* runs code
Exists(p) == exe[p] # "none"         \* has a directory in /proc
Family == {p \in Pids : exe[p] \in B2GExes}
\* The members of the family whose parent is not one: what a "main process"
\* is, when it is read off one consistent state of the table.
Roots == {p \in Family : ppid[p] \notin Family}

ProcTypeOK ==
  /\ exe \in [Pids -> ExeStates]
  /\ ppid \in [Pids -> 0..MaxPid]
  /\ fifo \subseteq Pids
  /\ lastPid \in 0..MaxPid
  /\ reused \in BOOLEAN
  /\ churn \in 0..MaxChurn

ProcInit ==
  /\ \E t \in Tables : exe = t.exe /\ ppid = t.ppid
  /\ fifo = {}
  /\ lastPid \in Pids /\ Exists(lastPid) /\ \A p \in Pids : Exists(p) => p <= lastPid
  /\ reused = \E p \in Pids : Exists(p) /\ ppid[p] >= p
  /\ churn = 0

-----------------------------------------------------------------------------
Churn == churn < MaxChurn /\ churn' = churn + 1

\* fork(): the child runs its parent's image and inherits its policy.  Its
\* pid is greater than all before it, until the kernel's counter wraps around,
\* which it may have done at any fork.
Fork(p, c) ==
  /\ Churn
  /\ Live(p) /\ ~Exists(c)
  /\ exe' = [exe EXCEPT ![c] = exe[p]]
  /\ ppid' = [ppid EXCEPT ![c] = p]
  /\ fifo' = IF p \in fifo THEN fifo \cup {c} ELSE fifo
  /\ lastPid' = IF c > lastPid THEN c ELSE lastPid
  /\ reused' = (reused \/ c <= lastPid)

\* execve().  init keeps one b2g service: b2g.sh becomes b2g only as a child
\* of init, and only when no other child of init runs b2g.
Exec(p, image) ==
  /\ Churn
  /\ <<exe[p], image>> \in Launches
  /\ p # InitPid
  /\ image = "b2g" => /\ ppid[p] = InitPid
                      /\ \A q \in Pids : ~(exe[q] = "b2g" /\ ppid[q] = InitPid)
  /\ exe' = [exe EXCEPT ![p] = image]
  /\ UNCHANGED <<ppid, fifo, lastPid, reused>>

\* exit(): p vanishes, or stays a zombie until its parent waits for it; its
\* children become children of init.
Exit(p) ==
  /\ Churn
  /\ Live(p) /\ p # InitPid
  /\ \E left \in {"zombie", "none"} :
       /\ exe' = [exe EXCEPT ![p] = left]
       /\ fifo' = IF left = "none" THEN fifo \ {p} ELSE fifo
  /\ ppid' = [q \in Pids |-> IF ppid[q] = p THEN InitPid ELSE ppid[q]]
  /\ UNCHANGED <<lastPid, reused>>

\* wait(): a zombie leaves the table.
Reap(p) ==
  /\ Churn
  /\ exe[p] = "zombie"
  /\ exe' = [exe EXCEPT ![p] = "none"]
  /\ fifo' = fifo \ {p}
  /\ UNCHANGED <<ppid, lastPid, reused>>

\* sched_setscheduler(p, SCHED_FIFO): the priority field of its stat line
\* turns negative.
SetFifo(p) ==
  /\ Churn
  /\ AllowFifo /\ Live(p) /\ p \notin fifo
  /\ fifo' = fifo \cup {p}
  /\ UNCHANGED <<exe, ppid, lastPid, reused>>

ProcNext ==
  \/ \E p, c \in Pids : Fork(p, c)
  \/ \E p \in Pids, image \in Images : Exec(p, image)
  \/ \E p \in Pids : Exit(p)
  \/ \E p \in Pids : Reap(p)
  \/ \E p \in Pids : SetFifo(p)
=============================================================================
