------------------------------- MODULE Prlimit -------------------------------
(***************************************************************************)
(* b2g-prlimit: sets the core limit of one process, or, for pid 0, of all  *)
(* of them, by walking /proc while processes fork and die.  b2g.sh runs it *)
(* before it becomes b2g.                                                  *)
(***************************************************************************)
EXTENDS ProcFS

CONSTANTS
  IsRoot,   \* whether the tool may change the limits of others
  ArgLists  \* the command lines to try

\* A command line: argc, whether argv[2] is "core", what argv[1] starts with
\* as a number (a set of one number, or of none), and whether the soft limit
\* is at most the hard one.
ASSUME PrlimitAssumption ==
  /\ IsRoot \in BOOLEAN
  /\ ArgLists \subseteq [argc : Nat, core : BOOLEAN, pid : SUBSET Int,
                         valid : BOOLEAN]

VARIABLES
  args,     \* the command line
  pc,       \* what the tool does next
  status,   \* what main() returned, 0 until then
  cursor,   \* the position of readdir: the least pid still to be listed
  entry,    \* the pid being set
  limit,    \* limit[p]: whether p has its "old" or the "new" limit
  forking,  \* forking[p]: the limit the child p is creating will have, "no"
            \* when p is in no fork()
  steady,   \* history: the pids that have existed ever since opendir()
  clean     \* history: the scan ended while no fork held an old limit

toolVars == <<args, pc, status, cursor, entry>>
vars == <<procVars, toolVars, limit, forking, steady, clean>>

TypeOK ==
  /\ ProcTypeOK
  /\ args \in ArgLists
  /\ pc \in {"start", "one", "opendir", "readdir", "apply", "done"}
  /\ status \in -3..0
  /\ cursor \in 1..MaxPid + 1
  /\ entry \in Int
  /\ limit \in [Pids -> {"old", "new"}]
  /\ forking \in [Pids -> {"no", "old", "new"}]
  /\ steady \subseteq Pids
  /\ clean \in BOOLEAN

Init ==
  /\ ProcInit
  /\ args \in ArgLists
  /\ pc = "start" /\ status = 0
  /\ cursor = 1 /\ entry = 0
  /\ limit = [p \in Pids |-> "old"]
  /\ forking = [p \in Pids |-> "no"]
  /\ steady = {} /\ clean = FALSE

-----------------------------------------------------------------------------
\* atoi(): 0 for a string that does not start with a number.
Atoi(arg) == IF arg = {} THEN 0 ELSE CHOOSE n \in arg : TRUE

Return(code) ==
  /\ pc' = "done" /\ status' = code
  /\ UNCHANGED <<procVars, args, cursor, entry, limit, forking, steady, clean>>

\* The checks of main(), in its order.
Usable == args.argc = 5 /\ args.core

\* Mistake: the error codes are positive.
PositiveStatus ==
  IF args.argc < 2 THEN 0 ELSE IF args.argc # 5 THEN 1 ELSE 2

UsageStatus ==
  IF args.argc < 2 THEN 0 ELSE IF args.argc # 5 THEN -1 ELSE -2

Usage == pc = "start" /\ ~Usable /\ Return(UsageStatus)

Parse ==
  /\ pc = "start" /\ Usable
  /\ entry' = Atoi(args.pid)
  /\ pc' = IF entry' # 0 THEN "one" ELSE "opendir"
  /\ UNCHANGED <<procVars, args, status, cursor, limit, forking, steady, clean>>

\* b2g_prlimit64(): a failure is printed and forgotten.
Accepts(p) == IsRoot /\ args.valid /\ p \in Pids /\ Exists(p)
Prlimit64(p) ==
  limit' = IF Accepts(p) THEN [limit EXCEPT ![p] = "new"] ELSE limit

ApplyOne ==
  /\ pc = "one"
  /\ Prlimit64(entry)
  /\ pc' = "done"
  /\ UNCHANGED <<procVars, args, status, cursor, entry, forking, steady, clean>>

OpendirFails == pc = "opendir" /\ Return(-3)

Opendir ==
  /\ pc = "opendir"
  /\ pc' = "readdir" /\ cursor' = 1
  /\ steady' = {p \in Pids : Exists(p)}
  /\ UNCHANGED <<procVars, args, status, entry, limit, forking, clean>>

Readdir(p) ==
  /\ pc = "readdir"
  /\ Exists(p) /\ cursor <= p
  /\ \A q \in Pids : cursor <= q /\ q < p => ~Exists(q)
  /\ entry' = p /\ cursor' = p + 1 /\ pc' = "apply"
  /\ UNCHANGED <<procVars, args, status, limit, forking, steady, clean>>

\* Mistake: the first process is taken for the end of the entries that are
\* not pids.
IsPidAbove1(n) == n > 1

\* atoi() makes 0 of the names in /proc that are no pids.
IsPid(n) == n > 0

Apply ==
  /\ pc = "apply"
  /\ IF IsPid(entry) THEN Prlimit64(entry) ELSE UNCHANGED limit
  /\ pc' = "readdir"
  /\ UNCHANGED <<procVars, args, status, cursor, entry, forking, steady, clean>>

ReaddirEnds ==
  /\ pc = "readdir"
  /\ \A q \in Pids : cursor <= q => ~Exists(q)
  /\ pc' = "done"
  /\ clean' = \A p \in Pids : forking[p] # "old"
  /\ UNCHANGED <<procVars, args, status, cursor, entry, limit, forking, steady>>

Step ==
  \/ Usage \/ Parse \/ ApplyOne
  \/ OpendirFails \/ Opendir \/ ReaddirEnds \/ Apply
  \/ \E p \in Pids : Readdir(p)

-----------------------------------------------------------------------------
(***************************************************************************)
(* The other processes.  fork() copies the limits of its caller some time  *)
(* before the child appears in /proc.                                      *)
(***************************************************************************)
BeginFork(p) ==
  /\ Live(p) /\ forking[p] = "no"
  /\ forking' = [forking EXCEPT ![p] = limit[p]]
  /\ UNCHANGED <<procVars, toolVars, limit, steady, clean>>

EndFork(p, c) ==
  /\ forking[p] # "no"
  /\ Fork(p, c)
  /\ limit' = [limit EXCEPT ![c] = forking[p]]
  /\ forking' = [forking EXCEPT ![p] = "no"]
  /\ UNCHANGED <<toolVars, steady, clean>>

Leave(p) ==
  /\ forking[p] = "no"
  /\ Exit(p) \/ Reap(p)
  /\ steady' = {q \in steady : exe'[q] # "none"}
  /\ UNCHANGED <<toolVars, limit, forking, clean>>

Execute(p) ==
  /\ forking[p] = "no"
  /\ \E image \in Images : Exec(p, image)
  /\ UNCHANGED <<toolVars, limit, forking, steady, clean>>

World ==
  \/ \E p \in Pids : BeginFork(p) \/ Leave(p) \/ Execute(p)
  \/ \E p, c \in Pids : EndFork(p, c)

Next == Step \/ World

Spec == Init /\ [][Next]_vars

-----------------------------------------------------------------------------
Limited(p) == limit[p] = "new"
Scanned == pc = "done" /\ cursor > 1

\* A run over all processes sets the limit of every process that was there
\* from opendir() to the end, whatever the others did meanwhile
\* (b2g-prlimit.cpp:93-98).
SteadyLimited ==
  Scanned /\ IsRoot /\ args.valid => \A p \in steady : Limited(p)

\* When pids are not reused, forks cannot outrun the scan: if no fork() held
\* a copy of an old limit when the scan ended, every process has the new
\* limit, then and ever after.
CleanScanIsComplete ==
  Scanned /\ clean /\ ~reused /\ IsRoot /\ args.valid =>
    \A p \in Pids : Exists(p) => Limited(p)

\* "if pid is 0, we should apply this to all processes"
\* (b2g-prlimit.cpp:83).
AppliedToAll ==
  Scanned /\ ~reused /\ IsRoot /\ args.valid =>
    \A p \in Pids : Live(p) => Limited(p)
=============================================================================
