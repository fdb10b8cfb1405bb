------------------------------- MODULE Killer --------------------------------
(***************************************************************************)
(* killer: sends SIGRT0, SIGRT1 or SIGRT2 to B2G processes.  It looks at   *)
(* all its arguments, one readlink() each, before it sends the first       *)
(* signal; the processes live on between any two of its system calls.      *)
(***************************************************************************)
EXTENDS ProcFS, Sequences

CONSTANTS
  Signals, \* the first arguments to try
  PidLists \* the lists of pid arguments to try

\* An argument as strtol() sees it: whether it has digits, the number they
\* make (0 without digits), and whether characters follow them.  In a signal
\* argument, sigrt tells whether "SIGRT" precedes them.  The number is stored
\* in an int as it is: on the devices, which have 32 bits, a long is no wider.
Numbers == [digits : BOOLEAN, num : Int, rest : BOOLEAN]

ASSUME KillerAssumption ==
  /\ Signals \subseteq
       [sigrt : BOOLEAN, digits : BOOLEAN, num : Int, rest : BOOLEAN]
  /\ PidLists \subseteq Seq(Numbers)

VARIABLES
  sigarg,    \* argv[1]
  pidargs,   \* argv[2..]
  pc,        \* what the tool does next
  status,    \* the exit status, -1 until the tool exits
  pids,      \* the pids accepted so far
  idx,       \* the position of the loop being run
  checked,   \* history: the pids accepted and not gone since
  delivered, \* history: <<pid, signal>> for each signal delivered
  members,   \* history: the pids of processes that have run a B2G program at
             \* some time since the tool started
  strangers  \* history: the pids that got a signal and were not of these

toolVars == <<sigarg, pidargs, pc, status, pids, idx>>
history == <<checked, delivered, members, strangers>>
vars == <<procVars, toolVars, history>>

SIGRTMIN == 32
AllowedSignals == {SIGRTMIN, SIGRTMIN + 1, SIGRTMIN + 2}

TypeOK ==
  /\ ProcTypeOK
  /\ sigarg \in Signals /\ pidargs \in PidLists
  /\ pc \in {"start", "check", "kill", "exited"}
  /\ status \in {-1, 0, 1}
  /\ pids \in Seq(Nat) /\ idx \in Nat
  /\ checked \subseteq Pids
  /\ members \subseteq Pids /\ strangers \subseteq Pids
  /\ delivered \in Seq(Pids \X AllowedSignals)

Init ==
  /\ ProcInit
  /\ sigarg \in Signals /\ pidargs \in PidLists
  /\ pc = "start" /\ status = -1 /\ pids = <<>> /\ idx = 1
  /\ checked = {} /\ delivered = <<>>
  /\ members = Family /\ strangers = {}

-----------------------------------------------------------------------------
\* Mistake: what follows the digits is not looked at.
AnyTail == IF sigarg.sigrt THEN SIGRTMIN + sigarg.num ELSE sigarg.num

\* The signal number, -1 for an argument that is none.
Signum ==
  IF sigarg.sigrt
  THEN IF ~sigarg.rest \/ sigarg.num < 0 THEN SIGRTMIN + sigarg.num ELSE -1
  ELSE IF sigarg.rest THEN -1 ELSE sigarg.num

ExitWith(code) ==
  /\ pc' = "exited" /\ status' = code
  /\ UNCHANGED <<procVars, sigarg, pidargs, pids, idx, history>>

\* Mistake: every signal from SIGRTMIN on is allowed.
AnyRealTime == Signum >= SIGRTMIN

SignalAllowed == Signum \in AllowedSignals

Usage ==
  /\ pc = "start"
  /\ Len(pidargs) = 0 \/ ~SignalAllowed
  /\ ExitWith(1)

ParseSignal ==
  /\ pc = "start"
  /\ Len(pidargs) > 0 /\ SignalAllowed
  /\ pc' = "check"
  /\ UNCHANGED <<procVars, sigarg, pidargs, status, pids, idx, history>>

-----------------------------------------------------------------------------
\* Mistake: the link has to be there, whatever it names.
AnyProgram(arg) == ~arg.rest /\ arg.num >= 0 /\ arg.num \in Pids /\ Live(arg.num)

\* The link of /proc/<pid>/exe can be read and names a B2G program.
Allowed(arg) ==
  /\ ~arg.rest /\ arg.num >= 0
  /\ arg.num \in Family

Reject ==
  /\ pc = "check" /\ idx <= Len(pidargs)
  /\ ~Allowed(pidargs[idx])
  /\ ExitWith(1)

Accept ==
  /\ pc = "check" /\ idx <= Len(pidargs)
  /\ Allowed(pidargs[idx])
  /\ pids' = Append(pids, pidargs[idx].num)
  /\ checked' = checked \cup {pidargs[idx].num}
  /\ idx' = idx + 1
  /\ UNCHANGED <<procVars, sigarg, pidargs, pc, status, delivered, members,
                 strangers>>

\* Mistake: the first accepted pid is signalled before the others are looked
\* at.
OneChecked == idx > 1

AllChecked == idx > Len(pidargs)

StartKilling ==
  /\ pc = "check" /\ AllChecked
  /\ pc' = "kill" /\ idx' = 1
  /\ UNCHANGED <<procVars, sigarg, pidargs, status, pids, history>>

-----------------------------------------------------------------------------
\* Mistake: the first failure ends the loop.
PastTheLast == Len(pids) + 1

\* The index after a call of kill() that failed: the failure is only printed.
AfterFailure == idx + 1

Kill ==
  /\ pc = "kill" /\ idx <= Len(pids)
  /\ IF Exists(pids[idx])
     THEN /\ delivered' = Append(delivered, <<pids[idx], Signum>>)
          /\ strangers' = strangers \cup ({pids[idx]} \ members)
          /\ idx' = idx + 1
     ELSE /\ idx' = AfterFailure
          /\ UNCHANGED <<delivered, strangers>>
  /\ UNCHANGED <<procVars, sigarg, pidargs, pc, status, pids, checked, members>>

Finish ==
  /\ pc = "kill" /\ idx > Len(pids)
  /\ ExitWith(0)

Step == Usage \/ ParseSignal \/ Accept \/ Reject \/ StartKilling \/ Kill
          \/ Finish

\* The other processes.
World ==
  /\ ProcNext
  /\ checked' = {p \in checked : exe'[p] # "none"}
  /\ members' = {p \in members : exe'[p] # "none"} \cup Family'
  /\ UNCHANGED <<toolVars, delivered, strangers>>

Next == Step \/ World

Spec == Init /\ [][Next]_vars

-----------------------------------------------------------------------------
\* All or nothing: no signal is sent before every argument has been accepted,
\* and a run that fails has sent none (killer.cpp:133-176).
AllOrNothing ==
  /\ delivered # <<>> =>
       Len(pids) = Len(pidargs)
         /\ \A i \in 1..Len(pids) : pids[i] = pidargs[i].num
  /\ status = 1 => delivered = <<>>

\* A process that is still there gets the signal once for each time it is
\* named, whatever happens to the other processes that are named; nobody
\* gets more (killer.cpp:171-176).
Times(p, list) == Cardinality({i \in 1..Len(list) : list[i] = p})
EachGetsItsSignals ==
  \A p \in Pids :
    /\ Times(<<p, Signum>>, delivered) <= Times(p, pids)
    /\ status = 0 /\ p \in checked =>
         Times(<<p, Signum>>, delivered) = Times(p, pids)

\* A signal is sent only as it was spelled, by its number or as SIGRT and an
\* offset, with nothing behind: two calls of strtol() and the conditions on
\* what they leave decide (killer.cpp:91-107).
SentAsSpelled ==
  \A i \in 1..Len(delivered) :
    /\ ~sigarg.rest /\ sigarg.num >= 0
    /\ delivered[i][2] = (IF sigarg.sigrt THEN SIGRTMIN ELSE 0) + sigarg.num

\* As long as pids are not reused, whoever gets a signal has run a B2G program
\* at some time since the tool started, although its link was read some time
\* before the signal is sent: it may have died or executed another program by
\* then, but it is nobody else (killer.cpp:144-176).
OnlyB2GProcesses == ~reused => strangers = {}
=============================================================================
