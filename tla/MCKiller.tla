------------------------------- MODULE MCKiller ------------------------------
(***************************************************************************)
(* Small process tables and command lines for Killer.                      *)
(***************************************************************************)
EXTENDS Killer

\* b2g runs two content processes.
Running == [exe |-> [p \in Pids |-> CASE p = 1 -> "other" [] p = 2 -> "b2g"
                                      [] p \in {3, 4} -> "plugin"
                                      [] OTHER -> "none"],
            ppid |-> [p \in Pids |-> CASE p = 2 -> 1 [] p \in {3, 4} -> 2
                                       [] OTHER -> 0]]
RunningTable == {Running}

Digits(n) == [digits |-> TRUE, num |-> n, rest |-> FALSE]
Junk == [digits |-> FALSE, num |-> 0, rest |-> TRUE]
Signal(rt, arg) ==
  [sigrt |-> rt, digits |-> arg.digits, num |-> arg.num, rest |-> arg.rest]

\* A number with a tail.
Tailed(n) == [Digits(n) EXCEPT !.rest = TRUE]

\* 34, 34x, SIGRT2, SIGRT2x, SIGRT3, SIGRT, SIGRTx, SIGRT-1x, 31, junk.
SomeSignals ==
  {Signal(FALSE, Digits(34)), Signal(TRUE, Digits(2)), Signal(TRUE, Digits(3)),
   Signal(FALSE, Tailed(34)), Signal(TRUE, Tailed(2)),
   Signal(TRUE, [Junk EXCEPT !.rest = FALSE]), Signal(TRUE, Junk),
   Signal(TRUE, Tailed(-1)),
   Signal(FALSE, Digits(31)), Signal(FALSE, Junk)}

\* None, one process, two, one twice, and lists with a bad member.
SomePidLists ==
  {<<>>, <<Digits(3)>>, <<Digits(3), Digits(2), Digits(4)>>,
   <<Digits(4), Digits(3), Digits(4)>>, <<Digits(3), Digits(1)>>,
   <<Digits(3), Junk>>, <<Digits(2), Digits(-3)>>, <<Digits(4), Digits(5)>>}
=============================================================================
