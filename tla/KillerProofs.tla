---------------------------- MODULE KillerProofs -----------------------------
(***************************************************************************)
(* Theorems about Killer, for every process table and every command line.  *)
(***************************************************************************)
EXTENDS Killer, ProcFSProofs, FiniteSetTheorems, SequenceTheorems

-----------------------------------------------------------------------------
(***************************************************************************)
(* The inductive invariant.                                                *)
(***************************************************************************)
\* The second loop has begun; how many of its rounds are over.
Killing == pc = "kill" \/ status = 0
Rounds == IF Killing THEN idx - 1 ELSE 0

TableInv ==
  /\ Live(InitPid)
  /\ \A p \in Pids : Exists(p) => p <= lastPid

\* Where the tool is, and what it has read of its command line by then.
PhaseInv ==
  /\ pc = "start" => pids = <<>> /\ idx = 1 /\ status = -1
  /\ pc = "check" => idx = Len(pids) + 1 /\ SignalAllowed /\ status = -1
  /\ pc = "kill" => idx <= Len(pids) + 1 /\ status = -1
  /\ Killing => Len(pids) = Len(pidargs) /\ idx > 0 /\ SignalAllowed
  /\ status = 0 => idx = Len(pids) + 1 /\ pc = "exited"
  /\ delivered # <<>> => Killing

\* What was accepted is what was named, and a process of the table.
PidsInv ==
  /\ Len(pids) <= Len(pidargs)
  /\ \A i \in 1..Len(pids) : pids[i] = pidargs[i].num /\ pids[i] \in Pids

\* Without reuse of pids, a pid that was accepted and is in the table is
\* still the process that was looked at.
CheckedInv ==
  /\ \A p \in checked : Exists(p)
  /\ checked \subseteq members /\ Family \subseteq members
  /\ ~reused =>
       /\ strangers = {}
       /\ \A i \in 1..Len(pids) :
            pids[i] <= lastPid /\ (Exists(pids[i]) => pids[i] \in checked)

\* What was sent is the signal of the command line.
SpelledInv == \A i \in 1..Len(delivered) : delivered[i][2] = Signum

\* One signal at most for each round over that was about p, and exactly one
\* while p has not gone.
Count(x, list, n) == Cardinality({i \in 1..n : list[i] = x})
SignalsInv ==
  \A p \in Pids :
    LET sent == Count(<<p, Signum>>, delivered, Len(delivered))
    IN  /\ sent <= Count(p, pids, Rounds)
        /\ Killing /\ p \in checked => sent = Count(p, pids, Rounds)

Inv == TypeOK /\ TableInv /\ PhaseInv /\ PidsInv /\ CheckedInv /\ SpelledInv

-----------------------------------------------------------------------------
\* A step is a step of one of the actions.
LEMMA NextCases ==
  ASSUME Next
  PROVE  Usage \/ ParseSignal \/ Accept \/ Reject \/ StartKilling \/ Kill
           \/ Finish \/ World
BY DEF Next, Step

\* Arguments and pids are sequences with a length.
LEMMA PidArgs ==
  ASSUME TypeOK
  PROVE  /\ pidargs \in Seq(Numbers) /\ Len(pidargs) \in Nat
         /\ pids \in Seq(Nat) /\ Len(pids) \in Nat
BY KillerAssumption, LenProperties DEF TypeOK

\* The loop of signals is at one of the pids that passed the checks.
LEMMA KilledIsPid ==
  ASSUME TypeOK, PhaseInv, PidsInv, Kill
  PROVE  /\ idx \in 1..Len(pids) /\ idx \in Nat \ {0}
         /\ pids[idx] \in Pids /\ Signum \in AllowedSignals
<1>1. idx \in 1..Len(pids) /\ idx \in Nat \ {0}
  BY DEF Kill, TypeOK, PhaseInv, Killing
<1>2. QED
  BY <1>1 DEF PidsInv, PhaseInv, Killing, Kill, SignalAllowed

\* An argument that passes its check names a process that is there.
LEMMA AcceptedIsPid ==
  ASSUME TypeOK, PhaseInv, Accept
  PROVE  /\ idx \in 1..Len(pidargs)
         /\ pidargs[idx].num \in Pids /\ Exists(pidargs[idx].num)
<1>1. idx \in 1..Len(pidargs)
  BY PidArgs DEF Accept, PhaseInv
<1>2. pidargs[idx].num \in Family
  BY DEF Accept, Allowed
<1>3. QED
  BY <1>1, <1>2 DEF Family, Exists, B2GExes

\* Every step keeps the types and the process table.
LEMMA TypeStep ==
  ASSUME TypeOK, TableInv, PhaseInv, PidsInv, Next
  PROVE  TypeOK' /\ TableInv'
<1>1. CASE World
  <2>1. ProcTypeOK' /\ Live(InitPid)'
    BY <1>1, ProcStep DEF World, TypeOK, TableInv
  <2>2. \A p \in Pids : Exists(p)' => p <= lastPid'
    BY <1>1, PidsBounded DEF World, TypeOK, TableInv
  <2>3. checked' \subseteq Pids /\ members' \subseteq Pids
    BY <1>1 DEF World, TypeOK, Family
  <2>4. UNCHANGED <<sigarg, pidargs, pc, status, pids, idx, delivered,
                    strangers>>
    BY <1>1 DEF World, toolVars
  <2>5. QED
    BY <2>1, <2>2, <2>3, <2>4 DEF TypeOK, TableInv, Exists
<1>2. ASSUME Usage \/ ParseSignal \/ Accept \/ Reject \/ StartKilling \/ Kill
               \/ Finish
      PROVE  TypeOK' /\ TableInv'
  <2>1. UNCHANGED procVars
    BY <1>2 DEF Usage, ParseSignal, Accept, Reject, StartKilling, Kill, Finish,
                ExitWith
  <2>2. ProcTypeOK' /\ TableInv'
    BY <2>1 DEF procVars, ProcTypeOK, TableInv, Live, Exists, TypeOK
  <2>3. CASE Usage
    BY <2>2, <2>3 DEF Usage, ExitWith, TypeOK, history
  <2>4. CASE ParseSignal
    BY <2>2, <2>4 DEF ParseSignal, TypeOK, history
  <2>5. CASE Accept
    <3>1. pids' \in Seq(Nat)
      BY <2>5, AcceptedIsPid, AppendProperties DEF Accept, TypeOK, Pids
    <3>2. checked' \subseteq Pids
      BY <2>5, AcceptedIsPid DEF Accept, TypeOK
    <3>3. idx' \in Nat /\ UNCHANGED <<sigarg, pidargs, pc, status, delivered,
                                      members, strangers>>
      BY <2>5 DEF Accept, TypeOK
    <3>4. QED
      BY <2>2, <3>1, <3>2, <3>3 DEF TypeOK
  <2>6. CASE Reject
    BY <2>2, <2>6 DEF Reject, ExitWith, TypeOK, history
  <2>7. CASE StartKilling
    BY <2>2, <2>7 DEF StartKilling, TypeOK, history
  <2>8. CASE Kill
    <3>1. delivered' \in Seq(Pids \X AllowedSignals)
      <4> DEFINE pair == <<pids[idx], Signum>>
      <4>1. pair \in Pids \X AllowedSignals
        BY <2>8, KilledIsPid
      <4>2. delivered \in Seq(Pids \X AllowedSignals)
        BY DEF TypeOK
      <4>3. Append(delivered, pair) \in Seq(Pids \X AllowedSignals)
        BY <4>1, <4>2, AppendProperties
      <4>4. delivered' = Append(delivered, pair) \/ delivered' = delivered
        BY <2>8 DEF Kill
      <4>5. QED
        BY <4>2, <4>3, <4>4
    <3>2. strangers' \subseteq Pids
      BY <2>8, KilledIsPid DEF Kill, TypeOK
    <3>3. idx' \in Nat
      BY <2>8 DEF Kill, TypeOK, AfterFailure
    <3>4. UNCHANGED <<sigarg, pidargs, pc, status, pids, checked, members>>
      BY <2>8 DEF Kill
    <3>5. QED
      BY <2>2, <3>1, <3>2, <3>3, <3>4 DEF TypeOK
  <2>9. CASE Finish
    BY <2>2, <2>9 DEF Finish, ExitWith, TypeOK, history
  <2>10. QED
    BY <1>2, <2>3, <2>4, <2>5, <2>6, <2>7, <2>8, <2>9
<1>3. QED
  BY <1>1, <1>2, NextCases

-----------------------------------------------------------------------------
\* Every step keeps the two loops in their bounds and their order.
LEMMA PhaseStep ==
  ASSUME TypeOK, TableInv, PhaseInv, PidsInv, Next
  PROVE  PhaseInv' /\ PidsInv'
<1> /\ idx \in Nat /\ Len(pids) \in Nat /\ Len(pidargs) \in Nat
    /\ pids \in Seq(Nat)
  BY PidArgs DEF TypeOK
<1> USE DEF PhaseInv, PidsInv, Killing, SignalAllowed, Signum, history
<1>1. CASE World
  BY <1>1 DEF World, toolVars
<1>2. CASE Usage
  BY <1>2 DEF Usage, ExitWith
<1>3. CASE ParseSignal
  BY <1>3 DEF ParseSignal
<1>4. CASE Accept
  <2> DEFINE n == pidargs[idx].num
  <2>1. /\ idx \in 1..Len(pidargs) /\ n \in Pids /\ n \in Nat
    BY <1>4, AcceptedIsPid DEF Pids
  <2>2. /\ pc = "check" /\ pids' = Append(pids, n) /\ idx' = idx + 1
        /\ UNCHANGED <<sigarg, pidargs, pc, status, delivered>>
    BY <1>4 DEF Accept
  <2>3. /\ Len(pids') = Len(pids) + 1 /\ pids'[Len(pids) + 1] = n
        /\ \A i \in 1..Len(pids) : pids'[i] = pids[i]
    BY <2>1, <2>2, AppendProperties
  <2>4. idx = Len(pids) + 1 /\ status = -1
    BY <2>2
  <2>5. PidsInv'
    BY <2>1, <2>2, <2>3, <2>4
  <2>6. PhaseInv'
    BY <2>2, <2>3, <2>4
  <2>7. QED
    BY <2>5, <2>6
<1>5. CASE Reject
  BY <1>5 DEF Reject, ExitWith
<1>6. CASE StartKilling
  BY <1>6 DEF StartKilling, AllChecked
<1>7. CASE Kill
  BY <1>7 DEF Kill, AfterFailure
<1>8. CASE Finish
  BY <1>8 DEF Finish, ExitWith
<1>9. QED
  BY <1>1, <1>2, <1>3, <1>4, <1>5, <1>6, <1>7, <1>8, NextCases

\* Every step keeps the signals those of the pids that were checked.
LEMMA CheckedStep ==
  ASSUME TypeOK, TableInv, PhaseInv, PidsInv, CheckedInv, Next
  PROVE  CheckedInv'
<1>1. CASE World
  <2>1. ProcNext /\ ProcTypeOK
    BY <1>1 DEF World, TypeOK
  <2>2. /\ checked' = {p \in checked : Exists(p)'}
        /\ members' = {p \in members : Exists(p)'} \cup Family'
        /\ UNCHANGED <<pids, strangers>>
    BY <1>1 DEF World, toolVars, Exists
  <2>3. SUFFICES ASSUME ~reused'
                 PROVE  ~reused /\ \A i \in 1..Len(pids) :
                          /\ pids[i] <= lastPid'
                          /\ Exists(pids[i])' => pids[i] \in checked'
    BY <2>2 DEF CheckedInv
  <2>4. ASSUME NEW p \in Pids, NEW c \in Pids, Fork(p, c)
        PROVE  ~reused /\ ~(c <= lastPid)
    BY <2>3, <2>4 DEF Fork
  <2>5. (\A p, c \in Pids : ~Fork(p, c)) => reused' = reused
    BY <2>1 DEF ProcNext, Exec, Exit, Reap, SetFifo
  <2>6. ~reused
    BY <2>3, <2>4, <2>5
  <2>7. ASSUME NEW i \in 1..Len(pids)
        PROVE  /\ pids[i] <= lastPid'
               /\ Exists(pids[i])' => pids[i] \in checked'
    <3>1. pids[i] \in Pids /\ pids[i] <= lastPid
      BY <2>6, <2>7 DEF PidsInv, CheckedInv
    <3>2. lastPid <= lastPid' /\ ProcTypeOK'
      BY <2>1, PidsBounded, ProcStep DEF TableInv
    <3>3. Exists(pids[i])' => Exists(pids[i])
      <4>1. \A q \in Pids : Exists(q)' => Exists(q) \/ \E p \in Pids : Fork(p, q)
        BY <2>1, ForkAddsOne, OthersAddNone DEF ProcNext
      <4>2. \A p \in Pids : ~Fork(p, pids[i])
        BY <2>4, <3>1
      <4>3. QED
        BY <2>2, <3>1, <4>1, <4>2
    <3>4. pids[i] <= lastPid'
      BY <3>1, <3>2, <2>1 DEF ProcTypeOK, Pids
    <3>5. QED
      BY <2>2, <2>6, <2>7, <3>3, <3>4 DEF CheckedInv
  <2>8. QED
    BY <2>6, <2>7
<1>2. CASE Accept
  <2> DEFINE n == pidargs[idx].num
  <2>1. n \in Pids /\ n \in Nat /\ Exists(n) /\ n <= lastPid
    BY <1>2, AcceptedIsPid DEF TableInv, Pids
  <2>2. /\ pids' = Append(pids, n) /\ checked' = checked \cup {n}
        /\ UNCHANGED <<exe, lastPid, reused, members, strangers>>
        /\ n \in Family
    BY <1>2 DEF Accept, Allowed, procVars
  <2>3. /\ Len(pids') = Len(pids) + 1 /\ pids'[Len(pids) + 1] = n
        /\ \A i \in 1..Len(pids) : pids'[i] = pids[i]
        /\ Len(pids) \in Nat
    BY <2>1, <2>2, AppendProperties, PidArgs
  <2>4. \A i \in 1..Len(pids') : i = Len(pids) + 1 \/ i \in 1..Len(pids)
    BY <2>3
  <2>5. QED
    BY <2>1, <2>2, <2>3, <2>4 DEF CheckedInv, Exists, Family
<1>3. CASE Kill
  <2>1. UNCHANGED <<exe, lastPid, reused, pids, checked, members>>
    BY <1>3 DEF Kill, procVars
  <2>2. \/ strangers' = strangers
        \/ /\ Exists(pids[idx])
           /\ strangers' = strangers \cup ({pids[idx]} \ members)
    BY <1>3 DEF Kill
  <2>3. idx \in 1..Len(pids)
    BY <1>3, KilledIsPid
  <2>4. QED
    BY <2>1, <2>2, <2>3 DEF CheckedInv, Exists, Family
<1>4. ASSUME Usage \/ ParseSignal \/ Reject \/ StartKilling \/ Finish
      PROVE  CheckedInv'
  <2>1. UNCHANGED <<exe, lastPid, reused, pids, checked, members, strangers>>
    BY <1>4 DEF Usage, ParseSignal, Reject, StartKilling, Finish, ExitWith,
                procVars, history
  <2>2. QED
    BY <2>1 DEF CheckedInv, Exists, Family
<1>5. QED
  BY <1>1, <1>2, <1>3, <1>4, NextCases

\* Every signal sent is the one of the command line.
LEMMA SpelledStep ==
  ASSUME TypeOK, PhaseInv, PidsInv, SpelledInv, Next
  PROVE  SpelledInv'
<1>1. Signum' = Signum
  BY NextCases DEF Usage, ParseSignal, Accept, Reject, StartKilling, Kill,
                   Finish, ExitWith, World, toolVars, Signum
<1>2. CASE Kill /\ delivered' # delivered
  <2>1. delivered' = Append(delivered, <<pids[idx], Signum>>)
    BY <1>2 DEF Kill
  <2>2. /\ delivered \in Seq(Pids \X AllowedSignals)
        /\ <<pids[idx], Signum>> \in Pids \X AllowedSignals
    BY <1>2, KilledIsPid DEF TypeOK
  <2>3. /\ Len(delivered') = Len(delivered) + 1 /\ Len(delivered) \in Nat
        /\ delivered'[Len(delivered) + 1] = <<pids[idx], Signum>>
        /\ \A i \in 1..Len(delivered) : delivered'[i] = delivered[i]
    BY <2>1, <2>2, AppendProperties, LenProperties
  <2>4. \A i \in 1..Len(delivered') :
          i = Len(delivered) + 1 \/ i \in 1..Len(delivered)
    BY <2>3
  <2>5. QED
    BY <1>1, <2>3, <2>4 DEF SpelledInv
<1>3. CASE delivered' = delivered
  BY <1>1, <1>3 DEF SpelledInv
<1>4. QED
  BY <1>2, <1>3, NextCases
  DEF Usage, ParseSignal, Accept, Reject, StartKilling, Finish, ExitWith,
      World, history

-----------------------------------------------------------------------------
\* The table is that of a running system, and the invariant holds from the
\* first state on.
LEMMA InvStart ==
  ASSUME Init
  PROVE  Inv
<1>1. ProcTypeOK /\ Live(InitPid)
  BY ProcStart DEF Init
<1>2. TypeOK
  BY <1>1 DEF Init, TypeOK, Family
<1>3. TableInv
  BY <1>1 DEF Init, ProcInit, TableInv
<1>4. PhaseInv /\ PidsInv /\ CheckedInv /\ SpelledInv
  BY <1>2, PidArgs
  DEF Init, PhaseInv, PidsInv, CheckedInv, SpelledInv, Killing
<1>5. QED
  BY <1>2, <1>3, <1>4 DEF Inv

\* Every step keeps the invariant.
LEMMA InvStep ==
  ASSUME Inv, [Next]_vars
  PROVE  Inv'
<1>1. CASE Next
  BY <1>1, TypeStep, PhaseStep, CheckedStep, SpelledStep DEF Inv
<1>2. CASE UNCHANGED vars
  <2>1. TypeOK' /\ TableInv'
    BY <1>2 DEF Inv, vars, toolVars, history, procVars, TypeOK, ProcTypeOK,
                TableInv, Live, Exists
  <2>2. PhaseInv' /\ PidsInv' /\ CheckedInv' /\ SpelledInv'
    BY <1>2 DEF Inv, vars, toolVars, history, procVars, PhaseInv, PidsInv,
                CheckedInv, SpelledInv, Killing, SignalAllowed, Signum, Exists,
                Family
  <2>3. QED
    BY <2>1, <2>2 DEF Inv
<1>3. QED
  BY <1>1, <1>2

\* The invariant holds at all times: killer (killer.cpp:77-178) sends its signals
\* only after all its arguments have passed, to the pids that passed, in their order.
THEOREM Invariance == Spec => []Inv
BY InvStart, InvStep, PTL DEF Spec

\* The variables of the tool have their types, whatever the process table
\* does meanwhile; in particular every pid that gets a signal is a pid of the
\* table, and every signal one of the three (killer.cpp:22-23).
THEOREM TypeCorrect == Spec => []TypeOK
<1>1. Inv => TypeOK
  BY DEF Inv
<1>2. QED
  BY <1>1, Invariance, PTL

\* No signal is sent before every argument has been accepted, and a run that
\* fails has sent none (killer.cpp:133-176).
THEOREM NothingUnlessAll == Spec => []AllOrNothing
<1>1. ASSUME Inv
      PROVE  AllOrNothing
  BY <1>1 DEF Inv, PhaseInv, PidsInv, Killing, AllOrNothing
<1>2. QED
  BY <1>1, Invariance, PTL

\* A signal is sent only as it was spelled, with nothing behind its number
\* (killer.cpp:91-107).
THEOREM OnlyAsSpelled == Spec => []SentAsSpelled
<1>1. ASSUME Inv, NEW i \in 1..Len(delivered)
      PROVE  /\ ~sigarg.rest /\ sigarg.num >= 0
             /\ delivered[i][2] = (IF sigarg.sigrt THEN SIGRTMIN ELSE 0)
                                    + sigarg.num
  <2>1. delivered # <<>> /\ delivered[i][2] = Signum
    BY <1>1 DEF Inv, SpelledInv
  <2>2. Signum \in {SIGRTMIN, SIGRTMIN + 1, SIGRTMIN + 2}
    BY <1>1, <2>1 DEF Inv, PhaseInv, SignalAllowed, AllowedSignals
  <2>3. sigarg.num \in Int
    BY <1>1, KillerAssumption DEF Inv, TypeOK
  <2>4. QED
    BY <2>1, <2>2, <2>3 DEF Signum, SIGRTMIN
<1>2. Inv => SentAsSpelled
  BY <1>1 DEF SentAsSpelled
<1>3. QED
  BY <1>2, Invariance, PTL

\* Without reuse of pids, whoever gets a signal has run a B2G program: the
\* time between the readlink() of one process and its kill(), with those of
\* the others in between, lets no other process in (killer.cpp:144-176).
THEOREM NoStrangers == Spec => []OnlyB2GProcesses
<1>1. Inv => OnlyB2GProcesses
  BY DEF Inv, CheckedInv, OnlyB2GProcesses
<1>2. QED
  BY <1>1, Invariance, PTL

-----------------------------------------------------------------------------
(***************************************************************************)
(* Counting what has been sent.                                            *)
(***************************************************************************)
\* One position more counts if it holds x.
LEMMA CountNext ==
  ASSUME NEW x, NEW list, NEW n \in Nat
  PROVE  /\ Count(x, list, n) \in Nat
         /\ Count(x, list, n + 1) =
              IF list[n + 1] = x THEN Count(x, list, n) + 1
                                 ELSE Count(x, list, n)
<1> DEFINE At(k) == {i \in 1..k : list[i] = x}
<1>1. IsFiniteSet(At(n)) /\ Cardinality(At(n)) \in Nat
  <2>1. IsFiniteSet(1..n)
    BY FS_Interval
  <2>2. At(n) \in SUBSET (1..n)
    OBVIOUS
  <2>3. IsFiniteSet(At(n))
    BY <2>1, <2>2, FS_Subset
  <2>4. QED
    BY <2>3, FS_CardinalityType
<1>2. n + 1 \notin At(n)
  OBVIOUS
<1>3. CASE list[n + 1] = x
  <2>1. At(n + 1) = At(n) \cup {n + 1}
    BY <1>3
  <2>2. Cardinality(At(n + 1)) = Cardinality(At(n)) + 1
    BY <2>1, <1>1, <1>2, FS_AddElement
  <2>3. QED
    BY <1>1, <1>3, <2>2 DEF Count
<1>4. CASE list[n + 1] # x
  <2>1. At(n + 1) = At(n)
    BY <1>4
  <2>2. QED
    BY <1>1, <1>4, <2>1 DEF Count
<1>5. QED
  BY <1>3, <1>4

\* Nothing is counted before the first position.
LEMMA CountNone ==
  ASSUME NEW x, NEW list
  PROVE  Count(x, list, 0) = 0
<1>1. {i \in 1..0 : list[i] = x} = {}
  OBVIOUS
<1>2. QED
  BY <1>1, FS_EmptySet DEF Count

\* Only the positions up to n matter.
LEMMA CountSame ==
  ASSUME NEW x, NEW list, NEW other, NEW n \in Nat,
         \A i \in 1..n : list[i] = other[i]
  PROVE  Count(x, list, n) = Count(x, other, n)
<1>1. {i \in 1..n : list[i] = x} = {i \in 1..n : other[i] = x}
  OBVIOUS
<1>2. QED
  BY <1>1 DEF Count

\* Appending an element adds one to its count, and to no other.
LEMMA CountAppend ==
  ASSUME NEW S, NEW list \in Seq(S), NEW e \in S, NEW x
  PROVE  LET longer == Append(list, e)
             n == Count(x, list, Len(list))
         IN  /\ n \in Nat
             /\ Count(x, longer, Len(longer)) = IF e = x THEN n + 1 ELSE n
<1> DEFINE longer == Append(list, e)
<1>1. Len(list) \in Nat
  BY LenProperties
<1>2. /\ Len(longer) = Len(list) + 1 /\ longer[Len(list) + 1] = e
      /\ \A i \in 1..Len(list) : longer[i] = list[i]
  BY AppendProperties
<1>3. Count(x, longer, Len(list)) = Count(x, list, Len(list))
  BY <1>1, <1>2, CountSame
<1>4. /\ Count(x, longer, Len(list)) \in Nat
      /\ Count(x, longer, Len(list) + 1) =
           IF longer[Len(list) + 1] = x THEN Count(x, longer, Len(list)) + 1
                                        ELSE Count(x, longer, Len(list))
  BY <1>1, CountNext
<1> HIDE DEF longer
<1>5. /\ Count(x, list, Len(list)) \in Nat
      /\ Count(x, longer, Len(longer)) =
           IF e = x THEN Count(x, list, Len(list)) + 1
                    ELSE Count(x, list, Len(list))
  BY <1>2, <1>3, <1>4
<1>6. QED
  BY <1>5 DEF longer

\* What has been counted stays counted.
LEMMA CountWhole ==
  ASSUME NEW x, NEW list, NEW m \in Nat, NEW n \in Nat, m <= n
  PROVE  /\ Count(x, list, m) \in Nat /\ Count(x, list, n) \in Nat
         /\ Count(x, list, m) <= Count(x, list, n)
<1> DEFINE At(k) == {i \in 1..k : list[i] = x}
<1>1. IsFiniteSet(At(n))
  <2>1. IsFiniteSet(1..n)
    BY FS_Interval
  <2>2. At(n) \in SUBSET (1..n)
    OBVIOUS
  <2>3. QED
    BY <2>1, <2>2, FS_Subset
<1>2. At(m) \in SUBSET At(n)
  OBVIOUS
<1>3. Cardinality(At(m)) <= Cardinality(At(n))
  BY <1>1, <1>2, FS_Subset
<1>4. Count(x, list, m) <= Count(x, list, n)
  BY <1>3 DEF Count
<1>5. QED
  BY <1>4, CountNext

\* Each step keeps the account of the signals.
LEMMA SignalsStep ==
  ASSUME Inv, SignalsInv, Next
  PROVE  SignalsInv'
<1> DEFINE Sent(p) == Count(<<p, Signum>>, delivered, Len(delivered))
           Due(p) == Count(p, pids, Rounds)
<1>1. \A p \in Pids : /\ Sent(p) <= Due(p)
                      /\ Killing /\ p \in checked => Sent(p) = Due(p)
  BY DEF SignalsInv
<1>2. SUFFICES ASSUME NEW p \in Pids
               PROVE  /\ Sent(p)' <= Due(p)'
                      /\ Killing' /\ p \in checked' => Sent(p)' = Due(p)'
  BY DEF SignalsInv
<1>3. ASSUME World \/ Finish
      PROVE  /\ Sent(p)' = Sent(p) /\ Due(p)' = Due(p)
             /\ Killing' = Killing /\ checked' \subseteq checked
  <2>1. CASE World
    BY <2>1 DEF World, toolVars, Signum, Rounds, Killing
  <2>2. CASE Finish
    <3>1. UNCHANGED <<sigarg, pids, idx, delivered, checked>>
      BY <2>2 DEF Finish, ExitWith, history
    <3>2. Killing /\ Killing'
      BY <2>2 DEF Finish, ExitWith, Killing
    <3>3. Signum' = Signum /\ Rounds' = Rounds
      BY <3>1, <3>2 DEF Signum, Rounds
    <3>4. QED
      BY <3>1, <3>2, <3>3
  <2>3. QED
    BY <1>3, <2>1, <2>2
<1>4. ASSUME Usage \/ ParseSignal \/ Reject \/ Accept \/ StartKilling
      PROVE  /\ Sent(p)' = 0 /\ Due(p)' = 0
  <2>1. delivered' = <<>>
    <3>1. delivered' = delivered /\ pc \in {"start", "check"}
      BY <1>4 DEF Usage, ParseSignal, Reject, Accept, StartKilling, ExitWith,
                  history
    <3>2. QED
      BY <3>1 DEF Inv, PhaseInv, Killing
  <2>2. Rounds' = 0
    BY <1>4 DEF Usage, ParseSignal, Reject, Accept, StartKilling, ExitWith,
                Inv, PhaseInv, Killing, Rounds
  <2>3. QED
    BY <2>1, <2>2, CountNone
<1>5. ASSUME Kill
      PROVE  /\ Sent(p)' <= Due(p)'
             /\ p \in checked' => Sent(p)' = Due(p)'
  <2> DEFINE signal == <<pids[idx], Signum>>
  <2>1. /\ idx \in Nat \ {0} /\ pids[idx] \in Pids
        /\ signal \in Pids \X AllowedSignals
        /\ delivered \in Seq(Pids \X AllowedSignals)
    BY <1>5, KilledIsPid DEF Inv, TypeOK
  <2>2. Killing /\ Rounds = idx - 1
    BY <1>5 DEF Kill, Killing, Rounds
  <2>3. /\ UNCHANGED <<sigarg, pids, checked>>
        /\ idx' = idx + 1 /\ Rounds' = idx /\ Signum' = Signum
    BY <1>5, <2>1 DEF Kill, Killing, Rounds, Signum, AfterFailure
  <2>4. /\ Due(p) \in Nat
        /\ Due(p)' = IF pids[idx] = p THEN Due(p) + 1 ELSE Due(p)
    <3>1. idx - 1 \in Nat /\ (idx - 1) + 1 = idx
      BY <2>1
    <3>2. /\ Count(p, pids, idx - 1) \in Nat
          /\ Count(p, pids, idx) =
               IF pids[idx] = p THEN Count(p, pids, idx - 1) + 1
                                ELSE Count(p, pids, idx - 1)
      BY <3>1, CountNext
    <3>3. QED
      BY <2>2, <2>3, <3>2
  <2>5. /\ Sent(p) <= Due(p) /\ Sent(p) \in Nat
        /\ p \in checked' => Sent(p) = Due(p)
    <3>1. Sent(p) \in Nat
      BY <2>1, CountAppend
    <3>2. QED
      BY <1>1, <2>2, <2>3, <3>1
  <2>6. CASE Exists(pids[idx])
    <3>1. delivered' = Append(delivered, signal)
      BY <1>5, <2>6 DEF Kill
    <3> HIDE DEF signal
    <3>21. Count(<<p, Signum>>, delivered', Len(delivered')) =
             IF signal = <<p, Signum>> THEN Sent(p) + 1 ELSE Sent(p)
      BY ONLY <2>1, <3>1, CountAppend
    <3>22. Sent(p)' = Count(<<p, Signum>>, delivered', Len(delivered'))
      BY <2>3
    <3> USE DEF signal
    <3>2. Sent(p)' = IF signal = <<p, Signum>> THEN Sent(p) + 1 ELSE Sent(p)
      BY <3>21, <3>22
    <3>3. Sent(p)' = IF pids[idx] = p THEN Sent(p) + 1 ELSE Sent(p)
      BY <3>2
    <3> HIDE DEF Sent, Due
    <3>4. QED
      BY <2>4, <2>5, <3>3
  <2>7. CASE ~Exists(pids[idx])
    <3>1. delivered' = delivered
      BY <1>5, <2>7 DEF Kill
    <3>2. Sent(p)' = Sent(p)
      BY <2>3, <3>1
    <3>3. p \in checked' => pids[idx] # p
      BY <2>3, <2>7 DEF Inv, CheckedInv
    <3> HIDE DEF Sent, Due
    <3>4. QED
      BY <2>4, <2>5, <3>2, <3>3
  <2>8. QED
    BY <2>6, <2>7
<1>6. QED
  <2>1. CASE Kill
    BY <1>5, <2>1
  <2>2. CASE World \/ Finish
    BY <1>1, <1>3, <2>2
  <2>3. CASE Usage \/ ParseSignal \/ Reject \/ Accept \/ StartKilling
    BY <1>4, <2>3
  <2>4. QED
    BY <2>1, <2>2, <2>3, NextCases

\* A process that is there at the end has got one signal for each time it was
\* named, whatever became of the others, and nobody has got more
\* (killer.cpp:171-176).
THEOREM OneSignalEach == Spec => []EachGetsItsSignals
<1>1. Init => SignalsInv
  <2> SUFFICES ASSUME Init
               PROVE  SignalsInv
    OBVIOUS
  <2>1. Rounds = 0 /\ delivered = <<>> /\ Len(delivered) = 0
    BY DEF Init, Rounds, Killing
  <2>2. QED
    BY <2>1, CountNone DEF SignalsInv
<1>2. Inv /\ SignalsInv /\ [Next]_vars => SignalsInv'
  <2>1. ASSUME SignalsInv, UNCHANGED vars
        PROVE  SignalsInv'
    BY <2>1 DEF SignalsInv, vars, toolVars, history, Signum, Rounds,
                Killing
  <2>2. QED
    BY <2>1, SignalsStep
<1>3. ASSUME Inv, SignalsInv
      PROVE  EachGetsItsSignals
  <2> SUFFICES ASSUME NEW p \in Pids
               PROVE  /\ Times(<<p, Signum>>, delivered) <= Times(p, pids)
                      /\ status = 0 /\ p \in checked =>
                           Times(<<p, Signum>>, delivered) = Times(p, pids)
    BY DEF EachGetsItsSignals
  <2>1. /\ Times(<<p, Signum>>, delivered)
             = Count(<<p, Signum>>, delivered, Len(delivered))
        /\ Times(p, pids) = Count(p, pids, Len(pids))
    BY DEF Times, Count
  <2>2. /\ Rounds \in Nat /\ Len(pids) \in Nat /\ Len(delivered) \in Nat
        /\ Rounds <= Len(pids)
        /\ status = 0 => Killing /\ Rounds = Len(pids)
    <3>1. idx \in Nat /\ Len(pids) \in Nat /\ Len(delivered) \in Nat
      BY <1>3, PidArgs, LenProperties DEF Inv, TypeOK
    <3>2. QED
      BY <1>3, <3>1 DEF Inv, PhaseInv, Rounds, Killing
  <2>3. /\ Count(<<p, Signum>>, delivered, Len(delivered)) \in Nat
        /\ Count(p, pids, Rounds) \in Nat
        /\ Count(p, pids, Len(pids)) \in Nat
        /\ Count(p, pids, Rounds) <= Count(p, pids, Len(pids))
    BY <2>2, CountWhole, CountNext
  <2>4. /\ Count(<<p, Signum>>, delivered, Len(delivered))
             <= Count(p, pids, Rounds)
        /\ Killing /\ p \in checked =>
             Count(<<p, Signum>>, delivered, Len(delivered))
               = Count(p, pids, Rounds)
    BY <1>3 DEF SignalsInv
  <2>5. QED
    BY <2>1, <2>2, <2>3, <2>4
<1>4. QED
  BY <1>1, <1>2, <1>3, Invariance, PTL DEF Spec
=============================================================================
