----------------------------- MODULE ProcFSProofs ----------------------------
(***************************************************************************)
(* What every tool may rely on when the process table changes under it.    *)
(***************************************************************************)
EXTENDS ProcFS, TLAPS

\* The first state of the table, whichever it is.
LEMMA ProcStart ==
  ASSUME ProcInit
  PROVE  ProcTypeOK /\ Live(InitPid)
<1> MaxPid \in Nat \ {0} /\ MaxChurn \in Nat
  BY ProcFSAssumption
<1>1. lastPid \in 0..MaxPid
  BY DEF ProcInit, Pids
<1>2. fifo \subseteq Pids /\ churn \in 0..MaxChurn
  BY DEF ProcInit
<1>3. reused \in BOOLEAN
  BY DEF ProcInit
<1>4. PICK t \in Tables : exe = t.exe /\ ppid = t.ppid
  BY DEF ProcInit
<1>5. /\ t \in [exe : [Pids -> ExeStates], ppid : [Pids -> 0..MaxPid]]
      /\ t.exe[InitPid] \in Images
  BY <1>4, ProcFSAssumption
<1>6. exe \in [Pids -> ExeStates] /\ ppid \in [Pids -> 0..MaxPid]
  BY <1>4, <1>5
<1>7. QED
  BY <1>1, <1>2, <1>3, <1>4, <1>5, <1>6 DEF ProcTypeOK, Live

\* The kernel keeps its table well-typed and init alive.
LEMMA ProcStep ==
  ASSUME ProcTypeOK, Live(InitPid), ProcNext
  PROVE  ProcTypeOK' /\ Live(InitPid)'
<1> USE ProcFSAssumption DEF Images, B2GExes, ExeStates, InitPid, Pids
<1>1. ASSUME NEW p \in Pids, NEW c \in Pids, Fork(p, c)
      PROVE  ProcTypeOK' /\ Live(InitPid)'
  <2>1. ProcTypeOK'
    BY <1>1 DEF Fork, Churn, ProcTypeOK, Live, Exists
  <2>2. Live(InitPid)'
    BY <1>1 DEF Fork, ProcTypeOK, Live, Exists
  <2>3. QED
    BY <2>1, <2>2
<1>2. ASSUME NEW p \in Pids, NEW image \in Images, Exec(p, image)
      PROVE  ProcTypeOK' /\ Live(InitPid)'
  BY <1>2 DEF Exec, Churn, ProcTypeOK, Live
<1>3. ASSUME NEW p \in Pids, Exit(p)
      PROVE  ProcTypeOK' /\ Live(InitPid)'
  BY <1>3 DEF Exit, Churn, ProcTypeOK, Live
<1>4. ASSUME NEW p \in Pids, Reap(p)
      PROVE  ProcTypeOK' /\ Live(InitPid)'
  BY <1>4 DEF Reap, Churn, ProcTypeOK, Live
<1>5. ASSUME NEW p \in Pids, SetFifo(p)
      PROVE  ProcTypeOK' /\ Live(InitPid)'
  BY <1>5 DEF SetFifo, Churn, ProcTypeOK, Live
<1>6. QED
  BY <1>1, <1>2, <1>3, <1>4, <1>5 DEF ProcNext

\* fork() adds the one pid it allocates, no more.
LEMMA ForkAddsOne ==
  ASSUME ProcTypeOK, NEW p \in Pids, NEW d \in Pids, Fork(p, d),
         NEW c \in Pids, Exists(c)'
  PROVE  Exists(c) \/ c = d
BY DEF Fork, Exists, ProcTypeOK

\* The other calls allocate no pid.
LEMMA OthersAddNone ==
  ASSUME ProcTypeOK, NEW p \in Pids,
         \/ \E image \in Images : Exec(p, image)
         \/ Exit(p) \/ Reap(p) \/ SetFifo(p),
         NEW c \in Pids, Exists(c)'
  PROVE  Exists(c)
<1>1. ASSUME NEW image \in Images, Exec(p, image)
      PROVE  Exists(c)
  BY <1>1 DEF Exec, Exists, ProcTypeOK, Launches
<1>2. ASSUME Exit(p) \/ Reap(p)
      PROVE  Exists(c)
  BY <1>2 DEF Exit, Reap, Exists, Live, Images, B2GExes, ProcTypeOK
<1>3. ASSUME SetFifo(p)
      PROVE  Exists(c)
  BY <1>3 DEF SetFifo, Exists
<1>4. QED
  BY <1>1, <1>2, <1>3

\* lastPid bounds the pids in use, and never decreases.
LEMMA PidsBounded ==
  ASSUME ProcTypeOK, \A p \in Pids : Exists(p) => p <= lastPid, ProcNext
  PROVE  /\ \A p \in Pids : Exists(p)' => p <= lastPid'
         /\ lastPid <= lastPid'
<1> lastPid \in Int /\ \A p \in Pids : p \in Int
  BY DEF ProcTypeOK, Pids
<1>1. ASSUME NEW p \in Pids, NEW c \in Pids, Fork(p, c)
      PROVE  lastPid' \in Int /\ lastPid <= lastPid' /\ c <= lastPid'
  BY <1>1 DEF Fork
<1>2. (\A p, c \in Pids : ~Fork(p, c)) => lastPid' = lastPid
  BY DEF ProcNext, Exec, Exit, Reap, SetFifo
<1>3. lastPid' \in Int /\ lastPid <= lastPid'
  BY <1>1, <1>2
<1>4. ASSUME NEW p \in Pids, Exists(p)'
      PROVE  p <= lastPid'
  <2>1. Exists(p) \/ \E q \in Pids : Fork(q, p)
    BY <1>4, ForkAddsOne, OthersAddNone DEF ProcNext
  <2>2. QED
    BY <2>1, <1>1, <1>3
<1>5. QED
  BY <1>3, <1>4
-----------------------------------------------------------------------------
(***************************************************************************)
(* The tree of the processes.                                              *)
(***************************************************************************)
\* What Tree says of a table, of the table at any time; and without reuse of
\* pids, children are younger than their parents.
RootInv == exe[InitPid] = "other" /\ ppid[InitPid] = 0
ParentsInv == \A p \in Pids : Exists(p) =>
                ppid[p] = 0 \/ (ppid[p] \in Pids /\ Live(ppid[p]))
AcyclicInv == \A s \in SUBSET {p \in Pids : Exists(p)} :
                s # {} => \E p \in s : ppid[p] \notin s
OrderInv == ~reused => \A p \in Pids : Exists(p) => ppid[p] < p

TreeInv == RootInv /\ ParentsInv /\ AcyclicInv /\ OrderInv

\* The initial table is a tree.
LEMMA TreeStart ==
  ASSUME ProcInit
  PROVE  TreeInv
<1>1. PICK t \in Tables : exe = t.exe /\ ppid = t.ppid
  BY DEF ProcInit
<1>2. Tree(t) /\ t.ppid \in [Pids -> 0..MaxPid]
  BY ProcFSAssumption, TreeAssumption
<1>3. RootInv /\ AcyclicInv
  BY <1>1, <1>2 DEF Tree, RootInv, AcyclicInv, Exists
<1>4. ParentsInv
  <2>1. \A p \in Pids : ppid[p] \in 0..MaxPid
    BY <1>1, <1>2
  <2>2. \A p \in Pids : ppid[p] = 0 \/ ppid[p] \in Pids
    BY <2>1, ProcFSAssumption DEF Pids
  <2>3. QED
    BY <1>1, <1>2, <2>2 DEF Tree, ParentsInv, Exists, Live
<1>5. OrderInv
  <2>1. \A p \in Pids : ppid[p] \in Int /\ p \in Int
    BY <1>1, <1>2, ProcFSAssumption DEF Pids
  <2>2. ~reused => \A p \in Pids : Exists(p) => ~(ppid[p] >= p)
    BY DEF ProcInit
  <2>3. QED
    BY <2>1, <2>2 DEF OrderInv
<1>6. QED
  BY <1>3, <1>4, <1>5 DEF TreeInv

\* A change of the table leaves a tree.
LEMMA TreeStep ==
  ASSUME ProcTypeOK, TreeInv, \A p \in Pids : Exists(p) => p <= lastPid,
         ProcNext
  PROVE  TreeInv'
<1> USE DEF TreeInv
<1> InitPid \in Pids /\ \A p \in Pids : p \in Nat \ {0}
  BY ProcFSAssumption DEF Pids, InitPid
<1>1. ASSUME NEW p \in Pids, NEW c \in Pids, Fork(p, c)
      PROVE  TreeInv'
  <2>1. /\ Live(p) /\ ~Exists(c)
        /\ exe' = [exe EXCEPT ![c] = exe[p]]
        /\ ppid' = [ppid EXCEPT ![c] = p]
        /\ p # c /\ c # InitPid /\ Exists(p)
    BY <1>1 DEF Fork, Live, Exists, Images, B2GExes, RootInv
  <2>2. /\ exe'[c] = exe[p] /\ ppid'[c] = p
        /\ \A q \in Pids : q # c => exe'[q] = exe[q] /\ ppid'[q] = ppid[q]
    BY <2>1 DEF ProcTypeOK
  <2>3. RootInv'
    BY <2>1, <2>2 DEF RootInv
  <2>4. \A q \in Pids : Exists(q) => q # c /\ ppid[q] # c
    BY <2>1 DEF ParentsInv, Live, Exists, Images, B2GExes
  <2>5. \A q \in Pids : Exists(q)' => q = c \/ Exists(q)
    BY <2>2 DEF Exists
  <2>6. ParentsInv'
    BY <2>1, <2>2, <2>4, <2>5 DEF ParentsInv, Live, Exists
  <2>7. ASSUME NEW s \in SUBSET {q \in Pids : Exists(q)'}, s # {}
        PROVE  \E q \in s : ppid'[q] \notin s
    <3>1. CASE s \ {c} = {}
      BY <2>1, <2>2, <2>7, <3>1
    <3>2. CASE s \ {c} # {}
      <4>1. s \ {c} \in SUBSET {q \in Pids : Exists(q)}
        BY <2>5, <2>7
      <4>2. PICK q \in s \ {c} : ppid[q] \notin s \ {c}
        BY <3>2, <4>1 DEF AcyclicInv
      <4>3. QED
        BY <2>2, <2>4, <4>1, <4>2
    <3>3. QED
      BY <3>1, <3>2
  <2>8. AcyclicInv'
    BY <2>7 DEF AcyclicInv, Exists
  <2>9. OrderInv'
    <3>1. reused' = (reused \/ c <= lastPid)
      BY <1>1 DEF Fork
    <3>2. ~reused' => ~reused /\ ~(c <= lastPid)
      BY <3>1
    <3>3. p <= lastPid /\ lastPid \in Int
      BY <2>1 DEF ProcTypeOK
    <3>4. ~(c <= lastPid) => p < c
      BY <3>3
    <3>5. QED
      BY <2>2, <2>5, <3>2, <3>4 DEF OrderInv, Exists
  <2>10. QED
    BY <2>3, <2>6, <2>8, <2>9
<1>2. ASSUME NEW p \in Pids, Exit(p)
      PROVE  TreeInv'
  <2>1. PICK left \in {"zombie", "none"} : exe' = [exe EXCEPT ![p] = left]
    BY <1>2 DEF Exit
  <2>2. /\ Live(p) /\ p # InitPid /\ reused' = reused
        /\ ppid' = [q \in Pids |-> IF ppid[q] = p THEN InitPid ELSE ppid[q]]
    BY <1>2 DEF Exit
  <2>3. /\ \A q \in Pids : q # p => exe'[q] = exe[q]
        /\ \A q \in Pids : ppid'[q] = IF ppid[q] = p THEN InitPid ELSE ppid[q]
        /\ \A q \in Pids : Exists(q)' => Exists(q)
    BY <2>1, <2>2 DEF ProcTypeOK, Exists, Live, Images, B2GExes
  <2>4. RootInv'
    BY <2>2, <2>3 DEF RootInv
  <2>5. ParentsInv'
    BY <2>2, <2>3, <2>4 DEF ParentsInv, RootInv, Live, Images
  <2>6. ASSUME NEW s \in SUBSET {q \in Pids : Exists(q)'}, s # {}
        PROVE  \E q \in s : ppid'[q] \notin s
    <3>1. CASE InitPid \in s
      <4>1. ppid'[InitPid] = 0
        BY <2>4 DEF RootInv
      <4>2. QED
        BY <2>6, <3>1, <4>1
    <3>2. CASE InitPid \notin s
      <4>1. s \in SUBSET {q \in Pids : Exists(q)}
        BY <2>3, <2>6
      <4>2. PICK q \in s : ppid[q] \notin s
        BY <2>6, <4>1 DEF AcyclicInv
      <4>3. QED
        BY <2>3, <3>2, <4>1, <4>2
    <3>3. QED
      BY <3>1, <3>2
  <2>7. AcyclicInv'
    BY <2>6 DEF AcyclicInv, Exists
  <2>8. OrderInv'
    <3>1. \A q \in Pids : ppid[q] = p => q # InitPid
      BY <2>2 DEF RootInv, Pids
    <3>2. \A q \in Pids : q # InitPid => InitPid < q
      BY DEF InitPid
    <3>3. QED
      BY <2>2, <2>3, <3>1, <3>2 DEF OrderInv
  <2>9. QED
    BY <2>4, <2>5, <2>7, <2>8
<1>3. ASSUME UNCHANGED <<ppid, reused>>,
             \A q \in Pids : /\ Exists(q)' => Exists(q)
                             /\ Live(q) => Live(q)',
             exe'[InitPid] = exe[InitPid]
      PROVE  TreeInv'
  <2>1. RootInv' /\ ParentsInv' /\ OrderInv'
    BY <1>3 DEF RootInv, ParentsInv, OrderInv
  <2>2. {q \in Pids : Exists(q)'} \subseteq {q \in Pids : Exists(q)}
    BY <1>3
  <2>3. AcyclicInv'
    BY <1>3, <2>2 DEF AcyclicInv
  <2>4. QED
    BY <2>1, <2>3
<1>4. ASSUME NEW p \in Pids, NEW image \in Images, Exec(p, image)
      PROVE  TreeInv'
  BY <1>3, <1>4 DEF Exec, ProcTypeOK, Exists, Live, Launches, Images, B2GExes
<1>5. ASSUME NEW p \in Pids, Reap(p)
      PROVE  TreeInv'
  BY <1>3, <1>5 DEF Reap, ProcTypeOK, Exists, Live, Images, B2GExes, RootInv
<1>6. ASSUME NEW p \in Pids, SetFifo(p)
      PROVE  TreeInv'
  BY <1>3, <1>6 DEF SetFifo, Exists, Live
<1>7. QED
  BY <1>1, <1>2, <1>4, <1>5, <1>6 DEF ProcNext

\* A process of the family stays the child of its parent, or has been given
\* to init, because the parent is no more; init is not of the family.
LEMMA ParentStep ==
  ASSUME ProcTypeOK, TreeInv, ProcNext, NEW p \in Family
  PROVE  \/ ppid'[p] = ppid[p]
         \/ ppid'[p] = InitPid /\ ppid[p] \notin Family'
<1>1. p \in Pids /\ Exists(p)
  BY DEF Family, Exists, B2GExes
<1>2. ASSUME NEW q \in Pids, NEW c \in Pids, Fork(q, c)
      PROVE  ppid'[p] = ppid[p]
  BY <1>1, <1>2 DEF Fork, ProcTypeOK
<1>3. ASSUME NEW q \in Pids, Exit(q)
      PROVE  \/ ppid'[p] = ppid[p]
             \/ ppid'[p] = InitPid /\ ppid[p] \notin Family'
  <2>1. ppid'[p] = IF ppid[p] = q THEN InitPid ELSE ppid[p]
    BY <1>1, <1>3 DEF Exit, ProcTypeOK
  <2>2. q \notin Family'
    BY <1>3 DEF Exit, ProcTypeOK, Family, B2GExes
  <2>3. QED
    BY <2>1, <2>2
<1>4. (\E q, c \in Pids : Fork(q, c)) \/ (\E q \in Pids : Exit(q))
        \/ ppid' = ppid
  BY DEF ProcNext, Exec, Reap, SetFifo
<1>5. QED
  BY <1>2, <1>3, <1>4

\* Whether someone who stays in the family has a parent who is now in it can
\* be told from the table before.
LEMMA FamilyParent ==
  ASSUME ProcTypeOK, TreeInv, TreeInv', ProcNext, NEW p \in Family
  PROVE  ppid'[p] \in Family' <=> ppid[p] \in Family'
<1>1. InitPid \notin Family'
  BY DEF TreeInv, RootInv, Family, B2GExes
<1>2. QED
  BY <1>1, ParentStep

\* That pids have been reused is never forgotten.
LEMMA ReusedStays ==
  ASSUME ProcNext, reused
  PROVE  reused'
<1>1. (\E p, c \in Pids : Fork(p, c)) \/ reused' = reused
  BY DEF ProcNext, Exec, Exit, Reap, SetFifo
<1>2. ASSUME NEW p \in Pids, NEW c \in Pids, Fork(p, c)
      PROVE  reused'
  <2>1. reused' = (reused \/ c <= lastPid)
    BY <1>2 DEF Fork
  <2>2. QED
    BY <2>1
<1>3. QED
  BY <1>1, <1>2
=============================================================================
