---------------------------- MODULE PrlimitProofs ----------------------------
(***************************************************************************)
(* Theorems about Prlimit, for every process table, number of pids and     *)
(* command line.                                                           *)
(***************************************************************************)
EXTENDS Prlimit, ProcFSProofs

-----------------------------------------------------------------------------
(***************************************************************************)
(* The inductive invariant.                                                *)
(***************************************************************************)
\* The tool can set limits, and p has been handed to it.
Able == IsRoot /\ args.valid
Handled(p) == p < cursor /\ ~(pc = "apply" /\ p = entry)

TableInv ==
  /\ Live(InitPid)
  /\ \A p \in Pids : Exists(p) => p <= lastPid
  /\ \A p \in steady : Exists(p)
  /\ cursor <= lastPid + 1

\* Where the tool is in its scan.
PhaseInv ==
  /\ pc \in {"start", "one", "opendir"} => cursor = 1
  /\ pc = "apply" => entry \in Pids /\ entry > 0 /\ cursor = entry + 1

\* Whoever was there from the start and has been handled is limited, and at
\* the end everyone has been handled.
SteadyInv ==
  Able => /\ pc \in {"readdir", "apply"} =>
               \A p \in steady : Handled(p) => Limited(p)
          /\ Scanned => \A p \in steady : Limited(p)

Inv == TypeOK /\ TableInv /\ PhaseInv /\ SteadyInv

\* Without reuse of pids, everyone behind the cursor is limited; after a
\* clean end of the scan no one holds an old limit, nor a copy of it.
CleanInv ==
  Able /\ ~reused =>
    /\ pc \in {"readdir", "apply"} =>
         \A p \in Pids : Exists(p) /\ Handled(p) => Limited(p)
    /\ Scanned /\ clean =>
         \A p \in Pids : /\ Exists(p) => Limited(p)
                         /\ forking[p] # "old"

-----------------------------------------------------------------------------
\* A step is a step of one of the actions.
LEMMA NextCases ==
  ASSUME Next
  PROVE  \/ Usage \/ Parse \/ ApplyOne \/ OpendirFails \/ Opendir
         \/ \E p \in Pids : Readdir(p)
         \/ Apply \/ ReaddirEnds
         \/ \E p \in Pids : BeginFork(p)
         \/ \E p, c \in Pids : EndFork(p, c)
         \/ \E p \in Pids : Leave(p)
         \/ \E p \in Pids : Execute(p)
BY DEF Next, Step, World

\* A bound that grows remains a bound.
LEMMA Below ==
  ASSUME NEW a \in Int, NEW b \in Int, NEW c \in Int, NEW d, d = a,
         a <= b + 1, b <= c
  PROVE  d <= c + 1
OBVIOUS

\* What the rest of the system does to the table keeps its invariant.
LEMMA TableStep ==
  ASSUME TypeOK, TableInv, ProcNext, UNCHANGED cursor,
         \A q \in steady' : q \in steady /\ Exists(q)'
  PROVE  ProcTypeOK' /\ TableInv'
<1>1. ProcTypeOK' /\ Live(InitPid)'
  BY ProcStep DEF TypeOK, TableInv
<1>2. (\A p \in Pids : Exists(p)' => p <= lastPid') /\ lastPid <= lastPid'
  BY PidsBounded DEF TypeOK, TableInv
<1>3. cursor' <= lastPid' + 1
  <2>1. lastPid \in Int /\ lastPid' \in Int /\ cursor \in Int
    BY <1>1 DEF TypeOK, ProcTypeOK
  <2>2. cursor <= lastPid + 1 /\ cursor' = cursor
    BY DEF TableInv
  <2>3. lastPid <= lastPid'
    BY <1>2
  <2>4. QED
    BY <2>1, <2>2, <2>3, Below
<1>4. QED
  BY <1>1, <1>2, <1>3 DEF TableInv

\* Processes that stay keep their limit and their place; the only new one is
\* the child of an EndFork, and it has a pid behind the cursor only if pids
\* are reused.
LEMMA WorldStep ==
  ASSUME TypeOK, TableInv, World
  PROVE  /\ TypeOK' /\ TableInv' /\ UNCHANGED toolVars /\ clean' = clean
         /\ steady' \subseteq steady /\ (~reused' => ~reused)
         /\ \A p \in Pids : Exists(p) => limit'[p] = limit[p]
         /\ \A c \in Pids : Exists(c)' /\ ~Exists(c) =>
              /\ ~reused' => c >= cursor
              /\ \E p \in Pids : forking[p] # "no" /\ limit'[c] = forking[p]
         /\ \A p \in Pids : forking'[p] \in {forking[p], limit[p], "no"}
<1> USE DEF TypeOK
<1>1. ASSUME NEW p \in Pids, BeginFork(p)
      PROVE  /\ TypeOK' /\ TableInv' /\ UNCHANGED <<toolVars, procVars>>
             /\ UNCHANGED <<clean, steady, limit>>
             /\ forking' = [forking EXCEPT ![p] = limit[p]]
             /\ limit[p] \in {"old", "new"}
             /\ Live(p)
  BY <1>1 DEF BeginFork, TableInv, ProcTypeOK, Live, Exists, procVars, toolVars
<1>2. ASSUME NEW p \in Pids, NEW c \in Pids, EndFork(p, c)
      PROVE  /\ TypeOK' /\ TableInv' /\ UNCHANGED toolVars
             /\ UNCHANGED <<clean, steady>>
             /\ limit' = [limit EXCEPT ![c] = forking[p]]
             /\ forking' = [forking EXCEPT ![p] = "no"]
             /\ forking[p] # "no" /\ ~Exists(c)
             /\ (~reused' => ~reused /\ c >= cursor)
             /\ \A d \in Pids : Exists(d)' => Exists(d) \/ d = c
  <2>1. /\ Fork(p, c) /\ UNCHANGED <<toolVars, clean, steady>>
        /\ limit' = [limit EXCEPT ![c] = forking[p]]
        /\ forking' = [forking EXCEPT ![p] = "no"]
        /\ forking[p] # "no" /\ ~Exists(c)
    BY <1>2 DEF EndFork, Fork
  <2>2. \A q \in steady : Exists(q)'
    BY <2>1 DEF Fork, TableInv, Exists, Live, Images, B2GExes, ProcTypeOK
  <2>3. ProcTypeOK' /\ TableInv'
    BY <2>1, <2>2, TableStep DEF ProcNext, toolVars
  <2>4. TypeOK'
    BY <2>1, <2>3 DEF toolVars
  <2>5. ~reused' => ~reused /\ ~(c <= lastPid)
    <3>1. reused' = (reused \/ c <= lastPid)
      BY <2>1 DEF Fork
    <3>2. QED
      BY <3>1, Zenon
  <2>6. ~(c <= lastPid) => c >= cursor
    BY DEF TableInv, Pids, ProcTypeOK
  <2>7. QED
    BY <2>1, <2>3, <2>4, <2>5, <2>6, ForkAddsOne
<1>3. ASSUME NEW p \in Pids, Leave(p)
      PROVE  /\ TypeOK' /\ TableInv' /\ UNCHANGED <<toolVars, clean>>
             /\ UNCHANGED <<limit, forking, reused>>
             /\ steady' \subseteq steady
             /\ \A d \in Pids : Exists(d)' => Exists(d)
  <2>1. /\ Exit(p) \/ Reap(p)
        /\ steady' = {q \in steady : exe'[q] # "none"}
        /\ UNCHANGED <<toolVars, limit, forking, clean>>
    BY <1>3 DEF Leave
  <2>2. ProcTypeOK' /\ TableInv'
    BY <2>1, TableStep DEF ProcNext, toolVars, Exists
  <2>3. TypeOK'
    BY <2>1, <2>2 DEF toolVars
  <2>4. QED
    BY <2>1, <2>2, <2>3, OthersAddNone DEF Exit, Reap
<1>4. ASSUME NEW p \in Pids, Execute(p)
      PROVE  /\ TypeOK' /\ TableInv' /\ UNCHANGED <<toolVars, clean>>
             /\ UNCHANGED <<limit, forking, steady, reused>>
             /\ \A d \in Pids : Exists(d)' => Exists(d)
  <2>1. PICK image \in Images : Exec(p, image)
    BY <1>4 DEF Execute
  <2>2. UNCHANGED <<toolVars, limit, forking, steady, clean>>
    BY <1>4 DEF Execute
  <2>3. \A q \in steady : Exists(q)'
    BY <2>1 DEF Exec, TableInv, Exists, Images, B2GExes, ProcTypeOK
  <2>4. ProcTypeOK' /\ TableInv'
    BY <2>1, <2>2, <2>3, TableStep DEF ProcNext, toolVars
  <2>5. TypeOK'
    BY <2>2, <2>4 DEF toolVars
  <2>6. QED
    BY <2>1, <2>2, <2>4, <2>5, OthersAddNone DEF Exec
<1>5. CASE \E p \in Pids : BeginFork(p)
  BY <1>1, <1>5 DEF procVars, Exists
<1>6. CASE \E p, c \in Pids : EndFork(p, c)
  BY <1>2, <1>6
<1>7. CASE \E p \in Pids : Leave(p)
  BY <1>3, <1>7
<1>8. CASE \E p \in Pids : Execute(p)
  BY <1>4, <1>8
<1>9. QED
  BY <1>5, <1>6, <1>7, <1>8 DEF World

-----------------------------------------------------------------------------
(***************************************************************************)
(* The invariant holds initially and is preserved.                         *)
(***************************************************************************)
LEMMA InitInv ==
  ASSUME Init
  PROVE  Inv /\ CleanInv
<1>1. ProcTypeOK /\ Live(InitPid)
  BY ProcStart DEF Init
<1> MaxPid \in Nat \ {0}
  BY ProcFSAssumption
<1>2. TypeOK
  <2>1. args \in ArgLists /\ pc = "start" /\ steady \subseteq Pids
          /\ clean \in BOOLEAN
    BY DEF Init
  <2>2. status \in -3..0 /\ cursor \in 1..MaxPid + 1 /\ entry \in Int
    BY DEF Init
  <2>3. /\ limit \in [Pids -> {"old", "new"}]
        /\ forking \in [Pids -> {"no", "old", "new"}]
    BY DEF Init
  <2>4. QED
    BY <1>1, <2>1, <2>2, <2>3 DEF TypeOK
<1>3. TableInv
  <2>1. lastPid \in Pids /\ \A p \in Pids : Exists(p) => p <= lastPid
    BY DEF Init, ProcInit
  <2>2. cursor <= lastPid + 1
    BY <2>1 DEF Init, Pids
  <2>3. QED
    BY <1>1, <2>1, <2>2 DEF Init, TableInv
<1>4. PhaseInv /\ SteadyInv /\ CleanInv
  BY DEF Init, PhaseInv, SteadyInv, CleanInv, Scanned
<1>5. QED
  BY <1>2, <1>3, <1>4 DEF Inv

\* The tool's own steps keep everything but the claims about limits.
LEMMA ToolStep ==
  ASSUME Inv, Step
  PROVE  TypeOK' /\ TableInv' /\ PhaseInv' /\ UNCHANGED <<procVars, forking>>
<1> USE ProcFSAssumption DEF Inv, TypeOK
<1>1. CASE Usage
  BY <1>1 DEF Usage, UsageStatus, Return, PhaseInv, TableInv, ProcTypeOK,
              procVars, Live, Exists
<1>2. CASE Parse
  <2>1. Atoi(args.pid) \in Int
    BY PrlimitAssumption DEF Atoi
  <2>2. QED
    BY <1>2, <2>1 DEF Parse, PhaseInv, TableInv, ProcTypeOK, procVars, Live,
                      Exists
<1>3. CASE ApplyOne
  BY <1>3 DEF ApplyOne, Prlimit64, Accepts, PhaseInv, TableInv, ProcTypeOK,
              procVars, Live, Exists
<1>4. CASE OpendirFails
  BY <1>4 DEF OpendirFails, Return, PhaseInv, TableInv, ProcTypeOK, procVars,
              Live, Exists
<1>5. CASE Opendir
  BY <1>5 DEF Opendir, PhaseInv, TableInv, ProcTypeOK, procVars, Live, Exists
<1>6. ASSUME NEW p \in Pids, Readdir(p)
      PROVE  TypeOK' /\ TableInv' /\ PhaseInv' /\ UNCHANGED <<procVars, forking>>
  <2>1. p \in 1..MaxPid /\ p <= lastPid
    BY <1>6 DEF Readdir, TableInv, Pids
  <2>2. QED
    BY <1>6, <2>1 DEF Readdir, PhaseInv, TableInv, ProcTypeOK, procVars, Live,
                      Exists
<1>7. CASE Apply
  BY <1>7 DEF Apply, Prlimit64, Accepts, PhaseInv, TableInv, ProcTypeOK,
              procVars, Live, Exists
<1>8. CASE ReaddirEnds
  BY <1>8 DEF ReaddirEnds, PhaseInv, TableInv, ProcTypeOK, procVars, Live,
              Exists
<1>9. QED
  BY <1>1, <1>2, <1>3, <1>4, <1>5, <1>6, <1>7, <1>8 DEF Step

\* What a step of the tool has handled: nothing new, until it has set the
\* limit of the entry it was at.
LEMMA ToolLimits ==
  ASSUME Inv, Step, Able
  PROVE  /\ \A p \in Pids : Limited(p) => Limited(p)'
         /\ pc' \in {"readdir", "apply"} => 
              \A p \in Pids : Exists(p) /\ Handled(p)' => 
                \/ pc \in {"readdir", "apply"} /\ Handled(p)
                \/ Limited(p)'
         /\ Scanned' => 
              /\ pc = "readdir" /\ clean' = (\A p \in Pids : forking[p] # "old")
              /\ \A p \in Pids : Exists(p) => Handled(p)
         /\ UNCHANGED <<steady, clean>> \/ Opendir \/ ReaddirEnds
<1> USE DEF Inv, TypeOK
<1>1. CASE Usage \/ Parse \/ OpendirFails
  <2>1. pc' \notin {"readdir", "apply"} /\ cursor' = 1
          /\ UNCHANGED <<limit, steady, clean>>
    BY <1>1 DEF Usage, Return, Parse, OpendirFails, PhaseInv
  <2>2. QED
    BY <2>1 DEF Limited, Scanned
<1>2. CASE ApplyOne
  BY <1>2 DEF ApplyOne, Limited, Scanned, PhaseInv, Prlimit64
<1>3. CASE Opendir
  BY <1>3 DEF Opendir, Limited, Handled, Scanned, Pids
<1>4. ASSUME NEW p \in Pids, Readdir(p)
      PROVE  /\ UNCHANGED <<steady, clean, limit>> /\ pc = "readdir"
             /\ pc' = "apply"
             /\ \A q \in Pids : Exists(q) /\ Handled(q)' => Handled(q)
  BY <1>4 DEF Readdir, Handled, Pids
<1>5. CASE Apply
  <2>1. entry \in Pids /\ IsPid(entry) /\ pc = "apply" /\ pc' = "readdir"
    BY <1>5 DEF Apply, PhaseInv, IsPid
  <2>2. /\ limit' = IF Exists(entry) THEN [limit EXCEPT ![entry] = "new"]
                                     ELSE limit
        /\ UNCHANGED <<cursor, entry, steady, clean>>
    BY <1>5, <2>1 DEF Apply, Prlimit64, Accepts, Able
  <2>3. QED
    BY <2>1, <2>2 DEF Limited, Handled, Scanned
<1>6. CASE ReaddirEnds
  <2>1. ASSUME NEW p \in Pids, Exists(p)
        PROVE  p < cursor
    BY <1>6, <2>1 DEF ReaddirEnds, Pids
  <2>2. QED
    BY <1>6, <2>1 DEF ReaddirEnds, Limited, Handled
<1>7. QED
  BY <1>1, <1>2, <1>3, <1>4, <1>5, <1>6 DEF Step, Limited, Scanned

\* The invariants are preserved.
LEMMA InvStep ==
  ASSUME Inv, [Next]_vars
  PROVE  Inv'
<1> USE DEF Inv
<1>1. CASE UNCHANGED vars
  BY <1>1
  DEF vars, procVars, toolVars, TypeOK, ProcTypeOK, TableInv, Live, Exists,
      PhaseInv, SteadyInv, Able, Handled, Limited, Scanned
<1>2. CASE Step
  <2>1. TypeOK' /\ TableInv' /\ PhaseInv' /\ UNCHANGED <<procVars, forking>>
    BY <1>2, ToolStep
  <2>2. SUFFICES ASSUME Able
                 PROVE  SteadyInv'
    BY <2>1, <1>2
    DEF SteadyInv, Able, Step, Usage, Return, Parse, ApplyOne, OpendirFails,
        Opendir, Readdir, Apply, ReaddirEnds
  <2>3. \A p \in steady' : p \in Pids /\ Exists(p)
    BY <2>1 DEF TypeOK, TableInv, procVars, Exists
  <2>4. ASSUME pc' \in {"readdir", "apply"}, NEW p \in steady', Handled(p)'
        PROVE  Limited(p)'
    <3>1. CASE Opendir
      BY <2>4, <2>3, <3>1 DEF Opendir, Handled, Pids
    <3>2. CASE ~Opendir
      <4>1. p \in steady
        BY <2>4, <3>2, <2>2, <1>2, ToolLimits DEF ReaddirEnds
      <4>2. (pc \in {"readdir", "apply"} /\ Handled(p)) \/ Limited(p)'
        BY <2>2, <2>3, <2>4, <1>2, ToolLimits
      <4>3. QED
        BY <4>1, <4>2, <2>2, <2>3, <1>2, ToolLimits DEF SteadyInv
    <3>3. QED
      BY <3>1, <3>2
  <2>5. ASSUME Scanned', NEW p \in steady'
        PROVE  Limited(p)'
    <3>1. pc = "readdir" /\ Handled(p) /\ pc' = "done"
      BY <2>2, <2>3, <2>5, <1>2, ToolLimits DEF Scanned
    <3>2. p \in steady
      BY <3>1, <2>2, <1>2, ToolLimits DEF Opendir, ReaddirEnds
    <3>3. QED
      BY <3>1, <3>2, <2>2, <2>3, <1>2, ToolLimits DEF SteadyInv
  <2>6. QED
    BY <2>4, <2>5 DEF SteadyInv
<1>3. CASE World
  <2>1. /\ TypeOK' /\ TableInv' /\ UNCHANGED toolVars
        /\ steady' \subseteq steady
        /\ \A p \in Pids : Exists(p) => limit'[p] = limit[p]
    BY <1>3, WorldStep
  <2>2. PhaseInv'
    BY <2>1 DEF PhaseInv, toolVars
  <2>3. \A p \in steady' : p \in steady /\ p \in Pids /\ Limited(p)' = Limited(p)
    BY <2>1 DEF TypeOK, TableInv, Limited
  <2>4. SteadyInv'
    BY <2>1, <2>3 DEF SteadyInv, Able, Handled, Scanned, toolVars
  <2>5. QED
    BY <2>1, <2>2, <2>4
<1>4. QED
  BY <1>1, <1>2, <1>3 DEF Next

\* Every step keeps what is known of a clean scan.
LEMMA CleanStep ==
  ASSUME Inv, CleanInv, [Next]_vars
  PROVE  CleanInv'
<1> USE DEF Inv
<1>1. CASE UNCHANGED vars
  BY <1>1
  DEF vars, procVars, toolVars, CleanInv, Able, Handled, Limited, Scanned,
      Exists
<1>2. CASE Step
  <2>1. UNCHANGED <<procVars, forking>> /\ args' = args
    BY <1>2, ToolStep
    DEF Step, Usage, Return, Parse, ApplyOne, OpendirFails, Opendir, Readdir,
        Apply, ReaddirEnds
  <2>2. SUFFICES ASSUME Able, ~reused
                 PROVE  CleanInv'
    BY <2>1 DEF CleanInv, Able, procVars
  <2>3. \A p \in Pids : Exists(p)' = Exists(p)
    BY <2>1 DEF procVars, Exists
  <2>4. ASSUME pc' \in {"readdir", "apply"},
               NEW p \in Pids, Exists(p), Handled(p)'
        PROVE  Limited(p)'
    BY <2>2, <2>4, <1>2, ToolLimits DEF CleanInv
  <2>5. ASSUME Scanned', clean', NEW p \in Pids
        PROVE  (Exists(p) => Limited(p)') /\ forking[p] # "old"
    BY <2>2, <2>5, <1>2, ToolLimits DEF CleanInv
  <2>6. QED
    BY <2>1, <2>3, <2>4, <2>5 DEF CleanInv
<1>3. CASE World
  <2>1. UNCHANGED toolVars /\ clean' = clean
    BY <1>3, WorldStep
  <2>2. SUFFICES ASSUME Able, ~reused, ~reused'
                 PROVE  CleanInv'
    BY <2>1, <1>3, WorldStep DEF CleanInv, Able, toolVars
  <2>3. ASSUME pc \in {"readdir", "apply"},
               NEW p \in Pids, Exists(p)', Handled(p)
        PROVE  Limited(p)'
    <3>1. CASE Exists(p)
      BY <2>2, <2>3, <3>1, <1>3, WorldStep DEF CleanInv, Limited
    <3>2. CASE ~Exists(p)
      <4>1. p >= cursor
        BY <2>2, <2>3, <3>2, <1>3, WorldStep
      <4>2. QED
        BY <2>3, <4>1 DEF Handled, TypeOK, Pids
    <3>3. QED
      BY <3>1, <3>2
  <2>4. ASSUME Scanned, clean, NEW p \in Pids
        PROVE  (Exists(p)' => Limited(p)') /\ forking'[p] # "old"
    <3>1. \A q \in Pids : (Exists(q) => limit[q] = "new") /\ forking[q] # "old"
      BY <2>2, <2>4 DEF CleanInv, Limited
    <3>2. ASSUME Exists(p)'
          PROVE  Limited(p)'
      <4>1. CASE Exists(p)
        BY <3>1, <4>1, <1>3, WorldStep DEF Limited
      <4>2. CASE ~Exists(p)
        <5>1. PICK q \in Pids : forking[q] # "no" /\ limit'[p] = forking[q]
          BY <3>2, <4>2, <1>3, WorldStep
        <5>2. forking[q] = "new"
          BY <5>1, <3>1 DEF TypeOK
        <5>3. QED
          BY <5>1, <5>2 DEF Limited
      <4>3. QED
        BY <4>1, <4>2
    <3>3. forking'[p] # "old"
      <4>1. CASE \E q \in Pids : BeginFork(q)
        <5>1. PICK q \in Pids : BeginFork(q)
          BY <4>1
        <5>2. Exists(q) /\ forking' = [forking EXCEPT ![q] = limit[q]]
          BY <5>1 DEF BeginFork, Live, Exists, Images, B2GExes
        <5>3. QED
          BY <3>1, <5>2 DEF TypeOK
      <4>2. CASE \E q, c \in Pids : EndFork(q, c)
        BY <3>1, <4>2 DEF EndFork, TypeOK
      <4>3. CASE \E q \in Pids : Leave(q) \/ Execute(q)
        BY <3>1, <4>3 DEF Leave, Execute
      <4>4. QED
        BY <4>1, <4>2, <4>3, <1>3 DEF World
    <3>4. QED
      BY <3>2, <3>3
  <2>5. QED
    BY <2>1, <2>3, <2>4 DEF CleanInv, Handled, Scanned, toolVars
<1>4. QED
  BY <1>1, <1>2, <1>3 DEF Next

-----------------------------------------------------------------------------
(***************************************************************************)
(* The theorems.                                                           *)
(***************************************************************************)
\* Both invariants hold at every step of every behaviour.
LEMMA Invariance == Spec => [](Inv /\ CleanInv)
<1>1. Init => Inv /\ CleanInv
  BY InitInv
<1>2. Inv /\ CleanInv /\ [Next]_vars => (Inv /\ CleanInv)'
  BY InvStep, CleanStep
<1>3. QED
  BY <1>1, <1>2, PTL DEF Spec

\* Every variable keeps its type; the limit of a process is never anything
\* but the old or the requested one.
THEOREM TypeCorrect == Spec => []TypeOK
<1>1. Inv => TypeOK
  BY DEF Inv
<1>2. QED
  BY <1>1, Invariance, PTL

\* A scan reaches every process that stays, however the others fork, die and
\* reuse pids.
THEOREM ScanReachesSteady == Spec => []SteadyLimited
<1>1. Inv => SteadyLimited
  BY DEF Inv, SteadyInv, SteadyLimited, Able
<1>2. QED
  BY <1>1, Invariance, PTL

\* Growing pids keep new processes ahead of the scan: it is complete unless a
\* fork was under way when it ended.
THEOREM CleanScan == Spec => []CleanScanIsComplete
<1>1. CleanInv => CleanScanIsComplete
  BY DEF CleanInv, CleanScanIsComplete, Able
<1>2. QED
  BY <1>1, Invariance, PTL
=============================================================================
