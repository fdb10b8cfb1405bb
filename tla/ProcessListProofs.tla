------------------------- MODULE ProcessListProofs --------------------------
(***************************************************************************)
(* Theorems about ProcessList, for every process table, every number of    *)
(* pids and changes, with and without reuse of pids, for root and others.  *)
(***************************************************************************)
EXTENDS ProcessList, ProcFSProofs, FiniteSetTheorems, SequenceTheorems

-----------------------------------------------------------------------------
(***************************************************************************)
(* The inductive invariant.                                                *)
(***************************************************************************)
\* The history of the family; init never dies, so /proc is never empty.
FamilyInv ==
  /\ steady \subseteq Family
  /\ Family \subseteq seen
  /\ Live(InitPid)

\* The scan has listed whoever was there all along, and a list, once made,
\* is never empty and never made again.
NothingFound ==
  /\ gotExe = {} /\ unordered = <<>> /\ ~looked
  /\ main = 0 /\ ~gotChildren /\ b2g = <<>>
ScanInv ==
  /\ pc = "opendir" => all = <<>>
  /\ pc = "readdir" => /\ cursor > InitPid => all # <<>>
                       /\ \A p \in steady : p < cursor => p \in Range(all)
  /\ pc = "readdir" \/ all = <<>> => NothingFound
  /\ pc \in {"exe", "main", "child", "b2g", "return"} => all # <<>>
  /\ pc # "readdir" /\ all # <<>> => steady \subseteq Range(all)

\* A cached image tells whether its process was in the family.
ExeInv ==
  \A p \in gotExe :
    /\ IsRoot /\ p \in steady => exeOf[p] \in B2GExes
    /\ exeOf[p] \in B2GExes => p \in seen

\* The first n - 1 entries of the list: their images have been read, and
\* those that run b2g have been found.
Read(n) == \A i \in 1..Len(all) : i < n => all[i] \in gotExe
Found(n) == {p \in Pids : /\ exeOf[p] \in B2GExes
                          /\ \E i \in 1..Len(all) : i < n /\ all[i] = p}
LookInv ==
  /\ pc = "exe" => Read(idx) /\ Range(unordered) = Found(idx)
  /\ looked => /\ Read(Len(all) + 1)
               /\ Range(unordered) = Found(Len(all) + 1)

MainInv == pc \in {"child", "b2g"} => main # 0

Inv == TypeOK /\ FamilyInv /\ ScanInv /\ ExeInv /\ LookInv /\ MainInv

-----------------------------------------------------------------------------
\* Appending to a list adds one element to its range.
LEMMA RangeAppend ==
  ASSUME NEW S, NEW seq \in Seq(S), NEW e \in S
  PROVE  Range(Append(seq, e)) = Range(seq) \cup {e}
<1>1. Append(seq, e) \in Seq(S)
  BY AppendProperties
<1>2. DOMAIN seq = 1..Len(seq) /\ DOMAIN Append(seq, e) = 1..Len(seq) + 1
  BY <1>1, AppendProperties, LenProperties
<1>3. \A i \in 1..Len(seq) : Append(seq, e)[i] = seq[i]
  BY AppendProperties
<1>4. Append(seq, e)[Len(seq) + 1] = e
  BY AppendProperties
<1>5. Len(seq) \in Nat
  BY LenProperties
<1>6. Range(Append(seq, e)) \subseteq Range(seq) \cup {e}
  <2>1. SUFFICES ASSUME NEW i \in 1..Len(seq) + 1
                 PROVE  Append(seq, e)[i] \in Range(seq) \cup {e}
    BY <1>2 DEF Range
  <2>2. i \in 1..Len(seq) \/ i = Len(seq) + 1
    BY <1>5
  <2>3. QED
    BY <2>2, <1>2, <1>3, <1>4 DEF Range
<1>7. Range(seq) \subseteq Range(Append(seq, e))
  <2>1. SUFFICES ASSUME NEW i \in 1..Len(seq)
                 PROVE  seq[i] \in Range(Append(seq, e))
    BY <1>2 DEF Range
  <2>2. i \in 1..Len(seq) + 1
    BY <1>5
  <2>3. QED
    BY <2>2, <1>2, <1>3 DEF Range
<1>8. e \in Range(Append(seq, e))
  <2>1. Len(seq) + 1 \in 1..Len(seq) + 1
    BY <1>5
  <2>2. QED
    BY <2>1, <1>2, <1>4 DEF Range
<1>9. QED
  BY <1>6, <1>7, <1>8

-----------------------------------------------------------------------------
(***************************************************************************)
(* The disjuncts of Next, one by one.                                      *)
(***************************************************************************)
\* A step is a step of one of the actions.
LEMMA NextCases ==
  ASSUME Next
  PROVE  \/ \E m \in Methods : Call(m)
         \/ Return
         \/ OpendirFails
         \/ Opendir
         \/ \E p \in Pids : Readdir(p)
         \/ ReaddirEnds
         \/ \E p \in Pids : ReadExe(p)
         \/ ExeEnds
         \/ \E p \in Pids : OpenStat(p)
         \/ \E p \in Pids : ReadStat(p)
         \/ \E p \in Pids : JudgeChild(p)
         \/ \E p \in Pids : JudgeMain(p)
         \/ \E p \in Pids : JudgeSecondMain(p)
         \/ NoMain
         \/ MainEnds
         \/ \E p \in Pids : AddChild(p)
         \/ ChildrenEnd
         \/ Order
         \/ World
BY DEF Next, Step, AllProcesses, UnorderedB2GProcesses, MainProcess,
       ChildProcesses

\* Each part of the type invariant depends on its own variables.
LEMMA TypeFrames ==
  ASSUME TypeOK
  PROVE  /\ UNCHANGED procVars => ProcTypeOK'
         /\ UNCHANGED listCaches => ListTypeOK'
         /\ UNCHANGED taskCaches => TaskTypeOK'
         /\ UNCHANGED control => ControlTypeOK'
         /\ UNCHANGED family => FamilyTypeOK'
         /\ UNCHANGED history => HistoryTypeOK'
<1>1. UNCHANGED procVars => ProcTypeOK'
  BY DEF TypeOK, ProcTypeOK, procVars
<1>2. UNCHANGED listCaches => ListTypeOK'
  BY DEF TypeOK, ListTypeOK, listCaches
<1>3. UNCHANGED taskCaches => TaskTypeOK'
  BY DEF TypeOK, TaskTypeOK, taskCaches
<1>4. UNCHANGED control => ControlTypeOK'
  BY DEF TypeOK, ControlTypeOK, control
<1>5. UNCHANGED family => FamilyTypeOK'
  BY DEF TypeOK, FamilyTypeOK, family
<1>6. UNCHANGED history => HistoryTypeOK'
  BY DEF TypeOK, HistoryTypeOK, history
<1>7. QED
  BY <1>1, <1>2, <1>3, <1>4, <1>5, <1>6

\* Unread is below every pid.
LEMMA UnreadType == Unread \in Unread..MaxPid /\ 0..MaxPid \subseteq Unread..MaxPid
BY ProcFSAssumption DEF Unread

\* What a method returns is a list of pids.
LEMMA ResultType ==
  ASSUME ListTypeOK, NEW m \in Methods
  PROVE  Result(m) \in Seq(Pids \cup {0})
<1> DEFINE S == Pids \cup {0}
<1>1. all \in Seq(S) /\ unordered \in Seq(S) /\ children \in Seq(S)
        /\ b2g \in Seq(S)
  <2>1. Pids \subseteq S
    OBVIOUS
  <2>2. QED
    BY <2>1, SeqMonotonic DEF ListTypeOK
<1>2. <<main>> \in Seq(S)
  BY DEF ListTypeOK
<1>3. QED
  BY <1>1, <1>2 DEF Result, Methods

\* A call starts in a loop; child_processes() and b2g_processes() start
\* theirs once the main process is known.
LEMMA EntryType ==
  ASSUME NEW m \in Methods
  PROVE  /\ Entry(m) \in Labels \ {"idle", "readdir", "exited"}
         /\ Entry(m) \in {"child", "b2g"} => main # 0
         /\ Entry(m) = "opendir" => all = <<>>
         /\ Entry(m) = "exe" => all # <<>> /\ unordered = <<>>
BY DEF Entry, Labels

\* Each action preserves the types.
LEMMA TypeStep ==
  ASSUME TypeOK, MainInv, Live(InitPid), [Next]_vars
  PROVE  TypeOK' /\ MainInv'
<1> USE TypeFrames DEF TypeOK
<1>1. ASSUME NEW m \in Methods, Call(m)
      PROVE  TypeOK' /\ MainInv'
  <2>1. ControlTypeOK'
    BY <1>1, EntryType DEF Call, ControlTypeOK
  <2>2. MainInv'
    BY <1>1, EntryType DEF Call, MainInv, listCaches
  <2>3. QED
    BY <1>1, <2>1, <2>2 DEF Call
<1>2. CASE Return
  <2>1. Result(call) \in Seq(Pids \cup {0})
    BY ResultType DEF ControlTypeOK
  <2>2. HistoryTypeOK'
    BY <1>2, <2>1 DEF Return, HistoryTypeOK, ControlTypeOK
  <2>3. ControlTypeOK' /\ MainInv'
    BY <1>2 DEF Return, ControlTypeOK, MainInv, Labels, Methods
  <2>4. QED
    BY <1>2, <2>2, <2>3 DEF Return
<1>3. ASSUME NEW reason \in {"opendir", "twoMains", "notFound"}, Die(reason)
      PROVE  TypeOK' /\ MainInv'
  <2>1. ControlTypeOK' /\ MainInv'
    BY <1>3 DEF Die, ControlTypeOK, MainInv, Labels
  <2>2. QED
    BY <1>3, <2>1 DEF Die
<1>4. CASE Opendir
  <2>1. ControlTypeOK' /\ MainInv'
    BY <1>4, ProcFSAssumption DEF Opendir, ControlTypeOK, MainInv, Labels
  <2>2. FamilyTypeOK'
    BY <1>4 DEF Opendir, FamilyTypeOK, Family, Roots
  <2>3. QED
    BY <1>4, <2>1, <2>2 DEF Opendir
<1>5. ASSUME NEW p \in Pids, Readdir(p)
      PROVE  TypeOK' /\ MainInv'
  <2>1. ListTypeOK'
    BY <1>5, AppendProperties DEF Readdir, ListTypeOK
  <2>2. ControlTypeOK' /\ MainInv'
    BY <1>5, ProcFSAssumption DEF Readdir, ControlTypeOK, MainInv, Pids
  <2>3. QED
    BY <1>5, <2>1, <2>2 DEF Readdir
<1>6. CASE ReaddirEnds
  <2>1. ControlTypeOK' /\ MainInv'
    BY <1>6 DEF ReaddirEnds, ControlTypeOK, MainInv, Labels
  <2>2. QED
    BY <1>6, <2>1 DEF ReaddirEnds
<1>7. ASSUME NEW p \in Pids, ReadExe(p)
      PROVE  TypeOK' /\ MainInv'
  <2>1. ListTypeOK'
    BY <1>7, AppendProperties DEF ReadExe, ListTypeOK
  <2>2. TaskTypeOK'
    <3>1. Readlink(p) \in Images \cup {""}
      BY DEF Readlink, Live
    <3>2. QED
      BY <1>7, <3>1 DEF ReadExe, ImageOf, TaskTypeOK
  <2>3. ControlTypeOK' /\ MainInv'
    BY <1>7 DEF ReadExe, ControlTypeOK, MainInv
  <2>4. QED
    BY <1>7, <2>1, <2>2, <2>3 DEF ReadExe
<1>8. CASE ExeEnds
  <2>1. ControlTypeOK' /\ MainInv'
    BY <1>8 DEF ExeEnds, ControlTypeOK, MainInv, Labels
  <2>2. HistoryTypeOK'
    BY <1>8 DEF ExeEnds, HistoryTypeOK
  <2>3. QED
    BY <1>8, <2>1, <2>2 DEF ExeEnds
<1>9. ASSUME NEW p \in Pids, OpenStat(p)
      PROVE  TypeOK' /\ MainInv'
  <2>1. TaskTypeOK'
    BY <1>9 DEF OpenStat, TaskTypeOK
  <2>2. ControlTypeOK' /\ MainInv'
    BY <1>9 DEF OpenStat, ControlTypeOK, MainInv
  <2>3. HistoryTypeOK'
    BY <1>9 DEF OpenStat, HistoryTypeOK
  <2>4. QED
    BY <1>9, <2>1, <2>2, <2>3 DEF OpenStat
<1>10. ASSUME NEW p \in Pids, ReadStat(p)
       PROVE  TypeOK' /\ MainInv'
  <2>1. PICK line \in Lines(p) :
          buf' = line /\ ppidOf' = [ppidOf EXCEPT ![p] = line]
    BY <1>10 DEF ReadStat
  <2>2. line \in Unread..MaxPid
    BY <2>1, UnreadType, ProcFSAssumption DEF Lines, ProcTypeOK, ControlTypeOK
  <2>3. TaskTypeOK'
    BY <1>10, <2>1, <2>2 DEF ReadStat, TaskTypeOK
  <2>4. ControlTypeOK' /\ MainInv'
    BY <1>10, <2>1, <2>2 DEF ReadStat, ControlTypeOK, MainInv
  <2>5. HistoryTypeOK'
    BY <1>10 DEF ReadStat, HistoryTypeOK
  <2>6. QED
    BY <1>10, <2>3, <2>4, <2>5 DEF ReadStat
<1>11. ASSUME NEW p \in Pids, JudgeChild(p)
       PROVE  TypeOK' /\ MainInv'
  <2>1. ControlTypeOK' /\ MainInv'
    BY <1>11 DEF JudgeChild, Judging, ControlTypeOK, MainInv
  <2>2. QED
    BY <1>11, <2>1 DEF JudgeChild
<1>12. ASSUME NEW p \in Pids, JudgeMain(p)
       PROVE  TypeOK' /\ MainInv'
  <2>1. ControlTypeOK' /\ MainInv'
    BY <1>12 DEF JudgeMain, Judging, ControlTypeOK, MainInv
  <2>2. ListTypeOK'
    BY <1>12 DEF JudgeMain, ListTypeOK
  <2>3. QED
    BY <1>12, <2>1, <2>2 DEF JudgeMain
<1>13. CASE MainEnds
  <2>1. ControlTypeOK' /\ MainInv'
    BY <1>13 DEF MainEnds, ControlTypeOK, MainInv, Labels, listCaches
  <2>2. QED
    BY <1>13, <2>1 DEF MainEnds
<1>14. ASSUME NEW p \in Pids, AddChild(p)
       PROVE  TypeOK' /\ MainInv'
  <2>1. ListTypeOK'
    BY <1>14, AppendProperties DEF AddChild, ListTypeOK
  <2>2. ControlTypeOK' /\ MainInv'
    BY <1>14 DEF AddChild, ControlTypeOK, MainInv
  <2>3. QED
    BY <1>14, <2>1, <2>2 DEF AddChild
<1>15. CASE ChildrenEnd
  <2>1. ListTypeOK'
    BY <1>15 DEF ChildrenEnd, ListTypeOK
  <2>2. ControlTypeOK' /\ MainInv'
    BY <1>15 DEF ChildrenEnd, ControlTypeOK, MainInv, Labels
  <2>3. QED
    BY <1>15, <2>1, <2>2 DEF ChildrenEnd
<1>16. CASE Order
  <2>1. <<main>> \o children \in Seq(Pids)
    <3>1. main \in Pids
      BY <1>16 DEF Order, ListTypeOK, MainInv
    <3>2. <<main>> \in Seq(Pids)
      BY <3>1
    <3>3. QED
      BY <3>2, ConcatProperties DEF ListTypeOK
  <2>2. ListTypeOK'
    BY <1>16, <2>1 DEF Order, ListTypeOK
  <2>3. ControlTypeOK' /\ MainInv'
    BY <1>16 DEF Order, ControlTypeOK, MainInv, Labels
  <2>4. QED
    BY <1>16, <2>2, <2>3 DEF Order
<1>17. CASE World
  <2>1. ProcTypeOK'
    BY <1>17, ProcStep DEF World
  <2>2. ControlTypeOK' /\ MainInv'
    BY <1>17 DEF World, ControlTypeOK, MainInv, listCaches
  <2>3. FamilyTypeOK'
    BY <1>17 DEF World, FamilyTypeOK, Family, Roots
  <2>4. QED
    BY <1>17, <2>1, <2>2, <2>3 DEF World
<1>18. CASE UNCHANGED vars
  BY <1>18 DEF vars, MainInv, control, listCaches
<1>19. QED
  BY NextCases, <1>1, <1>2, <1>3, <1>4, <1>5, <1>6, <1>7, <1>8, <1>9, <1>10,
     <1>11, <1>12, <1>13, <1>14, <1>15, <1>16, <1>17, <1>18
  DEF OpendirFails, JudgeSecondMain, NoMain

-----------------------------------------------------------------------------
(***************************************************************************)
(* The initial states.                                                     *)
(***************************************************************************)
\* Nothing has been read yet.
LEMMA InitInv ==
  ASSUME Init
  PROVE  Inv
<1>1. ProcTypeOK /\ Live(InitPid)
  BY ProcStart DEF Init
<1> MaxPid \in Nat \ {0}
  BY ProcFSAssumption
<1>2. ListTypeOK
  BY EmptySeq DEF Init, ListTypeOK
<1>3. TaskTypeOK
  BY UnreadType DEF Init, TaskTypeOK
<1>4. ControlTypeOK
  <2>1. /\ pc = "idle" /\ call = "all" /\ idx = 1 /\ cursor = 1
        /\ stat = "closed" /\ buf = Unread /\ fatal = "no"
    BY DEF Init
  <2>2. QED
    BY <2>1, UnreadType DEF ControlTypeOK, Labels, Methods
<1>5. FamilyTypeOK /\ HistoryTypeOK
  BY DEF Init, FamilyTypeOK, HistoryTypeOK, Family, Roots
<1>6. FamilyInv
  BY <1>1 DEF Init, FamilyInv
<1>7. ScanInv /\ ExeInv /\ LookInv /\ MainInv
  BY DEF Init, ScanInv, NothingFound, ExeInv, LookInv, MainInv
<1>8. QED
  BY <1>1, <1>2, <1>3, <1>4, <1>5, <1>6, <1>7 DEF Inv, TypeOK

-----------------------------------------------------------------------------
(***************************************************************************)
(* Each part of the invariant is preserved.                                *)
(***************************************************************************)
\* The history follows the family, and init lives.
LEMMA FamilyStep ==
  ASSUME Inv, [Next]_vars
  PROVE  FamilyInv'
<1>1. CASE Opendir
  BY <1>1 DEF Opendir, Inv, FamilyInv, procVars, Family, Live
<1>2. CASE World
  <2>1. Live(InitPid)'
    BY <1>2, ProcStep DEF World, Inv, TypeOK, FamilyInv
  <2>2. QED
    BY <1>2, <2>1 DEF World, Inv, FamilyInv
<1>3. CASE UNCHANGED <<procVars, family>>
  BY <1>3 DEF Inv, FamilyInv, procVars, family, Family, Live
<1>4. QED
  BY NextCases, <1>1, <1>2, <1>3
  DEF vars, Call, Return, OpendirFails, Die, Readdir, ReaddirEnds, ReadExe,
      ExeEnds, OpenStat, ReadStat, JudgeChild, JudgeMain, JudgeSecondMain,
      NoMain, MainEnds, AddChild, ChildrenEnd, Order

\* The steps that follow the scan: they leave the list as it is.
LEMMA ScanFrame ==
  ASSUME Inv, UNCHANGED all, steady' \subseteq steady,
         pc \notin {"opendir", "readdir"}, pc' \notin {"opendir", "readdir"},
         all # <<>>
  PROVE  ScanInv'
BY DEF Inv, ScanInv

\* The scan never loses a process that stays.
LEMMA ScanStep ==
  ASSUME Inv, [Next]_vars
  PROVE  ScanInv'
<1> USE DEF Inv
<1>1. ASSUME NEW m \in Methods, Call(m)
      PROVE  ScanInv'
  <2>1. Entry(m) # "opendir" => all # <<>>
    BY DEF Entry, Cached, ScanInv, NothingFound
  <2>2. QED
    BY <1>1, <2>1, EntryType
    DEF Call, ScanInv, NothingFound, listCaches, taskCaches, family, history
<1>2. CASE OpendirFails
  BY <1>2 DEF OpendirFails, Die, ScanInv, NothingFound, listCaches,
              taskCaches, family, history
<1>3. CASE Opendir
  <2>1. all' = <<>> /\ NothingFound'
    BY <1>3
    DEF Opendir, ScanInv, NothingFound, listCaches, taskCaches, history
  <2>2. \A p \in steady' : ~(p < cursor')
    BY <1>3, ProcFSAssumption DEF Opendir, Family, Pids
  <2>3. ~(cursor' > InitPid)
    BY <1>3 DEF Opendir, InitPid
  <2>4. QED
    BY <1>3, <2>1, <2>2, <2>3 DEF Opendir, ScanInv
<1>4. ASSUME NEW p \in Pids, Readdir(p)
      PROVE  ScanInv'
  <2>1. Range(all') = Range(all) \cup {p} /\ all' # <<>>
    BY <1>4, RangeAppend, AppendProperties DEF Readdir, TypeOK, ListTypeOK
  <2>2. ASSUME NEW q \in steady', q < cursor'
        PROVE  q \in Range(all')
    <3>1. q \in Pids /\ q \in steady /\ Exists(q)
      BY <1>4 DEF Readdir, family, FamilyInv, Family, Exists, B2GExes
    <3>2. q < cursor \/ q = p \/ (cursor <= q /\ q < p)
      BY <1>4, <2>2, <3>1, ProcFSAssumption
      DEF Readdir, Pids, TypeOK, ControlTypeOK
    <3>3. ~(cursor <= q /\ q < p)
      BY <1>4, <3>1 DEF Readdir
    <3>4. QED
      BY <1>4, <2>1, <3>1, <3>2, <3>3 DEF Readdir, ScanInv
  <2>3. QED
    BY <1>4, <2>1, <2>2 DEF Readdir, ScanInv, NothingFound, taskCaches, history
<1>5. CASE ReaddirEnds
  <2>1. cursor > InitPid
    <3>1. InitPid \in Pids /\ Exists(InitPid)
      BY ProcFSAssumption
      DEF FamilyInv, Live, Exists, Images, B2GExes, Pids, InitPid
    <3>2. QED
      BY <1>5, <3>1, ProcFSAssumption
      DEF ReaddirEnds, Pids, InitPid, TypeOK, ControlTypeOK
  <2>2. all # <<>>
    BY <1>5, <2>1 DEF ReaddirEnds, ScanInv
  <2>3. ASSUME NEW q \in steady
        PROVE  q \in Range(all)
    <3>1. q \in Pids /\ Exists(q)
      BY DEF FamilyInv, Family, Exists, B2GExes
    <3>2. q < cursor
      BY <1>5, <3>1, ProcFSAssumption
      DEF ReaddirEnds, Pids, TypeOK, ControlTypeOK
    <3>3. QED
      BY <1>5, <3>2 DEF ReaddirEnds, ScanInv
  <2>4. QED
    BY <1>5, <2>2, <2>3
    DEF ReaddirEnds, ScanInv, NothingFound, listCaches, taskCaches, family,
        history
<1>6. ASSUME NEW p \in Pids, ReadExe(p)
      PROVE  ScanInv'
  <2>1. all # <<>>
    BY <1>6 DEF ReadExe, ScanInv
  <2>2. QED
    BY <1>6, <2>1, ScanFrame DEF ReadExe, family
<1>7. CASE ExeEnds
  <2>1. all # <<>>
    BY <1>7 DEF ExeEnds, ScanInv
  <2>2. QED
    BY <1>7, <2>1, ScanFrame DEF ExeEnds, listCaches, family
<1>8. CASE World
  BY <1>8 DEF World, ScanInv, NothingFound, listCaches, taskCaches, history
<1>9. CASE UNCHANGED vars
  BY <1>9 DEF vars, ScanInv, NothingFound, listCaches, taskCaches, control,
              family, history
<1>10. CASE /\ pc \in {"main", "child", "b2g", "return"}
            /\ pc' \notin {"opendir", "readdir"}
            /\ UNCHANGED <<all, steady>>
  BY <1>10, ScanFrame DEF ScanInv
<1>11. ASSUME NEW p \in Pids,
              \/ OpenStat(p) \/ ReadStat(p) \/ JudgeChild(p) \/ JudgeMain(p)
              \/ JudgeSecondMain(p) \/ AddChild(p)
       PROVE  ScanInv'
  BY <1>10, <1>11
  DEF OpenStat, ReadStat, JudgeChild, JudgeMain, JudgeSecondMain, Judging,
      Die, AddChild, listCaches, taskCaches, family, history
<1>12. CASE NoMain \/ MainEnds \/ ChildrenEnd \/ Order \/ Return
  BY <1>10, <1>12
  DEF NoMain, Die, MainEnds, ChildrenEnd, Order, Return, listCaches,
      taskCaches, family, history
<1>13. QED
  BY NextCases, <1>1, <1>2, <1>3, <1>4, <1>5, <1>6, <1>7, <1>8, <1>9, <1>11,
     <1>12

\* Every cached image is an image its process had.
LEMMA ExeStep ==
  ASSUME Inv, [Next]_vars
  PROVE  ExeInv'
<1> USE DEF Inv
<1>1. CASE Opendir
  BY <1>1 DEF Opendir, ScanInv, NothingFound, ExeInv, taskCaches
<1>2. ASSUME NEW p \in Pids, ReadExe(p)
      PROVE  ExeInv'
  <2>1. /\ exeOf \in [Pids -> Images \cup {""}]
        /\ "" \notin B2GExes
    BY DEF TypeOK, TaskTypeOK, B2GExes
  <2>2. ASSUME p \notin gotExe
        PROVE  /\ IsRoot /\ p \in steady => Readlink(p) \in B2GExes
               /\ Readlink(p) \in B2GExes => p \in seen
    BY DEF Readlink, Live, Images, B2GExes, FamilyInv, Family
  <2>3. /\ IsRoot /\ p \in steady => exeOf'[p] \in B2GExes
        /\ exeOf'[p] \in B2GExes => p \in seen
    BY <1>2, <2>1, <2>2 DEF ReadExe, ImageOf, ExeInv
  <2>4. ASSUME NEW q \in gotExe, q # p
        PROVE  exeOf'[q] = exeOf[q]
    BY <1>2, <2>1, <2>4 DEF ReadExe, TypeOK, TaskTypeOK
  <2>5. QED
    BY <1>2, <2>3, <2>4 DEF ReadExe, ExeInv, family
<1>3. CASE World
  BY <1>3 DEF World, ExeInv, taskCaches
<1>4. CASE UNCHANGED <<gotExe, exeOf, family>>
  BY <1>4 DEF ExeInv, family
<1>5. QED
  BY NextCases, <1>1, <1>2, <1>3, <1>4
  DEF vars, Call, Return, OpendirFails, Die, Readdir, ReaddirEnds, ExeEnds,
      OpenStat, ReadStat, JudgeChild, JudgeMain, JudgeSecondMain, NoMain,
      MainEnds, AddChild, ChildrenEnd, Order, taskCaches

\* The list of B2G processes is what the cached images say.
LEMMA LookStep ==
  ASSUME Inv, [Next]_vars
  PROVE  LookInv'
<1> USE DEF Inv
<1>1. CASE UNCHANGED <<all, unordered, exeOf, gotExe, looked>>
           /\ (pc' = "exe" => pc = "exe" /\ idx' = idx)
  BY <1>1 DEF LookInv, Read, Found
<1>2. CASE /\ UNCHANGED <<unordered, exeOf, gotExe, looked, all>>
           /\ pc' = "exe" /\ unordered = <<>> /\ idx' = 1
  <2>1. Found(1) = {} /\ Read(1)
    BY DEF Found, Read
  <2>2. Range(unordered) = {}
    BY <1>2 DEF Range
  <2>3. QED
    BY <1>2, <2>1, <2>2 DEF LookInv, Found, Read
<1>3. ASSUME NEW m \in Methods, Call(m)
      PROVE  LookInv'
  BY <1>1, <1>2, <1>3, EntryType
  DEF Call, listCaches, taskCaches, history
<1>4. CASE Opendir
  BY <1>1, <1>4 DEF Opendir, listCaches, taskCaches, history
<1>5. ASSUME NEW p \in Pids, Readdir(p)
      PROVE  LookInv'
  BY <1>5 DEF Readdir, LookInv, ScanInv, NothingFound, history
<1>6. CASE ReaddirEnds
  BY <1>1, <1>2, <1>6
  DEF ReaddirEnds, ScanInv, NothingFound, listCaches, taskCaches, history
<1>7. ASSUME NEW p \in Pids, ReadExe(p)
      PROVE  LookInv'
  <2> DEFINE image == IF p \in gotExe THEN exeOf[p] ELSE Readlink(p)
  <2>1. /\ pc = "exe" /\ pc' = "exe" /\ idx \in 1..Len(all) /\ p = all[idx]
        /\ gotExe' = gotExe \cup {p}
        /\ exeOf' = [exeOf EXCEPT ![p] = image]
        /\ unordered' = IF image \in B2GExes THEN Append(unordered, p)
                                             ELSE unordered
        /\ idx' = idx + 1 /\ all' = all /\ looked' = looked
    BY <1>7, LenProperties
    DEF ReadExe, ImageOf, IsB2GImage, history, TypeOK, ListTypeOK,
        ControlTypeOK
  <2>2. Len(all) \in Nat /\ idx \in Nat
    BY <2>1, LenProperties DEF TypeOK, ListTypeOK
  <2>3. /\ exeOf'[p] = image
        /\ \A q \in Pids : q # p \/ q \in gotExe => exeOf'[q] = exeOf[q]
    BY <2>1 DEF TypeOK, TaskTypeOK
  <2>4. Range(unordered') =
          IF image \in B2GExes THEN Range(unordered) \cup {p}
                               ELSE Range(unordered)
    <3>1. Range(Append(unordered, p)) = Range(unordered) \cup {p}
      BY RangeAppend DEF TypeOK, ListTypeOK
    <3>2. QED
      BY <2>1, <3>1
  <2>5. Read(idx) /\ Range(unordered) = Found(idx)
    BY <2>1 DEF LookInv
  <2>6. Read(idx)'
    <3>1. ASSUME NEW i \in 1..Len(all), i < idx + 1
          PROVE  all[i] \in gotExe \cup {p}
      <4>1. i < idx \/ i = idx
        BY <2>2, <3>1
      <4>2. QED
        BY <2>1, <2>5, <4>1 DEF Read
    <3>2. QED
      BY <2>1, <3>1 DEF Read
  <2>7. Found(idx)' = IF image \in B2GExes THEN Found(idx) \cup {p}
                                               ELSE Found(idx)
    <3>1. ASSUME NEW q \in Pids, q # p
          PROVE  q \in Found(idx)' <=> q \in Found(idx)
      <4>1. /\ q \in Found(idx) =>
                 /\ exeOf[q] \in B2GExes /\ q \in gotExe
                 /\ \E i \in 1..Len(all) : i < idx + 1 /\ all[i] = q
        BY <2>2, <2>5 DEF Found, Read
      <4>2. ASSUME NEW i \in 1..Len(all), i < idx + 1, all[i] = q
            PROVE  i < idx
        BY <2>1, <2>2, <3>1, <4>2
      <4>3. exeOf'[q] = exeOf[q]
        BY <2>3, <3>1
      <4>4. QED
        BY <2>1, <3>1, <4>1, <4>2, <4>3 DEF Found
    <3>2. p \in Found(idx)' <=> image \in B2GExes
      BY <2>1, <2>2, <2>3 DEF Found
    <3>3. p \in Found(idx) => image \in B2GExes
      <4>1. SUFFICES ASSUME p \in Found(idx)
                     PROVE  image \in B2GExes
        OBVIOUS
      <4>2. exeOf[p] \in B2GExes /\ p \in gotExe
        BY <4>1, <2>5 DEF Found, Read
      <4>3. QED
        BY <4>2
    <3>4. Found(idx)' \subseteq Pids /\ Found(idx) \subseteq Pids
      BY DEF Found
    <3>5. QED
      BY <3>1, <3>2, <3>3, <3>4
  <2>8. ASSUME looked
        PROVE  /\ Read(Len(all) + 1)'
               /\ Range(unordered') = Found(Len(all) + 1)'
    <3>1. Read(Len(all) + 1) /\ Range(unordered) = Found(Len(all) + 1)
      BY <2>8 DEF LookInv
    <3>2. p \in gotExe /\ exeOf' = exeOf
      <4>1. p \in gotExe
        BY <2>1, <2>2, <3>1 DEF Read
      <4>2. QED
        BY <2>1, <4>1 DEF TypeOK, TaskTypeOK
    <3>3. gotExe' = gotExe
      BY <2>1, <3>2
    <3>4. image \in B2GExes => p \in Found(Len(all) + 1)
      BY <2>1, <2>2, <3>2 DEF Found
    <3>5. QED
      BY <2>1, <2>4, <3>1, <3>2, <3>3, <3>4 DEF Found, Read
  <2>9. QED
    <3>1. Range(unordered') = Found(idx)'
      BY <2>4, <2>5, <2>7
    <3>2. QED
      BY <2>1, <2>6, <2>8, <3>1 DEF LookInv
<1>8. CASE ExeEnds
  <2>1. /\ pc = "exe" /\ idx > Len(all) /\ pc' # "exe" /\ looked'
        /\ UNCHANGED <<all, unordered, gotExe, exeOf>>
    BY <1>8 DEF ExeEnds, listCaches, taskCaches
  <2>2. Len(all) \in Nat /\ idx \in Nat
    BY LenProperties DEF TypeOK, ListTypeOK, ControlTypeOK
  <2>3. Read(idx) => Read(Len(all) + 1)
    BY <2>1, <2>2 DEF Read
  <2>4. Found(idx) = Found(Len(all) + 1)
    BY <2>1, <2>2 DEF Found
  <2>5. QED
    BY <2>1, <2>3, <2>4 DEF LookInv, Read, Found
<1>9. CASE World
  BY <1>1, <1>9 DEF World, listCaches, taskCaches, history
<1>10. ASSUME NEW p \in Pids,
              \/ OpenStat(p) \/ ReadStat(p) \/ JudgeChild(p) \/ JudgeMain(p)
              \/ JudgeSecondMain(p) \/ AddChild(p)
       PROVE  LookInv'
  BY <1>1, <1>10
  DEF OpenStat, ReadStat, JudgeChild, JudgeMain, JudgeSecondMain, Judging,
      Die, AddChild, listCaches, taskCaches, history
<1>11. CASE OpendirFails \/ NoMain \/ MainEnds \/ ChildrenEnd \/ Order \/ Return
  BY <1>1, <1>11
  DEF OpendirFails, NoMain, Die, MainEnds, ChildrenEnd, Order, Return,
      listCaches, taskCaches, history
<1>12. CASE UNCHANGED vars
  BY <1>1, <1>12 DEF vars, listCaches, taskCaches, control, history
<1>13. QED
  BY NextCases, <1>3, <1>4, <1>5, <1>6, <1>7, <1>8, <1>9, <1>10, <1>11, <1>12

-----------------------------------------------------------------------------
(***************************************************************************)
(* The theorems.                                                           *)
(***************************************************************************)
\* The invariant holds at every step of every behaviour.
LEMMA Invariance == Spec => []Inv
<1>1. Init => Inv
  BY InitInv
<1>2. Inv /\ [Next]_vars => Inv'
  BY TypeStep, FamilyStep, ScanStep, ExeStep, LookStep DEF Inv, FamilyInv
<1>3. QED
  BY <1>1, <1>2, PTL DEF Spec

\* Every variable keeps its type: no cache ever holds anything but pids and
\* images, the main process is known before the lists that need it are built.
THEOREM TypeCorrect == Spec => []TypeOK
<1>1. Inv => TypeOK
  BY DEF Inv
<1>2. QED
  BY <1>1, Invariance, PTL

\* What has been read and found suffices for the answer to be regular.
LEMMA InvListed == Inv => ListedRegular
<1>1. SUFFICES ASSUME Inv, looked
               PROVE  /\ IsRoot => steady \subseteq Range(unordered)
                      /\ Range(unordered) \subseteq seen
  BY DEF ListedRegular
<1>2. Read(Len(all) + 1) /\ Range(unordered) = Found(Len(all) + 1)
  BY <1>1 DEF Inv, LookInv
<1>3. Len(all) \in Nat /\ Range(all) = {all[i] : i \in 1..Len(all)}
  BY <1>1, LenProperties, RangeEquality DEF Inv, TypeOK, ListTypeOK
<1>4. ASSUME NEW p \in steady, IsRoot
      PROVE  p \in Found(Len(all) + 1)
  <2>1. p \in Pids /\ p \in Range(all)
    BY <1>1 DEF Inv, ScanInv, NothingFound, TypeOK, FamilyTypeOK
  <2>2. PICK i \in 1..Len(all) : all[i] = p
    BY <2>1, <1>3
  <2>3. i < Len(all) + 1
    BY <1>3
  <2>4. p \in gotExe
    BY <1>2, <2>2, <2>3 DEF Read
  <2>5. exeOf[p] \in B2GExes
    BY <1>1, <1>4, <2>4 DEF Inv, ExeInv
  <2>6. QED
    BY <2>1, <2>2, <2>3, <2>5 DEF Found
<1>5. ASSUME NEW p \in Found(Len(all) + 1)
      PROVE  p \in seen
  BY <1>1, <1>2 DEF Found, Read, Inv, ExeInv
<1>6. QED
  BY <1>2, <1>4, <1>5

\* A look-up that has ended reports whoever was a B2G process all through it
\* and no one who never was, for every process table and every interleaving
\* of the look-up with forks, execs and exits, pids reused or not.
THEOREM Regularity == Spec => []ListedRegular
  BY InvListed, Invariance, PTL

-----------------------------------------------------------------------------
\* Each step of the tool and of the world is a step of the regular list, or
\* leaves it alone.
LEMMA RegularStep ==
  ASSUME Inv, Inv', [Next]_vars
  PROVE  [Regular!Next]_(Regular!listVars)
<1> DEFINE must == IF IsRoot THEN steady ELSE {}
           answers == IF looked THEN {Range(unordered)} ELSE {}
<1>1. /\ steady \subseteq Pids /\ seen \subseteq Pids
      /\ steady' \subseteq Pids /\ seen' \subseteq Pids
  BY DEF Inv, TypeOK, FamilyTypeOK
<1>2. Range(unordered) \subseteq Pids /\ Range(unordered') \subseteq Pids
  BY RangeOfSeq DEF Inv, TypeOK, ListTypeOK
<1>3. CASE UNCHANGED <<family, answers>>
  BY <1>3 DEF family, Regular!listVars
<1>4. CASE Opendir
  <2>1. ~looked /\ looked' = looked
    BY <1>4 DEF Opendir, Inv, ScanInv, NothingFound, history
  <2>2. Regular!Begin
    BY <1>1, <2>1 DEF Regular!Begin
  <2>3. QED
    BY <2>2 DEF Regular!Next
<1>5. CASE World
  <2>1. steady' \subseteq steady /\ seen \subseteq seen'
    BY <1>5 DEF World
  <2>2. UNCHANGED answers
    BY <1>5 DEF World, listCaches, history
  <2>3. Regular!Drift
    BY <1>1, <2>1, <2>2 DEF Regular!Drift
  <2>4. QED
    BY <2>3 DEF Regular!Next
<1>6. CASE ExeEnds
  <2>1. looked' /\ UNCHANGED <<unordered, family>>
    BY <1>6 DEF ExeEnds, listCaches
  <2>2. CASE looked
    BY <1>3, <2>1, <2>2
  <2>3. CASE ~looked
    <3>1. must \subseteq Range(unordered) /\ Range(unordered) \subseteq seen
      <4>1. ListedRegular'
        <5>1. Inv' => ListedRegular'
          BY InvListed, PTL
        <5>2. QED
          BY <5>1
      <4>2. QED
        BY <2>1, <4>1 DEF ListedRegular, family
    <3>2. Regular!Decide
      BY <1>2, <2>1, <2>3, <3>1 DEF Regular!Decide, family
    <3>3. QED
      BY <3>2 DEF Regular!Next
  <2>4. QED
    BY <2>2, <2>3
<1>7. ASSUME NEW p \in Pids, Readdir(p)
      PROVE  UNCHANGED <<family, answers>>
  BY <1>7 DEF Readdir, history
<1>8. ASSUME NEW p \in Pids, ReadExe(p)
      PROVE  UNCHANGED <<family, answers>>
  <2>1. UNCHANGED <<family, looked, all>>
    BY <1>8 DEF ReadExe, history
  <2>2. ASSUME looked
        PROVE  Range(unordered)' = Range(unordered)
    <3>1. Range(unordered) = Found(Len(all) + 1)
      BY <2>2 DEF Inv, LookInv
    <3>2. Range(unordered)' = Found(Len(all) + 1)'
      BY <2>1, <2>2 DEF Inv, LookInv
    <3>3. Read(Len(all) + 1)
      BY <2>2 DEF Inv, LookInv
    <3>4. idx \in 1..Len(all) /\ idx < Len(all) + 1 /\ all[idx] = p
      BY <1>8, LenProperties
      DEF ReadExe, Inv, TypeOK, ListTypeOK, ControlTypeOK
    <3>5. p \in gotExe
      BY <3>3, <3>4 DEF Read
    <3>6. exeOf' = exeOf
      BY <1>8, <3>5 DEF ReadExe, ImageOf, Inv, TypeOK, TaskTypeOK
    <3>7. QED
      BY <2>1, <3>1, <3>2, <3>6 DEF Found
  <2>3. QED
    BY <2>1, <2>2
<1>9. ASSUME NEW p \in Pids,
              \/ OpenStat(p) \/ ReadStat(p) \/ JudgeChild(p) \/ JudgeMain(p)
              \/ JudgeSecondMain(p) \/ AddChild(p)
      PROVE  UNCHANGED <<family, looked, unordered>>
  BY <1>9
  DEF OpenStat, ReadStat, JudgeChild, JudgeMain, JudgeSecondMain, Die,
      AddChild, listCaches, history
<1>10. ASSUME \/ OpendirFails \/ ReaddirEnds \/ NoMain \/ MainEnds
              \/ ChildrenEnd \/ Order \/ Return \/ UNCHANGED vars
              \/ \E m \in Methods : Call(m)
       PROVE  UNCHANGED <<family, looked, unordered>>
  BY <1>10
  DEF OpendirFails, ReaddirEnds, NoMain, Die, MainEnds, ChildrenEnd, Order,
      Return, Call, vars, listCaches, history
<1>11. ASSUME UNCHANGED <<family, looked, unordered>>
       PROVE  UNCHANGED <<family, answers>>
  BY <1>11
<1>12. QED
  BY <1>11, NextCases, <1>3, <1>4, <1>5, <1>6, <1>7, <1>8, <1>9, <1>10

\* ProcessList implements RegularList: callers that only look at the reported
\* set need to know nothing of caches, lists and system calls.
THEOREM Refinement == Spec => RegularSpec
<1>1. Init => Regular!Init
  <2>1. ASSUME Init
        PROVE  Regular!Init
    BY <2>1 DEF Init, Regular!Init, Family
  <2>2. QED
    BY <2>1
<1>2. Inv /\ Inv' /\ [Next]_vars => [Regular!Next]_(Regular!listVars)
  BY RegularStep
<1>3. QED
  BY <1>1, <1>2, Invariance, PTL DEF Spec, RegularSpec, Regular!Spec

-----------------------------------------------------------------------------
(***************************************************************************)
(* What the calls return: the invariant.                                   *)
(***************************************************************************)
\* The call that runs a loop is one that needs it.
ChainInv ==
  /\ pc = "exe" => call # "all"
  /\ pc = "main" => call \in {"main", "child", "b2g"} /\ looked
  /\ pc = "child" => call \in {"child", "b2g"} /\ ~gotChildren
  /\ pc = "b2g" => call = "b2g" /\ gotChildren

\* The caches are filled one after the other, and each once; the list of B2G
\* processes is looked for again only as long as it is empty.
CacheInv ==
  /\ pc # "exe" /\ unordered # <<>> => looked
  /\ pc = "exe" /\ looked => unordered = <<>>
  /\ main # 0 => looked /\ main \in Range(unordered)
  /\ main = 0 \/ pc \in {"main", "exited"} => ~gotChildren
  /\ ~gotChildren => b2g = <<>>
  /\ ~gotChildren /\ pc # "child" => children = <<>>
  /\ b2g # <<>> => b2g = <<main>> \o children

\* The lists are in the order of /proc, so that no process is listed twice.
Rising(list) == \A i, j \in 1..Len(list) : i < j => list[i] < list[j]
Distinct(list) == \A i, j \in 1..Len(list) : i # j => list[i] # list[j]
RisingInv ==
  /\ Rising(all) /\ Rising(unordered)
  /\ pc = "readdir" => \A i \in 1..Len(all) : all[i] < cursor

\* The children are the B2G processes but one.
Walked(n) == {unordered[i] : i \in 1..n - 1}
ChildInv ==
  /\ pc = "child" =>
       /\ idx <= Len(unordered) + 1
       /\ Range(children) = Walked(idx) \ {main}
       /\ Len(children) = IF main \in Walked(idx) THEN idx - 2 ELSE idx - 1
  /\ gotChildren => /\ Range(children) = Range(unordered) \ {main}
                    /\ Len(children) = Len(unordered) - 1

\* Only the main process may have been judged without a stat line.
Judged(n) == \A i \in 1..Len(unordered) :
               i < n /\ unordered[i] # main => ppidOf[unordered[i]] # Unread
StatInv ==
  /\ pc = "main" => Judged(idx)
  /\ main # 0 /\ pc \notin {"main", "exited"} => Judged(Len(unordered) + 1)

\* What has been returned is what would be returned now.
Ready(m) ==
  /\ all # <<>> /\ pc # "readdir"
  /\ m # "all" => looked
  /\ m = "main" => main # 0 /\ pc # "main"
  /\ m = "child" => gotChildren
  /\ m = "b2g" => unordered = <<>> \/ (gotChildren /\ b2g # <<>>)
ReturnInv ==
  /\ pc = "return" => Ready(call)
  /\ \A m \in Methods : \A r \in returned[m] : Ready(m) /\ r = Result(m)

CallsInv == ChainInv /\ CacheInv /\ RisingInv /\ ChildInv /\ StatInv
              /\ ReturnInv

-----------------------------------------------------------------------------
\* Lists of processes, as sets of them.
LEMMA ListFacts ==
  ASSUME TypeOK
  PROVE  /\ Len(all) \in Nat /\ Len(unordered) \in Nat /\ Len(children) \in Nat
         /\ Range(unordered) = {unordered[i] : i \in 1..Len(unordered)}
         /\ Range(children) = {children[i] : i \in 1..Len(children)}
         /\ Range(<<>>) = {}
         /\ Range(unordered) \subseteq Pids
         /\ unordered = <<>> <=> Len(unordered) = 0
         /\ idx \in Nat \ {0}
<1>1. /\ all \in Seq(Pids) /\ unordered \in Seq(Pids) /\ children \in Seq(Pids)
      /\ idx \in Nat \ {0}
  BY DEF TypeOK, ListTypeOK, ControlTypeOK
<1>2. Len(all) \in Nat /\ Len(unordered) \in Nat /\ Len(children) \in Nat
  BY <1>1, LenProperties
<1>3. /\ Range(unordered) = {unordered[i] : i \in 1..Len(unordered)}
      /\ Range(children) = {children[i] : i \in 1..Len(children)}
  BY <1>1, RangeEquality
<1>4. Range(<<>>) = {}
  BY DEF Range
<1>5. Range(unordered) \subseteq Pids
  BY <1>1, RangeOfSeq
<1>6. unordered = <<>> <=> Len(unordered) = 0
  BY <1>1, EmptySeq
<1>7. QED
  BY <1>1, <1>2, <1>3, <1>4, <1>5, <1>6

\* While the images are being read, no main process is known; and a second
\* look finds what the first found: nothing.
LEMMA SecondLook ==
  ASSUME Inv, CacheInv, NEW p \in Pids, ReadExe(p)
  PROVE  /\ main = 0
         /\ looked => unordered' = unordered
<1>1. pc = "exe" /\ p = all[idx] /\ idx <= Len(all)
  BY DEF ReadExe
<1>2. main = 0
  BY <1>1, ListFacts DEF Inv, CacheInv
<1>3. ASSUME looked
      PROVE  unordered' = unordered
  <2>1. /\ Read(Len(all) + 1) /\ Range(unordered) = Found(Len(all) + 1)
        /\ unordered = <<>> /\ Range(unordered) = {}
    BY <1>1, <1>3, ListFacts DEF Inv, LookInv, CacheInv
  <2>2. idx \in 1..Len(all) /\ idx < Len(all) + 1
    BY <1>1, ListFacts DEF Inv
  <2>3. p \in gotExe
    BY <1>1, <2>1, <2>2 DEF Read
  <2>4. exeOf[p] \notin B2GExes
    BY <1>1, <2>1, <2>2 DEF Found
  <2>5. QED
    BY <2>3, <2>4 DEF ReadExe, ImageOf, IsB2GImage
<1>4. QED
  BY <1>2, <1>3

\* The chain of the methods.
LEMMA ChainStep ==
  ASSUME Inv, CacheInv, ChainInv, [Next]_vars
  PROVE  ChainInv'
<1>1. ASSUME NEW m \in Methods, Call(m)
      PROVE  ChainInv'
  <2>1. /\ pc = "idle" /\ call' = m /\ pc' = Entry(m)
        /\ UNCHANGED <<listCaches, looked>>
    BY <1>1 DEF Call, history
  <2>2. UNCHANGED <<all, unordered, main, gotChildren, b2g>>
    BY <2>1 DEF listCaches
  <2>3. /\ Entry(m) = "exe" => m # "all"
        /\ Entry(m) = "main" => m \in {"main", "child", "b2g"}
                                  /\ unordered # <<>>
        /\ Entry(m) = "child" => m \in {"child", "b2g"} /\ ~gotChildren
        /\ Entry(m) = "b2g" => m = "b2g" /\ gotChildren
    BY DEF Entry, Cached, Methods
  <2>4. QED
    BY <2>1, <2>2, <2>3 DEF ChainInv, CacheInv
<1>2. CASE ReaddirEnds
  BY <1>2 DEF ReaddirEnds, ChainInv
<1>3. CASE ExeEnds
  BY <1>3 DEF ExeEnds, ChainInv, Inv, TypeOK, ControlTypeOK, Methods
<1>4. CASE MainEnds
  <2>1. /\ pc = "main" /\ pc' = IF call = "main" THEN "return" ELSE "child"
        /\ UNCHANGED <<call, gotChildren>>
    BY <1>4 DEF MainEnds, listCaches
  <2>2. QED
    BY <2>1 DEF ChainInv, CacheInv
<1>5. CASE ChildrenEnd
  BY <1>5 DEF ChildrenEnd, ChainInv
<1>6. CASE OpendirFails \/ NoMain \/ Opendir \/ Order \/ Return
  BY <1>6 DEF OpendirFails, NoMain, Die, Opendir, Order, Return, ChainInv
<1>7. ASSUME NEW p \in Pids,
             \/ Readdir(p) \/ ReadExe(p) \/ OpenStat(p) \/ ReadStat(p)
             \/ JudgeChild(p) \/ JudgeMain(p) \/ AddChild(p)
      PROVE  ChainInv'
  <2>1. UNCHANGED <<pc, call, gotChildren, looked>>
    BY <1>7 DEF Readdir, ReadExe, OpenStat, ReadStat, JudgeChild, JudgeMain,
                AddChild, listCaches, history
  <2>2. QED
    BY <2>1 DEF ChainInv
<1>8. ASSUME NEW p \in Pids, JudgeSecondMain(p)
      PROVE  ChainInv'
  BY <1>8 DEF JudgeSecondMain, Die, ChainInv
<1>9. CASE World \/ UNCHANGED vars
  <2>1. UNCHANGED <<pc, call, gotChildren, looked>>
    BY <1>9 DEF World, vars, control, listCaches, history
  <2>2. QED
    BY <2>1 DEF ChainInv
<1>10. QED
  BY NextCases, <1>1, <1>2, <1>3, <1>4, <1>5, <1>6, <1>7, <1>8, <1>9

\* The order in which the caches are filled.
LEMMA CacheStep ==
  ASSUME Inv, ChainInv, CacheInv, [Next]_vars
  PROVE  CacheInv'
<1>1. ASSUME UNCHANGED <<unordered, main, gotChildren, children, b2g, looked>>,
             pc' = "exe" => unordered = <<>>,
             pc = "exe" => looked,
             pc' \in {"main", "exited"} => main = 0 \/ pc \in {"main", "exited"},
             pc = "child" => pc' = "child"
      PROVE  CacheInv'
  BY <1>1 DEF CacheInv
<1>2. ASSUME UNCHANGED <<pc, unordered, main, gotChildren, children, b2g, looked>>
      PROVE  CacheInv'
  BY <1>2 DEF CacheInv
<1>3. ASSUME NEW m \in Methods, Call(m)
      PROVE  CacheInv'
  <2>1. /\ pc = "idle" /\ pc' = Entry(m) /\ UNCHANGED looked
        /\ UNCHANGED <<unordered, main, gotChildren, children, b2g>>
    BY <1>3 DEF Call, listCaches, history
  <2>2. Entry(m) = "main" => main = 0
    BY DEF Entry
  <2>3. QED
    BY <1>1, <2>1, <2>2, EntryType
<1>4. CASE Return
  BY <1>1, <1>4 DEF Return, listCaches
<1>5. CASE OpendirFails
  BY <1>1, <1>5 DEF OpendirFails, Die, listCaches, history, Inv, ScanInv,
                    NothingFound
<1>6. CASE NoMain \/ \E p \in Pids : JudgeSecondMain(p)
  BY <1>1, <1>6 DEF NoMain, JudgeSecondMain, Judging, Die, listCaches, history
<1>7. CASE Opendir
  BY <1>1, <1>7 DEF Opendir, listCaches, history
<1>8. CASE ReaddirEnds
  <2>1. unordered = <<>> /\ pc = "readdir"
    BY <1>8 DEF ReaddirEnds, Inv, ScanInv, NothingFound
  <2>2. QED
    BY <1>1, <1>8, <2>1 DEF ReaddirEnds, listCaches, history
<1>9. ASSUME NEW p \in Pids, ReadExe(p)
      PROVE  CacheInv'
  <2>1. main = 0 /\ (looked => unordered' = unordered)
    BY <1>9, SecondLook
  <2>2. /\ pc = "exe" /\ pc' = "exe"
        /\ UNCHANGED <<main, gotChildren, children, b2g, looked>>
    BY <1>9 DEF ReadExe, history
  <2>3. QED
    BY <2>1, <2>2 DEF CacheInv
<1>10. CASE ExeEnds
  <2>1. main = 0
    BY <1>10, ListFacts DEF ExeEnds, Inv, CacheInv
  <2>2. /\ pc = "exe" /\ pc' \in {"return", "main"} /\ looked'
        /\ UNCHANGED <<unordered, main, gotChildren, children, b2g>>
    BY <1>10 DEF ExeEnds, listCaches
  <2>3. QED
    BY <2>1, <2>2 DEF CacheInv
<1>11. ASSUME NEW p \in Pids,
              Readdir(p) \/ OpenStat(p) \/ ReadStat(p) \/ JudgeChild(p)
       PROVE  CacheInv'
  BY <1>2, <1>11 DEF Readdir, OpenStat, ReadStat, JudgeChild, listCaches,
                     history
<1>12. ASSUME NEW p \in Pids, JudgeMain(p)
       PROVE  CacheInv'
  <2>1. /\ pc = "main" /\ pc' = "main" /\ main' = p /\ p \in Range(unordered)
        /\ UNCHANGED <<unordered, gotChildren, children, b2g, looked>>
    BY <1>12, ListFacts DEF JudgeMain, Judging, Inv, history
  <2>2. looked /\ ~gotChildren /\ b2g = <<>>
    BY <2>1 DEF ChainInv, CacheInv
  <2>3. QED
    BY <2>1, <2>2 DEF CacheInv
<1>13. CASE MainEnds
  BY <1>1, <1>13 DEF MainEnds, listCaches, history
<1>14. ASSUME NEW p \in Pids, AddChild(p)
       PROVE  CacheInv'
  <2>1. /\ pc = "child" /\ pc' = "child"
        /\ UNCHANGED <<unordered, main, gotChildren, b2g, looked>>
    BY <1>14 DEF AddChild, history
  <2>2. b2g = <<>>
    BY <2>1 DEF ChainInv, CacheInv
  <2>3. QED
    BY <2>1, <2>2 DEF CacheInv
<1>15. CASE ChildrenEnd
  <2>1. /\ pc = "child" /\ pc' \in {"return", "b2g"} /\ gotChildren' = TRUE
        /\ UNCHANGED <<unordered, main, children, b2g, looked>>
    BY <1>15 DEF ChildrenEnd, history
  <2>2. main # 0
    BY <2>1 DEF Inv, MainInv
  <2>3. QED
    BY <2>1, <2>2 DEF CacheInv
<1>16. CASE Order
  <2>1. /\ pc = "b2g" /\ pc' = "return" /\ b2g' = <<main>> \o children
        /\ UNCHANGED <<unordered, main, gotChildren, children, looked>>
    BY <1>16 DEF Order, history
  <2>2. gotChildren
    BY <2>1 DEF ChainInv
  <2>3. QED
    BY <2>1, <2>2 DEF CacheInv
<1>17. CASE World \/ UNCHANGED vars
  BY <1>2, <1>17 DEF World, vars, listCaches, control, history
<1>18. QED
  BY NextCases, <1>3, <1>4, <1>5, <1>6, <1>7, <1>8, <1>9, <1>10, <1>11, <1>12,
     <1>13, <1>14, <1>15, <1>16, <1>17

\* A rising list stays so when it gets a greater element.
LEMMA RisingAppend ==
  ASSUME NEW list \in Seq(Pids), NEW e \in Pids, Rising(list),
         \A i \in 1..Len(list) : list[i] < e
  PROVE  Rising(Append(list, e))
<1> DEFINE longer == Append(list, e)
<1>1. /\ Len(list) \in Nat /\ Len(longer) = Len(list) + 1
      /\ longer[Len(list) + 1] = e
      /\ \A i \in 1..Len(list) : longer[i] = list[i]
  BY AppendProperties, LenProperties
<1>2. ASSUME NEW i \in 1..Len(longer), NEW j \in 1..Len(longer), i < j
      PROVE  longer[i] < longer[j]
  <2>1. /\ i \in 1..Len(list)
        /\ j \in 1..Len(list) \/ j = Len(list) + 1
    BY <1>1, <1>2
  <2>2. QED
    BY <1>1, <1>2, <2>1 DEF Rising
<1>3. QED
  BY <1>2 DEF Rising

\* A rising list has no element twice.
LEMMA RisingIsDistinct ==
  ASSUME NEW list \in Seq(Pids), Rising(list)
  PROVE  Distinct(list)
<1>1. Len(list) \in Nat /\ \A i \in 1..Len(list) : list[i] \in Pids
  BY ElementOfSeq, LenProperties
<1>2. \A p \in Pids : p \in Int
  BY DEF Pids
<1>3. ASSUME NEW i \in 1..Len(list), NEW j \in 1..Len(list), i # j
      PROVE  list[i] # list[j]
  <2>1. list[i] \in Int /\ list[j] \in Int
    BY <1>1, <1>2
  <2>2. i < j \/ j < i
    BY <1>1, <1>3
  <2>3. QED
    BY <2>1, <2>2 DEF Rising
<1>4. QED
  BY <1>3 DEF Distinct

\* readdir lists the pids in increasing order, and the look-up keeps it.
LEMMA RisingStep ==
  ASSUME Inv, CacheInv, RisingInv, [Next]_vars
  PROVE  RisingInv'
<1>1. ASSUME UNCHANGED <<all, unordered>>,
             pc' = "readdir" => pc = "readdir" /\ cursor' = cursor
      PROVE  RisingInv'
  BY <1>1 DEF RisingInv, Rising
<1>2. CASE Opendir
  <2>1. /\ UNCHANGED <<all, unordered>> /\ all = <<>> /\ Len(all) = 0
    BY <1>2 DEF Opendir, listCaches, Inv, ScanInv
  <2>2. QED
    BY <2>1 DEF RisingInv, Rising
<1>3. ASSUME NEW p \in Pids, Readdir(p)
      PROVE  RisingInv'
  <2>1. /\ pc = "readdir" /\ cursor <= p /\ all' = Append(all, p)
        /\ cursor' = p + 1 /\ unordered' = unordered
    BY <1>3 DEF Readdir
  <2>2. all \in Seq(Pids) /\ cursor \in Int /\ \A q \in Pids : q \in Int
    BY DEF Inv, TypeOK, ListTypeOK, ControlTypeOK, Pids
  <2>3. \A i \in 1..Len(all) : all[i] \in Pids /\ all[i] < cursor
    BY <2>1, <2>2, ElementOfSeq DEF RisingInv
  <2>4. \A i \in 1..Len(all) : all[i] < p
    BY <2>1, <2>2, <2>3
  <2>5. Rising(all')
    BY <2>1, <2>2, <2>4, RisingAppend DEF RisingInv
  <2>6. \A i \in 1..Len(all') : all'[i] < cursor'
    <3>1. /\ Len(all) \in Nat /\ Len(all') = Len(all) + 1
          /\ all'[Len(all) + 1] = p
          /\ \A i \in 1..Len(all) : all'[i] = all[i]
      BY <2>1, <2>2, AppendProperties, LenProperties
    <3>2. ASSUME NEW i \in 1..Len(all')
          PROVE  all'[i] \in Pids /\ (all'[i] < p \/ all'[i] = p)
      <4>1. i \in 1..Len(all) \/ i = Len(all) + 1
        BY <3>1
      <4>2. QED
        BY <2>3, <2>4, <3>1, <4>1
    <3>3. QED
      BY <2>1, <2>2, <3>2
  <2>7. QED
    BY <2>1, <2>5, <2>6 DEF RisingInv, Rising
<1>4. ASSUME NEW p \in Pids, ReadExe(p)
      PROVE  RisingInv'
  <2>1. /\ pc = "exe" /\ pc' = pc /\ all' = all /\ p = all[idx]
        /\ idx \in 1..Len(all)
        /\ unordered' = unordered \/ unordered' = Append(unordered, p)
    BY <1>4, ListFacts DEF ReadExe, Inv
  <2>2. CASE unordered' = unordered
    BY <1>1, <2>1, <2>2
  <2>3. CASE unordered' = Append(unordered, p)
    <3>1. ASSUME NEW j \in 1..Len(unordered)
          PROVE  unordered[j] < p
      <4>1. unordered[j] \in Range(unordered)
        BY <3>1, ListFacts DEF Inv
      <4>2. unordered[j] \in Found(idx)
        BY <2>1, <4>1 DEF Inv, LookInv
      <4>3. PICK i \in 1..Len(all) : i < idx /\ all[i] = unordered[j]
        BY <4>2 DEF Found
      <4>4. QED
        BY <2>1, <4>3 DEF RisingInv, Rising
    <3>2. unordered \in Seq(Pids)
      BY DEF Inv, TypeOK, ListTypeOK
    <3>3. Rising(unordered')
      BY <2>3, <3>1, <3>2, RisingAppend DEF RisingInv
    <3>4. QED
      BY <2>1, <3>3 DEF RisingInv, Rising
  <2>4. QED
    BY <2>1, <2>2, <2>3
<1>5. ASSUME NEW m \in Methods, Call(m)
      PROVE  RisingInv'
  BY <1>1, <1>5, EntryType DEF Call, listCaches
<1>6. ASSUME NEW p \in Pids,
             \/ OpenStat(p) \/ ReadStat(p) \/ JudgeChild(p) \/ JudgeMain(p)
             \/ JudgeSecondMain(p) \/ AddChild(p)
      PROVE  RisingInv'
  BY <1>1, <1>6 DEF OpenStat, ReadStat, JudgeChild, JudgeMain,
                    JudgeSecondMain, Die, AddChild, listCaches
<1>7. CASE \/ Return \/ OpendirFails \/ ReaddirEnds \/ ExeEnds \/ NoMain
           \/ MainEnds \/ ChildrenEnd \/ Order
  BY <1>1, <1>7 DEF Return, OpendirFails, Die, ReaddirEnds, ExeEnds, NoMain,
                    MainEnds, ChildrenEnd, Order, listCaches
<1>8. CASE World \/ UNCHANGED vars
  BY <1>1, <1>8 DEF World, vars, control, listCaches
<1>9. QED
  BY NextCases, <1>2, <1>3, <1>4, <1>5, <1>6, <1>7, <1>8

\* The children, counted and collected.
LEMMA ChildStep ==
  ASSUME Inv, ChainInv, CacheInv, RisingInv, ChildInv, [Next]_vars
  PROVE  ChildInv'
<1> /\ Len(unordered) \in Nat /\ idx \in Nat \ {0}
    /\ children \in Seq(Pids) /\ unordered \in Seq(Pids)
  BY ListFacts DEF Inv, TypeOK, ListTypeOK
<1>1. ASSUME UNCHANGED <<children, unordered, main>>,
             gotChildren' => gotChildren,
             pc' = "child" => pc = "child" /\ idx' = idx
      PROVE  ChildInv'
  BY <1>1 DEF ChildInv, Walked
<1>2. ASSUME UNCHANGED <<children, unordered, main>>,
             ~gotChildren', children = <<>>, idx' = 1
      PROVE  ChildInv'
  <2>1. Walked(idx)' = {} /\ Range(children') = {} /\ Len(children') = 0
    BY <1>2 DEF Walked, Range
  <2>2. QED
    BY <1>2, <2>1 DEF ChildInv
<1>3. ASSUME NEW m \in Methods, Call(m)
      PROVE  ChildInv'
  <2>1. /\ UNCHANGED <<children, unordered, main, gotChildren>>
        /\ pc = "idle" /\ idx' = 1 /\ pc' = Entry(m)
    BY <1>3 DEF Call, listCaches
  <2>2. pc' = "child" => ~gotChildren
    BY <2>1 DEF Entry
  <2>3. ~gotChildren => children = <<>>
    BY <2>1 DEF CacheInv
  <2>4. QED
    BY <1>1, <1>2, <2>1, <2>2, <2>3
<1>4. CASE MainEnds
  <2>1. /\ UNCHANGED <<children, unordered, main, gotChildren>>
        /\ pc = "main" /\ idx' = 1
    BY <1>4 DEF MainEnds, listCaches
  <2>2. QED
    BY <1>2, <2>1 DEF CacheInv
<1>5. ASSUME NEW p \in Pids, AddChild(p)
      PROVE  ChildInv'
  <2>1. /\ pc = "child" /\ pc' = "child" /\ idx <= Len(unordered)
        /\ p = unordered[idx] /\ idx' = idx + 1 /\ ~gotChildren'
        /\ UNCHANGED <<unordered, main>>
        /\ children' = IF p # main THEN Append(children, p) ELSE children
    BY <1>5 DEF AddChild, IsChild, ChainInv
  <2>2. Walked(idx)' = Walked(idx) \cup {p}
    <3>1. Walked(idx)' = {unordered[i] : i \in 1..idx}
      BY <2>1 DEF Walked
    <3>2. 1..idx = 1..(idx - 1) \cup {idx}
      OBVIOUS
    <3>3. QED
      BY <2>1, <3>1, <3>2 DEF Walked
  <2>3. p \notin Walked(idx)
    BY <2>1, RisingIsDistinct DEF Walked, RisingInv, Distinct
  <2>4. /\ Range(children) = Walked(idx) \ {main}
        /\ Len(children) = IF main \in Walked(idx) THEN idx - 2 ELSE idx - 1
    BY <2>1 DEF ChildInv
  <2>5. CASE p = main
    <3>1. children' = children
      BY <2>1, <2>5
    <3>2. Range(children)' = Walked(idx)' \ {main'}
      BY <2>1, <2>2, <2>4, <2>5, <3>1
    <3>3. main' \in Walked(idx)' /\ Len(children') = idx' - 2
      BY <2>1, <2>2, <2>3, <2>4, <2>5, <3>1
    <3>4. QED
      BY <2>1, <3>2, <3>3 DEF ChildInv
  <2>6. CASE p # main
    <3>1. /\ Range(children') = Range(children) \cup {p}
          /\ Len(children') = Len(children) + 1
      BY <2>1, <2>6, RangeAppend, AppendProperties
    <3>2. Range(children)' = Walked(idx)' \ {main'}
      BY <2>1, <2>2, <2>4, <2>6, <3>1
    <3>3. main' \in Walked(idx)' <=> main \in Walked(idx)
      BY <2>1, <2>2, <2>6
    <3>4. Len(children') = IF main' \in Walked(idx)' THEN idx' - 2 ELSE idx' - 1
      BY <2>1, <2>4, <3>1, <3>3
    <3>5. QED
      BY <2>1, <3>2, <3>4 DEF ChildInv
  <2>7. QED
    BY <2>5, <2>6
<1>6. CASE ChildrenEnd
  <2>1. /\ pc = "child" /\ pc' # "child" /\ idx > Len(unordered)
        /\ UNCHANGED <<children, unordered, main>>
    BY <1>6 DEF ChildrenEnd
  <2>2. idx = Len(unordered) + 1
    BY <2>1 DEF ChildInv
  <2>3. Walked(idx) = Range(unordered)
    BY <2>2, ListFacts DEF Walked, Inv
  <2>4. main \in Range(unordered)
    BY <2>1 DEF Inv, MainInv, CacheInv
  <2>5. QED
    BY <2>1, <2>2, <2>3, <2>4 DEF ChildInv
<1>7. ASSUME NEW p \in Pids, ReadExe(p)
      PROVE  ChildInv'
  <2>1. ~gotChildren' /\ pc' # "child"
    BY <1>7, SecondLook DEF ReadExe, CacheInv
  <2>2. QED
    BY <2>1 DEF ChildInv
<1>8. ASSUME NEW p \in Pids, JudgeMain(p)
      PROVE  ChildInv'
  <2>1. ~gotChildren' /\ pc' # "child"
    BY <1>8 DEF JudgeMain, Judging, CacheInv
  <2>2. QED
    BY <2>1 DEF ChildInv
<1>9. ASSUME NEW p \in Pids,
             \/ Readdir(p) \/ OpenStat(p) \/ ReadStat(p) \/ JudgeChild(p)
             \/ JudgeSecondMain(p)
      PROVE  ChildInv'
  BY <1>1, <1>9 DEF Readdir, OpenStat, ReadStat, JudgeChild, JudgeSecondMain,
                    Judging, Die, listCaches
<1>10. CASE \/ Return \/ OpendirFails \/ NoMain \/ Opendir \/ ReaddirEnds
            \/ ExeEnds \/ Order
  BY <1>1, <1>10 DEF Return, OpendirFails, Die, NoMain, Opendir, ReaddirEnds,
                     ExeEnds, Order, listCaches
<1>11. CASE World \/ UNCHANGED vars
  BY <1>1, <1>11 DEF World, vars, control, listCaches
<1>12. QED
  BY NextCases, <1>3, <1>4, <1>5, <1>6, <1>7, <1>8, <1>9, <1>10, <1>11

\* Whoever the loop goes past has had a stat line, or is the main process.
LEMMA StatStep ==
  ASSUME Inv, CacheInv, RisingInv, StatInv, [Next]_vars
  PROVE  StatInv'
<1> /\ unordered \in Seq(Pids) /\ Len(unordered) \in Nat
    /\ idx \in Nat \ {0}
    /\ \A i \in 1..Len(unordered) : unordered[i] \in Pids
  BY ListFacts, ElementOfSeq DEF Inv, TypeOK, ListTypeOK
<1>1. ASSUME UNCHANGED <<unordered, main, ppidOf>>,
             pc' = "main" => pc = "main" /\ idx' = idx,
             pc' \notin {"main", "exited"} => pc \notin {"main", "exited"}
      PROVE  StatInv'
  BY <1>1 DEF StatInv, Judged
<1>2. ASSUME UNCHANGED <<unordered, main, ppidOf>>,
             pc \notin {"main", "exited"}, idx' = 1
      PROVE  StatInv'
  <2>1. Judged(idx)'
    BY <1>2 DEF Judged
  <2>2. main' # 0 /\ pc' \notin {"main", "exited"} => Judged(Len(unordered) + 1)'
    BY <1>2 DEF StatInv, Judged
  <2>3. QED
    BY <2>1, <2>2 DEF StatInv
<1>3. ASSUME NEW m \in Methods, Call(m)
      PROVE  StatInv'
  BY <1>2, <1>3 DEF Call, listCaches, taskCaches
<1>4. CASE ExeEnds
  BY <1>2, <1>4 DEF ExeEnds, listCaches, taskCaches
<1>5. ASSUME NEW p \in Pids, ReadExe(p)
      PROVE  StatInv'
  <2>1. main' = 0 /\ pc' = "exe"
    BY <1>5, SecondLook DEF ReadExe
  <2>2. QED
    BY <2>1 DEF StatInv
<1>6. ASSUME NEW p \in Pids, ReadStat(p)
      PROVE  StatInv'
  <2>1. /\ pc = "main" /\ pc' = "main" /\ idx <= Len(unordered)
        /\ p = unordered[idx] /\ UNCHANGED <<unordered, main, idx>>
    BY <1>6 DEF ReadStat, listCaches
  <2>2. \A q \in Pids : q # p => ppidOf'[q] = ppidOf[q]
    BY <1>6 DEF ReadStat, Inv, TypeOK, TaskTypeOK
  <2>3. \A i \in 1..Len(unordered) : i < idx => unordered[i] # p
    <3>1. Distinct(unordered)
      BY RisingIsDistinct DEF RisingInv
    <3>2. QED
      BY <2>1, <3>1 DEF Distinct
  <2>4. Judged(idx)'
    BY <2>1, <2>2, <2>3 DEF StatInv, Judged
  <2>5. QED
    BY <2>1, <2>4 DEF StatInv
<1>7. ASSUME NEW p \in Pids, JudgeChild(p)
      PROVE  StatInv'
  <2>1. /\ pc = "main" /\ pc' = "main" /\ idx <= Len(unordered)
        /\ p = unordered[idx] /\ UNCHANGED <<unordered, main, ppidOf>>
        /\ idx' = idx + 1 /\ ppidOf[p] \in Range(unordered)
    BY <1>7 DEF JudgeChild, Judging, HasListedParent, listCaches, taskCaches
  <2>2. ppidOf[p] # Unread
    BY <2>1, ListFacts DEF Inv, Pids, Unread
  <2>3. \A i \in 1..Len(unordered) : i < idx + 1 => i < idx \/ i = idx
    OBVIOUS
  <2>4. Judged(idx)'
    BY <2>1, <2>2, <2>3 DEF StatInv, Judged
  <2>5. QED
    BY <2>1, <2>4 DEF StatInv
<1>8. ASSUME NEW p \in Pids, JudgeMain(p)
      PROVE  StatInv'
  <2>1. /\ pc = "main" /\ pc' = "main" /\ idx <= Len(unordered)
        /\ p = unordered[idx] /\ UNCHANGED <<unordered, ppidOf>>
        /\ idx' = idx + 1 /\ main = 0 /\ main' = p
    BY <1>8 DEF JudgeMain, Judging, taskCaches
  <2>2. \A i \in 1..Len(unordered) : i < idx + 1 => i < idx \/ i = idx
    OBVIOUS
  <2>3. \A i \in 1..Len(unordered) : unordered[i] # 0
    BY DEF Pids
  <2>4. Judged(idx)'
    BY <2>1, <2>2, <2>3 DEF StatInv, Judged
  <2>5. QED
    BY <2>1, <2>4 DEF StatInv
<1>9. CASE MainEnds
  <2>1. /\ pc = "main" /\ pc' # "main" /\ idx > Len(unordered)
        /\ UNCHANGED <<unordered, main, ppidOf>>
    BY <1>9 DEF MainEnds, listCaches, taskCaches
  <2>2. Judged(Len(unordered) + 1)'
    BY <2>1 DEF StatInv, Judged
  <2>3. QED
    BY <2>1, <2>2 DEF StatInv
<1>10. ASSUME NEW p \in Pids,
              \/ Readdir(p) \/ OpenStat(p) \/ AddChild(p)
              \/ JudgeSecondMain(p)
       PROVE  StatInv'
  BY <1>1, <1>10 DEF Readdir, OpenStat, AddChild, JudgeSecondMain, Die,
                     listCaches, taskCaches
<1>11. CASE \/ Return \/ OpendirFails \/ NoMain \/ Opendir \/ ReaddirEnds
            \/ ChildrenEnd \/ Order
  <2>1. UNCHANGED <<unordered, main, ppidOf>>
    BY <1>11 DEF Return, OpendirFails, Die, NoMain, Opendir, ReaddirEnds,
                 ChildrenEnd, Order, listCaches, taskCaches
  <2>2. /\ pc' # "main"
        /\ pc' \notin {"main", "exited"} => pc \notin {"main", "exited"}
    BY <1>11 DEF Return, OpendirFails, Die, NoMain, Opendir, ReaddirEnds,
                 ChildrenEnd, Order
  <2>3. QED
    BY <1>1, <2>1, <2>2
<1>12. CASE World \/ UNCHANGED vars
  BY <1>1, <1>12 DEF World, vars, control, listCaches, taskCaches
<1>13. QED
  BY NextCases, <1>3, <1>4, <1>5, <1>6, <1>7, <1>8, <1>9, <1>10, <1>11, <1>12

\* What a method has to return, once it may return it, stays what it is.
LEMMA ReadyStep ==
  ASSUME Inv, ChainInv, CacheInv, [Next]_vars,
         NEW m \in Methods, Ready(m)
  PROVE  Ready(m)' /\ Result(m)' = Result(m)
<1> USE DEF Methods
<1>1. ASSUME UNCHANGED listCaches, looked => looked',
             pc' = "readdir" => pc = "readdir",
             pc' = "main" => pc = "main" \/ main = 0
      PROVE  Ready(m)' /\ Result(m)' = Result(m)
  <2>1. UNCHANGED <<all, unordered, main, gotChildren, children, b2g>>
    BY <1>1 DEF listCaches
  <2>2. Ready(m)'
    BY <1>1, <2>1 DEF Ready
  <2>3. QED
    BY <2>1, <2>2 DEF Result
<1>2. ASSUME NEW n \in Methods, Call(n)
      PROVE  Ready(m)' /\ Result(m)' = Result(m)
  <2>1. pc' = Entry(n) /\ UNCHANGED listCaches /\ looked' = looked
    BY <1>2 DEF Call, history
  <2>2. Entry(n) # "readdir" /\ (Entry(n) = "main" => main = 0)
    BY DEF Entry
  <2>3. QED
    BY <1>1, <2>1, <2>2
<1>3. CASE Opendir \/ \E p \in Pids : Readdir(p)
  BY <1>3 DEF Opendir, Readdir, Ready, Inv, ScanInv
<1>4. ASSUME NEW p \in Pids, ReadExe(p)
      PROVE  Ready(m)' /\ Result(m)' = Result(m)
  <2>1. /\ pc' = pc
        /\ UNCHANGED <<all, main, gotChildren, children, b2g, looked>>
    BY <1>4 DEF ReadExe, history
  <2>2. m # "all" => unordered' = unordered
    BY <1>4, SecondLook DEF Ready
  <2>3. Ready(m)'
    BY <2>1, <2>2 DEF Ready
  <2>4. Result(m)' = Result(m)
    BY <2>1, <2>2 DEF Result
  <2>5. QED
    BY <2>3, <2>4
<1>5. CASE ExeEnds
  <2>1. main = 0
    BY <1>5, ListFacts DEF ExeEnds, Inv, CacheInv
  <2>2. QED
    BY <1>1, <1>5, <2>1 DEF ExeEnds
<1>6. ASSUME NEW p \in Pids, JudgeMain(p)
      PROVE  Ready(m)' /\ Result(m)' = Result(m)
  <2>1. /\ pc' = pc /\ main = 0
        /\ UNCHANGED <<all, unordered, gotChildren, children, b2g, looked>>
    BY <1>6 DEF JudgeMain, Judging, history
  <2>2. m # "main"
    BY <2>1 DEF Ready
  <2>3. Ready(m)'
    BY <2>1, <2>2 DEF Ready
  <2>4. QED
    BY <2>1, <2>2, <2>3 DEF Result
<1>7. ASSUME NEW p \in Pids, AddChild(p)
      PROVE  Ready(m)' /\ Result(m)' = Result(m)
  <2>1. /\ pc = "child" /\ pc' = pc
        /\ UNCHANGED <<all, unordered, main, gotChildren, b2g, looked>>
    BY <1>7 DEF AddChild, history
  <2>2. ~gotChildren
    BY <2>1 DEF ChainInv
  <2>3. m # "child"
    BY <2>2 DEF Ready
  <2>4. Ready(m)'
    BY <2>1, <2>3 DEF Ready
  <2>5. QED
    BY <2>1, <2>3, <2>4 DEF Result
<1>8. CASE ChildrenEnd
  <2>1. /\ pc' \in {"return", "b2g"} /\ gotChildren' = TRUE
        /\ UNCHANGED <<all, unordered, main, children, b2g, looked>>
    BY <1>8 DEF ChildrenEnd, history
  <2>2. Ready(m)'
    BY <2>1 DEF Ready
  <2>3. QED
    BY <2>1, <2>2 DEF Result
<1>9. CASE Order
  <2>1. /\ pc' = "return" /\ b2g' = <<main>> \o children
        /\ UNCHANGED <<all, unordered, main, gotChildren, children, looked>>
    BY <1>9 DEF Order, history
  <2>2. b2g # <<>> => b2g' = b2g
    BY <2>1 DEF CacheInv
  <2>3. Ready(m)'
    BY <2>1, <2>2 DEF Ready
  <2>4. m = "b2g" => unordered = <<>> \/ b2g' = b2g
    BY <2>2 DEF Ready
  <2>5. QED
    BY <2>1, <2>3, <2>4 DEF Result
<1>10. CASE \/ Return \/ OpendirFails \/ NoMain \/ ReaddirEnds \/ MainEnds
            \/ World \/ UNCHANGED vars
  BY <1>1, <1>10 DEF Return, OpendirFails, NoMain, Die, ReaddirEnds, MainEnds,
                     World, vars, control, history
<1>11. ASSUME NEW p \in Pids,
              \/ OpenStat(p) \/ ReadStat(p) \/ JudgeChild(p)
              \/ JudgeSecondMain(p)
       PROVE  Ready(m)' /\ Result(m)' = Result(m)
  BY <1>1, <1>11 DEF OpenStat, ReadStat, JudgeChild, JudgeSecondMain, Die,
                     history
<1>12. QED
  BY NextCases, <1>2, <1>3, <1>4, <1>5, <1>6, <1>7, <1>8, <1>9, <1>10, <1>11

\* A call that is about to return has something to return.
LEMMA ReturnStep ==
  ASSUME Inv, Inv', ChainInv, CacheInv, ReturnInv, [Next]_vars
  PROVE  ReturnInv'
<1>1. ASSUME NEW m \in Methods, NEW r \in returned'[m], returned' = returned
      PROVE  Ready(m)' /\ r = Result(m)'
  BY <1>1, ReadyStep DEF ReturnInv
<1>2. ASSUME returned' = returned, pc' = "return" => Ready(call)'
      PROVE  ReturnInv'
  BY <1>1, <1>2 DEF ReturnInv
<1>3. pc' = "return" => all' # <<>>
  BY DEF Inv, ScanInv
<1>4. main # 0 => looked
  BY DEF CacheInv
<1>5. gotChildren => main # 0
  BY DEF CacheInv
<1>6. ASSUME NEW m \in Methods, Call(m)
      PROVE  ReturnInv'
  <2>1. /\ pc = "idle" /\ pc' = Entry(m) /\ call' = m /\ returned' = returned
        /\ UNCHANGED <<all, unordered, main, gotChildren, b2g, looked>>
    BY <1>6 DEF Call, history, listCaches
  <2>2. Entry(m) = "return" => Cached(m)
    BY DEF Entry
  <2>3. Cached(m) => /\ m = "unordered" => looked
                     /\ m = "main" => main # 0
                     /\ m = "child" => gotChildren
                     /\ m = "b2g" => gotChildren /\ b2g # <<>>
    BY <2>1 DEF Cached, CacheInv
  <2>4. Cached(m) /\ m # "all" => looked
    BY <1>4, <1>5, <2>3 DEF Methods
  <2>5. pc' = "return" => Ready(call)'
    BY <1>3, <2>1, <2>2, <2>3, <2>4 DEF Ready
  <2>6. QED
    BY <1>2, <2>1, <2>5
<1>7. CASE Return
  <2>1. /\ pc = "return" /\ pc' = "idle"
        /\ returned' = [returned EXCEPT ![call] = @ \cup {Result(call)}]
    BY <1>7 DEF Return
  <2>2. \A m \in Methods : \A r \in returned'[m] :
           r \in returned[m] \/ (m = call /\ r = Result(m))
    BY <2>1 DEF Inv, TypeOK, HistoryTypeOK, ControlTypeOK
  <2>3. \A m \in Methods : \A r \in returned'[m] : Ready(m) /\ r = Result(m)
    BY <2>1, <2>2 DEF ReturnInv
  <2>4. ASSUME NEW m \in Methods, NEW r \in returned'[m]
        PROVE  Ready(m)' /\ r = Result(m)'
    BY <2>3, ReadyStep
  <2>5. QED
    BY <2>1, <2>4 DEF ReturnInv
<1>8. CASE ReaddirEnds
  <2>1. /\ pc' \in {"return", "exe"} /\ (pc' = "return" => call = "all")
        /\ call' = call /\ returned' = returned
    BY <1>8 DEF ReaddirEnds, history
  <2>2. QED
    BY <1>2, <1>3, <2>1 DEF Ready
<1>9. CASE ExeEnds
  <2>1. /\ looked' /\ UNCHANGED <<call, returned, unordered>>
        /\ pc' = "return" =>
             call = "unordered" \/ (call = "b2g" /\ unordered = <<>>)
        /\ pc' \in {"return", "main"}
    BY <1>9 DEF ExeEnds, listCaches
  <2>2. QED
    BY <1>2, <1>3, <2>1 DEF Ready
<1>10. CASE MainEnds
  <2>1. /\ pc = "main" /\ UNCHANGED <<call, returned, looked, main>>
        /\ main # 0 /\ pc' = IF call = "main" THEN "return" ELSE "child"
    BY <1>10 DEF MainEnds, history, listCaches
  <2>2. QED
    BY <1>2, <1>3, <1>4, <2>1 DEF Ready
<1>11. CASE ChildrenEnd
  <2>1. /\ pc = "child" /\ UNCHANGED <<call, returned, looked>>
        /\ gotChildren' /\ pc' = IF call = "child" THEN "return" ELSE "b2g"
    BY <1>11 DEF ChildrenEnd, history
  <2>2. main # 0
    BY <2>1 DEF Inv, MainInv
  <2>3. QED
    BY <1>2, <1>3, <1>4, <2>1, <2>2 DEF Ready
<1>12. CASE Order
  <2>1. /\ pc = "b2g" /\ pc' = "return" /\ b2g' = <<main>> \o children
        /\ UNCHANGED <<call, returned, looked, gotChildren>>
    BY <1>12 DEF Order, history
  <2>2. call = "b2g" /\ gotChildren /\ main # 0
    BY <2>1 DEF ChainInv, Inv, MainInv
  <2>3. b2g' # <<>>
    <3>1. <<main>> \in Seq(Pids) /\ children \in Seq(Pids)
      BY <2>2 DEF Inv, TypeOK, ListTypeOK
    <3>2. Len(b2g') = 1 + Len(children) /\ Len(children) \in Nat
      BY <2>1, <3>1, ConcatProperties, LenProperties
    <3>3. Len(b2g') # Len(<<>>)
      BY <3>2
    <3>4. QED
      BY <3>3
  <2>4. QED
    BY <1>2, <1>3, <1>4, <2>1, <2>2, <2>3 DEF Ready
<1>13. ASSUME NEW p \in Pids,
              \/ Readdir(p) \/ ReadExe(p) \/ OpenStat(p) \/ ReadStat(p)
              \/ JudgeChild(p) \/ JudgeMain(p) \/ AddChild(p)
              \/ JudgeSecondMain(p)
       PROVE  ReturnInv'
  <2>1. pc' # "return"
    BY <1>13 DEF Readdir, ReadExe, OpenStat, ReadStat, JudgeChild, JudgeMain,
                 Judging, JudgeSecondMain, Die, AddChild
  <2>2. returned' = returned
    BY <1>13 DEF Readdir, ReadExe, OpenStat, ReadStat, JudgeChild, JudgeMain,
                 JudgeSecondMain, Die, AddChild, history
  <2>3. QED
    BY <1>2, <2>1, <2>2
<1>14. CASE OpendirFails \/ NoMain \/ Opendir
  BY <1>2, <1>14 DEF OpendirFails, NoMain, Die, Opendir, history
<1>15. CASE World \/ UNCHANGED vars
  <2>1. UNCHANGED <<pc, call, returned>>
    BY <1>15 DEF World, vars, control, history
  <2>2. pc = "return" => call \in Methods /\ Ready(call)
    BY DEF ReturnInv, Inv, TypeOK, ControlTypeOK
  <2>3. pc' = "return" => Ready(call)'
    BY <1>15, <2>1, <2>2, ReadyStep DEF World, Ready, listCaches, history, vars,
       control
  <2>4. QED
    BY <1>2, <2>1, <2>3
<1>16. QED
  BY NextCases, <1>6, <1>7, <1>8, <1>9, <1>10, <1>11, <1>12, <1>13, <1>14,
     <1>15

-----------------------------------------------------------------------------
\* Nothing has been called yet.
LEMMA CallsStart ==
  ASSUME Init
  PROVE  CallsInv
<1>1. /\ pc = "idle" /\ ~looked /\ main = 0 /\ ~gotChildren
      /\ all = <<>> /\ unordered = <<>> /\ children = <<>> /\ b2g = <<>>
      /\ \A m \in Methods : returned[m] = {}
  BY DEF Init
<1>2. Len(all) = 0 /\ Len(unordered) = 0
  BY <1>1
<1>3. RisingInv
  BY <1>1, <1>2 DEF RisingInv, Rising
<1>4. ChainInv /\ CacheInv /\ ChildInv /\ StatInv /\ ReturnInv
  BY <1>1 DEF ChainInv, CacheInv, ChildInv, StatInv, ReturnInv
<1>5. QED
  BY <1>3, <1>4 DEF CallsInv

\* The caches and the calls stay in step.
LEMMA CallsInvariance == Spec => []CallsInv
<1>1. Init => CallsInv
  BY CallsStart
<1>2. Inv /\ Inv' /\ CallsInv /\ [Next]_vars => CallsInv'
  BY ChainStep, CacheStep, RisingStep, ChildStep, StatStep, ReturnStep
  DEF CallsInv
<1>3. QED
  BY <1>1, <1>2, Invariance, PTL DEF Spec

\* Putting one element before a list adds it to the range.
LEMMA RangePrepend ==
  ASSUME NEW S, NEW seq \in Seq(S), NEW e \in S
  PROVE  /\ Range(<<e>> \o seq) = {e} \cup Range(seq)
         /\ Len(<<e>> \o seq) = 1 + Len(seq)
<1> DEFINE longer == <<e>> \o seq
<1>1. /\ <<e>> \in Seq(S) /\ Len(<<e>>) = 1 /\ <<e>>[1] = e
      /\ Len(seq) \in Nat
  BY LenProperties
<1>2. /\ longer \in Seq(S) /\ Len(longer) = 1 + Len(seq)
      /\ \A i \in 1..Len(longer) :
           longer[i] = IF i <= 1 THEN <<e>>[i] ELSE seq[i - 1]
  BY <1>1, ConcatProperties
<1>3. Range(longer) = {longer[i] : i \in 1..Len(longer)}
  BY <1>2, RangeEquality
<1>4. Range(seq) = {seq[i] : i \in 1..Len(seq)}
  BY RangeEquality
<1>5. ASSUME NEW i \in 1..Len(longer)
      PROVE  longer[i] \in {e} \cup Range(seq)
  <2>1. i = 1 \/ i - 1 \in 1..Len(seq)
    BY <1>1, <1>2
  <2>2. QED
    BY <1>1, <1>2, <1>4, <2>1
<1>6. ASSUME NEW i \in 1..Len(seq)
      PROVE  i + 1 \in 1..Len(longer) /\ longer[i + 1] = seq[i]
  BY <1>1, <1>2
<1>7. 1 \in 1..Len(longer) /\ longer[1] = e
  BY <1>1, <1>2
<1>8. {e} \cup Range(seq) \subseteq Range(longer)
  BY <1>3, <1>4, <1>6, <1>7
<1>9. Range(longer) \subseteq {e} \cup Range(seq)
  BY <1>3, <1>5
<1>10. QED
  BY <1>2, <1>8, <1>9

\* What b2g_processes() returns is unordered_b2g_processes(), rearranged.
LEMMA B2GIsFamily ==
  ASSUME Inv, CallsInv, Ready("b2g")
  PROVE  /\ Range(Result("b2g")) = Range(unordered)
         /\ Len(Result("b2g")) = Len(unordered)
         /\ unordered # <<>> => /\ gotChildren
                                /\ Result("b2g") = <<main>> \o children
<1>1. Result("b2g") = IF unordered = <<>> THEN unordered ELSE b2g
  BY DEF Result
<1>2. CASE unordered = <<>>
  BY <1>1, <1>2
<1>3. CASE unordered # <<>>
  <2>1. gotChildren /\ b2g = <<main>> \o children
    BY <1>3 DEF Ready, CallsInv, CacheInv
  <2>2. /\ main \in Range(unordered) /\ main \in Pids
        /\ Range(children) = Range(unordered) \ {main}
        /\ Len(children) = Len(unordered) - 1
        /\ children \in Seq(Pids) /\ Len(unordered) \in Nat
    BY <2>1, ListFacts
    DEF CallsInv, CacheInv, ChildInv, Inv, TypeOK, ListTypeOK
  <2>3. /\ Range(b2g) = {main} \cup Range(children)
        /\ Len(b2g) = 1 + Len(children)
    BY <2>1, <2>2, RangePrepend
  <2>4. Result("b2g") = b2g
    BY <1>1, <1>3
  <2>5. Range(b2g) = Range(unordered)
    BY <2>2, <2>3
  <2>6. Len(b2g) = Len(unordered)
    BY <2>2, <2>3
  <2>7. QED
    BY <2>1, <2>4, <2>5, <2>6
<1>4. QED
  BY <1>2, <1>3

\* Every call of a method returns the same, and what the methods return fits
\* together, in whatever order they were called and whatever the processes
\* did in between (processlist.h:29-31, 54).
THEOREM CallsAgree == Spec => []ReturnsAgree
<1>1. Inv /\ CallsInv => ReturnsAgree
  <2>1. SUFFICES ASSUME Inv, CallsInv
                 PROVE  ReturnsAgree
    OBVIOUS
  <2>2. \A m \in Methods : \A r \in returned[m] : Ready(m) /\ r = Result(m)
    BY <2>1 DEF CallsInv, ReturnInv
  <2>3. ASSUME NEW m \in Methods
        PROVE  Cardinality(returned[m]) <= 1
    <3>1. returned[m] \in SUBSET {Result(m)}
      BY <2>2
    <3>2. IsFiniteSet({Result(m)}) /\ Cardinality({Result(m)}) = 1
      BY FS_Singleton
    <3>3. Cardinality(returned[m]) <= Cardinality({Result(m)})
      BY <3>1, <3>2, FS_Subset
    <3>4. QED
      BY <3>2, <3>3
  <2>4. ASSUME NEW b \in returned["b2g"]
        PROVE  /\ \A m \in returned["main"], c \in returned["child"] :
                    b = m \o c
               /\ \A u \in returned["unordered"] : /\ Range(b) = Range(u)
                                                   /\ Len(b) = Len(u)
    <3>1. b = Result("b2g") /\ Ready("b2g")
      BY <2>2, <2>4 DEF Methods
    <3>2. ASSUME NEW m \in returned["main"], NEW c \in returned["child"]
          PROVE  b = m \o c
      <4>1. /\ m = Result("main") /\ Ready("main")
            /\ c = Result("child")
        BY <2>2, <3>2 DEF Methods
      <4>2. m = <<main>> /\ c = children /\ main # 0
        BY <4>1 DEF Result, Ready
      <4>3. unordered # <<>>
        BY <2>1, <4>2, ListFacts DEF CallsInv, CacheInv, Inv
      <4>4. QED
        BY <2>1, <3>1, <4>2, <4>3, B2GIsFamily
    <3>3. ASSUME NEW u \in returned["unordered"]
          PROVE  Range(b) = Range(u) /\ Len(b) = Len(u)
      <4>1. u = unordered
        BY <2>2, <3>3 DEF Methods, Result
      <4>2. QED
        BY <2>1, <3>1, <4>1, B2GIsFamily
    <3>4. QED
      BY <3>2, <3>3
  <2>5. QED
    BY <2>3, <2>4 DEF ReturnsAgree
<1>2. QED
  BY <1>1, Invariance, CallsInvariance, PTL

-----------------------------------------------------------------------------
(***************************************************************************)
(* Why the main process is justified: the invariant.                       *)
(***************************************************************************)
\* ensure_got_stat() has ended for p.
Opened == stat \in {"open", "dead"}
HasRead(p) == p \in gotStat /\ ~(Opened /\ p = unordered[idx])

\* The stat lines are read in the order of the list, in one run of the loop:
\* before the first, the buffer holds nothing.
OpenInv ==
  /\ stat # "closed" => /\ pc = "main" /\ idx <= Len(unordered)
                        /\ unordered[idx] \in gotStat
  /\ stat = "open" => Exists(unordered[idx])
  /\ gotStat \subseteq Range(unordered)
  /\ \A p \in Pids \ gotStat : ppidOf[p] = Unread
  /\ main = 0 /\ pc \notin {"main", "exited"} => gotStat = {} /\ buf = Unread
  /\ pc = "main" =>
       /\ \A i \in 1..Len(unordered) : i < idx => unordered[i] \in gotStat
       /\ idx = 1 /\ unordered # <<>> /\ ~HasRead(unordered[1]) => buf = Unread
       /\ main # 0 => main \in Walked(idx)
  /\ fatal # "no" => pc = "exited"

\* Whose line could not be read has none, unless it has left the family.
GoneInv ==
  /\ misread \subseteq gotStat
  /\ Opened => unordered[idx] \notin misread
  /\ stat = "dead" => unordered[idx] \notin steady
  /\ \A p \in misread \cap steady : ppidOf[p] = Unread

\* Other users than root cannot read any link, and find nobody.
OthersInv == ~IsRoot => /\ unordered = <<>>
                        /\ \A p \in Pids : exeOf[p] = ""

\* Whoever stays in the family has a parent who stays, or has been a root.
KinInv ==
  /\ TreeInv /\ \A p \in Pids : Exists(p) => p <= lastPid
  /\ \A p \in steady : p \in rootsSeen \/ ppid[p] \in steady

\* So, by its stat line, it is a child of someone listed, or has been a root.
WitnessInv ==
  misread = {} =>
    /\ \A p \in steady : HasRead(p) =>
         p \in rootsSeen \/ ppidOf[p] \in Range(unordered)
    /\ main \in steady => main \in rootsSeen
    /\ fatal = "twoMains" /\ Range(unordered) \subseteq steady =>
         \E p, q \in rootsSeen : p # q

\* While the family stays as it is, a stat line says of a process, at any
\* time later, whether it is a root.
CalmInv ==
  Calm =>
    /\ \A p \in Pids : HasRead(p) =>
         p \in Family /\ (ppidOf[p] \in Family <=> p \notin Roots)
    /\ pc = "main" =>
         \A i \in 1..Len(unordered) :
           i < idx => (unordered[i] \in Roots <=> unordered[i] = main)
    /\ main # 0 /\ pc \notin {"main", "exited"} => Roots = {main}
    /\ fatal = "twoMains" => \E p, q \in Roots : p # q
    /\ fatal = "notFound" => Family = {}

\* Without reuse of pids, the first of the list has no parent in it.
FirstInv ==
  /\ ~reused /\ unordered # <<>> /\ HasRead(unordered[1]) =>
       ppidOf[unordered[1]] < unordered[1]
  /\ pc = "main" /\ main = 0 =>
       \A i \in 1..Len(unordered) : i < idx => HasListedParent(unordered[i])
  /\ fatal = "notFound" /\ ~reused /\ IsRoot => steady = {}

MainProcessInv == OpenInv /\ GoneInv /\ OthersInv /\ KinInv /\ WitnessInv
                    /\ CalmInv /\ FirstInv

-----------------------------------------------------------------------------
\* Which action changes what.
LEMMA Changes ==
  ASSUME [Next]_vars
  PROVE  /\ misread \subseteq misread'
         /\ UNCHANGED procVars \/ World
         /\ UNCHANGED family \/ World \/ Opendir
         /\ main' = main \/ \E p \in Pids : JudgeMain(p)
         /\ unordered' = unordered \/ \E p \in Pids : ReadExe(p)
         /\ \/ UNCHANGED <<gotStat, ppidOf>>
            \/ \E p \in Pids : OpenStat(p) \/ ReadStat(p)
         /\ \/ fatal' = fatal \/ OpendirFails \/ NoMain
            \/ \E p \in Pids : JudgeSecondMain(p)
         /\ pc = "exited" => World \/ UNCHANGED vars
         /\ pc = "main" /\ ~MainEnds => pc' \in {"main", "exited"}
<1>1. misread \subseteq misread'
  BY NextCases DEF Call, Return, OpendirFails, Die, Opendir, Readdir,
     ReaddirEnds, ReadExe, ExeEnds, OpenStat, ReadStat, JudgeChild, JudgeMain,
     JudgeSecondMain, NoMain, MainEnds, AddChild, ChildrenEnd, Order, World,
     vars, history
<1>2. UNCHANGED procVars \/ World
  BY NextCases DEF Call, Return, OpendirFails, Die, Opendir, Readdir,
     ReaddirEnds, ReadExe, ExeEnds, OpenStat, ReadStat, JudgeChild, JudgeMain,
     JudgeSecondMain, NoMain, MainEnds, AddChild, ChildrenEnd, Order, vars
<1>3. UNCHANGED family \/ World \/ Opendir
  BY NextCases DEF Call, Return, OpendirFails, Die, Readdir,
     ReaddirEnds, ReadExe, ExeEnds, OpenStat, ReadStat, JudgeChild, JudgeMain,
     JudgeSecondMain, NoMain, MainEnds, AddChild, ChildrenEnd, Order, vars
<1>4. main' = main \/ \E p \in Pids : JudgeMain(p)
  BY NextCases DEF Call, Return, OpendirFails, Die, Opendir, Readdir,
     ReaddirEnds, ReadExe, ExeEnds, OpenStat, ReadStat, JudgeChild,
     JudgeSecondMain, NoMain, MainEnds, AddChild, ChildrenEnd, Order, World,
     vars, listCaches
<1>5. unordered' = unordered \/ \E p \in Pids : ReadExe(p)
  BY NextCases DEF Call, Return, OpendirFails, Die, Opendir, Readdir,
     ReaddirEnds, ExeEnds, OpenStat, ReadStat, JudgeChild, JudgeMain,
     JudgeSecondMain, NoMain, MainEnds, AddChild, ChildrenEnd, Order, World,
     vars, listCaches
<1>6. \/ UNCHANGED <<gotStat, ppidOf>>
      \/ \E p \in Pids : OpenStat(p) \/ ReadStat(p)
  BY NextCases DEF Call, Return, OpendirFails, Die, Opendir, Readdir,
     ReaddirEnds, ReadExe, ExeEnds, JudgeChild, JudgeMain,
     JudgeSecondMain, NoMain, MainEnds, AddChild, ChildrenEnd, Order, World,
     vars, taskCaches
<1>7. \/ fatal' = fatal \/ OpendirFails \/ NoMain
      \/ \E p \in Pids : JudgeSecondMain(p)
  BY NextCases DEF Call, Return, Opendir, Readdir,
     ReaddirEnds, ReadExe, ExeEnds, OpenStat, ReadStat, JudgeChild, JudgeMain,
     MainEnds, AddChild, ChildrenEnd, Order, World, vars, control
<1>8. pc = "exited" => World \/ UNCHANGED vars
  BY NextCases DEF Call, Return, OpendirFails, Opendir, Readdir,
     ReaddirEnds, ReadExe, ExeEnds, OpenStat, ReadStat, JudgeChild, JudgeMain,
     Judging, JudgeSecondMain, NoMain, MainEnds, AddChild, ChildrenEnd, Order
<1>9. pc = "main" /\ ~MainEnds => pc' \in {"main", "exited"}
  BY NextCases DEF Call, Return, OpendirFails, Die, Opendir, Readdir,
     ReaddirEnds, ReadExe, ExeEnds, OpenStat, ReadStat, JudgeChild, JudgeMain,
     JudgeSecondMain, NoMain, AddChild, ChildrenEnd, Order, World,
     vars, control
<1>10. QED
  BY <1>1, <1>2, <1>3, <1>4, <1>5, <1>6, <1>7, <1>8, <1>9

\* Reading the stat lines.
LEMMA OpenStep ==
  ASSUME Inv, ChainInv, CacheInv, OpenInv, [Next]_vars
  PROVE  OpenInv'
<1> /\ Len(unordered) \in Nat /\ idx \in Nat \ {0}
    /\ unordered = <<>> <=> Len(unordered) = 0
  BY ListFacts DEF Inv
<1>1. pc # "main" => stat = "closed"
  BY DEF OpenInv
<1>2. ASSUME pc \notin {"main", "exited"}, pc' # "main",
             UNCHANGED <<unordered, gotStat, ppidOf, main, buf, stat>>,
             fatal' = fatal \/ pc' = "exited"
      PROVE  OpenInv'
  <2>1. stat = "closed" /\ fatal = "no"
    BY <1>2 DEF OpenInv
  <2>2. QED
    BY <1>2, <2>1 DEF OpenInv
<1>3. ASSUME pc \notin {"main", "exited"}, main = 0, idx' = 1,
             UNCHANGED <<unordered, gotStat, ppidOf, main, buf, stat, fatal>>
      PROVE  OpenInv'
  <2>1. stat = "closed" /\ fatal = "no" /\ gotStat = {} /\ buf = Unread
    BY <1>3 DEF OpenInv
  <2>2. QED
    BY <1>3, <2>1 DEF OpenInv
<1>4. ASSUME NEW m \in Methods, Call(m)
      PROVE  OpenInv'
  <2>1. /\ pc = "idle" /\ pc' = Entry(m) /\ idx' = 1
        /\ UNCHANGED <<unordered, gotStat, ppidOf, main, buf, stat, fatal>>
    BY <1>4 DEF Call, listCaches, taskCaches
  <2>2. Entry(m) = "main" => main = 0
    BY DEF Entry
  <2>3. QED
    BY <1>2, <1>3, <2>1, <2>2
<1>5. CASE ExeEnds
  <2>1. main = 0
    BY <1>5, ListFacts DEF ExeEnds, Inv, CacheInv
  <2>2. QED
    BY <1>3, <1>5, <2>1 DEF ExeEnds, listCaches, taskCaches
<1>6. ASSUME NEW p \in Pids, ReadExe(p)
      PROVE  OpenInv'
  <2>1. main = 0 /\ main' = 0 /\ pc = "exe" /\ pc' = "exe"
        /\ UNCHANGED <<gotStat, ppidOf, buf, stat, fatal>>
    BY <1>6, SecondLook DEF ReadExe
  <2>2. stat = "closed" /\ gotStat = {} /\ fatal = "no" /\ buf = Unread
    BY <2>1 DEF OpenInv
  <2>3. QED
    BY <2>1, <2>2 DEF OpenInv
<1>7. ASSUME NEW p \in Pids, OpenStat(p)
      PROVE  OpenInv'
  <2>1. /\ pc = "main" /\ pc' = "main" /\ idx <= Len(unordered)
        /\ p = unordered[idx] /\ stat = "closed" /\ gotStat' = gotStat \cup {p}
        /\ stat' \in {"open", "read"}
        /\ (stat' = "open" => Exists(p) /\ p \notin gotStat)
        /\ UNCHANGED <<exe, unordered, main, idx, buf, fatal, ppidOf>>
    BY <1>7 DEF OpenStat, listCaches, procVars
  <2>2. Range(unordered) = {unordered[i] : i \in 1..Len(unordered)}
    BY ListFacts DEF Inv
  <2>3. gotStat' \subseteq Range(unordered)
    BY <2>1, <2>2 DEF OpenInv
  <2>4. idx = 1 /\ unordered # <<>> /\ ~HasRead(unordered[1])' => buf = Unread
    BY <2>1 DEF OpenInv, HasRead, Opened
  <2>5. /\ stat' = "open" => Exists(unordered[idx])'
        /\ \A i \in 1..Len(unordered) : i < idx => unordered[i] \in gotStat'
        /\ \A q \in Pids \ gotStat' : ppidOf[q] = Unread
        /\ main # 0 => main \in Walked(idx)
        /\ fatal = "no"
    BY <2>1 DEF OpenInv, Exists
  <2>6. QED
    BY <2>1, <2>3, <2>4, <2>5 DEF OpenInv, Walked
<1>8. ASSUME NEW p \in Pids, ReadStat(p)
      PROVE  OpenInv'
  <2>1. /\ pc = "main" /\ pc' = "main" /\ idx <= Len(unordered)
        /\ p = unordered[idx] /\ stat # "closed" /\ stat' = "read"
        /\ UNCHANGED <<unordered, main, idx, gotStat, fatal>>
    BY <1>8 DEF ReadStat, listCaches
  <2>2. p \in gotStat /\ fatal = "no"
    BY <2>1 DEF OpenInv
  <2>3. \A q \in Pids : q # p => ppidOf'[q] = ppidOf[q]
    BY <1>8 DEF ReadStat, Inv, TypeOK, TaskTypeOK
  <2>4. \A q \in Pids \ gotStat' : ppidOf'[q] = Unread
    BY <2>1, <2>2, <2>3 DEF OpenInv
  <2>5. idx = 1 => HasRead(unordered[1])'
    BY <2>1, <2>2 DEF HasRead, Opened
  <2>6. QED
    BY <2>1, <2>2, <2>4, <2>5 DEF OpenInv, Walked
<1>9. ASSUME NEW p \in Pids, JudgeChild(p) \/ JudgeMain(p)
      PROVE  OpenInv'
  <2>1. /\ pc = "main" /\ pc' = "main" /\ idx <= Len(unordered)
        /\ p = unordered[idx] /\ stat = "read" /\ stat' = "closed"
        /\ idx' = idx + 1 /\ main' \in {main, p}
        /\ UNCHANGED <<unordered, gotStat, ppidOf, fatal>>
    BY <1>9 DEF JudgeChild, JudgeMain, Judging, listCaches, taskCaches
  <2>2. Walked(idx)' = Walked(idx) \cup {p}
    <3>1. Walked(idx)' = {unordered[i] : i \in 1..idx}
      BY <2>1 DEF Walked
    <3>2. 1..idx = 1..(idx - 1) \cup {idx}
      OBVIOUS
    <3>3. QED
      BY <2>1, <3>1, <3>2 DEF Walked
  <2>3. \A i \in 1..Len(unordered) : i < idx' => unordered[i] \in gotStat
    <3>1. \A i \in 1..Len(unordered) : i < idx' => i < idx \/ i = idx
      BY <2>1
    <3>2. QED
      BY <2>1, <3>1 DEF OpenInv
  <2>4. main' # 0 => main' \in Walked(idx)'
    BY <2>1, <2>2 DEF OpenInv
  <2>5. /\ idx' # 1 /\ fatal = "no" /\ gotStat \subseteq Range(unordered)
        /\ p \in gotStat
        /\ \A q \in Pids \ gotStat : ppidOf[q] = Unread
    BY <2>1 DEF OpenInv
  <2>6. QED
    BY <2>1, <2>3, <2>4, <2>5 DEF OpenInv
<1>10. CASE NoMain \/ MainEnds \/ \E p \in Pids : JudgeSecondMain(p)
  <2>1. /\ pc = "main" /\ pc' # "main" /\ (pc' = "exited" \/ main # 0)
        /\ stat' = "closed" \/ (idx > Len(unordered) /\ stat' = stat)
        /\ UNCHANGED <<unordered, gotStat, ppidOf, main>>
        /\ pc' = "exited" \/ fatal' = fatal
    BY <1>10 DEF NoMain, MainEnds, JudgeSecondMain, Judging, Die, listCaches,
                 taskCaches
  <2>2. stat' = "closed" /\ fatal = "no"
    BY <2>1 DEF OpenInv
  <2>3. QED
    BY <2>1, <2>2 DEF OpenInv
<1>11. ASSUME NEW p \in Pids, Readdir(p) \/ AddChild(p)
       PROVE  OpenInv'
  BY <1>2, <1>11 DEF Readdir, AddChild, taskCaches
<1>12. CASE \/ Return \/ OpendirFails \/ Opendir \/ ReaddirEnds
            \/ ChildrenEnd \/ Order
  BY <1>1, <1>2, <1>12 DEF Return, OpendirFails, Die, Opendir, ReaddirEnds,
                           ChildrenEnd, Order, listCaches, taskCaches
<1>13. CASE World \/ UNCHANGED vars
  <2>1. UNCHANGED <<pc, idx, unordered, gotStat, ppidOf, main, buf, fatal>>
    BY <1>13 DEF World, vars, control, listCaches, taskCaches
  <2>2. /\ stat' = "closed" <=> stat = "closed"
        /\ Opened' = Opened
        /\ stat' = "open" => Exists(unordered[idx])'
    <3>1. CASE World
      <4>1. stat' = IF stat = "open" /\ exe'[unordered[idx]] = "none"
                    THEN "dead" ELSE stat
        BY <3>1 DEF World
      <4>2. stat' = "open" => exe'[unordered[idx]] # "none"
        BY <4>1
      <4>3. QED
        BY <2>1, <4>1, <4>2 DEF Exists, Opened
    <3>2. CASE UNCHANGED vars
      <4>1. UNCHANGED <<stat, exe>>
        BY <3>2 DEF vars, control, procVars
      <4>2. stat = "open" => exe[unordered[idx]] # "none"
        BY DEF OpenInv, Exists
      <4>3. QED
        BY <2>1, <4>1, <4>2 DEF Exists, Opened
    <3>3. QED
      BY <1>13, <3>1, <3>2
  <2>3. ~HasRead(unordered[1])' => ~HasRead(unordered[1])
    BY <2>1, <2>2 DEF HasRead
  <2>4. Walked(idx)' = Walked(idx) /\ Range(unordered)' = Range(unordered)
    BY <2>1 DEF Walked
  <2>5. /\ stat' # "closed" => pc' = "main" /\ idx' <= Len(unordered')
                                 /\ unordered'[idx'] \in gotStat'
        /\ gotStat' \subseteq Range(unordered)'
        /\ \A p \in Pids \ gotStat' : ppidOf'[p] = Unread
        /\ main' = 0 /\ pc' \notin {"main", "exited"} =>
             gotStat' = {} /\ buf' = Unread
        /\ fatal' # "no" => pc' = "exited"
    BY <2>1, <2>2, <2>4 DEF OpenInv
  <2>6. pc' = "main" =>
         /\ \A i \in 1..Len(unordered') :
              i < idx' => unordered'[i] \in gotStat'
         /\ idx' = 1 /\ unordered' # <<>> /\ ~HasRead(unordered[1])' =>
              buf' = Unread
         /\ main' # 0 => main' \in Walked(idx)'
    BY <2>1, <2>3, <2>4 DEF OpenInv
  <2>7. QED
    BY <2>2, <2>5, <2>6 DEF OpenInv
<1>14. QED
  BY NextCases, <1>4, <1>5, <1>6, <1>7, <1>8, <1>9, <1>10, <1>11, <1>12, <1>13

\* A line that is not the own one, and not hidden either, was got by someone
\* who has left the family.
LEMMA GoneStep ==
  ASSUME Inv, CacheInv, OpenInv, GoneInv, [Next]_vars
  PROVE  GoneInv'
<1>1. ASSUME UNCHANGED <<misread, gotStat, ppidOf, unordered>>,
             Opened' => Opened /\ idx' = idx,
             stat' = "dead" => stat = "dead" \/ unordered[idx] \notin steady',
             steady' \subseteq steady
      PROVE  GoneInv'
  BY <1>1 DEF GoneInv, Opened
<1>2. ASSUME NEW p \in Pids, OpenStat(p)
      PROVE  GoneInv'
  <2>1. /\ p = unordered[idx] /\ gotStat' = gotStat \cup {p}
        /\ UNCHANGED <<unordered, idx, ppidOf, steady>>
    BY <1>2 DEF OpenStat, listCaches, family
  <2>2. /\ stat' \in {"open", "read"}
        /\ stat' = "open" => p \notin gotStat
        /\ misread' \in {misread, misread \cup {p}}
        /\ misread' # misread => stat' = "read" /\ ppidOf[p] = Unread
    BY <1>2 DEF OpenStat, OpenInv
  <2>3. stat' = "open" => p \notin misread'
    BY <2>2 DEF GoneInv
  <2>4. QED
    BY <2>1, <2>2, <2>3 DEF GoneInv, Opened
<1>3. ASSUME NEW p \in Pids, ReadStat(p)
      PROVE  GoneInv'
  <2>1. /\ p = unordered[idx] /\ Opened /\ stat' = "read"
        /\ UNCHANGED <<unordered, gotStat, steady>>
    BY <1>3 DEF ReadStat, Opened, listCaches, family
  <2>2. p \in gotStat /\ p \notin misread
    BY <2>1 DEF OpenInv, GoneInv, Opened
  <2>3. \A q \in Pids : q # p => ppidOf'[q] = ppidOf[q]
    BY <1>3 DEF ReadStat, Inv, TypeOK, TaskTypeOK
  <2>4. /\ misread' \in {misread, misread \cup {p}}
        /\ p \in misread' => stat = "dead" \/ (stat = "open" /\ p \in fifo)
    BY <1>3, <2>1, <2>2 DEF ReadStat, Opened
  <2>5. p \in misread' => p \notin steady \/ ppidOf'[p] = Unread
    <3>1. stat = "dead" => p \notin steady
      BY <2>1 DEF GoneInv
    <3>2. stat = "open" /\ p \in fifo => ppidOf'[p] = Unread
      BY <1>3 DEF ReadStat, Lines, Inv, TypeOK, TaskTypeOK
    <3>3. QED
      BY <2>4, <3>1, <3>2
  <2>6. \A q \in misread' \cap steady' : ppidOf'[q] = Unread
    BY <2>1, <2>3, <2>4, <2>5 DEF GoneInv, Inv, TypeOK, HistoryTypeOK
  <2>7. QED
    BY <2>1, <2>2, <2>4, <2>6 DEF GoneInv, Opened
<1>4. CASE World
  <2>1. /\ UNCHANGED <<misread, gotStat, ppidOf, unordered, idx>>
        /\ steady' = steady \cap Family'
        /\ stat' = IF stat = "open" /\ exe'[unordered[idx]] = "none"
                    THEN "dead" ELSE stat
    BY <1>4 DEF World, listCaches, taskCaches, history
  <2>2. stat' = "dead" /\ stat # "dead" => unordered[idx] \notin Family'
    BY <2>1 DEF Family, B2GExes
  <2>3. QED
    BY <1>1, <2>1, <2>2 DEF Opened
<1>5. CASE Opendir
  <2>1. /\ all = <<>> /\ stat' = stat /\ gotStat' = gotStat
        /\ misread' = misread
    BY <1>5 DEF Opendir, Inv, ScanInv, taskCaches, history
  <2>2. gotStat = {} /\ stat = "closed"
    BY <1>5 DEF Opendir, OpenInv, Inv, ScanInv, NothingFound
  <2>3. QED
    BY <2>1, <2>2 DEF GoneInv, Opened
<1>6. ASSUME NEW p \in Pids, ReadExe(p)
      PROVE  GoneInv'
  <2>1. /\ main = 0 /\ pc = "exe" /\ pc' = "exe"
        /\ UNCHANGED <<gotStat, stat, misread>>
    BY <1>6, SecondLook DEF ReadExe, history
  <2>2. gotStat = {} /\ stat = "closed"
    BY <2>1 DEF OpenInv
  <2>3. QED
    BY <2>1, <2>2 DEF GoneInv, Opened
<1>7. ASSUME NEW p \in Pids,
             JudgeChild(p) \/ JudgeMain(p) \/ JudgeSecondMain(p)
      PROVE  GoneInv'
  <2>1. /\ stat' = "closed"
        /\ UNCHANGED <<misread, gotStat, ppidOf, unordered, steady>>
    BY <1>7 DEF JudgeChild, JudgeMain, JudgeSecondMain, Die, listCaches,
                taskCaches, history, family
  <2>2. QED
    BY <1>1, <2>1 DEF Opened
<1>8. ASSUME UNCHANGED <<misread, gotStat, ppidOf, unordered, steady>>,
             stat' \in {stat, "closed"},
             pc # "main" \/ ~(idx <= Len(unordered))
      PROVE  GoneInv'
  <2>1. ~Opened /\ stat # "dead"
    BY <1>8 DEF OpenInv, Opened
  <2>2. QED
    BY <1>1, <1>8, <2>1 DEF Opened
<1>9. ASSUME NEW m \in Methods, Call(m)
      PROVE  GoneInv'
  BY <1>8, <1>9 DEF Call, listCaches, taskCaches, history, family
<1>10. ASSUME NEW p \in Pids, Readdir(p) \/ AddChild(p)
       PROVE  GoneInv'
  BY <1>8, <1>10 DEF Readdir, AddChild, taskCaches, history, family
<1>11. CASE \/ Return \/ ExeEnds \/ ReaddirEnds \/ MainEnds \/ ChildrenEnd
            \/ Order \/ OpendirFails \/ NoMain
  BY <1>8, <1>11, ListFacts
  DEF Return, ExeEnds, ReaddirEnds, MainEnds, ChildrenEnd, Order,
      OpendirFails, NoMain, Die, listCaches, taskCaches, history, family, Inv
<1>12. CASE UNCHANGED vars
  BY <1>1, <1>12
  DEF Opened, vars, listCaches, taskCaches, control, family, history
<1>13. QED
  BY NextCases, <1>2, <1>3, <1>4, <1>5, <1>6, <1>7, <1>9, <1>10, <1>11, <1>12

\* Nobody is found by others than root.
LEMMA OthersStep ==
  ASSUME Inv, OthersInv, [Next]_vars
  PROVE  OthersInv'
<1>1. ASSUME NEW p \in Pids, ReadExe(p), ~IsRoot
      PROVE  unordered' = <<>> /\ \A q \in Pids : exeOf'[q] = ""
  <2>1. ImageOf(p) = ""
    BY <1>1 DEF ImageOf, Readlink, OthersInv
  <2>2. unordered' = unordered
    BY <1>1, <2>1 DEF ReadExe, IsB2GImage, B2GExes
  <2>3. exeOf' = [exeOf EXCEPT ![p] = ""] /\ exeOf \in [Pids -> Images \cup {""}]
    BY <1>1, <2>1 DEF ReadExe, Inv, TypeOK, TaskTypeOK
  <2>4. QED
    BY <1>1, <2>2, <2>3 DEF OthersInv
<1>2. (\E p \in Pids : ReadExe(p)) \/ UNCHANGED <<exeOf, unordered>>
  BY NextCases DEF Call, Return, OpendirFails, Die, Opendir, Readdir,
     ReaddirEnds, ExeEnds, OpenStat, ReadStat, JudgeChild, JudgeMain,
     JudgeSecondMain, NoMain, MainEnds, AddChild, ChildrenEnd, Order, World,
     vars, listCaches, taskCaches
<1>3. QED
  BY <1>1, <1>2 DEF OthersInv

\* The family and its roots.
LEMMA KinStep ==
  ASSUME Inv, KinInv, [Next]_vars
  PROVE  KinInv'
<1>1. CASE World
  <2>1. ProcNext /\ steady' = steady \cap Family'
        /\ rootsSeen' = rootsSeen \cup Roots'
    BY <1>1 DEF World
  <2>2. TreeInv' /\ \A p \in Pids : Exists(p)' => p <= lastPid'
    BY <2>1, TreeStep, PidsBounded DEF Inv, TypeOK, KinInv
  <2>3. ASSUME NEW p \in steady', p \notin rootsSeen'
        PROVE  ppid'[p] \in steady'
    <3>1. p \in Family /\ p \in Family' /\ ppid[p] \in steady
      BY <2>1, <2>3 DEF Inv, FamilyInv, KinInv
    <3>2. ppid'[p] \in Family'
      BY <2>1, <2>3, <3>1 DEF Roots
    <3>3. InitPid \notin Family'
      BY <2>2 DEF TreeInv, RootInv, Family, B2GExes
    <3>4. ppid'[p] = ppid[p]
      BY <2>1, <3>1, <3>2, <3>3, ParentStep DEF Inv, TypeOK, KinInv
    <3>5. QED
      BY <2>1, <3>1, <3>2, <3>4
  <2>4. QED
    BY <2>2, <2>3 DEF KinInv
<1>2. CASE UNCHANGED procVars
  <2>1. TreeInv' /\ \A p \in Pids : Exists(p)' => p <= lastPid'
    BY <1>2 DEF KinInv, procVars, TreeInv, RootInv, ParentsInv, AcyclicInv,
                OrderInv, Exists, Live
  <2>2. CASE UNCHANGED family
    BY <1>2, <2>1, <2>2 DEF KinInv, procVars, family
  <2>3. CASE Opendir
    <3>1. steady' = Family /\ rootsSeen' = Roots
      BY <2>3 DEF Opendir
    <3>2. QED
      BY <1>2, <2>1, <3>1 DEF KinInv, Roots, procVars
  <2>4. QED
    BY <1>1, <2>2, <2>3, Changes, <1>2
<1>3. QED
  BY <1>1, <1>2, Changes

\* What a process was found to be the child of stays what was read, and the
\* list it is looked for in stays what it is.
LEMMA ReadNow ==
  ASSUME Inv, CacheInv, OpenInv, [Next]_vars, NEW p \in Pids, HasRead(p)'
  PROVE  /\ unordered' = unordered /\ unordered # <<>> /\ looked
         /\ ~Opendir
         /\ \/ HasRead(p) /\ ppidOf'[p] = ppidOf[p]
            \/ OpenStat(p) /\ p \in misread' /\ p \notin gotStat
            \/ ReadStat(p)
<1>1. CASE \E q \in Pids : OpenStat(q) \/ ReadStat(q)
  <2>1. PICK q \in Pids : OpenStat(q) \/ ReadStat(q)
    BY <1>1
  <2>2. /\ pc = "main" /\ idx <= Len(unordered) /\ q = unordered[idx]
        /\ UNCHANGED <<unordered, idx>>
    BY <2>1 DEF OpenStat, ReadStat, listCaches
  <2>3. unordered # <<>> /\ looked
    BY <2>2, ListFacts DEF Inv, CacheInv
  <2>4. ~Opendir
    BY <2>2 DEF Opendir
  <2>5. CASE p = q /\ OpenStat(q)
    BY <2>2, <2>3, <2>4, <2>5 DEF OpenStat, HasRead, Opened
  <2>6. CASE p = q /\ ReadStat(q)
    BY <2>2, <2>3, <2>4, <2>6
  <2>7. CASE p # q
    <3>1. p \in gotStat /\ ppidOf'[p] = ppidOf[p]
      BY <2>1, <2>7 DEF OpenStat, ReadStat, HasRead, Inv, TypeOK, TaskTypeOK
    <3>2. HasRead(p)
      BY <2>2, <2>7, <3>1 DEF HasRead
    <3>3. QED
      BY <2>2, <2>3, <2>4, <3>1, <3>2
  <2>8. QED
    BY <2>1, <2>5, <2>6, <2>7
<1>2. CASE ~(\E q \in Pids : OpenStat(q) \/ ReadStat(q))
  <2> UNCHANGED <<gotStat, ppidOf>>
    BY <1>2, Changes
  <2>1. p \in gotStat
    BY DEF HasRead
  <2>2. p \in Range(unordered) /\ unordered # <<>>
    BY <2>1, ListFacts DEF OpenInv, Inv
  <2>3. ~(\E q \in Pids : ReadExe(q))
    BY <2>1, SecondLook DEF OpenInv, ReadExe
  <2>4. unordered' = unordered
    BY <2>3, Changes
  <2>5. pc # "exe" /\ ~Opendir
    <3>1. pc = "exe" \/ pc = "opendir" => main = 0
      BY <2>2, ListFacts DEF CacheInv, Inv, ScanInv, NothingFound
    <3>2. QED
      BY <2>1, <3>1 DEF OpenInv, Opendir
  <2>6. looked
    BY <2>2, <2>5 DEF CacheInv
  <2>7. HasRead(p)
    <3>1. CASE ~Opened
      BY <2>1, <3>1 DEF HasRead
    <3>2. CASE Opened
      <4>1. pc = "main" /\ idx <= Len(unordered)
        BY <3>2 DEF OpenInv, Opened
      <4>2. \A q \in Pids : Judging(q) => FALSE
        BY <3>2 DEF Judging, Opened
      <4>3. World \/ UNCHANGED vars
        BY NextCases, <1>2, <4>1, <4>2, ListFacts
        DEF Call, Return, OpendirFails, Opendir, Readdir, ReaddirEnds,
            ReadExe, ExeEnds, JudgeChild, JudgeMain, JudgeSecondMain, NoMain,
            MainEnds, AddChild, ChildrenEnd, Order, Inv
      <4>4. idx' = idx /\ Opened'
        <5>1. CASE World
          BY <3>2, <5>1 DEF World, Opened
        <5>2. CASE UNCHANGED vars
          BY <3>2, <5>2 DEF vars, control, Opened
        <5>3. QED
          BY <4>3, <5>1, <5>2
      <4>5. QED
        BY <2>4, <4>4 DEF HasRead
    <3>3. QED
      BY <3>1, <3>2
  <2>8. QED
    BY <2>2, <2>4, <2>5, <2>6, <2>7
<1>3. QED
  BY <1>1, <1>2

\* In the loop: the list is complete, and is walked without repetition.
LEMMA InLoop ==
  ASSUME Inv, CallsInv, MainProcessInv, pc = "main",
         NEW p \in Pids, idx <= Len(unordered), p = unordered[idx]
  PROVE  /\ IsRoot /\ p \in Range(unordered)
         /\ steady \subseteq Range(unordered) /\ Range(unordered) \subseteq seen
         /\ main # p
         /\ \A i \in 1..Len(unordered) : i < idx => unordered[i] # p
         /\ main # 0 => \E i \in 1..Len(unordered) : i < idx /\ unordered[i] = main
<1>1. /\ unordered \in Seq(Pids) /\ Len(unordered) \in Nat
      /\ idx \in Nat \ {0} /\ unordered # <<>>
      /\ Range(unordered) = {unordered[i] : i \in 1..Len(unordered)}
  BY ListFacts DEF Inv, TypeOK, ListTypeOK
<1>2. IsRoot /\ p \in Range(unordered)
  <2>1. idx \in 1..Len(unordered)
    BY <1>1
  <2>2. QED
    BY <1>1, <2>1 DEF MainProcessInv, OthersInv
<1>3. looked /\ ListedRegular
  BY InvListed DEF CallsInv, ChainInv
<1>4. \A i \in 1..Len(unordered) : i < idx => unordered[i] # p
  <2>1. Distinct(unordered)
    BY <1>1, RisingIsDistinct DEF CallsInv, RisingInv
  <2>2. QED
    BY <1>1, <2>1 DEF Distinct
<1>5. main # 0 => \E i \in 1..Len(unordered) : i < idx /\ unordered[i] = main
  <2>1. main # 0 => \E i \in 1..(idx - 1) : unordered[i] = main
    BY DEF MainProcessInv, OpenInv, Walked
  <2>2. QED
    BY <1>1, <2>1
<1>6. main # p
  BY <1>4, <1>5 DEF Pids
<1>7. QED
  BY <1>2, <1>3, <1>4, <1>5, <1>6 DEF ListedRegular

\* Reading the stat line of someone who has stayed.
LEMMA WitnessStep ==
  ASSUME Inv, CallsInv, MainProcessInv, [Next]_vars
  PROVE  WitnessInv'
<1> USE DEF MainProcessInv, CallsInv
<1> SUFFICES ASSUME misread' = {}
             PROVE  /\ \A p \in steady' : HasRead(p)' =>
                         p \in rootsSeen' \/ ppidOf'[p] \in Range(unordered)'
                    /\ main' \in steady' => main' \in rootsSeen'
                    /\ fatal' = "twoMains" /\ Range(unordered)' \subseteq steady' =>
                         \E p, q \in rootsSeen' : p # q
  BY DEF WitnessInv
<1>1. misread = {}
  BY Changes
<1>2. \/ Opendir
      \/ steady' \subseteq steady /\ rootsSeen \subseteq rootsSeen'
  <2>1. CASE World
    BY <2>1 DEF World
  <2>2. CASE UNCHANGED family
    BY <2>2 DEF family
  <2>3. QED
    BY <2>1, <2>2, Changes
<1>3. 0 \notin steady'
  <2>1. 0 \notin Family /\ 0 \notin steady
    BY DEF Inv, TypeOK, FamilyTypeOK, Family, Pids
  <2>2. QED
    BY <1>2, <2>1 DEF Opendir
<1>4. ASSUME NEW p \in steady', HasRead(p)'
      PROVE  p \in rootsSeen' \/ ppidOf'[p] \in Range(unordered)'
  <2> p \in Pids
    BY <1>2 DEF Inv, TypeOK, FamilyTypeOK, Opendir, Family
  <2>1. /\ unordered' = unordered /\ ~Opendir
        /\ \/ HasRead(p) /\ ppidOf'[p] = ppidOf[p]
           \/ ReadStat(p)
    BY <1>4, ReadNow
  <2>2. p \in steady
    BY <1>2, <2>1
  <2>3. CASE HasRead(p) /\ ppidOf'[p] = ppidOf[p]
    BY <1>1, <1>2, <2>1, <2>2, <2>3 DEF WitnessInv
  <2>4. CASE ReadStat(p)
    <3>1. /\ pc = "main" /\ idx <= Len(unordered) /\ p = unordered[idx]
          /\ stat = "open" /\ p \notin fifo
      BY <2>4 DEF ReadStat
    <3>2. ppidOf'[p] = ppid[p]
      BY <2>4, <3>1 DEF ReadStat, Lines, Inv, TypeOK, TaskTypeOK
    <3>3. p \in rootsSeen \/ ppid[p] \in Range(unordered)
      BY <2>2, <3>1, InLoop DEF KinInv
    <3>4. QED
      BY <1>2, <2>1, <3>2, <3>3
  <2>5. QED
    BY <2>1, <2>3, <2>4
<1>5. ASSUME NEW p \in Pids, Judging(p), ~HasListedParent(p), p \in steady
      PROVE  p \in rootsSeen
  <2>1. HasRead(p)
    BY <1>5 DEF Judging, HasRead, Opened, OpenInv
  <2>2. QED
    BY <1>1, <1>5, <2>1 DEF WitnessInv, HasListedParent
<1>6. ASSUME main' \in steady'
      PROVE  main' \in rootsSeen'
  <2>1. CASE main' = main
    <3>1. ~Opendir
      BY <1>3, <1>6, <2>1 DEF Opendir, Inv, ScanInv, NothingFound
    <3>2. QED
      BY <1>1, <1>2, <1>6, <2>1, <3>1 DEF WitnessInv
  <2>2. ASSUME NEW p \in Pids, JudgeMain(p)
        PROVE  main' \in rootsSeen'
    <3>1. Judging(p) /\ ~HasListedParent(p) /\ main' = p /\ ~Opendir
      BY <2>2 DEF JudgeMain, Judging, Opendir
    <3>2. QED
      BY <1>2, <1>5, <1>6, <3>1
  <2>3. QED
    BY <2>1, <2>2, Changes
<1>7. ASSUME fatal' = "twoMains", Range(unordered)' \subseteq steady'
      PROVE  \E p, q \in rootsSeen' : p # q
  <2>1. CASE fatal' = fatal
    <3>1. pc = "exited"
      BY <1>7, <2>1 DEF OpenInv
    <3>2. unordered' = unordered /\ ~Opendir
      BY <3>1, Changes DEF ReadExe, Opendir
    <3>3. QED
      BY <1>1, <1>2, <1>7, <2>1, <3>2 DEF WitnessInv
  <2>2. ASSUME NEW p \in Pids, JudgeSecondMain(p)
        PROVE  \E r, q \in rootsSeen' : r # q
    <3>1. /\ Judging(p) /\ ~HasListedParent(p) /\ main # 0 /\ ~Opendir
          /\ unordered' = unordered
      BY <2>2 DEF JudgeSecondMain, Judging, Opendir, Die, listCaches
    <3>2. /\ pc = "main" /\ idx <= Len(unordered) /\ p = unordered[idx]
      BY <3>1 DEF Judging
    <3>3. p \in Range(unordered) /\ main # p
      BY <3>2, InLoop
    <3>4. main \in Range(unordered)
      BY <3>1 DEF CacheInv
    <3>5. p \in rootsSeen /\ main \in rootsSeen
      BY <1>1, <1>2, <1>5, <1>7, <3>1, <3>3, <3>4 DEF WitnessInv
    <3>6. QED
      BY <1>2, <3>1, <3>3, <3>5
  <2>3. QED
    BY <1>7, <2>1, <2>2, Changes DEF OpendirFails, NoMain, Die
<1>8. QED
  BY <1>4, <1>6, <1>7

\* While it is calm, the family and its roots stay.
LEMMA CalmStays ==
  ASSUME Inv, KinInv, KinInv', [Next]_vars, Calm', ~Opendir
  PROVE  /\ Calm /\ UNCHANGED <<Family, Roots>>
         /\ steady = Family /\ seen = Family
<1>1. misread = {} /\ IsRoot /\ steady' = seen'
  BY Changes DEF Calm
<1>2. CASE World
  <2>1. /\ steady' = steady \cap Family' /\ seen' = seen \cup Family'
        /\ ProcNext
    BY <1>2 DEF World
  <2>2. steady \subseteq Family /\ Family \subseteq seen
    BY DEF Inv, FamilyInv
  <2>3. Family' = Family /\ steady = Family /\ seen = Family
    BY <1>1, <2>1, <2>2
  <2>4. Roots' = Roots
    <3>1. \A p \in Family : ppid'[p] \in Family' <=> ppid[p] \in Family'
      BY <2>1, FamilyParent DEF KinInv, Inv, TypeOK
    <3>2. QED
      BY <2>3, <3>1 DEF Roots
  <2>5. QED
    BY <1>1, <2>3, <2>4 DEF Calm
<1>3. CASE UNCHANGED procVars /\ UNCHANGED family
  BY <1>1, <1>3 DEF Calm, family, procVars, Family, Roots, Inv, FamilyInv
<1>4. QED
  BY <1>2, <1>3, Changes

\* What is judged while it is calm is right.
LEMMA CalmStep ==
  ASSUME Inv, CallsInv, MainProcessInv, KinInv', [Next]_vars
  PROVE  CalmInv'
<1> USE DEF MainProcessInv, CallsInv
<1> SUFFICES ASSUME Calm'
             PROVE  CalmInv'
  BY DEF CalmInv
<1> misread' = {} /\ 0 \notin Pids
  BY DEF Calm, Pids
<1>1. CASE Opendir
  <2>1. /\ pc = "opendir" /\ pc' = "readdir" /\ main' = main
        /\ fatal' = fatal /\ gotStat' = gotStat
    BY <1>1 DEF Opendir, listCaches, taskCaches
  <2>2. main = 0 /\ fatal = "no" /\ gotStat = {}
    BY <2>1 DEF Inv, ScanInv, NothingFound, OpenInv
  <2>3. QED
    BY <2>1, <2>2 DEF CalmInv, HasRead
<1>2. CASE ~Opendir
  <2> /\ Calm /\ UNCHANGED <<Family, Roots>>
      /\ steady = Family /\ seen = Family
    BY <1>2, CalmStays
  <2>1. ASSUME NEW p \in Pids, HasRead(p)'
        PROVE  p \in Family /\ (ppidOf'[p] \in Family <=> p \notin Roots)
    <3>1. (HasRead(p) /\ ppidOf'[p] = ppidOf[p]) \/ ReadStat(p)
      BY <2>1, ReadNow
    <3>2. CASE HasRead(p) /\ ppidOf'[p] = ppidOf[p]
      BY <3>2 DEF CalmInv
    <3>3. CASE ReadStat(p)
      <4>1. /\ pc = "main" /\ idx <= Len(unordered) /\ p = unordered[idx]
            /\ stat = "open" /\ p \notin fifo
        BY <3>3 DEF ReadStat
      <4>2. ppidOf'[p] = ppid[p]
        BY <3>3, <4>1 DEF ReadStat, Lines, Inv, TypeOK, TaskTypeOK
      <4>3. p \in Family
        BY <4>1, InLoop
      <4>4. QED
        BY <4>2, <4>3 DEF Roots
    <3>4. QED
      BY <3>1, <3>2, <3>3
  <2>2. ASSUME NEW p \in Pids, Judging(p)
        PROVE  /\ p \in Roots <=> ~HasListedParent(p)
               /\ p # main /\ \A i \in 1..Len(unordered) :
                                i < idx => unordered[i] # p
               /\ main # 0 => main \in Roots
    <3>1. /\ pc = "main" /\ idx <= Len(unordered) /\ p = unordered[idx]
          /\ HasRead(p)
      BY <2>2 DEF Judging, HasRead, Opened, OpenInv
    <3>2. Range(unordered) = Family
      BY <3>1, InLoop
    <3>3. p \in Roots <=> ~HasListedParent(p)
      BY <3>1, <3>2 DEF CalmInv, HasListedParent
    <3>4. main # 0 => main \in Roots
      BY <3>1, InLoop DEF CalmInv
    <3>5. QED
      BY <3>1, <3>3, <3>4, InLoop
  <2>3. ASSUME pc' = "main", NEW i \in 1..Len(unordered'), i < idx'
        PROVE  unordered'[i] \in Roots <=> unordered'[i] = main'
    <3> idx \in Nat \ {0} /\ Len(unordered) \in Nat
      BY ListFacts DEF Inv
    <3>1. CASE pc # "main"
      <4>1. idx' = 1
        <5>1. (pc = "exe" /\ idx' = 1) \/ (pc = "idle" /\ idx' = 1)
          BY <2>3, <3>1, NextCases DEF Call, Return, OpendirFails, Die, Opendir,
             Readdir, ReaddirEnds, ReadExe, ExeEnds, OpenStat, ReadStat,
             JudgeChild, JudgeMain, Judging, JudgeSecondMain, NoMain, MainEnds,
             AddChild, ChildrenEnd, Order, World, vars, control
        <5>2. QED
          BY <5>1
      <4>2. unordered' = unordered
        BY <2>3, <3>1, Changes DEF ReadExe
      <4>3. QED
        BY <2>3, <4>1, <4>2
    <3>2. CASE pc = "main"
      <4>1. unordered' = unordered
        BY <3>2, Changes DEF ReadExe
      <4>2. ASSUME idx' = idx, main' = main
            PROVE  unordered[i] \in Roots <=> unordered[i] = main'
        BY <2>3, <3>2, <4>1, <4>2 DEF CalmInv
      <4>3. ASSUME NEW p \in Pids, JudgeChild(p)
            PROVE  unordered[i] \in Roots <=> unordered[i] = main'
        <5>1. /\ Judging(p) /\ HasListedParent(p) /\ main' = main
              /\ idx' = idx + 1 /\ p = unordered[idx]
          BY <4>3 DEF JudgeChild, Judging, listCaches
        <5>2. i = idx \/ i < idx
          BY <2>3, <4>1, <5>1
        <5>3. QED
          BY <2>2, <3>2, <4>1, <5>1, <5>2 DEF CalmInv
      <4>4. ASSUME NEW p \in Pids, JudgeMain(p)
            PROVE  unordered[i] \in Roots <=> unordered[i] = main'
        <5>1. /\ Judging(p) /\ ~HasListedParent(p) /\ main = 0 /\ main' = p
              /\ idx' = idx + 1 /\ p = unordered[idx]
          BY <4>4 DEF JudgeMain, Judging
        <5>2. i = idx \/ i < idx
          BY <2>3, <4>1, <5>1
        <5>3. CASE i = idx
          BY <2>2, <5>1, <5>3
        <5>4. CASE i < idx
          <6>1. unordered[i] \in Pids
            BY <4>1, ElementOfSeq DEF Inv, TypeOK, ListTypeOK
          <6>2. unordered[i] \notin Roots
            BY <3>2, <4>1, <5>1, <5>4, <6>1 DEF CalmInv
          <6>3. unordered[i] # p
            BY <2>2, <4>1, <5>1, <5>4
          <6>4. QED
            BY <5>1, <6>2, <6>3
        <5>5. QED
          BY <5>2, <5>3, <5>4
      <4>5. \/ idx' = idx /\ main' = main
            \/ \E p \in Pids : JudgeChild(p) \/ JudgeMain(p)
        BY <2>3, <3>2, NextCases DEF Call, Return, OpendirFails, Die, Opendir,
           Readdir, ReaddirEnds, ReadExe, ExeEnds, OpenStat, ReadStat,
           JudgeSecondMain, NoMain, MainEnds, AddChild, ChildrenEnd, Order,
           World, vars, control, listCaches
      <4>6. QED
        BY <4>1, <4>2, <4>3, <4>4, <4>5
    <3>3. QED
      BY <3>1, <3>2
  <2>4. ASSUME main' # 0, pc' \notin {"main", "exited"}
        PROVE  Roots = {main'}
    <3>1. CASE MainEnds
      <4>1. /\ pc = "main" /\ idx > Len(unordered) /\ main # 0 /\ main' = main
        BY <3>1 DEF MainEnds, listCaches
      <4>2. /\ Range(unordered) = {unordered[i] : i \in 1..Len(unordered)}
            /\ idx \in Nat \ {0} /\ Len(unordered) \in Nat
        BY ListFacts DEF Inv
      <4>3. looked /\ main \in Range(unordered)
        BY <4>1 DEF CacheInv
      <4>4. Range(unordered) = Family
        BY <4>3, InvListed DEF ListedRegular, Calm
      <4>5. \A i \in 1..Len(unordered) :
              unordered[i] \in Roots <=> unordered[i] = main
        BY <4>1, <4>2 DEF CalmInv
      <4>6. Roots \subseteq Family
        BY DEF Roots
      <4>7. QED
        BY <4>1, <4>2, <4>3, <4>4, <4>5, <4>6
    <3>2. CASE ~MainEnds
      <4>1. pc \notin {"main", "exited"}
        BY <2>4, <3>2, Changes DEF World, vars, control
      <4>2. main' = main
        BY <4>1, Changes DEF JudgeMain, Judging
      <4>3. QED
        BY <2>4, <4>1, <4>2 DEF CalmInv
    <3>3. QED
      BY <3>1, <3>2
  <2>5. ASSUME fatal' = "twoMains"
        PROVE  \E p, q \in Roots : p # q
    <3>1. CASE fatal' = fatal
      BY <2>5, <3>1 DEF CalmInv
    <3>2. ASSUME NEW p \in Pids, JudgeSecondMain(p)
          PROVE  \E r, q \in Roots : r # q
      <4>1. Judging(p) /\ ~HasListedParent(p) /\ main # 0
        BY <3>2 DEF JudgeSecondMain
      <4>2. QED
        BY <2>2, <4>1
    <3>3. QED
      BY <2>5, <3>1, <3>2, Changes DEF OpendirFails, NoMain, Die
  <2>6. ASSUME fatal' = "notFound"
        PROVE  Family = {}
    <3>1. CASE fatal' = fatal
      BY <2>6, <3>1 DEF CalmInv
    <3>2. CASE NoMain
      <4>1. pc = "main" /\ idx > Len(unordered) /\ main = 0
        BY <3>2 DEF NoMain
      <4>2. /\ Range(unordered) = {unordered[i] : i \in 1..Len(unordered)}
            /\ Range(unordered) \subseteq Pids
            /\ idx \in Nat \ {0} /\ Len(unordered) \in Nat
        BY ListFacts DEF Inv
      <4>3. Range(unordered) = Family
        BY <4>1, InvListed DEF ChainInv, ListedRegular, Calm
      <4>4. \A i \in 1..Len(unordered) : unordered[i] \notin Roots
        BY <4>1, <4>2 DEF CalmInv
      <4>5. \A p \in Family : ppid[p] \in Family
        BY <4>2, <4>3, <4>4 DEF Roots
      <4>6. Family \in SUBSET {p \in Pids : Exists(p)}
        BY DEF Family, Exists, B2GExes
      <4>7. QED
        BY <4>5, <4>6 DEF KinInv, TreeInv, AcyclicInv
    <3>3. QED
      BY <2>6, <3>1, <3>2, Changes DEF OpendirFails, JudgeSecondMain, Die
  <2>7. QED
    BY <2>1, <2>3, <2>4, <2>5, <2>6 DEF CalmInv
<1>3. QED
  BY <1>1, <1>2

\* The first of the list is judged to be the main process.
LEMMA FirstStep ==
  ASSUME Inv, CallsInv, MainProcessInv, [Next]_vars
  PROVE  FirstInv'
<1> USE DEF MainProcessInv, CallsInv
<1> /\ idx \in Nat \ {0} /\ Len(unordered) \in Nat
    /\ unordered \in Seq(Pids) /\ unordered = <<>> <=> Len(unordered) = 0
    /\ \A i \in 1..Len(unordered) : unordered[i] \in Pids
    /\ \A p \in Pids : p \in Nat \ {0}
  BY ListFacts, ElementOfSeq DEF Inv, TypeOK, ListTypeOK, Pids
<1>1. ~reused' => ~reused
  <2>1. CASE World
    BY <2>1, ReusedStays DEF World
  <2>2. CASE UNCHANGED procVars
    BY <2>2 DEF procVars
  <2>3. QED
    BY <2>1, <2>2, Changes
<1>2. ASSUME ~reused', unordered' # <<>>, HasRead(unordered[1])'
      PROVE  ppidOf'[unordered'[1]] < unordered'[1]
  <2>1. unordered'[1] \in Pids
    <3>1. gotStat' # {}
      BY <1>2 DEF HasRead
    <3>2. ~(\E q \in Pids : ReadExe(q))
      BY <3>1, SecondLook DEF OpenInv, ReadExe
    <3>3. unordered' = unordered
      BY <3>2, Changes
    <3>4. QED
      BY <1>2, <3>3
  <2>2. PICK p \in Pids : p = unordered'[1] /\ HasRead(p)'
    BY <1>2, <2>1 DEF HasRead
  <2>3. /\ unordered' = unordered /\ unordered # <<>>
        /\ \/ HasRead(p) /\ ppidOf'[p] = ppidOf[p]
           \/ OpenStat(p) /\ p \notin gotStat
           \/ ReadStat(p)
    BY <2>1, <2>2, ReadNow
  <2>4. p = unordered[1] /\ 1 \in 1..Len(unordered)
    BY <2>2, <2>3
  <2>5. CASE HasRead(p) /\ ppidOf'[p] = ppidOf[p]
    BY <1>1, <1>2, <2>2, <2>3, <2>4, <2>5 DEF FirstInv
  <2>6. CASE OpenStat(p) /\ p \notin gotStat
    <3>1. p \notin gotStat /\ ppidOf' = ppidOf
      BY <2>6 DEF OpenStat
    <3>2. ppidOf'[p] = Unread
      BY <2>1, <3>1 DEF OpenInv
    <3>3. QED
      BY <2>2, <3>2 DEF Unread
  <2>7. CASE ReadStat(p)
    <3>1. /\ pc = "main" /\ idx <= Len(unordered) /\ p = unordered[idx]
          /\ stat # "closed" /\ stat # "read"
      BY <2>7 DEF ReadStat
    <3>2. idx = 1
      <4>1. \A i \in 1..Len(unordered) : i < idx => unordered[i] # p
        BY <3>1, InLoop
      <4>2. ~(1 < idx)
        BY <2>4, <4>1
      <4>3. QED
        BY <4>2
    <3>3. buf = Unread
      BY <2>3, <2>4, <2>7, <3>1, <3>2 DEF OpenInv, HasRead, ReadStat, Opened
    <3>4. PICK line \in Lines(p) : ppidOf' = [ppidOf EXCEPT ![p] = line]
      BY <2>7 DEF ReadStat
    <3>5. ppidOf'[p] = line
      BY <2>1, <3>4 DEF Inv, TypeOK, TaskTypeOK
    <3>6. line = Unread \/ (stat = "open" /\ line = ppid[p])
      BY <3>3, <3>4 DEF Lines
    <3>7. stat = "open" => ppid[p] < p
      BY <1>1, <1>2, <2>2, <3>1 DEF OpenInv, KinInv, TreeInv, OrderInv
    <3>8. ppidOf'[p] < p
      BY <2>2, <3>5, <3>6, <3>7 DEF Unread
    <3>9. QED
      BY <2>2, <3>8
  <2>8. QED
    BY <2>3, <2>5, <2>6, <2>7
<1>3. ASSUME pc' = "main", main' = 0,
             NEW i \in 1..Len(unordered'), i < idx'
      PROVE  HasListedParent(unordered[i])'
  <2>1. CASE pc # "main"
    <3>1. (pc = "exe" /\ idx' = 1) \/ (pc = "idle" /\ idx' = 1)
      BY <1>3, <2>1, NextCases DEF Call, Return, OpendirFails, Die, Opendir,
         Readdir, ReaddirEnds, ReadExe, ExeEnds, OpenStat, ReadStat,
         JudgeChild, JudgeMain, Judging, JudgeSecondMain, NoMain, MainEnds,
         AddChild, ChildrenEnd, Order, World, vars, control
    <3>2. unordered' = unordered
      BY <1>3, <2>1, Changes DEF ReadExe
    <3>3. QED
      BY <1>3, <3>1, <3>2
  <2>2. CASE pc = "main"
    <3>1. unordered' = unordered /\ ~(\E p \in Pids : JudgeMain(p))
      BY <1>3, <2>2, Changes DEF ReadExe, JudgeMain, Pids
    <3>2. main = 0
      BY <1>3, <3>1, Changes
    <3>3. ASSUME NEW p \in Pids, JudgeChild(p)
          PROVE  HasListedParent(unordered[i])'
      <4>1. /\ HasListedParent(p) /\ ppidOf' = ppidOf
            /\ idx' = idx + 1 /\ p = unordered[idx]
        BY <3>3 DEF JudgeChild, Judging, taskCaches
      <4>2. i = idx \/ i < idx
        BY <1>3, <3>1, <4>1
      <4>3. QED
        BY <2>2, <3>1, <3>2, <4>1, <4>2 DEF FirstInv, HasListedParent
    <3>4. ASSUME NEW p \in Pids, ReadStat(p)
          PROVE  HasListedParent(unordered[i])'
      <4>1. /\ p = unordered[idx] /\ idx' = idx /\ idx <= Len(unordered)
            /\ \A q \in Pids : q # p => ppidOf'[q] = ppidOf[q]
        BY <3>4 DEF ReadStat, Inv, TypeOK, TaskTypeOK
      <4>2. unordered[i] # p
        BY <1>3, <2>2, <3>1, <4>1, InLoop
      <4>3. HasListedParent(unordered[i])
        BY <1>3, <2>2, <3>1, <3>2, <4>1 DEF FirstInv
      <4>4. QED
        BY <1>3, <3>1, <4>1, <4>2, <4>3 DEF HasListedParent
    <3>5. ASSUME idx' = idx, ppidOf' = ppidOf
          PROVE  HasListedParent(unordered[i])'
      BY <1>3, <2>2, <3>1, <3>2, <3>5 DEF FirstInv, HasListedParent
    <3>6. \/ idx' = idx /\ ppidOf' = ppidOf
          \/ \E p \in Pids : JudgeChild(p) \/ ReadStat(p)
      BY <1>3, <2>2, <3>1, NextCases DEF Call, Return, OpendirFails, Die,
         Opendir, Readdir, ReaddirEnds, ReadExe, ExeEnds, OpenStat,
         JudgeSecondMain, NoMain, MainEnds, AddChild, ChildrenEnd, Order,
         World, vars, control, taskCaches
    <3>7. QED
      BY <3>3, <3>4, <3>5, <3>6
  <2>3. QED
    BY <2>1, <2>2
<1>4. ASSUME fatal' = "notFound", ~reused', IsRoot
      PROVE  steady' = {}
  <2>1. CASE fatal' = fatal
    <3>1. pc = "exited" /\ steady = {}
      BY <1>1, <1>4, <2>1 DEF OpenInv, FirstInv
    <3>2. ~Opendir
      BY <3>1 DEF Opendir
    <3>3. QED
      BY <3>1, <3>2, Changes DEF World, family
  <2>2. CASE NoMain
    <3>1. /\ pc = "main" /\ idx > Len(unordered) /\ main = 0
          /\ steady' = steady
      BY <2>2 DEF NoMain, Die, family
    <3>2. ASSUME unordered # <<>>
          PROVE  FALSE
      <4> DEFINE p == unordered[1]
      <4>1. 1 \in 1..Len(unordered) /\ 1 < idx /\ p \in Pids
        BY <3>1, <3>2
      <4>2. HasListedParent(p) /\ p \in gotStat
        BY <3>1, <4>1 DEF FirstInv, OpenInv
      <4>3. stat = "closed"
        BY <3>1 DEF OpenInv
      <4>4. HasRead(p)
        BY <4>2, <4>3 DEF HasRead, Opened
      <4>5. ppidOf[p] < p
        BY <1>1, <1>4, <3>2, <4>4 DEF FirstInv
      <4>6. PICK j \in 1..Len(unordered) : ppidOf[p] = unordered[j]
        BY <4>2, ListFacts DEF HasListedParent, Inv
      <4>7. j = 1 \/ 1 < j
        OBVIOUS
      <4>8. unordered[j] = p \/ p < unordered[j]
        BY <4>1, <4>7 DEF RisingInv, Rising
      <4>9. QED
        BY <4>1, <4>5, <4>6, <4>8
    <3>3. Range(<<>>) = {} /\ looked
      BY <3>1 DEF Range, ChainInv
    <3>4. steady \subseteq Range(unordered)
      BY <1>4, <3>3, InvListed DEF ListedRegular
    <3>5. QED
      BY <3>1, <3>2, <3>3, <3>4
  <2>3. QED
    BY <1>4, <2>1, <2>2, Changes DEF OpendirFails, JudgeSecondMain, Die
<1>5. QED
  BY <1>2, <1>3, <1>4 DEF FirstInv

\* Nobody has been judged yet.
LEMMA MainProcessStart ==
  ASSUME Init
  PROVE  MainProcessInv
<1>1. /\ pc = "idle" /\ main = 0 /\ unordered = <<>> /\ stat = "closed"
      /\ gotStat = {} /\ ppidOf = [p \in Pids |-> Unread] /\ buf = Unread
      /\ exeOf = [p \in Pids |-> ""] /\ fatal = "no"
      /\ steady = Family /\ rootsSeen = Roots
  BY DEF Init
<1>2. OpenInv
  BY <1>1 DEF OpenInv, Range
<1>3. OthersInv /\ GoneInv
  BY <1>1 DEF Init, OthersInv, GoneInv, Opened
<1>4. KinInv
  <2>1. TreeInv /\ \A p \in Pids : Exists(p) => p <= lastPid
    <3>1. ProcInit
      BY DEF Init
    <3>2. QED
      BY <3>1, TreeStart DEF ProcInit
  <2>2. \A p \in steady : p \in rootsSeen \/ ppid[p] \in steady
    BY <1>1 DEF Roots
  <2>3. QED
    BY <2>1, <2>2 DEF KinInv
<1>5. WitnessInv
  <2>1. 0 \notin steady
    <3>1. 0 \notin Pids
      BY DEF Pids
    <3>2. QED
      BY <1>1, <3>1 DEF Family
  <2>2. QED
    BY <1>1, <2>1 DEF WitnessInv, HasRead
<1>6. CalmInv /\ FirstInv
  BY <1>1 DEF CalmInv, FirstInv, HasRead
<1>7. QED
  BY <1>2, <1>3, <1>4, <1>5, <1>6 DEF MainProcessInv

\* Each part of it holds in every state.
LEMMA MainProcessInvariance == Spec => []MainProcessInv
<1>1. Init => MainProcessInv
  BY MainProcessStart
<1>2. Inv /\ CallsInv /\ MainProcessInv /\ [Next]_vars => MainProcessInv'
  <2>1. SUFFICES ASSUME Inv, CallsInv, MainProcessInv, [Next]_vars
                 PROVE  MainProcessInv'
    OBVIOUS
  <2>2. OpenInv' /\ GoneInv' /\ OthersInv' /\ KinInv'
    BY <2>1, OpenStep, GoneStep, OthersStep, KinStep
    DEF MainProcessInv, CallsInv
  <2>3. WitnessInv' /\ CalmInv' /\ FirstInv'
    BY <2>1, <2>2, WitnessStep, CalmStep, FirstStep
  <2>4. QED
    BY <2>2, <2>3 DEF MainProcessInv
<1>3. QED
  BY <1>1, <1>2, Invariance, CallsInvariance, PTL DEF Spec

\* Whoever is returned besides the main process has a stat line, and its own
\* if it is still the B2G process it was when the scan began: only who died
\* after its file was opened may have another's (process.cpp:131-145).
THEOREM OthersWereRead == Spec => []ShownWereRead
<1>1. Inv /\ CallsInv /\ MainProcessInv => ShownWereRead
  <2>1. SUFFICES ASSUME Inv, CallsInv, MainProcessInv,
                        NEW m \in {"child", "b2g"}, NEW r \in returned[m],
                        NEW p \in Range(r) \ {main}
                 PROVE  ppidOf[p] # Unread /\ (p \in steady => p \notin misread)
    BY DEF ShownWereRead
  <2>2. r = Result(m) /\ Ready(m)
    BY <2>1 DEF CallsInv, ReturnInv, Methods
  <2>3. Range(<<>>) = {}
    BY DEF Range
  <2>4. gotChildren /\ p \in Range(unordered)
    <3>1. CASE m = "child"
      BY <2>1, <2>2, <3>1 DEF Result, Ready, CallsInv, ChildInv
    <3>2. CASE m = "b2g"
      BY <2>1, <2>2, <2>3, <3>2, B2GIsFamily
    <3>3. QED
      BY <2>1, <3>1, <3>2
  <2>5. Judged(Len(unordered) + 1)
    BY <2>1, <2>4 DEF CallsInv, CacheInv, StatInv
  <2>6. PICK i \in 1..Len(unordered) : unordered[i] = p
    BY <2>1, <2>4, ListFacts DEF Inv
  <2>7. i < Len(unordered) + 1
    BY <2>1, ListFacts DEF Inv
  <2>8. ppidOf[p] # Unread
    BY <2>1, <2>5, <2>6, <2>7 DEF Judged
  <2>9. QED
    BY <2>1, <2>8 DEF MainProcessInv, GoneInv
<1>2. QED
  BY <1>1, Invariance, CallsInvariance, MainProcessInvariance, PTL

\* Two different processes are at least two.
LEMMA TwoProcesses ==
  ASSUME NEW S \in SUBSET Pids, NEW p \in S, NEW q \in S, p # q
  PROVE  Cardinality(S) >= 2
<1>1. IsFiniteSet(Pids)
  BY ProcFSAssumption, FS_Interval DEF Pids
<1>2. IsFiniteSet(S) /\ Cardinality(S) \in Nat
  BY <1>1, FS_Subset, FS_CardinalityType
<1>3. /\ IsFiniteSet({p}) /\ Cardinality({p}) = 1
  BY FS_Singleton
<1>4. Cardinality({p} \cup {q}) = 2
  BY <1>3, FS_AddElement
<1>5. {p} \cup {q} \in SUBSET S
  OBVIOUS
<1>6. Cardinality({p} \cup {q}) <= Cardinality(S)
  BY <1>2, <1>5, FS_Subset
<1>7. QED
  BY <1>2, <1>4, <1>6

\* The main process is found for a reason, and so is an error: while the
\* family stays as it is and its stat lines can be read, the process found is
\* its only root, and the tool gives up only with two roots or none; and each
\* way in which it may otherwise go wrong is named (processlist.cpp:81-109).
THEOREM Justified == Spec => []MainIsJustified
<1>1. Inv /\ MainProcessInv => MainIsJustified
  <2>1. SUFFICES ASSUME Inv, MainProcessInv
                 PROVE  MainIsJustified
    OBVIOUS
  <2>2. Roots \in SUBSET Pids /\ rootsSeen \in SUBSET Pids
    BY <2>1 DEF Roots, Family, Inv, TypeOK, FamilyTypeOK
  <2>3. ASSUME Calm
        PROVE  /\ main # 0 /\ pc \notin {"main", "exited"} => Roots = {main}
               /\ fatal = "twoMains" => Cardinality(Roots) >= 2
               /\ fatal = "notFound" => Family = {}
    <3>1. /\ main # 0 /\ pc \notin {"main", "exited"} => Roots = {main}
          /\ fatal = "twoMains" => \E p, q \in Roots : p # q
          /\ fatal = "notFound" => Family = {}
      BY <2>1, <2>3 DEF MainProcessInv, CalmInv
    <3>2. QED
      BY <2>2, <3>1, TwoProcesses
  <2>4. ASSUME fatal = "twoMains", Range(unordered) \subseteq steady,
               misread = {}
        PROVE  Cardinality(rootsSeen) >= 2
    BY <2>1, <2>2, <2>4, TwoProcesses DEF MainProcessInv, WitnessInv
  <2>5. fatal = "notFound" /\ ~reused /\ IsRoot => steady = {}
    BY <2>1 DEF MainProcessInv, FirstInv
  <2>6. QED
    BY <2>3, <2>4, <2>5 DEF MainIsJustified
<1>2. QED
  BY <1>1, Invariance, MainProcessInvariance, PTL

=============================================================================
