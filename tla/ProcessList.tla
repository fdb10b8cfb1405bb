----------------------------- MODULE ProcessList -----------------------------
(***************************************************************************)
(* b2g-info/processlist.cpp and the parts of process.cpp it rests on: the  *)
(* singleton that finds the B2G processes by reading /proc one system call *)
(* at a time while processes are forked, exec other images and die, and    *)
(* that caches whatever it read.                                           *)
(*                                                                         *)
(* The client is the most general one: it calls any public method, any     *)
(* number of times, in any order.  b2g-info is one such client.  The       *)
(* methods call each other along one chain,                                *)
(*     all -> unordered -> main -> child -> b2g,                           *)
(* so that a call enters the chain at the first cache that is empty.       *)
(***************************************************************************)
EXTENDS ProcFS, Sequences, Functions

CONSTANT IsRoot   \* whether the tool may read /proc/<pid>/exe of others

ASSUME IsRootAssumption == IsRoot \in BOOLEAN

VARIABLES
  \* the caches of ProcessList
  all,          \* m_all_processes
  unordered,    \* m_unordered_b2g_processes
  main,         \* m_main_process, 0 for NULL
  gotChildren,  \* m_got_child_processes
  children,     \* m_child_processes
  b2g,          \* m_b2g_processes
  \* the caches of the Process objects
  gotExe,       \* the pids with m_got_exe
  exeOf,        \* m_exe: an image, or "" when readlink failed
  gotStat,      \* the pids with m_got_stat
  ppidOf,       \* m_ppid, Unread when it could not be read
  \* control
  pc,           \* the loop being run
  call,         \* the public method being called
  idx,          \* the position of the loop in the list it walks
  cursor,       \* the position of readdir: the least pid still to be listed
  stat,         \* ppid() of unordered[idx]: "closed" before it is called,
                \* the stat file "open", or its process "dead", and "read"
  buf,          \* the ppid in the line ensure_got_stat() last read
  fatal,        \* why the tool exited with status 2
  \* history
  steady,       \* the family's members ever since the scan began
  seen,         \* its members at some time since the scan began
  rootsSeen,    \* its main processes at some time since the scan began
  misread,      \* the pids whose ppid field could not be read
  looked,       \* whether a look-up of the family has ended
  returned      \* the values each method has returned

listCaches == <<all, unordered, main, gotChildren, children, b2g>>
taskCaches == <<gotExe, exeOf, gotStat, ppidOf>>
control == <<pc, call, idx, cursor, stat, buf, fatal>>
family == <<steady, seen, rootsSeen>>
history == <<misread, looked, returned>>
vars == <<procVars, listCaches, taskCaches, control, family, history>>

\* m_ppid when the ppid could not be read.
Unread == -1

Methods == {"all", "unordered", "main", "child", "b2g"}
Labels == {"idle", "opendir", "readdir", "exe", "main", "child", "b2g",
           "return", "exited"}

ListTypeOK ==
  /\ all \in Seq(Pids) /\ unordered \in Seq(Pids)
  /\ children \in Seq(Pids) /\ b2g \in Seq(Pids)
  /\ main \in Pids \cup {0} /\ gotChildren \in BOOLEAN

TaskTypeOK ==
  /\ gotExe \subseteq Pids /\ exeOf \in [Pids -> Images \cup {""}]
  /\ gotStat \subseteq Pids /\ ppidOf \in [Pids -> Unread..MaxPid]

ControlTypeOK ==
  /\ pc \in Labels /\ call \in Methods
  /\ idx \in Nat \ {0} /\ cursor \in 1..MaxPid + 1
  /\ stat \in {"closed", "open", "dead", "read"} /\ buf \in Unread..MaxPid
  /\ fatal \in {"no", "opendir", "twoMains", "notFound"}

FamilyTypeOK ==
  /\ steady \subseteq Pids /\ seen \subseteq Pids /\ rootsSeen \subseteq Pids

HistoryTypeOK ==
  /\ misread \subseteq Pids /\ looked \in BOOLEAN
  /\ returned \in [Methods -> SUBSET Seq(Pids \cup {0})]

TypeOK == /\ ProcTypeOK /\ ListTypeOK /\ TaskTypeOK
          /\ ControlTypeOK /\ FamilyTypeOK /\ HistoryTypeOK

Init ==
  /\ ProcInit
  /\ all = <<>> /\ unordered = <<>> /\ children = <<>> /\ b2g = <<>>
  /\ main = 0 /\ gotChildren = FALSE
  /\ gotExe = {} /\ exeOf = [p \in Pids |-> ""]
  /\ gotStat = {} /\ ppidOf = [p \in Pids |-> Unread]
  /\ pc = "idle" /\ call = "all" /\ idx = 1 /\ cursor = 1
  /\ stat = "closed" /\ buf = Unread /\ fatal = "no"
  /\ steady = Family /\ seen = Family /\ rootsSeen = Roots
  /\ misread = {} /\ looked = FALSE /\ returned = [m \in Methods |-> {}]

-----------------------------------------------------------------------------
(***************************************************************************)
(* Calls and returns.                                                      *)
(***************************************************************************)
Cached(m) ==
  \/ m = "all" /\ all # <<>>
  \/ m = "unordered" /\ unordered # <<>>
  \/ m = "main" /\ main # 0
  \/ m = "child" /\ gotChildren
  \/ m = "b2g" /\ b2g # <<>>

\* Mistake: child_processes() does not ask for the main process first.
EntryWithoutMain(m) ==
  IF Cached(m) THEN "return"
  ELSE IF all = <<>> THEN "opendir"
  ELSE IF unordered = <<>> THEN "exe"
  ELSE IF ~gotChildren THEN "child" ELSE "b2g"

\* The loop a call of m runs first.
Entry(m) ==
  IF Cached(m) THEN "return"
  ELSE IF all = <<>> THEN "opendir"
  ELSE IF unordered = <<>> THEN "exe"
  ELSE IF main = 0 THEN "main"
  ELSE IF ~gotChildren THEN "child" ELSE "b2g"

Call(m) ==
  /\ pc = "idle"
  /\ call' = m /\ pc' = Entry(m) /\ idx' = 1
  /\ UNCHANGED <<procVars, listCaches, taskCaches, cursor, stat, buf, fatal,
                 family, history>>

\* What the method returns from its caches.  Without any B2G process,
\* b2g_processes() returns the unordered list.
Result(m) ==
  CASE m = "all" -> all
    [] m = "unordered" -> unordered
    [] m = "main" -> <<main>>
    [] m = "child" -> children
    [] m = "b2g" -> IF unordered = <<>> THEN unordered ELSE b2g

Return ==
  /\ pc = "return"
  /\ pc' = "idle" /\ call' = "all" /\ idx' = 1
  /\ returned' = [returned EXCEPT ![call] = @ \cup {Result(call)}]
  /\ UNCHANGED <<procVars, listCaches, taskCaches, cursor, stat, buf, fatal,
                 family, misread, looked>>

\* exit(2)
Die(reason) ==
  /\ pc' = "exited" /\ fatal' = reason /\ stat' = "closed"
  /\ UNCHANGED <<procVars, listCaches, taskCaches, call, idx, cursor, buf,
                 family, history>>

-----------------------------------------------------------------------------
(***************************************************************************)
(* all_processes()                                                         *)
(***************************************************************************)
OpendirFails == pc = "opendir" /\ Die("opendir")

Opendir ==
  /\ pc = "opendir"
  /\ pc' = "readdir" /\ cursor' = 1
  /\ steady' = Family /\ seen' = Family /\ rootsSeen' = Roots
  /\ UNCHANGED <<procVars, listCaches, taskCaches, call, idx, stat, buf, fatal,
                 history>>

\* The next numeric entry of /proc: the pids come in increasing order.
Readdir(p) ==
  /\ pc = "readdir"
  /\ Exists(p) /\ cursor <= p
  /\ \A q \in Pids : cursor <= q /\ q < p => ~Exists(q)
  /\ all' = Append(all, p) /\ cursor' = p + 1
  /\ UNCHANGED <<procVars, unordered, main, gotChildren, children, b2g,
                 taskCaches, pc, call, idx, stat, buf, fatal, family, history>>

ReaddirEnds ==
  /\ pc = "readdir"
  /\ \A q \in Pids : cursor <= q => ~Exists(q)
  /\ pc' = (IF call = "all" THEN "return" ELSE "exe") /\ idx' = 1
  /\ UNCHANGED <<procVars, listCaches, taskCaches, call, cursor, stat, buf,
                 fatal, family, history>>

-----------------------------------------------------------------------------
(***************************************************************************)
(* unordered_b2g_processes() and Process::exe()                            *)
(***************************************************************************)
Readlink(p) == IF IsRoot /\ Live(p) THEN exe[p] ELSE ""

\* Mistake: the link is read again at each call of exe().
ImageNow(p) == Readlink(p)

\* exe(): the link is read once.
ImageOf(p) == IF p \in gotExe THEN exeOf[p] ELSE Readlink(p)

\* Mistakes: only one of the two images is looked for; any image will do.
IsMainImage(image) == image = "b2g"
IsAnyImage(image) == image # ""

IsB2GImage(image) == image \in B2GExes

ReadExe(p) ==
  /\ pc = "exe" /\ idx <= Len(all) /\ p = all[idx]
  /\ gotExe' = gotExe \cup {p}
  /\ exeOf' = [exeOf EXCEPT ![p] = ImageOf(p)]
  /\ unordered' = IF IsB2GImage(ImageOf(p)) THEN Append(unordered, p)
                                            ELSE unordered
  /\ idx' = idx + 1
  /\ UNCHANGED <<procVars, all, main, gotChildren, children, b2g, gotStat,
                 ppidOf, pc, call, cursor, stat, buf, fatal, family, history>>

ExeEnds ==
  /\ pc = "exe" /\ idx > Len(all)
  /\ pc' = IF call = "unordered" \/ (call = "b2g" /\ unordered = <<>>)
           THEN "return" ELSE "main"
  /\ idx' = 1 /\ looked' = TRUE
  /\ UNCHANGED <<procVars, listCaches, taskCaches, call, cursor, stat, buf,
                 fatal, family, misread, returned>>

-----------------------------------------------------------------------------
(***************************************************************************)
(* main_process() and Task::ensure_got_stat()                              *)
(***************************************************************************)
\* ensure_got_stat() up to fopen() of /proc/<pid>/stat.  m_got_stat is set
\* first: a second call returns at once, also after a failure.
OpenStat(p) ==
  /\ pc = "main" /\ idx <= Len(unordered) /\ p = unordered[idx]
  /\ stat = "closed"
  /\ gotStat' = gotStat \cup {p}
  /\ stat' = IF p \notin gotStat /\ Exists(p) THEN "open" ELSE "read"
  /\ misread' = IF p \in gotStat \/ Exists(p) THEN misread
                                             ELSE misread \cup {p}
  /\ UNCHANGED <<procVars, listCaches, gotExe, exeOf, ppidOf, pc, call, idx,
                 cursor, buf, fatal, family, looked, returned>>

\* What fgets() leaves in the buffer: the line of p; or, when p died after
\* the file was opened, what was there before: rubbish, or the line of an
\* earlier call of ensure_got_stat().  The line of a SCHED_FIFO task has a
\* negative priority, which the regular expression does not match.
Lines(p) ==
  IF stat = "open" THEN {IF p \in fifo THEN Unread ELSE ppid[p]}
  ELSE {Unread, buf}

ReadStat(p) ==
  /\ pc = "main" /\ idx <= Len(unordered) /\ p = unordered[idx]
  /\ stat \in {"open", "dead"}
  /\ \E line \in Lines(p) :
       buf' = line /\ ppidOf' = [ppidOf EXCEPT ![p] = line]
  /\ misread' = IF stat = "open" /\ p \notin fifo THEN misread
                                                  ELSE misread \cup {p}
  /\ stat' = "read"
  /\ UNCHANGED <<procVars, listCaches, gotExe, exeOf, gotStat, pc, call, idx,
                 cursor, fatal, family, looked, returned>>

\* The body of the loop, once ppid() has returned, with or without a line.
Judging(p) ==
  /\ pc = "main" /\ idx <= Len(unordered) /\ p = unordered[idx]
  /\ stat = "read"

\* Mistakes: only the children of the main process count as children; a
\* process with an unknown parent counts as one.
IsChildOfMain(p) == ppidOf[p] = main
IsNotRoot(p) == ppidOf[p] \in Range(unordered) \cup {Unread}

HasListedParent(p) == ppidOf[p] \in Range(unordered)

\* Mistake: a `continue` that goes past ++it.
JudgeChildAgain(p) ==
  /\ Judging(p) /\ HasListedParent(p)
  /\ stat' = "closed"
  /\ UNCHANGED <<procVars, listCaches, taskCaches, pc, call, idx, cursor, buf,
                 fatal, family, history>>

JudgeChild(p) ==
  /\ Judging(p) /\ HasListedParent(p)
  /\ idx' = idx + 1 /\ stat' = "closed"
  /\ UNCHANGED <<procVars, listCaches, taskCaches, pc, call, cursor, buf,
                 fatal, family, history>>

JudgeMain(p) ==
  /\ Judging(p) /\ ~HasListedParent(p)
  /\ main = 0
  /\ main' = p /\ idx' = idx + 1 /\ stat' = "closed"
  /\ UNCHANGED <<procVars, all, unordered, gotChildren, children, b2g,
                 taskCaches, pc, call, cursor, buf, fatal, family, history>>

JudgeSecondMain(p) ==
  /\ Judging(p) /\ ~HasListedParent(p)
  /\ main # 0
  /\ Die("twoMains")

NoMain ==
  /\ pc = "main" /\ idx > Len(unordered)
  /\ main = 0
  /\ Die("notFound")

MainEnds ==
  /\ pc = "main" /\ idx > Len(unordered)
  /\ main # 0
  /\ pc' = (IF call = "main" THEN "return" ELSE "child") /\ idx' = 1
  /\ UNCHANGED <<procVars, listCaches, taskCaches, call, cursor, stat, buf,
                 fatal, family, history>>

-----------------------------------------------------------------------------
(***************************************************************************)
(* child_processes() and b2g_processes()                                   *)
(***************************************************************************)
IsChild(p) == p # main

AddChild(p) ==
  /\ pc = "child" /\ idx <= Len(unordered) /\ p = unordered[idx]
  /\ children' = IF IsChild(p) THEN Append(children, p) ELSE children
  /\ idx' = idx + 1
  /\ UNCHANGED <<procVars, all, unordered, main, gotChildren, b2g, taskCaches,
                 pc, call, cursor, stat, buf, fatal, family, history>>

ChildrenEnd ==
  /\ pc = "child" /\ idx > Len(unordered)
  /\ gotChildren' = TRUE
  /\ pc' = IF call = "child" THEN "return" ELSE "b2g"
  /\ UNCHANGED <<procVars, all, unordered, main, children, b2g, taskCaches,
                 call, idx, cursor, stat, buf, fatal, family, history>>

Order ==
  /\ pc = "b2g"
  /\ b2g' = <<main>> \o children
  /\ pc' = "return"
  /\ UNCHANGED <<procVars, all, unordered, main, gotChildren, children,
                 taskCaches, call, idx, cursor, stat, buf, fatal, family,
                 history>>

-----------------------------------------------------------------------------
AllProcesses == OpendirFails \/ Opendir \/ ReaddirEnds
                  \/ \E p \in Pids : Readdir(p)
UnorderedB2GProcesses == ExeEnds \/ \E p \in Pids : ReadExe(p)
MainProcess == NoMain \/ MainEnds
                 \/ \E p \in Pids : \/ OpenStat(p) \/ ReadStat(p)
                                    \/ JudgeChild(p) \/ JudgeMain(p)
                                    \/ JudgeSecondMain(p)
ChildProcesses == ChildrenEnd \/ \E p \in Pids : AddChild(p)

\* The tool inside a call.
Step ==
  \/ AllProcesses \/ UnorderedB2GProcesses \/ MainProcess
  \/ ChildProcesses \/ Order \/ Return

\* The rest of the system, between two steps of the tool.
World ==
  /\ ProcNext
  /\ stat' = IF stat = "open" /\ exe'[unordered[idx]] = "none" THEN "dead"
                                                            ELSE stat
  /\ steady' = steady \cap Family'
  /\ seen' = seen \cup Family'
  /\ rootsSeen' = rootsSeen \cup Roots'
  /\ UNCHANGED <<listCaches, taskCaches, pc, call, idx, cursor, buf, fatal,
                 history>>

Next == Step \/ World \/ \E m \in Methods : Call(m)

Spec == Init /\ [][Next]_vars

\* The tool is scheduled, and no one makes it call a method.
FairSpec == Spec /\ WF_vars(Step)

-----------------------------------------------------------------------------
(***************************************************************************)
(* What a caller may rely on.                                              *)
(***************************************************************************)
\* The reported processes are regular: everyone who was a B2G process all
\* through the look-up is reported (to root), and everyone reported was a
\* B2G process at some time of it; pids are listed first and their images
\* read much later (processlist.cpp:58-63, 152-158).
ListedRegular ==
  looked => /\ IsRoot => steady \subseteq Range(unordered)
            /\ Range(unordered) \subseteq seen

\* "Once you call a method once, it will return the same object for all
\* future calls" (processlist.h:29-31), also where a cache that stays empty
\* is filled again at each call; and the returns fit together, in whatever
\* order the methods are called: b2g_processes() is "equal to [main_process]
\* + [child_processes]" (processlist.h:54), and reports the processes of
\* unordered_b2g_processes(), each once (processlist.cpp:139, 165).
ReturnsAgree ==
  /\ \A m \in Methods : Cardinality(returned[m]) <= 1
  /\ \A b \in returned["b2g"] :
       /\ \A m \in returned["main"], c \in returned["child"] : b = m \o c
       /\ \A u \in returned["unordered"] : /\ Range(b) = Range(u)
                                           /\ Len(b) = Len(u)

\* The main process is found for a reason, and so is an error: while no
\* process joins or leaves the family and all their stat lines can be read,
\* it is the only root of the family, and the tool gives up only when there
\* are two roots or none.  Otherwise, two main processes were really there
\* during the look-up, unless a listed process left the family or hid its
\* stat line; and, as long as pids are not reused, the tool misses the main
\* process only when nobody was a B2G process all through the look-up
\* (processlist.cpp:81-109).
Calm == IsRoot /\ steady = seen /\ misread = {}
MainIsJustified ==
  /\ Calm => /\ main # 0 /\ pc \notin {"main", "exited"} => Roots = {main}
             /\ fatal = "twoMains" => Cardinality(Roots) >= 2
             /\ fatal = "notFound" => Family = {}
  /\ fatal = "twoMains" =>
       \/ Cardinality(rootsSeen) >= 2
       \/ ~(Range(unordered) \subseteq steady)
       \/ misread # {}
  /\ fatal = "notFound" /\ ~reused /\ IsRoot => steady = {}

\* Only the main process may be shown without a stat line: m_utime, m_stime
\* and m_name of a Process are never initialised (process.cpp:28-37).  What a
\* look-up returns besides it has a line, however the others die or hide their
\* lines in between: its own, whenever it has been a B2G process all along;
\* only one that left after its file was opened may have got the line that an
\* earlier call left in the buffer (process.cpp:131-145).
ShownWereRead ==
  \A m \in {"child", "b2g"} : \A r \in returned[m] :
    \A p \in Range(r) \ {main} :
      /\ ppidOf[p] # Unread
      /\ p \in steady => p \notin misread

\* "Fatal error: Two B2G main processes found" (processlist.cpp:100) is said
\* only if two main processes were there during the look-up.
TwoMainsMeansTwo == fatal = "twoMains" => Cardinality(rootsSeen) >= 2

\* Every call ends: it returns, or the tool exits.
CallsEnd == pc # "idle" ~> pc \in {"idle", "exited"}

-----------------------------------------------------------------------------
\* The reported set is the one answer of a regular list.
Regular == INSTANCE RegularList
  WITH must <- IF IsRoot THEN steady ELSE {},
       may <- seen,
       answers <- IF looked THEN {Range(unordered)} ELSE {}

RegularSpec == Regular!Spec
=============================================================================
