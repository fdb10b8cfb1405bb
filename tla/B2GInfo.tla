------------------------------- MODULE B2GInfo -------------------------------
(***************************************************************************)
(* b2g-info/b2g-info.cpp: what the tool prints about the B2G processes and *)
(* in which order it reads it, a system call at a time, while they exec,   *)
(* die and give their pids to others.  Of ProcessList, only what           *)
(* RegularList promises is used: one regular answer, or exit(2).           *)
(*                                                                         *)
(* A cell of a table is a heading and a value.  Values are numbers: a pid, *)
(* a size, Known for any other value that could be read and Unknown for    *)
(* what the code shows instead (-1 or "?").  What ProcessList has already   *)
(* read of a stat line, or failed to read, counts as Known.                *)
(***************************************************************************)
EXTENDS ProcFS, Table, SequencesExt

CONSTANTS
  IsRoot,     \* whether the tool may read the links of others
  Options,    \* the command lines to try
  PssOf,      \* PssOf[p]: the sum of the Pss lines of p, in kB
  MaxThreads  \* the threads of a process beside its first (a bound)

ASSUME B2GInfoAssumption ==
  /\ IsRoot \in BOOLEAN
  /\ Options \subseteq {"info", "threads", "pids", "main", "child", "help",
                        "unknown", "many"}
  /\ PssOf \in [Pids -> Nat]
  /\ MaxThreads \in Nat

VARIABLES
  option,   \* the command line
  pc,       \* what the tool does next
  code,     \* the exit status, NoCode until the tool exits
  list,     \* what b2g_processes() answers
  row,      \* the position of the loop in list
  gotMem,   \* the pids with m_got_meminfo
  pss,      \* m_pss_kb
  threads,  \* the threads of list[row] still to be printed
  table,    \* the table of processes
  printed,  \* the pids printed, with a row each or on a line
  total,    \* b2g_mem_kb
  steady,   \* history: the family's members ever since the look-up began
  seen      \* history: its members at some time of the look-up

world == <<procVars, steady, seen>>
toolVars == <<option, pc, code, list, row, gotMem, pss, threads, table,
              printed, total>>
vars == <<world, toolVars>>

NoCode == -1
Unknown == -1
Known == 1
Heading == -2   \* the value of the cells of a row of headings
Aborted == 134  \* the status of a tool killed by an assert

Listing == {"pids", "main", "child"}
Showing == {"info", "threads"}

TypeOK ==
  /\ ProcTypeOK
  /\ option \in Options
  /\ pc \in {"start", "find", "look", "pids", "row", "smaps", "oom", "user",
             "tasks", "thread", "next", "print", "meminfo", "sum", "lmk",
             "exited"}
  /\ code \in {NoCode, 0, 1, 2, Aborted}
  /\ list \in Seq(Pids) /\ printed \in Seq(Pids)
  /\ row \in 1..Len(list) + 1
  /\ gotMem \subseteq Pids /\ pss \in [Pids -> Nat \cup {Unknown}]
  /\ threads \in 0..MaxThreads /\ total \in Int
  /\ steady \subseteq Pids /\ seen \subseteq Pids

Init ==
  /\ ProcInit
  /\ option \in Options
  /\ pc = "start" /\ code = NoCode
  /\ list = <<>> /\ row = 1
  /\ gotMem = {} /\ pss = [p \in Pids |-> Unknown]
  /\ threads = 0 /\ table = EmptyTable /\ printed = <<>> /\ total = 0
  /\ steady = {} /\ seen = {}

-----------------------------------------------------------------------------
(***************************************************************************)
(* main()                                                                  *)
(***************************************************************************)
Goto(label) ==
  /\ pc' = label
  /\ UNCHANGED <<option, code>>

ExitWith(status) ==
  /\ pc' = "exited" /\ code' = status
  /\ UNCHANGED <<world, option, list, row, gotMem, pss, threads, table,
                 printed, total>>

BadUsage ==
  /\ pc = "start" /\ option \in {"unknown", "many"}
  /\ ExitWith(1)

Help == pc = "start" /\ option = "help" /\ ExitWith(0)

\* print_b2g_info() sets the header of its table before it looks for the
\* processes, and their headings, unless it shows threads.
Headings(id) ==
  <<"NAME", id, "PPID", "CPU(s)", "NICE", "USS", "PSS", "RSS", "SWAP", "VSIZE",
    "OOM_ADJ", "USER">>
\* One add() after another.
AddCells(t, cells) == [t EXCEPT !.rows[Len(t.rows)].cells = @ \o cells]
AddHeadings(t, id) ==
  AddCells(StartRow(t), [i \in 1..12 |-> <<Headings(id)[i], Heading>>])
Header == MultiColHeader(EmptyTable, 9, 3, 7)

Begin ==
  /\ pc = "start" /\ option \in Listing \cup Showing
  /\ Goto("find")
  /\ table' = CASE option = "info" -> AddHeadings(Header, "PID")
                [] option = "threads" -> Header
                [] OTHER -> table
  /\ UNCHANGED <<world, list, row, gotMem, pss, threads, printed, total>>

-----------------------------------------------------------------------------
(***************************************************************************)
(* The look-up of the B2G processes, as far as RegularList and the order   *)
(* of b2g_processes() determine its answer.                                *)
(***************************************************************************)
BeginLook ==
  /\ pc = "find"
  /\ Goto("look")
  /\ steady' = Family /\ seen' = Family
  /\ UNCHANGED <<procVars, list, row, gotMem, pss, threads, table,
                 printed, total>>

Answers ==
  IF IsRoot THEN {found \in SUBSET seen : steady \subseteq found} ELSE {{}}

\* The main process, and the others by their pids.
Ordered(main, found) ==
  {l \in [1..Cardinality(found) -> found] :
     /\ l[1] = main
     /\ \A j \in 2..Cardinality(found) :
          l[j] # main /\ \A k \in 2..j - 1 : l[k] < l[j]}

\* /proc cannot be read, two main processes are found or, for those who ask
\* for the main process, none.
LookFails == pc = "look" /\ ExitWith(2)

Found ==
  /\ pc = "look"
  /\ \E found \in Answers :
       /\ \/ found = {} /\ option \in Showing /\ list' = <<>>
          \/ \E main \in found : list' \in Ordered(main, found)
  /\ Goto(IF option \in Listing THEN "pids" ELSE "row")
  /\ UNCHANGED <<world, row, gotMem, pss, threads, table, printed, total>>

-----------------------------------------------------------------------------
(***************************************************************************)
(* print_b2g_pids()                                                        *)
(***************************************************************************)
PrintPids ==
  /\ pc = "pids"
  /\ printed' = CASE option = "pids" -> list
                  [] option = "main" -> <<Head(list)>>
                  [] option = "child" -> Tail(list)
  /\ pc' = "exited" /\ code' = 0
  /\ UNCHANGED <<world, option, list, row, gotMem, pss, threads, table,
                 total>>

-----------------------------------------------------------------------------
(***************************************************************************)
(* print_b2g_info(): the rows of the table.                                *)
(***************************************************************************)
\* What a field shows, given whether it could be read.
Shown(read) == IF read THEN Known ELSE Unknown

\* Mistake: the loop stops one process early.
AllButLast == row < Len(list)

MoreRows == row <= Len(list)

\* The cells that come from the stat line, which main_process() has read.
BeginRow(p) ==
  /\ pc = "row" /\ MoreRows /\ p = list[row]
  /\ Goto("smaps")
  /\ LET t == IF option = "threads" THEN AddHeadings(table, "TID") ELSE table
         id == IF option = "threads" THEN "TID" ELSE "PID"
     IN table' = AddCells(StartRow(t),
                   << <<"NAME", Known>>, <<id, p>>, <<"PPID", Known>>,
                      <<"CPU(s)", Known>>, <<"NICE", Known>> >>)
  /\ printed' = Append(printed, p)
  /\ UNCHANGED <<world, list, row, gotMem, pss, threads, total>>

\* ensure_got_meminfo(): the file is there for a zombie too, and empty, as it
\* is for a process that dies or execs while it is read.
Smaps(p) == IF Exists(p) THEN {0, PssOf[p]} ELSE {Unknown}

\* Mistake: the sizes are read again at each call.
PssNow(p) == Smaps(p)

Pss(p) == IF p \in gotMem THEN {pss[p]} ELSE Smaps(p)

ReadSmaps(p) ==
  /\ pc = "smaps" /\ p = list[row]
  /\ Goto("oom")
  /\ \E kb \in Pss(p) :
       LET got == Shown(kb # Unknown) IN
       /\ pss' = [pss EXCEPT ![p] = kb]
       /\ table' = AddCells(table,
                     << <<"USS", got>>, <<"PSS", kb>>, <<"RSS", got>>,
                        <<"SWAP", got>>, <<"VSIZE", got>> >>)
  /\ gotMem' = gotMem \cup {p}
  /\ UNCHANGED <<world, list, row, threads, printed, total>>

\* Mistake: a file that cannot be read counts as 0.
ZeroWithoutFile(p) == IF Exists(p) THEN Known ELSE 0

\* get_int_file()
IntFile(p) == Shown(Exists(p))

ReadOomAdj(p) ==
  /\ pc = "oom" /\ p = list[row]
  /\ Goto("user")
  /\ table' = AddCell(table, <<"OOM_ADJ", IntFile(p)>>)
  /\ UNCHANGED <<world, list, row, gotMem, pss, threads, printed, total>>

ReadUser(p) ==
  /\ pc = "user" /\ p = list[row]
  /\ Goto(IF option = "threads" THEN "tasks" ELSE "next")
  /\ table' = AddCell(table, <<"USER", Shown(Exists(p))>>)
  /\ UNCHANGED <<world, list, row, gotMem, pss, threads, printed, total>>

\* Mistake: the first thread counts as well.
AllThreads == 1..MaxThreads + 1

\* threads() leaves out the first thread, the process itself.
OtherThreads == 0..MaxThreads

\* Mistake: a directory of tasks that cannot be opened is opened again.
RetryTasks(p) == IF Live(p) THEN "thread" ELSE "tasks"

\* A directory of tasks that cannot be opened has no threads.
AfterTasks(p) == "thread"

\* Process::threads()
ReadTasks(p) ==
  /\ pc = "tasks" /\ p = list[row]
  /\ Goto(AfterTasks(p))
  /\ threads' \in IF Live(p) THEN OtherThreads ELSE {0}
  /\ UNCHANGED <<world, list, row, gotMem, pss, table, printed, total>>

\* The name, the tid and the niceness of a thread, or what Thread's stat
\* line leaves of them.
ShowThread ==
  /\ pc = "thread" /\ threads > 0
  /\ Goto("thread")
  /\ table' = AddCells(StartRow(table),
                << <<"NAME", Known>>, <<"TID", Known>>, <<"NICE", Known>> >>)
  /\ threads' = threads - 1
  /\ UNCHANGED <<world, list, row, gotMem, pss, printed, total>>

EndThreads ==
  /\ pc = "thread" /\ threads = 0
  /\ Goto("next")
  /\ table' = IF row < Len(list) THEN AddDelimiter(table) ELSE table
  /\ UNCHANGED <<world, list, row, gotMem, pss, threads, printed, total>>

NextRow ==
  /\ pc = "next"
  /\ Goto("row")
  /\ row' = row + 1
  /\ UNCHANGED <<world, list, gotMem, pss, threads, table, printed,
                 total>>

EndRows ==
  /\ pc = "row" /\ ~MoreRows
  /\ Goto("print")
  /\ UNCHANGED <<world, list, row, gotMem, pss, threads, table, printed,
                 total>>

Abort == pc = "print" /\ ~AssertsHold(table) /\ ExitWith(Aborted)

PrintTable ==
  /\ pc = "print" /\ AssertsHold(table)
  /\ Goto("meminfo")
  /\ UNCHANGED <<world, list, row, gotMem, pss, threads, table, printed,
                 total>>

-----------------------------------------------------------------------------
(***************************************************************************)
(* print_system_meminfo() and print_lmk_params()                           *)
(***************************************************************************)
\* /proc/meminfo cannot be opened or lacks a field.
MeminfoFails ==
  /\ pc = "meminfo"
  /\ Goto("lmk")
  /\ UNCHANGED <<world, list, row, gotMem, pss, threads, table, printed,
                 total>>

BeginSum ==
  /\ pc = "meminfo"
  /\ Goto("sum")
  /\ row' = 1
  /\ UNCHANGED <<world, list, gotMem, pss, threads, table, printed,
                 total>>

AddPss(p) ==
  /\ pc = "sum" /\ row <= Len(list) /\ p = list[row]
  /\ Goto("sum")
  /\ \E kb \in Pss(p) :
       total' = total + kb /\ pss' = [pss EXCEPT ![p] = kb]
  /\ gotMem' = gotMem \cup {p}
  /\ row' = row + 1
  /\ UNCHANGED <<world, list, threads, table, printed>>

EndSum ==
  /\ pc = "sum" /\ row > Len(list)
  /\ Goto("lmk")
  /\ UNCHANGED <<world, list, row, gotMem, pss, threads, table, printed,
                 total>>

\* The parameters of the low-memory killer have nothing to do with the
\* processes; print_b2g_info() returns 0.
PrintLmk == pc = "lmk" /\ ExitWith(0)

-----------------------------------------------------------------------------
ProcessRow(p) ==
  \/ BeginRow(p) \/ ReadSmaps(p) \/ ReadOomAdj(p) \/ ReadUser(p) \/ ReadTasks(p)

Step ==
  \/ BadUsage \/ Help \/ Begin \/ BeginLook \/ LookFails \/ Found \/ PrintPids
  \/ ShowThread \/ EndThreads \/ NextRow \/ EndRows \/ Abort \/ PrintTable
  \/ MeminfoFails \/ BeginSum \/ EndSum \/ PrintLmk
  \/ \E p \in Pids : ProcessRow(p) \/ AddPss(p)

\* The rest of the system, between two steps of the tool.
World ==
  /\ pc # "exited"
  /\ ProcNext
  /\ steady' = IF pc = "look" THEN steady \cap Family' ELSE steady
  /\ seen' = IF pc = "look" THEN seen \cup Family' ELSE seen
  /\ UNCHANGED toolVars

Next == Step \/ World

Spec == Init /\ [][Next]_vars

\* The tool is scheduled.
FairSpec == Spec /\ WF_vars(Step)

-----------------------------------------------------------------------------
\* The rows of the processes, without those of headings and of threads.
ProcessRows ==
  {r \in 1..Len(table.rows) :
     /\ Len(table.rows[r].cells) = 12
     /\ table.rows[r].cells[1][2] # Heading}
Cell(r, heading) ==
  LET c == CHOOSE c \in ToSet(table.rows[r].cells) : c[1] = heading IN c[2]
ThreadsUnder(r) ==
  r < Len(table.rows) /\ Len(table.rows[r + 1].cells) = 3

\* A run that ends well has shown whoever was a B2G process all through the
\* look-up (to root), nobody who was one at no time of it, and nobody twice;
\* -m and -c show the two parts of what -p shows.
ReportIsRegular ==
  code = 0 /\ option \in Listing \cup Showing =>
    LET whole == IF option = "main" THEN printed \o Tail(list)
                 ELSE IF option = "child" THEN <<Head(list)>> \o printed
                 ELSE printed
    IN /\ IsRoot => steady \subseteq ToSet(whole)
       /\ ToSet(whole) \subseteq seen
       /\ Len(whole) = Cardinality(ToSet(whole))

\* When pids are not reused, a row tells one story: once a process is gone,
\* everything read after that is unknown, so that no row shows sizes that
\* could not be read beside an OOM_ADJ, a user or threads that could
\* (b2g-info.cpp:299-324).
RowsTellOneStory ==
  ~reused =>
    \A r \in ProcessRows :
      /\ Cell(r, "PSS") = Unknown => Cell(r, "OOM_ADJ") = Unknown
      /\ Cell(r, "OOM_ADJ") = Unknown => Cell(r, "USER") = Unknown
      /\ Cell(r, "USER") = Unknown => ~ThreadsUnder(r)

\* "B2G procs (PSS)" is the sum of the PSS column above it, down to the -1
\* of those that could not be read, although processes die between the two
\* tables (b2g-info.cpp:175-179, process.cpp:322-324).
TotalMatchesRows ==
  pc = "sum" /\ row > Len(list) =>
    total = MapThenSumSet(LAMBDA r : Cell(r, "PSS"), ProcessRows)

\* The tool ends, whatever the processes do.
Ends == <>(pc = "exited")

\* The asserts of the table hold (table.cpp:142-143), also when no process
\* is found: "This can happen when we're not running as root"
\* (processlist.cpp:173).
AssertsNeverFail == code # Aborted
=============================================================================
