# Verification of gonk-misc

TLA+ models of the native tools and services of gonk-misc (the B2G glue layer),
the TLC configurations that check them, and TLAPS proofs of all their safety
properties. Paths such as `src/b2g-info/processlist.cpp` are those of the repository.

What makes this code hard is not its size. Every tool in it looks at *other*
processes, through `/proc`, one system call at a time, while these processes
fork, exec, die and give their pids to others; and it then acts on what it saw,
or prints it, or caches it. Nothing in the repository tests that. The models
therefore make each system call a step of its own and let the rest of the
system move between any two of them.

## 1. Inventory

| Component | State | Operations | Hard behaviour | What makes it correct |
|---|---|---|---|---|
| `ProcessList` (`b2g-info/processlist.*`) | five lazily filled caches: all processes, the B2G processes, the main process, its children, and the four in order | `all_processes`, `unordered_b2g_processes`, `main_process`, `child_processes`, `b2g_processes` | pids are listed long before their images are read, images before parents; caches are validated by their size; `exit(2)` in the middle | the answer is *regular* (who stayed is in, who never was is not), it never changes, it is main-then-children, and the fatal errors are justified |
| `Process`, `Task`, `Thread` (`b2g-info/process.*`) | per-process caches of `exe`, the stat line, the memory sizes, the threads | `exe`, `ppid`, `name`, `nice`, `vsize_kb`, `rss_kb`, `pss_kb`, `oom_adj`, `user`, `threads`, ... | a file that opens and then has nothing to read; caches that are set before the read, so that failures are final | each value is that of the process, or says that it is unknown |
| `b2g-info` (`b2g-info/b2g-info.cpp`) | the table it builds, the sum of sizes, the buffer of `read_whole_file` | `main`, `print_b2g_pids`, `print_b2g_info`, `print_system_meminfo`, `print_lmk_params` | one row is read by many system calls; the second table is read after the first; files are rewritten between two reads of them | a row tells one story, the total is that of the rows, the figures add up, the rows of the thresholds pair the two lists, the tool ends |
| `Table` (`b2g-info/table.*`) | rows, one header over several columns | `start_row`, `add`, `add_fmt`, `add_delimiter`, `multi_col_header`, `print`, `print_with_indent` | widths that depend on all rows; off-by-one in the header; asserts | alignment; the header spans its columns; the asserts are sufficient |
| `utils` (`b2g-info/utils.*`) | none | `strip`, `str_to_int`, `pages_to_kb` and its like, `safe_opendir` | signs, blanks, tails, overflow | decimal numerals, and nothing else, are read, as the numbers they denote |
| `b2g-prlimit` | the limits of all processes (kernel) | set one process's core limit, or walk `/proc` and set all | forks that straddle the scan; pids that are reused behind it | whoever stays during the scan is limited |
| `killer` | the list of pids checked so far | check all arguments, then send | checked processes die, or are replaced, before they are signalled | all-or-nothing; each gets its signals, as they were spelled; nobody who never ran B2G gets one |
| `gonksched` | priority and group of threads (kernel), a binder thread pool | `onTransact`, `requestPriority` | several workers at once, each check-then-act in three system calls | only what was granted is `SCHED_FIFO`; one request decides |
| `fakeappops`, `fakebattery` | none | stubs | none | |
| `b2g.sh`, `init.b2g.rc` | `/data/core`, `/system/b2g` and its backup, limits, mounts | core dumps, recovery, exec; init starts it again | a kill, a crash or a loss of power between two commands; commands that fail and are not looked at; limits that are inherited | dumps for whom they were asked for and nobody else; `/system` read-only; b2g always comes back |
| `b2g-ps`, `b2g-procrank` | none | filter the output of `ps`, `procrank` | the same staleness as above | not modelled (section 8) |
| `add-revision.py` | the manifest being rewritten, its output | parse with includes, ask git, write | lists that change while they are walked; several git commands that nobody checks, while the repository moves | includes replaced in place; the output is touched only when all revisions are known |

Interactions: `b2g-info` is a client of `ProcessList`, `Table` and `utils`. `b2g.sh` runs
`b2g-prlimit` and then becomes b2g; init runs it again when it ends. `gonksched` turns tasks
`SCHED_FIFO`, which is what makes `Task::ensure_got_stat()` fail to parse the stat lines of such
tasks. All the tools share one kernel process table.

The hazards, each at the line where it bites and with the properties that
cover it, are listed in `PROJECT.json`.

## 2. Modules

| Module | Models | Uses |
|---|---|---|
| `ProcFS` | the kernel's process table, as the tools observe it (external) | |
| `ProcessList` | `processlist.cpp` and what it uses of `process.cpp` | `ProcFS`, refines `RegularList` |
| `RegularList` | the abstract specification of `ProcessList` | |
| `Prlimit` | `b2g-prlimit.cpp` | `ProcFS` |
| `Killer` | `killer.cpp` | `ProcFS` |
| `B2GInfo` | `b2g-info.cpp` and the rest of `process.cpp` | `ProcFS`, `Table` |
| `Table`, `TableClient` | `table.cpp` as operators, and any client of it | |
| `Utils` | the conversions of `utils.cpp`, as operators | |
| `SystemInfo` | `read_whole_file()`, `print_system_meminfo()` and `print_lmk_params()` of `b2g-info.cpp` | `Utils` |
| `GonkSched` | `gonksched.cpp` | |
| `Boot` | `b2g.sh` and its service in `init.b2g.rc` | the contract of `Prlimit` |
| `AddRevision` | `add-revision.py` | |
| `ProcFSProofs`, `ProcessListProofs`, `PrlimitProofs`, `KillerProofs`, `GonkSchedProofs`, `BootProofs`, `AddRevisionProofs` | theorems about the module they are named after, and their proofs | that module, and those of `ProcFSProofs` |
| `B2GInfoProofs` | theorems about `B2GInfo`, `SystemInfo` and `TableClient`, whose names are disjoint | the three, `ProcFSProofs` |
| `MC*` | small process tables, command lines, requests, texts and manifests for TLC | |

### ProcFS

`exe[p]` is what `/proc/p/exe` links to: `b2g`, `plugin` (plugin-container),
`other`; `zombie` for a process that has exited and has not been waited for, and
`none` for a free pid. `ppid[p]` is the fourth field of its stat line. `fifo` holds
the tasks that are `SCHED_FIFO`; the priority field of those is negative. The
actions are `Fork`, `Exec`, `Exit` (leaving a zombie or nothing; orphans become
children of init), `Reap` and `SetFifo`. `Launches` says who executes what; init
keeps at most one b2g of its own (`init.b2g.rc`). Linux hands out growing pids and
wraps around at `pid_max`, which it may have done at any fork: `Fork` takes any free
pid, and the history variable `reused` tells whether it has taken one that was not
greater than all before it. The properties that need growing pids are stated for
the behaviours up to the first reuse; a table in which some process has a parent with
a greater pid is one where pids have wrapped around before the tool starts. Initial
tables are trees (`Tree`): all processes descend from init, and parents are alive, as
the kernel sees to by giving orphans to init.

### ProcessList

Each variable is a member of the classes (named beside it), and each action one
system call or the code between two of them. A call of a public method enters
the chain all - unordered - main - child - b2g at the first cache that is empty
(`Entry`) and leaves it after the loop of its own cache. The caller is the most
general one: any method, any number of times, in any order.

`Opendir`, `Readdir`, `ReaddirEnds` are lines 46-70; `ReadExe` is the loop of
`unordered_b2g_processes()` with `Process::exe()`; `OpenStat` and `ReadStat` are
the two halves of `ensure_got_stat()`, and `JudgeChild`, `JudgeMain` and
`JudgeSecondMain` the rest of the loop of `main_process()`; `AddChild` and `Order`
the last two methods. `exit(2)` is the state `exited` with its reason in `fatal`. `ppid()` calls
`ensure_got_stat()` once and returns whatever is known then, so that `stat` goes from
`closed` to `read` also when the file cannot be opened, or was tried before.
`ReadStat` also models the unchecked `fgets()` (process.cpp:145): for a process
that dies after `fopen()`, the buffer has what was on the stack, which is either
no stat line at all, or the line of an earlier call of the same function.

History variables: `steady` and `seen` are who was a B2G process all through the
look-up, and at some time of it.

### RegularList

One answer is given, once and for all; it contains `must` and is contained in
`may`. `ProcessList` implements it with `must <- steady`, `may <- seen` and the
set of listed pids as the answer. `B2GInfo` is written on top of this contract,
not of the code behind it: `Answers` is exactly the choice `Decide` leaves.

### Prlimit

`main()` with its checks in their order, and the scan. `fork()` takes two steps
(`BeginFork` copies the limit, `EndFork` makes the child visible), because the
kernel copies the limits some time before the child is in `/proc`. A process in a
fork does not exit or exec, being busy.

### Killer

A pid or signal argument is what `strtol()` makes of it: whether there were digits, the
number, whether anything is left. The loop of checks (`Accept`, `Reject`), then the loop
of signals (`Kill`). `members` are the processes that have run a B2G program since the
tool started, whoever was checked; `strangers` those that were signalled without ever
having been one.

### B2GInfo, Table, TableClient

`B2GInfo` follows `print_b2g_info()` row by row: the cells that come from the
cached stat line, the sizes (`ReadSmaps`), `oom_adj`, the user, the threads; then
the table is printed (or an assert fails), then the memory summary adds the
cached sizes. A cell is a heading and a value; a value is a number where a
property compares it and else only says whether it could be read. `Table` has the
methods of `table.cpp` as operators on a value, and the layout that
`print_with_indent()` gives it as places and lengths; `TableClient` calls them in
any order `table.h` allows.

### SystemInfo and Utils

The two tables below the processes. A text is a sequence of characters; `Utils` has `strip()`,
both families of `str_to_int()`, `pages_to_kb()` and `kb_to_mb()`, with the width of a long.
`read_whole_file()` is one action per system call: `Open`, `ReadSome` (a read may be short),
`ReadEnds`, and `OpenFails` and `ReadFails`; `at` is the file that is being read, `part` the
stage of reading it. `SetThresholds` rewrites `adj` and `minfree` at any moment; the kernel
makes the text of an open file at the first `read()` (`content`). The lines of `/proc/meminfo`
are taken at one stroke, and only their names and numbers kept.

### GonkSched

`owner[t]` is the process of thread `t`; `prio[t]` and `group[t]` are what the
service changes. Each worker of the pool takes a request (`Receive`), then runs
`Check`, `Access`, `SetGroup`, `SetScheduler`, one system call each. The last two may
fail on any thread, and always do when it is gone; the service goes on after the first
and returns after the second. A transaction for another interface is denied, and one of
another code passed on (`OtherTransaction`). The threads
die, start others (which inherit priority and group) and give their tids away
(`reused` tells when that has happened). The ids in requests are positive, as the
ids of processes and threads are. `cause[t]` has the requests that thread `t` owes
its priority to, and `mixed` the threads for which two requests overlapped, or
which began between the two system calls of one; `halves` those for which the last
request that changed anything got only one of its two calls through. What
`set_sched_policy()` does on a kernel without scheduling groups is not modelled: it is a
library's affair, and both its outcomes are there.

### Boot

The script has one action per command, from `GetProp` to `Exec`; `pc` is the command it runs
next, `off` and `running` are init's view of the service. `Start` is init, which forks it with
its own limits. `b2g-prlimit` is there by its contract, which `PrlimitProofs` proves: who is
there all through the scan is limited (`todo`), while `ForkService`, `ServiceAppears` and
`ServiceDies` let one more service of the class main inherit its limits from init and show up
behind or before the scan. The faults are `Kill`, `PowerLoss`, and the failure (`Fail`) of
`getprop`, `mkdir`, `chmod`, either `echo`, `ulimit`, `b2g-prlimit` as a whole or any one of its
calls, each `mount`, `mv` and `exec`; the script goes on after each, and looks at two of them
only to log it. `SetProp` and `BackUp` and `Install`, an update that takes b2g away for a while,
may happen in between. What a loss of power undoes, and what it leaves, is what tells the
variables apart. `marks` holds what went wrong, in this run of the script or, of `/data/core`,
ever; `missed` whom the limits did not reach in this run.

### AddRevision

`parse_manifest()` is a stack of frames; the loops over the includes and over the children of an
included manifest have their own lists, as in the code, and `Move` takes one child at a time.
`stack` has the documents under construction and the includes each loop has still to come to,
`todo` the projects that the last loop has. `FindRev`, `FindTag` and `FindRef` are the three git
commands of a project, each of which may fail: it then prints nothing, or, as `git rev-parse
HEAD` does in a repository without commits, the word `HEAD`, and the script takes that for an
answer; or git cannot be run at all, which ends the script (`CannotRunGit`). `World` checks out
another commit at any moment; `overtaken` are the projects for which it did between their three
commands, `unanswered` those for which one of the three failed. The elements are includes,
projects and others.

## 3. Runs

| Run | Checks | Shows |
|---|---|---|
| `ProcessList_calls` | `TypeOK` `ListedRegular` `ReturnsAgree` `MainIsJustified` `ShownWereRead` `RegularSpec` `CallsEnd` | any sequence of calls while processes fork, exec, die, turn `SCHED_FIFO` and take over pids: regular answers that never change, in the promised order, exact when nothing moves; every fatal error has a reason; only the main process may be shown without a stat line, and nobody who stayed with another's; the look-up implements `RegularList`; every call returns or exits |
| `Prlimit_scan` | `TypeOK` `SteadyLimited` `CleanScanIsComplete` | all command lines: who stays gets the limit; as long as no pid is reused, a scan that ends while no `fork()` holds an old limit is complete, for good |
| `Killer_run` | `TypeOK` `AllOrNothing` `EachGetsItsSignals` `SentAsSpelled` `OnlyB2GProcesses` | good and bad command lines while the named processes die or run other programs: all checks before all signals, each signal as it was spelled, none for a stranger unless pids are reused |
| `B2GInfo_report` | `TypeOK` `RowsTellOneStory` `ReportIsRegular` `TotalMatchesRows` `Ends` | every option: the right processes, once; a row never shows a later reading next to an earlier failure; the two tables agree; the tool ends |
| `TableClient_layout` | `Aligned` `HeaderSpansItsColumns` | every small table: cells are aligned, headers span their columns, and the asserts protect all that is read |
| `SystemInfo_report` | `ReadsOneText` `ReadsNumerals` `FiguresAsReported` `RowsPairTheLists` `ReadingEnds` | every short text in one file, lists of different lengths in the two others, `/proc/meminfo` with and without swap: one text is read and no more than fits; numerals and nothing else are numbers; the figures are those of the kernel and add up; row n pairs the n-th items; every reading ends |
| `GonkSched_serve` | `TypeOK` `FifoIsGranted` `OneRequestDecides` | two workers, seven requests: for the same threads, for a process that may not have begun, of an application, for another interface; threads that come and go, system calls that fail: only what was granted is `SCHED_FIFO`, one request decides |
| `Boot_start` | `TypeOK` `CoreDirUsable` `DumpsIfAsked` `NoDumpsUnasked` `SystemReadOnly` `B2GComesBack` | both kinds of builds, every value of the property, with and without `/system/b2g`, four faults, failures of any command among them, and two changes anywhere: core dumps for those they were asked for and nobody else, as far as the calls for them worked; `/system` read-only, b2g always back |
| `AddRevision_expand` | `TypeOK` `Flattened` `RevisionsAreHeads` `CommentsTellTags` | nested, repeated, cyclic, missing manifests with all options, while git fails, answers `HEAD` or cannot be run, and a repository moves |

Runs that find a disagreement (section 7): `ProcessList_twomains`, `Prlimit_all`,
`B2GInfo_asserts`.

Deadlock is not checked: the tools exit, the service may have no request left to
serve, the script has become b2g, and the bound on the changes of the world stops
the rest.

### Bounds

- `MaxPid` (4 to 6): init, b2g, one or two content processes and a pid to fork into.
  That is enough for two main processes, for a nested child, for a free pid
  in front of and behind the scan, and for a process named twice.
- `MaxChurn` (1 to 3 changes of the table): a pid that is freed and taken again needs
  exit and fork, and one more change for the new process to run another image. The
  shortest counterexamples to the violated properties need one or two.
  `ProcessList_calls` and `Prlimit_scan` have three changes.
- `MaxThreads = 1`: none or one thread beside the first, enough for the two shapes
  of rows and delimiters.
- `MaxRows`, `MaxCells` in `TableClient`: the widths of three rows and columns with
  short and long cells, headers that fit, overlap the end, are too long for
  their columns, and are malformed.
- `SystemInfo`: `LongMax = 99` stands for 2^31 - 1, so that numerals of
  three digits overflow it in both directions, `PageSize = 8` and `Kilo = 2` for 4096
  and 1024, so that a number of pages overflows too; `Room = 5` for the 1023 bytes of the
  buffer, so that a text may fit, fill it or be cut. An int is as wide as a long, as on
  the devices: the cut of one to the other (utils.cpp:113 and 135, and likewise in
  killer.cpp) changes nothing. `notify_trigger` has any text of up
  to four characters, the lists up to six characters and three items.
- `MaxFaults = 4`, `MaxSets = 2` in `Boot`: the first start may be cut short, the second
  fail in two commands, and the third still see what both have left; an `all` that
  is taken back needs two changes of the property. What is proved needs no bound.
- `MaxDepth = 4`, `MaxMoves = 1` in `AddRevision`: three manifests, one in the other,
  end within the depth, and a cycle does not; one commit that changes, at any moment and
  path, is enough to come between two of the three commands of a project, and enough to
  come elsewhere. Each project's commands may fail independently.
- `Workers` in `GonkSched`: two, which are alike (`SYMMETRY`, as the run has no liveness); all the
  interference is between two requests for the same thread. All requests are in the queue from the start, in no order: one
  that is sent late is one that is received late.

## 4. Fairness

Only the program's own steps are fair. `ProcessList!FairSpec` and `B2GInfo!FairSpec` have
`WF_vars(Step)`: the tool is a runnable process and the kernel schedules it. Nothing is assumed
of the rest of the system, and none is assumed of the caller of `ProcessList`, who may never
call again. `SystemInfo!FairSystemSpec` has weak fairness for `ReadWholeFile` only, the one loop
that could go on for ever. `Boot!FairSpec` has weak fairness for the script, a runnable process,
and for `Start`: the service is neither `disabled` nor `oneshot` (init.b2g.rc:12-14), so that
init starts it again. That b2g comes back each time needs the faults to stop for long enough,
which the bound on them says, and an update to finish while b2g runs or to leave a backup. Of
`gonksched` no liveness is checked: its handlers are straight code without a loop or a wait, and
binder replies in any case.

That a look-up ends depends on each turn of a loop moving its iterator, on whatever
branch it leaves: the mutant of `CallsEnd` is a branch of `main_process()` that goes back to
the head of the loop without `++it`. It does not depend on `m_got_stat`, as `ppid()` does
not loop.

## 5. What is proved

Proofs hold for every number of pids, threads and workers, every initial table, command
line, set of requests and tree of manifests, every bound, root or not. They assume the
named assumptions on the constants, which TLC evaluates in each run:

- `ProcFSAssumption`: init runs and pids are 1..MaxPid; `TreeAssumption`: the initial table
  is a tree under init, which is no B2G process and has no parent;
- `GonkSchedAssumption`: threads and requests are sets of the right shape, and nobody is 0;
- `AddRevisionAssumption`: manifests are sequences of elements; a commit id is none of the
  words that the model writes for a tag, a given revision or the lack of one;
- `SystemInfoAssumption`: the files are texts, and the buffer has room for a character;
- `UtilsAssumption`: the digits stand for 0 to 9 and are neither signs, blanks nor commas; a
  page is a whole number of kilobytes, and its size divides the range of a long, as a power of
  two does. Nothing is said of the size of a long;
- `TableClientAssumption`: a cell has at most the 127 characters of the buffer of `add_fmt()`;
- `IsRootAssumption`, `PrlimitAssumption`, `KillerAssumption`, `B2GInfoAssumption` and
  `BootAssumption`: the options are the tool's and the bounds are numbers.

None of these invariants is inductive as it stands. In each module below, `Inv` (or the
invariant named) is the strengthening that is; TLC has checked it on the runs' instances
(with the witnesses of `IsSum` and `HalfMoved` computed, where a quantifier ranges over all
functions or sequences).

### Recursion and induction

Totals, numerals, widths and the expansion of manifests are defined by recursive functions or
by folds of the library. What such a definition gives for an argument of any length is proved
in two steps, without any induction theorem that takes an operator:

- that there is a function that satisfies the recursive equation (`Recursion`, `FoldExists`,
  `SumExists`, `IterationExists`): the functions up to n, each of which extends the one
  before, are put together. A `CHOOSE` of such a function is then one (`SumIs`, `FlatRule`,
  `EndsRule`, `CutsExist`, `AppendsExist`, `SplitsExist`);
- what holds of its values, by induction with sets for predicates: `InductionUp` says that a set
  that has 0 and, with each number, the next, has them all. It follows from `WFMin` and
  `NatLessThanWellFounded`, which speak of sets.

`ProcFSProofs` has the lemmas that the other tools' proofs use: `ProcStep` (a change of the
table keeps it well typed, and init running) and `TreeStep` (it leaves a tree: parents live,
nobody descends from himself, and without reuse of pids each is greater than its
parent's; a set of processes without cycles is what makes a family have a root).

`ProcessListProofs`:

- `TypeCorrect`: `Spec => []TypeOK`.
- `Regularity`: `Spec => []ListedRegular`. The invariant `Inv` adds
  - `FamilyInv`: `steady` is part of the family and the family of `seen`; init runs
    (so the list of all processes is not empty once the scan has passed it);
  - `ScanInv`: the scan has listed the steady processes it has passed, and a list
    once made is never made again, which is what makes later re-entries
    through the size-checked caches harmless;
  - `ExeInv`: a cached image tells membership in the family at the time it was read;
  - `LookInv`: the B2G processes listed so far are exactly those found in the part
    of the list walked so far, also on a second walk;
  - `MainInv`: behind `main_process()`, there is a main process.
- `Refinement`: `Spec => RegularSpec`, each step maps to `Begin`, `Drift`, `Decide` or a
  stutter; the one delicate case is a second walk over an empty list, which must
  give the same empty answer, by `LookInv`.
- `CallsAgree`: `Spec => []ReturnsAgree`, by `CallsInv`: where the chain of methods is for each
  call (`ChainInv`), that each cache is filled once and in order (`CacheInv`), that the lists
  are in the order of `/proc`, hence without repetition (`RisingInv`), that the children are the
  others (`ChildInv`), and that what was returned is what would be returned now (`ReturnInv`).
- `OthersWereRead`: `Spec => []ShownWereRead`, by `GoneInv`: whoever's own stat line was not
  read has none at all, unless it has left the family.
- `Justified`: `Spec => []MainIsJustified`, by `MainProcessInv` on top of `CallsInv`: what the stat
  line in the buffer can be (`OpenInv`), what it says of a process that stays (`KinInv`,
  `WitnessInv`), what the loop has concluded while the family is calm (`CalmInv`), and
  that the first of the list has no listed parent when pids grow (`FirstInv`).

`B2GInfoProofs`, whose invariant is `WorldInv` (the table of processes), `ToolInv` (the types;
the loops stay within the list), and:

- `ListInv` and `PrintedInv`: the list is one regular answer without repetition, and what
  has been printed is its beginning; from them `RegularReport`: `Spec => []ReportIsRegular`;
- `MemInv`: without reuse of pids, sizes that could not be read are those of a process that
  has gone; `LastInv`: what the row under construction says so far agrees with what the
  process now is; `StoryInv`: the rows that are finished tell one story, and the headings
  between them are headings; from them `OneStoryEach`: `Spec => []RowsTellOneStory`;
- `TypeCorrect`: `Spec => []TypeOK`;
- `TotalIsSum`: `Spec => []TotalMatchesRows`, by `SumInv`. `RowsCounted`: the rows of processes that
  are complete and the part of the list that has been passed correspond one to one, and
  each shows the size that the cache keeps; `LastCounted` says so of the row under
  construction; `Summed`: `total` is the sum over the list as far as the second loop has come.
  The two sums are the same by `SumsRenamed`, which sums along a bijection.

Then, of the two tables below the processes, with `SystemSpec` for the program and
`SystemInv` for its invariant:

- `OneTextRead`: `SystemSpec => []ReadsOneText`. `BufferInv`: the buffer has a prefix of
  the text that the kernel made at the first `read()`, however the file is rewritten;
  `WholeInv`: the loop ends with all of it, or with a full buffer;
- `NumeralsRead`: `SystemSpec => []ReadsNumerals`. `NumeralConverts` and `ConvertsNumeral`: after
  `strip()`, the loop of `str_to_int()` gives a number exactly to what is a numeral, within the
  range of a long, and gives it the number that the digits denote;
- `FiguresReported`: `SystemSpec => []FiguresAsReported`. `MemoryInv`: what is printed
  has been computed from lines that all were there; that the differences add up to the
  totals is arithmetic on `pages_to_kb()` and its like, with the mark -1 excepted;
- `ListsPaired`: `SystemSpec => []RowsPairTheLists`. `ListsInv`: each list is made of all
  that its file held, if it could be read to its end, and the rows of both. Beneath
  it, `CutsExist` and `CutsCount`: for a text of any length, the items that `getline()` finds are
  what stands between one comma and the next, and the n-th of them behind n - 1 commas;
  `LongsHold`: a product that a long can hold is not changed by its width;

and of any client of `Table` (`ClientSpec`), with `SheetInv` (what was laid out passed the asserts):

- `SheetTypes`: `ClientSpec => []SheetInv`;
- `CellsAligned`: `ClientSpec => []Aligned`. `WidthIsMost`: the width of a column is that of its
  longest cell, so that each fits (`TextInColumn`); `ColumnsInOrder`: columns do not overlap;
- `HeaderPlaced`: `ClientSpec => []HeaderSpansItsColumns`. The place where a column begins is the
  sum of the widths before it (`ThroughIs`); these sums only grow (`ThroughAdds`), and the
  asserts keep the header's columns among those that the sums go through.

`KillerProofs`, with `PhaseInv` (where the two loops are), `PidsInv` (what was accepted is what
was named) and `CheckedInv` (without reuse, a pid that was accepted and exists is the process
that was looked at):

- `TypeCorrect`, `NothingUnlessAll` (`AllOrNothing`);
- `OnlyAsSpelled` (`SentAsSpelled`), by `SpelledInv`: what is sent is `Signum`, which the check
  of the signal has let pass;
- `NoStrangers` (`OnlyB2GProcesses`), by `CheckedInv`: the check sees a B2G image at one moment,
  and its pid, while it exists, is nobody else's until the signal;
- `OneSignalEach` (`EachGetsItsSignals`): `SignalsInv` counts the signals of each pid against
  the rounds of the loop that named it, at most one for each, exactly one while it stays.

`GonkSchedProofs`:

- `TypeCorrect`: `Spec => []TypeOK`;
- `OnlyGranted`: `Spec => []FifoIsGranted`. `WorkerInv`: what a worker past its checks knows of its
  request still holds when it acts on it, as without reuse a tid that belonged to a
  process does so for good (`Vouched`); `CauseInv`: each priority goes back to such a request;
- `OneDecides`: `Spec => []OneRequestDecides`. `GroupInv`: of two workers that change one thread
  the second has noticed, and else the group, if it was set, is that of the one worker
  (`GroupingInv`); `OneRequestInv`, which excepts the threads of `halves`.
  The attempt at this proof corrected the property. It had excepted reuse of tids and two
  requests at once; but a request may name a main thread that has not begun (gonksched.cpp:79
  does not look), have its group set to nothing, and find the thread there when it
  comes to the priority, without any reuse. `mixed` has these threads now, and the
  hypothesis about reuse is gone. The run has such a request.

`AddRevisionProofs`, with `ParsingInv` (each frame's includes are still among its children, and a
frame that waits for a call has one) and `MarkInv` (the projects passed have what they should,
those to come what they came with, and what the three commands have said of the current one
is what the repository has, as long as it is `Quiet`):

- `TypeCorrect`, `OnlyHeads` (`RevisionsAreHeads`), `OnlyTags` (`CommentsTellTags`);
- `IncludesReplaced`: `Spec => []Flattened`: the loops over lists that change make what the recursive
  `Flat` defines. `FlatInv` says of every frame which file it has (`FileAt`),
  that of the includes of this file those which the loop has still to come to are in their
  places, and all others are replaced by what `Flat` makes of them (`Expansion`); within the
  loop that moves the children, that those moved so far stand right before the include
  (`Replacement`). A manifest that has replaced its include
  is one whose own includes end (`Ends`), so that a cyclic one is never got past. Beneath it:
  `Regrouped` (`FlattenSeq()` of sequences joined), `PartExchanged` (one of the sequences
  replaced by another), and `IncludeExchanged`.
  `Flat` is a function of the level, then of the file, because of this proof.

`PrlimitProofs`:

- `TypeCorrect`: `Spec => []TypeOK`.
- `ScanReachesSteady`: `Spec => []SteadyLimited`. `Inv`: where the cursor is (`PhaseInv`), the
  cursor stays at most one past the last pid (`TableInv`), and the steady
  processes that have been handled are limited (`SteadyInv`).
- `CleanScan`: `Spec => []CleanScanIsComplete`. `CleanInv` extends this to *all* existing
  processes behind the cursor when pids grow: a new child has a pid above
  `lastPid`, which is at or behind the cursor, so the scan is still to come to it; and
  once the scan has ended clean, every copy of a limit in a fork is new.

`BootProofs`: `TypeCorrect`, `DumpsOnlyIfAsked` (`NoDumpsUnasked`), `DumpsWhenAsked`
(`DumpsIfAsked`), `CoreDir` (`CoreDirUsable`), `SystemClosed` (`SystemReadOnly`), all from one
invariant, since each alone says nothing of the middle of the script:

- `ReadInv`: the shell's COREDUMP is empty until it is read, never empty while it is
  acted on, and `all` is remembered; so a later start cannot confuse what this
  one was asked for with what init inherited from an earlier one;
- `LimitInv`: behind each command, what it should have written or raised is written or
  raised, or the call for it has failed; within the scan, b2g and init are limited, missed or
  still to come; `ServiceInv` says the same of the other service, unless it was late;
- `CoreInv`: `0750` is seen only between `mkdir` and `chmod`, or after a `chmod` that failed or a
  script that ended before it; else the directory gets its mode before anything else is done.

`TypeNext` and `SafetyNext` have one step per action; `FailCounts` and `ChangeCounts` are
all they need to know of the bounds.

## 6. What is only model-checked

Liveness (`CallsEnd`, `Ends`, `ReadingEnds`, `B2GComesBack`) needs `ENABLED`, which is
out of the prover's reach: that every call, report, reading and start of b2g comes to
its end is checked on the instances of section 3, under the fairness of section 4. The
properties of the three runs that find a disagreement are false, and refuted there.

The invariants of the other runs are all proved. TLC goes on checking them: its small
instances show that the interesting cases do occur, which a proof does not.

## 7. Disagreements found

1. `ProcessList_twomains`: "Fatal error: Two B2G main processes found" although
   there was one. A content process dies between `readlink()` and `fopen()`; its
   parent is -1, which is no listed process, so it counts as a main process.
2. `Prlimit_all`: "we should apply this to all processes" - a process forked from
   one that still had the old limit, and visible after the scan, keeps it.
3. `B2GInfo_asserts`: `b2g-info -t` with no processes to show fails an assert of
   `Table`, because the header is set and no headings are.

Smaller ones were met while translating and have no run of their own, because
reading two lines side by side shows them:

- killer.cpp:86-87 asks for `SIGRTn` with a non-negative n; `Signum` follows the code,
  which accepts `SIGRT` without digits as `SIGRT0`;
- b2g-info.cpp:284 says that the header "megabytes" sits atop USS/PSS/RSS/VSIZE; the
  columns 3 to 6 are CPU(s), NICE, USS and PSS;
- a thread's row has three cells (b2g-info.cpp:321-323), so that its niceness stands
  under PPID;
- utils.h:64 promises that a failed `str_to_int()` sets `*result` to 0; for `"7-"`, it
  leaves 7;
- gonksched.cpp:82 and 93 call the results of `requestPriority()` PERMISSION_DENIED and
  PERMISSION_GRANTED, but `onTransact()` (114) drops them and writes no reply;
- b2g.sh:7 enables core dumps "only on debug builds and if explicitly enabled": after
  an `all`, init keeps its limit, and later starts inherit it although the property
  has been cleared. `NoDumpsUnasked` therefore says "since the boot";
- b2g.sh:15 says what mode applications need; a script that ends between `mkdir` and
  `chmod`, or whose `chmod` fails, leaves 0750 (the umask) for ever, because the next one
  finds the directory. `CoreDirUsable` says that nothing else does;
- gonksched.cpp:84-90 sets a group and then a priority, and undoes neither when the other
  fails: the thread may keep the group of one request with the priority of another until
  a later request succeeds. `OneRequestDecides` excepts these threads;
- add-revision.py:108 says that a project "is tagged with" what may be a commit id:
  when another commit is checked out between the two commands that ask for the
  revision, or one of them fails, the comparison in line 107 takes the second answer
  for a tag. `CommentsTellTags` excepts a project when a commit was checked out at its path
  between its own three commands, or when one of the three failed, even if no harm came
  of it; it excepts no other.

## 8. Not modelled, and the plan

Not modelled because nothing runs, or nothing can go wrong: the build files,
policies and data; `fakebattery` and `fakeappops`, whose operations have no state and
give constant answers; `ticks_to_secs()`, a division, and `safe_opendir()`, a retry; the
names, formats and units of what is printed; of `b2g.sh` the directory for temporary
files, the limit of open files and the environment of b2g, which no other part
reads; of `init.b2g.rc` the other services. `b2g-ps` and `b2g-procrank` filter the output of
programs that are not in this repository, and keep nothing.

Planned: the rest of the stat line (name, niceness, times), of which the models only
know whether it was read; and `GonkSched` composed with `ProcFS`, so that `SetFifo` is
what the service grants.

Of the safety properties that the runs check none is left to prove. What the planned parts
would add is an invariant for the two together: that the tasks whose stat lines
`Task::ensure_got_stat()` cannot parse are those which `GonkSched` has granted `SCHED_FIFO`.
