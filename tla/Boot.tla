--------------------------------- MODULE Boot ---------------------------------
(***************************************************************************)
(* b2g.sh and the service of init.b2g.rc that runs it: a shell script that *)
(* enables core dumps, recovers /system/b2g from its backup and turns into *)
(* b2g.  init starts it again whenever it or b2g ends, and at each boot;   *)
(* it may be killed and the power may go at any step, while another        *)
(* service of the class main comes and goes.                               *)
(*                                                                         *)
(* b2g-prlimit is taken by its contract (PrlimitProofs!ScanReachesSteady): *)
(* whoever is there all through its scan is limited, others may be.        *)
(*                                                                         *)
(* Left out: the directory for temporary files, the limit of open files,   *)
(* the chown of a directory that root has made and owns (18), and the      *)
(* environment of b2g (52-71), which nothing else reads.                   *)
(***************************************************************************)
EXTENDS Naturals

CONSTANTS
  MaxFaults, \* kills, power losses and commands that fail (a bound)
  MaxSets    \* changes of the property and updates of b2g (a bound)

ASSUME BootAssumption == MaxFaults \in Nat /\ MaxSets \in Nat

VARIABLES
  \* what survives a loss of power
  debuggable, \* ro.debuggable, "0" or "1", fixed by the build
  property,   \* persist.debug.coredump
  core,       \* /data/core: "absent" or its mode
  dirs,       \* which of /system/b2g and /system/b2g.bak are there
  \* what does not
  pc,         \* what the script does next; "off" and "running" are init's
  coredump,   \* the variable COREDUMP of the shell
  system,     \* how /system is mounted
  pattern,    \* those of core_pattern and suid_dumpable that it has written
  limit,      \* limit[p]: the limit of core dumps of p
  service,    \* the other service: "down", "forking" or "up"
  todo,       \* the processes the scan of b2g-prlimit will still come to
  \* bounds and history
  faults, sets,
  missed,     \* who was not limited in this run of the script, because a call
              \* failed or the scan ended before it came to them
  marks       \* a set of marks:
  \* "torn": the script once ended between mkdir and chmod;
  \* "chmod": chmod once failed;
  \* "exposed": since the boot, it ended with /system mounted read-write, or
  \* could not mount it read-only;
  \* "all": "all" was read since the boot;
  \* "mkdir", "echo": it failed in this run of the script;
  \* "late": in this run, the other service was not yet in /proc when the scan
  \* began, or was forked later by an init that had no limit then

disk == <<debuggable, property, core, dirs>>
history == <<faults, sets, missed, marks>>
vars == <<disk, pc, coredump, system, pattern, limit, service, todo, history>>

\* "b2g" is the shell until it executes b2g.
Processes == {"init", "b2g", "service"}
Values == {"", "all", "b2g", "other"}
Dirs == {"b2g", "b2g.bak"}
PatternFiles == {"core_pattern", "suid_dumpable"}
Marks == {"torn", "chmod", "exposed", "all", "mkdir", "echo", "late"}
\* What is wrong with /data/core stays wrong.
LastingMarks == {"torn", "chmod"}

LabelTypeOK ==
  /\ debuggable \in {"0", "1"} /\ property \in Values
  /\ core \in {"absent", "0750", "0733"}
  /\ pc \in {"off", "getprop", "mkdir", "chmod", "pattern", "limits", "scan",
             "test", "remount-w", "mv", "remount-r", "exec", "running"}
  /\ coredump \in Values
  /\ system \in {"ro", "rw"}
  /\ service \in {"down", "forking", "up"}

SetTypeOK ==
  /\ dirs \subseteq Dirs /\ pattern \subseteq PatternFiles
  /\ todo \subseteq Processes /\ missed \subseteq Processes
  /\ marks \subseteq Marks

LimitTypeOK == limit \in [Processes -> {"none", "max"}]

CountTypeOK == faults \in 0..MaxFaults /\ sets \in 0..MaxSets

TypeOK == LabelTypeOK /\ SetTypeOK /\ LimitTypeOK /\ CountTypeOK

Init ==
  /\ debuggable \in {"0", "1"} /\ property \in Values /\ core = "absent"
  /\ dirs \in {{"b2g"}, {"b2g.bak"}}
  /\ pc = "off" /\ coredump = "" /\ system = "ro" /\ pattern = {}
  /\ limit = [p \in Processes |-> "none"] /\ service = "down" /\ todo = {}
  /\ faults = 0 /\ sets = 0 /\ missed = {} /\ marks = {}

\* Where the script is done with core dumps.
Recovering == {"test", "remount-w", "mv", "remount-r", "exec", "running"}

Goto(label) == pc' = label

\* A command may fail, and the script goes on.
Fail == faults < MaxFaults /\ faults' = faults + 1

\* Someone changes the property or updates b2g.
Change == sets < MaxSets /\ sets' = sets + 1

Mark(mark, condition) == marks \cup (IF condition THEN {mark} ELSE {})

-----------------------------------------------------------------------------
(***************************************************************************)
(* Core dumps.                                                             *)
(***************************************************************************)
\* init forks the script, which inherits its limits.
Start ==
  /\ pc = "off"
  /\ Goto("getprop")
  /\ limit' = [limit EXCEPT !["b2g"] = limit["init"]]
  /\ coredump' = "" /\ missed' = {}
  /\ marks' = marks \ {"mkdir", "echo", "late"}
  /\ UNCHANGED <<disk, system, pattern, service, todo, faults, sets>>

\* The property is read once, and on builds for debugging only; a getprop that
\* fails prints nothing.
GetProp ==
  /\ pc = "getprop"
  /\ \/ coredump' = (IF debuggable = "1" THEN property ELSE "")
        /\ UNCHANGED faults
     \/ Fail /\ coredump' = ""
  /\ marks' = Mark("all", coredump' = "all")
  /\ Goto(IF coredump' = "" THEN "test"
          ELSE IF core = "absent" THEN "mkdir" ELSE "pattern")
  /\ UNCHANGED <<disk, system, pattern, limit, service, todo, sets, missed>>

\* mkdir makes 0750 of the umask of 0027.
MkDir ==
  /\ pc = "mkdir"
  /\ Goto("chmod")
  /\ \/ core' = "0750" /\ UNCHANGED <<faults, marks>>
     \/ Fail /\ marks' = marks \cup {"mkdir"} /\ UNCHANGED core
  /\ UNCHANGED <<debuggable, property, dirs, coredump, system, pattern, limit,
                 service, todo, sets, missed>>

\* Mistakes: a mode under the umask; a mode that lets everyone read.
ModeUnderUmask == "0750"
ModeForAll == "0777"

\* "applications need write/execute to generate core but not read"
CoreMode == "0733"

\* Without the directory, chmod fails as well.
ChMod ==
  /\ pc = "chmod"
  /\ Goto("pattern")
  /\ \/ core = "absent" /\ UNCHANGED <<core, faults, marks>>
     \/ core # "absent" /\ core' = CoreMode /\ UNCHANGED <<faults, marks>>
     \/ core # "absent" /\ Fail /\ marks' = marks \cup {"chmod"}
        /\ UNCHANGED core
  /\ UNCHANGED <<debuggable, property, dirs, coredump, system, pattern, limit,
                 service, todo, sets, missed>>

\* Either echo may fail, or both.
Pattern ==
  /\ pc = "pattern"
  /\ Goto("limits")
  /\ \/ pattern' = PatternFiles /\ UNCHANGED <<faults, marks>>
     \/ Fail /\ marks' = marks \cup {"echo"}
        /\ \E lost \in SUBSET PatternFiles \ {{}} :
             pattern' = pattern \cup (PatternFiles \ lost)
  /\ UNCHANGED <<disk, coredump, system, limit, service, todo, sets, missed>>

\* Mistake: the limit is raised in a shell of its own.
InSubshell == limit["b2g"]

\* ulimit -c -1 changes the shell and what it executes.
Ulimit == "max"

\* Mistake: whatever is not "all" is taken for "b2g".
AsksForB2GOnly == coredump # "all"

AsksForB2G == coredump = "b2g"

Limits ==
  /\ pc = "limits"
  /\ Goto(IF coredump = "all" THEN "scan" ELSE "test")
  /\ \/ AsksForB2G /\ limit' = [limit EXCEPT !["b2g"] = Ulimit]
        /\ UNCHANGED <<faults, missed>>
     \/ AsksForB2G /\ Fail /\ missed' = {"b2g"} /\ UNCHANGED limit
     \/ ~AsksForB2G /\ UNCHANGED <<limit, faults, missed>>
  /\ todo' = IF coredump # "all" THEN {}
             ELSE {"init", "b2g"}
                    \cup (IF service = "up" THEN {"service"} ELSE {})
  /\ marks' = Mark("late", coredump = "all" /\ service = "forking")
  /\ UNCHANGED <<disk, coredump, system, pattern, service, sets>>

\* A call that fails is printed, and b2g-prlimit goes on to the next process.
Prlimit(p) ==
  /\ pc = "scan" /\ p \in todo
  /\ \/ limit' = [limit EXCEPT ![p] = "max"] /\ UNCHANGED <<faults, missed>>
     \/ Fail /\ missed' = missed \cup {p} /\ UNCHANGED limit
  /\ todo' = todo \ {p}
  /\ UNCHANGED <<disk, pc, coredump, system, pattern, service, sets, marks>>

ScanEnds ==
  /\ pc = "scan" /\ todo = {}
  /\ Goto("test")
  /\ UNCHANGED <<disk, coredump, system, pattern, limit, service, todo,
                 history>>

\* b2g-prlimit cannot be run, or cannot read /proc; nobody looks at its status.
ScanFails ==
  /\ pc = "scan" /\ Fail
  /\ Goto("test")
  /\ todo' = {} /\ missed' = missed \cup todo
  /\ UNCHANGED <<disk, coredump, system, pattern, limit, service, sets, marks>>

-----------------------------------------------------------------------------
(***************************************************************************)
(* The recovery of /system/b2g.                                            *)
(***************************************************************************)
\* Mistake: the backup is looked for where nothing is missing.
RecoversIfInstalled == Dirs \subseteq dirs

Recovers == dirs = {"b2g.bak"}

Test ==
  /\ pc = "test"
  /\ Goto(IF Recovers THEN "remount-w" ELSE "exec")
  /\ UNCHANGED <<disk, coredump, system, pattern, limit, service, todo,
                 history>>

RemountW ==
  /\ pc = "remount-w"
  /\ Goto("mv")
  /\ \/ system' = "rw" /\ UNCHANGED faults
     \/ Fail /\ UNCHANGED system
  /\ UNCHANGED <<disk, coredump, pattern, limit, service, todo, sets, missed,
                 marks>>

\* Mistake: the script gives up when the rename fails.
AfterFailedMv == "exec"

\* The script goes on when the rename fails.
AfterMv == "remount-r"

\* The rename fails when /system is still read-only.
Mv ==
  /\ pc = "mv"
  /\ \/ system = "rw" /\ dirs' = {"b2g"} /\ Goto("remount-r")
        /\ UNCHANGED faults
     \/ system = "ro" /\ UNCHANGED <<dirs, faults>> /\ Goto(AfterMv)
     \/ Fail /\ UNCHANGED dirs /\ Goto(AfterMv)
  /\ UNCHANGED <<debuggable, property, core, coredump, system, pattern, limit,
                 service, todo, sets, missed, marks>>

RemountR ==
  /\ pc = "remount-r"
  /\ Goto("exec")
  /\ \/ system' = "ro" /\ UNCHANGED <<faults, marks>>
     \/ Fail /\ marks' = marks \cup {"exposed"} /\ UNCHANGED system
  /\ UNCHANGED <<disk, coredump, pattern, limit, service, todo, sets, missed>>

\* exec fails when there is no b2g, or for another reason, and the shell ends.
Exec ==
  /\ pc = "exec"
  /\ \/ "b2g" \in dirs /\ Goto("running") /\ UNCHANGED faults
     \/ "b2g" \notin dirs /\ Goto("off") /\ UNCHANGED faults
     \/ Fail /\ Goto("off")
  /\ UNCHANGED <<disk, coredump, system, pattern, limit, service, todo, sets,
                 missed, marks>>

-----------------------------------------------------------------------------
Dumps == GetProp \/ MkDir \/ ChMod \/ Pattern \/ Limits \/ ScanEnds
           \/ ScanFails \/ \E p \in Processes : Prlimit(p)
Recovery == Test \/ RemountW \/ Mv \/ RemountR \/ Exec
Script == Dumps \/ Recovery

\* The script or b2g is killed.
Kill ==
  /\ pc # "off" /\ Fail
  /\ Goto("off")
  /\ todo' = {}
  /\ marks' = Mark("torn", pc = "chmod")
                \cup (IF pc \in {"mv", "remount-r"} THEN {"exposed"} ELSE {})
  /\ UNCHANGED <<disk, coredump, system, pattern, limit, service, sets,
                 missed>>

\* The power goes, and the device boots.
PowerLoss ==
  /\ Fail
  /\ Goto("off")
  /\ coredump' = "" /\ system' = "ro" /\ pattern' = {}
  /\ limit' = [p \in Processes |-> "none"] /\ service' = "down" /\ todo' = {}
  /\ missed' = {} /\ marks' = Mark("torn", pc = "chmod") \cap LastingMarks
  /\ UNCHANGED <<disk, sets>>

\* init forks the other service, which shows up in /proc later, and dies.
ForkService ==
  /\ service = "down"
  /\ service' = "forking"
  /\ limit' = [limit EXCEPT !["service"] = limit["init"]]
  /\ marks' = Mark("late", /\ coredump = "all" /\ limit["init"] = "none"
                          /\ pc \in Recovering \cup {"scan"})
  /\ UNCHANGED <<disk, pc, coredump, system, pattern, todo, faults, sets,
                 missed>>

\* A scan that is going on may have passed its pid, or not.
ServiceAppears ==
  /\ service = "forking"
  /\ service' = "up"
  /\ \/ UNCHANGED todo
     \/ pc = "scan" /\ todo' = todo \cup {"service"}
  /\ UNCHANGED <<disk, pc, coredump, system, pattern, limit, history>>

ServiceDies ==
  /\ service = "up" /\ Fail
  /\ service' = "down"
  /\ limit' = [limit EXCEPT !["service"] = "none"]
  /\ todo' = todo \ {"service"} /\ missed' = missed \ {"service"}
  /\ marks' = marks \ {"late"}
  /\ UNCHANGED <<disk, pc, coredump, system, pattern, sets>>

\* Someone sets the property, at any time.
SetProp ==
  /\ Change
  /\ property' \in Values \ {property}
  /\ UNCHANGED <<debuggable, core, dirs, pc, coredump, system, pattern, limit,
                 service, todo, faults, missed, marks>>

\* While b2g runs, an update moves it to the backup and installs another.
BackUp ==
  /\ pc = "running" /\ "b2g" \in dirs /\ Change
  /\ dirs' = {"b2g.bak"}
  /\ UNCHANGED <<debuggable, property, core, pc, coredump, system, pattern,
                 limit, service, todo, faults, missed, marks>>

Install ==
  /\ pc = "running" /\ "b2g" \notin dirs
  /\ dirs' \in {{"b2g"}, Dirs}
  /\ UNCHANGED <<debuggable, property, core, pc, coredump, system, pattern,
                 limit, service, todo, history>>

World ==
  \/ Kill \/ PowerLoss \/ ForkService \/ ServiceAppears \/ ServiceDies
  \/ SetProp \/ BackUp \/ Install

Next == Start \/ Script \/ World

Spec == Init /\ [][Next]_vars

\* The shell is scheduled, and init restarts a service that ended: this one
\* is neither disabled nor oneshot (init.b2g.rc:12-14).
FairSpec == Spec /\ WF_vars(Start) /\ WF_vars(Script)

-----------------------------------------------------------------------------
\* /data/core is there and lets applications write whenever b2g runs with
\* dumps enabled, unless mkdir has just failed, or the script, this time or
\* before, was ended between mkdir and chmod or failed in chmod: nothing ever
\* repairs that mode, and nothing else leaves it behind (b2g.sh:14-19).
CoreDirUsable ==
  /\ pc = "running" /\ coredump # "" =>
       core = "0733" \/ "mkdir" \in marks \/ marks \cap LastingMarks # {}
  /\ core = "0750" => marks \cap LastingMarks # {} \/ pc = "chmod"

\* Whenever b2g runs and dumps were asked for, the kernel knows where to write
\* them unless an echo failed, and b2g has its limit; with "all" so have init
\* and the other service, however it came and went during the scan, unless
\* the call for that very process failed or was never made, or the service
\* was late for the scan and forked by an init without the limit
\* (b2g.sh:20-28).
DumpsIfAsked ==
  /\ pc = "running" /\ coredump # "" =>
       pattern = PatternFiles \/ "echo" \in marks
  /\ pc = "running" /\ coredump \in {"all", "b2g"} =>
       limit["b2g"] = "max" \/ "b2g" \in missed
  /\ pc = "running" /\ coredump = "all" =>
       /\ limit["init"] = "max" \/ "init" \in missed
       /\ \/ service = "down" \/ limit["service"] = "max"
          \/ "service" \in missed \/ "late" \in marks

\* Nobody gets core dumps that were not asked for since the boot: no one but
\* b2g without an "all", and nothing at all on other builds (b2g.sh:8-29).
NoDumpsUnasked ==
  /\ \A p \in Processes :
       limit[p] = "max" => "all" \in marks \/ (p = "b2g" /\ coredump = "b2g")
  /\ debuggable = "0" =>
       pattern = {} /\ core = "absent" /\ "all" \notin marks

\* /system is read-only whenever b2g runs, however the steps of the recovery
\* fail, unless the script was ended in the middle of it or the last mount
\* failed (b2g.sh:34-41).
SystemReadOnly ==
  system = "rw" => "exposed" \in marks \/ pc \in {"mv", "remount-r"}

\* b2g comes back, again and again: after every kill, loss of power, broken
\* update and failed step of the recovery (b2g.sh:31-50).
B2GComesBack == []<>(pc = "running")
=============================================================================
