------------------------------ MODULE BootProofs ------------------------------
(***************************************************************************)
(* What holds of Boot for any number of faults and changes: its type       *)
(* invariant and its four safety properties, from one invariant.           *)
(***************************************************************************)
EXTENDS Boot, TLAPS

\* Where the script has read COREDUMP and acts on it.
Enabling == {"mkdir", "chmod", "pattern", "limits", "scan"}

\* COREDUMP is empty until it is read, and stays empty on builds that are not
\* for debugging; "all" was then read since the boot.
ReadInv ==
  /\ pc = "getprop" => coredump = ""
  /\ pc \in Enabling => coredump # ""
  /\ pc = "scan" => coredump = "all"
  /\ coredump # "" => debuggable = "1"
  /\ coredump = "all" => "all" \in marks

\* The files of /proc/sys are written, and limits are raised, in the order of
\* the script; what has not been done was tried and failed.
LimitInv ==
  /\ pc \in {"limits", "scan"} => pattern = PatternFiles \/ "echo" \in marks
  /\ pc \in Recovering /\ coredump # "" =>
       pattern = PatternFiles \/ "echo" \in marks
  /\ pc \in Recovering /\ coredump \in {"all", "b2g"} =>
       limit["b2g"] = "max" \/ "b2g" \in missed
  /\ pc \in Recovering /\ coredump = "all" =>
       limit["init"] = "max" \/ "init" \in missed
  /\ pc = "scan" =>
       /\ "b2g" \in todo \/ limit["b2g"] = "max" \/ "b2g" \in missed
       /\ "init" \in todo \/ limit["init"] = "max" \/ "init" \in missed

\* The other service is limited, still to come, missed or late.
ServiceInv ==
  /\ pc = "scan" =>
       \/ service = "down" \/ limit["service"] = "max" \/ "service" \in todo
       \/ "service" \in missed \/ "late" \in marks
  /\ pc \in Recovering /\ coredump = "all" =>
       \/ service = "down" \/ limit["service"] = "max"
       \/ "service" \in missed \/ "late" \in marks

\* The directory gets its mode before anything else is done.
CoreInv ==
  /\ core = "0750" => marks \cap LastingMarks # {} \/ pc = "chmod"
  /\ pc = "chmod" => core = "0750" \/ "mkdir" \in marks
  /\ pc \in (Enabling \cup Recovering) \ {"mkdir", "chmod"} /\ coredump # "" =>
       core = "0733" \/ "mkdir" \in marks \/ marks \cap LastingMarks # {}

Safety == /\ ReadInv /\ LimitInv /\ ServiceInv /\ CoreInv
          /\ NoDumpsUnasked /\ SystemReadOnly
Inv == TypeOK /\ Safety

\* The invariant holds at the first boot.
LEMMA InitInv == Init => Inv
<1> SUFFICES ASSUME Init PROVE Inv
  OBVIOUS
<1>1. LabelTypeOK
  BY DEF Init, LabelTypeOK, Values
<1>2. SetTypeOK /\ LimitTypeOK /\ CountTypeOK
  <2>1. SetTypeOK
    BY DEF Init, SetTypeOK, Dirs
  <2>2. LimitTypeOK
    <3>1. limit = [p \in Processes |-> "none"]
      BY DEF Init
    <3>2. QED
      BY <3>1 DEF LimitTypeOK
  <2>3. CountTypeOK
    <3>1. faults = 0 /\ sets = 0
      BY DEF Init
    <3>2. QED
      BY <3>1, BootAssumption DEF BootAssumption, CountTypeOK
  <2>4. QED
    BY <2>1, <2>2, <2>3
<1>3. ReadInv /\ LimitInv /\ ServiceInv
  BY DEF Init, ReadInv, LimitInv, ServiceInv, Enabling, Recovering
<1>4. CoreInv /\ SystemReadOnly
  BY DEF Init, CoreInv, SystemReadOnly, Enabling, Recovering
<1>5. NoDumpsUnasked
  BY DEF Init, NoDumpsUnasked
<1>6. QED
  BY <1>1, <1>2, <1>3, <1>4, <1>5 DEF Inv, Safety, TypeOK

\* A fault is counted, and counted only below the bound.
LEMMA FailCounts ==
  CountTypeOK /\ Fail => faults' \in 0..MaxFaults
  BY BootAssumption DEF BootAssumption, Fail, CountTypeOK

\* So is a change.
LEMMA ChangeCounts == CountTypeOK /\ Change => sets' \in 0..MaxSets
  BY BootAssumption DEF BootAssumption, Change, CountTypeOK

\* Every step keeps the types.
LEMMA TypeNext == TypeOK /\ Next => TypeOK'
<1> SUFFICES ASSUME TypeOK, Next PROVE TypeOK'
  OBVIOUS
<1> USE DEF TypeOK
<1> USE DEF disk, history, Goto
<1>1. CASE Start
  <2>1. LabelTypeOK'
    BY <1>1 DEF LabelTypeOK, Values, Start
  <2>2. SetTypeOK'
    BY <1>1 DEF SetTypeOK, Processes, Dirs, PatternFiles, Marks, Mark, Start
  <2>3. LimitTypeOK'
    BY <1>1 DEF LimitTypeOK, Processes, Start
  <2>4. CountTypeOK'
    BY <1>1 DEF CountTypeOK, Start
  <2>5. QED
    BY <2>1, <2>2, <2>3, <2>4
<1>2. CASE GetProp
  <2>1. LabelTypeOK'
    BY <1>2 DEF LabelTypeOK, Values, GetProp
  <2>2. SetTypeOK'
    BY <1>2 DEF SetTypeOK, Processes, Dirs, PatternFiles, Marks, Mark, GetProp
  <2>3. LimitTypeOK'
    BY <1>2 DEF LimitTypeOK, Processes, GetProp
  <2>4. CountTypeOK'
    BY <1>2, FailCounts DEF CountTypeOK, GetProp
  <2>5. QED
    BY <2>1, <2>2, <2>3, <2>4
<1>3. CASE MkDir
  <2>1. LabelTypeOK'
    BY <1>3 DEF LabelTypeOK, Values, MkDir
  <2>2. SetTypeOK'
    BY <1>3 DEF SetTypeOK, Processes, Dirs, PatternFiles, Marks, Mark, MkDir
  <2>3. LimitTypeOK'
    BY <1>3 DEF LimitTypeOK, Processes, MkDir
  <2>4. CountTypeOK'
    BY <1>3, FailCounts DEF CountTypeOK, MkDir
  <2>5. QED
    BY <2>1, <2>2, <2>3, <2>4
<1>4. CASE ChMod
  <2>1. LabelTypeOK'
    BY <1>4 DEF LabelTypeOK, Values, ChMod, CoreMode
  <2>2. SetTypeOK'
    BY <1>4 DEF SetTypeOK, Processes, Dirs, PatternFiles, Marks, Mark, ChMod, CoreMode
  <2>3. LimitTypeOK'
    BY <1>4 DEF LimitTypeOK, Processes, ChMod, CoreMode
  <2>4. CountTypeOK'
    BY <1>4, FailCounts DEF CountTypeOK, ChMod, CoreMode
  <2>5. QED
    BY <2>1, <2>2, <2>3, <2>4
<1>5. CASE Pattern
  <2>1. LabelTypeOK'
    BY <1>5 DEF LabelTypeOK, Values, Pattern
  <2>2. SetTypeOK'
    BY <1>5 DEF SetTypeOK, Processes, Dirs, PatternFiles, Marks, Mark, Pattern
  <2>3. LimitTypeOK'
    BY <1>5 DEF LimitTypeOK, Processes, Pattern
  <2>4. CountTypeOK'
    BY <1>5, FailCounts DEF CountTypeOK, Pattern
  <2>5. QED
    BY <2>1, <2>2, <2>3, <2>4
<1>6. CASE Limits
  <2>1. LabelTypeOK'
    BY <1>6 DEF LabelTypeOK, Values, Limits, AsksForB2G, Ulimit
  <2>2. SetTypeOK'
    BY <1>6 DEF SetTypeOK, Processes, Dirs, PatternFiles, Marks, Mark, Limits, AsksForB2G, Ulimit
  <2>3. LimitTypeOK'
    BY <1>6 DEF LimitTypeOK, Processes, Limits, AsksForB2G, Ulimit
  <2>4. CountTypeOK'
    BY <1>6, FailCounts DEF CountTypeOK, Limits, AsksForB2G, Ulimit
  <2>5. QED
    BY <2>1, <2>2, <2>3, <2>4
<1>7. ASSUME NEW p \in Processes, Prlimit(p) PROVE TypeOK'
  <2>1. LabelTypeOK'
    BY <1>7 DEF LabelTypeOK, Values, Prlimit
  <2>2. SetTypeOK'
    BY <1>7 DEF SetTypeOK, Processes, Dirs, PatternFiles, Marks, Mark, Prlimit
  <2>3. LimitTypeOK'
    BY <1>7 DEF LimitTypeOK, Processes, Prlimit
  <2>4. CountTypeOK'
    BY <1>7, FailCounts DEF CountTypeOK, Prlimit
  <2>5. QED
    BY <2>1, <2>2, <2>3, <2>4
<1>8. CASE ScanEnds
  <2>1. LabelTypeOK'
    BY <1>8 DEF LabelTypeOK, Values, ScanEnds
  <2>2. SetTypeOK'
    BY <1>8 DEF SetTypeOK, Processes, Dirs, PatternFiles, Marks, Mark, ScanEnds
  <2>3. LimitTypeOK'
    BY <1>8 DEF LimitTypeOK, Processes, ScanEnds
  <2>4. CountTypeOK'
    BY <1>8 DEF CountTypeOK, ScanEnds
  <2>5. QED
    BY <2>1, <2>2, <2>3, <2>4
<1>9. CASE ScanFails
  <2>1. LabelTypeOK'
    BY <1>9 DEF LabelTypeOK, Values, ScanFails
  <2>2. SetTypeOK'
    BY <1>9 DEF SetTypeOK, Processes, Dirs, PatternFiles, Marks, Mark, ScanFails
  <2>3. LimitTypeOK'
    BY <1>9 DEF LimitTypeOK, Processes, ScanFails
  <2>4. CountTypeOK'
    BY <1>9, FailCounts DEF CountTypeOK, ScanFails
  <2>5. QED
    BY <2>1, <2>2, <2>3, <2>4
<1>10. CASE Test
  <2>1. LabelTypeOK'
    BY <1>10 DEF LabelTypeOK, Values, Test, Recovers
  <2>2. SetTypeOK'
    BY <1>10 DEF SetTypeOK, Processes, Dirs, PatternFiles, Marks, Mark, Test, Recovers
  <2>3. LimitTypeOK'
    BY <1>10 DEF LimitTypeOK, Processes, Test, Recovers
  <2>4. CountTypeOK'
    BY <1>10 DEF CountTypeOK, Test, Recovers
  <2>5. QED
    BY <2>1, <2>2, <2>3, <2>4
<1>11. CASE RemountW
  <2>1. LabelTypeOK'
    BY <1>11 DEF LabelTypeOK, Values, RemountW
  <2>2. SetTypeOK'
    BY <1>11 DEF SetTypeOK, Processes, Dirs, PatternFiles, Marks, Mark, RemountW
  <2>3. LimitTypeOK'
    BY <1>11 DEF LimitTypeOK, Processes, RemountW
  <2>4. CountTypeOK'
    BY <1>11, FailCounts DEF CountTypeOK, RemountW
  <2>5. QED
    BY <2>1, <2>2, <2>3, <2>4
<1>12. CASE Mv
  <2>1. LabelTypeOK'
    <3>1. pc' \in {"remount-r", AfterMv}
      BY <1>12 DEF Mv, AfterMv
    <3>2. UNCHANGED <<debuggable, property, core, coredump, system, pattern, service>>
      BY <1>12 DEF Mv, AfterMv
    <3>3. QED
      BY <3>1, <3>2 DEF LabelTypeOK, AfterMv
  <2>2. SetTypeOK'
    BY <1>12 DEF SetTypeOK, Processes, Dirs, PatternFiles, Marks, Mark, Mv, AfterMv
  <2>3. LimitTypeOK'
    BY <1>12 DEF LimitTypeOK, Processes, Mv, AfterMv
  <2>4. CountTypeOK'
    BY <1>12, FailCounts DEF CountTypeOK, Mv, AfterMv
  <2>5. QED
    BY <2>1, <2>2, <2>3, <2>4
<1>13. CASE RemountR
  <2>1. LabelTypeOK'
    <3>1. pc' = "exec" /\ system' \in {"ro", system}
      BY <1>13 DEF RemountR
    <3>2. UNCHANGED <<debuggable, property, core, coredump, pattern, service>>
      BY <1>13 DEF RemountR
    <3>3. QED
      BY <3>1, <3>2 DEF LabelTypeOK
  <2>2. SetTypeOK'
    BY <1>13 DEF SetTypeOK, Processes, Dirs, PatternFiles, Marks, Mark, RemountR
  <2>3. LimitTypeOK'
    BY <1>13 DEF LimitTypeOK, Processes, RemountR
  <2>4. CountTypeOK'
    BY <1>13, FailCounts DEF CountTypeOK, RemountR
  <2>5. QED
    BY <2>1, <2>2, <2>3, <2>4
<1>14. CASE Exec
  <2>1. LabelTypeOK'
    BY <1>14 DEF LabelTypeOK, Values, Exec
  <2>2. SetTypeOK'
    BY <1>14 DEF SetTypeOK, Processes, Dirs, PatternFiles, Marks, Mark, Exec
  <2>3. LimitTypeOK'
    BY <1>14 DEF LimitTypeOK, Processes, Exec
  <2>4. CountTypeOK'
    BY <1>14, FailCounts DEF CountTypeOK, Exec
  <2>5. QED
    BY <2>1, <2>2, <2>3, <2>4
<1>15. CASE Kill
  <2>1. LabelTypeOK'
    BY <1>15 DEF LabelTypeOK, Values, Kill
  <2>2. SetTypeOK'
    BY <1>15 DEF SetTypeOK, Processes, Dirs, PatternFiles, Marks, Mark, Kill
  <2>3. LimitTypeOK'
    BY <1>15 DEF LimitTypeOK, Processes, Kill
  <2>4. CountTypeOK'
    BY <1>15, FailCounts DEF CountTypeOK, Kill
  <2>5. QED
    BY <2>1, <2>2, <2>3, <2>4
<1>16. CASE PowerLoss
  <2>1. LabelTypeOK'
    BY <1>16 DEF LabelTypeOK, Values, PowerLoss
  <2>2. SetTypeOK'
    BY <1>16 DEF SetTypeOK, Processes, Dirs, PatternFiles, Marks, Mark, PowerLoss
  <2>3. LimitTypeOK'
    BY <1>16 DEF LimitTypeOK, Processes, PowerLoss
  <2>4. CountTypeOK'
    BY <1>16, FailCounts DEF CountTypeOK, PowerLoss
  <2>5. QED
    BY <2>1, <2>2, <2>3, <2>4
<1>17. CASE ForkService
  <2>1. LabelTypeOK'
    <3>1. service' = "forking"
      BY <1>17 DEF ForkService
    <3>2. UNCHANGED <<debuggable, property, core, pc, coredump, system, pattern>>
      BY <1>17 DEF ForkService
    <3>3. QED
      BY <3>1, <3>2 DEF LabelTypeOK
  <2>2. SetTypeOK'
    BY <1>17 DEF SetTypeOK, Processes, Dirs, PatternFiles, Marks, Mark, ForkService
  <2>3. LimitTypeOK'
    BY <1>17 DEF LimitTypeOK, Processes, ForkService
  <2>4. CountTypeOK'
    BY <1>17 DEF CountTypeOK, ForkService
  <2>5. QED
    BY <2>1, <2>2, <2>3, <2>4
<1>18. CASE ServiceAppears
  <2>1. LabelTypeOK'
    <3>1. service' = "up"
      BY <1>18 DEF ServiceAppears
    <3>2. UNCHANGED <<debuggable, property, core, pc, coredump, system, pattern>>
      BY <1>18 DEF ServiceAppears
    <3>3. QED
      BY <3>1, <3>2 DEF LabelTypeOK
  <2>2. SetTypeOK'
    BY <1>18 DEF SetTypeOK, Processes, Dirs, PatternFiles, Marks, Mark, ServiceAppears
  <2>3. LimitTypeOK'
    BY <1>18 DEF LimitTypeOK, Processes, ServiceAppears
  <2>4. CountTypeOK'
    BY <1>18 DEF CountTypeOK, ServiceAppears
  <2>5. QED
    BY <2>1, <2>2, <2>3, <2>4
<1>19. CASE ServiceDies
  <2>1. LabelTypeOK'
    <3>1. service' = "down"
      BY <1>19 DEF ServiceDies
    <3>2. UNCHANGED <<debuggable, property, core, pc, coredump, system, pattern>>
      BY <1>19 DEF ServiceDies
    <3>3. QED
      BY <3>1, <3>2 DEF LabelTypeOK
  <2>2. SetTypeOK'
    BY <1>19 DEF SetTypeOK, Processes, Dirs, PatternFiles, Marks, Mark, ServiceDies
  <2>3. LimitTypeOK'
    BY <1>19 DEF LimitTypeOK, Processes, ServiceDies
  <2>4. CountTypeOK'
    BY <1>19, FailCounts DEF CountTypeOK, ServiceDies
  <2>5. QED
    BY <2>1, <2>2, <2>3, <2>4
<1>20. CASE SetProp
  <2>1. LabelTypeOK'
    <3>1. property' \in Values
      BY <1>20 DEF SetProp
    <3>2. UNCHANGED <<debuggable, core, pc, coredump, system, pattern, service>>
      BY <1>20 DEF SetProp
    <3>3. QED
      BY <3>1, <3>2 DEF LabelTypeOK
  <2>2. SetTypeOK'
    BY <1>20 DEF SetTypeOK, Processes, Dirs, PatternFiles, Marks, Mark, SetProp
  <2>3. LimitTypeOK'
    BY <1>20 DEF LimitTypeOK, Processes, SetProp
  <2>4. CountTypeOK'
    BY <1>20, ChangeCounts DEF CountTypeOK, SetProp
  <2>5. QED
    BY <2>1, <2>2, <2>3, <2>4
<1>21. CASE BackUp
  <2>1. LabelTypeOK'
    BY <1>21 DEF LabelTypeOK, Values, BackUp
  <2>2. SetTypeOK'
    BY <1>21 DEF SetTypeOK, Processes, Dirs, PatternFiles, Marks, Mark, BackUp
  <2>3. LimitTypeOK'
    BY <1>21 DEF LimitTypeOK, Processes, BackUp
  <2>4. CountTypeOK'
    BY <1>21, ChangeCounts DEF CountTypeOK, BackUp
  <2>5. QED
    BY <2>1, <2>2, <2>3, <2>4
<1>22. CASE Install
  <2>1. LabelTypeOK'
    BY <1>22 DEF LabelTypeOK, Values, Install
  <2>2. SetTypeOK'
    BY <1>22 DEF SetTypeOK, Processes, Dirs, PatternFiles, Marks, Mark, Install
  <2>3. LimitTypeOK'
    BY <1>22 DEF LimitTypeOK, Processes, Install
  <2>4. CountTypeOK'
    BY <1>22 DEF CountTypeOK, Install
  <2>5. QED
    BY <2>1, <2>2, <2>3, <2>4
<1>23. QED
  BY <1>1, <1>2, <1>3, <1>4, <1>5, <1>6, <1>7, <1>8, <1>9, <1>10, <1>11, <1>12,
     <1>13, <1>14, <1>15, <1>16, <1>17, <1>18, <1>19, <1>20, <1>21, <1>22
     DEF Next, Script, Dumps, Recovery, World

\* Every step keeps the other parts of the invariant.
LEMMA SafetyNext == Inv /\ Next => Safety'
<1> SUFFICES ASSUME Inv, Next PROVE Safety'
  OBVIOUS
<1> USE DEF Inv, Safety, TypeOK, LabelTypeOK, SetTypeOK, LimitTypeOK, ReadInv,
      LimitInv, ServiceInv, CoreInv, NoDumpsUnasked, SystemReadOnly, Processes,
      Enabling, Recovering, LastingMarks, disk, history, Goto, Mark
<1>1. CASE Start
  BY <1>1 DEF Start
<1>2. CASE GetProp
  BY <1>2 DEF GetProp
<1>3. CASE MkDir
  BY <1>3 DEF MkDir
<1>4. CASE ChMod
  BY <1>4 DEF ChMod, CoreMode
<1>5. CASE Pattern
  BY <1>5 DEF Pattern
<1>6. CASE Limits
  BY <1>6 DEF Limits, AsksForB2G, Ulimit
<1>7. ASSUME NEW p \in Processes, Prlimit(p) PROVE Safety'
  BY <1>7 DEF Prlimit
<1>8. CASE ScanEnds
  BY <1>8 DEF ScanEnds
<1>9. CASE ScanFails
  BY <1>9 DEF ScanFails
<1>10. CASE Test
  BY <1>10 DEF Test, Recovers
<1>11. CASE RemountW
  BY <1>11 DEF RemountW
<1>12. CASE Mv
  BY <1>12 DEF Mv, AfterMv
<1>13. CASE RemountR
  BY <1>13 DEF RemountR
<1>14. CASE Exec
  BY <1>14 DEF Exec
<1>15. CASE Kill
  BY <1>15 DEF Kill
<1>16. CASE PowerLoss
  BY <1>16 DEF PowerLoss
<1>17. CASE ForkService
  <2>1. /\ limit' = [limit EXCEPT !["service"] = limit["init"]] /\ service = "down"
        /\ marks' = marks \cup
             (IF /\ coredump = "all" /\ limit["init"] = "none"
                 /\ pc \in Recovering \cup {"scan"}
              THEN {"late"} ELSE {})
    BY ONLY <1>17 DEF ForkService, Mark, disk
  <2>2. UNCHANGED <<debuggable, core, pc, coredump, system, pattern, todo, missed>>
    BY ONLY <1>17 DEF ForkService, disk
  <2>3. ReadInv'
    BY <2>1, <2>2 DEF ReadInv
  <2>4. LimitInv'
    BY <2>1, <2>2 DEF LimitInv
  <2>5. ServiceInv'
    BY <2>1, <2>2 DEF ServiceInv
  <2>6. CoreInv'
    BY <2>1, <2>2 DEF CoreInv
  <2>7. NoDumpsUnasked'
    BY <2>1, <2>2 DEF NoDumpsUnasked
  <2>8. SystemReadOnly'
    BY <2>1, <2>2 DEF SystemReadOnly
  <2>9. QED
    BY <2>3, <2>4, <2>5, <2>6, <2>7, <2>8
<1>18. CASE ServiceAppears
  <2>1. /\ service = "forking"
        /\ \/ todo' = todo
           \/ pc = "scan" /\ todo' = todo \cup {"service"}
    BY ONLY <1>18 DEF ServiceAppears, disk, history
  <2>2. UNCHANGED <<debuggable, core, pc, coredump, system, pattern, limit, missed,
                    marks>>
    BY ONLY <1>18 DEF ServiceAppears, disk, history
  <2>3. ReadInv'
    BY <2>1, <2>2 DEF ReadInv
  <2>4. LimitInv'
    BY <2>1, <2>2 DEF LimitInv
  <2>5. ServiceInv'
    BY <2>1, <2>2 DEF ServiceInv
  <2>6. CoreInv'
    BY <2>1, <2>2 DEF CoreInv
  <2>7. NoDumpsUnasked'
    BY <2>1, <2>2 DEF NoDumpsUnasked
  <2>8. SystemReadOnly'
    BY <2>1, <2>2 DEF SystemReadOnly
  <2>9. QED
    BY <2>3, <2>4, <2>5, <2>6, <2>7, <2>8
<1>19. CASE ServiceDies
  <2>1. /\ limit' = [limit EXCEPT !["service"] = "none"] /\ todo' = todo \ {"service"}
        /\ missed' = missed \ {"service"} /\ marks' = marks \ {"late"}
        /\ service' = "down"
    BY <1>19 DEF ServiceDies
  <2>2. UNCHANGED <<debuggable, core, pc, coredump, system, pattern>>
    BY <1>19 DEF ServiceDies
  <2>3. ReadInv'
    BY <2>1, <2>2 DEF ReadInv
  <2>4. LimitInv'
    BY <2>1, <2>2 DEF LimitInv
  <2>5. ServiceInv'
    BY <2>1, <2>2 DEF ServiceInv
  <2>6. CoreInv'
    BY <2>1, <2>2 DEF CoreInv
  <2>7. NoDumpsUnasked'
    BY <2>1, <2>2 DEF NoDumpsUnasked
  <2>8. SystemReadOnly'
    BY <2>1, <2>2 DEF SystemReadOnly
  <2>9. QED
    BY <2>3, <2>4, <2>5, <2>6, <2>7, <2>8
<1>20. CASE SetProp
  <2>1. UNCHANGED <<debuggable, core, pc, coredump, system, pattern>>
    BY ONLY <1>20 DEF SetProp, disk, history
  <2>2. UNCHANGED <<limit, service, todo, missed, marks>>
    BY ONLY <1>20 DEF SetProp, disk, history
  <2>3. ReadInv'
    BY <2>1, <2>2 DEF ReadInv
  <2>4. LimitInv'
    BY <2>1, <2>2 DEF LimitInv
  <2>5. ServiceInv'
    BY <2>1, <2>2 DEF ServiceInv
  <2>6. CoreInv'
    BY <2>1, <2>2 DEF CoreInv
  <2>7. NoDumpsUnasked'
    BY <2>1, <2>2 DEF NoDumpsUnasked
  <2>8. SystemReadOnly'
    BY <2>1, <2>2 DEF SystemReadOnly
  <2>9. QED
    BY <2>3, <2>4, <2>5, <2>6, <2>7, <2>8
<1>21. CASE BackUp
  BY <1>21 DEF BackUp
<1>22. CASE Install
  BY <1>22 DEF Install
<1>23. QED
  BY <1>1, <1>2, <1>3, <1>4, <1>5, <1>6, <1>7, <1>8, <1>9, <1>10, <1>11, <1>12,
     <1>13, <1>14, <1>15, <1>16, <1>17, <1>18, <1>19, <1>20, <1>21, <1>22
     DEF Next, Script, Dumps, Recovery, World

\* Every step keeps the invariant.
LEMMA NextInv == Inv /\ [Next]_vars => Inv'
<1> SUFFICES ASSUME Inv, [Next]_vars PROVE Inv'
  OBVIOUS
<1>1. CASE Next
  BY <1>1, TypeNext, SafetyNext DEF Inv
<1>2. CASE UNCHANGED vars
  <2>1. TypeOK'
    BY <1>2 DEF vars, disk, history, Inv, TypeOK, LabelTypeOK, SetTypeOK,
       LimitTypeOK, CountTypeOK
  <2>2. UNCHANGED vars
    BY <1>2
  <2>3. ReadInv'
    BY <2>2 DEF vars, disk, history, Inv, Safety, ReadInv
  <2>4. LimitInv'
    BY <2>2 DEF vars, disk, history, Inv, Safety, LimitInv
  <2>5. CoreInv'
    BY <2>2 DEF vars, disk, history, Inv, Safety, CoreInv
  <2>8. ServiceInv'
    BY <2>2 DEF vars, disk, history, Inv, Safety, ServiceInv
  <2>6. NoDumpsUnasked'
    BY <2>2 DEF vars, disk, history, Inv, Safety, NoDumpsUnasked
  <2>7. SystemReadOnly'
    BY <2>2 DEF vars, disk, history, Inv, Safety, SystemReadOnly
  <2>9. QED
    BY <2>1, <2>3, <2>4, <2>5, <2>6, <2>7, <2>8 DEF Inv, Safety
<1>3. QED
  BY <1>1, <1>2

\* The invariant holds at all times.
LEMMA SpecInv == Spec => []Inv
  BY InitInv, NextInv, PTL DEF Spec

-----------------------------------------------------------------------------
\* Every state of the script, the disk and the limits is one of those listed.
THEOREM TypeCorrect == Spec => []TypeOK
<1>1. Inv => TypeOK
  BY DEF Inv
<1>2. QED
  BY <1>1, SpecInv, PTL

\* Nobody gets core dumps that were not asked for since the boot, and nobody
\* at all on builds that are not for debugging (b2g.sh:8-29).
THEOREM DumpsOnlyIfAsked == Spec => []NoDumpsUnasked
<1>1. Inv => NoDumpsUnasked
  BY DEF Inv, Safety
<1>2. QED
  BY <1>1, SpecInv, PTL

\* Whoever is without core dumps that were asked for was missed by a call that
\* failed, or was late for the scan (b2g.sh:20-28).
THEOREM DumpsWhenAsked == Spec => []DumpsIfAsked
<1>1. Inv => DumpsIfAsked
  BY DEF Inv, Safety, LimitInv, ServiceInv, DumpsIfAsked, Recovering
<1>2. QED
  BY <1>1, SpecInv, PTL

\* Only a failing chmod, and a script that ended before it, leave /data/core
\* behind with a mode that keeps applications out (b2g.sh:14-19).
THEOREM CoreDir == Spec => []CoreDirUsable
<1>1. Inv => CoreDirUsable
  BY DEF Inv, Safety, CoreInv, CoreDirUsable, Enabling, Recovering
<1>2. QED
  BY <1>1, SpecInv, PTL

\* /system is left read-write only by a script that was ended in the middle
\* of the recovery or could not mount it again (b2g.sh:34-41).
THEOREM SystemClosed == Spec => []SystemReadOnly
<1>1. Inv => SystemReadOnly
  BY DEF Inv, Safety
<1>2. QED
  BY <1>1, SpecInv, PTL
=============================================================================
