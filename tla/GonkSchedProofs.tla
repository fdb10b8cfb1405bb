-------------------------- MODULE GonkSchedProofs ---------------------------
(***************************************************************************)
(* Theorems about GonkSched, for every number of worker threads, requests, *)
(* threads of other processes and changes of them.                         *)
(***************************************************************************)
EXTENDS GonkSched, FiniteSetTheorems, TLAPS

-----------------------------------------------------------------------------
(***************************************************************************)
(* The inductive invariant.                                                *)
(***************************************************************************)
\* The types of the threads and of the service; a worker serves one request
\* or none.
ThreadTypeOK ==
  /\ owner \in [Tids -> Nat] /\ process \in [Tids -> Nat]
  /\ prio \in [Tids -> 0..PRIORITY_MAX]
  /\ group \in [Tids -> Groups]
  /\ churn \in 0..MaxChurn
  /\ used \subseteq Tids /\ reused \in BOOLEAN
  /\ cause \in [Tids -> SUBSET Requests]
  /\ mixed \subseteq Tids /\ halves \subseteq Tids
ServiceTypeOK ==
  /\ pc \in [Workers -> {"idle", "check", "access", "group", "policy"}]
  /\ serving \in [Workers -> SUBSET Requests]
  /\ reply \in [Requests -> {"sent", "NO_ERROR", "denied", "unknown"}]
  /\ result \in [Requests -> {Pending, Granted, Denied}]
  /\ \A w \in Workers :
       IF pc[w] = "idle" THEN serving[w] = {}
                         ELSE \E r \in Requests : serving[w] = {r}

\* A thread that runs is one of the process it was last a thread of; one that
\* does not has no priority.
OwnerInv ==
  \A t \in Tids :
    IF owner[t] = Nobody THEN prio[t] = 0
                         ELSE process[t] = owner[t] /\ t \in used

\* Without reuse of tids, what the request says of its thread is so.
Vouched(m) ==
  ~reused => m.tid = m.pid \/ (m.tid \in used /\ process[m.tid] = m.pid)

\* A worker past its check serves an allowed request of the media server, and
\* past access() one that names its thread rightly.
WorkerInv ==
  \A w \in Workers :
    /\ pc[w] \in {"access", "group", "policy"} =>
         Allowed(Message(w)) /\ Message(w).code = "requestPriority"
    /\ pc[w] \in {"group", "policy"} => Vouched(Message(w))

\* A priority has a cause, which was allowed and vouched for.
CauseInv ==
  \A t \in Tids : prio[t] > 0 =>
    \E r \in cause[t] :
      LET m == Content[r] IN
      /\ Allowed(m) /\ m.code = "requestPriority" /\ prio[t] = m.prio
      /\ Vouched(m)

\* A worker that has set the group of its thread has its priority before it.
\* Two workers that are changing one thread have been noticed; a thread whose
\* group one worker has set has the group that worker wants.
Targets(w, t) == pc[w] = "policy" /\ Message(w).tid = t
GroupingInv == grouping \subseteq {w \in Workers : pc[w] = "policy"}
GroupInv ==
  \A t \in Tids \ mixed :
    /\ \A v, w \in Workers : Targets(v, t) /\ Targets(w, t) => v = w
    /\ \A w \in grouping :
         Targets(w, t) /\ owner[t] # Nobody => group[t] = Policy(Message(w))

\* A thread whose group no worker has just set has priority and group of one
\* request, unless one of two system calls has failed.
OneRequestInv ==
  \A t \in Tids \ (mixed \cup halves) :
    prio[t] > 0 /\ (\A w \in grouping : ~Targets(w, t)) =>
      \E r \in cause[t] : prio[t] = Content[r].prio
                            /\ group[t] = Policy(Content[r])

Inv == ThreadTypeOK /\ ServiceTypeOK /\ OwnerInv /\ WorkerInv /\ CauseInv
         /\ GroupingInv /\ GroupInv /\ OneRequestInv

-----------------------------------------------------------------------------
(***************************************************************************)
(* Requests and those who serve them.                                      *)
(***************************************************************************)
\* A worker that is not idle serves the request it was given.
LEMMA RequestServed ==
  ASSUME ServiceTypeOK, NEW w \in Workers, pc[w] # "idle"
  PROVE  Request(w) \in Requests /\ serving[w] = {Request(w)}
<1>1. PICK r \in Requests : serving[w] = {r}
  BY DEF ServiceTypeOK
<1>2. Request(w) \in Requests /\ Request(w) \in serving[w]
  BY <1>1 DEF Request
<1>3. QED
  BY <1>1, <1>2

\* What a request says has the types of its parts.
LEMMA ContentType ==
  ASSUME NEW r \in Requests
  PROVE  /\ Content[r].tid \in Tids /\ Content[r].pid \in Nat
         /\ Content[r].prio \in Int
         /\ Allowed(Content[r]) => Content[r].prio \in 1..PRIORITY_MAX
<1>1. Content[r] \in [code : {"requestPriority", "foreign", "other"},
                      uid : {MediaUid, "app"}, caller : Nat,
                      pid : Nat \ {0}, tid : Tids, prio : Int]
  BY GonkSchedAssumption
<1>2. QED
  BY <1>1 DEF Allowed, PRIORITY_MIN

\* Who keeps his request keeps his message.
LEMMA SameMessage ==
  ASSUME NEW w \in Workers, serving'[w] = serving[w]
  PROVE  Message(w)' = Message(w)
BY DEF Message, Request

\* A step is a step of one of the actions.
LEMMA NextCases ==
  ASSUME Next
  PROVE  \/ \E t, u \in Tids : NewThread(t, u)
         \/ \E t \in Tids : ExitThread(t)
         \/ \E w \in Workers : \/ \E r \in Requests : Receive(w, r)
                               \/ OtherTransaction(w)
                               \/ Check(w)
                               \/ Access(w)
                               \/ SetGroup(w)
                               \/ SetScheduler(w)
BY DEF Next, World, Work

-----------------------------------------------------------------------------
(***************************************************************************)
(* The types.                                                              *)
(***************************************************************************)
\* What a worker does next, and what becomes of its request.
LEMMA GotoType ==
  ASSUME ServiceTypeOK, NEW w \in Workers, pc[w] # "idle",
         NEW label \in {"check", "access", "group", "policy"}, Goto(w, label)
  PROVE  /\ ServiceTypeOK' /\ UNCHANGED serving
         /\ pc'[w] = label
         /\ \A v \in Workers \ {w} : pc'[v] = pc[v]
BY DEF Goto, ServiceTypeOK

\* A worker that ends its request is idle, and the others are where they were.
LEMMA FinishType ==
  ASSUME ServiceTypeOK, NEW w \in Workers, pc[w] # "idle",
         NEW code \in {Granted, Denied}, Finish(w, code)
  PROVE  /\ ServiceTypeOK' /\ pc'[w] = "idle"
         /\ \A v \in Workers \ {w} : pc'[v] = pc[v] /\ serving'[v] = serving[v]
<1>1. Request(w) \in Requests
  BY RequestServed
<1>2. /\ pc' = [pc EXCEPT ![w] = "idle"]
      /\ serving' = [serving EXCEPT ![w] = {}]
  BY DEF Finish, None
<1>3. /\ pc' \in [Workers -> {"idle", "check", "access", "group", "policy"}]
      /\ serving' \in [Workers -> SUBSET Requests]
  BY <1>2 DEF ServiceTypeOK
<1>4. /\ pc'[w] = "idle" /\ serving'[w] = {}
      /\ \A v \in Workers \ {w} : pc'[v] = pc[v] /\ serving'[v] = serving[v]
  BY <1>2 DEF ServiceTypeOK
<1>5. reply' \in [Requests -> {"sent", "NO_ERROR", "denied", "unknown"}]
  BY <1>1 DEF Finish, Status, ServiceTypeOK
<1>6. result' \in [Requests -> {Pending, Granted, Denied}]
  BY <1>1 DEF Finish, ServiceTypeOK
<1>7. \A v \in Workers :
        IF pc'[v] = "idle" THEN serving'[v] = {}
                           ELSE \E r \in Requests : serving'[v] = {r}
  BY <1>4 DEF ServiceTypeOK
<1>8. QED
  BY <1>3, <1>4, <1>5, <1>6, <1>7 DEF ServiceTypeOK

\* A request that is taken up, and one that is none of the service's.
LEMMA ReceiveType ==
  ASSUME ServiceTypeOK, NEW w \in Workers, NEW r \in Requests, Receive(w, r)
  PROVE  /\ ServiceTypeOK' /\ pc'[w] = "check"
         /\ \A v \in Workers \ {w} : pc'[v] = pc[v] /\ serving'[v] = serving[v]
<1>1. /\ pc' = [pc EXCEPT ![w] = "check"]
      /\ serving' = [serving EXCEPT ![w] = {r}]
      /\ UNCHANGED <<reply, result>>
  BY DEF Receive
<1>2. /\ pc' \in [Workers -> {"idle", "check", "access", "group", "policy"}]
      /\ serving' \in [Workers -> SUBSET Requests]
  BY <1>1 DEF ServiceTypeOK
<1>3. /\ pc'[w] = "check" /\ serving'[w] = {r}
      /\ \A v \in Workers \ {w} : pc'[v] = pc[v] /\ serving'[v] = serving[v]
  BY <1>1 DEF ServiceTypeOK
<1>4. \A v \in Workers :
        IF pc'[v] = "idle" THEN serving'[v] = {}
                           ELSE \E q \in Requests : serving'[v] = {q}
  BY <1>3 DEF ServiceTypeOK
<1>5. QED
  BY <1>1, <1>2, <1>3, <1>4 DEF ServiceTypeOK

\* A transaction that is no request changes nothing but the one worker.
LEMMA OtherType ==
  ASSUME ServiceTypeOK, NEW w \in Workers, OtherTransaction(w)
  PROVE  /\ ServiceTypeOK' /\ pc'[w] = "idle"
         /\ \A v \in Workers \ {w} : pc'[v] = pc[v] /\ serving'[v] = serving[v]
<1>1. Request(w) \in Requests
  BY RequestServed DEF OtherTransaction
<1>2. /\ pc' = [pc EXCEPT ![w] = "idle"]
      /\ serving' = [serving EXCEPT ![w] = {}]
      /\ result' = result
  BY DEF OtherTransaction, None
<1>3. /\ pc' \in [Workers -> {"idle", "check", "access", "group", "policy"}]
      /\ serving' \in [Workers -> SUBSET Requests]
  BY <1>2 DEF ServiceTypeOK
<1>4. /\ pc'[w] = "idle" /\ serving'[w] = {}
      /\ \A v \in Workers \ {w} : pc'[v] = pc[v] /\ serving'[v] = serving[v]
  BY <1>2 DEF ServiceTypeOK
<1>5. reply' \in [Requests -> {"sent", "NO_ERROR", "denied", "unknown"}]
  BY <1>1 DEF OtherTransaction, Refusal, ServiceTypeOK
<1>6. \A v \in Workers :
        IF pc'[v] = "idle" THEN serving'[v] = {}
                           ELSE \E r \in Requests : serving'[v] = {r}
  BY <1>4 DEF ServiceTypeOK
<1>7. QED
  BY <1>2, <1>3, <1>4, <1>5, <1>6 DEF ServiceTypeOK

-----------------------------------------------------------------------------
(***************************************************************************)
(* The steps of a worker.                                                  *)
(***************************************************************************)
Core == ThreadTypeOK /\ OwnerInv /\ CauseInv /\ GroupingInv /\ GroupInv
          /\ OneRequestInv

\* A step that leaves the threads alone, and those who change them.
LEMMA QuietStep ==
  ASSUME Core, UNCHANGED <<threadVars, historyVars>>,
         \A v \in Workers : /\ pc'[v] = "policy" <=> pc[v] = "policy"
                            /\ pc[v] = "policy" => serving'[v] = serving[v]
  PROVE  Core'
<1>1. \A v \in Workers : pc[v] = "policy" => Message(v)' = Message(v)
  BY SameMessage
<1>2. ASSUME NEW v \in Workers, NEW t
      PROVE  Targets(v, t)' <=> Targets(v, t)
  BY <1>1 DEF Targets
<1>3. UNCHANGED <<owner, prio, group, churn, used, reused, process, cause,
                  mixed, grouping, halves>>
  BY DEF threadVars, historyVars
<1>4. ThreadTypeOK' /\ OwnerInv'
  BY <1>3 DEF Core, ThreadTypeOK, OwnerInv
<1>5. CauseInv'
  BY <1>3 DEF Core, CauseInv, Vouched
<1>6. GroupingInv'
  BY <1>3 DEF Core, GroupingInv
<1>7. GroupInv'
  <2>1. ASSUME NEW v \in Workers, NEW t, Targets(v, t)
        PROVE  Message(v)' = Message(v)
    BY <1>1, <2>1 DEF Targets
  <2>2. grouping \subseteq Workers
    BY DEF Core, GroupingInv
  <2>3. QED
    BY <1>2, <1>3, <2>1, <2>2 DEF Core, GroupInv, Policy
<1>8. OneRequestInv'
  <2>1. grouping \subseteq Workers
    BY DEF Core, GroupingInv
  <2>2. QED
    BY <1>2, <1>3, <2>1 DEF Core, OneRequestInv, Policy
<1>9. QED
  BY <1>4, <1>5, <1>6, <1>7, <1>8 DEF Core

\* The others keep what they know of their requests.
LEMMA OthersKeep ==
  ASSUME WorkerInv, UNCHANGED <<used, reused, process>>, NEW w \in Workers,
         \A v \in Workers \ {w} : pc'[v] = pc[v] /\ serving'[v] = serving[v],
         /\ pc'[w] \in {"access", "group", "policy"} =>
              Allowed(Message(w)') /\ Message(w)'.code = "requestPriority"
         /\ pc'[w] \in {"group", "policy"} => Vouched(Message(w)')
  PROVE  WorkerInv'
<1>1. \A v \in Workers \ {w} : Message(v)' = Message(v)
  BY SameMessage
<1>2. \A m : Vouched(m)' <=> Vouched(m)
  BY DEF Vouched
<1>3. \A m : Vouched(m) => Vouched(m)'
  BY <1>2
<1>4. ASSUME NEW v \in Workers
      PROVE  /\ pc'[v] \in {"access", "group", "policy"} =>
                  Allowed(Message(v)') /\ Message(v)'.code = "requestPriority"
             /\ pc'[v] \in {"group", "policy"} => Vouched(Message(v)')
  <2>1. CASE v = w
    BY <2>1
  <2>2. CASE v # w
    BY <1>1, <2>2 DEF WorkerInv
  <2>3. QED
    BY <2>1, <2>2
<1>5. QED
  BY <1>4 DEF WorkerInv, Vouched, Allowed

\* The steps that change no thread keep the invariant.
LEMMA EasyWorkStep ==
  ASSUME Inv, NEW w \in Workers,
         \/ \E r \in Requests : Receive(w, r)
         \/ OtherTransaction(w) \/ Check(w) \/ Access(w)
  PROVE  Inv'
<1> USE DEF Inv
<1>1. ASSUME UNCHANGED <<threadVars, historyVars>>, ServiceTypeOK',
             \A v \in Workers \ {w} :
               pc'[v] = pc[v] /\ serving'[v] = serving[v],
             pc[w] # "policy", pc'[w] \in {"idle", "check"}
      PROVE  Inv'
  <2>1. Core'
    <3>1. \A v \in Workers : /\ pc'[v] = "policy" <=> pc[v] = "policy"
                             /\ pc[v] = "policy" => serving'[v] = serving[v]
      BY <1>1
    <3>2. Core
      BY DEF Core
    <3>3. QED
      BY <1>1, <3>1, <3>2, QuietStep
  <2>2. WorkerInv'
    BY <1>1, OthersKeep DEF threadVars
  <2>3. QED
    BY <1>1, <2>1, <2>2 DEF Core
<1>2. ASSUME UNCHANGED <<threadVars, historyVars>>,
             pc[w] \in {"check", "access"}, NEW label \in {"access", "group"},
             Goto(w, label),
             Allowed(Message(w)), Message(w).code = "requestPriority",
             label = "group" => Vouched(Message(w))
      PROVE  Inv'
  <2>1. /\ ServiceTypeOK' /\ UNCHANGED serving
        /\ pc'[w] = label
        /\ \A v \in Workers \ {w} : pc'[v] = pc[v]
    BY <1>2, GotoType
  <2>2. Core'
    <3>1. \A v \in Workers : /\ pc'[v] = "policy" <=> pc[v] = "policy"
                             /\ pc[v] = "policy" => serving'[v] = serving[v]
      BY <1>2, <2>1
    <3>2. Core
      BY DEF Core
    <3>3. QED
      BY <1>2, <3>1, <3>2, QuietStep
  <2>3. WorkerInv'
    <3>1. Message(w)' = Message(w)
      BY <2>1, SameMessage
    <3>2. QED
      BY <1>2, <2>1, <3>1, OthersKeep DEF threadVars
  <2>4. QED
    BY <2>1, <2>2, <2>3 DEF Core
<1>3. ASSUME NEW r \in Requests, Receive(w, r)
      PROVE  Inv'
  BY <1>1, <1>3, ReceiveType DEF Receive
<1>4. CASE OtherTransaction(w)
  BY <1>1, <1>4, OtherType DEF OtherTransaction
<1>5. CASE Check(w)
  <2>1. /\ pc[w] = "check" /\ Message(w).code = "requestPriority"
        /\ UNCHANGED <<threadVars, historyVars>>
    BY <1>5 DEF Check
  <2>2. CASE ~Allowed(Message(w))
    <3>1. Finish(w, Denied)
      BY <1>5, <2>2 DEF Check
    <3>2. QED
      BY <1>1, <2>1, <3>1, FinishType
  <2>3. CASE Allowed(Message(w)) /\ Message(w).tid = Message(w).pid
    <3>1. Goto(w, "group") /\ Vouched(Message(w))
      BY <1>5, <2>3 DEF Check, Vouched
    <3>2. QED
      BY <1>2, <2>1, <2>3, <3>1
  <2>4. CASE Allowed(Message(w)) /\ Message(w).tid # Message(w).pid
    <3>1. Goto(w, "access")
      BY <1>5, <2>4 DEF Check
    <3>2. QED
      BY <1>2, <2>1, <2>4, <3>1
  <2>5. QED
    BY <2>2, <2>3, <2>4
<1>6. CASE Access(w)
  <2>1. /\ pc[w] = "access" /\ UNCHANGED <<threadVars, historyVars>>
        /\ Allowed(Message(w)) /\ Message(w).code = "requestPriority"
    BY <1>6 DEF Access, WorkerInv
  <2>2. CASE ~TidBelongsToPid(Message(w))
    <3>1. Finish(w, Denied)
      BY <1>6, <2>2 DEF Access
    <3>2. QED
      BY <1>1, <2>1, <3>1, FinishType
  <2>3. CASE TidBelongsToPid(Message(w))
    <3>1. Goto(w, "group")
      BY <1>6, <2>3 DEF Access
    <3>2. Vouched(Message(w))
      <4>1. Request(w) \in Requests
        BY <2>1, RequestServed
      <4>2. Message(w).pid \in Nat \ {0} /\ Message(w).tid \in Tids
        BY <4>1, GonkSchedAssumption DEF Message
      <4>3. QED
        BY <2>3, <4>2 DEF Vouched, TidBelongsToPid, OwnerInv, Nobody
    <3>3. QED
      BY <1>2, <2>1, <3>1, <3>2
  <2>4. QED
    BY <2>2, <2>3
<1>7. QED
  BY <1>3, <1>4, <1>5, <1>6

\* set_sched_policy(): the thread has the group this worker wants, unless the
\* call fails or another worker is changing the thread.
LEMMA SetGroupStep ==
  ASSUME Inv, NEW w \in Workers, SetGroup(w)
  PROVE  Inv'
<1> DEFINE m == Message(w)
           t0 == m.tid
<1> USE DEF Inv
<1>1. /\ pc[w] = "group" /\ Goto(w, "policy")
      /\ UNCHANGED <<owner, prio, churn, used, reused, process, cause, halves>>
  BY DEF SetGroup
<1>2. /\ ServiceTypeOK' /\ UNCHANGED serving
      /\ pc'[w] = "policy"
      /\ \A v \in Workers \ {w} : pc'[v] = pc[v]
  BY <1>1, GotoType
<1>3. \A v \in Workers : Message(v)' = Message(v)
  BY <1>2, SameMessage
<1>4. Policy(m) \in Groups /\ t0 \in Tids
  <2>1. Request(w) \in Requests
    BY <1>1, RequestServed
  <2>2. QED
    BY <2>1, ContentType DEF Policy, Groups, Message
<1>5. /\ \/ /\ group' = [group EXCEPT ![t0] = Policy(m)]
            /\ grouping' = grouping \cup {w}
         \/ UNCHANGED <<group, grouping>>
      /\ mixed' = IF Changing(t0) THEN mixed \cup {t0} ELSE mixed
  BY DEF SetGroup
<1>6. ThreadTypeOK'
  <2>1. group' \in [Tids -> Groups]
    BY <1>4, <1>5 DEF ThreadTypeOK
  <2>2. mixed' \subseteq Tids
    BY <1>4, <1>5 DEF ThreadTypeOK
  <2>3. QED
    BY <1>1, <2>1, <2>2 DEF ThreadTypeOK
<1>7. OwnerInv' /\ CauseInv'
  BY <1>1 DEF OwnerInv, CauseInv, Vouched
<1>8. WorkerInv'
  <2>1. /\ Allowed(m) /\ m.code = "requestPriority" /\ Vouched(m)
    BY <1>1 DEF WorkerInv
  <2>2. QED
    BY <1>1, <1>2, <1>3, <2>1, OthersKeep
<1>9. /\ \A t \in Tids : t # t0 => group'[t] = group[t]
      /\ w \notin grouping /\ grouping \subseteq Workers
      /\ w \in grouping' => group'[t0] = Policy(m)
      /\ w \notin grouping' => group' = group
      /\ \A v \in Workers : v # w => (v \in grouping' <=> v \in grouping)
  BY <1>1, <1>4, <1>5 DEF ThreadTypeOK, GroupingInv
<1>10. \A v \in Workers, t \in Tids :
         Targets(v, t)' <=> Targets(v, t) \/ (v = w /\ t = t0)
  BY <1>1, <1>2, <1>3 DEF Targets
<1>11. \A t \in Tids : Changing(t) <=> \E v \in Workers : Targets(v, t)
  BY DEF Changing, Targets
<1>12. GroupingInv'
  BY <1>2, <1>5 DEF GroupingInv
<1>13. mixed \subseteq mixed' /\ (t0 \notin mixed' => ~Changing(t0))
  BY <1>5
<1>14. ASSUME NEW t \in Tids, t \notin mixed'
       PROVE  /\ \A u, v \in Workers : Targets(u, t)' /\ Targets(v, t)' => u = v
              /\ \A v \in grouping' :
                   Targets(v, t)' /\ owner[t] # Nobody =>
                     group'[t] = Policy(Message(v)')
  <2>0. grouping' \subseteq Workers
    BY <1>12 DEF GroupingInv
  <2>1. CASE t = t0
    <3>1. \A v \in Workers : ~Targets(v, t)
      BY <1>11, <1>13, <1>14, <2>1
    <3>2. \A v \in Workers : Targets(v, t)' => v = w
      BY <1>10, <3>1
    <3>3. QED
      BY <1>3, <1>9, <2>0, <2>1, <3>2
  <2>2. CASE t # t0
    <3>1. t \notin mixed
      BY <1>13, <1>14
    <3>2. \A v \in Workers : Targets(v, t)' <=> Targets(v, t)
      BY <1>10, <2>2
    <3>3. ASSUME NEW v \in grouping', Targets(v, t)'
          PROVE  v \in grouping
      <4>1. v \in Workers
        BY <2>0, <3>3
      <4>2. \/ v # w
            \/ v \in grouping
        <5>1. Message(w)' = m
          BY <1>3
        <5>2. Targets(w, t)' => Message(w)'.tid = t
          BY DEF Targets
        <5>3. ~Targets(w, t)'
          BY <2>2, <5>1, <5>2
        <5>4. QED
          BY <3>3, <5>3
      <4>3. QED
        BY <1>9, <3>3, <4>1, <4>2
    <3>4. \A u, v \in Workers : Targets(u, t)' /\ Targets(v, t)' => u = v
      BY <3>1, <3>2 DEF GroupInv
    <3>5. ASSUME NEW v \in grouping', Targets(v, t)', owner[t] # Nobody
          PROVE  group'[t] = Policy(Message(v)')
      <4>1. v \in Workers /\ v \in grouping /\ Targets(v, t)
        BY <2>0, <3>2, <3>3, <3>5
      <4>2. group[t] = Policy(Message(v))
        BY <3>1, <3>5, <4>1 DEF GroupInv
      <4>3. group'[t] = group[t] /\ Message(v)' = Message(v)
        BY <1>3, <1>9, <2>2, <4>1
      <4>4. QED
        BY <4>2, <4>3
    <3>6. QED
      BY <3>4, <3>5
  <2>3. QED
    BY <2>1, <2>2
<1>15. GroupInv'
  BY <1>1, <1>14 DEF GroupInv, Policy
<1>16. OneRequestInv'
  <2>1. SUFFICES ASSUME NEW t \in Tids, t \notin mixed' \cup halves, prio[t] > 0,
                        \A v \in grouping' : ~Targets(v, t)'
                 PROVE  \E r \in cause[t] : prio[t] = Content[r].prio
                                               /\ group'[t] = Policy(Content[r])
    BY <1>1 DEF OneRequestInv, Policy
  <2>2. t \notin mixed \cup halves
    BY <1>13, <2>1
  <2>3. \A v \in grouping : ~Targets(v, t)
    <3>1. grouping \subseteq grouping'
      BY <1>5
    <3>2. QED
      BY <1>9, <1>10, <2>1, <3>1
  <2>4. group'[t] = group[t]
    <3>1. CASE t = t0
      BY <1>9, <1>10, <2>1, <3>1
    <3>2. CASE t # t0
      BY <1>9, <3>2
    <3>3. QED
      BY <3>1, <3>2
  <2>5. QED
    BY <2>1, <2>2, <2>3, <2>4 DEF OneRequestInv
<1>17. QED
  BY <1>2, <1>6, <1>7, <1>8, <1>12, <1>15, <1>16

\* sched_setscheduler(): the thread, if both calls have worked, now has
\* priority and group of this request.
LEMMA SetSchedulerStep ==
  ASSUME Inv, NEW w \in Workers, SetScheduler(w)
  PROVE  Inv'
<1> DEFINE r0 == Request(w)
           m == Message(w)
           t0 == m.tid
           done == result'[r0] = Granted
<1> USE DEF Inv
<1>1. /\ pc[w] = "policy"
      /\ \E code \in {Granted, Denied} : Finish(w, code)
      /\ grouping' = grouping \ {w}
      /\ UNCHANGED <<owner, group, churn, used, reused, process, mixed>>
  BY DEF SetScheduler
<1>2. /\ ServiceTypeOK' /\ pc'[w] = "idle"
      /\ \A v \in Workers \ {w} : pc'[v] = pc[v] /\ serving'[v] = serving[v]
  BY <1>1, FinishType
<1>3. r0 \in Requests /\ m = Content[r0] /\ t0 \in Tids
  BY <1>1, RequestServed, ContentType DEF Message
<1>4. Allowed(m) /\ m.code = "requestPriority" /\ Vouched(m)
  BY <1>1 DEF WorkerInv
<1>5. m.prio \in 1..PRIORITY_MAX
  BY <1>3, <1>4, ContentType
<1>6. \/ /\ done /\ owner[t0] # Nobody
         /\ prio' = [prio EXCEPT ![t0] = m.prio]
         /\ cause' = [cause EXCEPT ![t0] = {r0}]
         /\ halves' = IF w \in grouping THEN halves \ {t0}
                                       ELSE halves \cup {t0}
      \/ /\ ~done /\ UNCHANGED <<prio, cause>>
         /\ halves' = IF w \in grouping THEN halves \cup {t0} ELSE halves
  BY <1>3 DEF SetScheduler, Finish, Granted, Denied, ServiceTypeOK
<1>7. ThreadTypeOK'
  <2>1. prio' \in [Tids -> 0..PRIORITY_MAX]
    <3>1. m.prio \in 0..PRIORITY_MAX
      BY <1>5
    <3>2. QED
      BY <1>6, <3>1 DEF ThreadTypeOK
  <2>2. cause' \in [Tids -> SUBSET Requests]
    BY <1>3, <1>6 DEF ThreadTypeOK
  <2>3. halves' \subseteq Tids
    BY <1>3, <1>6 DEF ThreadTypeOK
  <2>4. QED
    BY <1>1, <2>1, <2>2, <2>3 DEF ThreadTypeOK
<1>8. /\ \A t \in Tids : t # t0 \/ ~done =>
           prio'[t] = prio[t] /\ cause'[t] = cause[t]
      /\ done => prio'[t0] = m.prio /\ cause'[t0] = {r0} /\ owner[t0] # Nobody
      /\ \A t \in Tids : t # t0 => (t \in halves' <=> t \in halves)
  BY <1>3, <1>6 DEF ThreadTypeOK
<1>9. OwnerInv'
  BY <1>1, <1>8 DEF OwnerInv
<1>10. WorkerInv'
  BY <1>1, <1>2, OthersKeep
<1>11. CauseInv'
  <2>1. \A q : Vouched(q)' <=> Vouched(q)
    BY <1>1 DEF Vouched
  <2>2. \A q : Vouched(q) => Vouched(q)'
    BY <2>1
  <2>3. ASSUME NEW t \in Tids, prio'[t] > 0
        PROVE  \E r \in cause'[t] :
                 /\ Allowed(Content[r]) /\ Content[r].code = "requestPriority"
                 /\ prio'[t] = Content[r].prio /\ Vouched(Content[r])
    <3>1. CASE t = t0 /\ done
      BY <1>3, <1>4, <1>8, <3>1
    <3>2. CASE t # t0 \/ ~done
      BY <1>8, <2>3, <3>2 DEF CauseInv
    <3>3. QED
      BY <3>1, <3>2
  <2>4. QED
    BY <1>1, <2>3 DEF CauseInv, Vouched
<1>12. \A v \in Workers : v # w => Message(v)' = Message(v)
  BY <1>2, SameMessage
<1>13. \A v \in Workers, t \in Tids :
         Targets(v, t)' <=> Targets(v, t) /\ v # w
  BY <1>2, <1>12 DEF Targets
<1>14. Targets(w, t0) /\ \A t \in Tids : Targets(w, t) => t = t0
  BY <1>1 DEF Targets
<1>15. GroupingInv' /\ GroupInv'
  <2>1. \A v \in Workers, t \in Tids :
          Targets(v, t)' => Targets(v, t) /\ Message(v)' = Message(v)
    BY <1>12, <1>13
  <2>2. GroupingInv'
    BY <1>1, <1>2 DEF GroupingInv
  <2>3. grouping' \subseteq Workers
    BY <2>2 DEF GroupingInv
  <2>4. QED
    BY <1>1, <2>1, <2>2, <2>3 DEF GroupInv, Policy
<1>16. OneRequestInv'
  <2>1. SUFFICES ASSUME NEW t \in Tids, t \notin mixed, t \notin halves',
                        prio'[t] > 0, \A v \in grouping' : ~Targets(v, t)'
                 PROVE  \E r \in cause'[t] : prio'[t] = Content[r].prio
                                               /\ group[t] = Policy(Content[r])
    BY <1>1 DEF OneRequestInv, Policy
  <2>2. grouping \subseteq Workers
    BY DEF GroupingInv
  <2>3. CASE t = t0 /\ done
    <3>1. w \in grouping
      BY <1>6, <2>1, <2>3
    <3>2. group[t] = Policy(m)
      BY <1>8, <1>14, <2>1, <2>3, <3>1 DEF GroupInv
    <3>3. QED
      BY <1>3, <1>8, <2>3, <3>2
  <2>4. CASE t = t0 /\ ~done
    <3>1. w \notin grouping /\ t \notin halves
      BY <1>6, <2>1, <2>4
    <3>2. \A v \in grouping : ~Targets(v, t)
      BY <1>14, <2>1, <2>2, <2>4, <3>1 DEF GroupInv
    <3>3. QED
      BY <1>8, <2>1, <2>4, <3>1, <3>2 DEF OneRequestInv
  <2>5. CASE t # t0
    <3>1. \A v \in grouping : ~Targets(v, t)
      BY <1>1, <1>13, <1>14, <2>1, <2>2, <2>5
    <3>2. QED
      BY <1>8, <2>1, <2>5, <3>1 DEF OneRequestInv
  <2>6. QED
    BY <2>3, <2>4, <2>5
<1>17. QED
  BY <1>2, <1>7, <1>9, <1>10, <1>11, <1>15, <1>16

-----------------------------------------------------------------------------
(***************************************************************************)
(* The steps of the other threads.                                         *)
(***************************************************************************)
\* A thread that starts inherits what its parent has, and the cause of it.
LEMMA NewThreadStep ==
  ASSUME Inv, NEW t \in Tids, NEW u \in Tids, NewThread(t, u)
  PROVE  Inv'
<1> USE DEF Inv
<1>1. /\ owner[t] # Nobody /\ owner[u] = Nobody /\ t # u
      /\ prio' = [prio EXCEPT ![u] = prio[t]]
      /\ group' = [group EXCEPT ![u] = group[t]]
      /\ used' = used \cup {u}
      /\ cause' = [cause EXCEPT ![u] = cause[t]]
      /\ mixed' = IF Disturbed(t, u) THEN mixed \cup {u} ELSE mixed
      /\ halves' = IF t \in halves THEN halves \cup {u} ELSE halves \ {u}
      /\ UNCHANGED <<pc, serving, reply, result, grouping>>
  BY DEF NewThread, serviceVars
<1>2. PICK p \in {owner[t], u} : /\ owner' = [owner EXCEPT ![u] = p]
                                 /\ process' = [process EXCEPT ![u] = p]
  BY DEF NewThread
<1>3. reused' = (reused \/ u \in used)
  BY DEF NewThread
<1>4. p \in Nat \ {0}
  BY <1>1, <1>2, GonkSchedAssumption DEF ThreadTypeOK, Nobody
<1>5. ThreadTypeOK'
  <2>1. owner' \in [Tids -> Nat] /\ process' \in [Tids -> Nat]
    BY <1>2, <1>4 DEF ThreadTypeOK
  <2>2. /\ prio' \in [Tids -> 0..PRIORITY_MAX] /\ group' \in [Tids -> Groups]
        /\ cause' \in [Tids -> SUBSET Requests]
    BY <1>1 DEF ThreadTypeOK
  <2>3. used' \subseteq Tids /\ mixed' \subseteq Tids /\ halves' \subseteq Tids
    BY <1>1 DEF ThreadTypeOK
  <2>4. churn' \in 0..MaxChurn
    BY GonkSchedAssumption DEF NewThread, Churn, ThreadTypeOK
  <2>5. reused' \in BOOLEAN
    BY <1>3
  <2>6. QED
    BY <2>1, <2>2, <2>3, <2>4, <2>5 DEF ThreadTypeOK
<1>6. /\ prio'[u] = prio[t] /\ group'[u] = group[t] /\ cause'[u] = cause[t]
      /\ owner'[u] = p /\ process'[u] = p
      /\ \A v \in Tids : v # u =>
           /\ prio'[v] = prio[v] /\ group'[v] = group[v]
           /\ cause'[v] = cause[v] /\ owner'[v] = owner[v]
           /\ process'[v] = process[v]
  BY <1>1, <1>2 DEF ThreadTypeOK
<1>7. ServiceTypeOK'
  BY <1>1 DEF ServiceTypeOK
<1>8. OwnerInv'
  BY <1>1, <1>4, <1>6 DEF OwnerInv, Nobody
<1>9. ~reused' => ~reused /\ u \notin used
  BY <1>3
<1>10. ASSUME NEW r \in Requests, Vouched(Content[r])
       PROVE  Vouched(Content[r])'
  <2>1. Content[r].tid \in Tids
    BY ContentType
  <2>2. QED
    BY <1>1, <1>6, <1>9, <1>10, <2>1 DEF Vouched
<1>11. \A v \in Workers : Message(v)' = Message(v)
  BY <1>1, SameMessage
<1>12. WorkerInv'
  <2>1. ASSUME NEW v \in Workers, pc[v] \in {"group", "policy"}
        PROVE  Vouched(Message(v))'
    <3>1. Request(v) \in Requests /\ Vouched(Message(v))
      BY <2>1, RequestServed DEF WorkerInv
    <3>2. Vouched(Content[Request(v)])
      BY <3>1 DEF Message
    <3>3. Vouched(Content[Request(v)])'
      <4>1. \A r \in Requests : Vouched(Content[r]) => Vouched(Content[r])'
        BY <1>10
      <4>2. Vouched(Content[Request(v)]) => (~reused' =>
               \/ Message(v).tid = Message(v).pid
               \/ /\ Message(v).tid \in used'
                  /\ process'[Message(v).tid] = Message(v).pid)
        BY <3>1, <4>1 DEF Vouched, Message
      <4>3. Message(v)' = Message(v) /\ Message(v) = Content[Request(v)]
        BY <1>11 DEF Message
      <4>4. Content[Request(v)]' = Content[Request(v)]
        BY <4>3 DEF Message
      <4>5. QED
        BY <3>2, <4>2, <4>3, <4>4 DEF Vouched
    <3>4. QED
      BY <3>3 DEF Message
  <2>2. \A v \in Workers : pc[v] \in {"access", "group", "policy"} =>
          Allowed(Message(v)') /\ Message(v)'.code = "requestPriority"
    BY <1>11 DEF WorkerInv
  <2>3. QED
    BY <1>1, <2>1, <2>2 DEF WorkerInv, Allowed
<1>13. CauseInv'
  <2>1. ASSUME NEW v \in Tids, prio'[v] > 0
        PROVE  \E r \in cause'[v] :
                 /\ Allowed(Content[r]) /\ Content[r].code = "requestPriority"
                 /\ prio'[v] = Content[r].prio /\ Vouched(Content[r])'
    <3>1. PICK s \in Tids : prio'[v] = prio[s] /\ cause'[v] = cause[s]
      BY <1>6
    <3>2. PICK r \in cause[s] :
             /\ Allowed(Content[r]) /\ Content[r].code = "requestPriority"
             /\ prio[s] = Content[r].prio /\ Vouched(Content[r])
      BY <2>1, <3>1 DEF CauseInv
    <3>3. r \in Requests
      BY <3>1, <3>2 DEF ThreadTypeOK
    <3>4. QED
      BY <1>10, <3>1, <3>2, <3>3
  <2>2. QED
    BY <2>1 DEF CauseInv, Vouched
<1>14. \A v \in Workers, s \in Tids : Targets(v, s)' <=> Targets(v, s)
  BY <1>1, <1>11 DEF Targets
<1>15. /\ \A s \in Tids : Changing(s) <=> \E v \in Workers : Targets(v, s)
       /\ \A s \in Tids : Changing(s)' <=> \E v \in Workers : Targets(v, s)'
  BY DEF Changing, Targets
<1>16. /\ mixed \subseteq mixed'
       /\ u \notin mixed' => /\ u \notin mixed /\ t \notin mixed
                             /\ ~Changing(t) /\ ~Changing(u)
  BY <1>1 DEF Disturbed
<1>17. GroupingInv' /\ GroupInv'
  <2>1. grouping \subseteq Workers /\ grouping' = grouping
    BY <1>1 DEF GroupingInv
  <2>2. ASSUME NEW s \in Tids, s \notin mixed'
        PROVE  /\ \A v, w \in Workers :
                    Targets(v, s)' /\ Targets(w, s)' => v = w
               /\ \A w \in grouping :
                    Targets(w, s)' /\ owner'[s] # Nobody =>
                      group'[s] = Policy(Message(w)')
    <3>1. CASE s = u
      BY <1>14, <1>15, <1>16, <2>1, <2>2, <3>1
    <3>2. CASE s # u
      BY <1>6, <1>11, <1>14, <1>16, <2>1, <2>2, <3>2 DEF GroupInv
    <3>3. QED
      BY <3>1, <3>2
  <2>3. GroupingInv'
    BY <1>1 DEF GroupingInv
  <2>4. QED
    BY <2>1, <2>2, <2>3 DEF GroupInv, Policy
<1>18. OneRequestInv'
  <2>1. grouping \subseteq Workers /\ grouping' = grouping
    BY <1>1 DEF GroupingInv
  <2>2. SUFFICES ASSUME NEW s \in Tids, s \notin mixed', s \notin halves',
                        prio'[s] > 0, \A w \in grouping : ~Targets(w, s)'
                 PROVE  \E r \in cause'[s] : prio'[s] = Content[r].prio
                                               /\ group'[s] = Policy(Content[r])
    BY <2>1 DEF OneRequestInv, Policy
  <2>3. CASE s = u
    <3>1. t \notin mixed \cup halves
      BY <1>1, <1>16, <2>2, <2>3
    <3>2. \A w \in grouping : ~Targets(w, t)
      BY <1>15, <1>16, <2>1, <2>2, <2>3
    <3>3. QED
      BY <1>6, <2>2, <2>3, <3>1, <3>2 DEF OneRequestInv
  <2>4. CASE s # u
    <3>1. s \notin mixed \cup halves
      BY <1>1, <1>16, <2>2, <2>4
    <3>2. \A w \in grouping : ~Targets(w, s)
      BY <1>14, <2>1, <2>2
    <3>3. QED
      BY <1>6, <2>2, <2>4, <3>1, <3>2 DEF OneRequestInv
  <2>5. QED
    BY <2>3, <2>4
<1>19. QED
  BY <1>5, <1>7, <1>8, <1>12, <1>13, <1>17, <1>18

\* A thread that ends has no priority any more.
LEMMA ExitThreadStep ==
  ASSUME Inv, NEW t \in Tids, ExitThread(t)
  PROVE  Inv'
<1> USE DEF Inv
<1>1. /\ owner' = [owner EXCEPT ![t] = Nobody]
      /\ prio' = [prio EXCEPT ![t] = 0]
      /\ group' = [group EXCEPT ![t] = "default"]
      /\ cause' = [cause EXCEPT ![t] = None]
      /\ UNCHANGED <<used, reused, process, mixed, grouping, halves>>
      /\ UNCHANGED <<pc, serving, reply, result>>
  BY DEF ExitThread, serviceVars
<1>2. ThreadTypeOK'
  <2>1. /\ owner' \in [Tids -> Nat] /\ prio' \in [Tids -> 0..PRIORITY_MAX]
        /\ group' \in [Tids -> Groups] /\ cause' \in [Tids -> SUBSET Requests]
    BY <1>1 DEF ThreadTypeOK, Nobody, None, Groups, PRIORITY_MAX
  <2>2. churn' \in 0..MaxChurn
    BY GonkSchedAssumption DEF ExitThread, Churn, ThreadTypeOK
  <2>3. QED
    BY <1>1, <2>1, <2>2 DEF ThreadTypeOK
<1>3. /\ prio'[t] = 0 /\ owner'[t] = Nobody
      /\ \A v \in Tids : v # t =>
           /\ prio'[v] = prio[v] /\ group'[v] = group[v]
           /\ cause'[v] = cause[v] /\ owner'[v] = owner[v]
  BY <1>1 DEF ThreadTypeOK
<1>4. ServiceTypeOK' /\ OwnerInv'
  BY <1>1, <1>3 DEF ServiceTypeOK, OwnerInv
<1>5. \A v \in Workers : Message(v)' = Message(v)
  BY <1>1, SameMessage
<1>6. WorkerInv'
  BY <1>1, <1>5 DEF WorkerInv, Vouched, Allowed
<1>7. CauseInv'
  BY <1>1, <1>3 DEF CauseInv, Vouched
<1>8. \A v \in Workers, s \in Tids : Targets(v, s)' <=> Targets(v, s)
  BY <1>1, <1>5 DEF Targets
<1>9. GroupingInv'
  BY <1>1 DEF GroupingInv
<1>10. grouping \subseteq Workers
  BY DEF GroupingInv
<1>11. GroupInv'
  BY <1>1, <1>3, <1>5, <1>8, <1>10 DEF GroupInv, Policy
<1>12. OneRequestInv'
  <2>1. \A s \in Tids : prio'[s] > 0 => s # t
    BY <1>3
  <2>2. QED
    BY <1>1, <1>3, <1>8, <1>10, <2>1 DEF OneRequestInv, Policy
<1>13. QED
  BY <1>2, <1>4, <1>6, <1>7, <1>9, <1>11, <1>12

-----------------------------------------------------------------------------
(***************************************************************************)
(* The theorems.                                                           *)
(***************************************************************************)
LEMMA InvStart ==
  ASSUME Init
  PROVE  Inv
<1>1. ThreadTypeOK
  <2>1. owner \in [Tids -> Nat] /\ process \in [Tids -> Nat]
    BY GonkSchedAssumption DEF Init
  <2>2. prio \in [Tids -> 0..PRIORITY_MAX] /\ group \in [Tids -> Groups]
    BY DEF Init, PRIORITY_MAX, Groups
  <2>3. cause \in [Tids -> SUBSET Requests]
    BY DEF Init, None
  <2>4. /\ used \subseteq Tids /\ mixed \subseteq Tids /\ reused \in BOOLEAN
        /\ halves \subseteq Tids
    BY DEF Init
  <2>5. churn \in 0..MaxChurn
    BY GonkSchedAssumption DEF Init
  <2>6. QED
    BY <2>1, <2>2, <2>3, <2>4, <2>5 DEF ThreadTypeOK
<1>2. ServiceTypeOK
  BY DEF Init, ServiceTypeOK, None
<1>3. OwnerInv /\ WorkerInv /\ CauseInv
  BY DEF Init, OwnerInv, WorkerInv, CauseInv
<1>4. GroupingInv /\ GroupInv /\ OneRequestInv
  BY DEF Init, GroupingInv, GroupInv, OneRequestInv, Targets
<1>5. QED
  BY <1>1, <1>2, <1>3, <1>4 DEF Inv

\* Every step keeps the invariant.
LEMMA InvStep ==
  ASSUME Inv, [Next]_vars
  PROVE  Inv'
<1>1. CASE UNCHANGED vars
  <2>1. /\ UNCHANGED <<threadVars, historyVars>>
        /\ UNCHANGED <<pc, serving, reply, result>>
    BY <1>1 DEF vars, serviceVars
  <2>2. Core'
    BY <2>1, QuietStep DEF Inv, Core
  <2>3. ServiceTypeOK'
    BY <2>1 DEF Inv, ServiceTypeOK
  <2>4. WorkerInv'
    BY <2>1, SameMessage DEF Inv, WorkerInv, Vouched, Allowed, threadVars
  <2>5. QED
    BY <2>2, <2>3, <2>4 DEF Inv, Core
<1>2. CASE Next
  BY <1>2, NextCases, EasyWorkStep, SetGroupStep, SetSchedulerStep,
     NewThreadStep, ExitThreadStep
<1>3. QED
  BY <1>1, <1>2

\* The invariant holds at all times.
LEMMA Invariance == Spec => []Inv
BY InvStart, InvStep, PTL DEF Spec

\* Every variable keeps its type, and a worker that is not idle serves one
\* request: the service never loses track of what it answers
\* (gonksched.cpp:101-121).
THEOREM TypeCorrect == Spec => []TypeOK
<1>1. ASSUME Inv
      PROVE  TypeOK
  <2>1. ASSUME NEW w \in Workers
        PROVE  Cardinality(serving[w]) = IF pc[w] = "idle" THEN 0 ELSE 1
    <3>1. CASE pc[w] = "idle"
      BY <1>1, <3>1, FS_EmptySet DEF Inv, ServiceTypeOK
    <3>2. CASE pc[w] # "idle"
      <4>1. PICK r \in Requests : serving[w] = {r}
        BY <1>1, <3>2 DEF Inv, ServiceTypeOK
      <4>2. QED
        BY <3>2, <4>1, FS_Singleton
    <3>3. QED
      BY <3>1, <3>2
  <2>2. QED
    BY <1>1, <2>1 DEF Inv, ThreadTypeOK, ServiceTypeOK, GroupingInv, TypeOK
<1>2. QED
  BY <1>1, Invariance, PTL

\* A SCHED_FIFO priority goes back to an allowed request of the media server,
\* through any number of clones and workers; and without reuse of tids the
\* look at /proc long before is as good as one at the time of the change
\* (gonksched.cpp:78-88).
THEOREM OnlyGranted == Spec => []FifoIsGranted
<1>1. ASSUME Inv
      PROVE  FifoIsGranted
  <2>1. ASSUME NEW t \in Tids, prio[t] > 0
        PROVE  \E r \in cause[t] :
                 LET m == Content[r] IN
                 /\ m.uid = MediaUid /\ m.code = "requestPriority"
                 /\ prio[t] = m.prio /\ m.prio \in PRIORITY_MIN..PRIORITY_MAX
                 /\ ~reused => m.tid = m.pid \/ process[m.tid] = m.pid
    <3>1. PICK r \in cause[t] :
             /\ Allowed(Content[r]) /\ Content[r].code = "requestPriority"
             /\ prio[t] = Content[r].prio /\ Vouched(Content[r])
      BY <1>1, <2>1 DEF Inv, CauseInv
    <3>2. QED
      BY <3>1 DEF Allowed, Vouched
  <2>2. QED
    BY <2>1 DEF FifoIsGranted
<1>2. QED
  BY <1>1, Invariance, PTL

\* Although a request changes its thread in two system calls, and goes on when
\* the first fails, the thread ends with priority and group of one and the same
\* request, unless another request or the thread's own start came between them
\* or just one of them failed (gonksched.cpp:84-90).
THEOREM OneDecides == Spec => []OneRequestDecides
<1>1. ASSUME Inv
      PROVE  OneRequestDecides
  <2>1. SUFFICES ASSUME NEW t \in Tids, prio[t] > 0, t \notin mixed \cup halves,
                        ~Changing(t)
                 PROVE  \E r \in cause[t] :
                          /\ prio[t] = Content[r].prio
                          /\ group[t] = "SP_AUDIO_SYS" <=>
                               Content[r].caller = Content[r].pid
    BY DEF OneRequestDecides
  <2>2. \A w \in grouping : ~Targets(w, t)
    BY <1>1, <2>1 DEF Inv, GroupingInv, Changing, Targets
  <2>3. PICK r \in cause[t] : /\ prio[t] = Content[r].prio
                              /\ group[t] = Policy(Content[r])
    BY <1>1, <2>1, <2>2 DEF Inv, OneRequestInv
  <2>4. QED
    BY <2>3 DEF Policy
<1>2. QED
  BY <1>1, Invariance, PTL
=============================================================================
