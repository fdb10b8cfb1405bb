------------------------------ MODULE GonkSched ------------------------------
(***************************************************************************)
(* gonksched.cpp: the service that makes threads of others SCHED_FIFO for  *)
(* the media server.  The threads of its binder pool serve requests at the *)
(* same time, each in three system calls, any of which may fail, while the *)
(* threads they name die, start others and give their tids away.           *)
(***************************************************************************)
EXTENDS Integers, FiniteSets

CONSTANTS
  Workers,  \* the threads of the binder pool
  Requests, \* the identities of the requests
  Content,  \* Content[r]: what request r says
  Tids,     \* the thread ids
  Start,    \* Start[t]: the process of thread t at first, Nobody for none
  MaxChurn  \* how many times the threads may change (a bound of the model)

Nobody == 0
MediaUid == "media"

\* code tells requestPriority from other transactions, and from one for another
\* interface.  The kernel tells the service who calls: the uid, and the pid of a
\* caller that waits for the reply, or Nobody for one that does not.  All ids in
\* requests are those of processes and threads, that is, positive; Tids has
\* every tid that is named.
ASSUME GonkSchedAssumption ==
  /\ Tids \subseteq Nat \ {Nobody}
  /\ Start \in [Tids -> Nat]
  /\ Content \in [Requests -> [code : {"requestPriority", "foreign", "other"},
                               uid : {MediaUid, "app"}, caller : Nat,
                               pid : Nat \ {0}, tid : Tids, prio : Int]]
  /\ MaxChurn \in Nat

VARIABLES
  owner,    \* owner[t]: the process of thread t, Nobody for a free tid
  prio,     \* prio[t]: its SCHED_FIFO priority, 0 under another policy
  group,    \* group[t]: its scheduling group
  pc,       \* pc[w]: what worker w does next
  serving,  \* serving[w]: the request it serves
  reply,    \* reply[r]: "sent", or the status answered to r; a request
            \* that is sent late is one that is received late
  result,   \* result[r]: what requestPriority() returned, Pending until then
  churn,    \* the number of changes of the threads so far
  used,     \* history: the tids that have been in use
  reused,   \* history: whether a tid has been used again
  process,  \* history: process[t]: the process t was last a thread of
  cause,    \* history: cause[t]: the request that the priority of t comes
            \* from, made for t or for a thread it descends from
  mixed,    \* history: the threads changed by two requests at once, those
            \* that descend from a thread that was being changed, and those
            \* that began while a request was changing the thread with their
            \* tid
  grouping, \* history: the workers that have set the group of their thread,
            \* and not yet tried its priority
  halves    \* history: the threads for which the last request that changed
            \* anything failed in one of its two system calls, and those that
            \* descend from them

threadVars == <<owner, prio, group, churn, used, reused, process>>
serviceVars == <<pc, serving, reply, result>>
historyVars == <<cause, mixed, grouping, halves>>
vars == <<threadVars, serviceVars, historyVars>>

PRIORITY_MIN == 1
PRIORITY_MAX == 3
Denied == -1
Granted == 0
Pending == 1
None == {}
Groups == {"default", "SP_AUDIO_SYS", "SP_AUDIO_APP"}

TypeOK ==
  /\ owner \in [Tids -> Nat] /\ process \in [Tids -> Nat]
  /\ prio \in [Tids -> 0..PRIORITY_MAX]
  /\ group \in [Tids -> Groups]
  /\ pc \in [Workers -> {"idle", "check", "access", "group", "policy"}]
  /\ serving \in [Workers -> SUBSET Requests]
  /\ \A w \in Workers : Cardinality(serving[w]) = IF pc[w] = "idle" THEN 0 ELSE 1
  /\ reply \in [Requests -> {"sent", "NO_ERROR", "denied", "unknown"}]
  /\ result \in [Requests -> {Pending, Granted, Denied}]
  /\ churn \in 0..MaxChurn
  /\ used \subseteq Tids /\ reused \in BOOLEAN /\ mixed \subseteq Tids
  /\ cause \in [Tids -> SUBSET Requests]
  /\ grouping \subseteq Workers /\ halves \subseteq Tids

Init ==
  /\ owner = Start /\ process = Start
  /\ prio = [t \in Tids |-> 0] /\ group = [t \in Tids |-> "default"]
  /\ pc = [w \in Workers |-> "idle"] /\ serving = [w \in Workers |-> None]
  /\ reply = [r \in Requests |-> "sent"]
  /\ result = [r \in Requests |-> Pending]
  /\ churn = 0 /\ used = {t \in Tids : Start[t] # Nobody} /\ reused = FALSE
  /\ cause = [t \in Tids |-> None] /\ mixed = {}
  /\ grouping = {} /\ halves = {}

-----------------------------------------------------------------------------
(***************************************************************************)
(* onTransact() and requestPriority(), run by worker w.                    *)
(***************************************************************************)
Request(w) == CHOOSE r \in Requests : r \in serving[w]
Message(w) == Content[Request(w)]

Receive(w, r) ==
  /\ pc[w] = "idle"
  /\ reply[r] = "sent" /\ \A v \in Workers : r \notin serving[v]
  /\ serving' = [serving EXCEPT ![w] = {r}]
  /\ pc' = [pc EXCEPT ![w] = "check"]
  /\ UNCHANGED <<threadVars, reply, result, historyVars>>

Goto(w, label) ==
  /\ pc' = [pc EXCEPT ![w] = label]
  /\ UNCHANGED <<serving, reply, result>>

\* onTransact() drops what requestPriority() returns: the transaction has
\* succeeded, and its reply is empty.
Status(code) == "NO_ERROR"

Finish(w, code) ==
  /\ pc' = [pc EXCEPT ![w] = "idle"]
  /\ serving' = [serving EXCEPT ![w] = None]
  /\ reply' = [reply EXCEPT ![Request(w)] = Status(code)]
  /\ result' = [result EXCEPT ![Request(w)] = code]

\* CHECK_INTERFACE answers PERMISSION_DENIED, BBinder::onTransact() something
\* else.
Refusal(m) == IF m.code = "foreign" THEN "denied" ELSE "unknown"

OtherTransaction(w) ==
  /\ pc[w] = "check" /\ Message(w).code # "requestPriority"
  /\ pc' = [pc EXCEPT ![w] = "idle"]
  /\ serving' = [serving EXCEPT ![w] = None]
  /\ reply' = [reply EXCEPT ![Request(w)] = Refusal(Message(w))]
  /\ UNCHANGED <<threadVars, result, historyVars>>

\* Mistake: the priority may be anything.
AnyPriority(m) == m.uid = MediaUid

Allowed(m) == m.uid = MediaUid /\ m.prio \in PRIORITY_MIN..PRIORITY_MAX

Check(w) ==
  /\ pc[w] = "check" /\ Message(w).code = "requestPriority"
  /\ IF Allowed(Message(w))
     THEN Goto(w, IF Message(w).tid = Message(w).pid THEN "group"
                                                     ELSE "access")
     ELSE Finish(w, Denied)
  /\ UNCHANGED <<threadVars, historyVars>>

\* Mistake: any thread that exists will do.
Alive(m) == owner[m.tid] # Nobody

\* access() of /proc/<pid>/task/<tid>/status
TidBelongsToPid(m) == owner[m.tid] = m.pid

Access(w) ==
  /\ pc[w] = "access"
  /\ IF TidBelongsToPid(Message(w)) THEN Goto(w, "group")
                                    ELSE Finish(w, Denied)
  /\ UNCHANGED <<threadVars, historyVars>>

\* Mistake: the two groups are swapped.
Swapped(m) == IF m.caller = m.pid THEN "SP_AUDIO_APP" ELSE "SP_AUDIO_SYS"

Policy(m) == IF m.caller = m.pid THEN "SP_AUDIO_SYS" ELSE "SP_AUDIO_APP"

\* Some worker has given t its group and not yet its priority.
Changing(t) == \E w \in Workers : pc[w] = "policy" /\ Message(w).tid = t

\* u starts from t between the two system calls of a request for either.
Disturbed(t, u) == t \in mixed \/ Changing(t) \/ Changing(u)

\* set_sched_policy(), whose result is ignored, fails when the thread is gone,
\* and may fail otherwise.
SetGroup(w) ==
  /\ pc[w] = "group"
  /\ LET m == Message(w) IN
       /\ \/ /\ owner[m.tid] # Nobody
             /\ group' = [group EXCEPT ![m.tid] = Policy(m)]
             /\ grouping' = grouping \cup {w}
          \/ UNCHANGED <<group, grouping>>
       /\ mixed' = IF Changing(m.tid) THEN mixed \cup {m.tid} ELSE mixed
  /\ Goto(w, "policy")
  /\ UNCHANGED <<owner, prio, churn, used, reused, process, cause, halves>>

\* sched_setscheduler() fails when the thread is gone, and may fail otherwise.
SetScheduler(w) ==
  /\ pc[w] = "policy"
  /\ LET m == Message(w) IN
       \/ /\ owner[m.tid] # Nobody
          /\ Finish(w, Granted)
          /\ prio' = [prio EXCEPT ![m.tid] = m.prio]
          /\ cause' = [cause EXCEPT ![m.tid] = {Request(w)}]
          /\ halves' = IF w \in grouping THEN halves \ {m.tid}
                                       ELSE halves \cup {m.tid}
       \/ /\ Finish(w, Denied)
          /\ halves' = IF w \in grouping THEN halves \cup {m.tid} ELSE halves
          /\ UNCHANGED <<prio, cause>>
  /\ grouping' = grouping \ {w}
  /\ UNCHANGED <<owner, group, churn, used, reused, process, mixed>>

Work(w) ==
  \/ \E r \in Requests : Receive(w, r)
  \/ OtherTransaction(w) \/ Check(w) \/ Access(w)
  \/ SetGroup(w) \/ SetScheduler(w)

-----------------------------------------------------------------------------
(***************************************************************************)
(* The threads of the other processes.                                     *)
(***************************************************************************)
Churn == churn < MaxChurn /\ churn' = churn + 1

\* clone(): u starts in the process of t or in a new one, and inherits the
\* policy and the group of t.
NewThread(t, u) ==
  /\ Churn
  /\ owner[t] # Nobody /\ owner[u] = Nobody
  /\ \E p \in {owner[t], u} :
       owner' = [owner EXCEPT ![u] = p] /\ process' = [process EXCEPT ![u] = p]
  /\ prio' = [prio EXCEPT ![u] = prio[t]]
  /\ group' = [group EXCEPT ![u] = group[t]]
  /\ used' = used \cup {u} /\ reused' = (reused \/ u \in used)
  /\ cause' = [cause EXCEPT ![u] = cause[t]]
  /\ mixed' = IF Disturbed(t, u) THEN mixed \cup {u} ELSE mixed
  /\ halves' = IF t \in halves THEN halves \cup {u} ELSE halves \ {u}
  /\ UNCHANGED <<serviceVars, grouping>>

ExitThread(t) ==
  /\ Churn
  /\ owner[t] # Nobody
  /\ owner' = [owner EXCEPT ![t] = Nobody]
  /\ prio' = [prio EXCEPT ![t] = 0]
  /\ group' = [group EXCEPT ![t] = "default"]
  /\ cause' = [cause EXCEPT ![t] = None]
  /\ UNCHANGED <<used, reused, process, serviceVars, mixed, grouping, halves>>

World ==
  \/ \E t, u \in Tids : NewThread(t, u)
  \/ \E t \in Tids : ExitThread(t)

Next == World \/ \E w \in Workers : Work(w)

Spec == Init /\ [][Next]_vars

-----------------------------------------------------------------------------
\* A thread is SCHED_FIFO only because the media server asked for it, or for
\* a thread it descends from, with a priority the service gives; and when
\* tids are not reused, the thread asked for was one of the process named,
\* although it is looked at long before it is changed (gonksched.cpp:79-88).
FifoIsGranted ==
  \A t \in Tids : prio[t] > 0 =>
    \E r \in cause[t] :
      LET m == Content[r] IN
      /\ m.uid = MediaUid /\ m.code = "requestPriority"
      /\ prio[t] = m.prio /\ m.prio \in PRIORITY_MIN..PRIORITY_MAX
      /\ ~reused => m.tid = m.pid \/ process[m.tid] = m.pid

\* The priority and the group of a thread come from one request, although they
\* are set by two system calls (gonksched.cpp:84-88): unless two requests have
\* changed it at once, or it has started between the two calls of a request,
\* which happens also without reuse of tids, as a request for a main thread is
\* carried out unchecked, before there is such a process (gonksched.cpp:79), or
\* just one of the two calls failed, which neither the service undoes nor the
\* caller learns.  A request that succeeds afterwards repairs the last, and one
\* that fails in both calls does no harm.
OneRequestDecides ==
  \A t \in Tids :
    prio[t] > 0 /\ t \notin mixed \cup halves /\ ~Changing(t) =>
      \E r \in cause[t] :
        /\ prio[t] = Content[r].prio
        /\ group[t] = "SP_AUDIO_SYS" <=> Content[r].caller = Content[r].pid
=============================================================================
