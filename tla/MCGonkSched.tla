----------------------------- MODULE MCGonkSched -----------------------------
(***************************************************************************)
(* A media server, process 1 with the threads 1 and 2, a free tid, and     *)
(* requests of all kinds for GonkSched.                                    *)
(***************************************************************************)
EXTENDS GonkSched, TLC

Threads == 1..3
MediaServer == [t \in Threads |-> IF t = 3 THEN Nobody ELSE 1]

Call(uid, caller, pid, tid, priority) ==
  [code |-> "requestPriority", uid |-> uid, caller |-> caller, pid |-> pid,
   tid |-> tid, prio |-> priority]

\* Of the media server, waiting for the reply, for its main thread and for a
\* thread that it may start; without waiting, for a process that may start with
\* the same tid; with a priority that is too high.  Of an app.  And a
\* transaction of another interface, and another one.
Kinds ==
  [own |-> Call(MediaUid, 1, 1, 1, 1),
   late |-> Call(MediaUid, 1, 1, 3, 3),
   unborn |-> Call(MediaUid, Nobody, 3, 3, 2),
   high |-> Call(MediaUid, 1, 1, 2, 4),
   alien |-> Call("app", 3, 1, 1, 1),
   foreign |-> [Call(MediaUid, 1, 1, 2, 2) EXCEPT !.code = "foreign"],
   other |-> [Call(MediaUid, 1, 1, 2, 2) EXCEPT !.code = "other"]]
KindNames == DOMAIN Kinds
\* The workers of the pool are alike.
Alike == Permutations(Workers)
=============================================================================
