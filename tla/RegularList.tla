----------------------------- MODULE RegularList -----------------------------
(***************************************************************************)
(* What ProcessList promises about the set of B2G processes it reports,    *)
(* without saying how it finds them: one answer is given, once and for     *)
(* all; it contains every process that belonged to the family all through  *)
(* the look-up, and nothing that never belonged to it.                     *)
(***************************************************************************)

CONSTANT Pids

VARIABLES
  must,     \* the pids in the family ever since the look-up began
  may,      \* the pids in the family at some time since it began
  answers   \* the answers given so far: none, or one set of pids

listVars == <<must, may, answers>>

Init ==
  /\ must \in SUBSET Pids
  /\ may \in SUBSET Pids
  /\ answers = {}

\* A look-up begins: from now on, the family counts.
Begin ==
  /\ answers = {}
  /\ must' \in SUBSET Pids
  /\ may' \in SUBSET Pids
  /\ UNCHANGED answers

\* Processes come and go.
Drift ==
  /\ must' \subseteq must
  /\ may \subseteq may' /\ may' \subseteq Pids
  /\ UNCHANGED answers

\* The look-up ends.
Decide ==
  /\ answers = {}
  /\ \E found \in SUBSET Pids :
       /\ must \subseteq found /\ found \subseteq may
       /\ answers' = {found}
  /\ UNCHANGED <<must, may>>

Next == Begin \/ Drift \/ Decide

Spec == Init /\ [][Next]_listVars
=============================================================================
