---------------------------- MODULE MCEventApply ----------------------------
(***************************************************************************)
(* Model checking of module EventApply: two replicas that work offline and *)
(* one malformed status change, pushed by another client, whose key lies   *)
(* between theirs.  The replicas are on two machines: two stores on one    *)
(* machine share its hash, and their edits can tie in full.                *)
(***************************************************************************)
EXTENDS EventApply

CONSTANTS ra, rb

ApplyReplicas == {ra, rb}
TwoMachines == [r \in ApplyReplicas |-> IF r = ra THEN 1 ELSE 2]
AssigneeValues == {ra}
MalformedEvents ==
    {[id |-> 9, lamport |-> 2, ts |-> 1, by |-> NULL, machine |-> 3, op |-> "transition",
      to |-> NULL, closed |-> NULL, value |-> NULL, ok |-> FALSE]}
=============================================================================
