--------------------------- MODULE ReplicatedTask ---------------------------
(***************************************************************************)
(* What sync promises about one task (docs/SYNC-DESIGN.md, section 8):     *)
(* what a replica shows is a function of the set of events it holds, not   *)
(* of the order in which they came, and whoever writes after having seen   *)
(* an event beats that event.  Two replicas that hold the same events      *)
(* therefore show the same task.  Module EventApply implements this.  The  *)
(* assignee is not part of it: claims and edits both write it and each     *)
(* kind has its own winner, so it depends on the order (the residual that  *)
(* sync_workflow_winner.go names).                                         *)
(***************************************************************************)
EXTENDS Integers

CONSTANTS Replicas, NULL, InitialTitle

VARIABLES
    held,   \* the events each replica holds
    view    \* what each replica shows

WorkflowEvents(S) == {e \in S : e.op \in {"claim", "unclaim", "transition"} /\ e.ok}
EditEvents(S) == {e \in S : e.op = "title"}

\* Workflow events are ordered by Lamport clock and event id.
WorkflowBeats(e, x) == e.lamport > x.lamport \/ (e.lamport = x.lamport /\ e.id > x.id)

\* Edits of a field are ordered by Lamport clock, wall clock and, at last, the
\* lower machine hash.
EditBeats(e, x) ==
    \/ e.lamport > x.lamport
    \/ e.lamport = x.lamport /\ e.ts > x.ts
    \/ e.lamport = x.lamport /\ e.ts = x.ts /\ e.machine < x.machine

WorkflowWinner(S) ==
    CHOOSE e \in WorkflowEvents(S) : \A x \in WorkflowEvents(S) : ~WorkflowBeats(x, e)
EditWinner(S) ==
    CHOOSE e \in EditEvents(S) : \A x \in EditEvents(S) : ~EditBeats(x, e)

\* The task as the events in S make it.
Resolve(S) ==
    [status  |-> IF WorkflowEvents(S) = {} THEN "open" ELSE WorkflowWinner(S).to,
     closed  |-> IF WorkflowEvents(S) = {} THEN NULL ELSE WorkflowWinner(S).closed,
     title   |-> IF EditEvents(S) = {} THEN InitialTitle ELSE EditWinner(S).value,
     deleted |-> \E e \in S : e.op = "delete"]

\* A replica starts with the task as it was created.
Init ==
    /\ held = [r \in Replicas |-> {}]
    /\ view = [r \in Replicas |-> Resolve({})]

\* Replica r comes to hold one more event and shows what follows from all it
\* holds.  An event of its own is above everything it held when it wrote it.
Hold(r) ==
    /\ \E e \in held'[r] \ held[r] :
          /\ held' = [held EXCEPT ![r] = @ \cup {e}]
          /\ e.by = r => \A x \in held[r] : e.lamport > x.lamport
    /\ view' = [view EXCEPT ![r] = Resolve(held'[r])]

Next == \E r \in Replicas : Hold(r)

Spec == Init /\ [][Next]_<<held, view>>
=============================================================================
