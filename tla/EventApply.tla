----------------------------- MODULE EventApply -----------------------------
(***************************************************************************)
(* How the replicas of one task write it and apply each other's events     *)
(* (internal/store/sqlite: sync_emit.go, sync_apply*.go,                   *)
(* sync_workflow_*.go).                                                    *)
(*                                                                         *)
(* A local write changes the row and, in the same transaction, appends an  *)
(* event to the local log with the next Lamport clock.  An event from      *)
(* elsewhere reaches a replica at any time and in any order (the cursor    *)
(* pass, the sweep, the relay and the retry of quarantined events all      *)
(* apply through IdempotentApply); a replica's own events come back too.   *)
(* Edits of a field compete with the edits the LOG holds, workflow events  *)
(* with the workflow events it holds, and only a winner changes the row.   *)
(*                                                                         *)
(* Two fields stand for all that an edit can set: the title, and the       *)
(* assignee, a column that claims and releases write as well.              *)
(*                                                                         *)
(* Every replica holds the task from the start.  A text, a closing time or *)
(* a wake time is named by the event of the write that set it, an agent by *)
(* its replica.  Left out: the columns previous_status, progress and       *)
(* agent_state, other tasks (the parent's progress and dependents), vector *)
(* clocks, which decide nothing here, the defer op, which no build emits,  *)
(* events without a closed_at snapshot, which only older builds emit, and  *)
(* undelete, which emits no event.                                         *)
(***************************************************************************)
EXTENDS Integers, FiniteSets, NodeStatus

CONSTANTS
    Replicas,
    Machine,        \* the machine hash of each replica, as a number
    EventIds,       \* event ids are ordered; a new one is any unused one
    WallTimes,      \* what a replica's wall clock may show
    InitialTitle,
    AssigneeInputs, \* what `update --assignee` is given: agents, NULL clears
    Targets,        \* the statuses the replicas move the task to
    Malformed,      \* malformed workflow events some client has pushed
    MaxWrites,      \* bound on the local writes of all replicas together
    NULL

WorkflowOps == {"claim", "unclaim", "transition"}

\* An update_field event is named by the field it sets.
Fields == {"title", "assignee"}

ASSUME EventApplyAssumption ==
    /\ Machine \in [Replicas -> Nat]
    /\ EventIds \subseteq Nat /\ WallTimes \subseteq Nat
    /\ InitialTitle \notin EventIds
    /\ NULL \notin EventIds \cup Replicas
    /\ AssigneeInputs \subseteq Replicas \cup {NULL}
    /\ Targets \subseteq Status
    /\ MaxWrites \in Nat
    /\ \A e \in Malformed : /\ e.op \in WorkflowOps /\ e.ok = FALSE
                            /\ e.by \notin Replicas /\ e.lamport \in Nat

VARIABLES
    sent,       \* every event that can reach a replica
    log,        \* sync_events of each replica
    clock,      \* meta.sync.lamport
    row,        \* the row of the task
    conflicts   \* sync_conflicts: pairs of a winning and a losing event id

vars == <<sent, log, clock, row, conflicts>>

Init ==
    /\ sent = Malformed
    /\ log = [r \in Replicas |-> {}]
    /\ clock = [r \in Replicas |-> 0]
    /\ row = [r \in Replicas |->
                [status |-> "open", closed |-> NULL, wake |-> NULL, assignee |-> NULL,
                 title |-> InitialTitle, deleted |-> FALSE]]
    /\ conflicts = [r \in Replicas |-> {}]

-----------------------------------------------------------------------------
(* Local writes.                                                           *)

OwnEvents(r) == {e \in log[r] : e.by = r}

\* bumpLamport: one above everything this replica has written or applied.
NextLamport(r) == clock[r] + 1

\* emitEvent: the row's change and its event commit together.  A workflow
\* event carries the closed_at the change left behind.
Emit(r, id, ts, new, op, to, value) ==
    LET e == [id |-> id, lamport |-> NextLamport(r), ts |-> ts, by |-> r,
              machine |-> Machine[r], op |-> op, to |-> to, closed |-> new.closed,
              value |-> value, ok |-> TRUE]
    IN  /\ ~row[r].deleted
        /\ id \notin {x.id : x \in sent}
        /\ row' = [row EXCEPT ![r] = new]
        /\ clock' = [clock EXCEPT ![r] = NextLamport(r)]
        /\ log' = [log EXCEPT ![r] = @ \cup {e}]
        /\ sent' = sent \cup {e}
        /\ UNCHANGED conflicts

\* UpdateNode of one field; every edit of the title writes a text of its own.
UpdateTitle(r, id, ts) ==
    Emit(r, id, ts, [row[r] EXCEPT !.title = id], "title", NULL, id)

\* update --assignee: an edit of the field like any other, not a claim.
UpdateAssignee(r, id, ts, a) ==
    Emit(r, id, ts, [row[r] EXCEPT !.assignee = a], "assignee", NULL, a)

\* ClaimNode; the wake time of a deferral may have passed.
ClaimNode(r, id) ==
    /\ row[r].status \in {"open", "deferred"}
    /\ Emit(r, id, NULL,
            [row[r] EXCEPT !.status = "in_progress", !.assignee = r, !.wake = NULL],
            "claim", "in_progress", r)

UnclaimNode(r, id) ==
    /\ row[r].status = "in_progress"
    /\ Emit(r, id, NULL, [row[r] EXCEPT !.status = "open", !.assignee = NULL],
            "unclaim", "open", NULL)

\* TransitionStatus; a deferral stores its wake time here only, its event
\* carries none.
TransitionStatus(r, id, to) ==
    LET from == row[r].status
    IN  /\ from # to /\ ValidateTransition(from, to)
        /\ Emit(r, id, NULL,
                [row[r] EXCEPT
                    !.status = to,
                    !.closed = IF to \in {"done", "cancelled"} THEN id
                               ELSE IF from \in {"done", "cancelled"} /\ to = "open" THEN NULL
                               ELSE @,
                    !.wake = IF to = "deferred" THEN id ELSE NULL],
                "transition", to, NULL)

DeleteNode(r, id) ==
    Emit(r, id, NULL, [row[r] EXCEPT !.deleted = TRUE], "delete", NULL, NULL)

-----------------------------------------------------------------------------
(* Applying an event.                                                      *)

\* workflowKeyBeats
workflowKeyBeats(e, x) == e.lamport > x.lamport \/ (e.lamport = x.lamport /\ e.id > x.id)

\* Mutant: a malformed event counts as held.
HeldWithMalformed(r, e) == {x \in log[r] : x.op \in WorkflowOps /\ x # e}

\* latestHeldWorkflowKey looks among these.
HeldWorkflow(r, e) == {x \in log[r] : x.op \in WorkflowOps /\ x.ok /\ x # e}

workflowEventWins(r, e) == \A x \in HeldWorkflow(r, e) : workflowKeyBeats(e, x)

\* Mutant: the winning claim leaves the assignee to the loser.
WinnerKeepsAssignee(rw, e) ==
    [rw EXCEPT !.status = e.to, !.closed = e.closed, !.wake = NULL,
               !.assignee = IF e.op = "unclaim" THEN NULL ELSE IF @ = NULL THEN e.value ELSE @]

\* workflowWinnerTable and resolveWorkflowWrite: every row of the table writes
\* the status, the carried closed_at and clears the wake time; claim and
\* unclaim also write the assignee.
WinnerRow(rw, e) ==
    [rw EXCEPT !.status = e.to, !.closed = e.closed, !.wake = NULL,
               !.assignee = CASE e.op = "claim" -> e.value
                              [] e.op = "unclaim" -> NULL
                              [] OTHER -> @]

\* incomingBeats: a full tie is not a win.
incomingBeats(e, x) ==
    IF e.lamport # x.lamport THEN e.lamport > x.lamport
    ELSE IF e.ts # x.ts THEN e.ts > x.ts
    ELSE e.machine < x.machine

\* lwwPriorQuery: the first of the other edits of the field in LWW order.
Priors(r, e) == {x \in log[r] : x.op = e.op /\ x # e}
PriorOf(r, e) == CHOOSE x \in Priors(r, e) : \A y \in Priors(r, e) : ~incomingBeats(y, x)

\* Mutant: the value an edit replaces is not logged.
LoserConflictOnly(winner, loser, e) ==
    IF loser = e THEN {<<winner.id, loser.id>>} ELSE {}

\* recordLocalConflict
ConflictRow(winner, loser, e) == {<<winner.id, loser.id>>}

\* applyUpdateField: the field's column alone.
EditedRow(rw, e) ==
    IF e.op = "title" THEN [rw EXCEPT !.title = e.value] ELSE [rw EXCEPT !.assignee = e.value]

\* The row and the conflict rows of dispatchWithLWW for event e, or NULL when
\* the handler fails because the task is deleted here.
DispatchWorkflow(r, e) ==
    IF ~workflowEventWins(r, e) \/ ~e.ok THEN [row |-> row[r], new |-> {}]
    ELSE IF row[r].deleted THEN NULL
    ELSE [row |-> WinnerRow(row[r], e), new |-> {}]

DispatchEdit(r, e) ==
    LET prior == PriorOf(r, e)
    IN  IF Priors(r, e) # {} /\ ~incomingBeats(e, prior)
        THEN [row |-> row[r], new |-> ConflictRow(prior, e, e)]
        ELSE IF row[r].deleted THEN NULL
        ELSE [row |-> EditedRow(row[r], e),
              new |-> IF Priors(r, e) = {} THEN {} ELSE ConflictRow(e, prior, e)]

Dispatch(r, e) ==
    CASE e.op \in WorkflowOps -> DispatchWorkflow(r, e)
      [] e.op \in Fields -> DispatchEdit(r, e)
      [] e.op = "delete" -> [row |-> [row[r] EXCEPT !.deleted = TRUE], new |-> {}]

\* advanceLamport
Advanced(c, e) == IF e.lamport > c THEN e.lamport ELSE c

\* IdempotentApply.  An event the log holds already, applied before or written
\* here, is only acknowledged: acknowledgeHeldEvent and the check of
\* applied_events leave everything below as it is.  When the handler fails the
\* transaction is rolled back and the event is quarantined: nothing changes.
IdempotentApply(r, e) ==
    /\ e \in sent \ log[r]
    /\ Dispatch(r, e) # NULL
    /\ row' = [row EXCEPT ![r] = Dispatch(r, e).row]
    /\ conflicts' = [conflicts EXCEPT ![r] = @ \cup Dispatch(r, e).new]
    /\ log' = [log EXCEPT ![r] = @ \cup {e}]
    /\ clock' = [clock EXCEPT ![r] = Advanced(@, e)]
    /\ UNCHANGED sent

-----------------------------------------------------------------------------
LocalWrite(r, id) ==
    /\ Cardinality(sent \ Malformed) < MaxWrites
    /\ \/ \E ts \in WallTimes : UpdateTitle(r, id, ts)
       \/ \E ts \in WallTimes, a \in AssigneeInputs : UpdateAssignee(r, id, ts, a)
       \/ ClaimNode(r, id) \/ UnclaimNode(r, id) \/ DeleteNode(r, id)
       \/ \E to \in Targets : TransitionStatus(r, id, to)

Next ==
    \E r \in Replicas :
        \/ \E id \in EventIds : LocalWrite(r, id)
        \/ \E e \in sent : IdempotentApply(r, e)

Spec == Init /\ [][Next]_vars

-----------------------------------------------------------------------------
(* Properties.                                                             *)

Task == INSTANCE ReplicatedTask WITH
    held <- log,
    view <- [r \in Replicas |->
               [status |-> row[r].status, closed |-> row[r].closed,
                title |-> row[r].title, deleted |-> row[r].deleted]]

\* Whatever order the events come in, what a replica shows is what the events
\* it holds resolve to, and its own writes are above all it has seen: the
\* replicas implement the replicated task.
TaskImplemented == Task!Spec

\* The edits of field f at replica r that no other edit there beats.
LatestEdits(r, f) ==
    {e \in log[r] : e.op = f /\ \A x \in Priors(r, e) : ~incomingBeats(x, e)}

\* The columns no event carries in full follow the winner as well: after a
\* claim race every replica whose winning event is a claim or a release shows
\* the agent of that claim, or nobody, unless an edit of the assignee wrote
\* over it; then it shows the one that no other such edit beats.  A wake time
\* that is left belongs to the deferral that won, so that none wakes a deferral
\* made elsewhere.
WinnerOwnsTheRow ==
    \A r \in Replicas : \A e \in HeldWorkflow(r, NULL) : workflowEventWins(r, e) =>
        /\ e.op \in {"claim", "unclaim"} =>
              row[r].assignee \in {e.value} \cup {x.value : x \in LatestEdits(r, "assignee")}
        /\ row[r].wake \in {NULL, e.id}

\* Nobody's edit is overwritten silently by another edit: an edit made here
\* that is no longer the latest of its field was either replaced by a later
\* edit made here or is named as the loser of a conflict.
NoSilentLoss ==
    \A r \in Replicas : \A e \in OwnEvents(r) :
        e.op \in Fields =>
            \/ \A x \in Priors(r, e) : ~incomingBeats(x, e)
            \/ \E x \in OwnEvents(r) : x.op = e.op /\ x.lamport > e.lamport
            \/ \E w \in EventIds : <<w, e.id>> \in conflicts[r]
=============================================================================
