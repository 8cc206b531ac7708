-------------------------- MODULE EventApplyProofs --------------------------
(***************************************************************************)
(* Proofs about module EventApply, for any replicas, event ids, wall       *)
(* clocks, targets and malformed events, and any number of writes: what a  *)
(* replica shows is what the events it holds resolve to.                   *)
(***************************************************************************)
EXTENDS EventApply, TLAPS

\* Two stores on one machine share its hash, and their edits can tie in full.
DistinctMachines == \A q, r \in Replicas : Machine[q] = Machine[r] => q = r

Rows ==
    [status : Status, closed : EventIds \cup {NULL}, wake : EventIds \cup {NULL},
     assignee : Replicas \cup {NULL}, title : EventIds \cup {InitialTitle},
     deleted : BOOLEAN]

\* What the replicas emit.
WellFormed(e) ==
    /\ e.id \in EventIds /\ e.lamport \in Nat
    /\ e.by \in Replicas /\ e.machine = Machine[e.by]
    /\ e.op \in WorkflowOps \cup Fields \cup {"delete"}
    /\ e.op \in WorkflowOps => e.to \in Status /\ e.closed \in EventIds \cup {NULL}
    /\ e.op = "claim" => e.value \in Replicas
    /\ e.op = "unclaim" => e.value = NULL
    /\ e.op \in Fields => e.ts \in WallTimes
    /\ e.op = "title" => e.value = e.id
    /\ e.op = "assignee" => e.value \in AssigneeInputs
    /\ e.ok = TRUE

-----------------------------------------------------------------------------
(* The inductive invariant.                                                *)

ApplyTypeOK ==
    /\ log \in [Replicas -> SUBSET sent]
    /\ clock \in [Replicas -> Nat]
    /\ row \in [Replicas -> Rows]
    /\ \A e \in sent : e \in Malformed \/ WellFormed(e)

\* An event is written once, and held by its writer from then on.
EventsOnce ==
    /\ \A e, x \in sent : e.ok /\ x.ok /\ e.id = x.id => e = x
    /\ \A e \in sent : e.by \in Replicas => e \in log[e.by]

\* A replica's clock is not below anything it holds, and what it writes lies
\* above: two events of one replica differ in their Lamport clock.
ClocksAbove ==
    /\ \A r \in Replicas : \A e \in log[r] : e.lamport <= clock[r]
    /\ \A e, x \in sent : e.ok /\ x.ok /\ e.by = x.by /\ e.lamport = x.lamport => e = x

LogInv == ApplyTypeOK /\ EventsOnce /\ ClocksAbove

\* The workflow columns of row rw are those of the event in S that beats all
\* other workflow events in S.
WorkflowIn(S) == {e \in S : e.op \in WorkflowOps /\ e.ok}

ShowsWorkflow(S, rw) ==
    IF WorkflowIn(S) = {} THEN rw.status = "open" /\ rw.closed = NULL /\ rw.wake = NULL
    ELSE \E w \in WorkflowIn(S) :
            /\ \A x \in WorkflowIn(S) : x # w => workflowKeyBeats(w, x)
            /\ rw.status = w.to /\ rw.closed = w.closed
            /\ rw.wake \in {NULL, w.id}

ShowsDelete(S, rw) == rw.deleted <=> \E e \in S : e.op = "delete"

\* The edits in S of field f, and those of them that no other one beats.
EditsIn(S, f) == {e \in S : e.op = f}
Latest(S, f) ==
    {e \in EditsIn(S, f) : \A x \in EditsIn(S, f) : x # e => ~incomingBeats(x, e)}

\* The order of edits has a top wherever there are any.
HasLatest(S) == \A f \in Fields : EditsIn(S, f) # {} => Latest(S, f) # {}

\* The assignee is what the winning claim or release left, or what a latest
\* edit of it wrote.
ShowsAssignee(S, rw) ==
    \A w \in WorkflowIn(S) :
        /\ w.op \in {"claim", "unclaim"}
        /\ \A x \in WorkflowIn(S) : x # w => workflowKeyBeats(w, x)
        => rw.assignee = w.value \/ \E a \in Latest(S, "assignee") : rw.assignee = a.value

\* The title is that of the edit in S that beats all others.
ShowsEdit(S, rw) ==
    IF EditsIn(S, "title") = {} THEN rw.title = InitialTitle
    ELSE \E w \in EditsIn(S, "title") :
            /\ \A x \in EditsIn(S, "title") : x # w => incomingBeats(w, x)
            /\ rw.title = w.value

\* Releasing a claim leaves the wake time alone: there is none, because only a
\* deferred task has one.
WakesOfDeferrals == \A r \in Replicas : row[r].status # "deferred" => row[r].wake = NULL

ApplyInv ==
    /\ LogInv
    /\ WakesOfDeferrals
    /\ \A r \in Replicas : ShowsWorkflow(log[r], row[r]) /\ ShowsDelete(log[r], row[r])
    /\ \A r \in Replicas : HasLatest(log[r]) /\ ShowsAssignee(log[r], row[r])

EditInv == ApplyInv /\ \A r \in Replicas : ShowsEdit(log[r], row[r])

-----------------------------------------------------------------------------
(* The two orders.                                                         *)

LEMMA WorkflowOrder ==
    ASSUME LogInv, NEW e \in sent, NEW x \in sent, e.ok, x.ok, e # x
    PROVE  workflowKeyBeats(e, x) <=> ~workflowKeyBeats(x, e)
<1>1. /\ e.id \in Nat /\ x.id \in Nat /\ e.lamport \in Nat /\ x.lamport \in Nat
      /\ e.id # x.id
  BY EventApplyAssumption DEF LogInv, ApplyTypeOK, EventsOnce, WellFormed
<1> QED
  BY <1>1 DEF workflowKeyBeats

LEMMA WorkflowTransitive ==
    ASSUME LogInv, NEW e \in sent, NEW x \in sent, NEW y \in sent, e.ok, x.ok, y.ok,
           workflowKeyBeats(e, x), workflowKeyBeats(x, y)
    PROVE  workflowKeyBeats(e, y)
<1>1. /\ e.id \in Nat /\ x.id \in Nat /\ y.id \in Nat
      /\ e.lamport \in Nat /\ x.lamport \in Nat /\ y.lamport \in Nat
  BY EventApplyAssumption DEF LogInv, ApplyTypeOK, WellFormed
<1> QED
  BY <1>1 DEF workflowKeyBeats

\* What the order of edits is made of.
LEMMA EditKey ==
    ASSUME LogInv, NEW e \in sent, e.op \in Fields
    PROVE  /\ e.lamport \in Nat /\ e.ts \in Nat /\ e.machine \in Nat
           /\ e.by \in Replicas /\ e.machine = Machine[e.by] /\ e.ok
           /\ e.id \in EventIds
           /\ e.op = "title" => e.value = e.id
           /\ e.op = "assignee" => e.value \in AssigneeInputs
BY EventApplyAssumption DEF LogInv, ApplyTypeOK, WellFormed, WorkflowOps, Fields

LEMMA EditOrder ==
    ASSUME DistinctMachines, LogInv, NEW e \in sent, NEW x \in sent,
           e.op \in Fields, x.op \in Fields, e # x
    PROVE  incomingBeats(e, x) <=> ~incomingBeats(x, e)
<1>1. ~(e.lamport = x.lamport /\ e.ts = x.ts /\ e.machine = x.machine)
  BY EditKey DEF DistinctMachines, LogInv, ClocksAbove
<1> QED
  BY <1>1, EditKey DEF incomingBeats

LEMMA EditTransitive ==
    ASSUME LogInv, NEW e \in sent, NEW x \in sent, NEW y \in sent,
           e.op \in Fields, x.op \in Fields, y.op \in Fields
    PROVE  /\ incomingBeats(e, x) /\ incomingBeats(x, y) => incomingBeats(e, y)
           /\ incomingBeats(e, x) /\ ~incomingBeats(y, x) => incomingBeats(e, y)
           /\ ~incomingBeats(e, x) /\ ~incomingBeats(x, y) => ~incomingBeats(e, y)
           /\ incomingBeats(e, x) => ~incomingBeats(x, e)
           /\ ~incomingBeats(e, e)
<1>1. /\ e.lamport \in Nat /\ e.ts \in Nat /\ e.machine \in Nat
      /\ x.lamport \in Nat /\ x.ts \in Nat /\ x.machine \in Nat
      /\ y.lamport \in Nat /\ y.ts \in Nat /\ y.machine \in Nat
  BY EditKey
<1> QED
  BY <1>1 DEF incomingBeats

-----------------------------------------------------------------------------
(* What one more event does to the winner.                                 *)

LEMMA WorkflowWins ==
    ASSUME NEW S, NEW e, NEW rw, e.op \in WorkflowOps, e.ok,
           \A x \in WorkflowIn(S) : x # e => workflowKeyBeats(e, x),
           rw.status = e.to, rw.closed = e.closed, rw.wake \in {NULL, e.id}
    PROVE  ShowsWorkflow(S \cup {e}, rw)
<1>1. e \in WorkflowIn(S \cup {e})
  BY DEF WorkflowIn
<1>2. \A x \in WorkflowIn(S \cup {e}) : x # e => workflowKeyBeats(e, x)
  BY DEF WorkflowIn
<1> QED
  BY <1>1, <1>2 DEF ShowsWorkflow

\* An event that is no workflow event, is malformed, or is beaten.
LEMMA WorkflowLoses ==
    ASSUME LogInv, NEW S \in SUBSET sent, NEW e \in sent, NEW rw, NEW new,
           ShowsWorkflow(S, rw),
           \/ e.op \notin WorkflowOps \/ ~e.ok
           \/ \E x \in WorkflowIn(S) : x # e /\ ~workflowKeyBeats(e, x),
           new.status = rw.status, new.closed = rw.closed, new.wake = rw.wake
    PROVE  ShowsWorkflow(S \cup {e}, new)
<1>1. CASE e.op \notin WorkflowOps \/ ~e.ok
  <2>1. WorkflowIn(S \cup {e}) = WorkflowIn(S)
    BY <1>1 DEF WorkflowIn
  <2> QED
    BY <2>1 DEF ShowsWorkflow
<1>2. CASE e.op \in WorkflowOps /\ e.ok
  <2>1. PICK x \in WorkflowIn(S) : x # e /\ ~workflowKeyBeats(e, x)
    BY <1>2
  <2>2. PICK w \in WorkflowIn(S) :
            /\ \A y \in WorkflowIn(S) : y # w => workflowKeyBeats(w, y)
            /\ rw.status = w.to /\ rw.closed = w.closed
            /\ rw.wake \in {NULL, w.id}
    BY <2>1 DEF ShowsWorkflow
  <2>3. workflowKeyBeats(x, e)
    BY <1>2, <2>1, WorkflowOrder DEF WorkflowIn
  <2>4. workflowKeyBeats(w, e)
    BY <1>2, <2>1, <2>2, <2>3, WorkflowTransitive DEF WorkflowIn
  <2>5. /\ w \in WorkflowIn(S \cup {e})
        /\ \A y \in WorkflowIn(S \cup {e}) : y # w => workflowKeyBeats(w, y)
    BY <2>2, <2>4 DEF WorkflowIn
  <2> QED
    BY <2>2, <2>5 DEF ShowsWorkflow
<1> QED
  BY <1>1, <1>2

LEMMA EditWins ==
    ASSUME NEW S, NEW e, NEW rw, e.op = "title",
           \A x \in EditsIn(S, "title") : x # e => incomingBeats(e, x),
           rw.title = e.value
    PROVE  ShowsEdit(S \cup {e}, rw)
<1>1. e \in EditsIn(S \cup {e}, "title")
  BY DEF EditsIn
<1>2. \A x \in EditsIn(S \cup {e}, "title") : x # e => incomingBeats(e, x)
  BY DEF EditsIn
<1> QED
  BY <1>1, <1>2 DEF ShowsEdit

LEMMA EditLoses ==
    ASSUME DistinctMachines, LogInv, NEW S \in SUBSET sent, NEW e \in sent, NEW rw, NEW new,
           ShowsEdit(S, rw),
           e.op # "title" \/ \E x \in EditsIn(S, "title") : x # e /\ ~incomingBeats(e, x),
           new.title = rw.title
    PROVE  ShowsEdit(S \cup {e}, new)
<1>1. CASE e.op # "title"
  <2>1. EditsIn(S \cup {e}, "title") = EditsIn(S, "title")
    BY <1>1 DEF EditsIn
  <2> QED
    BY <2>1 DEF ShowsEdit
<1>2. CASE e.op = "title"
  <2>1. PICK x \in EditsIn(S, "title") : x # e /\ ~incomingBeats(e, x)
    BY <1>2
  <2>2. PICK w \in EditsIn(S, "title") :
            /\ \A y \in EditsIn(S, "title") : y # w => incomingBeats(w, y)
            /\ rw.title = w.value
    BY <2>1 DEF ShowsEdit
  <2>3. incomingBeats(x, e)
    BY <1>2, <2>1, EditOrder DEF EditsIn, Fields
  <2>4. incomingBeats(w, e)
    BY <1>2, <2>1, <2>2, <2>3, EditTransitive DEF EditsIn, Fields
  <2>5. /\ w \in EditsIn(S \cup {e}, "title")
        /\ \A y \in EditsIn(S \cup {e}, "title") : y # w => incomingBeats(w, y)
    BY <2>2, <2>4 DEF EditsIn
  <2> QED
    BY <2>2, <2>5 DEF ShowsEdit
<1> QED
  BY <1>1, <1>2

\* One more event: the edits of each field still have a top.
LEMMA LatestGrows ==
    ASSUME LogInv, NEW S \in SUBSET sent, NEW e \in sent, HasLatest(S)
    PROVE  HasLatest(S \cup {e})
<1> SUFFICES ASSUME NEW f \in Fields, EditsIn(S \cup {e}, f) # {}
             PROVE  Latest(S \cup {e}, f) # {}
  BY DEF HasLatest
<1>1. CASE e.op # f
  <2>1. EditsIn(S \cup {e}, f) = EditsIn(S, f)
    BY <1>1 DEF EditsIn
  <2> QED
    BY <2>1 DEF HasLatest, Latest
<1>2. CASE e.op = f
  <2>1. /\ EditsIn(S \cup {e}, f) = EditsIn(S, f) \cup {e}
        /\ \A x \in EditsIn(S, f) : x \in sent /\ x.op \in Fields
    BY <1>2 DEF EditsIn
  <2>2. CASE EditsIn(S, f) = {}
    <3>1. e \in Latest(S \cup {e}, f)
      BY <2>1, <2>2 DEF Latest
    <3> QED
      BY <3>1
  <2>3. CASE EditsIn(S, f) # {}
    <3>1. PICK w \in EditsIn(S, f) : \A x \in EditsIn(S, f) : x # w => ~incomingBeats(x, w)
      BY <2>3 DEF HasLatest, Latest
    <3>2. ASSUME incomingBeats(e, w) PROVE e \in Latest(S \cup {e}, f)
      <4>1. ASSUME NEW x \in EditsIn(S, f), x # e PROVE ~incomingBeats(x, e)
        <5>1. ~incomingBeats(x, w)
          BY <1>2, <2>1, <3>1, <4>1, EditTransitive
        <5> QED
          BY <1>2, <2>1, <3>2, <5>1, EditTransitive
      <4> QED
        BY <2>1, <4>1 DEF Latest
    <3>3. ASSUME ~incomingBeats(e, w) PROVE w \in Latest(S \cup {e}, f)
      BY <2>1, <3>1, <3>3 DEF Latest
    <3> QED
      BY <3>2, <3>3
  <2> QED
    BY <2>2, <2>3
<1> QED
  BY <1>1, <1>2

\* A winning claim or release writes the assignee.
LEMMA AssigneeByWorkflow ==
    ASSUME LogInv, NEW S \in SUBSET sent, NEW e \in sent, NEW rw, e.op \in WorkflowOps, e.ok,
           \A x \in WorkflowIn(S) : x # e => workflowKeyBeats(e, x),
           e.op \in {"claim", "unclaim"} => rw.assignee = e.value
    PROVE  ShowsAssignee(S \cup {e}, rw)
<1> SUFFICES ASSUME NEW w \in WorkflowIn(S \cup {e}), w.op \in {"claim", "unclaim"},
                    \A x \in WorkflowIn(S \cup {e}) : x # w => workflowKeyBeats(w, x)
             PROVE  rw.assignee = w.value
  BY DEF ShowsAssignee
<1>1. ASSUME w # e PROVE FALSE
  <2>1. w \in WorkflowIn(S) /\ e \in WorkflowIn(S \cup {e}) /\ w \in sent /\ w.ok
    BY <1>1 DEF WorkflowIn
  <2>2. workflowKeyBeats(e, w) /\ workflowKeyBeats(w, e)
    BY <1>1, <2>1
  <2> QED
    BY <1>1, <2>1, <2>2, WorkflowOrder
<1> QED
  BY <1>1

\* So does a winning edit of it.
LEMMA AssigneeByEdit ==
    ASSUME NEW S, NEW e, NEW rw, e.op = "assignee",
           \A x \in EditsIn(S, "assignee") : x # e => ~incomingBeats(x, e),
           rw.assignee = e.value
    PROVE  ShowsAssignee(S \cup {e}, rw)
<1>1. e \in Latest(S \cup {e}, "assignee")
  BY DEF Latest, EditsIn
<1> QED
  BY <1>1 DEF ShowsAssignee

\* No other event does, and none takes the top from a latest edit it loses to.
LEMMA AssigneeKept ==
    ASSUME LogInv, NEW S \in SUBSET sent, NEW e \in sent, NEW rw, NEW new,
           ShowsAssignee(S, rw), new.assignee = rw.assignee,
           \/ e.op \notin WorkflowOps \/ ~e.ok
           \/ \E x \in WorkflowIn(S) : x # e /\ ~workflowKeyBeats(e, x),
           \/ e.op # "assignee"
           \/ \E p \in Latest(S, "assignee") : ~incomingBeats(e, p)
    PROVE  ShowsAssignee(S \cup {e}, new)
<1> SUFFICES ASSUME NEW w \in WorkflowIn(S \cup {e}), w.op \in {"claim", "unclaim"},
                    \A x \in WorkflowIn(S \cup {e}) : x # w => workflowKeyBeats(w, x)
             PROVE  \/ rw.assignee = w.value
                    \/ \E a \in Latest(S \cup {e}, "assignee") : rw.assignee = a.value
  BY DEF ShowsAssignee
<1>1. w \in WorkflowIn(S) /\ \A x \in WorkflowIn(S) : x # w => workflowKeyBeats(w, x)
  BY DEF WorkflowIn
<1>2. ASSUME NEW a \in Latest(S, "assignee") PROVE a \in Latest(S \cup {e}, "assignee")
  <2>1. CASE e.op # "assignee"
    <3>1. EditsIn(S \cup {e}, "assignee") = EditsIn(S, "assignee")
      BY <2>1 DEF EditsIn
    <3> QED
      BY <1>2, <3>1 DEF Latest
  <2>2. CASE e.op = "assignee"
    <3>1. PICK p \in Latest(S, "assignee") : ~incomingBeats(e, p)
      BY <2>2
    <3>2. /\ a \in sent /\ p \in sent
          /\ a.op \in Fields /\ p.op \in Fields /\ e.op \in Fields
          /\ p = a \/ ~incomingBeats(p, a)
      BY <1>2, <2>2 DEF Latest, EditsIn, Fields
    <3>3. ~incomingBeats(e, a)
      BY <3>1, <3>2, EditTransitive
    <3> QED
      BY <1>2, <2>2, <3>3 DEF Latest, EditsIn
  <2> QED
    BY <2>1, <2>2
<1> QED
  BY <1>1, <1>2 DEF ShowsAssignee

-----------------------------------------------------------------------------
(* Local writes.                                                           *)

\* The event of a local write.
Written(r, id, ts, new, op, to, value) ==
    [id |-> id, lamport |-> NextLamport(r), ts |-> ts, by |-> r,
     machine |-> Machine[r], op |-> op, to |-> to, closed |-> new.closed,
     value |-> value, ok |-> TRUE]

\* A write of one of the operations, with the arguments they give Emit.
WriteArgs(r, id, ts, new, op, to, value) ==
    /\ id \in EventIds /\ new \in Rows
    /\ op \in WorkflowOps \cup Fields \cup {"delete"}
    /\ op \in WorkflowOps => to \in Status
    /\ op = "claim" => value \in Replicas
    /\ op = "unclaim" => value = NULL
    /\ op \in Fields => ts \in WallTimes
    /\ op = "title" => value = id
    /\ op = "assignee" => value \in AssigneeInputs

LEMMA WrittenFields ==
    ASSUME LogInv, NEW r \in Replicas, NEW id, NEW ts, NEW new, NEW op, NEW to, NEW value,
           WriteArgs(r, id, ts, new, op, to, value),
           Emit(r, id, ts, new, op, to, value)
    PROVE  LET e == Written(r, id, ts, new, op, to, value)
           IN  /\ WellFormed(e) /\ e \notin sent /\ e.by = r
               /\ \A x \in sent : x.id # e.id
               /\ \A x \in log[r] : e.lamport > x.lamport
               /\ e.lamport = clock[r] + 1
<1> DEFINE e == Written(r, id, ts, new, op, to, value)
<1>1. /\ e.id = id /\ e.lamport = clock[r] + 1 /\ e.by = r /\ e.machine = Machine[r]
      /\ e.op = op /\ e.to = to /\ e.closed = new.closed /\ e.value = value /\ e.ts = ts
      /\ e.ok = TRUE
  BY DEF Written, NextLamport
<1>2. id \notin {x.id : x \in sent}
  BY DEF Emit
<1>3. \A x \in sent : x.id # e.id
  BY <1>1, <1>2
<1>4. clock[r] \in Nat /\ \A x \in log[r] : x \in sent /\ x.lamport <= clock[r]
  BY DEF LogInv, ApplyTypeOK, ClocksAbove
<1>5. \A x \in sent : x.lamport \in Nat
  BY EventApplyAssumption DEF LogInv, ApplyTypeOK, WellFormed
<1>6. new.closed \in EventIds \cup {NULL}
  BY DEF WriteArgs, Rows
<1> HIDE DEF e
<1>7. WellFormed(e)
  BY <1>1, <1>4, <1>6 DEF WellFormed, WriteArgs
<1>8. \A x \in log[r] : e.lamport > x.lamport
  BY <1>1, <1>4, <1>5
<1> QED
  BY <1>1, <1>3, <1>7, <1>8 DEF e

LEMMA WriteLog ==
    ASSUME LogInv, NEW r \in Replicas, NEW id, NEW ts, NEW new, NEW op, NEW to, NEW value,
           WriteArgs(r, id, ts, new, op, to, value),
           Emit(r, id, ts, new, op, to, value)
    PROVE  LogInv'
<1> DEFINE e == Written(r, id, ts, new, op, to, value)
<1>1. /\ WellFormed(e) /\ e \notin sent /\ e.by = r
      /\ \A x \in sent : x.id # e.id
      /\ \A x \in log[r] : e.lamport > x.lamport
      /\ e.lamport = clock[r] + 1
  BY WrittenFields
<1>2. /\ row' = [row EXCEPT ![r] = new]
      /\ clock' = [clock EXCEPT ![r] = clock[r] + 1]
      /\ log' = [log EXCEPT ![r] = log[r] \cup {e}]
      /\ sent' = sent \cup {e}
      /\ conflicts' = conflicts
  BY DEF Emit, Written, NextLamport
<1>3. new \in Rows
  BY DEF WriteArgs
<1> HIDE DEF e
<1>4. clock[r] \in Nat /\ \A x \in sent : x.lamport \in Nat
  BY EventApplyAssumption DEF LogInv, ApplyTypeOK, WellFormed
<1>5. ApplyTypeOK'
  <2>1. log' \in [Replicas -> SUBSET sent']
    BY <1>2 DEF LogInv, ApplyTypeOK
  <2>2. clock' \in [Replicas -> Nat] /\ row' \in [Replicas -> Rows]
    BY <1>2, <1>3, <1>4 DEF LogInv, ApplyTypeOK
  <2>3. \A x \in sent' : x \in Malformed \/ WellFormed(x)
    BY <1>1, <1>2 DEF LogInv, ApplyTypeOK
  <2> QED
    BY <1>2, <2>1, <2>2, <2>3 DEF LogInv, ApplyTypeOK, WellFormed
<1>6. EventsOnce'
  BY <1>1, <1>2 DEF LogInv, ApplyTypeOK, EventsOnce
<1>7. ClocksAbove'
  <2>1. ASSUME NEW q \in Replicas, NEW x \in log'[q] PROVE x.lamport <= clock'[q]
    <3>1. CASE q = r /\ x = e
      BY <1>1, <1>2, <1>4, <3>1 DEF LogInv, ApplyTypeOK
    <3>2. CASE q = r /\ x # e
      <4>1. x \in log[r] /\ clock'[r] = clock[r] + 1 /\ x \in sent
        BY <1>2, <2>1, <3>2 DEF LogInv, ApplyTypeOK
      <4> QED
        BY <1>4, <3>2, <4>1 DEF LogInv, ClocksAbove
    <3>3. CASE q # r
      BY <1>2, <2>1, <3>3 DEF LogInv, ApplyTypeOK, ClocksAbove
    <3> QED
      BY <3>1, <3>2, <3>3
  <2>2. ASSUME NEW x \in sent, x.by = r PROVE x.lamport < e.lamport
    BY <1>1, <1>4, <2>2 DEF LogInv, EventsOnce
  <2>3. ASSUME NEW x \in sent', NEW y \in sent', x.ok, y.ok, x.by = y.by,
               x.lamport = y.lamport
        PROVE  x = y
    <3>1. e.lamport \in Nat
      BY <1>1, <1>4
    <3> QED
      BY <1>1, <1>2, <1>4, <2>2, <2>3, <3>1 DEF LogInv, ClocksAbove
  <2> QED
    BY <2>1, <2>3 DEF ClocksAbove
<1> QED
  BY <1>5, <1>6, <1>7 DEF LogInv

\* How the operations change the row they write.
WriteRow(r, id, new, op, to, value) ==
    /\ op \in WorkflowOps =>
          /\ new.status = to /\ new.wake \in {NULL, id}
          /\ new.status # "deferred" => new.wake = NULL
    /\ op \notin WorkflowOps =>
          /\ new.status = row[r].status /\ new.closed = row[r].closed
          /\ new.wake = row[r].wake
    /\ new.assignee = IF op \in {"claim", "unclaim", "assignee"} THEN value
                      ELSE row[r].assignee
    /\ new.title = IF op = "title" THEN id ELSE row[r].title
    /\ new.deleted = (row[r].deleted \/ op = "delete")

LEMMA LocalWriteArgs ==
    ASSUME ApplyInv, NEW r \in Replicas, NEW id \in EventIds, LocalWrite(r, id)
    PROVE  \E ts, new, op, to, value :
              /\ WriteArgs(r, id, ts, new, op, to, value)
              /\ WriteRow(r, id, new, op, to, value)
              /\ Emit(r, id, ts, new, op, to, value)
<1>0. row[r] \in Rows
  BY DEF ApplyInv, LogInv, ApplyTypeOK
<1> USE DEF WriteArgs, WriteRow, Rows, WorkflowOps, Fields
<1>1. ASSUME NEW ts \in WallTimes, UpdateTitle(r, id, ts)
      PROVE  \E new : WriteArgs(r, id, ts, new, "title", NULL, id)
                      /\ WriteRow(r, id, new, "title", NULL, id)
                      /\ Emit(r, id, ts, new, "title", NULL, id)
  <2> DEFINE new == [row[r] EXCEPT !.title = id]
  <2>1. /\ new \in Rows /\ new.title = id /\ new.status = row[r].status
        /\ new.closed = row[r].closed /\ new.wake = row[r].wake
        /\ new.assignee = row[r].assignee /\ new.deleted = row[r].deleted
    BY <1>0
  <2>2. Emit(r, id, ts, new, "title", NULL, id)
    BY <1>1 DEF UpdateTitle
  <2> HIDE DEF new
  <2>3. row[r].deleted \in BOOLEAN
    BY <1>0
  <2> QED
    BY <1>1, <2>1, <2>2, <2>3
<1>2. ASSUME ClaimNode(r, id)
      PROVE  \E new : WriteArgs(r, id, NULL, new, "claim", "in_progress", r)
                      /\ WriteRow(r, id, new, "claim", "in_progress", r)
                      /\ Emit(r, id, NULL, new, "claim", "in_progress", r)
  <2> DEFINE new == [row[r] EXCEPT !.status = "in_progress", !.assignee = r, !.wake = NULL]
  <2>1. /\ new \in Rows /\ new.title = row[r].title /\ new.status = "in_progress"
        /\ new.wake = NULL /\ new.assignee = r /\ new.deleted = row[r].deleted
    BY <1>0 DEF Status
  <2>2. Emit(r, id, NULL, new, "claim", "in_progress", r)
    BY <1>2 DEF ClaimNode
  <2> HIDE DEF new
  <2>3. row[r].deleted \in BOOLEAN /\ "in_progress" \in Status
    BY <1>0 DEF Status
  <2> QED
    BY <2>1, <2>2, <2>3
<1>3. ASSUME UnclaimNode(r, id)
      PROVE  \E new : WriteArgs(r, id, NULL, new, "unclaim", "open", NULL)
                      /\ WriteRow(r, id, new, "unclaim", "open", NULL)
                      /\ Emit(r, id, NULL, new, "unclaim", "open", NULL)
  <2> DEFINE new == [row[r] EXCEPT !.status = "open", !.assignee = NULL]
  <2>1. /\ new \in Rows /\ new.title = row[r].title /\ new.status = "open"
        /\ new.wake = row[r].wake /\ new.assignee = NULL /\ new.deleted = row[r].deleted
    BY <1>0 DEF Status
  <2>0. row[r].wake = NULL
    BY <1>3 DEF UnclaimNode, ApplyInv, WakesOfDeferrals
  <2>2. Emit(r, id, NULL, new, "unclaim", "open", NULL)
    BY <1>3 DEF UnclaimNode
  <2> HIDE DEF new
  <2>3. row[r].deleted \in BOOLEAN /\ "open" \in Status
    BY <1>0 DEF Status
  <2> QED
    BY <2>0, <2>1, <2>2, <2>3
<1>4. ASSUME NEW to \in Targets, TransitionStatus(r, id, to)
      PROVE  \E new : WriteArgs(r, id, NULL, new, "transition", to, NULL)
                      /\ WriteRow(r, id, new, "transition", to, NULL)
                      /\ Emit(r, id, NULL, new, "transition", to, NULL)
  <2> DEFINE cl == IF to \in {"done", "cancelled"} THEN id
                   ELSE IF row[r].status \in {"done", "cancelled"} /\ to = "open" THEN NULL
                   ELSE row[r].closed
             wk == IF to = "deferred" THEN id ELSE NULL
             new == [row[r] EXCEPT !.status = to, !.closed = cl, !.wake = wk]
  <2>0. /\ to \in Status /\ cl \in EventIds \cup {NULL} /\ wk \in {NULL, id}
        /\ to # "deferred" => wk = NULL
    BY <1>0, EventApplyAssumption
  <2>2. Emit(r, id, NULL, new, "transition", to, NULL)
    BY <1>4 DEF TransitionStatus
  <2> HIDE DEF cl, wk
  <2>1. /\ new \in Rows /\ new.title = row[r].title /\ new.status = to
        /\ new.wake = wk /\ new.deleted = row[r].deleted
        /\ new.assignee = row[r].assignee
    BY <1>0, <2>0
  <2> HIDE DEF new
  <2>3. row[r].deleted \in BOOLEAN
    BY <1>0
  <2> QED
    BY <2>0, <2>1, <2>2, <2>3
<1>5. ASSUME DeleteNode(r, id)
      PROVE  \E new : WriteArgs(r, id, NULL, new, "delete", NULL, NULL)
                      /\ WriteRow(r, id, new, "delete", NULL, NULL)
                      /\ Emit(r, id, NULL, new, "delete", NULL, NULL)
  <2> DEFINE new == [row[r] EXCEPT !.deleted = TRUE]
  <2>1. /\ new \in Rows /\ new.title = row[r].title /\ new.status = row[r].status
        /\ new.closed = row[r].closed /\ new.wake = row[r].wake
        /\ new.assignee = row[r].assignee /\ new.deleted = TRUE
    BY <1>0
  <2>2. Emit(r, id, NULL, new, "delete", NULL, NULL)
    BY <1>5 DEF DeleteNode
  <2> HIDE DEF new
  <2> QED
    BY <2>1, <2>2
<1>6. ASSUME NEW ts \in WallTimes, NEW a \in AssigneeInputs, UpdateAssignee(r, id, ts, a)
      PROVE  \E new : WriteArgs(r, id, ts, new, "assignee", NULL, a)
                      /\ WriteRow(r, id, new, "assignee", NULL, a)
                      /\ Emit(r, id, ts, new, "assignee", NULL, a)
  <2> DEFINE new == [row[r] EXCEPT !.assignee = a]
  <2>1. /\ new \in Rows /\ new.title = row[r].title /\ new.status = row[r].status
        /\ new.closed = row[r].closed /\ new.wake = row[r].wake
        /\ new.assignee = a /\ new.deleted = row[r].deleted
    BY <1>0, EventApplyAssumption
  <2>2. Emit(r, id, ts, new, "assignee", NULL, a)
    BY <1>6 DEF UpdateAssignee
  <2> HIDE DEF new
  <2>3. row[r].deleted \in BOOLEAN
    BY <1>0
  <2> QED
    BY <1>6, <2>1, <2>2, <2>3
<1> HIDE DEF WriteArgs, WriteRow
<1> QED
  BY <1>1, <1>2, <1>3, <1>4, <1>5, <1>6 DEF LocalWrite

\* A local write is on top of everything its replica holds.
LEMMA LocalWriteShows ==
    ASSUME ApplyInv, NEW r \in Replicas, NEW id \in EventIds, LocalWrite(r, id)
    PROVE  ApplyInv' /\ (EditInv => EditInv')
<1>1. PICK ts, new, op, to, value :
          /\ WriteArgs(r, id, ts, new, op, to, value)
          /\ WriteRow(r, id, new, op, to, value)
          /\ Emit(r, id, ts, new, op, to, value)
  BY LocalWriteArgs
<1> DEFINE e == Written(r, id, ts, new, op, to, value)
<1>2. LogInv /\ LogInv'
  BY <1>1, WriteLog DEF ApplyInv
<1>3. WellFormed(e) /\ e \notin sent /\ \A x \in log[r] : e.lamport > x.lamport
  BY <1>1, <1>2, WrittenFields
<1>4. /\ row' = [row EXCEPT ![r] = new]
      /\ log' = [log EXCEPT ![r] = log[r] \cup {e}]
      /\ sent' = sent \cup {e}
  BY <1>1 DEF Emit, Written, NextLamport
<1>5. e.op = op /\ e.to = to /\ e.closed = new.closed /\ e.value = value /\ e.id = id /\ e.ok
  BY DEF Written
<1> HIDE DEF e
<1>6. log[r] \subseteq sent' /\ e \in sent'
  BY <1>2, <1>4 DEF LogInv, ApplyTypeOK
<1>7. row'[r] = new /\ log'[r] = log[r] \cup {e}
  BY <1>2, <1>4 DEF LogInv, ApplyTypeOK
<1>8. ShowsWorkflow(log'[r], row'[r])
  <2>1. CASE op \in WorkflowOps
    <3>1. \A x \in WorkflowIn(log[r]) : workflowKeyBeats(e, x)
      BY <1>3 DEF WorkflowIn, workflowKeyBeats
    <3> QED
      BY <1>1, <1>5, <1>7, <2>1, <3>1, WorkflowWins DEF WriteRow
  <2>2. CASE op \notin WorkflowOps
    <3>1. WorkflowIn(log'[r]) = WorkflowIn(log[r])
      BY <1>5, <1>7, <2>2 DEF WorkflowIn
    <3> QED
      BY <1>1, <1>7, <2>2, <3>1 DEF WriteRow, ShowsWorkflow, ApplyInv
  <2> QED
    BY <2>1, <2>2
<1>9. ShowsDelete(log'[r], row'[r])
  BY <1>1, <1>5, <1>7 DEF WriteRow, ShowsDelete, ApplyInv
<1>10. WakesOfDeferrals'
  <2>1. new.status # "deferred" => new.wake = NULL
    BY <1>1 DEF WriteRow, ApplyInv, WakesOfDeferrals
  <2> QED
    BY <1>2, <1>4, <2>1 DEF ApplyInv, WakesOfDeferrals, LogInv, ApplyTypeOK
<1>11. \A q \in Replicas : q # r => log'[q] = log[q] /\ row'[q] = row[q]
  BY <1>2, <1>4 DEF LogInv, ApplyTypeOK
<1>14. HasLatest(log'[r]) /\ ShowsAssignee(log'[r], row'[r])
  <2>0. HasLatest(log[r]) /\ ShowsAssignee(log[r], row[r])
    BY DEF ApplyInv
  <2>1. /\ e.lamport \in Nat
        /\ \A x \in log[r] : x.lamport \in Nat /\ x # e
    BY <1>2, <1>3, EventApplyAssumption DEF WellFormed, LogInv, ApplyTypeOK
  <2>2. \A x \in log[r] : ~incomingBeats(x, e) /\ ~workflowKeyBeats(x, e)
    BY <1>3, <2>1 DEF incomingBeats, workflowKeyBeats
  <2>3. ASSUME NEW f \in Fields, EditsIn(log'[r], f) # {} PROVE Latest(log'[r], f) # {}
    <3>1. CASE op = f
      <4>1. e \in Latest(log'[r], f)
        BY <1>5, <1>7, <2>2, <3>1 DEF Latest, EditsIn
      <4> QED
        BY <4>1
    <3>2. CASE op # f
      <4>1. EditsIn(log'[r], f) = EditsIn(log[r], f)
        BY <1>5, <1>7, <3>2 DEF EditsIn
      <4> QED
        BY <2>0, <2>3, <4>1 DEF HasLatest, Latest
    <3> QED
      BY <3>1, <3>2
  <2>4. CASE op \in WorkflowOps
    <3> SUFFICES ASSUME NEW w \in WorkflowIn(log'[r]), w.op \in {"claim", "unclaim"},
                        \A x \in WorkflowIn(log'[r]) : x # w => workflowKeyBeats(w, x)
                 PROVE  row'[r].assignee = w.value
      BY <2>3 DEF ShowsAssignee, HasLatest
    <3>1. w = e
      BY <1>5, <1>7, <2>2, <2>4 DEF WorkflowIn
    <3>2. new.assignee = value
      BY <1>1, <1>5, <3>1 DEF WriteRow
    <3> QED
      BY <1>5, <1>7, <3>1, <3>2
  <2>5. CASE op = "assignee"
    <3>1. new.assignee = value
      BY <1>1, <2>5 DEF WriteRow
    <3>2. \A x \in EditsIn(log[r], "assignee") : ~incomingBeats(x, e)
      BY <2>2 DEF EditsIn
    <3> QED
      BY <1>5, <1>7, <2>3, <2>5, <3>1, <3>2, AssigneeByEdit DEF HasLatest
  <2>6. CASE op \notin WorkflowOps /\ op # "assignee"
    <3>1. /\ WorkflowIn(log'[r]) = WorkflowIn(log[r])
          /\ EditsIn(log'[r], "assignee") = EditsIn(log[r], "assignee")
      BY <1>5, <1>7, <2>6 DEF WorkflowIn, EditsIn
    <3>2. new.assignee = row[r].assignee
      BY <1>1, <2>6 DEF WriteRow, WorkflowOps
    <3> QED
      BY <1>7, <2>0, <2>3, <3>1, <3>2 DEF ShowsAssignee, Latest, HasLatest
  <2> QED
    BY <2>4, <2>5, <2>6
<1>12. ApplyInv'
  BY <1>2, <1>8, <1>9, <1>10, <1>11, <1>14 DEF ApplyInv
<1>13. ASSUME EditInv PROVE ShowsEdit(log'[r], row'[r])
  <2>1. CASE op = "title"
    <3>1. \A x \in EditsIn(log[r], "title") : incomingBeats(e, x)
      <4> SUFFICES ASSUME NEW x \in log[r], x.op = "title" PROVE incomingBeats(e, x)
        BY DEF EditsIn
      <4>1. e.lamport \in Nat /\ x.lamport \in Nat /\ e.lamport > x.lamport
        BY <1>2, <1>3, EditKey DEF WellFormed, LogInv, ApplyTypeOK, Fields
      <4> QED
        BY <4>1 DEF incomingBeats
    <3>2. new.title = id /\ value = id
      BY <1>1, <2>1 DEF WriteRow, WriteArgs
    <3> QED
      BY <1>5, <1>7, <2>1, <3>1, <3>2, EditWins
  <2>2. CASE op # "title"
    <3>1. EditsIn(log'[r], "title") = EditsIn(log[r], "title")
      BY <1>5, <1>7, <2>2 DEF EditsIn
    <3>2. new.title = row[r].title
      BY <1>1, <2>2 DEF WriteRow
    <3> QED
      BY <1>7, <1>13, <3>1, <3>2 DEF ShowsEdit, EditInv
  <2> QED
    BY <2>1, <2>2
<1> QED
  BY <1>11, <1>12, <1>13 DEF EditInv

-----------------------------------------------------------------------------
(* Applied events.                                                         *)

\* The edit that PriorOf names is a latest one of its field.
LEMMA PriorIsLatest ==
    ASSUME LogInv, NEW r \in Replicas, HasLatest(log[r]),
           NEW e \in sent \ log[r], e.op \in Fields, Priors(r, e) # {}
    PROVE  PriorOf(r, e) \in Latest(log[r], e.op)
<1> DEFINE E == EditsIn(log[r], e.op)
<1>0. Priors(r, e) = E /\ \A x \in E : x \in sent /\ x.op \in Fields
  BY DEF Priors, EditsIn, LogInv, ApplyTypeOK
<1>1. PICK w \in E : \A x \in E : x # w => ~incomingBeats(x, w)
  BY <1>0 DEF HasLatest, Latest
<1>2. ~incomingBeats(w, w)
  BY <1>0, EditTransitive
<1>3. \A y \in E : ~incomingBeats(y, w)
  BY <1>1, <1>2
<1> DEFINE p == CHOOSE x \in E : \A y \in E : ~incomingBeats(y, x)
<1>4. p \in E /\ \A y \in E : ~incomingBeats(y, p)
  BY <1>3
<1>5. PriorOf(r, e) = p
  BY <1>0 DEF PriorOf
<1> HIDE DEF p
<1> QED
  BY <1>4, <1>5 DEF Latest

\* With a machine hash for each store it is the only one.
LEMMA PriorIsWinner ==
    ASSUME DistinctMachines, LogInv, NEW r \in Replicas, HasLatest(log[r]),
           NEW e \in sent \ log[r], e.op \in Fields, Priors(r, e) # {}
    PROVE  /\ PriorOf(r, e) \in EditsIn(log[r], e.op)
           /\ \A x \in EditsIn(log[r], e.op) :
                 x # PriorOf(r, e) => incomingBeats(PriorOf(r, e), x)
<1>1. PriorOf(r, e) \in Latest(log[r], e.op)
  BY PriorIsLatest
<1>2. \A x \in EditsIn(log[r], e.op) : x \in sent /\ x.op \in Fields
  BY DEF EditsIn, LogInv, ApplyTypeOK
<1> QED
  BY <1>1, <1>2, EditOrder DEF Latest

\* Whichever edit PriorOf names, it is one this replica holds.
LEMMA PriorHeld ==
    ASSUME NEW r, NEW e, \E x \in Priors(r, e) : \A y \in Priors(r, e) : ~incomingBeats(y, x)
    PROVE  PriorOf(r, e) \in Priors(r, e)
BY DEF PriorOf

LEMMA RowAfterWorkflow ==
    ASSUME LogInv, NEW r \in Replicas, NEW e \in sent \ log[r], e.op \in WorkflowOps,
           Dispatch(r, e) # NULL
    PROVE  /\ Dispatch(r, e).new = {}
           /\ \/ /\ ~workflowEventWins(r, e) \/ ~e.ok
                 /\ Dispatch(r, e).row = row[r]
              \/ /\ workflowEventWins(r, e) /\ e.ok
                 /\ Dispatch(r, e).row = WinnerRow(row[r], e)
<1>1. Dispatch(r, e) = DispatchWorkflow(r, e)
  BY DEF Dispatch, WorkflowOps, Fields
<1> QED
  BY <1>1 DEF DispatchWorkflow

LEMMA WinnerRowFields ==
    ASSUME LogInv, NEW r \in Replicas, NEW e \in sent, e.op \in WorkflowOps, e.ok
    PROVE  LET new == WinnerRow(row[r], e)
           IN  /\ new \in Rows /\ new.status = e.to /\ new.closed = e.closed /\ new.wake = NULL
               /\ e.op \in {"claim", "unclaim"} => new.assignee = e.value
               /\ new.title = row[r].title /\ new.deleted = row[r].deleted
<1>1. row[r] \in Rows /\ WellFormed(e)
  BY EventApplyAssumption DEF LogInv, ApplyTypeOK
<1>2. e.to \in Status /\ e.closed \in EventIds \cup {NULL}
  BY <1>1 DEF WellFormed
<1>3. CASE e.op = "claim"
  <2>1. e.value \in Replicas
    BY <1>1, <1>3 DEF WellFormed
  <2> QED
    BY <1>1, <1>2, <1>3, <2>1 DEF Rows, WinnerRow
<1>4. CASE e.op = "unclaim"
  <2>1. e.value = NULL
    BY <1>1, <1>4 DEF WellFormed
  <2> QED
    BY <1>1, <1>2, <1>4, <2>1 DEF Rows, WinnerRow
<1>5. CASE e.op = "transition"
  BY <1>1, <1>2, <1>5 DEF Rows, WinnerRow
<1> QED
  BY <1>3, <1>4, <1>5 DEF WorkflowOps

LEMMA RowAfterEdit ==
    ASSUME LogInv, NEW r \in Replicas, NEW e \in sent \ log[r], e.op \in Fields,
           Dispatch(r, e) # NULL
    PROVE  \/ /\ Priors(r, e) # {} /\ ~incomingBeats(e, PriorOf(r, e))
              /\ Dispatch(r, e).row = row[r]
           \/ /\ Priors(r, e) = {} \/ incomingBeats(e, PriorOf(r, e))
              /\ Dispatch(r, e).row = EditedRow(row[r], e)
              /\ Priors(r, e) # {} => <<e.id, PriorOf(r, e).id>> \in Dispatch(r, e).new
<1>1. Dispatch(r, e) = DispatchEdit(r, e)
  BY DEF Dispatch, WorkflowOps, Fields
<1> QED
  BY <1>1 DEF DispatchEdit, ConflictRow

LEMMA RowAfterDelete ==
    ASSUME LogInv, NEW r \in Replicas, NEW e \in sent, e.op = "delete"
    PROVE  Dispatch(r, e).row = [row[r] EXCEPT !.deleted = TRUE]
BY DEF Dispatch, WorkflowOps, Fields

\* The columns of the row an applied event leaves behind.
LEMMA AppliedRow ==
    ASSUME LogInv, NEW r \in Replicas, NEW e \in sent \ log[r], Dispatch(r, e) # NULL
    PROVE  LET new == Dispatch(r, e).row
           IN  /\ new \in Rows
               /\ e.op # "title" => new.title = row[r].title
               /\ new.deleted = (row[r].deleted \/ e.op = "delete")
               /\ e.op \notin WorkflowOps =>
                    /\ new.status = row[r].status /\ new.closed = row[r].closed
                    /\ new.wake = row[r].wake
               /\ e.op \notin WorkflowOps \cup {"assignee"} =>
                    new.assignee = row[r].assignee
<1>0. row[r] \in Rows /\ (e \in Malformed \/ WellFormed(e))
  BY DEF LogInv, ApplyTypeOK
<1>1. CASE e.op \in WorkflowOps
  <2>1. "title" \notin WorkflowOps /\ "delete" \notin WorkflowOps
    BY DEF WorkflowOps
  <2>2. Dispatch(r, e).row = row[r] \/ (e.ok /\ Dispatch(r, e).row = WinnerRow(row[r], e))
    BY <1>1, RowAfterWorkflow
  <2>3. row[r].deleted \in BOOLEAN
    BY <1>0 DEF Rows
  <2> QED
    BY <1>0, <1>1, <2>1, <2>2, <2>3, WinnerRowFields
<1>2. CASE e.op \in Fields
  <2>0. Dispatch(r, e).row = row[r] \/ Dispatch(r, e).row = EditedRow(row[r], e)
    BY <1>2, RowAfterEdit
  <2>1. CASE e.op = "title"
    <3>1. e.value \in EventIds
      BY <1>2, <2>1, EditKey
    <3>2. EditedRow(row[r], e) = [row[r] EXCEPT !.title = e.value]
      BY <2>1 DEF EditedRow
    <3> QED
      BY <1>0, <2>0, <2>1, <3>1, <3>2 DEF Rows
  <2>2. CASE e.op = "assignee"
    <3>1. e.value \in Replicas \cup {NULL}
      BY <1>2, <2>2, EditKey, EventApplyAssumption
    <3>2. EditedRow(row[r], e) = [row[r] EXCEPT !.assignee = e.value]
      BY <2>2 DEF EditedRow
    <3> QED
      BY <1>0, <2>0, <2>2, <3>1, <3>2 DEF Rows
  <2> QED
    BY <1>2, <2>1, <2>2 DEF Fields
<1>3. CASE e.op = "delete"
  <2>1. Dispatch(r, e).row = [row[r] EXCEPT !.deleted = TRUE]
    BY <1>3, RowAfterDelete
  <2> DEFINE new == [row[r] EXCEPT !.deleted = TRUE]
  <2>2. /\ new \in Rows /\ new.title = row[r].title /\ new.deleted = TRUE
        /\ new.status = row[r].status /\ new.closed = row[r].closed
        /\ new.wake = row[r].wake /\ new.assignee = row[r].assignee
    BY <1>0 DEF Rows
  <2> HIDE DEF new
  <2> QED
    BY <1>3, <2>1, <2>2 DEF new
<1> QED
  BY <1>0, <1>1, <1>2, <1>3, EventApplyAssumption DEF WellFormed

LEMMA ApplyLog ==
    ASSUME LogInv, NEW r \in Replicas, NEW e \in sent, IdempotentApply(r, e)
    PROVE  LogInv'
<1>1. /\ e \in sent \ log[r] /\ Dispatch(r, e).row \in Rows /\ sent' = sent
      /\ row' = [row EXCEPT ![r] = Dispatch(r, e).row]
      /\ log' = [log EXCEPT ![r] = log[r] \cup {e}]
      /\ clock' = [clock EXCEPT ![r] = Advanced(clock[r], e)]
      /\ conflicts' = [conflicts EXCEPT ![r] = conflicts[r] \cup Dispatch(r, e).new]
  BY AppliedRow DEF IdempotentApply
<1>2. \A x \in sent : x.lamport \in Nat
  BY EventApplyAssumption DEF LogInv, ApplyTypeOK, WellFormed
<1>3. /\ Advanced(clock[r], e) \in Nat /\ clock[r] \in Nat
      /\ Advanced(clock[r], e) >= clock[r] /\ Advanced(clock[r], e) >= e.lamport
  BY <1>2 DEF Advanced, LogInv, ApplyTypeOK
<1>4. ApplyTypeOK'
  <2>1. log' \in [Replicas -> SUBSET sent']
    BY <1>1 DEF LogInv, ApplyTypeOK
  <2>2. clock' \in [Replicas -> Nat] /\ row' \in [Replicas -> Rows]
    BY <1>1, <1>3 DEF LogInv, ApplyTypeOK
  <2> QED
    BY <1>1, <2>1, <2>2 DEF LogInv, ApplyTypeOK, WellFormed
<1>5. EventsOnce'
  <2>1. \A q \in Replicas : log[q] \subseteq log'[q]
    BY <1>1 DEF LogInv, ApplyTypeOK
  <2> QED
    BY <1>1, <2>1 DEF LogInv, EventsOnce
<1>6. ClocksAbove'
  <2>1. ASSUME NEW q \in Replicas, NEW x \in log'[q] PROVE x.lamport <= clock'[q]
    <3>1. CASE q = r
      <4>1. clock'[r] = Advanced(clock[r], e)
        BY <1>1 DEF LogInv, ApplyTypeOK
      <4>2. x = e \/ (x \in log[r] /\ x \in sent /\ x.lamport <= clock[r])
        BY <1>1, <2>1, <3>1 DEF LogInv, ApplyTypeOK, ClocksAbove
      <4> QED
        BY <1>2, <1>3, <3>1, <4>1, <4>2
    <3>2. CASE q # r
      BY <1>1, <2>1, <3>2 DEF LogInv, ApplyTypeOK, ClocksAbove
    <3> QED
      BY <3>1, <3>2
  <2> QED
    BY <1>1, <2>1 DEF LogInv, ClocksAbove
<1> QED
  BY <1>4, <1>5, <1>6 DEF LogInv

\* An applied event changes the workflow columns only as the new winner, and
\* the title only as the new winning edit.
LEMMA ApplyShows ==
    ASSUME ApplyInv, NEW r \in Replicas, NEW e \in sent, IdempotentApply(r, e)
    PROVE  ApplyInv' /\ (DistinctMachines /\ EditInv => EditInv')
<1> DEFINE new == Dispatch(r, e).row
<1>1. LogInv /\ LogInv' /\ e \in sent \ log[r] /\ Dispatch(r, e) # NULL
  BY ApplyLog DEF ApplyInv, IdempotentApply
<1>2. row' = [row EXCEPT ![r] = new] /\ log' = [log EXCEPT ![r] = log[r] \cup {e}]
  BY DEF IdempotentApply
<1>3. row'[r] = new /\ log'[r] = log[r] \cup {e}
  BY <1>1, <1>2 DEF LogInv, ApplyTypeOK
<1>4. /\ new \in Rows
      /\ e.op # "title" => new.title = row[r].title
      /\ new.deleted = (row[r].deleted \/ e.op = "delete")
      /\ e.op \notin WorkflowOps =>
           /\ new.status = row[r].status /\ new.closed = row[r].closed
           /\ new.wake = row[r].wake
      /\ e.op \notin WorkflowOps \cup {"assignee"} => new.assignee = row[r].assignee
  BY <1>1, AppliedRow
<1>5. HeldWorkflow(r, e) = WorkflowIn(log[r]) /\ log[r] \subseteq sent
  BY <1>1 DEF HeldWorkflow, WorkflowIn, LogInv, ApplyTypeOK
<1>8. /\ ShowsWorkflow(log'[r], row'[r])
      /\ new.wake = NULL \/ (new.status = row[r].status /\ new.wake = row[r].wake)
  <2>6. CASE e.op \in WorkflowOps /\ workflowEventWins(r, e) /\ e.ok
    <3>1. new = WinnerRow(row[r], e)
      BY <1>1, <2>6, RowAfterWorkflow
    <3>2. new.status = e.to /\ new.closed = e.closed /\ new.wake = NULL
      BY <1>1, <2>6, <3>1, WinnerRowFields
    <3>3. \A x \in WorkflowIn(log[r]) : workflowKeyBeats(e, x)
      BY <1>5, <2>6 DEF workflowEventWins
    <3> HIDE DEF new
    <3>4. ShowsWorkflow(log[r] \cup {e}, new)
      BY <2>6, <3>2, <3>3, WorkflowWins
    <3> QED
      BY <1>3, <3>2, <3>4
  <2>7. CASE ~(e.op \in WorkflowOps /\ workflowEventWins(r, e) /\ e.ok)
    <3>1. /\ new.status = row[r].status /\ new.closed = row[r].closed
          /\ new.wake = row[r].wake
      BY <1>1, <1>4, <2>7, RowAfterWorkflow
    <3>2. \/ e.op \notin WorkflowOps \/ ~e.ok
          \/ \E x \in WorkflowIn(log[r]) : x # e /\ ~workflowKeyBeats(e, x)
      BY <1>1, <1>5, <2>7 DEF workflowEventWins, WorkflowIn
    <3>3. ShowsWorkflow(log[r], row[r])
      BY DEF ApplyInv
    <3> HIDE DEF new
    <3>4. ShowsWorkflow(log[r] \cup {e}, new)
      BY <1>1, <1>5, <3>1, <3>2, <3>3, WorkflowLoses
    <3> QED
      BY <1>3, <3>1, <3>4
  <2> QED
    BY <2>6, <2>7
<1>9. ShowsDelete(log'[r], row'[r])
  BY <1>3, <1>4 DEF ShowsDelete, ApplyInv
<1>10. \A q \in Replicas : q # r => log'[q] = log[q] /\ row'[q] = row[q]
  BY <1>1, <1>2 DEF LogInv, ApplyTypeOK
<1>11. WakesOfDeferrals'
  BY <1>3, <1>8, <1>10 DEF ApplyInv, WakesOfDeferrals
<1>14. HasLatest(log'[r])
  BY <1>1, <1>3, <1>5, LatestGrows DEF ApplyInv
<1>15. ShowsAssignee(log'[r], row'[r])
  <2>0. ShowsAssignee(log[r], row[r]) /\ HasLatest(log[r])
    BY DEF ApplyInv
  <2>1. CASE e.op \in WorkflowOps /\ workflowEventWins(r, e) /\ e.ok
    <3>1. e.op \in {"claim", "unclaim"} => new.assignee = e.value
      BY <1>1, <2>1, RowAfterWorkflow, WinnerRowFields
    <3>2. \A x \in WorkflowIn(log[r]) : workflowKeyBeats(e, x)
      BY <1>5, <2>1 DEF workflowEventWins
    <3> HIDE DEF new
    <3> QED
      BY <1>1, <1>3, <1>5, <2>1, <3>1, <3>2, AssigneeByWorkflow
  <2>2. CASE e.op \in WorkflowOps /\ ~(workflowEventWins(r, e) /\ e.ok)
    <3>1. new = row[r]
      BY <1>1, <2>2, RowAfterWorkflow
    <3>2. ~e.ok \/ \E x \in WorkflowIn(log[r]) : x # e /\ ~workflowKeyBeats(e, x)
      BY <1>1, <1>5, <2>2 DEF workflowEventWins, WorkflowIn
    <3>3. e.op # "assignee"
      BY <2>2 DEF WorkflowOps
    <3> HIDE DEF new
    <3> QED
      BY <1>1, <1>3, <1>5, <2>0, <3>1, <3>2, <3>3, AssigneeKept
  <2>3. CASE e.op \notin WorkflowOps \cup {"assignee"}
    <3>1. new.assignee = row[r].assignee
      BY <1>4, <2>3
    <3> HIDE DEF new
    <3> QED
      BY <1>1, <1>3, <1>5, <2>0, <2>3, <3>1, AssigneeKept
  <2>4. CASE e.op = "assignee"
    <3>0. /\ Priors(r, e) = EditsIn(log[r], "assignee") /\ e.op \notin WorkflowOps
          /\ e.op \in Fields
      BY <1>1, <2>4 DEF Priors, EditsIn, WorkflowOps, Fields
    <3>1. CASE Priors(r, e) # {} /\ ~incomingBeats(e, PriorOf(r, e)) /\ new = row[r]
      <4>1. PriorOf(r, e) \in Latest(log[r], "assignee")
        BY <1>1, <2>0, <2>4, <3>0, <3>1, PriorIsLatest
      <4> HIDE DEF new
      <4> QED
        BY <1>1, <1>3, <1>5, <2>0, <3>0, <3>1, <4>1, AssigneeKept
    <3>2. CASE /\ Priors(r, e) = {} \/ incomingBeats(e, PriorOf(r, e))
               /\ new = EditedRow(row[r], e)
      <4>1. new.assignee = e.value
        <5>1. row[r] \in Rows
          BY <1>1 DEF LogInv, ApplyTypeOK
        <5> QED
          BY <2>4, <3>2, <5>1 DEF Rows, EditedRow
      <4>2. ASSUME NEW x \in EditsIn(log[r], "assignee") PROVE ~incomingBeats(x, e)
        <5>1. Priors(r, e) # {}
          BY <3>0, <4>2
        <5>2. PriorOf(r, e) \in Latest(log[r], "assignee") /\ incomingBeats(e, PriorOf(r, e))
          BY <1>1, <2>0, <2>4, <3>0, <3>2, <5>1, PriorIsLatest
        <5>3. /\ x \in sent /\ PriorOf(r, e) \in sent /\ x.op = "assignee"
              /\ PriorOf(r, e).op = "assignee"
              /\ x = PriorOf(r, e) \/ ~incomingBeats(x, PriorOf(r, e))
          BY <1>5, <4>2, <5>2 DEF Latest, EditsIn
        <5>4. incomingBeats(e, x)
          BY <1>1, <2>4, <3>0, <5>2, <5>3, EditTransitive
        <5> QED
          BY <1>1, <2>4, <3>0, <5>3, <5>4, EditTransitive
      <4> HIDE DEF new
      <4> QED
        BY <1>3, <2>4, <4>1, <4>2, AssigneeByEdit
    <3> QED
      BY <1>1, <3>0, <3>1, <3>2, RowAfterEdit
  <2> QED
    BY <2>1, <2>2, <2>3, <2>4
<1>12. ApplyInv'
  BY <1>1, <1>8, <1>9, <1>10, <1>11, <1>14, <1>15 DEF ApplyInv
<1>13. ASSUME DistinctMachines, EditInv PROVE ShowsEdit(log'[r], row'[r])
  <2>0. /\ ShowsEdit(log[r], row[r]) /\ EditsIn(log[r], "title") \subseteq sent
        /\ HasLatest(log[r]) /\ "title" \in Fields
    BY <1>5, <1>13 DEF EditInv, ApplyInv, EditsIn, Fields
  <2>1. CASE e.op # "title"
    BY <1>1, <1>3, <1>4, <1>5, <1>13, <2>0, <2>1, EditLoses
  <2>2. CASE e.op = "title"
    <3>0. Priors(r, e) = EditsIn(log[r], "title")
      BY <1>1, <2>2 DEF Priors, EditsIn
    <3>1. CASE Priors(r, e) # {} /\ ~incomingBeats(e, PriorOf(r, e)) /\ new = row[r]
      <4>1. PriorOf(r, e) \in EditsIn(log[r], "title") /\ PriorOf(r, e) # e
        BY <1>1, <1>13, <2>0, <2>2, <3>1, PriorIsWinner DEF EditsIn
      <4> HIDE DEF new
      <4> QED
        BY <1>1, <1>3, <1>5, <1>13, <2>0, <3>1, <4>1, EditLoses
    <3>2. CASE /\ Priors(r, e) = {} \/ incomingBeats(e, PriorOf(r, e))
               /\ new = EditedRow(row[r], e)
      <4>1. new.title = e.value
        <5>1. row[r] \in Rows
          BY <1>1 DEF LogInv, ApplyTypeOK
        <5> QED
          BY <2>2, <3>2, <5>1 DEF Rows, EditedRow
      <4>2. ASSUME NEW x \in EditsIn(log[r], "title") PROVE incomingBeats(e, x)
        <5>1. Priors(r, e) # {}
          BY <3>0, <4>2
        <5>2. /\ incomingBeats(e, PriorOf(r, e)) /\ PriorOf(r, e) \in EditsIn(log[r], "title")
              /\ x = PriorOf(r, e) \/ incomingBeats(PriorOf(r, e), x)
          BY <1>1, <1>13, <2>0, <2>2, <3>2, <4>2, <5>1, PriorIsWinner
        <5> QED
          BY <1>1, <2>0, <2>2, <4>2, <5>2, EditTransitive DEF EditsIn
      <4> HIDE DEF new
      <4> QED
        BY <1>3, <2>2, <4>1, <4>2, EditWins
    <3> QED
      BY <1>1, <2>0, <2>2, <3>1, <3>2, RowAfterEdit
  <2> QED
    BY <2>1, <2>2
<1> QED
  BY <1>10, <1>12, <1>13 DEF EditInv

-----------------------------------------------------------------------------
(* The invariants.                                                         *)

LEMMA InitApply == Init => EditInv
<1> SUFFICES ASSUME Init PROVE EditInv
  OBVIOUS
<1>1. ApplyTypeOK
  BY EventApplyAssumption DEF Init, ApplyTypeOK, Rows, Status
<1>2. EventsOnce /\ ClocksAbove
  BY EventApplyAssumption DEF Init, EventsOnce, ClocksAbove
<1>3. ASSUME NEW r \in Replicas
      PROVE  /\ WorkflowIn(log[r]) = {} /\ log[r] = {}
             /\ \A f \in Fields \cup {"title"} : EditsIn(log[r], f) = {}
             /\ row[r].status = "open" /\ row[r].closed = NULL /\ row[r].wake = NULL
             /\ row[r].title = InitialTitle /\ row[r].deleted = FALSE
  BY DEF Init, WorkflowIn, EditsIn
<1> QED
  BY <1>1, <1>2, <1>3
     DEF EditInv, ApplyInv, LogInv, WakesOfDeferrals, ShowsWorkflow, ShowsDelete, ShowsEdit,
         ShowsAssignee, HasLatest

LEMMA NextApply == ApplyInv /\ [Next]_vars => ApplyInv'
<1>1. ASSUME ApplyInv, UNCHANGED vars PROVE ApplyInv'
  BY <1>1 DEF ApplyInv, LogInv, ApplyTypeOK, EventsOnce, ClocksAbove, WakesOfDeferrals, vars
<1> QED
  BY <1>1, LocalWriteShows, ApplyShows DEF Next

LEMMA NextEdit == DistinctMachines /\ EditInv /\ [Next]_vars => EditInv'
<1>1. ASSUME EditInv, UNCHANGED vars PROVE EditInv'
  BY <1>1, NextApply DEF EditInv, vars
<1> QED
  BY <1>1, LocalWriteShows, ApplyShows DEF Next, EditInv

\* Whatever the events and their order, the assignee that the winning claim or
\* release left and the wake time a replica shows are those of the winner of
\* the workflow events it holds (dispatchWorkflow's winner table), except that
\* an edit of the assignee that no other one beats may have set it instead.
THEOREM WinnerOwnsTheRowHolds == Spec => []WinnerOwnsTheRow
<1>1. ApplyInv => WinnerOwnsTheRow
  <2> SUFFICES ASSUME ApplyInv, NEW r \in Replicas, NEW e \in HeldWorkflow(r, NULL),
                      workflowEventWins(r, e)
               PROVE  /\ e.op \in {"claim", "unclaim"} =>
                            \/ row[r].assignee = e.value
                            \/ \E a \in LatestEdits(r, "assignee") : row[r].assignee = a.value
                      /\ row[r].wake \in {NULL, e.id}
    BY DEF WinnerOwnsTheRow
  <2>1. e \in WorkflowIn(log[r]) /\ log[r] \subseteq sent
    BY DEF HeldWorkflow, WorkflowIn, ApplyInv, LogInv, ApplyTypeOK
  <2>2. PICK w \in WorkflowIn(log[r]) :
            /\ \A x \in WorkflowIn(log[r]) : x # w => workflowKeyBeats(w, x)
            /\ row[r].wake \in {NULL, w.id}
    BY <2>1 DEF ApplyInv, ShowsWorkflow
  <2>3. ASSUME e # w PROVE FALSE
    <3>1. workflowKeyBeats(e, w)
      BY <2>2, <2>3 DEF workflowEventWins, HeldWorkflow, WorkflowIn
    <3>2. workflowKeyBeats(w, e)
      BY <2>1, <2>2, <2>3
    <3> QED
      BY <2>1, <2>2, <2>3, <3>1, <3>2, WorkflowOrder DEF WorkflowIn, ApplyInv
  <2>4. Latest(log[r], "assignee") \subseteq LatestEdits(r, "assignee")
    BY DEF Latest, LatestEdits, EditsIn, Priors
  <2>5. e.op \in {"claim", "unclaim"} =>
            \/ row[r].assignee = e.value
            \/ \E a \in Latest(log[r], "assignee") : row[r].assignee = a.value
    BY <2>2, <2>3 DEF ApplyInv, ShowsAssignee
  <2> QED
    BY <2>2, <2>3, <2>4, <2>5
<1>2. Init => ApplyInv
  BY InitApply DEF EditInv
<1> QED
  BY <1>1, <1>2, NextApply, PTL DEF Spec

-----------------------------------------------------------------------------
(* The refinement of ReplicatedTask.                                       *)

\* What replica r shows of the task.
View(r) == [status |-> row[r].status, closed |-> row[r].closed,
            title |-> row[r].title, deleted |-> row[r].deleted]

LEMMA WinnerIsUnique ==
    ASSUME LogInv, NEW S \in SUBSET sent, NEW w \in WorkflowIn(S),
           \A x \in WorkflowIn(S) : x # w => workflowKeyBeats(w, x)
    PROVE  Task!WorkflowEvents(S) # {} /\ Task!WorkflowWinner(S) = w
<1>1. Task!WorkflowEvents(S) = WorkflowIn(S)
  BY DEF Task!WorkflowEvents, WorkflowIn, WorkflowOps
<1>2. \A e, x : Task!WorkflowBeats(e, x) <=> workflowKeyBeats(e, x)
  BY DEF Task!WorkflowBeats, workflowKeyBeats
<1>3. \A x \in WorkflowIn(S) : x # w => ~workflowKeyBeats(x, w)
  BY WorkflowOrder DEF WorkflowIn
<1>4. ~workflowKeyBeats(w, w)
  <2>1. w.id \in Nat /\ w.lamport \in Nat
    BY EventApplyAssumption DEF WorkflowIn, LogInv, ApplyTypeOK, WellFormed
  <2> QED
    BY <2>1 DEF workflowKeyBeats
<1>5. \A v \in WorkflowIn(S) : (\A x \in WorkflowIn(S) : ~workflowKeyBeats(x, v)) <=> v = w
  BY <1>3, <1>4
<1> QED
  BY <1>1, <1>2, <1>5 DEF Task!WorkflowWinner

LEMMA EditWinnerIsUnique ==
    ASSUME DistinctMachines, LogInv, NEW S \in SUBSET sent, NEW w \in EditsIn(S, "title"),
           \A x \in EditsIn(S, "title") : x # w => incomingBeats(w, x)
    PROVE  Task!EditEvents(S) # {} /\ Task!EditWinner(S) = w
<1>1. Task!EditEvents(S) = EditsIn(S, "title")
  BY DEF Task!EditEvents, EditsIn
<1>2. \A e, x \in EditsIn(S, "title") : Task!EditBeats(e, x) <=> incomingBeats(e, x)
  <2> SUFFICES ASSUME NEW e \in EditsIn(S, "title"), NEW x \in EditsIn(S, "title")
               PROVE  Task!EditBeats(e, x) <=> incomingBeats(e, x)
    OBVIOUS
  <2>1. /\ e.lamport \in Nat /\ e.ts \in Nat /\ e.machine \in Nat
        /\ x.lamport \in Nat /\ x.ts \in Nat /\ x.machine \in Nat
    BY EditKey DEF EditsIn, Fields
  <2> QED
    BY <2>1 DEF Task!EditBeats, incomingBeats
<1>3. \A x \in EditsIn(S, "title") : x # w => ~incomingBeats(x, w)
  BY EditOrder DEF EditsIn, Fields
<1>4. ~incomingBeats(w, w)
  BY EditTransitive DEF EditsIn, Fields
<1>5. \A v \in EditsIn(S, "title") : (\A x \in EditsIn(S, "title") : ~incomingBeats(x, v)) <=> v = w
  BY <1>3, <1>4
<1>6. \A v \in EditsIn(S, "title") : (\A x \in EditsIn(S, "title") : ~Task!EditBeats(x, v)) <=> v = w
  BY <1>2, <1>5
<1> QED
  BY <1>1, <1>6 DEF Task!EditWinner

\* What a replica shows is what the events it holds resolve to.
LEMMA ViewResolves ==
    ASSUME DistinctMachines, EditInv, NEW r \in Replicas
    PROVE  View(r) = Task!Resolve(log[r])
<1>0. LogInv /\ log[r] \in SUBSET sent /\ row[r] \in Rows
  BY DEF EditInv, ApplyInv, LogInv, ApplyTypeOK
<1>1. /\ row[r].status = Task!Resolve(log[r]).status
      /\ row[r].closed = Task!Resolve(log[r]).closed
  <2>1. CASE WorkflowIn(log[r]) = {}
    <3>1. Task!WorkflowEvents(log[r]) = {}
      BY <2>1 DEF Task!WorkflowEvents, WorkflowIn, WorkflowOps
    <3>2. row[r].status = "open" /\ row[r].closed = NULL
      BY <2>1 DEF EditInv, ApplyInv, ShowsWorkflow
    <3> QED
      BY <3>1, <3>2 DEF Task!Resolve
  <2>2. CASE WorkflowIn(log[r]) # {}
    <3>1. PICK w \in WorkflowIn(log[r]) :
              /\ \A x \in WorkflowIn(log[r]) : x # w => workflowKeyBeats(w, x)
              /\ row[r].status = w.to /\ row[r].closed = w.closed
      BY <2>2 DEF EditInv, ApplyInv, ShowsWorkflow
    <3> QED
      BY <1>0, <3>1, WinnerIsUnique DEF Task!Resolve
  <2> QED
    BY <2>1, <2>2
<1>2. row[r].title = Task!Resolve(log[r]).title
  <2>1. CASE EditsIn(log[r], "title") = {}
    <3>1. Task!EditEvents(log[r]) = {}
      BY <2>1 DEF Task!EditEvents, EditsIn
    <3> QED
      BY <2>1, <3>1 DEF Task!Resolve, EditInv, ShowsEdit
  <2>2. CASE EditsIn(log[r], "title") # {}
    <3>1. PICK w \in EditsIn(log[r], "title") :
              /\ \A x \in EditsIn(log[r], "title") : x # w => incomingBeats(w, x)
              /\ row[r].title = w.value
      BY <2>2 DEF EditInv, ShowsEdit
    <3> QED
      BY <1>0, <3>1, EditWinnerIsUnique DEF Task!Resolve
  <2> QED
    BY <2>1, <2>2
<1>3. row[r].deleted = Task!Resolve(log[r]).deleted
  BY <1>0 DEF Task!Resolve, EditInv, ApplyInv, ShowsDelete, Rows
<1>4. Task!Resolve(log[r])
        = [status |-> Task!Resolve(log[r]).status, closed |-> Task!Resolve(log[r]).closed,
           title |-> Task!Resolve(log[r]).title, deleted |-> Task!Resolve(log[r]).deleted]
  BY DEF Task!Resolve
<1> QED
  BY <1>1, <1>2, <1>3, <1>4 DEF View

ViewsResolve == \A r \in Replicas : View(r) = Task!Resolve(log[r])

LEMMA ViewsResolveNow == DistinctMachines /\ EditInv => ViewsResolve
BY ViewResolves DEF ViewsResolve

LEMMA ViewsResolveNext == (DistinctMachines /\ EditInv => ViewsResolve)'
BY ViewsResolveNow, PTL

\* A step that gives replica r the event e and leaves the others alone maps to
\* a step of the abstract task.
LEMMA HoldMaps ==
    ASSUME DistinctMachines, EditInv, EditInv', NEW r \in Replicas, NEW e, e \notin log[r],
           log' = [log EXCEPT ![r] = log[r] \cup {e}],
           \A q \in Replicas : q # r => row'[q] = row[q],
           e.by = r => \A x \in log[r] : e.lamport > x.lamport
    PROVE  Task!Hold(r)
<1>1. log'[r] = log[r] \cup {e}
  BY DEF EditInv, ApplyInv, LogInv, ApplyTypeOK
<1> DEFINE view == [q \in Replicas |->
                      [status |-> row[q].status, closed |-> row[q].closed,
                       title |-> row[q].title, deleted |-> row[q].deleted]]
<1>2. view' = [view EXCEPT ![r] = Task!Resolve(log'[r])]
  <2>1. view' = [q \in Replicas |-> View(q)'] /\ view = [q \in Replicas |-> View(q)]
    BY DEF View
  <2>2. View(r)' = Task!Resolve(log'[r])
    BY ViewsResolveNext DEF ViewsResolve, DistinctMachines, Task!Resolve
  <2>3. \A q \in Replicas : q # r => View(q)' = View(q)
    BY DEF View
  <2> QED
    BY <2>1, <2>2, <2>3
<1> QED
  BY <1>1, <1>2 DEF Task!Hold

LEMMA LocalWriteMaps ==
    ASSUME DistinctMachines, EditInv, NEW r \in Replicas, NEW id \in EventIds,
           LocalWrite(r, id)
    PROVE  Task!Hold(r)
<1>1. PICK ts, new, op, to, value :
          /\ WriteArgs(r, id, ts, new, op, to, value)
          /\ Emit(r, id, ts, new, op, to, value)
  BY LocalWriteArgs DEF EditInv
<1> DEFINE e == Written(r, id, ts, new, op, to, value)
<1>2. EditInv' /\ LogInv
  BY LocalWriteShows DEF EditInv, ApplyInv
<1>3. e \notin sent /\ \A x \in log[r] : e.lamport > x.lamport
  BY <1>1, <1>2, WrittenFields
<1>4. row' = [row EXCEPT ![r] = new] /\ log' = [log EXCEPT ![r] = log[r] \cup {e}]
  BY <1>1 DEF Emit, Written, NextLamport
<1> HIDE DEF e
<1>5. e \notin log[r] /\ \A q \in Replicas : q # r => row'[q] = row[q]
  BY <1>2, <1>3, <1>4 DEF LogInv, ApplyTypeOK
<1> QED
  BY <1>2, <1>3, <1>4, <1>5, HoldMaps

\* An event of its own never reaches a replica for the first time through
\* IdempotentApply.
LEMMA ApplyMaps ==
    ASSUME DistinctMachines, EditInv, NEW r \in Replicas, NEW e \in sent,
           IdempotentApply(r, e)
    PROVE  Task!Hold(r)
<1>1. EditInv' /\ LogInv
  BY ApplyShows DEF EditInv, ApplyInv
<1>2. /\ e \notin log[r] /\ log' = [log EXCEPT ![r] = log[r] \cup {e}]
      /\ row' = [row EXCEPT ![r] = Dispatch(r, e).row]
  BY DEF IdempotentApply
<1>3. e.by # r
  BY <1>1, <1>2 DEF LogInv, EventsOnce
<1>4. \A q \in Replicas : q # r => row'[q] = row[q]
  BY <1>1, <1>2 DEF LogInv, ApplyTypeOK
<1> QED
  BY <1>1, <1>2, <1>3, <1>4, HoldMaps

\* As long as no two stores share a machine hash, the replicas implement the
\* replicated task: what each shows is a function of the set of events it
\* holds, whatever their order, and its own writes beat all it has seen.
THEOREM TaskImplementedHolds == ASSUME DistinctMachines PROVE Spec => TaskImplemented
<1>1. Init => Task!Init
  <2> SUFFICES ASSUME Init PROVE Task!Init
    OBVIOUS
  <2>1. EditInv /\ ViewsResolve
    BY InitApply, ViewsResolveNow
  <2>2. log = [r \in Replicas |-> {}]
    BY DEF Init
  <2>3. \A r \in Replicas : View(r) = Task!Resolve({})
    BY <2>1, <2>2 DEF ViewsResolve
  <2> QED
    BY <2>2, <2>3 DEF Task!Init, View
<1> DEFINE view == [r \in Replicas |->
                      [status |-> row[r].status, closed |-> row[r].closed,
                       title |-> row[r].title, deleted |-> row[r].deleted]]
<1>2. EditInv /\ [Next]_vars => [Task!Next]_<<log, view>>
  <2> SUFFICES ASSUME EditInv, [Next]_vars PROVE [Task!Next]_<<log, view>>
    OBVIOUS
  <2>1. ASSUME NEW r \in Replicas, NEW id \in EventIds, LocalWrite(r, id) PROVE Task!Next
    BY <2>1, LocalWriteMaps DEF Task!Next
  <2>2. ASSUME NEW r \in Replicas, NEW e \in sent, IdempotentApply(r, e) PROVE Task!Next
    BY <2>2, ApplyMaps DEF Task!Next
  <2>3. CASE UNCHANGED vars
    BY <2>3 DEF vars
  <2> QED
    BY <2>1, <2>2, <2>3 DEF Next
<1>3. EditInv /\ [Next]_vars => EditInv'
  BY NextEdit
<1> QED
  BY <1>1, <1>2, <1>3, InitApply, PTL DEF Spec, TaskImplemented, Task!Spec

-----------------------------------------------------------------------------
(* Conflict rows.                                                          *)

\* The three ways in which an edit made here is accounted for.
Accounted(r, e) ==
    \/ \A x \in Priors(r, e) : ~incomingBeats(x, e)
    \/ \E x \in OwnEvents(r) : x.op = e.op /\ x.lamport > e.lamport
    \/ \E w \in EventIds : <<w, e.id>> \in conflicts[r]

LossInv ==
    /\ EditInv
    /\ DOMAIN conflicts = Replicas
    /\ \A r \in Replicas : \A e \in OwnEvents(r) : e.op \in Fields => Accounted(r, e)

LEMMA LocalWriteLoss ==
    ASSUME LossInv, NEW r \in Replicas, NEW id \in EventIds, LocalWrite(r, id)
    PROVE  LossInv'
<1>1. PICK ts, new, op, to, value :
          /\ WriteArgs(r, id, ts, new, op, to, value)
          /\ Emit(r, id, ts, new, op, to, value)
  BY LocalWriteArgs DEF LossInv, EditInv
<1> DEFINE e == Written(r, id, ts, new, op, to, value)
<1>2. EditInv' /\ LogInv /\ LogInv'
  BY LocalWriteShows DEF LossInv, EditInv, ApplyInv
<1>3. /\ WellFormed(e) /\ e \notin sent /\ e.by = r
      /\ \A x \in log[r] : e.lamport > x.lamport
  BY <1>1, <1>2, WrittenFields
<1>4. log' = [log EXCEPT ![r] = log[r] \cup {e}] /\ conflicts' = conflicts
  BY <1>1 DEF Emit, Written, NextLamport
<1> HIDE DEF e
<1>5. /\ log'[r] = log[r] \cup {e} /\ log[r] \subseteq sent
      /\ \A q \in Replicas : q # r => log'[q] = log[q]
  BY <1>2, <1>4 DEF LogInv, ApplyTypeOK
<1>6. ASSUME NEW q \in Replicas, q # r, NEW y \in OwnEvents(q)', y.op \in Fields
      PROVE  Accounted(q, y)'
  <2>1. y \in OwnEvents(q) /\ Accounted(q, y)
    BY <1>5, <1>6 DEF OwnEvents, LossInv
  <2> QED
    BY <1>4, <1>5, <1>6, <2>1 DEF Accounted, OwnEvents, Priors
<1>7. ASSUME NEW y \in OwnEvents(r)', y.op \in Fields
      PROVE  Accounted(r, y)'
  <2>1. CASE y = e
    <3>1. ASSUME NEW x \in Priors(r, y)' PROVE ~incomingBeats(x, y)
      <4>1. x \in log[r] /\ x.op = y.op /\ x \in sent
        BY <1>5, <2>1, <3>1 DEF Priors
      <4>2. x.lamport \in Nat /\ e.lamport \in Nat /\ e.lamport > x.lamport
        BY <1>2, <1>3, <1>7, <4>1, EditKey DEF WellFormed
      <4> QED
        BY <2>1, <4>2 DEF incomingBeats
    <3> QED
      BY <3>1 DEF Accounted
  <2>2. CASE y # e /\ e.op = y.op
    <3>1. y \in log[r] /\ e \in OwnEvents(r)'
      BY <1>3, <1>5, <1>7, <2>2 DEF OwnEvents
    <3>2. e.lamport > y.lamport
      BY <1>3, <3>1
    <3> QED
      BY <2>2, <3>1, <3>2 DEF Accounted
  <2>3. CASE y # e /\ e.op # y.op
    <3>1. y \in OwnEvents(r) /\ Accounted(r, y)
      BY <1>5, <1>7, <2>3 DEF OwnEvents, LossInv
    <3>2. Priors(r, y)' = Priors(r, y) /\ OwnEvents(r) \subseteq OwnEvents(r)'
      BY <1>5, <2>3 DEF Priors, OwnEvents
    <3> QED
      BY <1>4, <3>1, <3>2 DEF Accounted
  <2> QED
    BY <2>1, <2>2, <2>3
<1> QED
  BY <1>2, <1>4, <1>6, <1>7 DEF LossInv

LEMMA ApplyLoss ==
    ASSUME DistinctMachines, LossInv, NEW r \in Replicas, NEW e \in sent,
           IdempotentApply(r, e)
    PROVE  LossInv'
<1>1. EditInv /\ EditInv' /\ LogInv /\ e \in sent \ log[r] /\ Dispatch(r, e) # NULL
  BY ApplyShows DEF LossInv, EditInv, ApplyInv, IdempotentApply
<1>2. /\ log' = [log EXCEPT ![r] = log[r] \cup {e}]
      /\ conflicts' = [conflicts EXCEPT ![r] = conflicts[r] \cup Dispatch(r, e).new]
  BY DEF IdempotentApply
<1>3. /\ log'[r] = log[r] \cup {e} /\ log[r] \subseteq sent
      /\ \A q \in Replicas : q # r => log'[q] = log[q] /\ conflicts'[q] = conflicts[q]
      /\ conflicts'[r] = conflicts[r] \cup Dispatch(r, e).new
      /\ DOMAIN conflicts' = Replicas
  BY <1>1, <1>2 DEF LogInv, ApplyTypeOK, LossInv
<1>4. e.by # r
  BY <1>1 DEF LogInv, EventsOnce
<1>5. OwnEvents(r)' = OwnEvents(r)
  BY <1>3, <1>4 DEF OwnEvents
<1>6. ASSUME NEW q \in Replicas, q # r, NEW y \in OwnEvents(q)', y.op \in Fields
      PROVE  Accounted(q, y)'
  <2>1. y \in OwnEvents(q) /\ Accounted(q, y)
    BY <1>3, <1>6 DEF OwnEvents, LossInv
  <2> QED
    BY <1>3, <1>6, <2>1 DEF Accounted, OwnEvents, Priors
<1>7. ASSUME NEW y \in OwnEvents(r), y.op \in Fields
      PROVE  Accounted(r, y)'
  <2>0. Accounted(r, y) /\ y \in log[r] /\ y \in sent /\ y # e
    BY <1>1, <1>3, <1>7 DEF LossInv, OwnEvents
  <2>1. CASE \E x \in OwnEvents(r) : x.op = y.op /\ x.lamport > y.lamport
    BY <1>5, <2>1 DEF Accounted
  <2>2. CASE \E w \in EventIds : <<w, y.id>> \in conflicts[r]
    BY <1>3, <2>2 DEF Accounted
  <2>3. CASE \A x \in Priors(r, y) : ~incomingBeats(x, y)
    <3>1. CASE e.op # y.op \/ ~incomingBeats(e, y)
      BY <1>3, <2>3, <3>1 DEF Accounted, Priors
    <3>2. CASE e.op = y.op /\ incomingBeats(e, y)
      <4>1. y \in Priors(r, e) /\ Priors(r, e) # {} /\ Priors(r, e) \subseteq EditsIn(log[r], e.op)
        BY <1>7, <2>0, <3>2 DEF Priors, EditsIn
      <4>2. /\ PriorOf(r, e) \in EditsIn(log[r], e.op)
            /\ \A x \in EditsIn(log[r], e.op) : x # PriorOf(r, e) => incomingBeats(PriorOf(r, e), x)
        BY <1>1, <1>7, <3>2, <4>1, PriorIsWinner DEF EditInv, ApplyInv
      <4>3. PriorOf(r, e) = y
        BY <2>3, <3>2, <4>1, <4>2 DEF Priors, EditsIn
      <4>4. <<e.id, y.id>> \in Dispatch(r, e).new
        BY <1>1, <1>7, <3>2, <4>1, <4>3, RowAfterEdit
      <4>5. e.id \in EventIds
        BY <1>1, <1>7, <3>2, EditKey
      <4> QED
        BY <1>3, <4>4, <4>5 DEF Accounted
    <3> QED
      BY <3>1, <3>2
  <2> QED
    BY <2>0, <2>1, <2>2, <2>3 DEF Accounted
<1> QED
  BY <1>1, <1>3, <1>5, <1>6, <1>7 DEF LossInv

\* As long as no two stores share a machine hash, no edit made at a replica
\* stops showing there without a later edit of its own or a row of
\* sync_conflicts that names it as the loser (dispatchWithLWW).
THEOREM NoSilentLossHolds == ASSUME DistinctMachines PROVE Spec => []NoSilentLoss
<1>1. Init => LossInv
  <2>1. Init => EditInv
    BY InitApply
  <2>2. Init => DOMAIN conflicts = Replicas /\ \A r \in Replicas : OwnEvents(r) = {}
    BY DEF Init, OwnEvents
  <2> QED
    BY <2>1, <2>2 DEF LossInv
<1>2. LossInv /\ [Next]_vars => LossInv'
  <2>1. ASSUME LossInv, UNCHANGED vars PROVE LossInv'
    <3>1. EditInv'
      BY <2>1, NextEdit DEF LossInv
    <3> QED
      BY <2>1, <3>1 DEF LossInv, vars, Accounted, Priors, OwnEvents
  <2> QED
    BY <2>1, LocalWriteLoss, ApplyLoss DEF Next
<1>3. LossInv => NoSilentLoss
  BY DEF LossInv, NoSilentLoss, Accounted
<1> QED
  BY <1>1, <1>2, <1>3, PTL DEF Spec
=============================================================================
