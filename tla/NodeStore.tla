------------------------------ MODULE NodeStore ------------------------------
(***************************************************************************)
(* The node table of one mtix store (internal/store/sqlite): the workflow  *)
(* columns of every node, the `blocks` dependencies between nodes, soft    *)
(* deletion with its cascade_deletes provenance rows, and the progress     *)
(* rolled up from children to parents.                                     *)
(*                                                                         *)
(* SQLite serialises writers, and every store operation is one write       *)
(* transaction that re-reads what it decides on, so every operation is one *)
(* action.  What happens BETWEEN transactions (service code that reads,    *)
(* decides and then calls the store) is modelled by the modules that       *)
(* extend this one: AgentClaims and BackgroundScan.                        *)
(*                                                                         *)
(* Of the events that sync applies to these tables, the links, unlinks and *)
(* deletes are here; the workflow columns they write are module            *)
(* EventApply, a renumbered id is module NumberRegistry.                   *)
(*                                                                         *)
(* Left out: the activity stream and task history (append-only logs no     *)
(* operation reads back), updated_at, the sync events the operations emit, *)
(* and import, which replaces the tables by a file's.                      *)
(***************************************************************************)
EXTENDS NodeStatus, Integers, FiniteSets, Functions

CONSTANTS
    Nodes,         \* the node ids that can be allocated
    NULL,          \* SQL NULL
    ParentOf,      \* the parent each id names (dot notation), NULL for a root
    Authors,       \* who deletes nodes
    StatusInputs,  \* the targets callers pass to TransitionStatus
    LinkInputs,    \* the (from, to) pairs callers pass to AddDependency
    SyncedLinks,   \* the (from, to) pairs link and unlink events received name
    RootInputs,    \* the (id, root) pairs callers pass to DeleteNodeWithRoot
    WakeTimes,     \* the wake times callers pass to DeferNode
    MaxTime,       \* the last second of the clock
    Scale          \* progress is counted in units of 1/Scale

ASSUME NodesAssumption ==
    /\ NULL \notin Nodes
    /\ NULL \notin Status
    /\ ParentOf \in [Nodes -> Nodes \cup {NULL}]
    /\ \A n \in Nodes : ParentOf[n] # n
\* Ids are finitely many, and a parent's id is shorter than its child's.
ASSUME TreeAssumption ==
    /\ IsFiniteSet(Nodes)
    /\ \E depth \in [Nodes -> 0..Cardinality(Nodes)] :
          \A n \in Nodes : ParentOf[n] # NULL => depth[ParentOf[n]] < depth[n]
ASSUME InputsAssumption ==
    /\ StatusInputs \subseteq Status
    /\ LinkInputs \subseteq Nodes \X Nodes
    /\ SyncedLinks \subseteq Nodes \X Nodes
    /\ RootInputs \subseteq Nodes \X Nodes
ASSUME ClockAssumption ==
    /\ MaxTime \in Nat
    /\ WakeTimes \subseteq Nat
    /\ NULL \notin Nat
    /\ Scale \in Nat \ {0}
ASSUME StampsAssumption ==
    /\ NULL \notin (0..MaxTime) \X Authors
    /\ NULL \notin [root : Nodes, stamp : (0..MaxTime) \X Authors]

VARIABLES
    life,        \* whether a node's row is unused, present, or purged
    parentId,    \* nodes.parent_id: ParentOf, or NULL once the parent is purged
    status,      \* nodes.status
    prev,        \* nodes.previous_status, or NULL
    closed,      \* whether nodes.closed_at is set
    wake,        \* nodes.defer_until, or NULL
    progress,    \* nodes.progress, in units of 1/Scale
    deletedAt,   \* the (deleted_at, deleted_by) of a soft-deleted row, or NULL
    cascadeRow,  \* the node's cascade_deletes row (root and stamp), or NULL
    deps,        \* the `blocks` rows of the dependencies table, (from, to)
    received,    \* those of them that a received link event inserted
    now          \* the clock, in seconds: the resolution of every timestamp

workflowVars == <<status, prev, closed, wake>>
deleteVars == <<deletedAt, cascadeRow>>
rowVars == <<life, parentId>>
linkVars == <<deps, received>>
vars == <<life, parentId, status, prev, closed, wake, progress, deletedAt,
          cascadeRow, deps, received, now>>

Stamps == (0..MaxTime) \X Authors
CascadeRows == [root : Nodes, stamp : Stamps]

-----------------------------------------------------------------------------
(* Rows and the tree.                                                      *)

Present(n) == life[n] = "present"
Live(n) == Present(n) /\ deletedAt[n] = NULL
LiveNodes == {n \in Nodes : Live(n)}

\* The ids above n in dot notation, whatever became of their rows.
Ancestors[n \in Nodes] ==
    IF ParentOf[n] = NULL THEN {}
    ELSE {ParentOf[n]} \cup Ancestors[ParentOf[n]]

\* What a LIKE '<n>.%' selects.
Descendants(n) == {m \in Nodes : n \in Ancestors[m]}

-----------------------------------------------------------------------------
(* Progress.                                                               *)

\* The children a rollup of p counts: live, neither cancelled nor
\* invalidated.
CountedChildren(p, st, lv) ==
    {c \in lv : parentId[c] = p /\ st[c] \notin UncountedStatus}

\* The average progress of p's counted children, 0 when there are none.
\* Every node has the default weight; Scale is chosen so the division is exact.
AverageOf(pr, p, st, lv) ==
    LET kids == CountedChildren(p, st, lv)
    IN  IF kids = {} THEN 0
        ELSE SumFunction([c \in kids |-> pr[c]]) \div Cardinality(kids)

\* The nodes recalculateProgress visits from each node of starts: the node
\* and every node above it that parent_id still leads to.
RollupTargets(starts) ==
    LET Up[n \in Nodes] ==
            {n} \cup (IF parentId[n] = NULL THEN {} ELSE Up[parentId[n]])
    IN  UNION {Up[n] : n \in starts}

\* The progress column once every node of targets has been recomputed, each
\* after its children.  The rows of soft-deleted nodes are left unchanged.
Recompute(pr, targets, st, lv) ==
    LET New[p \in Nodes] ==
            IF p \in targets \cap lv THEN AverageOf(New, p, st, lv) ELSE pr[p]
    IN  [p \in Nodes |-> New[p]]

\* The parents whose progress a change of the nodes of S can move.
ParentsOf(S) == {parentId[n] : n \in S} \ {NULL}

-----------------------------------------------------------------------------
(* Dependencies.                                                           *)

\* One edge of E on from the nodes of S.
Along(E, S) == {m \in Nodes : \E n \in S : <<n, m>> \in E}

Dependents(S) == Along(deps, S)

\* The BFS of detectCycle: every node reachable from x along the edges of E.
ReachableFrom(E, x) ==
    LET Hop[k \in 0..Cardinality(Nodes)] ==
            IF k = 0 THEN {x}
            ELSE Hop[k-1] \cup Along(E, Hop[k-1])
    IN  Hop[Cardinality(Nodes)]

\* Mutant: only the reverse edge is looked for, not a longer path.
DirectCycleOnly(from, to) == <<to, from>> \in deps

detectCycle(from, to) == from \in ReachableFrom(deps, to)

\* A live blocker that is neither done, cancelled nor invalidated.
HasUnresolvedBlocker(m, st, lv, dp) ==
    \E b \in lv : <<b, m>> \in dp /\ st[b] \notin ResolvingStatus

\* The nodes of S that autoUnblockNode restores.
Unblocked(S, st, lv, dp) ==
    {m \in S \cap lv : st[m] = "blocked" /\ ~HasUnresolvedBlocker(m, st, lv, dp)}

\* restoreUnblockedNode: back to previous_status, or to open without one.
RestoreTo(p) == IF p = NULL THEN "open" ELSE p

\* status and previous_status once the nodes of U are restored.
UnblockedStatus(U, st, pv) == [m \in Nodes |-> IF m \in U THEN RestoreTo(pv[m]) ELSE st[m]]
UnblockedPrev(U, pv) == [m \in Nodes |-> IF m \in U THEN NULL ELSE pv[m]]

\* autoUnblockNode on every node of S, from the intermediate values st and pv.
\* One unblocked node never resolves or re-blocks another, so the order of the
\* walk is immaterial.
AutoUnblock(S, st, pv, lv, dp) ==
    LET U == Unblocked(S, st, lv, dp)
    IN  status' = UnblockedStatus(U, st, pv) /\ prev' = UnblockedPrev(U, pv)

-----------------------------------------------------------------------------
(* Creation.                                                               *)

Init ==
    /\ life = [n \in Nodes |-> "unused"]
    /\ parentId = ParentOf
    /\ status = [n \in Nodes |-> "open"]
    /\ prev = [n \in Nodes |-> NULL]
    /\ closed = [n \in Nodes |-> FALSE]
    /\ wake = [n \in Nodes |-> NULL]
    /\ progress = [n \in Nodes |-> 0]
    /\ deletedAt = [n \in Nodes |-> NULL]
    /\ cascadeRow = [n \in Nodes |-> NULL]
    /\ deps = {}
    /\ received = {}
    /\ now = 0

\* A node can only be created under a live parent that is not terminal.
ParentAcceptsChild(n) ==
    ParentOf[n] # NULL =>
        Live(ParentOf[n]) /\ status[ParentOf[n]] \notin TerminalStatus

\* createNodeTx: insert the row, roll its parent up, and, when the create
\* names an assignee, claim the node in the same transaction.
CreateNode(n, claimed) ==
    /\ life[n] = "unused"
    /\ ParentAcceptsChild(n)
    /\ life' = [life EXCEPT ![n] = "present"]
    /\ status' = [status EXCEPT ![n] = IF claimed THEN "in_progress" ELSE "open"]
    /\ progress' = Recompute(progress, RollupTargets(ParentsOf({n})), status,
                             LiveNodes \cup {n})
    /\ UNCHANGED <<parentId, prev, closed, wake, deleteVars, linkVars, now>>

-----------------------------------------------------------------------------
(* Status transitions.                                                     *)

\* Mutant: only done stamps closed_at.
ClosedByDoneOnly(c, from, to) ==
    IF to = "done" THEN TRUE
    ELSE IF from \in {"done", "cancelled"} THEN FALSE
    ELSE c

\* closed_at after a transition: set by done and cancelled, cleared only by
\* a direct step from done or cancelled to open.
ClosedAfter(c, from, to) ==
    IF to \in {"done", "cancelled"} THEN TRUE
    ELSE IF from \in {"done", "cancelled"} /\ to = "open" THEN FALSE
    ELSE c

\* Mutant: entering blocked keeps an older previous_status.
PrevSavedByInvalidateOnly(p, from, to) == IF to = "invalidated" THEN from ELSE p

\* previous_status after a transition: saved by blocked and invalidated.
PrevAfter(p, from, to) == IF to \in {"blocked", "invalidated"} THEN from ELSE p

\* Mutant: leaving deferred keeps the wake time.
WakeKept(w, from) == w

\* defer_until after a transition: leaving deferred clears it.
WakeAfter(w, from) == IF from = "deferred" THEN NULL ELSE w

\* executeTransitionTx for a live node whose status differs from `to`: write
\* the row, roll the parents up, and unblock the dependents if `to` resolves.
\* The caller says what becomes of defer_until.
ExecuteTransition(n, to) ==
    LET from == status[n]
        st == [status EXCEPT ![n] = to]
        pv == [prev EXCEPT ![n] = PrevAfter(@, from, to)]
        pr == [progress EXCEPT ![n] = IF to = "done" THEN Scale ELSE @]
    IN  /\ closed' = [closed EXCEPT ![n] = ClosedAfter(@, from, to)]
        /\ progress' = Recompute(pr, RollupTargets(ParentsOf({n})), st, LiveNodes)
        /\ AutoUnblock(IF to \in ResolvingStatus THEN Dependents({n}) ELSE {},
                       st, pv, LiveNodes, deps)
        /\ UNCHANGED <<rowVars, deleteVars, linkVars, now>>

\* The guard of every status change that goes through the transition table.
MayTransition(n, to) ==
    /\ Live(n)
    /\ status[n] # to
    /\ ValidateTransition(status[n], to)

TransitionStatus(n, to) ==
    /\ MayTransition(n, to)
    /\ ExecuteTransition(n, to)
    /\ wake' = [wake EXCEPT ![n] = WakeAfter(@, status[n])]

\* The status a restore returns to: previous_status where the table allows
\* it, open otherwise.
RestoreTarget(n) ==
    IF prev[n] # NULL /\ ValidateTransition("invalidated", prev[n])
    THEN prev[n] ELSE "open"

\* Compare and set: the status read in the transaction must be invalidated.
RestoreInvalidated(n) ==
    /\ Live(n)
    /\ status[n] = "invalidated"
    /\ TransitionStatus(n, RestoreTarget(n))

\* DeferNode on a node that is not deferred: the transition, then the wake
\* time of this deferral, or NULL.
DeferNode(n, until) ==
    /\ MayTransition(n, "deferred")
    /\ ExecuteTransition(n, "deferred")
    /\ wake' = [wake EXCEPT ![n] = until]

\* DeferNode on a deferred node only replaces its wake time.
RedeferNode(n, until) ==
    /\ Live(n)
    /\ status[n] = "deferred"
    /\ wake[n] # until
    /\ wake' = [wake EXCEPT ![n] = until]
    /\ UNCHANGED <<rowVars, status, prev, closed, progress, deleteVars, linkVars, now>>

\* Mutant: the waking transaction trusts the pass that found the node due.
WakeUnchecked(n, t) ==
    /\ Live(n)
    /\ status[n] = "deferred"
    /\ TransitionStatus(n, "open")

\* The wake pass reopens a node it found due at time t, if the node is still
\* deferred and due at t inside the waking transaction.
WakeDeferredNode(n, t) ==
    /\ Live(n)
    /\ status[n] = "deferred"
    /\ wake[n] # NULL
    /\ wake[n] <= t
    /\ TransitionStatus(n, "open")

-----------------------------------------------------------------------------
(* Claims (the assignee and agent rows are in module AgentClaims).         *)

\* Open, or deferred with no wake time or one that has passed.
Claimable(n) ==
    \/ status[n] = "open"
    \/ status[n] = "deferred" /\ (wake[n] # NULL => wake[n] <= now)

ClaimNode(n) ==
    /\ Live(n)
    /\ Claimable(n)
    /\ status' = [status EXCEPT ![n] = "in_progress"]
    /\ wake' = [wake EXCEPT ![n] = NULL]
    /\ UNCHANGED <<rowVars, prev, closed, progress, deleteVars, linkVars, now>>

UnclaimNode(n) ==
    /\ Live(n)
    /\ status[n] = "in_progress"
    /\ status' = [status EXCEPT ![n] = "open"]
    /\ UNCHANGED <<rowVars, prev, closed, wake, progress, deleteVars, linkVars, now>>

-----------------------------------------------------------------------------
(* Cancellation.                                                           *)

\* The descendants a cascade cancels: live and not terminal.
CascadeCancelled(n) ==
    {m \in Descendants(n) : Live(m) /\ status[m] \notin TerminalStatus}

\* Mutant: a cascade leaves the progress inside the subtree as it was.
NoCascadeTargets(n, C) == {}

\* The nodes a cascade recomputes inside the subtree of n: every node between
\* a cancelled descendant and n, n included.
CascadeTargets(n, C) ==
    UNION {{m \in {parentId[c]} \cup Ancestors[parentId[c]] :
                m = n \/ m \in Descendants(n)} : c \in {d \in C : parentId[d] # NULL}}

\* The nodes whose dependents a cancel may unblock.
\* Mutant: those of the cancelled node only, not of its cascade.
UnblockRootOnly(n, C) == {n}

UnblockSources(n, C) == C \cup {n}

\* executeCancelTx.  Cancelling a cancelled node is allowed and stamps it
\* again; a cascade from it cancels what has become open below it.
CancelNode(n, cascade) ==
    LET C == IF cascade THEN CascadeCancelled(n) ELSE {}
        S == C \cup {n}
        st == [m \in Nodes |-> IF m \in S THEN "cancelled" ELSE status[m]]
    IN  /\ Live(n)
        /\ ValidateTransition(status[n], "cancelled")
        /\ closed' = [m \in Nodes |-> IF m \in S THEN TRUE ELSE closed[m]]
        /\ wake' = [m \in Nodes |-> IF m \in S THEN NULL ELSE wake[m]]
        /\ progress' = Recompute(progress,
                                 CascadeTargets(n, C) \cup RollupTargets(ParentsOf({n})),
                                 st, LiveNodes)
        /\ AutoUnblock(Dependents(UnblockSources(n, C)), st, prev, LiveNodes, deps)
        /\ UNCHANGED <<rowVars, deleteVars, linkVars, now>>

-----------------------------------------------------------------------------
(* Dependencies.                                                           *)

\* autoBlockNode: only a live open or in_progress node is blocked, whatever
\* the status of the blocker.
Blockable(m) == Live(m) /\ status[m] \in {"open", "in_progress"}

AutoBlock(to) ==
    IF Blockable(to)
    THEN /\ status' = [status EXCEPT ![to] = "blocked"]
         /\ prev' = [prev EXCEPT ![to] = status[to]]
    ELSE UNCHANGED <<status, prev>>

\* AddDependency of type blocks.  Both rows must exist (foreign keys), but
\* either may be soft-deleted.
AddDependency(from, to) ==
    /\ from # to
    /\ Present(from) /\ Present(to)
    /\ ~detectCycle(from, to)
    /\ <<from, to>> \notin deps
    /\ deps' = deps \cup {<<from, to>>}
    /\ AutoBlock(to)
    /\ UNCHANGED <<rowVars, received, closed, wake, progress, deleteVars, now>>

\* applyLinkDep: no search for a cycle, and a row that is there already is
\* kept; the target is blocked either way.
ApplyLinkDep(from, to) ==
    /\ Present(from) /\ Present(to)
    /\ deps' = deps \cup {<<from, to>>}
    /\ received' = received \cup ({<<from, to>>} \ deps)
    /\ AutoBlock(to)
    /\ UNCHANGED <<rowVars, closed, wake, progress, deleteVars, now>>

Unlink(from, to) ==
    /\ deps' = deps \ {<<from, to>>}
    /\ received' = received \ {<<from, to>>}
    /\ AutoUnblock({to}, status, prev, LiveNodes, deps')
    /\ UNCHANGED <<rowVars, closed, wake, progress, deleteVars, now>>

RemoveDependency(from, to) ==
    /\ <<from, to>> \in deps
    /\ Unlink(from, to)

\* applyUnlinkDep: also when there is no such row.
ApplyUnlinkDep(from, to) == Unlink(from, to)

\* mtix unblock: autoUnblockNode on request.
RefreshBlocked(n) ==
    /\ Unblocked({n}, status, LiveNodes, deps) # {}
    /\ AutoUnblock({n}, status, prev, LiveNodes, deps)
    /\ UNCHANGED <<rowVars, closed, wake, progress, deleteVars, linkVars, now>>

-----------------------------------------------------------------------------
(* Soft deletion.                                                          *)

\* Mutant: only the target of the delete gets a provenance row.
DeleteRowsTargetRecorded(n, S, root, by) ==
    LET stamp == <<now, by>>
    IN  /\ deletedAt' = [m \in Nodes |-> IF m \in S THEN stamp ELSE deletedAt[m]]
        /\ cascadeRow' = [cascadeRow EXCEPT ![n] = [root |-> root, stamp |-> stamp]]
        /\ progress' = Recompute(progress, RollupTargets(ParentsOf({n})), status,
                                 LiveNodes \ S)
        /\ UNCHANGED <<rowVars, workflowVars, linkVars, now>>

\* deleteNode: stamp the rows of S, give each a provenance row naming root,
\* and roll the parents of n up without them.  Dependents are not unblocked.
DeleteRows(n, S, root, by) ==
    LET stamp == <<now, by>>
    IN  /\ deletedAt' = [m \in Nodes |-> IF m \in S THEN stamp ELSE deletedAt[m]]
        /\ cascadeRow' = [m \in Nodes |-> IF m \in S THEN [root |-> root, stamp |-> stamp]
                                          ELSE cascadeRow[m]]
        /\ progress' = Recompute(progress, RollupTargets(ParentsOf({n})), status,
                                 LiveNodes \ S)
        /\ UNCHANGED <<rowVars, workflowVars, linkVars, now>>

DeleteNode(n, cascade, by) ==
    /\ Live(n)
    /\ DeleteRows(n, {n} \cup (IF cascade THEN {m \in Descendants(n) : Live(m)} ELSE {}),
                  n, by)

\* A single-node delete recorded in the recovery group of root, the node or
\* one of its ancestors (the rerun service deletes subtrees this way).
DeleteNodeWithRoot(n, root, by) ==
    /\ root = n \/ root \in Ancestors[n]
    /\ Present(root)
    /\ Live(n)
    /\ DeleteRows(n, {n}, root, by)

\* applyDelete: a delete received through sync stamps the row but records no
\* provenance and does not cascade.
ApplyDelete(n, by) ==
    /\ Live(n)
    /\ deletedAt' = [deletedAt EXCEPT ![n] = <<now, by>>]
    /\ progress' = Recompute(progress,
                             IF ParentOf[n] = NULL THEN {} ELSE RollupTargets({ParentOf[n]}),
                             status, LiveNodes \ {n})
    /\ UNCHANGED <<rowVars, workflowVars, cascadeRow, linkVars, now>>

\* A provenance row is trusted while its stamp is that of the current delete.
Trusted(m) == cascadeRow[m] # NULL /\ cascadeRow[m].stamp = deletedAt[m]

\* Mutant: the descendants deleted in the same second by the same author.
SameStampSet(n) ==
    {n} \cup {m \in Descendants(n) : Present(m) /\ deletedAt[m] = deletedAt[n]}

\* The nodes an undelete of n restores: n and the deleted descendants whose
\* trusted row names the same root; without a trusted row of n, those without
\* one that carry n's own stamp.
RestoreSet(n) ==
    {n} \cup {m \in Descendants(n) :
                /\ Present(m)
                /\ deletedAt[m] # NULL
                /\ IF Trusted(n)
                   THEN Trusted(m) /\ cascadeRow[m].root = cascadeRow[n].root
                   ELSE ~Trusted(m) /\ deletedAt[m] = deletedAt[n]}

\* recalculateRestoredParents: the parents an undelete rolls up.
RestoredParents(R) == ParentsOf(R)

UndeleteNode(n) ==
    LET R == RestoreSet(n)
    IN  /\ Present(n)
        /\ deletedAt[n] # NULL
        /\ deletedAt' = [m \in Nodes |-> IF m \in R THEN NULL ELSE deletedAt[m]]
        /\ cascadeRow' = [m \in Nodes |-> IF m \in R THEN NULL ELSE cascadeRow[m]]
        /\ progress' = Recompute(progress, RollupTargets(RestoredParents(R)), status,
                                 LiveNodes \cup R)
        /\ UNCHANGED <<rowVars, workflowVars, linkVars, now>>

\* The dependencies left when the row of n goes (ON DELETE CASCADE both ways).
\* Mutant: only the rows that start at n go.
DepsFromOnly(n) == {d \in deps : d[1] # n}

DepsWithout(n) == {d \in deps : d[1] # n /\ d[2] # n}

\* Mutant: the delete does not ask again whether the row is still deleted.
PurgeAnyRow(n) == Present(n)

\* The WHERE clause of the delete: deleted, at any time.
Purgeable(n) == Present(n) /\ deletedAt[n] # NULL

\* permanentlyDelete: the row goes, and with it (foreign keys) its
\* dependencies, its provenance row, the provenance rows that name it as
\* root, and its children's parent_id.  Its columns return to their defaults.
PermanentlyDelete(n) ==
    /\ Purgeable(n)
    /\ life' = [life EXCEPT ![n] = "purged"]
    /\ parentId' = [m \in Nodes |-> IF parentId[m] = n THEN NULL ELSE parentId[m]]
    /\ status' = [status EXCEPT ![n] = "open"]
    /\ prev' = [prev EXCEPT ![n] = NULL]
    /\ closed' = [closed EXCEPT ![n] = FALSE]
    /\ wake' = [wake EXCEPT ![n] = NULL]
    /\ progress' = [progress EXCEPT ![n] = 0]
    /\ deletedAt' = [deletedAt EXCEPT ![n] = NULL]
    /\ cascadeRow' = [m \in Nodes |->
                        IF m = n \/ (cascadeRow[m] # NULL /\ cascadeRow[m].root = n)
                        THEN NULL ELSE cascadeRow[m]]
    /\ deps' = DepsWithout(n)
    /\ received' = received \cap deps'
    /\ UNCHANGED now

-----------------------------------------------------------------------------
Tick ==
    /\ now < MaxTime
    /\ now' = now + 1
    /\ UNCHANGED <<rowVars, workflowVars, progress, deleteVars, linkVars>>

\* The operations that touch status columns only.
WorkflowStep(n) ==
    \/ \E to \in StatusInputs : TransitionStatus(n, to)
    \/ RestoreInvalidated(n)
    \/ \E until \in WakeTimes \cup {NULL} : DeferNode(n, until) \/ RedeferNode(n, until)
    \/ \E cascade \in BOOLEAN : CancelNode(n, cascade)
    \/ RefreshBlocked(n)

DeleteStep(n) ==
    \/ \E by \in Authors, cascade \in BOOLEAN : DeleteNode(n, cascade, by)
    \/ \E by \in Authors, pair \in RootInputs :
           pair[1] = n /\ DeleteNodeWithRoot(n, pair[2], by)
    \/ \E by \in Authors : ApplyDelete(n, by)
    \/ UndeleteNode(n)

LinkStep ==
    \/ \E d \in LinkInputs : AddDependency(d[1], d[2]) \/ RemoveDependency(d[1], d[2])
    \/ \E d \in SyncedLinks : ApplyLinkDep(d[1], d[2]) \/ ApplyUnlinkDep(d[1], d[2])

\* Everything but claims: the steps the extending modules share.
StoreStep == (\E n \in Nodes : WorkflowStep(n) \/ DeleteStep(n)) \/ LinkStep \/ Tick

Next ==
    \/ \E n \in Nodes, claimed \in BOOLEAN : CreateNode(n, claimed)
    \/ \E n \in Nodes : ClaimNode(n) \/ UnclaimNode(n)
    \/ StoreStep

Spec == Init /\ [][Next]_vars

-----------------------------------------------------------------------------
(* Properties.                                                             *)

\* The type of every column but progress.
ColumnsOK ==
    /\ life \in [Nodes -> {"unused", "present", "purged"}]
    /\ parentId \in [Nodes -> Nodes \cup {NULL}]
    /\ status \in [Nodes -> Status]
    /\ prev \in [Nodes -> Status \cup {NULL}]
    /\ closed \in [Nodes -> BOOLEAN]
    /\ wake \in [Nodes -> WakeTimes \cup {NULL}]
    /\ deletedAt \in [Nodes -> Stamps \cup {NULL}]
    /\ cascadeRow \in [Nodes -> CascadeRows \cup {NULL}]
    /\ deps \subseteq Nodes \X Nodes
    /\ received \subseteq deps
    /\ now \in 0..MaxTime

\* A wake time belongs to a deferral in force: every way out of deferred
\* (transition, claim, wake, cancel, cascade) clears defer_until, so no node is
\* later woken, or held back from a claim, by a deferral that is over.
WakeOnlyWhileDeferred == \A n \in Nodes : wake[n] # NULL => status[n] = "deferred"

\* A done or cancelled node carries a closing time, whichever operation put it
\* there: a transition, a cancel, a cascade from above, or a restore to
\* cancelled.
ClosedWhenResolved ==
    \A n \in Nodes : status[n] \in {"done", "cancelled"} => closed[n]

\* A blocked node remembers the status to return to, and it is one of the two
\* that autoBlockNode and the table let it come from.
BlockedRemembers ==
    \A n \in Nodes : status[n] = "blocked" => prev[n] \in {"open", "in_progress"}

\* Every cycle of the blocks relation goes through a link received through
\* sync: the links made here never close one (FR-4.3), whatever the order in
\* which links are added, removed and received and nodes deleted and restored
\* between.  A received link is not checked, so cycles do exist.
CyclesComeFromSync ==
    \A d \in deps \ received : d[1] \notin ReachableFrom(deps \ received, d[2])

\* Every status change of an existing node is an edge of the transition table,
\* also where the store writes the column without asking ValidateTransition:
\* claim, unclaim, auto-block, auto-unblock, and the cascade of a cancel.
StatusStepsFollowTheMachine ==
    [][\A n \in Nodes :
           (Present(n) /\ life'[n] = "present" /\ status'[n] # status[n])
               => status'[n] \in validTransitions[status[n]]]_vars

\* The step that resolves a blocker, alone or in a cascade, leaves none of its
\* live dependents blocked with every blocker resolved (FR-3.8).
ResolvingUnblocks ==
    [][\A b, m \in Nodes :
           (/\ <<b, m>> \in deps
            /\ Live(b) /\ status[b] \notin ResolvingStatus
            /\ status'[b] \in ResolvingStatus
            /\ life'[m] = "present" /\ deletedAt'[m] = NULL
            /\ status'[m] = "blocked")
               => \E c \in Nodes : /\ <<c, m>> \in deps'
                                   /\ life'[c] = "present" /\ deletedAt'[c] = NULL
                                   /\ status'[c] \notin ResolvingStatus]_vars

\* What a live parent's progress is computed from.
CountedProgress(p, st, lv, pr) ==
    {<<c, pr[c]>> : c \in CountedChildren(p, st, lv)}

\* A step that changes what a parent's progress is computed from (a counted
\* child comes, goes or moves) leaves the parent, at every level above the
\* change, with the average of its counted children (FR-5.1 to FR-5.6), in
\* whole units of 1/Scale.
ProgressFollowsChildren ==
    [][\A p \in Nodes :
           LET Lv == {n \in Nodes : life'[n] = "present" /\ deletedAt'[n] = NULL}
               Kids == {c \in Lv : parentId'[c] = p /\ status'[c] \notin UncountedStatus}
           IN  (/\ Live(p) /\ p \in Lv
                /\ CountedProgress(p, status, LiveNodes, progress)
                       # {<<c, progress'[c]>> : c \in Kids})
                   => progress'[p] = IF Kids = {} THEN 0
                                     ELSE SumFunction([c \in Kids |-> progress'[c]])
                                              \div Cardinality(Kids)]_vars
=============================================================================
