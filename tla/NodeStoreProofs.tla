--------------------------- MODULE NodeStoreProofs ---------------------------
(***************************************************************************)
(* Proofs about module NodeStore, for every set of nodes, every tree,      *)
(* every input and every bound, and about the modules that run other code  *)
(* against the node store: AgentClaims, BackgroundScan and DeleteHistory.  *)
(* Those rest on the inductive invariant of the node store, which their    *)
(* steps preserve too.                                                     *)
(***************************************************************************)
EXTENDS NodeStore, AgentClaims, BackgroundScan, DeleteHistory,
        FiniteSetTheorems, TLAPS

\* An id that was never allocated has the default status of a new row.
UnusedIsOpen == \A n \in Nodes : life[n] = "unused" => status[n] = "open"

\* The inductive invariant.  ClosedWhenResolved needs BlockedRemembers (an
\* unblock must not restore a node to done or cancelled behind closed_at's
\* back), and WakeOnlyWhileDeferred needs UnusedIsOpen (a create must not
\* inherit a wake time).
IndInv ==
    /\ ColumnsOK
    /\ UnusedIsOpen
    /\ WakeOnlyWhileDeferred
    /\ ClosedWhenResolved
    /\ BlockedRemembers

-----------------------------------------------------------------------------
(* The helpers the actions share.                                          *)

\* autoUnblockNode restores live blocked nodes only.
LEMMA UnblockedAreBlocked ==
    ASSUME NEW S, NEW st, NEW lv, NEW dp
    PROVE  \A m \in Unblocked(S, st, lv, dp) : st[m] = "blocked" /\ m \in lv
  BY DEF Unblocked

\* Every target the table allows is a status.
LEMMA TableTargets ==
    ASSUME NEW s \in Status, NEW to, ValidateTransition(s, to)
    PROVE  to \in Status
  BY DEF ValidateTransition, validTransitions, Status

-----------------------------------------------------------------------------
\* An empty store satisfies the inductive invariant.
LEMMA InitInd == Init => IndInv
  BY NodesAssumption, ClockAssumption
  DEF Init, IndInv, ColumnsOK, UnusedIsOpen, WakeOnlyWhileDeferred, ClosedWhenResolved,
      BlockedRemembers, Status

\* executeTransitionTx, whatever the caller then does with defer_until, keeps
\* every part of the invariant but the one about wake times.
LEMMA ExecuteTransitionRows ==
    ASSUME IndInv, NEW n \in Nodes, NEW to \in Status,
           Live(n), status[n] # to, ExecuteTransition(n, to),
           to = "blocked" => status[n] \in {"open", "in_progress"}
    PROVE  /\ status' \in [Nodes -> Status]
           /\ prev' \in [Nodes -> Status \cup {NULL}]
           /\ closed' \in [Nodes -> BOOLEAN]
           /\ UNCHANGED <<rowVars, deleteVars, linkVars, now>>
           /\ status'[n] = to
           /\ \A m \in Nodes \ {n} :
                 \/ status'[m] = status[m]
                 \/ status[m] = "blocked" /\ Live(m) /\ status'[m] \in {"open", "in_progress"}
           /\ UnusedIsOpen'
           /\ ClosedWhenResolved'
           /\ BlockedRemembers'
<1> DEFINE st == [status EXCEPT ![n] = to]
           pv == [prev EXCEPT ![n] = PrevAfter(@, status[n], to)]
           T == IF to \in ResolvingStatus THEN Dependents({n}) ELSE {}
           U == Unblocked(T, st, LiveNodes, deps)
<1>1. status' = UnblockedStatus(U, st, pv) /\ prev' = UnblockedPrev(U, pv)
  BY DEF ExecuteTransition, AutoUnblock
<1>a. /\ \A m \in U : st[m] = "blocked" /\ m \in LiveNodes
      /\ n \in U => to \in ResolvingStatus
  BY UnblockedAreBlocked DEF Unblocked
<1>2. st \in [Nodes -> Status] /\ pv \in [Nodes -> Status \cup {NULL}]
  BY DEF IndInv, ColumnsOK, PrevAfter
<1>3. \A m \in Nodes : st[m] = "blocked" => pv[m] \in {"open", "in_progress"}
  BY DEF IndInv, ColumnsOK, BlockedRemembers, PrevAfter
<1>4. closed' = [closed EXCEPT ![n] = ClosedAfter(@, status[n], to)]
  BY DEF ExecuteTransition
<1>5. UNCHANGED <<rowVars, deleteVars, linkVars, now>>
  BY DEF ExecuteTransition
<1> HIDE DEF T, U, st, pv
<1>6. /\ status' \in [Nodes -> Status]
      /\ prev' \in [Nodes -> Status \cup {NULL}]
      /\ \A m \in Nodes :
            \/ status'[m] = st[m] /\ prev'[m] = pv[m]
            \/ /\ st[m] = "blocked" /\ m \in LiveNodes
               /\ status'[m] \in {"open", "in_progress"} /\ prev'[m] = NULL
  BY <1>1, <1>a, <1>2, <1>3 DEF UnblockedStatus, UnblockedPrev, RestoreTo, Status
<1> USE DEF st, pv
<1>7. n \notin U
  BY <1>a DEF ResolvingStatus, IndInv, ColumnsOK
<1>8. status'[n] = to /\ prev'[n] = pv[n]
  BY <1>1, <1>7 DEF UnblockedStatus, UnblockedPrev, IndInv, ColumnsOK
<1>9. \A m \in Nodes \ {n} : st[m] = status[m] /\ pv[m] = prev[m] /\ closed'[m] = closed[m]
  BY <1>4 DEF IndInv, ColumnsOK
<1>10. closed' \in [Nodes -> BOOLEAN]
  BY <1>4 DEF IndInv, ColumnsOK, ClosedAfter
<1>11. \A m \in Nodes \ {n} :
         \/ status'[m] = status[m] /\ prev'[m] = prev[m]
         \/ /\ status[m] = "blocked" /\ Live(m)
            /\ status'[m] \in {"open", "in_progress"} /\ prev'[m] = NULL
  BY <1>6, <1>9 DEF LiveNodes
<1> HIDE DEF st, pv
<1>12. UnusedIsOpen'
  <2> SUFFICES ASSUME NEW m \in Nodes, life'[m] = "unused" PROVE status'[m] = "open"
    BY DEF UnusedIsOpen
  <2>1. life[m] = "unused" /\ m # n
    BY <1>5 DEF rowVars, linkVars, Live, Present
  <2> QED
    BY <1>11, <2>1 DEF IndInv, UnusedIsOpen
<1>13. ClosedWhenResolved'
  <2> SUFFICES ASSUME NEW m \in Nodes, status'[m] \in {"done", "cancelled"} PROVE closed'[m]
    BY DEF ClosedWhenResolved
  <2>1. CASE m = n
    BY <2>1, <1>4, <1>8 DEF ClosedAfter, IndInv, ColumnsOK
  <2>2. CASE m # n
    BY <2>2, <1>9, <1>11 DEF IndInv, ClosedWhenResolved
  <2> QED
    BY <2>1, <2>2
<1>14. BlockedRemembers'
  <2> SUFFICES ASSUME NEW m \in Nodes, status'[m] = "blocked"
               PROVE  prev'[m] \in {"open", "in_progress"}
    BY DEF BlockedRemembers
  <2>1. CASE m = n
    BY <2>1, <1>3, <1>8, <1>2 DEF st, IndInv, ColumnsOK
  <2>2. CASE m # n
    BY <2>2, <1>11 DEF IndInv, BlockedRemembers
  <2> QED
    BY <2>1, <2>2
<1> QED
  BY <1>5, <1>6, <1>8, <1>10, <1>11, <1>12, <1>13, <1>14

-----------------------------------------------------------------------------
(* One lemma per action.                                                   *)

\* A created row starts with the defaults, also when it is claimed at once.
LEMMA CreateNodeInd ==
    ASSUME IndInv, NEW n \in Nodes, NEW claimed \in BOOLEAN, CreateNode(n, claimed)
    PROVE  IndInv'
<1>1. /\ life[n] = "unused"
      /\ life' = [life EXCEPT ![n] = "present"]
      /\ status' = [status EXCEPT ![n] = IF claimed THEN "in_progress" ELSE "open"]
      /\ UNCHANGED <<parentId, prev, closed, wake, deletedAt, cascadeRow, linkVars, now>>
  BY DEF CreateNode, deleteVars
<1>2. status[n] = "open" /\ wake[n] = NULL
  BY <1>1 DEF IndInv, UnusedIsOpen, WakeOnlyWhileDeferred
<1>3. ColumnsOK'
  BY <1>1 DEF linkVars, IndInv, ColumnsOK, Status, Stamps, CascadeRows
<1>4. UnusedIsOpen' /\ WakeOnlyWhileDeferred' /\ ClosedWhenResolved' /\ BlockedRemembers'
  BY <1>1, <1>2 DEF IndInv, ColumnsOK, UnusedIsOpen, WakeOnlyWhileDeferred,
                    ClosedWhenResolved, BlockedRemembers
<1> QED
  BY <1>3, <1>4 DEF IndInv

\* executeTransition clears the wake time, sets or clears closed_at and saves
\* previous_status together with the status.
LEMMA TransitionStatusInd ==
    ASSUME IndInv, NEW n \in Nodes, NEW to \in Status, TransitionStatus(n, to)
    PROVE  IndInv'
<1>1. /\ Live(n) /\ status[n] # to /\ ExecuteTransition(n, to)
      /\ wake' = [wake EXCEPT ![n] = WakeAfter(@, status[n])]
  BY DEF TransitionStatus, MayTransition
<1>2. to = "blocked" => status[n] \in {"open", "in_progress"}
  BY DEF TransitionStatus, MayTransition, ValidateTransition, validTransitions, Status,
         IndInv, ColumnsOK
<1>3. /\ status' \in [Nodes -> Status]
      /\ prev' \in [Nodes -> Status \cup {NULL}]
      /\ closed' \in [Nodes -> BOOLEAN]
      /\ UNCHANGED <<rowVars, deleteVars, linkVars, now>>
      /\ status'[n] = to
      /\ \A m \in Nodes \ {n} :
            \/ status'[m] = status[m]
            \/ status[m] = "blocked" /\ Live(m) /\ status'[m] \in {"open", "in_progress"}
      /\ UnusedIsOpen' /\ ClosedWhenResolved' /\ BlockedRemembers'
  BY <1>1, <1>2, ExecuteTransitionRows
<1>4. ColumnsOK'
  BY <1>1, <1>3 DEF IndInv, ColumnsOK, rowVars, linkVars, deleteVars, WakeAfter
<1>5. WakeOnlyWhileDeferred'
  <2> SUFFICES ASSUME NEW m \in Nodes, wake'[m] # NULL PROVE status'[m] = "deferred"
    BY DEF WakeOnlyWhileDeferred
  <2>1. m # n
    BY <1>1 DEF WakeAfter, IndInv, WakeOnlyWhileDeferred, ColumnsOK
  <2>2. wake[m] # NULL
    BY <1>1, <2>1 DEF IndInv, ColumnsOK
  <2> QED
    BY <1>3, <2>1, <2>2 DEF IndInv, WakeOnlyWhileDeferred
<1> QED
  BY <1>3, <1>4, <1>5 DEF IndInv

\* A restore is such a transition, to the saved status or to open.
LEMMA RestoreInvalidatedInd ==
    ASSUME IndInv, NEW n \in Nodes, RestoreInvalidated(n)
    PROVE  IndInv'
<1>1. RestoreTarget(n) \in Status
  BY DEF RestoreTarget, IndInv, ColumnsOK, Status
<1>2. TransitionStatus(n, RestoreTarget(n))
  BY DEF RestoreInvalidated
<1> QED
  BY <1>1, <1>2, TransitionStatusInd

\* A deferral sets the wake time of a node that becomes deferred.
LEMMA DeferNodeInd ==
    ASSUME IndInv, NEW n \in Nodes, NEW until \in WakeTimes \cup {NULL}, DeferNode(n, until)
    PROVE  IndInv'
<1>1. /\ Live(n) /\ status[n] # "deferred" /\ ExecuteTransition(n, "deferred")
      /\ wake' = [wake EXCEPT ![n] = until]
  BY DEF DeferNode, MayTransition
<1>2. "deferred" \in Status
  BY DEF Status
<1>3. /\ status' \in [Nodes -> Status]
      /\ prev' \in [Nodes -> Status \cup {NULL}]
      /\ closed' \in [Nodes -> BOOLEAN]
      /\ UNCHANGED <<rowVars, deleteVars, linkVars, now>>
      /\ status'[n] = "deferred"
      /\ \A m \in Nodes \ {n} :
            \/ status'[m] = status[m]
            \/ status[m] = "blocked" /\ Live(m) /\ status'[m] \in {"open", "in_progress"}
      /\ UnusedIsOpen' /\ ClosedWhenResolved' /\ BlockedRemembers'
  BY <1>1, <1>2, ExecuteTransitionRows
<1>4. ColumnsOK'
  BY <1>1, <1>3 DEF IndInv, ColumnsOK, rowVars, linkVars, deleteVars
<1>5. WakeOnlyWhileDeferred'
  BY <1>1, <1>3 DEF IndInv, ColumnsOK, WakeOnlyWhileDeferred
<1> QED
  BY <1>3, <1>4, <1>5 DEF IndInv

\* Deferring again moves the wake time of a node that is deferred already.
LEMMA RedeferNodeInd ==
    ASSUME IndInv, NEW n \in Nodes, NEW until \in WakeTimes \cup {NULL}, RedeferNode(n, until)
    PROVE  IndInv'
  BY DEF RedeferNode, rowVars, linkVars, deleteVars, IndInv, ColumnsOK, UnusedIsOpen,
         WakeOnlyWhileDeferred, ClosedWhenResolved, BlockedRemembers

\* A claim leaves deferred, and so clears the wake time.
LEMMA ClaimNodeInd ==
    ASSUME IndInv, NEW n \in Nodes, ClaimNode(n)
    PROVE  IndInv'
  BY DEF ClaimNode, Live, Present, rowVars, linkVars, deleteVars, IndInv, ColumnsOK, Status,
         UnusedIsOpen, WakeOnlyWhileDeferred, ClosedWhenResolved, BlockedRemembers

\* An unclaim goes back from in_progress to open.
LEMMA UnclaimNodeInd ==
    ASSUME IndInv, NEW n \in Nodes, UnclaimNode(n)
    PROVE  IndInv'
  BY DEF UnclaimNode, Live, Present, rowVars, linkVars, deleteVars, IndInv, ColumnsOK, Status,
         UnusedIsOpen, WakeOnlyWhileDeferred, ClosedWhenResolved, BlockedRemembers

\* A cancel closes its node and every descendant it cascades to, and the nodes
\* it unblocks return to the status they remember.
LEMMA CancelNodeInd ==
    ASSUME IndInv, NEW n \in Nodes, NEW cascade \in BOOLEAN, CancelNode(n, cascade)
    PROVE  IndInv'
<1> DEFINE C == IF cascade THEN CascadeCancelled(n) ELSE {}
           S == C \cup {n}
           st == [m \in Nodes |-> IF m \in S THEN "cancelled" ELSE status[m]]
           U == Unblocked(Dependents(UnblockSources(n, C)), st, LiveNodes, deps)
<1>1. /\ Live(n)
      /\ closed' = [m \in Nodes |-> IF m \in S THEN TRUE ELSE closed[m]]
      /\ wake' = [m \in Nodes |-> IF m \in S THEN NULL ELSE wake[m]]
      /\ status' = UnblockedStatus(U, st, prev) /\ prev' = UnblockedPrev(U, prev)
      /\ UNCHANGED <<rowVars, deleteVars, linkVars, now>>
  BY DEF CancelNode, AutoUnblock
<1>a. \A m \in U : st[m] = "blocked" /\ m \in LiveNodes
  BY UnblockedAreBlocked
<1>2. \A m \in S : life[m] = "present"
  BY <1>1 DEF CascadeCancelled, Live, Present
<1> HIDE DEF C, S, U
<1>3. /\ st \in [Nodes -> Status]
      /\ prev \in [Nodes -> Status \cup {NULL}]
      /\ \A m \in Nodes : st[m] = "blocked" => prev[m] \in {"open", "in_progress"}
  BY DEF IndInv, ColumnsOK, BlockedRemembers, Status
<1>4. \A m \in Nodes : st[m] = IF m \in S THEN "cancelled" ELSE status[m]
  OBVIOUS
<1> HIDE DEF st
<1>5. /\ status' \in [Nodes -> Status]
      /\ prev' \in [Nodes -> Status \cup {NULL}]
      /\ \A m \in Nodes :
            \/ status'[m] = st[m] /\ prev'[m] = prev[m]
            \/ /\ st[m] = "blocked" /\ m \in LiveNodes
               /\ status'[m] \in {"open", "in_progress"} /\ prev'[m] = NULL
  BY <1>1, <1>a, <1>3 DEF UnblockedStatus, UnblockedPrev, RestoreTo, Status
<1>6. ColumnsOK'
  BY <1>1, <1>5 DEF IndInv, ColumnsOK, rowVars, linkVars, deleteVars
<1>7. UnusedIsOpen'
  BY <1>1, <1>2, <1>4, <1>5 DEF IndInv, UnusedIsOpen, rowVars, linkVars
<1>8. WakeOnlyWhileDeferred'
  BY <1>1, <1>4, <1>5 DEF IndInv, WakeOnlyWhileDeferred
<1>9. ClosedWhenResolved' /\ BlockedRemembers'
  BY <1>1, <1>3, <1>4, <1>5 DEF IndInv, ClosedWhenResolved, BlockedRemembers
<1> QED
  BY <1>6, <1>7, <1>8, <1>9 DEF IndInv

\* What the two ways of linking do, made here (AddDependency) or received
\* (applyLinkDep).
Linked(from, to) ==
    /\ Present(from) /\ Present(to)
    /\ deps' = deps \cup {<<from, to>>}
    /\ received \subseteq received' /\ received' \subseteq deps'
    /\ AutoBlock(to)
    /\ UNCHANGED <<rowVars, closed, wake, progress, deleteVars, now>>

\* A step on a link makes it or takes it away.
LEMMA LinkKinds ==
    ASSUME ColumnsOK, LinkStep
    PROVE  \E from, to \in Nodes : Linked(from, to) \/ Unlink(from, to)
<1>1. ASSUME NEW d \in LinkInputs \cup SyncedLinks,
             \/ AddDependency(d[1], d[2]) \/ RemoveDependency(d[1], d[2])
             \/ ApplyLinkDep(d[1], d[2]) \/ ApplyUnlinkDep(d[1], d[2])
      PROVE  Linked(d[1], d[2]) \/ Unlink(d[1], d[2])
  BY <1>1 DEF AddDependency, RemoveDependency, ApplyLinkDep, ApplyUnlinkDep, Linked, ColumnsOK
<1>2. \A d \in LinkInputs \cup SyncedLinks : d[1] \in Nodes /\ d[2] \in Nodes
  BY InputsAssumption
<1> QED
  BY <1>1, <1>2 DEF LinkStep

\* A node blocked by a new dependency remembers its status.
LEMMA LinkedInd ==
    ASSUME IndInv, NEW from \in Nodes, NEW to \in Nodes, Linked(from, to)
    PROVE  IndInv'
<1>1. /\ deps' = deps \cup {<<from, to>>} /\ received' \subseteq deps'
      /\ UNCHANGED <<life, parentId, closed, wake, deletedAt, cascadeRow, now>>
  BY DEF Linked, rowVars, linkVars, deleteVars
<1>2. CASE Blockable(to)
  <2>1. /\ status' = [status EXCEPT ![to] = "blocked"]
        /\ prev' = [prev EXCEPT ![to] = status[to]]
        /\ status[to] \in {"open", "in_progress"}
        /\ life[to] = "present"
    BY <1>2 DEF Linked, AutoBlock, Blockable, Live, Present
  <2>2. ColumnsOK'
    BY <1>1, <2>1 DEF IndInv, ColumnsOK, Status
  <2>3. UnusedIsOpen' /\ WakeOnlyWhileDeferred' /\ ClosedWhenResolved' /\ BlockedRemembers'
    BY <1>1, <2>1 DEF IndInv, ColumnsOK, UnusedIsOpen, WakeOnlyWhileDeferred,
                      ClosedWhenResolved, BlockedRemembers
  <2> QED
    BY <2>2, <2>3 DEF IndInv
<1>3. CASE ~Blockable(to)
  <2>1. UNCHANGED <<status, prev>>
    BY <1>3 DEF Linked, AutoBlock
  <2> QED
    BY <1>1, <2>1 DEF IndInv, ColumnsOK, UnusedIsOpen, WakeOnlyWhileDeferred,
                      ClosedWhenResolved, BlockedRemembers
<1> QED
  BY <1>2, <1>3

\* Removing a dependency and refreshing a node only run autoUnblockNode.
LEMMA UnblockOnlyInd ==
    ASSUME IndInv, NEW S, NEW dp, AutoUnblock(S, status, prev, LiveNodes, dp),
           deps' \subseteq Nodes \X Nodes, received' \subseteq deps',
           UNCHANGED <<rowVars, closed, wake, deleteVars, now>>
    PROVE  IndInv'
<1>1. /\ status \in [Nodes -> Status]
      /\ prev \in [Nodes -> Status \cup {NULL}]
      /\ \A m \in Nodes : status[m] = "blocked" => prev[m] \in {"open", "in_progress"}
  BY DEF IndInv, ColumnsOK, BlockedRemembers
<1>2. /\ status' \in [Nodes -> Status]
      /\ prev' \in [Nodes -> Status \cup {NULL}]
      /\ \A m \in Nodes :
            \/ status'[m] = status[m] /\ prev'[m] = prev[m]
            \/ /\ status[m] = "blocked" /\ m \in LiveNodes
               /\ status'[m] \in {"open", "in_progress"} /\ prev'[m] = NULL
  <2> DEFINE U == Unblocked(S, status, LiveNodes, dp)
  <2>1. status' = UnblockedStatus(U, status, prev) /\ prev' = UnblockedPrev(U, prev)
    BY DEF AutoUnblock
  <2>2. \A m \in U : status[m] = "blocked" /\ m \in LiveNodes
    BY UnblockedAreBlocked
  <2> HIDE DEF U
  <2> QED
    BY <1>1, <2>1, <2>2 DEF UnblockedStatus, UnblockedPrev, RestoreTo, Status
<1>3. ColumnsOK'
  BY <1>2 DEF IndInv, ColumnsOK, rowVars, linkVars, deleteVars
<1>4. UnusedIsOpen' /\ WakeOnlyWhileDeferred' /\ ClosedWhenResolved' /\ BlockedRemembers'
  BY <1>2 DEF IndInv, UnusedIsOpen, WakeOnlyWhileDeferred, ClosedWhenResolved,
              BlockedRemembers, rowVars, linkVars
<1> QED
  BY <1>3, <1>4 DEF IndInv

\* Removing a dependency unblocks at most.
LEMMA UnlinkInd ==
    ASSUME IndInv, NEW from \in Nodes, NEW to \in Nodes, Unlink(from, to)
    PROVE  IndInv'
<1>1. /\ AutoUnblock({to}, status, prev, LiveNodes, deps')
      /\ UNCHANGED <<rowVars, closed, wake, deleteVars, now>>
      /\ deps' \subseteq Nodes \X Nodes /\ received' \subseteq deps'
  BY DEF Unlink, IndInv, ColumnsOK
<1> QED
  BY <1>1, UnblockOnlyInd

\* A refresh unblocks at most.
LEMMA RefreshBlockedInd ==
    ASSUME IndInv, NEW n \in Nodes, RefreshBlocked(n)
    PROVE  IndInv'
<1>1. /\ AutoUnblock({n}, status, prev, LiveNodes, deps)
      /\ UNCHANGED <<rowVars, closed, wake, deleteVars, now>>
      /\ deps' \subseteq Nodes \X Nodes /\ received' \subseteq deps'
  BY DEF RefreshBlocked, linkVars, IndInv, ColumnsOK
<1> QED
  BY <1>1, UnblockOnlyInd

\* Deleting and undeleting rows leaves the workflow columns alone.
LEMMA DeleteColumnsInd ==
    ASSUME IndInv, UNCHANGED <<rowVars, workflowVars, linkVars>>,
           deletedAt' \in [Nodes -> Stamps \cup {NULL}],
           cascadeRow' \in [Nodes -> CascadeRows \cup {NULL}],
           now' \in 0..MaxTime
    PROVE  IndInv'
  BY DEF rowVars, linkVars, workflowVars, IndInv, ColumnsOK, UnusedIsOpen, WakeOnlyWhileDeferred,
         ClosedWhenResolved, BlockedRemembers

\* Stamping rows as deleted leaves the workflow columns alone.
LEMMA DeleteRowsInd ==
    ASSUME IndInv, NEW n \in Nodes, NEW S, NEW root \in Nodes, NEW by \in Authors,
           DeleteRows(n, S, root, by)
    PROVE  IndInv'
<1>1. <<now, by>> \in Stamps /\ [root |-> root, stamp |-> <<now, by>>] \in CascadeRows
  BY DEF IndInv, ColumnsOK, Stamps, CascadeRows
<1>2. /\ deletedAt' \in [Nodes -> Stamps \cup {NULL}]
      /\ cascadeRow' \in [Nodes -> CascadeRows \cup {NULL}]
      /\ UNCHANGED <<rowVars, workflowVars, linkVars>>
      /\ now' \in 0..MaxTime
  BY <1>1 DEF DeleteRows, IndInv, ColumnsOK
<1> QED
  BY <1>2, DeleteColumnsInd

\* So do deletes of every kind and undeletes.
LEMMA DeleteStepInd ==
    ASSUME IndInv, NEW n \in Nodes, DeleteStep(n)
    PROVE  IndInv'
<1>1. ASSUME NEW by \in Authors, NEW cascade \in BOOLEAN, DeleteNode(n, cascade, by)
      PROVE  IndInv'
  BY <1>1, DeleteRowsInd DEF DeleteNode
<1>2. ASSUME NEW by \in Authors, NEW pair \in RootInputs, DeleteNodeWithRoot(n, pair[2], by)
      PROVE  IndInv'
  <2>1. pair[2] \in Nodes
    BY InputsAssumption
  <2>2. DeleteRows(n, {n}, pair[2], by)
    BY <1>2 DEF DeleteNodeWithRoot
  <2> QED
    BY <2>1, <2>2, DeleteRowsInd
<1>3. ASSUME NEW by \in Authors, ApplyDelete(n, by)
      PROVE  IndInv'
  <2>1. <<now, by>> \in Stamps
    BY DEF IndInv, ColumnsOK, Stamps
  <2>2. /\ deletedAt' \in [Nodes -> Stamps \cup {NULL}]
        /\ cascadeRow' \in [Nodes -> CascadeRows \cup {NULL}]
        /\ UNCHANGED <<rowVars, workflowVars, linkVars>>
        /\ now' \in 0..MaxTime
    BY <1>3, <2>1 DEF ApplyDelete, IndInv, ColumnsOK
  <2> QED
    BY <2>2, DeleteColumnsInd
<1>4. ASSUME UndeleteNode(n)
      PROVE  IndInv'
  <2>1. /\ deletedAt' \in [Nodes -> Stamps \cup {NULL}]
        /\ cascadeRow' \in [Nodes -> CascadeRows \cup {NULL}]
        /\ UNCHANGED <<rowVars, workflowVars, linkVars>>
        /\ now' \in 0..MaxTime
    BY <1>4 DEF UndeleteNode, IndInv, ColumnsOK
  <2> QED
    BY <2>1, DeleteColumnsInd
<1> QED
  BY <1>1, <1>2, <1>3, <1>4 DEF DeleteStep

\* The clock changes no row.
LEMMA TickInd ==
    ASSUME IndInv, Tick
    PROVE  IndInv'
<1>1. now' \in 0..MaxTime
  BY ClockAssumption DEF Tick, IndInv, ColumnsOK
<1> QED
  BY <1>1, DeleteColumnsInd DEF Tick, deleteVars, IndInv, ColumnsOK

-----------------------------------------------------------------------------
(* The invariant.                                                          *)

\* Every operation of the store preserves the inductive invariant.
LEMMA NextInd == IndInv /\ [Next]_vars => IndInv'
<1> SUFFICES ASSUME IndInv, [Next]_vars PROVE IndInv'
  OBVIOUS
<1>1. ASSUME NEW n \in Nodes, NEW claimed \in BOOLEAN, CreateNode(n, claimed) PROVE IndInv'
  BY <1>1, CreateNodeInd
<1>2. ASSUME NEW n \in Nodes, ClaimNode(n) \/ UnclaimNode(n) PROVE IndInv'
  BY <1>2, ClaimNodeInd, UnclaimNodeInd
<1>3. ASSUME NEW n \in Nodes, WorkflowStep(n) PROVE IndInv'
  <2>1. ASSUME NEW to \in StatusInputs, TransitionStatus(n, to) PROVE IndInv'
    BY <2>1, TransitionStatusInd, InputsAssumption
  <2>2. ASSUME NEW until \in WakeTimes \cup {NULL}, DeferNode(n, until) \/ RedeferNode(n, until)
        PROVE  IndInv'
    BY <2>2, DeferNodeInd, RedeferNodeInd
  <2>3. ASSUME NEW cascade \in BOOLEAN, CancelNode(n, cascade) PROVE IndInv'
    BY <2>3, CancelNodeInd
  <2> QED
    BY <1>3, <2>1, <2>2, <2>3, RestoreInvalidatedInd, RefreshBlockedInd DEF WorkflowStep
<1>4. ASSUME NEW n \in Nodes, DeleteStep(n) PROVE IndInv'
  BY <1>4, DeleteStepInd
<1>5. ASSUME LinkStep PROVE IndInv'
  <2>1. PICK from \in Nodes, to \in Nodes : Linked(from, to) \/ Unlink(from, to)
    BY <1>5, LinkKinds DEF IndInv
  <2> QED
    BY <2>1, LinkedInd, UnlinkInd
<1>6. CASE UNCHANGED vars
  BY <1>6 DEF vars, IndInv, ColumnsOK, UnusedIsOpen, WakeOnlyWhileDeferred,
              ClosedWhenResolved, BlockedRemembers
<1> QED
  BY <1>1, <1>2, <1>3, <1>4, <1>5, <1>6, TickInd DEF Next, StoreStep

\* Every reachable state satisfies the inductive invariant.
THEOREM Invariance == Spec => []IndInv
  BY InitInd, NextInd, PTL DEF Spec

\* A wake time belongs to a deferral in force (executeTransitionTx, claim,
\* cancel, cascade, defer and wake, in any order), for any set of nodes.
THEOREM WakeOnlyWhileDeferredHolds == Spec => []WakeOnlyWhileDeferred
<1>1. IndInv => WakeOnlyWhileDeferred
  BY DEF IndInv
<1> QED
  BY <1>1, Invariance, PTL

\* A done or cancelled node carries a closing time, for any set of nodes.
THEOREM ClosedWhenResolvedHolds == Spec => []ClosedWhenResolved
<1>1. IndInv => ClosedWhenResolved
  BY DEF IndInv
<1> QED
  BY <1>1, Invariance, PTL

\* A blocked node remembers open or in_progress, for any set of nodes.
THEOREM BlockedRemembersHolds == Spec => []BlockedRemembers
<1>1. IndInv => BlockedRemembers
  BY DEF IndInv
<1> QED
  BY <1>1, Invariance, PTL

-----------------------------------------------------------------------------
(* Every status change is an edge of the table.                            *)

\* What StatusStepsFollowTheMachine asks of one step.
OnTheTable ==
    \A n \in Nodes :
        (Present(n) /\ life'[n] = "present" /\ status'[n] # status[n])
            => status'[n] \in validTransitions[status[n]]

\* The edges the store takes without asking ValidateTransition.
LEMMA UncheckedEdges ==
    /\ {"open", "in_progress"} \subseteq validTransitions["blocked"]
    /\ "blocked" \in validTransitions["open"] /\ "blocked" \in validTransitions["in_progress"]
    /\ "in_progress" \in validTransitions["open"]
    /\ "in_progress" \in validTransitions["deferred"]
    /\ "open" \in validTransitions["in_progress"]
    /\ \A s \in Status \ TerminalStatus : "cancelled" \in validTransitions[s]
  BY DEF validTransitions, Status, TerminalStatus

\* executeTransitionTx moves n along the table and the nodes it unblocks from
\* blocked to open or in_progress.
LEMMA ExecuteTransitionOnTable ==
    ASSUME IndInv, NEW n \in Nodes, NEW to \in Status, MayTransition(n, to),
           ExecuteTransition(n, to)
    PROVE  OnTheTable
<1>1. Live(n) /\ status[n] # to /\ to \in validTransitions[status[n]]
  BY DEF MayTransition, ValidateTransition
<1>2. to = "blocked" => status[n] \in {"open", "in_progress"}
  BY <1>1 DEF validTransitions, Status, IndInv, ColumnsOK
<1>3. /\ status'[n] = to
      /\ \A m \in Nodes \ {n} :
            \/ status'[m] = status[m]
            \/ status[m] = "blocked" /\ Live(m) /\ status'[m] \in {"open", "in_progress"}
  BY <1>1, <1>2, ExecuteTransitionRows
<1> QED
  BY <1>1, <1>3, UncheckedEdges DEF OnTheTable

\* Cancelling and what it unblocks are edges of the transition table.
LEMMA CancelNodeOnTable ==
    ASSUME IndInv, NEW n \in Nodes, NEW cascade \in BOOLEAN, CancelNode(n, cascade)
    PROVE  OnTheTable
<1> DEFINE C == IF cascade THEN CascadeCancelled(n) ELSE {}
           S == C \cup {n}
           st == [m \in Nodes |-> IF m \in S THEN "cancelled" ELSE status[m]]
           U == Unblocked(Dependents(UnblockSources(n, C)), st, LiveNodes, deps)
<1>1. status' = UnblockedStatus(U, st, prev) /\ ValidateTransition(status[n], "cancelled")
  BY DEF CancelNode, AutoUnblock
<1>2. \A m \in U : st[m] = "blocked"
  BY UnblockedAreBlocked
<1>3. \A m \in C : status[m] \notin TerminalStatus
  BY DEF CascadeCancelled
<1> HIDE DEF C, U
<1>4. \A m \in Nodes : m \in S \/ st[m] = status[m]
  OBVIOUS
<1>5. \A m \in Nodes : m \in S => st[m] = "cancelled"
  OBVIOUS
<1> HIDE DEF st
<1>6. \A m \in Nodes : m \in U =>
         status[m] = "blocked" /\ status'[m] \in {"open", "in_progress"}
  BY <1>1, <1>2, <1>4, <1>5 DEF UnblockedStatus, RestoreTo, IndInv, BlockedRemembers
<1>7. \A m \in Nodes : m \notin U => status'[m] = st[m]
  BY <1>1 DEF UnblockedStatus
<1>8. \A m \in C : m \in Nodes => "cancelled" \in validTransitions[status[m]]
  BY <1>3, UncheckedEdges DEF IndInv, ColumnsOK
<1>9. status[n] = "cancelled" \/ "cancelled" \in validTransitions[status[n]]
  BY <1>1 DEF ValidateTransition
<1> QED
  BY <1>4, <1>5, <1>6, <1>7, <1>8, <1>9, UncheckedEdges DEF OnTheTable

\* The operations that only run autoUnblockNode.
LEMMA UnblockOnlyOnTable ==
    ASSUME IndInv, NEW S, NEW dp, AutoUnblock(S, status, prev, LiveNodes, dp)
    PROVE  OnTheTable
<1> DEFINE U == Unblocked(S, status, LiveNodes, dp)
<1>1. status' = UnblockedStatus(U, status, prev)
  BY DEF AutoUnblock
<1>2. \A m \in U : status[m] = "blocked"
  BY UnblockedAreBlocked
<1> HIDE DEF U
<1>3. \A m \in Nodes :
         \/ status'[m] = status[m]
         \/ status[m] = "blocked" /\ status'[m] \in {"open", "in_progress"}
  BY <1>1, <1>2 DEF UnblockedStatus, RestoreTo, IndInv, BlockedRemembers
<1> QED
  BY <1>3, UncheckedEdges DEF OnTheTable

\* So is every status write of every operation.
LEMMA NextOnTable == IndInv /\ [Next]_vars => OnTheTable
<1> SUFFICES ASSUME IndInv, [Next]_vars PROVE OnTheTable
  OBVIOUS
<1>1. ASSUME NEW n \in Nodes, NEW claimed \in BOOLEAN, CreateNode(n, claimed)
      PROVE  OnTheTable
  BY <1>1 DEF CreateNode, OnTheTable, Present, IndInv, ColumnsOK
<1>2. ASSUME NEW n \in Nodes, ClaimNode(n) \/ UnclaimNode(n) PROVE OnTheTable
  BY <1>2, UncheckedEdges
  DEF ClaimNode, Claimable, UnclaimNode, OnTheTable, IndInv, ColumnsOK
<1>3. ASSUME NEW n \in Nodes, WorkflowStep(n) PROVE OnTheTable
  <2>1. ASSUME NEW to \in Status, TransitionStatus(n, to) PROVE OnTheTable
    BY <2>1, ExecuteTransitionOnTable DEF TransitionStatus
  <2>2. ASSUME RestoreInvalidated(n) PROVE OnTheTable
    <3>1. RestoreTarget(n) \in Status
      BY DEF RestoreTarget, IndInv, ColumnsOK, Status
    <3> QED
      BY <2>1, <2>2, <3>1 DEF RestoreInvalidated
  <2>3. ASSUME NEW until \in WakeTimes \cup {NULL}, DeferNode(n, until) PROVE OnTheTable
    <3>1. "deferred" \in Status
      BY DEF Status
    <3> QED
      BY <2>3, <3>1, ExecuteTransitionOnTable DEF DeferNode
  <2>4. ASSUME NEW until \in WakeTimes \cup {NULL}, RedeferNode(n, until) PROVE OnTheTable
    BY <2>4 DEF RedeferNode, OnTheTable
  <2>5. ASSUME NEW cascade \in BOOLEAN, CancelNode(n, cascade) PROVE OnTheTable
    BY <2>5, CancelNodeOnTable
  <2>6. ASSUME RefreshBlocked(n) PROVE OnTheTable
    BY <2>6, UnblockOnlyOnTable DEF RefreshBlocked
  <2> QED
    BY <1>3, <2>1, <2>2, <2>3, <2>4, <2>5, <2>6, InputsAssumption DEF WorkflowStep
<1>4. ASSUME NEW n \in Nodes, DeleteStep(n) PROVE OnTheTable
  BY <1>4 DEF DeleteStep, DeleteNode, DeleteNodeWithRoot, DeleteRows, ApplyDelete,
              UndeleteNode, workflowVars, OnTheTable
<1>5. ASSUME LinkStep PROVE OnTheTable
  <2>1. PICK from \in Nodes, to \in Nodes : Linked(from, to) \/ Unlink(from, to)
    BY <1>5, LinkKinds DEF IndInv
  <2>2. CASE Linked(from, to)
    BY <2>2, UncheckedEdges DEF Linked, AutoBlock, Blockable, OnTheTable, IndInv, ColumnsOK
  <2>3. CASE Unlink(from, to)
    BY <2>3, UnblockOnlyOnTable DEF Unlink
  <2> QED
    BY <2>1, <2>2, <2>3
<1>6. CASE Tick \/ UNCHANGED vars
  BY <1>6 DEF Tick, workflowVars, vars, OnTheTable
<1> QED
  BY <1>1, <1>2, <1>3, <1>4, <1>5, <1>6 DEF Next, StoreStep

\* Every status change of an existing node is an edge of the transition table,
\* the writes that never ask ValidateTransition included, for any set of nodes.
THEOREM StatusStepsHold == Spec => StatusStepsFollowTheMachine
<1>1. IndInv /\ [Next]_vars =>
        [\A n \in Nodes :
            (Present(n) /\ life'[n] = "present" /\ status'[n] # status[n])
                => status'[n] \in validTransitions[status[n]]]_vars
  BY NextOnTable DEF OnTheTable
<1> QED
  BY <1>1, Invariance, PTL DEF Spec, StatusStepsFollowTheMachine

-----------------------------------------------------------------------------
(* Resolving a blocker unblocks its dependents.                            *)

\* A live blocker that is left unresolved by the step.
StillBlocked(m) ==
    \E c \in Nodes : /\ <<c, m>> \in deps'
                     /\ life'[c] = "present" /\ deletedAt'[c] = NULL
                     /\ status'[c] \notin ResolvingStatus

\* What ResolvingUnblocks asks of one step.
NoneForgotten ==
    \A b, m \in Nodes :
        (/\ <<b, m>> \in deps
         /\ Live(b) /\ status[b] \notin ResolvingStatus
         /\ status'[b] \in ResolvingStatus
         /\ life'[m] = "present" /\ deletedAt'[m] = NULL
         /\ status'[m] = "blocked")
            => StillBlocked(m)

\* A step that resolves nothing forgets nobody.
LEMMA NothingResolved ==
    ASSUME \A b \in Nodes : (Live(b) /\ status[b] \notin ResolvingStatus)
                               => status'[b] \notin ResolvingStatus
    PROVE  NoneForgotten
  BY DEF NoneForgotten

\* autoUnblockNode, run on the dependents of every node that st resolves,
\* leaves a dependent blocked only behind a blocker that is still unresolved:
\* no node that the same walk unblocks can be that blocker's replacement.
LEMMA UnblockForgetsNone ==
    ASSUME NEW st \in [Nodes -> Status], NEW pv, NEW S,
           AutoUnblock(S, st, pv, LiveNodes, deps),
           \A m \in Nodes : st[m] = "blocked" => pv[m] \in {"open", "in_progress"},
           UNCHANGED <<life, deletedAt, linkVars>>,
           \A b, m \in Nodes : (/\ <<b, m>> \in deps
                                /\ Live(b) /\ status[b] \notin ResolvingStatus
                                /\ st[b] \in ResolvingStatus)
                                   => m \in S
    PROVE  NoneForgotten
<1> SUFFICES ASSUME NEW b \in Nodes, NEW m \in Nodes,
                    <<b, m>> \in deps,
                    Live(b), status[b] \notin ResolvingStatus,
                    status'[b] \in ResolvingStatus,
                    life'[m] = "present", deletedAt'[m] = NULL,
                    status'[m] = "blocked"
             PROVE  StillBlocked(m)
  BY DEF NoneForgotten
<1> DEFINE U == Unblocked(S, st, LiveNodes, deps)
<1>1. status' = UnblockedStatus(U, st, pv)
  BY DEF AutoUnblock
<1>2. \A x \in U : st[x] = "blocked"
  BY UnblockedAreBlocked
<1>3. \A x \in Nodes : IF x \in U THEN status'[x] \in {"open", "in_progress"}
                                  ELSE status'[x] = st[x]
  <2> HIDE DEF U
  <2> QED
    BY <1>1, <1>2 DEF UnblockedStatus, RestoreTo
<1>4. b \notin U /\ st[b] \in ResolvingStatus
  BY <1>3 DEF ResolvingStatus
<1>5. m \in S /\ m \notin U /\ st[m] = "blocked"
  BY <1>3, <1>4
<1>6. m \in LiveNodes
  BY DEF LiveNodes, Live, Present
<1>7. PICK c \in LiveNodes : <<c, m>> \in deps /\ st[c] \notin ResolvingStatus
  BY <1>5, <1>6 DEF Unblocked, HasUnresolvedBlocker
<1>8. c \in Nodes /\ life'[c] = "present" /\ deletedAt'[c] = NULL
  BY DEF LiveNodes, Live, Present
<1>9. status'[c] \notin ResolvingStatus
  BY <1>3, <1>7, <1>8 DEF ResolvingStatus
<1> QED
  BY <1>7, <1>8, <1>9 DEF StillBlocked, linkVars

\* A transition that resolves a node unblocks all it alone was blocking.
LEMMA ExecuteTransitionForgetsNone ==
    ASSUME IndInv, NEW n \in Nodes, NEW to \in Status, MayTransition(n, to),
           ExecuteTransition(n, to)
    PROVE  NoneForgotten
<1> DEFINE st == [status EXCEPT ![n] = to]
           pv == [prev EXCEPT ![n] = PrevAfter(@, status[n], to)]
           S == IF to \in ResolvingStatus THEN Dependents({n}) ELSE {}
<1>1. to = "blocked" => status[n] \in {"open", "in_progress"}
  BY DEF MayTransition, ValidateTransition, validTransitions, Status, IndInv, ColumnsOK
<1>2. st \in [Nodes -> Status]
  BY DEF IndInv, ColumnsOK
<1>3. \A m \in Nodes : st[m] = "blocked" => pv[m] \in {"open", "in_progress"}
  BY <1>1 DEF IndInv, ColumnsOK, BlockedRemembers, PrevAfter
<1>4. AutoUnblock(S, st, pv, LiveNodes, deps) /\ UNCHANGED <<life, deletedAt, linkVars>>
  BY DEF ExecuteTransition, rowVars, linkVars, deleteVars
<1>5. \A b, m \in Nodes : (/\ <<b, m>> \in deps
                           /\ Live(b) /\ status[b] \notin ResolvingStatus
                           /\ st[b] \in ResolvingStatus)
                              => m \in S
  BY DEF Dependents, Along, IndInv, ColumnsOK
<1> HIDE DEF st, pv, S
<1> QED
  BY <1>2, <1>3, <1>4, <1>5, UnblockForgetsNone

\* So does a cancel, for the node and for the descendants it cascades to.
LEMMA CancelNodeForgetsNone ==
    ASSUME IndInv, NEW n \in Nodes, NEW cascade \in BOOLEAN, CancelNode(n, cascade)
    PROVE  NoneForgotten
<1> DEFINE C == IF cascade THEN CascadeCancelled(n) ELSE {}
           st == [m \in Nodes |-> IF m \in C \cup {n} THEN "cancelled" ELSE status[m]]
           S == Dependents(UnblockSources(n, C))
<1>1. AutoUnblock(S, st, prev, LiveNodes, deps) /\ UNCHANGED <<life, deletedAt, linkVars>>
  BY DEF CancelNode, rowVars, linkVars, deleteVars
<1> HIDE DEF C
<1>2. st \in [Nodes -> Status]
  BY DEF IndInv, ColumnsOK, Status
<1>3. \A m \in Nodes : st[m] = "blocked" => prev[m] \in {"open", "in_progress"}
  BY DEF IndInv, BlockedRemembers
<1>4. \A b, m \in Nodes : (/\ <<b, m>> \in deps
                           /\ Live(b) /\ status[b] \notin ResolvingStatus
                           /\ st[b] \in ResolvingStatus)
                              => m \in S
  BY DEF Dependents, Along, UnblockSources
<1> HIDE DEF st, S
<1> QED
  BY <1>1, <1>2, <1>3, <1>4, UnblockForgetsNone

\* Removing a dependency or refreshing a node resolves nothing.
LEMMA UnblockOnlyResolvesNothing ==
    ASSUME IndInv, NEW S, NEW dp, AutoUnblock(S, status, prev, LiveNodes, dp)
    PROVE  NoneForgotten
<1> DEFINE U == Unblocked(S, status, LiveNodes, dp)
<1>1. status' = UnblockedStatus(U, status, prev)
  BY DEF AutoUnblock
<1>2. \A m \in U : status[m] = "blocked"
  BY UnblockedAreBlocked
<1> HIDE DEF U
<1>3. \A b \in Nodes : status'[b] = status[b] \/ status'[b] \in {"open", "in_progress"}
  BY <1>1, <1>2 DEF UnblockedStatus, RestoreTo, IndInv, BlockedRemembers
<1> QED
  BY <1>3, NothingResolved DEF ResolvingStatus

\* No operation resolves a node and forgets a dependent.
LEMMA NextForgetsNone == IndInv /\ [Next]_vars => NoneForgotten
<1> SUFFICES ASSUME IndInv, [Next]_vars PROVE NoneForgotten
  OBVIOUS
<1>1. ASSUME NEW n \in Nodes, NEW claimed \in BOOLEAN, CreateNode(n, claimed)
      PROVE  NoneForgotten
  BY <1>1, NothingResolved DEF CreateNode, ResolvingStatus, IndInv, ColumnsOK
<1>2. ASSUME NEW n \in Nodes, ClaimNode(n) \/ UnclaimNode(n) PROVE NoneForgotten
  BY <1>2, NothingResolved DEF ClaimNode, UnclaimNode, ResolvingStatus, IndInv, ColumnsOK
<1>3. ASSUME NEW n \in Nodes, WorkflowStep(n) PROVE NoneForgotten
  <2>1. ASSUME NEW to \in Status, TransitionStatus(n, to) PROVE NoneForgotten
    BY <2>1, ExecuteTransitionForgetsNone DEF TransitionStatus
  <2>2. ASSUME RestoreInvalidated(n) PROVE NoneForgotten
    <3>1. RestoreTarget(n) \in Status
      BY DEF RestoreTarget, IndInv, ColumnsOK, Status
    <3> QED
      BY <2>1, <2>2, <3>1 DEF RestoreInvalidated
  <2>3. ASSUME NEW until \in WakeTimes \cup {NULL}, DeferNode(n, until) PROVE NoneForgotten
    <3>1. "deferred" \in Status
      BY DEF Status
    <3> QED
      BY <2>3, <3>1, ExecuteTransitionForgetsNone DEF DeferNode
  <2>4. ASSUME NEW until \in WakeTimes \cup {NULL}, RedeferNode(n, until)
        PROVE  NoneForgotten
    BY <2>4, NothingResolved DEF RedeferNode
  <2>5. ASSUME NEW cascade \in BOOLEAN, CancelNode(n, cascade) PROVE NoneForgotten
    BY <2>5, CancelNodeForgetsNone
  <2>6. ASSUME RefreshBlocked(n) PROVE NoneForgotten
    BY <2>6, UnblockOnlyResolvesNothing DEF RefreshBlocked
  <2> QED
    BY <1>3, <2>1, <2>2, <2>3, <2>4, <2>5, <2>6, InputsAssumption DEF WorkflowStep
<1>4. ASSUME NEW n \in Nodes, DeleteStep(n) PROVE NoneForgotten
  <2>1. status' = status
    BY <1>4 DEF DeleteStep, DeleteNode, DeleteNodeWithRoot, DeleteRows, ApplyDelete,
                UndeleteNode, workflowVars
  <2> QED
    BY <2>1, NothingResolved
<1>5. ASSUME LinkStep PROVE NoneForgotten
  <2>1. PICK from \in Nodes, to \in Nodes : Linked(from, to) \/ Unlink(from, to)
    BY <1>5, LinkKinds DEF IndInv
  <2>2. CASE Linked(from, to)
    BY <2>2, NothingResolved DEF Linked, AutoBlock, ResolvingStatus, IndInv, ColumnsOK
  <2>3. CASE Unlink(from, to)
    BY <2>3, UnblockOnlyResolvesNothing DEF Unlink
  <2> QED
    BY <2>1, <2>2, <2>3
<1>6. CASE Tick \/ UNCHANGED vars
  BY <1>6, NothingResolved DEF Tick, workflowVars, vars
<1> QED
  BY <1>1, <1>2, <1>3, <1>4, <1>5, <1>6 DEF Next, StoreStep

\* The step that resolves a blocker (a transition, a restore, a cancel or its
\* cascade) leaves none of its live dependents blocked without a live
\* unresolved blocker, for any set of nodes and dependencies.
THEOREM ResolvingUnblocksHolds == Spec => ResolvingUnblocks
<1>1. IndInv /\ [Next]_vars =>
        [\A b, m \in Nodes :
           (/\ <<b, m>> \in deps
            /\ Live(b) /\ status[b] \notin ResolvingStatus
            /\ status'[b] \in ResolvingStatus
            /\ life'[m] = "present" /\ deletedAt'[m] = NULL
            /\ status'[m] = "blocked")
               => \E c \in Nodes : /\ <<c, m>> \in deps'
                                   /\ life'[c] = "present" /\ deletedAt'[c] = NULL
                                   /\ status'[c] \notin ResolvingStatus]_vars
  BY NextForgetsNone DEF NoneForgotten, StillBlocked
<1> QED
  BY <1>1, Invariance, PTL DEF Spec, ResolvingUnblocks

-----------------------------------------------------------------------------
(* The tree.                                                               *)

\* Every set of naturals that is not empty has a least element.
LEMMA LeastOf ==
    ASSUME NEW T \in SUBSET Nat, T # {}
    PROVE  \E x \in T : \A y \in T : x <= y
<1> DEFINE R == {ss \in Nat \X Nat : ss[1] < ss[2]}
<1>1. IsWellFoundedOn(R, Nat)
  BY NatLessThanWellFounded DEF OpToRel
<1> HIDE DEF R
<1>2. PICK x \in T : \A y \in T : ~(<<y, x>> \in R)
  BY <1>1, WFMin, Zenon
<1>3. \A y \in T : ~(y < x)
  BY <1>2 DEF R
<1> QED
  BY <1>3

\* The recursion of Ancestors is well-founded, so the function it defines
\* exists and satisfies its equation.
LEMMA AncestorsEquation ==
    \A n \in Nodes :
        Ancestors[n] = IF ParentOf[n] = NULL THEN {} ELSE {ParentOf[n]} \cup Ancestors[ParentOf[n]]
<1> DEFINE Closed(C) == \A c \in C : ParentOf[c] # NULL => ParentOf[c] \in C
           Above(p) == {m \in Nodes : \A C \in SUBSET Nodes : p \in C /\ Closed(C) => m \in C}
           F == [n \in Nodes |-> IF ParentOf[n] = NULL THEN {} ELSE Above(ParentOf[n])]
           Eq(f) == [n \in Nodes |-> IF ParentOf[n] = NULL THEN {}
                                     ELSE {ParentOf[n]} \cup f[ParentOf[n]]]
<1>1. F = Eq(F)
  <2> SUFFICES ASSUME NEW n \in Nodes, ParentOf[n] # NULL
               PROVE  Above(ParentOf[n]) = {ParentOf[n]} \cup F[ParentOf[n]]
    OBVIOUS
  <2> DEFINE p == ParentOf[n]
  <2>1. p \in Nodes
    BY NodesAssumption
  <2>2. CASE ParentOf[p] = NULL
    <3>1. {p} \in SUBSET Nodes /\ Closed({p})
      BY <2>1, <2>2
    <3>2. Above(p) = {p}
      BY <2>1, <3>1
    <3> QED
      BY <2>1, <2>2, <3>2
  <2>3. CASE ParentOf[p] # NULL
    <3> DEFINE q == ParentOf[p]
    <3>1. q \in Nodes
      BY <2>1, <2>3, NodesAssumption
    <3>2. Above(q) \cup {p} \subseteq Above(p)
      BY <2>1, <2>3
    <3>3. ASSUME NEW m \in Above(p), m # p PROVE m \in Above(q)
      <4> SUFFICES ASSUME NEW C \in SUBSET Nodes, q \in C, Closed(C) PROVE m \in C
        BY <3>3
      <4>1. C \cup {p} \in SUBSET Nodes /\ Closed(C \cup {p})
        BY <2>1
      <4> QED
        BY <3>3, <4>1
    <3> QED
      BY <2>1, <2>3, <3>2, <3>3
  <2> QED
    BY <2>2, <2>3
<1>2. \E f : f = Eq(f)
  BY <1>1
<1>3. Ancestors = CHOOSE f : f = Eq(f)
  BY DEF Ancestors
<1>4. Ancestors = Eq(Ancestors)
  <2> HIDE DEF Eq
  <2> QED
    BY <1>2, <1>3
<1> QED
  BY <1>4

\* The ids above an id above n are above n.
LEMMA AncestorsTransitive ==
    \A n \in Nodes : /\ Ancestors[n] \subseteq Nodes
                     /\ \A m \in Ancestors[n] : Ancestors[m] \subseteq Ancestors[n]
<1> DEFINE Good(n) == /\ Ancestors[n] \subseteq Nodes
                      /\ \A m \in Ancestors[n] : Ancestors[m] \subseteq Ancestors[n]
<1>1. PICK depth \in [Nodes -> 0..Cardinality(Nodes)] :
          \A n \in Nodes : ParentOf[n] # NULL => depth[ParentOf[n]] < depth[n]
  BY TreeAssumption
<1>2. SUFFICES ASSUME NEW b \in Nodes, ~Good(b) PROVE FALSE
  OBVIOUS
<1> DEFINE T == {depth[n] : n \in {x \in Nodes : ~Good(x)}}
<1>3. Cardinality(Nodes) \in Nat
  BY TreeAssumption, FS_CardinalityType
<1>4. T \in SUBSET Nat /\ depth[b] \in T
  BY <1>1, <1>2, <1>3
<1> HIDE DEF Good
<1>5. PICK n \in Nodes : ~Good(n) /\ \A m \in Nodes : ~Good(m) => depth[n] <= depth[m]
  <2>1. PICK x \in T : \A y \in T : x <= y
    BY <1>4, LeastOf
  <2> QED
    BY <2>1
<1>6. ParentOf[n] # NULL => ParentOf[n] \in Nodes /\ Good(ParentOf[n])
  <2> SUFFICES ASSUME ParentOf[n] # NULL PROVE ParentOf[n] \in Nodes /\ Good(ParentOf[n])
    OBVIOUS
  <2>1. ParentOf[n] \in Nodes
    BY NodesAssumption
  <2>2. depth[ParentOf[n]] \in Nat /\ depth[n] \in Nat
    BY <1>1, <1>3, <2>1
  <2> QED
    BY <1>1, <1>5, <2>1, <2>2
<1>7. Good(n)
  BY <1>6, AncestorsEquation DEF Good
<1> QED
  BY <1>5, <1>7

-----------------------------------------------------------------------------
(* The search of detectCycle.                                              *)

\* One level of the breadth-first search.
Level(E, S) == S \cup Along(E, S)

\* The levels of the search from x, up to level k.
IsSearch(E, f, x, k) ==
    /\ f[0] = {x}
    /\ \A j \in 1..k : f[j] = Level(E, f[j-1])

\* A search of any depth exists.
LEMMA SearchExists ==
    ASSUME NEW E, NEW x \in Nodes, NEW k \in Nat
    PROVE  \E f \in [0..k -> SUBSET Nodes] : IsSearch(E, f, x, k)
<1> DEFINE P(j) == \E f \in [0..j -> SUBSET Nodes] : IsSearch(E, f, x, j)
           T == {j \in Nat : ~P(j)}
<1>1. SUFFICES ASSUME T # {} PROVE FALSE
  OBVIOUS
<1>a. T \in SUBSET Nat
  OBVIOUS
<1>2. PICK j \in T : \A i \in T : j <= i
  BY <1>1, <1>a, LeastOf
<1>3. CASE j = 0
  <2> DEFINE f == [i \in 0..0 |-> {x}]
  <2>1. f \in [0..0 -> SUBSET Nodes] /\ IsSearch(E, f, x, 0)
    BY DEF IsSearch
  <2> QED
    BY <1>2, <1>3, <2>1
<1>4. CASE j # 0
  <2>1. j \in Nat /\ j - 1 \in Nat
    BY <1>2, <1>4
  <2>2. PICK f \in [0..(j-1) -> SUBSET Nodes] : IsSearch(E, f, x, j-1)
    BY <1>2, <2>1
  <2> DEFINE g == [i \in 0..j |-> IF i = j THEN Level(E, f[j-1]) ELSE f[i]]
  <2>3. f[j-1] \in SUBSET Nodes
    BY <2>1, <2>2
  <2>4. Level(E, f[j-1]) \in SUBSET Nodes
    BY <2>3 DEF Level, Along
  <2>5. g \in [0..j -> SUBSET Nodes]
    BY <2>1, <2>2, <2>4
  <2>6. g[0] = {x}
    BY <1>4, <2>1, <2>2 DEF IsSearch
  <2>7. \A i \in 1..j : g[i] = Level(E, g[i-1])
    <3> SUFFICES ASSUME NEW i \in 1..j PROVE g[i] = Level(E, g[i-1])
      OBVIOUS
    <3>1. i - 1 \in 0..j /\ i - 1 # j /\ g[i-1] = f[i-1]
      BY <2>1
    <3>2. CASE i = j
      BY <2>1, <3>1, <3>2
    <3>3. CASE i # j
      <4>1. i \in 1..(j-1) /\ g[i] = f[i]
        BY <2>1, <3>3
      <4> QED
        BY <2>2, <3>1, <4>1 DEF IsSearch
    <3> QED
      BY <3>2, <3>3
  <2>8. P(j)
    <3> HIDE DEF g
    <3> QED
      BY <2>5, <2>6, <2>7 DEF IsSearch
  <2> QED
    BY <1>2, <2>8
<1> QED
  BY <1>3, <1>4

\* A search stays inside every set that holds its start and is closed under
\* dependents.
LEMMA SearchWithin ==
    ASSUME NEW E, NEW x, NEW k \in Nat, NEW f, IsSearch(E, f, x, k), NEW C, x \in C, Along(E, C) \subseteq C
    PROVE  \A j \in 0..k : f[j] \subseteq C
<1> DEFINE T == {j \in 0..k : ~(f[j] \subseteq C)}
<1>1. SUFFICES ASSUME T # {} PROVE FALSE
  OBVIOUS
<1>a. T \in SUBSET Nat
  OBVIOUS
<1>2. PICK j \in T : \A i \in T : j <= i
  BY <1>1, <1>a, LeastOf
<1>3. j # 0
  BY <1>2 DEF IsSearch
<1>4. j \in 1..k /\ j - 1 \in 0..k /\ ~(j <= j - 1)
  BY <1>2, <1>3
<1>5. f[j-1] \subseteq C
  BY <1>2, <1>4
<1>6. f[j] = Level(E, f[j-1])
  BY <1>4 DEF IsSearch
<1>7. f[j] \subseteq C
  BY <1>5, <1>6 DEF Level, Along
<1> QED
  BY <1>2, <1>7

\* A search as deep as there are nodes has stopped growing.
LEMMA SearchSettles ==
    ASSUME NEW E, NEW x \in Nodes, NEW f, IsSearch(E, f, x, Cardinality(Nodes))
    PROVE  Along(E, f[Cardinality(Nodes)]) \subseteq f[Cardinality(Nodes)]
<1> DEFINE N == Cardinality(Nodes)
           Settled(j) == Along(E, f[j]) \subseteq f[j]
           T == {j \in 0..N : ~(Settled(j) \/ Cardinality(f[j]) >= j + 1)}
<1>1. N \in Nat /\ IsFiniteSet(Nodes)
  BY TreeAssumption, FS_CardinalityType
<1>2. \A j \in 0..N : f[j] \in SUBSET Nodes
  <2>1. Along(E, Nodes) \subseteq Nodes
    BY DEF Along
  <2>2. IsSearch(E, f, x, N)
    OBVIOUS
  <2> HIDE DEF N
  <2>3. \A j \in 0..N : f[j] \subseteq Nodes
    BY <1>1, <2>1, <2>2, SearchWithin
  <2> QED
    BY <2>3
<1>3. \A j \in 0..N : /\ IsFiniteSet(f[j]) /\ Cardinality(f[j]) \in Nat
                       /\ Cardinality(f[j]) <= N
  BY <1>1, <1>2, FS_Subset, FS_CardinalityType
<1>4. T = {}
  <2>1. SUFFICES ASSUME T # {} PROVE FALSE
    OBVIOUS
  <2>a. T \in SUBSET Nat
    BY <1>1
  <2>2. PICK j \in T : \A i \in T : j <= i
    BY <2>1, <2>a, LeastOf
  <2>3. j # 0
    <3>1. Cardinality({x}) = 1 /\ f[0] = {x}
      BY FS_Singleton DEF IsSearch
    <3>2. Cardinality(f[0]) >= 0 + 1
      BY <3>1
    <3> QED
      BY <2>2, <3>2
  <2>4. j \in 1..N /\ j - 1 \in 0..N /\ ~(j <= j - 1) /\ j \in Nat
    BY <1>1, <2>2, <2>3
  <2>5. f[j] = f[j-1] \cup Along(E, f[j-1])
    BY <2>4 DEF IsSearch, Level
  <2>6. Settled(j-1) \/ Cardinality(f[j-1]) >= j
    BY <2>2, <2>4
  <2>7. CASE Settled(j-1)
    <3>1. f[j] = f[j-1]
      BY <2>5, <2>7
    <3> QED
      BY <2>2, <2>7, <3>1
  <2>8. CASE ~Settled(j-1) /\ Cardinality(f[j-1]) >= j
    <3>1. f[j-1] \in SUBSET f[j] /\ f[j-1] # f[j]
      BY <2>5, <2>8
    <3>2. IsFiniteSet(f[j])
      BY <1>3, <2>4
    <3>3. Cardinality(f[j-1]) <= Cardinality(f[j]) /\ Cardinality(f[j-1]) # Cardinality(f[j])
      BY <3>1, <3>2, FS_Subset
    <3>4. Cardinality(f[j]) >= j + 1
      BY <1>3, <2>4, <2>8, <3>3
    <3> QED
      BY <2>2, <3>4
  <2> QED
    BY <2>6, <2>7, <2>8
<1>5. N \in 0..N /\ Cardinality(f[N]) <= N /\ Cardinality(f[N]) \in Nat
  BY <1>1, <1>3
<1>6. Settled(N)
  BY <1>1, <1>4, <1>5
<1> QED
  BY <1>6

\* ReachableFrom is the last level of a search.
LEMMA ReachableIsSearch ==
    ASSUME NEW E, NEW x \in Nodes
    PROVE  \E f : IsSearch(E, f, x, Cardinality(Nodes)) /\ ReachableFrom(E, x) = f[Cardinality(Nodes)]
<1> DEFINE N == Cardinality(Nodes)
           Eq(f) == [k \in 0..N |-> IF k = 0 THEN {x} ELSE f[k-1] \cup Along(E, f[k-1])]
           Hop == CHOOSE f : f = Eq(f)
<1>1. N \in Nat
  BY TreeAssumption, FS_CardinalityType
<1>2. PICK f \in [0..N -> SUBSET Nodes] : IsSearch(E, f, x, N)
  BY <1>1, SearchExists
<1>3. f = Eq(f)
  <2>1. \A k \in 0..N : f[k] = Eq(f)[k]
    BY <1>1, <1>2 DEF IsSearch, Level
  <2> QED
    BY <2>1
<1>4. Hop = Eq(Hop)
  <2> HIDE DEF Eq
  <2> QED
    BY <1>3
<1>5. IsSearch(E, Hop, x, N)
  <2> HIDE DEF Hop
  <2>1. Hop[0] = {x}
    BY <1>1, <1>4
  <2>2. ASSUME NEW j \in 1..N PROVE Hop[j] = Level(E, Hop[j-1])
    <3>1. j \in 0..N /\ j # 0
      BY <1>1
    <3> QED
      BY <1>4, <3>1 DEF Level
  <2> QED
    BY <2>1, <2>2 DEF IsSearch
<1>6. ReachableFrom(E, x) = Hop[N]
  BY DEF ReachableFrom
<1> QED
  BY <1>5, <1>6

\* What detectCycle searches: the start, closed under dependents.
LEMMA ReachableClosed ==
    ASSUME NEW E
    PROVE  \A x \in Nodes : /\ x \in ReachableFrom(E, x)
                     /\ ReachableFrom(E, x) \subseteq Nodes
                     /\ Along(E, ReachableFrom(E, x)) \subseteq ReachableFrom(E, x)
<1> TAKE x \in Nodes
<1> DEFINE N == Cardinality(Nodes)
<1>1. N \in Nat
  BY TreeAssumption, FS_CardinalityType
<1>2. PICK f : IsSearch(E, f, x, N) /\ ReachableFrom(E, x) = f[N]
  BY ReachableIsSearch
<1>3. Along(E, f[N]) \subseteq f[N]
  BY <1>2, SearchSettles
<1>4. f[N] \subseteq Nodes
  <2>1. Along(E, Nodes) \subseteq Nodes /\ N \in 0..N
    BY <1>1 DEF Along
  <2> QED
    BY <1>1, <1>2, <2>1, SearchWithin
<1>5. x \in f[N]
  <2> DEFINE T == {j \in 0..N : x \notin f[j]}
  <2>1. SUFFICES ASSUME T # {} PROVE FALSE
    BY <1>1
  <2>2. T \in SUBSET Nat
    BY <1>1
  <2>3. PICK j \in T : \A i \in T : j <= i
    BY <2>1, <2>2, LeastOf
  <2>4. j # 0
    BY <1>2, <2>3 DEF IsSearch
  <2>5. j \in 1..N /\ j - 1 \in 0..N /\ ~(j <= j - 1)
    BY <1>1, <2>3, <2>4
  <2>6. x \in f[j-1]
    BY <2>3, <2>5
  <2>7. f[j] = Level(E, f[j-1])
    BY <1>2, <2>5 DEF IsSearch
  <2> QED
    BY <2>3, <2>6, <2>7 DEF Level
<1> QED
  BY <1>2, <1>3, <1>4, <1>5

\* And nothing more: the least such set.
LEMMA ReachableLeast ==
    ASSUME NEW E
    PROVE  \A x \in Nodes, C \in SUBSET Nodes :
        x \in C /\ Along(E, C) \subseteq C => ReachableFrom(E, x) \subseteq C
<1> SUFFICES ASSUME NEW x \in Nodes, NEW C \in SUBSET Nodes, x \in C, Along(E, C) \subseteq C
             PROVE  ReachableFrom(E, x) \subseteq C
  OBVIOUS
<1> DEFINE N == Cardinality(Nodes)
<1>1. N \in Nat /\ N \in 0..N
  BY TreeAssumption, FS_CardinalityType
<1>2. PICK f : IsSearch(E, f, x, N) /\ ReachableFrom(E, x) = f[N]
  BY ReachableIsSearch
<1> QED
  BY <1>1, <1>2, SearchWithin

\* The edges of E form no cycle.
Acyclic(E) == \A d \in E : d[1] \notin ReachableFrom(E, d[2])

\* Fewer edges close no cycle.
LEMMA FewerEdgesAcyclic ==
    ASSUME NEW E, NEW F, F \subseteq E, E \subseteq Nodes \X Nodes, Acyclic(E)
    PROVE  Acyclic(F)
<1> SUFFICES ASSUME NEW d \in F PROVE d[1] \notin ReachableFrom(F, d[2])
  BY DEF Acyclic
<1>1. d \in E /\ d[2] \in Nodes
  OBVIOUS
<1> DEFINE C == ReachableFrom(E, d[2])
<1>2. d[2] \in C /\ C \in SUBSET Nodes /\ Along(E, C) \subseteq C
  BY <1>1, ReachableClosed
<1>3. d[1] \notin C
  BY <1>1 DEF Acyclic
<1> HIDE DEF C
<1>4. Along(F, C) \subseteq C
  BY <1>2 DEF Along
<1> QED
  BY <1>1, <1>2, <1>3, <1>4, ReachableLeast

\* An edge whose target cannot reach its source closes no cycle, however long
\* the other paths are.
LEMMA OneEdgeMoreAcyclic ==
    ASSUME NEW E, E \subseteq Nodes \X Nodes, Acyclic(E),
           NEW from \in Nodes, NEW to \in Nodes, from \notin ReachableFrom(E, to)
    PROVE  Acyclic(E \cup {<<from, to>>})
<1> DEFINE F == E \cup {<<from, to>>}
           R(x) == ReachableFrom(E, x)
<1>1. \A x \in Nodes, C \in SUBSET Nodes :
         x \in C /\ Along(F, C) \subseteq C => ReachableFrom(F, x) \subseteq C
  BY ReachableLeast
<1>2. \A x \in Nodes : x \in R(x) /\ R(x) \in SUBSET Nodes /\ Along(E, R(x)) \subseteq R(x)
  BY ReachableClosed
<1>3. \A x \in Nodes, C \in SUBSET Nodes :
         x \in C /\ Along(E, C) \subseteq C => R(x) \subseteq C
  BY ReachableLeast
<1>4. from \notin R(to)
  OBVIOUS
<1>5. \A d \in E : d[1] \notin R(d[2])
  BY DEF Acyclic
<1> HIDE DEF R
<1>6. ASSUME NEW C \in SUBSET Nodes, Along(E, C) \subseteq C, from \in C => to \in C
      PROVE  Along(F, C) \subseteq C
  BY <1>6 DEF Along
<1> SUFFICES ASSUME NEW d \in F PROVE d[1] \notin ReachableFrom(F, d[2])
  BY DEF Acyclic
<1> HIDE DEF F
<1>7. CASE d = <<from, to>>
  <2>1. Along(F, R(to)) \subseteq R(to)
    BY <1>2, <1>4, <1>6
  <2>2. ReachableFrom(F, to) \subseteq R(to)
    BY <1>1, <1>2, <2>1
  <2> QED
    BY <1>4, <1>7, <2>2
<1>8. CASE d \in E
  <2>1. /\ d[1] \in Nodes /\ d[2] \in Nodes /\ d = <<d[1], d[2]>>
        /\ d[1] \notin R(d[2])
    BY <1>5, <1>8
  <2>2. CASE from \notin R(d[2])
    <3>1. ReachableFrom(F, d[2]) \subseteq R(d[2])
      BY <1>1, <1>2, <1>6, <2>1, <2>2
    <3> QED
      BY <2>1, <3>1
  <2>3. CASE from \in R(d[2])
    <3> DEFINE C == R(d[2]) \cup R(to)
    <3>1. C \in SUBSET Nodes /\ Along(E, C) \subseteq C /\ to \in C /\ d[2] \in C
      BY <1>2, <2>1 DEF Along
    <3>2. ReachableFrom(F, d[2]) \subseteq C
      <4> HIDE DEF C
      <4> QED
        BY <1>1, <1>6, <2>1, <3>1
    <3>3. d[1] \notin R(to)
      <4> SUFFICES ASSUME d[1] \in R(to) PROVE FALSE
        OBVIOUS
      <4>1. d[2] \in Along(E, R(to))
        BY <1>8, <2>1 DEF Along
      <4>2. R(d[2]) \subseteq R(to)
        BY <1>2, <1>3, <2>1, <4>1
      <4> QED
        BY <1>4, <2>3, <4>2
    <3> QED
      BY <2>1, <3>2, <3>3
  <2> QED
    BY <2>2, <2>3
<1> QED
  BY <1>7, <1>8 DEF F

\* The search finds at least what can be reached along fewer edges.
LEMMA FewerEdgesReachLess ==
    ASSUME NEW E, NEW F, F \subseteq E, NEW x \in Nodes
    PROVE  ReachableFrom(F, x) \subseteq ReachableFrom(E, x)
<1> DEFINE C == ReachableFrom(E, x)
<1>1. x \in C /\ C \in SUBSET Nodes /\ Along(E, C) \subseteq C
  BY ReachableClosed
<1> HIDE DEF C
<1>2. Along(F, C) \subseteq C
  BY <1>1 DEF Along
<1>3. ReachableFrom(F, x) \subseteq C
  BY <1>1, <1>2, ReachableLeast
<1> QED
  BY <1>3 DEF C

\* The links made here: those no received event inserted.
LocalLinks == deps \ received

\* A link made here is added beside LocalLinks only when detectCycle, which
\* searches the received ones too, finds no way back.
LEMMA AddDependencyAcyclic ==
    ASSUME ColumnsOK, CyclesComeFromSync, NEW from \in Nodes, NEW to \in Nodes,
           AddDependency(from, to)
    PROVE  CyclesComeFromSync'
<1>1. LocalLinks' = LocalLinks \cup {<<from, to>>}
  BY DEF AddDependency, LocalLinks, ColumnsOK
<1>2. from \notin ReachableFrom(LocalLinks, to)
  BY FewerEdgesReachLess DEF AddDependency, detectCycle, LocalLinks
<1>3. LocalLinks \subseteq Nodes \X Nodes /\ Acyclic(LocalLinks)
  BY DEF ColumnsOK, CyclesComeFromSync, Acyclic, LocalLinks
<1>4. Acyclic(LocalLinks \cup {<<from, to>>})
  BY <1>2, <1>3, OneEdgeMoreAcyclic
<1>5. Acyclic(LocalLinks')
  BY <1>1, <1>4
<1> QED
  BY <1>5 DEF CyclesComeFromSync, Acyclic, LocalLinks

\* Every operation of the store keeps the links made here acyclic.
LEMMA NextAcyclic == IndInv /\ CyclesComeFromSync /\ [Next]_vars => CyclesComeFromSync'
<1> SUFFICES ASSUME IndInv, CyclesComeFromSync, [Next]_vars PROVE CyclesComeFromSync'
  OBVIOUS
<1>1. ColumnsOK
  BY DEF IndInv
<1> DEFINE Fewer == LocalLinks' \subseteq LocalLinks
<1>2. ASSUME NEW d \in LinkInputs, AddDependency(d[1], d[2]) PROVE CyclesComeFromSync'
  BY <1>1, <1>2, AddDependencyAcyclic, InputsAssumption
<1>3. ASSUME NEW d, RemoveDependency(d[1], d[2]) \/ ApplyUnlinkDep(d[1], d[2]) PROVE Fewer
  BY <1>3 DEF RemoveDependency, ApplyUnlinkDep, Unlink, LocalLinks
<1>4. ASSUME NEW d, ApplyLinkDep(d[1], d[2]) PROVE Fewer
  BY <1>4 DEF ApplyLinkDep, LocalLinks
<1>5. ASSUME NEW n \in Nodes,
             \/ \E claimed \in BOOLEAN : CreateNode(n, claimed)
             \/ ClaimNode(n) \/ UnclaimNode(n) \/ WorkflowStep(n)
      PROVE  UNCHANGED linkVars
  BY <1>5 DEF CreateNode, ClaimNode, UnclaimNode, WorkflowStep, TransitionStatus,
              RestoreInvalidated, DeferNode, RedeferNode, ExecuteTransition, CancelNode,
              RefreshBlocked
<1>6. ASSUME NEW n \in Nodes, DeleteStep(n) PROVE UNCHANGED linkVars
  BY <1>6 DEF DeleteStep, DeleteNode, DeleteNodeWithRoot, DeleteRows, ApplyDelete, UndeleteNode
<1>7. ASSUME Tick \/ UNCHANGED vars PROVE UNCHANGED linkVars
  BY <1>7 DEF Tick, vars, linkVars
<1>8. ASSUME UNCHANGED linkVars PROVE Fewer
  BY <1>8 DEF linkVars, LocalLinks
<1>9. ASSUME Fewer PROVE CyclesComeFromSync'
  <2>1. LocalLinks \subseteq Nodes \X Nodes /\ Acyclic(LocalLinks)
    BY <1>1 DEF ColumnsOK, CyclesComeFromSync, Acyclic, LocalLinks
  <2>2. Acyclic(LocalLinks')
    BY <1>9, <2>1, FewerEdgesAcyclic
  <2> QED
    BY <2>2 DEF CyclesComeFromSync, Acyclic, LocalLinks
<1> HIDE DEF Fewer
<1> QED
  BY <1>2, <1>3, <1>4, <1>5, <1>6, <1>7, <1>8, <1>9 DEF Next, StoreStep, LinkStep

\* Every cycle of the blocks relation goes through a link received through
\* sync (CyclesComeFromSync, FR-4.3), for any set of nodes and any mixture of
\* links made here and received: the breadth-first search of detectCycle,
\* re-run in the transaction that adds an edge, keeps longer cycles out too.
THEOREM CyclesComeFromSyncHolds == Spec => []CyclesComeFromSync
<1>1. Init => CyclesComeFromSync
  BY DEF Init, CyclesComeFromSync
<1> QED
  BY <1>1, NextAcyclic, Invariance, PTL DEF Spec

-----------------------------------------------------------------------------
(* Progress.                                                               *)

\* While no row is purged, parent_id is the parent the id names; the column
\* of progress has a row for every id, and an id never allocated no deletion.
ProgressRows ==
    /\ parentId = ParentOf
    /\ DOMAIN progress = Nodes
    /\ \A n \in Nodes : life[n] = "unused" => deletedAt[n] = NULL

\* A rollup visits its starts and is closed upwards: with a node, its parent.
LEMMA RollupClosed ==
    ASSUME ProgressRows, NEW S \in SUBSET Nodes
    PROVE  /\ S \subseteq RollupTargets(S)
           /\ RollupTargets(S) \subseteq Nodes
           /\ \A n \in RollupTargets(S) : ParentOf[n] # NULL => ParentOf[n] \in RollupTargets(S)
<1> DEFINE Eq(f) == [n \in Nodes |-> {n} \cup (IF parentId[n] = NULL THEN {} ELSE f[parentId[n]])]
           Up == CHOOSE f : f = Eq(f)
           F == [n \in Nodes |-> {n} \cup Ancestors[n]]
<1>1. parentId = ParentOf /\ ParentOf \in [Nodes -> Nodes \cup {NULL}]
  BY NodesAssumption DEF ProgressRows
<1>2. F = Eq(F)
  <2>1. \A n \in Nodes : F[n] = Eq(F)[n]
    BY <1>1, AncestorsEquation
  <2> QED
    BY <2>1
<1>3. Up = Eq(Up)
  <2> HIDE DEF Eq, F
  <2> QED
    BY <1>2
<1>4. RollupTargets(S) = UNION {Up[n] : n \in S}
  BY DEF RollupTargets
<1> HIDE DEF Up
<1>5. \A n \in Nodes : Up[n] = {n} \cup (IF ParentOf[n] = NULL THEN {} ELSE Up[ParentOf[n]])
  BY <1>1, <1>3
<1> DEFINE Good(n) == /\ Up[n] \subseteq Nodes
                      /\ \A m \in Up[n] : ParentOf[m] # NULL => ParentOf[m] \in Up[n]
<1>6. PICK depth \in [Nodes -> 0..Cardinality(Nodes)] :
          \A n \in Nodes : ParentOf[n] # NULL => depth[ParentOf[n]] < depth[n]
  BY TreeAssumption
<1>7. Cardinality(Nodes) \in Nat
  BY TreeAssumption, FS_CardinalityType
<1>8. \A n \in Nodes : Good(n)
  <2> SUFFICES ASSUME NEW b \in Nodes, ~Good(b) PROVE FALSE
    OBVIOUS
  <2> DEFINE T == {depth[n] : n \in {x \in Nodes : ~Good(x)}}
  <2>1. T \in SUBSET Nat /\ depth[b] \in T
    BY <1>6, <1>7
  <2> HIDE DEF Good
  <2>2. PICK n \in Nodes : ~Good(n) /\ \A m \in Nodes : ~Good(m) => depth[n] <= depth[m]
    <3>1. PICK x \in T : \A y \in T : x <= y
      BY <2>1, LeastOf
    <3> QED
      BY <3>1
  <2>3. ParentOf[n] # NULL => ParentOf[n] \in Nodes /\ Good(ParentOf[n])
    <3> SUFFICES ASSUME ParentOf[n] # NULL PROVE ParentOf[n] \in Nodes /\ Good(ParentOf[n])
      OBVIOUS
    <3>1. ParentOf[n] \in Nodes
      BY <1>1
    <3>2. depth[ParentOf[n]] \in Nat /\ depth[n] \in Nat
      BY <1>6, <1>7, <3>1
    <3> QED
      BY <1>6, <2>2, <3>1, <3>2
  <2>4. Good(n)
    BY <1>5, <2>3 DEF Good
  <2> QED
    BY <2>2, <2>4
<1>9. \A n \in Nodes : n \in Up[n]
  BY <1>5
<1> QED
  BY <1>4, <1>8, <1>9

\* An average depends on the progress of the counted children only.
LEMMA AverageAgrees ==
    ASSUME NEW f, NEW g, NEW p, NEW st, NEW lv,
           \A c \in CountedChildren(p, st, lv) : f[c] = g[c]
    PROVE  AverageOf(f, p, st, lv) = AverageOf(g, p, st, lv)
<1> DEFINE kids == CountedChildren(p, st, lv)
<1>1. [c \in kids |-> f[c]] = [c \in kids |-> g[c]]
  OBVIOUS
<1> QED
  BY <1>1 DEF AverageOf

\* The recomputed column exists for every tree and satisfies its equation:
\* a node of the rollup has the average of its children as recomputed, any
\* other its old value.
LEMMA RecomputeEquation ==
    ASSUME ProgressRows, NEW pr, NEW T, NEW st, NEW lv \in SUBSET Nodes
    PROVE  /\ DOMAIN Recompute(pr, T, st, lv) = Nodes
           /\ \A p \in Nodes :
                 Recompute(pr, T, st, lv)[p] =
                     IF p \in T \cap lv THEN AverageOf(Recompute(pr, T, st, lv), p, st, lv)
                     ELSE pr[p]
<1> DEFINE At(f, p) == IF p \in T \cap lv THEN AverageOf(f, p, st, lv) ELSE pr[p]
           Eq(f) == [p \in Nodes |-> At(f, p)]
           N == Cardinality(Nodes)
<1>1. N \in Nat
  BY TreeAssumption, FS_CardinalityType
<1>2. PICK depth \in [Nodes -> 0..N] :
          \A n \in Nodes : ParentOf[n] # NULL => depth[ParentOf[n]] < depth[n]
  BY TreeAssumption
<1>3. \A n \in Nodes : depth[n] \in Nat /\ depth[n] <= N
  BY <1>1, <1>2
<1>4. ASSUME NEW p \in Nodes, NEW c \in CountedChildren(p, st, lv)
      PROVE  c \in Nodes /\ depth[p] < depth[c]
  <2>1. c \in Nodes /\ ParentOf[c] = p
    BY DEF CountedChildren, ProgressRows
  <2> QED
    BY <1>2, <2>1, NodesAssumption
\* the equation holds from level k down
<1> DEFINE From(f, k) == \A p \in Nodes : depth[p] >= k => f[p] = At(f, p)
           K == {k \in Nat : \E f : From(f, k)}
<1>5. K \in SUBSET Nat /\ N + 1 \in K
  <2>1. From(pr, N + 1)
    BY <1>1, <1>3
  <2> QED
    BY <1>1, <2>1
<1>6. PICK k \in K : \A j \in K : k <= j
  BY <1>5, LeastOf
<1>7. PICK f : From(f, k)
  BY <1>6
<1>8. k = 0
  <2> SUFFICES ASSUME k # 0 PROVE FALSE
    OBVIOUS
  <2>1. k \in Nat /\ k - 1 \in Nat /\ ~(k <= k - 1)
    BY <1>6
  <2> DEFINE g == [p \in Nodes |-> IF depth[p] = k - 1 THEN At(f, p) ELSE f[p]]
  <2>2. ASSUME NEW p \in Nodes, depth[p] >= k - 1 PROVE g[p] = At(g, p)
    <3>1. \A c \in CountedChildren(p, st, lv) : f[c] = g[c]
      <4> SUFFICES ASSUME NEW c \in CountedChildren(p, st, lv) PROVE f[c] = g[c]
        OBVIOUS
      <4>1. c \in Nodes /\ depth[p] < depth[c]
        BY <1>4
      <4>2. depth[c] # k - 1
        BY <1>3, <2>1, <2>2, <4>1
      <4> QED
        BY <4>1, <4>2
    <3>2. At(f, p) = At(g, p)
      <4> HIDE DEF g
      <4> QED
        BY <3>1, AverageAgrees
    <3>3. g[p] = At(f, p)
      <4>1. CASE depth[p] = k - 1
        BY <4>1
      <4>2. CASE depth[p] # k - 1
        <5>1. depth[p] >= k
          BY <1>3, <2>1, <2>2, <4>2
        <5>2. f[p] = At(f, p)
          <6> HIDE DEF At
          <6> QED
            BY <1>7, <5>1
        <5> HIDE DEF At
        <5> QED
          BY <4>2, <5>2
      <4> QED
        BY <4>1, <4>2
    <3> QED
      BY <3>2, <3>3
  <2>3. From(g, k - 1)
    <3> HIDE DEF g, At
    <3> QED
      BY <2>2
  <2>4. k - 1 \in K
    <3> HIDE DEF g, From
    <3> QED
      BY <2>1, <2>3
  <2> QED
    BY <1>6, <2>1, <2>4
<1> DEFINE h == [p \in Nodes |-> f[p]]
<1>9. h = Eq(h)
  <2> SUFFICES ASSUME NEW p \in Nodes PROVE h[p] = At(h, p)
    OBVIOUS
  <2>1. f[p] = At(f, p)
    <3>1. depth[p] >= k
      BY <1>3, <1>8
    <3> HIDE DEF At
    <3> QED
      BY <1>7, <3>1
  <2>2. \A c \in CountedChildren(p, st, lv) : f[c] = h[c]
    BY <1>4
  <2>3. At(f, p) = At(h, p)
    <3> HIDE DEF h
    <3> QED
      BY <2>2, AverageAgrees
  <2> HIDE DEF At
  <2> QED
    BY <2>1, <2>3
<1> DEFINE New == CHOOSE e : e = Eq(e)
<1>10. New = Eq(New)
  <2> HIDE DEF Eq, h
  <2> QED
    BY <1>9
<1>11. Recompute(pr, T, st, lv) = [p \in Nodes |-> New[p]]
  BY DEF Recompute
<1> HIDE DEF New
<1>12. [p \in Nodes |-> New[p]] = New
  BY <1>10
<1>13. Recompute(pr, T, st, lv) = New
  BY <1>11, <1>12
<1>14. \A p \in Nodes : New[p] = At(New, p)
  <2> HIDE DEF At
  <2> QED
    BY <1>10
<1>15. DOMAIN New = Nodes
  BY <1>10
<1> QED
  BY <1>13, <1>14, <1>15

\* The live nodes after the step, and the children their parent's progress
\* counts then.
LiveNext == {n \in Nodes : life'[n] = "present" /\ deletedAt'[n] = NULL}
KidsNext(p) == {c \in LiveNext : parentId'[c] = p /\ status'[c] \notin UncountedStatus}

\* A node that is live before and after the step has the average of its
\* children, or they and their progress are as they were.
ParentFollows(p) ==
    (/\ Live(p) /\ p \in LiveNext
     /\ CountedProgress(p, status, LiveNodes, progress)
            # {<<c, progress'[c]>> : c \in KidsNext(p)})
        => progress'[p] = IF KidsNext(p) = {} THEN 0
                          ELSE SumFunction([c \in KidsNext(p) |-> progress'[c]])
                                   \div Cardinality(KidsNext(p))

\* What a rollup must visit: a recomputation follows the children if it is
\* closed upwards and visits the parent of each node that comes, goes, begins
\* or ceases to count, or has its own progress set.
LEMMA RecomputeFollows ==
    ASSUME ProgressRows, parentId' = parentId,
           NEW pr, NEW T, NEW st, NEW lv \in SUBSET Nodes,
           progress' = Recompute(pr, T, st, lv), LiveNext = lv,
           \A c \in lv : status'[c] \in UncountedStatus <=> st[c] \in UncountedStatus,
           \A n \in T \cap Nodes : ParentOf[n] # NULL => ParentOf[n] \in T,
           \A c \in Nodes :
              (ParentOf[c] # NULL /\ ParentOf[c] \notin T /\ Live(ParentOf[c]) /\ ParentOf[c] \in lv)
                 => /\ c \in LiveNodes <=> c \in lv
                    /\ c \in lv => /\ st[c] \in UncountedStatus <=> status[c] \in UncountedStatus
                                   /\ pr[c] = progress[c]
    PROVE  \A p \in Nodes : ParentFollows(p)
<1> SUFFICES ASSUME NEW p \in Nodes, Live(p), p \in lv,
                    CountedProgress(p, status, LiveNodes, progress)
                        # {<<c, progress'[c]>> : c \in KidsNext(p)}
             PROVE  progress'[p] = IF KidsNext(p) = {} THEN 0
                                   ELSE SumFunction([c \in KidsNext(p) |-> progress'[c]])
                                            \div Cardinality(KidsNext(p))
  BY DEF ParentFollows
<1>1. \A q \in Nodes : progress'[q] = IF q \in T \cap lv THEN AverageOf(progress', q, st, lv)
                                      ELSE pr[q]
  BY RecomputeEquation
<1>2. KidsNext(p) = CountedChildren(p, st, lv)
  BY DEF KidsNext, CountedChildren
<1>3. CASE p \in T
  <2>1. progress'[p] = AverageOf(progress', p, st, lv)
    BY <1>1, <1>3
  <2> QED
    BY <1>2, <2>1 DEF AverageOf
<1>4. CASE p \notin T
  <2>1. ASSUME NEW c \in Nodes, ParentOf[c] = p
        PROVE  /\ c \in CountedChildren(p, status, LiveNodes) <=> c \in KidsNext(p)
               /\ c \in KidsNext(p) => progress'[c] = progress[c]
    <3>1. p # NULL
      BY NodesAssumption
    <3>2. c \notin T
      BY <1>4, <2>1, <3>1
    <3>3. progress'[c] = pr[c]
      BY <1>1, <3>2
    <3>4. /\ c \in LiveNodes <=> c \in lv
          /\ c \in lv => /\ st[c] \in UncountedStatus <=> status[c] \in UncountedStatus
                         /\ pr[c] = progress[c]
      BY <1>4, <2>1, <3>1
    <3> QED
      BY <1>2, <2>1, <3>3, <3>4 DEF CountedChildren, ProgressRows
  <2>2. /\ \A c \in CountedChildren(p, status, LiveNodes) : c \in Nodes /\ ParentOf[c] = p
        /\ \A c \in KidsNext(p) : c \in Nodes /\ ParentOf[c] = p
    BY <1>2 DEF CountedChildren, LiveNodes, ProgressRows
  <2>3. CountedChildren(p, status, LiveNodes) = KidsNext(p)
    BY <2>1, <2>2
  <2>4. \A c \in KidsNext(p) : progress'[c] = progress[c]
    BY <2>1, <2>2
  <2>5. CountedProgress(p, status, LiveNodes, progress)
            = {<<c, progress'[c]>> : c \in KidsNext(p)}
    BY <2>3, <2>4 DEF CountedProgress
  <2> QED
    BY <2>5
<1> QED
  BY <1>3, <1>4

\* A step that leaves progress alone, and changes no child's being counted.
LEMMA NothingMoves ==
    ASSUME UNCHANGED <<life, parentId, progress, deletedAt>>,
           \A c \in Nodes : status'[c] \in UncountedStatus <=> status[c] \in UncountedStatus
    PROVE  \A p \in Nodes : ParentFollows(p)
<1> SUFFICES ASSUME NEW p \in Nodes
             PROVE  CountedProgress(p, status, LiveNodes, progress)
                        = {<<c, progress'[c]>> : c \in KidsNext(p)}
  BY DEF ParentFollows
<1>1. CountedChildren(p, status, LiveNodes) = KidsNext(p)
  BY DEF KidsNext, LiveNext, CountedChildren, LiveNodes, Live, Present
<1> QED
  BY <1>1 DEF CountedProgress

-----------------------------------------------------------------------------
\* A node unblocked was counted and stays so.
LEMMA UnblockCounts ==
    ASSUME NEW S, NEW st \in [Nodes -> Status], NEW pv, NEW lv, NEW dp, AutoUnblock(S, st, pv, lv, dp),
           \A m \in S \cap Nodes : st[m] = "blocked" => pv[m] \in {"open", "in_progress"}
    PROVE  \A m \in Nodes : status'[m] \in UncountedStatus <=> st[m] \in UncountedStatus
<1> DEFINE U == Unblocked(S, st, lv, dp)
<1>1. status' = UnblockedStatus(U, st, pv)
  BY DEF AutoUnblock
<1>2. \A m \in U : st[m] = "blocked" /\ m \in S
  BY DEF Unblocked
<1> HIDE DEF U
<1> SUFFICES ASSUME NEW m \in Nodes
             PROVE  status'[m] \in UncountedStatus <=> st[m] \in UncountedStatus
  OBVIOUS
<1>3. CASE m \in U
  <2>1. st[m] = "blocked" /\ pv[m] \in {"open", "in_progress"}
    BY <1>2, <1>3
  <2>2. status'[m] \in {"open", "in_progress"}
    BY <1>1, <1>3, <2>1 DEF UnblockedStatus, RestoreTo
  <2> QED
    BY <2>1, <2>2 DEF UncountedStatus
<1>4. CASE m \notin U
  BY <1>1, <1>4 DEF UnblockedStatus
<1> QED
  BY <1>3, <1>4

\* The parents a rollup of the nodes of S starts from.
LEMMA ParentsOfFacts ==
    ASSUME ProgressRows, NEW S \in SUBSET Nodes
    PROVE  /\ ParentsOf(S) \in SUBSET Nodes
           /\ \A c \in S : ParentOf[c] # NULL => ParentOf[c] \in RollupTargets(ParentsOf(S))
           /\ \A n \in RollupTargets(ParentsOf(S)) :
                 n \in Nodes /\ (ParentOf[n] # NULL => ParentOf[n] \in RollupTargets(ParentsOf(S)))
<1>1. ParentsOf(S) \in SUBSET Nodes
  BY NodesAssumption DEF ParentsOf, ProgressRows
<1>2. \A c \in S : ParentOf[c] # NULL => ParentOf[c] \in ParentsOf(S)
  BY DEF ParentsOf, ProgressRows
<1> QED
  BY <1>1, <1>2, RollupClosed

-----------------------------------------------------------------------------
(* One lemma per operation that rolls progress up.                         *)

\* A new child counts from its first rollup.
LEMMA CreateFollows ==
    ASSUME IndInv, ProgressRows, NEW n \in Nodes, NEW claimed \in BOOLEAN, CreateNode(n, claimed)
    PROVE  ProgressRows' /\ \A p \in Nodes : ParentFollows(p)
<1> DEFINE T == RollupTargets(ParentsOf({n}))
           lv == LiveNodes \cup {n}
<1>1. /\ progress' = Recompute(progress, T, status, lv)
      /\ parentId' = parentId /\ deletedAt' = deletedAt
      /\ life' = [life EXCEPT ![n] = "present"]
      /\ status' = [status EXCEPT ![n] = IF claimed THEN "in_progress" ELSE "open"]
      /\ life[n] = "unused" /\ status[n] = "open" /\ deletedAt[n] = NULL
  BY DEF CreateNode, deleteVars, IndInv, UnusedIsOpen, ProgressRows
<1>2. lv \in SUBSET Nodes
  BY DEF LiveNodes
<1>3. LiveNext = lv
  BY <1>1 DEF LiveNext, LiveNodes, Live, Present, IndInv, ColumnsOK
<1>4. \A c \in Nodes : status'[c] \in UncountedStatus <=> status[c] \in UncountedStatus
  BY <1>1 DEF IndInv, ColumnsOK, UncountedStatus
<1>5. /\ ParentOf[n] # NULL => ParentOf[n] \in T
      /\ \A m \in T \cap Nodes : ParentOf[m] # NULL => ParentOf[m] \in T
  BY ParentsOfFacts
<1>6. ProgressRows'
  <2>1. DOMAIN Recompute(progress, T, status, lv) = Nodes
    BY <1>2, RecomputeEquation
  <2> QED
    BY <1>1, <2>1 DEF ProgressRows, IndInv, ColumnsOK
<1> HIDE DEF T
<1>7. \A c \in Nodes :
         (ParentOf[c] # NULL /\ ParentOf[c] \notin T /\ Live(ParentOf[c]) /\ ParentOf[c] \in lv)
            => c \in LiveNodes <=> c \in lv
  BY <1>5
<1> HIDE DEF lv
<1>8. \A p \in Nodes : ParentFollows(p)
  BY <1>1, <1>2, <1>3, <1>4, <1>5, <1>7, RecomputeFollows
<1> QED
  BY <1>6, <1>8

\* A transition is rolled up from the node's parent, whether it changes the
\* node's progress or its being counted.
LEMMA TransitionFollows ==
    ASSUME IndInv, ProgressRows, NEW n \in Nodes, NEW to \in Status, ExecuteTransition(n, to)
    PROVE  ProgressRows' /\ \A p \in Nodes : ParentFollows(p)
<1> DEFINE T == RollupTargets(ParentsOf({n}))
           D == IF to \in ResolvingStatus THEN Dependents({n}) ELSE {}
           st == [status EXCEPT ![n] = to]
           pv == [prev EXCEPT ![n] = PrevAfter(@, status[n], to)]
           pr == [progress EXCEPT ![n] = IF to = "done" THEN Scale ELSE @]
<1>1. /\ progress' = Recompute(pr, T, st, LiveNodes)
      /\ AutoUnblock(D, st, pv, LiveNodes, deps)
      /\ life' = life /\ parentId' = parentId /\ deletedAt' = deletedAt
  BY DEF ExecuteTransition, rowVars, linkVars, deleteVars
<1>2. LiveNodes \in SUBSET Nodes /\ LiveNext = LiveNodes
  BY <1>1 DEF LiveNodes, LiveNext, Live, Present
<1>3. st \in [Nodes -> Status]
  BY DEF IndInv, ColumnsOK
<1>4. \A m \in D \cap Nodes : st[m] = "blocked" => pv[m] \in {"open", "in_progress"}
  <2> SUFFICES ASSUME NEW m \in Nodes, m \in D, st[m] = "blocked" PROVE pv[m] \in {"open", "in_progress"}
    OBVIOUS
  <2>1. to \in ResolvingStatus
    OBVIOUS
  <2>2. m # n
    BY <2>1 DEF IndInv, ColumnsOK, ResolvingStatus
  <2> QED
    BY <2>2 DEF IndInv, ColumnsOK, BlockedRemembers
<1>5. \A c \in Nodes \ {n} : st[c] = status[c] /\ pr[c] = progress[c]
  BY DEF IndInv, ColumnsOK, ProgressRows
<1> HIDE DEF D, st, pv, pr
<1>6. \A c \in Nodes : status'[c] \in UncountedStatus <=> st[c] \in UncountedStatus
  BY <1>1, <1>3, <1>4, UnblockCounts
<1>7. /\ ParentOf[n] # NULL => ParentOf[n] \in T
      /\ \A m \in T \cap Nodes : ParentOf[m] # NULL => ParentOf[m] \in T
  BY ParentsOfFacts
<1>8. ProgressRows'
  <2>1. DOMAIN Recompute(pr, T, st, LiveNodes) = Nodes
    BY <1>2, RecomputeEquation
  <2> QED
    BY <1>1, <2>1 DEF ProgressRows
<1> HIDE DEF T
<1>9. \A c \in Nodes : ParentOf[c] # NULL /\ ParentOf[c] \notin T => c # n
  BY <1>7
<1>10. \A p \in Nodes : ParentFollows(p)
  BY <1>1, <1>2, <1>5, <1>6, <1>7, <1>9, RecomputeFollows
<1> QED
  BY <1>8, <1>10

\* The nodes a cancel recomputes: the parent of every cancelled node, and
\* with a node the parent of it.
LEMMA CancelTargets ==
    ASSUME ProgressRows, NEW n \in Nodes, NEW C \in SUBSET Descendants(n)
    PROVE  LET T == CascadeTargets(n, C) \cup RollupTargets(ParentsOf({n}))
           IN  /\ \A c \in C \cup {n} : ParentOf[c] # NULL => ParentOf[c] \in T
               /\ \A m \in T \cap Nodes : ParentOf[m] # NULL => ParentOf[m] \in T
<1> DEFINE R == RollupTargets(ParentsOf({n}))
           T == CascadeTargets(n, C) \cup R
<1>1. /\ ParentOf[n] # NULL => ParentOf[n] \in R
      /\ \A m \in R \cap Nodes : ParentOf[m] # NULL => ParentOf[m] \in R
  BY ParentsOfFacts
<1> HIDE DEF R
<1>2. parentId = ParentOf /\ ParentOf \in [Nodes -> Nodes \cup {NULL}]
  BY NodesAssumption DEF ProgressRows
<1> DEFINE Inside(m) == m = n \/ m \in Descendants(n)
<1>3. ASSUME NEW m \in Descendants(n)
      PROVE  m \in Nodes /\ ParentOf[m] # NULL /\ ParentOf[m] \in Nodes /\ Inside(ParentOf[m])
  <2>1. m \in Nodes /\ n \in Ancestors[m]
    BY DEF Descendants
  <2>2. ParentOf[m] # NULL /\ n \in {ParentOf[m]} \cup Ancestors[ParentOf[m]]
    BY <2>1, AncestorsEquation
  <2> QED
    BY <1>2, <2>1, <2>2 DEF Descendants
<1>4. \A m : m \in CascadeTargets(n, C) <=>
              \E c \in C : /\ ParentOf[c] # NULL
                           /\ m \in {ParentOf[c]} \cup Ancestors[ParentOf[c]]
                           /\ Inside(m)
  BY <1>2 DEF CascadeTargets
<1>5. \A c \in C \cup {n} : ParentOf[c] # NULL => ParentOf[c] \in T
  BY <1>1, <1>3, <1>4
<1>6. ASSUME NEW m \in T \cap Nodes, ParentOf[m] # NULL PROVE ParentOf[m] \in T
  <2>1. CASE m \in R \/ m = n
    BY <1>1, <1>6, <2>1
  <2>2. CASE m \in CascadeTargets(n, C) /\ m # n
    <3>1. m \in Descendants(n)
      BY <1>4, <2>2
    <3>2. PICK c \in C : ParentOf[c] # NULL /\ m \in {ParentOf[c]} \cup Ancestors[ParentOf[c]]
      BY <1>4, <2>2
    <3>3. ParentOf[c] \in Nodes
      BY <1>3
    <3>4. ParentOf[m] \in Ancestors[m] /\ m \in Nodes
      BY <1>6, AncestorsEquation
    <3>5. ParentOf[m] \in Ancestors[ParentOf[c]]
      BY <3>2, <3>3, <3>4, AncestorsTransitive
    <3> QED
      BY <1>3, <1>4, <3>1, <3>2, <3>5
  <2> QED
    BY <2>1, <2>2
<1> QED
  BY <1>5, <1>6 DEF R

\* A cancel is rolled up from the parent of every node its cascade reaches.
LEMMA CancelFollows ==
    ASSUME IndInv, ProgressRows, NEW n \in Nodes, NEW cascade \in BOOLEAN, CancelNode(n, cascade)
    PROVE  ProgressRows' /\ \A p \in Nodes : ParentFollows(p)
<1> DEFINE C == IF cascade THEN CascadeCancelled(n) ELSE {}
           S == C \cup {n}
           st == [m \in Nodes |-> IF m \in S THEN "cancelled" ELSE status[m]]
           T == CascadeTargets(n, C) \cup RollupTargets(ParentsOf({n}))
           D == Dependents(UnblockSources(n, C))
<1>1. /\ progress' = Recompute(progress, T, st, LiveNodes)
      /\ AutoUnblock(D, st, prev, LiveNodes, deps)
      /\ life' = life /\ parentId' = parentId /\ deletedAt' = deletedAt
  BY DEF CancelNode, rowVars, linkVars, deleteVars
<1>2. LiveNodes \in SUBSET Nodes /\ LiveNext = LiveNodes
  BY <1>1 DEF LiveNodes, LiveNext, Live, Present
<1>3. C \in SUBSET Descendants(n)
  BY DEF CascadeCancelled
<1> HIDE DEF C
<1>4. /\ \A c \in S : ParentOf[c] # NULL => ParentOf[c] \in T
      /\ \A m \in T \cap Nodes : ParentOf[m] # NULL => ParentOf[m] \in T
  BY <1>3, CancelTargets
<1>5. /\ st \in [Nodes -> Status]
      /\ \A m \in D \cap Nodes : st[m] = "blocked" => prev[m] \in {"open", "in_progress"}
  BY DEF IndInv, ColumnsOK, BlockedRemembers, Status
<1>6. \A c \in Nodes \ S : st[c] = status[c]
  OBVIOUS
<1> HIDE DEF S, D, st
<1>7. \A c \in Nodes : status'[c] \in UncountedStatus <=> st[c] \in UncountedStatus
  BY <1>1, <1>5, UnblockCounts
<1>8. ProgressRows'
  <2>1. DOMAIN Recompute(progress, T, st, LiveNodes) = Nodes
    BY <1>2, RecomputeEquation
  <2> QED
    BY <1>1, <2>1 DEF ProgressRows
<1> HIDE DEF T
<1>9. \A c \in Nodes : ParentOf[c] # NULL /\ ParentOf[c] \notin T => st[c] = status[c]
  BY <1>4, <1>6
<1>10. \A p \in Nodes : ParentFollows(p)
  BY <1>1, <1>2, <1>4, <1>7, <1>9, RecomputeFollows
<1> QED
  BY <1>8, <1>10

\* The step deletes the nodes of S and no id that was never allocated.
StampsOnly(S) ==
    /\ LiveNext = LiveNodes \ S
    /\ \A m \in Nodes : life'[m] = "unused" => deletedAt'[m] = NULL

\* A delete is rolled up from the target's parent only; the other deleted
\* nodes have no parent that stays.
LEMMA DeleteFollows ==
    ASSUME ProgressRows, NEW n \in Nodes, NEW S \in SUBSET Nodes, NEW T,
           \A m \in S \ {n} : ParentOf[m] # NULL /\ (Live(ParentOf[m]) => ParentOf[m] \in S),
           ParentOf[n] # NULL => ParentOf[n] \in T,
           \A m \in T \cap Nodes : ParentOf[m] # NULL => ParentOf[m] \in T,
           progress' = Recompute(progress, T, status, LiveNodes \ S),
           StampsOnly(S), UNCHANGED <<life, parentId, status>>
    PROVE  ProgressRows' /\ \A p \in Nodes : ParentFollows(p)
<1> DEFINE lv == LiveNodes \ S
<1>1. lv \in SUBSET Nodes /\ LiveNext = lv
  BY DEF LiveNodes, StampsOnly
<1>2. ProgressRows'
  <2>1. DOMAIN Recompute(progress, T, status, lv) = Nodes
    BY <1>1, RecomputeEquation
  <2> QED
    BY <2>1 DEF ProgressRows, StampsOnly
<1>3. \A c \in Nodes :
         (ParentOf[c] # NULL /\ ParentOf[c] \notin T /\ Live(ParentOf[c]) /\ ParentOf[c] \in lv)
            => c \in LiveNodes <=> c \in lv
  OBVIOUS
<1>4. progress' = Recompute(progress, T, status, lv)
  OBVIOUS
<1> HIDE DEF lv
<1>5. \A p \in Nodes : ParentFollows(p)
  BY <1>1, <1>3, <1>4, RecomputeFollows
<1> QED
  BY <1>2, <1>5

\* The three ways of deleting.
LEMMA DeletesFollow ==
    ASSUME IndInv, ProgressRows, NEW n \in Nodes, NEW by \in Authors,
           \/ \E cascade \in BOOLEAN : DeleteNode(n, cascade, by)
           \/ \E root : DeleteNodeWithRoot(n, root, by)
           \/ ApplyDelete(n, by)
    PROVE  ProgressRows' /\ \A p \in Nodes : ParentFollows(p)
<1> DEFINE T == RollupTargets(ParentsOf({n}))
<1>1. /\ ParentOf[n] # NULL => ParentOf[n] \in T
      /\ \A m \in T \cap Nodes : ParentOf[m] # NULL => ParentOf[m] \in T
  BY ParentsOfFacts
<1>a. ASSUME NEW S \in SUBSET Nodes, \A m \in S : Live(m), UNCHANGED <<life, parentId, status>>,
             deletedAt' = [m \in Nodes |-> IF m \in S THEN <<now, by>> ELSE deletedAt[m]]
      PROVE  StampsOnly(S)
  <2>1. <<now, by>> # NULL
    BY StampsAssumption DEF IndInv, ColumnsOK
  <2>2. LiveNext = LiveNodes \ S
    BY <1>a, <2>1 DEF LiveNodes, LiveNext, Live, Present
  <2>3. \A m \in Nodes : life'[m] = "unused" => m \notin S
    BY <1>a DEF Live, Present
  <2> QED
    BY <1>a, <2>2, <2>3 DEF StampsOnly, ProgressRows
<1>2. ASSUME NEW S \in SUBSET Nodes, NEW root, DeleteRows(n, S, root, by),
             \A m \in S : Live(m),
             \A m \in S \ {n} : ParentOf[m] # NULL /\ (Live(ParentOf[m]) => ParentOf[m] \in S)
      PROVE  ProgressRows' /\ \A p \in Nodes : ParentFollows(p)
  <2>1. /\ progress' = Recompute(progress, T, status, LiveNodes \ S)
        /\ deletedAt' = [m \in Nodes |-> IF m \in S THEN <<now, by>> ELSE deletedAt[m]]
        /\ UNCHANGED <<life, parentId, status>>
    BY <1>2 DEF DeleteRows, rowVars, linkVars, workflowVars
  <2>2. StampsOnly(S)
    BY <1>a, <1>2, <2>1
  <2> HIDE DEF T
  <2> QED
    BY <1>1, <1>2, <2>1, <2>2, DeleteFollows
<1>3. ASSUME NEW cascade \in BOOLEAN, DeleteNode(n, cascade, by)
      PROVE  ProgressRows' /\ \A p \in Nodes : ParentFollows(p)
  <2> DEFINE S == {n} \cup (IF cascade THEN {m \in Descendants(n) : Live(m)} ELSE {})
  <2>1. DeleteRows(n, S, n, by) /\ Live(n)
    BY <1>3 DEF DeleteNode
  <2>2. S \in SUBSET Nodes /\ \A m \in S : Live(m)
    BY <2>1 DEF Descendants
  <2>3. ASSUME NEW m \in S \ {n}
        PROVE  ParentOf[m] # NULL /\ (Live(ParentOf[m]) => ParentOf[m] \in S)
    <3>1. cascade /\ m \in Nodes /\ n \in Ancestors[m]
      BY <2>3 DEF Descendants
    <3>2. ParentOf[m] # NULL /\ (ParentOf[m] = n \/ n \in Ancestors[ParentOf[m]])
      BY <3>1, AncestorsEquation
    <3>3. ParentOf[m] \in Nodes
      BY <3>1, <3>2, NodesAssumption
    <3> QED
      BY <3>1, <3>2, <3>3 DEF Descendants
  <2> HIDE DEF S
  <2> QED
    BY <1>2, <2>1, <2>2, <2>3
<1>4. ASSUME NEW root, DeleteNodeWithRoot(n, root, by)
      PROVE  ProgressRows' /\ \A p \in Nodes : ParentFollows(p)
  <2>1. DeleteRows(n, {n}, root, by) /\ Live(n)
    BY <1>4 DEF DeleteNodeWithRoot
  <2> QED
    BY <1>2, <2>1
<1>5. ASSUME ApplyDelete(n, by) PROVE ProgressRows' /\ \A p \in Nodes : ParentFollows(p)
  <2> DEFINE A == IF ParentOf[n] = NULL THEN {} ELSE RollupTargets({ParentOf[n]})
  <2>1. /\ Live(n)
        /\ progress' = Recompute(progress, A, status, LiveNodes \ {n})
        /\ deletedAt' = [m \in Nodes |-> IF m \in {n} THEN <<now, by>> ELSE deletedAt[m]]
        /\ UNCHANGED <<life, parentId, status>>
    BY <1>5 DEF ApplyDelete, rowVars, linkVars, workflowVars, IndInv, ColumnsOK
  <2>2. /\ ParentOf[n] # NULL => ParentOf[n] \in A
        /\ \A m \in A \cap Nodes : ParentOf[m] # NULL => ParentOf[m] \in A
    <3>1. ParentOf[n] # NULL => {ParentOf[n]} \in SUBSET Nodes
      BY NodesAssumption
    <3> QED
      BY <3>1, RollupClosed
  <2>3. StampsOnly({n})
    BY <1>a, <2>1
  <2> HIDE DEF A
  <2> QED
    BY <2>1, <2>2, <2>3, DeleteFollows
<1> QED
  BY <1>3, <1>4, <1>5

\* An undelete is rolled up from the parent of every node it brings back.
LEMMA UndeleteFollows ==
    ASSUME IndInv, ProgressRows, NEW n \in Nodes, UndeleteNode(n)
    PROVE  ProgressRows' /\ \A p \in Nodes : ParentFollows(p)
<1> DEFINE R == RestoreSet(n)
           T == RollupTargets(ParentsOf(R))
           lv == LiveNodes \cup R
<1>1. /\ progress' = Recompute(progress, T, status, lv)
      /\ deletedAt' = [m \in Nodes |-> IF m \in R THEN NULL ELSE deletedAt[m]]
      /\ UNCHANGED <<life, parentId, status>>
      /\ Present(n)
  BY DEF UndeleteNode, RestoredParents, rowVars, linkVars, workflowVars
<1>2. R \in SUBSET Nodes /\ \A m \in R : Present(m)
  BY <1>1 DEF RestoreSet, Descendants
<1> HIDE DEF R
<1>3. lv \in SUBSET Nodes /\ LiveNext = lv
  BY <1>1, <1>2 DEF LiveNodes, LiveNext, Live, Present
<1>4. /\ \A c \in R : ParentOf[c] # NULL => ParentOf[c] \in T
      /\ \A m \in T \cap Nodes : ParentOf[m] # NULL => ParentOf[m] \in T
  BY <1>2, ParentsOfFacts
<1>5. ProgressRows'
  <2>1. DOMAIN Recompute(progress, T, status, lv) = Nodes
    BY <1>3, RecomputeEquation
  <2> QED
    BY <1>1, <2>1 DEF ProgressRows
<1> HIDE DEF T
<1>6. \A c \in Nodes : ParentOf[c] # NULL /\ ParentOf[c] \notin T => (c \in LiveNodes <=> c \in lv)
  BY <1>4
<1> HIDE DEF lv
<1>7. \A p \in Nodes : ParentFollows(p)
  BY <1>1, <1>3, <1>4, <1>6, RecomputeFollows
<1> QED
  BY <1>5, <1>7

\* Every operation of the store leaves parents following their children.
LEMMA NextFollows ==
    IndInv /\ ProgressRows /\ [Next]_vars => ProgressRows' /\ \A p \in Nodes : ParentFollows(p)
<1> SUFFICES ASSUME IndInv, ProgressRows, [Next]_vars
             PROVE  ProgressRows' /\ \A p \in Nodes : ParentFollows(p)
  OBVIOUS
<1> DEFINE Goal == ProgressRows' /\ \A p \in Nodes : ParentFollows(p)
<1>1. ASSUME UNCHANGED <<life, parentId, progress, deletedAt>>,
             \A c \in Nodes : status'[c] \in UncountedStatus <=> status[c] \in UncountedStatus
      PROVE  Goal
  BY <1>1, NothingMoves DEF ProgressRows
<1>2. ASSUME NEW S, NEW dp, AutoUnblock(S, status, prev, LiveNodes, dp)
      PROVE  \A c \in Nodes : status'[c] \in UncountedStatus <=> status[c] \in UncountedStatus
  BY <1>2, UnblockCounts DEF IndInv, ColumnsOK, BlockedRemembers
<1> HIDE DEF Goal
<1>3. ASSUME NEW n \in Nodes, NEW claimed \in BOOLEAN, CreateNode(n, claimed) PROVE Goal
  BY <1>3, CreateFollows DEF Goal
<1>4. ASSUME NEW n \in Nodes, ClaimNode(n) \/ UnclaimNode(n) PROVE Goal
  <2>1. /\ UNCHANGED <<life, parentId, progress, deletedAt>>
        /\ status[n] \in {"open", "deferred", "in_progress"}
        /\ \/ status' = [status EXCEPT ![n] = "in_progress"]
           \/ status' = [status EXCEPT ![n] = "open"]
    BY <1>4 DEF ClaimNode, UnclaimNode, Claimable, rowVars, linkVars, deleteVars
  <2>2. \A c \in Nodes : status'[c] \in UncountedStatus <=> status[c] \in UncountedStatus
    BY <2>1 DEF IndInv, ColumnsOK, UncountedStatus
  <2> QED
    BY <1>1, <2>1, <2>2
<1>5. ASSUME NEW n \in Nodes, WorkflowStep(n) PROVE Goal
  <2>1. ASSUME NEW to \in Status, ExecuteTransition(n, to) PROVE Goal
    BY <2>1, TransitionFollows DEF Goal
  <2>2. ASSUME NEW to \in StatusInputs, TransitionStatus(n, to) PROVE Goal
    BY <2>1, <2>2, InputsAssumption DEF TransitionStatus
  <2>3. ASSUME RestoreInvalidated(n) PROVE Goal
    <3>1. RestoreTarget(n) \in Status
      BY DEF RestoreTarget, IndInv, ColumnsOK, Status
    <3> QED
      BY <2>1, <2>3, <3>1 DEF RestoreInvalidated, TransitionStatus
  <2>4. ASSUME NEW until, DeferNode(n, until) PROVE Goal
    BY <2>1, <2>4 DEF DeferNode, Status
  <2>5. ASSUME NEW until, RedeferNode(n, until) PROVE Goal
    BY <1>1, <2>5 DEF RedeferNode, rowVars, linkVars, deleteVars
  <2>6. ASSUME NEW cascade \in BOOLEAN, CancelNode(n, cascade) PROVE Goal
    BY <2>6, CancelFollows DEF Goal
  <2>7. ASSUME RefreshBlocked(n) PROVE Goal
    BY <1>1, <1>2, <2>7 DEF RefreshBlocked, rowVars, linkVars, deleteVars
  <2> QED
    BY <1>5, <2>2, <2>3, <2>4, <2>5, <2>6, <2>7 DEF WorkflowStep
<1>6. ASSUME NEW n \in Nodes, DeleteStep(n) PROVE Goal
  <2>1. ASSUME UndeleteNode(n) PROVE Goal
    BY <2>1, UndeleteFollows DEF Goal
  <2>2. ASSUME NEW by \in Authors,
               \/ \E cascade \in BOOLEAN : DeleteNode(n, cascade, by)
               \/ \E root : DeleteNodeWithRoot(n, root, by)
               \/ ApplyDelete(n, by)
        PROVE  Goal
    BY <2>2, DeletesFollow DEF Goal
  <2> QED
    BY <1>6, <2>1, <2>2 DEF DeleteStep
<1>7. ASSUME NEW from \in Nodes, NEW to \in Nodes, Linked(from, to) PROVE Goal
  <2>1. UNCHANGED <<life, parentId, progress, deletedAt>>
    BY <1>7 DEF Linked, rowVars, linkVars, deleteVars
  <2>2. \A c \in Nodes : status'[c] \in UncountedStatus <=> status[c] \in UncountedStatus
    BY <1>7 DEF Linked, AutoBlock, Blockable, IndInv, ColumnsOK, UncountedStatus
  <2> QED
    BY <1>1, <2>1, <2>2
<1>8. ASSUME NEW from \in Nodes, NEW to \in Nodes, Unlink(from, to) PROVE Goal
  BY <1>1, <1>2, <1>8 DEF Unlink, rowVars, linkVars, deleteVars
<1>9. ASSUME Tick \/ UNCHANGED vars PROVE Goal
  BY <1>1, <1>9 DEF Tick, vars, rowVars, linkVars, workflowVars, deleteVars
<1>10. Goal
  BY <1>3, <1>4, <1>5, <1>6, <1>7, <1>8, <1>9, LinkKinds DEF Next, StoreStep, IndInv
<1> QED
  BY <1>10 DEF Goal

\* A step that changes what a parent's progress is computed from leaves it
\* with the average of its counted children (ProgressFollowsChildren), at
\* every level of every tree: each operation recomputes enough nodes, the
\* deepest first (recalculateProgress, and the cascades of cancel and delete).
THEOREM ProgressFollowsChildrenHolds == Spec => ProgressFollowsChildren
<1>1. Init => ProgressRows
  BY DEF Init, ProgressRows
<1>2. IndInv /\ ProgressRows /\ [Next]_vars
         => [\A p \in Nodes :
               LET Lv == {n \in Nodes : life'[n] = "present" /\ deletedAt'[n] = NULL}
                   Kids == {c \in Lv : parentId'[c] = p /\ status'[c] \notin UncountedStatus}
               IN  (/\ Live(p) /\ p \in Lv
                    /\ CountedProgress(p, status, LiveNodes, progress)
                           # {<<c, progress'[c]>> : c \in Kids})
                       => progress'[p] = IF Kids = {} THEN 0
                                         ELSE SumFunction([c \in Kids |-> progress'[c]])
                                                  \div Cardinality(Kids)]_vars
  BY NextFollows DEF ParentFollows, LiveNext, KidsNext
<1>3. IndInv /\ ProgressRows /\ [Next]_vars => ProgressRows'
  BY NextFollows
<1> QED
  BY <1>1, <1>2, <1>3, Invariance, PTL DEF Spec, ProgressFollowsChildren

-----------------------------------------------------------------------------
(* Claims: work in progress is somebody's.                                 *)

\* What the callers give the store: no interface passes in_progress to
\* TransitionStatus (a claim sets it), and no edit clears an assignee.
CallersClaim == "in_progress" \notin StatusInputs /\ NULL \notin AssigneeInputs

\* The statuses (with the remembered status) of work somebody must hold.
Held(s, p) == s = "in_progress" \/ (s \in {"blocked", "invalidated"} /\ p = "in_progress")

\* A step makes no node held that was not held before.
NoneNewlyHeld ==
    \A m \in Nodes : Held(status'[m], prev'[m]) => Held(status[m], prev[m])

\* autoUnblockNode returns a node to in_progress only if it remembers that.
LEMMA AutoUnblockHeld ==
    ASSUME NEW S, NEW st, NEW pv, NEW lv, NEW dp, AutoUnblock(S, st, pv, lv, dp)
    PROVE  \A m \in Nodes : Held(status'[m], prev'[m]) => Held(st[m], pv[m])
<1> DEFINE U == Unblocked(S, st, lv, dp)
<1>1. status' = UnblockedStatus(U, st, pv) /\ prev' = UnblockedPrev(U, pv)
  BY DEF AutoUnblock
<1>2. \A m \in U : st[m] = "blocked"
  BY UnblockedAreBlocked
<1> HIDE DEF U
<1>3. "in_progress" # NULL
  BY NodesAssumption DEF Status
<1> QED
  BY <1>1, <1>2, <1>3 DEF UnblockedStatus, UnblockedPrev, RestoreTo, Held

\* executeTransitionTx to a status other than in_progress, or from work held.
LEMMA ExecuteTransitionHeld ==
    ASSUME ColumnsOK, NEW n \in Nodes, NEW to \in Status, ExecuteTransition(n, to),
           to = "in_progress" => Held(status[n], prev[n])
    PROVE  NoneNewlyHeld
<1> DEFINE st == [status EXCEPT ![n] = to]
           pv == [prev EXCEPT ![n] = PrevAfter(@, status[n], to)]
           T == IF to \in ResolvingStatus THEN Dependents({n}) ELSE {}
<1>1. AutoUnblock(T, st, pv, LiveNodes, deps)
  BY DEF ExecuteTransition
<1>2. \A m \in Nodes : Held(status'[m], prev'[m]) => Held(st[m], pv[m])
  <2> HIDE DEF st, pv, T
  <2> QED
    BY <1>1, AutoUnblockHeld
<1>3. /\ \A m \in Nodes \ {n} : st[m] = status[m] /\ pv[m] = prev[m]
      /\ st[n] = to /\ pv[n] = PrevAfter(prev[n], status[n], to)
  BY DEF ColumnsOK
<1>4. Held(to, PrevAfter(prev[n], status[n], to)) => Held(status[n], prev[n])
  BY DEF Held, PrevAfter
<1> HIDE DEF st, pv
<1> QED
  BY <1>2, <1>3, <1>4 DEF NoneNewlyHeld

\* The workflow operations other than a claim make no node held.
LEMMA WorkflowHeld ==
    ASSUME ColumnsOK, CallersClaim, NEW n \in Nodes, WorkflowStep(n)
    PROVE  NoneNewlyHeld
<1>1. ASSUME NEW to \in StatusInputs, TransitionStatus(n, to) PROVE NoneNewlyHeld
  <2>1. to \in Status /\ to # "in_progress"
    BY InputsAssumption DEF CallersClaim
  <2> QED
    BY <1>1, <2>1, ExecuteTransitionHeld DEF TransitionStatus
<1>2. ASSUME RestoreInvalidated(n) PROVE NoneNewlyHeld
  <2>1. status[n] = "invalidated" /\ ExecuteTransition(n, RestoreTarget(n))
    BY <1>2 DEF RestoreInvalidated, TransitionStatus
  <2>2. /\ RestoreTarget(n) \in Status
        /\ RestoreTarget(n) = "in_progress" => prev[n] = "in_progress"
    BY DEF RestoreTarget, ColumnsOK, Status
  <2> QED
    BY <2>1, <2>2, ExecuteTransitionHeld DEF Held
<1>3. ASSUME NEW until \in WakeTimes \cup {NULL}, DeferNode(n, until) PROVE NoneNewlyHeld
  <2>1. "deferred" \in Status
    BY DEF Status
  <2> QED
    BY <1>3, <2>1, ExecuteTransitionHeld DEF DeferNode
<1>4. ASSUME NEW until \in WakeTimes \cup {NULL}, RedeferNode(n, until) PROVE NoneNewlyHeld
  BY <1>4 DEF RedeferNode, NoneNewlyHeld
<1>5. ASSUME NEW cascade \in BOOLEAN, CancelNode(n, cascade) PROVE NoneNewlyHeld
  <2> DEFINE C == IF cascade THEN CascadeCancelled(n) ELSE {}
             st == [m \in Nodes |-> IF m \in C \cup {n} THEN "cancelled" ELSE status[m]]
             T == Dependents(UnblockSources(n, C))
  <2>1. AutoUnblock(T, st, prev, LiveNodes, deps)
    BY <1>5 DEF CancelNode
  <2>2. \A m \in Nodes : Held(st[m], prev[m]) => Held(status[m], prev[m])
    BY DEF Held
  <2> HIDE DEF st, T
  <2> QED
    BY <2>1, <2>2, AutoUnblockHeld DEF NoneNewlyHeld
<1>6. ASSUME RefreshBlocked(n) PROVE NoneNewlyHeld
  BY <1>6, AutoUnblockHeld DEF RefreshBlocked, NoneNewlyHeld
<1> QED
  BY <1>1, <1>2, <1>3, <1>4, <1>5, <1>6 DEF WorkflowStep

\* Deletes and undeletes, dependencies and the clock make no node held.
LEMMA OtherStepsHeld ==
    ASSUME ColumnsOK,
           \/ \E n \in Nodes : DeleteStep(n)
           \/ LinkStep
           \/ Tick
    PROVE  NoneNewlyHeld
<1>1. ASSUME NEW n \in Nodes, DeleteStep(n) PROVE NoneNewlyHeld
  BY <1>1 DEF DeleteStep, DeleteNode, DeleteNodeWithRoot, DeleteRows, ApplyDelete, UndeleteNode,
              workflowVars, NoneNewlyHeld
<1>2. ASSUME NEW from \in Nodes, NEW to \in Nodes, Linked(from, to)
      PROVE  NoneNewlyHeld
  <2>1. CASE Blockable(to)
    <3>1. /\ \A m \in Nodes \ {to} : status'[m] = status[m] /\ prev'[m] = prev[m]
          /\ status'[to] = "blocked" /\ prev'[to] = status[to]
      BY <1>2, <2>1 DEF Linked, AutoBlock, ColumnsOK
    <3> QED
      BY <3>1 DEF Held, NoneNewlyHeld
  <2>2. CASE ~Blockable(to)
    BY <1>2, <2>2 DEF Linked, AutoBlock, NoneNewlyHeld
  <2> QED
    BY <2>1, <2>2
<1>3. ASSUME NEW from \in Nodes, NEW to \in Nodes, Unlink(from, to)
      PROVE  NoneNewlyHeld
  BY <1>3, AutoUnblockHeld DEF Unlink, NoneNewlyHeld
<1>4. ASSUME Tick PROVE NoneNewlyHeld
  BY <1>4 DEF Tick, workflowVars, NoneNewlyHeld
<1> QED
  BY <1>1, <1>2, <1>3, <1>4, LinkKinds

-----------------------------------------------------------------------------
(* Claims: the agents table.                                               *)

\* The two kinds of service call between their read and their write: the node
\* of an unclaim, and a state report of an agent that is registered.
CallsOK ==
    \A call \in calls :
        \/ call.op = "unclaim" /\ call.node \in Nodes
        \/ /\ call.op = "state" /\ call.actor \in Agents /\ call.to \in AgentState
           /\ agent[call.actor] # NULL

AgentsOK ==
    /\ assignee \in [Nodes -> Agents \cup {NULL}]
    /\ agent \in [Agents -> AgentRows \cup {NULL}]
    /\ CallsOK

\* The inductive invariant of the claims module.
ClaimsInd == IndInv /\ AgentsOK

\* Every step of the claims module is a step of the store, or leaves it alone.
LEMMA ClaimsStepIsStoreStep == CallsOK /\ [ClaimsNext]_claimVars => [Next]_vars
<1> SUFFICES ASSUME CallsOK, [ClaimsNext]_claimVars PROVE [Next]_vars
  OBVIOUS
<1>1. ASSUME NEW n \in Nodes, NEW a \in Agents \cup {NULL}, CreateFor(n, a) PROVE Next
  <2>1. (a # NULL) \in BOOLEAN /\ CreateNode(n, a # NULL)
    BY <1>1 DEF CreateFor
  <2> QED
    BY <2>1 DEF Next
<1>2. ASSUME NEW n \in Nodes, NEW a \in Agents, ClaimFor(n, a) \/ ForceReclaimNode(n, a)
      PROVE  [Next]_vars
  BY <1>2 DEF ClaimFor, ForceReclaimNode, Next
<1>3. ASSUME NEW n \in Nodes, NEW a \in AssigneeInputs, UpdateAssignee(n, a)
      PROVE  UNCHANGED vars
  BY <1>3 DEF UpdateAssignee
<1>4. ASSUME NEW n \in Nodes, NEW a \in Agents, NEW force \in BOOLEAN, UnclaimRead(n, a, force)
      PROVE  UNCHANGED vars
  BY <1>4 DEF UnclaimRead
<1>5. ASSUME NEW a \in Agents,
             \/ RegisterAgent(a) \/ Heartbeat(a)
             \/ \E to \in AgentState : UpdateAgentStateRead(a, to)
      PROVE  UNCHANGED vars
  BY <1>5 DEF RegisterAgent, Heartbeat, UpdateAgentStateRead
<1>6. ASSUME NEW call \in calls, UnclaimWrite(call) PROVE [Next]_vars
  <2>1. call.node \in Nodes
    BY <1>6 DEF UnclaimWrite, CallsOK
  <2>2. UnclaimNode(call.node) \/ UNCHANGED vars
    BY <1>6 DEF UnclaimWrite, Release
  <2> QED
    BY <2>1, <2>2 DEF Next
<1>7. ASSUME NEW call \in calls, UpdateAgentStateWrite(call) PROVE UNCHANGED vars
  BY <1>7 DEF UpdateAgentStateWrite
<1>8. ASSUME StoreStep PROVE Next
  BY <1>8 DEF Next
<1>9. ASSUME UNCHANGED claimVars PROVE UNCHANGED vars
  BY <1>9 DEF claimVars
<1> QED
  BY <1>1, <1>2, <1>3, <1>4, <1>5, <1>6, <1>7, <1>8, <1>9 DEF ClaimsNext

\* ensureAndSyncAgent and the reset of an agent's row write rows of the table.
LEMMA AgentRowsWritten ==
    ASSUME ColumnsOK, AgentsOK, NEW a \in Agents
    PROVE  /\ NewRow \in AgentRows
           /\ agent[a] # NULL => agent[a] \in AgentRows
           /\ \A n \in Nodes : /\ RowWorkingOn(a, n) \in AgentRows
                               /\ RowWorkingOn(a, n).current = n
           /\ agent[a] = NULL => RowReset(a) = NULL
           /\ agent[a] # NULL => RowReset(a) \in AgentRows /\ RowReset(a).current = NULL
<1>1. now \in Nat
  BY ClockAssumption DEF ColumnsOK
<1>2. NewRow \in AgentRows
  BY <1>1 DEF NewRow, AgentRows, AgentState
<1>3. agent[a] # NULL => agent[a] \in AgentRows
  BY DEF AgentsOK
<1>4. ASSUME NEW n \in Nodes, NEW r \in AgentRows
      PROVE  /\ [r EXCEPT !.state = "working", !.current = n] \in AgentRows
             /\ [r EXCEPT !.state = "working", !.current = n].current = n
  BY <1>4 DEF AgentRows, AgentState
<1>5. ASSUME NEW n \in Nodes
      PROVE  RowWorkingOn(a, n) \in AgentRows /\ RowWorkingOn(a, n).current = n
  BY <1>2, <1>3, <1>4 DEF RowWorkingOn
<1>6. agent[a] # NULL => RowReset(a) \in AgentRows /\ RowReset(a).current = NULL
  <2>1. ASSUME NEW r \in AgentRows
        PROVE  /\ [r EXCEPT !.state = "idle", !.current = NULL] \in AgentRows
               /\ [r EXCEPT !.state = "idle", !.current = NULL].current = NULL
    BY <2>1 DEF AgentRows, AgentState
  <2> QED
    BY <1>3, <2>1 DEF RowReset
<1> QED
  BY <1>2, <1>3, <1>5, <1>6 DEF RowReset

\* What a step may do to the agents table: rows stay rows, none is removed,
\* and the calls under way stay calls.
AgentsWritten ==
    /\ assignee' \in [Nodes -> Agents \cup {NULL}]
    /\ agent' \in [Agents -> AgentRows \cup {NULL}]
    /\ \A a \in Agents : agent[a] # NULL => agent'[a] # NULL
    /\ calls' \subseteq calls

\* Such a step preserves the types.
LEMMA AgentsWrittenOK ==
    ASSUME AgentsOK, AgentsWritten
    PROVE  AgentsOK'
<1>1. CallsOK'
  <2> SUFFICES ASSUME NEW call \in calls'
               PROVE  \/ call.op = "unclaim" /\ call.node \in Nodes
                      \/ /\ call.op = "state" /\ call.actor \in Agents /\ call.to \in AgentState
                         /\ agent'[call.actor] # NULL
    BY DEF CallsOK
  <2> QED
    BY DEF AgentsOK, CallsOK, AgentsWritten
<1> QED
  BY <1>1 DEF AgentsOK, AgentsWritten

\* Creates, claims, forced claims and edits.
LEMMA ClaimingWrites ==
    ASSUME ColumnsOK, AgentsOK, NEW n \in Nodes,
           \/ \E a \in Agents \cup {NULL} : CreateFor(n, a)
           \/ \E a \in Agents : ClaimFor(n, a) \/ ForceReclaimNode(n, a)
           \/ \E a \in AssigneeInputs : UpdateAssignee(n, a)
    PROVE  AgentsWritten
<1>1. ASSUME NEW a \in Agents \cup {NULL}, CreateFor(n, a) PROVE AgentsWritten
  <2>1. CASE a = NULL
    BY <1>1, <2>1 DEF CreateFor, AgentsOK, AgentsWritten
  <2>2. CASE a \in Agents
    <3>1. RowWorkingOn(a, n) \in AgentRows /\ RowWorkingOn(a, n) # NULL
      BY <2>2, AgentRowsWritten, AgentsAssumption
    <3>2. a # NULL
      BY <2>2, AgentsAssumption
    <3> QED
      BY <1>1, <2>2, <3>1, <3>2 DEF CreateFor, AgentsOK, AgentsWritten
  <2> QED
    BY <2>1, <2>2
<1>2. ASSUME NEW a \in Agents, ClaimFor(n, a) PROVE AgentsWritten
  <2>1. RowWorkingOn(a, n) \in AgentRows /\ RowWorkingOn(a, n) # NULL
    BY AgentRowsWritten, AgentsAssumption
  <2> QED
    BY <1>2, <2>1 DEF ClaimFor, AgentsOK, AgentsWritten
<1>3. ASSUME NEW a \in Agents, ForceReclaimNode(n, a) PROVE AgentsWritten
  <2> DEFINE old == assignee[n]
             reset == IF old = NULL THEN agent ELSE [agent EXCEPT ![old] = RowReset(old)]
  <2>1. RowWorkingOn(a, n) \in AgentRows /\ RowWorkingOn(a, n) # NULL
    BY AgentRowsWritten, AgentsAssumption
  <2>2. /\ reset \in [Agents -> AgentRows \cup {NULL}]
        /\ \A b \in Agents : agent[b] # NULL => reset[b] # NULL
    <3>1. CASE old = NULL
      BY <3>1 DEF AgentsOK
    <3>2. CASE old \in Agents
      <4>1. /\ RowReset(old) \in AgentRows \cup {NULL}
            /\ agent[old] # NULL => RowReset(old) # NULL
        BY <3>2, AgentRowsWritten, AgentsAssumption
      <4> QED
        BY <3>2, <4>1, AgentsAssumption DEF AgentsOK
    <3> QED
      BY <3>1, <3>2 DEF AgentsOK
  <2>3. /\ agent' = [reset EXCEPT ![a] = RowWorkingOn(a, n)]
        /\ assignee' = [assignee EXCEPT ![n] = a] /\ calls' = calls
    BY <1>3 DEF ForceReclaimNode
  <2> HIDE DEF reset
  <2> QED
    BY <2>1, <2>2, <2>3 DEF AgentsOK, AgentsWritten
<1>4. ASSUME NEW a \in AssigneeInputs, UpdateAssignee(n, a) PROVE AgentsWritten
  BY <1>4, AgentsAssumption DEF UpdateAssignee, AgentsOK, AgentsWritten
<1> QED
  BY <1>1, <1>2, <1>3, <1>4

\* Registrations, heartbeats and the second steps of the service calls.
LEMMA RowsWritten ==
    ASSUME ColumnsOK, AgentsOK,
           \/ \E a \in Agents : RegisterAgent(a) \/ Heartbeat(a)
           \/ \E call \in calls : UnclaimWrite(call) \/ UpdateAgentStateWrite(call)
    PROVE  AgentsWritten
<1>0. now \in Nat
  BY ClockAssumption DEF ColumnsOK
<1>1. ASSUME NEW a \in Agents, RegisterAgent(a) PROVE AgentsWritten
  <2>1. CASE agent[a] = NULL
    <3>1. NewRow \in AgentRows /\ NewRow # NULL
      BY AgentRowsWritten, AgentsAssumption
    <3> QED
      BY <1>1, <2>1, <3>1 DEF RegisterAgent, AgentsOK, AgentsWritten
  <2>2. CASE agent[a] # NULL
    <3>1. agent[a] \in AgentRows
      BY <2>2, AgentRowsWritten
    <3>2. [agent[a] EXCEPT !.heartbeat = now] \in AgentRows
      BY <1>0, <3>1 DEF AgentRows
    <3>3. [agent[a] EXCEPT !.heartbeat = now] # NULL
      BY <3>2, AgentsAssumption
    <3> QED
      BY <1>1, <2>2, <3>2, <3>3 DEF RegisterAgent, AgentsOK, AgentsWritten
  <2> QED
    BY <2>1, <2>2
<1>2. ASSUME NEW a \in Agents, Heartbeat(a) PROVE AgentsWritten
  <2>1. agent[a] \in AgentRows
    BY <1>2, AgentRowsWritten DEF Heartbeat
  <2>2. [agent[a] EXCEPT !.heartbeat = now] \in AgentRows
    BY <1>0, <2>1 DEF AgentRows
  <2>3. [agent[a] EXCEPT !.heartbeat = now] # NULL
    BY <2>2, AgentsAssumption
  <2>4. agent' = [agent EXCEPT ![a] = [agent[a] EXCEPT !.heartbeat = now]]
    BY <1>2 DEF Heartbeat, AgentsOK
  <2> QED
    BY <1>2, <2>2, <2>3, <2>4 DEF Heartbeat, AgentsOK, AgentsWritten
<1>3. ASSUME NEW call \in calls, UnclaimWrite(call) PROVE AgentsWritten
  <2> DEFINE n == call.node
  <2>1. n \in Nodes /\ calls' \subseteq calls
    BY <1>3 DEF UnclaimWrite, AgentsOK, CallsOK
  <2>2. CASE UNCHANGED <<assignee, agent>>
    BY <2>1, <2>2 DEF AgentsOK, AgentsWritten
  <2>3. CASE Release(n)
    <3>1. assignee' \in [Nodes -> Agents \cup {NULL}]
      BY <2>1, <2>3 DEF Release, AgentsOK
    <3>2. CASE assignee[n] = NULL
      BY <2>1, <2>3, <3>1, <3>2 DEF Release, AgentsOK, AgentsWritten
    <3>3. CASE assignee[n] # NULL
      <4>1. assignee[n] \in Agents
        BY <2>1, <3>3 DEF AgentsOK
      <4>2. /\ RowReset(assignee[n]) \in AgentRows \cup {NULL}
            /\ agent[assignee[n]] # NULL => RowReset(assignee[n]) # NULL
        BY <4>1, AgentRowsWritten, AgentsAssumption
      <4>3. agent' = [agent EXCEPT ![assignee[n]] = RowReset(assignee[n])]
        BY <2>3, <3>3 DEF Release
      <4> QED
        BY <2>1, <3>1, <4>1, <4>2, <4>3 DEF AgentsOK, AgentsWritten
    <3> QED
      BY <3>2, <3>3
  <2> QED
    BY <1>3, <2>2, <2>3 DEF UnclaimWrite
<1>4. ASSUME NEW call \in calls, UpdateAgentStateWrite(call) PROVE AgentsWritten
  <2> DEFINE a == call.actor
  <2>1. a \in Agents /\ call.to \in AgentState /\ agent[a] # NULL
    BY <1>4 DEF UpdateAgentStateWrite, AgentsOK, CallsOK
  <2>2. agent[a] \in AgentRows
    BY <2>1, AgentRowsWritten
  <2>3. [agent[a] EXCEPT !.state = call.to] \in AgentRows
    BY <2>1, <2>2 DEF AgentRows
  <2>4. [agent[a] EXCEPT !.state = call.to] # NULL
    BY <2>3, AgentsAssumption
  <2>5. /\ agent' = [agent EXCEPT ![a] = [agent[a] EXCEPT !.state = call.to]]
        /\ calls' \subseteq calls /\ assignee' = assignee
    BY <1>4 DEF UpdateAgentStateWrite, AgentsOK
  <2> QED
    BY <2>1, <2>3, <2>4, <2>5 DEF AgentsOK, AgentsWritten
<1> QED
  BY <1>1, <1>2, <1>3, <1>4

\* The first steps of the service calls add a call of the right type.
LEMMA CallsRead ==
    ASSUME AgentsOK,
           \/ \E n \in Nodes, a \in Agents, force \in BOOLEAN : UnclaimRead(n, a, force)
           \/ \E a \in Agents, to \in AgentState : UpdateAgentStateRead(a, to)
    PROVE  AgentsOK'
<1>1. ASSUME NEW n \in Nodes, NEW a \in Agents, NEW force \in BOOLEAN, UnclaimRead(n, a, force)
      PROVE  AgentsOK'
  BY <1>1 DEF UnclaimRead, AgentsOK, CallsOK
<1>2. ASSUME NEW a \in Agents, NEW to \in AgentState, UpdateAgentStateRead(a, to)
      PROVE  AgentsOK'
  BY <1>2 DEF UpdateAgentStateRead, AgentsOK, CallsOK
<1> QED
  BY <1>1, <1>2

\* Every step preserves the inductive invariant of the claims module.
LEMMA ClaimsNextInd == ClaimsInd /\ [ClaimsNext]_claimVars => ClaimsInd'
<1> SUFFICES ASSUME ClaimsInd, [ClaimsNext]_claimVars PROVE ClaimsInd'
  OBVIOUS
<1>1. ColumnsOK /\ AgentsOK
  BY DEF ClaimsInd, IndInv
<1>2. IndInv'
  BY ClaimsStepIsStoreStep, NextInd DEF ClaimsInd, AgentsOK
<1>3. ASSUME UNCHANGED agentVars PROVE AgentsOK'
  BY <1>1, <1>3 DEF agentVars, AgentsOK, CallsOK
<1>4. AgentsOK'
  <2>1. ASSUME \/ \E n \in Nodes, a \in Agents \cup {NULL} : CreateFor(n, a)
               \/ \E n \in Nodes, a \in Agents : ClaimFor(n, a) \/ ForceReclaimNode(n, a)
               \/ \E n \in Nodes, a \in AssigneeInputs : UpdateAssignee(n, a)
        PROVE  AgentsOK'
    BY <1>1, <2>1, ClaimingWrites, AgentsWrittenOK
  <2>2. ASSUME \/ \E a \in Agents : RegisterAgent(a) \/ Heartbeat(a)
               \/ \E call \in calls : UnclaimWrite(call) \/ UpdateAgentStateWrite(call)
        PROVE  AgentsOK'
    BY <1>1, <2>2, RowsWritten, AgentsWrittenOK
  <2> QED
    BY <1>1, <1>3, <2>1, <2>2, CallsRead DEF ClaimsNext, claimVars, agentVars
<1> QED
  BY <1>2, <1>4 DEF ClaimsInd

\* Every reachable state of the claims module satisfies its invariant.
LEMMA ClaimsInvariance == ClaimsSpec => []ClaimsInd
<1>1. ClaimsInit => ClaimsInd
  <2> SUFFICES ASSUME ClaimsInit PROVE ClaimsInd
    OBVIOUS
  <2>1. IndInv
    BY InitInd DEF ClaimsInit
  <2>2. AgentsOK
    BY DEF ClaimsInit, AgentsOK, CallsOK
  <2> QED
    BY <2>1, <2>2 DEF ClaimsInd
<1> QED
  BY <1>1, ClaimsNextInd, PTL DEF ClaimsSpec

\* Claims, forced claims, unclaims and state reports, with their reads and
\* writes interleaved, are a behaviour of the store: every theorem about Spec
\* holds of them too.
THEOREM ClaimsImplementStore == ClaimsSpec => Spec
<1>1. ClaimsInit => Init
  BY DEF ClaimsInit
<1>2. ClaimsInd /\ [ClaimsNext]_claimVars => [Next]_vars
  BY ClaimsStepIsStoreStep DEF ClaimsInd, AgentsOK
<1> QED
  BY <1>1, <1>2, ClaimsInvariance, PTL DEF ClaimsSpec, Spec

-----------------------------------------------------------------------------
\* No step leaves work in progress with nobody to finish it.
LEMMA HeldStep ==
    ASSUME CallersClaim, ClaimsInd, InProgressHasAssignee, [ClaimsNext]_claimVars
    PROVE  InProgressHasAssignee'
<1> DEFINE Had(n) == Held(status[n], prev[n]) => assignee[n] # NULL
           Has(n) == Held(status'[n], prev'[n]) => assignee'[n] # NULL
<1>1. \A n \in Nodes : Had(n)
  BY DEF InProgressHasAssignee, Held
<1>2. SUFFICES \A n \in Nodes : Has(n)
  BY <1>2 DEF InProgressHasAssignee, Held
<1>3. ColumnsOK /\ UnusedIsOpen /\ AgentsOK /\ NULL \notin Agents
  BY AgentsAssumption DEF ClaimsInd, IndInv
<1>4. ASSUME NoneNewlyHeld, UNCHANGED assignee PROVE \A n \in Nodes : Has(n)
  BY <1>1, <1>4 DEF NoneNewlyHeld
<1>5. ASSUME UNCHANGED <<status, prev, assignee>> PROVE \A n \in Nodes : Has(n)
  BY <1>1, <1>5
<1>6. ASSUME NEW n \in Nodes, NEW a \in Agents \cup {NULL}, CreateFor(n, a)
      PROVE  \A m \in Nodes : Has(m)
  <2>1. /\ status' = [status EXCEPT ![n] = IF a # NULL THEN "in_progress" ELSE "open"]
        /\ prev' = prev /\ assignee' = [assignee EXCEPT ![n] = a]
    BY <1>6 DEF CreateFor, CreateNode
  <2>2. \A m \in Nodes \ {n} : /\ status'[m] = status[m] /\ prev'[m] = prev[m]
                               /\ assignee'[m] = assignee[m]
    BY <1>3, <2>1 DEF ColumnsOK, AgentsOK
  <2>3. status'[n] \in {"open", "in_progress"} /\ (status'[n] = "in_progress" => a # NULL)
        /\ assignee'[n] = a
    BY <1>3, <2>1 DEF ColumnsOK, AgentsOK
  <2>4. Has(n)
    BY <2>3 DEF Held
  <2> QED
    BY <1>1, <2>2, <2>4
<1>7. ASSUME NEW n \in Nodes, NEW a \in Agents, ClaimFor(n, a) PROVE \A m \in Nodes : Has(m)
  <2>1. /\ \A m \in Nodes \ {n} : /\ status'[m] = status[m] /\ prev'[m] = prev[m]
                                  /\ assignee'[m] = assignee[m]
        /\ assignee'[n] = a
    BY <1>3, <1>7 DEF ClaimFor, ClaimNode, ColumnsOK, AgentsOK
  <2> QED
    BY <1>1, <1>3, <2>1
<1>8. ASSUME NEW n \in Nodes, NEW a \in Agents, UNCHANGED <<status, prev>>,
             assignee' = [assignee EXCEPT ![n] = a]
      PROVE \A m \in Nodes : Has(m)
  <2>1. /\ \A m \in Nodes \ {n} : /\ status'[m] = status[m] /\ prev'[m] = prev[m]
                                  /\ assignee'[m] = assignee[m]
        /\ assignee'[n] = a
    BY <1>3, <1>8 DEF AgentsOK
  <2> QED
    BY <1>1, <1>3, <2>1
<1>9. ASSUME NEW n \in Nodes, NEW a \in Agents, ForceReclaimNode(n, a)
      PROVE  \A m \in Nodes : Has(m)
  BY <1>8, <1>9 DEF ForceReclaimNode, vars
<1>10. ASSUME NEW n \in Nodes, NEW a \in AssigneeInputs, UpdateAssignee(n, a)
      PROVE  \A m \in Nodes : Has(m)
  <2>1. a \in Agents
    BY AgentsAssumption DEF CallersClaim
  <2> QED
    BY <1>8, <1>10, <2>1 DEF UpdateAssignee, vars
<1>11. ASSUME NEW n \in Nodes, Release(n) PROVE \A m \in Nodes : Has(m)
  <2>1. /\ \A m \in Nodes \ {n} : /\ status'[m] = status[m] /\ prev'[m] = prev[m]
                                  /\ assignee'[m] = assignee[m]
        /\ status'[n] = "open"
    BY <1>3, <1>11 DEF Release, UnclaimNode, ColumnsOK, AgentsOK
  <2>2. Has(n)
    BY <2>1 DEF Held
  <2> QED
    BY <1>1, <2>1, <2>2
<1>12. ASSUME NEW call \in calls, UnclaimWrite(call) PROVE \A m \in Nodes : Has(m)
  <2>1. call.node \in Nodes
    BY <1>3, <1>12 DEF UnclaimWrite, AgentsOK, CallsOK
  <2>2. Release(call.node) \/ UNCHANGED <<status, prev, assignee>>
    BY <1>12 DEF UnclaimWrite, vars
  <2> QED
    BY <1>5, <1>11, <2>1, <2>2
<1>13. ASSUME \/ \E n \in Nodes, a \in Agents, force \in BOOLEAN : UnclaimRead(n, a, force)
              \/ \E a \in Agents : RegisterAgent(a) \/ Heartbeat(a)
              \/ \E a \in Agents, to \in AgentState : UpdateAgentStateRead(a, to)
              \/ \E call \in calls : UpdateAgentStateWrite(call)
              \/ UNCHANGED claimVars
       PROVE  UNCHANGED <<status, prev, assignee>>
  BY <1>13 DEF UnclaimRead, RegisterAgent, Heartbeat, UpdateAgentStateRead,
               UpdateAgentStateWrite, claimVars, agentVars, vars
<1>14. ASSUME StoreStep PROVE NoneNewlyHeld
  BY <1>3, <1>14, WorkflowHeld, OtherStepsHeld DEF StoreStep
<1> HIDE DEF Has, Had
<1> QED
  BY <1>4, <1>5, <1>6, <1>7, <1>9, <1>10, <1>12, <1>13, <1>14 DEF ClaimsNext, agentVars

\* Work in progress always has an assignee (InProgressHasAssignee), for any
\* nodes, agents and interleaving of claims, unclaims, blocks and restores.
THEOREM InProgressHasAssigneeHolds ==
    ASSUME CallersClaim
    PROVE  ClaimsSpec => []InProgressHasAssignee
<1>1. ClaimsInit => InProgressHasAssignee
  BY DEF ClaimsInit, Init, InProgressHasAssignee
<1>2. ClaimsInd /\ InProgressHasAssignee /\ [ClaimsNext]_claimVars => InProgressHasAssignee'
  BY HeldStep
<1> QED
  BY <1>1, <1>2, ClaimsInvariance, PTL DEF ClaimsSpec

-----------------------------------------------------------------------------
(* Claims: nobody takes over from an active agent.                         *)

\* What NoTakeoverFromActiveAgent asks of one step.
NoTakeoverStep ==
    \A n \in Nodes, a, b \in Agents :
        (/\ a # b
         /\ status[n] = "in_progress" /\ assignee[n] = a
         /\ agent'[b] # NULL /\ agent'[b].current = n
         /\ agent[b] = NULL \/ agent[b].current # n)
            => agent[a] = NULL \/ now - agent[a].heartbeat >= StaleAfter

\* Agent b becomes the worker on node n in this step.
TakesUp(b, n) ==
    /\ agent'[b] # NULL /\ agent'[b].current = n
    /\ agent[b] = NULL \/ agent[b].current # n

\* An agent takes up a node only where ensureAndSyncAgent says so: by a claim,
\* alone or in a create, or by a forced claim.
LEMMA TakesUpByClaim ==
    ASSUME ClaimsInd, [ClaimsNext]_claimVars, NEW n \in Nodes, NEW b \in Agents, TakesUp(b, n)
    PROVE  \/ CreateFor(n, b)
           \/ ClaimFor(n, b)
           \/ ForceReclaimNode(n, b)
<1>1. ColumnsOK /\ AgentsOK /\ n # NULL
  BY NodesAssumption DEF ClaimsInd, IndInv
<1>2. agent'[b] # agent[b]
  BY DEF TakesUp
<1>3. agent \in [Agents -> AgentRows \cup {NULL}]
  BY <1>1 DEF AgentsOK
<1>4. ASSUME NEW m \in Nodes, NEW a \in Agents, agent' = [agent EXCEPT ![a] = RowWorkingOn(a, m)]
      PROVE  a = b /\ m = n
  <2>1. a = b
    BY <1>2, <1>3, <1>4
  <2>2. agent'[b] = RowWorkingOn(b, m)
    BY <1>3, <1>4, <2>1
  <2>3. RowWorkingOn(b, m).current = m
    BY <1>1, AgentRowsWritten
  <2> QED
    BY <2>1, <2>2, <2>3 DEF TakesUp
<1>5. ASSUME NEW m \in Nodes, NEW a \in Agents \cup {NULL}, CreateFor(m, a)
      PROVE  CreateFor(n, b)
  <2>1. a # NULL
    BY <1>2, <1>5 DEF CreateFor
  <2>2. a \in Agents /\ agent' = [agent EXCEPT ![a] = RowWorkingOn(a, m)]
    BY <1>5, <2>1 DEF CreateFor
  <2> QED
    BY <1>4, <1>5, <2>2
<1>6. ASSUME NEW m \in Nodes, NEW a \in Agents, ClaimFor(m, a)
      PROVE  ClaimFor(n, b)
  <2>1. agent' = [agent EXCEPT ![a] = RowWorkingOn(a, m)]
    BY <1>6 DEF ClaimFor
  <2> QED
    BY <1>4, <1>6, <2>1
<1>7. ASSUME NEW a \in Agents, agent'[a] = RowReset(a)
      PROVE  a # b
  <2> SUFFICES ASSUME a = b PROVE FALSE
    OBVIOUS
  <2>1. CASE agent[b] = NULL
    BY <1>1, <1>7, <2>1, AgentRowsWritten DEF TakesUp
  <2>2. CASE agent[b] # NULL
    BY <1>1, <1>7, <2>2, AgentRowsWritten DEF TakesUp
  <2> QED
    BY <2>1, <2>2
<1>8. ASSUME NEW m \in Nodes, NEW a \in Agents, ForceReclaimNode(m, a)
      PROVE  ForceReclaimNode(n, b)
  <2> DEFINE old == assignee[m]
             reset == IF old = NULL THEN agent ELSE [agent EXCEPT ![old] = RowReset(old)]
  <2>1. agent' = [reset EXCEPT ![a] = RowWorkingOn(a, m)]
    BY <1>8 DEF ForceReclaimNode
  <2>2. old \in Agents \cup {NULL}
    BY <1>1 DEF AgentsOK
  <2>3. DOMAIN reset = Agents
    BY <1>3
  <2>4. a = b
    <3> SUFFICES ASSUME a # b PROVE FALSE
      OBVIOUS
    <3>1. agent'[b] = reset[b]
      BY <2>1, <2>3
    <3>2. old = b /\ old # NULL
      BY <1>2, <1>3, <3>1
    <3>3. agent'[b] = RowReset(b)
      BY <1>3, <3>1, <3>2
    <3> QED
      BY <1>7, <3>3
  <2>5. agent'[b] = RowWorkingOn(b, m)
    BY <2>1, <2>3, <2>4
  <2>6. RowWorkingOn(b, m).current = m
    BY <1>1, AgentRowsWritten
  <2>7. m = n
    BY <2>5, <2>6 DEF TakesUp
  <2> QED
    BY <1>8, <2>4, <2>7
<1>9. ASSUME NEW a \in Agents, RegisterAgent(a) PROVE FALSE
  <2>1. a = b
    BY <1>2, <1>3, <1>9 DEF RegisterAgent
  <2>2. CASE agent[b] = NULL
    BY <1>1, <1>3, <1>9, <2>1, <2>2 DEF RegisterAgent, NewRow, TakesUp
  <2>3. CASE agent[b] # NULL
    <3>1. agent[b] \in AgentRows /\ agent'[b] = [agent[b] EXCEPT !.heartbeat = now]
      BY <1>3, <1>9, <2>1, <2>3 DEF RegisterAgent
    <3>2. agent'[b].current = agent[b].current
      BY <3>1 DEF AgentRows
    <3> QED
      BY <2>3, <3>2 DEF TakesUp
  <2> QED
    BY <2>2, <2>3
<1>10. ASSUME NEW a \in Agents, Heartbeat(a) PROVE FALSE
  <2>1. a = b /\ agent[b] # NULL
    BY <1>2, <1>3, <1>10 DEF Heartbeat
  <2>2. agent[b] \in AgentRows /\ agent'[b] = [agent[b] EXCEPT !.heartbeat = now]
    BY <1>3, <1>10, <2>1 DEF Heartbeat
  <2>3. agent'[b].current = agent[b].current
    BY <2>2 DEF AgentRows
  <2> QED
    BY <2>1, <2>3 DEF TakesUp
<1>11. ASSUME NEW call \in calls, UnclaimWrite(call) PROVE FALSE
  <2>1. call.node \in Nodes
    BY <1>1, <1>11 DEF UnclaimWrite, AgentsOK, CallsOK
  <2>2. Release(call.node)
    BY <1>2, <1>11 DEF UnclaimWrite
  <2>3. assignee[call.node] # NULL
    BY <1>2, <2>2 DEF Release
  <2>4. /\ assignee[call.node] \in Agents
        /\ agent' = [agent EXCEPT ![assignee[call.node]] = RowReset(assignee[call.node])]
    BY <1>1, <2>1, <2>2, <2>3 DEF Release, AgentsOK
  <2>5. assignee[call.node] = b /\ agent'[b] = RowReset(b)
    BY <1>2, <1>3, <2>4
  <2> QED
    BY <1>7, <2>5
<1>12. ASSUME NEW call \in calls, UpdateAgentStateWrite(call) PROVE FALSE
  <2>1. call.actor \in Agents /\ agent[call.actor] # NULL
    BY <1>1, <1>12 DEF UpdateAgentStateWrite, AgentsOK, CallsOK
  <2>2. /\ call.actor = b /\ agent[b] \in AgentRows
        /\ agent'[b] = [agent[b] EXCEPT !.state = call.to]
    BY <1>2, <1>3, <1>12, <2>1 DEF UpdateAgentStateWrite
  <2>3. agent'[b].current = agent[b].current
    BY <2>2 DEF AgentRows
  <2> QED
    BY <2>1, <2>2, <2>3 DEF TakesUp
<1>13. ASSUME \/ \E m \in Nodes, a \in AssigneeInputs : UpdateAssignee(m, a)
              \/ \E m \in Nodes, a \in Agents, force \in BOOLEAN : UnclaimRead(m, a, force)
              \/ \E a \in Agents, to \in AgentState : UpdateAgentStateRead(a, to)
              \/ UNCHANGED agentVars
       PROVE  FALSE
  BY <1>2, <1>13 DEF UpdateAssignee, UnclaimRead, UpdateAgentStateRead, agentVars
<1> QED
  BY <1>5, <1>6, <1>8, <1>9, <1>10, <1>11, <1>12, <1>13 DEF ClaimsNext, claimVars

\* No agent takes a node over from one that holds it and has not been silent
\* for StaleAfter (NoTakeoverFromActiveAgent): a claim and a create refuse a
\* node in progress, and a forced claim checks the heartbeat it replaces.
THEOREM NoTakeoverHolds == ClaimsSpec => NoTakeoverFromActiveAgent
<1>1. ASSUME ClaimsInd, [ClaimsNext]_claimVars PROVE NoTakeoverStep
  <2> SUFFICES ASSUME NEW n \in Nodes, NEW a \in Agents, NEW b \in Agents,
                      a # b, status[n] = "in_progress", assignee[n] = a, TakesUp(b, n)
               PROVE  agent[a] = NULL \/ now - agent[a].heartbeat >= StaleAfter
    BY DEF NoTakeoverStep, TakesUp
  <2>1. CreateFor(n, b) \/ ClaimFor(n, b) \/ ForceReclaimNode(n, b)
    BY <1>1, TakesUpByClaim
  <2>2. ~CreateFor(n, b)
    BY <1>1 DEF CreateFor, CreateNode, ClaimsInd, IndInv, UnusedIsOpen
  <2>3. ~ClaimFor(n, b)
    BY DEF ClaimFor, ClaimNode, Claimable
  <2>4. AgentStale(a)
    BY <2>1, <2>2, <2>3 DEF ForceReclaimNode
  <2> QED
    BY <2>4, AgentsAssumption DEF AgentStale
<1>2. ASSUME ClaimsInd, [ClaimsNext]_claimVars PROVE [NoTakeoverStep]_claimVars
  BY <1>1, <1>2
<1> QED
  BY <1>2, ClaimsInvariance, PTL DEF ClaimsSpec, NoTakeoverFromActiveAgent, NoTakeoverStep

-----------------------------------------------------------------------------
(* The background scan.                                                    *)

\* Every reference names a row that exists.  Stronger than
\* NoDanglingReferences where a new row would otherwise bring an old reference
\* with it: provenance is asked of every id, and a parent_id is the id's own
\* parent or gone.
RefsInv ==
    /\ \A d \in deps : Present(d[1]) /\ Present(d[2])
    /\ \A n \in Nodes : parentId[n] \in {ParentOf[n], NULL}
    /\ \A n \in Nodes : Present(n) /\ parentId[n] # NULL => Present(parentId[n])
    /\ \A n \in Nodes : cascadeRow[n] # NULL => Present(cascadeRow[n].root)

\* The inductive invariant of the scan; its time of selection has passed.
ScanInv ==
    /\ IndInv
    /\ RefsInv
    /\ passTime \in Nat /\ passTime <= now

\* A step that creates and removes no row and adds no dangling reference.
LEMMA RefsKept ==
    ASSUME ColumnsOK, RefsInv, UNCHANGED rowVars,
           \A d \in deps' : d \in deps \/ (Present(d[1]) /\ Present(d[2])),
           \A n \in Nodes : \/ cascadeRow'[n] = cascadeRow[n]
                            \/ cascadeRow'[n] = NULL
                            \/ Present(cascadeRow'[n].root)
    PROVE  RefsInv'
  BY DEF RefsInv, rowVars, linkVars, Present

\* A row is created under a parent that exists.
LEMMA CreateRefs ==
    ASSUME ColumnsOK, RefsInv, NEW n \in Nodes, NEW claimed \in BOOLEAN, CreateNode(n, claimed)
    PROVE  RefsInv'
<1>1. /\ life' = [life EXCEPT ![n] = "present"]
      /\ UNCHANGED <<parentId, cascadeRow, linkVars>>
  BY DEF CreateNode, deleteVars
<1>2. /\ \A m \in Nodes : Present(m) => life'[m] = "present"
      /\ \A m \in Nodes \ {n} : life'[m] = "present" => Present(m)
  BY <1>1 DEF ColumnsOK, Present
<1>3. ParentOf[n] # NULL => Present(ParentOf[n])
  BY DEF CreateNode, ParentAcceptsChild, Live
<1>4. \A m \in Nodes : cascadeRow[m] # NULL => cascadeRow[m].root \in Nodes
  BY DEF ColumnsOK, CascadeRows
<1>5. \A d \in deps : d[1] \in Nodes /\ d[2] \in Nodes
  BY DEF ColumnsOK
<1>6. \A m \in Nodes : parentId[m] \in Nodes \cup {NULL}
  BY DEF ColumnsOK
<1>7. (\A d \in deps : Present(d[1]) /\ Present(d[2]))'
  BY <1>1, <1>2, <1>5 DEF RefsInv, Present, linkVars
<1>8. (\A m \in Nodes : parentId[m] \in {ParentOf[m], NULL})'
  BY <1>1 DEF RefsInv
<1>9. (\A m \in Nodes : Present(m) /\ parentId[m] # NULL => Present(parentId[m]))'
  <2> SUFFICES ASSUME NEW m \in Nodes, life'[m] = "present", parentId[m] # NULL
               PROVE  life'[parentId[m]] = "present"
    BY <1>1 DEF Present
  <2>1. CASE m = n
    BY <1>2, <1>3, <1>6, <2>1 DEF RefsInv
  <2>2. CASE m # n
    BY <1>2, <1>6, <2>2 DEF RefsInv
  <2> QED
    BY <2>1, <2>2
<1>10. (\A m \in Nodes : cascadeRow[m] # NULL => Present(cascadeRow[m].root))'
  BY <1>1, <1>2, <1>4 DEF RefsInv, Present
<1> QED
  BY <1>7, <1>8, <1>9, <1>10 DEF RefsInv

\* The foreign keys of a purge: what referred to the row goes with it.
LEMMA PurgeRefs ==
    ASSUME ColumnsOK, RefsInv, NEW n \in Nodes, PermanentlyDelete(n)
    PROVE  RefsInv'
<1>1. /\ life' = [life EXCEPT ![n] = "purged"]
      /\ parentId' = [m \in Nodes |-> IF parentId[m] = n THEN NULL ELSE parentId[m]]
      /\ cascadeRow' = [m \in Nodes |->
                          IF m = n \/ (cascadeRow[m] # NULL /\ cascadeRow[m].root = n)
                          THEN NULL ELSE cascadeRow[m]]
      /\ deps' = DepsWithout(n)
  BY DEF PermanentlyDelete
<1>2. /\ \A m \in Nodes \ {n} : Present(m) => life'[m] = "present"
      /\ \A m \in Nodes : life'[m] = "present" => Present(m)
  BY <1>1 DEF ColumnsOK, Present
<1>3. (\A d \in deps : Present(d[1]) /\ Present(d[2]))'
  <2> SUFFICES ASSUME NEW d \in deps' PROVE life'[d[1]] = "present" /\ life'[d[2]] = "present"
    BY DEF Present
  <2>1. d \in deps /\ d[1] # n /\ d[2] # n
    BY <1>1 DEF DepsWithout
  <2>2. d[1] \in Nodes /\ d[2] \in Nodes
    BY <2>1 DEF ColumnsOK
  <2> QED
    BY <1>2, <2>1, <2>2 DEF RefsInv
<1>4. (\A m \in Nodes : parentId[m] \in {ParentOf[m], NULL})'
  BY <1>1 DEF RefsInv
<1>5. (\A m \in Nodes : Present(m) /\ parentId[m] # NULL => Present(parentId[m]))'
  <2> SUFFICES ASSUME NEW m \in Nodes, life'[m] = "present", parentId'[m] # NULL
               PROVE  life'[parentId'[m]] = "present"
    BY DEF Present
  <2>1. parentId'[m] = parentId[m] /\ parentId[m] # n
    BY <1>1
  <2>2. parentId[m] \in Nodes
    BY <2>1 DEF ColumnsOK
  <2> QED
    BY <1>2, <2>1, <2>2 DEF RefsInv
<1>6. (\A m \in Nodes : cascadeRow[m] # NULL => Present(cascadeRow[m].root))'
  <2> SUFFICES ASSUME NEW m \in Nodes, cascadeRow'[m] # NULL
               PROVE  life'[cascadeRow'[m].root] = "present"
    BY DEF Present
  <2>1. cascadeRow'[m] = cascadeRow[m] /\ cascadeRow[m].root # n
    BY <1>1
  <2>2. cascadeRow[m].root \in Nodes
    BY <2>1 DEF ColumnsOK, CascadeRows
  <2> QED
    BY <1>2, <2>1, <2>2 DEF RefsInv
<1> QED
  BY <1>3, <1>4, <1>5, <1>6 DEF RefsInv

\* A delete names as root a row that exists, an undelete drops provenance.
LEMMA DeleteRefs ==
    ASSUME ColumnsOK, RefsInv, NEW n \in Nodes, DeleteStep(n)
    PROVE  RefsInv'
<1>1. ASSUME NEW S, NEW root \in Nodes, NEW by, DeleteRows(n, S, root, by), Present(root)
      PROVE  RefsInv'
  <2>1. /\ UNCHANGED rowVars /\ deps' = deps
        /\ \A m \in Nodes : \/ cascadeRow'[m] = cascadeRow[m]
                            \/ cascadeRow'[m].root = root
    BY <1>1 DEF DeleteRows, linkVars
  <2> QED
    BY <1>1, <2>1, RefsKept
<1>2. ASSUME NEW by \in Authors, NEW cascade \in BOOLEAN, DeleteNode(n, cascade, by)
      PROVE  RefsInv'
  BY <1>1, <1>2 DEF DeleteNode, Live
<1>3. ASSUME NEW by \in Authors, NEW pair \in RootInputs, DeleteNodeWithRoot(n, pair[2], by)
      PROVE  RefsInv'
  <2>1. pair[2] \in Nodes
    BY InputsAssumption
  <2> QED
    BY <1>1, <1>3, <2>1 DEF DeleteNodeWithRoot
<1>4. ASSUME NEW by \in Authors, ApplyDelete(n, by) PROVE RefsInv'
  BY <1>4, RefsKept DEF ApplyDelete, linkVars
<1>5. ASSUME UndeleteNode(n) PROVE RefsInv'
  <2>1. /\ UNCHANGED rowVars /\ deps' = deps
        /\ \A m \in Nodes : cascadeRow'[m] = cascadeRow[m] \/ cascadeRow'[m] = NULL
    BY <1>5 DEF UndeleteNode, linkVars
  <2> QED
    BY <2>1, RefsKept
<1> QED
  BY <1>2, <1>3, <1>4, <1>5 DEF DeleteStep

\* A dependency joins rows that exist, and the workflow touches no reference.
LEMMA WorkflowRefs ==
    ASSUME ColumnsOK, RefsInv,
           \/ \E n \in Nodes : ClaimNode(n)
           \/ \E n \in Nodes, until \in WakeTimes : DeferNode(n, until) \/ RedeferNode(n, until)
           \/ \E n \in Nodes, to \in Status : TransitionStatus(n, to)
           \/ LinkStep
           \/ Tick
    PROVE  RefsInv'
<1>1. /\ UNCHANGED <<rowVars, deleteVars>>
      /\ \A d \in deps' : d \in deps \/ (Present(d[1]) /\ Present(d[2]))
  <2>1. ASSUME NEW from \in Nodes, NEW to \in Nodes, Linked(from, to)
        PROVE  /\ UNCHANGED <<rowVars, deleteVars>>
               /\ \A e \in deps' : e \in deps \/ (Present(e[1]) /\ Present(e[2]))
    <3>1. /\ UNCHANGED <<rowVars, deleteVars>> /\ Present(from) /\ Present(to)
          /\ deps' = deps \cup {<<from, to>>}
      BY <2>1 DEF Linked
    <3> QED
      BY <3>1
  <2>2. ASSUME NEW from \in Nodes, NEW to \in Nodes, Unlink(from, to)
        PROVE  UNCHANGED <<rowVars, deleteVars>> /\ deps' \subseteq deps
    BY <2>2 DEF Unlink
  <2>3. ASSUME \/ \E n \in Nodes : ClaimNode(n)
               \/ \E n \in Nodes, until \in WakeTimes : DeferNode(n, until) \/ RedeferNode(n, until)
               \/ \E n \in Nodes, to \in Status : TransitionStatus(n, to)
               \/ Tick
        PROVE  UNCHANGED <<rowVars, deleteVars, linkVars>>
    BY <2>3 DEF ClaimNode, DeferNode, RedeferNode, TransitionStatus, ExecuteTransition, Tick
  <2> QED
    BY <2>1, <2>2, <2>3, LinkKinds DEF linkVars
<1> QED
  BY <1>1, RefsKept DEF deleteVars

\* A purge returns the row's columns to their defaults.
LEMMA PurgeInd ==
    ASSUME IndInv, NEW n \in Nodes, PermanentlyDelete(n)
    PROVE  IndInv'
<1>1. /\ life' = [life EXCEPT ![n] = "purged"]
      /\ parentId' = [m \in Nodes |-> IF parentId[m] = n THEN NULL ELSE parentId[m]]
      /\ status' = [status EXCEPT ![n] = "open"]
      /\ prev' = [prev EXCEPT ![n] = NULL]
      /\ closed' = [closed EXCEPT ![n] = FALSE]
      /\ wake' = [wake EXCEPT ![n] = NULL]
      /\ deletedAt' = [deletedAt EXCEPT ![n] = NULL]
      /\ deps' \subseteq deps /\ received' \subseteq deps' /\ now' = now
  BY DEF PermanentlyDelete, DepsWithout
<1>2. cascadeRow' \in [Nodes -> CascadeRows \cup {NULL}]
  BY DEF PermanentlyDelete, IndInv, ColumnsOK
<1>3. "open" \in Status
  BY DEF Status
<1>4. ColumnsOK'
  BY <1>1, <1>2, <1>3 DEF IndInv, ColumnsOK
<1>5. UnusedIsOpen' /\ WakeOnlyWhileDeferred' /\ ClosedWhenResolved' /\ BlockedRemembers'
  BY <1>1 DEF IndInv, ColumnsOK, UnusedIsOpen, WakeOnlyWhileDeferred, ClosedWhenResolved,
              BlockedRemembers
<1> QED
  BY <1>4, <1>5 DEF IndInv

\* The store's side of a scan step: nothing, a purge, a wake, or one of the
\* other operations.
ScanStoreStep ==
    \/ UNCHANGED vars
    \/ \E n \in Nodes : PermanentlyDelete(n)
    \/ \E n \in Nodes : TransitionStatus(n, "open")
    \/ \E n \in Nodes : CreateNode(n, FALSE) \/ ClaimNode(n) \/ DeleteStep(n)
    \/ \E n \in Nodes, until \in WakeTimes : DeferNode(n, until) \/ RedeferNode(n, until)
    \/ LinkStep
    \/ Tick

\* Every step of the scan module is one of those, and its time of selection is
\* kept or set to now.
LEMMA ScanSteps ==
    ASSUME [ScanNext]_scanVars
    PROVE  ScanStoreStep /\ (passTime' = passTime \/ (passTime' = now /\ UNCHANGED vars))
<1>1. ASSUME BeginScan \/ BeginWake \/ EndScan \/ StopScan \/ UNCHANGED scanVars
      PROVE  UNCHANGED vars /\ (passTime' = passTime \/ passTime' = now)
  BY <1>1 DEF BeginScan, BeginWake, EndScan, StopScan, scanVars, scanOnlyVars
<1>2. ASSUME NEW n \in Nodes, PurgeOne(n)
      PROVE  (PermanentlyDelete(n) \/ UNCHANGED vars) /\ passTime' = passTime
  BY <1>2 DEF PurgeOne
<1>3. ASSUME NEW n \in Nodes, WakeOne(n)
      PROVE  (TransitionStatus(n, "open") \/ UNCHANGED vars) /\ passTime' = passTime
  BY <1>3 DEF WakeOne, WakeDeferredNode
<1>4. ASSUME OtherStep
      PROVE  ScanStoreStep /\ passTime' = passTime
  BY <1>4 DEF OtherStep, ScanStoreStep, scanOnlyVars
<1> QED
  BY <1>1, <1>2, <1>3, <1>4 DEF ScanNext, ScanStep, ScanStoreStep

\* Every step preserves the inductive invariant of the scan.
LEMMA ScanNextInv == ScanInv /\ [ScanNext]_scanVars => ScanInv'
<1> SUFFICES ASSUME ScanInv, [ScanNext]_scanVars PROVE ScanInv'
  OBVIOUS
<1>1. /\ ScanStoreStep
      /\ passTime' = passTime \/ (passTime' = now /\ UNCHANGED vars)
  BY ScanSteps
<1>2. ColumnsOK /\ IndInv /\ RefsInv /\ now \in Nat
  BY ClockAssumption DEF ScanInv, IndInv, ColumnsOK
<1>3. "open" \in Status /\ FALSE \in BOOLEAN
  BY DEF Status
<1>4. IndInv'
  <2>1. ASSUME \/ UNCHANGED vars
               \/ \E n \in Nodes : CreateNode(n, FALSE) \/ ClaimNode(n) \/ DeleteStep(n)
               \/ LinkStep
               \/ Tick
        PROVE  [Next]_vars
    BY <2>1 DEF Next, StoreStep
  <2>2. ASSUME [Next]_vars PROVE IndInv'
    BY <1>2, <2>2, NextInd
  <2>3. ASSUME NEW n \in Nodes, NEW until \in WakeTimes, DeferNode(n, until) \/ RedeferNode(n, until)
        PROVE  IndInv'
    BY <1>2, <2>3, DeferNodeInd, RedeferNodeInd
  <2>4. ASSUME NEW n \in Nodes, TransitionStatus(n, "open") PROVE IndInv'
    BY <1>2, <1>3, <2>4, TransitionStatusInd
  <2>5. ASSUME NEW n \in Nodes, PermanentlyDelete(n) PROVE IndInv'
    BY <1>2, <2>5, PurgeInd
  <2> QED
    BY <1>1, <2>1, <2>2, <2>3, <2>4, <2>5 DEF ScanStoreStep
<1>5. RefsInv'
  <2>1. ASSUME UNCHANGED vars PROVE RefsInv'
    BY <1>2, <2>1 DEF vars, RefsInv, Present
  <2>2. ASSUME \/ \E n \in Nodes : TransitionStatus(n, "open") \/ ClaimNode(n)
               \/ \E n \in Nodes, until \in WakeTimes :
                      DeferNode(n, until) \/ RedeferNode(n, until)
               \/ LinkStep
               \/ Tick
        PROVE  RefsInv'
    BY <1>2, <1>3, <2>2, WorkflowRefs
  <2>3. ASSUME NEW n \in Nodes, CreateNode(n, FALSE) PROVE RefsInv'
    BY <1>2, <1>3, <2>3, CreateRefs
  <2> QED
    BY <1>1, <1>2, <2>1, <2>2, <2>3, DeleteRefs, PurgeRefs DEF ScanStoreStep
<1>6. passTime' \in Nat /\ passTime' <= now'
  <2>1. now' = now \/ now' = now + 1
    <3>1. ASSUME NEW n \in Nodes,
                 \/ PermanentlyDelete(n) \/ TransitionStatus(n, "open")
                 \/ CreateNode(n, FALSE) \/ ClaimNode(n)
                 \/ \E until \in WakeTimes : DeferNode(n, until) \/ RedeferNode(n, until)
          PROVE  now' = now
      BY <3>1 DEF PermanentlyDelete, TransitionStatus, DeferNode, ExecuteTransition, CreateNode,
                  ClaimNode, RedeferNode
    <3>2. ASSUME NEW n \in Nodes, DeleteStep(n) PROVE now' = now
      BY <3>2 DEF DeleteStep, DeleteNode, DeleteNodeWithRoot, DeleteRows, ApplyDelete, UndeleteNode
    <3>3. ASSUME LinkStep PROVE now' = now
      BY <1>2, <3>3, LinkKinds DEF Linked, Unlink
    <3> QED
      BY <1>1, <3>1, <3>2, <3>3 DEF ScanStoreStep, Tick, vars
  <2>2. CASE passTime' = passTime
    BY <1>2, <2>1, <2>2 DEF ScanInv
  <2>3. CASE passTime' = now /\ UNCHANGED vars
    BY <1>2, <2>3 DEF vars
  <2> QED
    BY <1>1, <2>2, <2>3
<1> QED
  BY <1>4, <1>5, <1>6 DEF ScanInv

\* Every reachable state of the scan satisfies its invariant.
LEMMA ScanInvariance == ScanSpec => []ScanInv
<1>1. ScanInit => ScanInv
  <2> SUFFICES ASSUME ScanInit PROVE ScanInv
    OBVIOUS
  <2>1. IndInv
    BY InitInd DEF ScanInit
  <2>2. RefsInv
    BY DEF ScanInit, Init, RefsInv, Present
  <2>3. passTime \in Nat /\ passTime <= now
    BY DEF ScanInit, Init
  <2> QED
    BY <2>1, <2>2, <2>3 DEF ScanInv
<1> QED
  BY <1>1, ScanNextInv, PTL DEF ScanSpec

\* No row refers to a purged one (NoDanglingReferences): dependencies, parents
\* and provenance, whatever the scan and the other operations did in between.
THEOREM NoDanglingReferencesHolds == ScanSpec => []NoDanglingReferences
<1>1. ScanInv => NoDanglingReferences
  BY DEF ScanInv, RefsInv, NoDanglingReferences
<1> QED
  BY <1>1, ScanInvariance, PTL

\* A purge and a wake between other operations keep wake times where they
\* belong too.
THEOREM ScanKeepsWakeTimes == ScanSpec => []WakeOnlyWhileDeferred
<1>1. ScanInv => WakeOnlyWhileDeferred
  BY DEF ScanInv, IndInv
<1> QED
  BY <1>1, ScanInvariance, PTL

\* A node that is live again when its turn comes is not purged
\* (PurgeSparesLive): permanentlyDelete asks again.
THEOREM PurgeSparesLiveHolds == ScanSpec => PurgeSparesLive
<1> DEFINE Spares == \A n \in Nodes : Live(n) => life'[n] # "purged"
<1>1. ASSUME ScanInv, [ScanNext]_scanVars PROVE Spares
  <2> SUFFICES ASSUME NEW n \in Nodes, Live(n) PROVE life'[n] # "purged"
    OBVIOUS
  <2>1. ScanStoreStep
    BY <1>1, ScanSteps
  <2>2. life \in [Nodes -> {"unused", "present", "purged"}]
    BY <1>1 DEF ScanInv, IndInv, ColumnsOK
  <2>3. ASSUME NEW m \in Nodes, PermanentlyDelete(m) PROVE life'[n] # "purged"
    BY <2>2, <2>3 DEF PermanentlyDelete, Purgeable, Live, Present
  <2>4. ASSUME NEW m \in Nodes, CreateNode(m, FALSE) PROVE life'[n] # "purged"
    BY <2>2, <2>4 DEF CreateNode, Live, Present
  <2>5. ASSUME UNCHANGED life PROVE life'[n] # "purged"
    BY <2>5 DEF Live, Present
  <2>6. ASSUME NEW m \in Nodes,
               \/ TransitionStatus(m, "open") \/ ClaimNode(m)
               \/ \E until \in WakeTimes : DeferNode(m, until) \/ RedeferNode(m, until)
        PROVE  UNCHANGED life
    BY <2>6 DEF TransitionStatus, DeferNode, ExecuteTransition, ClaimNode, RedeferNode, rowVars, linkVars
  <2>7. ASSUME NEW m \in Nodes, DeleteStep(m) PROVE UNCHANGED life
    BY <2>7 DEF DeleteStep, DeleteNode, DeleteNodeWithRoot, DeleteRows, ApplyDelete, UndeleteNode,
                rowVars, linkVars
  <2>8. ASSUME LinkStep \/ Tick \/ UNCHANGED vars PROVE UNCHANGED life
    BY <1>1, <2>8, LinkKinds DEF Linked, Unlink, Tick, rowVars, vars, ScanInv, IndInv
  <2> QED
    BY <2>1, <2>3, <2>4, <2>5, <2>6, <2>7, <2>8 DEF ScanStoreStep
<1>2. ASSUME ScanInv, [ScanNext]_scanVars PROVE [Spares]_scanVars
  BY <1>1, <1>2
<1> QED
  BY <1>2, ScanInvariance, PTL DEF ScanSpec, PurgeSparesLive

\* The scan reopens a deferral only once it is due (WakeOnlyWhenDue): the
\* waking transaction compares the wake time with the time of selection, which
\* is never in the future.
THEOREM WakeOnlyWhenDueHolds == ScanSpec => WakeOnlyWhenDue
<1> DEFINE Due == \A n \in Nodes :
                      (n \in candidates \ candidates' /\ status'[n] # status[n] /\ Present(n)
                         /\ life'[n] = "present")
                          => DueAt(n, now)
<1>1. ASSUME ScanInv, [ScanNext]_scanVars PROVE Due
  <2> SUFFICES ASSUME NEW n \in Nodes, n \in candidates \ candidates', status'[n] # status[n],
                      Present(n), life'[n] = "present"
               PROVE  DueAt(n, now)
    OBVIOUS
  <2>1. ASSUME BeginScan \/ BeginWake \/ EndScan \/ StopScan \/ UNCHANGED scanVars PROVE FALSE
    BY <2>1 DEF BeginScan, BeginWake, EndScan, StopScan, scanVars, vars
  <2>2. ~OtherStep
    BY DEF OtherStep, scanOnlyVars
  <2>3. ASSUME NEW m \in Nodes, PurgeOne(m) PROVE FALSE
    <3>1. m = n /\ PermanentlyDelete(n)
      BY <2>3 DEF PurgeOne, vars
    <3> QED
      BY <1>1, <3>1 DEF PermanentlyDelete, ScanInv, IndInv, ColumnsOK
  <2>4. ASSUME NEW m \in Nodes, WakeOne(m) PROVE DueAt(n, now)
    <3>1. m = n /\ WakeDeferredNode(n, passTime)
      BY <2>4 DEF WakeOne, vars
    <3>2. wake[n] \in Nat /\ wake[n] <= passTime
      BY <1>1, <3>1, ClockAssumption DEF WakeDeferredNode, ScanInv, IndInv, ColumnsOK
    <3>3. passTime \in Nat /\ now \in Nat /\ passTime <= now
      BY <1>1, ClockAssumption DEF ScanInv, IndInv, ColumnsOK
    <3>4. wake[n] <= now
      BY <3>2, <3>3
    <3> QED
      BY <3>1, <3>4 DEF WakeDeferredNode, DueAt
  <2> QED
    BY <1>1, <2>1, <2>2, <2>3, <2>4 DEF ScanNext, ScanStep
<1>2. ASSUME ScanInv, [ScanNext]_scanVars PROVE [Due]_scanVars
  BY <1>1, <1>2
<1> QED
  BY <1>2, ScanInvariance, PTL DEF ScanSpec, WakeOnlyWhenDue

-----------------------------------------------------------------------------
(* Delete history.                                                         *)

Removals == [root : Nodes \cup {NULL}, nodes : SUBSET Nodes]

\* The nodes deleted now are those of the removals in force, each of one.
HistoryPartition ==
    /\ removals \subseteq Removals
    /\ \A r, s \in removals : r.nodes \cap s.nodes # {} => r = s
    /\ \A n \in Nodes : deletedAt[n] # NULL <=> \E r \in removals : n \in r.nodes

\* A provenance row belongs to the delete in force and carries its root and
\* its stamp; a live node has none (so a delete received through sync cannot
\* find an old row whose stamp happens to be its own).
HistoryRows ==
    /\ \A n \in Nodes : deletedAt[n] = NULL => cascadeRow[n] = NULL
    /\ \A n \in Nodes : deletedAt[n] # NULL => Present(n)
    /\ \A r \in removals : \A n \in r.nodes :
          IF r.root = NULL THEN cascadeRow[n] = NULL
          ELSE cascadeRow[n] # NULL /\ cascadeRow[n] = [root |-> r.root, stamp |-> deletedAt[n]]

\* The inductive invariant of the history.
HistoryInv == IndInv /\ HistoryPartition /\ HistoryRows

\* Steps that delete and undelete nothing.
LEMMA HistoryKept ==
    ASSUME HistoryPartition, HistoryRows, UNCHANGED <<deleteVars, removals>>,
           \A n \in Nodes : Present(n) => life'[n] = "present"
    PROVE  HistoryPartition' /\ HistoryRows'
<1>1. HistoryPartition'
  BY DEF HistoryPartition, deleteVars
<1>2. HistoryRows'
  BY DEF HistoryRows, deleteVars, Present
<1> QED
  BY <1>1, <1>2

\* A delete of the live nodes of S, with or without provenance.
LEMMA DeleteKeepsHistory ==
    ASSUME ColumnsOK, HistoryPartition, HistoryRows,
           NEW S \in SUBSET LiveNodes, NEW stamp \in Stamps, NEW root \in Nodes \cup {NULL},
           UNCHANGED rowVars,
           deletedAt' = [m \in Nodes |-> IF m \in S THEN stamp ELSE deletedAt[m]],
           cascadeRow' = [m \in Nodes |->
                            IF m \in S /\ root # NULL THEN [root |-> root, stamp |-> stamp]
                            ELSE cascadeRow[m]],
           Record(root)
    PROVE  HistoryPartition' /\ HistoryRows'
<1>1. stamp # NULL /\ \A rt \in Nodes : [root |-> rt, stamp |-> stamp] # NULL
  <2>1. stamp # NULL
    BY StampsAssumption DEF Stamps
  <2>2. ASSUME NEW rt \in Nodes PROVE [root |-> rt, stamp |-> stamp] # NULL
    <3>1. [root |-> rt, stamp |-> stamp] \in [root : Nodes, stamp : (0..MaxTime) \X Authors]
      BY DEF Stamps
    <3> QED
      BY <3>1, StampsAssumption
  <2> QED
    BY <2>1, <2>2
<1>2. \A m \in S : m \in Nodes /\ Present(m) /\ deletedAt[m] = NULL /\ cascadeRow[m] = NULL
  BY DEF LiveNodes, Live, HistoryRows
<1>3. Removed = S
  BY <1>1, <1>2 DEF Removed
<1> DEFINE new == [root |-> root, nodes |-> S]
<1>4. removals' = removals \cup {new}
  BY <1>3 DEF Record
<1>5. new \in Removals /\ new.root = root /\ new.nodes = S
  BY <1>2 DEF Removals
<1>6. \A r \in removals : r.nodes \cap S = {} /\ r.nodes \subseteq Nodes
  <2> SUFFICES ASSUME NEW r \in removals PROVE r.nodes \cap S = {} /\ r.nodes \subseteq Nodes
    OBVIOUS
  <2>1. r.nodes \subseteq Nodes
    BY DEF HistoryPartition, Removals
  <2> QED
    BY <1>2, <2>1 DEF HistoryPartition
<1> HIDE DEF new
<1>7. (removals \subseteq Removals)'
  BY <1>4, <1>5 DEF HistoryPartition, Removals
<1>8. (\A r, s \in removals : r.nodes \cap s.nodes # {} => r = s)'
  BY <1>4, <1>5, <1>6 DEF HistoryPartition
<1>9. (\A n \in Nodes : deletedAt[n] # NULL <=> \E r \in removals : n \in r.nodes)'
  <2> SUFFICES ASSUME NEW n \in Nodes
               PROVE  deletedAt'[n] # NULL <=> \E r \in removals' : n \in r.nodes
    OBVIOUS
  <2>1. CASE n \in S
    BY <1>1, <1>4, <1>5, <2>1
  <2>2. CASE n \notin S
    BY <1>4, <1>5, <2>2 DEF HistoryPartition
  <2> QED
    BY <2>1, <2>2
<1>10. (\A n \in Nodes : deletedAt[n] = NULL => cascadeRow[n] = NULL)'
  BY <1>1 DEF HistoryRows
<1>11. (\A n \in Nodes : deletedAt[n] # NULL => Present(n))'
  BY <1>2 DEF HistoryRows, Present, rowVars, linkVars
<1>12. ASSUME NEW r \in removals', NEW n \in r.nodes
       PROVE  IF r.root = NULL THEN cascadeRow'[n] = NULL
              ELSE /\ cascadeRow'[n] # NULL
                   /\ cascadeRow'[n] = [root |-> r.root, stamp |-> deletedAt'[n]]
  <2>1. CASE r = new
    <3>1. n \in S /\ n \in Nodes /\ r.root = root
      BY <1>2, <1>5, <1>12, <2>1
    <3>2. CASE root = NULL
      BY <1>2, <3>1, <3>2
    <3>3. CASE root # NULL
      <4>1. root \in Nodes
        BY <3>3
      <4> QED
        BY <1>1, <3>1, <3>3, <4>1
    <3> QED
      BY <3>2, <3>3
  <2>2. CASE r \in removals
    <3>1. n \notin S /\ n \in Nodes
      BY <1>6, <1>12, <2>2
    <3>2. cascadeRow'[n] = cascadeRow[n] /\ deletedAt'[n] = deletedAt[n]
      BY <3>1
    <3> QED
      BY <1>12, <2>2, <3>2 DEF HistoryRows
  <2> QED
    BY <1>4, <2>1, <2>2
<1>13. HistoryPartition'
  BY <1>7, <1>8, <1>9 DEF HistoryPartition
<1>14. HistoryRows'
  BY <1>10, <1>11, <1>12 DEF HistoryRows
<1> QED
  BY <1>13, <1>14

\* What an undelete restores is what it clears.
LEMMA UndeleteRestores ==
    ASSUME HistoryRows, NEW n \in Nodes, UndeleteNode(n)
    PROVE  /\ Restored = RestoreSet(n)
           /\ RestoreSet(n) \subseteq Nodes
           /\ n \in RestoreSet(n)
<1>1. RestoreSet(n) \subseteq Nodes /\ n \in RestoreSet(n)
  BY DEF RestoreSet, Descendants
<1>2. \A m \in RestoreSet(n) : deletedAt[m] # NULL
  BY DEF RestoreSet, UndeleteNode
<1>3. deletedAt' = [m \in Nodes |-> IF m \in RestoreSet(n) THEN NULL ELSE deletedAt[m]]
  BY DEF UndeleteNode
<1> QED
  BY <1>1, <1>2, <1>3 DEF Restored

\* An undelete takes what it restores out of the removals in force.
LEMMA UndeleteKeepsHistory ==
    ASSUME ColumnsOK, HistoryPartition, HistoryRows, NEW n \in Nodes, UndeleteNode(n), Forget
    PROVE  HistoryPartition' /\ HistoryRows'
<1> DEFINE R == RestoreSet(n)
           cut(x) == [x EXCEPT !.nodes = @ \ R]
<1>1. /\ deletedAt' = [m \in Nodes |-> IF m \in R THEN NULL ELSE deletedAt[m]]
      /\ cascadeRow' = [m \in Nodes |-> IF m \in R THEN NULL ELSE cascadeRow[m]]
      /\ UNCHANGED rowVars
  BY DEF UndeleteNode
<1>2. removals' = {r \in {cut(x) : x \in removals} : r.nodes # {}}
  BY UndeleteRestores DEF Forget
<1>3. \A x \in removals : /\ x \in Removals
                          /\ cut(x) \in Removals
                          /\ cut(x).nodes = x.nodes \ R
                          /\ cut(x).root = x.root
  BY DEF HistoryPartition, Removals
<1> HIDE DEF R, cut
<1>4. \A r \in removals' : \E x \in removals : r = cut(x)
  BY <1>2
<1>5. (removals \subseteq Removals)'
  BY <1>3, <1>4 DEF Removals
<1>6. (\A r, s \in removals : r.nodes \cap s.nodes # {} => r = s)'
  <2> SUFFICES ASSUME NEW r \in removals', NEW s \in removals', r.nodes \cap s.nodes # {}
               PROVE  r = s
    OBVIOUS
  <2>1. PICK x \in removals, y \in removals : r = cut(x) /\ s = cut(y)
    BY <1>4
  <2>2. x.nodes \cap y.nodes # {}
    BY <1>3, <2>1
  <2> QED
    BY <2>1, <2>2 DEF HistoryPartition
<1>7. (\A m \in Nodes : deletedAt[m] # NULL <=> \E r \in removals : m \in r.nodes)'
  <2> SUFFICES ASSUME NEW m \in Nodes
               PROVE  deletedAt'[m] # NULL <=> \E r \in removals' : m \in r.nodes
    OBVIOUS
  <2>1. CASE m \in R
    BY <1>1, <1>3, <1>4, <2>1
  <2>2. CASE m \notin R
    <3>1. ASSUME deletedAt'[m] # NULL PROVE \E r \in removals' : m \in r.nodes
      <4>1. PICK x \in removals : m \in x.nodes
        BY <1>1, <2>2, <3>1 DEF HistoryPartition
      <4>2. m \in cut(x).nodes
        BY <1>3, <2>2, <4>1
      <4> QED
        BY <1>2, <4>1, <4>2
    <3>2. ASSUME NEW r \in removals', m \in r.nodes PROVE deletedAt'[m] # NULL
      <4>1. PICK x \in removals : r = cut(x)
        BY <1>4
      <4>2. m \in x.nodes
        BY <1>3, <3>2, <4>1
      <4> QED
        BY <1>1, <2>2, <4>2 DEF HistoryPartition
    <3> QED
      BY <3>1, <3>2
  <2> QED
    BY <2>1, <2>2
<1>8. (\A m \in Nodes : deletedAt[m] = NULL => cascadeRow[m] = NULL)'
  BY <1>1 DEF HistoryRows
<1>9. (\A m \in Nodes : deletedAt[m] # NULL => Present(m))'
  BY <1>1 DEF HistoryRows, Present, rowVars, linkVars
<1>10. ASSUME NEW r \in removals', NEW m \in r.nodes
       PROVE  IF r.root = NULL THEN cascadeRow'[m] = NULL
              ELSE /\ cascadeRow'[m] # NULL
                   /\ cascadeRow'[m] = [root |-> r.root, stamp |-> deletedAt'[m]]
  <2>1. PICK x \in removals : r = cut(x)
    BY <1>4
  <2>2. m \in x.nodes /\ m \notin R /\ r.root = x.root /\ m \in Nodes
    BY <1>3, <1>10, <2>1 DEF Removals
  <2>3. cascadeRow'[m] = cascadeRow[m] /\ deletedAt'[m] = deletedAt[m]
    BY <1>1, <2>2
  <2> QED
    BY <2>2, <2>3 DEF HistoryRows
<1>11. HistoryPartition'
  BY <1>5, <1>6, <1>7 DEF HistoryPartition
<1>12. HistoryRows'
  BY <1>8, <1>9, <1>10 DEF HistoryRows
<1> QED
  BY <1>11, <1>12

\* Every step of the history is a step of the store, or leaves it alone.
LEMMA HistoryStepIsStoreStep == [HistoryNext]_historyVars => [Next]_vars
<1> SUFFICES ASSUME [HistoryNext]_historyVars PROVE [Next]_vars
  OBVIOUS
<1>1. ASSUME NEW n \in Nodes, NEW by \in Authors,
             ApplyDelete(n, by) \/ \E cascade \in BOOLEAN : DeleteNode(n, cascade, by)
      PROVE  Next
  BY <1>1 DEF Next, StoreStep, DeleteStep
<1>2. ASSUME NEW pair \in RootInputs, NEW by \in Authors,
             DeleteNodeWithRoot(pair[1], pair[2], by)
      PROVE  Next
  <2>1. pair[1] \in Nodes
    BY InputsAssumption
  <2>2. DeleteStep(pair[1])
    BY <1>2 DEF DeleteStep
  <2> QED
    BY <2>1, <2>2 DEF Next, StoreStep
<1>3. ASSUME NEW n \in Nodes, UndeleteNode(n) PROVE Next
  BY <1>3 DEF Next, StoreStep, DeleteStep
<1>4. ASSUME NEW n \in Nodes, NEW to \in StatusInputs, TransitionStatus(n, to) PROVE Next
  BY <1>4 DEF Next, StoreStep, WorkflowStep
<1>5. ASSUME Tick \/ \E n \in Nodes, claimed \in BOOLEAN : CreateNode(n, claimed) PROVE Next
  BY <1>5 DEF Next, StoreStep
<1> QED
  BY <1>1, <1>2, <1>3, <1>4, <1>5 DEF HistoryNext, historyVars

\* Every step preserves the inductive invariant of the history.
LEMMA HistoryNextInv == HistoryInv /\ [HistoryNext]_historyVars => HistoryInv'
<1> SUFFICES ASSUME HistoryInv, [HistoryNext]_historyVars PROVE HistoryInv'
  OBVIOUS
<1>1. ColumnsOK /\ HistoryPartition /\ HistoryRows
  BY DEF HistoryInv, IndInv
<1>2. IndInv'
  BY HistoryStepIsStoreStep, NextInd DEF HistoryInv
<1> DEFINE Goal == HistoryPartition' /\ HistoryRows'
<1>3. ASSUME NEW n \in Nodes, NEW S, n \in S, S \subseteq LiveNodes, NEW root \in Nodes, NEW by \in Authors,
             DeleteRows(n, S, root, by), Record(root)
      PROVE  Goal
  <2>1. <<now, by>> \in Stamps /\ root # NULL /\ S \in SUBSET LiveNodes
    BY <1>1, <1>3, NodesAssumption DEF ColumnsOK, Stamps
  <2>2. /\ UNCHANGED rowVars
        /\ deletedAt' = [m \in Nodes |-> IF m \in S THEN <<now, by>> ELSE deletedAt[m]]
        /\ cascadeRow' = [m \in Nodes |->
                            IF m \in S /\ root # NULL THEN [root |-> root, stamp |-> <<now, by>>]
                            ELSE cascadeRow[m]]
    BY <1>3, <2>1 DEF DeleteRows
  <2> QED
    BY <1>1, <1>3, <2>1, <2>2, DeleteKeepsHistory
<1>4. ASSUME NEW n \in Nodes, NEW by \in Authors, NEW cascade \in BOOLEAN,
             DeleteNode(n, cascade, by), Record(n)
      PROVE  Goal
  <2> DEFINE S == {n} \cup (IF cascade THEN {m \in Descendants(n) : Live(m)} ELSE {})
  <2>1. n \in S /\ S \subseteq LiveNodes
    BY <1>4 DEF DeleteNode, LiveNodes, Descendants
  <2>2. DeleteRows(n, S, n, by)
    BY <1>4 DEF DeleteNode
  <2> HIDE DEF S
  <2> QED
    BY <1>3, <1>4, <2>1, <2>2
<1>5. ASSUME NEW pair \in RootInputs, NEW by \in Authors,
             DeleteNodeWithRoot(pair[1], pair[2], by), Record(pair[2])
      PROVE  Goal
  <2>1. pair[1] \in Nodes /\ pair[2] \in Nodes
    BY InputsAssumption
  <2>2. {pair[1]} \subseteq LiveNodes /\ DeleteRows(pair[1], {pair[1]}, pair[2], by)
    BY <1>5, <2>1 DEF DeleteNodeWithRoot, LiveNodes
  <2> QED
    BY <1>3, <1>5, <2>1, <2>2
<1>6. ASSUME NEW n \in Nodes, NEW by \in Authors, ApplyDelete(n, by), Record(NULL) PROVE Goal
  <2>1. <<now, by>> \in Stamps /\ {n} \in SUBSET LiveNodes
    BY <1>1, <1>6 DEF ColumnsOK, Stamps, ApplyDelete, LiveNodes
  <2>2. /\ UNCHANGED rowVars
        /\ deletedAt' = [m \in Nodes |-> IF m \in {n} THEN <<now, by>> ELSE deletedAt[m]]
    BY <1>1, <1>6 DEF ApplyDelete, ColumnsOK
  <2>3. cascadeRow' = [m \in Nodes |->
                         IF m \in {n} /\ NULL # NULL THEN [root |-> NULL, stamp |-> <<now, by>>]
                         ELSE cascadeRow[m]]
    BY <1>1, <1>6 DEF ApplyDelete, ColumnsOK
  <2>4. NULL \in Nodes \cup {NULL}
    OBVIOUS
  <2> QED
    BY <1>1, <1>6, <2>1, <2>2, <2>3, <2>4, DeleteKeepsHistory
<1>7. ASSUME NEW n \in Nodes, UndeleteNode(n), Forget PROVE Goal
  BY <1>1, <1>7, UndeleteKeepsHistory
<1>8. ASSUME NEW n \in Nodes, NEW claimed \in BOOLEAN, CreateNode(n, claimed), UNCHANGED removals
      PROVE  Goal
  <2>1. UNCHANGED deleteVars /\ \A m \in Nodes : Present(m) => life'[m] = "present"
    BY <1>1, <1>8 DEF CreateNode, ColumnsOK, Present
  <2> QED
    BY <1>1, <1>8, <2>1, HistoryKept
<1>9. ASSUME \/ \E n \in Nodes, to \in StatusInputs : TransitionStatus(n, to)
             \/ Tick
             \/ UNCHANGED vars,
             UNCHANGED removals
      PROVE  Goal
  <2>1. UNCHANGED <<deleteVars, rowVars>>
    BY <1>9 DEF TransitionStatus, ExecuteTransition, Tick, vars, deleteVars, rowVars, linkVars
  <2> QED
    BY <1>1, <1>9, <2>1, HistoryKept DEF Present, rowVars, linkVars
<1>10. Goal
  <2> HIDE DEF Goal
  <2> QED
    BY <1>4, <1>5, <1>6, <1>7, <1>8, <1>9 DEF HistoryNext, historyVars
<1> QED
  BY <1>2, <1>10 DEF HistoryInv

\* Every reachable state of the history satisfies its invariant.
LEMMA HistoryInvariance == HistorySpec => []HistoryInv
<1>1. HistoryInit => HistoryInv
  <2> SUFFICES ASSUME HistoryInit PROVE HistoryInv
    OBVIOUS
  <2>1. IndInv
    BY InitInd DEF HistoryInit
  <2>2. HistoryPartition /\ HistoryRows
    BY DEF HistoryInit, Init, HistoryPartition, HistoryRows, Removals
  <2> QED
    BY <2>1, <2>2 DEF HistoryInv
<1> QED
  BY <1>1, HistoryNextInv, PTL DEF HistorySpec

\* The delete that removed a node is the only one in force that did.
LEMMA RemovalIsUnique ==
    ASSUME HistoryInv, NEW n \in Nodes, deletedAt[n] # NULL
    PROVE  /\ RemovalOf(n) \in removals
           /\ n \in RemovalOf(n).nodes
           /\ {r \in removals : n \in r.nodes} = {RemovalOf(n)}
           /\ RemovalOf(n).root = NULL => ~Trusted(n)
           /\ RemovalOf(n).root # NULL => Trusted(n) /\ cascadeRow[n].root = RemovalOf(n).root
<1>1. \E r \in removals : n \in r.nodes
  BY DEF HistoryInv, HistoryPartition
<1>2. RemovalOf(n) \in removals /\ n \in RemovalOf(n).nodes
  BY <1>1 DEF RemovalOf
<1>3. {r \in removals : n \in r.nodes} = {RemovalOf(n)}
  <2>1. ASSUME NEW r \in removals, n \in r.nodes PROVE r = RemovalOf(n)
    <3>1. r.nodes \cap RemovalOf(n).nodes # {}
      BY <1>2, <2>1
    <3> QED
      BY <1>2, <3>1 DEF HistoryInv, HistoryPartition
  <2> QED
    BY <1>2, <2>1
<1>4. IF RemovalOf(n).root = NULL THEN cascadeRow[n] = NULL
      ELSE /\ cascadeRow[n] # NULL
           /\ cascadeRow[n] = [root |-> RemovalOf(n).root, stamp |-> deletedAt[n]]
  BY <1>2 DEF HistoryInv, HistoryRows
<1>5. RemovalOf(n).root = NULL => ~Trusted(n)
  BY <1>4 DEF Trusted
<1>6. RemovalOf(n).root # NULL => Trusted(n) /\ cascadeRow[n].root = RemovalOf(n).root
  BY <1>4 DEF Trusted
<1> QED
  BY <1>2, <1>3, <1>5, <1>6

\* The history is one and the provenance rows tell it
\* (ProvenanceMatchesHistory): deletes, cascades, deletes into a group, deletes
\* received through sync and undeletes in any order, within the same second too.
THEOREM ProvenanceMatchesHistoryHolds == HistorySpec => []ProvenanceMatchesHistory
<1>1. HistoryInv => ProvenanceMatchesHistory
  <2> SUFFICES ASSUME HistoryInv, NEW n \in Nodes, deletedAt[n] # NULL
               PROVE  /\ Cardinality({r \in removals : n \in r.nodes}) = 1
                      /\ Trusted(n) <=> RemovalOf(n).root # NULL
                      /\ Trusted(n) => cascadeRow[n].root = RemovalOf(n).root
    BY DEF ProvenanceMatchesHistory
  <2>1. Cardinality({r \in removals : n \in r.nodes}) = 1
    BY RemovalIsUnique, FS_Singleton
  <2> QED
    BY <2>1, RemovalIsUnique
<1> QED
  BY <1>1, HistoryInvariance, PTL

\* Undeleting a node brings back what its delete removed from it down, and
\* nothing of another group (UndeleteStaysInGroup).
THEOREM UndeleteStaysInGroupHolds == HistorySpec => UndeleteStaysInGroup
<1> DEFINE Stays ==
        Restored # {} /\ RemovalOf(Asked).root # NULL =>
            /\ RemovalOf(Asked).nodes \cap Below(Asked) \subseteq Restored
            /\ \A m \in Restored : RemovalOf(m).root = RemovalOf(Asked).root
<1>1. ASSUME HistoryInv, [HistoryNext]_historyVars PROVE Stays
  <2>1. SUFFICES ASSUME Restored # {}, RemovalOf(Asked).root # NULL
                 PROVE  /\ RemovalOf(Asked).nodes \cap Below(Asked) \subseteq Restored
                        /\ \A m \in Restored : RemovalOf(m).root = RemovalOf(Asked).root
    OBVIOUS
  <2>2. PICK n \in Nodes : UndeleteNode(n)
    <3> SUFFICES ASSUME ~\E n \in Nodes : UndeleteNode(n) PROVE FALSE
      OBVIOUS
    <3>1. ASSUME NEW k \in Nodes, NEW S, NEW root, NEW by \in Authors, DeleteRows(k, S, root, by)
          PROVE  \A m \in Nodes : deletedAt[m] # NULL => deletedAt'[m] # NULL
      <4>1. <<now, by>> # NULL
        BY <1>1, StampsAssumption DEF HistoryInv, IndInv, ColumnsOK
      <4> QED
        BY <3>1, <4>1 DEF DeleteRows
    <3>2. ASSUME NEW k \in Nodes, NEW by \in Authors, ApplyDelete(k, by)
          PROVE  \A m \in Nodes : deletedAt[m] # NULL => deletedAt'[m] # NULL
      <4>1. <<now, by>> # NULL
        BY <1>1, StampsAssumption DEF HistoryInv, IndInv, ColumnsOK
      <4> QED
        BY <1>1, <3>2, <4>1 DEF ApplyDelete, HistoryInv, IndInv, ColumnsOK
    <3>3. ASSUME \/ \E k \in Nodes, claimed \in BOOLEAN : CreateNode(k, claimed)
                 \/ \E k \in Nodes, to \in StatusInputs : TransitionStatus(k, to)
                 \/ Tick \/ UNCHANGED vars
          PROVE  deletedAt' = deletedAt
      BY <3>3 DEF CreateNode, TransitionStatus, ExecuteTransition, Tick, vars, deleteVars
    <3>4. \A pair \in RootInputs : pair[1] \in Nodes
      BY InputsAssumption
    <3>5. \A m \in Nodes : deletedAt[m] # NULL => deletedAt'[m] # NULL
      BY <1>1, <3>1, <3>2, <3>3, <3>4
      DEF HistoryNext, historyVars, DeleteNode, DeleteNodeWithRoot
    <3> QED
      BY <2>1, <3>5 DEF Restored
  <2> DEFINE a == Asked
             R == RestoreSet(n)
  <2>3. Restored = R /\ R \subseteq Nodes /\ n \in R
    BY <1>1, <2>2, UndeleteRestores DEF HistoryInv
  <2>4. R \subseteq {n} \cup Descendants(n)
    BY DEF RestoreSet
  <2>5. a \in R
    BY <2>3, <2>4 DEF Asked
  <2>6. \A m \in R : m \in Nodes /\ deletedAt[m] # NULL
    BY <2>2, <2>3 DEF RestoreSet, UndeleteNode
  <2>7. \A m \in R \ {n} :
           IF Trusted(n) THEN Trusted(m) /\ cascadeRow[m].root = cascadeRow[n].root
           ELSE ~Trusted(m)
    BY DEF RestoreSet
  <2>8. Trusted(a) /\ cascadeRow[a].root = RemovalOf(a).root
    BY <1>1, <2>1, <2>5, <2>6, RemovalIsUnique
  <2>9. Trusted(n)
    BY <2>5, <2>7, <2>8
  <2>10. \A m \in R : Trusted(m) /\ cascadeRow[m].root = cascadeRow[n].root
    BY <2>7, <2>9
  <2> HIDE DEF a, R
  <2>11. \A m \in R : RemovalOf(m).root = RemovalOf(a).root
    BY <1>1, <2>5, <2>6, <2>10, RemovalIsUnique
  <2>12. ASSUME NEW x \in RemovalOf(a).nodes, x \in Below(a) PROVE x \in R
    <3>1. RemovalOf(a) \in removals
      BY <1>1, <2>5, <2>6, RemovalIsUnique
    <3>2. x \in Nodes /\ deletedAt[x] # NULL
      BY <1>1, <2>12, <3>1 DEF HistoryInv, HistoryPartition, Removals
    <3>3. Present(x)
      BY <1>1, <3>2 DEF HistoryInv, HistoryRows
    <3>4. cascadeRow[x] # NULL /\ cascadeRow[x] = [root |-> RemovalOf(a).root, stamp |-> deletedAt[x]]
      BY <1>1, <2>1, <2>12, <3>1 DEF a, HistoryInv, HistoryRows
    <3>5. Trusted(x) /\ cascadeRow[x].root = cascadeRow[n].root
      BY <2>5, <2>8, <2>10, <3>4 DEF Trusted
    <3>6. x = n \/ x \in Descendants(n)
      <4>1. x = a \/ a \in Ancestors[x]
        BY <2>12 DEF Below, Descendants
      <4>2. a = n \/ n \in Ancestors[a]
        BY <2>4, <2>5 DEF Descendants
      <4> QED
        BY <3>2, <4>1, <4>2, AncestorsTransitive DEF Descendants
    <3> QED
      BY <2>9, <3>2, <3>3, <3>5, <3>6 DEF R, RestoreSet
  <2> QED
    BY <2>3, <2>11, <2>12 DEF a
<1>2. ASSUME HistoryInv, [HistoryNext]_historyVars PROVE [Stays]_historyVars
  BY <1>1, <1>2
<1> QED
  BY <1>2, HistoryInvariance, PTL DEF HistorySpec, UndeleteStaysInGroup
=============================================================================
