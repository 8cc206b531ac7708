---------------------------- MODULE DeleteHistory ----------------------------
(***************************************************************************)
(* What an undelete brings back (internal/store/sqlite/node_delete.go).    *)
(* The store keeps one cascade_deletes row per node and compares its stamp *)
(* (a second and an author) with the node's own to decide which nodes one  *)
(* delete removed.  This module adds the history that answer is to be      *)
(* compared with: the delete operations themselves, each with the nodes it *)
(* removed.  Only the operations that matter to deletion are in its        *)
(* next-state relation; each is the action of module NodeStore.            *)
(***************************************************************************)
EXTENDS NodeStore

VARIABLE
    removals   \* the deletes still in force: [root, nodes], root NULL for one
               \* that recorded no provenance (received through sync)

historyVars == <<vars, removals>>

-----------------------------------------------------------------------------
HistoryInit == Init /\ removals = {}

Removed == {n \in Nodes : deletedAt[n] = NULL /\ deletedAt'[n] # NULL}
Restored == {n \in Nodes : deletedAt[n] # NULL /\ deletedAt'[n] = NULL}

Record(root) == removals' = removals \cup {[root |-> root, nodes |-> Removed]}

Forget == removals' = {r \in {[x EXCEPT !.nodes = @ \ Restored] : x \in removals} :
                           r.nodes # {}}

HistoryNext ==
    \/ \E n \in Nodes, claimed \in BOOLEAN : CreateNode(n, claimed) /\ UNCHANGED removals
    \/ \E n \in Nodes, to \in StatusInputs : TransitionStatus(n, to) /\ UNCHANGED removals
    \/ \E n \in Nodes, by \in Authors, cascade \in BOOLEAN :
           DeleteNode(n, cascade, by) /\ Record(n)
    \/ \E pair \in RootInputs, by \in Authors :
           DeleteNodeWithRoot(pair[1], pair[2], by) /\ Record(pair[2])
    \/ \E n \in Nodes, by \in Authors : ApplyDelete(n, by) /\ Record(NULL)
    \/ \E n \in Nodes : UndeleteNode(n) /\ Forget
    \/ Tick /\ UNCHANGED removals

HistorySpec == HistoryInit /\ [][HistoryNext]_historyVars

-----------------------------------------------------------------------------
(* Properties.                                                             *)

\* The delete that removed n.
RemovalOf(n) == CHOOSE r \in removals : n \in r.nodes

\* The node an undelete step was asked for: the top of what it restored.
Asked == CHOOSE n \in Restored : Restored \subseteq {n} \cup Descendants(n)

Below(n) == {n} \cup Descendants(n)

\* The history is one: a deleted node was removed by exactly one delete in
\* force, and that delete is recorded in the node's provenance row exactly
\* while the row is trusted (a stale row, or a reused second, never names
\* another root).
ProvenanceMatchesHistory ==
    \A n \in Nodes : deletedAt[n] # NULL =>
        /\ Cardinality({r \in removals : n \in r.nodes}) = 1
        /\ Trusted(n) <=> RemovalOf(n).root # NULL
        /\ Trusted(n) => cascadeRow[n].root = RemovalOf(n).root

\* Undeleting a node removed by a recorded delete brings back everything that
\* delete removed from the node down, and nothing that a delete with another
\* root removed, even in the same second by the same author.
UndeleteStaysInGroup ==
    [][Restored # {} /\ RemovalOf(Asked).root # NULL =>
           /\ RemovalOf(Asked).nodes \cap Below(Asked) \subseteq Restored
           /\ \A m \in Restored : RemovalOf(m).root = RemovalOf(Asked).root]_historyVars
=============================================================================
