----------------------------- MODULE MCNodeStore -----------------------------
(***************************************************************************)
(* Model checking of module NodeStore: a tree of four over three levels,   *)
(* dependencies that could close a cycle and one that sync brings, which   *)
(* does close one with d -> q, progress rolled up twice.  The leaf q may   *)
(* be deleted and restored as well; deletion of every node, deferral and   *)
(* invalidation are left to the other runs of the store.                   *)
(***************************************************************************)
EXTENDS NodeStore

CONSTANTS p, c, d, q

Tree == {p, c, d, q}
TreeParent == [n \in Tree |-> CASE n \in {c, q} -> p [] n = d -> c [] OTHER -> NULL]
TreeLinks == {<<d, q>>, <<q, c>>, <<c, d>>}
TreeSynced == {<<q, d>>}
TreeInputs == {"done"}

\* Every step of TreeNext is a step of Next.
TreeNext ==
    \/ \E n \in Tree, claimed \in BOOLEAN : CreateNode(n, claimed)
    \/ \E n \in Tree : ClaimNode(n) \/ UnclaimNode(n) \/ RefreshBlocked(n)
    \/ \E n \in Tree, to \in StatusInputs : TransitionStatus(n, to)
    \/ \E n \in Tree, cascade \in BOOLEAN : CancelNode(n, cascade)
    \/ DeleteStep(q)
    \/ LinkStep

TreeSpec == Init /\ [][TreeNext]_vars
=============================================================================
