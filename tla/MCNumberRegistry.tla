-------------------------- MODULE MCNumberRegistry --------------------------
(* Model checking of module NumberRegistry.                                *)
EXTENDS NumberRegistry

CONSTANTS a, b, x, w, y, l

\* a makes a task, a child of it and a link from the child to it; b makes a
\* task of the same number.
Family == {
    [id |-> x, by |-> a, op |-> "create", uid |-> x, to |-> NULL],
    [id |-> w, by |-> a, op |-> "create", uid |-> w, to |-> x],
    [id |-> l, by |-> a, op |-> "link", uid |-> w, to |-> x],
    [id |-> y, by |-> b, op |-> "create", uid |-> y, to |-> NULL]}
=============================================================================
