--------------------------- MODULE MCDeleteHistory ---------------------------
(***************************************************************************)
(* Model checking of module DeleteHistory: a chain of three nodes, deleted *)
(* and restored within two seconds by one author.                          *)
(***************************************************************************)
EXTENDS DeleteHistory

CONSTANTS p, c, d

MCNodes == {p, c, d}
MCParentOf == [n \in MCNodes |-> CASE n = c -> p [] n = d -> c [] OTHER -> NULL]

\* rerun --delete of p deletes c and d into p's group, of c only d into c's.
MCRootInputs == {<<c, p>>, <<d, p>>, <<d, c>>}
=============================================================================
