-------------------------- MODULE MCBackgroundScan --------------------------
(***************************************************************************)
(* Model checking of module BackgroundScan: a parent and its child.        *)
(***************************************************************************)
EXTENDS BackgroundScan

CONSTANTS p, c

MCNodes == {p, c}
MCParentOf == [n \in MCNodes |-> IF n = c THEN p ELSE NULL]
MCLinks == {<<c, p>>}
=============================================================================
