---------------------------- MODULE MCAgentClaims ----------------------------
(***************************************************************************)
(* Model checking of module AgentClaims: two agents and one node.          *)
(***************************************************************************)
EXTENDS AgentClaims

CONSTANTS t, ann, bob

MCNodes == {t}
MCParentOf == [n \in MCNodes |-> NULL]
MCAgents == {ann, bob}
MCEdits == {bob}
=============================================================================
