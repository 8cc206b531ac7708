----------------------------- MODULE AgentClaims -----------------------------
(***************************************************************************)
(* Agents and the nodes they hold (internal/store/sqlite/claim.go,         *)
(* internal/service/agent_service.go, node_workflow.go).  A claim writes   *)
(* the node's assignee and the agent's row in one transaction.  Two        *)
(* service calls read first and write in a later transaction: UnclaimNode, *)
(* which checks the assignee, and UpdateAgentState, which checks the       *)
(* agent's state.  Those are two steps each, with other calls in between.  *)
(*                                                                         *)
(* Not here: CheckStuckTimeouts, which nothing in the program calls, and   *)
(* state_changed_at, which only it reads.                                  *)
(***************************************************************************)
EXTENDS NodeStore

CONSTANTS
    Agents,
    StaleAfter,      \* the stale threshold of a forced claim, in seconds
    AssigneeInputs,  \* what `update --assignee` is given: agents, NULL clears
    MaxCalls         \* service calls between their read and their write

AgentState == {"idle", "working", "stuck", "done"}

\* A row of agents: the state, current_node_id and last_heartbeat columns.
AgentRows == [state : AgentState, current : Nodes \cup {NULL}, heartbeat : Nat]

ASSUME AgentsAssumption ==
    /\ NULL \notin Agents
    /\ NULL \notin AgentRows
    /\ StaleAfter \in Nat
    /\ AssigneeInputs \subseteq Agents \cup {NULL}
    /\ MaxCalls \in Nat

VARIABLES
    assignee,  \* nodes.assignee, or NULL
    agent,     \* the agents row of each agent, or NULL
    calls      \* the service calls that have read and not yet written

agentVars == <<assignee, agent, calls>>
claimVars == <<vars, agentVars>>

agentTransitions ==
    [s \in AgentState |->
        CASE s = "idle"    -> {"working"}
          [] s = "working" -> {"stuck", "done", "idle"}
          [] s = "stuck"   -> {"working", "idle"}
          [] s = "done"    -> {"idle"}]

ClaimsInit ==
    /\ Init
    /\ assignee = [n \in Nodes |-> NULL]
    /\ agent = [a \in Agents |-> NULL]
    /\ calls = {}

-----------------------------------------------------------------------------
(* The agents table.                                                       *)

NewRow == [state |-> "idle", current |-> NULL, heartbeat |-> now]

\* ensureAndSyncAgent: register the agent if it is new, then mark it working
\* on n.  The heartbeat of a known agent is not refreshed.
RowWorkingOn(a, n) ==
    [(IF agent[a] = NULL THEN NewRow ELSE agent[a])
        EXCEPT !.state = "working", !.current = n]

\* The row of an agent that loses its node, whatever node the row names.
RowReset(a) ==
    IF agent[a] = NULL THEN NULL ELSE [agent[a] EXCEPT !.state = "idle", !.current = NULL]

\* RegisterAgentWithStatus; a repeat refreshes the heartbeat, as Heartbeat does.
RegisterAgent(a) ==
    /\ agent' = [agent EXCEPT ![a] = IF @ = NULL THEN NewRow ELSE [@ EXCEPT !.heartbeat = now]]
    /\ UNCHANGED <<vars, assignee, calls>>

Heartbeat(a) ==
    /\ agent[a] # NULL
    /\ agent' = [agent EXCEPT ![a].heartbeat = now]
    /\ UNCHANGED <<vars, assignee, calls>>

-----------------------------------------------------------------------------
(* Claiming.                                                               *)

\* insertAndClaimNode: a create that names an assignee claims in the same
\* transaction.
CreateFor(n, a) ==
    /\ CreateNode(n, a # NULL)
    /\ assignee' = [assignee EXCEPT ![n] = a]
    /\ agent' = IF a = NULL THEN agent ELSE [agent EXCEPT ![a] = RowWorkingOn(a, n)]
    /\ UNCHANGED calls

ClaimFor(n, a) ==
    /\ ClaimNode(n)
    /\ assignee' = [assignee EXCEPT ![n] = a]
    /\ agent' = [agent EXCEPT ![a] = RowWorkingOn(a, n)]
    /\ UNCHANGED calls

\* Mutant: the comparison with the threshold is the wrong way round.
ActiveAgentStale(a) ==
    a # NULL => IF agent[a] = NULL THEN TRUE ELSE now - agent[a].heartbeat <= StaleAfter

\* checkAgentStale: no assignee, no row, or a heartbeat at least StaleAfter old.
AgentStale(a) ==
    a # NULL => IF agent[a] = NULL THEN TRUE ELSE now - agent[a].heartbeat >= StaleAfter

\* Only the assignee and the two agents' rows change: the old agent's row is
\* reset first, so an agent reclaiming its own node ends up working on it.
ForceReclaimNode(n, a) ==
    LET old == assignee[n]
        reset == IF old = NULL THEN agent ELSE [agent EXCEPT ![old] = RowReset(old)]
    IN  /\ Live(n)
        /\ status[n] = "in_progress"
        /\ AgentStale(old)
        /\ assignee' = [assignee EXCEPT ![n] = a]
        /\ agent' = [reset EXCEPT ![a] = RowWorkingOn(a, n)]
        /\ UNCHANGED <<vars, calls>>

\* update --assignee: the column alone, whoever holds the node.
UpdateAssignee(n, a) ==
    /\ Live(n)
    /\ assignee[n] # a
    /\ assignee' = [assignee EXCEPT ![n] = a]
    /\ UNCHANGED <<vars, agent, calls>>

-----------------------------------------------------------------------------
(* Service calls that read, and write in a later transaction.              *)

\* NodeService.UnclaimNode up to its call of the store: without force, the
\* node it read is unassigned or assigned to the actor.
UnclaimRead(n, actor, force) ==
    /\ Cardinality(calls) < MaxCalls
    /\ Live(n)
    /\ assignee[n] \notin {NULL, actor} => force
    /\ calls' = calls \cup {[op |-> "unclaim", node |-> n, actor |-> actor, force |-> force]}
    /\ UNCHANGED <<vars, assignee, agent>>

\* Mutant: the release clears the assignee and leaves the status.
ReleaseAssigneeOnly(n) ==
    /\ Live(n)
    /\ status[n] = "in_progress"
    /\ assignee' = [assignee EXCEPT ![n] = NULL]
    /\ UNCHANGED <<vars, agent>>

\* Store.UnclaimNode: whoever the assignee is by now.
Release(n) ==
    /\ UnclaimNode(n)
    /\ assignee' = [assignee EXCEPT ![n] = NULL]
    /\ agent' = IF assignee[n] = NULL THEN agent
                ELSE [agent EXCEPT ![assignee[n]] = RowReset(assignee[n])]

UnclaimWrite(call) ==
    /\ call \in calls
    /\ call.op = "unclaim"
    /\ calls' = calls \ {call}
    /\ \/ Release(call.node)
       \/ /\ ~Live(call.node) \/ status[call.node] # "in_progress"
          /\ UNCHANGED <<vars, assignee, agent>>

UpdateAgentStateRead(a, to) ==
    /\ Cardinality(calls) < MaxCalls
    /\ agent[a] # NULL
    /\ to \in agentTransitions[agent[a].state]
    /\ calls' = calls \cup {[op |-> "state", actor |-> a, to |-> to]}
    /\ UNCHANGED <<vars, assignee, agent>>

UpdateAgentStateWrite(call) ==
    /\ call \in calls
    /\ call.op = "state"
    /\ calls' = calls \ {call}
    /\ agent' = [agent EXCEPT ![call.actor].state = call.to]
    /\ UNCHANGED <<vars, assignee>>

-----------------------------------------------------------------------------
ClaimsNext ==
    \/ \E n \in Nodes, a \in Agents \cup {NULL} : CreateFor(n, a)
    \/ \E n \in Nodes, a \in Agents : ClaimFor(n, a) \/ ForceReclaimNode(n, a)
    \/ \E n \in Nodes, a \in AssigneeInputs : UpdateAssignee(n, a)
    \/ \E n \in Nodes, a \in Agents, force \in BOOLEAN : UnclaimRead(n, a, force)
    \/ \E a \in Agents : RegisterAgent(a) \/ Heartbeat(a)
    \/ \E a \in Agents, to \in AgentState : UpdateAgentStateRead(a, to)
    \/ \E call \in calls : UnclaimWrite(call) \/ UpdateAgentStateWrite(call)
    \/ StoreStep /\ UNCHANGED agentVars

ClaimsSpec == ClaimsInit /\ [][ClaimsNext]_claimVars

-----------------------------------------------------------------------------
(* Properties.                                                             *)

\* Work in progress is somebody's, and so is work that a restore or an unblock
\* would put back in progress: no path through blocked, invalidated or an
\* unclaim leaves a node in progress with nobody to finish it (unless its
\* assignee is cleared by hand).
InProgressHasAssignee ==
    \A n \in Nodes :
        (\/ status[n] = "in_progress"
         \/ status[n] \in {"blocked", "invalidated"} /\ prev[n] = "in_progress")
            => assignee[n] # NULL

\* No agent becomes the worker on a node another agent holds in progress unless
\* that agent has been silent for StaleAfter (FR-10.4, FR-10.4a), whatever
\* claims, reclaims, registrations and edits race.
NoTakeoverFromActiveAgent ==
    [][\A n \in Nodes, a, b \in Agents :
           (/\ a # b
            /\ status[n] = "in_progress" /\ assignee[n] = a
            /\ agent'[b] # NULL /\ agent'[b].current = n
            /\ agent[b] = NULL \/ agent[b].current # n)
               => agent[a] = NULL \/ now - agent[a].heartbeat >= StaleAfter]_claimVars
=============================================================================
