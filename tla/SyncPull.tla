------------------------------ MODULE SyncPull ------------------------------
(***************************************************************************)
(* How the events other clients push reach one replica (cmd/mtix           *)
(* sync_pull*.go, internal/store/postgres/transport).                      *)
(*                                                                         *)
(* A pull reads the hub twice.  The cursor pass pages through the events   *)
(* after the saved cursor in (Lamport clock, event id) order.  A client    *)
(* that worked offline pushes events stamped below that cursor, so a sweep *)
(* then lists what the hub stored since the last sweep, by storage time,   *)
(* stages the ids the replica lacks and applies them in Lamport order.     *)
(* The storage time is when the push BEGAN, and a push that began before a *)
(* sweep can commit after it; the window therefore starts Overlap before   *)
(* the last sweep.  An event that is refused or fails is kept in the       *)
(* quarantine and tried again before and after every pull.                 *)
(*                                                                         *)
(* A pull holds the store's sync lock, so there is one at a time; it can   *)
(* fail between any two transactions and the next one goes on from what    *)
(* was saved.  Reading a page from the hub and storing it are one step:    *)
(* nothing the hub does in between changes the page.                       *)
(*                                                                         *)
(* Left out: the replica's own events (a pull acknowledges them without    *)
(* applying), number collisions and renumbering, parents and dependencies  *)
(* between nodes, and which of two edits of a field wins.                  *)
(***************************************************************************)
EXTENDS Integers, FiniteSets, Folds

CONSTANTS
    Events,       \* event ids, as positive numbers: ids are ordered
    Nodes,        \* the nodes the events are about
    Clients,      \* the clients that push
    NULL,
    Lamport,      \* the Lamport clock of each event
    Kind,         \* create, edit (anything that needs a live node) or delete
    Subject,      \* the node each event is about
    PushedBy,     \* the client that pushes each event
    PageSize,     \* pull --limit
    Overlap,      \* lateEventSweepOverlap
    PushTimeout,  \* the longest a push transaction can stay open
    MaxLamportClock,  \* no event at or above it is ever accepted
    MaxJump,      \* sync.max_lamport_jump
    MaxTime,      \* bound on the hub's clock
    MaxFaults     \* bound on failed pulls, failed pushes and lost acknowledgements

ASSUME EventsAssumption ==
    /\ Events \subseteq Nat \ {0} /\ IsFiniteSet(Events)
    /\ Lamport \in [Events -> Nat]
    /\ Kind \in [Events -> {"create", "edit", "delete"}]
    /\ Subject \in [Events -> Nodes]
    /\ PushedBy \in [Events -> Clients]
ASSUME BoundsAssumption ==
    /\ PageSize \in Nat \ {0}
    /\ MaxLamportClock \in Nat
    /\ Overlap \in Nat /\ PushTimeout \in Nat /\ MaxJump \in Nat \ {0}
    /\ MaxTime \in Nat /\ MaxFaults \in Nat
    /\ NULL \notin Int
\* "Both stay well below the 15-minute late-event sweep overlap."
ASSUME TimeoutAssumption == PushTimeout <= Overlap

VARIABLES
    hubNow,      \* the hub's clock
    created,     \* sync_events.created_at of each event on the hub, or NULL
    pushing,     \* when each client's push transaction began, or NULL
    pushed,      \* whether the client has recorded its events as pushed
    applied,     \* applied_events
    quarantine,  \* sync_quarantine, pulled events
    node,        \* the replica's nodes: none, live or deleted
    clock,       \* meta.sync.lamport
    cursor,      \* the saved pull cursor, (Lamport clock, event id)
    staged,      \* sync_sweep_pending
    lastSweep,   \* meta.sync.last_sweep_at, or NULL
    progress,    \* saved position and start of an unfinished sweep, or NULL
    phase,       \* where the pull is
    at,          \* the pull's position in what it is paging through
    started,     \* the hub time before the sweep's first page, or NULL
    faults

hubVars == <<hubNow, created, pushing, pushed>>
replicaVars == <<applied, quarantine, node, clock>>
sweepVars == <<staged, lastSweep, progress>>
pullVars == <<phase, at, started>>
vars == <<hubVars, replicaVars, cursor, sweepVars, pullVars, faults>>

Origin == <<0, 0>>

OnHub == {e \in Events : created[e] # NULL}
Known == applied \cup quarantine

\* Keyset order on pairs of a clock and an event id.
Before(p, q) == p[1] < q[1] \/ (p[1] = q[1] /\ p[2] < q[2])
PullKey == [e \in Events |-> <<Lamport[e], e>>]
ListKey == [e \in Events |-> <<created[e], e>>]

\* The next page of S after the position `at`, in the order of key, and
\* whether more follows it.
After(S, key) == {e \in S : Before(at, key[e])}
FirstPage(S, key) ==
    {e \in S : Cardinality({x \in S : Before(key[x], key[e])}) < PageSize}
LastOf(S, key) == CHOOSE e \in S : \A x \in S : ~Before(key[e], key[x])

Init ==
    /\ hubNow = 0
    /\ created = [e \in Events |-> NULL]
    /\ pushing = [c \in Clients |-> NULL]
    /\ pushed = [c \in Clients |-> FALSE]
    /\ applied = {} /\ quarantine = {}
    /\ node = [n \in Nodes |-> "none"]
    /\ clock = 0
    /\ cursor = Origin
    /\ staged = {} /\ lastSweep = NULL /\ progress = NULL
    /\ phase = "idle" /\ at = Origin /\ started = NULL
    /\ faults = 0

-----------------------------------------------------------------------------
(* The hub and the clients that push to it.                                *)

\* A client can push an event about a node another client created only after
\* it has pulled that creation.
Causal(c) ==
    \A e, x \in Events :
        (PushedBy[e] = c /\ Kind[x] = "create" /\ Subject[x] = Subject[e])
            => PushedBy[x] = c \/ x \in OnHub

\* A push transaction opens; its rows will carry this moment as created_at.
BeginPush(c) ==
    /\ ~pushed[c] /\ pushing[c] = NULL
    /\ Causal(c)
    /\ pushing' = [pushing EXCEPT ![c] = hubNow]
    /\ UNCHANGED <<hubNow, created, pushed, replicaVars, cursor, sweepVars, pullVars, faults>>

\* The push commits before the timeouts end it.  Rows already there stay as
\* they are.  The client records the push, or the acknowledgement is lost and
\* it will push the same events again.
CommitPush(c, acknowledged) ==
    /\ pushing[c] # NULL
    /\ hubNow - pushing[c] <= PushTimeout
    /\ created' = [e \in Events |-> IF PushedBy[e] = c /\ created[e] = NULL
                                    THEN pushing[c] ELSE created[e]]
    /\ pushing' = [pushing EXCEPT ![c] = NULL]
    /\ pushed' = [pushed EXCEPT ![c] = acknowledged]
    /\ acknowledged \/ faults < MaxFaults
    /\ faults' = IF acknowledged THEN faults ELSE faults + 1
    /\ UNCHANGED <<hubNow, replicaVars, cursor, sweepVars, pullVars>>

\* The push fails or is ended by a timeout.
AbortPush(c) ==
    /\ pushing[c] # NULL
    /\ faults < MaxFaults
    /\ faults' = faults + 1
    /\ pushing' = [pushing EXCEPT ![c] = NULL]
    /\ UNCHANGED <<hubNow, created, pushed, replicaVars, cursor, sweepVars, pullVars>>

HubTick ==
    /\ hubNow < MaxTime
    /\ hubNow' = hubNow + 1
    /\ UNCHANGED <<created, pushing, pushed, replicaVars, cursor, sweepVars, pullVars, faults>>

-----------------------------------------------------------------------------
(* Applying a batch: one transaction, the events in Lamport order, each    *)
(* applied or held back.  r is what the transaction has done so far.       *)

\* CheckIngestClock, against the local clock r has reached.
ClockAccepted(e, local) == Lamport[e] < MaxLamportClock /\ Lamport[e] - local <= MaxJump

\* refuseBehindQuarantinedCreate: the node's creation is in the quarantine.
BehindCreate(r, e) ==
    \E x \in (quarantine \cup r.held) \ r.done :
        x # e /\ Kind[x] = "create" /\ Subject[x] = Subject[e]

\* An edit of a node that is not there, or is deleted, fails; a delete of one
\* does nothing.
Accepted(r, e) ==
    /\ ClockAccepted(e, r.clock)
    /\ ~BehindCreate(r, e)
    /\ Kind[e] = "edit" => r.node[Subject[e]] = "live"

NodeAfter(s, kind) ==
    CASE kind = "create" -> "live"
      [] kind = "delete" -> IF s = "live" THEN "deleted" ELSE s
      [] OTHER           -> s

\* IdempotentApply of an event not applied before, or its quarantine row.
Ingest(r, e) ==
    IF e \in applied THEN r
    ELSE IF Accepted(r, e)
    THEN [r EXCEPT !.done = @ \cup {e},
                   !.node[Subject[e]] = NodeAfter(@, Kind[e]),
                   !.clock = IF Lamport[e] > @ THEN Lamport[e] ELSE @]
    ELSE [r EXCEPT !.held = @ \cup {e}]

\* Mutant: a batch is taken in descending Lamport order.
DescendingOrder(S) == CHOOSE e \in S : \A x \in S : ~Before(PullKey[x], PullKey[e])

\* The event of S a batch takes last: the highest Lamport clock, then id.
BatchOrder(S) == LastOf(S, PullKey)

\* What a transaction over the events of S does.
Batch(S) ==
    MapThenFoldSet(LAMBDA e, r : Ingest(r, e),
                   [done |-> {}, held |-> {}, node |-> node, clock |-> clock],
                   LAMBDA e : e, BatchOrder, S)

\* The tables after a transaction over S.
ApplyBatch(S) ==
    \E r \in {Batch(S)} :
        /\ applied' = applied \cup (S \ r.held)
        /\ quarantine' = (quarantine \cup r.held) \ applied'
        /\ node' = r.node
        /\ clock' = r.clock

\* applyPullBatch leaves events already quarantined to the retry.
ApplyPulled(S) == ApplyBatch(S \ quarantine)

-----------------------------------------------------------------------------
(* A pull.                                                                 *)

\* The lock is taken; nothing has been read yet.
BeginPull ==
    /\ phase \in {"idle", "complete"}
    /\ phase' = "retry"
    /\ at' = Origin
    /\ UNCHANGED <<hubVars, replicaVars, cursor, sweepVars, started, faults>>

\* retryQuarantinedEvents, before the hub is contacted and again at the end:
\* one page of the quarantine, in one transaction.
RetryPage ==
    LET page == FirstPage(After(quarantine, PullKey), PullKey)
    IN  /\ phase \in {"retry", "last_retry"}
        /\ page # {}
        /\ ApplyBatch(page)
        /\ at' = PullKey[LastOf(page, PullKey)]
        /\ UNCHANGED <<hubVars, cursor, sweepVars, phase, started, faults>>

\* The first retry is over: connect and start from the saved cursor.
BeginCursorPass ==
    /\ phase = "retry"
    /\ After(quarantine, PullKey) = {}
    /\ phase' = "cursor"
    /\ at' = cursor
    /\ UNCHANGED <<hubVars, replicaVars, cursor, sweepVars, started, faults>>

\* Mutant: the cursor is saved at the last event of the page.
CursorAtPageEnd(page, local) ==
    IF page = {} THEN cursor ELSE PullKey[LastOf(page, PullKey)]

\* advancePullCursor: the last event of the page whose clock is accepted once
\* the batch is in, so never an event refused for its clock.
AdvancePullCursor(page, local) ==
    LET accepted == {e \in page : ClockAccepted(e, local)}
    IN  IF accepted = {} THEN cursor ELSE PullKey[LastOf(accepted, PullKey)]

\* One page of the cursor pass; its events and the cursor commit together.
\* The pass pages on past refused events, and ends with the page the hub says
\* nothing follows: an event that commits after it is left to the sweep.
CursorPage ==
    LET rest == After(OnHub, PullKey)
        page == FirstPage(rest, PullKey)
    IN  /\ phase = "cursor"
        /\ ApplyPulled(page)
        /\ cursor' = AdvancePullCursor(page, clock')
        /\ at' = IF page = {} THEN at ELSE PullKey[LastOf(page, PullKey)]
        /\ phase' = IF page = rest THEN "sweep" ELSE phase
        /\ UNCHANGED <<hubVars, sweepVars, started, faults>>

\* Mutant: the window starts where the last sweep did.
WindowWithoutOverlap == IF lastSweep = NULL THEN Origin ELSE <<lastSweep, 0>>

\* readSweepWindow: Overlap before the last sweep; the whole history when
\* there was none.
SweepWindow == IF lastSweep = NULL THEN Origin ELSE <<lastSweep - Overlap, 0>>

\* The sweep starts from the position an unfinished one saved, if there is one.
BeginSweep ==
    /\ phase = "sweep"
    /\ phase' = "list"
    /\ at' = IF progress = NULL THEN SweepWindow ELSE progress.position
    /\ started' = IF progress = NULL THEN NULL ELSE progress.started
    /\ UNCHANGED <<hubVars, replicaVars, cursor, sweepVars, faults>>

\* The hub's clock before the first page of the sweep.
SweepStart == IF started = NULL THEN hubNow ELSE started

\* One page of the listing phase: stage what is missing and save the position,
\* unless there is nothing to stage and nothing follows.
ListPage ==
    LET rest == After(OnHub, ListKey)
        page == FirstPage(rest, ListKey)
        missing == page \ Known
        more == page # rest
    IN  /\ phase = "list"
        /\ started' = SweepStart
        /\ IF missing # {} \/ more
           THEN /\ staged' = staged \cup missing
                /\ progress' = [position |-> ListKey[LastOf(page, ListKey)],
                                started |-> SweepStart]
           ELSE UNCHANGED <<staged, progress>>
        /\ IF more THEN at' = ListKey[LastOf(page, ListKey)] /\ UNCHANGED phase
                   ELSE at' = Origin /\ phase' = "apply"
        /\ UNCHANGED <<hubVars, replicaVars, cursor, lastSweep, faults>>

\* applyStagedChunk: the lowest staged clocks; ids the replica has by now are
\* only unstaged (the code does so just before, in a transaction of its own).
ApplyStaged ==
    LET chunk == FirstPage(staged, PullKey)
    IN  /\ phase = "apply"
        /\ chunk # {}
        /\ ApplyPulled(chunk \ Known)
        /\ staged' = staged \ chunk
        /\ UNCHANGED <<hubVars, cursor, lastSweep, progress, pullVars, faults>>

\* finishLateEventSweep: nothing is staged, so the sweep is recorded at the
\* time it started.
FinishSweep ==
    /\ phase = "apply"
    /\ staged = {}
    /\ lastSweep' = started
    /\ progress' = NULL
    /\ phase' = "last_retry"
    /\ at' = Origin
    /\ started' = NULL
    /\ UNCHANGED <<hubVars, replicaVars, cursor, staged, faults>>

FinishPull ==
    /\ phase = "last_retry"
    /\ After(quarantine, PullKey) = {}
    /\ phase' = "complete"
    /\ at' = Origin
    /\ UNCHANGED <<hubVars, replicaVars, cursor, sweepVars, started, faults>>

\* The pull fails, is cancelled or its process dies; a transaction that had
\* not committed leaves nothing behind.
FailPull ==
    /\ phase \notin {"idle", "complete"}
    /\ faults < MaxFaults
    /\ faults' = faults + 1
    /\ phase' = "idle"
    /\ at' = Origin
    /\ started' = NULL
    /\ UNCHANGED <<hubVars, replicaVars, cursor, sweepVars>>

-----------------------------------------------------------------------------
HubStep ==
    \/ \E c \in Clients : BeginPush(c) \/ AbortPush(c)
    \/ \E c \in Clients, acknowledged \in BOOLEAN : CommitPush(c, acknowledged)
    \/ HubTick

PullStep ==
    \/ BeginPull \/ RetryPage \/ BeginCursorPass \/ CursorPage \/ BeginSweep
    \/ ListPage \/ ApplyStaged \/ FinishSweep \/ FinishPull

Next == HubStep \/ PullStep \/ FailPull

\* The sync daemon pulls again and again.
Spec == Init /\ [][Next]_vars /\ WF_vars(PullStep)

-----------------------------------------------------------------------------
(* Properties.                                                             *)

\* No event slips through: one the replica does not have yet lies in the window
\* the next sweep will list, however late its push committed, wherever the
\* cursor is and wherever earlier pulls failed.
NothingSlips ==
    \A e \in OnHub \ Known : lastSweep # NULL => created[e] >= lastSweep - Overlap

\* The saved cursor stays within reach of the local clock, so an event with an
\* extreme Lamport clock cannot hide every later event from the cursor pass.
CursorWithinReach == cursor[1] <= clock + MaxJump

\* When a pull is complete, every event still quarantined would be refused
\* again: what the pull brought late has been taken into account.
RetrySettles ==
    phase = "complete" =>
        \A e \in quarantine :
            ~Accepted([done |-> {}, held |-> {}, node |-> node, clock |-> clock], e)

\* Pulling again and again brings every event on the hub to the replica,
\* whatever its clock and whenever its push committed; with finitely many
\* events, there comes a time when the replica has them all.
EveryEventArrives == <>[](OnHub \subseteq Known)
=============================================================================
