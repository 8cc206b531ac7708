# mtix in TLA+

mtix is a task tracker for teams of AI agents. Each host keeps its tasks
("nodes", numbered like PROJ-1.2.3) in a SQLite store; a Postgres hub, or files
passed between peers, carry the changes of one host to the others; hooks and
wake-ups start agents when something happens. This directory holds a model of
the parts whose correctness depends on order, concurrency and failure: what a
transaction may do to the node table, what services that read first and write
later can do to each other, how events pushed late still reach every replica
and are resolved alike in every order, who keeps a number two hosts gave out,
what a file relay delivers when its publisher dies or is restored, and how
hooks and wake-ups happen exactly as often as they should when several
processes dispatch them and some of them die.

Paths below are relative to `src/`. `sqlite` stands for
`internal/store/sqlite`, `service` for `internal/service`.

## 1. The system

### Components

| component | state | operations | hard behaviour | correct when |
|---|---|---|---|---|
| Node status machine (`internal/model/status.go`, `state_machine.go`) | none | transition table, status groups | the store writes the column without asking it in several places | every status write is an edge of the table |
| Node store (`sqlite` transition, cancel, claim, dependency, progress, node_create) | status, previous_status, closed_at, defer_until, progress, `blocks` dependencies | create, transition, defer, claim, unclaim, cancel, link, refresh | one operation changes many rows: cascades, auto-block and unblock, rollup to every ancestor | the columns agree with each other and with the neighbours' |
| Soft delete (`sqlite/node_delete.go`) | deleted_at/by, cascade_deletes rows | delete, delete under a root, replayed delete, undelete, purge | which of several deletes removed a node is inferred from a second and an author | an undelete restores one delete, no more and no less |
| Background scan (`service/background.go`) | candidates selected by a query | purge the expired, wake the due | selects, then writes one node at a time | never acts on what is no longer true |
| Agents and claims (`sqlite/claim.go`, `service/agent_service.go`, `node_workflow.go`) | assignee, agent row, heartbeat | register, heartbeat, claim, forced claim, unclaim, state report | check in one transaction, write in another | work in progress has a holder, a live holder keeps it |
| Pull (`cmd/mtix/sync_pull*.go`) | cursor, sweep mark, staged ids, quarantine, clock | cursor pass, sweep, retry of the quarantine | pushes commit late and below the cursor; a pull fails anywhere | nothing on the hub is missed |
| Hub push and number registry (`internal/store/postgres/transport`) | sync_events, restore epoch, collisions | push: insert, acknowledge what is present, renumber, block | lost acknowledgement, two clients using one number, a restored hub | an event is stored once, a number is given once, nobody waits for ever |
| Event apply (`sqlite/sync_apply*.go`, `sync_workflow_*.go`) | the log, the row, conflict rows | apply one event | any arrival order, own events that come back, malformed events | what a replica shows is a function of the events it holds |
| Event emission and clocks (`sqlite/sync_emit.go`) | Lamport clock, journal | emit | overflow, clock jumps | the stamp is above all that was applied |
| Push flow (`cmd/mtix/sync_push*.go`, `sqlite/settle*.go`, `node_renumber.go`) | pending events, holds, counters | read a batch, hold, defer, send, mark, renumber | the store changes while a push is under way, creations wait for creations | events and links keep naming the task they were made for |
| Hook dispatch ledger (`service/hooks_dispatch.go`, `hooks_recovery.go`, `sqlite/hook_*.go`) | journal positions, ledger rows, scan floor | pass: recover, scan, claim, fire, record, advance, prune | several processes, crashes, leases, reused positions | every event is dispatched, no outcome is undone |
| Wake dispatch (`service/wake_*.go`, `sqlite/wake_*.go`, `registrations.go`) | registration with its high-water mark and hold, wake ledger, budget file | scan, judge, claim, send, record, advance, re-evaluate, acknowledge, register | several passes at once, claims that lapse, a file and a transaction, reused journal positions | mail is woken for once, never for free, never left lying |
| Wake lease (`sqlite/wake_lease*.go`, `examples/hooks/wake-agent.sh`) | lease, dirty mark, mark of the journal | acquire, renew, release, abandon | a lease lapses under its holder | one run of an agent at a time, and it sees all the mail |
| Relay (`internal/relay`, `sqlite/relay_cursor.go`) | segment files, push cursor, ingest cursor per peer | publish, rotate, bank, reset, republish; poll, scan, apply | death between append and cursor, torn frames, restores, a reader beside a writer | every event is delivered, or one side says why not |
| Export mirror, auto-import (`service/export_debouncer.go`, `cmd/mtix`) | timer, file hash | trigger, flush, close, import | timer against Flush and Close | the last change reaches the file |
| Rerun and restore (`service/rerun.go`, `restore.go`) | none | strategies over a subtree | reads each node, then writes it | done work is not undone unasked |
| Status repair, recover/verify/backup, interfaces, hook programs/attach/docs/redaction | | | I/O, parsing, rendering | not modelled |

`PROJECT.json` lists each of them with its status and the reason where one is
left out.

### How they interact

CLI, HTTP, gRPC and MCP handlers call services; a service reads from the store
and then calls a store operation, which is one SQLite write transaction that
reads again what it decides on (or fails to: some of the findings are such
places). SQLite serialises writers, so a transaction is an atomic step and
everything between two transactions is an interleaving. Every mutation appends
an event to the journal in its own transaction. The push flow sends journal
events to the hub; the pull brings the others' events, under an exclusive lock
(BeginExchangePull), and applies them to the same tables the local operations
use. The relay carries the same journal through files, and its reader applies
through the same IdempotentApply. Wake passes read the inbox, a view of the
journal, and share the registration's row, the wake ledger and a budget file
that belongs to the operator rather than to the store. Hook passes read the journal and write their ledger; they run in the
daemon's loop, in a server after each commit and at the end of CLI commands,
with no coordination except the ledger.

## 2. Modules

| module | models | state and actions |
|---|---|---|
| `NodeStatus` | `internal/model/status.go`, `state_machine.go` | statuses, `validTransitions`, status groups |
| `NodeStore` | the store's transactions | one variable per column; `CreateNode`, `TransitionStatus`, `RestoreInvalidated`, `DeferNode`, `RedeferNode`, `WakeDeferredNode`, `ClaimNode`, `UnclaimNode`, `CancelNode`, `AddDependency`, `RemoveDependency`, `ApplyLinkDep`, `ApplyUnlinkDep`, `RefreshBlocked`, `DeleteNode`, `DeleteNodeWithRoot`, `ApplyDelete`, `UndeleteNode`, `PermanentlyDelete`, `Tick` |
| `DeleteHistory` | extends `NodeStore` | adds the history of deletes that provenance rows are compared with |
| `AgentClaims` | extends `NodeStore` | assignees, agent rows and the service calls that have read and not yet written |
| `BackgroundScan` | extends `NodeStore` | a scan as select, one step per candidate, which may fail, and a stop at any point |
| `SyncPull` | pull, sweep, quarantine; the hub as pullers see it | `BeginPush`, `CommitPush`, `AbortPush`, `HubTick`; `BeginPull`, `RetryPage`, `BeginCursorPass`, `CursorPage`, `BeginSweep`, `ListPage`, `ApplyStaged`, `FinishSweep`, `FinishPull`, `FailPull` |
| `HookLedger` | hook dispatch | each trigger's pass step by step, crashes and failed calls, first fill, replace import and discard of the journal, time |
| `ReplicatedTask` | what sync promises (docs/SYNC-DESIGN.md, section 8) | abstract: the events a replica holds, and the task they resolve to |
| `EventApply` | emission and apply of one task's events | log, clock, row and conflict rows of each replica; `UpdateTitle`, `UpdateAssignee`, `ClaimNode`, `UnclaimNode`, `TransitionStatus`, `DeleteNode`, `IdempotentApply`. Implements `ReplicatedTask` |
| `NumberRegistry` | numbers: local counters, push, the hub's registry, renumbering, collisions, pull | `LocalWrite`, `StartPush`, `ReadBatch`, `NothingLeft`, `Send`, `SendUnacknowledged`, `MarkPushed`, `RenumberRejected`, `Crash`, `MarkRestored`, `AcceptCollision`, `MoveLoser`, `FinishCollision`, `Apply` |
| `RelayStream` | publisher, segments, ingest | `Open`, `AppendRecord`, `Rotate`, `AppendFails`, `AdvanceRelayPushCursor`, `ResetPeer`, `RepublishFrom`, `Die`, `Restore`; `StartPoll`, `IngestSegment`, `IngestRefusing`, `IngestDies` |
| `WakeDispatch` | wake passes | `Scan`, `Reevaluate`, `Judge`, `MarkHeld`, `Refused`, `Claim`, `ClaimFails`, `Deliver`, `Record`, `RecordFails`, `Advance`, `Die`; `DeliverInbox`, `Ack`, `Register`, `Unregister`, `RewriteJournal`, time and switches |
| `WakeLease` | the lease and the script that uses it | `Acquire`, `Launch`, `Ack`, `Finish`, `Renew`, `Release`, `DrainLimit`, `Interrupted`, `Die`, `Lapse` |
| `NodeStoreProofs`, `SyncPullProofs`, `HookLedgerProofs`, `EventApplyProofs`, `NumberRegistryProofs`, `RelayStreamProofs`, `WakeDispatchProofs`, `WakeLeaseProofs` | | theorems for every value of the constants, each module about the one it is named after; `NodeStoreProofs` also about `AgentClaims`, `BackgroundScan` and `DeleteHistory`, which extend `NodeStore` |
| `MC*` | | instances for TLC |

An action is a whole transaction, its rollups, cascades and unblocks included.
Where a service call spans two transactions it is two actions
(`UnclaimRead`/`UnclaimWrite`, the scan's select and turns, the steps of a pull
or a pass). `map` in `PROJECT.json` names the lines of each definition. A
definition whose comment starts with "Mutant" is a plausible mistake in the
definition after it, and no specification uses it; `PROJECT.json` pairs each
with the property that catches it.

### What the abstraction keeps and drops

- *Node store.* Timestamps are seconds on one clock, the resolution of the
  stored strings; a closing time is only set or not. Progress is an integer
  count of 1/Scale. Activity, history and emitted events are logs no operation
  reads back. A purge returns the columns to their defaults and the id is not
  used again. A row of the blocks relation carries whether a received link
  event inserted it, which only the property reads.
- *Claims.* The agent row is state, current node and heartbeat. Sessions, the
  stuck-agent check (nothing calls it) and `state_changed_at` are left out.
- *Pull.* An event is its Lamport clock, id, kind (create, edit, delete), node
  and pusher. `created_at` is when the push transaction began, as in the hub's
  DEFAULT now(). A push takes at most PushTimeout. Reading a page and storing
  it are one step, because a page once read cannot change.
- *Hooks.* A journal position is the highest one plus one, so positions are
  reused when the end of the journal was removed; that is what the code's
  (position, id) fence is for. Time is kept as ages, up to one unit beyond the
  lease. What an adapter does, the exec-dispatch policy, and events suppressed
  at ingest are left out. A pass that cannot read the floor or its page ends as
  a crash ends it. Every other call that fails is logged and the pass goes on:
  a failed claim leaves no row, a failed record leaves the claim open, a failed
  advance leaves the floor, and a recovered event that cannot be read again is
  closed with an error and is not fired.
- *Event apply.* One task that every replica has, with two of the fields an
  edit can name, title and assignee. A text or a time is named by the event
  that wrote it, so that two writes never look alike. An assignee edit goes by
  the field's last writer and a claim by the workflow winner, and the code
  compares no edit with a claim (`sync_workflow_winner.go:98-99` says so):
  which of the two a replica shows may depend on the order of arrival, and
  `ReplicatedTask` says nothing about the assignee. The columns
  previous_status, progress and agent_state and the effects on other tasks are
  left out. Vector clocks decide nothing in apply. An event that a replica
  holds already changes nothing and is not a step.
- *Numbers.* A number is a path, an event carries its task's uid, its number
  and the number it refers to (a parent or a link's target). Deletion, holds
  for failed validation, events without a uid and the loss of hub events in the
  restore itself are left out. The check and the move of `collisions resolve`
  are one step; the two differ only where two runs of it decide one collision
  on one client at once. The queue is the log's order, which is the order of
  the Lamport clocks it was written with.
- *Relay.* Frames are whole, torn or missing; a segment is its epoch, first
  sequence and records. Bytes, checksums and keys are left out, and so are
  whatever retention removes and the inbox mail an import brought back, which
  the publisher passes over. A process's publisher lives for one pass.
- *Wake dispatch.* One agent and one slot of registration. An event of the
  journal is the agent's mail from the start when it is a comment that
  addresses it, or from when a hook delivers it, at the number it has by then
  (`RecordInboxDeliveryEvent`); it is plain mail, written by the agent itself,
  or too deep in a chain of wake-ups. Mail carried over to a clone of the hub
  is left out. Time only shows as lapsed claims, an ended back-off and an hour
  gone by.
- *Wake lease.* A holder token is the script that drew it, or unknown to all.

## 3. Runs

| run | instance | properties | shows |
|---|---|---|---|
| *links* | `MCNodeStore`, `MCLinks.cfg` | CyclesComeFromSync, ResolvingUnblocks, ProgressFollowsChildren | A tree of four nodes on three levels with dependencies, linked here and by received events, that could close a cycle, and a leaf that is deleted and restored: every cycle of the blocks relation is one a received link closed, resolving a blocker (also by cascade) leaves no dependent blocked by resolved blockers only, and progress follows the children at every level. |
| *delete* | `MCDeleteHistory`, `MCDelete.cfg` | ProvenanceMatchesHistory, UndeleteStaysInGroup | A chain of three nodes deleted (with and without cascade, by a rerun, through sync) and restored within two seconds by one author: the provenance rows agree with the history of deletes and an undelete stays inside its group. |
| *claims* | `MCAgentClaims`, `MCClaims.cfg` | InProgressHasAssignee, ClosedWhenResolved, BlockedRemembers, NoTakeoverFromActiveAgent, StatusStepsFollowTheMachine | Two agents race claims, forced claims, unclaims, edits, state reports and status changes on one node: work in progress always has an assignee, nobody takes over from an agent that is not silent, closing times and remembered statuses fit the status, and every status write is an edge of the transition table. |
| *scan* | `MCBackgroundScan`, `MCScan.cfg` | WakeOnlyWhileDeferred, NoDanglingReferences, PurgeSparesLive, WakeOnlyWhenDue, ScanWakesDue | A scan that selects first and writes later, with every other operation in between and turns that fail: it purges no live node, leaves no reference to a purged one, wakes only what is still due, leaves no wake time on a node that is not deferred and wakes everything that was due, unless it was stopped or the node's own turn failed. |
| *pull* | `MCSyncPull`, `MCPull.cfg` | NothingSlips, CursorWithinReach, RetrySettles, EveryEventArrives | Two clients push, one of them late and with clocks on both sides of the cursor, while a replica pulls, fails and resumes: no event escapes the next sweep, the cursor stays within reach of the clock, a finished pull leaves nothing in the quarantine that could be applied, and every event arrives. |
| *hooks* | `MCHookLedger`, `MCHooks.cfg` | HookTypeOK, OpenClaimsAboveFloor, NothingSkipped, OneFiringPerLease, OutcomeIsFinal, EveryEventDispatched | Two triggers dispatch over a journal whose positions are reused, with crashes, failed calls, expiring claims, a replace import, a discard and a first fill: the floor stays below open claims and passes only events that were fired, given up by design or lost to one of two logged errors, outcomes are final, two triggers never work on one pair within a lease, and the daemon deals with every event. |
| *apply* | `MCEventApply`, `MCApply.cfg` | WinnerOwnsTheRow, NoSilentLoss, TaskImplemented | Two replicas edit the title and the assignee, claim, release, close, reopen, defer and delete one task offline and apply each other's events, and a malformed one, in every order: what each shows is a function of the events it holds (refinement of ReplicatedTask), the assignee is the winning claim's or an unbeaten edit's, the wake time belongs to the winner, and no edit disappears without a conflict row. |
| *relay* | `MCRelayStream`, `MCRelay.cfg` | CursorNeverAhead, NothingSteppedOver, DeliveredOrReported | A peer publishes its journal as segment files and another reads them, with deaths between any two steps, torn frames, failed writes, a restore from a backup, reset-peer, republish and a refused record: the push cursor never runs ahead of the medium, the reader steps over nothing, and every event is delivered unless one side reports that it has stopped. |
| *relay_crash* | `MCRelayStream`, `MCRelayCrash.cfg` (violation) | PublicationResumes | The publisher dies once, after an append and before the cursor moves: every later pass finds the medium ahead of the cursor's next_rs and refuses, so publication does not resume. |
| *wake* | `MCWakeDispatch`, `MCWake.cfg` | MarkCovers, WokenOnce, NoFreeWake, EventuallyWoken | Passes of two processes over one registration, with holds, budgets, lapsing claims, deaths, re-registration, a rewritten journal and mail that a hook delivers at an old number: the high-water mark covers only mail that was dealt with or came too late, an event is sent twice only after its claim lapsed, no wake escapes the budget, and the host's passes in the end wake for everything above the mark that no setting of the operator holds back. |
| *lease* | `WakeLease`, `MCLease.cfg` | OneRunUnlessLapsed, MarkAnswered | Three firings of the wake script and the agents they launch share one lease, with renewals, expiry, signals and kills: two runs overlap only after a lease has lapsed, and the mark a turned-away script leaves is answered by a launch that shows its mail. |
| *numbers* | `MCNumberRegistry`, `MCNumbers.cfg` | SameTaskEverywhere, NumbersAgree, QuietMeansComplete | Two clients number a task, its child, a link and a rival task offline, push in batches with a crash or a lost acknowledgement, renumber the losers, and pull, also after an announced restore: links and children stay with their task, stores and hub agree on granted numbers, and when nothing is left to do everything has arrived everywhere. |

### Bounds

Every bound is a named constant and appears in a guard.

- *links*: four nodes on three levels, so that a rollup has to pass two levels
  and average two children (Scale 2), and three links that would close a cycle
  of length three: a check for direct cycles is not enough. Links received name
  the pairs of `SyncedLinks`. `TreeNext` takes steps of `Next` only: every node
  is created, claimed, released, finished, cancelled and linked, and the leaf q
  is deleted and restored too; deferral, invalidation and the deletion of inner
  nodes belong to the other runs.
- *delete*: a chain of three, one author, two seconds: two deletes in the same
  second by the same author are exactly what provenance rows are for.
- *claims*: two agents, one node, one pending service call, a stale threshold
  of one second. Two agents are what every race here needs. A node is blocked
  by hand and refreshed, which saves and restores the same columns as a
  dependency does.
- *scan*: a parent and child, a dependency, retention one second, wake times 1
  and 2: a candidate can be undeleted and deleted again, or woken and deferred
  again, before its turn.
- *pull*: five events of two clients, chosen so that one client's create and
  delete straddle the cursor the other moves, one clock is beyond the allowed
  jump until others are applied, and one is never acceptable; pages of two,
  overlap and push timeout of one unit, one failure. The clocks are the
  smallest that make a push late in each of these ways.
- *hooks*: two triggers, one of them the daemon, one hook that is or is not
  configured when a pass starts, journal positions 1 and 2 for three events, so
  a position is reused; the lease is one tick; one fault (crash, failed write,
  replace or discard). The same run with three positions passes too, in about
  four minutes.
- *apply*: two replicas, three writes in all, two wall-clock readings, ids in
  any order, and a malformed status change whose Lamport clock lies between
  theirs; an assignee edit names one of the agents (1.03 million states). Three
  writes are what it takes for a write to beat one that was seen and lose to
  one that was not. The two replicas are on two machines; within one machine a
  full tie is possible and is a finding (section 5).
- *relay*: one publisher and one reader, two events, segments of two records,
  one death, restore, reset, repair and refusal. The instance with three
  events (1.09 million states) was run once and holds as well.
- *relay_crash*: the same with a single death and no other fault.
- *wake*: the host and one command, an hourly limit and a back-off threshold of
  two, one trouble, and two events of one of two mixes: a comment too deep in
  its chain before one of the agent's own, and an event too deep that only a
  hook delivers before a plain comment, so that mail can come below a mark, or
  wait behind an event the hop guard stops at (687 thousand states).
- *lease*: three firings, three mails, two launches a run, two troubles: a
  holder that is displaced, a second that takes over, a third that is turned
  away.
- *numbers*: one client makes a task, a child and a link from the child to it,
  the other a task of the same number; batches of two, numbers up to three,
  one level of tasks that have children, one restore, one crash or lost
  acknowledgement. With a child of the rival
  task (1.53 million states) and with a link from the other client (797
  thousand) it was run once and holds as well.

### Fairness

`NodeStore`, `DeleteHistory`, `AgentClaims`, `EventApply` and `NumberRegistry`
assume none and claim no liveness; *QuietMeansComplete* says instead that a
state in which no push and no pull has anything to do is a complete one.
Deadlock is not an error where the system may stop: when the writes and faults
of an instance are used up, or the clock is at its bound, nothing has to
happen.

- `BackgroundScan`: weak fairness on the next step of a scan that has begun.
  Nothing schedules a scan (its callers are `mtix gc` and an admin endpoint),
  so beginning one is not assumed; and a scan may be stopped, in which case
  nothing is promised. A turn may fail, which is a turn all the same: the scan
  goes on with the next candidate.
- `SyncPull`: weak fairness on the steps of pulls: the sync daemon starts one
  every 30 seconds. Nothing is assumed of the clients: *EveryEventArrives* is
  about what reached the hub.
- `HookLedger`: weak fairness on the daemon's pass (every five seconds) and on
  the clock. The other triggers may stop anywhere for ever, holding a claim.
- `RelayStream`: weak fairness on publish steps and on poll steps: the daemon
  runs both halves of a pass on every tick. Operators' commands, writes and
  faults may or may not come.
- `WakeDispatch`: weak fairness on the host's scans and the steps of its
  passes, which its loop begins again after each, and on time (claims lapse, an
  hour goes by). Nothing is asked of the commands: their passes need never
  begin, nor a begun one go on.
- `WakeLease`: a fired script asks for the lease, and a running one goes on;
  the agent need not acknowledge anything, nor the renewer run.

### Exemptions

*NumbersAgree* leaves out a task the administrator overruled: its grant stays
in the hub's log while its store has moved it (section 5). *SameTaskEverywhere*
and *QuietMeansComplete* promise nothing once a granted task was overruled
(NoneOverruled): the move does not take the push lock, and a push under way can
mark the task as pushed at a number that the hub then grants to another one.
Until then restores, collisions and moves of the losers are all included.
*DeliveredOrReported* accepts the two states the relay reports to an operator,
a publisher that refuses and a reader that has condemned a segment.
*EventuallyWoken* accepts live wake switched off, no route, no registration,
and, for the lowest event that waits above the mark only, a chain deeper than
the hop limit: passes stop there, so nothing behind it is promised, and what
waits before it is. *MarkCovers* leaves out mail that a hook delivered when the
mark, or a pass that had listed the inbox already, was beyond its number
(`history.late`, section 5). *NothingSkipped* leaves out pairs whose claim
failed and recovered ones whose event could not be read, both with a logged
error (section 5). *CyclesComeFromSync* is about the links made here: it leaves
the rows received links inserted out of the relation, since those are not
checked (section 5). *ScanWakesDue* leaves out a node whose own turn failed.
*QuietMeansComplete* counts a push that can only defer as something to do, so
it does not say that such a push ever gets further. *MarkAnswered* promises
nothing once a lease has lapsed or a script was killed or gave up: the code
then relies on the next firing.

## 4. What is proved

Every safety property of the runs is also a theorem, for every value of the
constants: any number of nodes, agents, clients, triggers, replicas,
passes, scripts and records, any page, batch and segment size, any number of
faults. `PROJECT.json` lists the theorems. Their proofs have one lemma per
action, and under it one step per part of the invariant that the action can
disturb.

### Assumptions

The assumptions of the modules (the `ASSUME`s, which TLC evaluates in the runs)
say that the constants have their types and that NULL is none of the values.
Those that say more:

- `TreeAssumption`: finitely many ids, and a parent's id is shorter than its
  child's, as dotted numbers are. A finite table is also what the purge's and
  the cycle check's searches need to end.
- `TimeoutAssumption`: PushTimeout <= Overlap. The hub ends a push transaction
  after a bound that is below the overlap of the sweep (`push_timeout.go`); on
  a hub before Postgres 17 it does not, which is a listed hazard.

A theorem that needs more of the caller says so in its statement:

- `DistinctMachines`, for *TaskImplemented* and *NoSilentLoss*: no two stores
  share a machine hash. With two stores on one machine a full tie is possible,
  and then each store keeps its own (section 5).
- `CallersClaim`, for *InProgressHasAssignee*: nobody asks TransitionStatus for
  in_progress and nobody edits an assignee to nothing. The table of transitions
  would allow the first; the callers (CLI, HTTP, gRPC and MCP handlers, the
  rerun service) claim instead.
- `CreationFirst`, for *RetrySettles*: the creation of a node has the lowest
  clock of the node's events, because an edit is stamped by a store that has
  the node.
- `OneWriter`, for the relay: one process publishes at a time. Two can overlap,
  and then the segment writer's own assumption fails (section 5).
- `EpochsRise` or `NeverBack`, for *NothingSteppedOver*: see the relay below.
- `NoneOverruled`, for *NumbersAgree*: no collision was decided against a task
  that was granted its number. The exemption of the overruled tasks only, as
  the property has it, is model-checked. Where no restore is announced the
  hypothesis always holds (`NumbersAgreeUnrestored`).

### Node store (`NodeStoreProofs`)

`Invariance` establishes IndInv: the column types, unused rows holding the
default status, *WakeOnlyWhileDeferred*, *ClosedWhenResolved* and
*BlockedRemembers*. None of the three is inductive alone. An unblock writes the
remembered status back without touching closed_at, so *ClosedWhenResolved*
needs that a blocked node remembers open or in_progress only; and that in turn
needs that blocking is only done from those two. A create must not inherit a
wake time, hence the part on unused rows.

`StatusStepsHold` and `ResolvingUnblocksHolds` are action properties on top of
it: the first goes through the writes that bypass ValidateTransition (claim,
unclaim, auto-block, auto-unblock, cascade), the second through the two ways of
resolving a node (a transition, a cancel with its cascade) and shows that the
set of nodes each re-examines is large enough.

`CyclesComeFromSyncHolds` is about the cycle check of AddDependency, and about
the blocks relation without the rows received link events inserted, which are
not checked; AddDependency searches all rows, hence these too. The
breadth-first search, run as deep as there are nodes, returns the least set
that holds its start and is closed under the links (`ReachableClosed`,
`ReachableLeast`; the level at which it would stop being so has a least one,
`LeastOf`, which takes the place of induction). A link is added when its source
is not in the set found from its target; then the sets found before the
addition, or the union of two of them, are still closed after it, so that no
older link closes a cycle either.

`ProgressFollowsChildrenHolds` is about the rollup. The column it computes is a
recursive function over the tree, and that there is one which satisfies its
equation at every node is proved from the least level of the tree at which it
would not (`RecomputeEquation`). Each operation then has to name enough nodes
to visit: the set is closed upwards (`RollupClosed`) and holds the parent of
every node whose status, life or progress the step changes, the targets of a
cascading cancel and the members of a deleted or restored group included.
Nodes outside it keep both their progress and their counted children.

### Services over the node store (also `NodeStoreProofs`)

- *Claims.* `ClaimsImplementStore`: each step of the agents is a step of the
  node store or leaves its columns alone, so all of the above holds with them.
  *InProgressHasAssignee* covers what a blocked or invalidated node remembers
  as well, since an unblock or a restore brings it back; the operations that
  set no assignee make no node newly held (NoneNewlyHeld).
  *NoTakeoverFromActiveAgent*: an agent takes up a node only by a claim, a
  create that claims, or a forced claim (`TakesUpByClaim`), and each of them
  checks the holder in the transaction that writes.
- *Scan.* ScanInv adds to IndInv that references point to rows that exist and
  that the time a pass began is not after now. It is the transaction's own
  check, not the selection, that carries *PurgeSparesLive* and
  *WakeOnlyWhenDue*.
- *Deletes.* *ProvenanceMatchesHistory* needs that the deletes in force divide
  the deleted nodes between them (HistoryPartition) and that each deleted node
  has the provenance row of its delete, with its own stamp, while a live node
  has none (HistoryRows): otherwise a delete received through sync could find
  an old row that fits. *UndeleteStaysInGroup* follows from both.

### Pull (`SyncPullProofs`)

SweepInv says where an event that is on the hub and not here can be: after the
position of the sweep under way (ListCovers), after that of a sweep that was
interrupted (ProgressCovers), or within the overlap of the next one
(ApplyCovers, *NothingSlips*). An event that commits during a sweep falls in
the last case because its push is younger than the timeout. *CursorWithinReach*
is inductive once the types are known: the cursor moves only to an event the
clock, as the page leaves it, accepts, and the clock never goes back.
*RetrySettles* is about the last pass through the quarantine, in the order of
the clocks: what the pass has gone by and still holds would be refused
(LastRetrySettles), because an event that is refused stays refused when a
later one is taken (StillRefused).

### Event apply (`EventApplyProofs`)

LogInv: an event is written once and held by its writer from then on, and a
replica's clock is not below what it holds, so that two events of one writer
differ in their stamp. With it the comparison of two events is a strict total
order, and each replica's columns are those of the greatest event in its log,
whichever arrived last: ApplyInv for the workflow columns and the deletion,
EditInv for the last edit of each field (LatestEdits). The assignee column has
two writers that are not compared, so ApplyInv says of it that it is the
winner's or that of an edit which no edit held beats. Releasing a claim leaves
the wake time alone, which is right only because a task that is not deferred
has none (WakesOfDeferrals). Each step of a replica then is a step of
`ReplicatedTask`, and `TaskImplementedHolds` is the refinement. *NoSilentLoss*
needs LossInv: an edit made here beats all edits it could have seen or is
accounted for.

### Hook ledger (`HookLedgerProofs`)

IndInv is the type invariant, a part that says what a pass knows at each of its
steps (a trigger that fires or records holds a claim on an event; only recovery
meets claims of missing events) and *OpenClaimsAboveFloor*. The floor part
rests on `FloorTowardsFacts` (an advance never goes back and stays below every
open claim) and on the guard of a new claim (`s > floor`); taking over an
expired claim keeps its position. This shows that the "narrow advance race" a
comment in `hook_ledger.go` speaks of cannot happen. `OutcomeIsFinalHolds` is
the action property: the four ways in which a row changes (claim, outcome,
discard of a missing claim, prune) and the four in which the floor does
(advance, first fill, replace, discard) never make a settled pair claimable
again while its event stays where it is. For the replace this needs that a kept
event is at or below the new tail, and for pruning that pruned rows are at or
below the floor.

*NothingSkipped* takes a second invariant, HookInv, on top of it. An event is
at one position (IdsOnce); floor and rows stay within the tail, so that a
position used again starts without either (WithinTail); a recorded outcome is
about the event now at its position (RowsEarned). The journal may change under
a page, so the rest is said of the entries that still stand, those whose event
is where the pass read it: below such an entry the page has every event
(PageWhole), and each matching pair of one is queued, dealt with, lost to a
failed claim or a failed read (both logged), or claimed (Owed). An advance that
passes the (position, id) fence therefore leaves nothing behind.
*OneFiringPerLease* rests on LeaseHeld: a claim younger than the lease is the
one in the ledger, or the pair is closed.

### Numbers (`NumberRegistryProofs`)

RegistryInv relates each store to the hub. The tasks of a store form trees whose
numbers are paths (TreeOf). A move to a free number beside the old one keeps
the order of prefixes between any two numbers (`MoveKeepsOrder`,
`ShiftKeepsTree`), so parents stay parents, and what is above a granted task is
granted (GrantedUp). A pending creation or link names tasks by the numbers they
have now; a creation that is not pending has its number from the hub (EntryOK).
The hub gives a number once and a child a number below its parent's (HubOK). A
batch is read before it is sent and the store may change in between, so what it
says of a creation is what the log says, or the task was moved and its old
number is another task's on the hub already (SentOK): then the hub refuses it,
and nothing stale is stored. That a sent creation has all its ancestors granted
is what deferral buys; without it a renumbered parent would leave its children
on the hub at numbers below another task. A task that moves is not granted, and
then nothing below it is; this is what fails when an administrator overrules a
granted task, and why the invariant holds under NoneOverruled. From it follow
*NumbersAgree* and *SameTaskEverywhere*.

*QuietMeansComplete* needs DueInv besides: what is not pending is on the hub, a
pending edit or link names its task by its present number, and one that is on
its way or on the hub names it by the granted number. An event sent again is
therefore the same as the one the hub has (`NothingMismatches`), so push holds
nothing back for good. In a quiet state nothing is pending, so no pull is
refused; of the creations a store lacks, one of least depth would find its
parent there and be applied (`HasCreations`), so none is lacking; then no edit
or link is lacking either, for their tasks and targets are granted.

### Relay (`RelayStreamProofs`)

*CursorNeverAhead* needs PubInv: no event of the journal is whole on the medium
without the ones before it (NoneAlone), a backup is a prefix of the journal
whose own cursor is right, and a pass that appends stands at the end of the
newest segment and has published what it says (AppendOK). The first is needed
because a repair moves the cursor to what it finds on the medium, the second
because a restore brings an old cursor back.

*NothingSteppedOver* needs ReadInv: the reader's position lies in a segment it
the medium still has, below that segment's resume point, and all records up to
it were applied or quarantined; within an epoch, relay sequences rise from segment
to segment. The writer changes the medium only at its end (`Grows`),
and that relation is what the reader's part is carried across. It is true only
as long as the epochs on the medium have not gone down. They can: three
restores of one backup with two resets and a death after a rotation let a
reader step over an event, because a restore takes the epoch back and the next
reset uses it again (section 5; more faults than the run allows). The theorem
therefore carries EpochsRise as a hypothesis on the state, and
`NothingSteppedOverNeverBack` shows that it is met where the store is never
restored or the stream never reset: then the cursor's epoch is the highest
there is (EpochTop).

### Wakes (`WakeDispatchProofs`, `WakeLeaseProofs`)

WakeInv says what each pass may rely on. One that moves the mark over an event
has sent it or found it to be the agent's own (Earned); between the mark and a
candidate that still stands, everything is dealt with, came too late or is a
candidate of the same pass (Reach): an event a hook delivers at a number such a
pass, or the mark, is beyond is put on the list of the late ones; one whose
token stands in the ledger has seen the event the row is about (HoldsToken). A
journal position is a candidate under one registration only (OneHome), an event
that was claimed keeps its row as long as it is in the journal (RowKept), and
unless a claim on it lapsed it is sent once (SentOnce). From these follow
*MarkCovers* and *WokenOnce*; *NoFreeWake* is inductive beside them.

For the lease, a script that is between its acquisition and its end holds the
lease unless a lease has lapsed (RunnersHold), and two cannot hold it.

### Model-checked only

- Liveness (*ScanWakesDue*, *EveryEventArrives*, *EveryEventDispatched*,
  *DeliveredOrReported*, *EventuallyWoken*, *MarkAnswered*, and the violated
  *PublicationResumes*), which the proof system does not cover.
- *NumbersAgree* of the tasks that were not overruled in a state where another
  one was.

## 5. Where code and documents disagree

`PROJECT.json` quotes the lines. Shown by a run that ends in a violation:

- *relay_crash*: a publisher that dies between an append and its cursor refuses
  on every later pass, because the stored next_rs no longer agrees with the
  medium; the comments say publication resumes (`relay/publisher`).

Found with a model, without a run of their own here:

- `rerun` with the delete strategy records what it removes under the same root
  as a delete of that root, so undeleting the root brings back nodes an earlier
  rerun removed (`sqlite/node_delete.go`).
- The assignee check of an unclaim is a transaction before the release, so a
  former holder can release another agent's claim (`service/node_workflow.go`).
- The purge selects with the retention and deletes without it
  (`service/background.go`).
- A delete that arrives before its create is recorded as applied, and the
  create then revives the node (`sqlite/sync_apply_ops_more.go`).
- A link received through sync is inserted without the search for cycles, so
  two replicas that link opposite ways end in a cycle of blocked tasks
  (`sqlite/sync_apply_ops.go`).
- A hook claim that fails with an error leaves no row, and the floor passes the
  event (`service/hooks_dispatch.go`).
- A recovered hook claim whose event cannot be read at that moment is closed
  with an error, and the hook is never fired (`service/hooks_recovery.go`).
- A hook that delivers an older event after the agent's mark went past its
  number, or while a pass is about to, delivers mail that nothing wakes for
  (`service/wake_scanner_steps.go`).
- A torn tail that the writer rotates past stops every reader: the rule that
  would excuse it is never called (`relay/segment`, `relay/ingest`).
- Two publish passes of one host may overlap, which the segment writer relies
  on not to happen (`cmd/mtix/relay_phase.go`).
- The publisher's epoch goes back with a restored store, so two restores of one
  backup can share an epoch (`sqlite/relay_cursor.go`). Repeated, with resets
  and a death in between, this lets a reader step over an event (section 4).
- Edits of two stores on one machine can tie in full, and then each store keeps
  its own (`sqlite/sync_apply_lww.go`).
- A renewal whose token is stale makes a lease nobody can release
  (`sqlite/wake_lease_acquire.go`).
- A creation that lost one restore collision and meets another is withheld with
  no open collision; `--winner incoming` leaves both tasks blocked; the docs
  give the opposite epoch rule; and `collisions resolve` does not take the push
  lock, so that two tasks can end at one number and a link point to the wrong
  one (`postgres/transport/collisions.go`, `cmd/mtix/sync_collision*.go`).

Others, from reading: an edit that follows a delete is quarantined, not ignored
(`docs/SYNC-DESIGN.md`); the comment on the sweep's overlap predates the bound
on push transactions; nothing calls RunScan hourly (FR-3.8b); the comment on
StaleHookClaims about claims below the floor.

Met while modelling, where the model follows the code: a node blocked by hand,
or whose blockers were deleted, stays blocked until refreshed (FR-3.8); a node
that was blocked when it was invalidated remembers that, which is no status it
may return to, so its restore opens it even where it was in progress before it
was blocked (FR-3.8a asks for the status before the block); closed_at survives
done, invalidated, open; a reopened leaf keeps its progress (FR-5.2); restoring
a node that was deferred loses its wake time; a claim does not refresh the
heartbeat; two state reports of one agent can take an edge the agent table
lacks (FR-10.2); `rerun --open-only` acts on a status read earlier; the floor a
first pull sets also passes events written on the host meanwhile.

## 6. Plan

Modelled: the node store and the modules that extend it, the pull, the hook
ledger, event apply as a refinement, numbers, the relay, wake dispatch and the
wake lease; each of them has its safety properties proved. Left: an
`ExportDebouncer` (the timer against Flush and Close), then the rerun loop over
`NodeStore`.

### Not modelled

- Export mirror and auto-import: the debouncer is planned; the guard that
  compares task files is a decision over file contents and hashes.
- Relay retention, acknowledgement files, key rotation and the clone of a peer;
  they remove or add segments whole and are ordered by the operator.
- Push holds for events that fail validation and their release, backfill,
  discard-local on the push side, and the provisional settlement, which nothing
  calls.
- Import, its plans and repairs (`sqlite/import*.go`), status repair, recover,
  verify and backup: single transactions over data that is compared column by
  column, or I/O on damaged files, covered by their own tests.
- CLI, HTTP, gRPC, MCP and web handlers, attach, docs generation, redaction and
  hook programs: parsing, rendering and calls into what is modelled.

The map covers the lines of the protocols above; most of the repository is the
interfaces and the import, export and diagnosis commands listed here.

## 7. Checking

    tlc -workers 2 -config MCHooks.cfg MCHookLedger
    tlapm HookLedgerProofs.tla

and likewise for the other configurations listed in `PROJECT.json`; each run
takes from a few seconds to about three minutes. The proofs of a module take
from a few seconds (the wake lease) to about six minutes (the numbers) from
nothing.
