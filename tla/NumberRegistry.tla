--------------------------- MODULE NumberRegistry ---------------------------
(***************************************************************************)
(* Who holds a task number: creating tasks offline, pushing them, the      *)
(* hub's registry, renumbering the losers (cmd/mtix/sync_push*.go,         *)
(* internal/store/postgres/transport/push_pull.go, registry.go,            *)
(* collisions.go; internal/store/sqlite/settle*.go, node_renumber.go,      *)
(* sync_push_awaiting.go, sync_apply_pending_create.go).                   *)
(*                                                                         *)
(* Every client numbers its new tasks from its own counters, so two        *)
(* clients give the same number to different tasks.  The hub grants a      *)
(* number to the first creation it accepts; the pusher of another one      *)
(* moves its task, with everything below it, to its next free number and   *)
(* sends again.  Events and payloads name tasks by number, the events of a *)
(* task carry its uid as well.  After the operator has announced a restore *)
(* of the hub, a creation that meets a number granted before it is         *)
(* withheld until an administrator names the winner.                       *)
(*                                                                         *)
(* A number is a path: <<n>> a top-level task, <<n, m>> its child.  Left   *)
(* out: events without a uid, which only older builds emit, the holds of   *)
(* events that fail validation and their release, backfill --force, which  *)
(* mints creations a second time, uids adopted from an import, deletion,   *)
(* the loss of hub events in the restore itself, and two runs of           *)
(* `collisions resolve` for one collision on one client at a time.         *)
(***************************************************************************)
EXTENDS Integers, Sequences, FiniteSets, SequencesExt

CONSTANTS
    Clients,
    Work,        \* what the users do: [id, by, op, uid, to]; a creation has
                 \* op "create", id = uid and the parent in to, a link has op
                 \* "link" and its target in to
    BatchSize,   \* pushBatchSize
    MaxNumber,   \* bound on the numbers of one namespace
    MaxDepth,    \* bound on the levels of tasks that have children
    MaxRestores, \* bound on mark-restored
    MaxTroubles, \* bound on crashes of a push and lost acknowledgements
    NULL

Tasks == {w.id : w \in {x \in Work : x.op = "create"}}

ASSUME NumberRegistryAssumption ==
    /\ BatchSize \in Nat \ {0} /\ MaxNumber \in Nat \ {0}
    /\ MaxDepth \in Nat /\ MaxRestores \in Nat /\ MaxTroubles \in Nat
    /\ \A w \in Work : w.by \in Clients /\ w.uid \in Tasks /\ w.to \in Tasks \cup {NULL}
    /\ \A w, x \in Work : w.id = x.id => w = x
    /\ \A w \in Work : w.op = "create" => w.id = w.uid
    /\ \A w \in Work : w.op = "link" => w.to # NULL
    /\ \A w \in Work : w.op \notin {"create", "link"} => w.to = NULL
    /\ NULL \notin Tasks /\ NULL \notin Seq(Nat)

VARIABLES
    at,         \* the number of each task in each store, NULL when absent
    seq,        \* sequences: the counter of each namespace
    log,        \* sync_events of each client, in queue order
    held,       \* events push holds (sync_quarantine, source push)
    links,      \* dependencies applied from the hub: [event, target]
    push,       \* the push process of each client
    hub,        \* sync_events of the hub
    epoch,      \* sync_hub_state.restore_epoch
    collisions, \* sync_node_collisions
    troubles

vars == <<at, seq, log, held, links, push, hub, epoch, collisions, troubles>>

Root == <<>>
Namespaces == UNION {[1..k -> 1..MaxNumber] : k \in 0..MaxDepth}

ParentOf(num) == SubSeq(num, 1, Len(num) - 1)
Rebase(num, old, new) == new \o SubSeq(num, Len(old) + 1, Len(num))

NoResult == [accepted |-> {}, mismatched |-> {}, blocked |-> {}, renumbers |-> {}]
Idle == [pc |-> "idle", cursor |-> 0, redo |-> NULL, progressed |-> FALSE,
         batch |-> <<>>, result |-> NoResult]

Init ==
    /\ at = [c \in Clients |-> [u \in Tasks |-> NULL]]
    /\ seq = [c \in Clients |-> [p \in Namespaces |-> 0]]
    /\ log = [c \in Clients |-> <<>>]
    /\ held = [c \in Clients |-> {}]
    /\ links = [c \in Clients |-> {}]
    /\ push = [c \in Clients |-> Idle]
    /\ hub = {} /\ epoch = 0 /\ collisions = {} /\ troubles = 0

Entries(c) == {log[c][i] : i \in DOMAIN log[c]}
Ids(c) == {e.id : e \in Entries(c)}
Pending(c) == {e \in Entries(c) : e.status = "pending"}

-----------------------------------------------------------------------------
(* Local writes.                                                           *)

TakenIn(c, p) ==
    {n \in 1..MaxNumber : \E u \in Tasks : at[c][u] = Append(p, n)}

\* NextSequence with skipTakenSequence.
NextSequence(c, p) ==
    LET v == seq[c][p] + 1
    IN  IF v \notin TakenIn(c, p) THEN v
        ELSE 1 + CHOOSE n \in TakenIn(c, p) \cup {v} :
                     \A m \in TakenIn(c, p) \cup {v} : m <= n

Emit(c, w, num, ref) ==
    log' = [log EXCEPT ![c] =
              Append(@, [id |-> w.id, op |-> w.op, uid |-> w.uid, num |-> num,
                         to |-> w.to, ref |-> ref, status |-> "pending"])]

\* CreateNodeAllocated: the next number under the parent.
Create(c, w) ==
    LET parent == IF w.to = NULL THEN Root ELSE at[c][w.to]
        n == NextSequence(c, parent)
    IN  /\ w.op = "create"
        /\ parent \in Namespaces
        /\ n <= MaxNumber
        /\ at' = [at EXCEPT ![c][w.uid] = Append(parent, n)]
        /\ seq' = [seq EXCEPT ![c][parent] = n]
        /\ Emit(c, w, Append(parent, n), parent)

\* UpdateNode (to = NULL) or AddDependency: the event names both tasks by
\* their present numbers.
Change(c, w) ==
    /\ w.op # "create"
    /\ at[c][w.uid] # NULL
    /\ w.to # NULL => at[c][w.to] # NULL
    /\ Emit(c, w, at[c][w.uid], IF w.to = NULL THEN Root ELSE at[c][w.to])
    /\ UNCHANGED <<at, seq>>

LocalWrite(c, w) ==
    /\ w.by = c /\ w.id \notin Ids(c)
    /\ Create(c, w) \/ Change(c, w)
    /\ UNCHANGED <<held, links, push, hub, epoch, collisions, troubles>>

-----------------------------------------------------------------------------
(* Moving a task to another number.                                        *)

Below(c, old) == {u \in Tasks : at[c][u] # NULL /\ IsPrefix(old, at[c][u])}

\* Mutant: links into the moved subtree keep their number.
ReaddressedByUid(c, u, old, new, e) ==
    LET moved == e.uid \in Below(c, old)
    IN  [e EXCEPT
           !.num = IF e.status = "pending" /\ moved
                   THEN Rebase(at[c][e.uid], old, new) ELSE @,
           !.ref = IF e.status = "pending" /\ e.op = "create" /\ moved /\ IsPrefix(old, @)
                   THEN Rebase(@, old, new) ELSE @,
           !.status = IF e.id = u THEN "pending" ELSE @]

\* requeueRenumberedEvents: the pending events of the subtree, its creations'
\* parents and the links into it take the new numbers; the creation of the
\* moved task is sent again.
Readdressed(c, u, old, new, e) ==
    LET moved == e.uid \in Below(c, old)
    IN  [e EXCEPT
           !.num = IF e.id = u \/ (e.status = "pending" /\ moved)
                   THEN Rebase(at[c][e.uid], old, new) ELSE @,
           !.ref = IF /\ e.status = "pending"
                      /\ e.op = "link" \/ (e.op = "create" /\ moved)
                      /\ IsPrefix(old, @)
                   THEN Rebase(@, old, new) ELSE @,
           !.status = IF e.id = u THEN "pending" ELSE @]

HighestIn(numbers, p) ==
    LET taken == {n \in 1..MaxNumber : Append(p, n) \in numbers}
    IN  IF taken = {} THEN 0 ELSE CHOOSE n \in taken : \A m \in taken : m <= n

\* RenumberForHubRejection: the next free number of the namespace, one
\* transaction for the tasks and the events that name them; the counters the
\* move touches stay at or above the numbers below them.
Renumber(c, u) ==
    LET old == at[c][u]
        p == ParentOf(old)
        n == NextSequence(c, p)
        new == Append(p, n)
        nodes == [x \in Tasks |->
                    IF x \in Below(c, old) THEN Rebase(at[c][x], old, new) ELSE at[c][x]]
        numbers == {nodes[x] : x \in Tasks} \ {NULL}
    IN  /\ old # NULL /\ n <= MaxNumber
        /\ at' = [at EXCEPT ![c] = nodes]
        /\ seq' = [seq EXCEPT ![c] = [q \in Namespaces |->
                     IF q = p THEN n
                     ELSE IF IsPrefix(new, q) /\ HighestIn(numbers, q) > @[q]
                          THEN HighestIn(numbers, q) ELSE @[q]]]
        /\ log' = [log EXCEPT ![c] =
                     [i \in DOMAIN @ |-> Readdressed(c, u, old, new, @[i])]]

-----------------------------------------------------------------------------
(* Push: one pass at a time in a client (the push lock).                   *)

\* pendingCreationSQL: the tasks whose number is not granted as far as this
\* store knows.
Ungranted(c) == {e.uid : e \in {x \in Pending(c) : x.op = "create"}}

\* Some task at num or above it is not granted yet.
PendingNumber(c, num) ==
    \E u \in Ungranted(c) : at[c][u] # NULL /\ IsPrefix(at[c][u], num)

\* EventsAwaitingCreation: e waits while its task, a task above it, or the
\* target of a link or a task above that is not granted.
Awaits(c, e) ==
    \/ e.op = "create" /\ PendingNumber(c, ParentOf(at[c][e.uid]))
    \/ e.op # "create" /\ PendingNumber(c, at[c][e.uid])
    \/ e.op = "link" /\ PendingNumber(c, e.ref)

\* The subtree rule: while a creation is held, what is about its task or a
\* task below it is held with it, and so is every link made after it.
HeldCreations(c) == {i \in DOMAIN log[c] : log[c][i].op = "create" /\ log[c][i].id \in held[c]}
HeldWith(c, i) ==
    \E j \in HeldCreations(c) :
        LET top == at[c][log[c][j].uid]
        IN  \/ IsPrefix(top, at[c][log[c][i].uid])
            \/ log[c][i].op = "link" /\ j < i

\* Something is queued that no hold keeps back.
SomethingToPush(c) == \E e \in Pending(c) : e.id \notin held[c]

StartPush(c) ==
    /\ push[c].pc = "idle"
    /\ SomethingToPush(c)
    /\ push' = [push EXCEPT ![c].pc = "read"]
    /\ UNCHANGED <<at, seq, log, held, links, hub, epoch, collisions, troubles>>

\* readPendingBatchFrom: positions in the queue past the cursor.
BatchFrom(c, cursor) ==
    LET due == {i \in DOMAIN log[c] : /\ i > cursor
                                      /\ log[c][i].status = "pending"
                                      /\ log[c][i].id \notin held[c]}
    IN  {i \in due : Cardinality({j \in due : j < i}) < BatchSize}

\* The pass is over, or goes back to the events it deferred (awaitRedo.back).
NothingLeft(c) ==
    /\ push[c].pc = "read"
    /\ BatchFrom(c, push[c].cursor) = {}
    /\ IF push[c].redo # NULL /\ push[c].progressed
       THEN push' = [push EXCEPT ![c].cursor = push[c].redo, ![c].redo = NULL,
                                 ![c].progressed = FALSE]
       ELSE push' = [push EXCEPT ![c] = Idle]
    /\ UNCHANGED <<at, seq, log, held, links, hub, epoch, collisions, troubles>>

\* awaitRedo.note
Note(p, deferred) == IF deferred # {} /\ p.redo = NULL THEN p.cursor ELSE p.redo

\* step and screen: hold, defer, and keep the rest as read now.
ReadBatch(c) ==
    LET p == push[c]
        read == BatchFrom(c, p.cursor)
        holds == {i \in read : HeldWith(c, i)}
        deferred == {i \in read \ holds : Awaits(c, log[c][i])}
        send == read \ (holds \cup deferred)
    IN  /\ p.pc = "read"
        /\ read # {}
        /\ held' = [held EXCEPT ![c] = @ \cup {log[c][i].id : i \in holds}]
        /\ push' = [push EXCEPT ![c] =
                      [p EXCEPT !.pc = IF send = {} THEN "read" ELSE "send",
                                !.cursor = CHOOSE i \in read : \A j \in read : j <= i,
                                !.redo = Note(p, deferred),
                                !.batch = [i \in send |-> log[c][i]]]]
        /\ UNCHANGED <<at, seq, log, links, hub, epoch, collisions, troubles>>

-----------------------------------------------------------------------------
(* The hub.                                                                *)

\* lookupRegisteredCreate without e itself: at most one creation holds a number.
Holders(e) == {h \in hub : h.op = "create" /\ h.num = e.num /\ h.id # e.id}

\* registryDecide, then the INSERT and ackPresent.
Outcome(e) ==
    IF e.op = "create" /\ Holders(e) # {}
    THEN IF \E h \in Holders(e) : h.epoch < epoch THEN "blocked" ELSE "renumber"
    ELSE IF e.id \notin {h.id : h \in hub} THEN "insert"
    ELSE IF \E h \in hub : h.id = e.id /\ h.num = e.num /\ h.ref = e.ref THEN "present"
    ELSE "mismatch"

Stamped(e) == [id |-> e.id, op |-> e.op, uid |-> e.uid, num |-> e.num,
               to |-> e.to, ref |-> e.ref, epoch |-> epoch]

\* pushEventsInTx.  The numbers of one store are distinct, so the creations of
\* a batch never compete with each other.
HubTransaction(batch) ==
    /\ hub' = hub \cup {Stamped(e) : e \in {x \in Range(batch) : Outcome(x) = "insert"}}
    /\ collisions' = collisions \cup
         {[incoming |-> e.id, held |-> (CHOOSE h \in Holders(e) : TRUE).id,
           num |-> e.num, winner |-> NULL, moved |-> NULL] :
              e \in {x \in Range(batch) : /\ Outcome(x) = "blocked"
                                          /\ \A k \in collisions : k.incoming # x.id}}

Send(c) ==
    LET batch == push[c].batch
        Of(outcomes) == {e.id : e \in {x \in Range(batch) : Outcome(x) \in outcomes}}
    IN  /\ push[c].pc = "send"
        /\ HubTransaction(batch)
        /\ push' = [push EXCEPT
              ![c].pc = "mark",
              ![c].result = [accepted |-> Of({"insert", "present"}),
                             mismatched |-> Of({"mismatch"}),
                             blocked |-> Of({"blocked"}),
                             renumbers |-> {i \in DOMAIN batch : Outcome(batch[i]) = "renumber"}]]
        /\ UNCHANGED <<at, seq, log, held, links, epoch, troubles>>

\* The commit's acknowledgement is lost: retryWithBackoff sends the batch again.
SendUnacknowledged(c) ==
    /\ push[c].pc = "send"
    /\ troubles < MaxTroubles /\ troubles' = troubles + 1
    /\ HubTransaction(push[c].batch)
    /\ UNCHANGED <<at, seq, log, held, links, push, epoch>>

\* The pass after a batch whose outcome is r: read on, or stop when the batch
\* made no headway; renumbered creations are read from the head again.
AfterBatch(p, r) ==
    IF r.renumbers # {}
    THEN [Idle EXCEPT !.pc = "read", !.progressed = TRUE]
    ELSE IF r.accepted \cup r.mismatched = {} THEN Idle
    ELSE [p EXCEPT !.pc = "read", !.progressed = TRUE, !.batch = <<>>, !.result = NoResult]

\* Mutant: the whole batch is marked, its losers to be queued again.
WholeBatch(p) == {e.id : e \in Range(p.batch)}

\* PushResult.Accepted, what the hub stored or already had
Acknowledged(p) == p.result.accepted

\* markPushed and holdMismatches.
MarkPushed(c) ==
    LET p == push[c]
        r == p.result
    IN  /\ p.pc = "mark"
        /\ log' = [log EXCEPT ![c] = [i \in DOMAIN @ |->
                     IF @[i].id \in Acknowledged(p) THEN [@[i] EXCEPT !.status = "pushed"]
                     ELSE @[i]]]
        /\ held' = [held EXCEPT ![c] = @ \cup r.mismatched]
        /\ push' = [push EXCEPT ![c] =
                      IF r.renumbers # {} THEN [p EXCEPT !.pc = "renumber", !.batch = <<>>]
                      ELSE AfterBatch(p, r)]
        /\ UNCHANGED <<at, seq, links, hub, epoch, collisions, troubles>>

\* One renumber-required outcome of the batch, in queue order.
RenumberRejected(c) ==
    LET p == push[c]
        next == CHOOSE i \in p.result.renumbers : \A j \in p.result.renumbers : i <= j
        rest == p.result.renumbers \ {next}
    IN  /\ p.pc = "renumber"
        /\ Renumber(c, log[c][next].uid)
        /\ push' = [push EXCEPT ![c] =
                      IF rest = {} THEN AfterBatch(p, p.result)
                      ELSE [p EXCEPT !.result.renumbers = rest]]
        /\ UNCHANGED <<held, links, hub, epoch, collisions, troubles>>

\* The process stops; what it had committed stays.
Crash(c) ==
    /\ push[c].pc \notin {"idle", "read"}
    /\ troubles < MaxTroubles /\ troubles' = troubles + 1
    /\ push' = [push EXCEPT ![c] = Idle]
    /\ UNCHANGED <<at, seq, log, held, links, hub, epoch, collisions>>

-----------------------------------------------------------------------------
(* Restore collisions.                                                     *)

\* MarkRestored
MarkRestored ==
    /\ epoch < MaxRestores
    /\ epoch' = epoch + 1
    /\ UNCHANGED <<at, seq, log, held, links, push, hub, collisions, troubles>>

LoserOf(k, winner) == IF winner = k.held THEN k.incoming ELSE k.held

\* `mtix sync collisions resolve`, which does not take the push lock: the hub
\* accepts the decision of a client that has the losing task...
AcceptCollision(c, k, winner) ==
    /\ k.winner = NULL
    /\ at[c][LoserOf(k, winner)] # NULL
    /\ collisions' = (collisions \ {k}) \cup {[k EXCEPT !.winner = winner]}
    /\ UNCHANGED <<at, seq, log, held, links, push, hub, epoch, troubles>>

\* ... the loser moves, unless it has moved already: the check and the move are
\* one step here, two in the code, which differ only when two runs resolve one
\* collision on one client at once ...
MoveLoser(c, k) ==
    /\ k.winner # NULL /\ k.moved = NULL
    /\ at[c][LoserOf(k, k.winner)] = k.num
    /\ Renumber(c, LoserOf(k, k.winner))
    /\ UNCHANGED <<held, links, push, hub, epoch, collisions, troubles>>

\* ... and its new number is recorded (CompleteCollisionMove).
FinishCollision(c, k) ==
    /\ k.winner # NULL /\ k.moved = NULL
    /\ at[c][LoserOf(k, k.winner)] \notin {NULL, k.num}
    /\ collisions' = (collisions \ {k}) \cup
                        {[k EXCEPT !.moved = at[c][LoserOf(k, k.winner)]]}
    /\ UNCHANGED <<at, seq, log, held, links, push, hub, epoch, troubles>>

-----------------------------------------------------------------------------
(* Pull.                                                                   *)

TaskAt(c, num) == {u \in Tasks : at[c][u] = num}

\* Mutant: a number held by a task that is not granted yet is taken as it is.
NeverRefused(c, num) == FALSE

\* refusePendingNumber
Refused(c, num) == PendingNumber(c, num)

Mirror(c, e) ==
    log' = [log EXCEPT ![c] =
              Append(@, [id |-> e.id, op |-> e.op, uid |-> e.uid, num |-> e.num,
                         to |-> e.to, ref |-> e.ref, status |-> "applied"])]

\* What applyCreateNode asks for: a parent, and no task in the way whose
\* number may still change.
CreateApplies(c, e) ==
    /\ e.ref # Root => ~Refused(c, e.ref) /\ TaskAt(c, e.ref) # {}
    /\ at[c][e.uid] = NULL
    /\ TaskAt(c, e.num) # {} => ~Refused(c, e.num)

\* applyCreateNode.  A number that a granted task holds here keeps that task.
ApplyCreate(c, e) ==
    /\ CreateApplies(c, e)
    /\ at' = IF TaskAt(c, e.num) = {} THEN [at EXCEPT ![c][e.uid] = e.num] ELSE at
    /\ seq' = [seq EXCEPT ![c][e.ref] = IF Last(e.num) > @ THEN Last(e.num) ELSE @]
    /\ UNCHANGED links

\* An edit finds its task by uid, a link its target by number.
ChangeApplies(c, e) ==
    /\ at[c][e.uid] # NULL
    /\ e.op = "link" => ~Refused(c, e.ref) /\ TaskAt(c, e.ref) # {}

ApplyChange(c, e) ==
    /\ ChangeApplies(c, e)
    /\ links' = [links EXCEPT ![c] = @ \cup
                   {[event |-> e.id, target |-> u] : u \in IF e.op = "link" THEN TaskAt(c, e.ref) ELSE {}}]
    /\ UNCHANGED <<at, seq>>

\* The pull of c can take an event of the hub that is not in its log.
SomethingToApply(c) ==
    \E e \in hub : /\ e.id \notin Ids(c)
                   /\ IF e.op = "create" THEN CreateApplies(c, e) ELSE ChangeApplies(c, e)

\* IdempotentApply of an event that is not in the log; one that is refused is
\* quarantined and tried again, so events come in any order.
Apply(c, e) ==
    /\ e \in hub /\ e.id \notin Ids(c)
    /\ IF e.op = "create" THEN ApplyCreate(c, e) ELSE ApplyChange(c, e)
    /\ Mirror(c, e)
    /\ UNCHANGED <<held, push, hub, epoch, collisions, troubles>>

-----------------------------------------------------------------------------
PushStep(c) ==
    NothingLeft(c) \/ ReadBatch(c) \/ Send(c) \/ MarkPushed(c) \/ RenumberRejected(c)

Next ==
    \/ \E c \in Clients, w \in Work : LocalWrite(c, w)
    \/ \E c \in Clients : StartPush(c) \/ PushStep(c) \/ SendUnacknowledged(c) \/ Crash(c)
    \/ \E c \in Clients : \E e \in hub : Apply(c, e)
    \/ MarkRestored
    \/ \E c \in Clients : \E k \in collisions :
          \/ \E winner \in {k.held, k.incoming} : AcceptCollision(c, k, winner)
          \/ MoveLoser(c, k) \/ FinishCollision(c, k)

Spec == Init /\ [][Next]_vars

-----------------------------------------------------------------------------
(* Properties.                                                             *)

Granted(u) == \E h \in hub : h.op = "create" /\ h.id = u
GrantOf(u) == (CHOOSE h \in hub : h.op = "create" /\ h.id = u).num

\* The task and all it was created under.
Lineage(u) ==
    {v \in Tasks : \A S \in SUBSET Tasks :
        (/\ u \in S
         /\ \A w \in Work : w.op = "create" /\ w.uid \in S /\ w.to # NULL => w.to \in S)
            => v \in S}

\* The administrator decided that a task the hub has granted a number, or one
\* it was created under, gives the number up.  The grant stays in the hub's
\* log, so store and hub no longer agree on it.
Overruled(u) == \E k \in collisions : k.winner = k.incoming /\ k.held \in Lineage(u)

\* No collision was decided for the creation that came second.
NoneOverruled == \A k \in collisions : k.winner \in {NULL, k.held}

\* A link applied from the hub points to the task its author linked, and a
\* child lies below the parent it was created under, in every store; as long
\* as no task the hub had granted a number was told to give it up.  The move
\* of such a task does not take the push lock, and a push under way can mark
\* it as pushed at a number that the hub then grants to another task.
SameTaskEverywhere ==
    NoneOverruled =>
        /\ \A c \in Clients : \A l \in links[c] : \A w \in Work :
              w.id = l.event => l.target = w.to
        /\ \A c \in Clients : \A w \in Work :
              (w.op = "create" /\ w.to # NULL /\ at[c][w.uid] # NULL)
                  => at[c][w.to] = ParentOf(at[c][w.uid])

\* A store and the hub agree on the number of every task the store counts as
\* granted, and no two tasks of a store share a number.
NumbersAgree ==
    \A c \in Clients : \A u \in Tasks : at[c][u] # NULL =>
        /\ u \in Ungranted(c) \/ Overruled(u) \/ (Granted(u) /\ GrantOf(u) = at[c][u])
        /\ TaskAt(c, at[c][u]) = {u}

\* Nobody waits for anybody for ever: when no push and no pull of any client has
\* anything left to do, and no granted task was told to give its number up,
\* every task has its number on the hub, every store has it there, and every
\* link is in place.
QuietMeansComplete ==
    (/\ NoneOverruled
     /\ \A c \in Clients :
           push[c].pc = "idle" /\ ~SomethingToPush(c) /\ ~SomethingToApply(c))
        => \A c, d \in Clients : \A e \in Entries(c) :
              /\ e.id \in {h.id : h \in hub} \cap Ids(d)
              /\ at[d][e.uid] = GrantOf(e.uid)
=============================================================================
