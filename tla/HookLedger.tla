----------------------------- MODULE HookLedger -----------------------------
(***************************************************************************)
(* The dispatch of hooks on one host (internal/service hooks_dispatch.go,  *)
(* hooks_recovery.go and internal/store/sqlite hook_ledger*.go,            *)
(* hook_fence.go, hook_missing_claim.go, hook_trim.go).                    *)
(*                                                                         *)
(* Several triggers (the daemon, a server after each commit, every CLI     *)
(* command) run the same pass over the journal: fire again what a crashed  *)
(* trigger had claimed, read the scan floor, read a page of events above   *)
(* it, claim each matching (hook, event) pair in the ledger, fire it,      *)
(* record the outcome, advance the floor over the page and prune.  Every   *)
(* store call is one transaction; between two of them any other trigger,   *)
(* and the operations below, may run.                                      *)
(*                                                                         *)
(* A journal position is a SQLite rowid, the highest one plus one, so a    *)
(* position is used again after a replace import or a discard removed the  *)
(* events at the end of the journal.  A pass therefore names an event by   *)
(* its position and its id, and every write checks that both still agree.  *)
(*                                                                         *)
(* Time is kept as ages: Tick makes every claim one unit older, up to one  *)
(* unit beyond the lease, where the code stops telling them apart.         *)
(*                                                                         *)
(* Store calls fail too.  A pass that cannot read the floor or the page    *)
(* ends; every other failure is logged and the pass goes on: without the   *)
(* stale claims it could not list, without the pair it could not claim,    *)
(* without moving the floor.  A won claim whose event cannot be read again *)
(* is abandoned: closed with an error, and never fired.                    *)
(*                                                                         *)
(* Left out: what a hook does when it fires (adapters, approvals, the      *)
(* audit log), the exec-dispatch policy under which a trigger runs no pass *)
(* at all, the wake scan and events suppressed at ingest (no page holds    *)
(* them).  An event that a discard removed and a pull brings back counts   *)
(* as another event.                                                       *)
(***************************************************************************)
EXTENDS Integers, FiniteSets, FiniteSetsExt

CONSTANTS
    Triggers,    \* the processes that run dispatch passes
    Daemon,      \* the one that runs a pass again and again
    Hooks,       \* hook names
    NULL,
    Matches,     \* the (hook, event) pairs for which the hook fires
    Configs,     \* what a pass may find hooks.yaml to hold
    PageSize,    \* events per page, 500 in the code
    Lease,       \* hookClaimLease
    MaxEvents,   \* bound on the events that ever reach the journal
    MaxSeq,      \* bound on the length of the journal
    MaxFaults    \* bound on crashes, failed calls, replaces and discards

\* Event ids, numbered in the order in which the journal receives them.
Events == 1 .. MaxEvents
Seqs == 1 .. MaxSeq
Ages == 0 .. Lease + 1
Row == [outcome : {"claimed", "terminal"}, age : Ages]

ASSUME HooksAssumption ==
    /\ Daemon \in Triggers
    /\ NULL \notin Events \cup Row
    /\ Matches \subseteq Hooks \X Events
    /\ Configs \subseteq SUBSET Hooks
ASSUME HookBoundsAssumption ==
    /\ PageSize \in Nat \ {0}
    /\ Lease \in Nat /\ MaxEvents \in Nat /\ MaxSeq \in Nat /\ MaxFaults \in Nat

VARIABLES
    journal,   \* sync_events: the event at each position, or NULL
    written,   \* how many events were ever journaled
    ledger,    \* hook_dispatch_ledger: the row of each (hook, position), or NULL
    floor,     \* hook_dispatch_cursor
    pass,      \* what each trigger is doing
    synced,    \* "no": shared nothing; "first": a pull into an empty journal
               \* is under way; "yes"
    settled,   \* history: the (hook, event) pairs fired, or given up by design
    dropped,   \* history: other pairs, lost to an error of a store call: the
               \* claim of a scan, or the read before a recovered claim fires
    faults     \* how many faults there were

vars == <<journal, written, ledger, floor, pass, synced, settled, dropped, faults>>

-----------------------------------------------------------------------------
(* The journal *)

\* JournalTail
Tail(j) == Max({0} \cup {s \in Seqs : j[s] /= NULL})

Held == {e \in Events : \E s \in Seqs : journal[s] = e}

\* A row names an event by position and id; so do pages and claims.
At(s, e) == journal[s] = e

\* Mutant: positions that hold no event are read too.
PageWithHoles(f) == {s \in Seqs : s > f /\ s <= f + PageSize}

\* ReadJournalSince: the first PageSize events above a position.
Page(f) ==
    {s \in Seqs : /\ s > f /\ journal[s] /= NULL
                  /\ Cardinality({r \in Seqs : f < r /\ r <= s /\ journal[r] /= NULL}) <= PageSize}

(* The ledger *)

Claimed(row) == row /= NULL /\ row.outcome = "claimed"
\* fired_at < now - lease
Expired(row) == Claimed(row) /\ row.age > Lease
Fresh == [outcome |-> "claimed", age |-> 0]
Terminal == [outcome |-> "terminal", age |-> 0]

\* StaleHookClaims: joined with the event now at the position, if any.
StaleHookClaims ==
    {c \in [hook : Hooks, seq : Seqs, event : Events \cup {NULL}] :
        /\ Expired(ledger[c.hook][c.seq])
        /\ At(c.seq, c.event)}

\* Mutant: a pair without a row is new, wherever the floor is.
CanClaimPruned(h, s) == ledger[h][s] = NULL

\* Mutant: a row that is not settled can be claimed, however young its claim.
CanClaimOpen(h, s) == (ledger[h][s] = NULL \/ Claimed(ledger[h][s])) /\ s > floor

\* canClaimHookDispatchTx: a pair below the floor that has no row was settled
\* and pruned.
CanClaim(h, s) == ledger[h][s] = NULL /\ s > floor

\* Mutant: the floor is not held back by open claims.
FloorUnclamped(target) == Max({floor, target})

\* advanceHookScanFloorTx: toward the target, below every open claim, never back.
FloorTowards(target) ==
    LET open == {s \in Seqs : \E h \in Hooks : Claimed(ledger[h][s])}
        clamped == IF open = {} THEN target ELSE Min({target, Min(open) - 1})
    IN  Max({floor, clamped})

\* Mutant: the whole page counts, whatever the journal holds now.
WholePage(page) == Max({0} \cup {p.seq : p \in page})

\* matchingHookJournalPrefix: the last position before the first one of the
\* page whose event is not the one the pass read; 0 if there is none.
MatchingPrefix(page) ==
    LET good == {p \in page : \A q \in page : q.seq <= p.seq => At(q.seq, q.event)}
    IN  Max({0} \cup {p.seq : p \in good})

-----------------------------------------------------------------------------
(* A pass *)

Steps == {"idle", "recover", "reread", "journal", "scan", "fire", "record", "abandon",
          "prune"}
NoClaim == [hook |-> NULL, seq |-> 0, event |-> NULL, age |-> 0]
Idle == [pc |-> "idle", mode |-> "idle", cfg |-> {}, queue |-> {}, seen |-> 0,
         page |-> {}, claim |-> NoClaim]

Init ==
    /\ journal = [s \in Seqs |-> NULL]
    /\ written = 0
    /\ ledger = [h \in Hooks |-> [s \in Seqs |-> NULL]]
    /\ floor = 0
    /\ pass = [t \in Triggers |-> Idle]
    /\ synced = "no"
    /\ settled = {} /\ dropped = {}
    /\ faults = 0

environment == <<journal, written, synced>>

Recovering(cfg, claims) ==
    [Idle EXCEPT !.pc = "recover", !.mode = "recover", !.cfg = cfg, !.queue = claims]

\* Dispatch: load hooks.yaml and list the claims to recover.
BeginPass(t) ==
    /\ pass[t].pc = "idle"
    /\ \E cfg \in Configs : pass' = [pass EXCEPT ![t] = Recovering(cfg, StaleHookClaims)]
    /\ UNCHANGED <<environment, ledger, floor, settled, dropped, faults>>

\* StaleHookClaims fails: the pass goes on and recovers nothing.
ListingFails(t) ==
    /\ pass[t].pc = "idle"
    /\ faults < MaxFaults
    /\ faults' = faults + 1
    /\ \E cfg \in Configs : pass' = [pass EXCEPT ![t] = Recovering(cfg, {})]
    /\ UNCHANGED <<environment, ledger, floor, settled, dropped>>

\* The claims of a pass are taken in the order of their positions.
NextInQueue(t, c) ==
    /\ pass[t].pc \in {"recover", "scan"}
    /\ c \in pass[t].queue
    /\ \A d \in pass[t].queue : c.seq <= d.seq

Without(t, c) == [pass EXCEPT ![t].queue = @ \ {c}]

\* After a claim is won, recovery reads the event again; a scan has it.
Won(t, c) ==
    [pass EXCEPT ![t].queue = @ \ {c},
                 ![t].pc = IF pass[t].mode = "recover" THEN "reread" ELSE "fire",
                 ![t].claim = [hook |-> c.hook, seq |-> c.seq, event |-> c.event, age |-> 0]]

\* Mutant: an expired claim is not taken over.
ClaimNewOnly(t) ==
    \E c \in pass[t].queue :
        /\ NextInQueue(t, c)
        /\ c.event /= NULL
        /\ IF At(c.seq, c.event) /\ CanClaim(c.hook, c.seq)
           THEN ledger' = [ledger EXCEPT ![c.hook][c.seq] = Fresh] /\ pass' = Won(t, c)
           ELSE pass' = Without(t, c) /\ UNCHANGED ledger
        /\ UNCHANGED <<environment, floor, settled, dropped, faults>>

\* ClaimHookDispatchEvent for an event that the journal held: the identity
\* check, then an expired claim is taken over or a new one inserted.
ClaimHookDispatchEvent(t) ==
    \E c \in pass[t].queue :
        /\ NextInQueue(t, c)
        /\ c.event /= NULL
        /\ IF At(c.seq, c.event) /\ (Expired(ledger[c.hook][c.seq]) \/ CanClaim(c.hook, c.seq))
           THEN /\ ledger' = [ledger EXCEPT ![c.hook][c.seq] = Fresh]
                /\ pass' = Won(t, c)
           ELSE /\ pass' = Without(t, c)
                /\ UNCHANGED ledger
        /\ UNCHANGED <<environment, floor, settled, dropped, faults>>

\* discardMissingHookClaim: recovery found no event at the claim's position.
DiscardMissingClaim(t) ==
    \E c \in pass[t].queue :
        /\ NextInQueue(t, c)
        /\ c.event = NULL
        /\ pass' = Without(t, c)
        /\ ledger' = IF Expired(ledger[c.hook][c.seq]) /\ At(c.seq, NULL)
                     THEN [ledger EXCEPT ![c.hook][c.seq] = NULL]
                     ELSE ledger
        /\ UNCHANGED <<environment, floor, settled, dropped, faults>>

\* The claim's transaction fails (a busy database): the pair is logged and
\* left, and the pass goes on.
ClaimFails(t) ==
    \E c \in pass[t].queue :
        /\ NextInQueue(t, c)
        /\ faults < MaxFaults
        /\ faults' = faults + 1
        /\ pass' = Without(t, c)
        /\ dropped' = IF pass[t].mode = "scan" THEN dropped \cup ({<<c.hook, c.event>>} \ settled) ELSE dropped
        /\ UNCHANGED <<environment, ledger, floor, settled>>

\* Back to the pairs that are left.
Resume(t) == [pass EXCEPT ![t].pc = pass[t].mode, ![t].claim = NoClaim]

\* refireStaleClaim after the claim is won: the event may have been replaced
\* since, and the hook may no longer be configured; the claim is then left
\* open, or closed without firing.
RereadEvent(t) ==
    LET c == pass[t].claim IN
    /\ pass[t].pc = "reread"
    /\ \/ /\ ~At(c.seq, c.event)
          /\ pass' = Resume(t)
          /\ UNCHANGED settled
       \/ /\ At(c.seq, c.event)
          /\ c.hook \notin pass[t].cfg
          /\ settled' = settled \cup {<<c.hook, c.event>>}
          /\ pass' = [pass EXCEPT ![t].pc = "record"]
       \/ /\ At(c.seq, c.event)
          /\ c.hook \in pass[t].cfg
          /\ pass' = [pass EXCEPT ![t].pc = "fire"]
          /\ UNCHANGED settled
    /\ UNCHANGED <<environment, ledger, floor, dropped, faults>>

\* ReadJournalEventAt fails after the claim is won: the claim is abandoned.
RereadFails(t) ==
    /\ pass[t].pc = "reread"
    /\ faults < MaxFaults
    /\ faults' = faults + 1
    /\ pass' = [pass EXCEPT ![t].pc = "abandon"]
    /\ UNCHANGED <<environment, ledger, floor, settled, dropped>>

\* finishClaim: the adapters are called, unless the hook fired too often on the
\* node, which settles the pair as well.  An inbox delivery of an event that
\* was replaced meanwhile is refused, and then no outcome is recorded.
Fire(t) ==
    LET c == pass[t].claim IN
    /\ pass[t].pc = "fire"
    /\ \/ /\ settled' = settled \cup {<<c.hook, c.event>>}
          /\ pass' = [pass EXCEPT ![t].pc = "record"]
       \/ /\ ~At(c.seq, c.event)
          /\ pass' = Resume(t)
          /\ UNCHANGED settled
    /\ UNCHANGED <<environment, ledger, floor, dropped, faults>>

Recording(t) == pass[t].pc \in {"record", "abandon"}

\* RecordHookDispatchEventOutcome: an UPDATE guarded by the identity check.  An
\* abandoned claim gets the outcome error, as final as any other.
RecordOutcome(t) ==
    LET c == pass[t].claim
        current == At(c.seq, c.event) /\ ledger[c.hook][c.seq] /= NULL
    IN  /\ Recording(t)
        /\ ledger' = IF current THEN [ledger EXCEPT ![c.hook][c.seq] = Terminal] ELSE ledger
        /\ dropped' = IF current /\ pass[t].pc = "abandon"
                      THEN dropped \cup ({<<c.hook, c.event>>} \ settled)
                      ELSE dropped
        /\ pass' = Resume(t)
        /\ UNCHANGED <<environment, floor, settled, faults>>

\* The outcome's transaction fails: the claim stays open.
RecordFails(t) ==
    /\ Recording(t)
    /\ faults < MaxFaults
    /\ faults' = faults + 1
    /\ pass' = Resume(t)
    /\ UNCHANGED <<environment, ledger, floor, settled, dropped>>

\* HookCursor, when every stale claim was tried.
ReadFloor(t) ==
    /\ pass[t].pc = "recover" /\ pass[t].queue = {}
    /\ pass' = [pass EXCEPT ![t].pc = "journal", ![t].seen = floor]
    /\ UNCHANGED <<environment, ledger, floor, settled, dropped, faults>>

\* readJournal: the page, and the pairs of it the configured hooks match.
ReadJournal(t) ==
    LET page == {[seq |-> s, event |-> journal[s]] : s \in Page(pass[t].seen)}
        pairs == {p \in pass[t].cfg \X page : <<p[1], p[2].event>> \in Matches}
    IN  /\ pass[t].pc = "journal"
        /\ pass' = [pass EXCEPT ![t].pc = "scan", ![t].mode = "scan", ![t].page = page,
                                ![t].queue = {[hook |-> p[1], seq |-> p[2].seq,
                                               event |-> p[2].event] : p \in pairs}]
        /\ UNCHANGED <<environment, ledger, floor, settled, dropped, faults>>

\* AdvanceHookScanFloorForEvents.  A hook this pass did not have configured is
\* not owed the events the floor passes: it fires on future events only.
AdvanceFloor(t) ==
    LET page == pass[t].page
        target == MatchingPrefix(page)
        moved == floor >= pass[t].seen /\ target > 0
        to == FloorTowards(target)
    IN  /\ pass[t].pc = "scan" /\ pass[t].queue = {}
        /\ floor' = IF moved THEN to ELSE floor
        /\ settled' = settled \cup
               IF moved
               THEN {<<h, p.event>> : h \in Hooks \ pass[t].cfg,
                                      p \in {q \in page : floor < q.seq /\ q.seq <= to}}
               ELSE {}
        /\ pass' = [pass EXCEPT ![t] = [Idle EXCEPT !.pc = "prune"]]
        /\ UNCHANGED <<environment, ledger, dropped, faults>>

\* AdvanceHookScanFloorForEvents fails: the floor stays and the pass goes on.
AdvanceFails(t) ==
    /\ pass[t].pc = "scan" /\ pass[t].queue = {}
    /\ faults < MaxFaults
    /\ faults' = faults + 1
    /\ pass' = [pass EXCEPT ![t] = [Idle EXCEPT !.pc = "prune"]]
    /\ UNCHANGED <<environment, ledger, floor, settled, dropped>>

\* PruneHookDispatchLedger
Prune(t) ==
    /\ pass[t].pc = "prune"
    /\ ledger' = [h \in Hooks |-> [s \in Seqs |->
                     IF ~Claimed(ledger[h][s]) /\ s <= floor THEN NULL ELSE ledger[h][s]]]
    /\ pass' = [pass EXCEPT ![t] = Idle]
    /\ UNCHANGED <<environment, floor, settled, dropped, faults>>

\* The trigger's process dies; or the pass cannot read the floor or the page,
\* or cannot prune, and ends.
Crash(t) ==
    /\ pass[t].pc /= "idle"
    /\ faults < MaxFaults
    /\ faults' = faults + 1
    /\ pass' = [pass EXCEPT ![t] = Idle]
    /\ UNCHANGED <<environment, ledger, floor, settled, dropped>>

PassStep(t) ==
    \/ BeginPass(t) \/ ClaimHookDispatchEvent(t) \/ DiscardMissingClaim(t) \/ RereadEvent(t)
    \/ Fire(t) \/ RecordOutcome(t) \/ ReadFloor(t) \/ ReadJournal(t)
    \/ AdvanceFloor(t) \/ Prune(t)

Fault(t) ==
    \/ ListingFails(t) \/ ClaimFails(t) \/ RereadFails(t) \/ RecordFails(t)
    \/ AdvanceFails(t) \/ Crash(t)

-----------------------------------------------------------------------------
(* The rest of the host *)

\* A mutation on this host, or an event that a pull or a relay applies.
Write ==
    /\ written < MaxEvents /\ Tail(journal) < MaxSeq
    /\ written' = written + 1
    /\ journal' = [journal EXCEPT ![Tail(journal) + 1] = written + 1]
    /\ UNCHANGED <<ledger, floor, pass, synced, settled, dropped, faults>>

\* daemonObservedPullPhases and IngestAll: a pull into an empty journal is a
\* first fill.
BeginPull ==
    /\ synced = "no"
    /\ synced' = IF Tail(journal) = 0 THEN "first" ELSE "yes"
    /\ UNCHANGED <<journal, written, ledger, floor, pass, settled, dropped, faults>>

\* initHookScanFloorAtTailTx after a first fill: what the journal then holds is
\* history, on which no hook fires.
EndFirstPull ==
    LET to == FloorTowards(Tail(journal))
        passed == {s \in Seqs : floor < s /\ s <= to /\ journal[s] /= NULL}
    IN  /\ synced = "first"
        /\ synced' = IF Tail(journal) = 0 THEN "no" ELSE "yes"
        /\ floor' = to
        /\ settled' = settled \cup {<<h, journal[s]>> : h \in Hooks, s \in passed}
        /\ UNCHANGED <<journal, written, ledger, pass, dropped, faults>>

\* The pull applied nothing itself, or stopped with an error: no floor is set.
FirstPullSetsNoFloor ==
    /\ synced = "first" /\ Tail(journal) > 0
    /\ synced' = "yes"
    /\ UNCHANGED <<journal, written, ledger, floor, pass, settled, dropped, faults>>

\* discardUnsharedEvents and trimHookDispatchToJournal: a replace import on a
\* store that shared nothing removes the events of the nodes it drops.
Replace ==
    /\ synced = "no"
    /\ faults < MaxFaults
    /\ faults' = faults + 1
    /\ \E gone \in (SUBSET Held) \ {{}} :
         LET kept == [s \in Seqs |-> IF journal[s] \in gone THEN NULL ELSE journal[s]]
         IN  /\ journal' = kept
             /\ ledger' = [h \in Hooks |-> [s \in Seqs |->
                              IF s > Tail(kept) THEN NULL ELSE ledger[h][s]]]
             /\ floor' = Min({floor, Tail(kept)})
    /\ UNCHANGED <<written, pass, synced, settled, dropped>>

\* DiscardLocal
DiscardLocal ==
    /\ Held /= {}
    /\ faults < MaxFaults
    /\ faults' = faults + 1
    /\ journal' = [s \in Seqs |-> NULL]
    /\ ledger' = [h \in Hooks |-> [s \in Seqs |-> NULL]]
    /\ floor' = 0
    /\ synced' = IF synced = "first" THEN "first" ELSE "no"
    /\ UNCHANGED <<written, pass, settled, dropped>>

\* One unit of time.
Older(age) == IF age > Lease THEN age ELSE age + 1
Tick ==
    /\ ledger' = [h \in Hooks |-> [s \in Seqs |->
                     IF Claimed(ledger[h][s]) THEN [ledger[h][s] EXCEPT !.age = Older(@)]
                     ELSE ledger[h][s]]]
    /\ pass' = [t \in Triggers |->
                   IF pass[t].claim = NoClaim THEN pass[t]
                   ELSE [pass[t] EXCEPT !.claim.age = Older(@)]]
    /\ UNCHANGED <<environment, floor, settled, dropped, faults>>

Next ==
    \/ \E t \in Triggers : PassStep(t) \/ Fault(t)
    \/ Write
    \/ BeginPull \/ EndFirstPull \/ FirstPullSetsNoFloor
    \/ Replace \/ DiscardLocal
    \/ Tick

\* The daemon's loop runs a pass every interval and time goes on.  Nothing is
\* assumed of the other triggers: one that stops holding a claim loses it.
Fairness == WF_vars(PassStep(Daemon)) /\ WF_vars(Tick)

Spec == Init /\ [][Next]_vars /\ Fairness

-----------------------------------------------------------------------------
(* Properties *)

Entry == [seq : Seqs, event : Events]
Wanted == [hook : Hooks, seq : Seqs, event : Events \cup {NULL}]
Claims == [hook : Hooks, seq : Seqs, event : Events, age : Ages]
Passes == [pc : Steps, mode : {"idle", "recover", "scan"}, cfg : SUBSET Hooks,
           queue : SUBSET Wanted, seen : 0 .. MaxSeq, page : SUBSET Entry,
           claim : Claims \cup {NoClaim}]

\* The type of the journal, the ledger and the passes: pages and claims name
\* positions and events of the journal, and ages stop just beyond the lease.
HookTypeOK ==
    /\ journal \in [Seqs -> Events \cup {NULL}]
    /\ written \in 0 .. MaxEvents
    /\ ledger \in [Hooks -> [Seqs -> Row \cup {NULL}]]
    /\ floor \in 0 .. MaxSeq
    /\ pass \in [Triggers -> Passes]
    /\ synced \in {"no", "first", "yes"}
    /\ settled \subseteq Hooks \X Events /\ dropped \subseteq Hooks \X Events
    /\ faults \in 0 .. MaxFaults

\* The floor never passes a claim that is still open: a trigger that crashed
\* after its claim finds the event in the scan window again, however the other
\* passes, replaces and first fills fell in between.
OpenClaimsAboveFloor ==
    \A h \in Hooks, s \in Seqs : Claimed(ledger[h][s]) => s > floor

Passed ==
    {<<h, journal[s]>> : h \in Hooks, s \in {r \in Seqs : r <= floor /\ journal[r] /= NULL}}

\* Nothing at or below the floor is left behind: every event there was fired or
\* given up by design for each of its hooks, also when its position belonged
\* to another event before.  The exceptions are the two losses the code logs
\* and never makes good: a claim that failed during a scan, and a recovered
\* claim that was closed because its event could not be read.
NothingSkipped == Passed \cap Matches \subseteq settled \cup dropped

Working(t) == pass[t].claim /= NoClaim

\* Two triggers work on the same hook and event only when the claim of one of
\* them is older than the lease.
OneFiringPerLease ==
    \A t, u \in Triggers :
        ( /\ t /= u /\ Working(t) /\ Working(u)
          /\ pass[t].claim.hook = pass[u].claim.hook
          /\ pass[t].claim.event = pass[u].claim.event )
        => pass[t].claim.age > Lease \/ pass[u].claim.age > Lease

\* The outcome of h for the event at s is recorded, or was and is pruned.
Closed(h, s) ==
    /\ journal[s] /= NULL
    /\ ~Claimed(ledger[h][s])
    /\ ledger[h][s] /= NULL \/ s <= floor

\* A recorded outcome is final: pruning and advancing the floor never let a pass
\* that read its page earlier claim the pair again; only the removal of the
\* event opens the position.
OutcomeIsFinal ==
    [][\A h \in Hooks, s \in Seqs :
          Closed(h, s) /\ journal'[s] = journal[s] => Closed(h, s)']_vars

\* The daemon's passes settle every matching event the journal holds, whatever
\* other triggers claimed and never finished, except the two logged losses of
\* NothingSkipped.
EveryEventDispatched ==
    []<>(\A m \in Matches : m[2] \in Held => m \in settled \cup dropped)
=============================================================================
