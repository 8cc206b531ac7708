---------------------------- MODULE WakeDispatch ----------------------------
(***************************************************************************)
(* Waking a registered session for the mail addressed to its agent         *)
(* (internal/service: wake_scanner*.go, wake_dispatch*.go, wake_hold.go,   *)
(* wake_hop_guard.go, wake_budget*.go, wake_reevaluate.go; store/sqlite:   *)
(* wake_*.go, registrations.go, inbox_ack_coverage.go).                    *)
(*                                                                         *)
(* Passes of several processes (the host dispatcher, CLI and MCP commands  *)
(* after a commit, a re-evaluation after an acknowledgement) run over the  *)
(* same registration.  A pass lists the inbox once and then judges, claims,*)
(* sends, records and advances event by event; every store call is a step. *)
(*                                                                         *)
(* One agent, one registration slot.  An event is mail of the agent when it *)
(* is a comment addressed to it, from the start, or once a hook has put it *)
(* into the inbox, at the number it already has.  A fence token is named   *)
(* by the pass that drew it: a pass has one attempt at a time, so this     *)
(* tells tokens apart.  Left out: the totals that reconcile the operator's *)
(* budget file with a board restored from a backup, the per-sender budget  *)
(* and the charge of an inbox read, the alerts, the mail carried over to a *)
(* clone of the hub, and the upgrade of a sent row to confirmed, which     *)
(* nothing calls.                                                          *)
(***************************************************************************)
EXTENDS Integers, Sequences, FiniteSets

CONSTANTS
    Passes,         \* the processes that may run a pass
    Host,           \* the one whose passes recur: the host dispatcher
    Mixes,          \* what the events may be: "mail", "own" when the agent wrote it
                    \* itself, "deep" when its chain exceeds wake.max_hop_depth; and
                    \* which are comments addressed to the agent: the others become
                    \* its mail when a hook delivers them
    HourlyLimit,    \* wake.wakes_per_hour
    BackoffAfter,   \* wake.backoff_after_unacked
    MaxEvents,      \* bound on the events that ever arrive
    MaxTroubles,    \* bound on hook deliveries, registrations, journal rewrites,
                    \* switches and failed or dead passes, all together
    NULL

ASSUME WakeAssumption ==
    /\ Host \in Passes /\ NULL \notin Passes
    /\ Mixes \subseteq [kind : [1..MaxEvents -> {"mail", "own", "deep"}],
                        comments : SUBSET (1..MaxEvents)]
    /\ HourlyLimit \in Nat \ {0} /\ BackoffAfter \in Nat \ {0}
    /\ MaxEvents \in Nat /\ MaxTroubles \in Nat

VARIABLES
    kind,       \* of each event, by id
    mail,       \* the events that are its mail: comments, those to come as well,
                \* and inbox_deliveries
    journal,    \* sync_events: the event id at each sequence number
    acked,      \* agent_inbox_ack and agent_inbox_cursor: acknowledged numbers
    reg,        \* the row of agent_registrations, or NULL
    ledger,     \* wake_ledger: number and epoch to the attempt
    pass,       \* the pass each process is in
    budget,     \* the operator's budget file
    world,      \* the switches outside the store: live, route, raised
    spent,      \* how often each bounded thing has happened
    history     \* what has been sent, reclaimed, claimed and delivered late so far

vars == <<kind, mail, journal, acked, reg, ledger, pass, budget, world, spent, history>>

Idle == [pc |-> "idle", keys |-> {}, epoch |-> 0]

Init ==
    /\ \E mix \in Mixes : kind = mix.kind /\ mail = mix.comments
    /\ journal = <<>>
    /\ acked = {}
    /\ reg = [epoch |-> 1, mark |-> 0, hold |-> FALSE, base |-> 0]
    /\ ledger = <<>>
    /\ pass = [p \in Passes |-> Idle]
    /\ budget = [credits |-> 0, unacked |-> 0, cooling |-> FALSE]
    /\ world = [live |-> TRUE, route |-> TRUE, raised |-> FALSE]
    /\ spent = [events |-> 0, troubles |-> 0]
    /\ history = [delivered |-> [i \in 1..MaxEvents |-> 0], reclaimed |-> {}, claims |-> 0, late |-> {}]

tail == Len(journal)
Trouble == spent.troubles < MaxTroubles /\ spent' = [spent EXCEPT !.troubles = @ + 1]
Lower(a, b) == IF a < b THEN a ELSE b
Higher(a, b) == IF a > b THEN a ELSE b

\* inboxEligibleSQL above a mark.
InboxAbove(mark) == {s \in 1..tail : s > mark /\ journal[s] \in mail /\ s \notin acked}

\* lowestEligibleAbove(mark) is below seq.
SomeBelow(mark, seq) == \E s \in InboxAbove(mark) : s < seq

-----------------------------------------------------------------------------
(* A pass.                                                                 *)

\* The candidate a pass is at; it takes them in event order.
Key(p) == CHOOSE k \in pass[p].keys : \A x \in pass[p].keys : k.seq <= x.seq
At(p, pc) == pass[p].pc = pc
Goto(p, pc) == pass' = [pass EXCEPT ![p].pc = pc]

\* The pass is over: its last candidate is done, an error or a hold has
\* blocked the registration (all later candidates of the pass are skipped
\* without a look), or the process died.
Over(p) == pass' = [pass EXCEPT ![p] = Idle]

\* On to the next candidate.
NextKey(p) ==
    IF pass[p].keys = {Key(p)} THEN Over(p)
    ELSE pass' = [pass EXCEPT ![p].pc = "judge", ![p].keys = @ \ {Key(p)}]

\* wakeEventMatches
wakeEventMatches(k) == k.seq <= tail /\ journal[k.seq] = k.id

\* candidates: everything unacknowledged above the mark.
Candidates == {[seq |-> s, id |-> journal[s]] : s \in InboxAbove(reg.mark)}

Begin(p) ==
    pass' = [pass EXCEPT ![p] = [pc |-> "judge", keys |-> Candidates, epoch |-> reg.epoch]]

\* WakeScanner.Scan of the registration: the gates (grant, liveness and a live
\* route) apply when some candidate is not the agent's own.
Scan(p) ==
    /\ At(p, "idle") /\ reg # NULL /\ Candidates # {}
    /\ world.route \/ \A s \in InboxAbove(reg.mark) : kind[journal[s]] = "own"
    /\ Begin(p)
    /\ UNCHANGED <<kind, mail, journal, acked, reg, ledger, budget, world, spent, history>>

\* Reevaluate: the same pass, for a held registration, with live wake on.
Reevaluate(p) ==
    /\ At(p, "idle") /\ reg # NULL /\ reg.hold /\ Candidates # {}
    /\ world.live /\ world.route
    /\ Begin(p)
    /\ UNCHANGED <<kind, mail, journal, acked, reg, ledger, budget, world, spent, history>>

\* eligible: the registration may have moved on since the pass began.  A key
\* without a registration row is not tracked and passes.
PastMark(p) == reg # NULL /\ (reg.epoch # pass[p].epoch \/ Key(p).seq <= reg.mark)
AboveHeld(p) == reg # NULL /\ reg.hold /\ SomeBelow(reg.mark, Key(p).seq)

\* guardWakeHop and the first half of passOne and coverSkipped.
Judge(p) ==
    /\ At(p, "judge")
    /\ \/ PastMark(p) /\ NextKey(p)
       \/ ~PastMark(p) /\ AboveHeld(p) /\ Over(p)
       \/ ~PastMark(p) /\ ~AboveHeld(p) /\
             Goto(p, IF kind[Key(p).id] = "own" THEN "advance"
                     ELSE IF kind[Key(p).id] = "deep" /\ ~world.raised THEN "hold"
                     ELSE "claim")
    /\ UNCHANGED <<kind, mail, journal, acked, reg, ledger, budget, world, spent, history>>

\* SetWakeHold touches the row of the pass's own epoch, and only while the
\* event is still the one the pass has seen.
Tracked(p) == reg # NULL /\ reg.epoch = pass[p].epoch /\ wakeEventMatches(Key(p))

\* markHeld
MarkHeld(p) ==
    /\ At(p, "hold")
    /\ reg' = IF Tracked(p) THEN [reg EXCEPT !.hold = TRUE] ELSE reg
    /\ Over(p)
    /\ UNCHANGED <<kind, mail, journal, acked, ledger, budget, world, spent, history>>

-----------------------------------------------------------------------------
(* Claiming: ClaimWakeBudget within UpdateWakeBudget, under the operator's *)
(* lock and in one write transaction.                                      *)

Row(p) == <<Key(p).seq, pass[p].epoch>>
Found(p) == Row(p) \in DOMAIN ledger
Settled(p) == Found(p) /\ ledger[Row(p)].outcome # "claimed"

\* Mutant: a claim that is not finished may be taken over at once.
NeverInFlight(p) == FALSE

\* Mutant: an unfinished claim never lapses.
ForeverInFlight(p) == Found(p) /\ ~Settled(p)

\* Another claim is running and its lease of a minute has not lapsed.
InFlight(p) == Found(p) /\ ~Settled(p) /\ ledger[Row(p)].fresh

\* holdWakeFrequency and holdWakeBackoff
OutOfBudget == budget.credits >= HourlyLimit \/ budget.cooling

\* chargeWakeBudget and setWakeBackoffDeadline; only whether unacked has
\* reached the threshold matters.
ChargedBudget ==
    LET unacked == Lower(budget.unacked + 1, BackoffAfter)
    IN  [credits |-> budget.credits + 1, unacked |-> unacked, cooling |-> unacked >= BackoffAfter]

\* Mutant: the charge is written after the claim has committed.
ChargeAfterCommit == budget

\* What the file says if the claim's transaction does not commit: the pending
\* charge was saved before it.
PendingCharge == ChargedBudget

Claimable(p) ==
    /\ At(p, "claim") /\ world.live /\ wakeEventMatches(Key(p))
    /\ ~Settled(p) /\ ~InFlight(p)

\* Mutant: a claim lost to another pass counts as handled, finished or not.
LostMeansHandled(p) ==
    /\ At(p, "claim")
    /\ IF world.live /\ wakeEventMatches(Key(p)) /\ (Settled(p) \/ InFlight(p)) THEN Goto(p, "advance")
       ELSE IF Claimable(p) /\ OutOfBudget THEN Goto(p, "hold")
       ELSE ~Claimable(p) /\ Over(p)
    /\ UNCHANGED <<kind, mail, journal, acked, reg, ledger, budget, world, spent, history>>

\* sendWake up to the send.  Live wake off, a replaced event and a claim in
\* flight end the pass with the mark in place; a finished row is a success.
Refused(p) ==
    /\ At(p, "claim")
    /\ IF world.live /\ wakeEventMatches(Key(p)) /\ Settled(p) THEN Goto(p, "advance")
       ELSE IF Claimable(p) /\ OutOfBudget THEN Goto(p, "hold")
       ELSE ~Claimable(p) /\ Over(p)
    /\ UNCHANGED <<kind, mail, journal, acked, reg, ledger, budget, world, spent, history>>

\* writeWakeAttempt: a new row, or a lapsed one taken over with a new token.
writeWakeAttempt(p) ==
    /\ ledger' = [k \in DOMAIN ledger \cup {Row(p)} |->
                    IF k = Row(p) THEN [token |-> p, fresh |-> TRUE, outcome |-> "claimed"]
                    ELSE ledger[k]]
    /\ history' = [history EXCEPT !.claims = @ + 1,
                                  !.reclaimed = IF Found(p) /\ ~ledger[Row(p)].fresh
                                                THEN @ \cup {Key(p).id} ELSE @]

Claim(p) ==
    /\ Claimable(p) /\ ~OutOfBudget
    /\ budget' = ChargedBudget
    /\ writeWakeAttempt(p)
    /\ Goto(p, "send")
    /\ UNCHANGED <<kind, mail, journal, acked, reg, world, spent>>

\* The claim fails after the charge was saved: its transaction does not
\* commit, or it does and the process dies, or fails to save the budget file
\* again, before it can send.
ClaimFails(p) ==
    /\ Claimable(p) /\ ~OutOfBudget
    /\ Trouble
    /\ budget' = PendingCharge
    /\ writeWakeAttempt(p) \/ UNCHANGED <<ledger, history>>
    /\ Over(p)
    /\ UNCHANGED <<kind, mail, journal, acked, reg, world>>

-----------------------------------------------------------------------------
(* Sending and recording.                                                  *)

\* deliverWake: the adapter answers one way or the other, or there is no live
\* route by now.  Whatever the result, it is terminal.
Deliver(p) ==
    /\ At(p, "send")
    /\ history' = [history EXCEPT !.delivered[Key(p).id] = Lower(@ + 1, 2)]
    /\ Goto(p, "record")
    /\ UNCHANGED <<kind, mail, journal, acked, reg, ledger, budget, world, spent>>

\* RecordWakeResult: only the current token finishes a row that is still
\* claimed; a late completion is filed as a rejection.
Current(p) == Found(p) /\ ledger[Row(p)].token = p /\ ~Settled(p)

Record(p) ==
    /\ At(p, "record")
    /\ ledger' = IF Current(p) THEN [ledger EXCEPT ![Row(p)] = [token |-> NULL, fresh |-> FALSE, outcome |-> "terminal"]]
                 ELSE ledger
    /\ Goto(p, "advance")
    /\ UNCHANGED <<kind, mail, journal, acked, reg, budget, world, spent, history>>

\* The record fails: the send ran all the same, so the mark still moves.
RecordFails(p) ==
    /\ At(p, "record") /\ Goto(p, "advance")
    /\ UNCHANGED <<kind, mail, journal, acked, reg, ledger, budget, world, spent, history>>

\* guardHeldAdvance
AdvanceRefused(p) == reg.hold /\ SomeBelow(reg.mark, Key(p).seq)

\* advanced: SetWakeHold moves the mark forward, and lifts the hold only then.
Advance(p) ==
    /\ At(p, "advance")
    /\ reg' = IF ~Tracked(p) \/ AdvanceRefused(p) THEN reg
              ELSE [reg EXCEPT !.mark = Higher(@, Key(p).seq),
                               !.hold = @ /\ Key(p).seq <= reg.mark]
    /\ NextKey(p)
    /\ UNCHANGED <<kind, mail, journal, acked, ledger, budget, world, spent, history>>

Die(p) ==
    /\ pass[p] # Idle
    /\ Trouble
    /\ Over(p)
    /\ UNCHANGED <<kind, mail, journal, acked, reg, ledger, budget, world, history>>

-----------------------------------------------------------------------------
(* What goes on around the passes.                                         *)

\* An event enters the journal: a comment addressed to the agent, or another.
Arrive ==
    /\ spent.events < MaxEvents
    /\ spent' = [spent EXCEPT !.events = @ + 1]
    /\ journal' = Append(journal, spent.events + 1)
    /\ UNCHANGED <<kind, mail, acked, reg, ledger, pass, budget, world, history>>

\* The mark, or a pass that has listed the inbox, is beyond the number already.
Passed(s) ==
    reg # NULL /\
        \/ s <= reg.mark
        \/ \E p \in Passes : \E k \in pass[p].keys :
              pass[p].epoch = reg.epoch /\ wakeEventMatches(k) /\ s < k.seq

\* RecordInboxDeliveryEvent: a hook delivers an event of the journal, old as
\* it may be, to the agent's inbox.
DeliverInbox(s) ==
    /\ journal[s] \notin mail
    /\ Trouble
    /\ mail' = mail \cup {journal[s]}
    /\ history' = [history EXCEPT !.late = IF Passed(s) THEN @ \cup {journal[s]} ELSE @]
    /\ UNCHANGED <<kind, journal, acked, reg, ledger, pass, budget, world>>

\* InboxAckCoverage of one number, or of all up to it, whatever the events are;
\* Observe resets the consecutive unacknowledged wakes if mail was among them.
Ack(s) ==
    \E covered \in {{s}, 1..s} :
        /\ acked' = acked \cup covered
        /\ budget' = IF covered \cap InboxAbove(0) = {} THEN budget
                     ELSE [budget EXCEPT !.unacked = 0, !.cooling = FALSE]
        /\ UNCHANGED <<kind, mail, journal, reg, ledger, pass, world, spent, history>>

\* A minute or more passes: claims lapse and the back-off ends.
Lapse ==
    /\ budget.cooling \/ \E k \in DOMAIN ledger : ledger[k].fresh
    /\ ledger' = [k \in DOMAIN ledger |-> [ledger[k] EXCEPT !.fresh = FALSE]]
    /\ budget' = [budget EXCEPT !.cooling = FALSE]
    /\ UNCHANGED <<kind, mail, journal, acked, reg, pass, world, spent, history>>

\* An hour passes: trimWakeBudgetCredits drops the credits.
Hour ==
    /\ budget.credits > 0
    /\ ledger' = [k \in DOMAIN ledger |-> [ledger[k] EXCEPT !.fresh = FALSE]]
    /\ budget' = [budget EXCEPT !.credits = 0, !.cooling = FALSE]
    /\ history' = [history EXCEPT !.claims = 0]
    /\ UNCHANGED <<kind, mail, journal, acked, reg, pass, world, spent>>

\* RegisterSession: a new row, or a dead or displaced one replaced.  It starts
\* at the journal's tail, so that registering never wakes on backlog.
Register ==
    /\ Trouble
    /\ reg' = [epoch |-> IF reg = NULL THEN 1 ELSE reg.epoch + 1,
               mark |-> tail, hold |-> FALSE, base |-> tail]
    /\ UNCHANGED <<kind, mail, journal, acked, ledger, pass, budget, world, history>>

\* DeleteRegistrationIf, by the session's end or by ExpireStale.
Unregister ==
    /\ reg # NULL
    /\ Trouble
    /\ reg' = NULL
    /\ UNCHANGED <<kind, mail, journal, acked, ledger, pass, budget, world, history>>

\* trimWakeToJournal
trimWakeToJournal(n) ==
    /\ ledger' = [k \in {x \in DOMAIN ledger : x[1] <= n} |-> ledger[k]]
    /\ reg' = IF reg = NULL THEN NULL
              ELSE [reg EXCEPT !.mark = Lower(@, n), !.base = Lower(@, n)]

\* A replace import or discard-local removes the newest events; the next ones
\* take their numbers again.
RewriteJournal(n) ==
    /\ n < tail
    /\ Trouble
    /\ journal' = SubSeq(journal, 1, n)
    /\ acked' = {s \in acked : s <= n}
    /\ trimWakeToJournal(n)
    /\ UNCHANGED <<kind, mail, pass, budget, world, history>>

\* The operator switches live wake, or a route or grant comes and goes.
Switch ==
    /\ Trouble
    /\ \E what \in {"live", "route"} : world' = [world EXCEPT ![what] = ~@]
    /\ UNCHANGED <<kind, mail, journal, acked, reg, ledger, pass, budget, history>>

\* The operator raises wake.max_hop_depth.
RaiseHopLimit ==
    /\ ~world.raised /\ \E s \in 1..tail : kind[journal[s]] = "deep"
    /\ world' = [world EXCEPT !.raised = TRUE]
    /\ UNCHANGED <<kind, mail, journal, acked, reg, ledger, pass, budget, spent, history>>

-----------------------------------------------------------------------------
Step(p) ==
    \/ Judge(p) \/ MarkHeld(p) \/ Refused(p) \/ Claim(p) \/ Deliver(p)
    \/ Record(p) \/ RecordFails(p) \/ Advance(p)

Next ==
    \/ \E p \in Passes :
          Scan(p) \/ Reevaluate(p) \/ Step(p) \/ ClaimFails(p) \/ Die(p)
    \/ Arrive \/ Lapse \/ Hour \/ Register \/ Unregister \/ Switch \/ RaiseHopLimit
    \/ \E s \in 1..tail : DeliverInbox(s) \/ Ack(s)
    \/ \E n \in 0..tail : RewriteJournal(n)

Spec == Init /\ [][Next]_vars

\* The host dispatcher scans again and again and goes on with the pass it has
\* begun, unless its process dies, and time passes.  Nothing is asked of the
\* other processes: a command may stop in the middle of its pass.
Fairness ==
    /\ WF_vars(Scan(Host) \/ Step(Host))
    /\ WF_vars(Lapse) /\ WF_vars(Hour)

FairSpec == Spec /\ Fairness

-----------------------------------------------------------------------------
(* Properties.                                                             *)

\* The mark never moves over mail nobody dealt with: what it covers was
\* acknowledged, written by the agent itself, or sent, whichever passes held,
\* lost, died or were overtaken.  Mail that a hook delivers at a number the
\* mark, or a pass on its way there, is already beyond is not listed again.
MarkCovers ==
    reg # NULL =>
        \A s \in (reg.base + 1)..reg.mark :
            journal[s] \in mail \ history.late =>
                \/ s \in acked
                \/ kind[journal[s]] = "own"
                \/ history.delivered[journal[s]] > 0

\* However many processes scan at once, an event is sent a second time only
\* after the claim on it had lapsed.
WokenOnce ==
    \A id \in 1..MaxEvents : history.delivered[id] > 1 => id \in history.reclaimed

\* No wake escapes the hourly budget, also when a process dies between the
\* budget file and the store.
NoFreeWake == history.claims <= budget.credits /\ budget.credits <= HourlyLimit

\* No mail is left lying: what waits above the mark is in the end woken for,
\* acknowledged or removed, or the switch, the route, the missing registration
\* or the hop guard on the lowest of it stands in the way.
Waiting == IF reg = NULL THEN {} ELSE {s \in InboxAbove(reg.mark) : kind[journal[s]] # "own"}
TooDeep(s) == kind[journal[s]] = "deep" /\ ~world.raised
Impeded ==
    \/ reg = NULL \/ ~world.live \/ ~world.route
    \/ \E s \in Waiting : TooDeep(s) /\ \A t \in Waiting : s <= t
EventuallyWoken == []<>(Impeded \/ Waiting = {})
=============================================================================
