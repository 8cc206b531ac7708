----------------------------- MODULE WakeLease ------------------------------
(***************************************************************************)
(* The wake lease that coalesces the runs of one agent                     *)
(* (internal/store/sqlite/wake_lease*.go, internal/service/                *)
(* wake_lease_service.go, cmd/mtix/inbox_lease.go) and the script that     *)
(* uses it (examples/hooks/wake-agent.sh).                                 *)
(*                                                                         *)
(* Every mail that arrives fires the script once.  A script acquires the   *)
(* lease or leaves a dirty mark on the one held, launches the agent with   *)
(* what is in the inbox, and releases: the store answers "relaunch" when   *)
(* mail came in the meantime.  A second process of the script renews the   *)
(* lease until the release.  A holder token is named by the script that    *)
(* drew it; the token of a lease made by a renewal is known to nobody.     *)
(***************************************************************************)
EXTENDS Integers, FiniteSets

CONSTANTS
    Scripts,        \* the runs of the script
    MaxMail,        \* bound on the mail that arrives
    MaxRuns,        \* WAKE_MAX_RUNS
    MaxTroubles,    \* bound on kills, interrupts and lapses under a live holder
    Unknown,        \* the holder of a lease whose token was thrown away
    NULL

\* A row of wake_leases; mark is high_water, live says its TTL has not passed.
Leases == [holder : Scripts \cup {Unknown}, mark : Nat, dirty : BOOLEAN, live : BOOLEAN]

ASSUME WakeLeaseAssumption ==
    /\ {MaxMail, MaxRuns, MaxTroubles} \subseteq Nat
    /\ Unknown \notin Scripts /\ NULL \notin Scripts \cup {Unknown}
    /\ NULL \notin Leases

VARIABLES
    tail,       \* the journal's tail; all mail is addressed to the agent
    acked,      \* the mail the agent has acknowledged
    fired,      \* scripts fired that have not asked for the lease yet
    lease,      \* the row of wake_leases, or NULL
    script,     \* each script: where it is and how many launches it made
    shown,      \* mail some launch of the agent was given
    troubles,   \* how many so far
    past        \* what has ever happened: "lapsed", "abandoned", "killed"

vars == <<tail, acked, fired, lease, script, shown, troubles, past>>

Off == [pc |-> "off", runs |-> 0]

Init ==
    /\ tail = 0
    /\ acked = {}
    /\ fired = 0
    /\ lease = NULL
    /\ script = [p \in Scripts |-> Off]
    /\ shown = {}
    /\ troubles = 0
    /\ past = {}

Pending == (1..tail) \ acked
At(p, pc) == script[p].pc = pc
Goto(p, pc) == script' = [script EXCEPT ![p].pc = pc]
Exit(p) == script' = [script EXCEPT ![p] = Off]
Holds(p) == lease # NULL /\ lease.holder = p
Trouble == troubles < MaxTroubles /\ troubles' = troubles + 1

\* createWakeLease; it replaces a lapsed row.
createWakeLease(holder) == [holder |-> holder, mark |-> tail, dirty |-> FALSE, live |-> TRUE]

-----------------------------------------------------------------------------
Arrive ==
    /\ tail < MaxMail
    /\ tail' = tail + 1
    /\ fired' = fired + 1
    /\ UNCHANGED <<acked, lease, script, shown, troubles, past>>

\* Mutant: an unexpired lease does not keep another run out.
AlwaysFree == TRUE

\* The lease is free, or lapsed and up for takeover.
Free == lease = NULL \/ ~lease.live

\* acquireWakeLease without a holder, at the start of the script: exit 6 and
\* the dirty mark when the lease is held.
Acquire(p) ==
    /\ fired > 0 /\ At(p, "off")
    /\ fired' = fired - 1
    /\ IF Free
       THEN lease' = createWakeLease(p) /\ Goto(p, "read")
       ELSE lease' = [lease EXCEPT !.dirty = TRUE] /\ UNCHANGED script
    /\ UNCHANGED <<tail, acked, shown, troubles, past>>

\* The loop: read the inbox and launch the agent with it, or go straight on to
\* the release when it is empty.
Launch(p) ==
    /\ At(p, "read")
    /\ Pending # {} => script[p].runs < MaxRuns
    /\ IF Pending = {} THEN Goto(p, "release")
       ELSE script' = [script EXCEPT ![p] = [pc |-> "work", runs |-> @.runs + 1]]
    /\ shown' = shown \cup Pending
    /\ UNCHANGED <<tail, acked, fired, lease, troubles, past>>

\* The agent acknowledges what it was given, or some of it.
Ack(p, s) ==
    /\ At(p, "work") /\ s \in Pending \cap shown
    /\ acked' = acked \cup {s}
    /\ UNCHANGED <<tail, fired, lease, script, shown, troubles, past>>

Finish(p) ==
    /\ At(p, "work") /\ Goto(p, "release")
    /\ UNCHANGED <<tail, acked, fired, lease, shown, troubles, past>>

\* acquireWakeLease with the holder's token, by the renewer.  Its own row is
\* renewed even when it has lapsed; another's live row stops the script; and
\* with no row, or another's lapsed one, a new lease is made, whose token the
\* renewer throws away.
Renew(p) ==
    /\ At(p, "read") \/ At(p, "work")
    /\ CASE Holds(p) -> lease' = [lease EXCEPT !.live = TRUE] /\ UNCHANGED script
         [] ~Holds(p) /\ ~Free -> lease' = [lease EXCEPT !.dirty = TRUE] /\ Exit(p)
         [] ~Holds(p) /\ Free -> lease' = createWakeLease(Unknown) /\ UNCHANGED script
    /\ UNCHANGED <<tail, acked, fired, shown, troubles, past>>

\* Mutant: the release does not look for mail that came in the meantime.
NeverRearm == FALSE

\* Mail came since the lease was made or rearmed, or a script left its mark.
Rearm == Pending # {} /\ (lease.dirty \/ \E s \in Pending : s > lease.mark)

\* ReleaseWakeLease: relaunch, released, or an error when the lease is not
\* this script's any more.
Release(p) ==
    /\ At(p, "release")
    /\ IF ~Holds(p) THEN Exit(p) /\ UNCHANGED lease
       ELSE IF Rearm THEN lease' = createWakeLease(p) /\ Goto(p, "read")
       ELSE lease' = NULL /\ Exit(p)
    /\ UNCHANGED <<tail, acked, fired, shown, troubles, past>>

\* cleanup releases with --abandon.
Abandon(p) ==
    /\ lease' = IF Holds(p) THEN NULL ELSE lease
    /\ past' = past \cup {"abandoned"}
    /\ Exit(p)
    /\ UNCHANGED <<tail, acked, fired, shown>>

DrainLimit(p) ==
    /\ At(p, "read") /\ Pending # {} /\ script[p].runs >= MaxRuns
    /\ Abandon(p)
    /\ UNCHANGED troubles

\* A signal stops the script and its agent.
Interrupted(p) == ~At(p, "off") /\ Trouble /\ Abandon(p)

\* SIGKILL, or the machine stops: the lease stays until it lapses.
Die(p) ==
    /\ ~At(p, "off")
    /\ Trouble
    /\ past' = past \cup {"killed"}
    /\ Exit(p)
    /\ UNCHANGED <<tail, acked, fired, lease, shown>>

\* The TTL passes without a renewal: nobody renews, or every renewal of a
\* running script fails for as long.
Lapse ==
    /\ lease # NULL /\ lease.live
    /\ IF \E p \in Scripts : Holds(p) /\ ~At(p, "off") THEN Trouble ELSE UNCHANGED troubles
    /\ lease' = [lease EXCEPT !.live = FALSE]
    /\ past' = past \cup {"lapsed"}
    /\ UNCHANGED <<tail, acked, fired, script, shown>>

-----------------------------------------------------------------------------
Step(p) == Launch(p) \/ DrainLimit(p) \/ Finish(p) \/ Release(p)

Next ==
    \/ Arrive \/ Lapse
    \/ \E p \in Scripts :
          \/ Acquire(p) \/ Step(p) \/ Renew(p) \/ Interrupted(p) \/ Die(p)
          \/ \E s \in 1..tail : Ack(p, s)

Spec == Init /\ [][Next]_vars

\* A fired script asks for the lease, and a running one goes on.
FairSpec ==
    /\ Spec
    /\ WF_vars(\E p \in Scripts : Acquire(p))
    /\ \A p \in Scripts : WF_vars(Step(p))

-----------------------------------------------------------------------------
(* Properties.                                                             *)

\* Scripts fired together run one agent: two runs overlap only after a lease
\* has lapsed.
OneRunUnlessLapsed ==
    \A p, q \in Scripts :
        (~At(p, "off") /\ ~At(q, "off") /\ p # q) => "lapsed" \in past

\* A script that finds the lease held leaves its mail to the holder: the mark
\* is in the end answered by a launch that shows the mail, as long as no
\* lease lapses and no script is killed or gives up.
Marked == lease # NULL /\ lease.dirty
MarkAnswered == Marked ~> (Pending \subseteq shown \/ past # {})
=============================================================================
