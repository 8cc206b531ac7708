-------------------------- MODULE HookLedgerProofs --------------------------
(***************************************************************************)
(* Proofs about module HookLedger, for every set of triggers and hooks,    *)
(* every lease, page size and bound.                                       *)
(***************************************************************************)
EXTENDS HookLedger, FiniteSetTheorems, WellFoundedInduction, NaturalsInduction, TLAPS

\* A trigger that is firing or recording holds a claim on a real event, and
\* only recovery meets claims whose event is gone.
PassOK(r) ==
    /\ r \in Passes
    /\ r.pc \in {"reread", "fire", "record", "abandon"} => r.claim \in Claims
    /\ r.mode = "scan" => \A c \in r.queue : c.event \in Events

PassesOK == \A t \in Triggers : PassOK(pass[t])

\* The inductive invariant.
IndInv ==
    /\ HookTypeOK
    /\ PassesOK
    /\ OpenClaimsAboveFloor

-----------------------------------------------------------------------------
(* Minimum and maximum of sets of positions.                               *)

\* A set of positions that is not empty has a least element, which Min names.
LEMMA MinOfPositions ==
    ASSUME NEW S \in SUBSET Nat, S /= {}
    PROVE  Min(S) \in S /\ \A y \in S : Min(S) <= y
<1> DEFINE Less == {p \in Nat \X Nat : p[1] < p[2]}
<1>1. IsWellFoundedOn(Less, Nat)
  BY NatLessThanWellFounded DEF OpToRel
<1>2. \E x \in S : \A y \in S : ~(<<y, x>> \in Less)
  <2> HIDE DEF Less
  <2> QED
    BY <1>1, WFMin
<1>3. PICK x \in S : \A y \in S : ~(<<y, x>> \in Less)
  BY <1>2
<1>4. \A y \in S : x <= y
  <2> SUFFICES ASSUME NEW y \in S PROVE x <= y
    OBVIOUS
  <2>1. x \in Nat /\ y \in Nat
    OBVIOUS
  <2>2. <<y, x>> \in Nat \X Nat => ~(y < x)
    BY <1>3
  <2> QED
    BY <2>1, <2>2
<1> QED
  BY <1>4 DEF Min

\* A bounded set of positions has a greatest element, which Max names.
LEMMA MaxOfPositions ==
    ASSUME NEW n \in Nat, NEW S \in SUBSET (0 .. n), S /= {}
    PROVE  Max(S) \in S /\ \A y \in S : Max(S) >= y
<1> DEFINE T == {n - x : x \in S}
<1>0. \A x \in S : x \in Nat /\ x <= n /\ n - x \in Nat
  OBVIOUS
<1>1. T \in SUBSET Nat /\ T /= {}
  BY <1>0
<1>2. Min(T) \in T /\ \A y \in T : Min(T) <= y
  BY <1>1, MinOfPositions
<1>3. PICK x \in S : Min(T) = n - x
  BY <1>2
<1>4. ASSUME NEW y \in S PROVE x >= y
  <2>1. n - y \in T
    OBVIOUS
  <2>2. n - x <= n - y
    <3> HIDE DEF T
    <3> QED
      BY <1>2, <1>3, <2>1
  <2> QED
    BY <1>0, <2>2
<1> QED
  BY <1>4 DEF Max

\* JournalTail is a position of the journal, or 0.
LEMMA TailType ==
    ASSUME NEW j
    PROVE  Tail(j) \in 0 .. MaxSeq /\ \A s \in Seqs : j[s] /= NULL => s <= Tail(j)
<1> DEFINE S == {0} \cup {s \in Seqs : j[s] /= NULL}
<1>1. S \in SUBSET (0 .. MaxSeq) /\ S /= {} /\ MaxSeq \in Nat
  BY HookBoundsAssumption DEF Seqs
<1>2. Max(S) \in S /\ \A y \in S : Max(S) >= y
  BY <1>1, MaxOfPositions
<1> QED
  BY <1>1, <1>2 DEF Tail, Seqs

\* advanceHookScanFloorTx moves the floor forward only, and never onto a
\* position at or above an open claim.
LEMMA FloorTowardsFacts ==
    ASSUME HookTypeOK, OpenClaimsAboveFloor, NEW target \in 0 .. MaxSeq
    PROVE  /\ FloorTowards(target) \in 0 .. MaxSeq
           /\ FloorTowards(target) >= floor
           /\ \A h \in Hooks, s \in Seqs : Claimed(ledger[h][s]) => s > FloorTowards(target)
<1> DEFINE open == {s \in Seqs : \E h \in Hooks : Claimed(ledger[h][s])}
           low == IF open = {} THEN target ELSE Min({target, Min(open) - 1})
<1>1. floor \in 0 .. MaxSeq /\ MaxSeq \in Nat
  BY HookBoundsAssumption DEF HookTypeOK
<1>2. open \in SUBSET Nat
  BY DEF Seqs
<1>3. ASSUME open /= {}
      PROVE  /\ Min(open) \in 1 .. MaxSeq
             /\ \A s \in open : Min(open) <= s
             /\ low \in 0 .. MaxSeq /\ low <= Min(open) - 1
  <2>1. Min(open) \in open /\ \A s \in open : Min(open) <= s
    BY <1>2, <1>3, MinOfPositions
  <2>2. Min(open) \in 1 .. MaxSeq
    BY <2>1 DEF Seqs
  <2> DEFINE P == {target, Min(open) - 1}
  <2>3. P \in SUBSET Nat /\ P /= {}
    BY <1>1, <2>2
  <2>4. Min(P) \in P /\ \A s \in P : Min(P) <= s
    BY <2>3, MinOfPositions
  <2> HIDE DEF P
  <2>5. Min(P) \in 0 .. MaxSeq /\ Min(P) <= Min(open) - 1
    BY <1>1, <2>2, <2>4 DEF P
  <2> QED
    BY <1>3, <2>1, <2>2, <2>5 DEF P
<1>4. low \in 0 .. MaxSeq
  BY <1>3
<1> HIDE DEF low
<1> DEFINE Q == {floor, low}
<1>5. Q \in SUBSET (0 .. MaxSeq) /\ Q /= {}
  BY <1>1, <1>4
<1>6. Max(Q) \in Q /\ \A s \in Q : Max(Q) >= s
  BY <1>1, <1>5, MaxOfPositions
<1>7. FloorTowards(target) = Max(Q)
  BY DEF FloorTowards, low
<1> HIDE DEF Q
<1>8. ASSUME NEW h \in Hooks, NEW s \in Seqs, Claimed(ledger[h][s])
      PROVE  s > Max(Q)
  <2>1. s \in open
    BY <1>8
  <2>2. s > low
    BY <1>1, <1>3, <1>4, <2>1 DEF Seqs
  <2>3. s > floor
    BY <1>8 DEF OpenClaimsAboveFloor
  <2> QED
    BY <1>6, <2>2, <2>3 DEF Q
<1> QED
  BY <1>1, <1>4, <1>6, <1>7, <1>8 DEF Q

\* matchingHookJournalPrefix returns a position of the journal, or 0.
LEMMA MatchingPrefixType ==
    ASSUME NEW page \in SUBSET Entry
    PROVE  MatchingPrefix(page) \in 0 .. MaxSeq
<1> DEFINE good == {p \in page : \A q \in page : q.seq <= p.seq => At(q.seq, q.event)}
           S == {0} \cup {p.seq : p \in good}
<1>1. S \in SUBSET (0 .. MaxSeq) /\ S /= {} /\ MaxSeq \in Nat
  BY HookBoundsAssumption DEF Entry, Seqs
<1>2. Max(S) \in S
  BY <1>1, MaxOfPositions
<1> QED
  BY <1>1, <1>2 DEF MatchingPrefix

\* The smaller of two floors is one of them.
LEMMA PairMin ==
    ASSUME NEW a \in 0 .. MaxSeq, NEW b \in 0 .. MaxSeq
    PROVE  Min({a, b}) \in 0 .. MaxSeq /\ Min({a, b}) <= a /\ Min({a, b}) \in {a, b}
                                      /\ Min({a, b}) <= b
<1>1. {a, b} \in SUBSET Nat /\ {a, b} /= {} /\ MaxSeq \in Nat
  BY HookBoundsAssumption
<1>2. Min({a, b}) \in {a, b} /\ \A y \in {a, b} : Min({a, b}) <= y
  BY <1>1, MinOfPositions
<1> QED
  BY <1>1, <1>2

-----------------------------------------------------------------------------
(* The invariant.                                                          *)

\* An empty store satisfies the inductive invariant.
LEMMA InitInd == Init => IndInv
  BY HooksAssumption, HookBoundsAssumption
  DEF Init, IndInv, HookTypeOK, PassesOK, PassOK, OpenClaimsAboveFloor, Idle,
      Passes, Steps, Claimed, Seqs

\* A step that changes nothing but what one trigger is doing, and the history.
PassOnly == UNCHANGED <<journal, written, ledger, floor, synced>>

\* A step of one trigger keeps the type of what the others are doing.
LEMMA OnePass ==
    ASSUME IndInv, NEW t \in Triggers, NEW r, PassOK(r), pass' = [pass EXCEPT ![t] = r]
    PROVE  pass' \in [Triggers -> Passes] /\ PassesOK'
  BY DEF IndInv, HookTypeOK, PassesOK, PassOK

\* A step that only moves one trigger on, and the history, preserves the
\* inductive invariant.
LEMMA PassOnlyInd ==
    ASSUME IndInv, NEW t \in Triggers, NEW r, PassOK(r), pass' = [pass EXCEPT ![t] = r],
           PassOnly, settled' \subseteq Hooks \X Events, dropped' \subseteq Hooks \X Events,
           faults' \in 0 .. MaxFaults
    PROVE  IndInv'
<1>1. pass' \in [Triggers -> Passes] /\ PassesOK'
  BY OnePass
<1> QED
  BY <1>1 DEF IndInv, HookTypeOK, OpenClaimsAboveFloor, PassOnly

\* A pass that drops a pair from its queue is well formed.
LEMMA WithoutOK ==
    ASSUME IndInv, NEW t \in Triggers, NEW c
    PROVE  PassOK([pass[t] EXCEPT !.queue = @ \ {c}])
  BY DEF IndInv, PassesOK, PassOK, Passes

\* So is one that goes back to the pairs that are left.
LEMMA ResumeOK ==
    ASSUME IndInv, NEW t \in Triggers
    PROVE  PassOK([pass[t] EXCEPT !.pc = pass[t].mode, !.claim = NoClaim])
  BY DEF IndInv, PassesOK, PassOK, Passes, Steps

\* So is one that won a claim on an event.
LEMMA WonOK ==
    ASSUME IndInv, NEW t \in Triggers, NEW c \in pass[t].queue, c.event \in Events
    PROVE  PassOK([pass[t] EXCEPT !.queue = @ \ {c},
                      !.pc = IF pass[t].mode = "recover" THEN "reread" ELSE "fire",
                      !.claim = [hook |-> c.hook, seq |-> c.seq, event |-> c.event, age |-> 0]])
<1>1. c \in Wanted
  BY DEF IndInv, PassesOK, PassOK, Passes
<1>2. [hook |-> c.hook, seq |-> c.seq, event |-> c.event, age |-> 0] \in Claims
  BY <1>1, HookBoundsAssumption DEF Wanted, Claims, Ages
<1> QED
  BY <1>2 DEF IndInv, PassesOK, PassOK, Passes, Steps

\* So is one that ended.
LEMMA IdleOK == PassOK(Idle)
  BY HookBoundsAssumption DEF PassOK, Idle, Passes, Steps

\* The rows the ledger is given, a new claim and a recorded outcome, have the
\* type of a row.
LEMMA RowTypes ==
    Fresh \in Row \cup {NULL} /\ Terminal \in Row \cup {NULL} /\ Terminal /= NULL
<1>1. Fresh \in Row /\ Terminal \in Row
  BY HookBoundsAssumption DEF Fresh, Terminal, Row, Ages
<1> QED
  BY <1>1, HooksAssumption

-----------------------------------------------------------------------------
(* The steps of a pass, one lemma for each that needs more than PassOnlyInd. *)

\* A pass starts with the stale claims of the ledger as its queue, or without
\* them when they cannot be listed.
LEMMA BeginPassInd ==
    ASSUME IndInv, NEW t \in Triggers, BeginPass(t) \/ ListingFails(t)
    PROVE  IndInv'
<1>1. PICK cfg \in Configs, claims \in {StaleHookClaims, {}} :
        pass' = [pass EXCEPT ![t] = Recovering(cfg, claims)]
  BY DEF BeginPass, ListingFails
<1> DEFINE r == Recovering(cfg, claims)
<1>2. claims \subseteq Wanted
  BY DEF StaleHookClaims, Wanted
<1>3. PassOK(r)
  <2>1. cfg \in SUBSET Hooks /\ 0 \in 0 .. MaxSeq
    BY HooksAssumption, HookBoundsAssumption
  <2>2. Idle \in Passes
    BY IdleOK DEF PassOK
  <2>3. r \in Passes /\ r.pc = "recover" /\ r.mode = "recover"
    BY <1>2, <2>1, <2>2 DEF Recovering, Passes, Steps
  <2> QED
    BY <2>3 DEF PassOK
<1>4. PassOnly /\ UNCHANGED <<settled, dropped>>
  BY DEF BeginPass, ListingFails, environment, PassOnly
<1>5. pass' = [pass EXCEPT ![t] = r]
  BY <1>1
<1>6. faults' \in 0 .. MaxFaults
  BY HookBoundsAssumption DEF BeginPass, ListingFails, IndInv, HookTypeOK
<1> HIDE DEF r
<1> QED
  BY <1>3, <1>4, <1>5, <1>6, PassOnlyInd DEF IndInv, HookTypeOK

\* A claim is inserted above the floor only, and a claim that is taken over was
\* already above it.
LEMMA ClaimInd ==
    ASSUME IndInv, NEW t \in Triggers, ClaimHookDispatchEvent(t)
    PROVE  IndInv'
<1>typed. HookTypeOK /\ NULL \in Row \cup {NULL}
  BY DEF IndInv
<1>1. PICK c \in pass[t].queue :
        /\ c.event /= NULL
        /\ IF At(c.seq, c.event) /\ (Expired(ledger[c.hook][c.seq]) \/ CanClaim(c.hook, c.seq))
           THEN ledger' = [ledger EXCEPT ![c.hook][c.seq] = Fresh] /\ pass' = Won(t, c)
           ELSE pass' = Without(t, c) /\ UNCHANGED ledger
        /\ UNCHANGED <<environment, floor, settled, dropped, faults>>
  BY DEF ClaimHookDispatchEvent
<1>2. c \in Wanted /\ c.hook \in Hooks /\ c.seq \in Seqs /\ c.event \in Events
  BY <1>1 DEF IndInv, PassesOK, PassOK, Passes, Wanted
<1> DEFINE take == At(c.seq, c.event)
                   /\ (Expired(ledger[c.hook][c.seq]) \/ CanClaim(c.hook, c.seq))
           won == [pass[t] EXCEPT !.queue = @ \ {c},
                      !.pc = IF pass[t].mode = "recover" THEN "reread" ELSE "fire",
                      !.claim = [hook |-> c.hook, seq |-> c.seq, event |-> c.event, age |-> 0]]
           left == [pass[t] EXCEPT !.queue = @ \ {c}]
<1>3. CASE take
  <2>1. ledger' = [ledger EXCEPT ![c.hook][c.seq] = Fresh] /\ pass' = Won(t, c)
    BY <1>1, <1>3
  <2>2. c.seq > floor
    BY <1>2, <1>3 DEF IndInv, OpenClaimsAboveFloor, Expired, CanClaim
  <2>3. /\ ledger' \in [Hooks -> [Seqs -> Row \cup {NULL}]]
        /\ \A g \in Hooks, r \in Seqs :
             <<g, r>> /= <<c.hook, c.seq>> => ledger'[g][r] = ledger[g][r]
    BY <1>2, <2>1, <1>typed, RowTypes DEF HookTypeOK
  <2>4. OpenClaimsAboveFloor'
    BY <1>1, <1>2, <2>2, <2>3 DEF IndInv, OpenClaimsAboveFloor, Claimed
  <2>5. PassOK(won)
    BY <1>2, WonOK
  <2>6. pass' = [pass EXCEPT ![t] = won]
    BY <2>1 DEF Won, IndInv, HookTypeOK
  <2> HIDE DEF won
  <2>7. pass' \in [Triggers -> Passes] /\ PassesOK'
    BY <2>5, <2>6, OnePass
  <2> QED
    BY <1>1, <2>3, <2>4, <2>7 DEF IndInv, HookTypeOK, environment
<1>4. CASE ~take
  <2>1. pass' = Without(t, c) /\ UNCHANGED ledger
    BY <1>1, <1>4
  <2>2. PassOK(left)
    BY WithoutOK
  <2>3. pass' = [pass EXCEPT ![t] = left]
    BY <2>1 DEF Without, IndInv, HookTypeOK
  <2>4. PassOnly
    BY <1>1, <2>1 DEF environment, PassOnly
  <2> HIDE DEF left
  <2> QED
    BY <1>1, <2>2, <2>3, <2>4, PassOnlyInd DEF IndInv, HookTypeOK
<1> QED
  BY <1>3, <1>4

\* Discarding the claim of a missing event removes a row at most.
LEMMA DiscardMissingInd ==
    ASSUME IndInv, NEW t \in Triggers, DiscardMissingClaim(t)
    PROVE  IndInv'
<1>typed. HookTypeOK /\ NULL \in Row \cup {NULL}
  BY DEF IndInv
<1>1. PICK c \in pass[t].queue :
        /\ pass' = Without(t, c)
        /\ ledger' = IF Expired(ledger[c.hook][c.seq]) /\ At(c.seq, NULL)
                     THEN [ledger EXCEPT ![c.hook][c.seq] = NULL]
                     ELSE ledger
        /\ UNCHANGED <<environment, floor, settled, dropped, faults>>
  BY DEF DiscardMissingClaim
<1>2. c.hook \in Hooks /\ c.seq \in Seqs
  BY DEF IndInv, PassesOK, PassOK, Passes, Wanted
<1> DEFINE left == [pass[t] EXCEPT !.queue = @ \ {c}]
<1>3. PassOK(left)
  BY WithoutOK
<1>4. pass' = [pass EXCEPT ![t] = left]
  BY <1>1 DEF Without, IndInv, HookTypeOK
<1> HIDE DEF left
<1>5. pass' \in [Triggers -> Passes] /\ PassesOK'
  BY <1>3, <1>4, OnePass
<1>6. ledger' \in [Hooks -> [Seqs -> Row \cup {NULL}]] /\ OpenClaimsAboveFloor'
  <2>1. CASE ledger' = [ledger EXCEPT ![c.hook][c.seq] = NULL]
    <3>1. /\ ledger' \in [Hooks -> [Seqs -> Row \cup {NULL}]]
          /\ ledger'[c.hook][c.seq] = NULL
          /\ \A g \in Hooks, r \in Seqs :
               <<g, r>> /= <<c.hook, c.seq>> => ledger'[g][r] = ledger[g][r]
      BY <1>2, <2>1, <1>typed DEF HookTypeOK
    <3>2. ~Claimed(ledger'[c.hook][c.seq])
      BY <3>1 DEF Claimed
    <3> QED
      BY <1>1, <1>2, <3>1, <3>2 DEF IndInv, OpenClaimsAboveFloor, Claimed
  <2>2. CASE ledger' = ledger
    BY <1>1, <2>2 DEF IndInv, HookTypeOK, OpenClaimsAboveFloor
  <2> QED
    BY <1>1, <2>1, <2>2
<1> QED
  BY <1>1, <1>5, <1>6 DEF IndInv, HookTypeOK, environment

\* Recording an outcome closes one row.
LEMMA RecordInd ==
    ASSUME IndInv, NEW t \in Triggers, RecordOutcome(t)
    PROVE  IndInv'
<1>typed. HookTypeOK /\ NULL \in Row \cup {NULL}
  BY DEF IndInv
<1> DEFINE c == pass[t].claim
           back == [pass[t] EXCEPT !.pc = pass[t].mode, !.claim = NoClaim]
<1>1. c.hook \in Hooks /\ c.seq \in Seqs /\ c.event \in Events
  BY DEF RecordOutcome, Recording, IndInv, PassesOK, PassOK, Claims
<1>2. PassOK(back)
  BY ResumeOK
<1>3. pass' = [pass EXCEPT ![t] = back]
  BY DEF RecordOutcome, Resume, IndInv, HookTypeOK
<1> HIDE DEF back
<1>4. pass' \in [Triggers -> Passes] /\ PassesOK'
  BY <1>2, <1>3, OnePass
<1>5. ledger' \in [Hooks -> [Seqs -> Row \cup {NULL}]] /\ OpenClaimsAboveFloor'
  <2>0. UNCHANGED floor
    BY DEF RecordOutcome
  <2>1. CASE ledger' = [ledger EXCEPT ![c.hook][c.seq] = Terminal]
    <3>1. /\ ledger' \in [Hooks -> [Seqs -> Row \cup {NULL}]]
          /\ ledger'[c.hook][c.seq] = Terminal
          /\ \A g \in Hooks, r \in Seqs :
               <<g, r>> /= <<c.hook, c.seq>> => ledger'[g][r] = ledger[g][r]
      BY <1>1, <2>1, <1>typed, RowTypes DEF HookTypeOK
    <3>2. ~Claimed(ledger'[c.hook][c.seq])
      BY <3>1 DEF Claimed, Terminal
    <3> QED
      BY <1>1, <2>0, <3>1, <3>2 DEF IndInv, OpenClaimsAboveFloor, Claimed
  <2>2. CASE ledger' = ledger
    BY <2>0, <2>2 DEF IndInv, HookTypeOK, OpenClaimsAboveFloor
  <2> QED
    BY <2>1, <2>2 DEF RecordOutcome
<1>6. dropped' \subseteq Hooks \X Events
  BY <1>1 DEF RecordOutcome, IndInv, HookTypeOK
<1> HIDE DEF c
<1> QED
  BY <1>4, <1>5, <1>6 DEF RecordOutcome, IndInv, HookTypeOK, environment

\* A page holds positions with an event, so the claims of a scan name events.
LEMMA ReadJournalInd ==
    ASSUME IndInv, NEW t \in Triggers, ReadJournal(t)
    PROVE  IndInv'
<1> DEFINE page == {[seq |-> s, event |-> journal[s]] : s \in Page(pass[t].seen)}
           pairs == {p \in pass[t].cfg \X page : <<p[1], p[2].event>> \in Matches}
           queue == {[hook |-> p[1], seq |-> p[2].seq, event |-> p[2].event] : p \in pairs}
           r == [pass[t] EXCEPT !.pc = "scan", !.mode = "scan", !.page = page, !.queue = queue]
<1>1. page \in SUBSET Entry
  <2>1. \A s \in Page(pass[t].seen) : s \in Seqs /\ journal[s] \in Events
    BY DEF Page, IndInv, HookTypeOK
  <2> QED
    BY <2>1 DEF Entry
<1>2. pass[t] \in Passes
  BY DEF IndInv, HookTypeOK
<1>3. queue \in SUBSET Wanted /\ \A c \in queue : c.event \in Events
  <2> HIDE DEF page
  <2>1. pass[t].cfg \in SUBSET Hooks
    BY <1>2 DEF Passes
  <2>2. ASSUME NEW p \in pairs
        PROVE  p[1] \in Hooks /\ p[2].seq \in Seqs /\ p[2].event \in Events
    BY <1>1, <2>1 DEF Entry
  <2> HIDE DEF pairs
  <2>3. ASSUME NEW c \in queue
        PROVE  c \in Wanted /\ c.event \in Events
    <3>1. PICK p \in pairs : c = [hook |-> p[1], seq |-> p[2].seq, event |-> p[2].event]
      OBVIOUS
    <3> QED
      BY <2>2, <3>1 DEF Wanted
  <2> QED
    BY <2>3
<1>4. pass' = [pass EXCEPT ![t] = r]
  BY DEF ReadJournal, IndInv, HookTypeOK
<1> HIDE DEF page, queue
<1>5. PassOK(r)
  BY <1>1, <1>2, <1>3 DEF PassOK, Passes, Steps
<1>6. PassOnly /\ UNCHANGED <<settled, dropped, faults>>
  BY DEF ReadJournal, environment, PassOnly
<1> HIDE DEF r
<1> QED
  BY <1>4, <1>5, <1>6, PassOnlyInd DEF IndInv, HookTypeOK

\* The floor advances below every open claim.
LEMMA AdvanceFloorInd ==
    ASSUME IndInv, NEW t \in Triggers, AdvanceFloor(t)
    PROVE  IndInv'
<1> DEFINE page == pass[t].page
           target == MatchingPrefix(page)
           moved == floor >= pass[t].seen /\ target > 0
           to == FloorTowards(target)
           given == {<<h, p.event>> : h \in Hooks \ pass[t].cfg,
                                      p \in {q \in page : floor < q.seq /\ q.seq <= to}}
           r == [Idle EXCEPT !.pc = "prune"]
<1>1. page \in SUBSET Entry
  BY DEF IndInv, HookTypeOK, Passes
<1>2. target \in 0 .. MaxSeq
  BY <1>1, MatchingPrefixType
<1>3. /\ floor' = IF moved THEN to ELSE floor
      /\ settled' = settled \cup IF moved THEN given ELSE {}
      /\ pass' = [pass EXCEPT ![t] = r]
      /\ UNCHANGED <<environment, ledger, dropped, faults>>
  BY DEF AdvanceFloor
<1>4. given \subseteq Hooks \X Events
  BY <1>1 DEF Entry
<1>5. PassOK(r)
  BY IdleOK DEF PassOK, Passes, Steps
<1>6. /\ to \in 0 .. MaxSeq
      /\ \A h \in Hooks, s \in Seqs : Claimed(ledger[h][s]) => s > to
  <2> HIDE DEF target
  <2> QED
    BY <1>2, FloorTowardsFacts DEF IndInv
<1> HIDE DEF moved, to, given, r
<1>7. pass' \in [Triggers -> Passes] /\ PassesOK'
  BY <1>3, <1>5, OnePass
<1>8. OpenClaimsAboveFloor'
  BY <1>3, <1>6 DEF OpenClaimsAboveFloor, IndInv
<1>9. floor' \in 0 .. MaxSeq
  BY <1>3, <1>6 DEF IndInv, HookTypeOK
<1>10. settled' \subseteq Hooks \X Events
  BY <1>3, <1>4 DEF IndInv, HookTypeOK
<1> QED
  BY <1>3, <1>7, <1>8, <1>9, <1>10 DEF IndInv, HookTypeOK, environment

\* Pruning removes rows only.
LEMMA PruneInd ==
    ASSUME IndInv, NEW t \in Triggers, Prune(t)
    PROVE  IndInv'
<1>1. pass' \in [Triggers -> Passes] /\ PassesOK'
  BY IdleOK, OnePass DEF Prune
<1>2. ledger' \in [Hooks -> [Seqs -> Row \cup {NULL}]]
  BY DEF Prune, IndInv, HookTypeOK
<1>3. OpenClaimsAboveFloor'
  BY DEF Prune, IndInv, HookTypeOK, OpenClaimsAboveFloor, Claimed
<1> QED
  BY <1>1, <1>2, <1>3 DEF Prune, IndInv, HookTypeOK, environment

\* The steps that change only what the trigger is doing: failures, rereading
\* the event, firing, reading the floor and a crash.
LEMMA OtherPassStepsInd ==
    ASSUME IndInv, NEW t \in Triggers,
           \/ ClaimFails(t) \/ RereadEvent(t) \/ RereadFails(t) \/ Fire(t) \/ RecordFails(t)
           \/ ReadFloor(t) \/ AdvanceFails(t) \/ Crash(t)
    PROVE  IndInv'
<1> DEFINE back == [pass[t] EXCEPT !.pc = pass[t].mode, !.claim = NoClaim]
           c == pass[t].claim
           done == [pass[t] EXCEPT !.pc = "record"]
<1>0. /\ pass \in [Triggers -> Passes] /\ pass[t] \in Passes
      /\ settled \subseteq Hooks \X Events /\ dropped \subseteq Hooks \X Events
      /\ faults \in 0 .. MaxFaults /\ MaxFaults \in Nat
  BY HookBoundsAssumption DEF IndInv, HookTypeOK
<1>1. PassOK(back) /\ Resume(t) = [pass EXCEPT ![t] = back]
  BY <1>0, ResumeOK DEF Resume
<1>2. ASSUME pass[t].pc \in {"reread", "fire"}
      PROVE  c \in Claims /\ PassOK(done) /\ <<c.hook, c.event>> \in Hooks \X Events
  BY <1>2 DEF IndInv, PassesOK, PassOK, Passes, Steps, Claims
<1>3. CASE ClaimFails(t)
  <2>1. PICK e \in pass[t].queue :
          /\ faults < MaxFaults /\ faults' = faults + 1
          /\ pass' = Without(t, e)
          /\ dropped' = IF pass[t].mode = "scan"
                        THEN dropped \cup ({<<e.hook, e.event>>} \ settled) ELSE dropped
          /\ UNCHANGED <<environment, ledger, floor, settled>>
    BY <1>3 DEF ClaimFails
  <2> DEFINE left == [pass[t] EXCEPT !.queue = @ \ {e}]
  <2>2. PassOK(left)
    BY WithoutOK
  <2>3. pass' = [pass EXCEPT ![t] = left]
    BY <1>0, <2>1 DEF Without
  <2>4. dropped' \subseteq Hooks \X Events
    <3>1. pass[t].mode = "scan" => <<e.hook, e.event>> \in Hooks \X Events
      BY DEF IndInv, PassesOK, PassOK, Passes, Wanted
    <3> QED
      BY <1>0, <2>1, <3>1
  <2>5. PassOnly /\ settled' = settled /\ faults' \in 0 .. MaxFaults
    BY <1>0, <2>1 DEF environment, PassOnly
  <2> HIDE DEF left
  <2> QED
    BY <1>0, <2>2, <2>3, <2>4, <2>5, PassOnlyInd
<1>4. CASE RereadEvent(t)
  <2> DEFINE go == [pass[t] EXCEPT !.pc = "fire"]
  <2>1. PassOK(go) /\ PassOK(done) /\ <<c.hook, c.event>> \in Hooks \X Events
    BY <1>2, <1>4 DEF RereadEvent, IndInv, PassesOK, PassOK, Passes, Steps
  <2>2. /\ PassOnly /\ dropped' = dropped /\ faults' = faults
        /\ settled' = settled \/ settled' = settled \cup {<<c.hook, c.event>>}
        /\ \/ pass' = [pass EXCEPT ![t] = back]
           \/ pass' = [pass EXCEPT ![t] = done]
           \/ pass' = [pass EXCEPT ![t] = go]
    BY <1>0, <1>1, <1>4 DEF RereadEvent, environment, PassOnly
  <2>3. settled' \subseteq Hooks \X Events
    BY <1>0, <2>1, <2>2
  <2> HIDE DEF go, done, back
  <2> QED
    BY <1>0, <1>1, <2>1, <2>2, <2>3, PassOnlyInd
<1>5. CASE Fire(t)
  <2>1. PassOK(done) /\ <<c.hook, c.event>> \in Hooks \X Events
    BY <1>2, <1>5 DEF Fire
  <2>2. /\ PassOnly /\ dropped' = dropped /\ faults' = faults
        /\ settled' = settled \/ settled' = settled \cup {<<c.hook, c.event>>}
        /\ \/ pass' = [pass EXCEPT ![t] = back]
           \/ pass' = [pass EXCEPT ![t] = done]
    BY <1>0, <1>1, <1>5 DEF Fire, environment, PassOnly
  <2>3. settled' \subseteq Hooks \X Events
    BY <1>0, <2>1, <2>2
  <2> HIDE DEF done, back
  <2> QED
    BY <1>0, <1>1, <2>1, <2>2, <2>3, PassOnlyInd
<1>6. CASE RecordFails(t)
  <2>1. /\ PassOnly /\ settled' = settled /\ dropped' = dropped
        /\ faults' \in 0 .. MaxFaults /\ pass' = [pass EXCEPT ![t] = back]
    BY <1>0, <1>1, <1>6 DEF RecordFails, environment, PassOnly
  <2> HIDE DEF back
  <2> QED
    BY <1>0, <1>1, <2>1, PassOnlyInd
<1>7. CASE ReadFloor(t)
  <2> DEFINE r == [pass[t] EXCEPT !.pc = "journal", !.seen = floor]
  <2>1. PassOK(r)
    BY <1>0 DEF IndInv, HookTypeOK, PassesOK, PassOK, Passes, Steps
  <2>2. /\ PassOnly /\ settled' = settled /\ dropped' = dropped /\ faults' = faults
        /\ pass' = [pass EXCEPT ![t] = r]
    BY <1>0, <1>7 DEF ReadFloor, environment, PassOnly
  <2> HIDE DEF r
  <2> QED
    BY <1>0, <2>1, <2>2, PassOnlyInd
<1>8. CASE Crash(t)
  <2>1. /\ PassOnly /\ settled' = settled /\ dropped' = dropped
        /\ faults' \in 0 .. MaxFaults /\ pass' = [pass EXCEPT ![t] = Idle]
    BY <1>0, <1>8 DEF Crash, environment, PassOnly
  <2> QED
    BY <1>0, <2>1, IdleOK, PassOnlyInd
<1>9. CASE RereadFails(t)
  <2> DEFINE r == [pass[t] EXCEPT !.pc = "abandon"]
  <2>1. PassOK(r)
    BY <1>0, <1>2, <1>9 DEF RereadFails, IndInv, PassesOK, PassOK, Passes, Steps
  <2>2. /\ PassOnly /\ settled' = settled /\ dropped' = dropped
        /\ faults' \in 0 .. MaxFaults /\ pass' = [pass EXCEPT ![t] = r]
    BY <1>0, <1>9 DEF RereadFails, environment, PassOnly
  <2> HIDE DEF r
  <2> QED
    BY <1>0, <2>1, <2>2, PassOnlyInd
<1>10. CASE AdvanceFails(t)
  <2> DEFINE r == [Idle EXCEPT !.pc = "prune"]
  <2>1. PassOK(r)
    BY IdleOK DEF PassOK, Passes, Steps, Idle
  <2>2. /\ PassOnly /\ settled' = settled /\ dropped' = dropped
        /\ faults' \in 0 .. MaxFaults /\ pass' = [pass EXCEPT ![t] = r]
    BY <1>0, <1>10 DEF AdvanceFails, environment, PassOnly
  <2> HIDE DEF r
  <2> QED
    BY <1>0, <2>1, <2>2, PassOnlyInd
<1> QED
  BY <1>3, <1>4, <1>5, <1>6, <1>7, <1>8, <1>9, <1>10

-----------------------------------------------------------------------------
(* The steps of the rest of the host.                                      *)

\* A new event takes the position after the journal's tail.
LEMMA WriteInd ==
    ASSUME IndInv, Write
    PROVE  IndInv'
<1>1. Tail(journal) + 1 \in Seqs
  BY TailType, HookBoundsAssumption DEF Write, Seqs
<1>2. written + 1 \in Events /\ written' \in 0 .. MaxEvents
  BY HookBoundsAssumption DEF Write, Events, IndInv, HookTypeOK
<1>3. journal' \in [Seqs -> Events \cup {NULL}]
  BY <1>1, <1>2 DEF Write, IndInv, HookTypeOK
<1> QED
  BY <1>2, <1>3 DEF Write, IndInv, HookTypeOK, PassesOK, OpenClaimsAboveFloor

\* A first fill moves the floor toward the tail, below every open claim.
LEMMA EndFirstPullInd ==
    ASSUME IndInv, EndFirstPull
    PROVE  IndInv'
<1> DEFINE target == Tail(journal)
           to == FloorTowards(target)
           passed == {s \in Seqs : floor < s /\ s <= to /\ journal[s] /= NULL}
<1>1. target \in 0 .. MaxSeq
  BY TailType
<1>2. /\ to \in 0 .. MaxSeq
      /\ \A h \in Hooks, s \in Seqs : Claimed(ledger[h][s]) => s > to
  <2> HIDE DEF target
  <2> QED
    BY <1>1, FloorTowardsFacts DEF IndInv
<1>3. {<<h, journal[s]>> : h \in Hooks, s \in passed} \subseteq Hooks \X Events
  BY DEF IndInv, HookTypeOK
<1>4. /\ floor' = to
      /\ settled' = settled \cup {<<h, journal[s]>> : h \in Hooks, s \in passed}
      /\ synced' \in {"no", "yes"}
      /\ UNCHANGED <<journal, written, ledger, pass, dropped, faults>>
  BY DEF EndFirstPull
<1> HIDE DEF to, passed
<1>5. OpenClaimsAboveFloor'
  BY <1>2, <1>4 DEF OpenClaimsAboveFloor
<1>6. settled' \subseteq Hooks \X Events
  BY <1>3, <1>4 DEF IndInv, HookTypeOK
<1> QED
  BY <1>2, <1>4, <1>5, <1>6 DEF IndInv, HookTypeOK, PassesOK

\* A replace import trims the ledger and the floor to what the journal holds.
LEMMA ReplaceInd ==
    ASSUME IndInv, Replace
    PROVE  IndInv'
<1>1. PICK gone \in SUBSET Held :
        LET kept == [s \in Seqs |-> IF journal[s] \in gone THEN NULL ELSE journal[s]]
        IN  /\ journal' = kept
            /\ ledger' = [h \in Hooks |-> [s \in Seqs |->
                             IF s > Tail(kept) THEN NULL ELSE ledger[h][s]]]
            /\ floor' = Min({floor, Tail(kept)})
  BY DEF Replace
<1> DEFINE kept == [s \in Seqs |-> IF journal[s] \in gone THEN NULL ELSE journal[s]]
           tail == Tail(kept)
<1>2. kept \in [Seqs -> Events \cup {NULL}]
  BY DEF IndInv, HookTypeOK
<1>3. /\ journal' = kept
      /\ ledger' = [h \in Hooks |-> [s \in Seqs |-> IF s > tail THEN NULL ELSE ledger[h][s]]]
      /\ floor' = Min({floor, tail})
  BY <1>1
<1>4. tail \in 0 .. MaxSeq
  <2> HIDE DEF kept
  <2> QED
    BY TailType
<1>5. faults' \in 0 .. MaxFaults /\ UNCHANGED <<written, pass, synced, settled, dropped>>
  BY HookBoundsAssumption DEF Replace, IndInv, HookTypeOK
<1> HIDE DEF tail, kept
<1>6. floor' \in 0 .. MaxSeq /\ floor' <= floor
  BY <1>3, <1>4, PairMin DEF IndInv, HookTypeOK
<1>7. ledger' \in [Hooks -> [Seqs -> Row \cup {NULL}]]
  BY <1>3 DEF IndInv, HookTypeOK
<1>8. OpenClaimsAboveFloor'
  <2> SUFFICES ASSUME NEW h \in Hooks, NEW s \in Seqs, Claimed(ledger'[h][s])
               PROVE  s > floor'
    BY DEF OpenClaimsAboveFloor, Claimed
  <2>1. Claimed(ledger[h][s])
    BY <1>3 DEF Claimed
  <2>2. s > floor
    BY <2>1 DEF IndInv, OpenClaimsAboveFloor
  <2> QED
    BY <1>6, <2>2 DEF IndInv, HookTypeOK, Seqs
<1> QED
  BY <1>2, <1>3, <1>5, <1>6, <1>7, <1>8 DEF IndInv, HookTypeOK, PassesOK

\* Discarding the local state empties the ledger with the journal.
LEMMA DiscardLocalInd ==
    ASSUME IndInv, DiscardLocal
    PROVE  IndInv'
<1>1. /\ journal' \in [Seqs -> Events \cup {NULL}]
      /\ ledger' \in [Hooks -> [Seqs -> Row \cup {NULL}]]
      /\ floor' \in 0 .. MaxSeq
      /\ faults' \in 0 .. MaxFaults
      /\ synced' \in {"no", "first", "yes"}
      /\ UNCHANGED <<written, pass, settled, dropped>>
  BY HookBoundsAssumption DEF DiscardLocal, IndInv, HookTypeOK
<1>2. OpenClaimsAboveFloor'
  BY DEF DiscardLocal, OpenClaimsAboveFloor, Claimed
<1> QED
  BY <1>1, <1>2 DEF IndInv, HookTypeOK, PassesOK

\* An older claim is still a claim on the same event.
LEMMA TickInd ==
    ASSUME IndInv, Tick
    PROVE  IndInv'
<1>1. \A age \in Ages : Older(age) \in Ages
  BY HookBoundsAssumption DEF Ages, Older
<1>2. ledger' = [h \in Hooks |-> [s \in Seqs |->
                    IF Claimed(ledger[h][s]) THEN [ledger[h][s] EXCEPT !.age = Older(@)]
                    ELSE ledger[h][s]]]
  BY DEF Tick
<1>3. ASSUME NEW row \in Row
      PROVE  [row EXCEPT !.age = Older(@)] \in Row
  BY <1>1 DEF Row
<1>4. ledger' \in [Hooks -> [Seqs -> Row \cup {NULL}]]
  <2>1. ASSUME NEW h \in Hooks, NEW s \in Seqs
        PROVE  (IF Claimed(ledger[h][s]) THEN [ledger[h][s] EXCEPT !.age = Older(@)]
                ELSE ledger[h][s]) \in Row \cup {NULL}
    BY <1>3 DEF IndInv, HookTypeOK, Claimed
  <2> QED
    BY <1>2, <2>1
<1>5. OpenClaimsAboveFloor'
  <2> SUFFICES ASSUME NEW h \in Hooks, NEW s \in Seqs, Claimed(ledger'[h][s])
               PROVE  s > floor
    BY DEF OpenClaimsAboveFloor, Claimed, Tick
  <2>1. Claimed(ledger[h][s])
    BY <1>2 DEF Claimed
  <2> QED
    BY <2>1 DEF IndInv, OpenClaimsAboveFloor
<1>6. ASSUME NEW t \in Triggers
      PROVE  PassOK(pass'[t])
  <2>1. PassOK(pass[t]) /\ pass[t] \in Passes
    BY DEF IndInv, PassesOK, PassOK
  <2>2. CASE pass[t].claim = NoClaim
    BY <2>1, <2>2 DEF Tick
  <2>3. CASE pass[t].claim /= NoClaim
    <3>1. pass[t].claim \in Claims
      BY <2>1, <2>3 DEF Passes
    <3>2. [pass[t].claim EXCEPT !.age = Older(@)] \in Claims
      BY <1>1, <3>1 DEF Claims
    <3>3. pass'[t] = [pass[t] EXCEPT !.claim = [pass[t].claim EXCEPT !.age = Older(@)]]
      BY <2>1, <2>3, <3>1 DEF Tick, Passes, Claims
    <3> QED
      BY <2>1, <3>2, <3>3 DEF PassOK, Passes
  <2> QED
    BY <2>2, <2>3
<1>7. pass' \in [Triggers -> Passes] /\ PassesOK'
  BY <1>6 DEF Tick, PassesOK, PassOK
<1> QED
  BY <1>4, <1>5, <1>7 DEF Tick, IndInv, HookTypeOK, environment

-----------------------------------------------------------------------------
(* The theorems.                                                           *)

\* Every step of the host preserves the inductive invariant.
LEMMA NextInd == IndInv /\ [Next]_vars => IndInv'
<1> SUFFICES ASSUME IndInv, [Next]_vars PROVE IndInv'
  OBVIOUS
<1>1. ASSUME NEW t \in Triggers, PassStep(t) \/ Fault(t)
      PROVE  IndInv'
  BY <1>1, BeginPassInd, ClaimInd, DiscardMissingInd, RecordInd, ReadJournalInd,
     AdvanceFloorInd, PruneInd, OtherPassStepsInd DEF PassStep, Fault
<1>2. CASE BeginPull \/ FirstPullSetsNoFloor
  BY <1>2 DEF BeginPull, FirstPullSetsNoFloor, IndInv, HookTypeOK, PassesOK,
              OpenClaimsAboveFloor
<1>3. CASE UNCHANGED vars
  BY <1>3 DEF vars, IndInv, HookTypeOK, PassesOK, OpenClaimsAboveFloor
<1> QED
  BY <1>1, <1>2, <1>3, WriteInd, EndFirstPullInd, ReplaceInd, DiscardLocalInd, TickInd DEF Next

\* The inductive invariant holds in every reachable state.
LEMMA IndInvHolds == Spec => []IndInv
  BY InitInd, NextInd, PTL DEF Spec

\* However many triggers dispatch, and whatever crashes, replaces, discards and
\* first fills fall between their transactions, every page, queue and claim of
\* a pass names positions and events of the journal.
THEOREM HookTypeOKHolds == Spec => []HookTypeOK
<1>1. IndInv => HookTypeOK
  BY DEF IndInv
<1> QED
  BY <1>1, IndInvHolds, PTL

\* The scan floor (advanceHookScanFloorTx, initHookScanFloorAtTailTx,
\* trimHookDispatchToJournal) never passes a claim that is still open, so a
\* later pass can take over what a crashed trigger had claimed.
THEOREM OpenClaimsAboveFloorHolds == Spec => []OpenClaimsAboveFloor
<1>1. IndInv => OpenClaimsAboveFloor
  BY DEF IndInv
<1> QED
  BY <1>1, IndInvHolds, PTL

\* What OutcomeIsFinal says of one step.
StaysClosed ==
    \A h \in Hooks, s \in Seqs : Closed(h, s) /\ journal'[s] = journal[s] => Closed(h, s)'

\* No step of the host opens a closed position while its event stays.
LEMMA StepStaysClosed ==
    ASSUME IndInv, [Next]_vars
    PROVE  StaysClosed
<1>typed. HookTypeOK /\ NULL \in Row \cup {NULL}
  BY DEF IndInv
<1> USE DEF StaysClosed
<1>0. floor \in 0 .. MaxSeq /\ \A s \in Seqs : s \in Nat
  BY DEF IndInv, HookTypeOK, Seqs
<1>1. ASSUME UNCHANGED <<ledger, floor>>
      PROVE  StaysClosed
  BY <1>1 DEF Closed, Claimed
<1>2. ASSUME UNCHANGED ledger, floor' \in 0 .. MaxSeq, floor' >= floor
      PROVE  StaysClosed
  BY <1>0, <1>2 DEF Closed, Claimed
<1>3. ASSUME NEW t \in Triggers, ClaimHookDispatchEvent(t)
      PROVE  StaysClosed
  <2>1. CASE UNCHANGED <<ledger, floor>>
    BY <1>1, <2>1
  <2>2. CASE ~UNCHANGED <<ledger, floor>>
    <3>1. PICK c \in pass[t].queue :
            /\ Expired(ledger[c.hook][c.seq]) \/ CanClaim(c.hook, c.seq)
            /\ ledger' = [ledger EXCEPT ![c.hook][c.seq] = Fresh]
            /\ UNCHANGED floor
      BY <1>3, <2>2 DEF ClaimHookDispatchEvent
    <3>2. c.hook \in Hooks /\ c.seq \in Seqs
      BY DEF IndInv, PassesOK, PassOK, Passes, Wanted
    <3>3. ~Closed(c.hook, c.seq)
      BY <1>0, <3>1, <3>2 DEF Closed, Expired, CanClaim
    <3>4. \A g \in Hooks, r \in Seqs :
            <<g, r>> /= <<c.hook, c.seq>> => ledger'[g][r] = ledger[g][r]
      BY <3>1, <3>2, <1>typed DEF HookTypeOK
    <3> QED
      BY <3>1, <3>3, <3>4 DEF Closed, Claimed
  <2> QED
    BY <2>1, <2>2
<1>4. ASSUME NEW t \in Triggers, DiscardMissingClaim(t)
      PROVE  StaysClosed
  <2>1. CASE UNCHANGED <<ledger, floor>>
    BY <1>1, <2>1
  <2>2. CASE ~UNCHANGED <<ledger, floor>>
    <3>1. PICK c \in pass[t].queue :
            /\ Expired(ledger[c.hook][c.seq])
            /\ ledger' = [ledger EXCEPT ![c.hook][c.seq] = NULL]
            /\ UNCHANGED floor
      BY <1>4, <2>2 DEF DiscardMissingClaim
    <3>2. c.hook \in Hooks /\ c.seq \in Seqs
      BY DEF IndInv, PassesOK, PassOK, Passes, Wanted
    <3>3. ~Closed(c.hook, c.seq)
      BY <3>1 DEF Closed, Expired
    <3>4. \A g \in Hooks, r \in Seqs :
            <<g, r>> /= <<c.hook, c.seq>> => ledger'[g][r] = ledger[g][r]
      BY <3>1, <3>2, <1>typed DEF HookTypeOK
    <3> QED
      BY <3>1, <3>3, <3>4 DEF Closed, Claimed
  <2> QED
    BY <2>1, <2>2
<1>5. ASSUME NEW t \in Triggers, RecordOutcome(t)
      PROVE  StaysClosed
  <2>1. CASE UNCHANGED <<ledger, floor>>
    BY <1>1, <2>1
  <2>2. CASE ~UNCHANGED <<ledger, floor>>
    <3>0. PICK c : c = pass[t].claim
      OBVIOUS
    <3>1. ledger' = [ledger EXCEPT ![c.hook][c.seq] = Terminal] /\ UNCHANGED floor
      BY <1>5, <2>2, <3>0 DEF RecordOutcome
    <3>2. c.hook \in Hooks /\ c.seq \in Seqs
      BY <1>5, <3>0 DEF RecordOutcome, Recording, IndInv, PassesOK, PassOK, Claims
    <3>3. /\ ledger' \in [Hooks -> [Seqs -> Row \cup {NULL}]]
          /\ ledger'[c.hook][c.seq] = Terminal
          /\ \A g \in Hooks, r \in Seqs :
               <<g, r>> /= <<c.hook, c.seq>> => ledger'[g][r] = ledger[g][r]
      BY <3>1, <3>2, <1>typed, RowTypes DEF HookTypeOK
    <3>4. Terminal /= NULL /\ ~Claimed(Terminal)
      BY RowTypes DEF Claimed, Terminal
    <3> QED
      BY <3>1, <3>3, <3>4 DEF Closed, Claimed
  <2> QED
    BY <2>1, <2>2
<1>6. ASSUME NEW t \in Triggers, AdvanceFloor(t)
      PROVE  StaysClosed
  <2> DEFINE target == MatchingPrefix(pass[t].page)
  <2>1. target \in 0 .. MaxSeq
    <3>1. pass[t].page \in SUBSET Entry
      BY DEF IndInv, HookTypeOK, Passes
    <3> QED
      BY <3>1, MatchingPrefixType
  <2>2. UNCHANGED ledger /\ floor' \in {FloorTowards(target), floor}
    BY <1>6 DEF AdvanceFloor
  <2> HIDE DEF target
  <2>3. FloorTowards(target) \in 0 .. MaxSeq /\ FloorTowards(target) >= floor
    BY <2>1, FloorTowardsFacts DEF IndInv
  <2> QED
    BY <1>0, <1>2, <2>2, <2>3
<1>7. ASSUME NEW t \in Triggers, Prune(t)
      PROVE  StaysClosed
  BY <1>0, <1>7 DEF Prune, Closed, Claimed
<1>8. ASSUME EndFirstPull
      PROVE  StaysClosed
  <2> DEFINE target == Tail(journal)
  <2>1. target \in 0 .. MaxSeq
    BY TailType
  <2>2. UNCHANGED ledger /\ floor' = FloorTowards(target)
    BY <1>8 DEF EndFirstPull
  <2> HIDE DEF target
  <2>3. FloorTowards(target) \in 0 .. MaxSeq /\ FloorTowards(target) >= floor
    BY <2>1, FloorTowardsFacts DEF IndInv
  <2> QED
    BY <1>2, <2>2, <2>3
<1>9. ASSUME Replace
      PROVE  StaysClosed
  <2>1. PICK kept :
          /\ journal' = kept
          /\ ledger' = [h \in Hooks |-> [s \in Seqs |->
                           IF s > Tail(kept) THEN NULL ELSE ledger[h][s]]]
          /\ floor' = Min({floor, Tail(kept)})
    BY <1>9 DEF Replace
  <2>2. Tail(kept) \in 0 .. MaxSeq /\ \A s \in Seqs : kept[s] /= NULL => s <= Tail(kept)
    BY TailType
  <2>3. floor' \in {floor, Tail(kept)}
    BY <1>0, <2>1, <2>2, PairMin
  <2> SUFFICES ASSUME NEW h \in Hooks, NEW s \in Seqs, Closed(h, s), journal'[s] = journal[s]
               PROVE  Closed(h, s)'
    OBVIOUS
  <2>4. s <= Tail(kept)
    BY <2>1, <2>2 DEF Closed
  <2>5. ledger'[h][s] = ledger[h][s]
    BY <1>0, <2>1, <2>2, <2>4
  <2>6. s <= floor => s <= floor'
    BY <2>3, <2>4
  <2> QED
    BY <2>5, <2>6 DEF Closed, Claimed
<1>10. ASSUME DiscardLocal
       PROVE  StaysClosed
  BY <1>10 DEF DiscardLocal, Closed
<1>11. ASSUME Tick
       PROVE  StaysClosed
  BY <1>11 DEF Tick, Closed, Claimed, environment
<1>12. ASSUME NEW t \in Triggers,
              PassStep(t) \/ Fault(t)
       PROVE  StaysClosed
  <2>1. CASE \/ BeginPass(t) \/ RereadEvent(t) \/ Fire(t) \/ ReadFloor(t) \/ ReadJournal(t)
             \/ Fault(t)
    <3>1. UNCHANGED <<ledger, floor>>
      BY <2>1 DEF BeginPass, RereadEvent, Fire, ReadFloor, ReadJournal, Fault, ListingFails,
                  ClaimFails, RereadFails, RecordFails, AdvanceFails, Crash
    <3> QED
      BY <1>1, <3>1
  <2> QED
    BY <1>3, <1>4, <1>5, <1>6, <1>7, <1>12, <2>1 DEF PassStep
<1>13. ASSUME Write \/ BeginPull \/ FirstPullSetsNoFloor \/ UNCHANGED vars
       PROVE  StaysClosed
  <2>1. UNCHANGED <<ledger, floor>>
    BY <1>13 DEF Write, BeginPull, FirstPullSetsNoFloor, vars
  <2> QED
    BY <1>1, <2>1
<1> QED
  <2> HIDE DEF StaysClosed
  <2> QED
    BY <1>8, <1>9, <1>10, <1>11, <1>12, <1>13 DEF Next

\* A recorded outcome is final: no pass claims the pair again, whatever it read
\* before the row was written or pruned, as long as the event stays in place.
THEOREM OutcomeIsFinalHolds == Spec => OutcomeIsFinal
<1>1. IndInv /\ [Next]_vars => [StaysClosed]_vars
  BY StepStaysClosed
<1> QED
  BY <1>1, IndInvHolds, PTL DEF Spec, OutcomeIsFinal, StaysClosed

-----------------------------------------------------------------------------
(* Nothing is skipped and nothing fired twice: the invariant.              *)

\* An event is in one place, and its id is one that was written.
IdsOnce ==
    /\ \A r, s \in Seqs : journal[r] /= NULL /\ journal[r] = journal[s] => r = s
    /\ \A s \in Seqs : journal[s] /= NULL => journal[s] <= written

\* The floor and the rows stay within the journal, so that a position that is
\* used again starts without either.
WithinTail ==
    /\ floor <= Tail(journal)
    /\ \A h \in Hooks, s \in Seqs : ledger[h][s] /= NULL => s <= Tail(journal)

\* A recorded outcome is about the event now at the position: it was fired, given
\* up by design, or abandoned because it could not be read again.
RowsEarned ==
    \A h \in Hooks, s \in Seqs :
        journal[s] /= NULL /\ ledger[h][s] /= NULL /\ ~Claimed(ledger[h][s])
            => <<h, journal[s]>> \in settled \cup dropped

\* What a pass is doing agrees with its mode; it knows only events that were
\* written, and it records what it fired or closed.
Orderly(t) ==
    /\ pass[t].pc \in {"recover", "journal"} => pass[t].mode = "recover"
    /\ pass[t].pc = "scan" => pass[t].mode = "scan"
    /\ \A p \in pass[t].page : p.event <= written
    /\ Working(t) => pass[t].claim.event <= written
    /\ pass[t].pc = "record" => <<pass[t].claim.hook, pass[t].claim.event>> \in settled

\* A pair of the page that still stands is queued, dealt with or claimed.
Owed(t) ==
    pass[t].mode = "scan" =>
        \A p \in pass[t].page, h \in pass[t].cfg :
            <<h, p.event>> \in Matches /\ At(p.seq, p.event) =>
                \/ [hook |-> h, seq |-> p.seq, event |-> p.event] \in pass[t].queue
                \/ <<h, p.event>> \in settled \cup dropped
                \/ Claimed(ledger[h][p.seq])

\* Below an entry of the page that still stands, the page has every event.
PageWhole(t) ==
    pass[t].mode = "scan" =>
        \A p \in pass[t].page : At(p.seq, p.event) =>
            \A s \in Seqs : pass[t].seen < s /\ s < p.seq /\ journal[s] /= NULL =>
                \E q \in pass[t].page : q.seq = s

\* A claim younger than the lease is the one in the ledger, or the pair is
\* closed; in either case nobody can claim it.  The event has not moved.
LeaseHeld(t) ==
    Working(t) =>
        LET c == pass[t].claim IN
        /\ \A s \in Seqs : journal[s] = c.event => s = c.seq
        /\ c.age <= Lease /\ At(c.seq, c.event) =>
              \/ Claimed(ledger[c.hook][c.seq]) /\ ledger[c.hook][c.seq].age = c.age
              \/ Closed(c.hook, c.seq)

HookInv ==
    /\ IndInv /\ IdsOnce /\ WithinTail /\ RowsEarned
    /\ \A t \in Triggers : Orderly(t) /\ Owed(t) /\ PageWhole(t) /\ LeaseHeld(t)
    /\ NothingSkipped /\ OneFiringPerLease

LEMMA InitHook == Init => HookInv
<1> SUFFICES ASSUME Init PROVE HookInv
  OBVIOUS
<1>1. IndInv
  BY InitInd
<1>2. /\ \A s \in Seqs : journal[s] = NULL
      /\ \A h \in Hooks, s \in Seqs : ledger[h][s] = NULL
      /\ \A t \in Triggers : pass[t].pc = "idle" /\ pass[t].mode = "idle" /\ pass[t].page = {}
                             /\ pass[t].claim = NoClaim
      /\ floor = 0
  BY DEF Init, Idle
<1>3. IdsOnce /\ RowsEarned /\ NothingSkipped
  BY <1>2 DEF IdsOnce, RowsEarned, NothingSkipped, Passed
<1>4. WithinTail
  BY <1>2, TailType DEF WithinTail
<1>5. OneFiringPerLease /\ \A t \in Triggers : Orderly(t) /\ Owed(t) /\ PageWhole(t) /\ LeaseHeld(t)
  BY <1>2 DEF OneFiringPerLease, Working, Orderly, Owed, PageWhole, LeaseHeld
<1> QED
  BY <1>1, <1>3, <1>4, <1>5 DEF HookInv

\* The floor is raised to the target at most.
LEMMA FloorTowardsTarget ==
    ASSUME HookTypeOK, NEW target \in 0 .. MaxSeq
    PROVE  FloorTowards(target) = floor \/ FloorTowards(target) <= target
<1> DEFINE open == {s \in Seqs : \E h \in Hooks : Claimed(ledger[h][s])}
           low == IF open = {} THEN target ELSE Min({target, Min(open) - 1})
<1>1. floor \in 0 .. MaxSeq /\ MaxSeq \in Nat
  BY HookBoundsAssumption DEF HookTypeOK
<1>2. open \in SUBSET Nat
  BY DEF Seqs
<1>3. ASSUME open /= {}
      PROVE  low \in 0 .. MaxSeq /\ low <= target
  <2>1. Min(open) \in open
    BY <1>2, <1>3, MinOfPositions
  <2>2. Min(open) \in 1 .. MaxSeq
    BY <2>1 DEF Seqs
  <2>3. Min(open) - 1 \in 0 .. MaxSeq
    BY <1>1, <2>2
  <2>4. Min({target, Min(open) - 1}) \in 0 .. MaxSeq /\ Min({target, Min(open) - 1}) <= target
    BY <2>3, PairMin
  <2> QED
    BY <1>3, <2>4
<1>4. low \in 0 .. MaxSeq /\ low <= target
  BY <1>1, <1>3
<1> HIDE DEF low
<1>5. {floor, low} \in SUBSET (0 .. MaxSeq) /\ {floor, low} /= {}
  BY <1>1, <1>4
<1>6. Max({floor, low}) \in {floor, low}
  BY <1>1, <1>5, MaxOfPositions
<1>7. FloorTowards(target) = Max({floor, low})
  BY DEF FloorTowards, low
<1> QED
  BY <1>4, <1>6, <1>7

\* matchingHookJournalPrefix ends at an entry of the page, and the journal still
\* holds all of the page up to it.
LEMMA MatchingPrefixFacts ==
    ASSUME NEW page \in SUBSET Entry, MatchingPrefix(page) > 0
    PROVE  \E p \in page : /\ p.seq = MatchingPrefix(page)
                           /\ \A q \in page : q.seq <= p.seq => At(q.seq, q.event)
<1> DEFINE good == {p \in page : \A q \in page : q.seq <= p.seq => At(q.seq, q.event)}
           S == {0} \cup {p.seq : p \in good}
<1>1. S \in SUBSET (0 .. MaxSeq) /\ S /= {} /\ MaxSeq \in Nat
  BY HookBoundsAssumption DEF Entry, Seqs
<1>2. Max(S) \in S
  BY <1>1, MaxOfPositions
<1>3. MatchingPrefix(page) = Max(S)
  BY DEF MatchingPrefix
<1>4. PICK m : m = Max(S)
  OBVIOUS
<1>5. m \in S /\ m > 0 /\ ~(0 > 0)
  BY <1>2, <1>3, <1>4
<1>6. PICK p \in good : p.seq = m
  BY <1>5
<1> QED
  BY <1>3, <1>4, <1>6

\* ReadJournalSince leaves out no event between the position and one it returns.
LEMMA PageHasAllBelow ==
    ASSUME NEW f \in 0 .. MaxSeq, NEW s \in Page(f), NEW r \in Seqs,
           f < r, r < s, journal[r] /= NULL
    PROVE  r \in Page(f)
<1> DEFINE UpTo(x) == {q \in Seqs : f < q /\ q <= x /\ journal[q] /= NULL}
<1>1. MaxSeq \in Nat /\ s \in Seqs /\ Cardinality(UpTo(s)) <= PageSize /\ PageSize \in Nat
  BY HookBoundsAssumption DEF Page
<1>2. IsFiniteSet(Seqs)
  BY <1>1, FS_Interval DEF Seqs
<1>3. UpTo(r) \subseteq UpTo(s) /\ UpTo(s) \subseteq Seqs
  BY <1>1 DEF Seqs
<1>4. IsFiniteSet(UpTo(s)) /\ IsFiniteSet(UpTo(r))
  BY <1>2, <1>3, FS_Subset
<1>5. /\ Cardinality(UpTo(r)) <= Cardinality(UpTo(s))
      /\ Cardinality(UpTo(r)) \in Nat /\ Cardinality(UpTo(s)) \in Nat
  BY <1>3, <1>4, FS_Subset, FS_CardinalityType
<1>6. Cardinality(UpTo(r)) <= PageSize
  BY <1>1, <1>5
<1> QED
  BY <1>6 DEF Page

-----------------------------------------------------------------------------
(* What a step of anybody does to the journal, the ledger and the history. *)

\* Events are removed, or one is added at the end; what is dealt with stays so;
\* an open claim stays open or its pair is settled.
Onward ==
    /\ settled \subseteq settled' /\ dropped \subseteq dropped' /\ written' >= written
    /\ \A s \in Seqs :
          \/ journal'[s] = journal[s] \/ journal'[s] = NULL
          \/ journal'[s] = written + 1 /\ written' = written + 1 /\ s = Tail(journal) + 1
    /\ \A h \in Hooks, s \in Seqs :
          /\ Claimed(ledger[h][s]) /\ journal[s] /= NULL /\ journal'[s] = journal[s]
                => Claimed(ledger'[h][s]) \/ <<h, journal[s]>> \in settled' \cup dropped'
          /\ ledger'[h][s] /= NULL /\ ~Claimed(ledger'[h][s])
                => \/ ledger'[h][s] = ledger[h][s]
                   \/ journal'[s] = journal[s] /\ <<h, journal[s]>> \in settled' \cup dropped'
    /\ WithinTail'

\* A claim within its lease keeps its row, or the pair is closed.
LeaseKept ==
    \A h \in Hooks, s \in Seqs :
        Claimed(ledger[h][s]) /\ ledger[h][s].age <= Lease /\ journal[s] /= NULL
        /\ journal'[s] = journal[s]
            => ledger'[h][s] = ledger[h][s] \/ Closed(h, s)'

\* Steps that touch only a pass and the history.
LEMMA PassOnlyOnward ==
    ASSUME HookInv, UNCHANGED <<journal, written, ledger, floor>>,
           settled \subseteq settled', dropped \subseteq dropped'
    PROVE  Onward /\ LeaseKept
<1>1. WithinTail'
  BY DEF HookInv, WithinTail
<1>2. written \in Nat
  BY DEF HookInv, IndInv, HookTypeOK
<1> QED
  BY <1>1, <1>2 DEF Onward, LeaseKept

\* A claim, an outcome or the removal of a claim without event changes one row.
LEMMA OneRowOnward ==
    ASSUME HookInv, UNCHANGED <<journal, written, floor>>,
           settled \subseteq settled', dropped \subseteq dropped',
           NEW g \in Hooks, NEW r \in Seqs, NEW row \in Row \cup {NULL},
           ledger' = [ledger EXCEPT ![g][r] = row],
           row /= NULL => journal[r] /= NULL,
           Claimed(row) \/ journal[r] = NULL \/ (row /= NULL /\ <<g, journal[r]>> \in settled' \cup dropped'),
           row /= NULL /\ ~Claimed(row) => <<g, journal[r]>> \in settled' \cup dropped'
    PROVE  Onward
<1>t. written \in Nat /\ ledger \in [Hooks -> [Seqs -> Row \cup {NULL}]]
  BY DEF HookInv, IndInv, HookTypeOK
<1>1. /\ ledger'[g][r] = row
      /\ \A h \in Hooks, s \in Seqs : <<h, s>> /= <<g, r>> => ledger'[h][s] = ledger[h][s]
  BY <1>t
<1>2. WithinTail'
  <2> SUFFICES ASSUME NEW h \in Hooks, NEW s \in Seqs, ledger'[h][s] /= NULL
               PROVE  s <= Tail(journal)
    BY DEF HookInv, WithinTail
  <2>1. CASE <<h, s>> = <<g, r>>
    BY <1>1, <2>1, TailType
  <2>2. CASE <<h, s>> /= <<g, r>>
    BY <1>1, <2>2 DEF HookInv, WithinTail
  <2> QED
    BY <2>1, <2>2
<1>3. ASSUME NEW h \in Hooks, NEW s \in Seqs
      PROVE  /\ Claimed(ledger[h][s]) /\ journal[s] /= NULL
                  => Claimed(ledger'[h][s]) \/ <<h, journal[s]>> \in settled' \cup dropped'
             /\ ledger'[h][s] /= NULL /\ ~Claimed(ledger'[h][s])
                  => ledger'[h][s] = ledger[h][s] \/ <<h, journal[s]>> \in settled' \cup dropped'
  <2>1. CASE <<h, s>> = <<g, r>>
    BY <1>1, <2>1
  <2>2. CASE <<h, s>> /= <<g, r>>
    <3>1. ledger'[h][s] = ledger[h][s]
      BY <1>1, <2>2
    <3> QED
      BY <3>1 DEF Claimed
  <2> QED
    BY <2>1, <2>2
<1> QED
  BY <1>t, <1>2, <1>3 DEF Onward

LEMMA ClaimOnward ==
    ASSUME HookInv, NEW t \in Triggers, ClaimHookDispatchEvent(t)
    PROVE  Onward /\ LeaseKept
<1>1. PICK c \in pass[t].queue :
        /\ IF At(c.seq, c.event) /\ (Expired(ledger[c.hook][c.seq]) \/ CanClaim(c.hook, c.seq))
           THEN ledger' = [ledger EXCEPT ![c.hook][c.seq] = Fresh]
           ELSE UNCHANGED ledger
        /\ c.event /= NULL
        /\ UNCHANGED <<environment, floor, settled, dropped>>
  BY DEF ClaimHookDispatchEvent
<1>2. c.hook \in Hooks /\ c.seq \in Seqs
  BY DEF HookInv, IndInv, PassesOK, PassOK, Passes, Wanted
<1>3. UNCHANGED <<journal, written, floor, settled, dropped>>
  BY <1>1 DEF environment
<1>4. CASE UNCHANGED ledger
  BY <1>3, <1>4, PassOnlyOnward
<1>5. CASE ledger' /= ledger
  <2>1. /\ ledger' = [ledger EXCEPT ![c.hook][c.seq] = Fresh]
        /\ journal[c.seq] /= NULL
        /\ Expired(ledger[c.hook][c.seq]) \/ CanClaim(c.hook, c.seq)
    BY <1>1, <1>5 DEF At
  <2>2. Fresh \in Row \cup {NULL} /\ Fresh /= NULL /\ Claimed(Fresh)
    <3>1. Fresh \in Row
      BY HookBoundsAssumption DEF Fresh, Row, Ages
    <3> QED
      BY <3>1, HooksAssumption DEF Claimed, Fresh
  <2>3. Onward
    BY <1>2, <1>3, <2>1, <2>2, OneRowOnward
  <2>4. LeaseKept
    <3>1. ledger \in [Hooks -> [Seqs -> Row \cup {NULL}]]
      BY DEF HookInv, IndInv, HookTypeOK
    <3> SUFFICES ASSUME NEW h \in Hooks, NEW s \in Seqs,
                        Claimed(ledger[h][s]), ledger[h][s].age <= Lease
                 PROVE  ledger'[h][s] = ledger[h][s]
      BY DEF LeaseKept
    <3>2. ledger[h][s] \in Row
      BY <3>1 DEF Claimed
    <3>3. ledger[h][s].age \in Nat /\ Lease \in Nat
      BY <3>2, HookBoundsAssumption DEF Row, Ages
    <3>4. <<h, s>> /= <<c.hook, c.seq>>
      BY <2>1, <3>3 DEF Expired, CanClaim, Claimed
    <3> QED
      BY <1>2, <2>1, <3>1, <3>4
  <2> QED
    BY <2>3, <2>4
<1> QED
  BY <1>4, <1>5

LEMMA DiscardMissingOnward ==
    ASSUME HookInv, NEW t \in Triggers, DiscardMissingClaim(t)
    PROVE  Onward /\ LeaseKept
<1>1. PICK c \in pass[t].queue :
        /\ ledger' = IF Expired(ledger[c.hook][c.seq]) /\ At(c.seq, NULL)
                     THEN [ledger EXCEPT ![c.hook][c.seq] = NULL]
                     ELSE ledger
        /\ UNCHANGED <<environment, floor, settled, dropped>>
  BY DEF DiscardMissingClaim
<1>2. c.hook \in Hooks /\ c.seq \in Seqs
  BY DEF HookInv, IndInv, PassesOK, PassOK, Passes, Wanted
<1>3. UNCHANGED <<journal, written, floor, settled, dropped>>
  BY <1>1 DEF environment
<1>4. CASE UNCHANGED ledger
  BY <1>3, <1>4, PassOnlyOnward
<1>5. CASE ledger' /= ledger
  <2>1. ledger' = [ledger EXCEPT ![c.hook][c.seq] = NULL] /\ journal[c.seq] = NULL
    BY <1>1, <1>5 DEF At
  <2>2. Onward
    BY <1>2, <1>3, <2>1, OneRowOnward
  <2>3. ledger \in [Hooks -> [Seqs -> Row \cup {NULL}]]
    BY DEF HookInv, IndInv, HookTypeOK
  <2>4. \A h \in Hooks, s \in Seqs : journal[s] /= NULL => ledger'[h][s] = ledger[h][s]
    BY <1>2, <2>1, <2>3
  <2> QED
    BY <2>2, <2>4 DEF LeaseKept
<1> QED
  BY <1>4, <1>5

LEMMA RecordOnward ==
    ASSUME HookInv, NEW t \in Triggers, RecordOutcome(t)
    PROVE  Onward /\ LeaseKept
<1> DEFINE c == pass[t].claim
<1>1. /\ pass[t].pc \in {"record", "abandon"}
      /\ ledger' = IF At(c.seq, c.event) /\ ledger[c.hook][c.seq] /= NULL
                   THEN [ledger EXCEPT ![c.hook][c.seq] = Terminal]
                   ELSE ledger
      /\ UNCHANGED <<journal, written, floor, settled>> /\ dropped \subseteq dropped'
  BY DEF RecordOutcome, Recording, environment
<1>2. c.hook \in Hooks /\ c.seq \in Seqs /\ c.event \in Events
  BY <1>1 DEF HookInv, IndInv, PassesOK, PassOK, Claims
<1>3. ledger' /= ledger => <<c.hook, c.event>> \in settled' \cup dropped'
  <2>1. CASE pass[t].pc = "record"
    BY <1>1, <2>1 DEF HookInv, Orderly
  <2>2. CASE pass[t].pc = "abandon"
    BY <2>2 DEF RecordOutcome
  <2> QED
    BY <1>1, <2>1, <2>2
<1> HIDE DEF c
<1>4. CASE UNCHANGED ledger
  BY <1>1, <1>4, PassOnlyOnward
<1>5. CASE ledger' /= ledger
  <2>1. ledger' = [ledger EXCEPT ![c.hook][c.seq] = Terminal] /\ journal[c.seq] = c.event
    BY <1>1, <1>5 DEF At
  <2>2. Terminal \in Row \cup {NULL} /\ Terminal /= NULL /\ ~Claimed(Terminal)
    BY RowTypes DEF Claimed, Terminal
  <2>3. journal[c.seq] /= NULL
    BY <1>2, <2>1, HooksAssumption
  <2>4. Onward
    BY <1>1, <1>2, <1>3, <1>5, <2>1, <2>2, <2>3, OneRowOnward
  <2>5. ledger \in [Hooks -> [Seqs -> Row \cup {NULL}]]
    BY DEF HookInv, IndInv, HookTypeOK
  <2>6. LeaseKept
    <3> SUFFICES ASSUME NEW h \in Hooks, NEW s \in Seqs, journal[s] /= NULL
                 PROVE  ledger'[h][s] = ledger[h][s] \/ Closed(h, s)'
      BY DEF LeaseKept
    <3>1. CASE <<h, s>> = <<c.hook, c.seq>>
      <4>1. ledger'[h][s] = Terminal
        BY <1>2, <2>1, <2>5, <3>1
      <4> QED
        BY <1>1, <2>2, <4>1 DEF Closed, Claimed
    <3>2. CASE <<h, s>> /= <<c.hook, c.seq>>
      BY <1>2, <2>1, <2>5, <3>2
    <3> QED
      BY <3>1, <3>2
  <2> QED
    BY <2>4, <2>6
<1> QED
  BY <1>4, <1>5

\* The other steps of a pass.
LEMMA OtherPassOnward ==
    ASSUME HookInv, NEW t \in Triggers,
           \/ BeginPass(t) \/ RereadEvent(t) \/ Fire(t) \/ ReadFloor(t) \/ ReadJournal(t)
           \/ Fault(t) \/ AdvanceFloor(t) \/ Prune(t)
    PROVE  Onward /\ LeaseKept
<1>t. /\ HookTypeOK /\ WithinTail /\ OpenClaimsAboveFloor
      /\ written \in Nat /\ floor \in 0 .. MaxSeq
  BY DEF HookInv, IndInv, HookTypeOK
<1>1. CASE \/ BeginPass(t) \/ RereadEvent(t) \/ Fire(t) \/ ReadFloor(t) \/ ReadJournal(t)
           \/ Fault(t)
  <2>1. /\ UNCHANGED <<journal, written, ledger, floor>>
        /\ settled \subseteq settled' /\ dropped \subseteq dropped'
    BY <1>1 DEF BeginPass, RereadEvent, Fire, ReadFloor, ReadJournal, Fault, ListingFails,
                ClaimFails, RereadFails, RecordFails, AdvanceFails, Crash, environment
  <2> QED
    BY <2>1, PassOnlyOnward
<1>2. CASE AdvanceFloor(t)
  <2>1. /\ UNCHANGED <<journal, written, ledger, dropped>> /\ settled \subseteq settled'
        /\ \/ floor' = floor
           \/ /\ MatchingPrefix(pass[t].page) > 0
              /\ floor' = FloorTowards(MatchingPrefix(pass[t].page))
    BY <1>2 DEF AdvanceFloor, environment
  <2>2. WithinTail'
    <3>1. CASE floor' = floor
      BY <1>t, <2>1, <3>1 DEF WithinTail
    <3>2. CASE floor' /= floor
      <4>1. pass[t].page \in SUBSET Entry
        BY <1>t DEF HookTypeOK, Passes
      <4>2. PICK m : m = MatchingPrefix(pass[t].page)
        OBVIOUS
      <4>3. m \in 0 .. MaxSeq /\ m > 0 /\ floor' = FloorTowards(m)
        BY <2>1, <3>2, <4>1, <4>2, MatchingPrefixType
      <4>4. PICK p \in pass[t].page : p.seq = m /\ (p.seq <= p.seq => At(p.seq, p.event))
        BY <4>1, <4>2, <4>3, MatchingPrefixFacts
      <4>5. p.seq \in Seqs /\ journal[p.seq] /= NULL
        BY <4>1, <4>3, <4>4, HooksAssumption DEF At, Entry
      <4>6. m <= Tail(journal) /\ Tail(journal) \in 0 .. MaxSeq
        BY <4>4, <4>5, TailType
      <4>7. floor' <= m /\ floor' \in 0 .. MaxSeq
        BY <1>t, <3>2, <4>3, FloorTowardsTarget, FloorTowardsFacts
      <4>8. floor' <= Tail(journal)
        BY <4>3, <4>6, <4>7
      <4> QED
        BY <1>t, <2>1, <4>8 DEF WithinTail
    <3> QED
      BY <3>1, <3>2
  <2> QED
    BY <1>t, <2>1, <2>2 DEF Onward, LeaseKept
<1>3. CASE Prune(t)
  <2>1. /\ UNCHANGED <<journal, written, floor, settled, dropped>>
        /\ ledger' = [h \in Hooks |-> [s \in Seqs |->
                         IF ~Claimed(ledger[h][s]) /\ s <= floor THEN NULL ELSE ledger[h][s]]]
    BY <1>3 DEF Prune, environment
  <2>2. \A h \in Hooks, s \in Seqs :
          /\ ledger'[h][s] = ledger[h][s] \/ ledger'[h][s] = NULL
          /\ Claimed(ledger[h][s]) => ledger'[h][s] = ledger[h][s]
    BY <2>1
  <2>3. WithinTail'
    BY <1>t, <2>1, <2>2 DEF WithinTail
  <2> HIDE <2>1
  <2>4. UNCHANGED <<journal, written, floor, settled, dropped>>
    BY <2>1
  <2> QED
    BY <1>t, <2>2, <2>3, <2>4 DEF Onward, LeaseKept
<1> QED
  BY <1>1, <1>2, <1>3

\* The steps of the rest of the host.
LEMMA HostOnward ==
    ASSUME HookInv,
           \/ Write \/ BeginPull \/ EndFirstPull \/ FirstPullSetsNoFloor \/ Replace \/ DiscardLocal
    PROVE  Onward /\ LeaseKept
<1>t. /\ HookTypeOK /\ WithinTail /\ OpenClaimsAboveFloor
      /\ written \in Nat /\ floor \in 0 .. MaxSeq /\ MaxSeq \in Nat
  BY HookBoundsAssumption DEF HookInv, IndInv, HookTypeOK
<1>1. CASE BeginPull \/ FirstPullSetsNoFloor
  <2>1. UNCHANGED <<journal, written, ledger, floor, settled, dropped>>
    BY <1>1 DEF BeginPull, FirstPullSetsNoFloor
  <2> QED
    BY <2>1, PassOnlyOnward
<1>2. CASE EndFirstPull
  <2>1. /\ UNCHANGED <<journal, written, ledger, dropped>> /\ settled \subseteq settled'
        /\ floor' = FloorTowards(Tail(journal))
    BY <1>2 DEF EndFirstPull
  <2>2. PICK m : m = Tail(journal)
    OBVIOUS
  <2>3. m \in 0 .. MaxSeq /\ floor' = FloorTowards(m)
    BY <2>1, <2>2, TailType
  <2>4. floor' = floor \/ floor' <= m
    BY <1>t, <2>3, FloorTowardsTarget
  <2>5. WithinTail'
    BY <1>t, <2>1, <2>2, <2>4 DEF WithinTail
  <2> QED
    BY <1>t, <2>1, <2>5 DEF Onward, LeaseKept
<1>3. CASE Write
  <2>1. PICK u \in Seqs : u = Tail(journal) + 1
    BY <1>3, <1>t, TailType DEF Write, Seqs
  <2>2. /\ UNCHANGED <<ledger, floor, settled, dropped>> /\ written' = written + 1
        /\ journal' = [journal EXCEPT ![u] = written + 1]
    BY <1>3, <2>1 DEF Write
  <2>3. /\ journal'[u] = written + 1 /\ \A s \in Seqs : s /= u => journal'[s] = journal[s]
    BY <1>t, <2>2 DEF HookTypeOK
  <2>4. written + 1 /= NULL
    <3>1. written + 1 \in Events
      BY <1>3, <1>t, HookBoundsAssumption DEF Write, Events
    <3> QED
      BY <3>1, HooksAssumption
  <2>5. WithinTail'
    <3>1. PICK m : m = Tail(journal)
      OBVIOUS
    <3>2. PICK n : n = Tail(journal')
      OBVIOUS
    <3>3. m \in 0 .. MaxSeq /\ n \in 0 .. MaxSeq /\ u <= n /\ u = m + 1
      BY <2>1, <2>3, <2>4, <3>1, <3>2, TailType
    <3>4. floor <= n /\ \A s \in Seqs : s <= m => s <= n
      BY <1>t, <3>1, <3>3 DEF WithinTail, Seqs
    <3> QED
      BY <1>t, <2>2, <3>1, <3>2, <3>4 DEF WithinTail
  <2> QED
    BY <1>t, <2>1, <2>2, <2>3, <2>5 DEF Onward, LeaseKept
<1>4. CASE Replace
  <2>1. PICK gone \in SUBSET Held :
          /\ journal' = [s \in Seqs |-> IF journal[s] \in gone THEN NULL ELSE journal[s]]
          /\ ledger' = [h \in Hooks |-> [s \in Seqs |->
                           IF s > Tail(journal') THEN NULL ELSE ledger[h][s]]]
          /\ floor' = Min({floor, Tail(journal')})
    BY <1>4 DEF Replace
  <2>2. UNCHANGED <<written, settled, dropped>>
    BY <1>4 DEF Replace
  <2>3. PICK m : m = Tail(journal')
    OBVIOUS
  <2>4. m \in 0 .. MaxSeq /\ \A s \in Seqs : journal'[s] /= NULL => s <= m
    BY <2>3, TailType
  <2>5. \A s \in Seqs : journal'[s] = journal[s] \/ journal'[s] = NULL
    BY <2>1
  <2>6. \A h \in Hooks, s \in Seqs : ledger'[h][s] = IF s > m THEN NULL ELSE ledger[h][s]
    BY <2>1, <2>3
  <2>7. floor' = Min({floor, m})
    BY <2>1, <2>3
  <2> HIDE <2>1
  <2>8. floor' <= m
    BY <1>t, <2>4, <2>7, PairMin
  <2>9. WithinTail'
    <3>1. \A h \in Hooks, s \in Seqs : ledger'[h][s] /= NULL => s <= m
      BY <2>4, <2>6 DEF Seqs
    <3> QED
      BY <2>3, <2>8, <3>1 DEF WithinTail
  <2>10. \A h \in Hooks, s \in Seqs :
           /\ ledger'[h][s] /= NULL => ledger'[h][s] = ledger[h][s]
           /\ journal[s] /= NULL /\ journal'[s] = journal[s] => ledger'[h][s] = ledger[h][s]
    BY <2>4, <2>6 DEF Seqs
  <2> QED
    BY <1>t, <2>2, <2>5, <2>9, <2>10 DEF Onward, LeaseKept
<1>5. CASE DiscardLocal
  <2>1. /\ UNCHANGED <<written, settled, dropped>> /\ floor' = 0
        /\ \A s \in Seqs : journal'[s] = NULL
        /\ \A h \in Hooks, s \in Seqs : ledger'[h][s] = NULL
    BY <1>5 DEF DiscardLocal
  <2>2. 0 <= Tail(journal')
    BY <1>t, TailType
  <2>3. WithinTail'
    BY <2>1, <2>2 DEF WithinTail
  <2> QED
    BY <1>t, <2>1, <2>3 DEF Onward, LeaseKept
<1> QED
  BY <1>1, <1>2, <1>3, <1>4, <1>5

\* A tick makes open claims older and changes no other row.
LEMMA TickOnward ==
    ASSUME HookInv, Tick
    PROVE  /\ Onward
           /\ \A h \in Hooks, s \in Seqs :
                 IF Claimed(ledger[h][s])
                 THEN Claimed(ledger'[h][s]) /\ ledger'[h][s].age = Older(ledger[h][s].age)
                 ELSE ledger'[h][s] = ledger[h][s]
<1>t. /\ HookTypeOK /\ WithinTail /\ written \in Nat
      /\ ledger \in [Hooks -> [Seqs -> Row \cup {NULL}]]
  BY DEF HookInv, IndInv, HookTypeOK
<1>1. /\ UNCHANGED <<journal, written, floor, settled, dropped>>
      /\ ledger' = [h \in Hooks |-> [s \in Seqs |->
                       IF Claimed(ledger[h][s]) THEN [ledger[h][s] EXCEPT !.age = Older(@)]
                       ELSE ledger[h][s]]]
  BY DEF Tick, environment
<1>2. ASSUME NEW row \in Row, Claimed(row)
      PROVE  /\ [row EXCEPT !.age = Older(@)] \in Row
             /\ Claimed([row EXCEPT !.age = Older(@)])
             /\ [row EXCEPT !.age = Older(@)].age = Older(row.age)
  <2>1. Older(row.age) \in Ages
    BY HookBoundsAssumption DEF Older, Ages, Row
  <2>2. PICK a \in Ages : a = Older(row.age)
    BY <2>1
  <2>3. [row EXCEPT !.age = Older(@)] = [outcome |-> row.outcome, age |-> a]
    BY <2>2 DEF Row
  <2>4. [outcome |-> row.outcome, age |-> a] \in Row
    BY DEF Row
  <2> QED
    BY <1>2, <2>2, <2>3, <2>4, HooksAssumption DEF Claimed
<1>3. ASSUME NEW h \in Hooks, NEW s \in Seqs
      PROVE  IF Claimed(ledger[h][s])
             THEN Claimed(ledger'[h][s]) /\ ledger'[h][s].age = Older(ledger[h][s].age)
             ELSE ledger'[h][s] = ledger[h][s]
  <2>1. CASE Claimed(ledger[h][s])
    <3>1. ledger[h][s] \in Row
      BY <1>t, <2>1 DEF Claimed
    <3>2. ledger'[h][s] = [ledger[h][s] EXCEPT !.age = Older(@)]
      BY <1>1, <2>1
    <3> QED
      BY <1>2, <2>1, <3>1, <3>2
  <2>2. CASE ~Claimed(ledger[h][s])
    BY <1>1, <2>2
  <2> QED
    BY <2>1, <2>2
<1>4. \A h \in Hooks, s \in Seqs : ledger'[h][s] /= NULL => ledger[h][s] /= NULL
  BY <1>3 DEF Claimed
<1>5. UNCHANGED <<journal, written, floor, settled, dropped>>
  BY <1>1
<1> HIDE <1>1
<1>6. WithinTail'
  BY <1>t, <1>4, <1>5 DEF WithinTail
<1>7. Onward
  BY <1>t, <1>3, <1>5, <1>6 DEF Onward
<1> QED
  BY <1>3, <1>7

-----------------------------------------------------------------------------
(* What such a step leaves true.                                           *)

LEMMA OnwardFacts ==
    ASSUME HookInv, IndInv', Onward
    PROVE  /\ IdsOnce' /\ RowsEarned'
           /\ \A s \in Seqs : journal'[s] /= NULL /\ journal'[s] <= written => journal'[s] = journal[s]
<1>t. /\ written \in Nat /\ written' \in Nat /\ written' >= written
      /\ \A s \in Seqs : journal[s] /= NULL => journal[s] \in Nat /\ journal[s] <= written
  BY DEF HookInv, IndInv, HookTypeOK, IdsOnce, Events, Onward
<1>1. ASSUME NEW s \in Seqs, journal'[s] /= NULL
      PROVE  \/ journal'[s] = journal[s] /\ journal[s] \in Nat /\ journal[s] <= written
             \/ journal'[s] = written + 1 /\ s = Tail(journal) + 1 /\ written' = written + 1
  BY <1>t, <1>1 DEF Onward
<1>2. ~(written + 1 <= written)
  BY <1>t
<1>3. \A s \in Seqs : journal'[s] /= NULL /\ journal'[s] <= written => journal'[s] = journal[s]
  BY <1>1, <1>2
<1>4. IdsOnce'
  <2>1. ASSUME NEW r \in Seqs, NEW s \in Seqs, journal'[r] /= NULL, journal'[r] = journal'[s]
        PROVE  r = s
    <3>1. CASE journal'[r] = written + 1
      BY <1>1, <1>2, <2>1, <3>1
    <3>2. CASE journal'[r] /= written + 1
      <4>1. journal'[r] = journal[r] /\ journal'[s] = journal[s] /\ journal[r] /= NULL
        BY <1>1, <2>1, <3>2
      <4> QED
        BY <2>1, <4>1 DEF HookInv, IdsOnce
    <3> QED
      BY <3>1, <3>2
  <2>2. ASSUME NEW s \in Seqs, journal'[s] /= NULL PROVE journal'[s] <= written'
    <3>1. CASE journal'[s] = written + 1 /\ written' = written + 1
      BY <1>t, <3>1
    <3>2. CASE journal'[s] = journal[s] /\ journal[s] \in Nat /\ journal[s] <= written
      BY <1>t, <3>2
    <3> QED
      BY <1>1, <2>2, <3>1, <3>2
  <2> QED
    BY <2>1, <2>2 DEF IdsOnce
<1>5. RowsEarned'
  <2> SUFFICES ASSUME NEW h \in Hooks, NEW s \in Seqs, journal'[s] /= NULL,
                      ledger'[h][s] /= NULL, ~Claimed(ledger'[h][s])
               PROVE  <<h, journal'[s]>> \in settled' \cup dropped'
    BY DEF RowsEarned, Claimed
  <2>1. CASE ledger'[h][s] = ledger[h][s]
    <3>1. s <= Tail(journal) /\ Tail(journal) \in Int /\ s \in Int
      BY <2>1, TailType DEF HookInv, WithinTail, Seqs
    <3>2. journal'[s] = journal[s]
      BY <1>1, <3>1
    <3>3. <<h, journal[s]>> \in settled \cup dropped
      BY <2>1, <3>2 DEF HookInv, RowsEarned
    <3> QED
      BY <3>2, <3>3 DEF Onward
  <2>2. CASE journal'[s] = journal[s] /\ <<h, journal[s]>> \in settled' \cup dropped'
    BY <2>2
  <2> QED
    BY <2>1, <2>2 DEF Onward
<1> QED
  BY <1>3, <1>4, <1>5

\* A trigger that does not move: only the age of its claim may change.
Same(t) ==
    /\ pass'[t].pc = pass[t].pc /\ pass'[t].mode = pass[t].mode /\ pass'[t].cfg = pass[t].cfg
    /\ pass'[t].queue = pass[t].queue /\ pass'[t].seen = pass[t].seen
    /\ pass'[t].page = pass[t].page
    /\ pass'[t].claim = NoClaim <=> pass[t].claim = NoClaim
    /\ pass'[t].claim.hook = pass[t].claim.hook /\ pass'[t].claim.seq = pass[t].claim.seq
    /\ pass'[t].claim.event = pass[t].claim.event

\* What is owed to the entries of a page survives the steps of the others; the
\* trigger itself may take pairs from its queue that are dealt with.
LEMMA OwedKept ==
    ASSUME HookInv, IndInv', Onward, NEW t \in Triggers,
           pass'[t].mode = pass[t].mode, pass'[t].cfg = pass[t].cfg,
           pass'[t].seen = pass[t].seen, pass'[t].page = pass[t].page,
           pass[t].mode = "scan" =>
               \A c \in pass[t].queue \ pass'[t].queue :
                   \/ c.event = NULL \/ journal[c.seq] /= c.event
                   \/ <<c.hook, c.event>> \notin Matches
                   \/ <<c.hook, c.event>> \in settled' \cup dropped'
                   \/ Claimed(ledger'[c.hook][c.seq])
    PROVE  Owed(t)' /\ PageWhole(t)'
<1>0. /\ pass[t].page \in SUBSET Entry /\ pass[t].cfg \in SUBSET Hooks
      /\ \A p \in pass[t].page : p.seq \in Seqs /\ p.event \in Events /\ p.event /= NULL /\ p.event <= written
  <2>1. pass[t] \in Passes /\ \A p \in pass[t].page : p.event <= written
    BY DEF HookInv, IndInv, HookTypeOK, Orderly
  <2>2. pass[t].page \in SUBSET Entry /\ pass[t].cfg \in SUBSET Hooks
    BY <2>1 DEF Passes
  <2>3. \A p \in pass[t].page : p.seq \in Seqs /\ p.event \in Events
    BY <2>2 DEF Entry
  <2> QED
    BY <2>1, <2>2, <2>3, HooksAssumption
<1>1. \A p \in pass[t].page : journal'[p.seq] = p.event => journal[p.seq] = p.event
  BY <1>0, OnwardFacts
<1>2. Owed(t)'
  <2> SUFFICES ASSUME pass[t].mode = "scan", NEW p \in pass[t].page, NEW h \in pass[t].cfg,
                      <<h, p.event>> \in Matches, journal'[p.seq] = p.event
               PROVE  \/ [hook |-> h, seq |-> p.seq, event |-> p.event] \in pass'[t].queue
                      \/ <<h, p.event>> \in settled' \cup dropped'
                      \/ Claimed(ledger'[h][p.seq])
    BY DEF Owed, At, Claimed
  <2>1. journal[p.seq] = p.event
    BY <1>1
  <2>2. PICK c : c = [hook |-> h, seq |-> p.seq, event |-> p.event]
    OBVIOUS
  <2>3. c.hook = h /\ c.seq = p.seq /\ c.event = p.event
    BY <2>2
  <2>4. c \in pass[t].queue \/ <<h, p.event>> \in settled \cup dropped \/ Claimed(ledger[h][p.seq])
    BY <2>1, <2>2 DEF HookInv, Owed, At
  <2>5. CASE c \in pass[t].queue
    BY <1>0, <2>1, <2>2, <2>3, <2>5
  <2>6. CASE <<h, p.event>> \in settled \cup dropped
    BY <2>6 DEF Onward
  <2>7. CASE Claimed(ledger[h][p.seq])
    BY <1>0, <2>1, <2>7 DEF Onward
  <2> QED
    BY <2>4, <2>5, <2>6, <2>7
<1>3. PageWhole(t)'
  <2> SUFFICES ASSUME pass[t].mode = "scan", NEW p \in pass[t].page, journal'[p.seq] = p.event,
                      NEW s \in Seqs, pass[t].seen < s, s < p.seq, journal'[s] /= NULL
               PROVE  \E q \in pass[t].page : q.seq = s
    BY DEF PageWhole, At
  <2>1. journal[p.seq] = p.event
    BY <1>1
  <2>2. PICK m : m = Tail(journal)
    OBVIOUS
  <2>3. m \in 0 .. MaxSeq /\ p.seq <= m
    BY <1>0, <2>1, <2>2, TailType
  <2>4. s /= m + 1
    BY <1>0, <2>3 DEF Seqs
  <2>5. journal[s] /= NULL
    BY <2>2, <2>4 DEF Onward
  <2> QED
    BY <2>1, <2>5 DEF HookInv, PageWhole, At
<1> QED
  BY <1>2, <1>3

LEMMA SameKept ==
    ASSUME HookInv, IndInv', Onward, NEW t \in Triggers, Same(t)
    PROVE  Orderly(t)' /\ Owed(t)' /\ PageWhole(t)'
<1>1. Owed(t)' /\ PageWhole(t)'
  BY OwedKept DEF Same
<1>2. Orderly(t)
  BY DEF HookInv
<1>3. /\ written \in Nat /\ written' \in Nat /\ written' >= written
      /\ \A p \in pass[t].page : p.event \in Nat
      /\ Working(t) => pass[t].claim.event \in Nat
  BY HookBoundsAssumption
     DEF HookInv, IndInv, HookTypeOK, Passes, Entry, Events, Onward, Working, Claims
<1>4. /\ \A p \in pass[t].page : p.event <= written'
      /\ Working(t) => pass[t].claim.event <= written'
  BY <1>2, <1>3 DEF Orderly
<1>5. Orderly(t)'
  <2>1. /\ pass'[t].pc \in {"recover", "journal"} => pass'[t].mode = "recover"
        /\ pass'[t].pc = "scan" => pass'[t].mode = "scan"
    BY <1>2 DEF Orderly, Same
  <2>2. \A p \in pass'[t].page : p.event <= written'
    BY <1>4 DEF Same
  <2>3. pass'[t].claim /= NoClaim => pass'[t].claim.event <= written'
    BY <1>4 DEF Same, Working
  <2>4. pass'[t].pc = "record" => <<pass'[t].claim.hook, pass'[t].claim.event>> \in settled'
    BY <1>2 DEF Orderly, Same, Onward
  <2> QED
    BY <2>1, <2>2, <2>3, <2>4 DEF Orderly, Working
<1> QED
  BY <1>1, <1>5

\* The floor that stays or falls back leaves nothing behind.
LEMMA FloorStays ==
    ASSUME HookInv, IndInv', Onward, floor' <= floor
    PROVE  NothingSkipped'
<1> SUFFICES ASSUME NEW h \in Hooks, NEW s \in Seqs, s <= floor', journal'[s] /= NULL,
                    <<h, journal'[s]>> \in Matches
             PROVE  <<h, journal'[s]>> \in settled' \cup dropped'
  BY DEF NothingSkipped, Passed
<1>1. PICK m : m = Tail(journal)
  OBVIOUS
<1>2. m \in 0 .. MaxSeq /\ floor \in 0 .. MaxSeq /\ floor' \in 0 .. MaxSeq /\ floor <= m
  BY <1>1, TailType DEF HookInv, IndInv, HookTypeOK, WithinTail
<1>3. s <= floor /\ s /= m + 1
  BY <1>2 DEF Seqs
<1>4. journal'[s] = journal[s]
  BY <1>1, <1>3 DEF Onward
<1>5. <<h, journal[s]>> \in settled \cup dropped
  BY <1>3, <1>4 DEF HookInv, NothingSkipped, Passed
<1> QED
  BY <1>4, <1>5 DEF Onward

\* A claim that is kept stays protected while its lease runs.
LEMMA LeaseStays ==
    ASSUME HookInv, IndInv', Onward, LeaseKept, StaysClosed, NEW t \in Triggers,
           pass'[t].claim = pass[t].claim
    PROVE  LeaseHeld(t)'
<1> SUFFICES ASSUME Working(t) PROVE LeaseHeld(t)'
  BY DEF LeaseHeld, Working
<1>1. PICK c : c = pass[t].claim
  OBVIOUS
<1>2. /\ c \in Claims /\ c.event <= written
      /\ \A s \in Seqs : journal[s] = c.event => s = c.seq
      /\ c.age <= Lease /\ journal[c.seq] = c.event =>
            \/ Claimed(ledger[c.hook][c.seq]) /\ ledger[c.hook][c.seq].age = c.age
            \/ Closed(c.hook, c.seq)
  BY <1>1 DEF HookInv, IndInv, HookTypeOK, Passes, Working, Orderly, LeaseHeld, At
<1>3. c.hook \in Hooks /\ c.seq \in Seqs /\ c.event \in Events /\ c.event /= NULL
  BY <1>2, HooksAssumption DEF Claims
<1>4. \A s \in Seqs : journal'[s] = c.event => journal[s] = c.event
  BY <1>2, <1>3, OnwardFacts
<1>5. ASSUME c.age <= Lease, journal'[c.seq] = c.event
      PROVE  \/ Claimed(ledger'[c.hook][c.seq]) /\ ledger'[c.hook][c.seq].age = c.age
             \/ Closed(c.hook, c.seq)'
  <2>1. journal[c.seq] = c.event
    BY <1>3, <1>4, <1>5
  <2>2. CASE Closed(c.hook, c.seq)
    BY <1>3, <1>5, <2>1, <2>2 DEF StaysClosed
  <2>3. CASE Claimed(ledger[c.hook][c.seq]) /\ ledger[c.hook][c.seq].age = c.age
    <3>1. ledger'[c.hook][c.seq] = ledger[c.hook][c.seq] \/ Closed(c.hook, c.seq)'
      BY <1>3, <1>5, <2>1, <2>3 DEF LeaseKept
    <3> QED
      BY <2>3, <3>1 DEF Claimed
  <2> QED
    BY <1>2, <1>5, <2>1, <2>2, <2>3
<1>6. pass'[t].claim = c
  BY <1>1
<1>7. \A s \in Seqs : journal'[s] = c.event => s = c.seq
  BY <1>2, <1>4
<1>8. /\ \A s \in Seqs : journal'[s] = pass'[t].claim.event => s = pass'[t].claim.seq
      /\ pass'[t].claim.age <= Lease /\ journal'[pass'[t].claim.seq] = pass'[t].claim.event =>
            \/ /\ Claimed(ledger'[pass'[t].claim.hook][pass'[t].claim.seq])
               /\ ledger'[pass'[t].claim.hook][pass'[t].claim.seq].age = pass'[t].claim.age
            \/ /\ journal'[pass'[t].claim.seq] /= NULL
               /\ ~Claimed(ledger'[pass'[t].claim.hook][pass'[t].claim.seq])
               /\ \/ ledger'[pass'[t].claim.hook][pass'[t].claim.seq] /= NULL
                  \/ pass'[t].claim.seq <= floor'
  BY <1>5, <1>6, <1>7 DEF Closed, Claimed
<1> QED
  BY <1>8 DEF LeaseHeld, At, Closed, Claimed

\* Giving up claims makes no two triggers work on the same pair.
LEMMA FiringStays ==
    ASSUME HookInv, \A u \in Triggers : pass'[u].claim = pass[u].claim \/ pass'[u].claim = NoClaim
    PROVE  OneFiringPerLease'
  BY DEF HookInv, OneFiringPerLease, Working

\* A step of one trigger.
LEMMA TriggerStep ==
    ASSUME HookInv, IndInv', Onward, LeaseKept, StaysClosed, NEW t \in Triggers,
           \A u \in Triggers \ {t} : pass'[u] = pass[u],
           Orderly(t)', Owed(t)', PageWhole(t)', LeaseHeld(t)',
           OneFiringPerLease', NothingSkipped'
    PROVE  HookInv'
<1>1. ASSUME NEW u \in Triggers \ {t}
      PROVE  Orderly(u)' /\ Owed(u)' /\ PageWhole(u)' /\ LeaseHeld(u)'
  <2>1. pass'[u] = pass[u]
    OBVIOUS
  <2>2. Same(u)
    BY <2>1 DEF Same
  <2> QED
    BY <2>1, <2>2, SameKept, LeaseStays
<1>2. \A u \in Triggers : Orderly(u)' /\ Owed(u)' /\ PageWhole(u)' /\ LeaseHeld(u)'
  BY <1>1
<1>3. IdsOnce' /\ RowsEarned' /\ WithinTail'
  BY OnwardFacts DEF Onward
<1> QED
  BY <1>2, <1>3 DEF HookInv

\* One that wins no claim and does not move the floor.
LEMMA QuietTrigger ==
    ASSUME HookInv, IndInv', Onward, LeaseKept, StaysClosed, NEW t \in Triggers,
           \A u \in Triggers \ {t} : pass'[u] = pass[u],
           pass'[t].claim = pass[t].claim \/ pass'[t].claim = NoClaim,
           Orderly(t)', Owed(t)', PageWhole(t)', NothingSkipped'
    PROVE  HookInv'
<1>1. LeaseHeld(t)'
  <2>1. CASE pass'[t].claim = NoClaim
    BY <2>1 DEF LeaseHeld, Working
  <2> QED
    BY <2>1, LeaseStays
<1>2. OneFiringPerLease'
  BY FiringStays
<1> QED
  BY <1>1, <1>2, TriggerStep

\* A trigger that is not scanning owes nothing.
LEMMA NotScanning ==
    ASSUME NEW t \in Triggers, pass'[t].mode /= "scan"
    PROVE  Owed(t)' /\ PageWhole(t)'
  BY DEF Owed, PageWhole

-----------------------------------------------------------------------------
(* The steps, one by one.                                                  *)

Framed == IndInv' /\ Onward /\ LeaseKept /\ StaysClosed

\* Only t moves, by dropping c from its queue.
LEMMA WithoutFacts ==
    ASSUME HookInv, NEW t \in Triggers, NEW c, pass' = Without(t, c)
    PROVE  /\ \A u \in Triggers \ {t} : pass'[u] = pass[u]
           /\ pass'[t].pc = pass[t].pc /\ pass'[t].mode = pass[t].mode /\ pass'[t].cfg = pass[t].cfg
           /\ pass'[t].queue = pass[t].queue \ {c} /\ pass'[t].seen = pass[t].seen
           /\ pass'[t].page = pass[t].page /\ pass'[t].claim = pass[t].claim
  BY DEF HookInv, IndInv, HookTypeOK, Passes, Without

\* Only t moves, to the pairs that are left.
LEMMA ResumeFacts ==
    ASSUME HookInv, NEW t \in Triggers, pass' = Resume(t)
    PROVE  /\ \A u \in Triggers \ {t} : pass'[u] = pass[u]
           /\ pass'[t].pc = pass[t].mode /\ pass'[t].mode = pass[t].mode /\ pass'[t].cfg = pass[t].cfg
           /\ pass'[t].queue = pass[t].queue /\ pass'[t].seen = pass[t].seen
           /\ pass'[t].page = pass[t].page /\ pass'[t].claim = NoClaim
  BY DEF HookInv, IndInv, HookTypeOK, Passes, Resume

\* Only t moves, to another step.
LEMMA GotoFacts ==
    ASSUME HookInv, NEW t \in Triggers, NEW pc, pass' = [pass EXCEPT ![t].pc = pc]
    PROVE  /\ \A u \in Triggers \ {t} : pass'[u] = pass[u]
           /\ pass'[t].pc = pc /\ pass'[t].mode = pass[t].mode /\ pass'[t].cfg = pass[t].cfg
           /\ pass'[t].queue = pass[t].queue /\ pass'[t].seen = pass[t].seen
           /\ pass'[t].page = pass[t].page /\ pass'[t].claim = pass[t].claim
  BY DEF HookInv, IndInv, HookTypeOK, Passes

\* A pass whose page and claim are what they were, or whose claim is gone,
\* stays orderly if its step agrees with its mode.
LEMMA OrderlyKept ==
    ASSUME HookInv, IndInv', Onward, NEW t \in Triggers,
           pass'[t].page = pass[t].page,
           pass'[t].claim = pass[t].claim \/ pass'[t].claim = NoClaim,
           pass'[t].pc \in {"recover", "journal"} => pass'[t].mode = "recover",
           pass'[t].pc = "scan" => pass'[t].mode = "scan",
           pass'[t].pc = "record" => <<pass'[t].claim.hook, pass'[t].claim.event>> \in settled'
    PROVE  Orderly(t)'
<1>1. Orderly(t)
  BY DEF HookInv
<1>2. /\ written \in Nat /\ written' \in Nat /\ written' >= written
      /\ \A p \in pass[t].page : p.event \in Nat
      /\ Working(t) => pass[t].claim.event \in Nat
  BY HookBoundsAssumption
     DEF HookInv, IndInv, HookTypeOK, Passes, Entry, Events, Onward, Working, Claims
<1>3. /\ \A p \in pass[t].page : p.event <= written'
      /\ Working(t) => pass[t].claim.event <= written'
  BY <1>1, <1>2 DEF Orderly
<1> QED
  BY <1>3 DEF Orderly, Working

\* Taking a pair off the queue.
LEMMA DiscardMissingHook ==
    ASSUME HookInv, Framed, NEW t \in Triggers, DiscardMissingClaim(t)
    PROVE  HookInv'
<1>1. PICK c \in pass[t].queue : c.event = NULL /\ pass' = Without(t, c) /\ UNCHANGED floor
  BY DEF DiscardMissingClaim
<1>2. floor' <= floor
  BY <1>1 DEF HookInv, IndInv, HookTypeOK
<1>3. NothingSkipped'
  BY <1>2, FloorStays DEF Framed
<1>4. /\ \A u \in Triggers \ {t} : pass'[u] = pass[u]
      /\ pass'[t].pc = pass[t].pc /\ pass'[t].mode = pass[t].mode /\ pass'[t].cfg = pass[t].cfg
      /\ pass'[t].queue = pass[t].queue \ {c} /\ pass'[t].seen = pass[t].seen
      /\ pass'[t].page = pass[t].page /\ pass'[t].claim = pass[t].claim
  BY <1>1, WithoutFacts
<1>5. Orderly(t)'
  BY <1>4, OrderlyKept DEF Framed, HookInv, Orderly, Onward
<1>6. Owed(t)' /\ PageWhole(t)'
  BY <1>1, <1>4, OwedKept DEF Framed
<1> QED
  BY <1>3, <1>4, <1>5, <1>6, QuietTrigger DEF Framed

LEMMA ClaimFailsHook ==
    ASSUME HookInv, Framed, NEW t \in Triggers, ClaimFails(t)
    PROVE  HookInv'
<1>1. PICK c \in pass[t].queue :
        /\ pass' = Without(t, c) /\ UNCHANGED <<floor, settled>>
        /\ dropped' = IF pass[t].mode = "scan"
                      THEN dropped \cup ({<<c.hook, c.event>>} \ settled) ELSE dropped
  BY DEF ClaimFails
<1>2. floor' <= floor
  BY <1>1 DEF HookInv, IndInv, HookTypeOK
<1>3. NothingSkipped'
  BY <1>2, FloorStays DEF Framed
<1>4. /\ \A u \in Triggers \ {t} : pass'[u] = pass[u]
      /\ pass'[t].pc = pass[t].pc /\ pass'[t].mode = pass[t].mode /\ pass'[t].cfg = pass[t].cfg
      /\ pass'[t].queue = pass[t].queue \ {c} /\ pass'[t].seen = pass[t].seen
      /\ pass'[t].page = pass[t].page /\ pass'[t].claim = pass[t].claim
  BY <1>1, WithoutFacts
<1>5. Orderly(t)'
  BY <1>4, OrderlyKept DEF Framed, HookInv, Orderly, Onward
<1>6. pass[t].mode = "scan" => <<c.hook, c.event>> \in settled' \cup dropped'
  BY <1>1
<1>7. Owed(t)' /\ PageWhole(t)'
  BY <1>4, <1>6, OwedKept DEF Framed
<1> QED
  BY <1>3, <1>4, <1>5, <1>7, QuietTrigger DEF Framed

\* Firing and recording, or giving up on it.
LEMMA FiringHook ==
    ASSUME HookInv, Framed, NEW t \in Triggers,
           RereadEvent(t) \/ RereadFails(t) \/ Fire(t) \/ RecordOutcome(t) \/ RecordFails(t)
    PROVE  HookInv'
<1>1. /\ UNCHANGED floor
      /\ \/ pass' = Resume(t)
         \/ pass' = [pass EXCEPT ![t].pc = "fire"]
         \/ pass' = [pass EXCEPT ![t].pc = "abandon"]
         \/ /\ pass' = [pass EXCEPT ![t].pc = "record"]
            /\ settled' = settled \cup {<<pass[t].claim.hook, pass[t].claim.event>>}
  BY DEF RereadEvent, RereadFails, Fire, RecordOutcome, RecordFails
<1>2. floor' <= floor
  BY <1>1 DEF HookInv, IndInv, HookTypeOK
<1>3. NothingSkipped'
  BY <1>2, FloorStays DEF Framed
<1>4. pass[t] \in Passes
  BY DEF HookInv, IndInv, HookTypeOK
<1>5. /\ \A u \in Triggers \ {t} : pass'[u] = pass[u]
      /\ pass'[t].mode = pass[t].mode /\ pass'[t].cfg = pass[t].cfg
      /\ pass'[t].queue = pass[t].queue /\ pass'[t].seen = pass[t].seen
      /\ pass'[t].page = pass[t].page
      /\ pass'[t].claim = pass[t].claim \/ pass'[t].claim = NoClaim
      /\ \/ pass'[t].pc = pass[t].mode
         \/ pass'[t].pc \in {"fire", "abandon"}
         \/ /\ pass'[t].pc = "record" /\ pass'[t].claim = pass[t].claim
            /\ <<pass[t].claim.hook, pass[t].claim.event>> \in settled'
  <2>1. CASE pass' = Resume(t)
    BY <2>1, ResumeFacts
  <2>2. CASE pass' = [pass EXCEPT ![t].pc = "fire"]
    BY <2>2, GotoFacts
  <2>3. CASE /\ pass' = [pass EXCEPT ![t].pc = "record"]
             /\ settled' = settled \cup {<<pass[t].claim.hook, pass[t].claim.event>>}
    BY <2>3, GotoFacts
  <2>4. CASE pass' = [pass EXCEPT ![t].pc = "abandon"]
    BY <2>4, GotoFacts
  <2> QED
    BY <1>1, <2>1, <2>2, <2>3, <2>4
<1>6. Orderly(t)'
  <2>1. pass[t].mode \in {"idle", "recover", "scan"}
    BY <1>4 DEF Passes
  <2> QED
    BY <1>5, <2>1, OrderlyKept DEF Framed
<1>7. Owed(t)' /\ PageWhole(t)'
  BY <1>5, OwedKept DEF Framed
<1> QED
  BY <1>3, <1>5, <1>6, <1>7, QuietTrigger DEF Framed

\* A pass that begins, reads the floor, gives up on moving it, prunes or dies
\* owes nothing.
LEMMA OutsideScanHook ==
    ASSUME HookInv, Framed, NEW t \in Triggers,
           \/ BeginPass(t) \/ ListingFails(t) \/ ReadFloor(t) \/ AdvanceFails(t)
           \/ Prune(t) \/ Crash(t)
    PROVE  HookInv'
<1>0. pass \in [Triggers -> Passes] /\ pass[t] \in Passes
  BY DEF HookInv, IndInv, HookTypeOK
<1>1. UNCHANGED floor /\ \A u \in Triggers \ {t} : pass'[u] = pass[u]
  BY <1>0 DEF BeginPass, ListingFails, ReadFloor, AdvanceFails, Prune, Crash
<1>2. floor' <= floor
  BY <1>1 DEF HookInv, IndInv, HookTypeOK
<1>3. NothingSkipped'
  BY <1>2, FloorStays DEF Framed
<1>4. CASE BeginPass(t) \/ ListingFails(t) \/ AdvanceFails(t) \/ Prune(t) \/ Crash(t)
  <2>1. /\ pass'[t].page = {} /\ pass'[t].claim = NoClaim
        /\ \/ pass'[t].pc = "recover" /\ pass'[t].mode = "recover"
           \/ pass'[t].pc \in {"idle", "prune"} /\ pass'[t].mode = "idle"
    <3>1. CASE BeginPass(t) \/ ListingFails(t)
      <4>1. PICK cfg \in Configs, claims \in {StaleHookClaims, {}} :
              pass' = [pass EXCEPT ![t] = Recovering(cfg, claims)]
        BY <3>1 DEF BeginPass, ListingFails
      <4>2. pass'[t] = [pc |-> "recover", mode |-> "recover", cfg |-> cfg,
                        queue |-> claims, seen |-> 0, page |-> {}, claim |-> NoClaim]
        BY <1>0, <4>1 DEF Recovering, Idle
      <4> QED
        BY <4>2
    <3>2. CASE AdvanceFails(t)
      <4>1. pass'[t] = [pc |-> "prune", mode |-> "idle", cfg |-> {}, queue |-> {},
                        seen |-> 0, page |-> {}, claim |-> NoClaim]
        BY <1>0, <3>2 DEF AdvanceFails, Idle
      <4> QED
        BY <4>1
    <3>3. CASE Prune(t) \/ Crash(t)
      <4>1. pass'[t] = Idle
        BY <1>0, <3>3 DEF Prune, Crash
      <4> QED
        BY <4>1 DEF Idle
    <3> QED
      BY <1>4, <3>1, <3>2, <3>3
  <2>2. Orderly(t)'
    BY <2>1 DEF Orderly, Working
  <2>3. Owed(t)' /\ PageWhole(t)'
    BY <2>1, NotScanning
  <2> QED
    BY <1>1, <1>3, <2>1, <2>2, <2>3, QuietTrigger DEF Framed
<1>5. CASE ReadFloor(t)
  <2>1. /\ pass'[t].pc = "journal" /\ pass'[t].mode = pass[t].mode /\ pass[t].pc = "recover"
        /\ pass'[t].page = pass[t].page /\ pass'[t].claim = pass[t].claim
    BY <1>0, <1>5 DEF ReadFloor, Passes
  <2>2. pass[t].mode = "recover"
    BY <2>1 DEF HookInv, Orderly
  <2>3. Orderly(t)'
    BY <2>1, <2>2, OrderlyKept DEF Framed
  <2>4. Owed(t)' /\ PageWhole(t)'
    BY <2>1, <2>2, NotScanning
  <2> QED
    BY <1>1, <1>3, <2>1, <2>3, <2>4, QuietTrigger DEF Framed
<1> QED
  BY <1>4, <1>5

\* A pair is claimed, or it is claimed or closed already, or its event is gone.
LEMMA ClaimHook ==
    ASSUME HookInv, Framed, NEW t \in Triggers, ClaimHookDispatchEvent(t)
    PROVE  HookInv'
<1>0. /\ HookTypeOK /\ pass \in [Triggers -> Passes] /\ pass[t] \in Passes
      /\ ledger \in [Hooks -> [Seqs -> Row \cup {NULL}]]
      /\ IndInv' /\ Onward /\ LeaseKept /\ StaysClosed
  BY DEF HookInv, IndInv, HookTypeOK, Framed
<1>1. PICK c \in pass[t].queue :
        /\ c.event /= NULL
        /\ IF At(c.seq, c.event) /\ (Expired(ledger[c.hook][c.seq]) \/ CanClaim(c.hook, c.seq))
           THEN ledger' = [ledger EXCEPT ![c.hook][c.seq] = Fresh] /\ pass' = Won(t, c)
           ELSE pass' = Without(t, c) /\ UNCHANGED ledger
        /\ UNCHANGED <<journal, written, floor, settled, dropped>>
  BY DEF ClaimHookDispatchEvent, environment
<1>2. c.hook \in Hooks /\ c.seq \in Seqs /\ c.event \in Events
  BY <1>1 DEF HookInv, IndInv, PassesOK, PassOK, Passes, Wanted
<1>3. floor' <= floor
  BY <1>1 DEF HookInv, IndInv, HookTypeOK
<1>4. NothingSkipped'
  BY <1>0, <1>3, FloorStays
<1>5. CASE pass' = Without(t, c) /\ UNCHANGED ledger
           /\ ~(At(c.seq, c.event) /\ (Expired(ledger[c.hook][c.seq]) \/ CanClaim(c.hook, c.seq)))
  <2>1. /\ \A u \in Triggers \ {t} : pass'[u] = pass[u]
        /\ pass'[t].pc = pass[t].pc /\ pass'[t].mode = pass[t].mode /\ pass'[t].cfg = pass[t].cfg
        /\ pass'[t].queue = pass[t].queue \ {c} /\ pass'[t].seen = pass[t].seen
        /\ pass'[t].page = pass[t].page /\ pass'[t].claim = pass[t].claim
    BY <1>5, WithoutFacts
  <2>2. Orderly(t)'
    BY <1>0, <2>1, OrderlyKept DEF HookInv, Orderly, Onward
  <2>3. ASSUME journal[c.seq] = c.event, <<c.hook, c.event>> \in Matches
        PROVE  <<c.hook, c.event>> \in settled' \cup dropped' \/ Claimed(ledger'[c.hook][c.seq])
    <3>1. ledger[c.hook][c.seq] /= NULL \/ ~(c.seq > floor)
      BY <1>5, <2>3 DEF At, CanClaim
    <3>2. CASE ledger[c.hook][c.seq] /= NULL
      BY <1>1, <1>2, <1>5, <2>3, <3>2 DEF HookInv, RowsEarned, Claimed
    <3>3. CASE ~(c.seq > floor)
      <4>1. c.seq <= floor
        BY <1>0, <1>2, <3>3 DEF HookTypeOK, Seqs
      <4>2. <<c.hook, journal[c.seq]>> \in Passed
        BY <1>1, <1>2, <2>3, <4>1 DEF Passed
      <4> QED
        BY <1>1, <2>3, <4>2 DEF HookInv, NothingSkipped
    <3> QED
      BY <3>1, <3>2, <3>3
  <2>4. Owed(t)' /\ PageWhole(t)'
    BY <1>0, <2>1, <2>3, OwedKept
  <2> QED
    BY <1>0, <1>4, <2>1, <2>2, <2>4, QuietTrigger
<1>6. CASE /\ journal[c.seq] = c.event
           /\ Expired(ledger[c.hook][c.seq]) \/ CanClaim(c.hook, c.seq)
           /\ ledger' = [ledger EXCEPT ![c.hook][c.seq] = Fresh] /\ pass' = Won(t, c)
  <2> DEFINE k == [hook |-> c.hook, seq |-> c.seq, event |-> c.event, age |-> 0]
  <2>1. /\ \A u \in Triggers \ {t} : pass'[u] = pass[u]
        /\ pass'[t].pc \in {"reread", "fire"}
        /\ pass'[t].mode = pass[t].mode /\ pass'[t].cfg = pass[t].cfg
        /\ pass'[t].queue = pass[t].queue \ {c} /\ pass'[t].seen = pass[t].seen
        /\ pass'[t].page = pass[t].page /\ pass'[t].claim = k
    BY <1>0, <1>6 DEF Won, Passes
  <2>2. k.hook = c.hook /\ k.seq = c.seq /\ k.event = c.event /\ k.age = 0
    OBVIOUS
  <2> HIDE DEF k
  <2>3. /\ ledger'[c.hook][c.seq] = Fresh /\ Claimed(Fresh) /\ Fresh.age = 0
    <3>1. Fresh \in Row
      BY HookBoundsAssumption DEF Fresh, Row, Ages
    <3>2. Claimed(Fresh) /\ Fresh.age = 0
      BY <3>1, HooksAssumption DEF Claimed, Fresh
    <3> QED
      BY <1>0, <1>2, <1>6, <3>2
  <2>4. Orderly(t)'
    <3>1. c.event <= written /\ \A p \in pass[t].page : p.event <= written
      BY <1>1, <1>2, <1>6 DEF HookInv, IdsOnce, Orderly
    <3> QED
      BY <1>1, <2>1, <2>2, <3>1 DEF Orderly
  <2>5. Owed(t)' /\ PageWhole(t)'
    BY <1>0, <2>1, <2>3, OwedKept
  <2>6. LeaseHeld(t)'
    <3>1. \A s \in Seqs : journal'[s] = c.event => s = c.seq
      BY <1>1, <1>2, <1>6 DEF HookInv, IdsOnce
    <3> QED
      BY <2>1, <2>2, <2>3, <3>1 DEF LeaseHeld
  <2>7. ASSUME NEW u \in Triggers, u /= t, Working(u),
               pass[u].claim.hook = c.hook, pass[u].claim.event = c.event
        PROVE  pass[u].claim.age > Lease
    <3>1. pass[u].claim \in Claims
      BY <1>0, <2>7 DEF Passes, Working
    <3>2. pass[u].claim.age \in Nat /\ Lease \in Nat
      BY <3>1, HookBoundsAssumption DEF Claims, Ages
    <3>3. pass[u].claim.seq = c.seq
      BY <1>2, <1>6, <2>7 DEF HookInv, LeaseHeld
    <3>4. ASSUME pass[u].claim.age <= Lease PROVE FALSE
      <4>1. \/ /\ Claimed(ledger[c.hook][c.seq])
               /\ ledger[c.hook][c.seq].age = pass[u].claim.age
            \/ Closed(c.hook, c.seq)
        BY <1>6, <2>7, <3>3, <3>4 DEF HookInv, LeaseHeld, At
      <4>2. ~Closed(c.hook, c.seq)
        BY <1>0, <1>2, <1>6 DEF Closed, Expired, CanClaim, HookTypeOK, Seqs
      <4>3. ~(Claimed(ledger[c.hook][c.seq]) /\ ledger[c.hook][c.seq].age = pass[u].claim.age)
        BY <1>6, <3>2, <3>4 DEF Expired, CanClaim, Claimed
      <4> QED
        BY <4>1, <4>2, <4>3
    <3> QED
      BY <3>2, <3>4
  <2>8. OneFiringPerLease'
    <3> SUFFICES ASSUME NEW u \in Triggers, NEW v \in Triggers, u /= v,
                        pass'[u].claim /= NoClaim, pass'[v].claim /= NoClaim,
                        pass'[u].claim.hook = pass'[v].claim.hook,
                        pass'[u].claim.event = pass'[v].claim.event
                 PROVE  pass'[u].claim.age > Lease \/ pass'[v].claim.age > Lease
      BY DEF OneFiringPerLease, Working
    <3>1. CASE u = t
      <4>1. pass'[v] = pass[v] /\ pass'[u].claim = k
        BY <2>1, <3>1
      <4> QED
        BY <2>2, <2>7, <3>1, <4>1 DEF Working
    <3>2. CASE v = t
      <4>1. pass'[u] = pass[u] /\ pass'[v].claim = k
        BY <2>1, <3>2
      <4> QED
        BY <2>2, <2>7, <3>2, <4>1 DEF Working
    <3>3. CASE u /= t /\ v /= t
      <4>1. pass'[u] = pass[u] /\ pass'[v] = pass[v]
        BY <2>1, <3>3
      <4> QED
        BY <4>1 DEF HookInv, OneFiringPerLease, Working
    <3> QED
      BY <3>1, <3>2, <3>3
  <2> QED
    BY <1>0, <1>4, <2>1, <2>4, <2>5, <2>6, <2>8, TriggerStep
<1> QED
  BY <1>1, <1>5, <1>6 DEF At

\* A pass queues every pair of its page that its hooks match.
LEMMA ReadJournalHook ==
    ASSUME HookInv, Framed, NEW t \in Triggers, ReadJournal(t)
    PROVE  HookInv'
<1> DEFINE page == {[seq |-> s, event |-> journal[s]] : s \in Page(pass[t].seen)}
           pairs == {p \in pass[t].cfg \X page : <<p[1], p[2].event>> \in Matches}
           queue == {[hook |-> p[1], seq |-> p[2].seq, event |-> p[2].event] : p \in pairs}
<1>0. /\ pass \in [Triggers -> Passes] /\ pass[t] \in Passes /\ pass[t].seen \in 0 .. MaxSeq
      /\ IndInv' /\ Onward /\ LeaseKept /\ StaysClosed
  BY DEF HookInv, IndInv, HookTypeOK, Framed, Passes
<1>1. /\ UNCHANGED <<journal, written, floor>>
      /\ pass' = [pass EXCEPT ![t].pc = "scan", ![t].mode = "scan", ![t].page = page,
                              ![t].queue = queue]
  BY DEF ReadJournal, environment
<1>2. \A p \in page : p.seq \in Seqs /\ journal[p.seq] = p.event /\ p.event <= written
                      /\ p.seq \in Page(pass[t].seen)
  <2> SUFFICES ASSUME NEW s \in Page(pass[t].seen)
               PROVE  s \in Seqs /\ journal[s] <= written
    OBVIOUS
  <2>1. s \in Seqs /\ journal[s] /= NULL
    BY DEF Page
  <2> QED
    BY <2>1 DEF HookInv, IdsOnce
<1>3. ASSUME NEW p \in page, NEW h \in pass[t].cfg, <<h, p.event>> \in Matches
      PROVE  [hook |-> h, seq |-> p.seq, event |-> p.event] \in queue
  <2> HIDE DEF page
  <2>1. <<h, p>> \in pairs
    BY <1>3
  <2>2. <<h, p>>[1] = h /\ <<h, p>>[2] = p
    OBVIOUS
  <2> HIDE DEF pairs
  <2> QED
    BY <2>1, <2>2
<1>4. ASSUME NEW p \in page, NEW s \in Seqs, pass[t].seen < s, s < p.seq, journal[s] /= NULL
      PROVE  \E q \in page : q.seq = s
  <2>1. PICK f \in 0 .. MaxSeq : f = pass[t].seen
    BY <1>0
  <2>2. PICK r \in Page(f) : r = p.seq
    BY <1>2, <2>1
  <2>3. f < s /\ s < r
    BY <1>4, <2>1, <2>2
  <2>4. s \in Page(f)
    BY <1>4, <2>3, PageHasAllBelow
  <2>5. [seq |-> s, event |-> journal[s]] \in page
    BY <2>1, <2>4
  <2>6. [seq |-> s, event |-> journal[s]].seq = s
    OBVIOUS
  <2> HIDE DEF page
  <2> QED
    BY <2>5, <2>6
<1> HIDE DEF page, queue
<1>5. /\ \A u \in Triggers \ {t} : pass'[u] = pass[u]
      /\ pass'[t].pc = "scan" /\ pass'[t].mode = "scan" /\ pass'[t].cfg = pass[t].cfg
      /\ pass'[t].queue = queue /\ pass'[t].page = page
      /\ pass'[t].seen = pass[t].seen /\ pass'[t].claim = pass[t].claim
  BY <1>0, <1>1 DEF Passes
<1>6. floor' <= floor
  BY <1>1 DEF HookInv, IndInv, HookTypeOK
<1>7. NothingSkipped'
  BY <1>0, <1>6, FloorStays
<1>8. Orderly(t)'
  BY <1>1, <1>2, <1>5 DEF Orderly, HookInv, Working
<1>9. Owed(t)'
  BY <1>3, <1>5 DEF Owed
<1>10. PageWhole(t)'
  BY <1>1, <1>4, <1>5 DEF PageWhole
<1> QED
  BY <1>0, <1>5, <1>7, <1>8, <1>9, <1>10, QuietTrigger

\* The floor moves over entries of the page only, which the journal still holds
\* and of which nothing is owed any more.
LEMMA AdvanceFloorHook ==
    ASSUME HookInv, Framed, NEW t \in Triggers, AdvanceFloor(t)
    PROVE  HookInv'
<1> DEFINE page == pass[t].page
           target == MatchingPrefix(page)
           moved == floor >= pass[t].seen /\ target > 0
           to == FloorTowards(target)
           given == {<<h, p.event>> : h \in Hooks \ pass[t].cfg,
                                      p \in {q \in page : floor < q.seq /\ q.seq <= to}}
<1>0. /\ HookTypeOK /\ OpenClaimsAboveFloor /\ pass \in [Triggers -> Passes] /\ pass[t] \in Passes
      /\ pass[t].seen \in 0 .. MaxSeq /\ floor \in 0 .. MaxSeq /\ page \in SUBSET Entry
      /\ IndInv' /\ Onward /\ LeaseKept /\ StaysClosed
  BY DEF HookInv, IndInv, HookTypeOK, Framed, Passes
<1>1. /\ pass[t].pc = "scan" /\ pass[t].queue = {}
      /\ floor' = IF moved THEN to ELSE floor
      /\ settled' = settled \cup IF moved THEN given ELSE {}
      /\ pass' = [pass EXCEPT ![t] = [Idle EXCEPT !.pc = "prune"]]
      /\ UNCHANGED <<journal, dropped>>
  BY DEF AdvanceFloor, environment
<1>2. pass[t].mode = "scan" /\ Owed(t) /\ PageWhole(t)
  BY <1>1 DEF HookInv, Orderly
<1>3. target \in 0 .. MaxSeq
  BY <1>0, MatchingPrefixType
<1>4. /\ to \in 0 .. MaxSeq /\ to >= floor /\ (to = floor \/ to <= target)
      /\ \A h \in Hooks, s \in Seqs : Claimed(ledger[h][s]) => s > to
  <2> HIDE DEF target
  <2> QED
    BY <1>0, <1>3, FloorTowardsFacts, FloorTowardsTarget
<1>5. moved => \E p \in page : /\ p.seq = target
                               /\ \A q \in page : q.seq <= p.seq => At(q.seq, q.event)
  <2>1. CASE target > 0
    BY <1>0, <2>1, MatchingPrefixFacts
  <2> QED
    BY <2>1
<1> HIDE DEF target, to
<1>6. NothingSkipped'
  <2>1. CASE ~moved
    <3>1. floor' <= floor
      BY <1>0, <1>1, <2>1
    <3> QED
      BY <1>0, <3>1, FloorStays
  <2>2. CASE moved
    <3>0. floor' = to /\ journal' = journal
      BY <1>1, <2>2
    <3> SUFFICES ASSUME NEW h \in Hooks, NEW s \in Seqs, s <= to, journal[s] /= NULL,
                        <<h, journal[s]>> \in Matches
                 PROVE  <<h, journal[s]>> \in settled' \cup dropped'
      BY <3>0 DEF NothingSkipped, Passed
    <3>1. CASE s <= floor
      <4>1. <<h, journal[s]>> \in settled \cup dropped
        BY <3>1 DEF HookInv, NothingSkipped, Passed
      <4> QED
        BY <1>1, <4>1
    <3>2. CASE ~(s <= floor)
      <4>0. s \in Nat /\ s > floor /\ s <= target /\ s > pass[t].seen
        BY <1>0, <1>3, <1>4, <2>2, <3>2 DEF Seqs
      <4>1. PICK p \in page : /\ p.seq = target
                              /\ \A q \in page : q.seq <= p.seq => At(q.seq, q.event)
        BY <1>5, <2>2
      <4>2. p.seq \in Nat /\ p.seq <= p.seq /\ At(p.seq, p.event)
        BY <1>0, <4>1 DEF Entry, Seqs
      <4>3. \E q \in page : q.seq = s
        <5>1. CASE s = target
          BY <4>1, <5>1
        <5>2. CASE s /= target
          <6>1. s < p.seq
            BY <4>0, <4>1, <4>2, <5>2
          <6> QED
            BY <1>2, <4>0, <4>2, <6>1 DEF PageWhole
        <5> QED
          BY <5>1, <5>2
      <4>4. PICK q \in page : q.seq = s
        BY <4>3
      <4>5. journal[s] = q.event
        BY <4>0, <4>1, <4>4 DEF At
      <4>6. CASE h \notin pass[t].cfg
        <5>1. q \in {x \in page : floor < x.seq /\ x.seq <= to}
          BY <4>0, <4>4
        <5>2. <<h, q.event>> \in given
          BY <4>6, <5>1
        <5> QED
          BY <1>1, <2>2, <4>5, <5>2
      <4>7. CASE h \in pass[t].cfg
        <5>1. <<h, q.event>> \in settled \cup dropped \/ Claimed(ledger[h][s])
          BY <1>1, <1>2, <4>4, <4>5, <4>7 DEF Owed, At
        <5>2. ~(s > to)
          BY <1>4 DEF Seqs
        <5>3. <<h, q.event>> \in settled \cup dropped
          BY <1>4, <5>1, <5>2
        <5> QED
          BY <1>1, <4>5, <5>3
      <4> QED
        BY <4>6, <4>7
    <3> QED
      BY <3>1, <3>2
  <2> QED
    BY <2>1, <2>2
<1>7. /\ \A u \in Triggers \ {t} : pass'[u] = pass[u]
      /\ pass'[t].pc = "prune" /\ pass'[t].mode = "idle" /\ pass'[t].page = {}
      /\ pass'[t].claim = NoClaim
  <2>1. pass'[t] = [Idle EXCEPT !.pc = "prune"]
    BY <1>0, <1>1
  <2>2. [Idle EXCEPT !.pc = "prune"] = [pc |-> "prune", mode |-> "idle", cfg |-> {}, queue |-> {},
                                        seen |-> 0, page |-> {}, claim |-> NoClaim]
    BY DEF Idle
  <2>3. \A u \in Triggers \ {t} : pass'[u] = pass[u]
    BY <1>0, <1>1
  <2> QED
    BY <2>1, <2>2, <2>3
<1>8. Orderly(t)'
  BY <1>7 DEF Orderly, Working
<1>9. Owed(t)' /\ PageWhole(t)'
  BY <1>7, NotScanning
<1> QED
  BY <1>0, <1>6, <1>7, <1>8, <1>9, QuietTrigger

\* The rest of the host moves no trigger.
LEMMA HostHook ==
    ASSUME HookInv, Framed, UNCHANGED pass, floor' <= floor \/ NothingSkipped'
    PROVE  HookInv'
<1>0. IndInv' /\ Onward /\ LeaseKept /\ StaysClosed
  BY DEF Framed
<1>1. ASSUME NEW u \in Triggers
      PROVE  Orderly(u)' /\ Owed(u)' /\ PageWhole(u)' /\ LeaseHeld(u)'
  <2>1. Same(u) /\ pass'[u].claim = pass[u].claim
    BY DEF Same
  <2> QED
    BY <1>0, <2>1, SameKept, LeaseStays
<1>2. OneFiringPerLease'
  BY FiringStays
<1>3. NothingSkipped'
  BY <1>0, FloorStays
<1>4. IdsOnce' /\ RowsEarned' /\ WithinTail'
  BY <1>0, OnwardFacts DEF Onward
<1> QED
  BY <1>0, <1>1, <1>2, <1>3, <1>4 DEF HookInv

\* A first fill gives up what the floor passes.
LEMMA EndFirstPullSkips ==
    ASSUME HookInv, EndFirstPull
    PROVE  NothingSkipped'
<1> DEFINE to == FloorTowards(Tail(journal))
           passed == {s \in Seqs : floor < s /\ s <= to /\ journal[s] /= NULL}
<1>1. /\ floor' = to /\ UNCHANGED <<journal, dropped>>
      /\ settled' = settled \cup {<<h, journal[s]>> : h \in Hooks, s \in passed}
  BY DEF EndFirstPull
<1>2. floor \in 0 .. MaxSeq
  BY DEF HookInv, IndInv, HookTypeOK
<1> HIDE DEF to
<1> SUFFICES ASSUME NEW h \in Hooks, NEW s \in Seqs, s <= to, journal[s] /= NULL,
                    <<h, journal[s]>> \in Matches
             PROVE  <<h, journal[s]>> \in settled' \cup dropped'
  BY <1>1 DEF NothingSkipped, Passed
<1>3. CASE s <= floor
  <2>1. <<h, journal[s]>> \in settled \cup dropped
    BY <1>3 DEF HookInv, NothingSkipped, Passed
  <2> QED
    BY <1>1, <2>1
<1>4. CASE ~(s <= floor)
  <2>1. s \in passed
    BY <1>2, <1>4 DEF Seqs
  <2> HIDE DEF passed
  <2> QED
    BY <1>1, <2>1
<1> QED
  BY <1>3, <1>4

\* Time makes the claims in the passes and in the ledger older together.
LEMMA TickHook ==
    ASSUME HookInv, IndInv', StaysClosed, Tick
    PROVE  HookInv'
<1>0. Onward /\ \A h \in Hooks, s \in Seqs :
          IF Claimed(ledger[h][s])
          THEN Claimed(ledger'[h][s]) /\ ledger'[h][s].age = Older(ledger[h][s].age)
          ELSE ledger'[h][s] = ledger[h][s]
  BY TickOnward
<1>t. pass \in [Triggers -> Passes]
  BY DEF HookInv, IndInv, HookTypeOK
<1>1. /\ UNCHANGED <<journal, floor>>
      /\ pass' = [t \in Triggers |->
                     IF pass[t].claim = NoClaim THEN pass[t]
                     ELSE [pass[t] EXCEPT !.claim.age = Older(@)]]
  BY DEF Tick, environment
<1>2. ASSUME NEW t \in Triggers
      PROVE  /\ Same(t)
             /\ Working(t) => /\ pass[t].claim \in Claims
                              /\ pass'[t].claim.age = Older(pass[t].claim.age)
  <2>1. CASE pass[t].claim = NoClaim
    BY <1>1, <2>1 DEF Same, Working
  <2>2. CASE pass[t].claim /= NoClaim
    <3>1. pass[t] \in Passes /\ pass[t].claim \in Claims
      BY <1>t, <2>2 DEF Passes
    <3>2. PICK a : a = Older(pass[t].claim.age)
      OBVIOUS
    <3>3. PICK k : k = [hook |-> pass[t].claim.hook, seq |-> pass[t].claim.seq,
                        event |-> pass[t].claim.event, age |-> a]
      OBVIOUS
    <3>4. /\ k.hook = pass[t].claim.hook /\ k.seq = pass[t].claim.seq
          /\ k.event = pass[t].claim.event /\ k.age = a
      BY <3>3
    <3>5. [pass[t].claim EXCEPT !.age = a] = k
      BY <3>1, <3>3 DEF Claims
    <3>6. pass'[t] = [pass[t] EXCEPT !.claim = k]
      <4>1. pass'[t] = [pass[t] EXCEPT !.claim = [pass[t].claim EXCEPT !.age = Older(@)]]
        BY <1>1, <2>2, <3>1 DEF Passes, Claims
      <4>2. [pass[t].claim EXCEPT !.age = Older(@)] = [pass[t].claim EXCEPT !.age = a]
        BY <3>2
      <4> QED
        BY <3>5, <4>1, <4>2
    <3>7. k /= NoClaim
      <4>1. NoClaim.seq = 0 /\ k.seq \in Seqs
        BY <3>1, <3>4 DEF NoClaim, Claims
      <4> QED
        BY <4>1, HookBoundsAssumption DEF Seqs
    <3>8. /\ pass'[t].pc = pass[t].pc /\ pass'[t].mode = pass[t].mode /\ pass'[t].cfg = pass[t].cfg
          /\ pass'[t].queue = pass[t].queue /\ pass'[t].seen = pass[t].seen
          /\ pass'[t].page = pass[t].page /\ pass'[t].claim = k
      BY <3>1, <3>6 DEF Passes
    <3> QED
      BY <2>2, <3>1, <3>2, <3>4, <3>7, <3>8 DEF Same
  <2> QED
    BY <2>1, <2>2
<1>3. \A a \in Ages : Older(a) <= Lease => a <= Lease
  BY HookBoundsAssumption DEF Ages, Older
<1>4. ASSUME NEW t \in Triggers
      PROVE  LeaseHeld(t)'
  <2> SUFFICES ASSUME Working(t) PROVE LeaseHeld(t)'
    BY <1>2 DEF LeaseHeld, Working, Same
  <2>1. PICK c : c = pass[t].claim
    OBVIOUS
  <2>2. PICK k : k = pass'[t].claim
    OBVIOUS
  <2>3. /\ c \in Claims /\ k.hook = c.hook /\ k.seq = c.seq /\ k.event = c.event
        /\ k.age = Older(c.age)
    BY <1>2, <2>1, <2>2 DEF Same
  <2>4. c.hook \in Hooks /\ c.seq \in Seqs /\ c.age \in Ages
    BY <2>3 DEF Claims
  <2>5. /\ \A s \in Seqs : journal[s] = c.event => s = c.seq
        /\ c.age <= Lease /\ journal[c.seq] = c.event =>
              \/ Claimed(ledger[c.hook][c.seq]) /\ ledger[c.hook][c.seq].age = c.age
              \/ Closed(c.hook, c.seq)
    BY <2>1 DEF HookInv, LeaseHeld, At
  <2>6. Closed(c.hook, c.seq) => Closed(c.hook, c.seq)'
    BY <1>1, <2>4 DEF StaysClosed
  <2>7. /\ \A s \in Seqs : journal'[s] = k.event => s = k.seq
        /\ k.age <= Lease /\ journal'[k.seq] = k.event =>
              \/ Claimed(ledger'[k.hook][k.seq]) /\ ledger'[k.hook][k.seq].age = k.age
              \/ /\ journal'[k.seq] /= NULL /\ ~Claimed(ledger'[k.hook][k.seq])
                 /\ ledger'[k.hook][k.seq] /= NULL \/ k.seq <= floor'
    BY <1>0, <1>1, <1>3, <2>3, <2>4, <2>5, <2>6 DEF Closed, Claimed
  <2> QED
    BY <2>2, <2>7 DEF LeaseHeld, At, Closed, Claimed
<1>5. OneFiringPerLease'
  <2> SUFFICES ASSUME NEW u \in Triggers, NEW v \in Triggers, u /= v,
                      pass'[u].claim /= NoClaim, pass'[v].claim /= NoClaim,
                      pass'[u].claim.hook = pass'[v].claim.hook,
                      pass'[u].claim.event = pass'[v].claim.event
               PROVE  pass'[u].claim.age > Lease \/ pass'[v].claim.age > Lease
    BY DEF OneFiringPerLease, Working
  <2>1. /\ Working(u) /\ Working(v) /\ pass[u].claim.hook = pass[v].claim.hook
        /\ pass[u].claim.event = pass[v].claim.event
    BY <1>2 DEF Same, Working
  <2>2. pass[u].claim.age > Lease \/ pass[v].claim.age > Lease
    BY <2>1 DEF HookInv, OneFiringPerLease
  <2>3. \A a \in Ages : a > Lease => Older(a) > Lease
    BY DEF Older
  <2>4. pass[u].claim.age \in Ages /\ pass[v].claim.age \in Ages
    BY <1>2, <2>1 DEF Claims
  <2> QED
    BY <1>2, <2>1, <2>2, <2>3, <2>4
<1>6. NothingSkipped'
  <2>1. floor' <= floor
    BY <1>1 DEF HookInv, IndInv, HookTypeOK
  <2> QED
    BY <1>0, <2>1, FloorStays
<1>7. IdsOnce' /\ RowsEarned' /\ WithinTail'
  BY <1>0, OnwardFacts DEF Onward
<1>8. \A t \in Triggers : Orderly(t)' /\ Owed(t)' /\ PageWhole(t)'
  BY <1>0, <1>2, SameKept
<1> QED
  BY <1>4, <1>5, <1>6, <1>7, <1>8 DEF HookInv

-----------------------------------------------------------------------------

LEMMA NextHook ==
    ASSUME HookInv, [Next]_vars
    PROVE  HookInv'
<1>1. IndInv' /\ StaysClosed
  BY NextInd, StepStaysClosed DEF HookInv
<1>2. ASSUME NEW t \in Triggers, PassStep(t) \/ Fault(t)
      PROVE  HookInv'
  <2>1. Onward /\ LeaseKept
    BY <1>2, ClaimOnward, DiscardMissingOnward, RecordOnward, OtherPassOnward DEF PassStep
  <2>2. Framed
    BY <1>1, <2>1 DEF Framed
  <2> QED
    BY <1>2, <2>2, ClaimHook, DiscardMissingHook, ClaimFailsHook, FiringHook, OutsideScanHook,
       ReadJournalHook, AdvanceFloorHook DEF PassStep, Fault
<1>3. CASE \/ Write \/ BeginPull \/ EndFirstPull \/ FirstPullSetsNoFloor \/ Replace \/ DiscardLocal
  <2>1. Framed
    BY <1>1, <1>3, HostOnward DEF Framed
  <2>2. UNCHANGED pass
    BY <1>3 DEF Write, BeginPull, EndFirstPull, FirstPullSetsNoFloor, Replace, DiscardLocal
  <2>3. floor \in 0 .. MaxSeq
    BY DEF HookInv, IndInv, HookTypeOK
  <2>4. floor' <= floor \/ NothingSkipped'
    <3>1. CASE EndFirstPull
      BY <3>1, EndFirstPullSkips
    <3>2. CASE Write \/ BeginPull \/ FirstPullSetsNoFloor
      BY <2>3, <3>2 DEF Write, BeginPull, FirstPullSetsNoFloor
    <3>3. CASE Replace
      <4>1. PICK n : floor' = Min({floor, Tail(n)})
        BY <3>3 DEF Replace
      <4>2. Tail(n) \in 0 .. MaxSeq
        BY TailType
      <4> QED
        BY <2>3, <4>1, <4>2, PairMin
    <3>4. CASE DiscardLocal
      BY <2>3, <3>4 DEF DiscardLocal
    <3> QED
      BY <1>3, <3>1, <3>2, <3>3, <3>4
  <2> QED
    BY <2>1, <2>2, <2>4, HostHook
<1>4. CASE Tick
  BY <1>1, <1>4, TickHook
<1>5. CASE UNCHANGED vars
  <2>1. UNCHANGED <<journal, written, ledger, floor, pass, settled, dropped>>
    BY <1>5 DEF vars
  <2>2. floor' <= floor
    BY <2>1 DEF HookInv, IndInv, HookTypeOK
  <2>3. Framed
    BY <1>1, <2>1, PassOnlyOnward DEF Framed
  <2> QED
    BY <2>1, <2>2, <2>3, HostHook
<1> QED
  BY <1>2, <1>3, <1>4, <1>5 DEF Next

\* The stronger invariant holds in every reachable state.
LEMMA HookInvHolds == Spec => []HookInv
<1>1. HookInv /\ [Next]_vars => HookInv'
  BY NextHook
<1> QED
  BY <1>1, InitHook, PTL DEF Spec

\* Whatever the triggers' passes, replaces, discards and first fills do between
\* one another's transactions, the scan floor (AdvanceHookScanFloorForEvents)
\* leaves no matching event behind that was not fired, given up by design, or
\* lost to one of the two errors the code logs and never makes good: a claim
\* of a scan that failed, and a recovered claim whose event could not be read
\* again (refireStaleClaim); also at positions that are used again.
THEOREM NothingSkippedHolds == Spec => []NothingSkipped
<1>1. HookInv => NothingSkipped
  BY DEF HookInv
<1> QED
  BY <1>1, HookInvHolds, PTL

\* Two triggers work on the same hook and event (ClaimHookDispatchEvent) only
\* when the claim of one of them is older than the lease.
THEOREM OneFiringPerLeaseHolds == Spec => []OneFiringPerLease
<1>1. HookInv => OneFiringPerLease
  BY DEF HookInv
<1> QED
  BY <1>1, HookInvHolds, PTL
=============================================================================
