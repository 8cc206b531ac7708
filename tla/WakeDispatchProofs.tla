------------------------- MODULE WakeDispatchProofs -------------------------
(***************************************************************************)
(* Proofs about module WakeDispatch, for any number of passes, events and  *)
(* troubles, whatever the events are and whatever the limits.              *)
(***************************************************************************)
EXTENDS WakeDispatch, WellFoundedInduction, TLAPS

Ids == 1..MaxEvents
KeyRows == [seq : Nat \ {0}, id : Ids]
PassStates == [pc : {"idle", "judge", "hold", "claim", "send", "record", "advance"},
               keys : SUBSET KeyRows, epoch : Nat]

Registrations == [epoch : Nat, mark : Nat, hold : BOOLEAN, base : Nat]
Attempts == [token : Passes \cup {NULL}, fresh : BOOLEAN, outcome : {"claimed", "terminal"}]
Histories == [delivered : [Ids -> 0..2], reclaimed : SUBSET Ids, claims : Nat,
              late : SUBSET Ids]
Budgets == [credits : Nat, unacked : Nat, cooling : BOOLEAN]

\* Types; a pass that is not idle has a candidate, and the events a pass knows
\* of have arrived.
WakeTypeOK ==
    /\ journal \in Seq(Ids)
    /\ reg = NULL \/ reg \in Registrations
    /\ ledger \in [DOMAIN ledger -> Attempts] /\ DOMAIN ledger \subseteq (Nat \ {0}) \X Nat
    /\ pass \in [Passes -> PassStates]
    /\ \A p \in Passes : pass[p].pc # "idle" => pass[p].keys # {}
    /\ budget \in Budgets
    /\ spent \in [events : 0..MaxEvents, troubles : Nat]
    /\ history \in Histories

LEMMA InitType == Init => WakeTypeOK
<1> SUFFICES ASSUME Init PROVE WakeTypeOK
  OBVIOUS
<1>1. journal \in Seq(Ids)
  BY DEF Init
<1>2. reg \in Registrations
  BY DEF Init, Registrations
<1>3. ledger \in [DOMAIN ledger -> Attempts] /\ DOMAIN ledger \subseteq (Nat \ {0}) \X Nat
  <2>1. ledger = <<>> /\ DOMAIN ledger = {}
    BY DEF Init
  <2> QED
    BY <2>1
<1>4. pass \in [Passes -> PassStates] /\ \A p \in Passes : pass[p].pc = "idle"
  BY DEF Init, Idle, PassStates
<1>5. budget \in Budgets /\ spent \in [events : 0..MaxEvents, troubles : Nat]
  BY WakeAssumption DEF Init, Budgets
<1>6. history \in Histories
  BY DEF Init, Histories, Ids
<1> QED
  BY <1>1, <1>2, <1>3, <1>4, <1>5, <1>6 DEF WakeTypeOK

\* Every set of naturals that is not empty has a least element.
LEMMA LeastOf ==
    ASSUME NEW T \in SUBSET Nat, T # {}
    PROVE  \E x \in T : \A y \in T : x <= y
<1> DEFINE R == {ss \in Nat \X Nat : ss[1] < ss[2]}
<1>1. IsWellFoundedOn(R, Nat)
  BY NatLessThanWellFounded DEF OpToRel
<1> HIDE DEF R
<1>2. PICK x \in T : \A y \in T : ~(<<y, x>> \in R)
  BY <1>1, WFMin, Zenon
<1>3. \A y \in T : ~(y < x)
  BY <1>2 DEF R
<1> QED
  BY <1>3

\* A pass that is under way is at the first of its candidates.
LEMMA KeyFacts ==
    ASSUME WakeTypeOK, NEW p \in Passes, pass[p].keys # {}
    PROVE  /\ Key(p) \in pass[p].keys /\ Key(p) \in KeyRows
           /\ \A x \in pass[p].keys : Key(p).seq <= x.seq
           /\ Key(p).seq \in Nat \ {0} /\ Key(p).id \in Ids
<1> DEFINE T == {k.seq : k \in pass[p].keys}
<1>1. pass[p].keys \in SUBSET KeyRows
  BY DEF WakeTypeOK, PassStates
<1>2. T \in SUBSET Nat
  BY <1>1 DEF KeyRows
<1>3. T # {}
  OBVIOUS
<1>4. PICK n \in T : \A k \in T : n <= k
  BY <1>2, <1>3, LeastOf
<1>5. \E k \in pass[p].keys : \A x \in pass[p].keys : k.seq <= x.seq
  BY <1>4
<1>6. Key(p) \in pass[p].keys /\ \A x \in pass[p].keys : Key(p).seq <= x.seq
  BY <1>5 DEF Key
<1> QED
  BY <1>1, <1>6 DEF KeyRows

\* What the moves of a pass do to it and to the others.
LEMMA GotoFacts ==
    ASSUME WakeTypeOK, NEW p \in Passes, NEW pc \in {"judge", "hold", "claim", "send", "record", "advance"},
           pass[p].keys # {}, Goto(p, pc)
    PROVE  /\ pass' \in [Passes -> PassStates]
           /\ \A q \in Passes : pass'[q].pc # "idle" => pass'[q].keys # {}
           /\ pass'[p].pc = pc /\ pass'[p].keys = pass[p].keys /\ pass'[p].epoch = pass[p].epoch
           /\ \A q \in Passes : q # p => pass'[q] = pass[q]
           /\ \A q \in Passes : Key(q)' = Key(q)
<1>1. /\ pass' \in [Passes -> PassStates]
      /\ pass'[p].pc = pc /\ pass'[p].keys = pass[p].keys /\ pass'[p].epoch = pass[p].epoch
      /\ \A q \in Passes : q # p => pass'[q] = pass[q]
  BY DEF WakeTypeOK, PassStates, Goto
<1>2. \A q \in Passes : pass'[q].keys = pass[q].keys
  BY <1>1
<1> QED
  BY <1>1, <1>2 DEF WakeTypeOK, Key

LEMMA OverFacts ==
    ASSUME WakeTypeOK, NEW p \in Passes, Over(p)
    PROVE  /\ pass' \in [Passes -> PassStates]
           /\ \A q \in Passes : pass'[q].pc # "idle" => pass'[q].keys # {}
           /\ pass'[p].pc = "idle" /\ pass'[p].keys = {}
           /\ \A q \in Passes : q # p => pass'[q] = pass[q] /\ Key(q)' = Key(q)
<1>1. /\ pass' \in [Passes -> PassStates]
      /\ pass'[p].pc = "idle" /\ pass'[p].keys = {}
      /\ \A q \in Passes : q # p => pass'[q] = pass[q]
  BY DEF WakeTypeOK, PassStates, Over, Idle
<1> QED
  BY <1>1 DEF WakeTypeOK, Key

LEMMA NextKeyFacts ==
    ASSUME WakeTypeOK, NEW p \in Passes, pass[p].keys # {}, NextKey(p)
    PROVE  /\ pass' \in [Passes -> PassStates]
           /\ \A q \in Passes : pass'[q].pc # "idle" => pass'[q].keys # {}
           /\ pass'[p].pc \in {"idle", "judge"}
           /\ pass'[p].keys = pass[p].keys \ {Key(p)}
           /\ pass'[p].keys # {} => pass'[p].epoch = pass[p].epoch
           /\ \A q \in Passes : q # p => pass'[q] = pass[q] /\ Key(q)' = Key(q)
<1>1. CASE pass[p].keys = {Key(p)}
  BY <1>1, OverFacts DEF NextKey
<1>2. CASE pass[p].keys # {Key(p)}
  <2>1. Key(p) \in pass[p].keys
    BY KeyFacts
  <2>2. pass' = [pass EXCEPT ![p].pc = "judge", ![p].keys = @ \ {Key(p)}]
    BY <1>2 DEF NextKey
  <2>3. /\ pass' \in [Passes -> PassStates]
        /\ pass'[p].pc = "judge" /\ pass'[p].keys = pass[p].keys \ {Key(p)}
        /\ pass'[p].epoch = pass[p].epoch
        /\ \A q \in Passes : q # p => pass'[q] = pass[q]
    BY <2>2 DEF WakeTypeOK, PassStates
  <2>4. pass'[p].keys # {}
    BY <1>2, <2>1, <2>3
  <2> QED
    BY <2>3, <2>4 DEF WakeTypeOK, Key
<1> QED
  BY <1>1, <1>2

\* A pass begins with candidates that the journal holds above the mark.
LEMMA BeginFacts ==
    ASSUME WakeTypeOK, NEW p \in Passes, reg # NULL, Candidates # {}, Begin(p)
    PROVE  /\ pass' \in [Passes -> PassStates]
           /\ \A q \in Passes : pass'[q].pc # "idle" => pass'[q].keys # {}
           /\ pass'[p].pc = "judge" /\ pass'[p].keys = Candidates /\ pass'[p].epoch = reg.epoch
           /\ \A q \in Passes : q # p => pass'[q] = pass[q] /\ Key(q)' = Key(q)
<1>1. reg.epoch \in Nat
  BY DEF WakeTypeOK, Registrations
<1>2. Candidates \in SUBSET KeyRows
  BY DEF WakeTypeOK, Candidates, InboxAbove, tail, KeyRows
<1> HIDE DEF Candidates
<1>3. /\ pass' \in [Passes -> PassStates]
      /\ pass'[p].pc = "judge" /\ pass'[p].keys = Candidates /\ pass'[p].epoch = reg.epoch
      /\ \A q \in Passes : q # p => pass'[q] = pass[q]
  BY <1>1, <1>2 DEF WakeTypeOK, PassStates, Begin
<1> QED
  BY <1>3 DEF WakeTypeOK, Key

-----------------------------------------------------------------------------
(* The invariant.                                                          *)

\* Ids are used once: the journal holds each at most once, and nobody knows of
\* one that has not arrived.
Arrived ==
    /\ \A s \in 1..tail : journal[s] <= spent.events
    /\ \A s, t \in 1..tail : journal[s] = journal[t] => s = t
    /\ \A p \in Passes : \A k \in pass[p].keys : k.id <= spent.events
    /\ \A i \in Ids : history.delivered[i] > 0 => i <= spent.events

\* A row of the ledger is about the event now at its number, which was sent if
\* the row is finished.
LedgerOK ==
    \A k \in DOMAIN ledger :
        /\ k[1] <= tail
        /\ ledger[k].outcome = "terminal" => history.delivered[journal[k[1]]] > 0

\* A pass comes to record an event, or to move the mark over it, for a reason.
Earned(p) ==
    /\ At(p, "advance") => kind[Key(p).id] = "own" \/ history.delivered[Key(p).id] > 0
    /\ At(p, "record") => history.delivered[Key(p).id] > 0

\* A pass whose token stands in the ledger has seen the event the row is about.
HoldsToken(p) ==
    At(p, "send") \/ At(p, "record") => (Current(p) => wakeEventMatches(Key(p)))

CoveredSeq(s) ==
    \/ journal[s] \notin mail \/ journal[s] \in history.late
    \/ s \in acked
    \/ kind[journal[s]] = "own"
    \/ history.delivered[journal[s]] > 0

Has(p, s) == [seq |-> s, id |-> journal[s]] \in pass[p].keys

\* Between the mark and a candidate that still stands, everything is dealt with
\* or is a candidate of the pass itself.
Reach(p) ==
    reg # NULL /\ pass[p].epoch = reg.epoch =>
        \A k \in pass[p].keys :
            wakeEventMatches(k) =>
                \A s \in 1..tail : reg.mark < s /\ s < k.seq => CoveredSeq(s) \/ Has(p, s)

MarkWithin == reg # NULL => reg.mark <= tail

\* The epochs under which the event at s is or may become a candidate.
Home(s, epoch) ==
    \/ reg # NULL /\ s > reg.mark /\ epoch = reg.epoch
    \/ \E p \in Passes : Has(p, s) /\ epoch = pass[p].epoch

\* There is one: a new registration starts at the journal's tail.
OneHome == \A s \in 1..tail, d, e \in Nat : Home(s, d) /\ Home(s, e) => d = e

Sends(p, i) == At(p, "send") /\ Key(p).id = i
Taken(i) == history.delivered[i] > 0 \/ \E p \in Passes : Sends(p, i)

\* An event that was claimed has its row as long as it is in the journal.
RowKept ==
    \A s \in 1..tail, e \in Nat : Taken(journal[s]) /\ Home(s, e) => <<s, e>> \in DOMAIN ledger

\* An event whose claim never lapsed is sent once or is about to be.
SentOnce ==
    \A i \in Ids \ history.reclaimed :
        /\ history.delivered[i] <= 1
        /\ \A p \in Passes : Sends(p, i) =>
              history.delivered[i] = 0 /\ \A q \in Passes : Sends(q, i) => q = p

PassInv == \A p \in Passes : Earned(p) /\ HoldsToken(p) /\ Reach(p)
ClaimInv == OneHome /\ RowKept /\ SentOnce

\* The inductive invariant.
WakeInv ==
    WakeTypeOK /\ Arrived /\ LedgerOK /\ PassInv /\ MarkWithin /\ MarkCovers /\ ClaimInv /\ NoFreeWake

LEMMA InitWake == Init => WakeInv
<1> SUFFICES ASSUME Init PROVE WakeInv
  OBVIOUS
<1>1. /\ journal = <<>> /\ DOMAIN ledger = {} /\ tail = 0 /\ reg.mark = 0 /\ reg.base = 0
      /\ \A p \in Passes : pass[p].pc = "idle" /\ pass[p].keys = {}
      /\ \A i \in Ids : history.delivered[i] = 0
      /\ history.claims = 0 /\ budget.credits = 0
  BY DEF Init, tail, Idle, Ids
<1>2. Arrived /\ LedgerOK /\ PassInv /\ MarkWithin /\ MarkCovers
  BY <1>1 DEF Arrived, LedgerOK, PassInv, MarkWithin, MarkCovers, Earned, HoldsToken, Reach, At
<1>3. ClaimInv
  BY <1>1 DEF ClaimInv, OneHome, RowKept, SentOnce, Sends, At
<1>4. NoFreeWake
  BY <1>1, WakeAssumption DEF NoFreeWake
<1> QED
  BY <1>2, <1>3, <1>4, InitType DEF WakeInv

-----------------------------------------------------------------------------
(* Steps of a pass that send nothing and claim nothing.                    *)

\* Nothing that arrived, was sent, acknowledged or claimed changes; no pass
\* gets new candidates or comes to send; the mark does not go back.
Quiet(p) ==
    /\ kind' = kind /\ mail' = mail /\ journal' = journal /\ acked' = acked /\ history' = history
    /\ budget' = budget \/ NoFreeWake'
    /\ spent'.events = spent.events
    /\ DOMAIN ledger' = DOMAIN ledger
    /\ reg = NULL => reg' = NULL
    /\ reg # NULL => reg'.epoch = reg.epoch /\ reg'.mark >= reg.mark /\ reg'.base = reg.base
    /\ pass'[p].keys \subseteq pass[p].keys /\ pass'[p].pc # "send"
    /\ pass'[p].keys # {} => pass'[p].epoch = pass[p].epoch
    /\ \A q \in Passes : q # p => pass'[q] = pass[q] /\ Key(q)' = Key(q)
    /\ \A q \in Passes : q # p => (Current(q)' => Current(q))

LEMMA QuietKeeps ==
    ASSUME WakeInv, NEW p \in Passes, WakeTypeOK', Quiet(p)
    PROVE  /\ Arrived' /\ ClaimInv' /\ NoFreeWake'
           /\ \A q \in Passes : q # p => Earned(q)' /\ HoldsToken(q)' /\ Reach(q)'
           /\ tail' = tail
<1> USE DEF Quiet
<1>0. tail' = tail /\ tail \in Nat /\ \A q \in Passes : pass'[q].keys \subseteq pass[q].keys
  <2>1. tail' = tail /\ tail \in Nat
    BY DEF tail, WakeInv, WakeTypeOK
  <2>2. ASSUME NEW q \in Passes PROVE pass'[q].keys \subseteq pass[q].keys
    BY <2>2
  <2> QED
    BY <2>1, <2>2
<1>1. Arrived'
  BY <1>0 DEF WakeInv, Arrived
<1>2. NoFreeWake'
  BY DEF WakeInv, NoFreeWake
<1>3. \A q \in Passes, s \in 1..tail : Has(q, s)' => Has(q, s) /\ pass'[q].epoch = pass[q].epoch
  BY DEF Has
<1>4. reg' # NULL => reg.mark \in Nat /\ reg'.mark \in Nat
  BY DEF WakeInv, WakeTypeOK, Registrations
<1>5. \A s \in 1..tail, e \in Nat : Home(s, e)' => Home(s, e)
  BY <1>3, <1>4 DEF Home
<1>6. \A q \in Passes, i \in Ids : Sends(q, i)' => Sends(q, i)
  BY DEF Sends, At
<1>7. \A i \in Ids : Taken(i)' => Taken(i)
  BY <1>6 DEF Taken
<1>8. \A s \in 1..tail : journal[s] \in Ids
  BY DEF WakeInv, WakeTypeOK, tail
<1>9. ClaimInv'
  <2>1. OneHome'
    BY <1>0, <1>5 DEF WakeInv, ClaimInv, OneHome
  <2>2. RowKept'
    BY <1>0, <1>5, <1>7, <1>8 DEF WakeInv, ClaimInv, RowKept
  <2>3. SentOnce'
    BY <1>6 DEF WakeInv, ClaimInv, SentOnce
  <2> QED
    BY <2>1, <2>2, <2>3 DEF ClaimInv
<1>10. ASSUME NEW q \in Passes, q # p PROVE Earned(q)' /\ HoldsToken(q)' /\ Reach(q)'
  <2>1. Earned(q) /\ HoldsToken(q) /\ Reach(q)
    BY DEF WakeInv, PassInv
  <2>2. Earned(q)'
    BY <1>10, <2>1 DEF Earned, At
  <2>3. HoldsToken(q)'
    BY <1>0, <1>10, <2>1 DEF HoldsToken, At, wakeEventMatches
  <2>4. Reach(q)'
    BY <1>0, <1>4, <1>10, <2>1 DEF Reach, Has, CoveredSeq, wakeEventMatches
  <2> QED
    BY <2>2, <2>3, <2>4
<1> QED
  BY <1>0, <1>1, <1>2, <1>9, <1>10

LEMMA QuietStep ==
    ASSUME WakeInv, NEW p \in Passes, WakeTypeOK', Quiet(p),
           LedgerOK', MarkWithin', MarkCovers', Earned(p)', HoldsToken(p)', Reach(p)'
    PROVE  WakeInv'
<1>1. PassInv'
  BY QuietKeeps DEF PassInv
<1> QED
  BY <1>1, QuietKeeps DEF WakeInv

\* A pass that moves on without a change to the tables.
LEMMA MoveStep ==
    ASSUME WakeInv, NEW p \in Passes, pass[p].keys # {},
           UNCHANGED <<kind, mail, journal, acked, reg, ledger, budget, history>>,
           spent' \in [events : 0..MaxEvents, troubles : Nat], spent'.events = spent.events,
           \/ Over(p)
           \/ NextKey(p) /\ (PastMark(p) \/ (Earned(p) /\ At(p, "advance")))
           \/ \E pc \in {"hold", "claim"} : Goto(p, pc)
           \/ /\ Goto(p, "advance")
              /\ kind[Key(p).id] = "own" \/ history.delivered[Key(p).id] > 0
    PROVE  WakeInv'
<1>t. WakeTypeOK /\ tail' = tail
  BY DEF WakeInv, tail
<1> DEFINE Moved ==
            /\ pass' \in [Passes -> PassStates]
            /\ \A q \in Passes : pass'[q].pc # "idle" => pass'[q].keys # {}
            /\ pass'[p].keys \subseteq pass[p].keys
            /\ pass'[p].pc \notin {"send", "record"}
            /\ pass'[p].keys # {} => pass'[p].epoch = pass[p].epoch
            /\ \A q \in Passes : q # p => pass'[q] = pass[q] /\ Key(q)' = Key(q)
            /\ pass'[p].pc = "advance" => Goto(p, "advance") /\ Key(p)' = Key(p)
            /\ \/ pass'[p].keys = pass[p].keys
               \/ pass'[p].keys = {}
               \/ pass'[p].keys = pass[p].keys \ {Key(p)} /\ NextKey(p)
<1>1. Moved
  <2>1. CASE Over(p)
    BY <1>t, <2>1, OverFacts
  <2>2. CASE NextKey(p)
    BY <1>t, <2>2, NextKeyFacts
  <2>3. ASSUME NEW pc \in {"hold", "claim", "advance"}, Goto(p, pc) PROVE Moved
    BY <1>t, <2>3, GotoFacts
  <2> QED
    BY <2>1, <2>2, <2>3
<1>2. WakeTypeOK'
  BY <1>t, <1>1 DEF WakeTypeOK
<1>3. \A q \in Passes : q # p => (Current(q)' => Current(q))
  BY <1>1 DEF Current, Found, Settled, Row
<1>4. Quiet(p)
  BY <1>t, <1>1, <1>3 DEF Quiet, WakeTypeOK, Registrations
<1>5. LedgerOK' /\ MarkWithin' /\ MarkCovers'
  BY <1>t DEF WakeInv, LedgerOK, MarkWithin, MarkCovers
<1>6. Earned(p)' /\ HoldsToken(p)'
  <2>1. pass'[p].pc = "advance" => kind[Key(p).id] = "own" \/ history.delivered[Key(p).id] > 0
    <3>1. CASE Over(p)
      BY <1>t, <3>1, OverFacts
    <3>2. CASE NextKey(p)
      BY <1>t, <3>2, NextKeyFacts
    <3>3. ASSUME NEW pc \in {"hold", "claim"}, Goto(p, pc) PROVE pass'[p].pc # "advance"
      BY <1>t, <3>3, GotoFacts
    <3> QED
      BY <3>1, <3>2, <3>3
  <2> QED
    BY <1>1, <2>1 DEF Earned, HoldsToken, At
<1>7. Reach(p)'
  <2> SUFFICES ASSUME reg # NULL, pass'[p].epoch = reg.epoch, NEW k \in pass'[p].keys,
                      wakeEventMatches(k), NEW s \in 1..tail, reg.mark < s, s < k.seq
               PROVE  CoveredSeq(s) \/ Has(p, s)'
    BY <1>t DEF Reach, wakeEventMatches, CoveredSeq
  <2>1. CoveredSeq(s) \/ Has(p, s)
    BY <1>1 DEF WakeInv, PassInv, Reach
  <2>2. CASE pass'[p].keys = pass[p].keys
    BY <2>1, <2>2 DEF Has
  <2>3. CASE /\ pass'[p].keys = pass[p].keys \ {Key(p)} /\ NextKey(p)
             /\ Key(p) = [seq |-> s, id |-> journal[s]]
    <3>1. Key(p).seq = s /\ Key(p).id = journal[s]
      BY <2>3
    <3>2. pass[p].epoch = reg.epoch
      BY <1>1
    <3>3. reg.mark \in Nat /\ s \in Nat
      BY <1>t DEF WakeTypeOK, Registrations, tail
    <3>4. ~PastMark(p)
      BY <3>1, <3>2, <3>3 DEF PastMark
    <3>5. CASE Earned(p) /\ At(p, "advance")
      BY <3>1, <3>5 DEF Earned, CoveredSeq
    <3>6. CASE ~(Earned(p) /\ At(p, "advance"))
      <4>1. CASE Over(p)
        BY <1>t, <4>1, OverFacts
      <4>2. CASE \E pc \in {"hold", "claim", "advance"} : Goto(p, pc)
        <5>1. pass'[p].keys = pass[p].keys
          BY <1>t, <4>2, GotoFacts
        <5> QED
          BY <2>1, <5>1 DEF Has
      <4> QED
        BY <3>4, <3>6, <4>1, <4>2
    <3> QED
      BY <3>5, <3>6
  <2> QED
    BY <1>1, <2>1, <2>2, <2>3 DEF Has
<1> QED
  BY <1>2, <1>4, <1>5, <1>6, <1>7, QuietStep

\* The steps of a pass that only move it: judging, a refused claim, a record
\* that fails, and a death.
LEMMA MovingWake ==
    ASSUME WakeInv, NEW p \in Passes, Judge(p) \/ Refused(p) \/ RecordFails(p) \/ Die(p)
    PROVE  WakeInv'
<1>t. WakeTypeOK /\ Earned(p) /\ spent \in [events : 0..MaxEvents, troubles : Nat]
  BY DEF WakeInv, PassInv, WakeTypeOK
<1>1. CASE Judge(p)
  <2>1. pass[p].keys # {}
    BY <1>t, <1>1 DEF WakeTypeOK, Judge, At
  <2>2. /\ UNCHANGED <<kind, mail, journal, acked, reg, ledger, budget, history>> /\ spent' = spent
    BY <1>1 DEF Judge
  <2>3. \/ Over(p)
        \/ NextKey(p) /\ PastMark(p)
        \/ \E pc \in {"hold", "claim"} : Goto(p, pc)
        \/ Goto(p, "advance") /\ kind[Key(p).id] = "own"
    BY <1>1 DEF Judge
  <2> QED
    BY <1>t, <2>1, <2>2, <2>3, MoveStep
<1>2. CASE Refused(p)
  <2>1. pass[p].keys # {}
    BY <1>t, <1>2 DEF WakeTypeOK, Refused, At
  <2>2. /\ UNCHANGED <<kind, mail, journal, acked, reg, ledger, budget, history>> /\ spent' = spent
    BY <1>2 DEF Refused
  <2>3. ASSUME wakeEventMatches(Key(p)), Settled(p) PROVE history.delivered[Key(p).id] > 0
    <3>1. Row(p) \in DOMAIN ledger /\ ledger[Row(p)].outcome = "terminal"
      BY <1>t, <2>3 DEF Settled, Found, WakeTypeOK, Attempts
    <3>2. history.delivered[journal[Row(p)[1]]] > 0
      BY <3>1 DEF WakeInv, LedgerOK
    <3> QED
      BY <2>3, <3>2 DEF Row, wakeEventMatches
  <2>4. \/ Over(p) \/ Goto(p, "hold")
        \/ Goto(p, "advance") /\ history.delivered[Key(p).id] > 0
    BY <1>2, <2>3 DEF Refused
  <2> QED
    BY <1>t, <2>1, <2>2, <2>4, MoveStep
<1>3. CASE RecordFails(p)
  <2>1. pass[p].keys # {} /\ history.delivered[Key(p).id] > 0
    BY <1>t, <1>3 DEF WakeTypeOK, RecordFails, At, Earned
  <2>2. /\ UNCHANGED <<kind, mail, journal, acked, reg, ledger, budget, history>> /\ spent' = spent
        /\ Goto(p, "advance")
    BY <1>3 DEF RecordFails
  <2> QED
    BY <1>t, <2>1, <2>2, MoveStep
<1>4. CASE Die(p)
  <2>1. /\ UNCHANGED <<kind, mail, journal, acked, reg, ledger, budget, history>> /\ Over(p)
        /\ spent' \in [events : 0..MaxEvents, troubles : Nat] /\ spent'.events = spent.events
    BY <1>t, <1>4 DEF Die, Trouble
  <2>2. CASE pass[p].keys # {}
    BY <2>1, <2>2, MoveStep
  <2>3. CASE pass[p].keys = {}
    <3>1. pass[p].pc = "idle"
      BY <1>t, <2>3 DEF WakeTypeOK
    <3>2. /\ pass' \in [Passes -> PassStates]
          /\ \A q \in Passes : pass'[q].pc # "idle" => pass'[q].keys # {}
          /\ pass'[p].pc = "idle" /\ pass'[p].keys = {}
          /\ \A q \in Passes : q # p => pass'[q] = pass[q] /\ Key(q)' = Key(q)
      BY <1>t, <2>1, OverFacts
    <3>3. WakeTypeOK' /\ tail' = tail
      BY <1>t, <2>1, <3>2 DEF WakeTypeOK, tail
    <3>4. \A q \in Passes : q # p => (Current(q)' => Current(q))
      BY <2>1, <3>2 DEF Current, Found, Settled, Row
    <3>5. Quiet(p)
      BY <1>t, <2>1, <2>3, <3>2, <3>4 DEF Quiet, WakeTypeOK, Registrations
    <3>6. LedgerOK' /\ MarkWithin' /\ MarkCovers'
      BY <2>1, <3>3 DEF WakeInv, LedgerOK, MarkWithin, MarkCovers
    <3>7. Earned(p)' /\ HoldsToken(p)' /\ Reach(p)'
      BY <3>2 DEF Earned, HoldsToken, Reach, At
    <3> QED
      BY <3>3, <3>5, <3>6, <3>7, QuietStep
  <2> QED
    BY <2>2, <2>3
<1> QED
  BY <1>1, <1>2, <1>3, <1>4

\* A held candidate blocks the registration.
LEMMA MarkHeldWake ==
    ASSUME WakeInv, NEW p \in Passes, MarkHeld(p)
    PROVE  WakeInv'
<1>t. WakeTypeOK
  BY DEF WakeInv
<1>1. /\ UNCHANGED <<kind, mail, journal, acked, ledger, budget, spent, history>> /\ Over(p)
      /\ reg' = IF Tracked(p) THEN [reg EXCEPT !.hold = TRUE] ELSE reg
  BY DEF MarkHeld
<1>2. /\ pass' \in [Passes -> PassStates]
      /\ \A q \in Passes : pass'[q].pc # "idle" => pass'[q].keys # {}
      /\ pass'[p].pc = "idle" /\ pass'[p].keys = {}
      /\ \A q \in Passes : q # p => pass'[q] = pass[q] /\ Key(q)' = Key(q)
  BY <1>t, <1>1, OverFacts
<1>3. /\ reg' = NULL \/ reg' \in Registrations
      /\ reg = NULL => reg' = NULL
      /\ reg # NULL => reg'.epoch = reg.epoch /\ reg'.mark = reg.mark /\ reg'.base = reg.base
  BY <1>t, <1>1 DEF WakeTypeOK, Registrations, Tracked
<1>4. WakeTypeOK' /\ tail' = tail
  BY <1>t, <1>1, <1>2, <1>3 DEF WakeTypeOK, tail
<1>5. \A q \in Passes : q # p => (Current(q)' => Current(q))
  BY <1>1, <1>2 DEF Current, Found, Settled, Row
<1>6. Quiet(p)
  BY <1>t, <1>1, <1>2, <1>3, <1>5 DEF Quiet, WakeTypeOK, Registrations
<1>7. LedgerOK' /\ MarkWithin' /\ MarkCovers'
  BY <1>1, <1>3, <1>4 DEF WakeInv, LedgerOK, MarkWithin, MarkCovers
<1>8. Earned(p)' /\ HoldsToken(p)' /\ Reach(p)'
  BY <1>2 DEF Earned, HoldsToken, Reach, At
<1> QED
  BY <1>4, <1>6, <1>7, <1>8, QuietStep

\* The result is recorded under the token the pass drew, if it still stands.
LEMMA RecordWake ==
    ASSUME WakeInv, NEW p \in Passes, Record(p)
    PROVE  WakeInv'
<1> DEFINE done == [token |-> NULL, fresh |-> FALSE, outcome |-> "terminal"]
<1>t. WakeTypeOK /\ Earned(p) /\ HoldsToken(p) /\ Reach(p)
  BY DEF WakeInv, PassInv
<1>1. /\ UNCHANGED <<kind, mail, journal, acked, reg, budget, spent, history>> /\ Goto(p, "advance")
      /\ ledger' = IF Current(p) THEN [ledger EXCEPT ![Row(p)] = done] ELSE ledger
      /\ pass[p].keys # {} /\ At(p, "record")
  BY <1>t DEF Record, WakeTypeOK, At
<1>2. /\ pass' \in [Passes -> PassStates]
      /\ \A q \in Passes : pass'[q].pc # "idle" => pass'[q].keys # {}
      /\ pass'[p].pc = "advance" /\ pass'[p].keys = pass[p].keys /\ pass'[p].epoch = pass[p].epoch
      /\ \A q \in Passes : q # p => pass'[q] = pass[q]
      /\ \A q \in Passes : Key(q)' = Key(q)
  BY <1>t, <1>1, GotoFacts
<1>3. /\ DOMAIN ledger' = DOMAIN ledger /\ ledger' \in [DOMAIN ledger -> Attempts]
      /\ \A k \in DOMAIN ledger : k # Row(p) \/ ~Current(p) => ledger'[k] = ledger[k]
      /\ Current(p) => ledger'[Row(p)] = done /\ Row(p) \in DOMAIN ledger
  BY <1>t, <1>1 DEF WakeTypeOK, Attempts, Current, Found
<1>4. WakeTypeOK' /\ tail' = tail
  BY <1>t, <1>1, <1>2, <1>3 DEF WakeTypeOK, tail
<1>5. ASSUME NEW q \in Passes, q # p, Current(q)' PROVE Current(q)
  <2>1. Row(q)' = Row(q)
    BY <1>2, <1>5 DEF Row
  <2>2. Row(q) \in DOMAIN ledger /\ ledger'[Row(q)].token = q /\ ledger'[Row(q)].outcome = "claimed"
    BY <1>3, <1>5, <2>1 DEF Current, Found, Settled
  <2>3. Row(q) # Row(p) \/ ~Current(p)
    BY <1>3, <2>2
  <2> QED
    BY <1>3, <2>2, <2>3 DEF Current, Found, Settled
<1>6. Quiet(p)
  BY <1>t, <1>1, <1>2, <1>3, <1>5 DEF Quiet, WakeTypeOK, Registrations
<1>7. LedgerOK'
  <2> SUFFICES ASSUME NEW k \in DOMAIN ledger
               PROVE  /\ k[1] <= tail
                      /\ ledger'[k].outcome = "terminal" => history.delivered[journal[k[1]]] > 0
    BY <1>1, <1>3, <1>4 DEF LedgerOK
  <2>1. CASE k # Row(p) \/ ~Current(p)
    BY <1>3, <2>1 DEF WakeInv, LedgerOK
  <2>2. CASE k = Row(p) /\ Current(p)
    <3>1. wakeEventMatches(Key(p)) /\ history.delivered[Key(p).id] > 0
      BY <1>t, <1>1, <2>2 DEF HoldsToken, Earned
    <3> QED
      BY <2>2, <3>1 DEF Row, wakeEventMatches, WakeInv, LedgerOK
  <2> QED
    BY <2>1, <2>2
<1>8. MarkWithin' /\ MarkCovers'
  BY <1>1, <1>4 DEF WakeInv, MarkWithin, MarkCovers
<1>9. Earned(p)' /\ HoldsToken(p)' /\ Reach(p)'
  BY <1>t, <1>1, <1>2, <1>4 DEF Earned, HoldsToken, Reach, At, Has, CoveredSeq, wakeEventMatches
<1> QED
  BY <1>4, <1>6, <1>7, <1>8, <1>9, QuietStep

\* The mark moves over the candidate; what lies below was dealt with.
LEMMA AdvanceWake ==
    ASSUME WakeInv, NEW p \in Passes, Advance(p)
    PROVE  WakeInv'
<1>t. WakeTypeOK /\ Earned(p) /\ HoldsToken(p) /\ Reach(p) /\ tail \in Nat
  <2>1. WakeTypeOK /\ Earned(p) /\ HoldsToken(p) /\ Reach(p)
    BY DEF WakeInv, PassInv
  <2>2. tail \in Nat
    BY <2>1 DEF WakeTypeOK, tail
  <2> QED
    BY <2>1, <2>2
<1>1. /\ UNCHANGED <<kind, mail, journal, acked, ledger, budget, spent, history>> /\ NextKey(p)
      /\ pass[p].keys # {} /\ At(p, "advance")
  BY <1>t DEF Advance, WakeTypeOK, At
<1>2. CASE ~Tracked(p) \/ AdvanceRefused(p)
  <2>1. reg' = reg
    BY <1>2 DEF Advance
  <2> QED
    BY <1>t, <1>1, <2>1, MoveStep DEF WakeTypeOK
<1>3. CASE ~(~Tracked(p) \/ AdvanceRefused(p))
  <2> DEFINE k == Key(p)
  <2>1. /\ k \in pass[p].keys /\ \A x \in pass[p].keys : k.seq <= x.seq
        /\ k.seq \in Nat \ {0} /\ k.id \in Ids
    BY <1>t, <1>1, KeyFacts
  <2>2. /\ reg # NULL /\ reg \in Registrations /\ reg.epoch = pass[p].epoch
        /\ k.seq <= tail /\ journal[k.seq] = k.id
        /\ \E b \in BOOLEAN : reg' = [reg EXCEPT !.mark = Higher(@, k.seq), !.hold = b]
    <3>1. /\ reg # NULL /\ reg \in Registrations /\ reg.epoch = pass[p].epoch
          /\ k.seq <= tail /\ journal[k.seq] = k.id
      BY <1>t, <1>3 DEF Tracked, wakeEventMatches, WakeTypeOK
    <3>2. reg' = [reg EXCEPT !.mark = Higher(@, k.seq), !.hold = @ /\ k.seq <= reg.mark]
      BY <1>3 DEF Advance
    <3>3. (reg.hold /\ k.seq <= reg.mark) \in BOOLEAN
      OBVIOUS
    <3> QED
      BY <3>1, <3>2, <3>3
  <2>k. kind[k.id] = "own" \/ history.delivered[k.id] > 0
    BY <1>t, <1>1 DEF Earned
  <2> HIDE DEF k
  <2>3. /\ reg' \in Registrations /\ reg'.epoch = reg.epoch /\ reg'.base = reg.base
        /\ reg'.mark = Higher(reg.mark, k.seq) /\ reg.mark \in Nat /\ reg.base \in Nat
        /\ reg'.mark \in Nat /\ reg'.mark >= reg.mark /\ reg'.mark >= k.seq
        /\ reg'.mark = reg.mark \/ reg'.mark = k.seq
    <3>1. PICK b \in BOOLEAN : reg' = [reg EXCEPT !.mark = Higher(@, k.seq), !.hold = b]
      BY <2>2
    <3>2. /\ reg.mark \in Nat /\ reg.base \in Nat /\ reg.epoch \in Nat
          /\ DOMAIN reg = {"epoch", "mark", "hold", "base"}
          /\ reg = [epoch |-> reg.epoch, mark |-> reg.mark, hold |-> reg.hold, base |-> reg.base]
      BY <2>2 DEF Registrations
    <3>3. /\ Higher(reg.mark, k.seq) \in Nat
          /\ Higher(reg.mark, k.seq) >= reg.mark /\ Higher(reg.mark, k.seq) >= k.seq
          /\ Higher(reg.mark, k.seq) = reg.mark \/ Higher(reg.mark, k.seq) = k.seq
      BY <2>1, <3>2 DEF Higher
    <3>4. /\ reg'.epoch = reg.epoch /\ reg'.base = reg.base /\ reg'.mark = Higher(reg.mark, k.seq)
          /\ reg' \in Registrations
      BY <2>2, <3>1, <3>2, <3>3 DEF Registrations
    <3> QED
      BY <3>2, <3>3, <3>4
  <2>4. /\ pass' \in [Passes -> PassStates]
        /\ \A q \in Passes : pass'[q].pc # "idle" => pass'[q].keys # {}
        /\ pass'[p].pc \in {"idle", "judge"} /\ pass'[p].keys = pass[p].keys \ {k}
        /\ pass'[p].keys # {} => pass'[p].epoch = pass[p].epoch
        /\ \A q \in Passes : q # p => pass'[q] = pass[q] /\ Key(q)' = Key(q)
    BY <1>t, <1>1, NextKeyFacts DEF k
  <2>5. WakeTypeOK' /\ tail' = tail
    BY <1>t, <1>1, <2>3, <2>4 DEF WakeTypeOK, tail
  <2>6. \A q \in Passes : q # p => (Current(q)' => Current(q))
    BY <1>1, <2>4 DEF Current, Found, Settled, Row
  <2>7. Quiet(p)
    BY <1>1, <2>2, <2>3, <2>4, <2>6 DEF Quiet
  <2>8. ASSUME NEW s \in 1..tail, reg.mark < s, s <= reg'.mark PROVE CoveredSeq(s)
    <3>1. reg'.mark = k.seq
      BY <2>3, <2>8
    <3>2. CASE s = k.seq
      BY <2>2, <2>k, <3>2 DEF CoveredSeq
    <3>3. CASE s < k.seq
      <4>1. CoveredSeq(s) \/ Has(p, s)
        BY <1>t, <2>1, <2>2, <2>8, <3>3 DEF Reach, wakeEventMatches
      <4>2. ~Has(p, s)
        BY <2>1, <3>3 DEF Has
      <4> QED
        BY <4>1, <4>2
    <3> QED
      BY <2>1, <2>8, <3>1, <3>2, <3>3
  <2>9. MarkWithin'
    BY <2>2, <2>3, <2>5 DEF WakeInv, MarkWithin
  <2>10. MarkCovers'
    <3> SUFFICES ASSUME NEW s \in (reg'.base + 1)..reg'.mark
                 PROVE  CoveredSeq(s)
      BY <1>1 DEF MarkCovers, CoveredSeq
    <3>1. s \in Nat /\ s >= 1 /\ s <= reg'.mark /\ s >= reg.base + 1
      BY <2>3
    <3>2. reg'.mark <= tail
      BY <2>2, <2>3 DEF WakeInv, MarkWithin
    <3>3. CASE s <= reg.mark
      BY <2>2, <2>3, <3>1, <3>3 DEF WakeInv, MarkCovers, CoveredSeq
    <3>4. CASE s > reg.mark
      <4>1. s \in 1..tail
        BY <1>t, <2>3, <3>1, <3>2
      <4> QED
        BY <2>3, <2>8, <3>1, <3>4, <4>1
    <3> QED
      BY <2>3, <3>1, <3>3, <3>4
  <2>11. LedgerOK'
    BY <1>1, <2>5 DEF WakeInv, LedgerOK
  <2>12. Earned(p)' /\ HoldsToken(p)'
    BY <2>4 DEF Earned, HoldsToken, At
  <2>13. Reach(p)'
    <3> SUFFICES ASSUME NEW x \in pass'[p].keys, wakeEventMatches(x),
                        NEW s \in 1..tail, reg'.mark < s, s < x.seq
                 PROVE  CoveredSeq(s) \/ Has(p, s)'
      BY <1>1, <2>5 DEF Reach, wakeEventMatches, CoveredSeq
    <3>1. reg.mark < s /\ s # k.seq
      BY <2>1, <2>3
    <3>2. CoveredSeq(s) \/ Has(p, s)
      BY <1>t, <2>2, <2>4, <3>1 DEF Reach
    <3> QED
      BY <1>1, <2>4, <3>1, <3>2 DEF Has
  <2> QED
    BY <2>5, <2>7, <2>9, <2>10, <2>11, <2>12, <2>13, QuietStep
<1> QED
  BY <1>2, <1>3

-----------------------------------------------------------------------------
(* Beginning, claiming and sending.                                        *)

LEMMA BeginWake ==
    ASSUME WakeInv, NEW p \in Passes, Scan(p) \/ Reevaluate(p)
    PROVE  WakeInv'
<1>t. WakeTypeOK
  BY DEF WakeInv
<1>1. /\ UNCHANGED <<kind, mail, journal, acked, reg, ledger, budget, spent, history>> /\ Begin(p)
      /\ reg # NULL /\ Candidates # {} /\ At(p, "idle")
  BY DEF Scan, Reevaluate
<1>2. /\ pass' \in [Passes -> PassStates]
      /\ \A q \in Passes : pass'[q].pc # "idle" => pass'[q].keys # {}
      /\ pass'[p].pc = "judge" /\ pass'[p].keys = Candidates /\ pass'[p].epoch = reg.epoch
      /\ \A q \in Passes : q # p => pass'[q] = pass[q] /\ Key(q)' = Key(q)
  BY <1>t, <1>1, BeginFacts
<1>3. WakeTypeOK' /\ tail' = tail
  BY <1>t, <1>1, <1>2 DEF WakeTypeOK, tail
<1>4. \A s \in 1..tail : journal[s] \in Ids
  BY <1>t DEF WakeTypeOK, tail
<1>5. /\ \A k \in Candidates : \E s \in 1..tail : s > reg.mark /\ k.seq = s /\ k.id = journal[s]
      /\ \A s \in 1..tail : s > reg.mark /\ journal[s] \in mail /\ s \notin acked => [seq |-> s, id |-> journal[s]] \in Candidates
  BY DEF Candidates, InboxAbove
<1> HIDE DEF Candidates
<1>6. Arrived'
  <2>1. \A k \in Candidates : k.id <= spent.events
    BY <1>5 DEF WakeInv, Arrived
  <2> QED
    BY <1>1, <1>2, <1>3, <2>1 DEF WakeInv, Arrived
<1>7. LedgerOK' /\ MarkWithin' /\ MarkCovers' /\ NoFreeWake'
  BY <1>1, <1>3 DEF WakeInv, LedgerOK, MarkWithin, MarkCovers, NoFreeWake
<1>8. PassInv'
  <2>1. ASSUME NEW q \in Passes, q # p PROVE Earned(q)' /\ HoldsToken(q)' /\ Reach(q)'
    <3>1. Earned(q) /\ HoldsToken(q) /\ Reach(q)
      BY DEF WakeInv, PassInv
    <3>2. Earned(q)' /\ HoldsToken(q)'
      BY <1>1, <1>2, <1>3, <2>1, <3>1 DEF Earned, HoldsToken, At, wakeEventMatches, Current, Found, Settled, Row
    <3>3. Reach(q)'
      BY <1>1, <1>2, <1>3, <2>1, <3>1 DEF Reach, Has, CoveredSeq, wakeEventMatches
    <3> QED
      BY <3>2, <3>3
  <2>2. Earned(p)' /\ HoldsToken(p)'
    BY <1>2 DEF Earned, HoldsToken, At
  <2>3. Reach(p)'
    BY <1>1, <1>2, <1>3, <1>5 DEF Reach, Has, CoveredSeq, wakeEventMatches
  <2> QED
    BY <2>1, <2>2, <2>3 DEF PassInv
<1>9. \A s \in 1..tail, e \in Nat : Home(s, e)' => Home(s, e)
  <2> SUFFICES ASSUME NEW s \in 1..tail, NEW e \in Nat, Home(s, e)' PROVE Home(s, e)
    OBVIOUS
  <2>1. CASE Has(p, s)' /\ e = pass'[p].epoch
    <3>1. [seq |-> s, id |-> journal[s]] \in Candidates
      BY <1>1, <1>2, <2>1 DEF Has
    <3>2. s > reg.mark
      BY <1>5, <3>1
    <3> QED
      BY <1>1, <1>2, <2>1, <3>2 DEF Home
  <2>2. CASE ~(Has(p, s)' /\ e = pass'[p].epoch)
    BY <1>1, <1>2, <2>2 DEF Home, Has
  <2> QED
    BY <2>1, <2>2
<1>10. \A q \in Passes, i \in Ids : Sends(q, i)' => Sends(q, i)
  BY <1>2 DEF Sends, At
<1>11. \A i \in Ids : Taken(i)' => Taken(i)
  BY <1>1, <1>10 DEF Taken
<1>12. ClaimInv'
  <2>1. OneHome'
    BY <1>3, <1>9 DEF WakeInv, ClaimInv, OneHome
  <2>2. RowKept'
    BY <1>1, <1>3, <1>4, <1>9, <1>11 DEF WakeInv, ClaimInv, RowKept
  <2>3. SentOnce'
    BY <1>1, <1>10 DEF WakeInv, ClaimInv, SentOnce
  <2> QED
    BY <2>1, <2>2, <2>3 DEF ClaimInv
<1> QED
  BY <1>3, <1>6, <1>7, <1>8, <1>12 DEF WakeInv

\* Every claim is charged, also one whose transaction does not commit.
LEMMA ChargeIsOne ==
    ASSUME WakeTypeOK, NoFreeWake, ~OutOfBudget
    PROVE  /\ ChargedBudget \in Budgets /\ ChargedBudget.credits = budget.credits + 1
           /\ history.claims + 1 <= ChargedBudget.credits /\ ChargedBudget.credits <= HourlyLimit
           /\ history.claims <= ChargedBudget.credits
<1>1. budget.credits \in Nat /\ budget.unacked \in Nat /\ history.claims \in Nat
  BY DEF WakeTypeOK, Budgets, Histories
<1>2. Lower(budget.unacked + 1, BackoffAfter) \in Nat
  BY <1>1, WakeAssumption DEF Lower
<1> HIDE DEF Lower
<1>3. ChargedBudget \in Budgets /\ ChargedBudget.credits = budget.credits + 1
  BY <1>1, <1>2 DEF ChargedBudget, Budgets
<1> QED
  BY <1>1, <1>3, WakeAssumption DEF NoFreeWake, OutOfBudget

\* The row of a claim.
LEMMA AttemptFacts ==
    ASSUME WakeInv, NEW p \in Passes, Claimable(p), writeWakeAttempt(p)
    PROVE  /\ pass[p].keys # {} /\ Has(p, Key(p).seq) /\ Key(p).seq \in 1..tail
           /\ journal[Key(p).seq] = Key(p).id /\ Row(p) = <<Key(p).seq, pass[p].epoch>>
           /\ DOMAIN ledger' = DOMAIN ledger \cup {Row(p)}
           /\ ledger' \in [DOMAIN ledger' -> Attempts] /\ DOMAIN ledger' \subseteq (Nat \ {0}) \X Nat
           /\ ledger'[Row(p)].outcome = "claimed" /\ ledger'[Row(p)].token = p
           /\ \A k \in DOMAIN ledger : k # Row(p) => ledger'[k] = ledger[k]
           /\ history' \in Histories
           /\ history'.delivered = history.delivered /\ history'.claims = history.claims + 1
           /\ history'.late = history.late
           /\ history.reclaimed \subseteq history'.reclaimed
           /\ history'.reclaimed \subseteq history.reclaimed \cup {Key(p).id}
           /\ Taken(Key(p).id) => Key(p).id \in history'.reclaimed
<1>t. WakeTypeOK
  BY DEF WakeInv
<1>1. pass[p].keys # {} /\ pass[p].epoch \in Nat
  BY <1>t DEF Claimable, At, WakeTypeOK, PassStates
<1>2. /\ Key(p) \in pass[p].keys /\ Key(p) \in KeyRows
      /\ Key(p).seq \in Nat \ {0} /\ Key(p).id \in Ids
  BY <1>t, <1>1, KeyFacts
<1>3. Key(p).seq <= tail /\ journal[Key(p).seq] = Key(p).id /\ tail \in Nat
  BY <1>t DEF Claimable, wakeEventMatches, WakeTypeOK, tail
<1>4. Has(p, Key(p).seq)
  <2>1. Key(p) = [seq |-> Key(p).seq, id |-> Key(p).id]
    BY <1>2 DEF KeyRows
  <2> QED
    BY <1>2, <1>3, <2>1 DEF Has
<1>5. Row(p) = <<Key(p).seq, pass[p].epoch>>
  BY DEF Row
<1>6. /\ DOMAIN ledger' = DOMAIN ledger \cup {Row(p)}
      /\ ledger' \in [DOMAIN ledger' -> Attempts]
      /\ ledger'[Row(p)] = [token |-> p, fresh |-> TRUE, outcome |-> "claimed"]
      /\ \A k \in DOMAIN ledger : k # Row(p) => ledger'[k] = ledger[k]
  BY <1>t DEF writeWakeAttempt, WakeTypeOK, Attempts
<1>7. DOMAIN ledger' \subseteq (Nat \ {0}) \X Nat
  BY <1>t, <1>1, <1>2, <1>5, <1>6 DEF WakeTypeOK
<1>8. /\ history' \in Histories /\ history'.delivered = history.delivered
      /\ history'.claims = history.claims + 1 /\ history'.late = history.late
      /\ history'.reclaimed = IF Found(p) /\ ~ledger[Row(p)].fresh
                              THEN history.reclaimed \cup {Key(p).id} ELSE history.reclaimed
  <2> DEFINE R == IF Found(p) /\ ~ledger[Row(p)].fresh
                  THEN history.reclaimed \cup {Key(p).id} ELSE history.reclaimed
  <2>1. history' = [history EXCEPT !.claims = @ + 1, !.reclaimed = R]
    BY DEF writeWakeAttempt
  <2>2. R \in SUBSET Ids /\ history \in Histories
    BY <1>t, <1>2 DEF WakeTypeOK, Histories
  <2> HIDE DEF R
  <2>3. /\ history' \in Histories /\ history'.delivered = history.delivered
        /\ history'.claims = history.claims + 1 /\ history'.reclaimed = R
        /\ history'.late = history.late
    <3>1. /\ history = [delivered |-> history.delivered, reclaimed |-> history.reclaimed,
                        claims |-> history.claims, late |-> history.late]
          /\ history.delivered \in [Ids -> 0..2] /\ history.claims \in Nat
      BY <2>2 DEF Histories
    <3>2. history' = [delivered |-> history.delivered, reclaimed |-> R,
                      claims |-> history.claims + 1, late |-> history.late]
      BY <2>1, <3>1
    <3> QED
      BY <2>2, <3>1, <3>2 DEF Histories
  <2> QED
    BY <2>3 DEF R
<1>9. ASSUME Taken(Key(p).id) PROVE Key(p).id \in history'.reclaimed
  <2>1. Home(Key(p).seq, pass[p].epoch)
    BY <1>4 DEF Home
  <2>2. Row(p) \in DOMAIN ledger
    BY <1>1, <1>2, <1>3, <1>5, <1>9, <2>1 DEF WakeInv, ClaimInv, RowKept
  <2>3. Found(p) /\ ~ledger[Row(p)].fresh
    BY <2>2 DEF Claimable, Found, InFlight
  <2> QED
    BY <1>8, <2>3
<1> QED
  BY <1>1, <1>2, <1>3, <1>4, <1>5, <1>6, <1>7, <1>8, <1>9

\* What a claim leaves of the invariant, whether the pass goes on to send or
\* dies at once.
LEMMA AttemptKeeps ==
    ASSUME WakeInv, NEW p \in Passes, Claimable(p), ~OutOfBudget, writeWakeAttempt(p),
           UNCHANGED <<kind, mail, journal, acked, reg>>,
           budget' = ChargedBudget,
           spent' \in [events : 0..MaxEvents, troubles : Nat], spent'.events = spent.events,
           Goto(p, "send") \/ Over(p)
    PROVE  WakeInv'
<1> DEFINE i == Key(p).id
           r == Row(p)
<1>t. WakeTypeOK
  BY DEF WakeInv
<1>1. /\ pass[p].keys # {} /\ Has(p, Key(p).seq) /\ Key(p).seq \in 1..tail
      /\ journal[Key(p).seq] = i /\ r = <<Key(p).seq, pass[p].epoch>>
      /\ DOMAIN ledger' = DOMAIN ledger \cup {r}
      /\ ledger' \in [DOMAIN ledger' -> Attempts] /\ DOMAIN ledger' \subseteq (Nat \ {0}) \X Nat
      /\ ledger'[r].outcome = "claimed" /\ ledger'[r].token = p
      /\ \A k \in DOMAIN ledger : k # r => ledger'[k] = ledger[k]
      /\ history' \in Histories
      /\ history'.delivered = history.delivered /\ history'.claims = history.claims + 1
      /\ history'.late = history.late
      /\ history.reclaimed \subseteq history'.reclaimed
      /\ Taken(i) => i \in history'.reclaimed
  BY AttemptFacts
<1>2. /\ pass' \in [Passes -> PassStates]
      /\ \A q \in Passes : pass'[q].pc # "idle" => pass'[q].keys # {}
      /\ pass'[p].pc \in {"send", "idle"}
      /\ pass'[p].keys = {} \/ (pass'[p].keys = pass[p].keys /\ pass'[p].epoch = pass[p].epoch)
      /\ \A q \in Passes : q # p => pass'[q] = pass[q] /\ Key(q)' = Key(q)
      /\ pass'[p].pc = "send" => Key(p)' = Key(p) /\ pass'[p].epoch = pass[p].epoch
  <2>1. CASE Goto(p, "send")
    BY <1>t, <1>1, <2>1, GotoFacts
  <2>2. CASE Over(p)
    BY <1>t, <2>2, OverFacts
  <2> QED
    BY <2>1, <2>2
<1>3. At(p, "claim") /\ wakeEventMatches(Key(p)) /\ i \in Ids
  BY <1>t, <1>1, KeyFacts DEF Claimable
<1>4. /\ ChargedBudget \in Budgets /\ history.claims + 1 <= ChargedBudget.credits
      /\ ChargedBudget.credits <= HourlyLimit
  BY <1>t, ChargeIsOne DEF WakeInv
<1>5. WakeTypeOK' /\ tail' = tail /\ NoFreeWake'
  BY <1>t, <1>1, <1>2, <1>4 DEF WakeTypeOK, tail, NoFreeWake
<1>6. Arrived'
  <2>1. \A q \in Passes : pass'[q].keys \subseteq pass[q].keys
    BY <1>2
  <2> QED
    BY <1>1, <1>5, <2>1 DEF WakeInv, Arrived
<1> HIDE DEF i, r
<1>7. LedgerOK' /\ MarkWithin' /\ MarkCovers'
  <2>1. r[1] <= tail
    BY <1>1
  <2>2. LedgerOK'
    BY <1>1, <1>5, <2>1 DEF WakeInv, LedgerOK
  <2> QED
    BY <1>1, <1>5, <2>2 DEF WakeInv, MarkWithin, MarkCovers
<1>8. PassInv'
  <2>1. ASSUME NEW q \in Passes, q # p PROVE Earned(q)' /\ HoldsToken(q)' /\ Reach(q)'
    <3>1. Earned(q) /\ HoldsToken(q) /\ Reach(q)
      BY DEF WakeInv, PassInv
    <3>2. Earned(q)'
      BY <1>1, <1>2, <2>1, <3>1 DEF Earned, At
    <3>3. Current(q)' => Current(q)
      <4>1. Row(q)' = Row(q)
        BY <1>2, <2>1 DEF Row
      <4> QED
        BY <1>1, <2>1, <4>1 DEF Current, Found, Settled
    <3>4. HoldsToken(q)'
      BY <1>2, <1>5, <2>1, <3>1, <3>3 DEF HoldsToken, At, wakeEventMatches
    <3>5. Reach(q)'
      BY <1>1, <1>2, <1>5, <2>1, <3>1 DEF Reach, Has, CoveredSeq, wakeEventMatches
    <3> QED
      BY <3>2, <3>4, <3>5
  <2>2. Earned(p)'
    BY <1>2 DEF Earned, At
  <2>3. HoldsToken(p)'
    BY <1>2, <1>3, <1>5 DEF HoldsToken, At, wakeEventMatches
  <2>4. Reach(p)'
    BY <1>1, <1>2, <1>5 DEF WakeInv, PassInv, Reach, Has, CoveredSeq, wakeEventMatches
  <2> QED
    BY <2>1, <2>2, <2>3, <2>4 DEF PassInv
<1>9. \A s \in 1..tail, e \in Nat : Home(s, e)' => Home(s, e)
  BY <1>2 DEF Home, Has
<1>10. \A q \in Passes, j \in Ids : Sends(q, j)' => Sends(q, j) \/ (q = p /\ j = i)
  BY <1>2 DEF Sends, At, i
<1>11. \A j \in Ids : j # i => (Taken(j)' => Taken(j))
  BY <1>1, <1>10 DEF Taken
<1>12. \A q \in Passes : ~Sends(p, i)
  BY <1>3 DEF Sends, At
<1>13. OneHome'
  BY <1>5, <1>9 DEF WakeInv, ClaimInv, OneHome
<1>14. RowKept'
  <2> SUFFICES ASSUME NEW s \in 1..tail, NEW e \in Nat, Taken(journal[s])', Home(s, e)
               PROVE  <<s, e>> \in DOMAIN ledger'
    BY <1>5, <1>9 DEF RowKept
  <2>1. journal[s] \in Ids
    BY <1>t DEF WakeTypeOK, tail
  <2>2. CASE journal[s] # i
    <3>1. Taken(journal[s])
      <4>1. ASSUME NEW j \in Ids, j # i, Taken(j)' PROVE Taken(j)
        BY <1>11, <4>1
      <4>2. Taken(journal[s])' => \E j \in Ids : j = journal[s] /\ Taken(j)'
        BY <2>1 DEF Taken, Sends
      <4> QED
        BY <2>1, <2>2, <4>1, <4>2
    <3> QED
      BY <1>1, <3>1 DEF WakeInv, ClaimInv, RowKept
  <2>3. CASE journal[s] = i
    <3>1. s = Key(p).seq
      BY <1>1, <2>3 DEF WakeInv, Arrived
    <3>2. pass[p].epoch \in Nat
      BY <1>t DEF WakeTypeOK, PassStates
    <3>3. Home(s, pass[p].epoch)
      BY <1>1, <3>1 DEF Home
    <3>4. e = pass[p].epoch
      BY <3>2, <3>3 DEF WakeInv, ClaimInv, OneHome
    <3> QED
      BY <1>1, <3>1, <3>4
  <2> QED
    BY <2>2, <2>3
<1>15. SentOnce'
  <2> SUFFICES ASSUME NEW j \in Ids \ history'.reclaimed
               PROVE  /\ history.delivered[j] <= 1
                      /\ \A q \in Passes : Sends(q, j)' =>
                            history.delivered[j] = 0 /\ \A x \in Passes : Sends(x, j)' => x = q
    BY <1>1 DEF SentOnce
  <2>1. j \in Ids \ history.reclaimed
    BY <1>1
  <2>2. /\ history.delivered[j] <= 1
        /\ \A q \in Passes : Sends(q, j) =>
              history.delivered[j] = 0 /\ \A x \in Passes : Sends(x, j) => x = q
    BY <2>1 DEF WakeInv, ClaimInv, SentOnce
  <2>3. CASE j # i
    BY <1>10, <2>2, <2>3
  <2>4. CASE j = i
    <3>1. ~Taken(j)
      BY <1>1, <2>4
    <3>2. ~(history.delivered[j] > 0) /\ \A q \in Passes : ~Sends(q, j)
      BY <3>1 DEF Taken
    <3>3. history.delivered[j] \in 0..2
      BY <1>t DEF WakeTypeOK, Histories
    <3>4. \A q \in Passes : Sends(q, j)' => q = p
      BY <1>10, <3>2
    <3> QED
      BY <3>2, <3>3, <3>4
  <2> QED
    BY <2>3, <2>4
<1> QED
  BY <1>5, <1>6, <1>7, <1>8, <1>13, <1>14, <1>15 DEF WakeInv, ClaimInv

LEMMA ClaimWake ==
    ASSUME WakeInv, NEW p \in Passes, Claim(p) \/ ClaimFails(p)
    PROVE  WakeInv'
<1>t. WakeTypeOK /\ spent \in [events : 0..MaxEvents, troubles : Nat]
  BY DEF WakeInv, WakeTypeOK
<1>1. CASE Claim(p)
  <2>1. /\ Claimable(p) /\ ~OutOfBudget /\ writeWakeAttempt(p) /\ budget' = ChargedBudget
        /\ UNCHANGED <<kind, mail, journal, acked, reg, spent>> /\ Goto(p, "send")
    BY <1>1 DEF Claim
  <2> QED
    BY <1>t, <2>1, AttemptKeeps
<1>2. CASE ClaimFails(p)
  <2>1. /\ Claimable(p) /\ ~OutOfBudget /\ budget' = ChargedBudget
        /\ UNCHANGED <<kind, mail, journal, acked, reg>> /\ Over(p)
        /\ writeWakeAttempt(p) \/ UNCHANGED <<ledger, history>>
    BY <1>2 DEF ClaimFails, PendingCharge
  <2>2. spent' \in [events : 0..MaxEvents, troubles : Nat] /\ spent'.events = spent.events
    BY <1>t, <1>2 DEF ClaimFails, Trouble
  <2>3. CASE writeWakeAttempt(p)
    BY <2>1, <2>2, <2>3, AttemptKeeps
  <2>4. CASE UNCHANGED <<ledger, history>>
    <3>1. /\ pass' \in [Passes -> PassStates]
          /\ \A q \in Passes : pass'[q].pc # "idle" => pass'[q].keys # {}
          /\ pass'[p].pc = "idle" /\ pass'[p].keys = {}
          /\ \A q \in Passes : q # p => pass'[q] = pass[q] /\ Key(q)' = Key(q)
      BY <1>t, <2>1, OverFacts
    <3>2. /\ ChargedBudget \in Budgets /\ history.claims <= ChargedBudget.credits
          /\ ChargedBudget.credits <= HourlyLimit
      BY <1>t, <2>1, ChargeIsOne DEF WakeInv
    <3>3. WakeTypeOK' /\ tail' = tail /\ NoFreeWake'
      BY <1>t, <2>1, <2>2, <2>4, <3>1, <3>2 DEF WakeTypeOK, tail, NoFreeWake
    <3>4. \A q \in Passes : q # p => (Current(q)' => Current(q))
      BY <2>4, <3>1 DEF Current, Found, Settled, Row
    <3>5. Quiet(p)
      BY <1>t, <2>1, <2>2, <2>4, <3>1, <3>3, <3>4 DEF Quiet, WakeTypeOK, Registrations
    <3>6. LedgerOK' /\ MarkWithin' /\ MarkCovers'
      BY <2>1, <2>4, <3>3 DEF WakeInv, LedgerOK, MarkWithin, MarkCovers
    <3>7. Earned(p)' /\ HoldsToken(p)' /\ Reach(p)'
      BY <3>1 DEF Earned, HoldsToken, Reach, At
    <3> QED
      BY <3>3, <3>5, <3>6, <3>7, QuietStep
  <2> QED
    BY <2>1, <2>3, <2>4
<1> QED
  BY <1>1, <1>2

LEMMA DeliverWake ==
    ASSUME WakeInv, NEW p \in Passes, Deliver(p)
    PROVE  WakeInv'
<1> DEFINE i == Key(p).id
           n == Lower(history.delivered[i] + 1, 2)
<1>t. WakeTypeOK
  BY DEF WakeInv
<1>1. /\ UNCHANGED <<kind, mail, journal, acked, reg, ledger, budget, spent>> /\ Goto(p, "record")
      /\ pass[p].keys # {} /\ At(p, "send")
      /\ history' = [history EXCEPT !.delivered[Key(p).id] = Lower(@ + 1, 2)]
  BY <1>t DEF Deliver, WakeTypeOK, At
<1>2. /\ pass' \in [Passes -> PassStates]
      /\ \A q \in Passes : pass'[q].pc # "idle" => pass'[q].keys # {}
      /\ pass'[p].pc = "record" /\ pass'[p].keys = pass[p].keys /\ pass'[p].epoch = pass[p].epoch
      /\ \A q \in Passes : q # p => pass'[q] = pass[q]
      /\ \A q \in Passes : Key(q)' = Key(q)
  BY <1>t, <1>1, GotoFacts
<1>3. i \in Ids /\ Key(p) \in pass[p].keys
  BY <1>t, <1>1, KeyFacts
<1>4. /\ history' \in Histories
      /\ history'.reclaimed = history.reclaimed /\ history'.claims = history.claims
      /\ history'.late = history.late
      /\ \A j \in Ids : history'.delivered[j] = IF j = i THEN n ELSE history.delivered[j]
      /\ n \in 1..2 /\ (history.delivered[i] = 0 => n = 1)
      /\ \A j \in Ids : history.delivered[j] \in 0..2
  <2>1. /\ history = [delivered |-> history.delivered, reclaimed |-> history.reclaimed,
                      claims |-> history.claims, late |-> history.late]
        /\ history.delivered \in [Ids -> 0..2] /\ history.claims \in Nat
        /\ history.reclaimed \in SUBSET Ids /\ history.late \in SUBSET Ids
    BY <1>t DEF WakeTypeOK, Histories
  <2>2. n \in 1..2 /\ (history.delivered[i] = 0 => n = 1)
    BY <1>3, <2>1 DEF Lower
  <2>3. history' = [delivered |-> [history.delivered EXCEPT ![i] = n],
                    reclaimed |-> history.reclaimed, claims |-> history.claims,
                    late |-> history.late]
    <3>1. history' = [history EXCEPT !.delivered = [@ EXCEPT ![i] = n]]
      BY <1>1, <1>3, <2>1
    <3> HIDE DEF n, i
    <3> QED
      BY <2>1, <3>1
  <2> HIDE DEF n, i
  <2>4. /\ [history.delivered EXCEPT ![i] = n] \in [Ids -> 0..2]
        /\ \A j \in Ids : [history.delivered EXCEPT ![i] = n][j] = IF j = i THEN n ELSE history.delivered[j]
    BY <1>3, <2>1, <2>2
  <2> QED
    BY <2>1, <2>2, <2>3, <2>4 DEF Histories
<1> HIDE DEF n
<1>5. WakeTypeOK' /\ tail' = tail /\ NoFreeWake'
  BY <1>t, <1>1, <1>2, <1>4 DEF WakeInv, WakeTypeOK, tail, NoFreeWake
<1>6. \A j \in Ids : history.delivered[j] > 0 => history'.delivered[j] > 0
  BY <1>4
<1>7. /\ \A s \in 1..tail : journal[s] \in Ids
      /\ \A q \in Passes : pass[q].keys # {} => Key(q).id \in Ids
  BY <1>t, KeyFacts DEF WakeTypeOK, tail
<1>8. Arrived'
  <2>1. i <= spent.events
    BY <1>3 DEF WakeInv, Arrived
  <2>2. \A j \in Ids : history'.delivered[j] > 0 => j <= spent.events
    BY <1>4, <2>1 DEF WakeInv, Arrived
  <2>3. \A q \in Passes : pass'[q].keys = pass[q].keys
    BY <1>2
  <2> QED
    BY <1>1, <1>5, <2>2, <2>3 DEF WakeInv, Arrived
<1>9. \A s \in 1..tail : CoveredSeq(s) => CoveredSeq(s)'
  BY <1>1, <1>4, <1>6, <1>7 DEF CoveredSeq
<1>10. LedgerOK'
  <2>1. \A k \in DOMAIN ledger : k[1] \in 1..tail
    BY <1>t DEF WakeInv, LedgerOK, WakeTypeOK, tail
  <2> QED
    BY <1>1, <1>5, <1>6, <1>7, <2>1 DEF WakeInv, LedgerOK
<1>11. MarkWithin' /\ MarkCovers'
  <2>1. MarkWithin'
    BY <1>1, <1>5 DEF WakeInv, MarkWithin
  <2>2. reg # NULL => \A s \in (reg.base + 1)..reg.mark : s \in 1..tail
    BY <1>t DEF WakeInv, MarkWithin, WakeTypeOK, Registrations, tail
  <2> QED
    BY <1>1, <1>4, <1>6, <1>7, <2>1, <2>2 DEF WakeInv, MarkCovers
<1>12. PassInv'
  <2>1. ASSUME NEW q \in Passes PROVE Earned(q)' /\ HoldsToken(q)' /\ Reach(q)'
    <3>1. Earned(q) /\ HoldsToken(q) /\ Reach(q)
      BY DEF WakeInv, PassInv
    <3>2. Earned(q)'
      <4>1. CASE q = p
        BY <1>2, <1>3, <1>4, <4>1 DEF Earned, At
      <4>2. CASE q # p
        <5>1. pass[q].pc # "idle" => Key(q).id \in Ids
          BY <1>t, <1>7 DEF WakeTypeOK
        <5> QED
          BY <1>1, <1>2, <1>6, <3>1, <4>2, <5>1 DEF Earned, At
      <4> QED
        BY <4>1, <4>2
    <3>3. HoldsToken(q)'
      <4>1. Current(q)' = Current(q)
        BY <1>1, <1>2 DEF Current, Found, Settled, Row
      <4> QED
        BY <1>1, <1>2, <1>5, <3>1, <4>1 DEF HoldsToken, At, wakeEventMatches
    <3>4. Reach(q)'
      <4>1. pass'[q].keys = pass[q].keys /\ pass'[q].epoch = pass[q].epoch
        BY <1>2
      <4>2. \A s \in 1..tail : Has(q, s)' = Has(q, s)
        BY <1>1, <4>1 DEF Has
      <4> QED
        BY <1>1, <1>5, <1>9, <3>1, <4>1, <4>2 DEF Reach, wakeEventMatches
    <3> QED
      BY <3>2, <3>3, <3>4
  <2> QED
    BY <2>1 DEF PassInv
<1>13. \A s \in 1..tail, e \in Nat : Home(s, e)' => Home(s, e)
  BY <1>1, <1>2 DEF Home, Has
<1>14. \A q \in Passes, j \in Ids : Sends(q, j)' => Sends(q, j) /\ q # p
  BY <1>2 DEF Sends, At
<1>15. Sends(p, i)
  BY <1>1 DEF Sends
<1> HIDE DEF i
<1>16. \A j \in Ids : Taken(j)' => Taken(j)
  BY <1>4, <1>14, <1>15 DEF Taken
<1>17. OneHome'
  BY <1>5, <1>13 DEF WakeInv, ClaimInv, OneHome
<1>18. RowKept'
  BY <1>1, <1>5, <1>7, <1>13, <1>16 DEF WakeInv, ClaimInv, RowKept
<1>19. SentOnce'
  <2> SUFFICES ASSUME NEW j \in Ids \ history.reclaimed
               PROVE  /\ history'.delivered[j] <= 1
                      /\ \A q \in Passes : Sends(q, j)' =>
                            history'.delivered[j] = 0 /\ \A x \in Passes : Sends(x, j)' => x = q
    BY <1>4 DEF SentOnce
  <2>1. /\ history.delivered[j] <= 1
        /\ \A q \in Passes : Sends(q, j) =>
              history.delivered[j] = 0 /\ \A x \in Passes : Sends(x, j) => x = q
    BY DEF WakeInv, ClaimInv, SentOnce
  <2>2. CASE j = i
    <3>1. \A x \in Passes : ~Sends(x, j)'
      BY <1>14, <1>15, <2>1, <2>2
    <3>2. history.delivered[i] = 0
      BY <1>15, <2>1, <2>2
    <3> QED
      BY <1>4, <2>2, <3>1, <3>2
  <2>3. CASE j # i
    BY <1>4, <1>14, <2>1, <2>3
  <2> QED
    BY <2>2, <2>3
<1> QED
  BY <1>5, <1>8, <1>10, <1>11, <1>12, <1>17, <1>18, <1>19 DEF WakeInv, ClaimInv

-----------------------------------------------------------------------------
(* What goes on around the passes.                                         *)

\* Steps that leave the journal and the passes alone; a registration that
\* changes at all ends, or starts at the tail, and an event that becomes mail
\* is late unless the mark and all passes are below it.
LEMMA AroundWake ==
    ASSUME WakeInv, WakeTypeOK', NoFreeWake',
           UNCHANGED <<kind, journal, pass>>, acked \subseteq acked',
           history.late \subseteq history'.late,
           \A s \in 1..tail : journal[s] \in mail' =>
               journal[s] \in mail \/ journal[s] \in history'.late \/ ~Passed(s),
           history'.delivered = history.delivered, history'.reclaimed = history.reclaimed,
           spent'.events = spent.events, DOMAIN ledger' = DOMAIN ledger,
           \A k \in DOMAIN ledger : ledger'[k].token = ledger[k].token
                                    /\ ledger'[k].outcome = ledger[k].outcome,
           reg' = NULL \/ reg' = reg \/ (reg'.mark = tail /\ reg'.base = tail)
    PROVE  WakeInv'
<1>1. tail' = tail /\ tail \in Nat
  BY DEF WakeInv, WakeTypeOK, tail
<1>2. \A q \in Passes : Key(q)' = Key(q) /\ Row(q)' = Row(q)
  BY DEF Key, Row
<1>3. \A q \in Passes : Current(q)' = Current(q)
  BY <1>2 DEF Current, Found, Settled
<1>4. Arrived'
  BY <1>1 DEF WakeInv, Arrived
<1>5. LedgerOK'
  BY <1>1 DEF WakeInv, LedgerOK
<1>6. MarkWithin' /\ MarkCovers'
  <2>1. CASE reg' = NULL
    BY <2>1 DEF MarkWithin, MarkCovers
  <2>2. CASE reg' = reg /\ reg # NULL
    <3> SUFFICES ASSUME NEW s \in (reg.base + 1)..reg.mark PROVE CoveredSeq(s)'
      BY <1>1, <2>2 DEF WakeInv, MarkWithin, MarkCovers, CoveredSeq
    <3>1. s \in 1..tail /\ s <= reg.mark
      BY <1>1, <2>2 DEF WakeInv, WakeTypeOK, Registrations, MarkWithin
    <3>2. CoveredSeq(s)
      BY <2>2 DEF WakeInv, MarkCovers, CoveredSeq
    <3>3. Passed(s)
      BY <2>2, <3>1 DEF Passed
    <3> QED
      BY <3>1, <3>2, <3>3 DEF CoveredSeq
  <2>3. CASE reg'.mark = tail /\ reg'.base = tail
    <3>1. \A s \in (tail + 1)..tail : FALSE
      BY <1>1
    <3> QED
      BY <1>1, <2>3, <3>1 DEF MarkWithin, MarkCovers
  <2> QED
    BY <2>1, <2>2, <2>3
<1>7. PassInv'
  <2>1. ASSUME NEW q \in Passes PROVE Earned(q)' /\ HoldsToken(q)' /\ Reach(q)'
    <3>1. Earned(q) /\ HoldsToken(q) /\ Reach(q)
      BY DEF WakeInv, PassInv
    <3>2. Earned(q)' /\ HoldsToken(q)'
      BY <1>1, <1>2, <1>3, <3>1 DEF Earned, HoldsToken, At, wakeEventMatches
    <3>3. Reach(q)'
      <4> SUFFICES ASSUME reg' # NULL, pass[q].epoch = reg'.epoch, NEW k \in pass[q].keys,
                          wakeEventMatches(k), NEW s \in 1..tail, reg'.mark < s, s < k.seq
                   PROVE  CoveredSeq(s)' \/ Has(q, s)'
        BY <1>1 DEF Reach, wakeEventMatches
      <4>1. reg' = reg
        BY <1>1
      <4>2. CoveredSeq(s) \/ Has(q, s)
        BY <3>1, <4>1 DEF Reach
      <4>3. Passed(s)
        BY <4>1 DEF Passed
      <4> QED
        BY <4>2, <4>3 DEF CoveredSeq, Has
    <3> QED
      BY <3>2, <3>3
  <2> QED
    BY <2>1 DEF PassInv
<1>8. \A s \in 1..tail, e \in Nat : Home(s, e)' => Home(s, e)
  BY <1>1 DEF Home, Has
<1>9. \A q \in Passes, i \in Ids : Sends(q, i)' = Sends(q, i)
  BY <1>2 DEF Sends, At
<1>10. \A i \in Ids : Taken(i)' = Taken(i)
  BY <1>9 DEF Taken
<1>11. \A s \in 1..tail : journal[s] \in Ids
  BY DEF WakeInv, WakeTypeOK, tail
<1>12. ClaimInv'
  <2>1. OneHome'
    BY <1>1, <1>8 DEF WakeInv, ClaimInv, OneHome
  <2>2. RowKept'
    BY <1>1, <1>8, <1>10, <1>11 DEF WakeInv, ClaimInv, RowKept
  <2>3. SentOnce'
    BY <1>9 DEF WakeInv, ClaimInv, SentOnce
  <2> QED
    BY <2>1, <2>2, <2>3 DEF ClaimInv
<1> QED
  BY <1>4, <1>5, <1>6, <1>7, <1>12 DEF WakeInv

\* A minute or an hour makes claims older and nothing else.
LEMMA OlderRows ==
    ASSUME WakeTypeOK, ledger' = [k \in DOMAIN ledger |-> [ledger[k] EXCEPT !.fresh = FALSE]]
    PROVE  /\ DOMAIN ledger' = DOMAIN ledger /\ ledger' \in [DOMAIN ledger' -> Attempts]
           /\ \A k \in DOMAIN ledger : /\ ledger'[k].token = ledger[k].token
                                       /\ ledger'[k].outcome = ledger[k].outcome
BY DEF WakeTypeOK, Attempts

LEMMA TimeWake ==
    ASSUME WakeInv, Lapse \/ Hour
    PROVE  WakeInv'
<1>t. WakeTypeOK
  BY DEF WakeInv
<1>1. /\ UNCHANGED <<kind, mail, journal, acked, reg, pass, spent>>
      /\ ledger' = [k \in DOMAIN ledger |-> [ledger[k] EXCEPT !.fresh = FALSE]]
  BY DEF Lapse, Hour
<1>2. /\ DOMAIN ledger' = DOMAIN ledger /\ ledger' \in [DOMAIN ledger' -> Attempts]
      /\ \A k \in DOMAIN ledger : /\ ledger'[k].token = ledger[k].token
                                  /\ ledger'[k].outcome = ledger[k].outcome
  BY <1>t, <1>1, OlderRows
<1>3. CASE Lapse
  <2>1. history' = history /\ budget' = [budget EXCEPT !.cooling = FALSE]
    BY <1>3 DEF Lapse
  <2>2. budget' \in Budgets /\ budget'.credits = budget.credits
    BY <1>t, <2>1 DEF WakeTypeOK, Budgets
  <2>3. NoFreeWake'
    BY <2>1, <2>2 DEF WakeInv, NoFreeWake
  <2>4. WakeTypeOK'
    BY <1>t, <1>1, <1>2, <2>1, <2>2 DEF WakeTypeOK
  <2> QED
    BY <1>1, <1>2, <2>1, <2>3, <2>4, AroundWake
<1>4. CASE Hour
  <2>1. /\ history' = [history EXCEPT !.claims = 0]
        /\ budget' = [budget EXCEPT !.credits = 0, !.cooling = FALSE]
    BY <1>4 DEF Hour
  <2>2. budget' \in Budgets /\ budget'.credits = 0
    BY <1>t, <2>1 DEF WakeTypeOK, Budgets
  <2>3. /\ history' \in Histories /\ history'.claims = 0
        /\ history'.delivered = history.delivered /\ history'.reclaimed = history.reclaimed
        /\ history'.late = history.late
    BY <1>t, <2>1 DEF WakeTypeOK, Histories
  <2>4. NoFreeWake'
    BY <2>2, <2>3, WakeAssumption DEF NoFreeWake
  <2>5. WakeTypeOK'
    BY <1>t, <1>1, <1>2, <2>2, <2>3 DEF WakeTypeOK
  <2> QED
    BY <1>1, <1>2, <2>3, <2>4, <2>5, AroundWake
<1> QED
  BY <1>3, <1>4

LEMMA OutsideWake ==
    ASSUME WakeInv,
           Register \/ Unregister \/ Switch \/ RaiseHopLimit \/ \E s \in 1..tail : Ack(s)
    PROVE  WakeInv'
<1>t. WakeTypeOK /\ tail \in Nat
  <2>1. WakeTypeOK
    BY DEF WakeInv
  <2> QED
    BY <2>1 DEF WakeTypeOK, tail
<1>1. UNCHANGED <<kind, mail, journal, ledger, pass, history>> /\ acked \subseteq acked'
  BY DEF Register, Unregister, Switch, RaiseHopLimit, Ack
<1>2. spent' \in [events : 0..MaxEvents, troubles : Nat] /\ spent'.events = spent.events
  BY <1>t DEF Register, Unregister, Switch, RaiseHopLimit, Ack, Trouble, WakeTypeOK
<1>3. budget' \in Budgets /\ budget'.credits = budget.credits
  <2>1. CASE Register \/ Unregister \/ Switch \/ RaiseHopLimit
    BY <1>t, <2>1 DEF Register, Unregister, Switch, RaiseHopLimit, WakeTypeOK
  <2>2. CASE \E s \in 1..tail : Ack(s)
    <3>1. /\ budget' = budget \/ budget' = [budget EXCEPT !.unacked = 0, !.cooling = FALSE]
          /\ budget \in Budgets
      BY <1>t, <2>2 DEF Ack, WakeTypeOK
    <3>2. CASE budget' = budget
      BY <3>1, <3>2
    <3>3. CASE budget' = [budget EXCEPT !.unacked = 0, !.cooling = FALSE]
      BY <3>1, <3>3 DEF Budgets
    <3> QED
      BY <3>1, <3>2, <3>3
  <2> QED
    BY <2>1, <2>2
<1>4. /\ reg' = NULL \/ reg' \in Registrations
      /\ reg' = NULL \/ reg' = reg \/ (reg'.mark = tail /\ reg'.base = tail)
  <2>1. CASE Register
    BY <1>t, <2>1 DEF Register, Registrations, WakeTypeOK
  <2>2. CASE ~Register
    BY <1>t, <2>2 DEF Unregister, Switch, RaiseHopLimit, Ack, WakeTypeOK
  <2> QED
    BY <2>1, <2>2
<1>5. NoFreeWake'
  BY <1>1, <1>3 DEF WakeInv, NoFreeWake
<1>6. WakeTypeOK'
  BY <1>t, <1>1, <1>2, <1>3, <1>4 DEF WakeTypeOK
<1> QED
  BY <1>1, <1>2, <1>4, <1>5, <1>6, AroundWake

\* A hook delivers an event: if the mark, or a pass, is beyond it, it is late.
LEMMA DeliverInboxWake ==
    ASSUME WakeInv, NEW s \in 1..tail, DeliverInbox(s)
    PROVE  WakeInv'
<1>t. WakeTypeOK /\ journal[s] \in Ids
  <2>1. WakeTypeOK
    BY DEF WakeInv
  <2> QED
    BY <2>1 DEF WakeTypeOK, tail
<1>1. /\ UNCHANGED <<kind, journal, acked, reg, ledger, pass, budget>>
      /\ mail' = mail \cup {journal[s]}
      /\ history' = [history EXCEPT !.late = IF Passed(s) THEN @ \cup {journal[s]} ELSE @]
  BY DEF DeliverInbox
<1>2. spent' \in [events : 0..MaxEvents, troubles : Nat] /\ spent'.events = spent.events
  BY <1>t DEF DeliverInbox, Trouble, WakeTypeOK
<1>3. /\ history' \in Histories /\ history.late \subseteq history'.late
      /\ history'.delivered = history.delivered /\ history'.reclaimed = history.reclaimed
      /\ history'.claims = history.claims
      /\ Passed(s) => journal[s] \in history'.late
  BY <1>t, <1>1 DEF WakeTypeOK, Histories
<1>4. \A x \in 1..tail : journal[x] \in mail' =>
          journal[x] \in mail \/ journal[x] \in history'.late \/ ~Passed(x)
  BY <1>1, <1>3 DEF WakeInv, Arrived
<1>5. NoFreeWake'
  BY <1>1, <1>3 DEF WakeInv, NoFreeWake
<1>6. WakeTypeOK'
  BY <1>t, <1>1, <1>2, <1>3 DEF WakeTypeOK
<1> QED
  BY <1>1, <1>2, <1>3, <1>4, <1>5, <1>6, AroundWake

\* An event that arrives is new to everybody.
LEMMA ArriveWake ==
    ASSUME WakeInv, Arrive
    PROVE  WakeInv'
<1> DEFINE new == spent.events + 1
<1>t. WakeTypeOK /\ tail \in Nat
  <2>1. WakeTypeOK
    BY DEF WakeInv
  <2> QED
    BY <2>1 DEF WakeTypeOK, tail
<1>1. /\ UNCHANGED <<kind, mail, acked, reg, ledger, pass, budget, history>>
      /\ journal' = Append(journal, new) /\ spent.events < MaxEvents
      /\ spent' = [spent EXCEPT !.events = @ + 1]
  BY DEF Arrive
<1>2. /\ spent.events \in Nat /\ new \in Ids /\ new \in Nat
      /\ spent' \in [events : 0..MaxEvents, troubles : Nat] /\ spent'.events = new
  <2>1. spent \in [events : 0..MaxEvents, troubles : Nat] /\ MaxEvents \in Nat
    BY <1>t, WakeAssumption DEF WakeTypeOK
  <2>2. spent.events \in Nat /\ new \in 1..MaxEvents /\ new \in Nat
    BY <1>1, <2>1
  <2>3. spent' = [spent EXCEPT !.events = new]
    BY <1>1, <2>1
  <2> HIDE DEF new
  <2>4. spent' \in [events : 0..MaxEvents, troubles : Nat] /\ spent'.events = new
    BY <2>1, <2>2, <2>3
  <2> QED
    BY <2>2, <2>4 DEF Ids
<1>u. PICK u \in Nat : u = tail + 1
  BY <1>t
<1>v. \A s \in 1..u : s \in 1..tail \/ s = u
  BY <1>t, <1>u
<1>3. /\ journal' \in Seq(Ids) /\ tail' = u /\ journal'[u] = new
      /\ \A s \in 1..tail : journal'[s] = journal[s] /\ journal[s] \in Ids
  BY <1>t, <1>u, <1>1, <1>2 DEF WakeTypeOK, tail
<1>4. /\ \A s \in 1..tail : journal[s] < new
      /\ \A p \in Passes : \A k \in pass[p].keys : k.id < new
      /\ \A i \in Ids : history.delivered[i] > 0 => i < new
      /\ \A s, t \in 1..tail : journal[s] = journal[t] => s = t
  <2>1. \A i \in Ids : i <= spent.events => i < new
    BY <1>2 DEF Ids
  <2>2. \A p \in Passes : \A k \in pass[p].keys : k.id \in Ids
    BY <1>t DEF WakeTypeOK, PassStates, KeyRows
  <2> QED
    BY <1>3, <2>1, <2>2 DEF WakeInv, Arrived
<1> HIDE DEF new
<1>5. WakeTypeOK' /\ NoFreeWake'
  BY <1>t, <1>1, <1>2, <1>3 DEF WakeTypeOK, WakeInv, NoFreeWake
<1>6. Arrived'
  <2>1. \A s \in 1..u : journal'[s] <= new
    <3>1. ASSUME NEW s \in 1..tail PROVE journal'[s] <= new
      BY <1>2, <1>3, <1>4 DEF Ids
    <3>2. journal'[u] <= new
      BY <1>2, <1>3
    <3> QED
      BY <1>v, <3>1, <3>2
  <2>2. \A s, t \in 1..u : journal'[s] = journal'[t] => s = t
    <3>1. ASSUME NEW s \in 1..tail PROVE journal'[s] # new
      BY <1>2, <1>3, <1>4 DEF Ids
    <3> QED
      BY <1>v, <1>3, <1>4, <3>1
  <2>3. \A p \in Passes : \A k \in pass[p].keys : k.id <= new
    BY <1>t, <1>2, <1>4 DEF WakeTypeOK, PassStates, KeyRows, Ids
  <2>4. \A i \in Ids : history.delivered[i] > 0 => i <= new
    BY <1>2, <1>4 DEF Ids
  <2> QED
    BY <1>1, <1>2, <1>3, <2>1, <2>2, <2>3, <2>4 DEF Arrived
<1>7. \A q \in Passes : Key(q)' = Key(q) /\ Row(q)' = Row(q) /\ Current(q)' = Current(q)
  BY <1>1 DEF Key, Row, Current, Found, Settled
<1>8. \A k \in KeyRows : /\ wakeEventMatches(k) => wakeEventMatches(k)'
                         /\ wakeEventMatches(k)' /\ k.id < new => wakeEventMatches(k) /\ k.seq <= tail
  <2> TAKE k \in KeyRows
  <2>1. k.seq \in Nat \ {0} /\ k.id \in Nat /\ (k.seq \in 1..tail <=> k.seq <= tail)
    BY <1>t DEF KeyRows, Ids
  <2>2. wakeEventMatches(k)' <=> k.seq <= u /\ journal'[k.seq] = k.id
    BY <1>3 DEF wakeEventMatches
  <2>3. CASE k.seq \in 1..tail
    <3>1. journal'[k.seq] = journal[k.seq] /\ k.seq <= u /\ k.seq <= tail
      BY <1>t, <1>u, <1>3, <2>1, <2>3
    <3> QED
      BY <2>2, <3>1 DEF wakeEventMatches
  <2>4. CASE k.seq = u
    <3>1. ~(k.seq <= tail) /\ journal'[k.seq] = new
      BY <1>t, <1>u, <1>3, <2>4
    <3>2. ~(new < new)
      BY <1>2
    <3> QED
      BY <2>2, <3>1, <3>2 DEF wakeEventMatches
  <2>5. CASE ~(k.seq <= u)
    <3>1. ~(k.seq <= tail)
      BY <1>t, <1>u, <2>1, <2>5
    <3> QED
      BY <2>2, <2>5, <3>1 DEF wakeEventMatches
  <2> QED
    BY <1>t, <1>u, <2>1, <2>3, <2>4, <2>5
<1>9. \A q \in Passes : pass[q].keys \in SUBSET KeyRows
  BY <1>t DEF WakeTypeOK, PassStates
<1>10. LedgerOK' /\ MarkWithin' /\ MarkCovers'
  <2>1. \A k \in DOMAIN ledger : k[1] \in 1..tail
    BY <1>t DEF WakeInv, LedgerOK, WakeTypeOK
  <2>2. LedgerOK'
    <3>1. \A k \in DOMAIN ledger : k[1] <= u /\ journal'[k[1]] = journal[k[1]]
      BY <1>t, <1>u, <1>3, <2>1
    <3> QED
      BY <1>1, <1>3, <3>1 DEF WakeInv, LedgerOK
  <2>3. reg # NULL => reg.mark \in Nat /\ reg.base \in Nat /\ reg.mark <= tail
    BY <1>t DEF WakeInv, MarkWithin, WakeTypeOK, Registrations
  <2>4. MarkWithin'
    BY <1>t, <1>u, <1>1, <1>3, <2>3 DEF MarkWithin
  <2>5. reg # NULL => \A s \in (reg.base + 1)..reg.mark : journal'[s] = journal[s]
    BY <1>t, <1>3, <2>3
  <2>6. MarkCovers'
    BY <1>1, <2>5 DEF WakeInv, MarkCovers
  <2> QED
    BY <2>2, <2>4, <2>6
<1>11. PassInv'
  <2>1. ASSUME NEW q \in Passes PROVE Earned(q)' /\ HoldsToken(q)' /\ Reach(q)'
    <3>1. Earned(q) /\ HoldsToken(q) /\ Reach(q)
      BY DEF WakeInv, PassInv
    <3>2. Earned(q)'
      BY <1>1, <1>7, <3>1 DEF Earned, At
    <3>3. HoldsToken(q)'
      <4>1. pass[q].pc # "idle" => Key(q) \in KeyRows
        BY <1>t, KeyFacts DEF WakeTypeOK
      <4> SUFFICES ASSUME At(q, "send") \/ At(q, "record"), Current(q)
                   PROVE  wakeEventMatches(Key(q))'
        BY <1>1, <1>7 DEF HoldsToken, At
      <4>2. Key(q) \in KeyRows /\ wakeEventMatches(Key(q))
        BY <3>1, <4>1 DEF HoldsToken, At
      <4> QED
        BY <1>3, <1>7, <1>t, <1>u, <4>2 DEF wakeEventMatches, KeyRows
    <3>4. Reach(q)'
      <4> SUFFICES ASSUME reg # NULL, pass[q].epoch = reg.epoch, NEW k \in pass[q].keys,
                          wakeEventMatches(k)', NEW s \in 1..u, reg.mark < s, s < k.seq
                   PROVE  CoveredSeq(s)' \/ Has(q, s)'
        BY <1>1, <1>3 DEF Reach
      <4>1. wakeEventMatches(k) /\ k.seq <= tail /\ k.seq \in Nat
        BY <1>4, <1>8, <1>9 DEF KeyRows
      <4>2. s \in 1..tail
        BY <1>t, <1>u, <1>v, <4>1
      <4>3. CoveredSeq(s) \/ Has(q, s)
        BY <3>1, <4>1, <4>2 DEF Reach
      <4> QED
        BY <1>1, <1>3, <4>2, <4>3 DEF CoveredSeq, Has
    <3> QED
      BY <3>2, <3>3, <3>4
  <2> QED
    BY <2>1 DEF PassInv
<1>12. \A q \in Passes : ~Has(q, u)'
  BY <1>1, <1>2, <1>3, <1>4 DEF Has
<1>13. \A s \in 1..tail, e \in Nat : Home(s, e)' => Home(s, e)
  BY <1>1, <1>3 DEF Home, Has
<1>14. \A e \in Nat : Home(u, e)' => e = reg.epoch
  BY <1>1, <1>12 DEF Home
<1>15. \A q \in Passes, i \in Ids : Sends(q, i)' = Sends(q, i)
  BY <1>1, <1>7 DEF Sends, At
<1>16. /\ \A i \in Ids : Taken(i)' = Taken(i)
       /\ ~Taken(new)
  <2>1. \A q \in Passes : ~Sends(q, new)
    <3> SUFFICES ASSUME NEW q \in Passes, At(q, "send") PROVE Key(q).id # new
      BY DEF Sends
    <3>1. Key(q) \in pass[q].keys
      BY <1>t, KeyFacts DEF WakeTypeOK, At
    <3> QED
      BY <1>2, <1>4, <3>1
  <2> QED
    BY <1>1, <1>2, <1>4, <1>15, <2>1 DEF Taken
<1>17. OneHome'
  <2> SUFFICES ASSUME NEW s \in 1..u, NEW d \in Nat, NEW e \in Nat, Home(s, d)', Home(s, e)'
               PROVE  d = e
    BY <1>3 DEF OneHome
  <2>1. CASE s \in 1..tail
    BY <1>13, <2>1 DEF WakeInv, ClaimInv, OneHome
  <2>2. CASE s = u
    BY <1>14, <2>2
  <2> QED
    BY <1>v, <2>1, <2>2
<1>18. RowKept'
  <2> SUFFICES ASSUME NEW s \in 1..u, NEW e \in Nat, Taken(journal[s])', Home(s, e)'
               PROVE  <<s, e>> \in DOMAIN ledger
    BY <1>1, <1>3 DEF RowKept
  <2>1. \E i \in Ids : i = journal'[s] /\ Taken(i)'
    BY <1>v, <1>2, <1>3 DEF Taken, Sends
  <2>2. s \in 1..tail
    BY <1>v, <1>2, <1>3, <1>16, <2>1
  <2>3. Taken(journal[s])
    BY <1>3, <1>16, <2>1, <2>2
  <2> QED
    BY <1>13, <2>2, <2>3 DEF WakeInv, ClaimInv, RowKept
<1>19. SentOnce'
  BY <1>1, <1>15 DEF WakeInv, ClaimInv, SentOnce
<1> QED
  BY <1>5, <1>6, <1>10, <1>11, <1>17, <1>18, <1>19 DEF WakeInv, ClaimInv

\* What a rewrite of the journal leaves is about the events that are left.
LEMMA RewriteWake ==
    ASSUME WakeInv, NEW n \in 0..tail, RewriteJournal(n)
    PROVE  WakeInv'
<1>t. WakeTypeOK /\ tail \in Nat /\ n \in Nat /\ n < tail
  <2>1. WakeTypeOK
    BY DEF WakeInv
  <2> QED
    BY <2>1 DEF WakeTypeOK, tail, RewriteJournal
<1>1. /\ UNCHANGED <<kind, mail, pass, budget, history>>
      /\ journal' = SubSeq(journal, 1, n) /\ acked' = {s \in acked : s <= n}
      /\ ledger' = [k \in {x \in DOMAIN ledger : x[1] <= n} |-> ledger[k]]
      /\ reg' = IF reg = NULL THEN NULL
                ELSE [reg EXCEPT !.mark = Lower(@, n), !.base = Lower(@, n)]
  BY DEF RewriteJournal, trimWakeToJournal
<1>2. spent' \in [events : 0..MaxEvents, troubles : Nat] /\ spent'.events = spent.events
  <2>1. spent \in [events : 0..MaxEvents, troubles : Nat]
    BY <1>t DEF WakeTypeOK
  <2>2. spent' = [spent EXCEPT !.troubles = @ + 1]
    BY DEF RewriteJournal, Trouble
  <2> QED
    BY <2>1, <2>2
<1>3. /\ journal' \in Seq(Ids) /\ tail' = n
      /\ \A s \in 1..n : s \in 1..tail /\ journal'[s] = journal[s] /\ journal[s] \in Ids
  BY <1>t, <1>1 DEF WakeTypeOK, tail
<1>4. /\ ledger' \in [DOMAIN ledger' -> Attempts] /\ DOMAIN ledger' \subseteq DOMAIN ledger
      /\ DOMAIN ledger' \subseteq (Nat \ {0}) \X Nat
      /\ \A k \in DOMAIN ledger' : k[1] <= n /\ ledger'[k] = ledger[k]
      /\ \A k \in DOMAIN ledger : k[1] <= n => k \in DOMAIN ledger'
  BY <1>t, <1>1 DEF WakeTypeOK
<1>5. /\ reg = NULL => reg' = NULL
      /\ reg # NULL => /\ reg' \in Registrations /\ reg'.epoch = reg.epoch
                       /\ reg.mark \in Nat /\ reg.base \in Nat
                       /\ reg'.mark \in Nat /\ reg'.base \in Nat
                       /\ reg'.mark <= n /\ reg'.mark <= reg.mark
                       /\ \A s \in 1..n : s > reg'.mark => s > reg.mark
                       /\ \A s \in Nat : s > reg'.base /\ s <= n => s > reg.base
  <2>1. CASE reg = NULL
    BY <1>1, <2>1
  <2>2. CASE reg # NULL
    <3>1. reg \in Registrations
      BY <1>t, <2>2 DEF WakeTypeOK
    <3>2. reg.mark \in Nat /\ reg.base \in Nat
      BY <3>1 DEF Registrations
    <3>3. PICK m, b \in Nat : m = Lower(reg.mark, n) /\ b = Lower(reg.base, n)
      BY <1>t, <3>2 DEF Lower
    <3>4. reg' = [epoch |-> reg.epoch, mark |-> m, hold |-> reg.hold, base |-> b]
      BY <1>1, <2>2, <3>1, <3>3 DEF Registrations
    <3>5. reg' \in Registrations /\ reg'.epoch = reg.epoch /\ reg'.mark = m /\ reg'.base = b
      BY <3>1, <3>4 DEF Registrations
    <3>7. /\ m <= n /\ m <= reg.mark /\ \A s \in 1..n : s > m => s > reg.mark
          /\ \A s \in Nat : s > b /\ s <= n => s > reg.base
      BY <1>t, <3>2, <3>3 DEF Lower
    <3> QED
      BY <2>2, <3>2, <3>5, <3>7
  <2> QED
    BY <2>1, <2>2
<1>6. WakeTypeOK' /\ NoFreeWake'
  BY <1>t, <1>1, <1>2, <1>3, <1>4, <1>5 DEF WakeTypeOK, WakeInv, NoFreeWake
<1>7. Arrived'
  BY <1>1, <1>2, <1>3 DEF WakeInv, Arrived
<1>8. LedgerOK' /\ MarkWithin' /\ MarkCovers'
  <2>1. LedgerOK'
    <3> SUFFICES ASSUME NEW k \in DOMAIN ledger'
                 PROVE  /\ k[1] <= n
                        /\ ledger'[k].outcome = "terminal" => history.delivered[journal'[k[1]]] > 0
      BY <1>1, <1>3 DEF LedgerOK
    <3>1. k[1] \in 1..n
      BY <1>t, <1>4
    <3> QED
      BY <1>3, <1>4, <3>1 DEF WakeInv, LedgerOK
  <2>2. MarkWithin'
    BY <1>3, <1>5 DEF MarkWithin
  <2>3. MarkCovers'
    <3> SUFFICES ASSUME reg # NULL, NEW s \in (reg'.base + 1)..reg'.mark
                 PROVE  CoveredSeq(s)'
      BY <1>1, <1>5 DEF MarkCovers, CoveredSeq
    <3>1. s \in Nat /\ s > reg'.base /\ s <= reg'.mark /\ s \in 1..n /\ s <= n
      BY <1>t, <1>5
    <3>2. s \in (reg.base + 1)..reg.mark
      BY <1>5, <3>1
    <3>3. CoveredSeq(s)
      BY <3>2 DEF WakeInv, MarkCovers, CoveredSeq
    <3> QED
      BY <1>1, <1>3, <3>1, <3>3 DEF CoveredSeq
  <2> QED
    BY <2>1, <2>2, <2>3
<1>9. \A q \in Passes : /\ Key(q)' = Key(q) /\ Row(q)' = Row(q)
                        /\ Current(q)' => Current(q) /\ Key(q).seq <= n
  <2>1. \A q \in Passes : Key(q)' = Key(q) /\ Row(q)' = Row(q)
    BY <1>1 DEF Key, Row
  <2>2. ASSUME NEW q \in Passes, Current(q)' PROVE Current(q) /\ Key(q).seq <= n
    <3>1. Row(q) \in DOMAIN ledger' /\ Row(q)[1] = Key(q).seq
      BY <2>1, <2>2 DEF Current, Found, Row
    <3> QED
      BY <1>4, <2>1, <2>2, <3>1 DEF Current, Found, Settled
  <2> QED
    BY <2>1, <2>2
<1>10. \A k \in KeyRows : wakeEventMatches(k)' <=> wakeEventMatches(k) /\ k.seq <= n
  <2> TAKE k \in KeyRows
  <2>1. k.seq \in Nat \ {0} /\ (k.seq \in 1..n <=> k.seq <= n)
    BY <1>t DEF KeyRows
  <2> QED
    BY <1>t, <1>3, <2>1 DEF wakeEventMatches
<1>11. PassInv'
  <2>1. ASSUME NEW q \in Passes PROVE Earned(q)' /\ HoldsToken(q)' /\ Reach(q)'
    <3>1. Earned(q) /\ HoldsToken(q) /\ Reach(q)
      BY DEF WakeInv, PassInv
    <3>2. Earned(q)'
      BY <1>1, <1>9, <3>1 DEF Earned, At
    <3>3. HoldsToken(q)'
      <4> SUFFICES ASSUME At(q, "send") \/ At(q, "record"), Current(q)'
                   PROVE  wakeEventMatches(Key(q))'
        BY <1>1 DEF HoldsToken, At
      <4>1. Key(q) \in KeyRows
        BY <1>t, KeyFacts DEF WakeTypeOK, At
      <4>2. wakeEventMatches(Key(q)) /\ Key(q).seq <= n
        BY <1>9, <3>1 DEF HoldsToken
      <4>3. PICK k \in KeyRows : k = Key(q)
        BY <4>1
      <4>4. wakeEventMatches(k)'
        BY <1>10, <4>2, <4>3
      <4> QED
        BY <1>9, <4>3, <4>4 DEF wakeEventMatches
    <3>4. Reach(q)'
      <4> SUFFICES ASSUME reg # NULL, pass[q].epoch = reg.epoch, NEW k \in pass[q].keys,
                          wakeEventMatches(k)', NEW s \in 1..n, reg'.mark < s, s < k.seq
                   PROVE  CoveredSeq(s)' \/ Has(q, s)'
        BY <1>1, <1>3, <1>5 DEF Reach
      <4>1. k \in KeyRows
        BY <1>t DEF WakeTypeOK, PassStates
      <4>2. wakeEventMatches(k) /\ s \in 1..tail /\ reg.mark < s /\ s <= n
        BY <1>3, <1>5, <1>10, <4>1
      <4>3. CoveredSeq(s) \/ Has(q, s)
        BY <3>1, <4>2 DEF Reach
      <4> QED
        BY <1>1, <1>3, <4>2, <4>3 DEF CoveredSeq, Has
    <3> QED
      BY <3>2, <3>3, <3>4
  <2> QED
    BY <2>1 DEF PassInv
<1>12. \A s \in 1..n, e \in Nat : Home(s, e)' => Home(s, e)
  BY <1>1, <1>3, <1>5 DEF Home, Has
<1>13. \A q \in Passes, i \in Ids : Sends(q, i)' = Sends(q, i)
  BY <1>1, <1>9 DEF Sends, At
<1>14. \A i \in Ids : Taken(i)' = Taken(i)
  BY <1>1, <1>13 DEF Taken
<1>15. OneHome'
  BY <1>3, <1>12 DEF WakeInv, ClaimInv, OneHome
<1>16. RowKept'
  <2> SUFFICES ASSUME NEW s \in 1..n, NEW e \in Nat, Taken(journal[s])', Home(s, e)'
               PROVE  <<s, e>> \in DOMAIN ledger'
    BY <1>3 DEF RowKept
  <2>1. \E i \in Ids : i = journal'[s] /\ Taken(i)'
    BY <1>3 DEF Taken, Sends
  <2>2. Taken(journal[s])
    BY <1>3, <1>14, <2>1
  <2>3. <<s, e>> \in DOMAIN ledger
    BY <1>3, <1>12, <2>2 DEF WakeInv, ClaimInv, RowKept
  <2> QED
    BY <1>t, <1>4, <2>3
<1>17. SentOnce'
  BY <1>1, <1>13 DEF WakeInv, ClaimInv, SentOnce
<1> QED
  BY <1>6, <1>7, <1>8, <1>11, <1>15, <1>16, <1>17 DEF WakeInv, ClaimInv

-----------------------------------------------------------------------------
(* The theorems.                                                           *)

LEMMA NextWake ==
    ASSUME WakeInv, [Next]_vars
    PROVE  WakeInv'
<1>1. CASE UNCHANGED vars
  <2>1. WakeTypeOK'
    BY <1>1 DEF WakeInv, WakeTypeOK, vars
  <2>2. NoFreeWake'
    BY <1>1 DEF WakeInv, NoFreeWake, vars
  <2> QED
    BY <1>1, <2>1, <2>2, AroundWake DEF vars
<1>2. ASSUME NEW p \in Passes,
             Scan(p) \/ Reevaluate(p) \/ Step(p) \/ ClaimFails(p) \/ Die(p)
      PROVE  WakeInv'
  <2>1. CASE Scan(p) \/ Reevaluate(p)
    BY <2>1, BeginWake
  <2>2. CASE Judge(p) \/ Refused(p) \/ RecordFails(p) \/ Die(p)
    BY <2>2, MovingWake
  <2>3. CASE Claim(p) \/ ClaimFails(p)
    BY <2>3, ClaimWake
  <2>4. CASE MarkHeld(p)
    BY <2>4, MarkHeldWake
  <2>5. CASE Deliver(p)
    BY <2>5, DeliverWake
  <2>6. CASE Record(p)
    BY <2>6, RecordWake
  <2>7. CASE Advance(p)
    BY <2>7, AdvanceWake
  <2> QED
    BY <1>2, <2>1, <2>2, <2>3, <2>4, <2>5, <2>6, <2>7 DEF Step
<1>3. CASE Lapse \/ Hour
  BY <1>3, TimeWake
<1>4. CASE Arrive
  BY <1>4, ArriveWake
<1>5. CASE Register \/ Unregister \/ Switch \/ RaiseHopLimit \/ \E s \in 1..tail : Ack(s)
  BY <1>5, OutsideWake
<1>6. CASE \E n \in 0..tail : RewriteJournal(n)
  BY <1>6, RewriteWake
<1>7. CASE \E s \in 1..tail : DeliverInbox(s)
  BY <1>7, DeliverInboxWake
<1> QED
  BY <1>1, <1>2, <1>3, <1>4, <1>5, <1>6, <1>7 DEF Next

\* Every state of every behaviour satisfies the inductive invariant.
LEMMA WakeInvariant == Spec => []WakeInv
<1>1. Init => WakeInv
  BY InitWake
<1>2. WakeInv /\ [Next]_vars => WakeInv'
  BY NextWake
<1> QED
  BY <1>1, <1>2, PTL DEF Spec

\* The mark a registration keeps (SetWakeHold) moves over mail only when it was
\* acknowledged, was the agent's own, was sent, or was put into the inbox when
\* the mark or a pass was beyond it already: whatever passes run side by side,
\* hold, lose their claim or die, and however the journal is cut.
THEOREM MarkCoversHolds == Spec => []MarkCovers
<1>1. WakeInv => MarkCovers
  BY DEF WakeInv
<1> QED
  BY <1>1, WakeInvariant, PTL

\* An event is sent twice only after the one-minute lease of a claim on it had
\* run out (ClaimWakeBudget, writeWakeAttempt), for any number of passes.
THEOREM WokenOnceHolds == Spec => []WokenOnce
<1>1. WakeInv => WokenOnce
  <2> SUFFICES ASSUME WakeInv, NEW id \in Ids, history.delivered[id] > 1
               PROVE  id \in history.reclaimed
    BY DEF WokenOnce, Ids
  <2>1. history.delivered[id] \in 0..2
    BY DEF WakeInv, WakeTypeOK, Histories
  <2>2. id \notin history.reclaimed => history.delivered[id] <= 1
    BY DEF WakeInv, ClaimInv, SentOnce
  <2> QED
    BY <2>1, <2>2
<1> QED
  BY <1>1, WakeInvariant, PTL

\* The claims of the hour never outnumber the credits in the operator's budget
\* file (UpdateWakeBudget), nor those the hourly limit, whichever pass dies
\* between the file and the store.
THEOREM NoFreeWakeHolds == Spec => []NoFreeWake
<1>1. WakeInv => NoFreeWake
  BY DEF WakeInv
<1> QED
  BY <1>1, WakeInvariant, PTL
=============================================================================
