-------------------------- MODULE WakeLeaseProofs ---------------------------
(***************************************************************************)
(* Proofs about module WakeLease, for any number of scripts, mails,        *)
(* launches and troubles.                                                  *)
(***************************************************************************)
EXTENDS WakeLease, TLAPS

LeaseTypeOK ==
    /\ tail \in Nat
    /\ script \in [Scripts -> [pc : {"off", "read", "work", "release"}, runs : Nat]]
    /\ lease \in Leases \cup {NULL}

\* Until a lease has lapsed the row is never up for takeover, and every script
\* that is past its acquire still holds it.
RunnersHold ==
    "lapsed" \notin past =>
        /\ lease # NULL => lease.live
        /\ \A p \in Scripts : ~At(p, "off") => Holds(p)

\* The inductive invariant.
LeaseInv == LeaseTypeOK /\ RunnersHold

-----------------------------------------------------------------------------
LEMMA InitLease == Init => LeaseInv
BY DEF Init, Off, LeaseInv, LeaseTypeOK, RunnersHold, At

\* A row that createWakeLease makes is one, and is not NULL.
LEMMA CreatedLease ==
    ASSUME LeaseTypeOK, NEW h \in Scripts \cup {Unknown}
    PROVE  createWakeLease(h) \in Leases /\ createWakeLease(h) # NULL
<1>1. createWakeLease(h) \in Leases
  BY DEF LeaseTypeOK, createWakeLease, Leases
<1> QED
  BY <1>1, WakeLeaseAssumption

\* A change of the row that keeps its holder is a row of the same holder.
LEMMA TouchedLease ==
    ASSUME lease \in Leases, NEW b \in BOOLEAN
    PROVE  /\ [lease EXCEPT !.dirty = b] \in Leases
           /\ [lease EXCEPT !.live = b] \in Leases
           /\ [lease EXCEPT !.dirty = b] # NULL
           /\ [lease EXCEPT !.live = b] # NULL
           /\ [lease EXCEPT !.dirty = b].holder = lease.holder
           /\ [lease EXCEPT !.dirty = b].live = lease.live
           /\ [lease EXCEPT !.live = b].holder = lease.holder
           /\ [lease EXCEPT !.live = b].live = b
BY WakeLeaseAssumption DEF Leases

LEMMA AcquireLease ==
    ASSUME LeaseInv, NEW p \in Scripts, Acquire(p)
    PROVE  LeaseInv'
<1> USE DEF LeaseInv, LeaseTypeOK
<1>1. CASE Free
  <2>1. lease' = createWakeLease(p) /\ lease' \in Leases /\ lease' # NULL
    BY <1>1, CreatedLease DEF Acquire
  <2>2. lease'.holder = p /\ lease'.live
    BY <2>1 DEF createWakeLease
  <2>3. LeaseTypeOK'
    BY <1>1, <2>1 DEF Acquire, Goto
  <2>4. ASSUME "lapsed" \notin past PROVE \A q \in Scripts : At(q, "off")
    BY <1>1, <2>4 DEF RunnersHold, Free, Holds
  <2>5. RunnersHold'
    BY <1>1, <2>1, <2>2, <2>4 DEF RunnersHold, Acquire, Goto, At, Holds
  <2> QED
    BY <2>3, <2>5
<1>2. CASE ~Free
  <2>1. lease \in Leases /\ lease # NULL
    BY <1>2 DEF Free
  <2>2. /\ lease' \in Leases /\ lease' # NULL
        /\ lease'.holder = lease.holder /\ lease'.live = lease.live
    BY <1>2, <2>1, TouchedLease DEF Acquire
  <2> QED
    BY <1>2, <2>1, <2>2 DEF Acquire, RunnersHold, At, Holds
<1> QED
  BY <1>1, <1>2

LEMMA RenewLease ==
    ASSUME LeaseInv, NEW p \in Scripts, Renew(p)
    PROVE  LeaseInv'
<1> USE DEF LeaseInv, LeaseTypeOK
<1>0. past' = past /\ tail' = tail /\ ~At(p, "off")
  BY DEF Renew, At
<1>1. CASE Holds(p)
  <2>1. lease \in Leases /\ lease' = [lease EXCEPT !.live = TRUE] /\ script' = script
    BY <1>1 DEF Renew, Holds
  <2>2. lease' \in Leases /\ lease' # NULL /\ lease'.holder = lease.holder /\ lease'.live
    BY <2>1, TouchedLease
  <2> QED
    BY <1>0, <2>1, <2>2 DEF RunnersHold, At, Holds
<1>2. CASE ~Holds(p) /\ ~Free
  <2>1. "lapsed" \in past
    BY <1>0, <1>2 DEF RunnersHold
  <2>2. lease \in Leases /\ lease' = [lease EXCEPT !.dirty = TRUE] /\ Exit(p)
    BY <1>2 DEF Renew, Free
  <2>3. lease' \in Leases
    BY <2>2, TouchedLease
  <2> QED
    BY <1>0, <2>1, <2>2, <2>3 DEF RunnersHold, Exit, Off
<1>3. CASE ~Holds(p) /\ Free
  <2>1. "lapsed" \in past
    BY <1>0, <1>3 DEF RunnersHold
  <2>2. lease' \in Leases /\ script' = script
    BY <1>3, CreatedLease DEF Renew
  <2> QED
    BY <1>0, <2>1, <2>2 DEF RunnersHold
<1> QED
  BY <1>1, <1>2, <1>3

LEMMA ReleaseLease ==
    ASSUME LeaseInv, NEW p \in Scripts, Release(p)
    PROVE  LeaseInv'
<1> USE DEF LeaseInv, LeaseTypeOK
<1>0. past' = past /\ tail' = tail /\ ~At(p, "off")
  BY DEF Release, At
<1>1. CASE ~Holds(p)
  BY <1>0, <1>1 DEF Release, Exit, Off, RunnersHold
<1>2. CASE Holds(p) /\ Rearm
  <2>1. lease' = createWakeLease(p) /\ lease' \in Leases /\ lease' # NULL /\ Goto(p, "read")
    BY <1>2, CreatedLease DEF Release
  <2>2. lease'.holder = p /\ lease'.live
    BY <2>1 DEF createWakeLease
  <2> QED
    BY <1>0, <1>2, <2>1, <2>2 DEF RunnersHold, Goto, At, Holds
<1>3. CASE Holds(p) /\ ~Rearm
  BY <1>0, <1>3 DEF Release, RunnersHold, Exit, Off, At, Holds
<1> QED
  BY <1>1, <1>2, <1>3

\* A script that stops, by a signal, the drain limit or a kill: it either
\* leaves the row as it is or removes its own.
LEMMA StopLease ==
    ASSUME LeaseInv, NEW p \in Scripts, DrainLimit(p) \/ Interrupted(p) \/ Die(p)
    PROVE  LeaseInv'
<1>1. /\ Exit(p) /\ tail' = tail
      /\ lease' = lease \/ (Holds(p) /\ lease' = NULL)
      /\ "lapsed" \in past <=> "lapsed" \in past'
  BY DEF DrainLimit, Interrupted, Die, Abandon
<1> QED
  BY <1>1 DEF LeaseInv, LeaseTypeOK, RunnersHold, Exit, Off, At, Holds

LEMMA LapseLease ==
    ASSUME LeaseInv, Lapse
    PROVE  LeaseInv'
<1>1. lease \in Leases /\ lease' \in Leases
  BY TouchedLease DEF LeaseInv, LeaseTypeOK, Lapse
<1> QED
  BY <1>1 DEF LeaseInv, LeaseTypeOK, RunnersHold, Lapse

\* The steps that leave the row alone.
LEMMA QuietLease ==
    ASSUME LeaseInv,
           \/ Arrive \/ UNCHANGED vars
           \/ \E p \in Scripts : Launch(p) \/ Finish(p) \/ \E s \in 1..tail : Ack(p, s)
    PROVE  LeaseInv'
<1> USE DEF LeaseInv, LeaseTypeOK, RunnersHold, At, Holds
<1>1. CASE Arrive \/ UNCHANGED vars
  BY <1>1 DEF Arrive, vars
<1>2. ASSUME NEW p \in Scripts, Launch(p) PROVE LeaseInv'
  BY <1>2 DEF Launch, Goto
<1>3. ASSUME NEW p \in Scripts, Finish(p) PROVE LeaseInv'
  BY <1>3 DEF Finish, Goto
<1>4. ASSUME NEW p \in Scripts, NEW s \in 1..tail, Ack(p, s) PROVE LeaseInv'
  BY <1>4 DEF Ack
<1> QED
  BY <1>1, <1>2, <1>3, <1>4

LEMMA NextLease == LeaseInv /\ [Next]_vars => LeaseInv'
BY AcquireLease, RenewLease, ReleaseLease, StopLease, LapseLease, QuietLease
   DEF Next, Step

-----------------------------------------------------------------------------
\* Two runs of one agent overlap only after a lease has lapsed (wake-agent.sh
\* under acquireWakeLease, its renewer and ReleaseWakeLease).
THEOREM OneRunUnlessLapsedHolds == Spec => []OneRunUnlessLapsed
<1>1. LeaseInv => OneRunUnlessLapsed
  BY DEF LeaseInv, RunnersHold, OneRunUnlessLapsed, Holds
<1> QED
  BY InitLease, NextLease, <1>1, PTL DEF Spec
=============================================================================
