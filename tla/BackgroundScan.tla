---------------------------- MODULE BackgroundScan ----------------------------
(***************************************************************************)
(* The background scan (internal/service/background.go): one pass purges   *)
(* the nodes whose retention is over, then wakes the deferred nodes that   *)
(* are due.  Each half selects its candidates in one read and then handles *)
(* them one transaction at a time, so every other operation of the store   *)
(* can come between the select and a candidate's turn.  A select or a turn *)
(* may fail (a database that stays busy): the scan logs the error and goes *)
(* on with what is left.  The process may stop at any point (mtix gc       *)
(* interrupted): what was done stays done.                                 *)
(*                                                                         *)
(* A scan runs when `mtix gc` or the admin endpoint asks for one; nothing  *)
(* schedules it.  So fairness is assumed of a scan that has begun, never   *)
(* of beginning one.                                                       *)
(***************************************************************************)
EXTENDS NodeStore

CONSTANT Retention   \* data.soft_delete_retention, in seconds

ASSUME RetentionAssumption == Retention \in Nat

VARIABLES
    phase,       \* what the scan is doing: idle, purge, wake, or stopped
    candidates,  \* the ids selected by the current half and not yet handled
    passTime,    \* the time the wake half selected and re-checks with
    failed       \* the nodes this scan could not wake because of an error

scanOnlyVars == <<phase, candidates, passTime, failed>>
scanVars == <<vars, scanOnlyVars>>

ScanInit ==
    /\ Init
    /\ phase = "idle"
    /\ candidates = {}
    /\ passTime = 0
    /\ failed = {}

-----------------------------------------------------------------------------
\* deleted_at < now - retention.
Expired(n) == Present(n) /\ deletedAt[n] # NULL /\ deletedAt[n][1] < now - Retention

\* Deferred with a wake time at or before t.
DueAt(n, t) == Live(n) /\ status[n] = "deferred" /\ wake[n] # NULL /\ wake[n] <= t

WakeCandidates == {n \in Nodes : DueAt(n, now)}

\* cleanExpiredNodes up to its loop; without candidates when its query fails.
BeginScan ==
    /\ phase \in {"idle", "stopped"}
    /\ phase' = "purge"
    /\ candidates' \in {{n \in Nodes : Expired(n)}, {}}
    /\ failed' = {}
    /\ UNCHANGED <<vars, passTime>>

\* One turn of the purge loop.  The row stays when it is live again, or when
\* the delete fails: the loop goes on to the next.
PurgeOne(n) ==
    /\ phase = "purge"
    /\ n \in candidates
    /\ candidates' = candidates \ {n}
    /\ PermanentlyDelete(n) \/ UNCHANGED vars
    /\ UNCHANGED <<phase, passTime, failed>>

\* wakeDeferredNodes up to its loop; when its query fails nothing is woken.
BeginWake ==
    /\ phase = "purge"
    /\ candidates = {}
    /\ phase' = "wake"
    /\ passTime' = now
    /\ \/ candidates' = WakeCandidates /\ UNCHANGED failed
       \/ candidates' = {} /\ failed' = Nodes
    /\ UNCHANGED vars

\* Mutant: a turn that fails ends the loop.
WakeUntilError(n) ==
    /\ phase = "wake"
    /\ n \in candidates
    /\ \/ WakeDeferredNode(n, passTime) /\ candidates' = candidates \ {n} /\ UNCHANGED failed
       \/ ~DueAt(n, passTime) /\ candidates' = candidates \ {n} /\ UNCHANGED <<vars, failed>>
       \/ failed' = failed \cup {n} /\ candidates' = {} /\ UNCHANGED vars
    /\ UNCHANGED <<phase, passTime>>

\* One turn of the wake loop: the node is woken, or left alone because it is no
\* longer due at passTime, or left deferred because the transaction failed.
WakeOne(n) ==
    /\ phase = "wake"
    /\ n \in candidates
    /\ candidates' = candidates \ {n}
    /\ \/ WakeDeferredNode(n, passTime) /\ UNCHANGED failed
       \/ ~DueAt(n, passTime) /\ UNCHANGED <<vars, failed>>
       \/ failed' = failed \cup {n} /\ UNCHANGED vars
    /\ UNCHANGED <<phase, passTime>>

\* The end of RunScan returns the scan to where it started.
EndScan ==
    /\ phase = "wake"
    /\ candidates = {}
    /\ phase' = "idle"
    /\ UNCHANGED <<vars, candidates, passTime, failed>>

\* The process running the scan stops.
StopScan ==
    /\ phase \in {"purge", "wake"}
    /\ phase' = "stopped"
    /\ candidates' = {}
    /\ UNCHANGED <<vars, passTime, failed>>

ScanStep == BeginWake \/ EndScan \/ \E n \in Nodes : PurgeOne(n) \/ WakeOne(n)

\* The other operations of the store, between the scan's transactions.
OtherStep ==
    /\ \/ \E n \in Nodes : CreateNode(n, FALSE) \/ ClaimNode(n) \/ DeleteStep(n)
       \/ \E n \in Nodes, until \in WakeTimes : DeferNode(n, until) \/ RedeferNode(n, until)
       \/ LinkStep
       \/ Tick
    /\ UNCHANGED scanOnlyVars

ScanNext == BeginScan \/ ScanStep \/ StopScan \/ OtherStep

\* A scan that is not stopped goes on: it is a loop over a fixed list.
ScanSpec == ScanInit /\ [][ScanNext]_scanVars /\ WF_scanVars(ScanStep)

-----------------------------------------------------------------------------
(* Properties.                                                             *)

\* No row refers to a purged one: dependencies, parents and provenance rows
\* name rows that exist, whatever was linked, deleted and purged in between.
NoDanglingReferences ==
    /\ \A d \in deps : Present(d[1]) /\ Present(d[2])
    /\ \A n \in Nodes : Present(n) /\ parentId[n] # NULL => Present(parentId[n])
    /\ \A n \in Nodes : Present(n) /\ cascadeRow[n] # NULL => Present(cascadeRow[n].root)

\* A node undeleted after the scan selected it is never purged.
PurgeSparesLive ==
    [][\A n \in Nodes : Live(n) => life'[n] # "purged"]_scanVars

\* The scan reopens a deferral only once it is due: one that was claimed, or
\* deferred again to a later time, after the scan selected it is kept.
WakeOnlyWhenDue ==
    [][\A n \in Nodes :
           (n \in candidates \ candidates' /\ status'[n] # status[n] /\ Present(n)
              /\ life'[n] = "present")
               => DueAt(n, now)]_scanVars

\* A scan that has begun and is not stopped wakes every node that is due, but
\* for those whose own turn (or the query) fails: neither an error at another
\* node nor a write that comes between lets a deferral that was over while the
\* scan was still purging survive it.
ScanWakesDue ==
    \A n \in Nodes, t \in 0..MaxTime :
        (phase = "purge" /\ t <= now /\ DueAt(n, t))
            ~> (phase = "stopped" \/ n \in failed \/ ~DueAt(n, t))
=============================================================================
