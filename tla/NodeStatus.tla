----------------------------- MODULE NodeStatus -----------------------------
(***************************************************************************)
(* The lifecycle of a node (internal/model/status.go, state_machine.go):   *)
(* the seven statuses, the transition table the store consults before it   *)
(* writes a status, and the two classes of status other code asks about.   *)
(* A constant-level module: nothing here depends on the state.             *)
(***************************************************************************)

\* The statuses a node row can hold.
Status == {"open", "in_progress", "blocked", "done", "deferred",
           "cancelled", "invalidated"}

\* validTransitions: for each status, the statuses the table lists as targets.
\* The constraint column (auto_only, requires_reopen, ...) is advisory:
\* ValidateTransition does not look at it, so it is not part of the table.
validTransitions ==
    [s \in Status |->
        CASE s = "open"        -> {"in_progress", "deferred", "cancelled",
                                   "blocked", "invalidated"}
          [] s = "in_progress" -> {"done", "deferred", "cancelled", "open",
                                   "blocked", "invalidated"}
          [] s = "blocked"     -> {"open", "in_progress", "cancelled",
                                   "invalidated"}
          [] s = "done"        -> {"open", "invalidated"}
          [] s = "deferred"    -> {"open", "in_progress", "cancelled",
                                   "invalidated"}
          [] s = "cancelled"   -> {"open", "invalidated"}
          [] s = "invalidated" -> {"open", "in_progress", "deferred",
                                   "cancelled"}]

\* A transition to the status the node already has is allowed (a no-op).
ValidateTransition(from, to) == from = to \/ to \in validTransitions[from]

\* Statuses under which no child may be created.
TerminalStatus == {"done", "cancelled", "invalidated"}

\* Statuses of a blocker that no longer block its dependents.
ResolvingStatus == {"done", "cancelled", "invalidated"}

\* Statuses of a child that its parent's progress leaves out.
UncountedStatus == {"cancelled", "invalidated"}
=============================================================================
