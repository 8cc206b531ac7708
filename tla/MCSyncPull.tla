----------------------------- MODULE MCSyncPull -----------------------------
(***************************************************************************)
(* Model checking of module SyncPull.  Ann creates n1 (clock 5), edits it  *)
(* after hearing from others (clock 14) and edits it with a clock no       *)
(* replica accepts (16).  Ben worked offline on n2: his clocks are ahead   *)
(* of what a replica at zero accepts, and straddle a cursor at 14: he      *)
(* creates n2 (clock 12) and deletes it (15).                              *)
(***************************************************************************)
EXTENDS SyncPull

CONSTANTS ann, ben, n1, n2

PullEvents == 1..5
PullNodes == {n1, n2}
PullClients == {ann, ben}
PullLamport == <<5, 12, 15, 14, 16>>
PullSubject == <<n1, n2, n2, n1, n1>>
PullPushedBy == <<ann, ben, ben, ann, ann>>
PullKind == <<"create", "create", "delete", "edit", "edit">>
=============================================================================
