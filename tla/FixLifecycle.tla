---------------------------- MODULE FixLifecycle ----------------------------
(***************************************************************************)
(* What the commands promise of one fix, read off their per-item flows     *)
(* (optimize.ts:8-14, promote.ts:11-17, approve.ts:10-14, rollback.ts:7-12 *)
(* and verify): the statuses it goes through and when the site may change. *)
(***************************************************************************)
CONSTANT Items

VARIABLES
  status, \* [Items -> execution_status]
  live    \* [Items -> {"orig", "fix"}]

vars == <<status, live>>

Open == {"queued", "pending_approval", "approved"}

Init ==
  /\ status = [i \in Items |-> "queued"]
  /\ live = [i \in Items |-> "orig"]

Move(i, from, to) ==
  /\ status[i] \in from
  /\ status' = [status EXCEPT ![i] = to]
  /\ UNCHANGED live

Hold(i)    == Move(i, {"queued"}, "pending_approval")
Approve(i) == Move(i, {"pending_approval"}, "approved")
Skip(i)    == Move(i, {"pending_approval"}, "skipped")
Fail(i)    == Move(i, Open, "failed")
Deploy(i)  == Move(i, Open, "deployed")
Regress(i) == Move(i, {"deployed"}, "regression_detected")

(* The site is written for an item still open, and restored for one that   *)
(* was deployed.                                                           *)
Put(i) ==
  /\ status[i] \in Open
  /\ live' = [live EXCEPT ![i] = "fix"]
  /\ UNCHANGED status
Restore(i) ==
  /\ status[i] \in {"deployed", "regression_detected"}
  /\ live' = [live EXCEPT ![i] = "orig"]
  /\ UNCHANGED status

Next == \E i \in Items :
  \/ Hold(i) \/ Approve(i) \/ Skip(i) \/ Fail(i) \/ Deploy(i) \/ Regress(i)
  \/ Put(i) \/ Restore(i)

Spec == Init /\ [][Next]_vars
=============================================================================
