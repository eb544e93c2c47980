-------------------------- MODULE MCApprovalQueue --------------------------
(* Small instances of ApprovalQueue: two items of any issue types, with no *)
(* earlier decisions, just enough of them, or a long record of approvals.  *)
EXTENDS ApprovalQueue, TLC

CONSTANTS i1, i2, q1, q2

NoneDecided == {[approved |-> 0, rejected |-> 0, other |-> 1]}
Borderline  == {[approved |-> 4, rejected |-> 1, other |-> 0]}
Trusted     == {[approved |-> 9, rejected |-> 0, other |-> 0]}
AllPasts    == NoneDecided \cup Borderline
Symmetric   == Permutations({i1, i2}) \cup Permutations({q1, q2})
=============================================================================
