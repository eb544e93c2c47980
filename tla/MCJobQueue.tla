----------------------------- MODULE MCJobQueue -----------------------------
(* Small instances of JobQueue: one runner with room for a second loop, or *)
(* two runner processes with one loop each; both handle every job type.    *)
EXTENDS JobQueue, TLC

CONSTANTS j1, j2, w1, w2, r1, r2

OneRunner   == [w \in {w1, w2} |-> r1]
TwoRunners  == (w1 :> r1) @@ (w2 :> r2)
HandlesAll  == [r \in Runners |-> JobTypes]
JobSymmetry == Permutations({j1, j2})
=============================================================================
