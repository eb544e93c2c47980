--------------------------- MODULE MCFixPipeline ---------------------------
(* Two items: x ranks first, needs generated text and is written by the    *)
(* adapter; y is above the risk of the run.  One process, or two of which  *)
(* only the first runs optimize.                                           *)
EXTENDS FixPipeline, TLC

CONSTANTS x, y, p1, p2

XFirst       == (x :> 1) @@ (y :> 2)
RunsAll      == [p \in Procs |-> Commands]
Operators    == (p1 :> {"optimize"}) @@ (p2 :> Commands \ {"optimize"})
=============================================================================
