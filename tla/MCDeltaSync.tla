---------------------------- MODULE MCDeltaSync ----------------------------
(* One scheduled sync at a time, with the data of a day three days late.   *)
EXTENDS DeltaSync

CONSTANT s1
=============================================================================
