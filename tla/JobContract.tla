---------------------------- MODULE JobContract ----------------------------
(***************************************************************************)
(* What the `jobs' table promises of one job (the lifecycle its columns    *)
(* describe in supabase/migrations/019_jobs.sql): it is taken up only by   *)
(* one executor at a time, only while it waits and has tries left; every   *)
(* start is counted; after a failed try it waits again or, when the tries  *)
(* are used up, is failed for good.  A cancellation takes it out of the    *)
(* queue, but does not reach the executor that has it in hand: what that   *)
(* one reports is the last word.                                           *)
(***************************************************************************)
EXTENDS Naturals

CONSTANTS Jobs, MaxAttempts

VARIABLES
  status,  \* [Jobs -> status column, "absent" before the insert]
  tries,   \* [Jobs -> how often the job was started]
  hand     \* [Jobs -> {"free", "taken", "working"}]: the executor it is with

vars == <<status, tries, hand>>

Init ==
  /\ status = [j \in Jobs |-> "absent"]
  /\ tries = [j \in Jobs |-> 0]
  /\ hand = [j \in Jobs |-> "free"]

Submit(j) ==
  /\ status[j] = "absent"
  /\ status' = [status EXCEPT ![j] = "pending"]
  /\ UNCHANGED <<tries, hand>>

Cancel(j) ==
  /\ status[j] # "absent"
  /\ status' = [status EXCEPT ![j] = "cancelled"]
  /\ UNCHANGED <<tries, hand>>

Take(j) ==
  /\ hand[j] = "free"
  /\ status[j] = "pending"
  /\ tries[j] < MaxAttempts
  /\ hand' = [hand EXCEPT ![j] = "taken"]
  /\ UNCHANGED <<status, tries>>

Begin(j) ==
  /\ hand[j] = "taken"
  /\ hand' = [hand EXCEPT ![j] = "working"]
  /\ status' = [status EXCEPT ![j] = "running"]
  /\ tries' = [tries EXCEPT ![j] = @ + 1]

Finish(j) ==
  /\ hand[j] = "working"
  /\ hand' = [hand EXCEPT ![j] = "free"]
  /\ status' = [status EXCEPT ![j] = "done"]
  /\ UNCHANGED tries

(* A failure is reported, and may be reported again before the executor    *)
(* lets go of the job.                                                     *)
Report(j, s) ==
  /\ hand[j] = "working"
  /\ status' = [status EXCEPT ![j] = s]
  /\ hand' = hand \/ hand' = [hand EXCEPT ![j] = "free"]
  /\ UNCHANGED tries

Retry(j)  == tries[j] < MaxAttempts /\ Report(j, "pending")
GiveUp(j) == tries[j] = MaxAttempts /\ Report(j, "failed")

(* The executor dies; the row stays as it is.                              *)
Drop(j) ==
  /\ hand[j] # "free"
  /\ hand' = [hand EXCEPT ![j] = "free"]
  /\ UNCHANGED <<status, tries>>

Next == \E j \in Jobs :
  \/ Submit(j) \/ Cancel(j) \/ Take(j) \/ Begin(j) \/ Finish(j) \/ Retry(j)
  \/ GiveUp(j) \/ Drop(j)

Spec == Init /\ [][Next]_vars
=============================================================================
