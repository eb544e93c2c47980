--------------------------- MODULE ApprovalQueue ---------------------------
(***************************************************************************)
(* Review of sandbox-verified fixes (tools/learning, the approvals page    *)
(* and its handlers, scripts/run_sandbox_verify.ts).                       *)
(*                                                                         *)
(* A verification logs a row of `learnings' and, when it passed, a row of  *)
(* `approval_queue'.  People approve or reject on the page; a handler      *)
(* first writes the status, then the learning.  The automatic approver     *)
(* decides from the share of approvals among the learnings of the issue    *)
(* type; it runs inside the verification script (--auto-approve) and over  *)
(* the queue of a site (processAutoApprovals).  Nobody's write looks at    *)
(* the status it replaces.  A process that dies takes no more steps.       *)
(***************************************************************************)
EXTENDS Naturals, FiniteSets, Sequences

CONSTANTS
  NoItem,
  Items,         \* verifications, with the rows each one inserts
  Requests,      \* requests of approvals pages that can be in flight
  Pasts,         \* earlier learnings of the eligible issue type
  MinSamples,    \* min_samples
  MinConfidence, \* min_confidence, in percent
  MaxAuto,       \* max_auto_per_run
  MaxFaults      \* bound: failed statements

Verdicts == {"approved", "rejected"}
PastType == [approved : Nat, rejected : Nat, other : Nat]

ASSUME ApprovalAssumption ==
  /\ NoItem \notin Items
  /\ IsFiniteSet(Items)
  /\ Pasts \subseteq PastType
  /\ {MinSamples, MinConfidence, MaxAuto, MaxFaults} \subseteq Nat

VARIABLES
  row,      \* approval_queue: status, and whether the note says auto_approved
  queue,    \* its rows by created_at
  learning, \* learnings.approval_status of each item
  eligible, \* items of the issue type the approver may decide
  past,     \* learnings of that type that were there before
  script,   \* the verification script of each item
  batch,    \* the run of processAutoApprovals
  request,  \* requests of the pages
  faults,   \* how much of the bound is used
  said,     \* history: the verdicts people gave an item
  torn      \* history: items with a lost learning write or mixed requests

history == <<eligible, past>>
tables == <<row, queue, learning, history>>
people == <<request, said, torn>>
vars == <<tables, script, batch, people, faults>>

RowType == [status : {"absent", "pending"} \cup Verdicts, auto : BOOLEAN]
ScriptPcs == {"verify", "queue", "evaluate", "approve", "done"}
BatchType == [pc : {"idle", "evaluate", "approve"},
              todo : Seq(Items), yes : Seq(Items)]
RequestType == [pc : {"idle", "status", "learn"}, item : Items \cup {NoItem},
                verdict : Verdicts]

TypeOK ==
  /\ row \in [Items -> RowType]
  /\ queue \in Seq(Items)
  /\ learning \in [Items -> {"absent", "pending", "failed_sandbox"} \cup Verdicts]
  /\ eligible \in SUBSET Items
  /\ past \in PastType
  /\ script \in [Items -> ScriptPcs]
  /\ batch \in BatchType
  /\ request \in [Requests -> RequestType]
  /\ faults \in Nat
  /\ said \in [Items -> SUBSET Verdicts]
  /\ torn \in SUBSET Items

BatchIdle == [pc |-> "idle", todo |-> <<>>, yes |-> <<>>]
NoRequest == [pc |-> "idle", item |-> NoItem, verdict |-> "approved"]

Init ==
  /\ row = [i \in Items |-> [status |-> "absent", auto |-> FALSE]]
  /\ queue = <<>>
  /\ learning = [i \in Items |-> "absent"]
  /\ eligible \in SUBSET Items
  /\ past \in Pasts
  /\ script = [i \in Items |-> "verify"]
  /\ batch = BatchIdle
  /\ request = [q \in Requests |-> NoRequest]
  /\ faults = 0
  /\ said = [i \in Items |-> {}]
  /\ torn = {}

Fault == faults < MaxFaults /\ faults' = faults + 1

\* a status of its own for what the approver let through
AutoApprove_OwnStatus(i) ==
  /\ row' = [row EXCEPT ![i] = [status |-> "auto_approved", auto |-> TRUE]]
  /\ UNCHANGED faults

\* updateApprovalStatus by the approver, or its update fails; nobody looks
AutoApprove(i) ==
  \/ /\ row' = [row EXCEPT ![i] = [status |-> "approved", auto |-> TRUE]]
     /\ UNCHANGED faults
  \/ Fault /\ UNCHANGED row

-----------------------------------------------------------------------------
(* scoreConfidence: the learnings of the type, decided or not, are the     *)
(* samples; the score is the share of approvals among the decided ones,    *)
(* in percent, plus a bonus for many samples, and no more than 100.        *)

WithStatus(s) == {i \in eligible : learning[i] = s}
Samples == past.approved + past.rejected + past.other
             + Cardinality({i \in eligible : learning[i] # "absent"})
Passed  == past.approved + Cardinality(WithStatus("approved"))
Decided == Passed + past.rejected + Cardinality(WithStatus("rejected"))
Bonus   == IF Samples > 10 THEN 10 ELSE IF Samples > 5 THEN 5 ELSE 0

\* no decided learning scored as a perfect record
Confident_EmptyIsPerfect ==
  /\ Samples >= 3
  /\ 100 * Passed + Bonus * Decided >= MinConfidence * Decided

Confident ==
  /\ Samples >= 3
  /\ MinConfidence <= 100
  /\ IF Decided = 0 THEN Bonus >= MinConfidence
                    ELSE 100 * Passed + Bonus * Decided >= MinConfidence * Decided

\* evaluateForAutoApproval without the gates on the issue type
Qualifies_AnyType(i) == Samples >= MinSamples /\ Confident

Qualifies(i) ==
  /\ i \in eligible
  /\ Samples >= MinSamples
  /\ Confident

-----------------------------------------------------------------------------
(* sandboxVerifyAndLog for item i, split at its awaited statements.        *)

Goto(i, pc) == script' = [script EXCEPT ![i] = pc]

\* verify, then logLearning; without a learning nothing is queued
LogLearning(i) ==
  /\ script[i] = "verify"
  /\ \/ /\ learning' = [learning EXCEPT ![i] = "pending"]
        /\ Goto(i, "queue")
        /\ UNCHANGED faults
     \/ /\ learning' = [learning EXCEPT ![i] = "failed_sandbox"]
        /\ Goto(i, "done")
        /\ UNCHANGED faults
     \/ Fault /\ Goto(i, "done") /\ UNCHANGED learning
  /\ UNCHANGED <<row, queue, history, batch, people>>

QueueForApproval(i) ==
  /\ script[i] = "queue"
  /\ \/ /\ row' = [row EXCEPT ![i].status = "pending"]
        /\ queue' = Append(queue, i)
        /\ Goto(i, "evaluate")
        /\ UNCHANGED faults
     \/ Fault /\ Goto(i, "done") /\ UNCHANGED <<row, queue>>
  /\ UNCHANGED <<learning, history, batch, people>>

\* learnings that cannot be read count as none
ScriptEvaluate(i) ==
  /\ script[i] = "evaluate"
  /\ \/ /\ Goto(i, IF Qualifies(i) THEN "approve" ELSE "done")
        /\ UNCHANGED faults
     \/ Fault /\ Goto(i, "done")
  /\ UNCHANGED <<tables, batch, people>>

ScriptApprove(i) ==
  /\ script[i] = "approve"
  /\ AutoApprove(i)
  /\ Goto(i, "done")
  /\ UNCHANGED <<queue, learning, history, batch, people>>

-----------------------------------------------------------------------------
(* processAutoApprovals of one site.  getApprovalQueue(db, siteId) filters *)
(* by the site and not by the status.  All items are evaluated before the  *)
(* first approval is written.                                              *)

GetApprovalQueue ==
  /\ batch.pc = "idle"
  /\ queue # <<>>
  /\ batch' = [BatchIdle EXCEPT !.pc = "evaluate", !.todo = queue]
  /\ UNCHANGED <<tables, script, people, faults>>

\* the loop goes on with the rest of the list, or turns to the approvals
AfterEvaluation(yes) ==
  batch' = IF Len(batch.todo) > 1
             THEN [batch EXCEPT !.todo = Tail(@), !.yes = yes]
           ELSE IF yes = <<>> THEN BatchIdle
           ELSE [pc |-> "approve", todo |-> <<>>, yes |-> yes]

BatchEvaluate ==
  /\ batch.pc = "evaluate"
  /\ LET i   == Head(batch.todo)
         yes == Len(batch.yes) < MaxAuto /\ Qualifies(i)
     IN \/ /\ AfterEvaluation(IF yes THEN Append(batch.yes, i) ELSE batch.yes)
           /\ UNCHANGED faults
        \/ Fault /\ AfterEvaluation(batch.yes)
  /\ UNCHANGED <<tables, script, people>>

AfterApproval ==
  batch' = IF Len(batch.yes) > 1 THEN [batch EXCEPT !.yes = Tail(@)] ELSE BatchIdle

\* approvals counted as learnings, although nobody looked
BatchApprove_Learns ==
  /\ batch.pc = "approve"
  /\ AutoApprove(Head(batch.yes))
  /\ learning' = [learning EXCEPT ![Head(batch.yes)] = "approved"]
  /\ AfterApproval
  /\ UNCHANGED <<queue, history, script, people>>

BatchApprove ==
  /\ batch.pc = "approve"
  /\ AutoApprove(Head(batch.yes))
  /\ AfterApproval
  /\ UNCHANGED <<queue, learning, history, script, people>>

-----------------------------------------------------------------------------
(* The approvals page and its two handlers.  A page shows the items that   *)
(* were pending when it was opened, and disables the buttons only of the   *)
(* item last acted on; every row was pending once.  So whatever a row says *)
(* by now, a request for it can come, and two of them can be under way.    *)

Press(q, i, v) ==
  /\ request[q].pc = "idle"
  /\ row[i].status # "absent"
  /\ request' = [request EXCEPT ![q] = [pc |-> "status", item |-> i, verdict |-> v]]
  /\ UNCHANGED <<tables, script, batch, said, torn, faults>>

Answer(q) == request' = [request EXCEPT ![q] = NoRequest]

BeforeLearning(i) == {q \in Requests : request[q].pc = "learn" /\ request[q].item = i}

\* approveItem and rejectItem: setStatus, then setLearning
SetStatus(q) ==
  LET i == request[q].item  v == request[q].verdict
  IN /\ request[q].pc = "status"
     /\ \/ /\ row' = [row EXCEPT ![i] = [status |-> v, auto |-> FALSE]]
           /\ said' = [said EXCEPT ![i] = @ \cup {v}]
           /\ torn' = IF BeforeLearning(i) = {} THEN torn ELSE torn \cup {i}
           /\ request' = [request EXCEPT ![q].pc = "learn"]
           /\ UNCHANGED faults
        \/ Fault /\ Answer(q) /\ UNCHANGED <<row, said, torn>>
     /\ UNCHANGED <<queue, learning, history, script, batch>>

\* only approvals are learnt from
SetLearning_ApprovalsOnly(q) ==
  LET i == request[q].item  v == request[q].verdict
  IN /\ request[q].pc = "learn"
     /\ learning' = [learning EXCEPT ![i] = IF v = "approved" THEN v ELSE @]
     /\ Answer(q)
     /\ UNCHANGED <<row, queue, history, script, batch, said, torn, faults>>

\* a learning that cannot be written does not fail the request
SetLearning(q) ==
  LET i == request[q].item
  IN /\ request[q].pc = "learn"
     /\ \/ /\ learning' = [learning EXCEPT ![i] = request[q].verdict]
           /\ UNCHANGED <<torn, faults>>
        \/ Fault /\ torn' = torn \cup {i} /\ UNCHANGED learning
     /\ Answer(q)
     /\ UNCHANGED <<row, queue, history, script, batch, said>>

-----------------------------------------------------------------------------
Script(i) ==
  LogLearning(i) \/ QueueForApproval(i) \/ ScriptEvaluate(i) \/ ScriptApprove(i)

Batch == GetApprovalQueue \/ BatchEvaluate \/ BatchApprove

Request(q) == SetStatus(q) \/ SetLearning(q)

Next ==
  \/ \E i \in Items : Script(i)
  \/ Batch
  \/ \E q \in Requests, i \in Items, v \in Verdicts : Press(q, i, v)
  \/ \E q \in Requests : Request(q)

Spec == Init /\ [][Next]_vars

-----------------------------------------------------------------------------
(* What a learning says, a person said of that very item: no automatic     *)
(* approval and no failed or overtaken request feeds the history that the  *)
(* automatic approver decides from.                                        *)
LearningIsHuman ==
  \A i \in Items : learning[i] \in Verdicts => learning[i] \in said[i]

(* Nothing is approved automatically before a person approved something of *)
(* the issue type: neither an empty history, nor one of undecided rows, nor *)
(* the bonus for their number is enough, however late the decision is      *)
(* written.                                                                *)
PersonFirst ==
  past.approved > 0 \/ \E j \in eligible : "approved" \in said[j]

AutoFollowsPeople == (\E i \in Items : row[i].auto) => PersonFirst

(* An item of an issue type that is blocked or not listed is approved only *)
(* by a person, whatever the approver and the script do meanwhile.         *)
IneligibleNeedsPerson ==
  \A i \in Items \ eligible :
    row[i].status = "approved" => "approved" \in said[i]

(* The two tables agree at rest: the verdict a person's request left in    *)
(* the queue is the one the learning has, unless a learning write was lost *)
(* or two requests for the item were mixed.                                *)
LearningMatchesRow ==
  \A i \in Items \ torn :
    (BeforeLearning(i) = {} /\ row[i].status \in Verdicts /\ ~row[i].auto)
      => learning[i] = row[i].status

(* processAutoApprovals finds "all pending items" and getApprovalQueue      *)
(* "returns rows with status = 'pending'": a run decides on nothing a      *)
(* person has already decided.                                             *)
BatchTakesPending ==
  [][GetApprovalQueue => \A k \in DOMAIN batch'.todo :
                           row[batch'.todo[k]].status = "pending"]_vars
=============================================================================
