------------------------ MODULE ApprovalQueueProofs ------------------------
(***************************************************************************)
(* Theorems about ApprovalQueue, for any items, requests, earlier          *)
(* learnings and limits of the approver.                                   *)
(***************************************************************************)
EXTENDS ApprovalQueue, FiniteSetTheorems, TLAPS

(* The lists the batch takes heads of are not empty, and a request that is *)
(* under way is for an item.                                               *)
Working ==
  /\ batch.pc = "evaluate" => batch.todo # <<>>
  /\ batch.pc = "approve" => batch.yes # <<>>
  /\ \A q \in Requests : request[q].pc # "idle" => request[q].item \in Items
TypeInv == TypeOK /\ Working

(* The head and the tail of a list that is not empty: the loops of the     *)
(* batch take them off.                                                    *)
LEMMA HeadAndTail ==
  ASSUME NEW s \in Seq(Items), s # <<>>
  PROVE  /\ Head(s) \in Items
         /\ Tail(s) \in Seq(Items)
         /\ Len(s) \in Nat /\ (Len(s) > 1 => Tail(s) # <<>>)
  OBVIOUS

(* An automatic approval, written or failed, leaves well-typed rows.       *)
LEMMA AutoApproveType ==
  ASSUME TypeOK, NEW i \in Items, AutoApprove(i)
  PROVE  row' \in [Items -> RowType] /\ faults' \in Nat
<1>1. [status |-> "approved", auto |-> TRUE] \in RowType  BY DEF RowType, Verdicts
<1>2. row \in [Items -> RowType] /\ faults \in Nat  BY DEF TypeOK
<1>3. \/ /\ row' = [row EXCEPT ![i] = [status |-> "approved", auto |-> TRUE]]
         /\ faults' = faults
      \/ row' = row /\ faults' = faults + 1
  BY DEF AutoApprove, Fault
<1>4. row' \in [Items -> RowType]
  <2> DEFINE new == [status |-> "approved", auto |-> TRUE]
  <2>1. new \in RowType /\ (row' = [row EXCEPT ![i] = new] \/ row' = row)
    BY <1>1, <1>3
  <2> HIDE DEF new
  <2>2. QED  BY <1>2, <2>1
<1>5. QED  BY <1>2, <1>3, <1>4

(* Moving a script on keeps it typed.                                      *)
LEMMA GotoType ==
  ASSUME TypeOK, NEW i \in Items, NEW pc \in ScriptPcs, Goto(i, pc)
  PROVE  script' \in [Items -> ScriptPcs]
  BY DEF Goto, TypeOK

(* Answering a request keeps the requests typed and real.                  *)
LEMMA AnswerType ==
  ASSUME TypeInv, NEW q \in Requests, Answer(q)
  PROVE  /\ request' \in [Requests -> RequestType]
         /\ \A r \in Requests : request'[r].pc # "idle" => request'[r].item \in Items
<1>1. NoRequest \in RequestType  BY DEF NoRequest, RequestType, Verdicts
<1>2. QED  BY <1>1 DEF Answer, TypeInv, TypeOK, Working, NoRequest

-----------------------------------------------------------------------------
(* Type correctness.                                                       *)

(* The empty tables and idle processes are well typed.                     *)
THEOREM InitType == Init => TypeInv
<1> SUFFICES ASSUME Init PROVE TypeInv  OBVIOUS
<1>1. TypeOK
  <2>1. BatchIdle \in BatchType  BY DEF BatchIdle, BatchType
  <2>2. NoRequest \in RequestType  BY DEF NoRequest, RequestType, Verdicts
  <2>3. past \in PastType  BY ApprovalAssumption DEF Init
  <2>4. QED  BY <2>1, <2>2, <2>3 DEF Init, TypeOK, RowType, ScriptPcs
<1>2. Working  BY DEF Init, Working, BatchIdle, NoRequest
<1>3. QED  BY <1>1, <1>2 DEF TypeInv

(* Each step of a script, the batch, a page or a request keeps the types   *)
(* and the items in hand real.                                             *)
THEOREM StepType == TypeInv /\ [Next]_vars => TypeInv'
<1> SUFFICES ASSUME TypeOK, Working, [Next]_vars PROVE TypeOK' /\ Working'
  BY DEF TypeInv
<1> USE DEF people, tables, history
<1>1. ASSUME NEW i \in Items, Script(i) PROVE TypeOK' /\ Working'
  <2>1. CASE LogLearning(i)
    <3>1. script' \in [Items -> ScriptPcs]
      BY <2>1, GotoType DEF LogLearning, ScriptPcs
    <3>2. QED  BY <2>1, <3>1 DEF LogLearning, TypeOK, Working, Fault
  <2>2. CASE QueueForApproval(i)
    <3>1. script' \in [Items -> ScriptPcs]
      BY <2>2, GotoType DEF QueueForApproval, ScriptPcs
    <3>2. row' \in [Items -> RowType] /\ faults' \in Nat
      BY <2>2 DEF QueueForApproval, Fault, TypeOK, RowType
    <3>3. queue' \in Seq(Items)  BY <2>2 DEF QueueForApproval, TypeOK
    <3>4. QED  BY <2>2, <3>1, <3>2, <3>3 DEF QueueForApproval, TypeOK, Working
  <2>3. CASE ScriptEvaluate(i)
    <3>1. script' \in [Items -> ScriptPcs]
      BY <2>3, GotoType DEF ScriptEvaluate, ScriptPcs
    <3>2. QED  BY <2>3, <3>1 DEF ScriptEvaluate, TypeOK, Working, Fault
  <2>4. CASE ScriptApprove(i)
    <3>1. script' \in [Items -> ScriptPcs]
      BY <2>4, GotoType DEF ScriptApprove, ScriptPcs
    <3>2. row' \in [Items -> RowType] /\ faults' \in Nat
      BY <2>4, AutoApproveType DEF ScriptApprove
    <3>3. QED  BY <2>4, <3>1, <3>2 DEF ScriptApprove, TypeOK, Working
  <2>5. QED  BY <1>1, <2>1, <2>2, <2>3, <2>4 DEF Script
<1>2. CASE Batch
  <2>0. batch \in BatchType /\ BatchIdle \in BatchType
    BY DEF TypeOK, BatchIdle, BatchType
  <2>1. CASE GetApprovalQueue
    <3>1. batch' \in BatchType
      BY <2>0, <2>1 DEF GetApprovalQueue, TypeOK, BatchIdle, BatchType
    <3>2. Working'  BY <2>1 DEF GetApprovalQueue, Working, BatchIdle
    <3>3. QED  BY <2>1, <3>1, <3>2 DEF GetApprovalQueue, TypeOK
  <2>2. CASE BatchEvaluate
    <3>1. /\ batch.todo \in Seq(Items) /\ batch.todo # <<>>
          /\ batch.yes \in Seq(Items)
      BY <2>0, <2>2 DEF BatchEvaluate, Working, BatchType
    <3>a. Append(batch.yes, Head(batch.todo)) \in Seq(Items)
      BY <3>1, HeadAndTail
    <3>b. AfterEvaluation(Append(batch.yes, Head(batch.todo)))
            \/ AfterEvaluation(batch.yes)
      BY <2>2 DEF BatchEvaluate
    <3>2. PICK yes \in Seq(Items) : AfterEvaluation(yes)
      BY <3>1, <3>a, <3>b
    <3>3. batch' \in BatchType
      <4>1. CASE Len(batch.todo) > 1
        BY <2>0, <3>1, <3>2, <4>1, HeadAndTail DEF AfterEvaluation, BatchType
      <4>2. CASE ~(Len(batch.todo) > 1)
        BY <2>0, <3>2, <4>2 DEF AfterEvaluation, BatchType
      <4>3. QED  BY <4>1, <4>2
    <3>4. /\ batch'.pc = "evaluate" => batch'.todo # <<>>
          /\ batch'.pc = "approve" => batch'.yes # <<>>
      BY <2>0, <2>2, <3>1, <3>2, HeadAndTail
      DEF AfterEvaluation, BatchEvaluate, BatchIdle, BatchType
    <3>5. QED
      BY <2>2, <3>3, <3>4 DEF BatchEvaluate, Fault, TypeOK, Working
  <2>3. CASE BatchApprove
    <3>1. batch.yes \in Seq(Items) /\ batch.yes # <<>>
      BY <2>0, <2>3 DEF BatchApprove, Working, BatchType
    <3>2. row' \in [Items -> RowType] /\ faults' \in Nat
      BY <2>3, <3>1, HeadAndTail, AutoApproveType DEF BatchApprove
    <3>3. batch' \in BatchType
      BY <2>0, <2>3, <3>1, HeadAndTail DEF BatchApprove, AfterApproval, BatchType
    <3>4. /\ batch'.pc = "evaluate" => batch'.todo # <<>>
          /\ batch'.pc = "approve" => batch'.yes # <<>>
      BY <2>0, <2>3, <3>1, HeadAndTail
      DEF BatchApprove, AfterApproval, BatchIdle, BatchType
    <3>5. QED  BY <2>3, <3>2, <3>3, <3>4 DEF BatchApprove, TypeOK, Working
  <2>4. QED  BY <1>2, <2>1, <2>2, <2>3 DEF Batch
<1>3. ASSUME NEW q \in Requests, NEW i \in Items, NEW v \in Verdicts,
             Press(q, i, v)
      PROVE  TypeOK' /\ Working'
  <2>1. [pc |-> "status", item |-> i, verdict |-> v] \in RequestType
    BY DEF RequestType
  <2>2. QED  BY <1>3, <2>1 DEF Press, TypeOK, Working
<1>4. ASSUME NEW q \in Requests, Request(q) PROVE TypeOK' /\ Working'
  <2>0. request[q] \in RequestType  BY DEF TypeOK
  <2>1. CASE SetStatus(q)
    <3>0. request[q].item \in Items  BY <2>1 DEF SetStatus, Working
    <3>1. CASE Fault /\ Answer(q) /\ UNCHANGED <<row, said, torn>>
      <4>1. /\ request' \in [Requests -> RequestType]
            /\ \A r \in Requests :
                 request'[r].pc # "idle" => request'[r].item \in Items
        BY <3>1, AnswerType DEF TypeInv
      <4>2. QED  BY <2>1, <3>1, <4>1 DEF SetStatus, Fault, TypeOK, Working
    <3>2. CASE ~(Fault /\ Answer(q) /\ UNCHANGED <<row, said, torn>>)
      <4> DEFINE i == request[q].item  v == request[q].verdict
      <4>0. /\ row' = [row EXCEPT ![i] = [status |-> v, auto |-> FALSE]]
            /\ said' = [said EXCEPT ![i] = @ \cup {v}]
            /\ torn' \in {torn, torn \cup {i}}
            /\ request' = [request EXCEPT ![q].pc = "learn"]
            /\ UNCHANGED <<queue, learning, history, script, batch, faults>>
        BY <2>1, <3>2 DEF SetStatus
      <4>a. i \in Items /\ v \in Verdicts  BY <2>0, <3>0 DEF RequestType
      <4>1. row' \in [Items -> RowType]
        <5>1. [status |-> v, auto |-> FALSE] \in RowType  BY <4>a DEF RowType
        <5>2. QED  BY <4>0, <5>1 DEF TypeOK
      <4>2. said' \in [Items -> SUBSET Verdicts]
        <5>1. said[i] \cup {v} \in SUBSET Verdicts  BY <4>a DEF TypeOK
        <5>2. QED  BY <4>0, <5>1 DEF TypeOK
      <4>3. torn' \in SUBSET Items  BY <4>0, <4>a DEF TypeOK
      <4>4. request' \in [Requests -> RequestType]
        <5>1. [request[q] EXCEPT !.pc = "learn"] \in RequestType
          BY <2>0 DEF RequestType
        <5>2. QED  BY <4>0, <5>1 DEF TypeOK
      <4>5. Working'  BY <4>0, <4>a DEF Working, TypeOK
      <4>6. QED  BY <4>0, <4>1, <4>2, <4>3, <4>4, <4>5 DEF TypeOK
    <3>3. QED  BY <3>1, <3>2
  <2>2. CASE SetLearning(q)
    <3>0. request[q].item \in Items  BY <2>2 DEF SetLearning, Working
    <3>1. /\ request' \in [Requests -> RequestType]
          /\ \A r \in Requests :
               request'[r].pc # "idle" => request'[r].item \in Items
      BY <2>2, AnswerType DEF SetLearning, TypeInv
    <3>2. learning' \in [Items -> {"absent", "pending", "failed_sandbox"}
                                    \cup Verdicts]
      BY <2>0, <2>2, <3>0 DEF SetLearning, TypeOK, RequestType
    <3>3. torn' \in SUBSET Items /\ faults' \in Nat
      BY <2>2, <3>0 DEF SetLearning, Fault, TypeOK
    <3>4. QED  BY <2>2, <3>1, <3>2, <3>3 DEF SetLearning, TypeOK, Working
  <2>3. QED  BY <1>4, <2>1, <2>2 DEF Request
<1>5. CASE UNCHANGED vars  BY <1>5 DEF vars, TypeOK, Working
<1>6. QED  BY <1>1, <1>2, <1>3, <1>4, <1>5 DEF Next

(* Every value of every variable is of its type.                           *)
THEOREM TypeCorrect == Spec => []TypeOK
<1>1. TypeInv => TypeOK  BY DEF TypeInv
<1>2. QED  BY InitType, StepType, <1>1, PTL DEF Spec

-----------------------------------------------------------------------------
(* What the learnings say, people said.  A verdict is recorded in the      *)
(* queue before the same request writes the learning.                      *)

SaidBefore == \A q \in Requests :
  request[q].pc = "learn" => request[q].verdict \in said[request[q].item]
HumanInv == LearningIsHuman /\ SaidBefore

(* No learning has a verdict yet.                                          *)
THEOREM InitHuman == Init => HumanInv
  BY DEF Init, HumanInv, LearningIsHuman, SaidBefore, NoRequest, Verdicts

(* A verdict enters the learnings only from a request that has set the     *)
(* status first.                                                           *)
THEOREM StepHuman == TypeInv /\ HumanInv /\ [Next]_vars => HumanInv'
<1> SUFFICES ASSUME TypeInv, LearningIsHuman, SaidBefore, [Next]_vars
             PROVE  LearningIsHuman' /\ SaidBefore'
  BY DEF HumanInv
<1> USE DEF people, tables, history
<1>0. TypeOK /\ Working  BY DEF TypeInv
<1>1. ASSUME NEW i \in Items, Script(i) PROVE LearningIsHuman' /\ SaidBefore'
  <2>1. UNCHANGED <<request, said>>
    BY <1>1 DEF Script, LogLearning, QueueForApproval, ScriptEvaluate, ScriptApprove
  <2>2. \A j \in Items : learning'[j] \in Verdicts => learning'[j] = learning[j]
    <3>1. CASE LogLearning(i)
      BY <1>0, <3>1 DEF LogLearning, TypeOK, Verdicts
    <3>2. CASE ~LogLearning(i)
      BY <1>1, <3>2 DEF Script, QueueForApproval, ScriptEvaluate, ScriptApprove
    <3>3. QED  BY <3>1, <3>2
  <2>3. QED  BY <2>1, <2>2 DEF LearningIsHuman, SaidBefore
<1>2. CASE Batch
  BY <1>2 DEF Batch, GetApprovalQueue, BatchEvaluate, BatchApprove,
              LearningIsHuman, SaidBefore
<1>3. ASSUME NEW q \in Requests, NEW i \in Items, NEW v \in Verdicts,
             Press(q, i, v)
      PROVE  LearningIsHuman' /\ SaidBefore'
  BY <1>0, <1>3 DEF Press, TypeOK, LearningIsHuman, SaidBefore
<1>4. ASSUME NEW q \in Requests, Request(q) PROVE LearningIsHuman' /\ SaidBefore'
  <2> DEFINE i == request[q].item  v == request[q].verdict
  <2>1. CASE SetStatus(q)
    <3>1. CASE Answer(q) /\ UNCHANGED said
      BY <1>0, <2>1, <3>1
      DEF SetStatus, Answer, NoRequest, TypeOK, LearningIsHuman, SaidBefore
    <3>2. CASE /\ said' = [said EXCEPT ![i] = @ \cup {v}]
               /\ request' = [request EXCEPT ![q].pc = "learn"]
      <4>1. i \in Items  BY <1>0, <2>1 DEF SetStatus, Working
      <4>2. \A j \in Items : said[j] \subseteq said'[j]  BY <1>0, <3>2 DEF TypeOK
      <4>3. v \in said'[i]  BY <1>0, <3>2, <4>1 DEF TypeOK
      <4>4. LearningIsHuman'  BY <2>1, <4>2 DEF SetStatus, LearningIsHuman
      <4>5. \A r \in Requests : /\ request'[r].item = request[r].item
                                /\ request'[r].verdict = request[r].verdict
                                /\ r # q => request'[r] = request[r]
        BY <1>0, <3>2 DEF TypeOK, RequestType
      <4>6. SaidBefore'
        BY <1>0, <4>2, <4>3, <4>5 DEF SaidBefore, Working
      <4>7. QED  BY <4>4, <4>6
    <3>3. QED  BY <2>1, <3>1, <3>2 DEF SetStatus
  <2>2. CASE SetLearning(q)
    <3>1. v \in said[i]  BY <2>2 DEF SetLearning, SaidBefore
    <3>2. UNCHANGED said /\ Answer(q)  BY <2>2 DEF SetLearning
    <3>3. learning' \in {learning, [learning EXCEPT ![i] = v]}
      BY <2>2 DEF SetLearning
    <3>4. LearningIsHuman'  BY <1>0, <3>1, <3>2, <3>3 DEF TypeOK, LearningIsHuman
    <3>5. SaidBefore'
      BY <1>0, <3>2 DEF Answer, NoRequest, TypeOK, SaidBefore
    <3>6. QED  BY <3>4, <3>5
  <2>3. QED  BY <1>4, <2>1, <2>2 DEF Request
<1>5. CASE UNCHANGED vars  BY <1>5 DEF vars, LearningIsHuman, SaidBefore
<1>6. QED  BY <1>1, <1>2, <1>3, <1>4, <1>5 DEF Next

(* What a learning says, a person said of that item.                       *)
THEOREM LearningsAreHuman == Spec => []LearningIsHuman
<1>1. HumanInv => LearningIsHuman  BY DEF HumanInv
<1>2. QED  BY InitType, StepType, InitHuman, StepHuman, <1>1, PTL DEF Spec

-----------------------------------------------------------------------------
(* No automatic approval before a person's, provided the threshold is      *)
(* above the highest bonus.                                                *)

(* The learnings of a type with one status are finitely many, so their     *)
(* count is a natural number, 0 when there are none.                       *)
LEMMA LearningCount ==
  ASSUME TypeOK, NEW s
  PROVE  /\ Cardinality(WithStatus(s)) \in Nat
         /\ WithStatus(s) = {} => Cardinality(WithStatus(s)) = 0
         /\ Cardinality({i \in eligible : learning[i] # "absent"}) \in Nat
<1>1. IsFiniteSet(eligible)  BY ApprovalAssumption, FS_Subset DEF TypeOK
<1>2. IsFiniteSet(WithStatus(s))  BY <1>1, FS_Subset DEF WithStatus
<1>3. IsFiniteSet({i \in eligible : learning[i] # "absent"})  BY <1>1, FS_Subset
<1>4. QED  BY <1>2, <1>3, FS_CardinalityType, FS_EmptySet

(* With no approval among the learnings the score is the bonus at most.    *)
LEMMA ConfidenceNeedsPerson ==
  ASSUME TypeOK, LearningIsHuman, MinConfidence > 10, Confident
  PROVE  PersonFirst
<1> SUFFICES ASSUME ~PersonFirst PROVE FALSE  OBVIOUS
<1>1. past.approved = 0  BY DEF PersonFirst, TypeOK, PastType
<1>2. WithStatus("approved") = {}
  BY DEF PersonFirst, LearningIsHuman, WithStatus, Verdicts, TypeOK
<1>a. Cardinality(WithStatus("approved")) = 0  BY <1>2, LearningCount
<1>3. Passed = 0  BY <1>1, <1>a DEF Passed
<1>b. Cardinality(WithStatus("rejected")) \in Nat  BY LearningCount
<1>c. past.rejected \in Nat  BY DEF TypeOK, PastType
<1>4. Decided \in Nat  BY <1>3, <1>b, <1>c DEF Decided
<1>5. Bonus \in Nat /\ Bonus <= 10  BY DEF Bonus
<1>6. MinConfidence \in Nat  BY ApprovalAssumption
<1>7. Decided # 0  BY <1>5, <1>6 DEF Confident
<1>8. Bonus * Decided >= MinConfidence * Decided
  BY <1>3, <1>4, <1>5, <1>6, <1>7 DEF Confident
<1>9. ASSUME NEW b \in Nat, NEW d \in Nat, NEW m \in Nat,
             b < m, d # 0, b * d >= m * d
      PROVE  FALSE
  BY <1>9
<1>10. QED  BY <1>4, <1>5, <1>6, <1>7, <1>8, <1>9

(* Whoever is about to approve automatically has seen a person's approval. *)
AutoInv ==
  ((\E i \in Items : row[i].auto \/ script[i] = "approve") \/ batch.yes # <<>>)
    => PersonFirst

(* Nothing is approved, and nothing waits to be.                           *)
THEOREM InitAuto == Init => AutoInv
  BY DEF Init, AutoInv, BatchIdle

(* An evaluation that lets an item through finds a person's approval,      *)
(* which nothing takes back until the approval is written.                 *)
THEOREM StepAuto ==
  ASSUME MinConfidence > 10
  PROVE  TypeInv /\ HumanInv /\ AutoInv /\ [Next]_vars => AutoInv'
<1> SUFFICES ASSUME TypeInv, HumanInv, AutoInv, [Next]_vars PROVE AutoInv'
  OBVIOUS
<1> USE DEF people, tables, history
<1>0. TypeOK /\ Working /\ LearningIsHuman  BY DEF TypeInv, HumanInv
<1>a. Confident => PersonFirst  BY <1>0, ConfidenceNeedsPerson
<1>b. PersonFirst => PersonFirst'
  <2>1. ASSUME NEW q \in Requests, SetStatus(q)
        PROVE  \A j \in Items : said[j] \subseteq said'[j]
    BY <1>0, <2>1 DEF SetStatus, TypeOK
  <2>2. \A j \in Items : said[j] \subseteq said'[j]
    BY <2>1 DEF Next, Script, LogLearning, QueueForApproval, ScriptEvaluate,
       ScriptApprove, Batch, GetApprovalQueue, BatchEvaluate, BatchApprove,
       Press, Request, SetLearning, vars
  <2>3. UNCHANGED <<past, eligible>>
    BY DEF Next, Script, LogLearning, QueueForApproval, ScriptEvaluate,
       ScriptApprove, Batch, GetApprovalQueue, BatchEvaluate, BatchApprove,
       Press, Request, SetStatus, SetLearning, vars
  <2>4. QED  BY <1>0, <2>2, <2>3 DEF PersonFirst, TypeOK
<1> SUFFICES ASSUME ~PersonFirst PROVE AutoInv'  BY <1>b DEF AutoInv
<1>c. /\ \A i \in Items : ~row[i].auto /\ script[i] # "approve"
      /\ batch.yes = <<>> /\ ~Confident
  BY <1>a DEF AutoInv
<1> SUFFICES /\ \A i \in Items : ~row'[i].auto /\ script'[i] # "approve"
             /\ batch'.yes = <<>>
  BY DEF AutoInv
<1>1. ASSUME NEW i \in Items, Script(i)
      PROVE  /\ \A j \in Items : ~row'[j].auto /\ script'[j] # "approve"
             /\ batch'.yes = <<>>
  <2>1. ~ScriptApprove(i)  BY <1>c DEF ScriptApprove
  <2>2. ScriptEvaluate(i) => Goto(i, "done")
    BY <1>c DEF ScriptEvaluate, Qualifies
  <2>3. \A j \in Items : script'[j] # "approve"
    BY <1>0, <1>1, <1>c, <2>1, <2>2
    DEF Script, LogLearning, QueueForApproval, ScriptEvaluate, Goto, TypeOK
  <2>4. \A j \in Items : row'[j].auto = row[j].auto
    BY <1>0, <1>1, <2>1
    DEF Script, LogLearning, QueueForApproval, ScriptEvaluate, TypeOK, RowType
  <2>5. UNCHANGED batch
    BY <1>1, <2>1 DEF Script, LogLearning, QueueForApproval, ScriptEvaluate
  <2>6. QED  BY <1>c, <2>3, <2>4, <2>5
<1>2. ASSUME Batch
      PROVE  /\ \A j \in Items : ~row'[j].auto /\ script'[j] # "approve"
             /\ batch'.yes = <<>>
  <2>0. batch \in BatchType  BY <1>0 DEF TypeOK
  <2>1. ~BatchApprove  BY <1>0, <1>c DEF BatchApprove, Working
  <2>2. BatchEvaluate => AfterEvaluation(<<>>)
    BY <1>c DEF BatchEvaluate, Qualifies
  <2>3. batch'.yes = <<>>
    <3>1. CASE GetApprovalQueue  BY <3>1 DEF GetApprovalQueue, BatchIdle
    <3>2. CASE BatchEvaluate
      <4>1. [batch EXCEPT !.todo = Tail(@), !.yes = <<>>].yes = <<>>
        BY <2>0 DEF BatchType
      <4>2. batch' = [batch EXCEPT !.todo = Tail(@), !.yes = <<>>]
              \/ batch' = BatchIdle
        BY <2>2, <3>2, Zenon DEF AfterEvaluation
      <4>3. BatchIdle.yes = <<>>  BY DEF BatchIdle
      <4>4. QED  BY <4>1, <4>2, <4>3, Zenon
    <3>3. QED  BY <1>2, <2>1, <3>1, <3>2 DEF Batch
  <2>4. UNCHANGED <<row, script>>
    BY <1>2, <2>1 DEF Batch, GetApprovalQueue, BatchEvaluate
  <2>5. QED  BY <1>c, <2>3, <2>4
<1>3. ASSUME NEW q \in Requests, NEW i \in Items, NEW v \in Verdicts,
             Press(q, i, v)
      PROVE  /\ \A j \in Items : ~row'[j].auto /\ script'[j] # "approve"
             /\ batch'.yes = <<>>
  BY <1>3, <1>c DEF Press
<1>4. ASSUME NEW q \in Requests, Request(q)
      PROVE  /\ \A j \in Items : ~row'[j].auto /\ script'[j] # "approve"
             /\ batch'.yes = <<>>
  <2>1. UNCHANGED <<script, batch>>
    BY <1>4 DEF Request, SetStatus, SetLearning
  <2>2. \A j \in Items : ~row'[j].auto
    BY <1>0, <1>4, <1>c DEF Request, SetStatus, SetLearning, TypeOK
  <2>3. QED  BY <1>c, <2>1, <2>2
<1>5. CASE UNCHANGED vars  BY <1>5, <1>c DEF vars
<1>6. QED  BY <1>1, <1>2, <1>3, <1>4, <1>5 DEF Next

(* If the threshold is above ten percent, nothing is approved              *)
(* automatically before a person approved something of the issue type.     *)
THEOREM PeopleComeFirst ==
  ASSUME MinConfidence > 10
  PROVE  Spec => []AutoFollowsPeople
<1>1. AutoInv => AutoFollowsPeople  BY DEF AutoInv, AutoFollowsPeople
<1>2. TypeInv /\ HumanInv /\ AutoInv /\ [Next]_vars => AutoInv'  BY StepAuto
<1>3. QED
  BY InitType, StepType, InitHuman, StepHuman, InitAuto, <1>1, <1>2, PTL DEF Spec

-----------------------------------------------------------------------------
(* The approver holds eligible items only.                                 *)

HeldEligible ==
  /\ \A i \in Items : script[i] = "approve" => i \in eligible
  /\ batch.yes \in Seq(eligible)
GateInv == HeldEligible /\ IneligibleNeedsPerson

(* Nothing is approved, and nothing waits to be.                           *)
THEOREM InitGate == Init => GateInv
  BY DEF Init, GateInv, HeldEligible, IneligibleNeedsPerson, BatchIdle

(* Only eligible items come to wait for an automatic approval, and any     *)
(* other approval is a person's.                                           *)
THEOREM StepGate == TypeInv /\ GateInv /\ [Next]_vars => GateInv'
<1> SUFFICES ASSUME TypeInv, HeldEligible, IneligibleNeedsPerson, [Next]_vars
             PROVE  HeldEligible' /\ IneligibleNeedsPerson'
  BY DEF GateInv
<1> USE DEF people, tables, history
<1>0. TypeOK /\ Working  BY DEF TypeInv
<1>a. ASSUME NEW i \in eligible, AutoApprove(i), UNCHANGED <<eligible, said>>
      PROVE  IneligibleNeedsPerson'
  BY <1>0, <1>a DEF AutoApprove, IneligibleNeedsPerson, TypeOK
<1>1. ASSUME NEW i \in Items, Script(i)
      PROVE  HeldEligible' /\ IneligibleNeedsPerson'
  <2>0. UNCHANGED <<eligible, said, batch>>
    BY <1>1 DEF Script, LogLearning, QueueForApproval, ScriptEvaluate, ScriptApprove
  <2>1. HeldEligible'
    BY <1>0, <1>1, <2>0
    DEF Script, LogLearning, QueueForApproval, ScriptEvaluate, ScriptApprove,
        Qualifies, Goto, HeldEligible, TypeOK
  <2>2. IneligibleNeedsPerson'
    <3>1. CASE LogLearning(i)
      BY <2>0, <3>1 DEF LogLearning, IneligibleNeedsPerson
    <3>2. CASE QueueForApproval(i)
      BY <1>0, <2>0, <3>2
      DEF QueueForApproval, IneligibleNeedsPerson, TypeOK, RowType
    <3>3. CASE ScriptEvaluate(i)
      BY <2>0, <3>3 DEF ScriptEvaluate, IneligibleNeedsPerson
    <3>4. CASE ScriptApprove(i)
      BY <1>a, <2>0, <3>4 DEF ScriptApprove, HeldEligible
    <3>5. QED  BY <1>1, <3>1, <3>2, <3>3, <3>4 DEF Script
  <2>3. QED  BY <2>1, <2>2
<1>2. CASE Batch
  <2>0. batch \in BatchType /\ UNCHANGED <<eligible, said, script>>
    BY <1>0, <1>2
    DEF Batch, GetApprovalQueue, BatchEvaluate, BatchApprove, TypeOK
  <2>1. CASE GetApprovalQueue
    BY <2>0, <2>1
    DEF GetApprovalQueue, BatchIdle, HeldEligible, IneligibleNeedsPerson
  <2>2. CASE BatchEvaluate
    <3>1. PICK yes \in Seq(eligible) : AfterEvaluation(yes)
      <4>1. Qualifies(Head(batch.todo)) =>
              Append(batch.yes, Head(batch.todo)) \in Seq(eligible)
        BY DEF Qualifies, HeldEligible
      <4>2. \/ /\ Qualifies(Head(batch.todo))
               /\ AfterEvaluation(Append(batch.yes, Head(batch.todo)))
            \/ AfterEvaluation(batch.yes)
        BY <2>2 DEF BatchEvaluate
      <4>3. QED  BY <4>1, <4>2 DEF HeldEligible
    <3>2. \/ batch' = [batch EXCEPT !.todo = Tail(@), !.yes = yes]
          \/ batch' = BatchIdle
          \/ batch' = [pc |-> "approve", todo |-> <<>>, yes |-> yes]
      BY <3>1, Zenon DEF AfterEvaluation
    <3>3. batch'.yes \in Seq(eligible)
      <4>1. [batch EXCEPT !.todo = Tail(@), !.yes = yes].yes = yes
        BY <2>0 DEF BatchType
      <4>2. BatchIdle.yes \in Seq(eligible)  BY DEF BatchIdle
      <4>3. [pc |-> "approve", todo |-> <<>>, yes |-> yes].yes = yes  OBVIOUS
      <4>4. QED  BY <3>2, <4>1, <4>2, <4>3, Zenon
    <3>4. QED
      BY <2>0, <2>2, <3>3 DEF BatchEvaluate, HeldEligible, IneligibleNeedsPerson
  <2>3. CASE BatchApprove
    <3>0. batch.yes # <<>>  BY <1>0, <2>3 DEF BatchApprove, Working
    <3>1. Head(batch.yes) \in eligible /\ Tail(batch.yes) \in Seq(eligible)
      BY <3>0 DEF HeldEligible
    <3>2. batch'.yes \in Seq(eligible)
      <4>1. [batch EXCEPT !.yes = Tail(@)].yes = Tail(batch.yes)
        BY <2>0 DEF BatchType
      <4>2. batch' = [batch EXCEPT !.yes = Tail(@)] \/ batch' = BatchIdle
        BY <2>3, Zenon DEF BatchApprove, AfterApproval
      <4>3. BatchIdle.yes \in Seq(eligible)  BY DEF BatchIdle
      <4>4. QED  BY <3>1, <4>1, <4>2, <4>3, Zenon
    <3>3. IneligibleNeedsPerson'  BY <1>a, <2>0, <2>3, <3>1 DEF BatchApprove
    <3>4. QED  BY <2>0, <3>2, <3>3 DEF HeldEligible
  <2>4. QED  BY <1>2, <2>1, <2>2, <2>3 DEF Batch
<1>3. ASSUME NEW q \in Requests, NEW i \in Items, NEW v \in Verdicts,
             Press(q, i, v)
      PROVE  HeldEligible' /\ IneligibleNeedsPerson'
  BY <1>3 DEF Press, HeldEligible, IneligibleNeedsPerson
<1>4. ASSUME NEW q \in Requests, Request(q)
      PROVE  HeldEligible' /\ IneligibleNeedsPerson'
  <2>1. HeldEligible'
    BY <1>4 DEF Request, SetStatus, SetLearning, HeldEligible
  <2>2. CASE SetStatus(q)
    BY <1>0, <2>1, <2>2 DEF SetStatus, IneligibleNeedsPerson, TypeOK
  <2>3. CASE SetLearning(q)
    BY <2>1, <2>3 DEF SetLearning, IneligibleNeedsPerson
  <2>4. QED  BY <1>4, <2>1, <2>2, <2>3 DEF Request
<1>5. CASE UNCHANGED vars
  BY <1>5 DEF vars, HeldEligible, IneligibleNeedsPerson
<1>6. QED  BY <1>1, <1>2, <1>3, <1>4, <1>5 DEF Next

(* Blocked and unlisted issue types are approved by people only.           *)
THEOREM GateHolds == Spec => []IneligibleNeedsPerson
<1>1. GateInv => IneligibleNeedsPerson  BY DEF GateInv
<1>2. QED  BY InitType, StepType, InitGate, StepGate, <1>1, PTL DEF Spec

-----------------------------------------------------------------------------
(* Queue and learnings agree.  An item without a row has no request and is *)
(* on no list, and the request that has yet to write its learning is the   *)
(* only one for its item and wrote what the row says, or the approver has  *)
(* been there since.                                                       *)

Queued == {i \in Items : script[i] \notin {"verify", "queue"}}
Listed == queue \in Seq(Queued) /\ batch.todo \in Seq(Queued) /\ batch.yes \in Seq(Queued)
RowFirst ==
  /\ \A i \in Items \ Queued : row[i].status = "absent"
  /\ \A q \in Requests :
       request[q].pc # "idle" => row[request[q].item].status # "absent"
LastWriter ==
  \A q \in Requests :
    (request[q].pc = "learn" /\ request[q].item \notin torn) =>
      /\ row[request[q].item].auto
           \/ row[request[q].item].status = request[q].verdict
      /\ \A r \in Requests :
           (request[r].pc = "learn" /\ request[r].item = request[q].item) => r = q
MatchInv == Listed /\ RowFirst /\ LastWriter /\ LearningMatchesRow

(* No row exists, and no request is under way.                             *)
THEOREM InitMatch == Init => MatchInv
  BY DEF Init, MatchInv, Listed, Queued, RowFirst, LastWriter, LearningMatchesRow,
         BatchIdle, NoRequest, Verdicts

(* A list of queued items stays one when more items are queued.            *)
LEMMA LongerLists ==
  ASSUME NEW S, NEW T, S \subseteq T
  PROVE  Seq(S) \subseteq Seq(T)
  OBVIOUS

(* The lists of the queue and of the batch keep to items with a row.       *)
LEMMA StepListed == TypeInv /\ Listed /\ [Next]_vars => Listed' /\ Queued \subseteq Queued'
<1> SUFFICES ASSUME TypeInv, Listed, [Next]_vars
             PROVE  Listed' /\ Queued \subseteq Queued'
  OBVIOUS
<1> USE DEF people, tables, history
<1>0. TypeOK /\ Working /\ batch \in BatchType  BY DEF TypeInv, TypeOK
<1>1. Queued \subseteq Queued'
  <2>1. ASSUME NEW i \in Items, Script(i) PROVE Queued \subseteq Queued'
    BY <1>0, <2>1
    DEF Script, LogLearning, QueueForApproval, ScriptEvaluate, ScriptApprove,
        Goto, Queued, TypeOK
  <2>2. CASE UNCHANGED script  BY <2>2 DEF Queued
  <2>3. QED
    BY <2>1, <2>2
    DEF Next, Batch, GetApprovalQueue, BatchEvaluate, BatchApprove, Press,
        Request, SetStatus, SetLearning, vars
<1>2. Seq(Queued) \subseteq Seq(Queued')  BY <1>1, LongerLists
<1>3. queue' \in Seq(Queued')
  <2>1. ASSUME NEW i \in Items, QueueForApproval(i) PROVE queue' \in Seq(Queued')
    <3>1. CASE queue' = Append(queue, i) /\ Goto(i, "evaluate")
      <4>1. i \in Queued'  BY <1>0, <3>1 DEF Goto, Queued, TypeOK
      <4>2. queue \in Seq(Queued')  BY <1>2 DEF Listed
      <4>3. QED  BY <3>1, <4>1, <4>2
    <3>2. CASE UNCHANGED queue  BY <1>2, <3>2 DEF Listed
    <3>3. QED  BY <2>1, <3>1, <3>2 DEF QueueForApproval
  <2>2. CASE UNCHANGED queue  BY <1>2, <2>2 DEF Listed
  <2>3. QED
    BY <2>1, <2>2
    DEF Next, Script, LogLearning, ScriptEvaluate, ScriptApprove, Batch,
        GetApprovalQueue, BatchEvaluate, BatchApprove, Press, Request,
        SetStatus, SetLearning, vars
<1>4. batch'.todo \in Seq(Queued') /\ batch'.yes \in Seq(Queued')
  <2>0. BatchIdle.todo = <<>> /\ BatchIdle.yes = <<>>  BY DEF BatchIdle
  <2>1. CASE GetApprovalQueue
    BY <1>2, <2>0, <2>1 DEF GetApprovalQueue, BatchIdle, Listed
  <2>2. CASE BatchEvaluate
    <3>0. batch.todo # <<>>  BY <1>0, <2>2 DEF BatchEvaluate, Working
    <3>1. Head(batch.todo) \in Queued /\ Tail(batch.todo) \in Seq(Queued)
      BY <3>0 DEF Listed
    <3>2. Append(batch.yes, Head(batch.todo)) \in Seq(Queued)
      BY <3>1 DEF Listed
    <3>3. AfterEvaluation(Append(batch.yes, Head(batch.todo)))
            \/ AfterEvaluation(batch.yes)
      BY <2>2 DEF BatchEvaluate
    <3>4. PICK yes \in Seq(Queued) : AfterEvaluation(yes)
      BY <3>2, <3>3 DEF Listed
    <3>5. \/ batch' = [batch EXCEPT !.todo = Tail(@), !.yes = yes]
          \/ batch' = BatchIdle
          \/ batch' = [pc |-> "approve", todo |-> <<>>, yes |-> yes]
      BY <3>4, Zenon DEF AfterEvaluation
    <3>6. /\ batch'.todo \in {Tail(batch.todo), <<>>}
          /\ batch'.yes \in {yes, <<>>}
      <4>1. [batch EXCEPT !.todo = Tail(@), !.yes = yes].todo = Tail(batch.todo)
        BY <1>0 DEF BatchType
      <4>2. [batch EXCEPT !.todo = Tail(@), !.yes = yes].yes = yes
        BY <1>0 DEF BatchType
      <4>3. CASE batch' = [batch EXCEPT !.todo = Tail(@), !.yes = yes]
        BY <4>1, <4>2, <4>3
      <4>4. CASE batch' = BatchIdle  BY <2>0, <4>4
      <4>5. CASE batch' = [pc |-> "approve", todo |-> <<>>, yes |-> yes]
        BY <4>5
      <4>6. QED  BY <3>5, <4>3, <4>4, <4>5, Zenon
    <3>7. <<>> \in Seq(Queued')  OBVIOUS
    <3>8. QED  BY <1>2, <3>1, <3>6, <3>7
  <2>3. CASE BatchApprove
    <3>0. batch.yes # <<>>  BY <1>0, <2>3 DEF BatchApprove, Working
    <3>1. Tail(batch.yes) \in Seq(Queued)  BY <3>0 DEF Listed
    <3>2. batch' = [batch EXCEPT !.yes = Tail(@)] \/ batch' = BatchIdle
      BY <2>3, Zenon DEF BatchApprove, AfterApproval
    <3>3. /\ batch'.todo \in {batch.todo, <<>>}
          /\ batch'.yes \in {Tail(batch.yes), <<>>}
      <4>1. /\ [batch EXCEPT !.yes = Tail(@)].yes = Tail(batch.yes)
            /\ [batch EXCEPT !.yes = Tail(@)].todo = batch.todo
        BY <1>0 DEF BatchType
      <4>2. QED  BY <2>0, <3>2, <4>1
    <3>4. <<>> \in Seq(Queued')  OBVIOUS
    <3>5. QED  BY <1>2, <3>1, <3>3, <3>4 DEF Listed
  <2>4. CASE UNCHANGED batch  BY <1>2, <2>4 DEF Listed
  <2>5. QED
    BY <2>1, <2>2, <2>3, <2>4
    DEF Next, Script, LogLearning, QueueForApproval, ScriptEvaluate,
        ScriptApprove, Batch, Press, Request, SetStatus, SetLearning, vars
<1>5. QED  BY <1>1, <1>3, <1>4 DEF Listed

(* The verdict set last in a row is either on its way to the learning or   *)
(* there already.                                                          *)
THEOREM StepMatch == TypeInv /\ MatchInv /\ [Next]_vars => MatchInv'
<1> SUFFICES ASSUME TypeInv, Listed, RowFirst, LastWriter, LearningMatchesRow,
                    [Next]_vars
             PROVE  RowFirst' /\ LastWriter' /\ LearningMatchesRow'
  BY StepListed DEF MatchInv
<1> USE DEF people, tables, history
<1>0. TypeOK /\ Working /\ Queued \subseteq Queued'
  BY StepListed DEF TypeInv
<1>a. ASSUME NEW i \in Queued, AutoApprove(i),
             UNCHANGED <<learning, request, torn>>
      PROVE  RowFirst' /\ LastWriter' /\ LearningMatchesRow'
  <2>1. /\ \A j \in Items : j # i => row'[j] = row[j]
        /\ row'[i] = row[i] \/ (row'[i].auto /\ row'[i].status = "approved")
    BY <1>0, <1>a DEF AutoApprove, TypeOK, Queued
  <2>2. RowFirst'
    <3>1. \A j \in Items \ Queued' : row'[j].status = "absent"
      BY <1>0, <1>a, <2>1 DEF RowFirst
    <3>2. QED  BY <1>0, <1>a, <2>1, <3>1 DEF RowFirst, Working
  <2>3. LastWriter'  BY <1>0, <1>a, <2>1 DEF LastWriter, Working
  <2>4. LearningMatchesRow'
    BY <1>0, <1>a, <2>1 DEF LearningMatchesRow, BeforeLearning
  <2>5. QED  BY <2>2, <2>3, <2>4
<1>1. ASSUME NEW i \in Items, Script(i)
      PROVE  RowFirst' /\ LastWriter' /\ LearningMatchesRow'
  <2>1. CASE LogLearning(i)
    <3>1. row[i].status = "absent" /\ UNCHANGED <<row, request, torn>>
      BY <2>1 DEF LogLearning, RowFirst, Queued
    <3>2. \A j \in Items : j # i => learning'[j] = learning[j]
      BY <1>0, <2>1 DEF LogLearning, TypeOK
    <3>3. RowFirst'  BY <1>0, <3>1 DEF RowFirst
    <3>4. LastWriter' /\ LearningMatchesRow'
      BY <3>1, <3>2 DEF LastWriter, LearningMatchesRow, BeforeLearning, Verdicts
    <3>5. QED  BY <3>3, <3>4
  <2>2. CASE QueueForApproval(i)
    <3>1. /\ \A j \in Items : j # i => row'[j] = row[j]
          /\ row'[i] = row[i] \/ row'[i].status = "pending"
          /\ i \in Queued'
          /\ row[i].status = "absent"
          /\ UNCHANGED <<learning, request, torn>>
      BY <1>0, <2>2 DEF QueueForApproval, Goto, RowFirst, Queued, TypeOK, RowType
    <3>2. \A q \in Requests : request[q].pc # "idle" => request[q].item # i
      BY <3>1 DEF RowFirst
    <3>3. RowFirst'  BY <1>0, <3>1, <3>2 DEF RowFirst, Working
    <3>4. LastWriter'  BY <1>0, <3>1, <3>2 DEF LastWriter, Working
    <3>5. LearningMatchesRow'
      BY <3>1 DEF LearningMatchesRow, BeforeLearning, Verdicts
    <3>6. QED  BY <3>3, <3>4, <3>5
  <2>3. CASE ScriptEvaluate(i)
    BY <1>0, <2>3
    DEF ScriptEvaluate, RowFirst, LastWriter, LearningMatchesRow, BeforeLearning
  <2>4. CASE ScriptApprove(i)
    BY <1>a, <2>4 DEF ScriptApprove, Queued
  <2>5. QED  BY <1>1, <2>1, <2>2, <2>3, <2>4 DEF Script
<1>2. CASE Batch
  <2>1. CASE BatchApprove
    <3>1. batch.yes # <<>>  BY <1>0, <2>1 DEF BatchApprove, Working
    <3>2. Head(batch.yes) \in Queued  BY <3>1 DEF Listed
    <3>3. QED  BY <1>a, <2>1, <3>2 DEF BatchApprove
  <2>2. CASE UNCHANGED <<row, learning, request, torn>>
    BY <1>0, <2>2 DEF RowFirst, LastWriter, LearningMatchesRow, BeforeLearning
  <2>3. QED  BY <1>2, <2>1, <2>2 DEF Batch, GetApprovalQueue, BatchEvaluate
<1>3. ASSUME NEW q \in Requests, NEW i \in Items, NEW v \in Verdicts,
             Press(q, i, v)
      PROVE  RowFirst' /\ LastWriter' /\ LearningMatchesRow'
  <2>1. /\ UNCHANGED <<row, learning, torn>> /\ row[i].status # "absent"
        /\ request[q].pc = "idle"
        /\ request'[q].pc = "status" /\ request'[q].item = i
        /\ \A r \in Requests : r # q => request'[r] = request[r]
    BY <1>0, <1>3 DEF Press, TypeOK
  <2>2. RowFirst'  BY <1>0, <2>1 DEF RowFirst
  <2>3. LastWriter'  BY <2>1 DEF LastWriter
  <2>4. LearningMatchesRow'  BY <2>1 DEF LearningMatchesRow, BeforeLearning
  <2>5. QED  BY <2>2, <2>3, <2>4
<1>4. ASSUME NEW q \in Requests, Request(q)
      PROVE  RowFirst' /\ LastWriter' /\ LearningMatchesRow'
  <2> DEFINE i == request[q].item  v == request[q].verdict
  <2>0. request[q].pc # "idle" /\ i \in Items /\ row[i].status # "absent"
    BY <1>0, <1>4 DEF Request, SetStatus, SetLearning, RowFirst, Working
  <2>a. v \in Verdicts  BY <1>0 DEF TypeOK, RequestType
  <2>1. CASE SetStatus(q)
    <3>1. CASE Answer(q) /\ UNCHANGED <<row, torn>>
      <4>1. /\ request'[q].pc = "idle"
            /\ \A r \in Requests : r # q => request'[r] = request[r]
        BY <1>0, <3>1 DEF Answer, NoRequest, TypeOK
      <4>2. UNCHANGED learning /\ request[q].pc = "status"
        BY <2>1 DEF SetStatus
      <4>3. RowFirst'  BY <1>0, <3>1, <4>1 DEF RowFirst
      <4>4. LastWriter'  BY <3>1, <4>1 DEF LastWriter
      <4>5. LearningMatchesRow'
        BY <3>1, <4>1, <4>2 DEF LearningMatchesRow, BeforeLearning
      <4>6. QED  BY <4>3, <4>4, <4>5
    <3>2. CASE /\ row' = [row EXCEPT ![i] = [status |-> v, auto |-> FALSE]]
               /\ torn' = IF BeforeLearning(i) = {} THEN torn ELSE torn \cup {i}
               /\ request' = [request EXCEPT ![q].pc = "learn"]
      <4>1. /\ row'[i].status = v /\ v # "absent"
            /\ \A j \in Items : j # i => row'[j] = row[j]
        BY <1>0, <2>0, <2>a, <3>2 DEF TypeOK, Verdicts
      <4>2. /\ request'[q].pc = "learn"
            /\ request'[q].item = i /\ request'[q].verdict = v
            /\ \A r \in Requests : r # q => request'[r] = request[r]
        BY <1>0, <3>2 DEF TypeOK, RequestType
      <4>3. UNCHANGED learning /\ request[q].pc = "status"
        BY <2>1 DEF SetStatus
      <4>4. torn \subseteq torn' /\ \A j \in Items : j # i => (j \in torn' => j \in torn)
        BY <3>2
      <4>5. RowFirst'
        <5>1. i \in Queued  BY <2>0 DEF RowFirst
        <5>2. QED  BY <1>0, <2>0, <4>1, <4>2, <5>1 DEF RowFirst, Working
      <4>6. LastWriter'
        <5>1. i \notin torn' =>
                \A r \in Requests : ~(request[r].pc = "learn" /\ request[r].item = i)
          BY <3>2 DEF BeforeLearning
        <5>2. QED
          BY <1>0, <2>0, <4>1, <4>2, <4>4, <5>1 DEF LastWriter, Working
      <4>7. LearningMatchesRow'
        <5>1. \A j \in Items : j = i => q \in BeforeLearning(j)'
          BY <4>2 DEF BeforeLearning
        <5>2. \A j \in Items : j # i => BeforeLearning(j)' = BeforeLearning(j)
          BY <4>2, <4>3 DEF BeforeLearning
        <5>3. SUFFICES ASSUME NEW j \in Items, j \notin torn',
                              BeforeLearning(j)' = {},
                              row'[j].status \in Verdicts, ~row'[j].auto
                       PROVE  learning'[j] = row'[j].status
          BY DEF LearningMatchesRow
        <5>4. j # i  BY <5>1, <5>3
        <5>5. row'[j] = row[j] /\ j \notin torn /\ BeforeLearning(j) = {}
          BY <4>1, <4>4, <5>2, <5>3, <5>4
        <5>6. learning[j] = row[j].status
          BY <5>3, <5>5 DEF LearningMatchesRow
        <5>7. QED  BY <4>3, <5>5, <5>6
      <4>8. QED  BY <4>5, <4>6, <4>7
    <3>3. QED  BY <2>1, <3>1, <3>2 DEF SetStatus
  <2>2. CASE SetLearning(q)
    <3>1. /\ request[q].pc = "learn" /\ UNCHANGED row
          /\ request'[q].pc = "idle"
          /\ \A r \in Requests : r # q => request'[r] = request[r]
      BY <1>0, <2>2 DEF SetLearning, Answer, NoRequest, TypeOK
    <3>2. \/ UNCHANGED torn /\ learning'[i] = v
          \/ i \in torn'
      BY <1>0, <2>0, <2>2 DEF SetLearning, TypeOK
    <3>3. /\ torn \subseteq torn'
          /\ \A j \in Items : j # i => /\ learning'[j] = learning[j]
                                       /\ j \in torn' => j \in torn
      BY <1>0, <2>2 DEF SetLearning, TypeOK
    <3>4. RowFirst'  BY <1>0, <3>1 DEF RowFirst
    <3>5. LastWriter'  BY <1>0, <3>1, <3>3 DEF LastWriter
    <3>6. LearningMatchesRow'
      <4>1. ASSUME NEW j \in Items, j # i
            PROVE  BeforeLearning(j)' = BeforeLearning(j)
        BY <3>1, <4>1 DEF BeforeLearning
      <4>2. i \notin torn => row[i].auto \/ row[i].status = v
        BY <3>1 DEF LastWriter
      <4>3. QED
        BY <3>1, <3>2, <3>3, <4>1, <4>2 DEF LearningMatchesRow
    <3>7. QED  BY <3>4, <3>5, <3>6
  <2>3. QED  BY <1>4, <2>1, <2>2 DEF Request
<1>5. CASE UNCHANGED vars
  BY <1>0, <1>5 DEF vars, RowFirst, LastWriter, LearningMatchesRow, BeforeLearning
<1>6. QED  BY <1>1, <1>2, <1>3, <1>4, <1>5 DEF Next

(* The verdict in the queue and the one in the learnings are the same when *)
(* no request is between the two.                                          *)
THEOREM TablesAgree == Spec => []LearningMatchesRow
<1>1. MatchInv => LearningMatchesRow  BY DEF MatchInv
<1>2. QED  BY InitType, StepType, InitMatch, StepMatch, <1>1, PTL DEF Spec
=============================================================================
