--------------------------- MODULE JobQueueProofs ---------------------------
(***************************************************************************)
(* Theorems about JobQueue, for any number of jobs, runners and loops and  *)
(* every value of the bounds.                                              *)
(***************************************************************************)
EXTENDS JobQueue, TLAPS

(* What every step that only moves loop w and its runner's timer does.     *)
LEMMA IdleType == ASSUME NEW pc \in {"off", "armed"} \cup InTick
                  PROVE  Idle(pc) \in LoopType
  BY DEF Idle, LoopType

(* Ending a tick, with the next timer armed or not, keeps loops and timers *)
(* typed.                                                                  *)
LEMMA EndTickType ==
  ASSUME TypeOK, NEW w \in Loops, EndTick(w)
  PROVE  /\ loop' \in [Loops -> LoopType]
         /\ timer' \in [Runners -> Loops \cup {NoLoop}]
<1>1. RunnerOf[w] \in Runners  BY QueueAssumption
<1>2. Idle("armed") \in LoopType /\ Idle("off") \in LoopType  BY IdleType
<1>3. QED  BY <1>1, <1>2 DEF EndTick, TypeOK

(* So does going on with the next job of the tick.                         *)
LEMMA NextIterationType ==
  ASSUME TypeOK, NEW w \in Loops, NextIteration(w)
  PROVE  /\ loop' \in [Loops -> LoopType]
         /\ timer' \in [Runners -> Loops \cup {NoLoop}]
<1>1. CASE loop[w].left > 1
  <2>1. loop[w] \in LoopType  BY DEF TypeOK
  <2>2. [Idle("poll") EXCEPT !.left = loop[w].left - 1] \in LoopType
    BY <1>1, <2>1 DEF Idle, LoopType, InTick
  <2>3. QED  BY <1>1, <2>2 DEF NextIteration, TypeOK
<1>2. CASE ~(loop[w].left > 1)
  BY <1>2, EndTickType DEF NextIteration
<1>3. QED  BY <1>1, <1>2

(* Writing a whole row, or losing the write, keeps the table typed.        *)
LEMMA WriteType ==
  ASSUME TypeOK, NEW j \in Jobs, NEW new \in RowType, Write(j, new)
  PROVE  row' \in [Jobs -> RowType] /\ dbErrors' \in Nat
  BY DEF Write, DbError, TypeOK

(* So does writing a status.                                               *)
LEMMA WriteStatusType ==
  ASSUME TypeOK, NEW j \in Jobs, NEW s \in Statuses, WriteStatus(j, s)
  PROVE  row' \in [Jobs -> RowType] /\ dbErrors' \in Nat
<1>1. row[j] \in RowType  BY DEF TypeOK
<1>2. [row[j] EXCEPT !.status = s] \in RowType  BY <1>1 DEF RowType
<1>3. QED  BY <1>2, WriteType DEF WriteStatus

(* failJob decides on one of the statuses.                                 *)
LEMMA FailureStatus == \A n : StatusAfterFailure(n) \in Statuses
  BY DEF StatusAfterFailure, Statuses

(* A loop in the middle of a job holds one of the jobs.                    *)
Busy == {"claim", "process", "complete", "fail_read", "fail_write",
         "refail_read", "refail_write"}
HoldsOne == \A w \in Loops : loop[w].pc \in Busy => loop[w].job \in Jobs
TypeInv == TypeOK /\ HoldsOne

-----------------------------------------------------------------------------
(* Type correctness.                                                       *)

(* The empty table and stopped runners are well typed.                     *)
THEOREM InitType == Init => TypeInv
<1>1. SUFFICES ASSUME Init PROVE TypeInv  OBVIOUS
<1>2. Idle("off") \in LoopType  BY IdleType
<1>3. TypeOK
  BY <1>1, <1>2 DEF Init, TypeOK, RowType, Statuses, AllKinds
<1>4. HoldsOne  BY <1>1 DEF Init, HoldsOne, Idle, Busy
<1>5. QED  BY <1>3, <1>4 DEF TypeInv

(* Each step of a loop, start, stop, a crash, enqueue and cancel keep the  *)
(* types and the jobs in hand.                                             *)
THEOREM StepType == TypeInv /\ [Next]_vars => TypeInv'
<1> SUFFICES ASSUME TypeOK, HoldsOne, [Next]_vars PROVE TypeOK' /\ HoldsOne'
  BY DEF TypeInv
<1> USE DEF counters
<1>1. CASE Tick  BY <1>1 DEF Tick, TypeOK, HoldsOne
<1>2. ASSUME NEW j \in Jobs, NEW k \in Kinds, NEW p \in Priorities,
             NEW at \in 0..MaxNow, EnqueueJob(j, k, p, at)
      PROVE  TypeOK' /\ HoldsOne'
  <2>1. [status |-> "pending", kind |-> k, priority |-> p,
         scheduled_at |-> at, attempts |-> 0] \in RowType
    BY QueueAssumption DEF RowType, Statuses
  <2>2. QED  BY <1>2, <2>1 DEF EnqueueJob, TypeOK, HoldsOne
<1>3. ASSUME NEW j \in Jobs, CancelJob(j) PROVE TypeOK' /\ HoldsOne'
  <2>1. row' \in [Jobs -> RowType] /\ dbErrors' \in Nat
    BY <1>3, WriteStatusType DEF CancelJob, Statuses
  <2>2. QED  BY <1>3, <2>1 DEF CancelJob, TypeOK, HoldsOne
<1>4. ASSUME NEW r \in Runners, Start(r) PROVE TypeOK' /\ HoldsOne'
  <2>1. PICK w \in LoopsOf(r) :
          /\ loop' = [loop EXCEPT ![w] = Idle("armed")]
          /\ timer' = [timer EXCEPT ![r] = w]
    BY <1>4 DEF Start
  <2>2. w \in Loops /\ Idle("armed") \in LoopType  BY IdleType DEF LoopsOf
  <2>3. TypeOK'  BY <1>4, <2>1, <2>2 DEF Start, TypeOK
  <2>4. HoldsOne'  BY <2>1, <2>2 DEF TypeOK, HoldsOne, Idle, Busy
  <2>5. QED  BY <2>3, <2>4
<1>5. ASSUME NEW r \in Runners, Stop(r) PROVE TypeOK' /\ HoldsOne'
  <2>1. Idle("off") \in LoopType  BY IdleType
  <2>2. TypeOK'  BY <1>5, <2>1 DEF Stop, TypeOK
  <2>3. HoldsOne'  BY <1>5 DEF Stop, TypeOK, HoldsOne, Idle, Busy
  <2>4. QED  BY <2>2, <2>3
<1>6. ASSUME NEW r \in Runners, Crash(r) PROVE TypeOK' /\ HoldsOne'
  <2>1. Idle("off") \in LoopType  BY IdleType
  <2>2. TypeOK'  BY <1>6, <2>1 DEF Crash, TypeOK
  <2>3. HoldsOne'  BY <1>6 DEF Crash, TypeOK, HoldsOne, Idle, Busy
  <2>4. QED  BY <2>2, <2>3
<1>7. ASSUME NEW w \in Loops, LoopStep(w) PROVE TypeOK' /\ HoldsOne'
  <2> loop[w] \in LoopType  BY DEF TypeOK
  <2>a. (loop[w].pc \in Busy) => loop[w].job \in Jobs  BY DEF HoldsOne
  <2>b. (EndTick(w) \/ NextIteration(w)) => HoldsOne'
    BY DEF EndTick, NextIteration, TypeOK, HoldsOne, Idle, Busy
  <2>1. CASE Fire(w)
    <3>1. [Idle("poll") EXCEPT !.left = MaxPerTick] \in LoopType
      BY QueueAssumption DEF Idle, LoopType, InTick
    <3>2. QED  BY <2>1, <3>1 DEF Fire, TypeOK, HoldsOne, Idle, Busy
  <2>2. CASE ClaimSelect(w)
    <3>1. ASSUME EndTick(w), UNCHANGED dbErrors \/ DbError
          PROVE  TypeOK' /\ HoldsOne'
      <4>1. dbErrors' \in Nat  BY <3>1 DEF DbError, TypeOK
      <4>2. TypeOK'  BY <2>2, <3>1, <4>1, EndTickType DEF ClaimSelect, TypeOK
      <4>3. QED  BY <2>b, <3>1, <4>2
    <3>2. ASSUME NEW j \in Heads(w), UNCHANGED <<timer, dbErrors>>,
                 loop' = [loop EXCEPT ![w].pc = "claim", ![w].job = j,
                                      ![w].read = row[j].attempts]
          PROVE  TypeOK' /\ HoldsOne'
      <4>1. j \in Jobs /\ row[j].attempts \in Nat
        BY <3>2 DEF Heads, Eligible, TypeOK, RowType
      <4>2. loop' \in [Loops -> LoopType]
        BY <3>2, <4>1 DEF TypeOK, LoopType, InTick
      <4>3. TypeOK'  BY <2>2, <3>2, <4>2 DEF ClaimSelect, TypeOK
      <4>4. HoldsOne'  BY <3>2, <4>1 DEF TypeOK, HoldsOne
      <4>5. QED  BY <4>3, <4>4
    <3>3. \/ EndTick(w) /\ (UNCHANGED dbErrors \/ DbError)
          \/ \E j \in Heads(w) :
               /\ loop' = [loop EXCEPT ![w].pc = "claim", ![w].job = j,
                                       ![w].read = row[j].attempts]
               /\ UNCHANGED <<timer, dbErrors>>
      BY <2>2 DEF ClaimSelect
    <3>4. QED  BY <3>1, <3>2, <3>3
  <2>3. CASE ClaimUpdate(w)
    <3>1. loop[w].job \in Jobs  BY <2>3, <2>a DEF ClaimUpdate, Busy
    <3> DEFINE n == AttemptsAfterClaim(loop[w].read)
    <3>2. row[loop[w].job] \in RowType  BY <3>1 DEF TypeOK
    <3>3. n \in Nat  BY DEF LoopType, AttemptsAfterClaim
    <3>4. [row[loop[w].job] EXCEPT !.status = "running", !.attempts = n] \in RowType
      <4> HIDE DEF n
      <4>1. QED  BY <3>2, <3>3 DEF RowType, Statuses
    <3>5. row' \in [Jobs -> RowType] /\ dbErrors' \in Nat
      BY <2>3, <3>1, <3>4, WriteType DEF ClaimUpdate
    <3>6. loop' = [loop EXCEPT ![w].pc = "process"]  BY <2>3 DEF ClaimUpdate
    <3>7. loop' \in [Loops -> LoopType]  BY <3>6 DEF TypeOK, LoopType, InTick
    <3>8. runs' \in [Jobs -> Nat]  BY <2>3, <3>1 DEF ClaimUpdate, TypeOK
    <3>9. TypeOK'  BY <2>3, <3>5, <3>7, <3>8 DEF ClaimUpdate, TypeOK
    <3>10. HoldsOne'  BY <3>1, <3>6 DEF TypeOK, HoldsOne, Busy
    <3>11. QED  BY <3>9, <3>10
  <2>4. CASE Process(w)
    <3>1. loop[w].job \in Jobs  BY <2>4, <2>a DEF Process, Busy
    <3>2. PICK out \in {"complete", "fail_read"} :
            loop' = [loop EXCEPT ![w].pc = out]
      BY <2>4, <3>1 DEF Process, Outcomes, TypeOK, RowType, AllKinds
    <3>3. loop' \in [Loops -> LoopType]  BY <3>2 DEF TypeOK, LoopType, InTick
    <3>4. QED  BY <2>4, <3>1, <3>2, <3>3 DEF Process, TypeOK, HoldsOne, Busy
  <2>5. CASE CompleteJob(w)
    <3>1. loop[w].job \in Jobs  BY <2>5, <2>a DEF CompleteJob, Busy
    <3>2. row' \in [Jobs -> RowType] /\ dbErrors' \in Nat
      BY <2>5, <3>1, WriteStatusType DEF CompleteJob, Statuses
    <3>3. QED  BY <2>5, <2>b, <3>2, NextIterationType DEF CompleteJob, TypeOK
  <2>6. CASE FailRead(w)
    <3>1. loop[w].job \in Jobs  BY <2>6, <2>a DEF FailRead, Busy
    <3>2. row[loop[w].job].attempts \in Nat  BY <3>1 DEF TypeOK, RowType
    <3>3. PICK to \in {"fail_write", "refail_write"}, n \in Nat :
            loop' = [loop EXCEPT ![w].pc = to, ![w].read = n]
      BY <2>6, <3>2 DEF FailRead
    <3>4. loop' \in [Loops -> LoopType]  BY <3>3 DEF TypeOK, LoopType, InTick
    <3>5. QED
      BY <2>6, <3>1, <3>3, <3>4 DEF FailRead, DbError, TypeOK, HoldsOne, Busy
  <2>7. CASE FailWrite(w)
    <3>1. loop[w].job \in Jobs  BY <2>7, <2>a DEF FailWrite, Busy
    <3>2. row' \in [Jobs -> RowType] /\ dbErrors' \in Nat
      BY <2>7, <3>1, WriteStatusType, FailureStatus DEF FailWrite
    <3>3. loop' \in [Loops -> LoopType]
      BY <2>7 DEF FailWrite, TypeOK, LoopType, InTick
    <3>4. QED  BY <2>7, <3>1, <3>2, <3>3 DEF FailWrite, TypeOK, HoldsOne, Busy
  <2>8. CASE RefailWrite(w)
    <3>1. loop[w].job \in Jobs  BY <2>8, <2>a DEF RefailWrite, Busy
    <3>2. row' \in [Jobs -> RowType] /\ dbErrors' \in Nat
      BY <2>8, <3>1, WriteStatusType, FailureStatus DEF RefailWrite
    <3>3. QED  BY <2>8, <2>b, <3>2, NextIterationType DEF RefailWrite, TypeOK
  <2>9. QED
    BY <1>7, <2>1, <2>2, <2>3, <2>4, <2>5, <2>6, <2>7, <2>8 DEF LoopStep
<1>8. CASE UNCHANGED vars  BY <1>8 DEF vars, TypeOK, HoldsOne
<1>9. QED
  BY <1>1, <1>2, <1>3, <1>4, <1>5, <1>6, <1>7, <1>8 DEF Next, Environment

(* TypeOK is an invariant: every row, loop and counter keeps its type      *)
(* through every statement, lost statement, crash and restart.             *)
THEOREM TypeCorrect == Spec => []TypeOK
<1>1. TypeInv => TypeOK  BY DEF TypeInv
<1>2. QED  BY <1>1, InitType, StepType, PTL DEF Spec

-----------------------------------------------------------------------------
(* A job is not given up early.  What `failed' rests on is the attempts a  *)
(* failJob call has read, so the strengthening bounds every count in       *)
(* flight, in the table or in a loop, by the executions really started.    *)
CountsAreBacked ==
  /\ \A j \in Jobs : row[j].attempts <= runs[j]
  /\ \A w \in Loops :
       loop[w].pc \in {"claim", "fail_write", "refail_write"}
         => loop[w].read <= runs[loop[w].job]
BudgetInv == CountsAreBacked /\ NeverFailedEarly

(* A loop that lets go of its job has no count in flight any more.         *)
LEMMA EndTickBacked ==
  ASSUME TypeOK, CountsAreBacked, NEW w \in Loops,
         EndTick(w) \/ NextIteration(w), UNCHANGED runs,
         \A j \in Jobs : row'[j].attempts <= runs[j]
  PROVE  CountsAreBacked'
  BY DEF EndTick, NextIteration, TypeOK, CountsAreBacked, Idle

(* Writing a status that is not `failed', or `failed' when the budget is   *)
(* spent, is harmless.                                                     *)
LEMMA StatusBacked ==
  ASSUME TypeOK, BudgetInv, NEW j \in Jobs, NEW s, WriteStatus(j, s),
         s = "failed" => runs[j] >= MaxAttempts, UNCHANGED runs
  PROVE  /\ \A k \in Jobs : row'[k].attempts <= runs[k]
         /\ NeverFailedEarly'
<1>1. CASE UNCHANGED row
  BY <1>1 DEF BudgetInv, CountsAreBacked, NeverFailedEarly
<1>2. CASE row' = [row EXCEPT ![j] = [row[j] EXCEPT !.status = s]]
  <2>1. \A k \in Jobs : row'[k].attempts = row[k].attempts
    BY <1>2 DEF TypeOK, RowType
  <2>2. \A k \in Jobs : row'[k].status = IF k = j THEN s ELSE row[k].status
    BY <1>2 DEF TypeOK, RowType
  <2>3. QED  BY <2>1, <2>2 DEF BudgetInv, CountsAreBacked, NeverFailedEarly
<1>3. QED  BY <1>1, <1>2 DEF WriteStatus, Write

(* Nothing has been attempted and nothing has failed.                      *)
THEOREM InitBudget == Init => BudgetInv
  BY QueueAssumption
     DEF Init, BudgetInv, CountsAreBacked, NeverFailedEarly, Idle

(* Each step keeps the counts backed: a claim adds an attempt and its      *)
(* execution at once, and a failure rests on a count that was read.        *)
THEOREM StepBudget == TypeInv /\ BudgetInv /\ [Next]_vars => BudgetInv'
<1> SUFFICES ASSUME TypeOK, HoldsOne, BudgetInv, [Next]_vars PROVE BudgetInv'
  BY DEF TypeInv
<1> USE DEF counters
<1>a. CountsAreBacked /\ NeverFailedEarly  BY DEF BudgetInv
<1>1. CASE Tick
  BY <1>1 DEF Tick, BudgetInv, CountsAreBacked, NeverFailedEarly
<1>2. ASSUME NEW j \in Jobs, NEW k \in Kinds, NEW p \in Priorities,
             NEW at \in 0..MaxNow, EnqueueJob(j, k, p, at)
      PROVE  BudgetInv'
  <2>1. runs[j] \in Nat  BY DEF TypeOK
  <2>2. QED
    BY <1>2, <2>1
       DEF EnqueueJob, TypeOK, BudgetInv, CountsAreBacked, NeverFailedEarly
<1>3. ASSUME NEW j \in Jobs, CancelJob(j) PROVE BudgetInv'
  <2>1. UNCHANGED <<runs, loop>>  BY <1>3 DEF CancelJob
  <2>2. /\ \A k \in Jobs : row'[k].attempts <= runs[k]
        /\ NeverFailedEarly'
    BY <1>3, <2>1, StatusBacked DEF CancelJob
  <2>3. QED  BY <2>1, <2>2 DEF BudgetInv, CountsAreBacked
<1>4. ASSUME NEW r \in Runners, Start(r) PROVE BudgetInv'
  BY <1>4 DEF Start, Idle, LoopsOf, TypeOK, BudgetInv, CountsAreBacked,
              NeverFailedEarly
<1>5. ASSUME NEW r \in Runners, Stop(r) PROVE BudgetInv'
  BY <1>5 DEF Stop, Idle, TypeOK, BudgetInv, CountsAreBacked, NeverFailedEarly
<1>6. ASSUME NEW r \in Runners, Crash(r) PROVE BudgetInv'
  BY <1>6 DEF Crash, Idle, TypeOK, BudgetInv, CountsAreBacked, NeverFailedEarly
<1>7. ASSUME NEW w \in Loops, LoopStep(w) PROVE BudgetInv'
  <2> DEFINE job == loop[w].job
  <2>a. (loop[w].pc \in Busy) => job \in Jobs  BY DEF HoldsOne
  <2>b. loop[w] \in LoopType  BY DEF TypeOK
  <2>1. CASE Fire(w)
    BY <2>1 DEF Fire, Idle, TypeOK, BudgetInv, CountsAreBacked, NeverFailedEarly
  <2>2. CASE ClaimSelect(w)
    <3>1. UNCHANGED <<row, runs>>  BY <2>2 DEF ClaimSelect
    <3>2. NeverFailedEarly'  BY <1>a, <3>1 DEF NeverFailedEarly
    <3>3. CASE EndTick(w)
      <4>1. \A j \in Jobs : row'[j].attempts <= runs[j]
        BY <1>a, <3>1 DEF CountsAreBacked
      <4>2. QED  BY <1>a, <3>1, <3>2, <3>3, <4>1, EndTickBacked DEF BudgetInv
    <3>4. ASSUME NEW j \in Heads(w),
                 loop' = [loop EXCEPT ![w].pc = "claim", ![w].job = j,
                                      ![w].read = row[j].attempts]
          PROVE  BudgetInv'
      <4>1. j \in Jobs /\ row[j].attempts <= runs[j]
        BY <1>a DEF Heads, Eligible, CountsAreBacked
      <4>2. CountsAreBacked'
        BY <1>a, <2>b, <3>1, <3>4, <4>1 DEF TypeOK, LoopType, CountsAreBacked
      <4>3. QED  BY <3>2, <4>2 DEF BudgetInv
    <3>5. QED  BY <2>2, <3>3, <3>4 DEF ClaimSelect
  <2>3. CASE ClaimUpdate(w)
    <3>1. job \in Jobs /\ loop[w].read <= runs[job]
      BY <1>a, <2>3, <2>a DEF ClaimUpdate, Busy, CountsAreBacked
    <3>2. loop' = [loop EXCEPT ![w].pc = "process"]  BY <2>3 DEF ClaimUpdate
    <3>3. runs' = [runs EXCEPT ![job] = @ + 1]  BY <2>3 DEF ClaimUpdate
    <3>4. \A j \in Jobs : /\ runs[j] \in Nat /\ runs'[j] \in Nat
                          /\ runs[j] <= runs'[j]
      <4>1. runs \in [Jobs -> Nat]  BY DEF TypeOK
      <4>2. \A j \in Jobs : runs'[j] = IF j = job THEN runs[j] + 1 ELSE runs[j]
        BY <3>3, <4>1
      <4>3. TAKE j \in Jobs
      <4>4. runs[j] \in Nat  BY <4>1
      <4>5. QED  BY <4>2, <4>4
    <3>5. \A j \in Jobs : row[j].attempts \in Nat  BY DEF TypeOK, RowType
    <3>6. \A j \in Jobs : /\ row'[j].attempts <= runs'[j]
                          /\ row'[j].status = "failed" => row[j].status = "failed"
      <4>1. CASE UNCHANGED row
        BY <1>a, <3>4, <3>5, <4>1 DEF CountsAreBacked
      <4>2. CASE row' = [row EXCEPT ![job] =
                           [row[job] EXCEPT !.status = "running",
                              !.attempts = AttemptsAfterClaim(loop[w].read)]]
        <5>1. /\ row'[job].attempts = loop[w].read + 1
              /\ row'[job].status = "running"
          BY <3>1, <4>2 DEF TypeOK, RowType, AttemptsAfterClaim
        <5>2. runs'[job] = runs[job] + 1  BY <3>1, <3>3 DEF TypeOK
        <5>3. loop[w].read \in Nat /\ runs[job] \in Nat
          BY <2>b, <3>1 DEF TypeOK, LoopType
        <5>4. row'[job].attempts <= runs'[job]  BY <3>1, <5>1, <5>2, <5>3
        <5>5. \A j \in Jobs \ {job} : row'[j] = row[j]  BY <4>2 DEF TypeOK
        <5>6. \A j \in Jobs \ {job} : row'[j].attempts <= runs'[j]
          <6>1. TAKE j \in Jobs \ {job}
          <6>2. row[j].attempts <= runs[j]  BY <1>a DEF CountsAreBacked
          <6>3. row'[j].attempts = row[j].attempts  BY <5>5
          <6>4. QED  BY <3>4, <3>5, <6>2, <6>3
        <5>7. QED  BY <5>1, <5>4, <5>5, <5>6
      <4>3. QED  BY <2>3, <4>1, <4>2 DEF ClaimUpdate, Write
    <3>7. NeverFailedEarly'
      <4>1. SUFFICES ASSUME NEW j \in Jobs, row'[j].status = "failed"
                     PROVE  runs'[j] >= MaxAttempts
        BY DEF NeverFailedEarly
      <4>2. runs[j] >= MaxAttempts  BY <1>a, <3>6, <4>1 DEF NeverFailedEarly
      <4>3. QED  BY <3>4, <4>2, QueueAssumption
    <3>8. \A v \in Loops : loop'[v].pc \in {"claim", "fail_write", "refail_write"}
            => v # w /\ loop'[v] = loop[v]
      BY <3>2 DEF TypeOK
    <3>9. \A v \in Loops : loop'[v].pc \in {"claim", "fail_write", "refail_write"}
            => loop'[v].read <= runs'[loop'[v].job]
      <4>1. SUFFICES ASSUME NEW v \in Loops, v # w, loop'[v] = loop[v],
                 loop[v].pc \in {"claim", "fail_write", "refail_write"}
            PROVE  loop[v].read <= runs'[loop[v].job]
        BY <3>8
      <4>2. loop[v].job \in Jobs  BY <4>1 DEF HoldsOne, Busy
      <4>3. loop[v].read <= runs[loop[v].job]  BY <1>a, <4>1 DEF CountsAreBacked
      <4>4. loop[v].read \in Nat  BY DEF TypeOK, LoopType
      <4>5. runs'[loop[v].job] \in Nat  BY <3>1, <3>3, <4>2 DEF TypeOK
      <4>6. QED  BY <3>4, <4>2, <4>3, <4>4, <4>5
    <3>10. QED  BY <3>6, <3>7, <3>9 DEF BudgetInv, CountsAreBacked
  <2>4. CASE Process(w)
    <3>1. UNCHANGED <<row, runs>>  BY <2>4 DEF Process
    <3>2. job \in Jobs  BY <2>4, <2>a DEF Process, Busy
    <3>3. PICK out \in {"complete", "fail_read"} :
            loop' = [loop EXCEPT ![w].pc = out]
      BY <2>4, <3>2 DEF Process, Outcomes, TypeOK, RowType, AllKinds
    <3>4. QED
      BY <1>a, <3>1, <3>3 DEF TypeOK, BudgetInv, CountsAreBacked, NeverFailedEarly
  <2>5. CASE CompleteJob(w)
    <3>1. job \in Jobs  BY <2>5, <2>a DEF CompleteJob, Busy
    <3>2. UNCHANGED runs /\ WriteStatus(job, "done") /\ NextIteration(w)
      BY <2>5 DEF CompleteJob
    <3>3. /\ \A k \in Jobs : row'[k].attempts <= runs[k]
          /\ NeverFailedEarly'
      BY <3>1, <3>2, StatusBacked
    <3>4. QED  BY <1>a, <3>2, <3>3, EndTickBacked DEF BudgetInv
  <2>6. CASE FailRead(w)
    <3>1. UNCHANGED <<row, runs>>  BY <2>6 DEF FailRead
    <3>2. job \in Jobs  BY <2>6, <2>a DEF FailRead, Busy
    <3>3. PICK to \in {"fail_write", "refail_write"}, n \in {0, row[job].attempts} :
            loop' = [loop EXCEPT ![w].pc = to, ![w].read = n]
      BY <2>6 DEF FailRead
    <3>4. n <= runs[job]  BY <1>a, <3>2 DEF TypeOK, CountsAreBacked
    <3>5. \A v \in Loops : IF v = w THEN loop'[v].read = n /\ loop'[v].job = job
                                   ELSE loop'[v] = loop[v]
      BY <2>b, <3>3 DEF TypeOK, LoopType
    <3>6. QED
      BY <1>a, <3>1, <3>4, <3>5 DEF BudgetInv, CountsAreBacked, NeverFailedEarly
  <2>7. CASE FailWrite(w)
    <3>1. job \in Jobs /\ loop[w].read <= runs[job]
      BY <1>a, <2>7, <2>a DEF FailWrite, Busy, CountsAreBacked
    <3>2. /\ UNCHANGED runs
          /\ WriteStatus(job, StatusAfterFailure(loop[w].read))
          /\ loop' = [loop EXCEPT ![w].pc = "refail_read"]
      BY <2>7 DEF FailWrite
    <3>3. StatusAfterFailure(loop[w].read) = "failed" => runs[job] >= MaxAttempts
      <4>1. loop[w].read \in Nat /\ runs[job] \in Nat
        BY <2>b, <3>1 DEF LoopType, TypeOK
      <4>2. QED  BY <3>1, <4>1, QueueAssumption DEF StatusAfterFailure
    <3>4. /\ \A k \in Jobs : row'[k].attempts <= runs[k]
          /\ NeverFailedEarly'
      BY <3>1, <3>2, <3>3, StatusBacked
    <3>5. CountsAreBacked'  BY <1>a, <3>2, <3>4 DEF TypeOK, CountsAreBacked
    <3>6. QED  BY <3>4, <3>5 DEF BudgetInv
  <2>8. CASE RefailWrite(w)
    <3>1. job \in Jobs /\ loop[w].read <= runs[job]
      BY <1>a, <2>8, <2>a DEF RefailWrite, Busy, CountsAreBacked
    <3>2. /\ UNCHANGED runs /\ NextIteration(w)
          /\ WriteStatus(job, StatusAfterFailure(loop[w].read))
      BY <2>8 DEF RefailWrite
    <3>3. StatusAfterFailure(loop[w].read) = "failed" => runs[job] >= MaxAttempts
      <4>1. loop[w].read \in Nat /\ runs[job] \in Nat
        BY <2>b, <3>1 DEF LoopType, TypeOK
      <4>2. QED  BY <3>1, <4>1, QueueAssumption DEF StatusAfterFailure
    <3>4. /\ \A k \in Jobs : row'[k].attempts <= runs[k]
          /\ NeverFailedEarly'
      BY <3>1, <3>2, <3>3, StatusBacked
    <3>5. QED  BY <1>a, <3>2, <3>4, EndTickBacked DEF BudgetInv
  <2>9. QED
    BY <1>7, <2>1, <2>2, <2>3, <2>4, <2>5, <2>6, <2>7, <2>8 DEF LoopStep
<1>8. CASE UNCHANGED vars
  BY <1>8 DEF vars, BudgetInv, CountsAreBacked, NeverFailedEarly
<1>9. QED
  BY <1>1, <1>2, <1>3, <1>4, <1>5, <1>6, <1>7, <1>8 DEF Next, Environment

(* A row is marked `failed' only after max_attempts executions of the job, *)
(* for any number of runners racing for it and any statements lost.        *)
THEOREM FailureIsEarned == Spec => []NeverFailedEarly
<1>1. BudgetInv => NeverFailedEarly  BY DEF BudgetInv
<1>2. QED
  BY <1>1, InitType, StepType, InitBudget, StepBudget, PTL DEF Spec

-----------------------------------------------------------------------------
(* What the three properties below keep needing about single statements.   *)

(* A statement that is not lost writes the row it names.                   *)
LEMMA WriteHappens ==
  ASSUME TypeOK, NEW j \in Jobs, NEW new, Write(j, new), dbErrors' = 0
  PROVE  row' = [row EXCEPT ![j] = new]
  BY DEF Write, DbError, TypeOK

(* A status write, lost or not, leaves the other rows alone.               *)
LEMMA WriteElsewhere ==
  ASSUME TypeOK, NEW j \in Jobs, NEW new, Write(j, new)
  PROVE  \A k \in Jobs \ {j} : row'[k] = row[k]
  BY DEF Write, TypeOK

(* What claimNextJob's read leads to: a claim of a pending row whose        *)
(* attempts are not used up, or the end of the tick.                       *)
Claiming(w, j) ==
  [loop[w] EXCEPT !.pc = "claim", !.job = j, !.read = row[j].attempts]
LEMMA ClaimSelectCases ==
  ASSUME TypeOK, NEW w \in Loops, ClaimSelect(w)
  PROVE  /\ loop[w].pc = "poll"
         /\ row' = row /\ runs' = runs /\ crashes' = crashes /\ running' = running
         /\ UNCHANGED dbErrors \/ DbError
         /\ \/ EndTick(w)
            \/ \E j \in Jobs :
                 /\ row[j].status = "pending" /\ row[j].attempts < MaxAttempts
                 /\ loop' = [loop EXCEPT ![w] = Claiming(w, j)]
                 /\ timer' = timer
<1>1. /\ loop[w].pc = "poll"
      /\ row' = row /\ runs' = runs /\ crashes' = crashes /\ running' = running
  BY ZenonT(60) DEF ClaimSelect
<1>2. UNCHANGED dbErrors \/ DbError  BY ZenonT(60) DEF ClaimSelect
<1>3. ASSUME NEW j \in Heads(w), Claimable(row[j].attempts),
             loop' = [loop EXCEPT ![w].pc = "claim", ![w].job = j,
                                  ![w].read = row[j].attempts],
             timer' = timer
      PROVE  \E i \in Jobs :
               /\ row[i].status = "pending" /\ row[i].attempts < MaxAttempts
               /\ loop' = [loop EXCEPT ![w] = Claiming(w, i)]
               /\ timer' = timer
  <2>1. j \in Jobs /\ row[j].status = "pending" /\ row[j].attempts < MaxAttempts
    BY <1>3 DEF Heads, Eligible, Claimable
  <2>3. loop' = [loop EXCEPT ![w] = Claiming(w, j)]  BY <1>3 DEF TypeOK, Claiming
  <2>4. QED  BY <1>3, <2>1, <2>3
<1>4. \/ EndTick(w)
      \/ \E j \in Heads(w) :
           /\ Claimable(row[j].attempts)
           /\ loop' = [loop EXCEPT ![w].pc = "claim", ![w].job = j,
                                   ![w].read = row[j].attempts]
           /\ timer' = timer
  BY ZenonT(60) DEF ClaimSelect
<1>5. QED  BY <1>1, <1>2, <1>3, <1>4, ZenonT(60)

(* The end of a tick and its next iteration let go of the job, and are     *)
(* nobody else's business.                                                 *)
LEMMA IterationIsLocal ==
  ASSUME TypeOK, NEW w \in Loops, EndTick(w) \/ NextIteration(w)
  PROVE  /\ \A v \in Loops \ {w} : loop'[v] = loop[v]
         /\ loop'[w].job = NoJob
         /\ loop'[w].pc \in {"off", "armed", "poll"}
  BY DEF EndTick, NextIteration, Idle, TypeOK

(* A step of a loop: other loops and their jobs stay as they are.          *)
LEMMA LoopStepIsLocal ==
  ASSUME TypeInv, NEW w \in Loops, LoopStep(w)
  PROVE  \A v \in Loops \ {w} : loop'[v] = loop[v]
<1> USE DEF TypeInv
<1>1. CASE EndTick(w) \/ NextIteration(w)  BY <1>1, IterationIsLocal
<1>2. CASE ~(EndTick(w) \/ NextIteration(w))
  <2>1. CASE ClaimSelect(w)  BY <1>2, <2>1, ClaimSelectCases DEF TypeOK
  <2>2. CASE ~ClaimSelect(w)
    BY <1>2, <2>2 DEF LoopStep, Fire, ClaimUpdate, Process, CompleteJob, FailRead,
                      FailWrite, RefailWrite, TypeOK
  <2>3. QED  BY <2>1, <2>2
<1>3. QED  BY <1>1, <1>2

-----------------------------------------------------------------------------
(* A running row has an executor.                                          *)

(* No row is running in the empty table.                                   *)
THEOREM InitHeld == Init => RunningIsHeld
  BY DEF Init, RunningIsHeld

(* A step that leaves a row running leaves it an executor: the step either *)
(* makes one, or is another loop's, or moves the executor one stage on.    *)
THEOREM StepHeld == TypeInv /\ RunningIsHeld /\ [Next]_vars => RunningIsHeld'
<1> SUFFICES ASSUME TypeInv, RunningIsHeld, [Next]_vars,
                    crashes' = 0, dbErrors' = 0,
                    NEW j \in Jobs, row'[j].status = "running"
             PROVE  \E w \in Loops : Executes(w, j)'
  BY DEF RunningIsHeld
<1> USE DEF counters
<1>t. TypeOK /\ HoldsOne  BY DEF TypeInv
<1>a. ASSUME crashes = 0, dbErrors = 0, row[j].status = "running"
      PROVE  \E w \in Loops : Executes(w, j)
  BY <1>a DEF RunningIsHeld
<1>b. ASSUME UNCHANGED <<row, loop>>, crashes = 0, dbErrors = 0
      PROVE  \E w \in Loops : Executes(w, j)'
  BY <1>a, <1>b DEF Executes
<1>1. CASE Tick  BY <1>1, <1>b DEF Tick
<1>2. ASSUME NEW i \in Jobs, NEW k \in Kinds, NEW p \in Priorities,
             NEW at \in 0..MaxNow, EnqueueJob(i, k, p, at)
      PROVE  \E w \in Loops : Executes(w, j)'
  <2>1. i # j /\ row'[j] = row[j]  BY <1>2, <1>t DEF EnqueueJob, TypeOK
  <2>2. QED  BY <1>2, <1>a, <2>1 DEF EnqueueJob, Executes
<1>3. ASSUME NEW i \in Jobs, CancelJob(i)
      PROVE  \E w \in Loops : Executes(w, j)'
  <2>1. row' = [row EXCEPT ![i] = [row[i] EXCEPT !.status = "cancelled"]]
    BY <1>3, <1>t, WriteHappens DEF CancelJob, WriteStatus
  <2>2. i # j /\ row'[j] = row[j]  BY <2>1, <1>t DEF TypeOK, RowType
  <2>3. dbErrors = 0  BY <1>3, <1>t DEF CancelJob, WriteStatus, Write, DbError, TypeOK
  <2>4. QED  BY <1>3, <1>a, <2>2, <2>3 DEF CancelJob, Executes
<1>4. ASSUME NEW r \in Runners, Start(r)
      PROVE  \E w \in Loops : Executes(w, j)'
  BY <1>4, <1>t, <1>a DEF Start, LoopsOf, Executes, TypeOK
<1>5. ASSUME NEW r \in Runners, Stop(r)
      PROVE  \E w \in Loops : Executes(w, j)'
  BY <1>5, <1>t, <1>a DEF Stop, Executes, TypeOK
<1>6. ASSUME NEW r \in Runners, Crash(r)
      PROVE  \E w \in Loops : Executes(w, j)'
  BY <1>6, <1>t DEF Crash, TypeOK
<1>7. ASSUME NEW w \in Loops, LoopStep(w)
      PROVE  \E v \in Loops : Executes(v, j)'
  <2>1. crashes = 0
    BY <1>7, <1>t, ClaimSelectCases
       DEF LoopStep, Fire, ClaimUpdate, Process, CompleteJob, FailRead, FailWrite,
           RefailWrite
  <2>2. dbErrors = 0
    BY <1>7, <1>t, ClaimSelectCases
       DEF LoopStep, Fire, ClaimUpdate, Process, CompleteJob, FailRead, FailWrite,
           RefailWrite, WriteStatus, Write, DbError, TypeOK
  <2>3. \A v \in Loops \ {w} : loop'[v] = loop[v]  BY <1>7, LoopStepIsLocal
  <2>4. ASSUME row[j].status = "running", NEW v \in Loops, Executes(v, j), v # w
        PROVE  Executes(v, j)'
    BY <2>3, <2>4 DEF Executes
  <2>5. ASSUME row'[j] = row[j], ~Executes(w, j)
        PROVE  \E v \in Loops : Executes(v, j)'
    BY <1>a, <2>1, <2>2, <2>4, <2>5
  <2>6. CASE Fire(w) \/ ClaimSelect(w)
    <3>1. row' = row  BY <2>6, <1>t, ClaimSelectCases DEF Fire
    <3>2. ~Executes(w, j)  BY <2>6, <1>t, ClaimSelectCases DEF Fire, Executes
    <3>3. QED  BY <2>5, <3>1, <3>2
  <2>7. CASE ClaimUpdate(w)
    <3>1. loop[w].job \in Jobs  BY <2>7, <1>t DEF ClaimUpdate, HoldsOne, Busy
    <3>2. CASE loop[w].job = j
      BY <2>7, <3>2, <1>t DEF ClaimUpdate, Executes, TypeOK
    <3>3. CASE loop[w].job # j
      <4>1. row'[j] = row[j]
        BY <2>7, <3>1, <3>3, <1>t, WriteElsewhere DEF ClaimUpdate
      <4>2. QED  BY <2>5, <3>3, <4>1 DEF Executes
    <3>4. QED  BY <3>2, <3>3
  <2>8. CASE Process(w)
    <3>1. row' = row  BY <2>8 DEF Process
    <3>2. loop[w].job \in Jobs  BY <2>8, <1>t DEF Process, HoldsOne, Busy
    <3>3. PICK out \in {"complete", "fail_read"} :
            loop' = [loop EXCEPT ![w].pc = out]
      BY <2>8, <3>2, <1>t DEF Process, Outcomes, TypeOK, RowType, AllKinds
    <3>4. CASE loop[w].job = j  BY <3>3, <3>4, <1>t DEF Executes, TypeOK, LoopType
    <3>5. CASE loop[w].job # j  BY <2>5, <3>1, <3>5 DEF Executes
    <3>6. QED  BY <3>4, <3>5
  <2>9. CASE FailRead(w)
    <3>1. row' = row  BY <2>9 DEF FailRead
    <3>2. CASE Executes(w, j)
      <4>1. loop[w].pc = "fail_read"  BY <2>9, <3>2 DEF FailRead, Executes
      <4>2. \E n : loop' = [loop EXCEPT ![w].pc = "fail_write", ![w].read = n]
        BY <2>9, <4>1 DEF FailRead
      <4>3. loop[w] \in LoopType  BY <1>t DEF TypeOK
      <4>4. loop'[w].job = loop[w].job /\ loop'[w].pc = "fail_write"
        BY <4>2, <4>3, <1>t DEF LoopType, TypeOK
      <4>5. QED  BY <3>2, <4>4 DEF Executes
    <3>3. QED  BY <2>5, <3>1, <3>2
  <2>10. CASE CompleteJob(w) \/ FailWrite(w) \/ RefailWrite(w)
    <3>1. PICK s \in Statuses : s # "running" /\ WriteStatus(loop[w].job, s)
      BY <2>10 DEF CompleteJob, FailWrite, RefailWrite, StatusAfterFailure, Statuses
    <3>2. loop[w].job \in Jobs
      BY <2>10, <1>t DEF CompleteJob, FailWrite, RefailWrite, HoldsOne, Busy
    <3>3. row' = [row EXCEPT ![loop[w].job] = [row[loop[w].job] EXCEPT !.status = s]]
      BY <3>1, <3>2, <1>t, WriteHappens DEF WriteStatus
    <3>4. loop[w].job # j  BY <3>1, <3>2, <3>3, <1>t DEF TypeOK, RowType
    <3>5. row'[j] = row[j]  BY <3>3, <3>4, <1>t DEF TypeOK
    <3>6. QED  BY <2>5, <3>4, <3>5 DEF Executes
  <2>11. QED  BY <1>7, <2>6, <2>7, <2>8, <2>9, <2>10 DEF LoopStep
<1>8. CASE UNCHANGED vars  BY <1>8, <1>b DEF vars
<1>9. QED
  BY <1>1, <1>2, <1>3, <1>4, <1>5, <1>6, <1>7, <1>8 DEF Next, Environment

(* A row marked `running' is in the hands of a loop that will write its    *)
(* outcome, whatever runners race for it, are stopped or cancelled, as     *)
(* long as no process died and no statement was lost.                      *)
THEOREM RunningHasExecutor == Spec => []RunningIsHeld
  BY InitType, StepType, InitHeld, StepHeld, PTL DEF Spec

-----------------------------------------------------------------------------
(* A cancelled job that no loop has in hand stays cancelled.               *)

(* No step writes a row that no loop holds, but an insert and a            *)
(* cancellation; and only pending rows are taken in hand.                  *)
THEOREM StepCancelled ==
  TypeInv /\ [Next]_vars =>
    \A j \in Jobs :
      (row[j].status = "cancelled" /\ \A w \in Loops : ~HeldBy(w, j))
        => row'[j].status = "cancelled" /\ \A w \in Loops : ~HeldBy(w, j)'
<1> SUFFICES ASSUME TypeInv, [Next]_vars, NEW j \in Jobs,
                    row[j].status = "cancelled",
                    \A w \in Loops : loop[w].job # j
             PROVE  row'[j].status = "cancelled" /\ \A w \in Loops : loop'[w].job # j
  BY DEF HeldBy
<1> USE DEF counters
<1>t. TypeOK /\ HoldsOne  BY DEF TypeInv
<1>n. NoJob # j  BY QueueAssumption
<1>1. CASE Tick \/ UNCHANGED vars  BY <1>1 DEF Tick, vars
<1>2. ASSUME NEW i \in Jobs, NEW k \in Kinds, NEW p \in Priorities,
             NEW at \in 0..MaxNow, EnqueueJob(i, k, p, at)
      PROVE  row'[j].status = "cancelled" /\ \A w \in Loops : loop'[w].job # j
  BY <1>2, <1>t DEF EnqueueJob, TypeOK
<1>3. ASSUME NEW i \in Jobs, CancelJob(i)
      PROVE  row'[j].status = "cancelled" /\ \A w \in Loops : loop'[w].job # j
  BY <1>3, <1>t DEF CancelJob, WriteStatus, Write, TypeOK, RowType
<1>4. ASSUME NEW r \in Runners, Start(r)
      PROVE  row'[j].status = "cancelled" /\ \A w \in Loops : loop'[w].job # j
  BY <1>4, <1>t, <1>n DEF Start, LoopsOf, Idle, TypeOK
<1>5. ASSUME NEW r \in Runners, Stop(r) \/ Crash(r)
      PROVE  row'[j].status = "cancelled" /\ \A w \in Loops : loop'[w].job # j
  BY <1>5, <1>t, <1>n DEF Stop, Crash, Idle, TypeOK
<1>7. ASSUME NEW w \in Loops, LoopStep(w)
      PROVE  row'[j].status = "cancelled" /\ \A v \in Loops : loop'[v].job # j
  <2>1. \A v \in Loops \ {w} : loop'[v].job # j  BY <1>7, LoopStepIsLocal
  <2>2. row'[j] = row[j]
    <3>1. CASE UNCHANGED row  BY <3>1
    <3>2. CASE ~UNCHANGED row
      <4>1. loop[w].pc \in Busy /\ \E new : Write(loop[w].job, new)
        BY <1>7, <3>2, <1>t, ClaimSelectCases
           DEF LoopStep, Fire, ClaimUpdate, Process, CompleteJob, FailRead,
               FailWrite, RefailWrite, WriteStatus, Busy
      <4>2. loop[w].job \in Jobs  BY <4>1, <1>t DEF HoldsOne
      <4>3. QED  BY <4>1, <4>2, <1>t, WriteElsewhere
    <3>3. QED  BY <3>1, <3>2
  <2>3. loop'[w].job # j
    <3>1. CASE EndTick(w) \/ NextIteration(w)
      BY <3>1, <1>t, <1>n, IterationIsLocal
    <3>2. CASE ~(EndTick(w) \/ NextIteration(w))
      <4>1. loop[w] \in LoopType  BY <1>t DEF TypeOK
      <4>2. CASE Fire(w)  BY <4>2, <1>t, <1>n DEF Fire, Idle, TypeOK
      <4>3. CASE ClaimSelect(w)
        <5>1. PICK i \in Jobs :
                /\ row[i].status = "pending"
                /\ loop' = [loop EXCEPT ![w] = Claiming(w, i)]
          BY <3>2, <4>3, <1>t, ClaimSelectCases
        <5>2. QED  BY <4>1, <5>1, <1>t DEF TypeOK, LoopType, Claiming
      <4>4. CASE ClaimUpdate(w) \/ Process(w) \/ FailRead(w) \/ FailWrite(w)
        BY <4>1, <4>4, <1>t DEF ClaimUpdate, Process, FailRead, FailWrite, TypeOK, LoopType
      <4>5. QED  BY <1>7, <3>2, <4>2, <4>3, <4>4 DEF LoopStep, CompleteJob, RefailWrite
    <3>3. QED  BY <3>1, <3>2
  <2>4. QED  BY <2>1, <2>2, <2>3
<1>8. QED  BY <1>1, <1>2, <1>3, <1>4, <1>5, <1>7 DEF Next, Environment

(* Nobody revives a cancelled job that no loop had in hand: not a claim,   *)
(* not a late completion or failure of some other job, not a restart.      *)
THEOREM CancelledForGood == Spec => CancelledIdleStays
<1>1. TypeInv /\ [Next]_vars =>
        [\A j \in Jobs :
           (row[j].status = "cancelled" /\ \A w \in Loops : ~HeldBy(w, j))
             => row'[j].status = "cancelled" /\ \A w \in Loops : ~HeldBy(w, j)']_vars
  BY StepCancelled
<1>2. QED  BY <1>1, InitType, StepType, PTL DEF Spec, CancelledIdleStays
-----------------------------------------------------------------------------
(* A runner that is never stopped executes its ticks one after another.    *)

(* One loop of a runner is on at most, and none while it is not running.   *)
OneChain ==
  \A r \in Runners :
    /\ \A v, w \in LoopsOf(r) : (loop[v].pc # "off" /\ loop[w].pc # "off") => v = w
    /\ ~running[r] => \A w \in LoopsOf(r) : loop[w].pc = "off"

(* Nothing runs at first.                                                  *)
THEOREM InitChain == Init => OneChain
  BY DEF Init, OneChain, LoopsOf, Idle

(* Only start() puts a loop on, of a runner that has none on; a tick ends  *)
(* with its own next timer.                                                *)
THEOREM StepChain == ~AllowStop /\ TypeInv /\ OneChain /\ [Next]_vars => OneChain'
<1> SUFFICES ASSUME ~AllowStop, TypeInv, OneChain, [Next]_vars PROVE OneChain'
  OBVIOUS
<1> USE DEF counters
<1>t. TypeOK  BY DEF TypeInv
<1>1. CASE UNCHANGED <<loop, running>>  BY <1>1 DEF OneChain, LoopsOf
<1>2. ASSUME NEW r \in Runners, Start(r) PROVE OneChain'
  <2>1. PICK w \in LoopsOf(r) : loop' = [loop EXCEPT ![w] = Idle("armed")]
    BY <1>2 DEF Start
  <2>2. running' = [running EXCEPT ![r] = TRUE] /\ ~running[r]  BY <1>2 DEF Start
  <2>3. \A v \in LoopsOf(r) : loop[v].pc = "off"  BY <2>2 DEF OneChain
  <2>4. \A v \in Loops \ {w} : loop'[v] = loop[v]  BY <2>1, <1>t DEF TypeOK
  <2>5. \A s \in Runners \ {r} : w \notin LoopsOf(s) /\ running'[s] = running[s]
    BY <2>1, <2>2, <1>t DEF LoopsOf, TypeOK
  <2>6. running'[r]  BY <2>2, <1>t DEF TypeOK
  <2>7. QED  BY <2>3, <2>4, <2>5, <2>6 DEF OneChain, LoopsOf
<1>3. ASSUME NEW r \in Runners, Crash(r) PROVE OneChain'
  <2>1. \A w \in Loops : loop'[w].pc = IF RunnerOf[w] = r THEN "off" ELSE loop[w].pc
    BY <1>3 DEF Crash, Idle
  <2>2. \A s \in Runners \ {r} : running'[s] = running[s]
    BY <1>3, <1>t DEF Crash, TypeOK
  <2>3. QED  BY <2>1, <2>2 DEF OneChain, LoopsOf
<1>4. ASSUME NEW w \in Loops, LoopStep(w) PROVE OneChain'
  <2> DEFINE r == RunnerOf[w]
  <2>r. r \in Runners /\ w \in LoopsOf(r)  BY QueueAssumption DEF LoopsOf
  <2>1. running' = running
    BY <1>4, <1>t, ClaimSelectCases
       DEF LoopStep, Fire, ClaimUpdate, Process, CompleteJob, FailRead, FailWrite,
           RefailWrite
  <2>2. loop[w].pc # "off"
    BY <1>4, <1>t, ClaimSelectCases
       DEF LoopStep, Fire, ClaimUpdate, Process, CompleteJob, FailRead, FailWrite,
           RefailWrite
  <2>3. running[r]  BY <2>r, <2>2 DEF OneChain
  <2>4. \A v \in Loops \ {w} : loop'[v] = loop[v]  BY <1>4, LoopStepIsLocal
  <2>5. \A v \in LoopsOf(r) : v # w => loop[v].pc = "off"
    BY <2>r, <2>2 DEF OneChain
  <2>6. \A s \in Runners \ {r} : w \notin LoopsOf(s)  BY DEF LoopsOf
  <2>7. QED  BY <2>r, <2>1, <2>3, <2>4, <2>5, <2>6 DEF OneChain, LoopsOf
<1>5. QED
  BY <1>1, <1>2, <1>3, <1>4
     DEF Next, Environment, Tick, EnqueueJob, CancelJob, Stop, vars

(* However often a runner is started and its process dies, it never has    *)
(* two ticks under way, unless stop() is called.                           *)
THEOREM TicksAreSerial == ASSUME ~AllowStop PROVE Spec => []SerialTicks
<1>1. OneChain => SerialTicks  BY DEF OneChain, SerialTicks, InTick
<1>2. TypeInv /\ OneChain /\ [Next]_vars => OneChain'  BY StepChain
<1>3. QED  BY <1>1, <1>2, InitType, StepType, InitChain, PTL DEF Spec
-----------------------------------------------------------------------------
(* The contract of the table, as long as one runner process drains it and  *)
(* no statement is lost.  Crashes and cancellations are allowed.           *)
OneLoopOnly ==
  /\ ~AllowStop /\ MaxDbErrors = 0
  /\ \A r, s \in Runners : r = s

(* What the loop that is on knows of its job is what the table says,       *)
(* unless it was cancelled meanwhile, and what a row says of its attempts  *)
(* is what has happened.                                                   *)
RowAgrees(j) ==
  /\ row[j].attempts = runs[j]
  /\ row[j].attempts <= MaxAttempts
  /\ row[j].status = "absent" => row[j].attempts = 0
  /\ row[j].status = "pending" => row[j].attempts < MaxAttempts
LoopAgrees(w) ==
  LET known == row[loop[w].job] IN
  /\ loop[w].pc \notin Busy => loop[w].job = NoJob
  /\ loop[w].pc = "claim"
       => known.status \in {"pending", "cancelled"} /\ known.attempts < MaxAttempts
  /\ loop[w].pc \in {"process", "complete", "fail_read", "fail_write"}
       => known.status \in {"running", "cancelled"}
  /\ loop[w].pc \in {"claim", "fail_write", "refail_write"}
       => loop[w].read = known.attempts
  /\ loop[w].pc \in {"refail_read", "refail_write"}
       => known.status \in {StatusAfterFailure(known.attempts), "cancelled"}
Agreement ==
  /\ \A j \in Jobs : RowAgrees(j)
  /\ \A w \in Loops : LoopAgrees(w)
ContractInv == TypeInv /\ OneChain /\ Agreement

(* One process: while a loop is on, every other loop is off.               *)
LEMMA OthersOff ==
  ASSUME OneLoopOnly, OneChain, NEW w \in Loops, loop[w].pc # "off"
  PROVE  \A v \in Loops \ {w} : loop[v].pc = "off"
<1>1. SUFFICES ASSUME NEW v \in Loops, v # w PROVE loop[v].pc = "off"  OBVIOUS
<1>2. RunnerOf[v] \in Runners /\ RunnerOf[w] \in Runners  BY QueueAssumption
<1>3. RunnerOf[v] = RunnerOf[w]  BY <1>2 DEF OneLoopOnly
<1>4. QED  BY <1>1, <1>2, <1>3 DEF OneChain, LoopsOf

(* No statement is lost.                                                   *)
LEMMA WriteSure ==
  ASSUME OneLoopOnly, TypeOK, NEW j \in Jobs, NEW new, Write(j, new)
  PROVE  row' = [row EXCEPT ![j] = new]
  BY DEF OneLoopOnly, Write, DbError, TypeOK

(* A step of the loop that is on keeps the agreement, if it does for its   *)
(* own job and itself.                                                     *)
LEMMA AgreementOfOne ==
  ASSUME OneLoopOnly, ContractInv, NEW w \in Loops, loop[w].pc # "off",
         LoopStep(w), NEW j \in Jobs,
         \A i \in Jobs \ {j} : row'[i] = row[i] /\ runs'[i] = runs[i],
         RowAgrees(j)', LoopAgrees(w)'
  PROVE  Agreement'
<1>1. \A v \in Loops \ {w} : loop'[v].pc = "off" /\ loop'[v].job = NoJob
  BY OthersOff, LoopStepIsLocal DEF ContractInv, Agreement, LoopAgrees, Busy
<1>2. \A v \in Loops \ {w} : LoopAgrees(v)'  BY <1>1 DEF LoopAgrees
<1>3. \A i \in Jobs \ {j} : RowAgrees(i)'
  BY DEF RowAgrees, ContractInv, Agreement
<1>4. QED  BY <1>2, <1>3 DEF Agreement

(* A loop with nothing in hand knows nothing.                              *)
LEMMA IdleAgrees ==
  ASSUME NEW w \in Loops, loop'[w].pc \in {"off", "armed", "poll"},
         loop'[w].job = NoJob
  PROVE  LoopAgrees(w)'
  BY DEF LoopAgrees

(* Where the contract sees a job: a loop that is on has it in hand, before *)
(* or after the update of its claim.                                       *)
HandColumn == [j \in Jobs |-> Hand(j)]
HandBecomes(j, h) == HandColumn' = [HandColumn EXCEPT ![j] = h]
InHandOf(l, j) ==
  IF l.job # j THEN "free" ELSE IF l.pc = "claim" THEN "taken" ELSE "working"

(* If only one loop can hold a job, that loop tells where it is.           *)
LEMMA HandOfOne ==
  ASSUME NEW w \in Loops, \A v \in Loops \ {w} : loop[v].job = NoJob
  PROVE  \A j \in Jobs : Hand(j) = InHandOf(loop[w], j)
  BY QueueAssumption DEF Hand, InHandOf, HeldBy
LEMMA HandOfOneNext ==
  ASSUME NEW w \in Loops, \A v \in Loops \ {w} : loop'[v].job = NoJob
  PROVE  \A j \in Jobs : Hand(j)' = InHandOf(loop'[w], j)
  BY QueueAssumption DEF Hand, InHandOf, HeldBy

(* While a loop is on, no other holds a job, before its step and after.    *)
LEMMA OthersEmpty ==
  ASSUME OneLoopOnly, ContractInv, NEW w \in Loops, loop[w].pc # "off"
  PROVE  /\ \A v \in Loops \ {w} : loop[v].job = NoJob
         /\ LoopStep(w) => \A v \in Loops \ {w} : loop'[v].job = NoJob
<1>1. \A v \in Loops \ {w} : loop[v].pc = "off"  BY OthersOff DEF ContractInv
<1>2. \A v \in Loops \ {w} : loop[v].job = NoJob
  BY <1>1 DEF ContractInv, Agreement, LoopAgrees, Busy
<1>3. QED  BY <1>2, LoopStepIsLocal DEF ContractInv

(* A step of the loop that is on moves at most the job it is about.        *)
LEMMA HandMoves ==
  ASSUME OneLoopOnly, ContractInv, NEW w \in Loops, loop[w].pc # "off",
         LoopStep(w), NEW job \in Jobs,
         loop[w].job \in {job, NoJob}, loop'[w].job \in {job, NoJob}
  PROVE  /\ HandColumn[job] = InHandOf(loop[w], job)
         /\ HandBecomes(job, InHandOf(loop'[w], job))
<1> DEFINE h == InHandOf(loop'[w], job)
<1>1. \A j \in Jobs : Hand(j) = InHandOf(loop[w], j)  BY HandOfOne, OthersEmpty
<1>2. \A j \in Jobs : Hand(j)' = InHandOf(loop'[w], j)
  BY HandOfOneNext, OthersEmpty
<1>3. \A j \in Jobs \ {job} : Hand(j)' = Hand(j)
  BY <1>1, <1>2, QueueAssumption DEF InHandOf
<1>4. \A j \in Jobs : Hand(j)' = IF j = job THEN h ELSE Hand(j)  BY <1>2, <1>3
<1> HIDE DEF h
<1>5. [HandColumn EXCEPT ![job] = h]
        = [j \in Jobs |-> IF j = job THEN h ELSE Hand(j)]
  BY DEF HandColumn
<1>6. HandColumn' = [j \in Jobs |-> IF j = job THEN h ELSE Hand(j)]
  BY <1>4 DEF HandColumn
<1>7. QED  BY <1>1, <1>5, <1>6 DEF HandBecomes, HandColumn, h

(* A step in which no loop takes up, starts or lets go of a job moves none.*)
LEMMA HandStays ==
  ASSUME \A w \in Loops :
           /\ loop'[w].job = loop[w].job
           /\ loop[w].job \in Jobs
                => ((loop'[w].pc = "claim") <=> (loop[w].pc = "claim"))
  PROVE  HandColumn' = HandColumn
<1>1. \A j \in Jobs : Hand(j)' = Hand(j)  BY DEF Hand, HeldBy
<1>2. QED  BY <1>1 DEF HandColumn

(* failJob's verdict: given up when the attempts are used up, or else back *)
(* in the queue with some left.                                            *)
LEMMA Verdict ==
  ASSUME NEW n \in Nat, n <= MaxAttempts
  PROVE  \/ n = MaxAttempts /\ StatusAfterFailure(n) = "failed"
         \/ n < MaxAttempts /\ StatusAfterFailure(n) = "pending"
  BY QueueAssumption DEF StatusAfterFailure

(* The empty table agrees with what has happened.                          *)
THEOREM InitContract == Init => ContractInv
<1>1. Init => Agreement
  BY QueueAssumption DEF Init, Agreement, RowAgrees, LoopAgrees, Idle, Busy
<1>2. QED  BY <1>1, InitType, InitChain DEF ContractInv

(* The contract sees of a row that is written its status and its attempts. *)
StatusColumn == [j \in Jobs |-> row[j].status]
AttemptsColumn == [j \in Jobs |-> row[j].attempts]
RowBecomes(j, new) == row' = [row EXCEPT ![j] = new]
StatusBecomes(j, s) == StatusColumn' = [StatusColumn EXCEPT ![j] = s]
AttemptsBecome(j, n) == AttemptsColumn' = [AttemptsColumn EXCEPT ![j] = n]
LEMMA ContractSees ==
  ASSUME TypeOK, NEW j \in Jobs, NEW new, RowBecomes(j, new)
  PROVE  /\ StatusBecomes(j, new.status)
         /\ AttemptsBecome(j, new.attempts)
         /\ row'[j] = new
         /\ \A i \in Jobs \ {j} : row'[i] = row[i]
<1>1. \A k \in Jobs : row'[k] = IF k = j THEN new ELSE row[k]
  BY DEF TypeOK, RowBecomes
<1>2. StatusColumn' = [StatusColumn EXCEPT ![j] = new.status]
  <2>1. \A k \in Jobs : row'[k].status = IF k = j THEN new.status ELSE row[k].status
    BY <1>1
  <2>2. [StatusColumn EXCEPT ![j] = new.status]
          = [k \in Jobs |-> IF k = j THEN new.status ELSE row[k].status]
    BY DEF StatusColumn
  <2>3. QED  BY <2>1, <2>2 DEF StatusColumn
<1>3. AttemptsColumn' = [AttemptsColumn EXCEPT ![j] = new.attempts]
  <2>1. \A k \in Jobs :
          row'[k].attempts = IF k = j THEN new.attempts ELSE row[k].attempts
    BY <1>1
  <2>2. [AttemptsColumn EXCEPT ![j] = new.attempts]
          = [k \in Jobs |-> IF k = j THEN new.attempts ELSE row[k].attempts]
    BY DEF AttemptsColumn
  <2>3. QED  BY <2>1, <2>2 DEF AttemptsColumn
<1>4. QED  BY <1>1, <1>2, <1>3 DEF StatusBecomes, AttemptsBecome

(* Attempts that are written back as they were are not changed.            *)
LEMMA AttemptsKept ==
  ASSUME NEW j \in Jobs, AttemptsBecome(j, row[j].attempts)
  PROVE  AttemptsColumn' = AttemptsColumn
  BY DEF AttemptsBecome, AttemptsColumn

(* An insert is a submission.                                              *)
LEMMA EnqueueContract ==
  ASSUME OneLoopOnly, ContractInv, NEW j \in Jobs, NEW k, NEW p, NEW at,
         EnqueueJob(j, k, p, at)
  PROVE  Agreement' /\ Contract!Submit(j)
<1>t. TypeOK /\ HoldsOne /\ Agreement  BY DEF ContractInv, TypeInv
<1> DEFINE new == [status |-> "pending", kind |-> k, priority |-> p,
                   scheduled_at |-> at, attempts |-> 0]
<1>1. /\ row[j].status = "absent" /\ RowBecomes(j, new)
      /\ loop' = loop /\ runs' = runs
  BY DEF EnqueueJob, RowBecomes
<1>2. row[j].attempts = 0 /\ runs[j] = 0  BY <1>1, <1>t DEF Agreement, RowAgrees
<1>3. new.status = "pending" /\ new.attempts = row[j].attempts  BY <1>2
<1> HIDE DEF new
<1>4. /\ StatusBecomes(j, new.status) /\ AttemptsBecome(j, new.attempts)
      /\ row'[j] = new /\ \A i \in Jobs \ {j} : row'[i] = row[i]
  BY <1>1, <1>t, ContractSees
<1>5. \A i \in Jobs : RowAgrees(i)'
  BY <1>1, <1>2, <1>3, <1>4, <1>t, QueueAssumption DEF Agreement, RowAgrees
<1>6. ASSUME NEW w \in Loops PROVE LoopAgrees(w)'
  <2>1. CASE loop[w].pc \in Busy
    <3>1. loop[w].job \in Jobs  BY <2>1, <1>t DEF HoldsOne
    <3>2. loop[w].job # j
      BY <2>1, <1>1, <1>t, QueueAssumption
         DEF Agreement, LoopAgrees, Busy, StatusAfterFailure
    <3>3. row'[loop[w].job] = row[loop[w].job]  BY <1>4, <3>1, <3>2
    <3>4. QED  BY <1>1, <3>3, <1>t DEF Agreement, LoopAgrees
  <2>2. CASE loop[w].pc \notin Busy
    BY <2>2, <1>1, <1>t DEF Agreement, LoopAgrees, Busy
  <2>3. QED  BY <2>1, <2>2
<1>7. Contract!Submit(j)
  <2>1. AttemptsColumn' = AttemptsColumn  BY <1>3, <1>4, AttemptsKept
  <2>2. StatusColumn[j] = "absent"  BY <1>1 DEF StatusColumn
  <2>3. StatusColumn' = [StatusColumn EXCEPT ![j] = "pending"]
    BY <1>3, <1>4 DEF StatusBecomes
  <2>4. HandColumn' = HandColumn  BY <1>1, HandStays
  <2>5. QED
    BY <2>1, <2>2, <2>3, <2>4
       DEF Contract!Submit, StatusColumn, AttemptsColumn, HandColumn
<1>8. QED  BY <1>5, <1>6, <1>7 DEF Agreement

(* The claim's update is a start: the attempts it writes count it.         *)
LEMMA ClaimContract ==
  ASSUME OneLoopOnly, ContractInv, NEW w \in Loops, NEW job \in Jobs,
         loop[w].job = job, ClaimUpdate(w)
  PROVE  Agreement' /\ Contract!Begin(job)
<1>t. TypeOK /\ HoldsOne /\ Agreement  BY DEF ContractInv, TypeInv
<1> DEFINE n   == row[job].attempts
           new == [row[job] EXCEPT !.status = "running",
                                   !.attempts = AttemptsAfterClaim(loop[w].read)]
<1>1. /\ loop[w].pc = "claim" /\ Write(job, new)
      /\ runs' = [runs EXCEPT ![job] = @ + 1]
      /\ loop' = [loop EXCEPT ![w].pc = "process"]
  BY DEF ClaimUpdate
<1>2. /\ loop[w].read = n /\ n \in Nat /\ runs[job] = n /\ n < MaxAttempts
  BY <1>1, <1>t DEF Agreement, LoopAgrees, RowAgrees, TypeOK, RowType
<1>3. new.status = "running" /\ new.attempts = n + 1
  <2>1. row[job] \in RowType  BY <1>t DEF TypeOK
  <2>2. QED  BY <2>1, <1>2 DEF RowType, AttemptsAfterClaim
<1> HIDE DEF new
<1>4. RowBecomes(job, new)  BY <1>1, <1>t, WriteSure DEF RowBecomes
<1>5. /\ StatusBecomes(job, new.status) /\ AttemptsBecome(job, new.attempts)
      /\ row'[job] = new /\ \A i \in Jobs \ {job} : row'[i] = row[i]
  BY <1>4, <1>t, ContractSees
<1>6. runs'[job] = n + 1  BY <1>1, <1>2, <1>t DEF TypeOK
<1>7. \A i \in Jobs \ {job} : row'[i] = row[i] /\ runs'[i] = runs[i]
  BY <1>1, <1>5, <1>t DEF TypeOK
<1>8. RowAgrees(job)'
  BY <1>2, <1>3, <1>5, <1>6, QueueAssumption DEF RowAgrees
<1>9. loop'[w].pc = "process" /\ loop'[w].job = job
  BY <1>1, <1>t DEF TypeOK, LoopType
<1>10. LoopAgrees(w)'  BY <1>3, <1>5, <1>9 DEF LoopAgrees, Busy
<1>a. LoopStep(w) /\ loop[w].pc # "off"  BY <1>1 DEF LoopStep
<1>11. Agreement'  BY <1>7, <1>8, <1>10, <1>a, AgreementOfOne
<1>12. Contract!Begin(job)
  <2>1. AttemptsColumn[job] = n  BY DEF AttemptsColumn
  <2>2. StatusColumn' = [StatusColumn EXCEPT ![job] = "running"]
    BY <1>3, <1>5 DEF StatusBecomes
  <2>3. AttemptsColumn' = [AttemptsColumn EXCEPT ![job] = AttemptsColumn[job] + 1]
    BY <1>3, <1>5, <2>1 DEF AttemptsBecome
  <2>4. HandColumn[job] = "taken" /\ HandBecomes(job, "working")
    BY <1>1, <1>9, <1>a, HandMoves DEF InHandOf
  <2>5. QED
    BY <2>2, <2>3, <2>4
       DEF Contract!Begin, StatusColumn, AttemptsColumn, HandColumn, HandBecomes
<1>13. QED  BY <1>11, <1>12

(* A status written by the loop that holds the job, which keeps the        *)
(* attempts: what the contract and the agreement make of it.               *)
LEMMA StatusContract ==
  ASSUME OneLoopOnly, ContractInv, NEW j \in Jobs, NEW s \in Statuses,
         WriteStatus(j, s)
  PROVE  /\ StatusBecomes(j, s)
         /\ AttemptsColumn' = AttemptsColumn
         /\ row'[j].status = s /\ row'[j].attempts = row[j].attempts
         /\ \A i \in Jobs \ {j} : row'[i] = row[i]
<1>t. TypeOK  BY DEF ContractInv, TypeInv
<1> DEFINE new == [row[j] EXCEPT !.status = s]
<1>1. new.status = s /\ new.attempts = row[j].attempts
  <2>1. row[j] \in RowType  BY <1>t DEF TypeOK
  <2>2. QED  BY <2>1 DEF RowType
<1>2. RowBecomes(j, new)  BY <1>t, WriteSure DEF WriteStatus, RowBecomes
<1> HIDE DEF new
<1>3. /\ StatusBecomes(j, new.status) /\ AttemptsBecome(j, new.attempts)
      /\ row'[j] = new /\ \A i \in Jobs \ {j} : row'[i] = row[i]
  BY <1>2, <1>t, ContractSees
<1>4. AttemptsColumn' = AttemptsColumn  BY <1>1, <1>3, AttemptsKept
<1>5. QED  BY <1>1, <1>3, <1>4

(* A cancellation is one of the contract, whoever has the job in hand.     *)
LEMMA CancelContract ==
  ASSUME OneLoopOnly, ContractInv, NEW j \in Jobs, CancelJob(j)
  PROVE  Agreement' /\ Contract!Cancel(j)
<1>t. TypeOK /\ HoldsOne /\ Agreement  BY DEF ContractInv, TypeInv
<1>1. /\ row[j].status # "absent" /\ WriteStatus(j, "cancelled")
      /\ loop' = loop /\ runs' = runs
  BY DEF CancelJob
<1>2. /\ StatusBecomes(j, "cancelled") /\ AttemptsColumn' = AttemptsColumn
      /\ row'[j].status = "cancelled" /\ row'[j].attempts = row[j].attempts
      /\ \A i \in Jobs \ {j} : row'[i] = row[i]
  BY <1>1, StatusContract DEF Statuses
<1>3. \A i \in Jobs : RowAgrees(i)'  BY <1>1, <1>2, <1>t DEF Agreement, RowAgrees
<1>4. ASSUME NEW w \in Loops PROVE LoopAgrees(w)'
  <2>1. loop[w].pc \in Busy => loop[w].job \in Jobs  BY <1>t DEF HoldsOne
  <2>2. loop[w].job \in Jobs =>
          /\ row'[loop[w].job].attempts = row[loop[w].job].attempts
          /\ row'[loop[w].job].status \in {row[loop[w].job].status, "cancelled"}
    BY <1>2
  <2>3. QED  BY <1>1, <2>1, <2>2, <1>t DEF Agreement, LoopAgrees, Busy
<1>5. HandColumn' = HandColumn  BY <1>1, HandStays
<1>6. StatusColumn[j] # "absent"  BY <1>1 DEF StatusColumn
<1>7. Contract!Cancel(j)
  BY <1>2, <1>5, <1>6
     DEF Contract!Cancel, StatusBecomes, StatusColumn, AttemptsColumn, HandColumn
<1>8. QED  BY <1>3, <1>4, <1>7 DEF Agreement

(* Completion is an end.                                                   *)
LEMMA CompleteContract ==
  ASSUME OneLoopOnly, ContractInv, NEW w \in Loops, NEW job \in Jobs,
         loop[w].job = job, CompleteJob(w)
  PROVE  Agreement' /\ Contract!Finish(job)
<1>t. TypeOK /\ HoldsOne /\ Agreement  BY DEF ContractInv, TypeInv
<1>1. /\ loop[w].pc = "complete" /\ WriteStatus(job, "done") /\ NextIteration(w)
      /\ runs' = runs
  BY DEF CompleteJob
<1>3. /\ StatusBecomes(job, "done") /\ AttemptsColumn' = AttemptsColumn
      /\ row'[job].status = "done" /\ row'[job].attempts = row[job].attempts
      /\ \A i \in Jobs \ {job} : row'[i] = row[i]
  BY <1>1, StatusContract DEF Statuses
<1>4. RowAgrees(job)'  BY <1>1, <1>3, <1>t DEF Agreement, RowAgrees
<1>5. LoopAgrees(w)'  BY <1>1, <1>t, IterationIsLocal, IdleAgrees
<1>6. LoopStep(w) /\ loop[w].pc # "off"  BY <1>1 DEF LoopStep
<1>7. Agreement'  BY <1>1, <1>3, <1>4, <1>5, <1>6, AgreementOfOne
<1>8. HandColumn[job] = "working" /\ HandBecomes(job, "free")
  BY <1>1, <1>6, <1>t, IterationIsLocal, HandMoves, QueueAssumption DEF InHandOf
<1>9. Contract!Finish(job)
  BY <1>3, <1>8
     DEF Contract!Finish, StatusBecomes, StatusColumn, AttemptsColumn,
         HandColumn, HandBecomes
<1>10. QED  BY <1>7, <1>9

(* The first failJob puts the job back or gives it up, and the loop keeps  *)
(* it in hand.                                                             *)
LEMMA FailContract ==
  ASSUME OneLoopOnly, ContractInv, NEW w \in Loops, NEW job \in Jobs,
         loop[w].job = job, FailWrite(w)
  PROVE  Agreement' /\ (Contract!Retry(job) \/ Contract!GiveUp(job))
<1>t. TypeOK /\ HoldsOne /\ Agreement  BY DEF ContractInv, TypeInv
<1> DEFINE n == row[job].attempts
           s == StatusAfterFailure(n)
<1>1. /\ loop[w].pc = "fail_write"
      /\ WriteStatus(job, StatusAfterFailure(loop[w].read))
      /\ loop' = [loop EXCEPT ![w].pc = "refail_read"] /\ runs' = runs
  BY DEF FailWrite
<1>2. loop[w].read = n  BY <1>1, <1>t DEF Agreement, LoopAgrees
<1>3. n \in Nat /\ n <= MaxAttempts
  BY <1>t DEF Agreement, RowAgrees, TypeOK, RowType
<1>4. \/ n = MaxAttempts /\ s = "failed"
      \/ n < MaxAttempts /\ s = "pending"
  BY <1>3, Verdict
<1>5. s \in Statuses /\ WriteStatus(job, s)  BY <1>1, <1>2, FailureStatus
<1> HIDE DEF s
<1>6. /\ StatusBecomes(job, s) /\ AttemptsColumn' = AttemptsColumn
      /\ row'[job].status = s /\ row'[job].attempts = n
      /\ \A i \in Jobs \ {job} : row'[i] = row[i]
  BY <1>5, StatusContract
<1>7. RowAgrees(job)'  BY <1>1, <1>4, <1>6, <1>t DEF Agreement, RowAgrees
<1>8. loop'[w].pc = "refail_read" /\ loop'[w].job = job
  BY <1>1, <1>t DEF TypeOK, LoopType
<1>9. LoopAgrees(w)'  BY <1>6, <1>8 DEF LoopAgrees, Busy, s
<1>10. LoopStep(w) /\ loop[w].pc # "off"  BY <1>1 DEF LoopStep
<1>11. Agreement'  BY <1>1, <1>6, <1>7, <1>9, <1>10, AgreementOfOne
<1>12. AttemptsColumn[job] = n  BY DEF AttemptsColumn
<1>13. HandColumn[job] = "working" /\ HandColumn' = HandColumn
  <2>1. HandColumn[job] = "working"
    BY <1>1, <1>8, <1>10, HandMoves DEF InHandOf
  <2>2. \A v \in Loops \ {w} : loop'[v] = loop[v]
    BY <1>10, LoopStepIsLocal DEF ContractInv
  <2>3. QED  BY <1>1, <1>8, <2>1, <2>2, HandStays
<1>14. CASE n = MaxAttempts /\ s = "failed"
  BY <1>6, <1>11, <1>12, <1>13, <1>14
     DEF Contract!GiveUp, Contract!Report, StatusBecomes, StatusColumn,
         AttemptsColumn, HandColumn
<1>15. CASE n < MaxAttempts /\ s = "pending"
  BY <1>6, <1>11, <1>12, <1>13, <1>15
     DEF Contract!Retry, Contract!Report, StatusBecomes, StatusColumn,
         AttemptsColumn, HandColumn
<1>16. QED  BY <1>4, <1>11, <1>14, <1>15

(* The second failJob writes the same verdict, unless the job was          *)
(* cancelled in between, which it overrules; the loop lets go of the job.  *)
LEMMA RefailContract ==
  ASSUME OneLoopOnly, ContractInv, NEW w \in Loops, NEW job \in Jobs,
         loop[w].job = job, RefailWrite(w)
  PROVE  Agreement' /\ (Contract!Retry(job) \/ Contract!GiveUp(job))
<1>t. TypeOK /\ HoldsOne /\ Agreement  BY DEF ContractInv, TypeInv
<1> DEFINE n == row[job].attempts
           s == StatusAfterFailure(n)
<1>1. /\ loop[w].pc = "refail_write" /\ NextIteration(w) /\ runs' = runs
      /\ WriteStatus(job, StatusAfterFailure(loop[w].read))
  BY DEF RefailWrite
<1>2. loop[w].read = n  BY <1>1, <1>t DEF Agreement, LoopAgrees
<1>3. n \in Nat /\ n <= MaxAttempts
  BY <1>t DEF Agreement, RowAgrees, TypeOK, RowType
<1>4. \/ n = MaxAttempts /\ s = "failed"
      \/ n < MaxAttempts /\ s = "pending"
  BY <1>3, Verdict
<1>5. s \in Statuses /\ WriteStatus(job, s)  BY <1>1, <1>2, FailureStatus
<1> HIDE DEF s
<1>6. /\ StatusBecomes(job, s) /\ AttemptsColumn' = AttemptsColumn
      /\ row'[job].status = s /\ row'[job].attempts = n
      /\ \A i \in Jobs \ {job} : row'[i] = row[i]
  BY <1>5, StatusContract
<1>7. RowAgrees(job)'  BY <1>1, <1>4, <1>6, <1>t DEF Agreement, RowAgrees
<1>8. LoopAgrees(w)'  BY <1>1, <1>t, IterationIsLocal, IdleAgrees
<1>9. LoopStep(w) /\ loop[w].pc # "off"  BY <1>1 DEF LoopStep
<1>10. Agreement'  BY <1>1, <1>6, <1>7, <1>8, <1>9, AgreementOfOne
<1>11. HandColumn[job] = "working" /\ HandBecomes(job, "free")
  BY <1>1, <1>9, <1>t, IterationIsLocal, HandMoves, QueueAssumption DEF InHandOf
<1>12. AttemptsColumn[job] = n  BY DEF AttemptsColumn
<1>13. CASE n = MaxAttempts /\ s = "failed"
  BY <1>6, <1>10, <1>11, <1>12, <1>13
     DEF Contract!GiveUp, Contract!Report, StatusBecomes, StatusColumn,
         AttemptsColumn, HandColumn, HandBecomes
<1>14. CASE n < MaxAttempts /\ s = "pending"
  BY <1>6, <1>10, <1>11, <1>12, <1>14
     DEF Contract!Retry, Contract!Report, StatusBecomes, StatusColumn,
         AttemptsColumn, HandColumn, HandBecomes
<1>15. QED  BY <1>4, <1>10, <1>13, <1>14

(* The steps that write no row: the read of a claim, which takes the job   *)
(* it finds, and the timer, the processor and failJob's read, which the    *)
(* contract does not see.                                                  *)
LEMMA ReadContract ==
  ASSUME OneLoopOnly, ContractInv, NEW w \in Loops,
         Fire(w) \/ ClaimSelect(w) \/ Process(w) \/ FailRead(w)
  PROVE  /\ Agreement' /\ row' = row
         /\ HandColumn' = HandColumn \/ \E j \in Jobs : Contract!Take(j)
<1>t. TypeOK /\ HoldsOne /\ Agreement  BY DEF ContractInv, TypeInv
<1>1. row' = row /\ runs' = runs /\ loop[w].pc # "off"
  <2>1. CASE ClaimSelect(w)  BY <2>1, <1>t, ClaimSelectCases
  <2>2. CASE Fire(w) \/ Process(w) \/ FailRead(w)
    BY <2>2 DEF Fire, Process, FailRead
  <2>3. QED  BY <2>1, <2>2
<1>2. LoopStep(w)  BY DEF LoopStep
<1>3. \A i \in Jobs : RowAgrees(i)'  BY <1>1, <1>t DEF Agreement, RowAgrees
<1>4. \A v \in Loops \ {w} : LoopAgrees(v)'
  <2>1. \A v \in Loops \ {w} : loop'[v].pc = "off" /\ loop'[v].job = NoJob
    BY <1>1, <1>2, OthersOff, OthersEmpty, LoopStepIsLocal DEF ContractInv
  <2>2. QED  BY <2>1, IdleAgrees
<1>5. SUFFICES /\ LoopAgrees(w)'
               /\ \/ /\ loop'[w].job = loop[w].job
                     /\ loop[w].job \in Jobs
                          => (loop[w].pc # "claim" /\ loop'[w].pc # "claim")
                  \/ \E j \in Jobs : Contract!Take(j)
  <2>1. \A v \in Loops \ {w} : loop'[v] = loop[v]
    BY <1>2, LoopStepIsLocal DEF ContractInv
  <2>2. QED  BY <1>1, <1>3, <1>4, <2>1, HandStays DEF Agreement
<1>6. CASE Fire(w)
  <2>1. loop'[w].pc = "poll" /\ loop'[w].job = NoJob
    BY <1>6, <1>t DEF Fire, Idle, TypeOK
  <2>2. loop[w].job = NoJob
    BY <1>6, <1>t DEF Fire, Agreement, LoopAgrees, Busy
  <2>3. QED  BY <2>1, <2>2, IdleAgrees, QueueAssumption
<1>7. CASE ClaimSelect(w)
  <2>0. loop[w].pc = "poll" /\ loop[w].job = NoJob
    BY <1>7, <1>t, ClaimSelectCases DEF Agreement, LoopAgrees, Busy
  <2>1. CASE EndTick(w)
    BY <2>0, <2>1, <1>t, IterationIsLocal, IdleAgrees, QueueAssumption
  <2>2. CASE ~EndTick(w)
    <3>1. PICK j \in Jobs : /\ row[j].status = "pending" /\ row[j].attempts < MaxAttempts
                            /\ loop' = [loop EXCEPT ![w] = Claiming(w, j)]
      BY <1>7, <2>2, <1>t, ClaimSelectCases
    <3>2. loop[w] \in LoopType  BY <1>t DEF TypeOK
    <3>3. loop'[w].pc = "claim" /\ loop'[w].job = j /\ loop'[w].read = row[j].attempts
      BY <3>1, <3>2, <1>t DEF TypeOK, LoopType, Claiming
    <3>4. LoopAgrees(w)'  BY <1>1, <3>1, <3>3 DEF LoopAgrees, Busy
    <3>5. HandColumn[j] = "free" /\ HandBecomes(j, "taken")
      BY <1>1, <1>2, <2>0, <3>3, HandMoves, QueueAssumption DEF InHandOf
    <3>6. StatusColumn[j] = "pending" /\ AttemptsColumn[j] < MaxAttempts
      BY <3>1 DEF StatusColumn, AttemptsColumn
    <3>7. Contract!Take(j)
      BY <1>1, <3>5, <3>6
         DEF Contract!Take, HandColumn, HandBecomes, StatusColumn, AttemptsColumn
    <3>8. QED  BY <3>4, <3>7
  <2>3. QED  BY <2>1, <2>2
<1>8. CASE Process(w)
  <2>1. loop[w].pc = "process" /\ loop[w].job \in Jobs
    BY <1>8, <1>t DEF Process, HoldsOne, Busy
  <2>2. row[loop[w].job].status \in {"running", "cancelled"}
    BY <2>1, <1>t DEF Agreement, LoopAgrees
  <2>3. PICK out \in {"complete", "fail_read"} :
          loop' = [loop EXCEPT ![w].pc = out]
    BY <1>8, <2>1, <1>t DEF Process, Outcomes, TypeOK, RowType, AllKinds
  <2>4. loop'[w].pc = out /\ loop'[w].job = loop[w].job
    BY <2>3, <1>t DEF TypeOK, LoopType
  <2>5. QED  BY <1>1, <2>1, <2>2, <2>4 DEF LoopAgrees, Busy
<1>9. CASE FailRead(w)
  <2>1. PICK to \in {"fail_write", "refail_write"} :
          /\ (to = "fail_write") <=> (loop[w].pc = "fail_read")
          /\ loop[w].pc \in {"fail_read", "refail_read"}
          /\ \/ loop' = [loop EXCEPT ![w].pc = to,
                                     ![w].read = row[loop[w].job].attempts]
             \/ DbError
    BY <1>9 DEF FailRead
  <2>2. ~DbError  BY <1>t DEF DbError, OneLoopOnly, TypeOK
  <2>3. loop[w] \in LoopType  BY <1>t DEF TypeOK
  <2>4. /\ loop'[w].pc = to /\ loop'[w].job = loop[w].job
        /\ loop'[w].read = row[loop[w].job].attempts
    BY <2>1, <2>2, <2>3, <1>t DEF TypeOK, LoopType
  <2>5. QED  BY <1>1, <2>1, <2>4, <1>t DEF Agreement, LoopAgrees, Busy
<1>10. QED  BY <1>6, <1>7, <1>8, <1>9

(* A runner that is started holds no job; one that dies drops the one its  *)
(* loop had in hand.                                                       *)
LEMMA RunnerContract ==
  ASSUME OneLoopOnly, ContractInv, NEW r \in Runners, Start(r) \/ Crash(r)
  PROVE  /\ Agreement' /\ row' = row
         /\ HandColumn' = HandColumn \/ \E j \in Jobs : Contract!Drop(j)
<1>t. TypeOK /\ HoldsOne /\ Agreement  BY DEF ContractInv, TypeInv
<1>1. row' = row /\ runs' = runs  BY DEF Start, Crash
<1>2. \A w \in Loops :
        loop'[w] = loop[w] \/ (loop'[w].pc \in {"off", "armed"} /\ loop'[w].job = NoJob)
  <2>1. CASE Start(r)  BY <2>1, <1>t DEF Start, LoopsOf, Idle, TypeOK
  <2>2. CASE Crash(r)  BY <2>2, <1>t DEF Crash, Idle, TypeOK
  <2>3. QED  BY <2>1, <2>2
<1>3. \A w \in Loops : LoopAgrees(w)'
  BY <1>1, <1>2, <1>t DEF Agreement, LoopAgrees
<1>4. Agreement'  BY <1>1, <1>3, <1>t DEF Agreement, RowAgrees
<1>5. SUFFICES HandColumn' = HandColumn \/ \E j \in Jobs : Contract!Drop(j)
  BY <1>1, <1>4
<1>6. CASE \A w \in Loops : loop[w].job = NoJob
  BY <1>2, <1>6, HandStays, QueueAssumption
<1>7. CASE \E w \in Loops : loop[w].job # NoJob
  <2>1. PICK w \in Loops : loop[w].job # NoJob  BY <1>7
  <2>2. PICK job \in Jobs : loop[w].job = job  BY <2>1, <1>t DEF TypeOK, LoopType
  <2>3. loop[w].pc \in Busy  BY <2>1, <1>t DEF Agreement, LoopAgrees
  <2>4. loop[w].pc # "off" /\ \A v \in Loops \ {w} : loop[v].job = NoJob
    BY <2>3, OthersEmpty DEF Busy
  <2>5. RunnerOf[w] = r  BY QueueAssumption DEF OneLoopOnly
  <2>6. ~Start(r)
    BY <2>4, <2>5 DEF Start, ContractInv, OneChain, LoopsOf
  <2>7. \A v \in Loops : loop'[v].job = NoJob
    BY <1>2, <2>4, <2>5, <2>6 DEF Crash, Idle
  <2>8. \A j \in Jobs : Hand(j) = InHandOf(loop[w], j)  BY <2>4, HandOfOne
  <2>9. \A j \in Jobs : Hand(j)' = IF j = job THEN "free" ELSE Hand(j)
    BY <2>2, <2>7, <2>8, HandOfOneNext, QueueAssumption DEF InHandOf
  <2>10. HandColumn[job] # "free"  BY <2>2, <2>8 DEF HandColumn, InHandOf
  <2>11. HandBecomes(job, "free")
    <3>1. [HandColumn EXCEPT ![job] = "free"]
            = [j \in Jobs |-> IF j = job THEN "free" ELSE Hand(j)]
      BY DEF HandColumn
    <3>2. HandColumn' = [j \in Jobs |-> IF j = job THEN "free" ELSE Hand(j)]
      BY <2>9 DEF HandColumn
    <3>3. QED  BY <3>1, <3>2 DEF HandBecomes
  <2>12. Contract!Drop(job)
    BY <1>1, <2>10, <2>11 DEF Contract!Drop, HandColumn, HandBecomes
  <2>13. QED  BY <2>12
<1>8. QED  BY <1>6, <1>7

-----------------------------------------------------------------------------
(* Each step keeps the agreement and is a step of the contract, or one it  *)
(* does not see.                                                           *)
THEOREM StepContract ==
  OneLoopOnly /\ ContractInv /\ [Next]_vars
    => ContractInv' /\ [Contract!Next]_(Contract!vars)
<1> SUFFICES ASSUME OneLoopOnly, ContractInv, [Next]_vars
             PROVE  Agreement' /\ [Contract!Next]_(Contract!vars)
  BY StepType, StepChain DEF OneLoopOnly, ContractInv
<1>t. TypeOK /\ HoldsOne /\ Agreement  BY DEF ContractInv, TypeInv
<1>v. row' = row /\ HandColumn' = HandColumn => UNCHANGED Contract!vars
  BY DEF Contract!vars, HandColumn
<1>1. CASE row' = row /\ loop' = loop /\ runs' = runs
  <2>1. Agreement'  BY <1>1, <1>t DEF Agreement, RowAgrees, LoopAgrees
  <2>2. HandColumn' = HandColumn  BY <1>1, HandStays
  <2>3. QED  BY <1>1, <1>v, <2>1, <2>2
<1>2. ASSUME NEW j \in Jobs, NEW k \in Kinds, NEW p \in Priorities,
             NEW at \in 0..MaxNow, EnqueueJob(j, k, p, at)
      PROVE  Agreement' /\ [Contract!Next]_(Contract!vars)
  BY <1>2, EnqueueContract DEF Contract!Next
<1>3. ASSUME NEW j \in Jobs, CancelJob(j)
      PROVE  Agreement' /\ [Contract!Next]_(Contract!vars)
  BY <1>3, CancelContract DEF Contract!Next
<1>4. ASSUME NEW r \in Runners, Start(r) \/ Crash(r)
      PROVE  Agreement' /\ [Contract!Next]_(Contract!vars)
  BY <1>4, <1>v, RunnerContract DEF Contract!Next
<1>5. ASSUME NEW w \in Loops, LoopStep(w)
      PROVE  Agreement' /\ [Contract!Next]_(Contract!vars)
  <2>1. CASE Fire(w) \/ ClaimSelect(w) \/ Process(w) \/ FailRead(w)
    BY <2>1, <1>v, ReadContract DEF Contract!Next
  <2>2. CASE ClaimUpdate(w) \/ CompleteJob(w) \/ FailWrite(w) \/ RefailWrite(w)
    <3>1. loop[w].job \in Jobs
      BY <2>2, <1>t
         DEF ClaimUpdate, CompleteJob, FailWrite, RefailWrite, HoldsOne, Busy
    <3>2. PICK job \in Jobs : loop[w].job = job  BY <3>1
    <3>3. CASE ClaimUpdate(w)  BY <3>2, <3>3, ClaimContract DEF Contract!Next
    <3>4. CASE CompleteJob(w)  BY <3>2, <3>4, CompleteContract DEF Contract!Next
    <3>5. CASE FailWrite(w)  BY <3>2, <3>5, FailContract DEF Contract!Next
    <3>6. CASE RefailWrite(w)  BY <3>2, <3>6, RefailContract DEF Contract!Next
    <3>7. QED  BY <2>2, <3>3, <3>4, <3>5, <3>6
  <2>3. QED  BY <1>5, <2>1, <2>2 DEF LoopStep
<1>6. QED
  BY <1>1, <1>2, <1>3, <1>4, <1>5
     DEF Next, Environment, Tick, Stop, OneLoopOnly, vars

(* One runner process implements the contract of JobContract: each start   *)
(* counted, one execution at a time, given up after max_attempts, and a    *)
(* cancellation overruled only by the loop that had the job in hand.       *)
THEOREM Implements == ASSUME OneLoopOnly PROVE Spec => ImplementsContract
<1>1. ContractInv /\ [Next]_vars => ContractInv' /\ [Contract!Next]_(Contract!vars)
  BY StepContract
<1>2. Init => Contract!Init
  <2>1. Init => \A j \in Jobs : Hand(j) = "free"
    BY QueueAssumption DEF Init, Hand, HeldBy, Idle
  <2>2. QED  BY <2>1 DEF Init, Contract!Init
<1>3. QED
  BY <1>1, <1>2, InitContract, PTL DEF Spec, ImplementsContract, Contract!Spec

(* The attempts column counts the executions.                              *)
THEOREM AttemptsAreCounted == ASSUME OneLoopOnly PROVE Spec => []AttemptsCountRuns
<1>1. ContractInv => AttemptsCountRuns
  BY DEF ContractInv, Agreement, RowAgrees, AttemptsCountRuns
<1>2. ContractInv /\ [Next]_vars => ContractInv'  BY StepContract
<1>3. QED  BY <1>1, <1>2, InitContract, PTL DEF Spec

(* No pending row with its attempts used up blocks the head of the queue.  *)
THEOREM HeadIsClaimable == ASSUME OneLoopOnly PROVE Spec => []PendingIsClaimable
<1>1. ContractInv => PendingIsClaimable
  BY DEF ContractInv, Agreement, RowAgrees, PendingIsClaimable
<1>2. ContractInv /\ [Next]_vars => ContractInv'  BY StepContract
<1>3. QED  BY <1>1, <1>2, InitContract, PTL DEF Spec
=============================================================================
