--------------------------- MODULE SiteRunProofs ---------------------------
(***************************************************************************)
(* Theorems about runs on sites: JobOrchestrator, for a call of any size,  *)
(* any width of a batch and every score table; and LiveRun, for any number *)
(* of issues, pages and runs.  The two have no variable in common.         *)
(***************************************************************************)
EXTENDS JobOrchestrator, LiveRun, FiniteSetTheorems, TLAPS

-----------------------------------------------------------------------------
(* JobOrchestrator.                                                        *)

(* What the proofs need to know of the constants.                          *)
LEMMA Sizes == Size \in Nat \ {0} /\ MaxConcurrent \in Nat \ {0}
  BY OrchestratorAssumption

(* A step of one job is one from the state it is in.                       *)
LEMMA JobSteps ==
  ASSUME NEW o \in Orders, MarkRunning(o) \/ RunJob(o) \/ SaveResult(o)
  PROVE  /\ job[o] \in {"marking", "running", "saving"}
         /\ \E s \in {"running", "saving", "settled"} : job' = [job EXCEPT ![o] = s]
         /\ UNCHANGED <<first, inserted>>
  BY DEF MarkRunning, RunJob, SaveResult, Proceed

(* The states of every job and of the call.                                *)
THEOREM OrchTyped == OrchSpec => []OrchTypeOK
<1>1. OrchInit => OrchTypeOK
  BY Sizes DEF OrchInit, OrchTypeOK, JobStates, NotCalled, Over, Inserting
<1>2. OrchTypeOK /\ [OrchNext]_orchVars => OrchTypeOK'
  <2> SUFFICES ASSUME OrchTypeOK, [OrchNext]_orchVars PROVE OrchTypeOK'
    OBVIOUS
  <2> USE Sizes DEF OrchTypeOK
  <2>1. CASE StartCall
    <3>1. first' \in {NotCalled, Over, Inserting} \cup Orders  BY <2>1 DEF StartCall
    <3>2. QED  BY <2>1, <3>1 DEF StartCall
  <2>2. CASE InsertJob  BY <2>2 DEF InsertJob
  <2>3. ASSUME NEW at \in Orders, StartBatch(at) PROVE OrchTypeOK'
    BY <2>3 DEF StartBatch, JobStates
  <2>4. CASE FirstBatch  BY <2>3, <2>4 DEF FirstBatch, Orders
  <2>5. CASE NextBatch
    <3>1. CASE first + MaxConcurrent \in Orders  BY <2>3, <2>5, <3>1 DEF NextBatch
    <3>2. CASE first + MaxConcurrent \notin Orders  BY <2>5, <3>2 DEF NextBatch
    <3>3. QED  BY <3>1, <3>2
  <2>6. ASSUME NEW o \in Orders, MarkRunning(o) \/ RunJob(o) \/ SaveResult(o)
        PROVE  OrchTypeOK'
    BY <2>6, JobSteps DEF JobStates
  <2>7. CASE UNCHANGED orchVars  BY <2>7 DEF orchVars
  <2>8. QED
    BY <2>1, <2>2, <2>4, <2>5, <2>6, <2>7 DEF OrchNext, OrchStep
<1>3. QED  BY <1>1, <1>2, PTL DEF OrchSpec
-----------------------------------------------------------------------------
(* Batches.                                                                *)

(* Where the call is says how far each job has come: jobs of earlier       *)
(* batches are settled, those of later ones have not begun.                *)
JobsInOrder ==
  /\ first \in {NotCalled, Inserting} => \A o \in Orders : job[o] = "queued"
  /\ first \in Orders =>
       \A o \in Orders : /\ o < first => Settled(o)
                         /\ o >= first + MaxConcurrent => job[o] = "queued"
                         /\ o \in Together => job[o] # "queued"
  /\ first = Over => \A o \in Orders : Settled(o)

(* Each step keeps the order of the batches.                               *)
THEOREM Ordered == OrchSpec => []JobsInOrder
<1>a. /\ \A o \in Orders : o \in Nat /\ o # 0
      /\ {NotCalled, Over, Inserting} \cap Orders = {}
      /\ NotCalled # Over /\ NotCalled # Inserting /\ Over # Inserting
  BY Sizes DEF NotCalled, Over, Inserting, Orders
<1>1. OrchInit => JobsInOrder  BY <1>a DEF OrchInit, JobsInOrder
<1>2. OrchTypeOK /\ JobsInOrder /\ [OrchNext]_orchVars => JobsInOrder'
  <2> SUFFICES ASSUME OrchTypeOK, JobsInOrder, [OrchNext]_orchVars PROVE JobsInOrder'
    OBVIOUS
  <2>t. first \in {NotCalled, Over, Inserting} \cup Orders /\ job \in [Orders -> JobStates]
    BY DEF OrchTypeOK
  <2>1. CASE StartCall  BY <2>1, <1>a DEF StartCall, JobsInOrder
  <2>2. CASE InsertJob  BY <2>2, <1>a DEF InsertJob, JobsInOrder
  <2>3. CASE FirstBatch
    <3>1. first' = 1 /\ 1 \in Orders  BY <2>3, Sizes DEF FirstBatch, StartBatch, Orders
    <3>2. \A o \in Orders : job[o] = "queued"  BY <2>3 DEF FirstBatch, JobsInOrder
    <3>3. \A o \in Orders : job'[o] = IF o < 1 + MaxConcurrent THEN "marking" ELSE "queued"
      BY <2>3, <3>2, <1>a DEF FirstBatch, StartBatch
    <3>4. QED  BY <3>1, <3>3, <1>a, Sizes DEF JobsInOrder, Together
  <2>4. CASE NextBatch
    <3>1. first \in Orders  BY <2>4, <2>t DEF NextBatch, NotCalled, Over, Inserting
    <3>2. \A o \in Orders : o < first + MaxConcurrent => Settled(o)
      BY <2>4, <3>1, <1>a, Sizes DEF NextBatch, JobsInOrder, Together
    <3>3. CASE first + MaxConcurrent \in Orders
      <4>1. PICK n \in Orders : first' = n /\ n = first + MaxConcurrent
        BY <2>4, <3>3 DEF NextBatch, StartBatch
      <4>2. \A o \in Orders : job'[o] =
              IF n <= o /\ o < n + MaxConcurrent THEN "marking" ELSE job[o]
        BY <2>4, <3>3, <4>1 DEF NextBatch, StartBatch
      <4>3. n \in Nat /\ MaxConcurrent \in Nat  BY <1>a, Sizes
      <4>4. ASSUME NEW o \in Orders
            PROVE  /\ o < n => Settled(o)'
                   /\ o >= n + MaxConcurrent => job'[o] = "queued"
                   /\ o \in Together' => job'[o] # "queued"
        <5>1. o \in Nat  BY <1>a
        <5>2. job'[o] = IF n <= o /\ o < n + MaxConcurrent THEN "marking" ELSE job[o]
          BY <4>2
        <5>3. CASE o < n
          <6>1. Settled(o)  BY <3>2, <4>1, <5>3
          <6>2. job'[o] = job[o]  BY <4>3, <5>1, <5>2, <5>3
          <6>3. ~(o >= n + MaxConcurrent) /\ o \notin Together'
            BY <4>1, <4>3, <5>1, <5>3 DEF Together
          <6>4. QED  BY <6>1, <6>2, <6>3 DEF Settled
        <5>4. CASE ~(o < n)
          <6>1. o >= first + MaxConcurrent  BY <4>1, <4>3, <5>1, <5>4
          <6>2. job[o] = "queued"  BY <3>1, <6>1 DEF JobsInOrder
          <6>3. o >= n + MaxConcurrent => job'[o] = "queued"
            BY <4>3, <5>1, <5>2, <6>2
          <6>4. o \in Together' => job'[o] = "marking"
            BY <4>1, <4>2 DEF Together
          <6>5. QED  BY <5>4, <6>3, <6>4
        <5>5. QED  BY <5>3, <5>4
      <4>5. QED  BY <4>1, <4>4, <1>a DEF JobsInOrder
    <3>4. CASE first + MaxConcurrent \notin Orders
      <4>1. first' = Over /\ UNCHANGED job  BY <2>4, <3>4 DEF NextBatch
      <4>2. \A o \in Orders : o < first + MaxConcurrent
        BY <3>1, <3>4, Sizes DEF Orders
      <4>3. QED  BY <3>2, <4>1, <4>2, <1>a DEF JobsInOrder, Settled
    <3>5. QED  BY <3>3, <3>4
  <2>5. ASSUME NEW o \in Orders, MarkRunning(o) \/ RunJob(o) \/ SaveResult(o)
        PROVE  JobsInOrder'
    <3>1. /\ job[o] # "queued" /\ ~Settled(o)
          /\ \E s \in JobStates \ {"queued"} : job' = [job EXCEPT ![o] = s]
          /\ UNCHANGED first
      BY <2>5, JobSteps DEF Settled, JobStates
    <3>2. PICK s \in JobStates \ {"queued"} : job' = [job EXCEPT ![o] = s]  BY <3>1
    <3>3. \A x \in Orders : /\ x # o => job'[x] = job[x]
                            /\ job'[x] = "queued" <=> job[x] = "queued"
      BY <2>t, <3>1, <3>2
    <3>4. \A x \in Orders : Settled(x) => Settled(x)'
      BY <3>1, <3>3 DEF Settled
    <3>5. Together' = Together  BY <3>1 DEF Together
    <3>6. QED  BY <3>1, <3>3, <3>4, <3>5 DEF JobsInOrder
  <2>6. CASE UNCHANGED orchVars  BY <2>6 DEF orchVars, JobsInOrder, Settled, Together
  <2>7. QED
    BY <2>1, <2>2, <2>3, <2>4, <2>5, <2>6 DEF OrchNext, OrchStep
<1>3. QED  BY <1>1, <1>2, OrchTyped, PTL DEF OrchSpec

(* Never more than MaxConcurrent jobs of a call are under way: the active  *)
(* ones are all of the batch the call is at.                               *)
THEOREM BatchesBounded == OrchSpec => []BatchBound
<1>1. OrchTypeOK /\ JobsInOrder => BatchBound
  <2> SUFFICES ASSUME OrchTypeOK, JobsInOrder PROVE Cardinality(Active) <= MaxConcurrent
    BY DEF BatchBound
  <2>1. CASE first \notin Orders
    <3>1. Active = {}  BY <2>1 DEF OrchTypeOK, JobsInOrder, Active, Settled
    <3>2. QED  BY <3>1, FS_EmptySet, Sizes
  <2>2. CASE first \in Orders
    <3> DEFINE Batch == first .. (first + MaxConcurrent - 1)
    <3>a. first \in Int  BY <2>2 DEF Orders
    <3>1. Active \subseteq Batch
      <4>1. ASSUME NEW o \in Active PROVE o \in Batch
        <5>1. o \in Orders /\ job[o] # "queued" /\ ~Settled(o)
          BY DEF Active, Settled
        <5>2. ~(o < first) /\ ~(o >= first + MaxConcurrent)
          BY <2>2, <5>1 DEF JobsInOrder
        <5>3. QED  BY <3>a, <5>1, <5>2, Sizes DEF Orders
      <4>2. QED  BY <4>1
    <3>2. IsFiniteSet(Batch) /\ Cardinality(Batch) = MaxConcurrent
      <4>1. /\ first + MaxConcurrent - 1 \in Int
            /\ ~(first > first + MaxConcurrent - 1)
            /\ (first + MaxConcurrent - 1) - first + 1 = MaxConcurrent
        BY <3>a, Sizes
      <4>2. QED  BY <3>a, <4>1, FS_Interval
    <3>3. IsFiniteSet(Active) /\ Cardinality(Active) <= Cardinality(Batch)
      BY <3>1, <3>2, FS_Subset
    <3>4. QED  BY <3>2, <3>3
  <2>3. QED  BY <2>1, <2>2
<1>2. QED  BY <1>1, Ordered, OrchTyped, PTL
-----------------------------------------------------------------------------
(* The bonus for waiting stays between nothing and its cap.                *)
LEMMA BonusBounded == \A m \in Nat : AgeBonus(m) \in 0..AgeCap
<1>1. AgeCap \in Nat  BY OrchestratorAssumption
<1>2. \A m \in Nat : (m \div 10) \in Nat  OBVIOUS
<1>3. \A m \in Nat : (m \div 10) * 10 \in Nat  BY <1>2
<1>4. QED  BY <1>1, <1>3 DEF AgeBonus, Min2

(* A job of a higher priority goes before one of a lower, however long     *)
(* that one has waited and however ill its site is                         *)
(* (priority_queue.ts): waiting never starves out an urgent job.           *)
THEOREM PriorityBands ==
  ASSUME NEW p \in Priorities, NEW q \in Priorities, Base[p] > Base[q],
         NEW m \in Nat, NEW n \in Nat, NEW x \in BOOLEAN, NEW y \in BOOLEAN
  PROVE  Score(p, m, x) > Score(q, n, y)
<1>1. /\ AgeBonus(m) \in 0..AgeCap /\ AgeBonus(n) \in 0..AgeCap
      /\ AgeCap \in Nat /\ HealthBonus \in Nat
      /\ Base[p] \in Nat /\ Base[q] \in Nat
      /\ Base[p] > Base[q] + AgeCap + HealthBonus
  BY BonusBounded, OrchestratorAssumption
<1>2. QED  BY <1>1 DEF Score
-----------------------------------------------------------------------------
(* LiveRun.                                                                *)

(* Two attempts are the same when they are of one issue in one run.        *)
LEMMA SameAttempt ==
  ASSUME NEW j \in Attempts, NEW k \in Attempts, j[1] = k[1], j[2] = k[2]
  PROVE  j = k
  BY DEF Attempts

(* The attempt at the issue in hand is one.                                *)
LEMMA AttemptOf ==
  ASSUME NEW k \in Attempts
  PROVE  k[1] \in Issues /\ k[2] \in 1..MaxLive /\ k = <<k[1], k[2]>>
  BY DEF Attempts

(* Some step of a fix: it goes on to the next thing it does, or returns.   *)
GoesOn(k, to) ==
  /\ fn' = [fn EXCEPT ![k].at = to]
  /\ UNCHANGED <<run, attempt>>

LEMMA FnSteps ==
  ASSUME NEW k \in Attempts, FnStep(k)
  PROVE  /\ fn[k].at # "off" /\ UNCHANGED dryruns
         /\ \/ GoesOn(k, "sandbox")
            \/ GoesOn(k, "deploy") /\ ~fn[k].dry
            \/ \E result \in Results \ {"none", "timed_out"} : Return(k, result)
  BY DEF FnStep, ApplyFix, SandboxValidate, DeployFix, GoesOn, Results

(* The state of the run and its functions.                                 *)
THEOREM LiveTyped == LiveSpec => []LiveTypeOK
<1> USE LiveAssumption
<1>1. LiveInit => LiveTypeOK
  BY DEF LiveInit, LiveTypeOK, Phases, Results, FnType, Off
<1>2. LiveTypeOK /\ [LiveNext]_liveVars => LiveTypeOK'
  <2> SUFFICES ASSUME LiveTypeOK, [LiveNext]_liveVars PROVE LiveTypeOK'
    OBVIOUS
  <2>r. run \in [no : 0..MaxLive, phase : Phases, dry : BOOLEAN,
                 todo : SUBSET Issues, hand : Issues \cup {NoIssue}]
    BY DEF LiveTypeOK
  <2>o. Off \in FnType  BY DEF Off, FnType
  <2>1. ASSUME NEW dry \in BOOLEAN, StartLiveRun(dry) PROVE LiveTypeOK'
    <3>1. PICK phase \in {"failed", "crawling"} :
            run' = [no |-> run.no + 1, phase |-> phase, dry |-> dry, todo |-> {},
                    hand |-> NoIssue]
      BY <2>1 DEF StartLiveRun
    <3>2. run.no + 1 \in 1..MaxLive /\ phase \in Phases
      BY <2>1, <2>r DEF StartLiveRun, Phases
    <3>3. dryruns' \subseteq 1..MaxLive
      BY <2>1, <3>2 DEF StartLiveRun, LiveTypeOK
    <3>4. run' \in [no : 0..MaxLive, phase : Phases, dry : BOOLEAN,
                    todo : SUBSET Issues, hand : Issues \cup {NoIssue}]
      BY <3>1, <3>2
    <3>5. QED  BY <2>1, <3>3, <3>4 DEF StartLiveRun, LiveTypeOK
  <2>2. CASE CrawlAndDetect
    <3>1. CASE run' = [run EXCEPT !.phase = "failed"]
      <4>1. "failed" \in Phases  BY DEF Phases
      <4>2. QED  BY <2>2, <2>r, <3>1, <4>1 DEF CrawlAndDetect, LiveTypeOK
    <3>2. ASSUME NEW todo \in SUBSET Issues,
                 run' = [run EXCEPT !.phase = "applying", !.todo = todo]
          PROVE  LiveTypeOK'
      <4>1. "applying" \in Phases  BY DEF Phases
      <4>2. QED  BY <2>2, <2>r, <3>2, <4>1 DEF CrawlAndDetect, LiveTypeOK
    <3>3. CASE \E found \in SUBSET Pages :
            run' = [run EXCEPT !.phase = "applying",
                               !.todo = {i \in Issues : PageOf[i] \in found}]
      <4>1. PICK found \in SUBSET Pages :
              run' = [run EXCEPT !.phase = "applying",
                                 !.todo = {i \in Issues : PageOf[i] \in found}]
        BY <3>3
      <4>2. {i \in Issues : PageOf[i] \in found} \in SUBSET Issues  OBVIOUS
      <4>3. QED  BY <3>2, <4>1, <4>2
    <3>4. QED  BY <2>2, <3>1, <3>3 DEF CrawlAndDetect
  <2>3. ASSUME NEW i \in Issues, FetchPage(i) PROVE LiveTypeOK'
    <3>1. run' \in [no : 0..MaxLive, phase : Phases, dry : BOOLEAN,
                    todo : SUBSET Issues, hand : Issues \cup {NoIssue}]
      <4>1. CASE run' = [run EXCEPT !.hand = i, !.todo = @ \ {i}]
        <5>1. run.todo \ {i} \in SUBSET Issues  BY <2>r
        <5>2. QED  BY <2>r, <4>1, <5>1
      <4>2. CASE run' = [run EXCEPT !.todo = {}]  BY <2>r, <4>2
      <4>3. QED  BY <2>3, <4>1, <4>2 DEF FetchPage
    <3>2. [at |-> "apply", dry |-> run.dry] \in FnType
      BY <2>r DEF FnType
    <3>3. fn' \in [Attempts -> FnType]
      BY <2>3, <3>2 DEF FetchPage, LiveTypeOK
    <3>4. QED  BY <2>3, <3>1, <3>3 DEF FetchPage, LiveTypeOK
  <2>4. ASSUME NEW k \in Attempts, FnStep(k) PROVE LiveTypeOK'
    <3>f. fn[k] \in FnType  BY DEF LiveTypeOK
    <3>d. UNCHANGED dryruns  BY <2>4, FnSteps
    <3>1. ASSUME NEW to \in {"sandbox", "deploy"}, GoesOn(k, to) PROVE LiveTypeOK'
      <4>1. fn' \in [Attempts -> FnType]
        BY <3>1, <3>f DEF GoesOn, LiveTypeOK, FnType
      <4>2. QED  BY <3>1, <3>d, <4>1 DEF GoesOn, LiveTypeOK
    <3>2. ASSUME NEW result \in Results, Return(k, result) PROVE LiveTypeOK'
      <4>1. fn' \in [Attempts -> FnType]  BY <3>2, <2>o DEF Return, LiveTypeOK
      <4>2. attempt' \in [Attempts -> Results]  BY <3>2 DEF Return, LiveTypeOK
      <4>3. run' \in [no : 0..MaxLive, phase : Phases, dry : BOOLEAN,
                      todo : SUBSET Issues, hand : Issues \cup {NoIssue}]
        BY <3>2, <2>r DEF Return
      <4>4. QED  BY <3>d, <4>1, <4>2, <4>3 DEF LiveTypeOK
    <3>3. QED  BY <2>4, <3>1, <3>2, FnSteps
  <2>5. ASSUME NEW k \in Attempts, Timeout(k) PROVE LiveTypeOK'
    <3>1. "timed_out" \in Results  BY DEF Results
    <3>2. QED  BY <2>5, <2>r, <3>1 DEF Timeout, LiveTypeOK
  <2>6. CASE CompleteRun  BY <2>6, <2>r DEF CompleteRun, LiveTypeOK, Phases
  <2>7. CASE UNCHANGED liveVars  BY <2>7 DEF liveVars, LiveTypeOK
  <2>8. QED
    BY <2>1, <2>2, <2>3, <2>4, <2>5, <2>6, <2>7 DEF LiveNext
<1>3. QED  BY <1>1, <1>2, PTL DEF LiveSpec
-----------------------------------------------------------------------------
(* Fixes that outlive their time limit.                                    *)

(* An attempt the run has yet to come to.                                  *)
Ahead(k) ==
  k[2] > run.no \/ (k[2] = run.no /\ (run.phase = "crawling" \/ k[1] \in run.todo))

(* An issue is in hand only while fixes are applied, and is not left to    *)
(* do; an attempt ahead has left no trace; the one in hand has no result   *)
(* yet and its function is at work; one nobody waits for is reported as    *)
(* timed out.                                                              *)
HandInv ==
  /\ run.hand # NoIssue => run.phase = "applying" /\ run.hand \notin run.todo
  /\ \A k \in Attempts :
       /\ Ahead(k) => attempt[k] = "none" /\ fn[k].at = "off"
       /\ InHand(k) => attempt[k] = "none" /\ fn[k].at # "off"
       /\ fn[k].at # "off" /\ ~InHand(k) => attempt[k] = "timed_out"

(* A function knows from its start whether its run is one that deploys,    *)
(* and goes by that; it does not ask the run that is under way.            *)
DryInv ==
  /\ dryruns \subseteq 1..run.no
  /\ run.no \in dryruns <=> run.dry
  /\ \A k \in Attempts :
       /\ fn[k].at # "off" => (fn[k].dry <=> k[2] \in dryruns)
       /\ fn[k].at = "deploy" => ~fn[k].dry

LiveInv == LiveTypeOK /\ HandInv /\ DryInv

(* A run that only moves on by itself disturbs no attempt.                 *)
LEMMA RunStep ==
  ASSUME LiveInv, UNCHANGED <<attempt, fn>>,
         run.hand = NoIssue, run'.hand = NoIssue,
         \A k \in Attempts : Ahead(k)' => Ahead(k)
  PROVE  HandInv'
<1>1. \A k \in Attempts : ~InHand(k) /\ ~InHand(k)'
  BY AttemptOf, LiveAssumption DEF InHand
<1>2. QED  BY <1>1 DEF LiveInv, HandInv

(* What takes an attempt out of hand and gives it its result.              *)
LEMMA HandedBack ==
  ASSUME LiveInv, NEW k \in Attempts, InHand(k), NEW result,
         attempt' = [attempt EXCEPT ![k] = result],
         run' = [run EXCEPT !.hand = NoIssue],
         UNCHANGED fn \/ fn' = [fn EXCEPT ![k] = Off],
         fn'[k].at # "off" => result = "timed_out"
  PROVE  HandInv'
<1> USE DEF LiveInv
<1>1. \A j \in Attempts : j # k => attempt'[j] = attempt[j] /\ fn'[j] = fn[j]
  BY DEF LiveTypeOK
<1>2. attempt'[k] = result  BY DEF LiveTypeOK
<1>3. run'.hand = NoIssue /\ \A j \in Attempts : ~InHand(j)'
  BY AttemptOf, LiveAssumption DEF InHand, LiveTypeOK
<1>4. \A j \in Attempts : j # k => ~InHand(j)
  BY SameAttempt DEF InHand
<1>5. ~Ahead(k)  BY DEF HandInv
<1>6. \A j \in Attempts : Ahead(j)' => Ahead(j)
  BY DEF Ahead, LiveTypeOK
<1>7. QED  BY <1>1, <1>2, <1>3, <1>4, <1>5, <1>6 DEF HandInv

(* The hand is kept by every step.                                         *)
LEMMA HandKept == LiveInv /\ [LiveNext]_liveVars => HandInv'
<1> SUFFICES ASSUME LiveInv, [LiveNext]_liveVars PROVE HandInv'
  OBVIOUS
<1> USE LiveAssumption
<1>t. /\ run \in [no : 0..MaxLive, phase : Phases, dry : BOOLEAN,
                  todo : SUBSET Issues, hand : Issues \cup {NoIssue}]
      /\ fn \in [Attempts -> FnType] /\ attempt \in [Attempts -> Results]
      /\ \A k \in Attempts : k[1] \in Issues /\ k[2] \in Nat
  BY AttemptOf DEF LiveInv, LiveTypeOK
<1>1. ASSUME NEW dry \in BOOLEAN, StartLiveRun(dry) PROVE HandInv'
  <2>1. /\ run'.no = run.no + 1 /\ run'.hand = NoIssue /\ run'.todo = {}
        /\ UNCHANGED <<attempt, fn>>
    BY <1>1 DEF StartLiveRun
  <2>2. run.hand = NoIssue  BY <1>1 DEF StartLiveRun, LiveInv, HandInv
  <2>3. \A k \in Attempts : Ahead(k)' => Ahead(k)
    BY <1>t, <2>1 DEF Ahead
  <2>4. QED  BY <2>1, <2>2, <2>3, RunStep
<1>2. CASE CrawlAndDetect
  <2>1. /\ run'.no = run.no /\ run'.hand = run.hand /\ run.phase = "crawling"
        /\ run'.phase # "crawling" /\ UNCHANGED <<attempt, fn>>
    BY <1>2, <1>t DEF CrawlAndDetect
  <2>2. run.hand = NoIssue  BY <2>1 DEF LiveInv, HandInv
  <2>3. \A k \in Attempts : Ahead(k)' => Ahead(k)
    BY <2>1 DEF Ahead
  <2>4. QED  BY <2>1, <2>2, <2>3, RunStep
<1>3. ASSUME NEW i \in Issues, FetchPage(i) PROVE HandInv'
  <2>1. run.phase = "applying" /\ run.hand = NoIssue /\ i \in run.todo
        /\ UNCHANGED attempt
    BY <1>3 DEF FetchPage
  <2>2. CASE run' = [run EXCEPT !.todo = {}] /\ UNCHANGED fn
    <3>1. \A k \in Attempts : Ahead(k)' => Ahead(k)
      BY <1>t, <2>1, <2>2 DEF Ahead
    <3>2. run'.hand = NoIssue  BY <1>t, <2>1, <2>2
    <3>3. QED  BY <2>1, <2>2, <3>1, <3>2, RunStep
  <2>3. CASE /\ run' = [run EXCEPT !.hand = i, !.todo = @ \ {i}]
             /\ fn' = [fn EXCEPT ![<<i, run.no>>] = [at |-> "apply", dry |-> run.dry]]
    <3>1. /\ run'.no = run.no /\ run'.phase = "applying"
          /\ run'.hand = i /\ run'.todo = run.todo \ {i}
      BY <1>t, <2>1, <2>3
    <3>2. \A k \in Attempts : ~InHand(k)  BY <1>t, <2>1 DEF InHand
    <3>3. \A k \in Attempts : k = <<i, run.no>> <=> InHand(k)'
      BY <3>1, AttemptOf DEF InHand
    <3>4. \A k \in Attempts : k # <<i, run.no>> => fn'[k] = fn[k]
      BY <1>t, <2>3
    <3>5. \A k \in Attempts : k = <<i, run.no>> => fn'[k].at = "apply" /\ Ahead(k)
      BY <1>t, <2>1, <2>3 DEF Ahead
    <3>6. ASSUME NEW k \in Attempts, Ahead(k)'
          PROVE  Ahead(k) /\ k # <<i, run.no>>
      <4>1. Ahead(k)  BY <2>1, <3>1, <3>6 DEF Ahead
      <4>2. CASE k = <<i, run.no>>
        <5>1. k[1] = i /\ k[2] = run.no  BY <4>2
        <5>2. QED  BY <1>t, <3>1, <3>6, <5>1 DEF Ahead
      <4>3. QED  BY <4>1, <4>2
    <3>7. ASSUME NEW k \in Attempts
          PROVE  /\ Ahead(k)' => attempt'[k] = "none" /\ fn'[k].at = "off"
                 /\ InHand(k)' => attempt'[k] = "none" /\ fn'[k].at # "off"
                 /\ fn'[k].at # "off" /\ ~InHand(k)' => attempt'[k] = "timed_out"
      BY <2>1, <3>2, <3>3, <3>4, <3>5, <3>6 DEF LiveInv, HandInv
    <3>8. QED  BY <3>1, <3>7 DEF HandInv
  <2>4. QED  BY <1>3, <2>2, <2>3 DEF FetchPage
<1>4. ASSUME NEW k \in Attempts, FnStep(k) PROVE HandInv'
  <2>1. fn[k].at # "off"  BY <1>4, FnSteps
  <2>2. ASSUME NEW to \in {"sandbox", "deploy"}, GoesOn(k, to) PROVE HandInv'
    <3>1. UNCHANGED <<run, attempt>>
          /\ \A j \in Attempts : fn'[j].at = "off" <=> fn[j].at = "off"
      BY <1>t, <2>1, <2>2 DEF GoesOn, FnType
    <3>2. QED  BY <3>1 DEF LiveInv, HandInv, Ahead, InHand
  <2>3. ASSUME NEW result \in Results, Return(k, result) PROVE HandInv'
    <3>1. fn' = [fn EXCEPT ![k] = Off] /\ fn'[k].at = "off"
      BY <1>t, <2>3 DEF Return, Off
    <3>2. CASE InHand(k)  BY <2>3, <3>1, <3>2, HandedBack DEF Return
    <3>3. CASE ~InHand(k)
      <4>1. UNCHANGED <<run, attempt>>  BY <2>3, <3>3 DEF Return
      <4>2. \A j \in Attempts : fn'[j].at # "off" => fn[j].at # "off"
        BY <1>t, <3>1
      <4>3. \A j \in Attempts : j # k => fn'[j] = fn[j]  BY <1>t, <3>1
      <4>4. QED  BY <3>3, <4>1, <4>2, <4>3 DEF LiveInv, HandInv, Ahead, InHand
    <3>4. QED  BY <3>2, <3>3
  <2>4. QED  BY <1>4, <2>2, <2>3, FnSteps
<1>5. ASSUME NEW k \in Attempts, Timeout(k) PROVE HandInv'
  BY <1>5, HandedBack DEF Timeout
<1>6. CASE CompleteRun
  <2>1. /\ run'.no = run.no /\ run'.hand = NoIssue /\ run.hand = NoIssue
        /\ run'.phase = "complete" /\ run'.todo = run.todo
        /\ UNCHANGED <<attempt, fn>>
    BY <1>6, <1>t DEF CompleteRun
  <2>2. \A k \in Attempts : Ahead(k)' => Ahead(k)  BY <2>1 DEF Ahead
  <2>3. QED  BY <2>1, <2>2, RunStep
<1>7. CASE UNCHANGED liveVars
  BY <1>7 DEF liveVars, LiveInv, HandInv, Ahead, InHand
<1>8. QED
  BY <1>1, <1>2, <1>3, <1>4, <1>5, <1>6, <1>7 DEF LiveNext

(* So is what functions know of their runs.                                *)
LEMMA DryKept == LiveInv /\ [LiveNext]_liveVars => DryInv'
<1> SUFFICES ASSUME LiveInv, [LiveNext]_liveVars PROVE DryInv'
  OBVIOUS
<1>t. /\ run \in [no : 0..MaxLive, phase : Phases, dry : BOOLEAN,
                  todo : SUBSET Issues, hand : Issues \cup {NoIssue}]
      /\ fn \in [Attempts -> FnType] /\ MaxLive \in Nat
      /\ \A k \in Attempts : k[2] \in Nat
  BY AttemptOf, LiveAssumption DEF LiveInv, LiveTypeOK
<1>k. ASSUME run'.no = run.no, run'.dry = run.dry, UNCHANGED <<fn, dryruns>>
      PROVE  DryInv'
  BY <1>k DEF LiveInv, DryInv
<1>1. ASSUME NEW dry \in BOOLEAN, StartLiveRun(dry) PROVE DryInv'
  <2>1. /\ run'.no = run.no + 1 /\ run'.dry = dry /\ UNCHANGED fn
        /\ dryruns' = IF dry THEN dryruns \cup {run.no + 1} ELSE dryruns
    BY <1>1 DEF StartLiveRun
  <2>2. dryruns \subseteq 1..run.no /\ run.no \in Nat  BY <1>t DEF LiveInv, DryInv
  <2>3. dryruns' \subseteq 1..(run.no + 1) /\ (run.no + 1 \in dryruns' <=> dry)
    <3>1. dryruns \subseteq 1..(run.no + 1) /\ run.no + 1 \notin dryruns
      BY <2>2
    <3>2. CASE dry
      <4>1. run.no + 1 \in 1..(run.no + 1)  BY <2>2
      <4>2. QED  BY <2>1, <3>1, <3>2, <4>1, Zenon
    <3>3. CASE ~dry  BY <2>1, <3>1, <3>3, Zenon
    <3>4. QED  BY <3>2, <3>3
  <2>4. ASSUME NEW k \in Attempts, fn[k].at # "off"
        PROVE  k[2] # run.no + 1
    <3>1. ~Ahead(k)  BY <2>4 DEF LiveInv, HandInv
    <3>2. QED  BY <1>t, <2>2, <3>1 DEF Ahead
  <2>5. ASSUME NEW k \in Attempts, fn[k].at # "off"
        PROVE  k[2] \in dryruns' <=> k[2] \in dryruns
    BY <2>1, <2>4, <2>5
  <2>6. ASSUME NEW k \in Attempts
        PROVE  /\ fn'[k].at # "off" => (fn'[k].dry <=> k[2] \in dryruns')
               /\ fn'[k].at = "deploy" => ~fn'[k].dry
    BY <2>1, <2>5, Zenon DEF LiveInv, DryInv
  <2>7. QED  BY <2>1, <2>3, <2>6 DEF DryInv
<1>2. CASE CrawlAndDetect  BY <1>2, <1>t, <1>k DEF CrawlAndDetect
<1>3. ASSUME NEW i \in Issues, FetchPage(i) PROVE DryInv'
  <2>1. run'.no = run.no /\ run'.dry = run.dry /\ UNCHANGED dryruns
    BY <1>3, <1>t DEF FetchPage
  <2>2. CASE UNCHANGED fn  BY <1>k, <2>1, <2>2
  <2>3. CASE fn' = [fn EXCEPT ![<<i, run.no>>] = [at |-> "apply", dry |-> run.dry]]
    <3>1. ASSUME NEW k \in Attempts
          PROVE  /\ fn'[k].at # "off" => (fn'[k].dry <=> k[2] \in dryruns)
                 /\ fn'[k].at = "deploy" => ~fn'[k].dry
      <4>1. CASE k = <<i, run.no>>
        <5>1. fn'[k] = [at |-> "apply", dry |-> run.dry] /\ k[2] = run.no
          BY <1>t, <2>3, <4>1
        <5>2. QED  BY <5>1 DEF LiveInv, DryInv
      <4>2. CASE k # <<i, run.no>>
        <5>1. fn'[k] = fn[k]  BY <1>t, <2>3, <4>2
        <5>2. QED  BY <5>1 DEF LiveInv, DryInv
      <4>3. QED  BY <4>1, <4>2
    <3>2. QED  BY <2>1, <3>1 DEF LiveInv, DryInv
  <2>4. QED  BY <1>3, <2>2, <2>3 DEF FetchPage
<1>4. ASSUME NEW k \in Attempts, FnStep(k) PROVE DryInv'
  <2>1. fn[k].at # "off" /\ UNCHANGED dryruns  BY <1>4, FnSteps
  <2>2. ASSUME NEW to \in {"sandbox", "deploy"}, GoesOn(k, to),
               to = "deploy" => ~fn[k].dry
        PROVE  DryInv'
    <3>1. fn'[k].at = to /\ fn'[k].dry = fn[k].dry
      BY <1>t, <2>2 DEF GoesOn, FnType
    <3>2. \A j \in Attempts : j # k => fn'[j] = fn[j]
      BY <1>t, <2>2 DEF GoesOn
    <3>3. UNCHANGED run  BY <2>2 DEF GoesOn
    <3>4. QED  BY <2>1, <2>2, <3>1, <3>2, <3>3 DEF LiveInv, DryInv
  <2>3. ASSUME NEW result \in Results, Return(k, result) PROVE DryInv'
    <3>1. fn'[k].at = "off" /\ \A j \in Attempts : j # k => fn'[j] = fn[j]
      BY <1>t, <2>3 DEF Return, Off
    <3>2. run'.no = run.no /\ run'.dry = run.dry
      BY <1>t, <2>3 DEF Return
    <3>3. QED  BY <2>1, <3>1, <3>2 DEF LiveInv, DryInv
  <2>4. QED  BY <1>4, <2>2, <2>3, FnSteps
<1>5. ASSUME NEW k \in Attempts, Timeout(k) PROVE DryInv'
  BY <1>5, <1>t, <1>k DEF Timeout
<1>6. CASE CompleteRun  BY <1>6, <1>t, <1>k DEF CompleteRun
<1>7. CASE UNCHANGED liveVars  BY <1>7, <1>k DEF liveVars
<1>8. QED
  BY <1>1, <1>2, <1>3, <1>4, <1>5, <1>6, <1>7 DEF LiveNext

(* The invariant the properties of the run follow from.                    *)
THEOREM LiveKept == LiveSpec => []LiveInv
<1>1. LiveInit => LiveInv
  <2> SUFFICES ASSUME LiveInit PROVE LiveInv  OBVIOUS
  <2>1. LiveTypeOK  BY LiveAssumption DEF LiveInit, LiveTypeOK, Phases, Results, FnType, Off
  <2>2. \A k \in Attempts : attempt[k] = "none" /\ fn[k] = Off  BY DEF LiveInit
  <2>3. HandInv  BY <2>2, AttemptOf, LiveAssumption DEF LiveInit, HandInv, InHand, Off
  <2>4. DryInv  BY <2>2 DEF LiveInit, DryInv, Off
  <2>5. QED  BY <2>1, <2>3, <2>4 DEF LiveInv
<1>2. LiveInv /\ LiveTypeOK' /\ [LiveNext]_liveVars => LiveInv'
  BY HandKept, DryKept DEF LiveInv
<1>3. QED  BY <1>1, <1>2, LiveTyped, PTL DEF LiveSpec

(* A dry run deploys nothing, however late its fixes get to it and         *)
(* whichever run is under way by then (live_fix_executor.ts:199).          *)
THEOREM DryStaysDry == LiveSpec => []DryRunDeploysNothing
<1>1. LiveInv => DryRunDeploysNothing
  BY DEF LiveInv, DryInv, DryRunDeploysNothing
<1>2. QED  BY <1>1, LiveKept, PTL

(* Every fix that works on in the background was reported as timed out     *)
(* (fix_timeout_engine.ts:82).                                             *)
THEOREM LingerersReported == LiveSpec => []OnlyTimedOutLingers
<1>1. LiveInv => OnlyTimedOutLingers
  BY DEF LiveInv, HandInv, OnlyTimedOutLingers
<1>2. QED  BY <1>1, LiveKept, PTL

(* An answer that comes after the timer changes no result and does not     *)
(* move the batch on (fix_timeout_engine.ts:69).                           *)
THEOREM LateIgnored == LiveSpec => LateAnswerIgnored
<1>1. ASSUME LiveInv, [LiveNext]_liveVars, NEW k \in Attempts, attempt[k] # "none"
      PROVE  attempt'[k] = attempt[k] /\ (fn'[k] # fn[k] => run' = run)
  <2>t. /\ fn \in [Attempts -> FnType] /\ attempt \in [Attempts -> Results]
        /\ ~InHand(k) /\ ~Ahead(k)
    BY <1>1 DEF LiveInv, LiveTypeOK, HandInv
  <2>1. ASSUME UNCHANGED <<attempt, fn>>
        PROVE  attempt'[k] = attempt[k] /\ (fn'[k] # fn[k] => run' = run)
    BY <2>1
  <2>2. ASSUME NEW dry \in BOOLEAN, StartLiveRun(dry)
        PROVE  UNCHANGED <<attempt, fn>>
    BY <2>2 DEF StartLiveRun
  <2>3. ASSUME NEW i \in Issues, FetchPage(i)
        PROVE  attempt'[k] = attempt[k] /\ fn'[k] = fn[k]
    <3>1. k # <<i, run.no>>  BY <2>3, <2>t DEF FetchPage, Ahead
    <3>2. QED  BY <2>3, <2>t, <3>1 DEF FetchPage
  <2>4. ASSUME NEW j \in Attempts, FnStep(j)
        PROVE  attempt'[k] = attempt[k] /\ (fn'[k] # fn[k] => run' = run)
    <3>1. ASSUME NEW to \in {"sandbox", "deploy"}, GoesOn(j, to)
          PROVE  attempt'[k] = attempt[k] /\ run' = run
      BY <3>1 DEF GoesOn
    <3>2. ASSUME NEW result \in Results, Return(j, result)
          PROVE  attempt'[k] = attempt[k] /\ (fn'[k] # fn[k] => run' = run)
      <4>1. CASE j = k  BY <3>2, <2>t, <4>1 DEF Return
      <4>2. CASE j # k  BY <3>2, <2>t, <4>2 DEF Return
      <4>3. QED  BY <4>1, <4>2
    <3>3. QED  BY <2>4, <3>1, <3>2, FnSteps
  <2>5. ASSUME NEW j \in Attempts, Timeout(j)
        PROVE  attempt'[k] = attempt[k] /\ fn'[k] = fn[k]
    BY <2>5, <2>t DEF Timeout
  <2>6. QED
    BY <1>1, <2>1, <2>2, <2>3, <2>4, <2>5
    DEF LiveNext, CrawlAndDetect, CompleteRun, liveVars
<1>2. LiveInv /\ [LiveNext]_liveVars =>
        [\A k \in Attempts :
           attempt[k] # "none" => /\ attempt'[k] = attempt[k]
                                  /\ fn'[k] # fn[k] => run' = run]_liveVars
  BY <1>1
<1>3. QED  BY <1>2, LiveKept, PTL DEF LiveSpec, LateAnswerIgnored
=============================================================================
