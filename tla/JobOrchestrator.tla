-------------------------- MODULE JobOrchestrator --------------------------
(***************************************************************************)
(* The multi-site orchestrator (tools/jobs/job_orchestrator.ts, called by  *)
(* api/jobs/orchestrate): a row is to be inserted for every site of a      *)
(* call, then the jobs run in batches, each batch awaited as a whole.      *)
(*                                                                         *)
(* The call goes by the jobs it has in memory and never reads the table.   *)
(* The table has nothing to read: id, status and columns of the route's    *)
(* statements, and of the cancellation's, are not those of `jobs', every   *)
(* one of them is refused, and what they answer is not looked at.  So they *)
(* are steps here that take their time and change no row.                  *)
(***************************************************************************)
EXTENDS Integers, FiniteSets

CONSTANTS
  Size,           \* site_ids of the call
  MaxConcurrent,  \* deps.maxConcurrent, or DEFAULT_CONCURRENCY
  Base,           \* BASE_SCORES of high, normal and low
  AgeCap, HealthBonus  \* AGE_BONUS_CAP (200), HEALTH_BONUS (50)

Priorities == {"high", "normal", "low"}

ASSUME OrchestratorAssumption ==
  /\ Size \in Nat \ {0}
  /\ MaxConcurrent \in Nat \ {0}
  /\ Base \in [Priorities -> Nat]
  /\ {AgeCap, HealthBonus} \subseteq Nat
  /\ \A p, q \in Priorities :
       Base[p] > Base[q] => Base[p] > Base[q] + AgeCap + HealthBonus

Orders == 1..Size

VARIABLES
  job,       \* the jobs in memory: what the call knows of each
  first,     \* the call: the first job of the batch, or where it is
  inserted   \* jobs the loop of inserts has come to

orchVars == <<job, first, inserted>>

JobStates == {"queued", "marking", "running", "saving", "settled"}
NotCalled == -2
Over == -1
Inserting == 0

OrchTypeOK ==
  /\ job \in [Orders -> JobStates]
  /\ first \in {NotCalled, Over, Inserting} \cup Orders
  /\ inserted \in 0..Size

OrchInit ==
  /\ job = [o \in Orders |-> "queued"]
  /\ first = NotCalled /\ inserted = 0
----------------------------------------------------------------------------
StartCall ==
  /\ first = NotCalled /\ first' = Inserting
  /\ UNCHANGED <<job, inserted>>

(* The insert of one job's row, refused.                                   *)
InsertJob ==
  /\ first = Inserting /\ inserted < Size
  /\ inserted' = inserted + 1
  /\ UNCHANGED <<job, first>>

\* all that is left has to be settled
Together_All == {o \in Orders : first <= o}

\* only the first job of the batch is awaited
Together_First == {first}

Together == {o \in Orders : first <= o /\ o < first + MaxConcurrent}
Settled(o) == job[o] = "settled"

(* runBatch: all jobs of the batch are marked as running at once.          *)
StartBatch(at) ==
  /\ first' = at
  /\ job' = [o \in Orders |->
               IF at <= o /\ o < at + MaxConcurrent THEN "marking" ELSE job[o]]
  /\ UNCHANGED inserted

FirstBatch == first = Inserting /\ inserted = Size /\ StartBatch(1)

NextBatch ==
  /\ first > 0 /\ \A o \in Together : Settled(o)
  /\ IF first + MaxConcurrent \in Orders
     THEN StartBatch(first + MaxConcurrent)
     ELSE first' = Over /\ UNCHANGED <<job, inserted>>

(* The jobs of a batch each go their way: the update to `running', the     *)
(* job, which succeeds or fails (one that is not injected succeeds at      *)
(* once), and the update with its result.                                  *)
Proceed(o, from, to) ==
  /\ job[o] = from
  /\ job' = [job EXCEPT ![o] = to]
  /\ UNCHANGED <<first, inserted>>

MarkRunning(o) == Proceed(o, "marking", "running")
RunJob(o)      == Proceed(o, "running", "saving")
SaveResult(o)  == Proceed(o, "saving", "settled")
----------------------------------------------------------------------------
OrchStep ==
  \/ InsertJob \/ FirstBatch \/ NextBatch
  \/ \E o \in Orders : MarkRunning(o) \/ RunJob(o) \/ SaveResult(o)

OrchNext == StartCall \/ OrchStep

OrchSpec == OrchInit /\ [][OrchNext]_orchVars

(* The request is served to its end; a crawl returns.                      *)
OrchFairness == WF_orchVars(OrchStep)
----------------------------------------------------------------------------
(* The priority queue that is built from queued rows.                      *)

Min2(m, n) == IF m <= n THEN m ELSE n

AgeBonus(minutes) == Min2((minutes \div 10) * 10, AgeCap)

(* calculatePriorityScore; a site of poor health is preferred.             *)
Score(priority, minutes, poor) ==
  Base[priority] + AgeBonus(minutes) + (IF poor THEN HealthBonus ELSE 0)
----------------------------------------------------------------------------
Active == {o \in Orders : job[o] \in {"marking", "running", "saving"}}

(* Batches follow one another: never more than MaxConcurrent jobs of a     *)
(* call are under way, whichever finishes first (job_orchestrator.ts:153). *)
BatchBound == Cardinality(Active) <= MaxConcurrent

(* Every job of a call is run, whatever becomes of its row, and the call   *)
(* ends (job_orchestrator.ts:152).                                         *)
CallEnds == first = Inserting ~> first = Over /\ \A o \in Orders : Settled(o)
=============================================================================
