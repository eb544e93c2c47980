------------------------------ MODULE JobQueue ------------------------------
(***************************************************************************)
(* The persistent job queue (tools/jobs/job_queue.ts) and the poll-based   *)
(* runners that drain it (job_runner.ts, crawl_processor.ts).              *)
(*                                                                         *)
(* The `jobs' table is shared; every statement on it is one step, and a    *)
(* handler that awaits between two statements is split at the await: the   *)
(* claim reads the head of the queue and later writes it, failJob reads    *)
(* the attempts and later writes the status, and nothing in between is     *)
(* protected.  A failed crawl goes through failJob twice, once in the      *)
(* processor and once in the runner.                                       *)
(*                                                                         *)
(* A loop is one chain  setTimeout -> tick -> setTimeout  of a runner: a   *)
(* runner normally has one, and stop() followed by start() during a tick   *)
(* gives it a second.                                                      *)
(***************************************************************************)
EXTENDS Integers, FiniteSets

CONSTANTS
  NoJob, NoLoop, \* no job held, no timer armed
  Jobs,         \* ids of the rows that can ever be inserted
  Kinds,        \* which payloads are enqueued, a subset of AllKinds
  Priorities,   \* priority column values in use
  Runners,      \* job runner processes
  Loops,        \* poll loops a runner can own
  RunnerOf,     \* [Loops -> Runners]
  Handles,      \* [Runners -> SUBSET JobTypes]: config.job_types
  MaxPerTick,   \* config.max_per_tick
  MaxAttempts,  \* max_attempts of every row
  AllowCancel,  \* whether cancelJob is called
  AllowStop,    \* whether stop() is called
  MaxNow,       \* bound: instants the clock goes through
  MaxRuns,      \* bound: executions counted per job
  MaxStarts,    \* bound: start() calls per runner
  MaxCrashes,   \* bound: process crashes
  MaxDbErrors   \* bound: statements that come back with an error

AllKinds == {"crawl", "crawl_no_url", "other"}
JobTypes == {"crawl_site", "other"}
JobTypeOf(kind) == IF kind = "other" THEN "other" ELSE "crawl_site"

ASSUME QueueAssumption ==
  /\ NoJob \notin Jobs
  /\ NoLoop \notin Loops
  /\ MaxAttempts \in Nat \ {0}
  /\ MaxPerTick \in Nat \ {0}
  /\ Kinds \subseteq AllKinds
  /\ Priorities \subseteq Int
  /\ RunnerOf \in [Loops -> Runners]
  /\ Handles \in [Runners -> SUBSET JobTypes]
  /\ {AllowCancel, AllowStop} \subseteq BOOLEAN
  /\ {MaxNow, MaxRuns, MaxStarts, MaxCrashes, MaxDbErrors} \subseteq Nat

VARIABLES
  row,       \* the jobs table
  now,       \* the clock claimNextJob compares scheduled_at with
  loop,      \* control state of each poll loop, with the values it has read
  running,   \* stats.running of each runner
  timer,     \* timerId of each runner: the loop whose timer it remembers
  starts, crashes, dbErrors, \* how much of each bound is used
  runs       \* history: how often each job was handed to a processor

vars == <<row, now, loop, running, timer, starts, crashes, dbErrors, runs>>
counters == <<starts, crashes, dbErrors>>

Statuses == {"absent", "pending", "running", "done", "failed", "cancelled"}
InTick == {"poll", "claim", "process", "complete", "fail_read", "fail_write",
           "refail_read", "refail_write"}

RowType == [status : Statuses, kind : AllKinds, priority : Int,
            scheduled_at : Nat, attempts : Nat]
LoopType == [pc : {"off", "armed"} \cup InTick, job : Jobs \cup {NoJob},
             read : Nat, left : Nat]

TypeOK ==
  /\ row \in [Jobs -> RowType]
  /\ now \in Nat
  /\ loop \in [Loops -> LoopType]
  /\ running \in [Runners -> BOOLEAN]
  /\ timer \in [Runners -> Loops \cup {NoLoop}]
  /\ starts \in [Runners -> Nat]
  /\ crashes \in Nat
  /\ dbErrors \in Nat
  /\ runs \in [Jobs -> Nat]

Idle(pc) == [pc |-> pc, job |-> NoJob, read |-> 0, left |-> 0]

Init ==
  /\ row \in [Jobs -> {[status |-> "absent", kind |-> "other", priority |-> 0,
                        scheduled_at |-> 0, attempts |-> 0]}]
  /\ now = 0
  /\ loop = [w \in Loops |-> Idle("off")]
  /\ running = [r \in Runners |-> FALSE]
  /\ timer = [r \in Runners |-> NoLoop]
  /\ starts = [r \in Runners |-> 0]
  /\ crashes = 0
  /\ dbErrors = 0
  /\ runs = [j \in Jobs |-> 0]

-----------------------------------------------------------------------------
(* Statements on the table.  supabase-js reports a failed statement in its *)
(* result, which no caller below inspects.                                 *)

DbError == dbErrors < MaxDbErrors /\ dbErrors' = dbErrors + 1

Write(j, new) ==
  \/ row' = [row EXCEPT ![j] = new] /\ UNCHANGED dbErrors
  \/ DbError /\ UNCHANGED row

WriteStatus(j, s) == Write(j, [row[j] EXCEPT !.status = s])

(* enqueueJob, reached from scheduleSiteCrawl and scheduleAllSites: a new  *)
(* row, whatever rows the site already has.                                *)
EnqueueJob(j, kind, prio, at) ==
  /\ row[j].status = "absent"
  /\ row' = [row EXCEPT ![j] = [status |-> "pending", kind |-> kind,
               priority |-> prio, scheduled_at |-> at, attempts |-> 0]]
  /\ UNCHANGED <<now, loop, running, timer, counters, runs>>

CancelJob(j) ==
  /\ AllowCancel
  /\ row[j].status # "absent"
  /\ WriteStatus(j, "cancelled")
  /\ UNCHANGED <<now, loop, running, timer, starts, crashes, runs>>

Tick ==
  /\ now < MaxNow
  /\ now' = now + 1
  /\ UNCHANGED <<row, loop, running, timer, counters, runs>>

-----------------------------------------------------------------------------
(* start(), stop() and the timer chain of createJobRunner.                 *)

LoopsOf(r) == {w \in Loops : RunnerOf[w] = r}

Start_NoRunningTest(r) ==
  /\ starts[r] < MaxStarts
  /\ starts' = [starts EXCEPT ![r] = @ + 1]
  /\ running' = [running EXCEPT ![r] = TRUE]
  /\ \E w \in LoopsOf(r) :
       /\ loop[w].pc = "off"
       /\ loop' = [loop EXCEPT ![w] = Idle("armed")]
       /\ timer' = [timer EXCEPT ![r] = w]
  /\ UNCHANGED <<row, now, crashes, dbErrors, runs>>

Start(r) ==
  /\ ~running[r]
  /\ starts[r] < MaxStarts
  /\ starts' = [starts EXCEPT ![r] = @ + 1]
  /\ running' = [running EXCEPT ![r] = TRUE]
  /\ \E w \in LoopsOf(r) :
       /\ loop[w].pc = "off"
       /\ loop' = [loop EXCEPT ![w] = Idle("armed")]
       /\ timer' = [timer EXCEPT ![r] = w]
  /\ UNCHANGED <<row, now, crashes, dbErrors, runs>>

Stop(r) ==
  /\ AllowStop
  /\ running[r]
  /\ running' = [running EXCEPT ![r] = FALSE]
  /\ loop' = [w \in Loops |->
                IF w = timer[r] /\ loop[w].pc = "armed" THEN Idle("off")
                                                        ELSE loop[w]]
  /\ timer' = [timer EXCEPT ![r] = NoLoop]
  /\ UNCHANGED <<row, now, counters, runs>>

(* The process dies: its loops are gone, what they wrote stays.            *)
Crash(r) ==
  /\ running[r]
  /\ crashes < MaxCrashes
  /\ crashes' = crashes + 1
  /\ running' = [running EXCEPT ![r] = FALSE]
  /\ timer' = [timer EXCEPT ![r] = NoLoop]
  /\ loop' = [w \in Loops |-> IF RunnerOf[w] = r THEN Idle("off") ELSE loop[w]]
  /\ UNCHANGED <<row, now, starts, dbErrors, runs>>

Fire(w) ==
  /\ loop[w].pc = "armed"
  /\ loop' = [loop EXCEPT ![w] = [Idle("poll") EXCEPT !.left = MaxPerTick]]
  /\ UNCHANGED <<row, now, running, timer, counters, runs>>

(* The tick is over: schedule() arms the next one while running is set.    *)
EndTick(w) ==
  LET r == RunnerOf[w] IN
  IF running[r]
  THEN /\ loop' = [loop EXCEPT ![w] = Idle("armed")]
       /\ timer' = [timer EXCEPT ![r] = w]
  ELSE /\ loop' = [loop EXCEPT ![w] = Idle("off")]
       /\ UNCHANGED timer

(* A job is dealt with: the next iteration of the tick, or its end.        *)
NextIteration(w) ==
  IF loop[w].left > 1
  THEN /\ loop' = [loop EXCEPT ![w] =
                     [Idle("poll") EXCEPT !.left = loop[w].left - 1]]
       /\ UNCHANGED timer
  ELSE EndTick(w)

-----------------------------------------------------------------------------
(* claimNextJob.                                                           *)

Eligible_CancelledToo(w) ==
  {j \in Jobs : /\ row[j].status \in {"pending", "cancelled"}
                /\ JobTypeOf(row[j].kind) \in Handles[RunnerOf[w]]
                /\ row[j].scheduled_at <= now}

Eligible(w) ==
  {j \in Jobs : /\ row[j].status = "pending"
                /\ JobTypeOf(row[j].kind) \in Handles[RunnerOf[w]]
                /\ row[j].scheduled_at <= now}

(* order by priority descending, scheduled_at ascending, limit 1: the      *)
(* table may return any of the rows that tie.                              *)
Heads(w) ==
  {j \in Eligible(w) : \A k \in Eligible(w) :
     \/ row[j].priority > row[k].priority
     \/ /\ row[j].priority = row[k].priority
        /\ row[j].scheduled_at <= row[k].scheduled_at}

Claimable(attempts) == attempts < MaxAttempts

ClaimSelect(w) ==
  /\ loop[w].pc = "poll"
  /\ \/ /\ \E j \in Heads(w) :
             /\ Claimable(row[j].attempts)
             /\ runs[j] < MaxRuns
             /\ loop' = [loop EXCEPT ![w].pc = "claim", ![w].job = j,
                                     ![w].read = row[j].attempts]
        /\ UNCHANGED <<timer, dbErrors>>
     \/ /\ Heads(w) = {} \/ \E j \in Heads(w) : ~Claimable(row[j].attempts)
        /\ EndTick(w)
        /\ UNCHANGED dbErrors
     \/ DbError /\ EndTick(w)
  /\ UNCHANGED <<row, now, running, starts, crashes, runs>>

(* The update is by id alone, with the attempts computed from the read.    *)
AttemptsAfterClaim_Unchanged(read) == read
AttemptsAfterClaim(read) == read + 1

ClaimUpdate(w) ==
  LET j == loop[w].job IN
  /\ loop[w].pc = "claim"
  /\ Write(j, [row[j] EXCEPT !.status = "running",
                             !.attempts = AttemptsAfterClaim(loop[w].read)])
  /\ runs' = [runs EXCEPT ![j] = @ + 1]
  /\ loop' = [loop EXCEPT ![w].pc = "process"]
  /\ UNCHANGED <<now, running, timer, starts, crashes>>

-----------------------------------------------------------------------------
(* processCrawlJob, the no-op for other types, completeJob and failJob.    *)

(* discoverURLs may throw; a crawl without site_url fails at once.         *)
Outcomes(kind) ==
  CASE kind = "crawl"        -> {"complete", "fail_read"}
    [] kind = "crawl_no_url" -> {"fail_read"}
    [] kind = "other"        -> {"complete"}

Process(w) ==
  /\ loop[w].pc = "process"
  /\ \E out \in Outcomes(row[loop[w].job].kind) :
       loop' = [loop EXCEPT ![w].pc = out]
  /\ UNCHANGED <<row, now, running, timer, counters, runs>>

CompleteJob_StatusKept(w) ==
  /\ loop[w].pc = "complete"
  /\ WriteStatus(loop[w].job, row[loop[w].job].status)
  /\ NextIteration(w)
  /\ UNCHANGED <<now, running, starts, crashes, runs>>

CompleteJob(w) ==
  /\ loop[w].pc = "complete"
  /\ WriteStatus(loop[w].job, "done")
  /\ NextIteration(w)
  /\ UNCHANGED <<now, running, starts, crashes, runs>>

(* failJob's read; a failed read leaves the defaults attempts = 0 (and     *)
(* max_attempts = 3), so the job will be put back whatever its count.      *)
FailRead(w) ==
  /\ loop[w].pc \in {"fail_read", "refail_read"}
  /\ \E to \in {"fail_write", "refail_write"} :
       /\ (to = "fail_write") <=> (loop[w].pc = "fail_read")
       /\ \/ /\ loop' = [loop EXCEPT ![w].pc = to,
                                     ![w].read = row[loop[w].job].attempts]
             /\ UNCHANGED dbErrors
          \/ /\ DbError
             /\ loop' = [loop EXCEPT ![w].pc = to, ![w].read = 0]
  /\ UNCHANGED <<row, now, running, timer, starts, crashes, runs>>

StatusAfterFailure_Queued(attempts) ==
  IF attempts >= MaxAttempts THEN "failed" ELSE "queued"
StatusAfterFailure_OneEarly(attempts) ==
  IF attempts + 1 >= MaxAttempts THEN "failed" ELSE "pending"
StatusAfterFailure_OneLate(attempts) ==
  IF attempts > MaxAttempts THEN "failed" ELSE "pending"
StatusAfterFailure(attempts) ==
  IF attempts >= MaxAttempts THEN "failed" ELSE "pending"

(* failJob called by the processor; the runner will call it again.         *)
FailWrite(w) ==
  /\ loop[w].pc = "fail_write"
  /\ WriteStatus(loop[w].job, StatusAfterFailure(loop[w].read))
  /\ loop' = [loop EXCEPT ![w].pc = "refail_read"]
  /\ UNCHANGED <<now, running, timer, starts, crashes, runs>>

(* failJob called by the runner, because the result carries an error.      *)
RefailWrite(w) ==
  /\ loop[w].pc = "refail_write"
  /\ WriteStatus(loop[w].job, StatusAfterFailure(loop[w].read))
  /\ NextIteration(w)
  /\ UNCHANGED <<now, running, starts, crashes, runs>>

-----------------------------------------------------------------------------
Environment ==
  \/ \E j \in Jobs, k \in Kinds, p \in Priorities, at \in 0..MaxNow :
       EnqueueJob(j, k, p, at)
  \/ \E j \in Jobs : CancelJob(j)
  \/ \E r \in Runners : Start(r)
  \/ \E r \in Runners : Stop(r)
  \/ \E r \in Runners : Crash(r)

LoopStep(w) ==
  \/ Fire(w)
  \/ ClaimSelect(w)
  \/ ClaimUpdate(w)
  \/ Process(w)
  \/ CompleteJob(w)
  \/ FailRead(w)
  \/ FailWrite(w)
  \/ RefailWrite(w)

Next == Tick \/ Environment \/ \E w \in Loops : LoopStep(w)

Spec == Init /\ [][Next]_vars

(* A Node timer that is armed fires, an awaited statement returns, and     *)
(* time passes: weak fairness of each loop and of the clock.               *)
FairSpec == Spec /\ WF_vars(Tick) /\ \A w \in Loops : WF_vars(LoopStep(w))

-----------------------------------------------------------------------------
(* Properties                                                              *)

(* A job is given up only after its budget of attempts was really spent:   *)
(* a row is `failed' only once its processor was started max_attempts      *)
(* times, however many runners claim it at once and whichever statements   *)
(* are lost (failJob, job_queue.ts:170).                                   *)
NeverFailedEarly ==
  \A j \in Jobs : row[j].status = "failed" => runs[j] >= MaxAttempts

(* A `running' row has an executor: some loop still holds the job and will *)
(* write its outcome, so only a crash or a lost write can strand a job,    *)
(* which nothing would ever pick up again (claimNextJob reads `pending'    *)
(* rows only, job_queue.ts:118).                                           *)
Executes(w, j) ==
  loop[w].job = j /\ loop[w].pc \in {"process", "complete", "fail_read", "fail_write"}
RunningIsHeld ==
  (crashes = 0 /\ dbErrors = 0) =>
    \A j \in Jobs : row[j].status = "running" => \E w \in Loops : Executes(w, j)

(* The attempts column is `Number of times this job has been claimed and   *)
(* started' (supabase/migrations/019_jobs.sql:64).                         *)
AttemptsCountRuns == \A j \in Jobs : row[j].attempts = runs[j]

(* A pending row can be claimed: a job whose attempts are used up is       *)
(* marked `failed' (019_jobs.sql:65) and not left, by the last loop that   *)
(* had it in hand, at the head of the queue, where claimNextJob would      *)
(* return null for every job behind it.                                    *)
HeldBy(w, j) == loop[w].job = j
PendingIsClaimable ==
  \A j \in Jobs :
    (row[j].status = "pending" /\ \A w \in Loops : ~HeldBy(w, j))
      => row[j].attempts < MaxAttempts

(* A runner executes ticks one at a time: `respects max concurrency        *)
(* (serial by default)' (job_runner.ts:9).                                 *)
SerialTicks ==
  \A r \in Runners : \A v, w \in LoopsOf(r) :
    (loop[v].pc \in InTick /\ loop[w].pc \in InTick) => v = w

(* cancelJob takes a job out of the queue for good unless a loop had it in *)
(* hand: with no loop holding the job, no step of anyone revives it.       *)
CancelledIdleStays ==
  [][\A j \in Jobs :
       (row[j].status = "cancelled" /\ \A w \in Loops : ~HeldBy(w, j))
         => row'[j].status = "cancelled" /\ \A w \in Loops : ~HeldBy(w, j)']_vars

(* Every pending job is dealt with while a runner polls for its type: it   *)
(* ends done, failed or cancelled, after the retries failJob schedules and *)
(* behind the jobs of higher priority (job_queue.ts:113-174).  A runner    *)
(* that dies takes its job with it: nothing is promised after a crash.     *)
EventuallySettled ==
  \A j \in Jobs :
    (/\ row[j].status = "pending"
     /\ \E r \in Runners : running[r] /\ JobTypeOf(row[j].kind) \in Handles[r])
      ~> (row[j].status \in {"done", "failed", "cancelled"} \/ crashes > 0)

(* With one poll loop the queue implements the contract of JobContract:    *)
(* one execution at a time, each counted, and an end after max_attempts;   *)
(* a cancellation takes the job out of the queue and is overruled only by  *)
(* the loop that had it in hand.                                           *)
Hand(j) ==
  CASE \E w \in Loops : HeldBy(w, j) /\ loop[w].pc = "claim" -> "taken"
    [] \E w \in Loops : HeldBy(w, j) /\ loop[w].pc # "claim" -> "working"
    [] OTHER -> "free"
Contract == INSTANCE JobContract
              WITH status <- [j \in Jobs |-> row[j].status],
                   tries  <- [j \in Jobs |-> row[j].attempts],
                   hand   <- [j \in Jobs |-> Hand(j)]
ImplementsContract == Contract!Spec
=============================================================================
