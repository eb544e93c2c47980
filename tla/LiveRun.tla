------------------------------ MODULE LiveRun ------------------------------
(***************************************************************************)
(* The live run (tools/live): discover pages, detect issues, then fix them *)
(* one after the other, each under a time limit, and finish whatever       *)
(* happened.                                                               *)
(*                                                                         *)
(* withFixTimeout races the fix against a timer and cancels nothing: an    *)
(* attempt that lost the race goes on in the background, beside the        *)
(* attempts and the runs that follow.                                      *)
(*                                                                         *)
(* What fetches, applies, validates and deploys is injected, and each may  *)
(* fail or hang here.  A run that is given nothing, as runLiveProduction   *)
(* is, has stubs: one constant page, a sandbox that passes, a deployment   *)
(* that answers `deployed' and writes nothing.  So nothing here says what  *)
(* a live page contains, only what is called and what is reported.         *)
(***************************************************************************)
EXTENDS Naturals, FiniteSets

CONSTANTS
  Issues,    \* the auto-fixable issues of the site
  Pages,
  PageOf,    \* PageOf[i]: the page an issue is on
  NoIssue,
  MaxLive    \* bound: runs of the site in the life of the process

ASSUME LiveAssumption ==
  /\ IsFiniteSet(Issues) /\ NoIssue \notin Issues
  /\ PageOf \in [Issues -> Pages]
  /\ MaxLive \in Nat

Attempts == Issues \X (1..MaxLive)
Results  == {"none", "failed", "rejected", "timed_out", "dry", "undeployed",
             "deployed"}
Phases   == {"idle", "crawling", "applying", "complete", "failed"}

VARIABLES
  run,      \* the run: its number, phase, dry_run, issues left, one in hand
  attempt,  \* the result the batch recorded for each attempt
  fn,       \* what the function raced against the timer is doing
  dryruns   \* history: the runs that were to deploy nothing

liveVars == <<run, attempt, fn, dryruns>>

FnType == [at : {"off", "apply", "sandbox", "deploy"}, dry : BOOLEAN]

LiveTypeOK ==
  /\ run \in [no : 0..MaxLive, phase : Phases, dry : BOOLEAN,
              todo : SUBSET Issues, hand : Issues \cup {NoIssue}]
  /\ attempt \in [Attempts -> Results]
  /\ fn \in [Attempts -> FnType]
  /\ dryruns \subseteq 1..MaxLive

Off == [at |-> "off", dry |-> FALSE]

LiveInit ==
  /\ run = [no |-> 0, phase |-> "idle", dry |-> FALSE, todo |-> {},
            hand |-> NoIssue]
  /\ attempt = [k \in Attempts |-> "none"]
  /\ fn = [k \in Attempts |-> Off]
  /\ dryruns = {}
----------------------------------------------------------------------------
(* A run starts when the one before has ended.  The billing gate stops it  *)
(* at once; a gate that fails lets it pass.                                *)
StartLiveRun(dry) ==
  /\ run.phase \in {"idle", "complete", "failed"} /\ run.no < MaxLive
  /\ \E phase \in {"failed", "crawling"} :
       run' = [no |-> run.no + 1, phase |-> phase, dry |-> dry, todo |-> {},
               hand |-> NoIssue]
  /\ dryruns' = IF dry THEN dryruns \cup {run.no + 1} ELSE dryruns
  /\ UNCHANGED <<attempt, fn>>

(* discoverPages reaches some pages, or throws; aggregateIssues decides by *)
(* a hash of URL and fix type, so the same issues come back in every run.  *)
CrawlAndDetect ==
  /\ run.phase = "crawling"
  /\ \/ run' = [run EXCEPT !.phase = "failed"]
     \/ \E found \in SUBSET Pages :
          run' = [run EXCEPT !.phase = "applying",
                             !.todo = {i \in Issues : PageOf[i] \in found}]
  /\ UNCHANGED <<attempt, fn, dryruns>>

(* One turn of executeFixBatch: fetch the page and start the race.  A      *)
(* fetch that throws ends the batch, and what was left is not attempted.   *)
(* Nothing limits the time a fetch takes.                                  *)
FetchPage(i) ==
  /\ run.phase = "applying" /\ run.hand = NoIssue /\ i \in run.todo
  /\ \/ /\ run' = [run EXCEPT !.hand = i, !.todo = @ \ {i}]
        /\ fn' = [fn EXCEPT ![<<i, run.no>>] =
                    [at |-> "apply", dry |-> run.dry]]
     \/ /\ run' = [run EXCEPT !.todo = {}]
        /\ UNCHANGED fn
  /\ UNCHANGED <<attempt, dryruns>>

InHand(k) == run.hand = k[1] /\ run.no = k[2]

\* the batch takes whatever answer comes
Return_Late(k, result) ==
  /\ fn' = [fn EXCEPT ![k] = Off]
  /\ attempt' = [attempt EXCEPT ![k] = result]
  /\ run' = IF InHand(k) THEN [run EXCEPT !.hand = NoIssue] ELSE run

(* The function returns: to the batch, or to nobody when the timer won.    *)
Return(k, result) ==
  /\ fn' = [fn EXCEPT ![k] = Off]
  /\ IF InHand(k)
     THEN /\ attempt' = [attempt EXCEPT ![k] = result]
          /\ run' = [run EXCEPT !.hand = NoIssue]
     ELSE UNCHANGED <<attempt, run>>

ApplyFix(k) ==
  /\ fn[k].at = "apply"
  /\ \/ /\ fn' = [fn EXCEPT ![k].at = "sandbox"]
        /\ UNCHANGED <<run, attempt>>
     \/ Return(k, "failed")
  /\ UNCHANGED dryruns

\* whether to deploy is asked of the run under way
SandboxValidate_OfRun(k) ==
  /\ fn[k].at = "sandbox"
  /\ \/ \E result \in {"rejected", "failed"} : Return(k, result)
     \/ run.dry /\ Return(k, "dry")
     \/ /\ ~run.dry
        /\ fn' = [fn EXCEPT ![k].at = "deploy"]
        /\ UNCHANGED <<run, attempt>>
  /\ UNCHANGED dryruns

(* A dry run ends here with a success that is not deployed.                *)
SandboxValidate(k) ==
  /\ fn[k].at = "sandbox"
  /\ \/ \E result \in {"rejected", "failed"} : Return(k, result)
     \/ fn[k].dry /\ Return(k, "dry")
     \/ /\ ~fn[k].dry
        /\ fn' = [fn EXCEPT ![k].at = "deploy"]
        /\ UNCHANGED <<run, attempt>>
  /\ UNCHANGED dryruns

(* deployFix says that it deployed, says that it did not, or throws.       *)
DeployFix(k) ==
  /\ fn[k].at = "deploy"
  /\ \E result \in {"deployed", "undeployed", "failed"} : Return(k, result)
  /\ UNCHANGED dryruns

\* the caller waits for the function and looks at the clock afterwards
Timeout_Checked(k) ==
  /\ InHand(k) /\ fn[k].at = "off"
  /\ attempt' = [attempt EXCEPT ![k] = "timed_out"]
  /\ run' = [run EXCEPT !.hand = NoIssue]
  /\ UNCHANGED <<fn, dryruns>>

\* the batch goes on without a word
Timeout_Unreported(k) ==
  /\ InHand(k) /\ fn[k].at # "off"
  /\ run' = [run EXCEPT !.hand = NoIssue]
  /\ UNCHANGED <<attempt, fn, dryruns>>

(* The timer wins: the attempt is reported as timed out and the batch goes *)
(* on; the function is not told.                                           *)
Timeout(k) ==
  /\ InHand(k) /\ fn[k].at # "off"
  /\ attempt' = [attempt EXCEPT ![k] = "timed_out"]
  /\ run' = [run EXCEPT !.hand = NoIssue]
  /\ UNCHANGED <<fn, dryruns>>

(* Verification counts what was reported, learning, health, digest, drift  *)
(* and link graph are each in a try of their own: the run completes.       *)
CompleteRun ==
  /\ run.phase = "applying" /\ run.hand = NoIssue /\ run.todo = {}
  /\ run' = [run EXCEPT !.phase = "complete"]
  /\ UNCHANGED <<attempt, fn, dryruns>>
----------------------------------------------------------------------------
FnStep(k) == ApplyFix(k) \/ SandboxValidate(k) \/ DeployFix(k)

LiveNext ==
  \/ \E dry \in BOOLEAN : StartLiveRun(dry)
  \/ CrawlAndDetect
  \/ \E i \in Issues : FetchPage(i)
  \/ \E k \in Attempts : FnStep(k) \/ Timeout(k)
  \/ CompleteRun

LiveSpec == LiveInit /\ [][LiveNext]_liveVars

(* The timer fires, a fetch ends one way or the other, and the run goes    *)
(* on.  Nothing is assumed of the fix: apply, sandbox and deployment may   *)
(* each hang for ever.                                                     *)
LiveFairness ==
  /\ WF_liveVars(\E i \in Issues : FetchPage(i))
  /\ WF_liveVars(\E k \in Attempts : Timeout(k))
  /\ WF_liveVars(CompleteRun)
----------------------------------------------------------------------------
(* A dry run deploys nothing, not even through a fix that outlived its     *)
(* time limit and gets to the deployment while a later run, which is to    *)
(* deploy, is under way (live_fix_executor.ts:199).                        *)
DryRunDeploysNothing ==
  \A k \in Attempts : fn[k].at = "deploy" => k[2] \notin dryruns

(* A fix that still works while nobody waits for it is one whose attempt   *)
(* was reported as timed out: whoever reads the results knows which fixes  *)
(* may yet be deployed (fix_timeout_engine.ts:82).                         *)
OnlyTimedOutLingers ==
  \A k \in Attempts :
    fn[k].at # "off" => InHand(k) \/ attempt[k] = "timed_out"

(* The answer of a fix that comes after its timer changes no result and    *)
(* takes no other fix out of the hand of the batch                         *)
(* (fix_timeout_engine.ts:69).                                             *)
LateAnswerIgnored ==
  [][\A k \in Attempts :
       attempt[k] # "none" => /\ attempt'[k] = attempt[k]
                              /\ fn'[k] # fn[k] => run' = run]_liveVars

(* "A hanging fix must never block the nightly queue"                      *)
(* (fix_timeout_engine.ts:4): a batch comes to its end though any step of  *)
(* any fix hangs.                                                          *)
HangNeverBlocks == run.phase = "applying" ~> run.phase = "complete"
=============================================================================
