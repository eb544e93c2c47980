------------------------------ MODULE Nightly ------------------------------
(***************************************************************************)
(* The nightly run and the suspension of failing sites (tools/pipeline):   *)
(* resume what has served its time, load the sites once, process them one  *)
(* by one, count consecutive failures and suspend.                         *)
(*                                                                         *)
(* Every call goes through an injected function whose failure is           *)
(* swallowed.  The count is the column consecutive_failures, which         *)
(* suspendSite and resumeSite write.                                       *)
(***************************************************************************)
EXTENDS Naturals, FiniteSets

CONSTANTS
  Sites, NoSite,
  MaxFailures,    \* MAX_CONSECUTIVE_FAILURES (3)
  HardThreshold,  \* HARD_SUSPENSION_THRESHOLD (10)
  SoftTime, HardTime,  \* how long a suspension lasts (24 and 168 hours)
  MaxLost         \* bound: injected calls that fail

ASSUME NightlyAssumption ==
  /\ IsFiniteSet(Sites) /\ NoSite \notin Sites
  /\ {MaxFailures, HardThreshold, SoftTime, HardTime} \subseteq Nat \ {0}
  /\ MaxFailures < HardThreshold
  /\ MaxLost \in Nat

VARIABLES
  site,    \* the pipeline columns of the sites; `left' is resume_at - now
  night,   \* the run: where it is, sites to resume, sites left, one in hand,
           \* and the count its suspension is to write
  copy,    \* the rows as the run loaded them: suspended, and until when
  streak,  \* history: failures recorded since a success or resumption
  overtaken, \* history: sites resumed by hand between their last failure
             \* and the suspension it led to
  lost     \* how many calls failed

nightVars == <<site, night, copy, streak, overtaken, lost>>

Hours    == 0 .. (IF SoftTime > HardTime THEN SoftTime ELSE HardTime)

NightlyTypeOK ==
  /\ site \in [Sites -> [suspended : BOOLEAN, manual : BOOLEAN, left : Hours,
                         failures : Nat]]
  /\ night \in [pc : {"idle", "resume", "load", "sites", "resume_one",
                      "process", "succeeded", "failed", "suspending"},
                due : SUBSET Sites, todo : SUBSET Sites,
                hand : Sites \cup {NoSite}, count : Nat]
  /\ copy \in [Sites -> [suspended : BOOLEAN, left : Hours]]
  /\ streak \in [Sites -> 0..HardThreshold]
  /\ overtaken \subseteq Sites
  /\ lost \in 0..MaxLost

NightlyInit ==
  /\ site = [s \in Sites |-> [suspended |-> FALSE, manual |-> FALSE,
                              left |-> 0, failures |-> 0]]
  /\ night = [pc |-> "idle", due |-> {}, todo |-> {}, hand |-> NoSite,
               count |-> 0]
  /\ copy = [s \in Sites |-> [suspended |-> FALSE, left |-> 0]]
  /\ streak = [s \in Sites |-> 0]
  /\ overtaken = {} /\ lost = 0
----------------------------------------------------------------------------
Lose == lost < MaxLost /\ lost' = lost + 1

Resumed(s) ==
  [suspended |-> FALSE, manual |-> FALSE, left |-> 0, failures |-> 0]

(* resumeSite, or its failure.                                             *)
ResumeSite(s) ==
  \/ /\ site' = [site EXCEPT ![s] = Resumed(s)]
     /\ streak' = [streak EXCEPT ![s] = 0]
     /\ overtaken' = IF night.pc = "suspending" /\ night.hand = s
                     THEN overtaken \cup {s} ELSE overtaken \ {s}
     /\ UNCHANGED lost
  \/ Lose /\ UNCHANGED <<site, streak, overtaken>>

\* the comparison turned round
Expired_Swapped(c) == c.left > 0

\* nothing is ever due
Expired_Never(c) == c.left < 0

Expired(c) == c.left = 0

(* checkAndAutoResume queries the suspensions that are due.  `manual' ones *)
(* are not auto_resume.                                                    *)
BeginNight ==
  /\ night.pc = "idle"
  /\ night' = [night EXCEPT !.pc = "resume",
        !.due = {s \in Sites : site[s].suspended /\ ~site[s].manual
                               /\ Expired(site[s])}]
  /\ UNCHANGED <<site, copy, streak, overtaken, lost>>

AutoResume(s) ==
  /\ night.pc = "resume" /\ s \in night.due
  /\ ResumeSite(s)
  /\ night' = [night EXCEPT !.due = @ \ {s}]
  /\ UNCHANGED copy

(* loadSitesFn; a load that fails is an empty list.                        *)
LoadSites ==
  /\ night.pc = "resume" /\ night.due = {}
  /\ \/ /\ copy' = [s \in Sites |-> [suspended |-> site[s].suspended,
                                     left |-> site[s].left]]
        /\ night' = [night EXCEPT !.pc = "sites", !.todo = Sites]
        /\ UNCHANGED lost
     \/ /\ Lose
        /\ night' = [night EXCEPT !.pc = "idle"]
        /\ UNCHANGED copy
  /\ UNCHANGED <<site, streak, overtaken>>

(* One turn of the loop, by the row that was loaded: skip, resume first,   *)
(* or process.                                                             *)
Visit(s) ==
  /\ night.pc = "sites" /\ s \in night.todo
  /\ night' =
       CASE ~copy[s].suspended ->
              [night EXCEPT !.pc = "process", !.todo = @ \ {s}, !.hand = s]
         [] copy[s].suspended /\ Expired(copy[s]) ->
              [night EXCEPT !.pc = "resume_one", !.todo = @ \ {s}, !.hand = s]
         [] OTHER -> [night EXCEPT !.todo = @ \ {s}]
  /\ UNCHANGED <<site, copy, streak, overtaken, lost>>

(* The window has passed since the load, whatever the reason was.          *)
ResumeOne ==
  /\ night.pc = "resume_one"
  /\ ResumeSite(night.hand)
  /\ night' = [night EXCEPT !.pc = "process"]
  /\ UNCHANGED copy

ProcessSite ==
  /\ night.pc = "process"
  /\ \E pc \in {"succeeded", "failed"} : night' = [night EXCEPT !.pc = pc]
  /\ UNCHANGED <<site, copy, streak, overtaken, lost>>

NextSite == night' = [night EXCEPT !.pc = "sites", !.hand = NoSite, !.count = 0]

\* a success leaves the count
RecordSuccess_NoReset ==
  /\ night.pc = "succeeded"
  /\ UNCHANGED <<site, lost>>
  /\ streak' = [streak EXCEPT ![night.hand] = 0]
  /\ NextSite
  /\ UNCHANGED <<copy, overtaken>>

(* recordFixSuccess: the count starts again; a suspension is not touched.  *)
RecordSuccess ==
  /\ night.pc = "succeeded"
  /\ \/ site' = [site EXCEPT ![night.hand].failures = 0] /\ UNCHANGED lost
     \/ Lose /\ UNCHANGED site
  /\ streak' = [streak EXCEPT ![night.hand] = 0]
  /\ NextSite
  /\ UNCHANGED <<copy, overtaken>>

Duration(count) == IF count >= HardThreshold THEN HardTime ELSE SoftTime

\* one failure more is let pass
ShouldSuspend_Strictly(count) == count > MaxFailures

ShouldSuspend(count) == count >= MaxFailures

(* recordFixFailure increments the count, in a call that may fail and then *)
(* counts as the first failure; from the third on the site is suspended.   *)
RecordFailure ==
  LET s == night.hand IN
  /\ night.pc = "failed"
  /\ \E counted \in {site[s].failures + 1, 1} :
       /\ \/ /\ counted = site[s].failures + 1
             /\ site' = [site EXCEPT ![s].failures = counted]
             /\ UNCHANGED lost
          \/ counted = 1 /\ Lose /\ UNCHANGED site
       /\ IF ShouldSuspend(counted)
          THEN night' = [night EXCEPT !.pc = "suspending", !.count = counted]
          ELSE NextSite
  /\ streak' = [streak EXCEPT ![s] = IF @ < HardThreshold THEN @ + 1 ELSE @]
  /\ UNCHANGED <<copy, overtaken>>

(* The call that suspends comes after, and nobody looks at the row again:  *)
(* it writes the count it was given, or is lost.                           *)
Suspend ==
  LET s == night.hand IN
  /\ night.pc = "suspending"
  /\ \/ /\ site' = [site EXCEPT ![s] =
             [suspended |-> TRUE, manual |-> FALSE, left |-> Duration(night.count),
              failures |-> night.count]]
        /\ UNCHANGED lost
     \/ Lose /\ UNCHANGED site
  /\ NextSite
  /\ UNCHANGED <<copy, streak, overtaken>>

EndNight ==
  /\ night.pc = "sites" /\ night.todo = {}
  /\ night' = [night EXCEPT !.pc = "idle"]
  /\ UNCHANGED <<site, copy, streak, overtaken, lost>>
----------------------------------------------------------------------------
(* An operator, through the same two functions: buildSuspensionRecord      *)
(* gives a manual suspension a resume_at like any other.                   *)
SuspendByHand(s) ==
  /\ site' = [site EXCEPT ![s].suspended = TRUE, ![s].manual = TRUE,
                          ![s].left = Duration(site[s].failures)]
  /\ UNCHANGED <<night, copy, streak, overtaken, lost>>

ResumeByHand(s) ==
  /\ site[s].suspended
  /\ ResumeSite(s)
  /\ UNCHANGED <<night, copy>>

(* Time passes for every suspension at once, and for the copies.           *)
Hour ==
  /\ \E s \in Sites : site[s].left > 0 \/ copy[s].left > 0
  /\ site' = [s \in Sites |->
       [site[s] EXCEPT !.left = IF @ > 0 THEN @ - 1 ELSE 0]]
  /\ copy' = [s \in Sites |->
       [copy[s] EXCEPT !.left = IF @ > 0 THEN @ - 1 ELSE 0]]
  /\ UNCHANGED <<night, streak, overtaken, lost>>

NightStep ==
  \/ BeginNight \/ LoadSites \/ ResumeOne \/ ProcessSite
  \/ RecordSuccess \/ RecordFailure \/ Suspend \/ EndNight
  \/ \E s \in Sites : AutoResume(s) \/ Visit(s)

NightlyNext ==
  \/ NightStep
  \/ \E s \in Sites : SuspendByHand(s) \/ ResumeByHand(s)
  \/ Hour

NightlySpec == NightlyInit /\ [][NightlyNext]_nightVars
----------------------------------------------------------------------------
(* Three strikes, and no fewer: a site is suspended by the run only after  *)
(* that many failures in a row since its last success or resumption, as    *)
(* long as no write was lost.  One case breaks it: nothing keeps an        *)
(* operator from resuming a site between the count and the suspension      *)
(* (failure_tracker.ts:60, 75), which then holds all the same.             *)
StrikesBeforeSuspension ==
  \A s \in Sites \ overtaken :
    site[s].suspended /\ ~site[s].manual /\ lost = 0 => streak[s] >= MaxFailures

(* A site is suspended at the third failure and starts at zero when it is  *)
(* resumed, so the count passes the threshold only by as much as writes    *)
(* were lost: without them the hard suspension of ten failures             *)
(* (suspension_policy.ts:11) is never given.                               *)
HardNeedsLostWrites == \A s \in Sites : site[s].failures <= MaxFailures + lost

(* The run lifts a suspension it gave only when its time is over, though   *)
(* it goes by rows it loaded at the start and an operator suspends and     *)
(* resumes sites meanwhile (nightly_run.ts:83).                            *)
SuspensionServed ==
  [][NightStep => \A s \in Sites :
       site[s].suspended /\ ~site[s].manual /\ ~site'[s].suspended
         => site[s].left = 0]_nightVars

(* A site the run suspended comes back: unless the write is lost or an     *)
(* operator takes over, a run after the window resumes it.                 *)
SuspendedComesBack ==
  \A s \in Sites :
    site[s].suspended /\ ~site[s].manual
      ~> (~site[s].suspended \/ site[s].manual \/ lost > 0)
=============================================================================
