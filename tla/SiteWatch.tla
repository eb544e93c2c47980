----------------------------- MODULE SiteWatch -----------------------------
(***************************************************************************)
(* Watching a page get worse (tools/sandbox): the weekly baseline capture  *)
(* compares the page with the snapshot saved last and saves a new one      *)
(* (baseline_scheduler, baseline_snapshot); the regression monitor         *)
(* compares a verification with the one before (regression_monitor).       *)
(*                                                                         *)
(* A page that could not be fetched is captured as an empty one and saved  *)
(* as such.  A signal that could not be verified is SKIP.                  *)
(***************************************************************************)
EXTENDS Naturals, FiniteSets

CONSTANTS
  Signals,      \* what a page should show: schema, canonical, be indexable
  EmptyShows    \* those that hold of an empty page (no noindex)

ASSUME WatchAssumption == IsFiniteSet(Signals) /\ EmptyShows \subseteq Signals

VARIABLES
  shows,     \* the signals the page has
  baseline,  \* the saved snapshots: none, or the set of signals of the last
  lapsed,    \* history: a load or a save of a snapshot failed
  owed,      \* history: signals a capture saw and none has since reported lost
  captured,  \* history: what the last capture of the fetched page saw
  snapshot,  \* the monitor's last verification; "none" of an unknown signal
  inarow,    \* consecutive checks with an alert
  passed,    \* history: signals that passed and for which there was no alert
  skipped    \* history: signals that were SKIP since they passed

watchVars == <<shows, baseline, lapsed, owed, captured, snapshot, inarow,
               passed, skipped>>

Verdicts == {"PASS", "FAIL", "SKIP"}
Nothing  == [saved |-> FALSE, has |-> {}]

WatchTypeOK ==
  /\ shows \subseteq Signals
  /\ baseline \in [saved : BOOLEAN, has : SUBSET Signals]
  /\ lapsed \in BOOLEAN
  /\ owed \subseteq Signals /\ captured \subseteq Signals
  /\ snapshot \in [Signals -> Verdicts \cup {"none"}]
  /\ inarow \in 0..2
  /\ passed \subseteq Signals /\ skipped \subseteq Signals

WatchInit ==
  /\ shows \in SUBSET Signals
  /\ baseline = Nothing /\ lapsed = FALSE /\ owed = {} /\ captured = {}
  /\ snapshot = [s \in Signals |-> "none"]
  /\ inarow = 0 /\ passed = {} /\ skipped = {}
----------------------------------------------------------------------------
(* A theme, a plug-in or the owner changes the page.                       *)
ChangePage(s) ==
  /\ shows' = IF s \in shows THEN shows \ {s} ELSE shows \cup {s}
  /\ UNCHANGED <<baseline, lapsed, owed, captured, snapshot, inarow, passed,
                 skipped>>

\* the new snapshot is saved before the previous one is loaded
Previous_Saved(now, loaded) == [saved |-> TRUE, has |-> now]

(* loadLatestBaseline.                                                     *)
Previous(now, loaded) == IF loaded THEN baseline ELSE Nothing

(* diffBaselines: what was there and is not any more is a degradation of   *)
(* high or critical severity.                                              *)
Degraded(now, previous) == IF previous.saved THEN previous.has \ now ELSE {}

(* One page of runWeeklyBaselineCapture.                                   *)
CaptureBaseline(fetched, loaded, saved) ==
  LET now    == IF fetched THEN shows ELSE EmptyShows
      report == Degraded(now, Previous(now, loaded))
  IN  /\ baseline' = IF saved THEN [saved |-> TRUE, has |-> now] ELSE baseline
      /\ lapsed' = (lapsed \/ ~loaded \/ ~saved)
      /\ owed' = (owed \cup (IF fetched THEN now ELSE {})) \ report
      /\ captured' = IF fetched THEN now ELSE captured
      /\ UNCHANGED <<shows, snapshot, inarow, passed, skipped>>
----------------------------------------------------------------------------
\* only a snapshot in which all signals passed is compared with
Alerts_AllGood(now) ==
  {s \in Signals : (\A x \in Signals : snapshot[x] = "PASS") /\ now[s] = "FAIL"}

(* detectRegressions, against the most recent snapshot.                    *)
Alerts(now) == {s \in Signals : snapshot[s] = "PASS" /\ now[s] = "FAIL"}

(* checkForRegressions of one verification.  The inarow counts to two.     *)
CheckForRegressions(now) ==
  LET alerts == Alerts(now) IN
  /\ \A s \in Signals : now[s] \in {"SKIP", IF s \in shows THEN "PASS" ELSE "FAIL"}
  /\ snapshot' = now
  /\ inarow' = IF alerts = {} THEN 0 ELSE IF inarow < 2 THEN inarow + 1 ELSE 2
  /\ passed' = (passed \ alerts) \cup {s \in Signals : now[s] = "PASS"}
  /\ skipped' = (skipped \ {s \in Signals : now[s] = "PASS"})
                  \cup {s \in passed : now[s] = "SKIP"}
  /\ UNCHANGED <<shows, baseline, lapsed, owed, captured>>
----------------------------------------------------------------------------
WatchNext ==
  \/ \E s \in Signals : ChangePage(s)
  \/ \E fetched, loaded, saved \in BOOLEAN : CaptureBaseline(fetched, loaded, saved)
  \/ \E now \in [Signals -> Verdicts] : CheckForRegressions(now)

WatchSpec == WatchInit /\ [][WatchNext]_watchVars
----------------------------------------------------------------------------
Failing == {s \in Signals : snapshot[s] = "FAIL"}

(* Whatever a watched page loses is reported once before the loss is taken *)
(* for the normal state: a signal some capture saw is there in the last    *)
(* capture, or a capture since has reported it, in spite of pages that     *)
(* could not be fetched in between, as long as snapshots were loaded and   *)
(* saved (baseline_scheduler.ts:77); and a signal that passed passes, or   *)
(* there was an alert, or it was SKIP in between                           *)
(* (regression_monitor.ts:101).                                            *)
LossIsSeen ==
  /\ ~lapsed => owed \subseteq captured
  /\ passed \cap Failing \subseteq skipped
=============================================================================
