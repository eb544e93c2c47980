----------------------------- MODULE MCServices -----------------------------
(* One run for the services of the platform that do not share state:       *)
(* `part' names the one that moves in a behaviour, the others rest in      *)
(* their initial states.  The state space is the sum of theirs.            *)
EXTENDS Billing, LiveRun, Nightly, DeltaSync, LinkGraph, JobOrchestrator,
        SiteWatch, TLC

CONSTANTS t1, r1, r2, a, b, p1, p2, p3, p4, home, s1, s2

Caps == [p \in Tiers |-> [s \in Resources |-> IF p = "starter" THEN 1 ELSE 2]]
OnePage == [i \in Issues |-> p1]
LinksOfACrawl == {<<home, p1>>, <<home, p2>>, <<p2, p3>>, <<p3, p4>>, <<p1, p4>>,
                  <<p4, home>>}
Weights == [w \in {"followed", "other"} |-> IF w = "followed" THEN 30 ELSE 5]
BaseScores == [p \in {"high", "normal", "low"} |->
                 CASE p = "high" -> 1000 [] p = "normal" -> 500 [] p = "low" -> 100]

VARIABLE part
Parts == {"fixes", "stripe", "live", "nightly", "delta", "graph", "orchestrator",
          "watch"}
vars == <<part, billingVars, liveVars, nightVars, deltaVars, graphVars, orchVars,
          watchVars>>

Rest ==
  /\ part' = part
  /\ IF part \in {"fixes", "stripe"} THEN TRUE ELSE UNCHANGED billingVars
  /\ IF part = "live" THEN TRUE ELSE UNCHANGED liveVars
  /\ IF part = "nightly" THEN TRUE ELSE UNCHANGED nightVars
  /\ IF part = "delta" THEN TRUE ELSE UNCHANGED deltaVars
  /\ IF part = "graph" THEN TRUE ELSE UNCHANGED graphVars
  /\ IF part = "orchestrator" THEN TRUE ELSE UNCHANGED orchVars
  /\ IF part = "watch" THEN TRUE ELSE UNCHANGED watchVars

Init ==
  /\ part \in Parts
  /\ BillingInit /\ LiveInit /\ NightlyInit /\ DeltaInit /\ GraphInit /\ OrchInit
  /\ WatchInit
  /\ part \notin {"fixes", "stripe"} =>
       \A t \in Tenants : row[t].plan_tier = "starter"
  /\ part # "watch" => shows = {}

(* The routes by themselves: sites, crawls, fixes and orchestrations are   *)
(* asked for, and fixes are deployed and undone without them.              *)
Routes == BillingNext /\ stripes' = 0

(* Nothing is said of the data once a fetch failed: the sync stops there.  *)
Next ==
  \/ part = "fixes" /\ Routes /\ Rest
  \/ part = "stripe" /\ BillingNext /\ UNCHANGED <<books, req>> /\ Rest
  \/ part = "live" /\ LiveNext /\ Rest
  \/ part = "nightly" /\ NightlyNext /\ Rest
  \/ part = "delta" /\ ~failed /\ DeltaNext /\ Rest
  \/ part = "graph" /\ GraphNext /\ Rest
  \/ part = "orchestrator" /\ OrchNext /\ Rest
  \/ part = "watch" /\ WatchNext /\ Rest

(* The run is started night after night, and time passes.                  *)
NightlyFairness ==
  WF_nightVars(part = "nightly" /\ NightStep) /\ WF_nightVars(part = "nightly" /\ Hour)

Spec ==
  /\ Init /\ [][Next]_vars
  /\ BillingFairness /\ LiveFairness /\ NightlyFairness /\ OrchFairness

(* Every variable of every part stays within its type.                     *)
TypeOK ==
  /\ BillingTypeOK /\ LiveTypeOK /\ NightlyTypeOK
  /\ DeltaTypeOK /\ GraphTypeOK /\ OrchTypeOK
  /\ WatchTypeOK
=============================================================================
