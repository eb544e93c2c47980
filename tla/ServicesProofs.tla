--------------------------- MODULE ServicesProofs ---------------------------
(***************************************************************************)
(* The services of MCServices together: each of them behaves within the    *)
(* composition as it does by itself, whichever of them moves, so what is   *)
(* proved of each in a module of its own holds of the composition.         *)
(***************************************************************************)
EXTENDS MCServices, BillingProofs, SiteRunProofs, ScheduledProofs,
        LinkGraphProofs

(* A step of the composition is a step of one service, and the others rest.*)
LEMMA StepOfOne ==
  [Next]_vars =>
    /\ [BillingNext]_billingVars /\ [LiveNext]_liveVars /\ [NightlyNext]_nightVars
    /\ [DeltaNext]_deltaVars /\ [GraphNext]_graphVars /\ [OrchNext]_orchVars
    /\ [WatchNext]_watchVars
<1>1. SUFFICES ASSUME Next
               PROVE  /\ [BillingNext]_billingVars /\ [LiveNext]_liveVars
                      /\ [NightlyNext]_nightVars /\ [DeltaNext]_deltaVars
                      /\ [GraphNext]_graphVars /\ [OrchNext]_orchVars
                      /\ [WatchNext]_watchVars
  BY DEF vars
<1>2. Rest  BY <1>1 DEF Next
<1>3. CASE part \in {"fixes", "stripe"}
  BY <1>1, <1>2, <1>3 DEF Next, Rest, Routes
<1>4. CASE part \notin {"fixes", "stripe"}
  BY <1>1, <1>2, <1>4 DEF Next, Rest
<1>5. QED  BY <1>3, <1>4

(* Each service keeps to its own specification.                            *)
THEOREM EachByItself ==
  Spec => /\ BillingSpec /\ LiveSpec /\ NightlySpec /\ DeltaSpec
          /\ GraphSpec /\ OrchSpec /\ WatchSpec
<1>1. Init => /\ BillingInit /\ LiveInit /\ NightlyInit /\ DeltaInit
              /\ GraphInit /\ OrchInit /\ WatchInit
  BY DEF Init
<1>2. QED
  BY <1>1, StepOfOne, PTL
  DEF Spec, BillingSpec, LiveSpec, NightlySpec, DeltaSpec, GraphSpec,
      OrchSpec, WatchSpec

(* Every variable of every service stays within its type.                  *)
THEOREM ServicesTyped == Spec => []TypeOK
<1>1. /\ BillingTypeOK /\ LiveTypeOK /\ NightlyTypeOK /\ DeltaTypeOK
      /\ GraphTypeOK /\ OrchTypeOK /\ WatchTypeOK
      => TypeOK
  BY DEF TypeOK
<1>2. QED
  BY <1>1, EachByItself, BillingTyped, LiveTyped, NightlyTyped, DeltaTyped,
     GraphTyped, OrchTyped, WatchTyped, PTL

(* What each service promises, it keeps while the others move: the cap of  *)
(* a plan on what is applied through the gate, dry runs and late fixes,    *)
(* suspensions and their reasons, holes in the search data, click depths,  *)
(* orphans and components, batches, losses.                                *)
THEOREM ServicesSafe ==
  Spec => [](/\ FixCap /\ DryRunDeploysNothing /\ OnlyTimedOutLingers
             /\ StrikesBeforeSuspension /\ HardNeedsLostWrites /\ HolesAreLag
             /\ DepthIsClicks /\ OrphansAgree /\ ComponentsCounted
             /\ BatchBound /\ LossIsSeen)
BY EachByItself, FixesCapped, DryStaysDry, LingerersReported, Strikes,
   HardSuspension, OnlyLag, DepthsAreClicks, OrphansAreAgreed,
   ComponentsAreCounted, BatchesBounded, LossesAreSeen, PTL

(* Between two runs a suspension is lifted only when it has been served.   *)
THEOREM ServicesServe == Spec => SuspensionServed
BY EachByItself, Served, PTL

(* An answer that comes after its timer changes nothing of a run.          *)
THEOREM ServicesIgnoreLate == Spec => LateAnswerIgnored
BY EachByItself, LateIgnored, PTL
=============================================================================
