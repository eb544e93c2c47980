--------------------------- MODULE BillingProofs ---------------------------
(***************************************************************************)
(* Theorems about Billing, for any number of tenants and requests and      *)
(* every table of plans.                                                   *)
(***************************************************************************)
EXTENDS Billing, FiniteSetTheorems, TLAPS

(* What the proofs need to know of the constants.                          *)
LEMMA Plans ==
  /\ IsFiniteSet(Requests) /\ Cardinality(Requests) \in Nat
  /\ NoTenant \notin Tenants
  /\ Kinds \subseteq AllKinds /\ "starter" \in Tiers
  /\ \A p \in Tiers, s \in Resources : Cap[p][s] \in Nat
  /\ Batch \in Nat /\ MaxFixes \in Nat /\ MaxStripe \in Nat
  BY BillingAssumption, FS_CardinalityType

(* What makes a request well formed beyond its type: it knows its tenant,  *)
(* one for fixes has some left to apply, and no request for orchestration  *)
(* is counted.                                                             *)
Formed(q) ==
  q.pc # "idle" =>
    /\ q.tenant \in Tenants
    /\ q.kind = "apply_fix" => q.items # 0
    /\ q.pc = "apply" => q.kind = "apply_fix"
    /\ q.pc = "count" => q.kind # "multi_site_jobs"

RequestsFormed == \A r \in Requests : Formed(req[r])

(* One request moves, or none does.                                        *)
LEMMA RequestMoves ==
  ASSUME BillingTypeOK, RequestsFormed, NEW r \in Requests,
         NEW q, req' = [req EXCEPT ![r] = q], q \in RequestType, Formed(q)
  PROVE  req' \in [Requests -> RequestType] /\ RequestsFormed'
  BY DEF BillingTypeOK, RequestsFormed

(* An idle request.                                                        *)
LEMMA IdleFormed == Idle \in RequestType /\ Formed(Idle)
  BY Plans DEF Idle, RequestType, Formed, AllKinds

(* A request that is answered.                                             *)
LEMMA AnswerMoves ==
  ASSUME BillingTypeOK, RequestsFormed, NEW r \in Requests, Answer(r)
  PROVE  req' \in [Requests -> RequestType] /\ RequestsFormed'
  BY RequestMoves, IdleFormed DEF Answer

(* A request that goes on to a place its kind may be at.                   *)
LEMMA GotoMoves ==
  ASSUME BillingTypeOK, RequestsFormed, NEW r \in Requests, req[r].pc # "idle",
         NEW pc \in {"act", "apply"},
         pc = "apply" => req[r].kind = "apply_fix",
         Goto(r, pc)
  PROVE  req' \in [Requests -> RequestType] /\ RequestsFormed'
<1> DEFINE q == [req[r] EXCEPT !.pc = pc]
<1>1. req[r] \in RequestType /\ Formed(req[r])
  BY DEF BillingTypeOK, RequestsFormed
<1>2. q \in RequestType  BY <1>1 DEF RequestType
<1>3. /\ q.pc = pc /\ q.kind = req[r].kind /\ q.tenant = req[r].tenant
      /\ q.items = req[r].items
  BY <1>1 DEF RequestType
<1>4. req' = [req EXCEPT ![r] = q]  BY DEF Goto
<1> HIDE DEF q
<1>5. Formed(q)  BY <1>1, <1>3 DEF Formed
<1>6. QED  BY <1>2, <1>4, <1>5, RequestMoves

(* The steps of a request.                                                 *)
LEMMA RequestStepType ==
  ASSUME BillingTypeOK, RequestsFormed, NEW r \in Requests, RequestStep(r)
  PROVE  BillingTypeOK' /\ RequestsFormed'
<1> USE DEF books, stripe
<1>q. req[r] \in RequestType /\ Formed(req[r])
  BY DEF BillingTypeOK, RequestsFormed
<1>1. CASE Arrive(r)
  <2>1. PICK k \in Kinds, t \in Tenants, n \in 1..Batch, named \in BOOLEAN :
          /\ named \/ k = "start_crawl"
          /\ req' = [req EXCEPT ![r] =
               [pc |-> IF named THEN "plan" ELSE "act", kind |-> k, tenant |-> t,
                tier |-> "starter", items |-> IF k = "apply_fix" THEN n ELSE 0]]
    BY <1>1 DEF Arrive
  <2> DEFINE q == [pc |-> IF named THEN "plan" ELSE "act", kind |-> k, tenant |-> t,
                   tier |-> "starter", items |-> IF k = "apply_fix" THEN n ELSE 0]
  <2>2. q \in RequestType  BY Plans DEF RequestType
  <2>3. Formed(q)  BY Plans DEF Formed
  <2> HIDE DEF q
  <2>4. req' \in [Requests -> RequestType] /\ RequestsFormed'
    BY <2>1, <2>2, <2>3, RequestMoves DEF q
  <2>5. QED  BY <1>1, <2>4 DEF Arrive, BillingTypeOK
<1>2. CASE ReadPlan(r)
  <2>1. req[r].pc = "plan" /\ UNCHANGED <<row, books, stripe>>
    BY <1>2 DEF ReadPlan
  <2>2. misread' \subseteq Tenants
    BY <1>q, <1>2, <2>1 DEF ReadPlan, Unanswered, BillingTypeOK, Formed
  <2>3. \/ Answer(r)
        \/ Goto(r, "act")
        \/ /\ req[r].kind # "multi_site_jobs"
           /\ \E tier \in {row[req[r].tenant].plan_tier, "starter"} :
                req' = [req EXCEPT ![r].pc = "count", ![r].tier = tier]
    BY <1>2 DEF ReadPlan
  <2>4. req' \in [Requests -> RequestType] /\ RequestsFormed'
    <3>1. CASE Answer(r)  BY <3>1, AnswerMoves
    <3>2. CASE Goto(r, "act")  BY <2>1, <3>2, GotoMoves
    <3>3. ASSUME req[r].kind # "multi_site_jobs",
                 NEW tier \in {row[req[r].tenant].plan_tier, "starter"},
                 req' = [req EXCEPT ![r].pc = "count", ![r].tier = tier]
          PROVE  req' \in [Requests -> RequestType] /\ RequestsFormed'
      <4> DEFINE q == [pc |-> "count", kind |-> req[r].kind, tenant |-> req[r].tenant,
                       tier |-> tier, items |-> req[r].items]
      <4>1. tier \in Tiers
        BY <1>q, <2>1, Plans DEF Formed, BillingTypeOK, RowType
      <4>2. q \in RequestType  BY <1>q, <4>1 DEF RequestType
      <4>3. req' = [req EXCEPT ![r] = q]
        <5>1. req \in [Requests -> RequestType]  BY DEF BillingTypeOK
        <5> DEFINE c == [pc |-> "count", kind |-> req[r].kind, tenant |-> req[r].tenant,
                         tier |-> req[r].tier, items |-> req[r].items]
        <5>c. [req[r] EXCEPT !.pc = "count"] = c  BY <1>q DEF RequestType
        <5>t. [c EXCEPT !.tier = tier] = q  OBVIOUS
        <5>2. [[req[r] EXCEPT !.pc = "count"] EXCEPT !.tier = tier] = q
          BY <5>c, <5>t
        <5>3. req' = [req EXCEPT ![r] = [[req[r] EXCEPT !.pc = "count"] EXCEPT !.tier = tier]]
          BY <3>3, <5>1
        <5>4. QED  BY <5>2, <5>3
      <4>4. Formed(q)  BY <1>q, <2>1, <3>3 DEF Formed
      <4> HIDE DEF q
      <4>5. QED  BY <4>2, <4>3, <4>4, RequestMoves
    <3>4. QED  BY <2>3, <3>1, <3>2, <3>3
  <2>5. QED  BY <2>1, <2>2, <2>4 DEF BillingTypeOK
<1>3. CASE CountUsage(r)
  <2>1. req[r].pc = "count" /\ UNCHANGED <<row, books, stripe>>
    BY <1>3 DEF CountUsage
  <2>2. misread' \subseteq Tenants
    BY <1>q, <1>3, <2>1 DEF CountUsage, Unanswered, BillingTypeOK, Formed
  <2>3. req' \in [Requests -> RequestType] /\ RequestsFormed'
    <3>1. CASE Answer(r)  BY <3>1, AnswerMoves
    <3>2. CASE Goto(r, AfterGate(req[r].kind))
      <4>1. \/ AfterGate(req[r].kind) = "act"
            \/ AfterGate(req[r].kind) = "apply" /\ req[r].kind = "apply_fix"
        BY DEF AfterGate
      <4>2. QED  BY <2>1, <3>2, <4>1, GotoMoves
    <3>3. QED  BY <1>3, <3>1, <3>2 DEF CountUsage
  <2>4. QED  BY <2>1, <2>2, <2>3 DEF BillingTypeOK
<1>4. CASE ActElsewhere(r)
  BY <1>4, AnswerMoves DEF ActElsewhere, BillingTypeOK
<1>5. CASE ApplyItem(r)
  <2>1. fixes' \in [Tenants -> 0..MaxFixes] /\ applied' \in [Tenants -> 0..MaxFixes]
    BY <1>5, Plans DEF ApplyItem, MarkDeployed, BillingTypeOK
  <2>2. req' \in [Requests -> RequestType] /\ RequestsFormed'
    <3>1. CASE Answer(r)  BY <3>1, AnswerMoves
    <3>2. CASE req[r].items > 1 /\ req' = [req EXCEPT ![r].items = @ - 1]
      <4> DEFINE q == [pc |-> req[r].pc, kind |-> req[r].kind, tenant |-> req[r].tenant,
                       tier |-> req[r].tier, items |-> req[r].items - 1]
      <4>1. req[r].items - 1 \in 0..Batch /\ req[r].items - 1 # 0
        BY <1>q, <3>2, Plans DEF RequestType
      <4>2. q \in RequestType  BY <1>q, <4>1 DEF RequestType
      <4>3. req' = [req EXCEPT ![r] = q]
        <5>1. [req[r] EXCEPT !.items = @ - 1] = q  BY <1>q DEF RequestType
        <5>2. req' = [req EXCEPT ![r] = [req[r] EXCEPT !.items = @ - 1]]  BY <3>2
        <5>3. QED  BY <5>1, <5>2
      <4>4. Formed(q)  BY <1>q, <4>1 DEF Formed
      <4> HIDE DEF q
      <4>5. QED  BY <4>2, <4>3, <4>4, RequestMoves
    <3>3. QED  BY <1>5, <3>1, <3>2 DEF ApplyItem
  <2>3. QED  BY <1>5, <2>1, <2>2 DEF ApplyItem, BillingTypeOK
<1>6. QED
  BY <1>1, <1>2, <1>3, <1>4, <1>5 DEF RequestStep
-----------------------------------------------------------------------------
(* Every event Stripe sends is one of those the handler is modelled for.   *)
LEMMA EventsTyped ==
  ASSUME NEW t \in Tenants, NEW p \in Tiers, NEW named \in BOOLEAN
  PROVE  /\ Event("completed", t, p, TRUE) \in EventType
         /\ Event("completed", t, "none", TRUE) \in EventType
         /\ Event("deleted", t, "none", named) \in EventType
         /\ Event("updated", t, "none", named) \in EventType
         /\ Event("failed", t, "none", FALSE) \in EventType
  BY DEF EventType, Event

(* So the books keep their types, and requests stay well formed.           *)
THEOREM BillingStepType ==
  BillingTypeOK /\ RequestsFormed /\ [BillingNext]_billingVars
    => BillingTypeOK' /\ RequestsFormed'
<1> SUFFICES ASSUME BillingTypeOK, RequestsFormed, [BillingNext]_billingVars
             PROVE  BillingTypeOK' /\ RequestsFormed'
  OBVIOUS
<1> USE DEF books, stripe
<1>1. ASSUME NEW r \in Requests, RequestStep(r) PROVE BillingTypeOK' /\ RequestsFormed'
  BY <1>1, RequestStepType
<1>2. ASSUME NEW t \in Tenants, StripeStep(t) PROVE BillingTypeOK' /\ RequestsFormed'
  <2>s. sub[t] \in SubType  BY DEF BillingTypeOK
  <2>1. ASSUME NEW s \in SubType, NEW sent \in SUBSET EventType, Stripe(t, s, sent)
        PROVE  BillingTypeOK' /\ RequestsFormed'
    <3>1. sub' \in [Tenants -> SubType] /\ events' \subseteq EventType
      BY <2>1 DEF Stripe, BillingTypeOK
    <3>2. stripes' \in 0..MaxStripe  BY <2>1, Plans DEF Stripe, BillingTypeOK
    <3>3. QED  BY <2>1, <3>1, <3>2 DEF Stripe, BillingTypeOK, RequestsFormed
  <2>2. ASSUME NEW p \in Tiers, NEW onPage \in BOOLEAN, Checkout(t, p, onPage)
        PROVE  BillingTypeOK' /\ RequestsFormed'
    <3>1. [status |-> "active", bought |-> p, page |-> onPage] \in SubType
      BY DEF SubType
    <3>2. {Event("completed", t, IF onPage THEN "none" ELSE p, TRUE)} \in SUBSET EventType
      BY EventsTyped
    <3>3. QED  BY <2>1, <2>2, <3>1, <3>2 DEF Checkout
  <2>3. CASE MissPayment(t)
    <3>1. [sub[t] EXCEPT !.status = "past_due"] \in SubType  BY <2>s DEF SubType
    <3>2. {Event("updated", t, "none", sub[t].page),
           Event("failed", t, "none", FALSE)} \in SUBSET EventType
      BY <2>s, EventsTyped, Plans DEF SubType
    <3>3. QED  BY <2>1, <2>3, <3>1, <3>2 DEF MissPayment
  <2>4. CASE EndSubscription(t)
    <3>1. [sub[t] EXCEPT !.status = "deleted"] \in SubType  BY <2>s DEF SubType
    <3>2. {Event("deleted", t, "none", sub[t].page)} \in SUBSET EventType
      BY <2>s, EventsTyped, Plans DEF SubType
    <3>3. QED  BY <2>1, <2>4, <3>1, <3>2 DEF EndSubscription
  <2>5. QED  BY <1>2, <2>2, <2>3, <2>4 DEF StripeStep
<1>3. ASSUME NEW t \in Tenants, DeployElsewhere(t) \/ Undeploy(t)
      PROVE  BillingTypeOK' /\ RequestsFormed'
  <2>1. fixes' \in [Tenants -> 0..MaxFixes] /\ applied' \in [Tenants -> 0..MaxFixes]
    BY <1>3, Plans DEF DeployElsewhere, Undeploy, BillingTypeOK
  <2>2. QED  BY <1>3, <2>1 DEF DeployElsewhere, Undeploy, BillingTypeOK, RequestsFormed
<1>4. CASE NewMonth
  <2>1. 0 \in 0..MaxFixes  BY Plans
  <2>2. QED  BY <1>4, <2>1 DEF NewMonth, BillingTypeOK, RequestsFormed
<1>5. ASSUME NEW e \in events, Deliver(e) PROVE BillingTypeOK' /\ RequestsFormed'
  <2>1. /\ e \in EventType /\ Understood(e)
        /\ row' = [row EXCEPT ![e.tenant] = Handled(e)]
        /\ events' \subseteq events
    BY <1>5 DEF Deliver, BillingTypeOK
  <2>2. /\ e.tenant \in Tenants
        /\ e.type \in {"completed", "deleted", "updated", "failed"}
        /\ e.type = "completed" => e.plan \in Tiers
    BY <2>1 DEF EventType, Event, Understood
  <2>3. row[e.tenant] \in RowType  BY <2>2 DEF BillingTypeOK
  <2>4. Handled(e) \in RowType
    <3>1. CASE e.type = "completed"
      BY <2>2, <2>3, <3>1 DEF Handled, RowType, Statuses
    <3>2. CASE e.type = "deleted"
      BY <2>3, <3>2 DEF Handled, RowType, Statuses
    <3>3. CASE e.type \notin {"completed", "deleted"}
      <4>1. Handled(e) = [row[e.tenant] EXCEPT !.billing_status = "past_due"]
        BY <3>3 DEF Handled
      <4>2. QED  BY <2>3, <4>1 DEF RowType, Statuses
    <3>4. QED  BY <3>1, <3>2, <3>3
  <2>5. row' \in [Tenants -> RowType]  BY <2>1, <2>4 DEF BillingTypeOK
  <2>6. QED  BY <1>5, <2>1, <2>5 DEF Deliver, BillingTypeOK, RequestsFormed
<1>6. CASE UNCHANGED billingVars
  BY <1>6 DEF billingVars, BillingTypeOK, RequestsFormed
<1>7. QED  BY <1>1, <1>2, <1>3, <1>4, <1>5, <1>6 DEF BillingNext

(* No request is under way at first, and nobody has a subscription.        *)
THEOREM BillingInitType == BillingInit => BillingTypeOK /\ RequestsFormed
<1> SUFFICES ASSUME BillingInit PROVE BillingTypeOK /\ RequestsFormed  OBVIOUS
<1>1. row \in [Tenants -> RowType]
  <2> DEFINE R == {[plan |-> "starter", plan_tier |-> p, billing_status |-> "trialing",
                    customer |-> FALSE] : p \in Tiers}
  <2>1. R \subseteq RowType
    <3> SUFFICES ASSUME NEW p \in Tiers
                 PROVE  [plan |-> "starter", plan_tier |-> p,
                         billing_status |-> "trialing", customer |-> FALSE] \in RowType
      OBVIOUS
    <3>1. QED  BY Plans DEF RowType, Statuses
  <2>2. row \in [Tenants -> R]  BY DEF BillingInit
  <2> HIDE DEF R
  <2>3. QED  BY <2>1, <2>2
<1>2. sub \in [Tenants -> SubType]  BY Plans DEF BillingInit, SubType
<1>3. req \in [Requests -> RequestType] /\ RequestsFormed
  BY IdleFormed DEF BillingInit, RequestsFormed
<1>4. QED  BY <1>1, <1>2, <1>3, Plans DEF BillingInit, BillingTypeOK

(* Every variable keeps its type.                                          *)
THEOREM BillingTyped == BillingSpec => []BillingTypeOK
BY BillingInitType, BillingStepType, PTL DEF BillingSpec
-----------------------------------------------------------------------------
(***************************************************************************)
(* The limit.  A request past the gate holds the items it has left to      *)
(* apply.  What the apply route has deployed and what is held stay         *)
(* together below the limit plus a batch for every request: a request is   *)
(* let pass only while all that is deployed, whoever did it, is below the  *)
(* limit, and that includes what the route deployed.                       *)
(***************************************************************************)
Owed(t) ==
  {x \in Requests \X (1..Batch) :
     /\ req[x[1]].tenant = t /\ req[x[1]].pc = "apply"
     /\ x[2] <= req[x[1]].items}

AllAtOnce == Cardinality(Requests \X (1..Batch))

FixRoom(t) ==
  applied[t] + Cardinality(Owed(t)) <= Cap[row[t].plan_tier]["fixes"] - 1 + AllAtOnce

(* A request for fixes that counts goes by its tenant's tier, if that was  *)
(* read.                                                                   *)
TierKnown ==
  \A r \in Requests :
    req[r].pc = "count" /\ req[r].kind = "apply_fix" =>
      \/ req[r].tier = row[req[r].tenant].plan_tier
      \/ req[r].tenant \in misread

AppliedCounted == \A t \in Tenants : applied[t] <= fixes[t]

Rooms == \A t \in Tenants \ misread : FixRoom(t)

BillingInv == BillingTypeOK /\ RequestsFormed /\ TierKnown /\ AppliedCounted /\ Rooms

(* A part of a finite set is finite and no larger.                         *)
LEMMA Part ==
  ASSUME NEW S, IsFiniteSet(S), NEW T, T \subseteq S
  PROVE  /\ IsFiniteSet(T) /\ Cardinality(T) \in Nat /\ Cardinality(S) \in Nat
         /\ Cardinality(T) <= Cardinality(S)
<1>1. T \in SUBSET S  OBVIOUS
<1>2. QED  BY <1>1, FS_Subset, FS_CardinalityType

(* All the places there are: a batch for every request.                    *)
LEMMA AllFinite ==
  /\ IsFiniteSet(Requests \X (1..Batch)) /\ AllAtOnce \in Nat
  /\ AllAtOnce = Batch * Cardinality(Requests)
<1>1. IsFiniteSet(1..Batch) /\ Cardinality(1..Batch) = Batch
  BY Plans, FS_Interval
<1>2. QED  BY <1>1, Plans, FS_Product, FS_CardinalityType DEF AllAtOnce

(* What is compared are numbers.                                           *)
LEMMA Counted ==
  ASSUME BillingTypeOK, NEW t \in Tenants
  PROVE  /\ IsFiniteSet(Owed(t)) /\ Cardinality(Owed(t)) \in 0..AllAtOnce
         /\ fixes[t] \in Nat /\ applied[t] \in Nat
         /\ row[t].plan_tier \in Tiers /\ Cap[row[t].plan_tier]["fixes"] \in Nat
<1>1. Owed(t) \subseteq Requests \X (1..Batch)  BY DEF Owed
<1>2. IsFiniteSet(Owed(t)) /\ Cardinality(Owed(t)) \in 0..AllAtOnce
  BY <1>1, Part, AllFinite DEF AllAtOnce
<1>3. fixes[t] \in Nat /\ applied[t] \in Nat  BY Plans DEF BillingTypeOK
<1>4. row[t].plan_tier \in Tiers  BY DEF BillingTypeOK, RowType
<1>5. "fixes" \in Resources  BY DEF Resources
<1>6. QED  BY <1>2, <1>3, <1>4, <1>5, Plans

(* A tenant keeps its room when nothing of its own grows.                  *)
LEMMA RoomKept ==
  ASSUME BillingTypeOK, NEW t \in Tenants, FixRoom(t),
         Owed(t)' \subseteq Owed(t), applied'[t] \in Nat, applied'[t] <= applied[t],
         row'[t].plan_tier = row[t].plan_tier
  PROVE  FixRoom(t)'
<1>1. /\ Cardinality(Owed(t)') \in Nat
      /\ Cardinality(Owed(t)') <= Cardinality(Owed(t))
  BY Counted, Part
<1>2. QED  BY <1>1, Counted, AllFinite DEF FixRoom, AllAtOnce

(* What Answer and Goto do to the request, and to no other.                *)
LEMMA Moves ==
  ASSUME BillingTypeOK, NEW r \in Requests, NEW pc
  PROVE  /\ Answer(r) => /\ req'[r].pc = "idle"
                         /\ \A x \in Requests \ {r} : req'[x] = req[x]
         /\ Goto(r, pc) => /\ req'[r].pc = pc /\ req'[r].tenant = req[r].tenant
                           /\ req'[r].items = req[r].items
                           /\ \A x \in Requests \ {r} : req'[x] = req[x]
  BY DEF Answer, Goto, Idle, BillingTypeOK, RequestType

(* A request that moves without passing a gate takes no new place.         *)
LEMMA NoNewPlace ==
  ASSUME BillingTypeOK, NEW r \in Requests, NEW t \in Tenants,
         \A x \in Requests \ {r} : req'[x] = req[x],
         req'[r].pc = "apply" =>
           /\ req[r].pc = "apply" /\ req'[r].tenant = req[r].tenant
           /\ req'[r].items <= req[r].items /\ req'[r].items \in Nat
  PROVE  Owed(t)' \subseteq Owed(t)
<1>1. ASSUME NEW x \in Requests \X (1..Batch), req'[x[1]].tenant = t,
             req'[x[1]].pc = "apply", x[2] <= req'[x[1]].items
      PROVE  req[x[1]].tenant = t /\ req[x[1]].pc = "apply" /\ x[2] <= req[x[1]].items
  <2>1. CASE x[1] # r  BY <1>1, <2>1
  <2>2. CASE x[1] = r
    <3>1. req[r].items \in Nat /\ x[2] \in Nat
      BY Plans DEF BillingTypeOK, RequestType
    <3>2. QED  BY <1>1, <2>2, <3>1
  <2>3. QED  BY <2>1, <2>2
<1>2. QED  BY <1>1 DEF Owed

(* The steps of a request that neither count nor apply.                    *)
LEMMA QuietStep ==
  ASSUME BillingInv, BillingTypeOK', NEW r \in Requests,
         Arrive(r) \/ ReadPlan(r) \/ ActElsewhere(r)
  PROVE  TierKnown' /\ AppliedCounted' /\ Rooms'
<1>1. /\ fixes' = fixes /\ applied' = applied /\ row' = row
      /\ misread \subseteq misread'
  BY DEF Arrive, ReadPlan, ActElsewhere, Unanswered, books
<1>2. /\ \A x \in Requests \ {r} : req'[x] = req[x]
      /\ req'[r].pc # "apply"
      /\ req'[r].pc = "count" /\ req'[r].kind = "apply_fix" =>
           \/ req'[r].tier = row[req'[r].tenant].plan_tier
           \/ req'[r].tenant \in misread'
  <2>t. req \in [Requests -> RequestType] /\ BillingTypeOK
    BY DEF BillingInv, BillingTypeOK
  <2>1. CASE Arrive(r)
    <3>1. PICK k \in Kinds, t \in Tenants, n \in 1..Batch, named \in BOOLEAN :
            req' = [req EXCEPT ![r] =
              [pc |-> IF named THEN "plan" ELSE "act", kind |-> k, tenant |-> t,
               tier |-> "starter", items |-> IF k = "apply_fix" THEN n ELSE 0]]
      BY <2>1 DEF Arrive
    <3>2. req'[r].pc \in {"plan", "act"}  BY <2>t, <3>1
    <3>3. QED  BY <2>t, <3>1, <3>2
  <2>2. CASE ReadPlan(r)
    <3>1. PICK answered \in BOOLEAN :
            /\ Unanswered(r, answered)
            /\ \/ Answer(r)
               \/ Goto(r, "act")
               \/ req' = [req EXCEPT ![r].pc = "count",
                    ![r].tier = IF answered THEN row[req[r].tenant].plan_tier
                                ELSE "starter"]
      BY <2>2 DEF ReadPlan
    <3>2. CASE Answer(r)  BY <2>t, <3>2, Moves
    <3>3. CASE Goto(r, "act")  BY <2>t, <3>3, Moves
    <3>4. CASE req' = [req EXCEPT ![r].pc = "count",
                 ![r].tier = IF answered THEN row[req[r].tenant].plan_tier ELSE "starter"]
      <4>1. /\ \A x \in Requests \ {r} : req'[x] = req[x]
            /\ req'[r].pc = "count" /\ req'[r].tenant = req[r].tenant
            /\ req'[r].kind = req[r].kind
            /\ req'[r].tier = IF answered THEN row[req[r].tenant].plan_tier ELSE "starter"
        BY <2>t, <3>4 DEF RequestType
      <4>2. answered \/ req[r].kind # "apply_fix" \/ req[r].tenant \in misread'
        BY <3>1 DEF Unanswered
      <4>3. QED  BY <4>1, <4>2
    <3>5. QED  BY <3>1, <3>2, <3>3, <3>4
  <2>3. CASE ActElsewhere(r)
    <3>1. Answer(r)  BY <2>3 DEF ActElsewhere
    <3>2. QED  BY <2>t, <3>1, Moves
  <2>4. QED  BY <2>1, <2>2, <2>3
<1>3. TierKnown'  BY <1>1, <1>2 DEF BillingInv, TierKnown
<1>4. ASSUME NEW t \in Tenants, t \notin misread'  PROVE FixRoom(t)'
  <2>1. FixRoom(t) /\ BillingTypeOK  BY <1>1, <1>4 DEF BillingInv, Rooms
  <2>2. Owed(t)' \subseteq Owed(t)  BY <1>2, <2>1, NoNewPlace
  <2>3. applied'[t] \in Nat /\ applied'[t] <= applied[t]  BY <1>1, <2>1, Counted
  <2>4. QED  BY <1>1, <2>1, <2>2, <2>3, RoomKept
<1>5. QED  BY <1>1, <1>3, <1>4 DEF BillingInv, AppliedCounted, Rooms

(* A request for fixes that finds the count below the limit takes its      *)
(* places: what the route deployed is no more than what was counted, and   *)
(* there are no more places than AllAtOnce.                                *)
LEMMA CountStep ==
  ASSUME BillingInv, BillingTypeOK', NEW r \in Requests, CountUsage(r)
  PROVE  TierKnown' /\ AppliedCounted' /\ Rooms'
<1> DEFINE v == req[r].tenant
           k == req[r].kind
<1>t. req \in [Requests -> RequestType] /\ BillingTypeOK
  BY DEF BillingInv, BillingTypeOK
<1>1. /\ fixes' = fixes /\ applied' = applied /\ row' = row
      /\ misread \subseteq misread' /\ req[r].pc = "count"
  BY DEF CountUsage, Unanswered, books
<1>f. v \in Tenants
  BY <1>t, <1>1 DEF BillingInv, RequestsFormed, Formed
<1>2. PICK answered \in BOOLEAN :
        /\ Unanswered(r, answered)
        /\ \/ Answer(r)
           \/ /\ (IF answered THEN Used(v, Resource(k)) ELSE 0) < Cap[req[r].tier][Resource(k)]
              /\ Goto(r, AfterGate(k))
  BY DEF CountUsage
<1>3. /\ \A x \in Requests \ {r} : req'[x] = req[x]
      /\ \/ req'[r].pc = "idle"
         \/ req'[r].pc = AfterGate(k) /\ req'[r].tenant = v
  BY <1>t, <1>2, Moves
<1>4. \/ AfterGate(k) = "act"
      \/ k = "apply_fix" /\ AfterGate(k) = "apply"
  BY DEF AfterGate
<1>u. answered \/ k # "apply_fix" \/ v \in misread'
  BY <1>2 DEF Unanswered
<1> HIDE DEF v, k
<1>5. TierKnown'
  <2>1. req'[r].pc # "count"  BY <1>3, <1>4
  <2>2. QED  BY <1>1, <1>3, <2>1 DEF BillingInv, TierKnown
<1>6. ASSUME NEW t \in Tenants, t \notin misread'  PROVE FixRoom(t)'
  <2>1. FixRoom(t)  BY <1>1, <1>6 DEF BillingInv, Rooms
  <2>2. CASE t # v \/ req'[r].pc # "apply"
    <3>1. Owed(t)' \subseteq Owed(t)
      BY <1>3, <1>4, <2>2 DEF Owed
    <3>2. applied'[t] \in Nat /\ applied'[t] <= applied[t]  BY <1>1, <1>t, Counted
    <3>3. QED  BY <1>t, <1>1, <2>1, <3>1, <3>2, RoomKept
  <2>3. CASE t = v /\ req'[r].pc = "apply"
    <3>1. k = "apply_fix" /\ answered  BY <1>3, <1>4, <1>6, <1>u, <2>3
    <3>2. fixes[t] < Cap[req[r].tier]["fixes"]
      <4>1. ~Answer(r)  BY <1>t, <2>3, Moves
      <4>2. Resource(k) = "fixes"  BY <3>1 DEF Resource
      <4>3. Used(v, "fixes") = fixes[t]  BY <2>3 DEF Used
      <4>4. QED  BY <1>2, <3>1, <4>1, <4>2, <4>3
    <3>3. req[r].tier = row[t].plan_tier
      BY <1>1, <1>6, <2>3, <3>1 DEF BillingInv, TierKnown, v, k
    <3>4. applied[t] <= fixes[t]  BY DEF BillingInv, AppliedCounted
    <3>5. Cardinality(Owed(t)') \in 0..AllAtOnce
      <4>1. Owed(t)' \subseteq Requests \X (1..Batch)  BY DEF Owed
      <4>2. QED  BY <4>1, Part, AllFinite DEF AllAtOnce
    <3>6. QED
      BY <1>t, <1>1, <3>2, <3>3, <3>4, <3>5, Counted, AllFinite DEF FixRoom, AllAtOnce
  <2>4. QED  BY <2>2, <2>3
<1>7. QED  BY <1>1, <1>5, <1>6 DEF BillingInv, AppliedCounted, Rooms

(* An item applied leaves one item fewer to apply.                         *)
LEMMA ApplyStep ==
  ASSUME BillingInv, BillingTypeOK', NEW r \in Requests, ApplyItem(r)
  PROVE  TierKnown' /\ AppliedCounted' /\ Rooms'
<1> DEFINE v == req[r].tenant
           n == req[r].items
           x == <<r, n>>
<1>t. req \in [Requests -> RequestType] /\ BillingTypeOK
  BY DEF BillingInv, BillingTypeOK
<1>1. /\ req[r].pc = "apply" /\ row' = row /\ misread' = misread
      /\ MarkDeployed(v) \/ (fixes' = fixes /\ applied' = applied)
      /\ IF n > 1 THEN req' = [req EXCEPT ![r].items = @ - 1] ELSE Answer(r)
  BY DEF ApplyItem, books
<1>f. v \in Tenants /\ n \in 1..Batch
  BY <1>t, <1>1, Plans DEF BillingInv, RequestsFormed, Formed, RequestType
<1>2. /\ \A y \in Requests \ {r} : req'[y] = req[y]
      /\ \/ req'[r].pc = "idle"
         \/ /\ n > 1 /\ req'[r].pc = "apply" /\ req'[r].tenant = v
            /\ req'[r].items = n - 1
  <2>1. CASE n > 1
    <3>1. req' = [req EXCEPT ![r] = [req[r] EXCEPT !.items = @ - 1]]  BY <1>1, <2>1
    <3>2. /\ [req[r] EXCEPT !.items = @ - 1].items = n - 1
          /\ [req[r] EXCEPT !.items = @ - 1].pc = "apply"
          /\ [req[r] EXCEPT !.items = @ - 1].tenant = v
      BY <1>t, <1>1 DEF RequestType
    <3>3. QED  BY <1>t, <2>1, <3>1, <3>2
  <2>2. CASE ~(n > 1)  BY <1>t, <1>1, <2>2, Moves
  <2>3. QED  BY <2>1, <2>2
<1> HIDE DEF v, n
<1>4. TierKnown'  BY <1>1, <1>2 DEF BillingInv, TierKnown
<1>5. AppliedCounted'
  <2>1. \A t \in Tenants : applied[t] \in Nat /\ fixes[t] \in Nat /\ applied[t] <= fixes[t]
    BY <1>t, Counted DEF BillingInv, AppliedCounted
  <2>2. QED  BY <1>t, <1>1, <1>f, <2>1 DEF MarkDeployed, AppliedCounted, BillingTypeOK
<1>6. ASSUME NEW t \in Tenants, t \notin misread'  PROVE FixRoom(t)'
  <2>1. FixRoom(t)  BY <1>1, <1>6 DEF BillingInv, Rooms
  <2>2. Owed(t)' \subseteq Owed(t)
    BY <1>t, <1>1, <1>2, <1>f, NoNewPlace, Plans DEF v, n
  <2>3. applied'[t] \in Nat /\ applied'[t] <= applied[t] + 1
    BY <1>t, <1>1, Counted, Plans DEF MarkDeployed, BillingTypeOK
  <2>4. CASE applied'[t] <= applied[t]
    BY <1>t, <1>1, <2>1, <2>2, <2>3, <2>4, RoomKept
  <2>5. CASE ~(applied'[t] <= applied[t])
    <3>1. t = v
      BY <1>t, <1>1, <2>5, Counted DEF MarkDeployed, BillingTypeOK
    <3>2. x \in Owed(t)
      BY <1>1, <1>f, <3>1, Plans DEF Owed, v, n
    <3>3. x \notin Owed(t)'
      BY <1>2, <1>f, Plans DEF Owed
    <3>4. Owed(t)' \subseteq Owed(t) \ {x}  BY <2>2, <3>3
    <3>5. /\ Cardinality(Owed(t)') \in Nat
          /\ Cardinality(Owed(t)') <= Cardinality(Owed(t)) - 1
      <4>1. /\ IsFiniteSet(Owed(t) \ {x})
            /\ Cardinality(Owed(t) \ {x}) = Cardinality(Owed(t)) - 1
        BY <1>t, <3>2, Counted, FS_RemoveElement
      <4>2. QED  BY <3>4, <4>1, Part
    <3>6. QED
      BY <1>t, <1>1, <2>1, <2>3, <3>5, Counted, AllFinite DEF FixRoom, AllAtOnce
  <2>6. QED  BY <2>4, <2>5
<1>7. QED  BY <1>1, <1>4, <1>5, <1>6 DEF Rooms

(* Stripe, the webhook, other commands and the clock leave every request   *)
(* where it is and what the apply route deployed no larger.                *)
LEMMA OtherStep ==
  ASSUME BillingInv, BillingTypeOK',
         \/ \E t \in Tenants : StripeStep(t) \/ DeployElsewhere(t) \/ Undeploy(t)
         \/ NewMonth
         \/ \E e \in events : Deliver(e)
         \/ UNCHANGED billingVars
  PROVE  TierKnown' /\ AppliedCounted' /\ Rooms'
<1>t. BillingTypeOK  BY DEF BillingInv
<1>1. req' = req /\ misread' = misread
  BY DEF StripeStep, Checkout, MissPayment, EndSubscription, Stripe, DeployElsewhere,
         Undeploy, NewMonth, Deliver, billingVars
<1>2. \A t \in Tenants : row'[t].plan_tier = row[t].plan_tier
  <2>1. CASE \E e \in events : Deliver(e)
    <3>1. PICK e \in events : row' = [row EXCEPT ![e.tenant] = Handled(e)]
      BY <2>1 DEF Deliver
    <3>2. e.tenant \in Tenants /\ row[e.tenant] \in RowType
      BY <1>t DEF BillingTypeOK, EventType
    <3>3. Handled(e).plan_tier = row[e.tenant].plan_tier
      BY <3>2 DEF Handled, RowType
    <3>4. QED  BY <1>t, <3>1, <3>2, <3>3 DEF BillingTypeOK
  <2>2. CASE ~ \E e \in events : Deliver(e)
    <3>1. row' = row
      BY <2>2 DEF StripeStep, Checkout, MissPayment, EndSubscription, Stripe,
                  DeployElsewhere, Undeploy, NewMonth, billingVars
    <3>2. QED  BY <3>1
  <2>3. QED  BY <2>1, <2>2
<1>3. \A t \in Tenants : /\ applied'[t] \in Nat /\ applied'[t] <= applied[t]
                         /\ applied'[t] <= fixes'[t]
  <2>n. \A t \in Tenants : /\ applied[t] \in Nat /\ fixes[t] \in Nat
                           /\ applied[t] <= fixes[t]
    BY <1>t, Counted DEF BillingInv, AppliedCounted
  <2>1. CASE \E t \in Tenants : DeployElsewhere(t) \/ Undeploy(t)
    BY <1>t, <2>n, <2>1 DEF DeployElsewhere, Undeploy, BillingTypeOK
  <2>2. CASE NewMonth  BY <2>n, <2>2 DEF NewMonth
  <2>3. CASE ~NewMonth /\ ~ \E t \in Tenants : DeployElsewhere(t) \/ Undeploy(t)
    <3>1. fixes' = fixes /\ applied' = applied
      BY <2>3 DEF StripeStep, Checkout, MissPayment, EndSubscription, Stripe, Deliver,
                  billingVars, books
    <3>2. QED  BY <2>n, <3>1
  <2>4. QED  BY <2>1, <2>2, <2>3
<1>4. TierKnown'
  <2>1. ASSUME NEW r \in Requests, req[r].pc = "count"  PROVE  req[r].tenant \in Tenants
    BY <2>1 DEF BillingInv, RequestsFormed, Formed
  <2>2. QED  BY <1>1, <1>2, <2>1 DEF BillingInv, TierKnown
<1>5. ASSUME NEW t \in Tenants, t \notin misread'  PROVE FixRoom(t)'
  <2>1. FixRoom(t)  BY <1>1, <1>5 DEF BillingInv, Rooms
  <2>2. Owed(t)' = Owed(t)  BY <1>1 DEF Owed
  <2>3. QED  BY <1>t, <1>2, <1>3, <2>1, <2>2, RoomKept
<1>6. QED  BY <1>3, <1>4, <1>5 DEF AppliedCounted, Rooms

(* So every step leaves what is deployed and what is held within the room. *)
THEOREM BillingStepInv == BillingInv /\ [BillingNext]_billingVars => BillingInv'
<1> SUFFICES ASSUME BillingInv, [BillingNext]_billingVars PROVE BillingInv'  OBVIOUS
<1>1. BillingTypeOK' /\ RequestsFormed'  BY BillingStepType DEF BillingInv
<1>2. ASSUME NEW r \in Requests, RequestStep(r)  PROVE TierKnown' /\ AppliedCounted' /\ Rooms'
  BY <1>1, <1>2, QuietStep, CountStep, ApplyStep DEF RequestStep
<1>3. TierKnown' /\ AppliedCounted' /\ Rooms'
  BY <1>1, <1>2, OtherStep DEF BillingNext
<1>4. QED  BY <1>1, <1>3 DEF BillingInv

(* Nothing is deployed and nothing held at first.                          *)
THEOREM BillingInitInv == BillingInit => BillingInv
<1> SUFFICES ASSUME BillingInit PROVE BillingInv  OBVIOUS
<1>1. BillingTypeOK /\ RequestsFormed  BY BillingInitType
<1>2. \A r \in Requests : req[r].pc = "idle"  BY DEF BillingInit, Idle
<1>3. TierKnown  BY <1>2 DEF TierKnown
<1>4. AppliedCounted  BY DEF AppliedCounted, BillingInit
<1>5. ASSUME NEW t \in Tenants PROVE FixRoom(t)
  <2>1. Owed(t) = {} /\ applied[t] = 0  BY <1>2 DEF Owed, BillingInit
  <2>2. row[t].plan_tier \in Tiers  BY <1>1, Counted
  <2>3. Cap[row[t].plan_tier]["fixes"] >= 1 /\ Cap[row[t].plan_tier]["fixes"] \in Nat
    BY <2>2, BillingAssumption DEF Resources
  <2>4. QED  BY <2>1, <2>3, AllFinite, FS_EmptySet DEF FixRoom
<1>6. QED  BY <1>1, <1>3, <1>4, <1>5 DEF BillingInv, Rooms

(* The invariant holds.                                                    *)
THEOREM BillingInvariant == BillingSpec => []BillingInv
BY BillingInitInv, BillingStepInv, PTL DEF BillingSpec

(* However many requests pass the gate together and whatever others deploy *)
(* and undo, the apply route deploys less in a month than the plan and one *)
(* full batch for each request.                                            *)
THEOREM FixesCapped == BillingSpec => []FixCap
<1>1. BillingInv => FixCap
  <2> SUFFICES ASSUME BillingInv, NEW t \in Tenants \ misread
               PROVE  applied[t] < Cap[row[t].plan_tier]["fixes"] + Batch * Cardinality(Requests)
    BY DEF FixCap
  <2>1. FixRoom(t) /\ BillingTypeOK  BY DEF BillingInv, Rooms
  <2>2. applied[t] < Cap[row[t].plan_tier]["fixes"] + AllAtOnce
    BY <2>1, Counted, AllFinite DEF FixRoom
  <2>3. QED  BY <2>2, AllFinite
<1>2. QED  BY <1>1, BillingInvariant, PTL
=============================================================================
