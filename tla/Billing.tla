------------------------------ MODULE Billing ------------------------------
(***************************************************************************)
(* Who may do what: the billing gate (tools/billing), the routes that ask  *)
(* it (onboarding/register, schedule, apply, jobs/orchestrate) and the     *)
(* Stripe webhook that keeps the tenant rows (api/billing).                *)
(*                                                                         *)
(* A gate reads the tenant's row, then counts, and the route acts some     *)
(* awaits later; nothing is locked in between.  A Supabase read that fails *)
(* does not throw: the row reads as a starter's and the count as zero.     *)
(* Only deployed fixes are really counted: `sites' has no column id and    *)
(* `jobs' no tenant_id, so the other two counts are always refused.        *)
(* Stripe delivers an event until a handler answers 200, in any order and  *)
(* possibly again.                                                         *)
(***************************************************************************)
EXTENDS Naturals, FiniteSets

CONSTANTS
  Tenants,
  Requests,   \* requests the dashboard serves at one time
  Kinds,      \* which of the gated routes are called
  Tiers,      \* plan tiers a row may hold
  Cap,        \* Cap[tier][resource], the limits of PLAN_DEFINITIONS
  MultiSite,  \* tiers with multi_site_jobs
  Batch,      \* most item_ids of one apply request (50)
  NoTenant,
  MaxFixes,   \* bound: deployed fixes of a tenant in a month
  MaxStripe   \* bound: things that happen to a subscription

Resources == {"sites", "crawls", "fixes"}
AllKinds  == {"add_site", "start_crawl", "apply_fix", "multi_site_jobs"}
Statuses  == {"active", "inactive", "past_due", "canceled", "trialing"}

ASSUME BillingAssumption ==
  /\ IsFiniteSet(Tenants) /\ IsFiniteSet(Requests)
  /\ NoTenant \notin Tenants
  /\ Kinds \subseteq AllKinds
  /\ "starter" \in Tiers /\ MultiSite \subseteq Tiers
  /\ Cap \in [Tiers -> [Resources -> Nat \ {0}]]
  /\ \A p \in Tiers, s \in Resources : Cap["starter"][s] <= Cap[p][s]
  /\ {Batch, MaxFixes, MaxStripe} \subseteq Nat

VARIABLES
  row,      \* tenants: plan, plan_tier, billing_status, a Stripe customer
  fixes,    \* action_queue rows marked deployed and touched this month
  applied,  \* history: those of them that the apply route marked this month
  req,      \* requests in flight
  misread,  \* history: tenants one of whose gates for fixes got no answer
  sub,      \* Stripe's side: the subscription and what was bought
  events,   \* events Stripe has to deliver
  stripes   \* how much of the bound is used

books == <<fixes, applied>>
stripe == <<sub, events, stripes>>
billingVars == <<row, books, req, misread, stripe>>

RowType == [plan : Tiers, plan_tier : Tiers, billing_status : Statuses,
            customer : BOOLEAN]
RequestType ==
  [pc : {"idle", "plan", "count", "act", "apply"},
   kind : AllKinds, tenant : Tenants \cup {NoTenant}, tier : Tiers, items : 0..Batch]
SubType == [status : {"none", "active", "past_due", "deleted"},
            bought : Tiers, page : BOOLEAN]
Event(type, t, plan, named) ==
  [type |-> type, tenant |-> t, plan |-> plan, named |-> named]

EventType ==
  {e \in [type : {"completed", "deleted", "updated", "failed"}, tenant : Tenants,
          plan : Tiers \cup {"none"}, named : BOOLEAN] :
     /\ e.type = "completed" => e.named
     /\ e.type # "completed" => e.plan = "none"
     /\ e.type = "failed" => ~e.named}

BillingTypeOK ==
  /\ row \in [Tenants -> RowType]
  /\ fixes \in [Tenants -> 0..MaxFixes] /\ applied \in [Tenants -> 0..MaxFixes]
  /\ req \in [Requests -> RequestType]
  /\ misread \subseteq Tenants
  /\ sub \in [Tenants -> SubType]
  /\ events \subseteq EventType
  /\ stripes \in 0..MaxStripe

Idle == [pc |-> "idle", kind |-> "add_site", tenant |-> NoTenant,
         tier |-> "starter", items |-> 0]

BillingInit ==
  /\ row \in [Tenants -> {[plan |-> "starter", plan_tier |-> p,
                           billing_status |-> "trialing",
                           customer |-> FALSE] : p \in Tiers}]
  /\ fixes = [t \in Tenants |-> 0] /\ applied = [t \in Tenants |-> 0]
  /\ req = [r \in Requests |-> Idle]
  /\ misread = {}
  /\ sub = [t \in Tenants |-> [status |-> "none", bought |-> "starter",
                               page |-> FALSE]]
  /\ events = {} /\ stripes = 0
----------------------------------------------------------------------------
(* The gate.                                                               *)

Goto(r, pc) == req' = [req EXCEPT ![r].pc = pc]
Answer(r)   == req' = [req EXCEPT ![r] = Idle]

Resource(k) == CASE k = "add_site"    -> "sites"
                 [] k = "start_crawl" -> "crawls"
                 [] OTHER             -> "fixes"

(* What the count of a resource answers: one the schema refuses is zero.   *)
Used(t, s) == IF s = "fixes" THEN fixes[t] ELSE 0

(* checkBillingGate on the status alone: `canceled' stops everything,      *)
(* `past_due' everything but fixes, anything else nothing.                 *)
Blocked(status, k) ==
  \/ status = "canceled"
  \/ status = "past_due" /\ k # "apply_fix"

AfterGate(k) == IF k = "apply_fix" THEN "apply" ELSE "act"

(* The schedule route asks the gate only when the request names a tenant   *)
(* in a header: the site row it selects has no tenant_id.                  *)
Arrive(r) ==
  /\ req[r].pc = "idle"
  /\ \E k \in Kinds, t \in Tenants, n \in 1..Batch, named \in BOOLEAN :
       /\ named \/ k = "start_crawl"
       /\ req' = [req EXCEPT ![r] =
            [pc |-> IF named THEN "plan" ELSE "act", kind |-> k, tenant |-> t,
             tier |-> "starter", items |-> IF k = "apply_fix" THEN n ELSE 0]]
  /\ UNCHANGED <<row, books, misread, stripe>>

Unanswered(r, answered) ==
  misread' = IF answered \/ req[r].kind # "apply_fix" THEN misread
             ELSE misread \cup {req[r].tenant}

(* getTenantPlan, the status checks and the one feature flag a route asks  *)
(* for.                                                                    *)
ReadPlan(r) ==
  LET k == req[r].kind  t == req[r].tenant IN
  /\ req[r].pc = "plan"
  /\ \E answered \in BOOLEAN :
       LET tier   == IF answered THEN row[t].plan_tier ELSE "starter"
           status == IF answered THEN row[t].billing_status ELSE "active"
       IN /\ Unanswered(r, answered)
          /\ CASE Blocked(status, k) -> Answer(r)
               [] ~Blocked(status, k) /\ k = "multi_site_jobs" ->
                    IF tier \in MultiSite THEN Goto(r, "act") ELSE Answer(r)
               [] OTHER -> req' = [req EXCEPT ![r].pc = "count", ![r].tier = tier]
  /\ UNCHANGED <<row, books, stripe>>

\* the limit itself is still within the limit
CountUsage_Inclusive(r) ==
  LET k == req[r].kind  t == req[r].tenant IN
  /\ req[r].pc = "count"
  /\ \E answered \in BOOLEAN :
       LET current == IF answered THEN Used(t, Resource(k)) ELSE 0 IN
       /\ Unanswered(r, answered)
       /\ IF current <= Cap[req[r].tier][Resource(k)]
          THEN Goto(r, AfterGate(k)) ELSE Answer(r)
  /\ UNCHANGED <<row, books, stripe>>

(* checkUsageLimit: a count that failed is zero.                           *)
CountUsage(r) ==
  LET k == req[r].kind  t == req[r].tenant IN
  /\ req[r].pc = "count"
  /\ \E answered \in BOOLEAN :
       LET current == IF answered THEN Used(t, Resource(k)) ELSE 0 IN
       /\ Unanswered(r, answered)
       /\ IF current < Cap[req[r].tier][Resource(k)]
          THEN Goto(r, AfterGate(k)) ELSE Answer(r)
  /\ UNCHANGED <<row, books, stripe>>
----------------------------------------------------------------------------
(* What the routes do once the gate let them pass.                         *)

(* The other routes leave nothing a gate counts.  register's lookup and    *)
(* its insert name columns `sites' does not have and fail; schedule's job  *)
(* (JobQueue) carries no tenant; orchestrate's inserts are refused.        *)
ActElsewhere(r) ==
  /\ req[r].pc = "act"
  /\ Answer(r)
  /\ UNCHANGED <<row, books, misread, stripe>>

(* The apply route marks one more row deployed, which may have been marked *)
(* by someone else since it was loaded.                                    *)
MarkDeployed(t) ==
  /\ applied[t] < MaxFixes /\ applied' = [applied EXCEPT ![t] = @ + 1]
  /\ \/ fixes[t] < MaxFixes /\ fixes' = [fixes EXCEPT ![t] = @ + 1]
     \/ applied[t] < fixes[t] /\ UNCHANGED fixes

\* the loop runs once too often
ApplyItem_OneMore(r) ==
  LET t == req[r].tenant IN
  /\ req[r].pc = "apply"
  /\ MarkDeployed(t) \/ UNCHANGED books
  /\ IF req[r].items >= 0
     THEN req' = [req EXCEPT ![r].items = @ - 1] ELSE Answer(r)
  /\ UNCHANGED <<row, misread, stripe>>

(* One turn of the loop over the items, each applied and marked deployed   *)
(* or failed.                                                              *)
ApplyItem(r) ==
  LET t == req[r].tenant IN
  /\ req[r].pc = "apply"
  /\ MarkDeployed(t) \/ UNCHANGED books
  /\ IF req[r].items > 1
     THEN req' = [req EXCEPT ![r].items = @ - 1] ELSE Answer(r)
  /\ UNCHANGED <<row, misread, stripe>>

(* optimize, promote and the Approve button mark rows deployed too, and a  *)
(* row of an earlier month counts again when something touches it; no gate *)
(* stands before any of them.                                              *)
DeployElsewhere(t) ==
  /\ fixes[t] < MaxFixes
  /\ fixes' = [fixes EXCEPT ![t] = @ + 1]
  /\ UNCHANGED <<row, applied, req, misread, stripe>>

(* A rolled back or re-marked row, whoever deployed it, is no longer       *)
(* counted.                                                                *)
Undeploy(t) ==
  /\ fixes[t] > 0
  /\ fixes' = [fixes EXCEPT ![t] = @ - 1]
  /\ \/ applied[t] > 0 /\ applied' = [applied EXCEPT ![t] = @ - 1]
     \/ applied[t] < fixes[t] /\ UNCHANGED applied
  /\ UNCHANGED <<row, req, misread, stripe>>

(* A new month counts from nothing.                                        *)
NewMonth ==
  /\ \E t \in Tenants : fixes[t] > 0
  /\ fixes' = [t \in Tenants |-> 0] /\ applied' = [t \in Tenants |-> 0]
  /\ UNCHANGED <<row, req, misread, stripe>>
----------------------------------------------------------------------------
(* Stripe.  The billing page's checkout names the tenant in the session    *)
(* and the subscription but no plan; create-checkout-session names tenant  *)
(* and plan, in the session only.                                          *)

Stripe(t, s, sent) ==
  /\ stripes < MaxStripe /\ stripes' = stripes + 1
  /\ sub' = [sub EXCEPT ![t] = s]
  /\ events' = events \cup sent
  /\ UNCHANGED <<row, books, req, misread>>

Checkout(t, p, page) ==
  /\ p \in IF page THEN {"pro", "agency"} ELSE {"starter", "pro", "enterprise"}
  /\ sub[t].status \in {"none", "deleted"}
  /\ Stripe(t, [status |-> "active", bought |-> p, page |-> page],
            {Event("completed", t, IF page THEN "none" ELSE p, TRUE)})

MissPayment(t) ==
  /\ sub[t].status = "active"
  /\ Stripe(t, [sub[t] EXCEPT !.status = "past_due"],
            {Event("updated", t, "none", sub[t].page),
             Event("failed", t, "none", FALSE)})

EndSubscription(t) ==
  /\ sub[t].status \in {"active", "past_due"}
  /\ Stripe(t, [sub[t] EXCEPT !.status = "deleted"],
            {Event("deleted", t, "none", sub[t].page)})

\* the tenant must be named in the metadata
Resolved_ByName(e) == e.named

(* resolveTenantId: the tenant an event names, or the one whose row has    *)
(* the customer; a failed invoice is always looked up by customer.         *)
Resolved(e) == e.named \/ row[e.tenant].customer

(* What handleWebhook makes of the row.                                    *)
Handled(e) ==
  CASE e.type = "completed" ->
         [row[e.tenant] EXCEPT !.plan = e.plan, !.billing_status = "active",
                               !.customer = TRUE]
    [] e.type = "deleted" -> [row[e.tenant] EXCEPT !.billing_status = "inactive"]
    [] OTHER -> [row[e.tenant] EXCEPT !.billing_status = "past_due"]

Understood(e) == IF e.type = "completed" THEN e.plan # "none" ELSE Resolved(e)

(* A delivery that is handled; Stripe may not see the answer and deliver   *)
(* the event again.  One that is not understood is answered 500 and stays. *)
Deliver(e) ==
  /\ e \in events /\ Understood(e)
  /\ row' = [row EXCEPT ![e.tenant] = Handled(e)]
  /\ events' \in {events, events \ {e}}
  /\ UNCHANGED <<books, req, misread, sub, stripes>>
----------------------------------------------------------------------------
RequestStep(r) ==
  \/ Arrive(r) \/ ReadPlan(r) \/ CountUsage(r)
  \/ ActElsewhere(r) \/ ApplyItem(r)

StripeStep(t) ==
  \/ \E p \in Tiers, page \in BOOLEAN : Checkout(t, p, page)
  \/ MissPayment(t)
  \/ EndSubscription(t)

BillingNext ==
  \/ \E r \in Requests : RequestStep(r)
  \/ \E t \in Tenants : StripeStep(t) \/ DeployElsewhere(t) \/ Undeploy(t)
  \/ NewMonth
  \/ \E e \in events : Deliver(e)

BillingSpec == BillingInit /\ [][BillingNext]_billingVars

(* Stripe repeats a delivery until it sees it answered.                    *)
Acknowledge(e) == Deliver(e) /\ events' = events \ {e}
BillingFairness == \A e \in EventType : WF_billingVars(Acknowledge(e))
----------------------------------------------------------------------------
(* The gate counts once, the route then applies up to Batch items, and     *)
(* requests that were counted together all go on: what the apply route     *)
(* deploys in a month stays below the limit plus one full batch for every  *)
(* request at once, whatever other commands deploy and undo meanwhile, as  *)
(* long as every gate for fixes of the tenant got its answers              *)
(* (apply/[siteId]/route.ts:121).                                          *)
FixCap ==
  \A t \in Tenants \ misread :
    applied[t] < Cap[row[t].plan_tier]["fixes"] + Batch * Cardinality(Requests)

(* The end of a subscription sold through create-checkout-session, which   *)
(* names no tenant, is handled in the end even when Stripe delivers it     *)
(* before the checkout that tells whose customer it is (handler.ts:252).   *)
EndIsHandled ==
  \A t \in Tenants : LET ended == Event("deleted", t, "none", FALSE) IN
    ended \in events ~> ended \notin events

Delivered(t) == \A e \in events : e.tenant # t

(* The plan a tenant pays for is the plan the gate goes by, once Stripe's  *)
(* events are handled: "plan / billing_status fields drive site-creation   *)
(* gating" (apps/dashboard/supabase/migrations/011_create_tenants.sql:4).  *)
PaidPlanIsGated ==
  \A t \in Tenants :
    sub[t].status = "active" /\ Delivered(t) => row[t].plan_tier = sub[t].bought
=============================================================================
