SPECIFICATION BillingSpec
CHECK_DEADLOCK FALSE
CONSTANTS
  t1 = t1  r1 = r1  NoTenant = NoTenant
  Tenants = {t1}  Requests = {r1}
  Kinds = {"add_site", "multi_site_jobs"}
  Tiers = {"starter", "agency", "pro", "enterprise"}  Cap <- Caps  MultiSite = {"agency", "enterprise"}
  Batch = 1  MaxFixes = 1  MaxStripe = 2
INVARIANT PaidPlanIsGated
