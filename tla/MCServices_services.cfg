SPECIFICATION Spec
CHECK_DEADLOCK FALSE
CONSTANTS
  t1 = t1  r1 = r1  r2 = r2  NoTenant = NoTenant
  Tenants = {t1}  Requests = {r1, r2}
  Kinds = {"add_site", "start_crawl", "apply_fix", "multi_site_jobs"}
  Tiers = {"starter", "agency"}  Cap <- Caps  MultiSite = {"agency"}
  Batch = 2  MaxFixes = 5  MaxStripe = 3
  a = a  b = b  p1 = p1  p2 = p2  NoIssue = NoIssue
  Issues = {a, b}  Pages = {p1, p2}  PageOf <- OnePage  MaxLive = 2
  NoSite = NoSite  Sites = {a, b}
  MaxFailures = 2  HardThreshold = 3  SoftTime = 1  HardTime = 2  MaxLost = 1
  s1 = s1  s2 = s2  Syncs = {s1, s2}
  Lag = 3  Tolerance = 1  FullDays = 3  MaxDeltaAge = 3  FullAfter = 3  MaxDay = 4
  home = home  p3 = p3  p4 = p4
  SitePages = {home, p1, p2, p3, p4}  Homepage = home
  MayLink <- LinksOfACrawl  Weight <- Weights
  HubAt = 8000  StrongAt = 6000  AverageAt = 3000
  Size = 4  MaxConcurrent = 2
  Base <- BaseScores
  AgeCap = 200  HealthBonus = 50
  Signals = {"schema", "indexable"}  EmptyShows = {"indexable"}
INVARIANTS
  TypeOK FixCap DryRunDeploysNothing OnlyTimedOutLingers
  StrikesBeforeSuspension HardNeedsLostWrites HolesAreLag
  DepthIsClicks OrphansAgree ComponentsCounted
  BatchBound LossIsSeen
PROPERTIES
  EndIsHandled LateAnswerIgnored HangNeverBlocks SuspensionServed SuspendedComesBack
  CallEnds
