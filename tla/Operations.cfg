CONSTANTS
  PRs = {p1}
  FleetLoads = {f1}
  AppLoads = {l1}
  Clicks = {c1}
  MaxReopens = 1
  Saves = {i1, i2}
  Repos = {g1}
  None = none
  Writable = {g1}
  MaxAges = 1
  Reviews = {i1}
  Files = {f1}
  Edits = {e1, e2}
  ReviewRuns = {r1}
  MaxRows = 2
  MaxPurges = 1
  Requests = {q1}
  LegacyApply = {1}
  MaxRecs = 1
  MaxAssess = 2
  Window = 3
  MinOk = 2
  StallAge = 2
  Period = 1
  Grace = 2
  StaleThreshold = 1
  Depth = 2
  Texts = {a, b}
  NoFile = nofile
  NoRef = noref
  MaxCalls = 2
  MaxPulls = 2
  MaxPushes = 2
  GitOpsRepos = {g1, g2}
  Default = g1
  Untrusted = {}
  Bogus = bogus
  Calls = {k1}
  Threshold = 1
  MaxByHand = 2
  Parts = {"pulls", "apps", "review", "slo", "health", "branch", "gitops"}
SPECIFICATION Spec
INVARIANTS RejectionFiledOnce NeverDropped EditsSurvive ReportedIsShown EditsArePeoples
PROPERTIES StatusSettles FaultShows Heals
CHECK_DEADLOCK FALSE
