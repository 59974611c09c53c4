CONSTANTS
  Procs = {portal, watcher}
  Portals = {portal}
  Db <- DbShared
  Events = {e1, e2}
  None = None
  Partitions = {p1, p2}
  MaxRetries = 2
  MaxLog = 2
  MaxDead = 1
  MaxBuffer = 2
  Apps = {a1}
  Skills = {s1, s2}
  Reasons = {r1}
  NoReason = r0
  Threshold = 2
  MinCount = 2
  OnDisk = {s1}
  Limit = 1
  Attempts = 1
  Window = 2
  Interval = 2
  RunsRead = 2
  MaxRows = 3
  Shipped = {s1}
  Requests = {q1}
  PostAttempts = 2
  MaxDrafts = 1
  MaxFlips = 2
  MaxDeploys = 1
  Titles = {t1}
  ScoutRuns = {scout, button}
  Manual = {button}
  MaxOpen = 1
  ListRead = 2
  SyncRead = 2
  OutcomesRead = 1
  MaxMoves = 4
  MaxOutcomes = 2
  Trip = 1
  Baseline = 8
  ShippedSets = {0, 2}
  MaxReports = 2
  MaxChanges = 1
  Loops = {"publishing", "consuming", "retrying", "scan", "judging", "learning", "drafting", "catalog", "scout"}
SYMMETRY EventSymmetry
SPECIFICATION PlatformSpec
INVARIANTS DeadAfterRetries RetryRepublishes ResolvedIsGone RepairNeverLowersScore CooldownViewsAgree  ScanIsReviewed NoSilentRevert OpenBounded
PROPERTIES OwnPartitionHolds PublishesAtLeastOnce TicksApart NeverReproposed
CHECK_DEADLOCK FALSE
