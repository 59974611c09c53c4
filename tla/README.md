# AgentIT: a TLA+ verification project

AgentIT assesses the repositories of a fleet of applications, generates fixes for
what it finds and delivers them as pull requests through GitOps.  This directory
models its stateful core: what happens when webhooks are redelivered, jobs outlive
their process, deliveries are cancelled half way, checks of two pushes overlap, the
broker is away, people act on GitHub and on the cluster at the same time, and watchers
restart.  Paths below are relative to `src/agentit/`.

## 1. Inventory

| Component | State | Operations | What is hard | Module |
|---|---|---|---|---|
| Webhook intake (`portal/routes/webhooks.py`) | `processed_webhooks` rows: open, completed, age | claim, complete, release, purge | redelivery, take-over after 900 s, release by id, crash between claim and completion | `WebhookClaims` |
| Assess slot (`portal/helpers.py`) | a process-wide semaphore | acquire with timeout, release at the end of the thread | `with_timeout` abandons the await, the thread runs on | `WebhookClaims` |
| Assessment (`runner.py`, `analyzers/`, `check_engine.py`, `scoring.py`, `assessment_diff.py`) | snapshot, verdict cache, breaker of the model, reports | analyze, clear, merge, score, compare | one analyzer of several fails, the model is silent, the order of clearing and merging | `ScanReport` |
| Background jobs (`portal/store/jobs.py`, `portal/services/`) | `remediation_jobs` rows | create, progress, terminal writes, reaper | a runner dies with its process; the reaper sees only the age of a row | `RemediationJobs` |
| Delivery router (`portal/delivery.py`) | `delivery_locks`, `deliveries` rows, branches | `route_and_deliver`, SLO watch | cancellation, orphaned worker threads, one step of several failing | `DeliveryRouter` |
| GitHub delivery (`portal/github_pr.py`) | default branch, delivery branch, pull requests | compare, commit, force, open, look up, merge, close | people between any two requests | `BranchDelivery` |
| Finding loop (`portal/delivery.py` Phases 3 and 4) | `finding_resolution`, reject counts, escalations | check, re-dispatch, escalate, acknowledge | overlapping checks with different reports, read-then-insert, exceptions half way | `FindingLoop` |
| Auto-delivery (`portal/auto_delivery.py`, `quality_prs.py`, `remediation/clear_evidence.py`) | local to a call; `skill_effectiveness` rows | filters, partition, simulation, validate-fix loop, delivery | files change between the gates, one cluster of several fails | `AutoDelivery` |
| Manifest review (`portal/routes/assessments.py`, `portal/store/assessments.py`) | `onboarding_results`, `apply_results` | onboard, validate, edit, preview, deliver, purge | an edit against a run that saves rows of its own | `ManifestReview` |
| Application records (`portal/store/`, `watchers/reassess_scheduler.py`) | `assessments`, `apps` | save, register, set cadence, merge URL forms, delete, re-assess | several statements without a transaction | `AppRecords` |
| PR tracking (`portal/pr_tracking.py`, `pr_outcomes.py`) | outcome rows, cache, feedback | poll, compute, record, file, close, merge | GitHub read at different times by several pages | `PullRequests` |
| Events (`events.py`, `consumer.py`, `portal/store/events.py`) | SQLite buffer, Kafka offsets, dead letters | publish, drain, consume, dead-letter, retry, dismiss | at-least-once across crashes and rebalances, one buffer file for several processes, offsets of several partitions in one commit | `EventPipeline`, `AtLeastOnce` |
| Skills (`portal/store/skills.py`, `watchers/skill_learner.py`, `skill_engine.py`, `portal/routes/capabilities.py`) | `skill_effectiveness`, skill files, branches, pull requests | judge, cool down, research, draft, review, activate, deprecate, redeploy | two derivations of one fact, files changed under review, decisions reverted by a redeploy | `SkillLearning`, `SkillCatalog` |
| Capability scout (`capability_scout.py`) | proposals on GitHub, recorded outcomes | sync, gather, propose, gate, open | button and watcher at once; every query sees the newest entries only | `CapabilityScout` |
| SLO tracker and rollback (`watchers/slo_tracker.py`, `portal/routes/recommendations.py`) | SLO rows, recommendations | measure, store, alert, recommend, roll back, dismiss | two writers of one status, failing ticks, metrics without a collector | `SloWatch` |
| Self-health (`watchers/self_health_check.py`) | webhook log, CI age, CronJobs, stale pods, panel | check, publish, ensure webhook | a check that cannot look, an event that is lost | `SelfHealth` |
| Drift and cluster access (`watchers/drift_detector.py`, `kube.py`, `interfaces/breakers.py`) | ApplicationSet, sync state, API snapshot, breaker | ensure, heal, auto-sync, deprecate | read-modify-write, breaker opened by other traffic | `ClusterGitOps` |
| Patch generators, pages, CLI, chart | none | text, presentation | nothing a model would tell apart | none |

How they interact: a push arrives at **webhook intake**, which runs an **assessment** in
the **assess slot**, saves it to the **application records**, creates an onboard **job**
and runs the **finding loop** over the new report.  The job generates manifests, which
people **review**, and hands them to **auto-delivery**, which calls the **delivery
router** and it **GitHub**; the finding loop calls the router for a re-dispatch, too, and
so meets its lock.  **PR tracking** reads what became of the pull requests and files
rejections, which cool **skills** down.  The watchers run beside the portal in pods of
their own and report through **events**.  All shared state is rows in PostgreSQL, files
of a pod, objects of the cluster, or GitHub's; there is one portal process, whose event
loop interleaves handlers at every `await`, and worker threads beside it.

The hazards, each at its line, are listed in `PROJECT.json` with the properties that
would catch them.

## 2. Plan

Done:

1. `WebhookClaims`, `RemediationJobs`, `DeliveryRouter`, `FindingLoop`: the path of a
   push from its arrival to the pull request and back, with proofs in `*Proofs`.
2. `AutoDelivery`: from a generated batch to one pull request per finding cluster.
3. `EventPipeline`, shown to implement the abstract specification `AtLeastOnce`, with
   the refinement proved in `EventPipelineProofs`.
4. `SkillLearning`, `SkillCatalog`, `CapabilityScout`: the loops of self-improvement.
5. `PullRequests`, `BranchDelivery`, `AppRecords`, `ManifestReview`: what the portal
   records of pull requests, applications and manifests.
6. `SloWatch`, `SelfHealth`, `ClusterGitOps`: the watchers, with their liveness.
7. `ScanReport`: the order of an assessment, its score and the diff of two reports.
8. `PlatformProofs` and `OperationsProofs`: every safety property of the modules of
   points 3 to 7 that a run checks, for all values of the constants.

Next: the composition of `PullRequests` with `BranchDelivery`, and theorems about the
type invariants of the modules of points 4 to 7, which are proved so far only as far as
the safety proofs need them.

## 3. Modules

Every module has one variable per table or per kind of process, one action per step
between two awaits (or store calls), and a `Crash` action where the process may die:
local state is gone, rows stay.  Actions and helpers carry the names of the code's
functions where one corresponds to one; `PROJECT.json` maps each to its lines.
Definitions named `X_Y` above a definition `X` are wrong variants of `X` that show
that a property can fail.

**WebhookClaims.**  `claim` and `age` are the `processed_webhooks` row of a delivery,
`wk` the handlers with their phase, busy-retry count and time in the phase; `permits`
is the semaphore and `detached` the assess threads that no handler awaits (timed-out
ones, and those of the assess page).  `Deliver`/`Duplicate` are a POST that is granted
its claim or not.  `AcquireSlot` and `AcquireTimesOut` are `assess_concurrency_slot`,
`AssessTimesOut` is `with_timeout`: the handler goes on to release its claim, the
thread keeps the permit.  `webhook_onboard` never settles its claim and
`webhook_finding` releases it whenever there is something to deliver (its call lacks a
required argument); both are modelled as they are.

**RemediationJobs.**  `kind`, `status`, `age`, `chain` and `next` are the row, `pc` and
`t` its runner.  `Write` is the unconditional UPDATE of the status.  The statuses
`cloning`, `assessing` and `saving` are one, and so are `running`, `reviewing` and
`delivering`: no reader tells them apart.  `reap_orphaned_jobs` fails all non-terminal
rows older than `ReapAge` in one step.

**DeliveryRouter.**  One application.  `call` holds a call's local variables (phase,
categories still to deliver, outcomes so far), `thread` the `asyncio.to_thread` worker
of its current category, `row` and `res` its `deliveries` row, `lock` the lock row,
`head` the commit each branch points at.  The checks a category passes before it
reaches GitHub (chart gate, HPA gate, dry-run validation) are an arbitrary choice of
outcome in `Preview`.  `Cancel` is `asyncio.wait_for` at any await: `except Exception`
is skipped, `finally` runs, the thread goes on.  `target` selects the mechanism: fleet
GitOps, self-managed or unknown.

**FindingLoop.**  One application, findings with one category each.  `rows` are its
`deliveries`, `rejects` the same-reason rejects of the finding's skill since the last
`clear_skill_cooldown`, `open` the unacknowledged escalation events.  A run is one call
of `check_pending_delivery_verifications` with its report, the rows it has read and the
keys at hand.  `tries`, `fate` and `undone` are history variables: re-dispatches so far,
what became of the last confirmed failure, and the findings of which an overlapping
check took a confirmed failure back.

**AutoDelivery.**  One call of `auto_validate_and_deliver`.  `info` is the generated
batch: the finding each file is for and its layer (application source or cluster);
`open` the findings the call is made for.  `kept` is what the filters leave, `part` the
partition into clusters, and `cur`, `pack`, `targets`, `iter` and `seen` belong to the
cluster at hand: its files as they are now, the findings they are to clear, the
iteration, and the files as the last dry run saw them.  `verdict`, `shipped`, `recorded`
and `rejects` are what the call leaves behind.  A file says one of four things about its
cluster's finding, which is all the simulation, the property check and the placeholder
strip can tell; which one, and what a regeneration makes of it, is arbitrary, and so are
the answers of the cluster, the collision check and GitHub.  The order of the clusters
and the place of a companion, which the code takes first-fit, are arbitrary, too: the
model has every order the code can have and more.  `score_delta_claimed` is passed by no
caller.  `Cut` is an exception, `with_timeout` or a crash at any point.

Two deviations of this code are visible in the model and have no run of their own.
`partition_by_finding_cluster` "never opens (or spills into) a companion-only PR"
(`quality_prs.py`), but `DryRun` drops forbidden files after the simulation has counted
them: for a finding without a property check the companions that remain are delivered
alone.  And the event of an `unchanged` call says that the manifests "already match
what's deployed" also when clusters were refused beside an unchanged one, or when all
files of a delivery were stripped for placeholders, which leaves it without any outcome.

**EventPipeline** and **AtLeastOnce.**  `proc` is where each process is in `publish()` or
in the constructor of its publisher, `buffer` the rows of each SQLite file with their
ids, `log` the records of each partition, `consumer` the offsets, blocked offsets and
retry counts in memory (by topic and offset, not by partition, as in the code), `committed` the
group's offsets, `rows` the dead letters.  `Db` gives each process the buffer file it
resolves; `Portals` are the processes with a dead-letter page.  A flush returns, or raises
with the record written or not; the process and the consumer die anywhere; the group
rebalances.  `lost`, `displaced`, `stale`, `accepted`, `fate` and `attempts` are history
variables: `displaced` are the events whose row was deleted by a drain that had read
another row under the same id, which only a process on the same file can bring about.
`AtLeastOnce` is the promise to the callers: an event whose `publish()` returned is
delivered, kept until delivered, or given up, and only where clients share a place may one
take away what another has kept.  `poll_once` of the two watchers is left out: it commits
at the end of a poll whatever became of its events, which one watcher prints and the other
ignores.

**ScanReport.**  `source` are the problems of a repository, of four kinds, chosen so that
every path of a finding to the report occurs: an analyzer sees it; it hangs on a verdict
of the model that is remembered; only the model sees it; an analyzer and a check see it
and the cluster may have what is missing.  `scan` is the assessment under way, with the
snapshot it reads.  Analyzers end in any order, raise, or find the model silent or its
breaker open.  The scores are computed as `scoring.py` and `score_aggregate.py` do, with
Python's rounding.

**SkillLearning, SkillCatalog, CapabilityScout.**  `SkillLearning` keeps the rows of
`skill_effectiveness` per application and skill, in order, and derives the cool-down by
both of the code's queries; the watcher's tick, its log of runs (`own` marks the learner's
runs that could read the history) and its restarts.
`SkillCatalog` keeps a skill's file in the pod, on main and on branches, with the steps of
an activation from review to pull request, and redeploys that replace the pod's tree.  A
draft says whatever status the model wrote, or none, which `load_skill` takes for active;
`unmarked` are the drafts that did not say draft.
`base` is the latest of the pod's branches that main merged, with its tree, against which
GitHub compares a branch, and `flip` the decision each file of the pod still holds.
`CapabilityScout` keeps proposals on GitHub by number, the outcomes on record in order, and
two runs at once.  Each of a run's queries sees the newest entries only: `ListRead` pull
requests and `SyncRead` outcomes when it syncs, `OutcomesRead` outcomes when it compares
(50, 100 and 50 in the code).  `due` are the settled pull requests it was in a position to
know of.

**PullRequests, BranchDelivery, AppRecords, ManifestReview.**  Loads of pages, clicks,
saves, edits and runs are the processes; their steps are the statements and requests
between two awaits.  `close_pr` of `PullRequests` reports no error for a pull request that
is closed or merged by then, and the route records a rejection all the same, if it can.
`BranchDelivery` has one delivery branch, its base and its commits,
and the pull requests opened for it with all that their reviewers could see.

**SloWatch, SelfHealth, ClusterGitOps.**  One tick of a watcher is a series of steps, each
of which may fail; the world (pods, pipelines, webhooks, people with kubectl) moves
between them.  `SloWatch` has the tracker and the verification after a delivery, which
store what they measured over each other; `measurable` says whether the metric has a
collector, and the SLO of one that has none keeps its status for ever.  `SelfHealth` has
the newest pipeline run with its state (none, waiting without a start time, running,
ended); all branches of the check are modelled, those that report a run without a start
time, or no run at all, as healthy included.

**PlatformMC** and **OperationsMC** put the modules of points 3 to 7 side by side for TLC.
The modules keep disjoint state, so the initial state chooses which of them moves (`loop`,
`part`): TLC explores the sum of the state spaces rather than their product, and each
property is checked against all behaviours of its module, with three exceptions that keep
the run within minutes.  Of `EventPipeline`, `publishing` is the publishers alone,
`consuming` all of the consumer behind a broker that loses nothing, and `retrying` a
portal with its dead letters and most of the consumer while one partition has all records;
of `SkillLearning`, `judging` is the outcomes and `learning` the learner over few of them;
of `SkillCatalog`, `drafting` has the learner's submissions and one branch, `catalog`
several branches.  The theorems hold without this: `EventPipelineProofs` is about
`EventPipeline` itself, and `PlatformMC` has the loops `skills` and `files`, which are all
of `SkillLearning` and of `SkillCatalog` and which the cfg does not choose.

## 4. Runs

| Run | Expect | Shows |
|---|---|---|
| `webhook_claims` | pass | a delivery has one handler at a time; assess threads, abandoned ones included, stay within the permits; a push handler settles its claim; no delivery is locked out |
| `remediation_jobs` | pass | a completed chain has its onboard job; the reaper spares live onboard jobs; their terminal status is final; every job ends |
| `remediation_jobs_reaper` | violation | the reaper's docstring for all kinds: assess and manual validation have no timeout and are failed alive |
| `delivery_router` | pass | deliveries exclude each other; no delivery overwrites the branch of another one's pull request, except the thread of a cancelled one; lock and rows recover |
| `delivery_router_cancel` | violation | a cancelled delivery's row stays `in_progress` |
| `delivery_router_self` | violation | two self-managed categories of one call share a branch; the first commit is lost |
| `finding_loop` | pass | retries and open escalations are bounded; a confirmed failure is answered |
| `finding_loop_busy` | violation | a re-dispatch that meets the delivery lock drops its finding |
| `auto_delivery` | pass | what is delivered was validated in that form; every cluster gets its own verdict; the status says delivered exactly if a pull request is open; the call ends |
| `platform` | pass | with two processes on one buffer file, an event whose `publish()` returned is delivered, buffered, or taken by a recorded fault or a stale drain; with two partitions, a commit leaves alone what is open on the partition it is called for; dead letters come after all retries of their offset and a retried one is published again; a finding resolves only when it is gone, fewer findings never score lower; both derivations of a cool-down agree, the learner tries nothing in vain too often within a window, and its ticks keep their distance; scans use no skill that is neither reviewed nor a draft that hides it, no decision is reverted unannounced; open proposals are bounded, and settled ones not proposed again while they are in sight |
| `operations` | pass | a rejection is filed once; no application drops off its schedule; edits stay in the row they were made in; a reported pull request showed what was delivered, and only people's commits count as edits; the stored status and the alert follow a lasting breach or recovery, a lasting fault shows, what was changed by hand is healed |
| `scan_live_evidence` | violation | live evidence clears a finding that the check merged afterwards puts back |

**Bounds.**  Two handlers, jobs, calls or checks are the smallest number at which two
of them race for a row, and all rows are raced for in pairs; a third adds no new kind
of conflict (a take-over involves the old and the new holder).  Two deliveries share
the assess slot.  The time constants keep the order of the real ones: `WebhookClaims`
has 1 < 2 for acquire and assess timeouts, a TTL that the longest handler just meets
and a purge age above it; `RemediationJobs` has `ReapAge` equal to the sum of the
timeouts, the tightest case the assumption allows; `DeliveryRouter` likewise.
`MaxSends` = 2 allows a redelivery, `MaxRows` = 3 one failure more than `Threshold`.
Ages saturate above the largest constant they are compared with, so they are no bound.
`Batches` of `DeliveryRouter` are two pairs of categories, chosen so that every
mechanism, and two categories in one call, occur.  `AutoDelivery` has `MaxFiles` = 2 and
three files: one batch has a finding with more fixes than a pull request takes, so with
two clusters, the other one fixes of both layers and a companion; `MaxIterations` = 2 has
a first and a last iteration.  Its runs may stop (`CHECK_DEADLOCK FALSE`): a call ends.

`platform`: a portal and a watcher on one buffer file, the smallest number that can displace
each other's rows, with two events (interchangeable, like the partitions, hence the
symmetry); two partitions of two records, two deliveries before the dead letter; two
reports with a change between them; two skills, one of them shipped, one attempt, and a
window as long as the interval, as by default; two runs of the scout and a cap of one, two
pull requests listed and two outcomes read of up to two, of which one is compared with, so
that older ones drop out of sight.  `operations`: one pull request seen by a fleet page, an
application page and a click, which is every pair of writers of its rows; two saves of one
application; two edits and one run; two deliveries to a branch with two pushes of people
between them; an SLO with or without a collector, and one recommendation; the watchers'
thresholds one above the smallest at which a fault is told from noise.  Both may stop
because their bounds stop them.

**Fairness.**  Weak fairness of each handler's, runner's, call's or check's steps: the
event loop runs every ready task and every timer fires.  Weak fairness of the worker
threads: every GitHub request has a timeout.  Weak fairness of `Tick`: time passes.
Weak fairness of the reaper: `_background_maintenance` calls it every five minutes.
Weak fairness of a call of auto-delivery, whose requests all have timeouts.
The watchers: weak fairness of starting a tick, whose loop never ends, and strong fairness
of each step of it, because a step may fail any number of times but not for ever.  A
measurement is a step only where the metric has a collector (`measurable`).  In
`OperationsMC` fairness of a disjunction over the parts stands for that of each: a
behaviour is of one part.
No fairness is assumed of POSTs, of crashes not happening, of the world, of people.

**Assumed timing.**  The code bounds neither the work of a webhook handler after its
assessment (`PostBound`), nor the onboard and finding routes (`WorkBound`), nor the
image build and webhook registration of an onboard job (`SideBound`), nor a delivery
as a whole (`WorkBound` of `DeliveryRouter`).  The models assume that these are within
what the TTL, the reap age and the lock's staleness limit leave for them; the exclusion
properties hold under this assumption only, and it is stated as `TimingAssumption` in
each module.

**Properties that do not hold and have no run.**  The modules state what a docstring or a
reader would expect, beside the properties that hold; TLC found each violated, with the
constants of the module's cfg or the ones named.  Seven of them, of the events,
skills, scout, SLO tracker and self-health check, are also listed as findings.

| Property | What the code does |
|---|---|
| `ScanReport.ModelSilenceIsNotClean` | `eol.py` says a silent model is "never ... confirmed clean"; findings only the model makes resolve when it is silent |
| `AppRecords.RepoKept` (two `Repos`) | a Scan without a repository replaces the registered one by the shared default |
| `ManifestReview.EditsMerge`, `EditIsDelivered` | of two concurrent edits of different files one is lost; a run's final snapshot supersedes an edit made during it |
| `PullRequests.RejectionIsSeen` | rejections found by an application's page are filed under a blank name, and the Close button files none |
| `SloWatch.BreachIsRecommended` | `slo_tracker.py` "recommends rollbacks on breach"; only applications with rows an earlier version wrote get a recommendation |
| `SelfHealth.StallShows` | `_check_result` says that callers "never mistake" a check that could not judge for a healthy one; a pipeline run without a usable `startTime` is published as `ok=True`, severity info, so one that Tekton never starts is green for ever |
| `ClusterGitOps.HealKeepsOthers`, `OnlyRemovedDeprecated` | a heal can overwrite an entry added since its read; an API that could not be listed counts as removed |
| `SkillCatalog.DispatchIsReviewed` | the dispatcher resolves drafts that a scan would not match |
| `SkillCatalog.MatchedIsReviewed` | generated skills are "always saved with `status: draft`"; nothing checks what the model wrote, and `load_skill` takes a missing status for active |
| `CapabilityScout.DuplicateNeverExpires` | a duplicate "does not" expire; `gather_evidence` reads the newest 50 outcomes, and an older one blocks nothing |
| `BranchDelivery.ReportedIsTrue` (`MaxCalls` = 3) | `_find_existing_pr_url` says "an already-open PR's URL comes back exactly the same", but takes the newest pull request of any state: when people close the first, close the second and reopen the first, the third delivery forces the branch, which the first now shows, and reports the second |
| `SkillCatalog.NoSilentRevert` without its exceptions | requests run `create_branch_commit_push` in threads on one checkout without a lock: a commit lands on the branch another request checked out in between, and its author is given a pull request without the decision; and when an earlier pod's pull request changed the skill on main, a decision that returns to the pod's base tree is no change to merge |
| `SkillLearning.RetriesEnd` | `skill_learner.py` says of the back-off that without it a skill is re-attempted "every single tick forever"; the default interval and `improvement_cooldown_hours` are both a day, so a run is out of the window when the next tick looks, and no skill is ever left alone |
| `EventPipeline.BufferIsDurable` | the buffer is a "local, durable disk queue" on a volume that several processes share; a row is deleted by its id, which by then may be another event's |
| `EventPipeline.CommitsOnlyResolved` | "Offsets are committed only after successful handler execution or after exhausting retries"; `commit()` takes the position of every partition, and only the failed record's own partition holds it back |

## 5. Proofs

The proof modules extend the models and prove for every value of the constants that
satisfies the named assumptions:

- `WebhookClaimsProofs`: `TypeOK`, `OneHandlerPerDelivery`, `AssessThreadsBounded`,
  `CompletedIsFinal`, `PushSettlesItsClaim`.  The inductive invariant ties the age of a
  claim to the progress of its handler: a live handler's row is open and no older than the time its phase,
  its busy retries and its time in the phase can add up to, hence within the TTL, so
  no one can take it over; and permits plus running threads are constant.
- `RemediationJobsProofs`: `TypeOK`, `CompletedChainHasOnboardJob`,
  `OnboardNeverFalseFailed`, `OnboardTerminalIsFinal`.  The invariant bounds the age of
  a live onboard job by the timeouts of the phases behind it, and says that a live one
  is not terminal and that an onboard job waiting to be scheduled belongs to one chain.
- `DeliveryRouterProofs`: `TypeOK`, `OneDeliveryAtATime`, `NoForeignPush`.  The
  invariant says that a call in its critical section holds the lock, whose age is at
  most the call's own time, and that a thread belongs to a call in its section or to
  one that was cancelled.
- `FindingLoopProofs`: `TypeOK`, `EscalationsBounded`.  The invariant counts the checks
  between their read and their insert together with the open escalations.
  `RetriesBounded`: a check owes a finding an answer when it is among the
  keys at hand, and may come to owe one for every failed row in its list (`Debt`).  Tries
  and debt together are at most the failed rows times the checks, because a newly failed
  row adds at most one debt per check; a decision below the threshold therefore keeps
  tries and pending re-dispatches within the bound.
- `AutoDeliveryProofs`: `TypeOK`, `DeliveredIsValidated`, `EveryClusterJudged`,
  `RejectedOncePerCall`, `ResultIsHonest`, for every batch, partition and bound.  The
  invariant says that a converged pack is what the last dry run saw, that a finding not
  in `clear_evidence_recorded` has no row, that every cluster is to do, at hand or
  judged, and that a verdict and its pull request come together.
- `EventPipelineProofs`, for any number of processes, events and partitions and any sharing
  of buffer files, from nothing but the bounds being numbers and `None` not an event:
  `TypeOK`, the refinement `PublishesAtLeastOnce` and `NoSilentLoss` from it.  The invariant
  says that the rows of a file have different ids, that what a drain has yet to send is in
  its file or was deleted by another process (`stale`), which then resolves the same file,
  that every such event is somewhere, that a process has an event in hand while `publish()`
  is under way, and that a row about to be deleted was sent or refused.  Each step then
  maps: `StartPublish` to `Give`, `DrainSend` to `Deliver` or `Refuse`, `DrainDelete` to
  `LetGo`, or to `Displace` when the id is another row's by now, `Send` and `BufferLocally`
  to `Return`, `Crash` to `Abandon`, the rest to stuttering.
  Of the consumer: `OwnPartitionHolds` and `DeadAfterRetries`, for any number of publishers,
  partitions and records, any retry limit and any sequence of failures, failing commits,
  restarts and rebalances.  For the commits, the invariant says that whatever is behind a
  position is resolved, committed already, or failed and not before the partition's
  `_blocked_offset`, that a position is never behind its committed offset and equal to it
  while no failure is open, and that offsets stay within the log.  For the
  dead letters, a count is of failures of its offset, on one partition or several.
  `RetryRepublishes`: the invariant `Carried` follows the event of a retried row from the
  process that publishes it to a buffer file, a second record of the log, a fault on record,
  or its displacement; a retry that has not relabelled its row yet carries it, too.
- `OperationsProofs`, for any number of pull requests, readers, applications, edits and
  deliveries: `RejectionFiledOnce` (only the load whose insert wrote the row of a
  rejection goes on to file it: `PrFiled`); `NeverDropped`, strengthened from the newest
  assessment to every spelling of a URL that has one, with the pipelines between their two
  statements (`AppKept`, `AppUnderWay`); `EditsSurvive` (the newest row has the highest
  number, so that no run's row and no purge touches the one an edit was made in:
  `ReviewOrder`); `ReportedIsShown` and `EditsArePeoples` (AgentIT's one commit is the
  first of the branch and people's follow, and a forced branch takes every pull request
  along that can still show it: `BranchShown`).
- `PlatformProofs`, per loop:
  - `TicksApart`: what the learner still sleeps makes up for what is missing of the
    interval since the last recorded tick (`TickInv`).
  - `CooldownViewsAgree`, from nothing but the shape of the rows: the last clear splits
    them the same way in both queries.
  - `BacksOff`, for every interval and window: the failures the learner counts include its
    own, so the tick that would be one too many leaves the skill alone, and time only takes
    entries out of the window (`ImproveBacksOff`, `PassBacksOff`).
  - `OpenBounded`: a run past the count is counted as the pull request it may open
    (`CapInv`).  `NeverReproposed`: what was settled before a run began is still to be
    polled by it, recorded, or in its list of things not to repeat (`Informed`), whatever
    the limits of its queries, unless one of the exceptions the property names applies.
  - `ScanIsReviewed`: what is in use in the pod, on main, on a branch or in a pull request
    is reviewed or `unmarked` (`CatalogReviewed`), whatever status the drafts say.
  - `NoSilentRevert`: a decision has a branch from which every later branch, pull request
    and merge of this pod holds it (`HeldFrom`), and that branch is being pushed, proposed
    or merged; and a branch belongs to one request until it is pushed (`BranchInv`).
  - `ResolvedIsGone`: an analyzer that is done has left its findings (`ScanInv`), so a
    finding missing from a report is gone, cleared or judged.  `RepairNeverLowersScore`:
    the score is a function of the findings (`ScoresInv`) which is monotone, the rounding
    of ties to even included, for every `Baseline` and number of checks.

  The composed initial state lets one loop move; the step lemmas (`LearningStep`,
  `CatalogStep`, ...) reduce a step of `PlatformNext` to one of the loop's module or to
  stuttering, so the arguments are about the modules' own `Next`.

The type invariants of these six models, `CompletedIsFinal`, `RejectedOncePerCall` and
`NoSilentLoss` are theorems and are left out of the runs, which check what a theorem does
not already settle or what a mutant should break.

Only model-checked: all liveness properties (`NeverLockedOut`, `EveryJobEnds`,
`LockRecovers`, `RowSettles`, `FailureIsAnswered`, `CallEnds`, `StatusSettles`,
`FaultShows`, `Heals`): temporal reasoning under fairness is beyond the prover.  Every
other property of a passing run is a theorem.

## 6. Not modelled

The contents of files, patches, prompts and pages; what the single analyzers, checks and
generators look for (pattern matching and text; `ScanReport` models how their findings
become a report); authentication, CSRF and signatures; the Helm chart.  The
report-only webhook routes claim nothing.  `claim_continue_onboard` has no caller.  The
database is taken to execute each statement atomically, and one portal process to be
the only writer, as the chart deploys it.
