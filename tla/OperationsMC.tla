---------------------------- MODULE OperationsMC ----------------------------
(***************************************************************************)
(* The portal's records and the watchers beside the delivery loop, on      *)
(* small instances: the outcomes of pull requests, the records of          *)
(* applications, the manifests under review, the SLO tracker, the          *)
(* self-health check, the drift detector and the delivery branch on        *)
(* GitHub.  Each keeps state of its own and no property relates two of     *)
(* them, so a behaviour of the composition is one of each; TLC explores    *)
(* each on its own, chosen by part in the initial state, instead of their  *)
(* product.                                                                *)
(***************************************************************************)
EXTENDS Naturals, Sequences, FiniteSets

CONSTANTS
  PRs, FleetLoads, AppLoads, Clicks, MaxReopens,
  Saves, Repos, None, Writable, MaxAges,
  Reviews, Files, Edits, ReviewRuns, MaxRows, MaxPurges,
  Requests, LegacyApply, MaxRecs, MaxAssess,
  Window, MinOk, StallAge, Period, Grace, StaleThreshold, Depth,
  Texts, NoFile, NoRef, MaxCalls, MaxPulls, MaxPushes,
  GitOpsRepos, Default, Untrusted, Bogus, Calls, Threshold, MaxByHand,
  Parts

VARIABLES
  gh, row, feedback, cache, load, click, missed, reopens,
  assessments, apps, save, reg, elapsed, due, lost, ages,
  saved, onboardings, results, edit, preview, run, purges,
  measurable, healthy, slo, alert, newest, applied, recs, sloTick, check, req, undone, eventPurges,
  subject, hook, ci, cron, stale, pc, verdict, shown, lapses,
  main, branch, pulls, job, calls, pushes,
  appset, call, tick, brk, synced, api, snapshot, skill, byHand,
  part

P == INSTANCE PullRequests
A == INSTANCE AppRecords WITH Ids <- Saves
M == INSTANCE ManifestReview WITH Ids <- Reviews, Runs <- ReviewRuns
S == INSTANCE SloWatch WITH tick <- sloTick, purges <- eventPurges
H == INSTANCE SelfHealth WITH missed <- lapses, Threshold <- StaleThreshold
B == INSTANCE BranchDelivery
G == INSTANCE ClusterGitOps WITH Repos <- GitOpsRepos

prVars == <<gh, row, feedback, cache, load, click, missed, reopens>>
appVars == <<assessments, apps, save, reg, elapsed, due, lost, ages>>
reviewVars == <<saved, onboardings, results, edit, preview, run, purges>>
sloVars == <<measurable, healthy, slo, alert, newest, applied, recs, sloTick, check, req, undone,
             eventPurges>>
healthVars == <<subject, hook, ci, cron, stale, pc, verdict, shown, lapses>>
branchVars == <<main, branch, pulls, job, calls, pushes>>
gitopsVars == <<appset, call, tick, brk, synced, api, snapshot, skill, byHand>>
vars == <<prVars, appVars, reviewVars, sloVars, healthVars, branchVars, gitopsVars, part>>

Init ==
  /\ P!Init /\ A!Init /\ M!Init /\ S!Init /\ H!Init /\ B!Init /\ G!Init
  /\ part \in Parts
  \* The parts that rest rest in one state.
  /\ part # "apps" => \A i \in Saves : assessments[i] = A!NoRow
  /\ part # "slo" => applied = {} /\ measurable
  /\ part # "health" => subject = "ci"
  /\ part # "branch" => main = NoRef

Pulls  == part = "pulls"  /\ UNCHANGED <<part, appVars, reviewVars, sloVars, healthVars, gitopsVars, branchVars>>
Apps   == part = "apps"   /\ UNCHANGED <<part, prVars, reviewVars, sloVars, healthVars, gitopsVars, branchVars>>
Review == part = "review" /\ UNCHANGED <<part, prVars, appVars, sloVars, healthVars, gitopsVars, branchVars>>
Slo    == part = "slo"    /\ UNCHANGED <<part, prVars, appVars, reviewVars, healthVars, gitopsVars, branchVars>>
Health == part = "health" /\ UNCHANGED <<part, prVars, appVars, reviewVars, sloVars, gitopsVars, branchVars>>
GitOps == part = "gitops" /\ UNCHANGED <<part, prVars, appVars, reviewVars, sloVars, healthVars, branchVars>>
Branch == part = "branch" /\ UNCHANGED <<part, prVars, appVars, reviewVars, sloVars, healthVars, gitopsVars>>

Next ==
  \/ \E p \in PRs : Pulls /\ P!Decide(p)
  \/ \E p \in PRs : Pulls /\ P!Reopen(p)
  \/ \E p \in PRs : Pulls /\ P!MergeRoute(p)
  \/ \E l \in P!Loads : Pulls /\ P!BeginFleet(l)
  \/ \E l \in P!Loads : Pulls /\ P!BeginApp(l)
  \/ \E l \in P!Loads : Pulls /\ P!Resolve(l)
  \/ \E l \in P!Loads : Pulls /\ P!Record(l)
  \/ \E l \in P!Loads : Pulls /\ P!Effects(l)
  \/ \E l \in P!Loads : Pulls /\ P!EndLoad(l)
  \/ \E l \in P!Loads, p \in PRs : Pulls /\ P!Poll(l, p)
  \/ \E l \in P!Loads, p \in PRs : Pulls /\ P!Compute(l, p)
  \/ Pulls /\ P!Expire
  \/ \E c \in Clicks : Pulls /\ P!ClosePr(c)
  \/ \E c \in Clicks : Pulls /\ P!CloseFails(c)
  \/ \E c \in Clicks : Pulls /\ P!RecordClose(c)
  \/ \E c \in Clicks, p \in PRs : Pulls /\ P!ClickClose(c, p)
  \/ Pulls /\ P!Crash
  \/ \E i \in Saves : Apps /\ A!BeginSave(i)
  \/ \E i \in Saves : Apps /\ A!InsertRow(i)
  \/ \E i \in Saves : Apps /\ A!FinishSave(i)
  \/ \E i \in Saves : Apps /\ A!TriggerAssess(i)
  \/ \E i \in Saves : Apps /\ A!Delete(i)
  \/ \E i \in Saves, given \in Repos \cup {None} : Apps /\ A!BeginAssess(i, given)
  \/ \E i \in Saves, given \in Repos \cup {None} : Apps /\ A!BeginRegister(i, given)
  \/ \E i \in Saves, cadence \in A!Cadences : Apps /\ A!SetCadence(i, cadence)
  \/ Apps /\ A!GetReport
  \/ Apps /\ A!WriteReport
  \/ Apps /\ A!FinishRegister
  \/ Apps /\ A!Elapse
  \/ Apps /\ A!CheckDueApps
  \/ Apps /\ A!TriggerFails
  \/ Apps /\ A!Dedupe
  \/ Apps /\ A!Crash
  \/ \E r \in ReviewRuns, i \in Reviews : Review /\ M!StartRun(r, i)
  \/ \E r \in ReviewRuns : Review /\ M!Validate(r)
  \/ \E r \in ReviewRuns : Review /\ M!SaveDelivered(r)
  \/ \E e \in Edits, i \in Reviews, f \in Files : Review /\ M!ReadFiles(e, i, f)
  \/ \E e \in Edits : Review /\ M!WriteFiles(e)
  \/ \E e \in Edits : Review /\ M!ClearResults(e)
  \/ \E i \in Reviews : Review /\ M!BeginPreview(i)
  \/ \E i \in Reviews : Review /\ M!Delete(i)
  \/ Review /\ M!EndPreview
  \/ Review /\ M!Purge
  \/ Review /\ M!Crash
  \/ Slo /\ S!Degrade
  \/ Slo /\ S!Recover
  \/ Slo /\ S!Reassess
  \/ Slo /\ S!HideResult
  \/ Slo /\ S!Purge
  \/ Slo /\ S!Verify
  \/ Slo /\ S!StoreVerified
  \/ Slo /\ S!VerifyFails
  \/ Slo /\ S!DeleteSlo
  \/ Slo /\ S!ListSlos
  \/ Slo /\ S!Measure
  \/ Slo /\ S!NoValue
  \/ Slo /\ S!Store
  \/ Slo /\ S!Alert
  \/ Slo /\ S!CheckApply
  \/ Slo /\ S!Dedupe
  \/ Slo /\ S!LogRecommendation
  \/ Slo /\ S!TickFails
  \/ \E q \in Requests, k \in S!Recs : Slo /\ S!Click(q, k)
  \/ \E q \in Requests : Slo /\ S!RollBack(q)
  \/ \E q \in Requests : Slo /\ S!RollBackFails(q)
  \/ \E q \in Requests : Slo /\ S!Answer(q)
  \/ \E q \in Requests, k \in S!Recs : Slo /\ S!Dismiss(q, k)
  \/ \E code \in H!Codes : Health /\ H!Deliver(code)
  \/ \E state \in H!HookStates : Health /\ H!Replace(state)
  \/ Health /\ H!SwitchHook
  \/ Health /\ H!EnsureWebhook
  \/ Health /\ H!CiAges
  \/ \E state \in H!CiStates : Health /\ H!CiMoves(state)
  \/ Health /\ H!CronStarts
  \/ Health /\ H!CronSucceeds
  \/ Health /\ H!Suspend
  \/ Health /\ H!PodsAge
  \/ Health /\ H!CleanUp
  \/ Health /\ H!Check
  \/ Health /\ H!CheckBlind
  \/ Health /\ H!Publish
  \/ Health /\ H!PublishLost
  \/ Health /\ H!TickFails
  \/ \E c \in Texts : Branch /\ B!PersonPushes(c)
  \/ \E c \in Texts : Branch /\ B!PersonEditsMain(c)
  \/ \E n \in DOMAIN pulls : Branch /\ B!Merge(n)
  \/ \E n \in DOMAIN pulls : Branch /\ B!Close(n)
  \/ \E n \in DOMAIN pulls : Branch /\ B!Reopen(n)
  \/ Branch /\ B!DeleteBranch
  \/ \E kind \in B!Kinds, c \in Texts : Branch /\ B!Begin(kind, c)
  \/ Branch /\ B!Gate
  \/ Branch /\ B!GetBase
  \/ Branch /\ B!Compare
  \/ Branch /\ B!CommitTree
  \/ Branch /\ B!UpdateRef
  \/ Branch /\ B!OpenPr
  \/ Branch /\ B!AlreadyOpen
  \/ Branch /\ B!OpenRefused
  \/ Branch /\ B!FindExisting
  \/ Branch /\ B!CallFails
  \/ \E p \in G!Procs : GitOps /\ G!Cool(p)
  \/ GitOps /\ G!Traffic
  \/ \E c \in Calls, url \in GitOpsRepos : GitOps /\ G!Ensure(c, url)
  \/ \E c \in Calls : GitOps /\ G!Get(c)
  \/ \E c \in Calls : GitOps /\ G!Write(c)
  \/ \E c \in Calls : GitOps /\ G!CallFails(c)
  \/ GitOps /\ G!Overwrite
  \/ GitOps /\ G!Diverge
  \/ GitOps /\ G!RemoveApi
  \/ GitOps /\ G!WakeUp
  \/ GitOps /\ G!FetchAppSet
  \/ GitOps /\ G!HealGet
  \/ GitOps /\ G!HealWrite
  \/ GitOps /\ G!HealFails
  \/ GitOps /\ G!ListApps
  \/ GitOps /\ G!ListFails
  \/ GitOps /\ G!AutoSync
  \/ GitOps /\ G!SyncFails
  \/ GitOps /\ G!Discover
  \/ GitOps /\ G!Deprecate
  \/ GitOps /\ G!Restart

\* The fairness of SloWatch, SelfHealth and ClusterGitOps.  A behaviour is of one
\* part, so fairness of a disjunction over the parts is that of each disjunct.
Fairness ==
  /\ WF_vars((Slo /\ S!ListSlos) \/ (GitOps /\ G!Tick))
  /\ SF_vars((Slo /\ S!Measure) \/ (Health /\ H!Check) \/ (GitOps /\ G!FetchAppSet))
  /\ SF_vars((Slo /\ S!Store) \/ (Health /\ verdict = "ok" /\ H!Publish) \/ (GitOps /\ G!HealGet))
  /\ SF_vars((Slo /\ S!Alert) \/ (Health /\ verdict = "none" /\ H!Publish) \/ (GitOps /\ G!HealWrite))
  /\ SF_vars((Slo /\ S!CheckApply) \/ (Health /\ verdict = "fail" /\ H!Publish)
               \/ (GitOps /\ G!ListApps))
  /\ SF_vars((Slo /\ S!Dedupe) \/ (GitOps /\ G!AutoSync))
  /\ SF_vars(Slo /\ S!LogRecommendation)

Spec == Init /\ [][Next]_vars /\ Fairness

-----------------------------------------------------------------------------

\* The parts' type invariants.
TypeOK == P!TypeOK /\ A!TypeOK /\ M!TypeOK /\ S!TypeOK /\ H!TypeOK /\ B!TypeOK /\ G!TypeOK

\* A pull request's rejection is filed once at most (PullRequests).
RejectionFiledOnce == P!RejectionFiledOnce

\* No assessed application drops off the fleet or its schedule (AppRecords).
NeverDropped == A!NeverDropped

\* An edit of a manifest stays in the row it was made in (ManifestReview).
EditsSurvive == M!EditsSurvive

\* What is reported as delivered was shown in a pull request (BranchDelivery).
ReportedIsShown == B!ReportedIsShown

\* What counts as people's edits of a merged pull request is (BranchDelivery).
EditsArePeoples == B!EditsArePeoples

\* The stored status and the alerts follow a lasting breach or recovery (SloWatch).
StatusSettles == part = "slo" => S!StatusSettles

\* A lasting fault is shown, a sound system is shown sound (SelfHealth).
FaultShows == part = "health" => H!FaultShows

\* What was changed by hand is put right in the end (ClusterGitOps).
Heals == part = "gitops" => G!Heals
=============================================================================
