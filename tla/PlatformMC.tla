----------------------------- MODULE PlatformMC -----------------------------
(***************************************************************************)
(* What feeds AgentIT and how it learns, on small instances: the path of   *)
(* its events, the report of one assessment, how skills are judged and     *)
(* researched, how their files are reviewed, and how capabilities are      *)
(* proposed.  They keep their state in different tables, files, topics and *)
(* branches and no property relates two of them, so a behaviour of the     *)
(* composition is one of each; TLC explores each on its own, chosen by     *)
(* loop in the initial state, instead of their product, and of three of    *)
(* them slices.                                                            *)
(***************************************************************************)
EXTENDS EventPipeline, TLC

CONSTANTS
  Apps, Skills, Reasons, NoReason, Threshold, MinCount, OnDisk, Limit, Attempts,
  Window, Interval, RunsRead, MaxRows,
  Shipped, Requests, PostAttempts, MaxDrafts, MaxFlips, MaxDeploys,
  Titles, ScoutRuns, Manual, MaxOpen, ListRead, SyncRead, OutcomesRead, MaxMoves, MaxOutcomes,
  Trip, Baseline, ShippedSets, MaxReports, MaxChanges,
  Loops

VARIABLES
  outcomeRows, making, pc, wake, beat, runs,
  pod, main, tips, base, prs, req, flip, warned, reviewed, unmarked, post, parked,
  drafts, deploys,
  proposals, outcomes, run,
  source, live, known, llm, scan, reports, changes, shipped,
  loop

\* The learner's interval and window are times, and it counts runs; the scout has
\* finitely many runs at a time, the watcher's at least, and its cap is a number
\* of pull requests.
ASSUME IntervalAssumption == Interval \in Nat
ASSUME BackOffAssumption == Window \in Nat /\ Attempts \in Nat /\ RunsRead \in Nat
ASSUME ScoutAssumption == IsFiniteSet(ScoutRuns) /\ ScoutRuns # {} /\ MaxOpen \in Nat

\* A dimension without checks is scored against some controls, and checks are counted.
ASSUME ScoreAssumption == Baseline \in Nat \ {0} /\ ShippedSets \subseteq Nat

L == INSTANCE SkillLearning WITH rows <- outcomeRows
C == INSTANCE SkillCatalog
S == INSTANCE CapabilityScout WITH prs <- proposals, Runs <- ScoutRuns
R == INSTANCE ScanReport

\* Every process keeps its buffer on the volume mounted at /data.
DbShared == [x \in Procs |-> "data"]

\* Events and partitions are told apart by nothing but their identity.
EventSymmetry == Permutations(Events) \cup Permutations(Partitions)

eventVars == vars
learningVars == <<outcomeRows, making, pc, wake, beat, runs>>
catalogVars == <<pod, main, tips, base, prs, req, flip, warned, reviewed, unmarked,
                 post, parked, drafts, deploys>>
scoutVars == <<proposals, outcomes, run>>
scanVars == <<source, live, known, llm, scan, reports, changes, shipped>>
platformVars == <<eventVars, learningVars, catalogVars, scoutVars, scanVars, loop>>

PlatformInit ==
  /\ Init /\ L!Init /\ C!Init /\ S!Init /\ R!Init
  /\ loop \in Loops
  \* What rests rests in one state.
  /\ loop \notin {"consuming", "retrying"} => \A p \in Partitions : committed[p] = 0
  /\ loop # "scan" => source = {} /\ shipped = 0

\* The event path has three slices.  "publishing": every process, and nothing is
\* consumed.  "consuming": a broker that a portal never loses, and every step of
\* the consumer.  "retrying": all steps of a portal and most of the consumer's,
\* as long as one partition has all the records.
Eventing ==
  /\ loop \in {"publishing", "consuming", "retrying"}
  /\ loop = "retrying" => \E p \in Partitions : \A q \in Partitions \ {p} : log[q] = <<>>
  /\ UNCHANGED <<loop, learningVars, catalogVars, scoutVars, scanVars>>
Sending(x) == Eventing /\ (loop # "publishing" => x \in Portals)
Faulting(x) == Sending(x) /\ loop # "consuming"
Consuming == Eventing /\ loop # "publishing"

\* "skills" is all of SkillLearning; of its slices, "judging" has no learner, and
\* "learning" has fewer outcomes: the learner asks only which skills do badly.
Judging ==
  /\ loop \in {"skills", "judging", "learning"}
  /\ UNCHANGED <<loop, eventVars, catalogVars, scoutVars, scanVars>>
Feeding == Judging /\ (loop = "learning" => L!Size < MinCount)
Learning == Judging /\ loop # "judging"

\* "files" is all of SkillCatalog; of its slices, "drafting" has one branch for each
\* pod, and "catalog" several, but no submissions of the learner.
Catalog ==
  /\ loop \in {"files", "drafting", "catalog"}
  /\ UNCHANGED <<loop, eventVars, learningVars, scoutVars, scanVars>>

Scout == loop = "scout" /\ UNCHANGED <<loop, eventVars, learningVars, catalogVars, scanVars>>
Scanning == loop = "scan" /\ UNCHANGED <<loop, eventVars, learningVars, catalogVars, scoutVars>>

PlatformNext ==
  \/ \E x \in Procs : Sending(x) /\ StartProcess(x)
  \/ \E x \in Procs : Sending(x) /\ Publish(x)
  \/ \E x \in Procs : Sending(x) /\ Connect(x)
  \/ \E x \in Procs : Faulting(x) /\ DrainSend(x)
  \/ \E x \in Procs : Faulting(x) /\ DrainDelete(x)
  \/ \E x \in Procs : Sending(x) /\ DrainEnd(x)
  \/ \E x \in Procs : Sending(x) /\ Send(x)
  \/ \E x \in Procs : Faulting(x) /\ BufferLocally(x)
  \/ \E x \in Procs : Faulting(x) /\ Crash(x)
  \/ \E x \in Procs : Sending(x) /\ Retry(x)
  \/ \E x \in Procs : Sending(x) /\ Relabel(x)
  \/ \E p \in Partitions : Consuming /\ HandleOk(p)
  \/ \E p \in Partitions : Consuming /\ loop = "consuming" /\ CommitRaises(p)
  \/ \E p \in Partitions : Consuming /\ HandleFails(p)
  \/ \E p \in Partitions : Consuming /\ DeadLetter(p)
  \/ Consuming /\ StartConsumer
  \/ Consuming /\ Rebalance
  \/ Consuming /\ loop = "consuming" /\ StopConsumer
  \/ Consuming /\ Dismiss
  \/ \E a \in Apps : Judging /\ loop # "learning" /\ L!Scan(a)
  \/ \E a \in Apps, s \in Skills : Feeding /\ L!Dispatch(a, s)
  \/ \E a \in Apps, s \in Skills : Feeding /\ L!RecordOutcome(a, s)
  \/ \E p \in L!Pairs : Judging /\ loop # "learning" /\ L!ClearCooldown(p)
  \/ Learning /\ L!Startup
  \/ Learning /\ L!StartupBlind
  \/ Learning /\ L!WakeUp
  \/ Learning /\ L!NoModel
  \/ Learning /\ L!Improve
  \/ Learning /\ L!Sweep
  \/ Learning /\ L!RecordTick
  \/ Learning /\ L!Restart
  \/ Learning /\ L!LearnNow
  \/ Learning /\ L!LearnFails
  \/ Learning /\ L!Pass
  \/ \E s \in Skills : Catalog /\ C!LearnHere(s)
  \/ \E s \in Skills : Catalog /\ loop # "catalog" /\ C!Draft(s)
  \/ Catalog /\ C!PortalSaves
  \/ Catalog /\ C!PortalRefuses
  \/ Catalog /\ C!Park
  \/ \E q \in Requests, s \in Skills : Catalog /\ C!Review(q, s)
  \/ \E q \in Requests, s \in Skills : Catalog /\ C!Deprecate(q, s)
  \/ \E q \in Requests : Catalog /\ C!Activate(q)
  \/ \E q \in Requests : Catalog /\ C!Block(q)
  \/ \E q \in Requests : Catalog /\ (loop = "drafting" => Len(tips) = 1) /\ C!Checkout(q)
  \/ \E q \in Requests : Catalog /\ C!Commit(q)
  \/ \E q \in Requests : Catalog /\ C!Propose(q)
  \/ \E q \in Requests : Catalog /\ C!PersistFails(q)
  \/ \E pr \in prs : Catalog /\ C!Merge(pr)
  \/ \E pr \in prs : Catalog /\ C!Close(pr)
  \/ Catalog /\ C!Redeploy
  \/ \E r \in ScoutRuns : Scout /\ S!BeginSync(r)
  \/ \E r \in ScoutRuns : Scout /\ S!SyncFails(r)
  \/ \E r \in ScoutRuns, i \in S!Numbers : Scout /\ S!SyncOne(r, i)
  \/ \E r \in ScoutRuns, i \in S!Numbers : Scout /\ S!SkipOne(r, i)
  \/ \E r \in ScoutRuns : Scout /\ S!Gather(r)
  \/ \E r \in ScoutRuns : Scout /\ S!NoProposal(r)
  \/ \E r \in ScoutRuns, title \in Titles : Scout /\ S!Propose(r, title)
  \/ \E r \in ScoutRuns : Scout /\ S!PassCap(r)
  \/ \E r \in ScoutRuns : Scout /\ S!PassTests(r)
  \/ \E r \in ScoutRuns : Scout /\ S!GateBlocked(r)
  \/ \E r \in ScoutRuns : Scout /\ S!OpenPr(r)
  \/ \E r \in ScoutRuns : Scout /\ S!OpenFails(r)
  \/ \E r \in ScoutRuns : Scout /\ S!Cancel(r)
  \/ \E i \in S!Numbers : Scout /\ S!Merge(i)
  \/ \E i \in S!Numbers : Scout /\ S!Close(i)
  \/ \E i \in S!Numbers : Scout /\ S!GrowOld(i)
  \/ \E k \in DOMAIN outcomes : Scout /\ S!Expire(k)
  \/ \E p \in R!Problems : Scanning /\ R!Change(p)
  \/ \E d \in R!Dims : Scanning /\ R!AnalyzerFails(d)
  \/ Scanning /\ R!Sync
  \/ Scanning /\ R!Cool
  \/ Scanning /\ R!StartScan
  \/ Scanning /\ R!AnalyzeSecurity
  \/ Scanning /\ R!AnalyzeInfrastructure
  \/ Scanning /\ R!LiveClear
  \/ Scanning /\ R!MergeChecks
  \/ Scanning /\ R!Save

PlatformSpec == PlatformInit /\ [][PlatformNext]_platformVars

-----------------------------------------------------------------------------

\* The type invariants of the parts.
PlatformTypeOK == TypeOK /\ L!TypeOK /\ C!TypeOK /\ S!TypeOK /\ R!TypeOK

\* A finding counts as resolved only when it is gone (ScanReport).
ResolvedIsGone == R!ResolvedIsGone

\* Fewer findings never score lower (ScanReport).
RepairNeverLowersScore == R!RepairNeverLowersScore

\* list_cooled_skills and get_skill_cooldown answer alike (SkillLearning).
CooldownViewsAgree == L!CooldownViewsAgree

\* The learner leaves a skill alone after Attempts failures (SkillLearning).
BacksOff == L!BacksOff

\* Ticks are an interval apart across restarts (SkillLearning).
TicksApart == L!TicksApart

\* What a scan generates from has been reviewed (SkillCatalog).
ScanIsReviewed == C!ScanIsReviewed

\* No decision is reverted by a redeploy unannounced (SkillCatalog).
NoSilentRevert == C!NoSilentRevert

\* Open proposals stay under the cap, but for the runs in flight
\* (CapabilityScout).
OpenBounded == S!OpenBounded

\* What was merged or refused as a duplicate is not proposed again
\* (CapabilityScout).
NeverReproposed == S!NeverReproposed
=============================================================================
