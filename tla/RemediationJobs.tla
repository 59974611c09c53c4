-------------------------- MODULE RemediationJobs --------------------------
(***************************************************************************)
(* The remediation_jobs table (portal/store/jobs.py), the three background *)
(* runners that report into it and the reaper (portal/app.py):             *)
(*                                                                         *)
(*   assess      start_assess_job, a thread; on success it may create and  *)
(*               schedule an onboard job (the assess -> onboard chain)     *)
(*   onboard     _run_onboarding_job, a coroutine; its generation and its  *)
(*               auto-delivery run under with_timeout                      *)
(*   validation  _run_manual_validation_job, a coroutine without timeout   *)
(*                                                                         *)
(* A runner lives in the portal process and dies with it; the row stays.   *)
(* The reaper fails every non-terminal row older than ReapAge, whether its *)
(* runner lives or not, and a runner overwrites whatever status it finds.  *)
(***************************************************************************)
EXTENDS Naturals

CONSTANTS
  Jobs,            \* job ids
  NoJob,
  GenTimeout,      \* ONBOARD_GENERATION_TIMEOUT
  SideBound,       \* image build and webhook registration (the code sets no bound)
  DeliverTimeout,  \* with_timeout around auto_validate_and_deliver
  ReapAge          \* reap_orphaned_jobs' max_age_seconds

ASSUME JobsAssumption == NoJob \notin Jobs

\* 600 + SideBound + 600 against 1800 seconds.
ASSUME TimingAssumption ==
  /\ GenTimeout \in Nat /\ SideBound \in Nat /\ DeliverTimeout \in Nat /\ ReapAge \in Nat
  /\ GenTimeout + SideBound + DeliverTimeout <= ReapAge

VARIABLES
  kind,    \* which runner a row belongs to, "none" if there is no row
  status,  \* the status column
  pc,      \* phase of the runner; "off" before it starts and after it ends
  t,       \* time spent in the phase
  age,     \* time since created_at, saturating above ReapAge
  chain,   \* assess: continue_onboard was requested
  next     \* assess: the onboard job it created

vars == <<kind, status, pc, t, age, chain, next>>

Kinds == {"none", "assess", "onboard", "validation"}

\* "assessing" also stands for "cloning" and "saving", "running" for auto-delivery's
\* "reviewing" and "delivering".
Statuses == {"none", "pending", "assessing", "running", "completed", "failed",
             "needs_attention"}

Terminal == {"completed", "failed", "needs_attention"}

Phases == {"off", "clone", "saving", "chained", "schedule",
           "start", "generate", "side", "deliver"}

TypeOK ==
  /\ kind \in [Jobs -> Kinds]
  /\ status \in [Jobs -> Statuses]
  /\ pc \in [Jobs -> Phases]
  /\ t \in [Jobs -> Nat]
  /\ age \in [Jobs -> 0..(ReapAge + 1)]
  /\ chain \in [Jobs -> BOOLEAN]
  /\ next \in [Jobs -> Jobs \cup {NoJob}]

Init ==
  /\ kind = [j \in Jobs |-> "none"]
  /\ status = [j \in Jobs |-> "none"]
  /\ pc = [j \in Jobs |-> "off"]
  /\ t = [j \in Jobs |-> 0]
  /\ age = [j \in Jobs |-> 0]
  /\ chain = [j \in Jobs |-> FALSE]
  /\ next = [j \in Jobs |-> NoJob]

Live(j) == pc[j] # "off"

-----------------------------------------------------------------------------
(* Runner and row writes. *)

\* update_assessment_job / update_remediation_job: the status is overwritten whatever
\* it was; the runner goes on to phase p.
Write(j, s, p) ==
  /\ status' = [status EXCEPT ![j] = s]
  /\ pc' = [pc EXCEPT ![j] = p]
  /\ t' = [t EXCEPT ![j] = 0]

\* A runner reports s and ends.
Finish(j, s) ==
  /\ Write(j, s, "off")
  /\ UNCHANGED <<kind, age, chain, next>>

\* A runner reports s and goes on to p.
Advance(j, s, p) ==
  /\ Write(j, s, p)
  /\ UNCHANGED <<kind, age, chain, next>>

-----------------------------------------------------------------------------
(* start_assess_job. *)

create_assessment_job(j, c) ==
  /\ kind[j] = "none"
  /\ kind' = [kind EXCEPT ![j] = "assess"]
  /\ chain' = [chain EXCEPT ![j] = c]
  /\ Write(j, "assessing", "clone")
  /\ UNCHANGED <<age, next>>

\* infra repo, slot, clone, run_assessment, save: any of them may raise.
AssessFails(j) ==
  /\ pc[j] \in {"clone", "saving", "chained"}
  /\ Finish(j, "failed")

AssessSaves(j) ==
  /\ pc[j] = "clone"
  /\ Advance(j, "assessing", "saving")

\* create_remediation_job for the chain, before the assess job is marked completed.
ChainOnboard(j, o) ==
  /\ pc[j] = "saving"
  /\ chain[j]
  /\ kind[o] = "none"
  /\ kind' = [kind EXCEPT ![o] = "onboard"]
  /\ status' = [status EXCEPT ![o] = "pending"]
  /\ next' = [next EXCEPT ![j] = o]
  /\ pc' = [pc EXCEPT ![j] = "chained"]
  /\ t' = [t EXCEPT ![j] = 0]
  /\ UNCHANGED <<age, chain>>

\* Mutant of AssessCompletes: completed first, the onboard job created later.
AssessCompletes_Early(j) ==
  \/ pc[j] = "saving" /\ Finish(j, "completed")
  \/ pc[j] = "chained" /\ Advance(j, "completed", "schedule")

AssessCompletes(j) ==
  \/ pc[j] = "saving" /\ ~chain[j] /\ Finish(j, "completed")
  \/ pc[j] = "chained" /\ Advance(j, "completed", "schedule")

\* run_coroutine_threadsafe(_run_onboarding_job).
ScheduleOnboard(j) ==
  /\ pc[j] = "schedule"
  /\ pc' = [pc EXCEPT ![j] = "off", ![next[j]] = "start"]
  /\ UNCHANGED <<kind, status, t, age, chain, next>>

\* The base URL or the scheduling raises: the except branch fails a completed job.
ScheduleFails(j) ==
  /\ pc[j] = "schedule"
  /\ Finish(j, "failed")

-----------------------------------------------------------------------------
(* _run_onboarding_job and _run_manual_validation_job. *)

\* start_onboarding_job, start_manual_validation_job, the webhooks' chain: the row and
\* the background task.
create_remediation_job(j, k) ==
  /\ kind[j] = "none"
  /\ kind' = [kind EXCEPT ![j] = k]
  /\ Write(j, "pending", "start")
  /\ UNCHANGED <<age, chain, next>>

\* "Assessment not found", "No onboarding manifests to validate".
StartFails(j) ==
  /\ pc[j] = "start"
  /\ Finish(j, "failed")

OnboardStarts(j) ==
  /\ pc[j] = "start" /\ kind[j] = "onboard"
  /\ Advance(j, "running", "generate")

\* No status is written before auto_validate_and_deliver reports progress.
ValidationStarts(j) ==
  /\ pc[j] = "start" /\ kind[j] = "validation"
  /\ Advance(j, status[j], "deliver")

Generated(j) ==
  /\ pc[j] = "generate"
  /\ Advance(j, "running", "side")

\* A timed-out generation needs attention if an earlier run saved manifests.
GenerationTimesOut(j) ==
  /\ pc[j] = "generate"
  /\ t[j] = GenTimeout
  /\ \E s \in {"failed", "needs_attention"} : Finish(j, s)

WebhookRegistered(j) ==
  /\ pc[j] = "side"
  /\ Advance(j, "running", "deliver")

\* auto_validate_and_deliver: "reviewing", then "delivering".
Progress(j) ==
  /\ pc[j] = "deliver"
  /\ status' = [status EXCEPT ![j] = "running"]
  /\ UNCHANGED <<kind, pc, t, age, chain, next>>

\* Delivered or unchanged, or something for a human to look at.
Delivered(j) ==
  /\ pc[j] = "deliver"
  /\ \E s \in {"completed", "needs_attention"} : Finish(j, s)

DeliveryTimesOut(j) ==
  /\ pc[j] = "deliver" /\ kind[j] = "onboard"
  /\ t[j] = DeliverTimeout
  /\ \E s \in {"failed", "needs_attention"} : Finish(j, s)

RunRaises(j) ==
  /\ pc[j] \in {"generate", "side", "deliver"}
  /\ Finish(j, "failed")

\* The status write of an except branch raises: the runner is gone, the row as it was.
RunnerDies(j) ==
  /\ Live(j)
  /\ pc' = [pc EXCEPT ![j] = "off"]
  /\ UNCHANGED <<kind, status, t, age, chain, next>>

RunnerStep(j) ==
  \/ AssessFails(j) \/ AssessSaves(j) \/ AssessCompletes(j)
  \/ \E o \in Jobs : ChainOnboard(j, o)
  \/ ScheduleOnboard(j) \/ ScheduleFails(j)
  \/ StartFails(j) \/ OnboardStarts(j) \/ ValidationStarts(j)
  \/ Generated(j) \/ GenerationTimesOut(j) \/ WebhookRegistered(j)
  \/ Delivered(j) \/ DeliveryTimesOut(j) \/ RunRaises(j) \/ RunnerDies(j)

-----------------------------------------------------------------------------
(* The process, the reaper and time. *)

Crash ==
  /\ pc' = [j \in Jobs |-> "off"]
  /\ UNCHANGED <<kind, status, t, age, chain, next>>

\* Mutants of Orphaned: age ignored, pending rows overlooked, terminal rows reaped too.
Orphaned_AnyAge(j) == kind[j] # "none" /\ status[j] \notin Terminal
Orphaned_NotPending(j) ==
  kind[j] # "none" /\ status[j] \notin Terminal \cup {"pending"} /\ age[j] > ReapAge
Orphaned_Terminal(j) == kind[j] # "none" /\ age[j] > ReapAge

Orphaned(j) == kind[j] # "none" /\ status[j] \notin Terminal /\ age[j] > ReapAge

\* One UPDATE for all orphaned rows; at startup and every five minutes.
reap_orphaned_jobs ==
  /\ \E j \in Jobs : Orphaned(j)
  /\ status' = [j \in Jobs |-> IF Orphaned(j) THEN "failed" ELSE status[j]]
  /\ UNCHANGED <<kind, pc, t, age, chain, next>>

\* The phases under a bound.  The assess thread and the manual validation run as long
\* as they like.
Timed(j) ==
  \/ pc[j] \in {"generate", "side"}
  \/ pc[j] = "deliver" /\ kind[j] = "onboard"

Limit(p) ==
  CASE p = "generate" -> GenTimeout
    [] p = "side" -> SideBound
    [] p = "deliver" -> DeliverTimeout

\* Time may pass: no timed phase is at its limit, no runner is between two store calls.
MayWait(j) ==
  /\ Timed(j) => t[j] < Limit(pc[j])
  /\ pc[j] \notin {"chained", "schedule", "start"}

TickAge(j) == IF kind[j] = "none" \/ age[j] > ReapAge THEN age[j] ELSE age[j] + 1

Tick ==
  /\ \A j \in Jobs : MayWait(j)
  /\ t' = [j \in Jobs |-> IF Timed(j) THEN t[j] + 1 ELSE t[j]]
  /\ age' = [j \in Jobs |-> TickAge(j)]
  /\ UNCHANGED <<kind, status, pc, chain, next>>

Next ==
  \/ \E j \in Jobs, c \in BOOLEAN : create_assessment_job(j, c)
  \/ \E j \in Jobs, k \in {"onboard", "validation"} : create_remediation_job(j, k)
  \/ \E j \in Jobs : RunnerStep(j) \/ Progress(j)
  \/ Crash \/ reap_orphaned_jobs \/ Tick

\* Runners are scheduled and their awaits end; the maintenance loop runs; time passes.
Fairness ==
  /\ WF_vars(Tick)
  /\ WF_vars(reap_orphaned_jobs)
  /\ \A j \in Jobs : WF_vars(RunnerStep(j))

Spec == Init /\ [][Next]_vars

FairSpec == Spec /\ Fairness

-----------------------------------------------------------------------------
(* Properties. *)

\* reap_orphaned_jobs: "a slow-but-alive job is never false-failed" -- onboard jobs.
OnboardNeverFalseFailed ==
  [][\A j \in Jobs :
       kind[j] = "onboard" /\ Live(j) /\ reap_orphaned_jobs => status'[j] = status[j]]_vars

\* A terminal status of an onboard job, written by its runner or by the reaper, is
\* never overwritten: what the progress page has announced stays true.
OnboardTerminalIsFinal ==
  [][\A j \in Jobs :
       kind[j] = "onboard" /\ status[j] \in Terminal => status'[j] = status[j]]_vars

\* start_assess_job: "a poller can never observe completed with no onboard job yet".
CompletedChainHasOnboardJob ==
  \A j \in Jobs :
    kind[j] = "assess" /\ chain[j] /\ status[j] = "completed" =>
      next[j] \in Jobs /\ kind[next[j]] = "onboard"

\* Every job reaches a terminal status, although processes die and runners hang up:
\* nothing that polls a job waits forever.
EveryJobEnds ==
  \A j \in Jobs : kind[j] # "none" ~> status[j] \in Terminal

\* reap_orphaned_jobs' docstring for every kind of job.
NeverFalseFailed ==
  [][\A j \in Jobs : Live(j) /\ reap_orphaned_jobs => status'[j] = status[j]]_vars
=============================================================================
