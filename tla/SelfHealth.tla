----------------------------- MODULE SelfHealth -----------------------------
(***************************************************************************)
(* The self-health-check watcher and the panel of the Health page.  A tick *)
(* evaluates four checks one after the other (are GitHub's pushes arriving,*)
(* is CI moving, do the CronJobs succeed, does the cleanup clean up), then *)
(* publishes one event for each; the panel shows the newest event of each  *)
(* check, and calls it healthy when its severity is info.                  *)
(*                                                                         *)
(* The checks share the tick and nothing else, so a behaviour follows one  *)
(* of them, subject; an exception in any of the others is TickFails.       *)
(***************************************************************************)
EXTENDS Naturals, Sequences, FiniteSets

CONSTANTS
  Window,     \* deliveries GitHub lists
  MinOk,      \* successes among them that excuse a gateway error
  StallAge,   \* age at which a running pipeline is stalled
  Period,     \* of the CronJob, in units of time
  Grace,      \* time a success may lag the last schedule
  Threshold,  \* stale pods tolerated
  Depth       \* ticks of events the panel reads

VARIABLES
  subject,
  hook,    \* the push webhook, and the outcomes of its deliveries, newest first
  ci,      \* the newest pipeline run, and how long it has been in that state
  cron,    \* the CronJob: suspended, and how far its last success lags its last schedule
  stale,   \* finished pods past their age
  pc, verdict,
  shown,   \* the severity on the panel
  missed   \* ticks since the newest event of this check

facts == <<hook, ci, cron, stale>>
watch == <<pc, verdict, shown, missed>>
vars == <<subject, facts, watch>>

Checks == {"webhook", "ci", "cronjobs", "cleanup"}
Codes == {"ok", "gateway", "bad"}
HookStates == {"absent", "off", "http", "on"}  \* "http": registered under a URL that redirects
CiStates == {"none", "waiting", "running", "ended"}  \* "waiting": not started, without a startTime
MaxLag == Grace + 2 * Period  \* lags beyond it are alike
NeverRun == MaxLag + 1
NeverDone == MaxLag + 2

Init ==
  /\ subject \in Checks
  /\ hook = [state |-> "absent", log |-> <<>>] /\ stale = 0
  /\ ci = [state |-> "none", age |-> 0]
  /\ cron = [suspended |-> FALSE, lag |-> NeverRun]
  /\ pc = "idle" /\ verdict = "none" /\ shown = "unknown" /\ missed = 0

-----------------------------------------------------------------------------
(* What is watched.                                                        *)

Deliver(code) ==
  /\ subject = "webhook" /\ hook.state \in {"http", "on"}
  /\ hook.state = "http" => code = "bad"
  /\ LET log == <<code>> \o hook.log IN
       hook' = [hook EXCEPT !.log = IF Len(log) > Window THEN SubSeq(log, 1, Window) ELSE log]
  /\ UNCHANGED <<subject, ci, cron, stale, watch>>

SwitchHook ==
  /\ subject = "webhook"
  /\ hook' = [hook EXCEPT !.state = IF @ = "on" THEN "off" ELSE "on"]
  /\ hook.state \in {"on", "off"}
  /\ UNCHANGED <<subject, ci, cron, stale, watch>>

\* The webhook is deleted, or registered by an older portal.
Replace(state) ==
  /\ subject = "webhook" /\ state \in {"absent", "http"}
  /\ hook' = [state |-> state, log |-> <<>>]
  /\ UNCHANGED <<subject, ci, cron, stale, watch>>

\* ensure_webhook, with every onboarding: the hooks under http are deleted, one
\* under https is kept as it is, also when it is disabled, and a new one is
\* registered when there is none.
EnsureWebhook ==
  /\ subject = "webhook" /\ hook.state \in {"absent", "http"}
  /\ hook' = [state |-> "on", log |-> <<>>]
  /\ UNCHANGED <<subject, ci, cron, stale, watch>>

\* Time passes.
CiAges ==
  /\ subject = "ci" /\ ci.age <= StallAge
  /\ ci' = [ci EXCEPT !.age = @ + 1]
  /\ UNCHANGED <<subject, hook, cron, stale, watch>>

\* A push creates a run, Tekton starts it and sets its startTime, it ends, or the
\* runs are pruned.
CiMoves(state) ==
  /\ subject = "ci"
  /\ state = "running" => ci.state = "waiting"
  /\ state = "ended" => ci.state \in {"waiting", "running"}
  /\ ci' = [state |-> state, age |-> 0]
  /\ UNCHANGED <<subject, hook, cron, stale, watch>>

\* A run is scheduled: the lag of the last success grows by the period.
CronStarts ==
  /\ subject = "cronjobs" /\ ~ cron.suspended
  /\ cron' = [cron EXCEPT !.lag = CASE @ \in {NeverRun, NeverDone} -> NeverDone
                                    [] @ + Period > MaxLag -> @
                                    [] OTHER -> @ + Period]
  /\ UNCHANGED <<subject, hook, ci, stale, watch>>

CronSucceeds ==
  /\ subject = "cronjobs" /\ cron.lag # NeverRun
  /\ cron' = [cron EXCEPT !.lag = 0]
  /\ UNCHANGED <<subject, hook, ci, stale, watch>>

Suspend ==
  /\ subject = "cronjobs" /\ cron' = [cron EXCEPT !.suspended = ~ @]
  /\ UNCHANGED <<subject, hook, ci, stale, watch>>

PodsAge ==
  /\ subject = "cleanup" /\ stale <= Threshold /\ stale' = stale + 1
  /\ UNCHANGED <<subject, hook, ci, cron, watch>>

CleanUp ==
  /\ subject = "cleanup" /\ stale' \in 0..stale
  /\ UNCHANGED <<subject, hook, ci, cron, watch>>

-----------------------------------------------------------------------------
(* The four checks.                                                        *)

\* check_webhook_delivery_health: a gateway error is inconclusive while MinOk
\* of the deliveries listed succeeded.
WebhookVerdict ==
  LET oks == {i \in DOMAIN hook.log : hook.log[i] = "ok"} IN
  CASE hook.state \in {"absent", "off"} -> "fail"
    [] hook.state \in {"http", "on"} /\ hook.log = <<>> -> "none"
    [] hook.state \in {"http", "on"} /\ 1 \in oks -> "ok"
    [] OTHER -> IF hook.log[1] = "gateway" /\ Cardinality(oks) >= MinOk THEN "none" ELSE "fail"

\* _check_ci_pipeline_progress: the age of a run counts from its startTime; a run
\* without one, and no run at all, are healthy.
CiVerdict == IF ci.state = "running" /\ ci.age > StallAge THEN "fail" ELSE "ok"

CronVerdict ==
  IF cron.suspended \/ cron.lag = NeverRun \/ cron.lag <= Grace THEN "ok" ELSE "fail"

CleanupVerdict == IF stale > Threshold THEN "fail" ELSE "ok"

Verdict == CASE subject = "webhook"  -> WebhookVerdict
             [] subject = "ci"       -> CiVerdict
             [] subject = "cronjobs" -> CronVerdict
             [] subject = "cleanup"  -> CleanupVerdict

\* Mutant of Severity: a check that could not look is told as info.
Severity_Lenient(v) == IF v = "fail" THEN "alert" ELSE "info"

\* _check_result, as the checks call it: what an API did not answer is a warning.
Severity(v) == CASE v = "ok" -> "info" [] v = "none" -> "warning" [] v = "fail" -> "alert"

Check ==
  /\ pc = "idle" /\ pc' = "publish" /\ verdict' = Verdict
  /\ UNCHANGED <<subject, facts, shown, missed>>

\* The API of the cluster fails, or its breaker is open: inconclusive; when it
\* is GitHub that fails, the check has failed.
CheckBlind ==
  /\ pc = "idle" /\ pc' = "publish"
  /\ \/ verdict' = "none"
     \/ subject = "webhook" /\ verdict' = "fail"
  /\ UNCHANGED <<subject, facts, shown, missed>>

\* _publish_result, with log_event.
Publish ==
  /\ pc = "publish" /\ pc' = "idle" /\ verdict' = "none"
  /\ shown' = Severity(verdict) /\ missed' = 0
  /\ UNCHANGED <<subject, facts>>

\* log_event fails and is swallowed: the panel keeps the older event until it
\* is no longer among those get_self_health_check_states reads.
PublishLost ==
  /\ pc = "publish" /\ pc' = "idle" /\ verdict' = "none"
  /\ missed' = IF missed = Depth THEN Depth ELSE missed + 1
  /\ shown' = IF missed' = Depth THEN "unknown" ELSE shown
  /\ UNCHANGED <<subject, facts>>

\* An exception in any check, or a restart of the watcher.
TickFails ==
  /\ pc = "publish" /\ pc' = "idle" /\ verdict' = "none"
  /\ UNCHANGED <<subject, facts, shown, missed>>

Next ==
  \/ \E code \in Codes : Deliver(code)
  \/ \E state \in HookStates : Replace(state)
  \/ SwitchHook \/ EnsureWebhook \/ CiAges \/ (\E state \in CiStates : CiMoves(state))
  \/ CronStarts \/ CronSucceeds \/ Suspend
  \/ PodsAge \/ CleanUp
  \/ Check \/ CheckBlind \/ Publish \/ PublishLost \/ TickFails

\* The loop ticks for ever; a check that can be made, and the log of a result
\* that comes up again and again, succeed in the end: no kind of result is the
\* one the database loses every time.
Fairness ==
  /\ SF_vars(Check)
  /\ \A v \in {"ok", "none", "fail"} : SF_vars(verdict = v /\ Publish)

Spec == Init /\ [][Next]_vars /\ Fairness

-----------------------------------------------------------------------------
(* Properties.                                                             *)

TypeOK ==
  /\ subject \in Checks
  /\ hook \in [state : HookStates, log : UNION {[1..n -> Codes] : n \in 0..Window}]
  /\ ci \in [state : CiStates, age : 0..(StallAge + 1)] /\ stale \in 0..(Threshold + 1)
  /\ cron \in [suspended : BOOLEAN, lag : 0..NeverDone]
  /\ pc \in {"idle", "publish"} /\ verdict \in {"ok", "none", "fail"}
  /\ shown \in {"unknown", "info", "warning", "alert"} /\ missed \in 0..Depth

\* No run gets anywhere.
Stalled == ci.state \in {"waiting", "running"} /\ ci.age > StallAge

Faulty ==
  CASE subject = "webhook"  -> hook.state \in {"absent", "off"} \/ (hook.log # <<>> /\ hook.log[1] # "ok")
    [] subject = "ci"       -> Stalled /\ ci.state = "running"
    [] subject = "cronjobs" -> ~ cron.suspended /\ cron.lag \in (Grace + 1..MaxLag) \cup {NeverDone}
    [] subject = "cleanup"  -> stale > Threshold

Sound == ~ Faulty /\ ~ (subject = "webhook" /\ hook.log = <<>>) /\ ~ (subject = "ci" /\ Stalled)

\* A fault that lasts, of a pipeline run one that Tekton has started, ends up off
\* the healthy side of the panel for good, however often its check could not be
\* made or its event was lost; a subject that stays sound is shown healthy again
\* and again.
FaultShows ==
  /\ <>[]Faulty => <>[](shown # "info")
  /\ <>[]Sound => []<>(shown = "info")

\* _check_result: "callers never mistake `couldn't check' for `checked and
\* healthy'".  A run that Tekton never starts has no age to judge, and is shown
\* healthy for ever.
StallShows == subject = "ci" => (<>[]Stalled => <>[](shown # "info"))
=============================================================================
