------------------------------ MODULE SloWatch ------------------------------
(***************************************************************************)
(* The SLO tracker and the rollback it recommends.  Every tick the tracker *)
(* reads the SLOs of an application, measures them, stores the status, and *)
(* for a breach publishes an alert and logs a recommendation, an event     *)
(* that stays open until a person executes or dismisses it.  It recommends *)
(* only for an application whose newest assessment has a row of            *)
(* apply_results that lists applied objects; this version writes no such   *)
(* row (Deliver opens pull requests), so they are those an earlier version *)
(* left behind.                                                            *)
(*                                                                         *)
(* One application with one SLO.  How an alert travels is EventPipeline's. *)
(***************************************************************************)
EXTENDS Naturals, FiniteSets

CONSTANTS
  Requests,     \* requests of the Rollback and Dismiss buttons
  LegacyApply,  \* the first assessment may list applied objects
  MaxRecs,      \* bound on recommendations
  MaxAssess,    \* bound on assessments
  MaxPurges     \* bound on purges

VARIABLES
  measurable, \* the metric has a collector
  healthy,  \* the pods of the application meet the target
  slo,      \* the row of slos: its status, or "absent"
  alert,    \* the last tick to get there published an alert for it
  newest,   \* the newest assessment
  applied,  \* the assessments whose newest result lists applied objects
  recs,     \* recommendations, by order
  tick, check, req, \* the tracker, a verification after a delivery, the requests
  undone,   \* rollbacks that ran, per recommendation
  purges

Assessments == 1..MaxAssess
Recs == 1..MaxRecs
Status == {"unknown", "met", "breached"}
Idle == [step |-> "idle"]

\* The application, and its recommendations with their answers.
appVars == <<measurable, healthy, newest, applied>>
recVars == <<recs, req, undone, purges>>
rest == <<appVars, recVars>>
vars == <<rest, slo, alert, tick, check>>

Init ==
  /\ measurable \in BOOLEAN
  /\ healthy = TRUE /\ slo = "unknown" /\ alert = FALSE
  /\ newest = 1 /\ applied \in {{}, LegacyApply}
  /\ recs = [k \in Recs |-> "none"]
  /\ tick = Idle /\ check = Idle /\ req = [q \in Requests |-> Idle]
  /\ undone = [k \in Recs |-> 0] /\ purges = 0

\* The list_unresolved_events of rollback-recommended.
Unresolved == {k \in Recs : recs[k] = "open"}
Fresh == {k \in Recs : recs[k] = "none" /\ \A j \in 1..(k - 1) : recs[j] # "none"}

-----------------------------------------------------------------------------
(* The application, and what else writes these tables.                     *)

Degrade ==
  /\ healthy /\ healthy' = FALSE
  /\ UNCHANGED <<recVars, measurable, slo, alert, newest, applied, tick, check>>

Recover ==
  /\ ~ healthy /\ healthy' = TRUE
  /\ UNCHANGED <<recVars, measurable, slo, alert, newest, applied, tick, check>>

\* A re-assessment: SLOs follow the application, results do not.
Reassess ==
  /\ newest < MaxAssess /\ newest' = newest + 1
  /\ UNCHANGED <<recVars, measurable, healthy, slo, alert, applied, tick, check>>

\* An edit of the manifests or a purge deletes results; a dry run saved later
\* hides them behind a row that lists nothing.
HideResult ==
  /\ newest \in applied /\ applied' = applied \ {newest}
  /\ UNCHANGED <<recVars, measurable, healthy, slo, alert, newest, tick, check>>

\* purge_old_data takes the oldest events, answered or not.
Purge ==
  /\ purges < MaxPurges /\ purges' = purges + 1
  /\ \E n \in Recs : /\ recs[n] \in {"open", "resolved"}
                     /\ recs' = [k \in Recs |-> IF k <= n THEN "gone" ELSE recs[k]]
  /\ UNCHANGED <<appVars, slo, alert, tick, check, req, undone>>

\* is_breached of what collect_slo returns.
Measured == IF healthy THEN "met" ELSE "breached"

\* verify_slos, after a delivery, measures in a thread ...
Verify ==
  /\ check = Idle /\ measurable /\ slo # "absent"
  /\ check' = [step |-> "store", status |-> Measured]
  /\ UNCHANGED <<rest, slo, alert, tick>>

\* ... and stores what it found, as the tracker does.
StoreVerified ==
  /\ check.step = "store"
  /\ slo' = IF slo = "absent" THEN slo ELSE check.status
  /\ check' = Idle
  /\ UNCHANGED <<rest, alert, tick>>

VerifyFails ==
  /\ check # Idle /\ check' = Idle
  /\ UNCHANGED <<rest, slo, alert, tick>>

DeleteSlo ==
  /\ slo # "absent" /\ slo' = "absent"
  /\ UNCHANGED <<rest, alert, tick, check>>

-----------------------------------------------------------------------------
(* A tick of the tracker.                                                  *)

\* list_all, once per repository, and list_slos: the rows as they are.
ListSlos ==
  /\ tick = Idle
  /\ tick' = IF slo = "absent" THEN Idle
             ELSE [step |-> "collect", id |-> newest, status |-> slo]
  /\ UNCHANGED <<rest, slo, alert, check>>

\* collect_slo, in a thread.
Measure ==
  /\ tick.step = "collect" /\ measurable
  /\ tick' = [tick EXCEPT !.step = "store", !.status = Measured]
  /\ UNCHANGED <<rest, slo, alert, check>>

\* What cannot be measured keeps the status it was read with: there is no
\* collector, the API fails, or there is no data yet.
NoValue ==
  /\ tick.step = "collect"
  /\ tick' = [tick EXCEPT !.step = "alert"]
  /\ UNCHANGED <<rest, slo, alert, check>>

\* Mutant of Store: the fresh status stays in memory.
Store_InMemory ==
  /\ tick.step = "store"
  /\ tick' = [tick EXCEPT !.step = "alert"]
  /\ UNCHANGED <<rest, slo, alert, check>>

\* update_slo.
Store ==
  /\ tick.step = "store"
  /\ slo' = IF slo = "absent" THEN slo ELSE tick.status
  /\ tick' = [tick EXCEPT !.step = "alert"]
  /\ UNCHANGED <<rest, alert, check>>

\* The alert of check_once.
Alert ==
  /\ tick.step = "alert"
  /\ alert' = (tick.status = "breached")
  /\ tick' = IF alert' THEN [tick EXCEPT !.step = "apply"] ELSE Idle
  /\ UNCHANGED <<rest, slo, check>>

\* _recommend_rollback, first half.
CheckApply ==
  /\ tick.step = "apply"
  /\ tick' = IF tick.id \in applied THEN [step |-> "dedupe"] ELSE Idle
  /\ UNCHANGED <<rest, slo, alert, check>>

\* Its second half: not while an earlier recommendation is unanswered.
Dedupe ==
  /\ tick.step = "dedupe"
  /\ tick' = IF Unresolved # {} THEN Idle ELSE [step |-> "log"]
  /\ UNCHANGED <<rest, slo, alert, check>>

\* The model forgets a recommendation beyond its bound.
LogRecommendation ==
  /\ tick.step = "log"
  /\ recs' = [k \in Recs |-> IF k \in Fresh THEN "open" ELSE recs[k]]
  /\ tick' = Idle
  /\ UNCHANGED <<appVars, slo, alert, check, req, undone, purges>>

\* Failing to log is swallowed; any other exception, or a stop, ends the tick.
TickFails ==
  /\ tick # Idle /\ tick' = Idle
  /\ UNCHANGED <<rest, slo, alert, check>>

-----------------------------------------------------------------------------
(* The buttons.                                                            *)

\* _require_recommendation: the event exists; whether it was answered is not
\* asked.
Click(q, k) ==
  /\ req[q] = Idle /\ recs[k] \in {"open", "resolved"}
  /\ req' = [req EXCEPT ![q] = [step |-> "undo", rec |-> k]]
  /\ UNCHANGED <<appVars, slo, alert, recs, tick, check, undone, purges>>

\* rollout_undo: a Rollout is aborted, a Deployment restarted; an open breaker
\* or an error of the API is a failure.
RollBack(q) ==
  /\ req[q].step = "undo"
  /\ undone' = [undone EXCEPT ![req[q].rec] = @ + 1]
  /\ req' = [req EXCEPT ![q].step = "answer"]
  /\ UNCHANGED <<appVars, slo, alert, recs, tick, check, purges>>

RollBackFails(q) ==
  /\ req[q].step = "undo"
  /\ req' = [req EXCEPT ![q].step = "answer"]
  /\ UNCHANGED <<appVars, slo, alert, recs, tick, check, undone, purges>>

\* rollback-executed is logged either way, and is an answer.
Answer(q) ==
  /\ req[q].step = "answer"
  /\ LET k == req[q].rec IN
       recs' = [recs EXCEPT ![k] = IF @ = "open" THEN "resolved" ELSE @]
  /\ req' = [req EXCEPT ![q] = [step |-> "done"]]
  /\ UNCHANGED <<appVars, slo, alert, tick, check, undone, purges>>

Dismiss(q, k) ==
  /\ req[q] = Idle /\ recs[k] \in {"open", "resolved"}
  /\ recs' = [recs EXCEPT ![k] = "resolved"]
  /\ req' = [req EXCEPT ![q] = [step |-> "done"]]
  /\ UNCHANGED <<appVars, slo, alert, tick, check, undone, purges>>

Next ==
  \/ Degrade \/ Recover \/ Reassess \/ HideResult \/ Purge \/ DeleteSlo
  \/ Verify \/ StoreVerified \/ VerifyFails
  \/ ListSlos \/ Measure \/ NoValue \/ Store \/ Alert
  \/ CheckApply \/ Dedupe \/ LogRecommendation \/ TickFails
  \/ \E q \in Requests : RollBack(q) \/ RollBackFails(q) \/ Answer(q)
  \/ \E q \in Requests, k \in Recs : Click(q, k) \/ Dismiss(q, k)

\* The tracker's loop runs for ever: an enabled step of a tick is taken, and a
\* measurement, where there is a collector, an update and a log that can succeed
\* again and again do in the end.
Fairness ==
  /\ WF_vars(ListSlos) /\ SF_vars(Measure) /\ SF_vars(Store) /\ SF_vars(Alert)
  /\ SF_vars(CheckApply) /\ SF_vars(Dedupe) /\ SF_vars(LogRecommendation)

Spec == Init /\ [][Next]_vars /\ Fairness

-----------------------------------------------------------------------------
(* Properties.                                                             *)

TypeOK ==
  /\ slo \in Status \cup {"absent"} /\ alert \in BOOLEAN
  /\ newest \in Assessments /\ applied \subseteq Assessments
  /\ recs \in [Recs -> {"none", "open", "resolved", "gone"}]
  /\ undone \in [Recs -> Nat]

Tracked(up) == measurable /\ slo # "absent" /\ healthy = up

\* Of an SLO that has a collector, a breach that lasts ends up stored as one and
\* alerted on, and a recovery that lasts stored as met and alerted on no more,
\* although the tracker and a verification store what they measured a while ago
\* over each other, and ticks fail or find nothing to measure in between.
StatusSettles ==
  /\ <>[]Tracked(FALSE) => <>[](slo = "breached" /\ alert)
  /\ <>[]Tracked(TRUE) => <>[](slo = "met" /\ ~ alert)

\* slo_tracker: it "recommends rollbacks on breach".
BreachIsRecommended == <>[]Tracked(FALSE) => <>(\E k \in Recs : recs[k] # "none")
=============================================================================
