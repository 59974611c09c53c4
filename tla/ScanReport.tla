----------------------------- MODULE ScanReport -----------------------------
(***************************************************************************)
(* What one assessment reports and how it is scored.  run_assessment takes *)
(* a snapshot of the clone, runs the analyzers in a thread pool, drops     *)
(* what the live cluster already has, merges the data-driven checks and    *)
(* scores the dimensions; the report is compared with the one before it,   *)
(* and a finding that is gone counts as resolved.                          *)
(*                                                                         *)
(* There are four kinds of problem.  "plain": an analyzer sees it.         *)
(* "secret": a line looks like a secret, and the model may drop it, which  *)
(* is remembered.  "eol": only the model sees it.  "quota": an analyzer    *)
(* sees that the source has no ResourceQuota, and a check, quota-exists,   *)
(* sees it too; the cluster may have one.                                  *)
(***************************************************************************)
EXTENDS Naturals, Sequences, FiniteSetsExt

CONSTANTS
  Trip,        \* failures that open the breaker of the model
  Baseline,    \* controls assumed of a dimension without checks
  ShippedSets, \* how many checks that pass a dimension may have
  MaxReports, MaxChanges  \* bounds

VARIABLES
  source,   \* the problems of the repository
  live,     \* the cluster has the quota
  known,    \* the remembered verdict on the line that looks like a secret
  llm,      \* failures of the model in a row, and whether the breaker has cooled
  scan,     \* the assessment under way
  reports,  \* the reports saved
  changes,
  shipped   \* checks of each dimension beside quota-exists; 0 if none are loaded

vars == <<source, live, known, llm, scan, reports, changes, shipped>>

Problems == {"plain", "secret", "eol", "quota"}
Findings == Problems \cup {"quota-check"}
Dims == {"security", "infrastructure"}
DimOf(f) == IF f \in {"plain", "secret"} THEN "security" ELSE "infrastructure"
Category(f) == IF f = "quota-check" THEN "quota" ELSE f
Idle == [step |-> "idle"]

Init ==
  /\ source \in SUBSET Problems
  /\ live = FALSE
  /\ known = "none"
  /\ llm = [failures |-> 0, cooled |-> FALSE]
  /\ scan = Idle
  /\ reports = <<>>
  /\ changes = 0
  /\ shipped \in ShippedSets

-----------------------------------------------------------------------------
(* Around the assessment.                                                  *)

\* A push.  A line that looks like a secret is another one when it comes back.
Change(p) ==
  /\ changes < MaxChanges /\ changes' = changes + 1
  /\ source' = IF p \in source THEN source \ {p} ELSE source \cup {p}
  /\ known' = IF p = "secret" THEN "none" ELSE known
  /\ UNCHANGED <<live, llm, scan, reports, shipped>>

Sync ==
  /\ changes < MaxChanges /\ changes' = changes + 1
  /\ live' = ~ live
  /\ UNCHANGED <<source, known, llm, scan, reports, shipped>>

Open == llm.failures >= Trip /\ ~ llm.cooled
Failure == [failures |-> IF llm.failures < Trip THEN llm.failures + 1 ELSE Trip, cooled |-> FALSE]
Success == [failures |-> 0, cooled |-> FALSE]

\* reset_after has passed.
Cool ==
  /\ Open
  /\ llm' = [llm EXCEPT !.cooled = TRUE]
  /\ UNCHANGED <<source, live, known, scan, reports, changes, shipped>>

\* LLMClient._chat: an answer, or nothing when the call fails or is not made.
Chat(answer) ==
  \/ answer # "none" /\ ~ Open /\ llm' = Success
  \/ answer = "none" /\ ~ Open /\ llm' = Failure
  \/ answer = "none" /\ Open /\ UNCHANGED llm

-----------------------------------------------------------------------------
(* run_assessment.                                                         *)

\* RepoSnapshot.build: every analyzer and check reads the tree as it was.
Snapshot == source

StartScan ==
  /\ scan = Idle /\ Len(reports) < MaxReports
  /\ scan' = [step |-> "analyze", seen |-> Snapshot, todo |-> Dims, found |-> {}, verdict |-> "none",
              cleared |-> FALSE]
  /\ UNCHANGED <<source, live, known, llm, reports, changes, shipped>>

\* An analyzer of the pool has ended; the last one ends the step.
Analyzed(d, found, verdict) ==
  LET todo == scan.todo \ {d} IN
    scan' = [scan EXCEPT !.todo = todo, !.found = @ \cup found, !.verdict = verdict,
                         !.step = IF todo = {} THEN "live" ELSE @]

\* classify_secret: "none" when the model gave no verdict.
Verdicts == {"none", "dropped", "kept"}

\* The cache of verdicts, by the hash of the line; a missing verdict is not kept.
Asks == "secret" \in scan.seen /\ known = "none"
Remember(verdict) == known' = verdict

\* SecurityAnalyzer._check_secrets: a line without a verdict is reported.
Secret(verdict) == IF "secret" \in scan.seen /\ verdict # "dropped" THEN {"secret"} ELSE {}

AnalyzeSecurity ==
  /\ scan.step = "analyze" /\ "security" \in scan.todo
  /\ \E verdict \in Verdicts :
       /\ IF Asks THEN Chat(verdict) ELSE verdict = known /\ UNCHANGED llm
       /\ Remember(verdict)
       /\ Analyzed("security", (scan.seen \cap {"plain"}) \cup Secret(verdict), verdict)
  /\ UNCHANGED <<source, live, reports, changes, shipped>>

\* detect_eol_risks: the model may overlook what is there.
Answers == {"none", "clean"} \cup ({"eol"} \cap scan.seen)

\* eol.llm_findings: no answer and an empty one are alike.
ModelFindings(answer) == {"eol"} \cap {answer}

AnalyzeInfrastructure ==
  /\ scan.step = "analyze" /\ "infrastructure" \in scan.todo
  /\ \E answer \in Answers :
       /\ Chat(answer)
       /\ Analyzed("infrastructure", (scan.seen \cap {"quota"}) \cup ModelFindings(answer), scan.verdict)
  /\ UNCHANGED <<source, live, known, reports, changes, shipped>>

\* Mutant of AnalyzerFails: the analyzer is left out.
AnalyzerFails_Skips(d) ==
  /\ scan.step = "analyze" /\ d \in scan.todo
  /\ Analyzed(d, {}, scan.verdict)
  /\ UNCHANGED <<source, live, known, llm, reports, changes, shipped>>

\* _run_analyzers_concurrent: the exception of one fails the assessment.
AnalyzerFails(d) ==
  /\ scan.step = "analyze" /\ d \in scan.todo
  /\ scan' = Idle
  /\ UNCHANGED <<source, live, known, llm, reports, changes, shipped>>

\* live_quota_present: FALSE also when the cluster could not be asked.
Evidence == {live, FALSE}

\* apply_live_cluster_finding_clear: only evidence that was found clears.
LiveClear ==
  /\ scan.step = "live"
  /\ \E evidence \in Evidence :
       scan' = [scan EXCEPT !.step = "merge", !.cleared = evidence,
                  !.found = IF evidence THEN {f \in @ : Category(f) # "quota"} ELSE @]
  /\ UNCHANGED <<source, live, known, llm, reports, changes, shipped>>

\* The checks loaded for a dimension; quota-exists is one of infrastructure.
Loaded(d) == IF shipped > 0 /\ d = "infrastructure" THEN shipped + 1 ELSE shipped

\* run_checks_by_dimension_with_status, on the snapshot.
Failing == IF shipped > 0 /\ "quota" \in scan.seen THEN {"quota-check"} ELSE {}

\* _merge_check_findings; no caller gives run_assessment suppressions.
MergeChecks ==
  /\ scan.step = "merge"
  /\ scan' = [scan EXCEPT !.step = "save", !.found = @ \cup Failing]
  /\ UNCHANGED <<source, live, known, llm, reports, changes, shipped>>

\* Python's round of 100 * p / n, half to even.
Percent(p, n) ==
  LET q == (100 * p) \div n
      r == (100 * p) % n
  IN IF 2 * r < n \/ (2 * r = n /\ q % 2 = 0) THEN q ELSE q + 1

\* Mutant of DimensionScore: findings without a row count as passed.
DimensionScore_OrphansPass(found, rows, failed) ==
  IF rows = 0 THEN Percent(Baseline - Cardinality(found), Baseline)
  ELSE Percent((rows - failed) + Cardinality(found), rows + Cardinality(found))

\* calculate_dimension_score_v2.  A finding's source names the file of its check
\* and a row the check, so no finding matches a row: each is one more control.
DimensionScore(found, rows, failed) ==
  IF rows = 0
  THEN LET n == Max({Baseline, Cardinality(found)}) IN Percent(n - Cardinality(found), n)
  ELSE Percent(rows - failed, rows + Cardinality(found))

\* apply_score_model_v2.
ScoreOf(d, found, failing) ==
  LET mine == {f \in failing : DimOf(f) = d}
  IN DimensionScore({f \in found : DimOf(f) = d}, Loaded(d), Cardinality(mine))

\* weighted_overall_score of a medium application, times the sum of the weights.
Overall(found, failing) ==
  115 * ScoreOf("security", found, failing) + 100 * ScoreOf("infrastructure", found, failing)

Save ==
  /\ scan.step = "save"
  /\ reports' = Append(reports, [found |-> scan.found, seen |-> scan.seen, verdict |-> scan.verdict,
                                 cleared |-> scan.cleared, score |-> Overall(scan.found, Failing)])
  /\ scan' = Idle
  /\ UNCHANGED <<source, live, known, llm, changes, shipped>>

\* diff_assessments, by the key of the findings.
Resolved(old, new) == old.found \ new.found

Next ==
  \/ \E p \in Problems : Change(p)
  \/ \E d \in Dims : AnalyzerFails(d)
  \/ Sync \/ Cool
  \/ StartScan \/ AnalyzeSecurity \/ AnalyzeInfrastructure
  \/ LiveClear \/ MergeChecks \/ Save

Spec == Init /\ [][Next]_vars

-----------------------------------------------------------------------------
(* Properties.                                                             *)

TypeOK ==
  /\ source \subseteq Problems /\ live \in BOOLEAN
  /\ known \in Verdicts
  /\ llm \in [failures : 0..Trip, cooled : BOOLEAN]
  /\ scan.step \in {"idle", "analyze", "live", "merge", "save"}
  /\ \A k \in DOMAIN reports : reports[k].found \subseteq Findings /\ reports[k].score \in 0..21500

Consecutive == {k \in DOMAIN reports : k > 1}
Gone(f, r) ==
  \/ Category(f) \notin r.seen
  \/ Category(f) = "quota" /\ r.cleared
  \/ f = "secret" /\ r.verdict = "dropped"

\* Whatever analyzers, the model and the cluster fail at between two reports, a
\* finding counts as resolved only when the repository no longer has the problem,
\* the cluster has what was missing, or the model has judged the line: a step that
\* failed never looks like a repair.  Findings only the model makes are left out;
\* see ModelSilenceIsNotClean.
ResolvedIsGone ==
  \A k \in Consecutive : \A f \in Resolved(reports[k-1], reports[k]) \ {"eol"} : Gone(f, reports[k])

\* The same of the findings only the model makes.  It does not hold: a model that
\* does not answer, or answers otherwise, resolves them.
ModelSilenceIsNotClean ==
  \A k \in Consecutive : \A f \in Resolved(reports[k-1], reports[k]) : Gone(f, reports[k])

\* A report whose findings are all in the one before it never scores lower, with
\* checks or without.
RepairNeverLowersScore ==
  \A k \in Consecutive : reports[k].found \subseteq reports[k-1].found => reports[k].score >= reports[k-1].score

\* Live evidence clears a finding: a report made with the evidence that the quota is
\* there does not say that it is missing.
LiveEvidenceClears ==
  \A k \in DOMAIN reports : reports[k].cleared => \A f \in reports[k].found : Category(f) # "quota"
=============================================================================
