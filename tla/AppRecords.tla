----------------------------- MODULE AppRecords -----------------------------
(***************************************************************************)
(* The records AgentIT keeps of one application: its assessments, and the  *)
(* row of facts that outlives them (GitOps repository, re-assessment       *)
(* cadence).  Assessments are saved, registered, rescheduled, merged and   *)
(* deleted by different requests, each a series of statements that do not  *)
(* share a transaction.                                                    *)
(*                                                                         *)
(* A repository may be on record under two spellings of its URL, "canon"   *)
(* and a "legacy" one that rows from before the normalising trigger carry. *)
(* Time is the order in which assessments were made, and whether the       *)
(* cadence of the newest one has elapsed.                                  *)
(***************************************************************************)
EXTENDS Naturals, FiniteSetsExt

CONSTANTS
  Ids,         \* assessments
  Repos,       \* GitOps repositories
  None,        \* no repository
  Default,     \* the shared repository of AgentIT's own account
  Writable,    \* repositories on trusted hosts that AgentIT can push to, or create
  MaxAges      \* bound on elapsed cadences

VARIABLES
  assessments,  \* rows by id; report_json carries a URL and a repository of its own
  apps,         \* rows by URL
  save,         \* the pipeline that makes an assessment
  reg,          \* the Register request
  elapsed,      \* the newest assessment is older than the cadence
  due,          \* the scheduler's list of this tick
  lost,         \* assessments whose pipeline stopped between its statements
  ages

vars == <<assessments, apps, save, reg, elapsed, due, lost, ages>>

Urls == {"canon", "legacy"}
Cadences == {"daily", "manual"}
NoRow == [url |-> "none"]
NoApp == [cadence |-> "none"]
Idle == [step |-> "idle"]

Saved == {i \in Ids : assessments[i] # NoRow}
At(i) == assessments[i].at
Now == Max({0} \cup {At(i) : i \in Saved})
NewApp(infra) == [infra |-> infra, cadence |-> "daily"]

Row(url, infra, at) == [url |-> url, embedded |-> url, infra |-> infra, at |-> at]

\* The database may hold an application from before URLs were normalised.
Init ==
  /\ \E old \in {{}} \cup {{i} : i \in Ids}, url \in Urls, infra \in Repos \cup {None},
       cadence \in Cadences :
       /\ old = {} => url = "canon" /\ infra = None /\ cadence = "daily"
       /\ assessments = [i \in Ids |-> IF i \in old THEN Row(url, infra, 1) ELSE NoRow]
       /\ apps = [u \in Urls |-> IF old # {} /\ u = url
                                 THEN [infra |-> infra, cadence |-> cadence] ELSE NoApp]
       /\ save = [i \in Ids |-> IF i \in old THEN [step |-> "done"] ELSE Idle]
  /\ reg = Idle /\ elapsed = FALSE /\ due = {} /\ lost = {} /\ ages = 0

-----------------------------------------------------------------------------
(* Views.                                                                  *)

RowsOf(url) == {i \in Saved : assessments[i].url = url}
Latest(url) == {i \in RowsOf(url) : \A j \in RowsOf(url) : At(j) <= At(i)}

\* get_fleet_data: the newest assessment of each URL.
Fleet == UNION {Latest(u) : u \in Urls}

\* get_apps_due_for_reassessment: the newest assessment of each row of apps
\* that is not on the manual cadence, once that cadence has elapsed.
Scheduled == {u \in Urls : apps[u] # NoApp /\ apps[u].cadence # "manual" /\ RowsOf(u) # {}}
DueApps == IF elapsed THEN Scheduled ELSE {}

-----------------------------------------------------------------------------
(* Saving an assessment.                                                   *)

\* _upsert_app; the trigger normalises the URL of an inserted row before the
\* conflict is looked for.
Upserted(infra) ==
  [apps EXCEPT !["canon"] =
     IF @ = NoApp THEN NewApp(infra)
     ELSE IF infra = None THEN @ ELSE [@ EXCEPT !.infra = infra]]

\* ensure_infra_repo: the shared repository, created when it is missing.
Shared == {Default}

\* ensure_custom_gitops_repo: the one that was given, or an error.
Custom(given) == {given} \cap Writable

\* _resolve_mandatory_infra_repo_url: without a repository nothing is assessed.
Obtained(given) == IF given = None THEN Shared ELSE Custom(given)

\* Assess in the portal, and every Scan button, which gives no repository.
BeginAssess(i, given) ==
  /\ save[i] = Idle
  /\ \E infra \in Obtained(given) : save' = [save EXCEPT ![i] = [step |-> "insert", infra |-> infra]]
  /\ UNCHANGED <<assessments, apps, reg, elapsed, due, lost, ages>>

\* _last_known_infra_repo_url, for a report that comes without a repository.
LastKnown == IF apps["canon"] = NoApp THEN None ELSE apps["canon"].infra

\* webhook_github_push, webhook_assess: no repository is asked for.
BeginSave(i) ==
  /\ save[i] = Idle
  /\ save' = [save EXCEPT ![i] = [step |-> "insert", infra |-> LastKnown]]
  /\ UNCHANGED <<assessments, apps, reg, elapsed, due, lost, ages>>

InsertRow(i) ==
  /\ save[i].step = "insert"
  /\ assessments' = [assessments EXCEPT ![i] = Row("canon", save[i].infra, Now + 1)]
  /\ save' = [save EXCEPT ![i].step = "upsert"]
  /\ elapsed' = FALSE
  /\ UNCHANGED <<apps, reg, due, lost, ages>>

FinishSave(i) ==
  /\ save[i].step = "upsert"
  /\ apps' = Upserted(save[i].infra)
  /\ save' = [save EXCEPT ![i] = [step |-> "done"]]
  /\ UNCHANGED <<assessments, reg, elapsed, due, lost, ages>>

\* The portal stops: what was under way is gone.
Crash ==
  /\ lost' = lost \cup {i \in Ids : save[i].step = "upsert"}
  /\ save' = [i \in Ids |-> IF save[i].step \in {"insert", "upsert"} THEN [step |-> "done"] ELSE save[i]]
  /\ reg' = Idle
  /\ UNCHANGED <<assessments, apps, elapsed, due, ages>>

-----------------------------------------------------------------------------
(* Registering for GitOps, and the cadence.                                *)

\* register_gitops: a repository is found or created before anything is
\* stored; without one the request ends.
BeginRegister(i, given) ==
  /\ reg = Idle /\ i \in Saved
  /\ \E infra \in Obtained(given) : reg' = [step |-> "get", id |-> i, infra |-> infra]
  /\ UNCHANGED <<assessments, apps, save, elapsed, due, lost, ages>>

\* set_infra_repo_url reads the report, writes the whole report back, and
\* updates the application under the URL the report carries.
GetReport ==
  /\ reg.step = "get"
  /\ reg' = IF reg.id \in Saved
            THEN [step |-> "write", id |-> reg.id, infra |-> reg.infra,
                  report |-> [assessments[reg.id] EXCEPT !.infra = reg.infra]]
            ELSE Idle
  /\ UNCHANGED <<assessments, apps, save, elapsed, due, lost, ages>>

WriteReport ==
  /\ reg.step = "write"
  /\ assessments' = IF reg.id \in Saved
                    THEN [assessments EXCEPT ![reg.id].embedded = reg.report.embedded,
                                             ![reg.id].infra = reg.infra]
                    ELSE assessments
  /\ reg' = [reg EXCEPT !.step = "app"]
  /\ UNCHANGED <<apps, save, elapsed, due, lost, ages>>

FinishRegister ==
  /\ reg.step = "app"
  /\ apps' = Upserted(reg.infra)
  /\ reg' = Idle
  /\ UNCHANGED <<assessments, save, elapsed, due, lost, ages>>

\* set_assessment_cadence updates the row under the URL the report carries; the
\* route does not look at whether there was one.
SetCadence(i, cadence) ==
  /\ i \in Saved
  /\ LET url == assessments[i].embedded IN
       apps' = IF apps[url] = NoApp THEN apps ELSE [apps EXCEPT ![url].cadence = cadence]
  /\ UNCHANGED <<assessments, save, reg, elapsed, due, lost, ages>>

-----------------------------------------------------------------------------
(* The scheduler's tick.                                                   *)

Elapse ==
  /\ ~ elapsed /\ Saved # {} /\ ages < MaxAges
  /\ elapsed' = TRUE
  /\ ages' = ages + 1
  /\ UNCHANGED <<assessments, apps, save, reg, due, lost>>

CheckDueApps ==
  /\ due = {}
  /\ due' = DueApps /\ due' # {}
  /\ UNCHANGED <<assessments, apps, save, reg, elapsed, lost, ages>>

\* _trigger_assess: the webhook answers once the assessment is saved, or with
\* an error, or calls it a duplicate of one in flight.
TriggerAssess(i) ==
  /\ due # {} /\ save[i] = Idle
  /\ \A j \in Ids : save[j].step \notin {"insert", "upsert"}
  /\ save' = [save EXCEPT ![i] = [step |-> "insert", infra |-> LastKnown]]
  /\ due' = {}
  /\ UNCHANGED <<assessments, apps, reg, elapsed, lost, ages>>

TriggerFails ==
  /\ due # {} /\ due' = {}
  /\ UNCHANGED <<assessments, apps, save, reg, elapsed, lost, ages>>

-----------------------------------------------------------------------------
(* Deleting and merging.                                                   *)

\* delete: one transaction, by URL; the row of apps stays.
Delete(i) ==
  /\ i \in Saved
  /\ assessments' = [j \in Ids |-> IF j \in RowsOf(assessments[i].url) THEN NoRow ELSE assessments[j]]
  /\ UNCHANGED <<apps, save, reg, elapsed, due, lost, ages>>

\* Mutant of MergedApp: the merge drops the variant.
MergedApp_Drops(newer) == [apps EXCEPT !["legacy"] = NoApp]

\* _merge_app_repo_url: a rename, or, when both rows exist, the repository of
\* the one written last.
MergedApp(newer) ==
  LET older == IF newer = "legacy" THEN "canon" ELSE "legacy"
      infra == IF apps[newer].infra = None THEN apps[older].infra ELSE apps[newer].infra
  IN IF apps["legacy"] = NoApp THEN apps
     ELSE IF apps["canon"] = NoApp
     THEN [u \in Urls |-> IF u = "canon" THEN apps["legacy"] ELSE NoApp]
     ELSE [apps EXCEPT !["legacy"] = NoApp, !["canon"].infra = infra]

\* dedupe_repo_urls, at start and with every maintenance tick: the variants are
\* the URLs of assessments, and each is merged in a transaction of its own.
Dedupe ==
  /\ RowsOf("legacy") # {}
  /\ assessments' = [i \in Ids |-> IF i \in RowsOf("legacy")
                                   THEN [assessments[i] EXCEPT !.url = "canon", !.embedded = "canon"]
                                   ELSE assessments[i]]
  /\ \E newer \in Urls : apps' = MergedApp(newer)
  /\ UNCHANGED <<save, reg, elapsed, due, lost, ages>>

Next ==
  \/ \E i \in Ids : \/ BeginSave(i) \/ InsertRow(i) \/ FinishSave(i)
                    \/ TriggerAssess(i) \/ Delete(i)
  \/ \E i \in Ids, given \in Repos \cup {None} : BeginAssess(i, given) \/ BeginRegister(i, given)
  \/ \E i \in Ids, cadence \in Cadences : SetCadence(i, cadence)
  \/ GetReport \/ WriteReport \/ FinishRegister
  \/ Elapse \/ CheckDueApps \/ TriggerFails
  \/ Dedupe \/ Crash

Spec == Init /\ [][Next]_vars

-----------------------------------------------------------------------------
(* Properties.                                                             *)

TypeOK ==
  /\ \A i \in Saved : assessments[i].url \in Urls /\ assessments[i].infra \in Repos \cup {None}
  /\ \A u \in Urls : apps[u] # NoApp => apps[u].cadence \in Cadences
  /\ due \subseteq Urls

Saving(i) == save[i].step = "upsert"

\* However saves, registrations, merges of spellings, deletions and rescheduling
\* interleave, every application the Fleet page shows is one the scheduler can
\* find: its newest assessment has a row of apps under the same URL, unless its
\* pipeline is on its way there or was stopped just before it.
NeverDropped ==
  \A i \in Fleet : apps[assessments[i].url] # NoApp \/ \E j \in RowsOf(assessments[i].url) : Saving(j) \/ j \in lost

\* A re-assessment nobody gave a repository for keeps the one on record.  It does
\* not hold: Scan asks for a repository as a first Assess does and gets Default.
RepoKept ==
  [][\A i \in Ids : save[i] = Idle /\ save'[i].step = "insert" /\ LastKnown # None
        => save'[i].infra = LastKnown]_vars
=============================================================================
