--------------------------- MODULE ManifestReview ---------------------------
(***************************************************************************)
(* The manifests of an assessment between their generation and their       *)
(* delivery.  Each run of the pipeline saves a row of onboarding_results   *)
(* with every file in it before it validates, and another with what it     *)
(* delivered; everybody reads the newest row.  Meanwhile a person edits    *)
(* files of that row in the browser, asks for a dry run, or starts the     *)
(* pipeline again on what is saved.                                        *)
(*                                                                         *)
(* A file's contents are told apart by who wrote it last: the generator, a *)
(* fix of the pipeline, or an edit.                                        *)
(***************************************************************************)
EXTENDS Naturals, Sequences, FiniteSets

CONSTANTS
  Ids,      \* assessments
  Files,    \* paths
  Edits,    \* requests of the edit form
  Runs,     \* runs of the pipeline: onboarding jobs, validation jobs, Deliver clicks
  MaxRows,  \* bound on the rows of an assessment
  MaxPurges \* bound on purges

VARIABLES
  saved,        \* assessments in the database
  onboardings,  \* their rows, oldest first
  results,      \* the newest row of apply_results, per assessment
  edit, preview, run,
  purges

vars == <<saved, onboardings, results, edit, preview, run, purges>>

Generated == "generated"
Fixed == "fixed"
Contents == {Generated, Fixed} \cup Edits
Manifests == UNION {[S -> Contents] : S \in SUBSET Files}
NoResult == [kind |-> "none"]
Idle == [step |-> "idle"]

Init ==
  /\ saved = Ids
  /\ onboardings = [i \in Ids |-> <<>>]
  /\ results = [i \in Ids |-> NoResult]
  /\ edit = [e \in Edits |-> Idle] /\ preview = Idle /\ run = [r \in Runs |-> Idle]
  /\ purges = 0

\* get_onboarding: the newest row.
Current(i) == onboardings[i][Len(onboardings[i])]
Onboarded(i) == i \in saved /\ onboardings[i] # <<>>

NewNr(i) == IF onboardings[i] = <<>> THEN 1 ELSE Current(i).nr + 1
HasRoom(i) == NewNr(i) + Cardinality({r \in Runs : run[r] # Idle /\ run[r].id = i}) <= MaxRows

\* Mutant of WithRow: the newest row is overwritten.
WithRow_InPlace(i, files) ==
  [onboardings EXCEPT ![i] = IF @ = <<>> THEN <<[nr |-> 1, files |-> files]>>
                             ELSE [@ EXCEPT ![Len(@)].files = files]]

\* save_onboarding: always a new row.
WithRow(i, files) == [onboardings EXCEPT ![i] = Append(@, [nr |-> NewNr(i), files |-> files])]

-----------------------------------------------------------------------------
(* The pipeline.                                                           *)

\* Onboarding generates the files; the Validate and the Deliver buttons take the
\* newest row.  Files of kinds the cluster does not have are dropped, and the
\* others saved before anything is validated; with none left the run is over.
StartRun(r, i) ==
  /\ run[r] = Idle /\ i \in saved /\ HasRoom(i)
  /\ \E files \in {[f \in Files |-> Generated]} \cup (IF Onboarded(i) THEN {Current(i).files} ELSE {}) :
       \E kept \in SUBSET DOMAIN files :
         /\ onboardings' = WithRow(i, [f \in kept |-> files[f]])
         /\ run' = [run EXCEPT ![r] = IF kept = {} THEN Idle
                                      ELSE [step |-> "validate", id |-> i, files |-> [f \in kept |-> files[f]]]]
  /\ UNCHANGED <<saved, results, edit, preview, purges>>

\* Some clusters of files are delivered, as they are or with fixes; the others
\* are refused.
Validate(r) ==
  /\ run[r].step = "validate"
  /\ \E delivered \in SUBSET DOMAIN run[r].files, fixes \in SUBSET DOMAIN run[r].files :
       /\ fixes \subseteq delivered
       /\ run' = [run EXCEPT ![r] =
            IF delivered = {} THEN Idle
            ELSE [step |-> "save", id |-> @.id,
                  files |-> [f \in delivered |-> IF f \in fixes THEN Fixed ELSE run[r].files[f]]]]
  /\ UNCHANGED <<saved, onboardings, results, edit, preview, purges>>

\* The final snapshot holds what was delivered, and nothing else; failing to
\* save it (the foreign key refuses an assessment that is gone) is not an error.
SaveDelivered(r) ==
  /\ run[r].step = "save"
  /\ \/ UNCHANGED onboardings
     \/ run[r].id \in saved /\ onboardings' = WithRow(run[r].id, run[r].files)
  /\ run' = [run EXCEPT ![r] = Idle]
  /\ UNCHANGED <<saved, results, edit, preview, purges>>

-----------------------------------------------------------------------------
(* The Onboard Results page.                                               *)

\* edit_onboarding_file, for a manifest that validates and is in the row.  The
\* transaction of update_onboarding_file reads without a lock, and writes the
\* whole list of files back.
ReadFiles(e, i, f) ==
  /\ edit[e] = Idle /\ Onboarded(i) /\ f \in DOMAIN Current(i).files
  /\ edit' = [edit EXCEPT ![e] =
       [step |-> "write", id |-> i, file |-> f, nr |-> Current(i).nr,
        files |-> [Current(i).files EXCEPT ![f] = e]]]
  /\ UNCHANGED <<saved, onboardings, results, preview, run, purges>>

WriteFiles(e) ==
  /\ edit[e].step = "write"
  /\ onboardings' = [onboardings EXCEPT ![edit[e].id] =
       [k \in DOMAIN @ |-> IF @[k].nr = edit[e].nr THEN [@[k] EXCEPT !.files = edit[e].files] ELSE @[k]]]
  /\ edit' = [edit EXCEPT ![e].step = "clear"]
  /\ UNCHANGED <<saved, results, preview, run, purges>>

ClearResults(e) ==
  /\ edit[e].step = "clear"
  /\ results' = [results EXCEPT ![edit[e].id] = NoResult]
  /\ edit' = [edit EXCEPT ![e].step = "done"]
  /\ UNCHANGED <<saved, onboardings, preview, run, purges>>

\* deliver with dry_run: the files are read, previewed by the router, and the
\* result is saved at the end, unless there was an error or nothing to preview.
BeginPreview(i) ==
  /\ preview = Idle /\ Onboarded(i)
  /\ preview' = [step |-> "route", id |-> i, files |-> Current(i).files]
  /\ UNCHANGED <<saved, onboardings, results, edit, run, purges>>

EndPreview ==
  /\ preview.step = "route"
  /\ preview' = Idle
  /\ \/ UNCHANGED results
     \/ /\ preview.id \in saved
        /\ results' = [results EXCEPT ![preview.id] = [kind |-> "dry_run", files |-> preview.files]]
  /\ UNCHANGED <<saved, onboardings, edit, run, purges>>

-----------------------------------------------------------------------------
(* Upkeep.                                                                 *)

\* delete: every row of the application, in one transaction.
Delete(i) ==
  /\ i \in saved
  /\ saved' = saved \ {i}
  /\ onboardings' = [onboardings EXCEPT ![i] = <<>>]
  /\ results' = [results EXCEPT ![i] = NoResult]
  /\ UNCHANGED <<edit, preview, run, purges>>

\* purge_old_data: old results go, and old rows but the newest of each
\* assessment.
Purge ==
  /\ purges < MaxPurges /\ purges' = purges + 1
  /\ \E old \in SUBSET Ids :
       /\ results' = [i \in Ids |-> IF i \in old THEN NoResult ELSE results[i]]
       /\ onboardings' = [i \in Ids |-> IF i \in old /\ onboardings[i] # <<>>
                                        THEN <<Current(i)>> ELSE onboardings[i]]
  /\ UNCHANGED <<saved, edit, preview, run>>

\* The portal stops: requests and runs are gone; an edit between its two
\* statements leaves the results as they were.
Crash ==
  /\ edit' = [e \in Edits |-> IF edit[e].step \in {"clear", "done"} THEN [edit[e] EXCEPT !.step = "done"]
                              ELSE Idle]
  /\ preview' = Idle
  /\ run' = [r \in Runs |-> Idle]
  /\ UNCHANGED <<saved, onboardings, results, purges>>

Next ==
  \/ \E r \in Runs, i \in Ids : StartRun(r, i)
  \/ \E r \in Runs : Validate(r) \/ SaveDelivered(r)
  \/ \E e \in Edits, i \in Ids, f \in Files : ReadFiles(e, i, f)
  \/ \E e \in Edits : WriteFiles(e) \/ ClearResults(e)
  \/ \E i \in Ids : BeginPreview(i) \/ Delete(i)
  \/ EndPreview \/ Purge \/ Crash

Spec == Init /\ [][Next]_vars

-----------------------------------------------------------------------------
(* Properties.                                                             *)

TypeOK ==
  /\ saved \subseteq Ids
  /\ \A i \in Ids : \A k \in DOMAIN onboardings[i] : onboardings[i][k].files \in Manifests
  /\ \A i \in Ids : results[i] # NoResult => results[i].files \in Manifests

Written(e) == edit[e].step \in {"clear", "done"} /\ edit[e].id \in saved

\* Once an edit was written, its row holds what some edit wrote, as that edit
\* wrote it: no run, snapshot, preview or purge puts generated or fixed files in
\* the row a person has edited.
EditsSurvive ==
  \A e \in Edits : Written(e) =>
    \A k \in DOMAIN onboardings[edit[e].id] :
      LET row == onboardings[edit[e].id][k]
      IN row.nr = edit[e].nr =>
           \E o \in Edits : /\ Written(o) /\ edit[o].id = edit[e].id /\ edit[o].nr = row.nr
                            /\ row.files = edit[o].files

\* update_onboarding_file: "a concurrent edit of a different file can't race the
\* files_json read/write pair".
EditsMerge ==
  \A e \in Edits : Written(e) =>
    \A k \in DOMAIN onboardings[edit[e].id] :
      LET row == onboardings[edit[e].id][k]
      IN row.nr = edit[e].nr => row.files[edit[e].file] \in Edits

\* edit_onboarding_file: "once this returns, the SAVED (possibly-edited) content
\* is what a subsequent Deliver click actually delivers".
EditIsDelivered ==
  \A e \in Edits :
    edit[e].step = "done" /\ Onboarded(edit[e].id) /\ edit[e].file \in DOMAIN Current(edit[e].id).files
      => Current(edit[e].id).files[edit[e].file] # Generated
=============================================================================
