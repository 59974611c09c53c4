--------------------------- MODULE BranchDelivery ---------------------------
(***************************************************************************)
(* One delivery branch of AgentIT in one GitHub repository, seen call by   *)
(* call.  commit_to_infra_repo and create_source_patch_pr read the head of *)
(* the default branch, build a commit on it, point the branch at the       *)
(* commit, forcing it when the branch exists, and open a pull request or   *)
(* find the one that is open.  The delivery lock lets one call run at a    *)
(* time (DeliveryRouter); people push, merge, close, reopen and delete     *)
(* between any two of its requests, and any request may fail.              *)
(*                                                                         *)
(* The delivered files are one file, its content a member of Texts.     *)
(***************************************************************************)
EXTENDS Naturals, SequencesExt

CONSTANTS
  Texts,     \* contents of the delivered file
  NoFile,       \* the file is not there
  NoRef,        \* the default branch has no commit yet
  MaxCalls, MaxPulls, MaxPushes  \* bounds

VARIABLES
  main,      \* the file on the default branch
  branch,    \* the delivery branch: its base and its commits, none if absent
  pulls,     \* its pull requests, in the order they were opened
  job,       \* the call under way, or the last one
  calls, pushes

vars == <<main, branch, pulls, job, calls, pushes>>

Kinds == {"infra", "source", "chart"}
Absent == [base |-> NoRef, log |-> <<>>]
Commit(by, c) == [by |-> by, content |-> c]
Idle == [step |-> "idle"]

IsOpen(n) == pulls[n].state = "open"
HasOpen == \E n \in DOMAIN pulls : IsOpen(n)

\* An open pull request follows its branch.
Followed(b) ==
  [n \in DOMAIN pulls |->
     IF IsOpen(n)
     THEN [pulls[n] EXCEPT !.log = b.log,
                           !.held = @ \cup {b.log[k].content : k \in DOMAIN b.log}]
     ELSE pulls[n]]

Opened == [state |-> "open", log |-> branch.log,
           held |-> {branch.log[k].content : k \in DOMAIN branch.log}]

Init ==
  /\ main \in {NoRef, NoFile}
  /\ branch = Absent
  /\ pulls = <<>>
  /\ job = Idle
  /\ calls = 0 /\ pushes = 0

-----------------------------------------------------------------------------
(* People.                                                                 *)

Bounded == pushes < MaxPushes /\ pushes' = pushes + 1

PersonPushes(c) ==
  /\ Bounded /\ branch # Absent
  /\ LET b == [branch EXCEPT !.log = Append(@, Commit("person", c))] IN
       branch' = b /\ pulls' = Followed(b)
  /\ UNCHANGED <<main, job, calls>>

PersonEditsMain(c) ==
  /\ Bounded /\ main # NoRef
  /\ main' = c
  /\ UNCHANGED <<branch, pulls, job, calls>>

\* merge_pr, or Merge on GitHub: refused while the branches conflict.
Merge(n) ==
  /\ IsOpen(n)
  /\ main \in {branch.base, Last(branch.log).content}
  /\ main' = Last(branch.log).content
  /\ pulls' = [pulls EXCEPT ![n].state = "merged"]
  /\ UNCHANGED <<branch, job, calls, pushes>>

Close(n) ==
  /\ IsOpen(n)
  /\ pulls' = [pulls EXCEPT ![n].state = "closed"]
  /\ UNCHANGED <<main, branch, job, calls, pushes>>

\* GitHub reopens a pull request unless another is open for the branch or the
\* branch was forced or deleted since.
Reopen(n) ==
  /\ pulls[n].state = "closed" /\ ~ HasOpen
  /\ Bounded
  /\ pulls' = [pulls EXCEPT ![n].state = "open", ![n].log = branch.log,
                            ![n].held = @ \cup {branch.log[k].content : k \in DOMAIN branch.log}]
  /\ UNCHANGED <<main, branch, job, calls>>

Detached ==
  [n \in DOMAIN pulls |->
     IF pulls[n].state \in {"open", "closed"} THEN [pulls[n] EXCEPT !.state = "detached"] ELSE pulls[n]]

DeleteBranch ==
  /\ branch # Absent
  /\ branch' = Absent
  /\ pulls' = Detached
  /\ UNCHANGED <<main, job, calls, pushes>>

-----------------------------------------------------------------------------
(* A call.                                                                 *)

Goto(step) == job' = [job EXCEPT !.step = step]
Return(result) == job' = [job EXCEPT !.step = "done", !.result = result]
Failed == [kind |-> "error"]
Skipped == [kind |-> "skipped"]

Begin(kind, c) ==
  /\ job.step \in {"idle", "done"} /\ calls < MaxCalls
  /\ calls' = calls + 1
  /\ job' = [step |-> IF kind = "chart" THEN "gate" ELSE "base", kind |-> kind, content |-> c,
             base |-> NoRef, result |-> Failed]
  /\ UNCHANGED <<main, branch, pulls, pushes>>

\* _get_default_branch_and_base_sha gives an empty repository its first commit.
Bootstrapped == IF main = NoRef THEN NoFile ELSE main

\* path_exists_on_default_branch: a chart file that is already there, or might
\* be, is refused.
Gate ==
  /\ job.step = "gate"
  /\ main' = Bootstrapped
  /\ \/ main' = NoFile /\ Goto("base")
     \/ Return(Failed)
  /\ UNCHANGED <<branch, pulls, calls, pushes>>

GetBase ==
  /\ job.step = "base"
  /\ main' = Bootstrapped
  /\ job' = [job EXCEPT !.base = main', !.step = IF job.kind = "infra" THEN "compare" ELSE "commit"]
  /\ UNCHANGED <<branch, pulls, calls, pushes>>

\* _infra_repo_content_unchanged reads the default branch as it is by then; a
\* file that cannot be read counts as changed.
Compare ==
  /\ job.step = "compare"
  /\ \/ main = job.content /\ Return(Skipped)
     \/ Goto("commit")
  /\ UNCHANGED <<main, branch, pulls, calls, pushes>>

\* _commit_tree, after the source patches were fitted to the repository.
CommitTree ==
  /\ job.step = "commit"
  /\ Goto("ref")
  /\ UNCHANGED <<main, branch, pulls, calls, pushes>>

\* The branch as the call leaves it: its commit on the base it read.
Delivered == [base |-> job.base, log |-> <<Commit("agentit", job.content)>>]
Unforced == IF branch = Absent THEN Delivered ELSE branch
Stacked == [Delivered EXCEPT !.log = branch.log \o @]

\* Mutant of UpdateRef: the branch is not forced.
UpdateRef_Unforced ==
  /\ job.step = "ref"
  /\ branch' = Unforced
  /\ pulls' = Followed(branch')
  /\ Goto("open")
  /\ UNCHANGED <<main, calls, pushes>>

\* Mutant of UpdateRef: the commit is put on top of the branch.
UpdateRef_Stacks ==
  /\ job.step = "ref"
  /\ branch' = Stacked
  /\ pulls' = Followed(branch')
  /\ Goto("open")
  /\ UNCHANGED <<main, calls, pushes>>

\* _create_or_update_branch_ref: created, or forced.
UpdateRef ==
  /\ job.step = "ref"
  /\ branch' = Delivered
  /\ pulls' = [n \in DOMAIN pulls |->
                 IF pulls[n].state = "closed" THEN [pulls[n] EXCEPT !.state = "detached"]
                 ELSE Followed(branch')[n]]
  /\ Goto("open")
  /\ UNCHANGED <<main, calls, pushes>>

\* _open_pr_with_fallback: one that is open is looked up; the request fails when
\* the branch is gone or holds nothing that the default branch lacks.
OpenPr ==
  /\ job.step = "open" /\ ~ HasOpen /\ branch # Absent
  /\ Len(pulls) < MaxPulls
  /\ pulls' = Append(pulls, Opened)
  /\ Return([kind |-> "pr", url |-> Len(pulls')])
  /\ UNCHANGED <<main, branch, calls, pushes>>

AlreadyOpen ==
  /\ job.step = "open" /\ HasOpen
  /\ Goto("find")
  /\ UNCHANGED <<main, branch, pulls, calls, pushes>>

OpenRefused ==
  /\ job.step = "open" /\ ~ HasOpen
  /\ branch # Absent => main = Last(branch.log).content
  /\ Return(Failed)
  /\ UNCHANGED <<main, branch, pulls, calls, pushes>>

\* _find_existing_pr_url: the newest pull request of the branch in any state, or
\* a comparison link when the look-up fails.
FindExisting ==
  /\ job.step = "find"
  /\ \E url \in {Len(pulls), 0} : Return([kind |-> "pr", url |-> url])
  /\ UNCHANGED <<main, branch, pulls, calls, pushes>>

\* A request raises, or the portal stops.
CallFails ==
  /\ job.step \in {"base", "commit", "ref", "open"}
  /\ Return(Failed)
  /\ UNCHANGED <<main, branch, pulls, calls, pushes>>

Next ==
  \/ \E c \in Texts : PersonPushes(c) \/ PersonEditsMain(c)
  \/ \E n \in DOMAIN pulls : Merge(n) \/ Close(n) \/ Reopen(n)
  \/ DeleteBranch
  \/ \E kind \in Kinds, c \in Texts : Begin(kind, c)
  \/ Gate \/ GetBase \/ Compare \/ CommitTree \/ UpdateRef
  \/ OpenPr \/ AlreadyOpen \/ OpenRefused \/ FindExisting \/ CallFails

Spec == Init /\ [][Next]_vars

-----------------------------------------------------------------------------
(* Properties.                                                             *)

TypeOK ==
  /\ main \in Texts \cup {NoFile, NoRef}
  /\ branch.base \in Texts \cup {NoFile, NoRef}
  /\ \A n \in DOMAIN pulls : pulls[n].state \in {"open", "merged", "closed", "detached"}
  /\ job.step \in {"idle", "gate", "base", "compare", "commit", "ref", "open", "find", "done"}

\* get_pr_extra_commits: what follows the first commit counts as people's edits.
ExtraCommits(n) == {k \in DOMAIN pulls[n].log : k > 1}

Reported == job.step = "done" /\ job.result.kind = "pr"

\* What a call says it delivered was shown to reviewers in a pull request of the
\* branch, also when that was opened by an earlier call and whatever people did to
\* it and to the branch in between.
ReportedIsShown ==
  Reported => \E n \in DOMAIN pulls : job.content \in pulls[n].held

\* _find_existing_pr_url: "an already-open PR's URL comes back exactly the same".  It
\* does not hold: the newest pull request of any state is looked up, and the open one
\* may be older, opened again after a newer one was closed.
ReportedIsTrue ==
  Reported /\ job.result.url > 0 => job.content \in pulls[job.result.url].held

\* However often a branch is delivered to again, what the outcome of a merged pull
\* request reports as edited by people before the merge is what people pushed.
EditsArePeoples ==
  \A n \in DOMAIN pulls : pulls[n].state = "merged" =>
    ExtraCommits(n) = {k \in DOMAIN pulls[n].log : pulls[n].log[k].by = "person"}
=============================================================================
