---------------------------- MODULE SkillCatalog ----------------------------
(***************************************************************************)
(* The skill files and the review that puts one in use.  The portal reads  *)
(* the skills/ tree of its container image; drafts are written into it by  *)
(* the portal's own research and by the learner's pod over HTTP.  A person *)
(* activates or deprecates a skill: the file in the pod is rewritten, then *)
(* committed on a branch of the pod's one checkout and proposed as a pull  *)
(* request, because a redeploy replaces the tree by that of the merged     *)
(* main branch.                                                            *)
(*                                                                         *)
(* Of a file's content, its identity and its status line are told apart.   *)
(***************************************************************************)
EXTENDS Naturals, Sequences, FiniteSets

CONSTANTS
  Skills,
  Shipped,      \* the skills of the first image, active there
  Requests,     \* activate and deprecate requests the portal serves at a time
  PostAttempts, \* draft_retry_attempts
  MaxDrafts,    \* bound on the drafts written
  MaxFlips,     \* bound on the branches made in one pod
  MaxDeploys    \* bound on the redeploys

VARIABLES
  pod,       \* the files of the portal's pod
  main,      \* the files of the main branch
  tips,      \* the branches of the pod's checkout, oldest first
  base,      \* what main has of these branches: the latest it merged, and its tree
  prs,       \* the open pull requests
  req,       \* the requests: step, skill, content read, branch
  flip,      \* per skill, the latest decision the pod's file still holds, unless its
             \* commit went to another request's branch
  warned,    \* skills whose latest decision was reported as not persisted
  reviewed,  \* contents that shipped or passed verify_skill
  unmarked,  \* contents a model wrote that do not say draft
  post,      \* the draft the learner is submitting
  parked,    \* drafts on the learner's own volume
  drafts, deploys

vars == <<pod, main, tips, base, prs, req, flip, warned, reviewed, unmarked, post, parked,
          drafts, deploys>>

Absent == [id |-> 0, status |-> "absent"]

\* The status line of a file, "none" for a file without one or with an unknown
\* one.  A model is asked for a draft, and save_skill writes what it answers.
Statuses == {"draft", "active", "deprecated", "retired", "none"}
Files == {Absent} \cup [id : 0 .. MaxDrafts, status : Statuses]
Trees == [Skills -> Files]
Idle == [step |-> "idle"]
NoDecision == Absent

Init ==
  /\ main = [s \in Skills |-> IF s \in Shipped THEN [id |-> 0, status |-> "active"]
                                               ELSE Absent]
  /\ pod = main
  /\ tips = <<main>> /\ base = [branch |-> 1, tree |-> main]
  /\ prs = {}
  /\ req = [q \in Requests |-> Idle]
  /\ flip = [s \in Skills |-> NoDecision]
  /\ warned = {}
  /\ reviewed = {0} /\ unmarked = {}
  /\ post = Idle /\ parked = {}
  /\ drafts = 0 /\ deploys = 0

-----------------------------------------------------------------------------
(* Drafts.                                                                 *)

\* save_skill: whatever the model wrote replaces the file of that name.
Write(s, id, status) ==
  /\ pod' = [pod EXCEPT ![s] = [id |-> id, status |-> status]]
  /\ flip' = [flip EXCEPT ![s] = NoDecision]
  /\ unmarked' = IF status = "draft" THEN unmarked ELSE unmarked \cup {id}

\* The portal's own research writes the draft itself.
LearnHere(s) ==
  /\ drafts < MaxDrafts
  /\ drafts' = drafts + 1
  /\ \E status \in Statuses : Write(s, drafts', status)
  /\ UNCHANGED <<main, tips, base, prs, req, warned, reviewed, post, parked, deploys>>

\* The learner has a draft and posts it.
Draft(s) ==
  /\ post = Idle /\ drafts < MaxDrafts
  /\ drafts' = drafts + 1
  /\ \E status \in Statuses :
       post' = [step |-> "post", skill |-> s, id |-> drafts', status |-> status, try |-> 1]
  /\ UNCHANGED <<pod, main, tips, base, prs, req, flip, warned, reviewed, unmarked, parked, deploys>>

Fallback == post' = [post EXCEPT !.step = "park"]

\* webhook_skill_draft saves the draft; its answer may come too late, in which
\* case the learner keeps a copy of its own.
PortalSaves ==
  /\ post.step = "post"
  /\ Write(post.skill, post.id, post.status)
  /\ post' = Idle \/ Fallback
  /\ UNCHANGED <<main, tips, base, prs, req, warned, reviewed, parked, drafts, deploys>>

\* A 404 of the old replica is retried; any other failure is not.
PortalRefuses ==
  /\ post.step = "post"
  /\ \/ post.try < PostAttempts /\ post' = [post EXCEPT !.try = @ + 1]
     \/ Fallback
  /\ UNCHANGED <<pod, main, tips, base, prs, req, flip, warned, reviewed, unmarked, parked, drafts, deploys>>

\* The learner's volume, which may fail to take the draft.
Park ==
  /\ post.step = "park"
  /\ parked' \in {parked, parked \cup {post.id}}
  /\ post' = Idle
  /\ UNCHANGED <<pod, main, tips, base, prs, req, flip, warned, reviewed, unmarked, drafts, deploys>>

-----------------------------------------------------------------------------
(* Decisions.                                                              *)

Decide(q, s, file) ==
  /\ pod' = [pod EXCEPT ![s] = file]
  /\ flip' = [flip EXCEPT ![s] = file]
  /\ warned' = warned \ {s}
  /\ req' = [req EXCEPT ![q] = [step |-> "checkout", skill |-> s, file |-> file, branch |-> 0]]

\* activate_skill_route reads the file and hands it to verify_skill.
Review(q, s) ==
  /\ req[q] = Idle
  /\ pod[s].status \in {"draft", "deprecated"}
  /\ req' = [req EXCEPT ![q] = [step |-> "verify", skill |-> s, file |-> pod[s], branch |-> 0]]
  /\ UNCHANGED <<pod, main, tips, base, prs, flip, warned, reviewed, unmarked, post, parked, drafts, deploys>>

\* Mutant of Activate: the file is read again after the review.
Activate_Rereads(q) ==
  /\ req[q].step = "verify"
  /\ LET s == req[q].skill IN Decide(q, s, [pod[s] EXCEPT !.status = "active"])
  /\ reviewed' = reviewed \cup {req[q].file.id}
  /\ UNCHANGED <<main, tips, base, prs, unmarked, post, parked, drafts, deploys>>

\* It passed: the content that was read, now active, replaces the file.
Activate(q) ==
  /\ req[q].step = "verify"
  /\ Decide(q, req[q].skill, [req[q].file EXCEPT !.status = "active"])
  /\ reviewed' = reviewed \cup {req[q].file.id}
  /\ UNCHANGED <<main, tips, base, prs, unmarked, post, parked, drafts, deploys>>

Block(q) ==
  /\ req[q].step = "verify"
  /\ req' = [req EXCEPT ![q] = Idle]
  /\ UNCHANGED <<pod, main, tips, base, prs, flip, warned, reviewed, unmarked, post, parked, drafts, deploys>>

\* deprecate_skill_route reads and writes the file in one go.
Deprecate(q, s) ==
  /\ req[q] = Idle
  /\ pod[s].status = "active"
  /\ Decide(q, s, [pod[s] EXCEPT !.status = "deprecated"])
  /\ UNCHANGED <<main, tips, base, prs, reviewed, unmarked, post, parked, drafts, deploys>>

-----------------------------------------------------------------------------
(* _persist_skill_status_change and create_branch_commit_push: every       *)
(* request uses the same checkout, and none switches back.                 *)

\* Mutant of Report: a failed commit is not reported.
Report_Swallows(q, ok) ==
  /\ req' = [req EXCEPT ![q] = Idle]
  /\ UNCHANGED warned

\* The answer to the person: a pull request, or that it will not survive.
Report(q, ok) ==
  /\ req' = [req EXCEPT ![q] = Idle]
  /\ warned' = IF ok THEN warned ELSE warned \cup {req[q].skill}

Current == Len(tips)

\* git checkout -b, from whatever branch is checked out.
Checkout(q) ==
  /\ req[q].step = "checkout"
  /\ Current <= MaxFlips
  /\ tips' = Append(tips, tips[Current])
  /\ req' = [req EXCEPT ![q].step = "commit", ![q].branch = Current + 1]
  /\ UNCHANGED <<pod, main, base, prs, flip, warned, reviewed, unmarked, post, parked, drafts, deploys>>

\* git add and git commit take the file as it is now, on the current branch.  When
\* another request has checked out its own in between, the commit lands on that
\* one, while this request goes on to push and propose a branch without it.
Commit(q) ==
  /\ req[q].step = "commit"
  /\ LET s == req[q].skill IN
       /\ pod[s] # tips[Current][s]
       /\ tips' = [tips EXCEPT ![Current][s] = pod[s]]
       /\ flip' = IF req[q].branch = Current THEN flip ELSE [flip EXCEPT ![s] = NoDecision]
  /\ req' = [req EXCEPT ![q].step = "push"]
  /\ UNCHANGED <<pod, main, base, prs, warned, reviewed, unmarked, post, parked, drafts, deploys>>

\* git push of the request's own branch, and a draft pull request for it,
\* which GitHub refuses for a branch without commits that main does not have.
Propose(q) ==
  /\ req[q].step = "push"
  /\ LET tip == tips[req[q].branch] IN
       /\ req[q].branch >= base.branch /\ tip # base.tree
       /\ prs' = prs \cup {[deploy |-> deploys, branch |-> req[q].branch,
                            base |-> base.tree, tip |-> tip]}
  /\ Report(q, TRUE)
  /\ UNCHANGED <<pod, main, tips, base, flip, reviewed, unmarked, post, parked, drafts, deploys>>

\* Any of the commands or the API fails, or there is nothing to commit.
PersistFails(q) ==
  /\ req[q].step \in {"checkout", "commit", "push"}
  /\ Report(q, FALSE)
  /\ UNCHANGED <<pod, main, tips, base, prs, flip, reviewed, unmarked, post, parked, drafts, deploys>>

\* A pull request is merged, and with it the branches below it; main takes the
\* files the branch changed.  One that conflicts stays open.  Merging a pull
\* request of an earlier pod is a decision of its own.
Merge(pr) ==
  /\ pr \in prs
  /\ LET changed == {s \in Skills : pr.tip[s] # pr.base[s]} IN
       /\ \A s \in changed : main[s] = pr.base[s]
       /\ main' = [s \in Skills |-> IF s \in changed THEN pr.tip[s] ELSE main[s]]
  /\ prs' = {[p EXCEPT !.base = IF p.deploy = pr.deploy THEN pr.tip ELSE @] :
               p \in {x \in prs : x.deploy = pr.deploy => x.branch > pr.branch}}
  /\ base' = IF pr.deploy = deploys THEN [branch |-> pr.branch, tree |-> pr.tip] ELSE base
  /\ flip' = [s \in Skills |-> IF pr.deploy # deploys /\ pr.tip[s] # pr.base[s]
                                THEN NoDecision ELSE flip[s]]
  /\ UNCHANGED <<pod, tips, req, warned, reviewed, unmarked, post, parked, drafts, deploys>>

\* A person closes one instead: they no longer want its decisions.
Close(pr) ==
  /\ pr \in prs
  /\ prs' = prs \ {pr}
  /\ flip' = [s \in Skills |-> IF pr.tip[s] = flip[s] THEN NoDecision ELSE flip[s]]
  /\ UNCHANGED <<pod, main, tips, base, req, warned, reviewed, unmarked, post, parked, drafts, deploys>>

\* A new image, or a new container of one built since: main's tree, no branch,
\* no request.
Redeploy ==
  /\ deploys < MaxDeploys
  /\ deploys' = deploys + 1
  /\ pod' = main /\ tips' = <<main>> /\ base' = [branch |-> 1, tree |-> main]
  /\ req' = [q \in Requests |-> Idle]
  /\ flip' = [s \in Skills |-> NoDecision]
  /\ warned' = {}
  /\ UNCHANGED <<main, prs, reviewed, unmarked, post, parked, drafts>>

-----------------------------------------------------------------------------
(* Use.                                                                    *)

\* Skill.matches and match: drafts and retired skills never match, deprecated
\* ones do, with a warning, and load_skill takes a file without a valid status
\* line for an active one, although neither route finds a status in it.
Matches(s) == pod[s].status \in {"active", "deprecated", "none"}

\* skill_for_category resolves a finding to a skill by its name, whatever its
\* status, for the dispatcher and for generate_for_finding; generate() does not
\* ask for the status either.
Resolves(s) == pod[s] # Absent

Next ==
  \/ \E s \in Skills : LearnHere(s) \/ Draft(s)
  \/ PortalSaves \/ PortalRefuses \/ Park
  \/ \E q \in Requests : \/ \E s \in Skills : Review(q, s) \/ Deprecate(q, s)
                         \/ Activate(q) \/ Block(q)
                         \/ Checkout(q) \/ Commit(q) \/ Propose(q) \/ PersistFails(q)
  \/ \E pr \in prs : Merge(pr) \/ Close(pr)
  \/ Redeploy

Spec == Init /\ [][Next]_vars

-----------------------------------------------------------------------------
(* Properties.                                                             *)

TypeOK ==
  /\ {pod, main, base.tree, tips[Current]} \subseteq Trees
  /\ Current <= MaxFlips + 1
  /\ \A p \in prs : p.tip \in Trees /\ p.base \in Trees /\ p.deploy <= deploys
  /\ \A q \in Requests : req[q] = Idle \/ req[q].branch <= Current
  /\ flip \in Trees
  /\ warned \subseteq Skills
  /\ parked \cup unmarked \subseteq 1 .. drafts /\ reviewed \subseteq 0 .. drafts

\* The review of activate_skill_route: what the scan generates from has
\* shipped, or has passed verify_skill as it stands, or is what a model wrote
\* without the draft status it was asked for, although drafts are written over
\* files under review and merged pull requests carry them into main.
ScanIsReviewed == \A s \in Skills : Matches(s) => pod[s].id \in reviewed \cup unmarked

\* The learner's module docstring: "Generated skills are always saved with
\* status: draft" and wait for a person's activation.  Nothing enforces it.
MatchedIsReviewed == \A s \in Skills : Matches(s) => pod[s].id \in reviewed

\* A decision the running pod shows is on its way to main, or merged, or its
\* author was told that the next redeploy reverts it; unless its commit went to
\* the branch of another request, or a pull request of an earlier pod has
\* changed the skill under this one's branches.
NoSilentRevert ==
  \A s \in Skills :
    flip[s] # NoDecision /\ main[s] = base.tree[s] =>
      \/ \E q \in Requests : req[q] # Idle /\ req[q].step # "verify" /\ req[q].skill = s
      \/ s \in warned
      \/ main[s] = flip[s]
      \/ \E p \in prs : p.tip[s] = flip[s]

\* The learner's module docstring: drafts "require human review ... before the
\* skill engine will match them against real assessments", through any caller
\* of the engine.
DispatchIsReviewed == \A s \in Skills : Resolves(s) => pod[s].id \in reviewed
=============================================================================
