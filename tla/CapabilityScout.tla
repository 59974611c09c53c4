-------------------------- MODULE CapabilityScout --------------------------
(***************************************************************************)
(* The capability scout proposes improvements of AgentIT itself as draft   *)
(* pull requests.  A run first records what became of earlier proposals,   *)
(* gathers evidence, asks the model for one proposal, drops it when an     *)
(* earlier one settled the matter, builds a diff, runs the safety gates    *)
(* and opens the pull request.  The watcher's pod runs one every interval; *)
(* the portal's button starts another at any time, and gives up waiting    *)
(* for it after 180 seconds.                                               *)
(*                                                                         *)
(* Of a proposal, its title is told apart; of evidence, the outcomes.      *)
(***************************************************************************)
EXTENDS Naturals, Sequences, FiniteSets

CONSTANTS
  Titles,
  Runs,       \* the watcher's run and those started by the button
  Manual,     \* the latter
  MaxOpen,    \* max_open_prs
  ListRead,   \* pull requests the sync lists, the newest first (50)
  SyncRead,   \* outcomes the sync reads, the newest first (100)
  OutcomesRead, \* outcomes a proposal is compared with, the newest first (50)
  MaxMoves,   \* bound on the pull requests opened, merged and closed together
  MaxOutcomes \* bound on the outcomes recorded

VARIABLES
  prs,        \* the pull requests on agentit/self-improve/ branches, by number
  outcomes,   \* the capability-outcome events, the newest last
  run         \* the runs

vars == <<prs, outcomes, run>>

CloseReasons == {"duplicate", "wontfix", "other"}
Idle == [step |-> "idle"]
Numbers == DOMAIN prs
Open(i) == prs[i].state = "open"
InBound == Len(prs) + Cardinality({i \in Numbers : ~ Open(i)}) < MaxMoves

Init ==
  /\ prs = <<>>
  /\ outcomes = <<>>
  /\ run = [r \in Runs |-> Idle]

-----------------------------------------------------------------------------
(* sync_proposal_outcomes.                                                 *)

\* list_events_by_action with a limit.
Read(limit) == {outcomes[k] : k \in {x \in DOMAIN outcomes : x + limit > Len(outcomes)}}

PrsOf(known) == {o.pr : o \in known}
Recorded == PrsOf(Read(Len(outcomes)))

\* Recorded while still open, or without the reason a person gave: an outcome in
\* sight is never corrected.
Misrecorded ==
  PrsOf({o \in Read(Len(outcomes)) : o.state # prs[o.pr].state \/ o.reason # prs[o.pr].reason})

\* What is settled for good: merged, or closed because it existed already.
Settled ==
  {i \in Numbers : \/ prs[i].state = "merged"
                   \/ prs[i].state = "closed" /\ prs[i].reason = "duplicate"}

\* list_self_improve_prs_from_gh.
Listed == {i \in Numbers : i + ListRead > Len(prs)}

\* The run polls the pull requests that its listing and the runs it has read of
\* name, but for those among the outcomes it has read.  Each of the three
\* queries may fail and then yields nothing; a run whose event is lost or old
\* names nothing.  due is the model's own: what was settled when the run began
\* and was listed or recorded, and none of its steps failed to learn of.
BeginSync(r) ==
  /\ run[r] = Idle
  /\ \E tracked \in SUBSET Numbers, listed \in {Listed, {}}, known \in {Read(SyncRead), {}} :
       run' = [run EXCEPT ![r] = [step |-> "sync", todo |-> (tracked \cup listed) \ PrsOf(known),
                                  due |-> Settled \cap (listed \cup Recorded)]]
  /\ UNCHANGED <<prs, outcomes>>

\* The sync raises half-way: the run goes on without the rest.
SyncFails(r) ==
  /\ run[r].step = "sync"
  /\ run' = [run EXCEPT ![r].todo = {}, ![r].due = @ \cap Recorded]
  /\ UNCHANGED <<prs, outcomes>>

\* outcome_from_pr_status: nothing for an open pull request, until it is old.
HasOutcome(i) == ~ Open(i) \/ prs[i].old
OutcomeOf(i, reason) ==
  [pr |-> i, state |-> IF Open(i) THEN "stale" ELSE prs[i].state,
   reason |-> reason, fresh |-> TRUE]

\* One pull request is polled and its outcome logged.  The reason is parsed
\* from labels, body and, of a closed one, comments; a reason in comments that
\* cannot be read is recorded as none.  The order of the two lists is left out.
SyncOne(r, i) ==
  /\ run[r].step = "sync" /\ i \in run[r].todo
  /\ IF HasOutcome(i)
       THEN /\ Len(outcomes) < MaxOutcomes
            /\ \E reason \in {prs[i].reason, "other"} :
                 outcomes' = Append(outcomes, OutcomeOf(i, reason))
       ELSE UNCHANGED outcomes
  /\ run' = [run EXCEPT ![r].todo = @ \ {i}]
  /\ UNCHANGED prs

\* The poll or the log fails.
SkipOne(r, i) ==
  /\ run[r].step = "sync" /\ i \in run[r].todo
  /\ run' = [run EXCEPT ![r].todo = @ \ {i}, ![r].due = @ \ {i}]
  /\ UNCHANGED <<prs, outcomes>>

-----------------------------------------------------------------------------
(* research_once after the sync.                                           *)

\* _log_run, best effort: the run is over.
End(r) == run' = [run EXCEPT ![r] = Idle]

\* Mutant of Blocks: only merged proposals block.
Blocks_MergeOnly(o, title) == prs[o.pr].title = title /\ o.state = "merged"

\* proposal_blocked_by_outcome, for one outcome: a merge or a duplicate for
\* ever, a wontfix while it is fresh, a stale or otherwise closed one never.
Blocks(o, title) ==
  /\ prs[o.pr].title = title
  /\ \/ o.state = "merged"
     \/ o.state = "closed" /\ o.reason = "duplicate"
     \/ o.state = "closed" /\ o.reason = "wontfix" /\ o.fresh

\* The titles among which a proposal would be dropped, given these outcomes.
Blocked(known) == {title \in Titles : \E o \in known : Blocks(o, title)}

\* Recorded, but OutcomesRead others were recorded since.
Overtaken == Recorded \ PrsOf(Read(OutcomesRead))

\* gather_evidence reads the newest outcomes; a failing query yields none.  An
\* overtaken one is not known any more.
Gather(r) ==
  /\ run[r].step = "sync" /\ run[r].todo = {}
  /\ \/ run' = [run EXCEPT ![r] = [step |-> "propose", blocked |-> Blocked(Read(OutcomesRead)),
                                   due |-> @.due \ Overtaken]]
     \/ run' = [run EXCEPT ![r] = [step |-> "propose", blocked |-> {}, due |-> {}]]
  /\ UNCHANGED <<prs, outcomes>>

\* No model, no signal, no parseable answer, no proposal, one whose module is
\* in the tree already, one an outcome blocks, or one whose diff is empty.
NoProposal(r) ==
  /\ run[r].step = "propose"
  /\ End(r)
  /\ UNCHANGED <<prs, outcomes>>

\* The model answers with any title; prompts and filters only advise it.
Propose(r, title) ==
  /\ run[r].step = "propose"
  /\ title \notin run[r].blocked
  /\ run' = [run EXCEPT ![r] = [step |-> "gates", title |-> title,
                                due |-> {i \in @.due : prs[i].title = title}]]
  /\ UNCHANGED <<prs, outcomes>>

\* Mutant of PrGate: old pull requests do not count.
PrGate_CountsOld == Cardinality({i \in Numbers : Open(i) /\ ~ prs[i].old}) < MaxOpen

\* check_no_open_self_improve_pr.
PrGate == Cardinality({i \in Numbers : Open(i)}) < MaxOpen

\* run_safety_gates up to the cap; the test suite, which takes minutes, is the
\* gate after it.
PassCap(r) ==
  /\ run[r].step = "gates"
  /\ PrGate
  /\ run' = [run EXCEPT ![r].step = "tests"]
  /\ UNCHANGED <<prs, outcomes>>

PassTests(r) ==
  /\ run[r].step = "tests"
  /\ run' = [run EXCEPT ![r].step = "open"]
  /\ UNCHANGED <<prs, outcomes>>

\* Any gate fails, raises, or GitHub cannot be asked.
GateBlocked(r) ==
  /\ run[r].step \in {"gates", "tests"}
  /\ End(r)
  /\ UNCHANGED <<prs, outcomes>>

\* _open_pr.
OpenPr(r) ==
  /\ run[r].step = "open"
  /\ InBound
  /\ prs' = Append(prs, [title |-> run[r].title, state |-> "open", reason |-> "other",
                         old |-> FALSE])
  /\ End(r)
  /\ UNCHANGED outcomes

\* The write guard, git or the API refuses.
OpenFails(r) ==
  /\ run[r].step = "open"
  /\ End(r)
  /\ UNCHANGED <<prs, outcomes>>

\* The button stops waiting.  Where the run is in a thread, the thread goes on:
\* the gates come to nothing, but a pull request that is being opened is
\* opened, and no event of the run is logged; OpenPr stands for that as well.
Cancel(r) ==
  /\ r \in Manual
  /\ run[r].step \in {"sync", "propose", "gates", "tests"}
  /\ End(r)
  /\ UNCHANGED <<prs, outcomes>>

-----------------------------------------------------------------------------
(* GitHub and the clock.                                                   *)

CanDecide(i) == Open(i) /\ InBound

Merge(i) ==
  /\ CanDecide(i)
  /\ prs' = [prs EXCEPT ![i].state = "merged", ![i].old = FALSE]
  /\ UNCHANGED <<outcomes, run>>

Close(i) ==
  /\ CanDecide(i)
  /\ \E reason \in CloseReasons :
       prs' = [prs EXCEPT ![i].state = "closed", ![i].reason = reason, ![i].old = FALSE]
  /\ UNCHANGED <<outcomes, run>>

\* An open pull request reaches STALE_PR_DAYS; the age of others is not read.
GrowOld(i) ==
  /\ Open(i) /\ ~ prs[i].old
  /\ prs' = [prs EXCEPT ![i].old = TRUE]
  /\ UNCHANGED <<outcomes, run>>

\* A recorded outcome passes OUTCOME_COOLDOWN_DAYS; runs are shorter than days.
Expire(k) ==
  /\ outcomes[k].fresh /\ outcomes[k].reason = "wontfix"
  /\ \A r \in Runs : run[r] = Idle
  /\ outcomes' = [outcomes EXCEPT ![k].fresh = FALSE]
  /\ UNCHANGED <<prs, run>>

Next ==
  \/ \E r \in Runs :
       \/ BeginSync(r) \/ SyncFails(r) \/ Gather(r)
       \/ \E i \in Numbers : SyncOne(r, i) \/ SkipOne(r, i)
       \/ NoProposal(r) \/ \E title \in Titles : Propose(r, title)
       \/ PassCap(r) \/ PassTests(r) \/ GateBlocked(r)
       \/ OpenPr(r) \/ OpenFails(r) \/ Cancel(r)
  \/ \E i \in Numbers : Merge(i) \/ Close(i) \/ GrowOld(i)
  \/ \E k \in DOMAIN outcomes : Expire(k)

Spec == Init /\ [][Next]_vars

-----------------------------------------------------------------------------
(* Properties.                                                             *)

TypeOK ==
  /\ \A i \in Numbers :
       prs[i] \in [title : Titles, state : {"open", "merged", "closed"}, reason : CloseReasons,
                   old : BOOLEAN]
  /\ \A k \in DOMAIN outcomes :
       outcomes[k] \in [pr : Numbers, state : {"merged", "closed", "stale"},
                        reason : CloseReasons, fresh : BOOLEAN]
  /\ \A r \in Runs : run[r] = Idle \/ run[r].due \subseteq Numbers

\* check_no_open_self_improve_pr counts minutes before the pull request is
\* opened.  Each run that is past the count may add one; no sequence of runs,
\* merges and slow test suites leaves more open than that.
OpenBounded ==
  Cardinality({i \in Numbers : Open(i)}) <= MaxOpen + Cardinality(Runs) - 1

\* The settled pull requests of the same title, known to it, that a run ignores
\* when it opens another.
Reproposed ==
  UNION {run[r].due : r \in {x \in Runs : prs' # prs /\ run[x] # Idle /\ run'[x] = Idle}}

\* sync_proposal_outcomes and proposal_blocked_by_outcome: no run opens
\* a pull request for what was merged or closed as a duplicate before it began
\* and was then among the pull requests listed or already recorded, as long as
\* its own queries, polls and logs about that one work, fewer than OutcomesRead
\* outcomes were recorded since, and no sync had recorded it as stale, or
\* without its reason.
NeverReproposed == [][Reproposed \subseteq Misrecorded]_vars

\* "duplicate does not [expire], because 'the capability already exists elsewhere
\* in the codebase' doesn't stop being true after 30 days"
\* (capability_scout.py:522-524): the outcomes a run reads block every duplicate
\* that was recorded as one.  It fails once OutcomesRead others have been
\* recorded.
DuplicateNeverExpires ==
  \A i \in Recorded \ Misrecorded :
    prs[i].state = "closed" /\ prs[i].reason = "duplicate"
      => prs[i].title \in Blocked(Read(OutcomesRead))
=============================================================================
