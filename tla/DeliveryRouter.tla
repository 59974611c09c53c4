--------------------------- MODULE DeliveryRouter ---------------------------
(***************************************************************************)
(* route_and_deliver (portal/delivery.py) for one application: the per-app *)
(* delivery lock, the deliveries row of every attempt, the GitHub worker   *)
(* threads that force-push the branch of each category, and the SLO watch. *)
(*                                                                         *)
(* Three things may strike an attempt in the middle: an exception, which   *)
(* route_and_deliver turns into status "failed"; a cancellation by the     *)
(* with_timeout of the onboard job, which passes through except Exception  *)
(* and leaves the worker thread running; and a crash of the portal.        *)
(***************************************************************************)
EXTENDS Naturals

CONSTANTS
  Attempts,     \* calls of route_and_deliver for the application
  NoAttempt,
  Cancellable,  \* the attempts made under with_timeout
  Batches,      \* the sets of categories a call may have to deliver
  WorkBound,    \* longest time from claim to release (the code sets none)
  StaleAfter    \* claim_delivery_lock's stale_after_seconds

\* In the order in which route_and_deliver handles them.
Categories == {"cluster", "cicd", "source", "atrest"}

Rank == [cluster |-> 1, cicd |-> 2, source |-> 3, atrest |-> 4]

Branches == {"app", "app-cicd", "codechange"}

ASSUME AttemptsAssumption == NoAttempt \notin Attempts /\ Cancellable \subseteq Attempts

ASSUME BatchesAssumption == Batches \subseteq SUBSET Categories

ASSUME TimingAssumption ==
  WorkBound \in Nat /\ StaleAfter \in Nat /\ WorkBound <= StaleAfter

VARIABLES
  target,  \* how the application is delivered: "fleet", "self" or "unknown"
  lock,    \* the delivery_locks row: is it there, and how old (saturating)
  call,    \* the calls with their local variables
  thread,  \* their asyncio.to_thread workers
  row,     \* status of their deliveries rows
  res,     \* finding_resolution of their rows
  watch,   \* verify_and_close_delivery is running for the row
  lost,    \* why a call lost control of its row, if it did
  head     \* the attempt and category whose commit a branch points at

vars == <<target, lock, call, thread, row, res, watch, lost, head>>

Phases == {"idle", "create", "deliver", "schedule", "fail", "unlock", "end"}

Results == {"none", "pr", "skipped", "error"}

Rows == {"none", "in_progress", "delivered", "partial", "failed", "verified",
         "breach-reported"}

\* t is the time since the lock was claimed, left the categories still to deliver.
Call == [pc : Phases, dry : BOOLEAN, t : 0..WorkBound, left : SUBSET Categories,
         outcome : [Categories -> Results]]

NewCall(p, dryRun, batch) ==
  [pc |-> p, dry |-> dryRun, t |-> 0, left |-> batch,
   outcome |-> [c \in Categories |-> "none"]]

IdleCall == NewCall("idle", FALSE, {})

EndedCall == NewCall("end", FALSE, {})

Thread == [at : {"off", "prepare", "pushed"}, cat : Categories \cup {"none"}]

NoThread == [at |-> "off", cat |-> "none"]

NoCommit == [by |-> NoAttempt, cat |-> "none"]

Commit == [by : Attempts \cup {NoAttempt}, cat : Categories \cup {"none"}]

TypeOK ==
  /\ target \in {"fleet", "self", "unknown"}
  /\ lock \in [held : BOOLEAN, age : 0..(StaleAfter + 1)]
  /\ call \in [Attempts -> Call]
  /\ thread \in [Attempts -> Thread]
  /\ row \in [Attempts -> Rows]
  /\ res \in [Attempts -> {"null", "not_delivered"}]
  /\ watch \in [Attempts -> BOOLEAN]
  /\ lost \in [Attempts -> {"no", "cancelled", "crashed", "store"}]
  /\ head \in [Branches -> Commit]

Init ==
  /\ target \in {"fleet", "self", "unknown"}
  /\ lock = [held |-> FALSE, age |-> 0]
  /\ call = [d \in Attempts |-> IdleCall]
  /\ thread = [d \in Attempts |-> NoThread]
  /\ row = [d \in Attempts |-> "none"]
  /\ res = [d \in Attempts |-> "null"]
  /\ watch = [d \in Attempts |-> FALSE]
  /\ lost = [d \in Attempts |-> "no"]
  /\ head = [b \in Branches |-> NoCommit]

-----------------------------------------------------------------------------
(* Routing. *)

Running == {"create", "deliver", "schedule", "fail", "unlock"}

\* The attempt holds the lock (lock_held) or is a dry run.
Live(d) == call[d].pc \in Running

InSection(d) == Live(d) /\ ~call[d].dry

\* resolve_cluster_config_mechanism and the fixed mechanisms of the other categories.
Mechanism(c) ==
  CASE c = "source" -> "source-repo-pr"
    [] c = "atrest" -> "refused"
    [] OTHER -> CASE target = "fleet" -> "infra-repo-commit"
                  [] target = "self" -> "source-repo-pr"
                  [] OTHER -> "none"

\* commit_to_infra_repo's and create_source_patch_pr's branch.  All calls of one
\* application are taken to use the same branch_suffix.
Branch(c) ==
  CASE Mechanism(c) = "source-repo-pr" -> "codechange"
    [] c = "cicd" -> "app-cicd"
    [] OTHER -> "app"

Opens(c) == Mechanism(c) \in {"infra-repo-commit", "source-repo-pr"}

\* The category whose turn it is.
Current(d) == CHOOSE c \in call[d].left : \A e \in call[d].left : Rank[c] <= Rank[e]

-----------------------------------------------------------------------------
(* The lock. *)

\* Mutants of Claimable: every lock is taken over, none is.
Claimable_AnyAge == TRUE
Claimable_NoTakeover == ~lock.held

\* No row, or one older than the limit.
Claimable == ~lock.held \/ lock.age > StaleAfter

claim_delivery_lock ==
  /\ Claimable
  /\ lock' = [held |-> TRUE, age |-> 0]

\* A DELETE by key, whoever wrote the row.
release_delivery_lock == lock' = [held |-> FALSE, age |-> 0]

-----------------------------------------------------------------------------
(* The steps of route_and_deliver. *)

Goto(d, p) == call' = [call EXCEPT ![d].pc = p]

\* The call returns or raises; its local variables are gone.
Return(d) == call' = [call EXCEPT ![d] = EndedCall]

Route(d, batch) ==
  /\ call[d].pc = "idle"
  /\ claim_delivery_lock
  /\ call' = [call EXCEPT ![d] = NewCall("create", FALSE, batch)]
  /\ UNCHANGED <<target, thread, row, res, watch, lost, head>>

\* DeliveryInProgressError: no row is written.
Refused(d) ==
  /\ call[d].pc = "idle"
  /\ ~Claimable
  /\ Return(d)
  /\ UNCHANGED <<target, lock, thread, row, res, watch, lost, head>>

RouteDry(d, batch) ==
  /\ call[d].pc = "idle"
  /\ call' = [call EXCEPT ![d] = NewCall("create", TRUE, batch)]
  /\ UNCHANGED <<target, lock, thread, row, res, watch, lost, head>>

create_delivery(d) ==
  /\ call[d].pc = "create"
  /\ Goto(d, "deliver")
  /\ row' = [row EXCEPT ![d] = "in_progress"]
  /\ UNCHANGED <<target, lock, thread, res, watch, lost, head>>

\* Outside the try: nothing releases the lock.
CreateRaises(d) ==
  /\ call[d].pc = "create"
  /\ Return(d)
  /\ UNCHANGED <<target, lock, thread, row, res, watch, lost, head>>

\* The category's outcome is in; on to the next one.
Settle(d, r) ==
  call' = [call EXCEPT ![d].outcome[Current(d)] = r, ![d].left = @ \ {Current(d)}]

\* An outcome without a thread of GitHub calls: no mechanism, the HPA or the chart gate
\* refuses, or a dry run, which may also find errors.
Preview(d) ==
  /\ call[d].pc = "deliver" /\ thread[d].at = "off" /\ call[d].left # {}
  /\ \/ call[d].dry /\ Opens(Current(d)) /\ Settle(d, "skipped")
     \/ Settle(d, "error")
  /\ UNCHANGED <<target, lock, thread, row, res, watch, lost, head>>

StartThread(d) ==
  /\ call[d].pc = "deliver" /\ thread[d].at = "off" /\ call[d].left # {}
  /\ ~call[d].dry /\ Opens(Current(d))
  /\ thread' = [thread EXCEPT ![d] = [at |-> "prepare", cat |-> Current(d)]]
  /\ UNCHANGED <<target, lock, call, row, res, watch, lost, head>>

\* Mutants of DeliverRaises: the thread runs on; no except branch.
DeliverRaises_LeavesThread(d) ==
  /\ call[d].pc = "deliver"
  /\ Goto(d, "fail")
  /\ UNCHANGED <<target, lock, thread, row, res, watch, lost, head>>
DeliverRaises_NoExcept(d) ==
  /\ call[d].pc = "deliver"
  /\ Goto(d, "unlock")
  /\ thread' = [thread EXCEPT ![d] = NoThread]
  /\ UNCHANGED <<target, lock, row, res, watch, lost, head>>

\* A category raises (discovery, chart gate, ensure_applicationset, audit log), or the
\* update_delivery after the last one does.
DeliverRaises(d) ==
  /\ call[d].pc = "deliver"
  /\ Goto(d, "fail")
  /\ thread' = [thread EXCEPT ![d] = NoThread]
  /\ UNCHANGED <<target, lock, row, res, watch, lost, head>>

AnyError(d) == \E c \in Categories : call[d].outcome[c] = "error"

OpenedPR(d) == \E c \in Categories : call[d].outcome[c] = "pr"

Recorded(d) == IF AnyError(d) THEN "partial" ELSE "delivered"

\* The update_delivery at the end of the try.
Record(d) ==
  /\ call[d].pc = "deliver" /\ thread[d].at = "off" /\ call[d].left = {}
  /\ Goto(d, "schedule")
  /\ row' = [row EXCEPT ![d] = Recorded(d)]
  /\ res' = [res EXCEPT ![d] = IF OpenedPR(d) \/ call[d].dry THEN @ ELSE "not_delivered"]
  /\ UNCHANGED <<target, lock, thread, watch, lost, head>>

\* _maybe_schedule_verification, if the assessment has SLOs: whether or not a PR was
\* opened, and for partial deliveries too.
Schedule(d) ==
  /\ call[d].pc = "schedule"
  /\ Goto(d, "unlock")
  /\ \/ UNCHANGED watch
     \/ /\ ~call[d].dry
        /\ \E c \in {"cluster", "cicd"} :
             call[d].outcome[c] # "none" /\ Mechanism(c) = "infra-repo-commit"
        /\ watch' = [watch EXCEPT ![d] = TRUE]
  /\ UNCHANGED <<target, lock, thread, row, res, lost, head>>

Fail(d) ==
  /\ call[d].pc = "fail"
  /\ Goto(d, "unlock")
  /\ row' = [row EXCEPT ![d] = "failed"]
  /\ UNCHANGED <<target, lock, thread, res, watch, lost, head>>

\* The update_delivery of the except branch raises too.
FailRaises(d) ==
  /\ call[d].pc = "fail"
  /\ Goto(d, "unlock")
  /\ lost' = [lost EXCEPT ![d] = IF @ = "no" THEN "store" ELSE @]
  /\ UNCHANGED <<target, lock, thread, row, res, watch, head>>

Unlock(d) ==
  /\ call[d].pc = "unlock"
  /\ Return(d)
  /\ IF call[d].dry THEN UNCHANGED lock ELSE release_delivery_lock
  /\ UNCHANGED <<target, thread, row, res, watch, lost, head>>

UnlockRaises(d) ==
  /\ call[d].pc = "unlock"
  /\ Return(d)
  /\ UNCHANGED <<target, lock, thread, row, res, watch, lost, head>>

RouterStep(d) ==
  \/ create_delivery(d) \/ CreateRaises(d)
  \/ Preview(d) \/ StartThread(d) \/ DeliverRaises(d)
  \/ Record(d) \/ Schedule(d) \/ Fail(d) \/ FailRaises(d) \/ Unlock(d) \/ UnlockRaises(d)

\* asyncio.wait_for cancels the call at its current await, once.  Only finally runs;
\* in create_delivery not even that, and the row may be there or not.
Cancel(d) ==
  /\ d \in Cancellable
  /\ Live(d)
  /\ lost[d] # "cancelled"
  /\ lost' = [lost EXCEPT ![d] = "cancelled"]
  /\ \/ call[d].pc \in {"create", "unlock"} /\ Return(d)
     \/ call[d].pc \in {"deliver", "schedule", "fail"} /\ Goto(d, "unlock")
  /\ \/ UNCHANGED row
     \/ call[d].pc = "create" /\ row' = [row EXCEPT ![d] = "in_progress"]
  /\ UNCHANGED <<target, lock, thread, res, watch, head>>

-----------------------------------------------------------------------------
(* The worker thread: commit_to_infra_repo, create_source_patch_pr. *)

\* Base SHA, tree, commit, then _create_or_update_branch_ref, which forces the branch.
Push(d) ==
  /\ thread[d].at = "prepare"
  /\ thread' = [thread EXCEPT ![d].at = "pushed"]
  /\ head' = [head EXCEPT ![Branch(thread[d].cat)] = [by |-> d, cat |-> thread[d].cat]]
  /\ UNCHANGED <<target, lock, call, row, res, watch, lost>>

\* Content unchanged or a GitHub error before the push; a pull request or an error after
\* it.  A cancelled call is no longer there to see the result.
ThreadEnds(d, r) ==
  /\ \/ thread[d].at = "prepare" /\ r \in {"skipped", "error"}
     \/ thread[d].at = "pushed" /\ r \in {"pr", "error"}
  /\ thread' = [thread EXCEPT ![d] = NoThread]
  /\ IF call[d].pc = "deliver" THEN Settle(d, r) ELSE UNCHANGED call
  /\ UNCHANGED <<target, lock, row, res, watch, lost, head>>

ThreadStep(d) == Push(d) \/ \E r \in Results : ThreadEnds(d, r)

-----------------------------------------------------------------------------
(* verify_and_close_delivery, the process, time. *)

\* Healthy, breached, or verify_slos raised.
VerifyEnds(d) ==
  /\ watch[d]
  /\ watch' = [watch EXCEPT ![d] = FALSE]
  /\ \E s \in {"verified", "breach-reported", row[d]} : row' = [row EXCEPT ![d] = s]
  /\ UNCHANGED <<target, lock, call, thread, res, lost, head>>

\* Calls, threads and watches are gone; the lock and the rows stay.
Crash ==
  /\ \E d \in Attempts : Live(d) \/ thread[d].at # "off" \/ watch[d]
  /\ call' = [d \in Attempts |-> IF Live(d) THEN EndedCall ELSE call[d]]
  /\ lost' = [d \in Attempts |-> IF Live(d) /\ lost[d] = "no" THEN "crashed" ELSE lost[d]]
  /\ thread' = [d \in Attempts |-> NoThread]
  /\ watch' = [d \in Attempts |-> FALSE]
  /\ UNCHANGED <<target, lock, row, res, head>>

Tick ==
  /\ \A d \in Attempts : InSection(d) => call[d].t < WorkBound
  /\ lock' = [lock EXCEPT !.age = IF lock.held /\ @ <= StaleAfter THEN @ + 1 ELSE @]
  /\ call' = [d \in Attempts |->
                 IF InSection(d) THEN [call[d] EXCEPT !.t = @ + 1] ELSE call[d]]
  /\ UNCHANGED <<target, thread, row, res, watch, lost, head>>

Next ==
  \/ \E d \in Attempts, batch \in Batches : Route(d, batch) \/ RouteDry(d, batch)
  \/ \E d \in Attempts :
       Refused(d) \/ RouterStep(d) \/ Cancel(d) \/ ThreadStep(d) \/ VerifyEnds(d)
  \/ Crash \/ Tick

\* The event loop runs every call, threads end (every GitHub call has a timeout), time
\* passes.
Fairness ==
  /\ WF_vars(Tick)
  /\ \A d \in Attempts : WF_vars(RouterStep(d)) /\ WF_vars(ThreadStep(d))

Spec == Init /\ [][Next]_vars

FairSpec == Spec /\ Fairness

-----------------------------------------------------------------------------
(* Properties. *)

\* claim_delivery_lock: never two deliveries of one application at once, although stale
\* locks are taken over and a release deletes the row whoever holds it.
OneDeliveryAtATime ==
  \A d, e \in Attempts : InSection(d) /\ InSection(e) => d = e

\* "could otherwise silently clobber one another via that force-push": the branch of a
\* pull request that a delivery in progress has opened is its own, unless the thread of a
\* cancelled delivery, which the lock does not cover, has overwritten it.
NoForeignPush ==
  \A d \in Attempts, c \in Categories :
    InSection(d) /\ call[d].outcome[c] = "pr" =>
      LET a == head[Branch(c)].by
      IN  a = d \/ (a \in Attempts /\ lost[a] = "cancelled")

\* The staleness override: whoever dies with the lock, forgets it or fails to delete it,
\* the application can be delivered again.
LockRecovers == []<>Claimable

\* The try/except of route_and_deliver: no row stays in_progress, unless the call lost
\* control of it.
RowSettles ==
  \A d \in Attempts :
    row[d] = "in_progress" ~> row[d] # "in_progress" \/ lost[d] # "no"

\* The same for cancelled calls: with_timeout is an ordinary way for a delivery to end.
CancelledRowSettles ==
  \A d \in Attempts :
    row[d] = "in_progress" ~>
      row[d] # "in_progress" \/ lost[d] \in {"crashed", "store"}

\* Every category reported as a pull request in one call has its own commit on its
\* branch when the call reports.
ReportedCategoriesLand ==
  \A d \in Attempts, c \in Categories :
    call[d].pc = "schedule" /\ call[d].outcome[c] = "pr" => head[Branch(c)].cat = c
=============================================================================
