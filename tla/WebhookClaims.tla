--------------------------- MODULE WebhookClaims ---------------------------
(***************************************************************************)
(* The webhook routes of the portal (portal/routes/webhooks.py), the claim *)
(* table that deduplicates their deliveries (processed_webhooks, in        *)
(* portal/store/deliveries.py) and the process-wide slot that bounds       *)
(* clone+assess (portal/helpers.py).                                       *)
(*                                                                         *)
(* A delivery is POSTed any number of times (redelivery, retrying caller). *)
(* A handler first claims it; the claim row stays open while the handler   *)
(* works, is completed on success, deleted on a hard failure, and may be   *)
(* taken over once it is older than ClaimTTL.  The portal may crash at any *)
(* time: handlers and threads die, rows survive.                           *)
(*                                                                         *)
(* Time is discrete.  Every await that the code bounds (or that the        *)
(* environment is assumed to bound, see the README) has a limit, and Tick  *)
(* is disabled while some handler stands at its limit.                     *)
(***************************************************************************)
EXTENDS Naturals, FiniteSets

CONSTANTS
  Deliveries,      \* delivery ids (X-GitHub-Delivery, or hash of time bucket and body)
  NoDelivery,      \* the id of an idle handler
  Workers,         \* handler invocations that may be in flight at once
  MaxSends,        \* how often each delivery is POSTed, at most
  AssessMax,       \* AGENTIT_ASSESS_MAX_CONCURRENT
  BusyRetries,     \* _PUSH_BUSY_RETRIES
  AcquireTimeout,  \* AGENTIT_ASSESS_ACQUIRE_TIMEOUT
  BusySleep,       \* _PUSH_BUSY_SLEEP_SECONDS
  AssessTimeout,   \* OPERATION_TIMEOUT
  PostBound,       \* longest post-assessment work of a handler (the code sets none)
  WorkBound,       \* longest work of the onboard and finding routes
  ClaimTTL,        \* claim_webhook's stale_after_seconds
  PurgeAge         \* purge_old_data's cutoff for processed_webhooks

Routes == {"assess", "push", "onboard", "finding"}

\* The claim age at which the assessment of a delivery has ended, at the latest.
AssessBudget == (BusyRetries - 1) * (AcquireTimeout + BusySleep) + AssessTimeout

ASSUME DeliveriesAssumption == NoDelivery \notin Deliveries

ASSUME WorkersAssumption == IsFiniteSet(Workers)

ASSUME BoundsAssumption ==
  /\ MaxSends \in Nat
  /\ AssessMax \in Nat \ {0}
  /\ BusyRetries \in Nat \ {0}
  /\ AcquireTimeout \in Nat
  /\ BusySleep \in Nat
  /\ AssessTimeout \in Nat
  /\ PostBound \in Nat
  /\ WorkBound \in Nat
  /\ ClaimTTL \in Nat
  /\ PurgeAge \in Nat

\* 5s < 300s; 2*(5+30)+300 = 370s leaves 530s of the 900s TTL; 15min < 7 days.
ASSUME TimingAssumption ==
  /\ AcquireTimeout < AssessTimeout
  /\ AssessBudget + PostBound <= ClaimTTL
  /\ WorkBound <= ClaimTTL
  /\ ClaimTTL <= PurgeAge

VARIABLES
  claim,     \* processed_webhooks: "none", "open" (completed=FALSE) or "done"
  age,       \* time since processed_at was written, saturating above PurgeAge
  wk,        \* handler invocations
  permits,   \* free permits of _assess_slots
  detached,  \* assess threads no handler awaits: timed-out ones, and the UI's
  sent,      \* POSTs so far
  jobs,      \* onboard jobs created on behalf of a delivery
  route      \* the endpoint each delivery is POSTed to

vars == <<claim, age, wk, permits, detached, sent, jobs, route>>

\* "post" and "posted" are the work after the assessment, before and after
\* create_remediation_job; a "failing" handler is about to release its claim.
Phases == {"idle", "accepted", "acquire", "assess", "sleep", "post", "posted",
           "failing", "work"}

Worker == [pc : Phases, id : Deliveries \cup {NoDelivery},
           attempt : 1..BusyRetries, t : Nat]

IdleWorker == [pc |-> "idle", id |-> NoDelivery, attempt |-> 1, t |-> 0]

AcceptedWorker(d) == [pc |-> "accepted", id |-> d, attempt |-> 1, t |-> 0]

TypeOK ==
  /\ claim \in [Deliveries -> {"none", "open", "done"}]
  /\ age \in [Deliveries -> 0..(PurgeAge + 1)]
  /\ wk \in [Workers -> Worker]
  /\ permits \in 0..AssessMax
  /\ detached \in 0..AssessMax
  /\ sent \in [Deliveries -> 0..MaxSends]
  /\ jobs \in [Deliveries -> Nat]
  /\ route \in [Deliveries -> Routes]

Init ==
  /\ claim = [d \in Deliveries |-> "none"]
  /\ age = [d \in Deliveries |-> 0]
  /\ wk = [w \in Workers |-> IdleWorker]
  /\ permits = AssessMax
  /\ detached = 0
  /\ sent = [d \in Deliveries |-> 0]
  /\ jobs = [d \in Deliveries |-> 0]
  /\ route \in [Deliveries -> Routes]

-----------------------------------------------------------------------------
(* The claim table. *)

\* Mutants of Claimable: the TTL ignored, no take-over.
Claimable_AnyOpen(d) == claim[d] # "done"
Claimable_NoTakeover(d) == claim[d] = "none"

\* The row is absent, or it is incomplete and older than the TTL.
Claimable(d) ==
  \/ claim[d] = "none"
  \/ claim[d] = "open" /\ age[d] > ClaimTTL

claim_webhook(d) ==
  /\ Claimable(d)
  /\ claim' = [claim EXCEPT ![d] = "open"]
  /\ age' = [age EXCEPT ![d] = 0]

\* An UPDATE: it completes whatever row is there, and none if there is none.
complete_webhook_claim(d) ==
  /\ claim' = [claim EXCEPT ![d] = IF @ = "none" THEN "none" ELSE "done"]
  /\ age' = [age EXCEPT ![d] = 0]

\* A DELETE by id: it drops whatever row is there, whoever wrote it.
release_webhook_claim(d) ==
  /\ claim' = [claim EXCEPT ![d] = "none"]
  /\ age' = [age EXCEPT ![d] = 0]

-----------------------------------------------------------------------------
(* Handlers. *)

Live(w) == wk[w].pc # "idle"

\* w goes on to phase p, in which it has spent no time yet.
Enter(w, p) == wk' = [wk EXCEPT ![w].pc = p, ![w].t = 0]

Return(w) == wk' = [wk EXCEPT ![w] = IdleWorker]

\* A POST whose claim is granted ...
Deliver(w, d) ==
  /\ ~Live(w)
  /\ sent[d] < MaxSends
  /\ claim_webhook(d)
  /\ sent' = [sent EXCEPT ![d] = @ + 1]
  /\ wk' = [wk EXCEPT ![w] = AcceptedWorker(d)]
  /\ UNCHANGED <<permits, detached, jobs, route>>

\* ... and one answered {"status": "duplicate"}.
Duplicate(d) ==
  /\ sent[d] < MaxSends
  /\ ~Claimable(d)
  /\ sent' = [sent EXCEPT ![d] = @ + 1]
  /\ UNCHANGED <<claim, age, wk, permits, detached, jobs, route>>

\* HTTP 400/404 on a body that lacks what the route needs: raised after the claim.
BadBody(w) ==
  /\ wk[w].pc = "accepted"
  /\ route[wk[w].id] # "push"
  /\ Return(w)
  /\ UNCHANGED <<claim, age, permits, detached, sent, jobs, route>>

\* A store call outside every try raises: the response is a 500, the claim stays.
StoreFails(w) ==
  /\ \/ wk[w].pc \in {"accepted", "failing", "work"}
     \/ wk[w].pc \in {"post", "posted"} /\ route[wk[w].id] = "assess"
  /\ Return(w)
  /\ UNCHANGED <<claim, age, permits, detached, sent, jobs, route>>

\* asyncio.to_thread(clone_assess_cleanup): the thread first asks for the slot.
StartAssess(w) ==
  /\ wk[w].pc = "accepted"
  /\ route[wk[w].id] \in {"assess", "push"}
  /\ Enter(w, "acquire")
  /\ UNCHANGED <<claim, age, permits, detached, sent, jobs, route>>

StartWork(w) ==
  /\ wk[w].pc = "accepted"
  /\ route[wk[w].id] \in {"onboard", "finding"}
  /\ Enter(w, "work")
  /\ UNCHANGED <<claim, age, permits, detached, sent, jobs, route>>

AcquireSlot(w) ==
  /\ wk[w].pc = "acquire"
  /\ permits > 0
  /\ permits' = permits - 1
  /\ wk' = [wk EXCEPT ![w].pc = "assess"]
  /\ UNCHANGED <<claim, age, detached, sent, jobs, route>>

\* Mutant of AcquireTimesOut: exhausted retries return without the release.
AcquireTimesOut_NoRelease(w) ==
  /\ wk[w].pc = "acquire"
  /\ permits = 0
  /\ wk[w].t = AcquireTimeout
  /\ IF route[wk[w].id] = "push" /\ wk[w].attempt < BusyRetries
     THEN Enter(w, "sleep")
     ELSE Return(w)
  /\ UNCHANGED <<claim, age, permits, detached, sent, jobs, route>>

\* AssessBusyError: a push sleeps and tries again, BusyRetries attempts in all;
\* webhook_assess answers 503 at once.
AcquireTimesOut(w) ==
  /\ wk[w].pc = "acquire"
  /\ permits = 0
  /\ wk[w].t = AcquireTimeout
  /\ IF route[wk[w].id] = "push" /\ wk[w].attempt < BusyRetries
     THEN Enter(w, "sleep")
     ELSE Enter(w, "failing")
  /\ UNCHANGED <<claim, age, permits, detached, sent, jobs, route>>

SleepEnds(w) ==
  /\ wk[w].pc = "sleep"
  /\ wk[w].t = BusySleep
  /\ wk' = [wk EXCEPT ![w].pc = "acquire", ![w].t = 0, ![w].attempt = @ + 1]
  /\ UNCHANGED <<claim, age, permits, detached, sent, jobs, route>>

AssessReturns(w) ==
  /\ wk[w].pc = "assess"
  /\ permits' = permits + 1
  /\ Enter(w, "post")
  /\ UNCHANGED <<claim, age, detached, sent, jobs, route>>

AssessRaises(w) ==
  /\ wk[w].pc = "assess"
  /\ permits' = permits + 1
  /\ Enter(w, "failing")
  /\ UNCHANGED <<claim, age, detached, sent, jobs, route>>

\* Mutant of AssessTimesOut: the permit is given back with the await.
AssessTimesOut_FreesSlot(w) ==
  /\ wk[w].pc = "assess"
  /\ wk[w].t = AssessTimeout
  /\ detached' = detached + 1
  /\ permits' = permits + 1
  /\ Enter(w, "failing")
  /\ UNCHANGED <<claim, age, sent, jobs, route>>

\* with_timeout gives up on the await; the thread runs on and keeps its permit.
AssessTimesOut(w) ==
  /\ wk[w].pc = "assess"
  /\ wk[w].t = AssessTimeout
  /\ detached' = detached + 1
  /\ Enter(w, "failing")
  /\ UNCHANGED <<claim, age, permits, sent, jobs, route>>

\* save, save_check_results, events; then create_remediation_job and its background run.
CreateJob(w) ==
  /\ wk[w].pc = "post"
  /\ jobs' = [jobs EXCEPT ![wk[w].id] = @ + 1]
  /\ wk' = [wk EXCEPT ![w].pc = "posted"]
  /\ UNCHANGED <<claim, age, permits, detached, sent, route>>

\* _process_github_push_delivery wraps its post-assessment work in a try.
PushPostRaises(w) ==
  /\ wk[w].pc \in {"post", "posted"}
  /\ route[wk[w].id] = "push"
  /\ Enter(w, "failing")
  /\ UNCHANGED <<claim, age, permits, detached, sent, jobs, route>>

Complete(w) ==
  /\ wk[w].pc = "posted"
  /\ complete_webhook_claim(wk[w].id)
  /\ Return(w)
  /\ UNCHANGED <<permits, detached, sent, jobs, route>>

Release(w) ==
  /\ wk[w].pc = "failing"
  /\ release_webhook_claim(wk[w].id)
  /\ Return(w)
  /\ UNCHANGED <<permits, detached, sent, jobs, route>>

\* webhook_onboard returns, with 200 or 500, and settles its claim on neither path.
OnboardReturns(w) ==
  /\ wk[w].pc = "work"
  /\ route[wk[w].id] = "onboard"
  /\ Return(w)
  /\ UNCHANGED <<claim, age, permits, detached, sent, jobs, route>>

\* webhook_finding: app unknown, no fix, detect-only category or no files.
FindingAlertOnly(w) ==
  /\ wk[w].pc = "work"
  /\ route[wk[w].id] = "finding"
  /\ complete_webhook_claim(wk[w].id)
  /\ Return(w)
  /\ UNCHANGED <<permits, detached, sent, jobs, route>>

\* webhook_finding with files to deliver: it calls auto_validate_and_deliver without
\* the required keyword argument orchestration, so the call raises TypeError.
FindingDeliver(w) ==
  /\ wk[w].pc = "work"
  /\ route[wk[w].id] = "finding"
  /\ Enter(w, "failing")
  /\ UNCHANGED <<claim, age, permits, detached, sent, jobs, route>>

WorkerStep(w) ==
  \/ BadBody(w) \/ StoreFails(w) \/ StartAssess(w) \/ StartWork(w)
  \/ AcquireSlot(w) \/ AcquireTimesOut(w) \/ SleepEnds(w)
  \/ AssessReturns(w) \/ AssessRaises(w) \/ AssessTimesOut(w)
  \/ CreateJob(w) \/ PushPostRaises(w) \/ Complete(w) \/ Release(w)
  \/ OnboardReturns(w) \/ FindingAlertOnly(w) \/ FindingDeliver(w)

-----------------------------------------------------------------------------
(* The rest of the portal, and time. *)

\* The assess page's own thread takes the same slot (assess_pipeline.py).
DetachedStarts ==
  /\ permits > 0
  /\ permits' = permits - 1
  /\ detached' = detached + 1
  /\ UNCHANGED <<claim, age, wk, sent, jobs, route>>

DetachedEnds ==
  /\ detached > 0
  /\ permits' = permits + 1
  /\ detached' = detached - 1
  /\ UNCHANGED <<claim, age, wk, sent, jobs, route>>

\* The portal dies and restarts: handlers, threads and semaphore are gone.
Crash ==
  /\ wk' = [w \in Workers |-> IdleWorker]
  /\ permits' = AssessMax
  /\ detached' = 0
  /\ UNCHANGED <<claim, age, sent, jobs, route>>

\* purge_old_data deletes old rows, complete or not.
Purge(d) ==
  /\ claim[d] # "none"
  /\ age[d] > PurgeAge
  /\ release_webhook_claim(d)
  /\ UNCHANGED <<wk, permits, detached, sent, jobs, route>>

\* How long a handler stays in a phase, at most.
Limit(pc) ==
  CASE pc = "acquire" -> AcquireTimeout
    [] pc = "assess" -> AssessTimeout
    [] pc = "sleep" -> BusySleep
    [] pc \in {"post", "posted"} -> PostBound
    [] pc = "work" -> WorkBound
    [] OTHER -> 0

Older(d) == IF claim[d] = "none" \/ age[d] > PurgeAge THEN age[d] ELSE age[d] + 1

Tick ==
  /\ \A w \in Workers : Live(w) => wk[w].t < Limit(wk[w].pc)
  /\ age' = [d \in Deliveries |-> Older(d)]
  /\ wk' = [w \in Workers |->
               IF Live(w) THEN [wk[w] EXCEPT !.t = @ + 1] ELSE wk[w]]
  /\ UNCHANGED <<claim, permits, detached, sent, jobs, route>>

Next ==
  \/ \E w \in Workers, d \in Deliveries : Deliver(w, d)
  \/ \E d \in Deliveries : Duplicate(d) \/ Purge(d)
  \/ \E w \in Workers : WorkerStep(w)
  \/ DetachedStarts \/ DetachedEnds \/ Crash \/ Tick

\* The event loop runs every handler, timers fire and time passes.
Fairness == WF_vars(Tick) /\ \A w \in Workers : WF_vars(WorkerStep(w))

Spec == Init /\ [][Next]_vars

FairSpec == Spec /\ Fairness

-----------------------------------------------------------------------------
(* Properties. *)

\* claim_webhook: a delivery is never processed by two handlers at once, although
\* open claims can be taken over and a release deletes the row whoever holds it.
OneHandlerPerDelivery ==
  \A v, w \in Workers : v # w /\ Live(v) /\ Live(w) => wk[v].id # wk[w].id

\* "Completed claims never reclaim": until the row is purged, a completed delivery
\* stays completed and creates no further onboard job, whatever late handlers do.
CompletedIsFinal ==
  [][\A d \in Deliveries :
       claim[d] = "done" =>
         /\ claim'[d] = "done" \/ age[d] > PurgeAge
         /\ jobs'[d] = jobs[d]]_vars

\* helpers.assess_concurrency_slot: the clone+assess threads that run, including
\* those whose handler has timed out, never exceed the configured bound.
AssessThreadsBounded ==
  Cardinality({w \in Workers : wk[w].pc = "assess"}) + detached <= AssessMax

\* _process_github_push_delivery: a push handler that ends by itself, the store
\* permitting, leaves its claim completed or released, so GitHub's redelivery is
\* answered at once and never runs into a stale claim.
PushSettlesItsClaim ==
  [][\A w \in Workers :
       /\ Live(w) /\ wk'[w] = IdleWorker
       /\ route[wk[w].id] = "push"
       /\ ~StoreFails(w) /\ ~Crash
       => claim'[wk[w].id] # "open"]_vars

\* claim_webhook's TTL: no delivery is ever locked out; again and again it is either
\* completed or claimable, even if handlers crash or forget their claim.
NeverLockedOut ==
  \A d \in Deliveries : []<>(claim[d] = "done" \/ Claimable(d))
=============================================================================
