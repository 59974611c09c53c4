------------------------ MODULE WebhookClaimsProofs ------------------------
(***************************************************************************)
(* Proofs about WebhookClaims.  The argument is a real-time one: as long   *)
(* as a handler lives, its claim is open and no older than the phases the  *)
(* handler can have gone through, hence no older than ClaimTTL, hence      *)
(* neither taken over nor purged.                                          *)
(***************************************************************************)
EXTENDS WebhookClaims, FiniteSetTheorems, TLAPS

\* One busy attempt of a push.
Round == AcquireTimeout + BusySleep

\* The age of the claim when its handler entered the phase, at most.
Entry(pc, attempt) ==
  CASE pc \in {"acquire", "assess"} -> (attempt - 1) * Round
    [] pc = "sleep" -> (attempt - 1) * Round + AcquireTimeout
    [] pc \in {"post", "posted"} -> AssessBudget
    [] pc = "failing" -> ClaimTTL
    [] OTHER -> 0

\* A live handler holds the claim, within its time.
Holds(w) ==
  /\ wk[w].id \in Deliveries
  /\ claim[wk[w].id] = "open"
  /\ wk[w].t <= Limit(wk[w].pc)
  /\ age[wk[w].id] <= Entry(wk[w].pc, wk[w].attempt) + wk[w].t
  /\ wk[w].pc = "sleep" => wk[w].attempt < BusyRetries

Assessing == {w \in Workers : wk[w].pc = "assess"}

\* Every permit is free, awaited by a handler, or held by a detached thread.
PermitsConserved == permits + Cardinality(Assessing) + detached = AssessMax

ClaimsInv ==
  /\ \A w \in Workers : Live(w) => Holds(w)
  /\ OneHandlerPerDelivery

IInv == TypeOK /\ ClaimsInv /\ PermitsConserved

-----------------------------------------------------------------------------
(* Arithmetic of the time budget. *)

\* Another busy round costs one Round, and no attempt costs more than the last.
LEMMA RoundArithmetic ==
  ASSUME NEW a \in 1..BusyRetries
  PROVE  /\ Round \in Nat
         /\ (a - 1) * Round \in Nat
         /\ (BusyRetries - 1) * Round \in Nat
         /\ (a - 1) * Round <= (BusyRetries - 1) * Round
         /\ a < BusyRetries => ((a + 1) - 1) * Round = (a - 1) * Round + Round
         /\ a < BusyRetries => (a - 1) * Round + Round <= (BusyRetries - 1) * Round
<1> DEFINE b == a - 1
           r == BusyRetries - 1
<1>1. Round \in Nat /\ b \in Nat /\ r \in Nat /\ b <= r /\ a = b + 1 /\ BusyRetries = r + 1
  BY BoundsAssumption DEF Round
<1> HIDE DEF b, r
<1>2. b * Round \in Nat /\ r * Round \in Nat /\ b * Round <= r * Round
  BY <1>1
<1>3. (b + 1) * Round = b * Round + Round
  BY <1>1
<1>4. b < r => (b + 1) * Round <= r * Round
  BY <1>1
<1>5. (a + 1) - 1 = b + 1 /\ a - 1 = b /\ BusyRetries - 1 = r /\ (a < BusyRetries <=> b < r)
  BY <1>1
<1> QED
  BY <1>1, <1>2, <1>3, <1>4, <1>5

\* The time an assess handler may spend waiting for slots, then assessing.
LEMMA AssessBudgetNat == AssessBudget \in Nat /\ AssessBudget = (BusyRetries - 1) * Round + AssessTimeout
<1>1. 1 \in 1..BusyRetries
  BY BoundsAssumption
<1> QED
  BY <1>1, BoundsAssumption, RoundArithmetic DEF AssessBudget, Round

\* A handler in any phase has not used up the TTL of its claim.
LEMMA Budget ==
  ASSUME NEW pc \in Phases \ {"idle"}, NEW a \in 1..BusyRetries,
         pc = "sleep" => a < BusyRetries
  PROVE  /\ Entry(pc, a) \in Nat
         /\ Limit(pc) \in Nat
         /\ Entry(pc, a) + Limit(pc) <= ClaimTTL
<1>1. AssessBudget \in Nat /\ AssessBudget = (BusyRetries - 1) * Round + AssessTimeout
  BY AssessBudgetNat
<1>2. /\ (a - 1) * Round \in Nat /\ (a - 1) * Round <= (BusyRetries - 1) * Round
      /\ a < BusyRetries => (a - 1) * Round + Round <= (BusyRetries - 1) * Round
      /\ (BusyRetries - 1) * Round \in Nat
  BY RoundArithmetic
<1> DEFINE before == (a - 1) * Round
           all == (BusyRetries - 1) * Round
<1> HIDE DEF before, all
<1>3. before + AssessTimeout <= ClaimTTL
  BY <1>1, <1>2, BoundsAssumption, TimingAssumption DEF before, all
<1>4. a < BusyRetries => before + AcquireTimeout + BusySleep <= ClaimTTL
  BY <1>1, <1>2, BoundsAssumption, TimingAssumption DEF before, all, Round
<1>5. before \in Nat
  BY <1>2 DEF before
<1>6. CASE pc \in {"acquire", "assess"}
  <2>1. Entry(pc, a) = before /\ Limit(pc) \in Nat /\ Limit(pc) <= AssessTimeout
    BY <1>6, BoundsAssumption, TimingAssumption DEF Entry, Limit, before
  <2> QED
    BY <2>1, <1>3, <1>5, BoundsAssumption
<1>7. CASE pc = "sleep"
  <2>1. Entry(pc, a) = before + AcquireTimeout /\ Limit(pc) = BusySleep
    BY <1>7 DEF Entry, Limit, before
  <2> QED
    BY <2>1, <1>4, <1>5, <1>7, BoundsAssumption
<1>8. CASE pc \in {"post", "posted", "failing", "work", "accepted"}
  BY <1>1, <1>8, BoundsAssumption, TimingAssumption DEF Entry, Limit
<1> QED
  BY <1>6, <1>7, <1>8 DEF Phases

-----------------------------------------------------------------------------
(* Claims. *)

\* A live handler's claim is neither stale nor old enough to purge.
LEMMA NotStale ==
  ASSUME TypeOK, ClaimsInv, NEW w \in Workers, Live(w)
  PROVE  /\ wk[w].id \in Deliveries
         /\ claim[wk[w].id] = "open"
         /\ age[wk[w].id] <= ClaimTTL
         /\ age[wk[w].id] <= PurgeAge
         /\ ~Claimable(wk[w].id)
<1>1. Holds(w)
  BY DEF ClaimsInv
<1>2. /\ wk[w].pc \in Phases \ {"idle"} /\ wk[w].attempt \in 1..BusyRetries
      /\ wk[w].t \in Nat /\ wk[w].id \in Deliveries
      /\ age[wk[w].id] \in Nat
  BY <1>1 DEF TypeOK, Worker, Live, Holds
<1>3. /\ Entry(wk[w].pc, wk[w].attempt) \in Nat
      /\ Limit(wk[w].pc) \in Nat
      /\ Entry(wk[w].pc, wk[w].attempt) + Limit(wk[w].pc) <= ClaimTTL
  BY <1>1, <1>2, Budget DEF Holds
<1>4. age[wk[w].id] <= ClaimTTL
  BY <1>1, <1>2, <1>3, BoundsAssumption DEF Holds
<1> QED
  BY <1>1, <1>2, <1>4, BoundsAssumption, TimingAssumption DEF Holds, Claimable

\* A handler that goes on to another phase in time keeps its claim.
LEMMA EnterKeepsClaims ==
  ASSUME TypeOK, ClaimsInv, NEW w \in Workers, Live(w),
         NEW p \in Phases \ {"idle"}, NEW a \in 1..BusyRetries, NEW t \in Nat,
         wk' = [wk EXCEPT ![w] = [wk[w] EXCEPT !.pc = p, !.t = t, !.attempt = a]],
         UNCHANGED <<claim, age>>,
         t <= Limit(p),
         age[wk[w].id] <= Entry(p, a) + t,
         p = "sleep" => a < BusyRetries
  PROVE  wk' \in [Workers -> Worker] /\ ClaimsInv'
<1>1. wk \in [Workers -> Worker]
  BY DEF TypeOK
<1>2. wk'[w] = [wk[w] EXCEPT !.pc = p, !.t = t, !.attempt = a] /\ wk'[w] \in Worker
  BY <1>1 DEF Worker
<1>3. \A v \in Workers \ {w} : wk'[v] = wk[v]
  BY <1>1
<1>4. \A v \in Workers : wk'[v].id = wk[v].id /\ (Live(v)' <=> Live(v))
  BY <1>1, <1>2, <1>3 DEF Live, Worker
<1>5. OneHandlerPerDelivery'
  BY <1>4 DEF ClaimsInv, OneHandlerPerDelivery
<1>6. ASSUME NEW v \in Workers, Live(v)'
      PROVE  Holds(v)'
  <2>1. Holds(v)
    BY <1>4, <1>6 DEF ClaimsInv
  <2>2. CASE v = w
    BY <1>1, <1>2, <2>1, <2>2 DEF Holds, Worker
  <2>3. CASE v # w
    BY <1>3, <2>1, <2>3 DEF Holds
  <2> QED
    BY <2>2, <2>3
<1> QED
  BY <1>1, <1>2, <1>5, <1>6 DEF ClaimsInv

\* A handler that returns concerns no other, provided it touches only its own claim.
LEMMA ReturnKeepsClaims ==
  ASSUME TypeOK, ClaimsInv, NEW w \in Workers, Live(w), Return(w),
         \A d \in Deliveries : d # wk[w].id => claim'[d] = claim[d] /\ age'[d] = age[d]
  PROVE  wk' \in [Workers -> Worker] /\ ClaimsInv'
<1>1. wk \in [Workers -> Worker]
  BY DEF TypeOK
<1>2. IdleWorker \in Worker
  BY BoundsAssumption DEF IdleWorker, Worker, Phases
<1>3. wk'[w] = IdleWorker /\ wk'[w].pc = "idle" /\ wk'[w].id = NoDelivery
  BY <1>1 DEF Return, IdleWorker
<1>4. \A v \in Workers \ {w} : wk'[v] = wk[v]
  BY <1>1 DEF Return
<1>5. \A v \in Workers : Live(v)' => v # w /\ Live(v) /\ wk[v].id \in Deliveries
  BY <1>3, <1>4 DEF Live, ClaimsInv, Holds
<1>6. ASSUME NEW v \in Workers, Live(v)'
      PROVE  Holds(v)'
  <2>1. v # w /\ Holds(v) /\ wk'[v] = wk[v] /\ wk[v].id # wk[w].id
    BY <1>4, <1>5, <1>6 DEF ClaimsInv, OneHandlerPerDelivery
  <2> QED
    BY <2>1 DEF Holds
<1>7. OneHandlerPerDelivery'
  BY <1>3, <1>4, <1>5, DeliveriesAssumption DEF ClaimsInv, OneHandlerPerDelivery
<1> QED
  BY <1>1, <1>2, <1>6, <1>7 DEF ClaimsInv, Return

-----------------------------------------------------------------------------
(* Permits. *)

\* The handlers that await an assess thread are finitely many.
LEMMA AssessingFinite ==
  IsFiniteSet(Assessing) /\ Cardinality(Assessing) \in Nat
<1>1. IsFiniteSet(Assessing)
  BY WorkersAssumption, FS_Subset DEF Assessing
<1> QED
  BY <1>1, FS_CardinalityType

\* How one handler's move changes the number of awaited assess threads.
LEMMA AssessingMoves ==
  ASSUME NEW w \in Workers,
         \A v \in Workers \ {w} : wk'[v].pc = wk[v].pc
  PROVE  /\ (wk[w].pc = "assess" <=> wk'[w].pc = "assess")
               => Cardinality(Assessing') = Cardinality(Assessing)
         /\ wk[w].pc # "assess" /\ wk'[w].pc = "assess"
               => Cardinality(Assessing') = Cardinality(Assessing) + 1
         /\ wk[w].pc = "assess" /\ wk'[w].pc # "assess"
               => Cardinality(Assessing') = Cardinality(Assessing) - 1
<1>1. ASSUME wk[w].pc = "assess" <=> wk'[w].pc = "assess"
      PROVE  Cardinality(Assessing') = Cardinality(Assessing)
  <2>1. Assessing' = Assessing
    BY <1>1 DEF Assessing
  <2> QED
    BY <2>1
<1>2. ASSUME wk[w].pc # "assess", wk'[w].pc = "assess"
      PROVE  Cardinality(Assessing') = Cardinality(Assessing) + 1
  <2>1. Assessing' = Assessing \cup {w} /\ w \notin Assessing
    BY <1>2 DEF Assessing
  <2> QED
    BY <2>1, AssessingFinite, FS_AddElement
<1>3. ASSUME wk[w].pc = "assess", wk'[w].pc # "assess"
      PROVE  Cardinality(Assessing') = Cardinality(Assessing) - 1
  <2>1. Assessing' = Assessing \ {w} /\ w \in Assessing
    BY <1>3 DEF Assessing
  <2> QED
    BY <2>1, AssessingFinite, FS_RemoveElement
<1> QED
  BY <1>1, <1>2, <1>3

-----------------------------------------------------------------------------
(* The invariant is inductive. *)

\* Before the first delivery nothing is claimed and every permit is free.
LEMMA InitIInv == Init => IInv
<1> SUFFICES ASSUME Init PROVE IInv
  OBVIOUS
<1>1. IdleWorker \in Worker
  BY BoundsAssumption DEF IdleWorker, Worker, Phases
<1>2. TypeOK
  BY <1>1, BoundsAssumption DEF Init, TypeOK
<1>3. \A w \in Workers : ~Live(w)
  BY DEF Init, Live, IdleWorker
<1>4. Assessing = {}
  BY DEF Init, Assessing, IdleWorker
<1>5. PermitsConserved
  BY <1>4, FS_EmptySet, BoundsAssumption DEF Init, PermitsConserved
<1> QED
  BY <1>2, <1>3, <1>5 DEF IInv, ClaimsInv, OneHandlerPerDelivery

\* A granted claim starts a handler on a delivery no live handler works on.
LEMMA DeliverStep ==
  ASSUME IInv, NEW w \in Workers, NEW d \in Deliveries, Deliver(w, d)
  PROVE  IInv'
<1>1. TypeOK /\ ClaimsInv /\ PermitsConserved
  BY DEF IInv
<1> DEFINE new == AcceptedWorker(d)
<1>2. /\ new \in Worker /\ new.pc = "accepted" /\ new.id = d /\ new.t = 0
      /\ new.attempt = 1
  BY BoundsAssumption DEF AcceptedWorker, Worker, Phases
<1>3. wk \in [Workers -> Worker] /\ wk' = [wk EXCEPT ![w] = new] /\ wk[w].pc = "idle"
  BY <1>1 DEF TypeOK, Deliver, Live
<1> HIDE DEF new
<1>4. wk' \in [Workers -> Worker] /\ wk'[w] = new /\ \A v \in Workers \ {w} : wk'[v] = wk[v]
  BY <1>2, <1>3
<1>5. TypeOK'
  BY <1>1, <1>4, BoundsAssumption DEF TypeOK, Deliver, claim_webhook
<1>6. \A v \in Workers : Live(v) => wk[v].id # d /\ wk[v].id \in Deliveries
  BY <1>1, NotStale DEF Deliver, claim_webhook
<1>7. \A v \in Workers \ {w} : (Live(v)' <=> Live(v)) /\ wk'[v] = wk[v]
  BY <1>4 DEF Live
<1>8. ASSUME NEW v \in Workers, Live(v)' PROVE Holds(v)'
  <2>1. CASE v = w
    <3>1. claim'[d] = "open" /\ age'[d] = 0
      BY <1>1 DEF Deliver, claim_webhook, TypeOK
    <3>2. wk'[v].id = d /\ wk'[v].t = 0 /\ wk'[v].pc = "accepted" /\ wk'[v].attempt = 1
      BY <1>2, <1>4, <2>1
    <3>3. Entry("accepted", 1) = 0 /\ Limit("accepted") = 0
      BY DEF Entry, Limit
    <3> QED
      BY <3>1, <3>2, <3>3 DEF Holds
  <2>2. CASE v # w
    <3>1. Holds(v) /\ wk'[v] = wk[v] /\ wk[v].id # d
      BY <1>1, <1>6, <1>7, <1>8, <2>2 DEF ClaimsInv
    <3> QED
      BY <3>1, <1>1 DEF Holds, Deliver, claim_webhook, TypeOK
  <2> QED
    BY <2>1, <2>2
<1>9. OneHandlerPerDelivery'
  <2> SUFFICES ASSUME NEW u \in Workers, NEW v \in Workers, u # v, Live(u)', Live(v)'
               PROVE  wk'[u].id # wk'[v].id
    BY DEF OneHandlerPerDelivery
  <2>1. \A x \in Workers \ {w} : Live(x)' => wk'[x].id # d
    BY <1>6, <1>7
  <2> QED
    BY <1>1, <1>2, <1>4, <1>7, <2>1 DEF ClaimsInv, OneHandlerPerDelivery
<1>10. Cardinality(Assessing') = Cardinality(Assessing)
  BY <1>2, <1>3, <1>4, AssessingMoves
<1>11. PermitsConserved'
  BY <1>1, <1>10 DEF PermitsConserved, Deliver
<1> QED
  BY <1>5, <1>8, <1>9, <1>11 DEF IInv, ClaimsInv

\* Handlers that end: they touch their own claim only, and hold no permit.
LEMMA ReturnStep ==
  ASSUME IInv, NEW w \in Workers,
         \/ BadBody(w) \/ StoreFails(w) \/ Complete(w) \/ Release(w)
         \/ OnboardReturns(w) \/ FindingAlertOnly(w)
  PROVE  IInv'
<1>1. TypeOK /\ ClaimsInv /\ PermitsConserved
  BY DEF IInv
<1>2. Live(w) /\ Return(w) /\ wk[w].pc # "assess"
  BY DEF BadBody, StoreFails, Complete, Release, OnboardReturns, FindingAlertOnly, Live
<1>3. wk[w].id \in Deliveries /\ claim[wk[w].id] = "open"
  BY <1>1, <1>2, NotStale
<1>4. /\ UNCHANGED <<permits, detached, sent, jobs, route>>
      /\ claim' \in [Deliveries -> {"none", "open", "done"}]
      /\ age' \in [Deliveries -> 0..(PurgeAge + 1)]
      /\ \A d \in Deliveries : d # wk[w].id => claim'[d] = claim[d] /\ age'[d] = age[d]
  BY <1>1, <1>3, BoundsAssumption
  DEF TypeOK, BadBody, StoreFails, Complete, Release, OnboardReturns, FindingAlertOnly,
      complete_webhook_claim, release_webhook_claim
<1>5. wk' \in [Workers -> Worker] /\ ClaimsInv'
  BY <1>1, <1>2, <1>4, ReturnKeepsClaims
<1>6. \A v \in Workers \ {w} : wk'[v] = wk[v]
  BY <1>1, <1>2 DEF Return, TypeOK
<1>7. wk'[w].pc # "assess"
  BY <1>1, <1>2 DEF Return, TypeOK, IdleWorker
<1>8. Cardinality(Assessing') = Cardinality(Assessing)
  BY <1>2, <1>6, <1>7, AssessingMoves
<1> QED
  BY <1>1, <1>4, <1>5, <1>8 DEF IInv, TypeOK, PermitsConserved

\* A handler's move that keeps the claim table: what is left to show is the time
\* budget of the new phase and the permits.
LEMMA MoveStep ==
  ASSUME IInv, NEW w \in Workers, Live(w),
         NEW p \in Phases \ {"idle"}, NEW a \in 1..BusyRetries, NEW t \in Nat,
         wk' = [wk EXCEPT ![w] = [wk[w] EXCEPT !.pc = p, !.t = t, !.attempt = a]],
         UNCHANGED <<claim, age, sent, route>>,
         jobs' \in [Deliveries -> Nat],
         t <= Limit(p),
         age[wk[w].id] <= Entry(p, a) + t,
         p = "sleep" => a < BusyRetries,
         permits' \in Nat, detached' \in Nat,
         permits' + detached' + (IF p = "assess" THEN 1 ELSE 0)
           = permits + detached + (IF wk[w].pc = "assess" THEN 1 ELSE 0)
  PROVE  IInv'
<1>1. TypeOK /\ ClaimsInv /\ PermitsConserved
  BY DEF IInv
<1>2. wk' \in [Workers -> Worker] /\ ClaimsInv'
  BY <1>1, EnterKeepsClaims
<1>3. wk'[w].pc = p /\ \A v \in Workers \ {w} : wk'[v] = wk[v]
  BY <1>1 DEF TypeOK, Worker
<1>4. Cardinality(Assessing) \in Nat /\ Cardinality(Assessing') \in Nat
  <2>1. Assessing' \subseteq Workers
    BY DEF Assessing
  <2> QED
    BY <2>1, AssessingFinite, WorkersAssumption, FS_Subset, FS_CardinalityType
<1>5. PermitsConserved'
  <2>1. permits \in Nat /\ detached \in Nat /\ AssessMax \in Nat
    BY <1>1, BoundsAssumption DEF TypeOK
  <2>2. CASE p = "assess" <=> wk[w].pc = "assess"
    <3>1. Cardinality(Assessing') = Cardinality(Assessing)
      BY <1>3, <2>2, AssessingMoves
    <3>2. permits' + detached' = permits + detached
      BY <2>1, <2>2
    <3> QED
      BY <1>1, <1>4, <2>1, <3>1, <3>2 DEF PermitsConserved
  <2>3. CASE p = "assess" /\ wk[w].pc # "assess"
    <3>1. Cardinality(Assessing') = Cardinality(Assessing) + 1
      BY <1>3, <2>3, AssessingMoves
    <3>2. permits' + detached' + 1 = permits + detached
      BY <2>1, <2>3
    <3> QED
      BY <1>1, <1>4, <2>1, <3>1, <3>2 DEF PermitsConserved
  <2>4. CASE p # "assess" /\ wk[w].pc = "assess"
    <3>1. Cardinality(Assessing') = Cardinality(Assessing) - 1
      BY <1>3, <2>4, AssessingMoves
    <3>2. permits' + detached' = permits + detached + 1
      BY <2>1, <2>4
    <3> QED
      BY <1>1, <1>4, <2>1, <3>1, <3>2 DEF PermitsConserved
  <2> QED
    BY <2>2, <2>3, <2>4
<1>6. permits' \in 0..AssessMax /\ detached' \in 0..AssessMax
  BY <1>4, <1>5, BoundsAssumption DEF PermitsConserved
<1> QED
  BY <1>1, <1>2, <1>5, <1>6 DEF IInv, TypeOK

\* What the invariant says of a live handler, for the moves below.
LEMMA LiveFacts ==
  ASSUME IInv, NEW w \in Workers, Live(w)
  PROVE  /\ wk[w].pc \in Phases \ {"idle"}
         /\ wk[w].attempt \in 1..BusyRetries
         /\ wk[w].t \in Nat
         /\ wk[w].t <= Limit(wk[w].pc)
         /\ wk[w].id \in Deliveries
         /\ age[wk[w].id] \in Nat
         /\ age[wk[w].id] <= Entry(wk[w].pc, wk[w].attempt) + wk[w].t
         /\ age[wk[w].id] <= ClaimTTL
         /\ wk[w].pc = "sleep" => wk[w].attempt < BusyRetries
         /\ wk[w] \in Worker
         /\ wk \in [Workers -> Worker]
         /\ permits \in Nat /\ detached \in Nat
         /\ jobs \in [Deliveries -> Nat]
<1>1. TypeOK /\ ClaimsInv
  BY DEF IInv
<1>2. Holds(w)
  BY <1>1 DEF ClaimsInv
<1>3. age[wk[w].id] <= ClaimTTL
  BY <1>1, NotStale
<1> QED
  BY <1>1, <1>2, <1>3, BoundsAssumption DEF TypeOK, Worker, Holds, Live

\* Enter(w, p) in the form MoveStep takes.
LEMMA EnterForm ==
  ASSUME NEW w \in Workers, wk \in [Workers -> Worker], NEW p, NEW t
  PROVE  [wk EXCEPT ![w].pc = p, ![w].t = t]
           = [wk EXCEPT ![w] = [wk[w] EXCEPT !.pc = p, !.t = t, !.attempt = wk[w].attempt]]
  BY DEF Worker

\* Steps of a handler that go on to another phase.
LEMMA HandlerStep ==
  ASSUME IInv, NEW w \in Workers, WorkerStep(w)
  PROVE  IInv'
<1>1. CASE \/ BadBody(w) \/ StoreFails(w) \/ Complete(w) \/ Release(w)
           \/ OnboardReturns(w) \/ FindingAlertOnly(w)
  BY <1>1, ReturnStep
<1>2. CASE StartAssess(w)
  <2>1. Live(w) /\ wk[w].pc = "accepted"
    BY <1>2 DEF StartAssess, Live
  <2>2. age[wk[w].id] <= 0
    BY <2>1, LiveFacts, BoundsAssumption DEF Entry, Limit
  <2>3. Entry("acquire", wk[w].attempt) \in Nat /\ Limit("acquire") \in Nat
    BY <2>1, LiveFacts, Budget DEF Phases
  <2>4. age[wk[w].id] <= Entry("acquire", wk[w].attempt) + 0 /\ 0 <= Limit("acquire")
    BY <2>1, <2>2, <2>3, LiveFacts
  <2>5. wk' = [wk EXCEPT ![w] = [wk[w] EXCEPT !.pc = "acquire", !.t = 0, !.attempt = wk[w].attempt]]
    BY <1>2, <2>1, LiveFacts, EnterForm DEF StartAssess, Enter
  <2> QED
    BY <1>2, <2>1, <2>4, <2>5, LiveFacts, MoveStep DEF StartAssess, Phases
<1>3. CASE StartWork(w)
  <2>1. Live(w) /\ wk[w].pc = "accepted"
    BY <1>3 DEF StartWork, Live
  <2>2. age[wk[w].id] <= Entry("work", wk[w].attempt) + 0 /\ 0 <= Limit("work")
    BY <2>1, LiveFacts, BoundsAssumption DEF Entry, Limit
  <2>3. wk' = [wk EXCEPT ![w] = [wk[w] EXCEPT !.pc = "work", !.t = 0, !.attempt = wk[w].attempt]]
    BY <1>3, <2>1, LiveFacts, EnterForm DEF StartWork, Enter
  <2> QED
    BY <1>3, <2>1, <2>2, <2>3, LiveFacts, MoveStep DEF StartWork, Phases
<1>4. CASE AcquireSlot(w)
  <2>1. Live(w) /\ wk[w].pc = "acquire"
    BY <1>4 DEF AcquireSlot, Live
  <2>2. wk[w].t <= Limit("assess")
    BY <2>1, LiveFacts, BoundsAssumption, TimingAssumption DEF Limit
  <2>3. age[wk[w].id] <= Entry("assess", wk[w].attempt) + wk[w].t
    BY <2>1, LiveFacts DEF Entry
  <2>4. wk' = [wk EXCEPT ![w] = [wk[w] EXCEPT !.pc = "assess", !.t = wk[w].t, !.attempt = wk[w].attempt]]
    BY <1>4, <2>1, LiveFacts DEF AcquireSlot, Worker
  <2>5. permits' \in Nat /\ permits' + detached' + 1 = permits + detached + 0
    BY <1>4, <2>1, LiveFacts DEF AcquireSlot
  <2> QED
    BY <1>4, <2>1, <2>2, <2>3, <2>4, <2>5, LiveFacts, MoveStep DEF AcquireSlot, Phases
<1>5. CASE AcquireTimesOut(w)
  <2>1. Live(w) /\ wk[w].pc = "acquire" /\ wk[w].t = AcquireTimeout
    BY <1>5 DEF AcquireTimesOut, Live
  <2>2. CASE route[wk[w].id] = "push" /\ wk[w].attempt < BusyRetries
    <3>1. wk' = [wk EXCEPT ![w] = [wk[w] EXCEPT !.pc = "sleep", !.t = 0, !.attempt = wk[w].attempt]]
      <4>1. wk' = [wk EXCEPT ![w].pc = "sleep", ![w].t = 0]
        BY <1>5, <2>2 DEF AcquireTimesOut, Enter
      <4>2. wk \in [Workers -> Worker]
        BY <2>1, LiveFacts
      <4> QED
        BY <4>1, <4>2, EnterForm
    <3>2. age[wk[w].id] <= Entry("sleep", wk[w].attempt) + 0 /\ 0 <= Limit("sleep")
      <4>1. (wk[w].attempt - 1) * Round \in Nat
        BY <2>1, LiveFacts, RoundArithmetic
      <4> QED
        BY <2>1, <4>1, LiveFacts, BoundsAssumption DEF Entry, Limit
    <3> QED
      BY <1>5, <2>1, <2>2, <3>1, <3>2, LiveFacts, MoveStep DEF AcquireTimesOut, Phases
  <2>3. CASE ~(route[wk[w].id] = "push" /\ wk[w].attempt < BusyRetries)
    <3>1. wk' = [wk EXCEPT ![w] = [wk[w] EXCEPT !.pc = "failing", !.t = 0, !.attempt = wk[w].attempt]]
      <4>1. wk' = [wk EXCEPT ![w].pc = "failing", ![w].t = 0]
        BY <1>5, <2>3 DEF AcquireTimesOut, Enter
      <4>2. wk \in [Workers -> Worker]
        BY <2>1, LiveFacts
      <4> QED
        BY <4>1, <4>2, EnterForm
    <3>2. age[wk[w].id] <= Entry("failing", wk[w].attempt) + 0 /\ 0 <= Limit("failing")
      BY <2>1, LiveFacts, BoundsAssumption DEF Entry, Limit
    <3> QED
      BY <1>5, <2>1, <3>1, <3>2, LiveFacts, MoveStep DEF AcquireTimesOut, Phases
  <2> QED
    BY <2>2, <2>3
<1>6. CASE SleepEnds(w)
  <2>1. Live(w) /\ wk[w].pc = "sleep" /\ wk[w].t = BusySleep
    BY <1>6 DEF SleepEnds, Live
  <2> DEFINE a == wk[w].attempt + 1
  <2>2. a \in 1..BusyRetries
    BY <2>1, LiveFacts, BoundsAssumption
  <2>3. wk' = [wk EXCEPT ![w] = [wk[w] EXCEPT !.pc = "acquire", !.t = 0, !.attempt = a]]
    BY <1>6, <2>1, LiveFacts DEF SleepEnds, Worker
  <2>4. Entry("acquire", a) = (wk[w].attempt - 1) * Round + Round
        /\ (wk[w].attempt - 1) * Round \in Nat
    BY <2>1, LiveFacts, RoundArithmetic DEF Entry
  <2>5. age[wk[w].id] <= (wk[w].attempt - 1) * Round + AcquireTimeout + BusySleep
    BY <2>1, LiveFacts DEF Entry
  <2>6. age[wk[w].id] <= Entry("acquire", a) + 0 /\ 0 <= Limit("acquire")
    BY <2>1, <2>4, <2>5, LiveFacts, BoundsAssumption DEF Limit, Round
  <2> HIDE DEF a
  <2> QED
    BY <1>6, <2>1, <2>2, <2>3, <2>6, LiveFacts, MoveStep DEF SleepEnds, Phases
<1>7. CASE AssessReturns(w)
  <2>1. Live(w) /\ wk[w].pc = "assess"
    BY <1>7 DEF AssessReturns, Live
  <2>2. wk' = [wk EXCEPT ![w] = [wk[w] EXCEPT !.pc = "post", !.t = 0, !.attempt = wk[w].attempt]]
    BY <1>7, <2>1, LiveFacts, EnterForm DEF AssessReturns, Enter
  <2>3. age[wk[w].id] <= Entry("post", wk[w].attempt) + 0 /\ 0 <= Limit("post")
    <3>1. /\ (wk[w].attempt - 1) * Round \in Nat
          /\ (BusyRetries - 1) * Round \in Nat
          /\ (wk[w].attempt - 1) * Round <= (BusyRetries - 1) * Round
      BY <2>1, LiveFacts, RoundArithmetic
    <3>2. age[wk[w].id] <= (wk[w].attempt - 1) * Round + AssessTimeout
      BY <2>1, <3>1, LiveFacts, BoundsAssumption DEF Entry, Limit
    <3>3. Entry("post", wk[w].attempt) = (BusyRetries - 1) * Round + AssessTimeout
      BY AssessBudgetNat DEF Entry
    <3> QED
      BY <2>1, <3>1, <3>2, <3>3, LiveFacts, BoundsAssumption DEF Limit
  <2>4. permits' \in Nat /\ permits' + detached' + 0 = permits + detached + 1
    BY <1>7, <2>1, LiveFacts DEF AssessReturns
  <2> QED
    BY <1>7, <2>1, <2>2, <2>3, <2>4, LiveFacts, MoveStep DEF AssessReturns, Phases
<1>8. CASE AssessRaises(w)
  <2>1. Live(w) /\ wk[w].pc = "assess"
    BY <1>8 DEF AssessRaises, Live
  <2>2. wk' = [wk EXCEPT ![w] = [wk[w] EXCEPT !.pc = "failing", !.t = 0, !.attempt = wk[w].attempt]]
    BY <1>8, <2>1, LiveFacts, EnterForm DEF AssessRaises, Enter
  <2>3. age[wk[w].id] <= Entry("failing", wk[w].attempt) + 0 /\ 0 <= Limit("failing")
    BY <2>1, LiveFacts, BoundsAssumption DEF Entry, Limit
  <2>4. permits' \in Nat /\ permits' + detached' + 0 = permits + detached + 1
    BY <1>8, <2>1, LiveFacts DEF AssessRaises
  <2> QED
    BY <1>8, <2>1, <2>2, <2>3, <2>4, LiveFacts, MoveStep DEF AssessRaises, Phases
<1>9. CASE AssessTimesOut(w)
  <2>1. Live(w) /\ wk[w].pc = "assess"
    BY <1>9 DEF AssessTimesOut, Live
  <2>2. wk' = [wk EXCEPT ![w] = [wk[w] EXCEPT !.pc = "failing", !.t = 0, !.attempt = wk[w].attempt]]
    BY <1>9, <2>1, LiveFacts, EnterForm DEF AssessTimesOut, Enter
  <2>3. age[wk[w].id] <= Entry("failing", wk[w].attempt) + 0 /\ 0 <= Limit("failing")
    BY <2>1, LiveFacts, BoundsAssumption DEF Entry, Limit
  <2>4. detached' \in Nat /\ permits' + detached' + 0 = permits + detached + 1
    BY <1>9, <2>1, LiveFacts DEF AssessTimesOut
  <2> QED
    BY <1>9, <2>1, <2>2, <2>3, <2>4, LiveFacts, MoveStep DEF AssessTimesOut, Phases
<1>10. CASE CreateJob(w)
  <2>1. Live(w) /\ wk[w].pc = "post"
    BY <1>10 DEF CreateJob, Live
  <2>2. wk' = [wk EXCEPT ![w] = [wk[w] EXCEPT !.pc = "posted", !.t = wk[w].t, !.attempt = wk[w].attempt]]
    BY <1>10, <2>1, LiveFacts DEF CreateJob, Worker
  <2>3. age[wk[w].id] <= Entry("posted", wk[w].attempt) + wk[w].t /\ wk[w].t <= Limit("posted")
    BY <2>1, LiveFacts DEF Entry, Limit
  <2>4. jobs' \in [Deliveries -> Nat]
    BY <1>10, <2>1, LiveFacts DEF CreateJob
  <2> QED
    BY <1>10, <2>1, <2>2, <2>3, <2>4, LiveFacts, MoveStep DEF CreateJob, Phases
<1>11. CASE PushPostRaises(w)
  <2>1. Live(w) /\ wk[w].pc # "assess"
    BY <1>11 DEF PushPostRaises, Live
  <2>2. wk' = [wk EXCEPT ![w] = [wk[w] EXCEPT !.pc = "failing", !.t = 0, !.attempt = wk[w].attempt]]
    BY <1>11, <2>1, LiveFacts, EnterForm DEF PushPostRaises, Enter
  <2>3. age[wk[w].id] <= Entry("failing", wk[w].attempt) + 0 /\ 0 <= Limit("failing")
    BY <2>1, LiveFacts, BoundsAssumption DEF Entry, Limit
  <2> QED
    BY <1>11, <2>1, <2>2, <2>3, LiveFacts, MoveStep DEF PushPostRaises, Phases
<1>12. CASE FindingDeliver(w)
  <2>1. Live(w) /\ wk[w].pc # "assess"
    BY <1>12 DEF FindingDeliver, Live
  <2>2. wk' = [wk EXCEPT ![w] = [wk[w] EXCEPT !.pc = "failing", !.t = 0, !.attempt = wk[w].attempt]]
    BY <1>12, <2>1, LiveFacts, EnterForm DEF FindingDeliver, Enter
  <2>3. age[wk[w].id] <= Entry("failing", wk[w].attempt) + 0 /\ 0 <= Limit("failing")
    BY <2>1, LiveFacts, BoundsAssumption DEF Entry, Limit
  <2> QED
    BY <1>12, <2>1, <2>2, <2>3, LiveFacts, MoveStep DEF FindingDeliver, Phases
<1> QED
  BY <1>1, <1>2, <1>3, <1>4, <1>5, <1>6, <1>7, <1>8, <1>9, <1>10, <1>11, <1>12 DEF WorkerStep

\* Time passes only while every live handler is below the limit of its phase.
LEMMA TickStep ==
  ASSUME IInv, Tick
  PROVE  IInv'
<1>1. TypeOK /\ ClaimsInv /\ PermitsConserved
  BY DEF IInv
<1>2. \A w \in Workers :
        /\ ~Live(w) => wk'[w] = wk[w]
        /\ Live(w) => wk'[w] = [wk[w] EXCEPT !.t = wk[w].t + 1]
  BY DEF Tick
<1>3. \A w \in Workers :
        /\ wk'[w] \in Worker /\ wk'[w].pc = wk[w].pc /\ wk'[w].id = wk[w].id
        /\ wk'[w].attempt = wk[w].attempt
        /\ Live(w) => wk'[w].t = wk[w].t + 1
  <2> TAKE w \in Workers
  <2>1. wk[w] \in Worker
    BY <1>1 DEF TypeOK
  <2>2. CASE Live(w)
    <3>1. wk'[w] = [wk[w] EXCEPT !.t = wk[w].t + 1]
      BY <1>2, <2>2
    <3>2. wk[w].t + 1 \in Nat
      BY <2>1 DEF Worker
    <3> QED
      BY <2>1, <3>1, <3>2 DEF Worker
  <2>3. CASE ~Live(w)
    BY <1>2, <2>1, <2>3
  <2> QED
    BY <2>2, <2>3
<1>4. wk' \in [Workers -> Worker]
  <2>1. wk' = [w \in Workers |-> wk'[w]]
    BY DEF Tick
  <2> QED
    BY <1>3, <2>1
<1>5. \A d \in Deliveries : age'[d] = Older(d) /\ age'[d] \in 0..(PurgeAge + 1) /\ age'[d] <= age[d] + 1
  BY <1>1, BoundsAssumption DEF Tick, Older, TypeOK
<1>6. TypeOK'
  <2>1. age' \in [Deliveries -> 0..(PurgeAge + 1)]
    BY <1>5 DEF Tick
  <2> QED
    BY <1>1, <1>4, <2>1 DEF TypeOK, Tick
<1>7. ASSUME NEW w \in Workers, Live(w)' PROVE Holds(w)'
  <2>1. Live(w)
    BY <1>3, <1>7 DEF Live
  <2>2. wk[w].t < Limit(wk[w].pc)
    BY <2>1 DEF Tick
  <2>3. Entry(wk[w].pc, wk[w].attempt) \in Nat /\ Limit(wk[w].pc) \in Nat
    BY <2>1, LiveFacts, Budget
  <2>4. Holds(w)
    BY <1>1, <2>1 DEF ClaimsInv
  <2>5. age'[wk[w].id] <= age[wk[w].id] + 1 /\ age'[wk[w].id] \in Nat
    BY <1>5, <2>4, BoundsAssumption DEF Holds
  <2>6. age'[wk[w].id] <= Entry(wk[w].pc, wk[w].attempt) + (wk[w].t + 1)
    BY <2>1, <2>3, <2>5, LiveFacts
  <2>7. wk[w].t + 1 <= Limit(wk[w].pc)
    BY <2>1, <2>2, <2>3, LiveFacts
  <2>8. claim' = claim
    BY DEF Tick
  <2> QED
    BY <1>3, <2>1, <2>4, <2>6, <2>7, <2>8 DEF Holds
<1>8. OneHandlerPerDelivery'
  BY <1>1, <1>3 DEF ClaimsInv, OneHandlerPerDelivery, Live
<1>9. Assessing' = Assessing
  BY <1>3 DEF Assessing
<1> QED
  BY <1>1, <1>6, <1>7, <1>8, <1>9 DEF IInv, ClaimsInv, PermitsConserved, Tick

\* Steps outside the handlers.
LEMMA OtherStep ==
  ASSUME IInv,
         \/ DetachedStarts \/ DetachedEnds \/ Crash
         \/ \E d \in Deliveries : Duplicate(d) \/ Purge(d)
  PROVE  IInv'
<1>1. TypeOK /\ ClaimsInv /\ PermitsConserved
  BY DEF IInv
<1>2. Cardinality(Assessing) \in Nat /\ AssessMax \in Nat
      /\ permits \in Nat /\ detached \in Nat
  BY <1>1, AssessingFinite, BoundsAssumption DEF TypeOK
<1>3. CASE DetachedStarts \/ DetachedEnds
  <2>1. wk' = wk /\ claim' = claim /\ age' = age /\ sent' = sent /\ jobs' = jobs /\ route' = route
    BY <1>3 DEF DetachedStarts, DetachedEnds
  <2>2. Assessing' = Assessing /\ ClaimsInv'
    BY <1>1, <2>1 DEF Assessing, ClaimsInv, Holds, Live, OneHandlerPerDelivery
  <2>3. /\ permits' \in Nat /\ detached' \in Nat
        /\ permits' + Cardinality(Assessing) + detached' = AssessMax
    <3>1. CASE DetachedStarts
      BY <1>1, <1>2, <3>1 DEF DetachedStarts, PermitsConserved
    <3>2. CASE DetachedEnds
      BY <1>1, <1>2, <3>2 DEF DetachedEnds, PermitsConserved
    <3> QED
      BY <1>3, <3>1, <3>2
  <2>5. permits' \in 0..AssessMax /\ detached' \in 0..AssessMax
    BY <1>2, <2>3
  <2> QED
    BY <1>1, <2>1, <2>2, <2>3, <2>5 DEF IInv, TypeOK, PermitsConserved
<1>4. CASE Crash
  <2>1. IdleWorker \in Worker
    BY BoundsAssumption DEF IdleWorker, Worker, Phases
  <2>2. TypeOK'
    BY <1>1, <1>2, <1>4, <2>1 DEF Crash, TypeOK
  <2>3. \A w \in Workers : wk'[w].pc = "idle"
    BY <1>4 DEF Crash, IdleWorker
  <2>4. Assessing' = {} /\ \A w \in Workers : ~Live(w)'
    BY <2>3 DEF Assessing, Live
  <2>5. PermitsConserved'
    BY <1>2, <1>4, <2>4, FS_EmptySet DEF PermitsConserved, Crash
  <2> QED
    BY <2>2, <2>4, <2>5 DEF IInv, ClaimsInv, OneHandlerPerDelivery
<1>5. ASSUME NEW d \in Deliveries, Duplicate(d) PROVE IInv'
  <2>1. TypeOK'
    BY <1>1, <1>5, BoundsAssumption DEF Duplicate, TypeOK
  <2> QED
    BY <1>1, <1>5, <2>1
    DEF Duplicate, IInv, ClaimsInv, Holds, Live, OneHandlerPerDelivery, PermitsConserved, Assessing
<1>6. ASSUME NEW d \in Deliveries, Purge(d) PROVE IInv'
  <2>1. TypeOK'
    BY <1>1, <1>6, BoundsAssumption DEF Purge, release_webhook_claim, TypeOK
  <2>2. age[d] > PurgeAge /\ age[d] \in Nat
    BY <1>1, <1>6 DEF Purge, TypeOK
  <2>3. \A w \in Workers : Live(w) => wk[w].id # d /\ wk[w].id \in Deliveries
    BY <1>1, <2>2, NotStale, BoundsAssumption
  <2>4. /\ wk' = wk /\ permits' = permits /\ detached' = detached
        /\ \A e \in Deliveries \ {d} : claim'[e] = claim[e] /\ age'[e] = age[e]
    BY <1>1, <1>6 DEF Purge, release_webhook_claim, TypeOK
  <2>5. ClaimsInv'
    BY <1>1, <2>3, <2>4 DEF ClaimsInv, Holds, Live, OneHandlerPerDelivery
  <2> QED
    BY <1>1, <2>1, <2>4, <2>5 DEF IInv, PermitsConserved, Assessing
<1> QED
  BY <1>3, <1>4, <1>5, <1>6

\* Every step keeps the invariant.
LEMMA NextIInv == IInv /\ [Next]_vars => IInv'
<1> SUFFICES ASSUME IInv, [Next]_vars PROVE IInv'
  OBVIOUS
<1>1. CASE UNCHANGED vars
  BY <1>1 DEF vars, IInv, TypeOK, ClaimsInv, Holds, Live, OneHandlerPerDelivery,
              PermitsConserved, Assessing
<1>2. CASE Next
  BY <1>2, DeliverStep, HandlerStep, TickStep, OtherStep DEF Next
<1> QED
  BY <1>1, <1>2

-----------------------------------------------------------------------------
(* The theorems. *)

\* The inductive invariant: a live handler owns a claim it has not outlived, and the
\* permits account for the assess threads.
THEOREM Invariance == Spec => []IInv
  BY InitIInv, NextIInv, PTL DEF Spec

\* The variables keep their types; in particular the semaphore's permits stay within
\* its bound, whatever times out, raises or crashes.
THEOREM TypeCorrect == Spec => []TypeOK
<1>1. IInv => TypeOK
  BY DEF IInv
<1> QED
  BY <1>1, Invariance, PTL

\* No two handlers ever process one delivery at the same time (claim_webhook), for all
\* numbers of deliveries and handlers and all timings with the handler's longest path
\* below the TTL.
THEOREM OneHandler == Spec => []OneHandlerPerDelivery
<1>1. IInv => OneHandlerPerDelivery
  BY DEF IInv, ClaimsInv
<1> QED
  BY <1>1, Invariance, PTL

\* The clone+assess threads never exceed AGENTIT_ASSESS_MAX_CONCURRENT.
THEOREM AssessBounded == Spec => []AssessThreadsBounded
<1>1. IInv => AssessThreadsBounded
  <2> SUFFICES ASSUME IInv PROVE Cardinality(Assessing) + detached <= AssessMax
    BY DEF AssessThreadsBounded, Assessing
  <2>1. permits \in Nat /\ detached \in Nat /\ Cardinality(Assessing) \in Nat
    BY AssessingFinite DEF IInv, TypeOK
  <2> QED
    BY <2>1, BoundsAssumption DEF IInv, PermitsConserved
<1> QED
  BY <1>1, Invariance, PTL

\* A completed delivery stays completed until it is purged, and gets no further job:
\* whoever completes, releases, claims or creates a job works on an open claim.
THEOREM CompletedFinal == Spec => CompletedIsFinal
<1> DEFINE Final ==
      \A d \in Deliveries :
        claim[d] = "done" =>
          /\ claim'[d] = "done" \/ age[d] > PurgeAge
          /\ jobs'[d] = jobs[d]
<1>1. ASSUME IInv, Next PROVE Final
  <2> SUFFICES ASSUME NEW d \in Deliveries, claim[d] = "done"
               PROVE  /\ claim'[d] = "done" \/ age[d] > PurgeAge
                      /\ jobs'[d] = jobs[d]
    OBVIOUS
  <2>1. TypeOK /\ ClaimsInv
    BY <1>1 DEF IInv
  <2>2. \A w \in Workers : Live(w) => wk[w].id # d
    BY <2>1, NotStale
  <2>3. CASE \E w \in Workers : WorkerStep(w)
    <3>1. PICK w \in Workers : WorkerStep(w)
      BY <2>3
    <3>2. Live(w)
      BY <3>1 DEF WorkerStep, Live, BadBody, StoreFails, StartAssess, StartWork, AcquireSlot,
                  AcquireTimesOut, SleepEnds, AssessReturns, AssessRaises, AssessTimesOut,
                  CreateJob, PushPostRaises, Complete, Release, OnboardReturns,
                  FindingAlertOnly, FindingDeliver
    <3>3. \/ claim' = claim
          \/ complete_webhook_claim(wk[w].id)
          \/ release_webhook_claim(wk[w].id)
      BY <3>1 DEF WorkerStep, BadBody, StoreFails, StartAssess, StartWork, AcquireSlot,
                  AcquireTimesOut, SleepEnds, AssessReturns, AssessRaises, AssessTimesOut,
                  CreateJob, PushPostRaises, Complete, Release, OnboardReturns,
                  FindingAlertOnly, FindingDeliver
    <3>4. jobs' = jobs \/ jobs' = [jobs EXCEPT ![wk[w].id] = @ + 1]
      BY <3>1 DEF WorkerStep, BadBody, StoreFails, StartAssess, StartWork, AcquireSlot,
                  AcquireTimesOut, SleepEnds, AssessReturns, AssessRaises, AssessTimesOut,
                  CreateJob, PushPostRaises, Complete, Release, OnboardReturns,
                  FindingAlertOnly, FindingDeliver
    <3> QED
      BY <2>1, <2>2, <3>2, <3>3, <3>4
      DEF TypeOK, complete_webhook_claim, release_webhook_claim
  <2>4. CASE \E w \in Workers, e \in Deliveries : Deliver(w, e)
    BY <2>1, <2>4 DEF Deliver, claim_webhook, Claimable, TypeOK
  <2>5. CASE \E e \in Deliveries : Duplicate(e) \/ Purge(e)
    BY <2>1, <2>5 DEF Duplicate, Purge, release_webhook_claim, TypeOK
  <2>6. CASE DetachedStarts \/ DetachedEnds \/ Crash \/ Tick
    BY <2>6 DEF DetachedStarts, DetachedEnds, Crash, Tick
  <2> QED
    BY <1>1, <2>3, <2>4, <2>5, <2>6 DEF Next
<1>2. ASSUME IInv, [Next]_vars PROVE [Final]_vars
  BY <1>1, <1>2
<1> QED
  BY <1>2, Invariance, PTL DEF Spec, CompletedIsFinal

\* A handler that is live after a step of another kind has not ended in it.
LEMMA EndsByItself ==
  ASSUME IInv, Next, NEW w \in Workers, Live(w), wk'[w] = IdleWorker
  PROVE  WorkerStep(w) \/ Crash
<1>1. wk \in [Workers -> Worker] /\ wk'[w].pc = "idle" /\ wk[w].pc # "idle"
  BY LiveFacts DEF IdleWorker, Live
<1>2. ASSUME NEW v \in Workers, WorkerStep(v) PROVE v = w
  <2>1. PICK x : wk' = [wk EXCEPT ![v] = x]
    BY <1>1, <1>2, EnterForm
    DEF WorkerStep, BadBody, StoreFails, StartAssess, StartWork, AcquireSlot, AcquireTimesOut,
        SleepEnds, AssessReturns, AssessRaises, AssessTimesOut, CreateJob, PushPostRaises,
        Complete, Release, OnboardReturns, FindingAlertOnly, FindingDeliver, Enter, Return
  <2>. QED  BY <1>1, <2>1
<1>3. ASSUME NEW v \in Workers, NEW d \in Deliveries, Deliver(v, d) PROVE FALSE
  BY <1>1, <1>3 DEF Deliver, AcceptedWorker, Live
<1>4. ~ UNCHANGED wk
  BY <1>1
<1>5. \A d \in Deliveries : ~ Duplicate(d) /\ ~ Purge(d)
  BY <1>4 DEF Duplicate, Purge
<1>6. ~ DetachedStarts /\ ~ DetachedEnds
  BY <1>4 DEF DetachedStarts, DetachedEnds
<1>7. ~ Tick
  <2>. SUFFICES ASSUME Tick PROVE FALSE
    OBVIOUS
  <2>1. wk'[w] = [wk[w] EXCEPT !.t = @ + 1]
    BY DEF Tick
  <2>2. wk[w] \in Worker
    BY LiveFacts
  <2>3. wk'[w].pc = wk[w].pc
    BY <2>1, <2>2 DEF Worker
  <2>. QED  BY <1>1, <2>3
<1>. QED  BY <1>2, <1>3, <1>5, <1>6, <1>7 DEF Next

\* _process_github_push_delivery: whatever else runs, a push handler that ends by
\* itself, its store calls working, has completed or released the claim of its
\* own delivery; it never leaves one for the TTL to clear.
THEOREM PushSettles == Spec => PushSettlesItsClaim
<1>. DEFINE Settles ==
       \A w \in Workers :
         /\ Live(w) /\ wk'[w] = IdleWorker
         /\ route[wk[w].id] = "push"
         /\ ~StoreFails(w) /\ ~Crash
         => claim'[wk[w].id] # "open"
<1>1. ASSUME IInv, Next PROVE Settles
  <2>. SUFFICES ASSUME NEW w \in Workers, Live(w), wk'[w] = IdleWorker,
                       route[wk[w].id] = "push", ~StoreFails(w), ~Crash
                PROVE  claim'[wk[w].id] # "open"
    OBVIOUS
  <2>1. WorkerStep(w)
    BY <1>1, EndsByItself
  <2>2. wk[w].id \in Deliveries /\ wk[w] \in Worker /\ wk \in [Workers -> Worker] /\ wk'[w].pc = "idle"
    BY <1>1, LiveFacts DEF IdleWorker
  <2>3. claim \in [Deliveries -> {"none", "open", "done"}]
    BY <1>1 DEF IInv, TypeOK
  <2>4. ~ BadBody(w) /\ ~ OnboardReturns(w) /\ ~ FindingAlertOnly(w) /\ ~ FindingDeliver(w) /\ ~ StartWork(w)
    BY DEF BadBody, OnboardReturns, FindingAlertOnly, FindingDeliver, StartWork
  <2>5. ASSUME NEW p \in Phases \ {"idle"}, Enter(w, p) PROVE FALSE
    BY <2>2, <2>5 DEF Enter, Worker
  <2>6. ~ StartAssess(w) /\ ~ AcquireTimesOut(w) /\ ~ AssessReturns(w) /\ ~ AssessRaises(w)
        /\ ~ AssessTimesOut(w) /\ ~ PushPostRaises(w)
    BY <2>5 DEF StartAssess, AcquireTimesOut, AssessReturns, AssessRaises, AssessTimesOut,
                PushPostRaises, Phases
  <2>7. ~ AcquireSlot(w) /\ ~ SleepEnds(w) /\ ~ CreateJob(w)
    BY <2>2 DEF AcquireSlot, SleepEnds, CreateJob, Worker
  <2>8. Complete(w) \/ Release(w)
    BY <2>1, <2>4, <2>6, <2>7 DEF WorkerStep
  <2>. QED  BY <2>2, <2>3, <2>8 DEF Complete, Release, complete_webhook_claim, release_webhook_claim
<1>2. ASSUME IInv, [Next]_vars PROVE [Settles]_vars
  BY <1>1, <1>2
<1>. QED
  BY <1>2, Invariance, PTL DEF Spec, PushSettlesItsClaim
=============================================================================
