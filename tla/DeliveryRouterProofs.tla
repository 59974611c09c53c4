------------------------ MODULE DeliveryRouterProofs ------------------------
(***************************************************************************)
(* Proofs about DeliveryRouter: the delivery lock excludes, and no foreign *)
(* push but that of a cancelled delivery reaches the branches of a         *)
(* delivery in progress, for every number of attempts, every batch and all *)
(* timings with WorkBound <= StaleAfter.                                   *)
(***************************************************************************)
EXTENDS DeliveryRouter, TLAPS

\* The lock row of a delivery in progress is its own: as old as its critical section.
LockInv ==
  \A d \in Attempts : InSection(d) => lock.held /\ lock.age = call[d].t

\* The branch is d's, or a cancelled delivery has overwritten it.
Owned(d, b) ==
  head[b].by = d \/ (head[b].by \in Attempts /\ lost[head[b].by] = "cancelled")

\* A worker thread belongs to a delivery in progress, and works on its current category,
\* or to a cancelled one.
ThreadOK(d) ==
  thread[d].at # "off" =>
    /\ thread[d].cat \in Categories
    /\ call[d].pc \notin {"idle", "create"}
    /\ \/ lost[d] = "cancelled"
       \/ call[d].pc = "deliver" /\ ~call[d].dry
    /\ call[d].pc = "deliver" =>
         /\ ~call[d].dry
         /\ call[d].left # {}
         /\ thread[d].cat = Current(d)
         /\ thread[d].at = "pushed" => Owned(d, Branch(thread[d].cat))

ThreadInv == \A d \in Attempts : ThreadOK(d)

BranchInv ==
  \A d \in Attempts, c \in Categories :
    InSection(d) /\ call[d].outcome[c] = "pr" => Owned(d, Branch(c))

IInv == TypeOK /\ LockInv /\ OneDeliveryAtATime /\ ThreadInv /\ BranchInv

-----------------------------------------------------------------------------
(* Operators. *)

\* The current category is one of those left.
LEMMA CurrentLeft ==
  ASSUME NEW d \in Attempts, call[d].left \in SUBSET Categories, call[d].left # {}
  PROVE  Current(d) \in call[d].left /\ Current(d) \in Categories
<1> DEFINE S == call[d].left
<1>1. \E c \in S : \A e \in S : Rank[c] <= Rank[e]
  <2>0. Rank["cluster"] = 1 /\ Rank["cicd"] = 2 /\ Rank["source"] = 3 /\ Rank["atrest"] = 4
    BY DEF Rank
  <2>1. CASE "cluster" \in S
    BY <2>0, <2>1 DEF Categories
  <2>2. CASE "cluster" \notin S /\ "cicd" \in S
    BY <2>0, <2>2 DEF Categories
  <2>3. CASE "cluster" \notin S /\ "cicd" \notin S /\ "source" \in S
    BY <2>0, <2>3 DEF Categories
  <2>4. CASE "cluster" \notin S /\ "cicd" \notin S /\ "source" \notin S
    <3>1. "atrest" \in S /\ \A e \in S : e = "atrest"
      BY <2>4 DEF Categories
    <3> QED BY <2>0, <3>1
  <2> QED BY <2>1, <2>2, <2>3, <2>4
<1>2. Current(d) \in S
  BY <1>1 DEF Current
<1> QED BY <1>2

\* Every category has one of the branches.
LEMMA BranchType == ASSUME NEW c PROVE Branch(c) \in Branches
BY DEF Branch, Branches

\* What Goto, Return and Settle do to the calls, field by field.
LEMMA GotoForm ==
  ASSUME call \in [Attempts -> Call], NEW d \in Attempts, NEW p \in Phases, Goto(d, p)
  PROVE  /\ call' \in [Attempts -> Call]
         /\ \A e \in Attempts : e # d => call'[e] = call[e]
         /\ call'[d].pc = p /\ call'[d].dry = call[d].dry /\ call'[d].t = call[d].t
         /\ call'[d].left = call[d].left /\ call'[d].outcome = call[d].outcome
BY DEF Goto, Call

\* The type of a new call.
LEMMA NewCallType ==
  ASSUME NEW p \in Phases, NEW b \in BOOLEAN, NEW S \in SUBSET Categories
  PROVE  NewCall(p, b, S) \in Call
<1>1. [c \in Categories |-> "none"] \in [Categories -> Results]
  BY DEF Results
<1>2. 0 \in 0..WorkBound
  BY TimingAssumption
<1> QED BY <1>1, <1>2 DEF NewCall, Call

\* As GotoForm, for the end of a call.
LEMMA ReturnForm ==
  ASSUME call \in [Attempts -> Call], NEW d \in Attempts, Return(d)
  PROVE  /\ call' \in [Attempts -> Call]
         /\ \A e \in Attempts : e # d => call'[e] = call[e]
         /\ call'[d].pc = "end"
<1>1. EndedCall \in Call /\ EndedCall.pc = "end"
  BY NewCallType DEF EndedCall, Phases, NewCall
<1> QED BY <1>1 DEF Return

\* As GotoForm, for the outcome of a category.
LEMMA SettleForm ==
  ASSUME call \in [Attempts -> Call], NEW d \in Attempts, NEW r \in Results,
         call[d].left # {}, Settle(d, r)
  PROVE  /\ call' \in [Attempts -> Call]
         /\ \A e \in Attempts : e # d => call'[e] = call[e]
         /\ call'[d].pc = call[d].pc /\ call'[d].dry = call[d].dry /\ call'[d].t = call[d].t
         /\ call'[d].outcome = [call[d].outcome EXCEPT ![Current(d)] = r]
<1>1. Current(d) \in Categories
  BY CurrentLeft DEF Call
<1> DEFINE x == Current(d)
<1>2. call' = [call EXCEPT ![d] = [call[d] EXCEPT !.outcome = [call[d].outcome EXCEPT ![x] = r],
                                                  !.left = call[d].left \ {x}]]
  BY DEF Settle
<1> HIDE DEF x
<1>3. [call[d].outcome EXCEPT ![x] = r] \in [Categories -> Results]
  BY <1>1 DEF Call, x
<1>4. call[d].left \ {x} \in SUBSET Categories
  BY DEF Call
<1>5. call'[d] \in Call
  BY <1>2, <1>3, <1>4 DEF Call
<1>6. /\ call'[d].pc = call[d].pc /\ call'[d].dry = call[d].dry /\ call'[d].t = call[d].t
      /\ call'[d].outcome = [call[d].outcome EXCEPT ![x] = r]
  BY <1>2, <1>3, <1>4 DEF Call
<1> QED BY <1>2, <1>5, <1>6 DEF x

-----------------------------------------------------------------------------
(* Steps. *)

\* No row, thread or call: the invariant holds initially.
LEMMA InitIInv == Init => IInv
<1> SUFFICES ASSUME Init PROVE IInv
  OBVIOUS
<1>1. IdleCall \in Call /\ IdleCall.pc = "idle"
  BY NewCallType DEF IdleCall, Phases, NewCall
<1>2. NoThread \in Thread /\ NoThread.at = "off" /\ NoCommit \in Commit
  BY DEF NoThread, Thread, NoCommit, Commit
<1>3. TypeOK
  BY <1>1, <1>2, TimingAssumption DEF Init, TypeOK, Rows
<1>4. \A d \in Attempts : ~InSection(d)
  BY <1>1 DEF Init, InSection, Live, Running
<1>5. ThreadInv
  BY <1>2 DEF Init, ThreadInv, ThreadOK
<1> QED BY <1>3, <1>4, <1>5 DEF IInv, LockInv, OneDeliveryAtATime, BranchInv

\* A step of attempt d that leaves lock and branches alone and does not enter the
\* critical section.
LEMMA OwnStep ==
  ASSUME IInv, NEW d \in Attempts, TypeOK',
         UNCHANGED <<target, lock, head>>,
         \A e \in Attempts : e # d => call'[e] = call[e] /\ thread'[e] = thread[e],
         \A e \in Attempts : lost[e] = "cancelled" => lost'[e] = "cancelled",
         InSection(d)' => InSection(d) /\ call'[d].t = call[d].t,
         \A c \in Categories :
           InSection(d)' /\ call'[d].outcome[c] = "pr" =>
             call[d].outcome[c] = "pr" \/ Owned(d, Branch(c)),
         ThreadOK(d)'
  PROVE  IInv'
<1>1. \A e \in Attempts : InSection(e)' => InSection(e) /\ call'[e].t = call[e].t
  BY DEF InSection, Live
<1>2. \A b : Branch(b)' = Branch(b)
  BY DEF Branch, Mechanism
<1>3. \A e \in Attempts, b \in Branches : Owned(e, b) => Owned(e, b)'
  BY DEF Owned
<1>4. LockInv'
  BY <1>1 DEF IInv, LockInv
<1>5. OneDeliveryAtATime'
  BY <1>1 DEF IInv, OneDeliveryAtATime
<1>6. ThreadInv'
  <2>1. ASSUME NEW e \in Attempts, e # d PROVE ThreadOK(e)'
    <3>1. /\ call'[e] = call[e] /\ thread'[e] = thread[e] /\ ThreadOK(e)
          /\ Current(e)' = Current(e)
      BY <2>1 DEF IInv, ThreadInv, ThreadOK, Current
    <3>2. Branch(thread[e].cat) \in Branches
      BY BranchType
    <3> QED BY <3>1, <3>2, <1>2, <1>3 DEF ThreadOK
  <2>2. \A e \in Attempts : ThreadOK(e)'
    BY <2>1
  <2> QED BY <2>2 DEF ThreadInv, ThreadOK
<1>7. BranchInv'
  <2> SUFFICES ASSUME NEW e \in Attempts, NEW c \in Categories, InSection(e)',
                      call'[e].outcome[c] = "pr"
               PROVE  Owned(e, Branch(c))'
    BY DEF BranchInv
  <2>1. Owned(e, Branch(c))
    <3>1. CASE e = d
      BY <3>1, <1>1 DEF IInv, BranchInv
    <3>2. CASE e # d
      BY <3>2, <1>1 DEF IInv, BranchInv
    <3> QED BY <3>1, <3>2
  <2> QED BY <2>1, <1>2, <1>3, BranchType
<1> QED BY <1>4, <1>5, <1>6, <1>7 DEF IInv

\* The thread of d is off: nothing to account for.
LEMMA OffOK ==
  ASSUME NEW d \in Attempts, thread'[d].at = "off"
  PROVE  ThreadOK(d)'
BY DEF ThreadOK

\* create_delivery, the end of the try, the except branch and finally, for an attempt
\* whose thread is off or that has been cancelled before.
LEMMA GotoStep ==
  ASSUME IInv, NEW d \in Attempts, NEW p \in Phases, Goto(d, p), Live(d),
         p \notin {"idle", "create", "deliver"} \/ thread'[d].at = "off",
         TypeOK', UNCHANGED <<target, lock, head>>,
         \A e \in Attempts : e # d => thread'[e] = thread[e],
         thread'[d] = thread[d] \/ thread'[d].at = "off",
         \A e \in Attempts : lost[e] = "cancelled" => lost'[e] = "cancelled",
         thread'[d].at = "off" \/ lost'[d] = "cancelled"
  PROVE  IInv'
<1>1. /\ \A e \in Attempts : e # d => call'[e] = call[e]
      /\ call'[d].pc = p /\ call'[d].dry = call[d].dry /\ call'[d].t = call[d].t
      /\ call'[d].left = call[d].left /\ call'[d].outcome = call[d].outcome
  BY GotoForm DEF IInv, TypeOK
<1>2. InSection(d)' => InSection(d)
  BY <1>1 DEF InSection, Live
<1>3. ThreadOK(d)'
  BY <1>1 DEF IInv, ThreadInv, ThreadOK
<1> QED BY <1>1, <1>2, <1>3, OwnStep

\* A call that ends without touching the lock.
LEMMA ReturnStep ==
  ASSUME IInv, NEW d \in Attempts, Return(d),
         TypeOK', UNCHANGED <<target, lock, head, thread>>,
         \A e \in Attempts : lost[e] = "cancelled" => lost'[e] = "cancelled",
         thread[d].at = "off" \/ lost'[d] = "cancelled"
  PROVE  IInv'
<1>1. (\A e \in Attempts : e # d => call'[e] = call[e]) /\ call'[d].pc = "end"
  BY ReturnForm DEF IInv, TypeOK
<1>2. ~InSection(d)'
  BY <1>1 DEF InSection, Live, Running
<1>3. ThreadOK(d)'
  BY <1>1 DEF IInv, ThreadInv, ThreadOK
<1> QED BY <1>1, <1>2, <1>3, OwnStep

\* The steps of route_and_deliver but the claim and the release of the lock.
LEMMA RouterStepInv ==
  ASSUME IInv, NEW d \in Attempts, RouterStep(d)
  PROVE  IInv' \/ Unlock(d)
<1> USE DEF Phases, Live, Running
<1>t. /\ call \in [Attempts -> Call] /\ thread \in [Attempts -> Thread]
      /\ row \in [Attempts -> Rows] /\ res \in [Attempts -> {"null", "not_delivered"}]
      /\ watch \in [Attempts -> BOOLEAN]
      /\ lost \in [Attempts -> {"no", "cancelled", "crashed", "store"}]
      /\ lock \in [held : BOOLEAN, age : 0..(StaleAfter + 1)]
      /\ head \in [Branches -> Commit] /\ target \in {"fleet", "self", "unknown"}
  BY DEF IInv, TypeOK
<1>n. NoThread \in Thread /\ NoThread.at = "off"
  BY DEF NoThread, Thread
<1>o. /\ call[d].pc = "create" => thread[d].at = "off"
      /\ call[d].pc # "deliver" => thread[d].at = "off" \/ lost[d] = "cancelled"
  BY DEF IInv, ThreadInv, ThreadOK
<1>1. CASE create_delivery(d)
  <2>1. TypeOK'
    BY <1>1, <1>t, GotoForm DEF create_delivery, TypeOK, Rows
  <2> QED BY <1>1, <1>o, <2>1, GotoStep DEF create_delivery
<1>2. CASE CreateRaises(d)
  <2>1. TypeOK'
    BY <1>2, <1>t, ReturnForm DEF CreateRaises, TypeOK
  <2> QED BY <1>2, <1>o, <2>1, ReturnStep DEF CreateRaises
<1>3. CASE Preview(d)
  <2>1. PICK r \in {"skipped", "error"} : Settle(d, r)
    BY <1>3 DEF Preview
  <2>2. /\ call' \in [Attempts -> Call]
        /\ \A e \in Attempts : e # d => call'[e] = call[e]
        /\ call'[d].pc = call[d].pc /\ call'[d].dry = call[d].dry /\ call'[d].t = call[d].t
        /\ call'[d].outcome = [call[d].outcome EXCEPT ![Current(d)] = r]
    BY <1>3, <1>t, <2>1, SettleForm DEF Preview, Results
  <2>3. TypeOK'
    BY <1>3, <1>t, <2>2 DEF Preview, TypeOK
  <2>4. call[d].outcome \in [Categories -> Results]
    BY <1>t DEF Call
  <2>5. \A c \in Categories : call'[d].outcome[c] = "pr" => call[d].outcome[c] = "pr"
    BY <2>2, <2>4
  <2>6. thread'[d].at = "off"
    BY <1>3 DEF Preview
  <2>7. InSection(d)' => InSection(d)
    BY <2>2 DEF InSection
  <2> QED BY <1>3, <2>2, <2>3, <2>5, <2>6, <2>7, OffOK, OwnStep DEF Preview
<1>4. CASE StartThread(d)
  <2>1. /\ Current(d) \in Categories
        /\ thread'[d].at = "prepare" /\ thread'[d].cat = Current(d)
        /\ thread' \in [Attempts -> Thread]
    BY <1>4, <1>t, CurrentLeft DEF StartThread, Thread, Call
  <2>2. TypeOK'
    BY <1>4, <1>t, <2>1 DEF StartThread, TypeOK
  <2>3. ThreadOK(d)'
    BY <1>4, <2>1 DEF StartThread, ThreadOK, Current
  <2>4. \A e \in Attempts : e # d => thread'[e] = thread[e]
    BY <1>4 DEF StartThread
  <2> QED BY <1>4, <2>2, <2>3, <2>4, OwnStep DEF StartThread, InSection
<1>5. CASE DeliverRaises(d)
  <2>1. TypeOK'
    BY <1>5, <1>t, <1>n, GotoForm DEF DeliverRaises, TypeOK
  <2> QED BY <1>5, <1>t, <1>n, <2>1, GotoStep DEF DeliverRaises
<1>6. CASE Record(d)
  <2>1. Recorded(d) \in Rows
    BY DEF Recorded, Rows
  <2>2. TypeOK'
    BY <1>6, <1>t, <2>1, GotoForm DEF Record, TypeOK
  <2> QED BY <1>6, <2>2, GotoStep DEF Record
<1>7. CASE Schedule(d)
  <2>1. TypeOK'
    BY <1>7, <1>t, GotoForm DEF Schedule, TypeOK
  <2> QED BY <1>7, <1>o, <2>1, GotoStep DEF Schedule
<1>8. CASE Fail(d)
  <2>1. TypeOK'
    BY <1>8, <1>t, GotoForm DEF Fail, TypeOK, Rows
  <2> QED BY <1>8, <1>o, <2>1, GotoStep DEF Fail
<1>9. CASE FailRaises(d)
  <2>1. TypeOK'
    BY <1>9, <1>t, GotoForm DEF FailRaises, TypeOK
  <2>2. \A e \in Attempts : lost[e] = "cancelled" => lost'[e] = "cancelled"
    BY <1>9, <1>t DEF FailRaises
  <2> QED BY <1>9, <1>o, <2>1, <2>2, GotoStep DEF FailRaises
<1>10. CASE UnlockRaises(d)
  <2>1. TypeOK'
    BY <1>10, <1>t, ReturnForm DEF UnlockRaises, TypeOK
  <2> QED BY <1>10, <1>o, <2>1, ReturnStep DEF UnlockRaises
<1> QED BY <1>1, <1>2, <1>3, <1>4, <1>5, <1>6, <1>7, <1>8, <1>9, <1>10 DEF RouterStep

\* Nobody is in the critical section, or only d: what claiming and releasing rest on.
LEMMA LockStep ==
  ASSUME IInv, NEW d \in Attempts, TypeOK',
         UNCHANGED <<target, thread, lost, head>>,
         \A e \in Attempts : e # d => call'[e] = call[e] /\ ~InSection(e),
         thread[d].at = "off" \/ (call'[d].pc = "end" /\ lost[d] = "cancelled"),
         InSection(d)' => /\ lock'.held /\ lock'.age = call'[d].t
                          /\ \A c \in Categories : call'[d].outcome[c] = "none"
  PROVE  IInv'
<1>1. \A e \in Attempts : InSection(e)' => e = d
  BY DEF InSection, Live
<1>2. LockInv' /\ OneDeliveryAtATime' /\ BranchInv'
  BY <1>1 DEF LockInv, OneDeliveryAtATime, BranchInv
<1>3. \A b : Branch(b)' = Branch(b)
  BY DEF Branch, Mechanism
<1>4. \A e \in Attempts : \A b : Owned(e, b)' = Owned(e, b)
  BY DEF Owned
<1>5. ASSUME NEW e \in Attempts, e # d PROVE ThreadOK(e)'
  <2>1. call'[e] = call[e] /\ ThreadOK(e) /\ Current(e)' = Current(e)
    BY <1>5 DEF IInv, ThreadInv, Current
  <2> QED BY <2>1, <1>3, <1>4 DEF ThreadOK
<1>6. ThreadOK(d)'
  BY DEF IInv, ThreadInv, ThreadOK
<1>7. ThreadInv'
  BY <1>5, <1>6 DEF ThreadInv
<1> QED BY <1>2, <1>7 DEF IInv

\* A lock that may be claimed is nobody's: its holder would have reached WorkBound, which
\* is not beyond StaleAfter.
LEMMA ClaimableIsFree ==
  ASSUME IInv, Claimable, NEW d \in Attempts
  PROVE  ~InSection(d)
<1>1. call[d].t \in 0..WorkBound /\ lock.age \in 0..(StaleAfter + 1)
  BY DEF IInv, TypeOK, Call
<1> QED BY <1>1, TimingAssumption DEF IInv, LockInv, Claimable

\* Claiming the lock, or starting a dry run.
LEMMA RouteStep ==
  ASSUME IInv, NEW d \in Attempts, NEW batch \in Batches,
         Route(d, batch) \/ RouteDry(d, batch)
  PROVE  IInv'
<1>t. /\ call \in [Attempts -> Call] /\ lock \in [held : BOOLEAN, age : 0..(StaleAfter + 1)]
      /\ TypeOK
  BY DEF IInv, TypeOK
<1>o. call[d].pc = "idle" => thread[d].at = "off"
  BY DEF IInv, ThreadInv, ThreadOK
<1>n. \A b \in BOOLEAN :
        LET k == NewCall("create", b, batch)
        IN  /\ k \in Call /\ k.t = 0 /\ k.dry = b /\ k.pc = "create"
            /\ \A c \in Categories : k.outcome[c] = "none"
  <2>1. batch \in SUBSET Categories
    BY BatchesAssumption
  <2> QED BY <2>1, NewCallType DEF NewCall, Phases
<1>1. CASE Route(d, batch)
  <2>1. lock' = [held |-> TRUE, age |-> 0] /\ 0 \in 0..(StaleAfter + 1)
    BY <1>1, TimingAssumption DEF Route, claim_delivery_lock
  <2>2. TypeOK'
    BY <1>1, <1>t, <1>n, <2>1 DEF Route, TypeOK
  <2>3. call'[d] = NewCall("create", FALSE, batch)
    BY <1>1, <1>t DEF Route
  <2>4. \A e \in Attempts : e # d => call'[e] = call[e] /\ ~InSection(e)
    <3>1. \A e \in Attempts : e # d => call'[e] = call[e]
      BY <1>1, <1>t DEF Route
    <3>2. Claimable
      BY <1>1 DEF Route, claim_delivery_lock
    <3> QED BY <3>1, <3>2, ClaimableIsFree
  <2>5. UNCHANGED <<target, thread, lost, head>> /\ thread[d].at = "off"
    BY <1>1, <1>o DEF Route
  <2>6. /\ lock'.held /\ lock'.age = call'[d].t
        /\ \A c \in Categories : call'[d].outcome[c] = "none"
    BY <1>n, <2>1, <2>3
  <2> QED BY <2>2, <2>4, <2>5, <2>6, LockStep
<1>2. CASE RouteDry(d, batch)
  <2>1. TypeOK'
    BY <1>2, <1>t, <1>n DEF RouteDry, TypeOK
  <2>2. call'[d] = NewCall("create", TRUE, batch)
    BY <1>2, <1>t DEF RouteDry
  <2>3. ~InSection(d)'
    BY <2>2, <1>n DEF InSection
  <2>4. \A e \in Attempts : e # d => call'[e] = call[e]
    BY <1>2, <1>t DEF RouteDry
  <2>5. ThreadOK(d)'
    BY <1>2, <1>o, OffOK DEF RouteDry
  <2> QED BY <1>2, <2>1, <2>3, <2>4, <2>5, OwnStep DEF RouteDry
<1> QED BY <1>1, <1>2

\* The release deletes the row of whoever holds the lock, which is the releaser.
LEMMA UnlockStep ==
  ASSUME IInv, NEW d \in Attempts, Unlock(d)
  PROVE  IInv'
<1>t. call \in [Attempts -> Call] /\ TypeOK
  BY DEF IInv, TypeOK
<1>o. thread[d].at = "off" \/ lost[d] = "cancelled"
  BY DEF IInv, ThreadInv, ThreadOK, Unlock
<1>1. (\A e \in Attempts : e # d => call'[e] = call[e]) /\ call'[d].pc = "end"
  BY <1>t, ReturnForm DEF Unlock
<1>2. TypeOK'
  <2>1. [held |-> FALSE, age |-> 0] \in [held : BOOLEAN, age : 0..(StaleAfter + 1)]
    BY TimingAssumption
  <2>2. lock' \in [held : BOOLEAN, age : 0..(StaleAfter + 1)]
    BY <1>t, <2>1 DEF Unlock, release_delivery_lock, TypeOK
  <2> QED BY <1>t, <2>2, ReturnForm DEF Unlock, TypeOK
<1>3. CASE call[d].dry
  BY <1>t, <1>o, <1>2, <1>3, ReturnStep DEF Unlock
<1>4. CASE ~call[d].dry
  <2>1. InSection(d)
    BY <1>4 DEF InSection, Live, Running, Unlock
  <2>2. \A e \in Attempts : e # d => ~InSection(e)
    BY <2>1 DEF IInv, OneDeliveryAtATime
  <2>3. ~InSection(d)'
    BY <1>1 DEF InSection, Live, Running
  <2> QED BY <1>1, <1>o, <1>2, <2>2, <2>3, LockStep DEF Unlock
<1> QED BY <1>3, <1>4

\* A cancelled call keeps its thread.
LEMMA CancelStep ==
  ASSUME IInv, NEW d \in Attempts, Cancel(d)
  PROVE  IInv'
<1> USE DEF Phases
<1>t. /\ call \in [Attempts -> Call] /\ row \in [Attempts -> Rows] /\ TypeOK
      /\ lost \in [Attempts -> {"no", "cancelled", "crashed", "store"}]
  BY DEF IInv, TypeOK
<1>1. /\ lost' \in [Attempts -> {"no", "cancelled", "crashed", "store"}]
      /\ lost'[d] = "cancelled"
      /\ \A e \in Attempts : lost[e] = "cancelled" => lost'[e] = "cancelled"
  BY <1>t DEF Cancel
<1>2. row' \in [Attempts -> Rows]
  BY <1>t DEF Cancel, Rows
<1>3. CASE Return(d)
  <2>1. TypeOK'
    BY <1>3, <1>t, <1>1, <1>2, ReturnForm DEF Cancel, TypeOK
  <2> QED BY <1>3, <1>1, <2>1, ReturnStep DEF Cancel
<1>4. CASE Goto(d, "unlock")
  <2>1. TypeOK'
    BY <1>4, <1>t, <1>1, <1>2, GotoForm DEF Cancel, TypeOK
  <2> QED BY <1>4, <1>1, <2>1, GotoStep DEF Cancel
<1> QED BY <1>3, <1>4 DEF Cancel

\* The push of a delivery in progress makes the branch its own; that of a cancelled one
\* is the exception in Owned.
LEMMA PushStep ==
  ASSUME IInv, NEW d \in Attempts, Push(d)
  PROVE  IInv'
<1>b. PICK b \in Branches : b = Branch(thread[d].cat)
  BY BranchType
<1>t. /\ TypeOK /\ thread \in [Attempts -> Thread] /\ head \in [Branches -> Commit]
  BY DEF IInv, TypeOK
<1>1. /\ thread[d].cat \in Categories
      /\ lost[d] = "cancelled" \/ (call[d].pc = "deliver" /\ ~call[d].dry)
      /\ ThreadOK(d)
  BY DEF IInv, ThreadInv, ThreadOK, Push
<1>2. /\ thread' \in [Attempts -> Thread] /\ thread'[d].cat = thread[d].cat
      /\ \A e \in Attempts : e # d => thread'[e] = thread[e]
  BY <1>t DEF Push, Thread
<1>3. /\ head' \in [Branches -> Commit] /\ head'[b].by = d
      /\ \A x \in Branches : x # b => head'[x] = head[x]
  BY <1>b, <1>t, <1>1 DEF Push, Commit
<1>4. TypeOK'
  BY <1>t, <1>2, <1>3 DEF Push, TypeOK
<1>5. \A x : Branch(x)' = Branch(x)
  BY DEF Branch, Mechanism, Push
<1>6. /\ \A e \in Attempts : InSection(e)' = InSection(e) /\ Current(e)' = Current(e)
      /\ call' = call /\ lock' = lock /\ lost' = lost
  BY DEF InSection, Live, Current, Push
<1>7. ASSUME NEW e \in Attempts, InSection(e), NEW x \in Branches, e = d \/ Owned(e, x),
             e = d => x = b \/ Owned(e, x)
      PROVE  Owned(e, x)'
  <2>1. CASE e = d
    BY <1>3, <1>6, <1>7, <2>1 DEF Owned
  <2>2. CASE e # d /\ x # b
    BY <1>3, <1>6, <1>7, <2>2 DEF Owned
  <2>3. CASE e # d /\ x = b
    <3>1. lost[d] = "cancelled"
      BY <1>1, <1>7, <2>3 DEF IInv, OneDeliveryAtATime, InSection, Live, Running
    <3> QED BY <3>1, <1>3, <1>6, <2>3 DEF Owned
  <2> QED BY <2>1, <2>2, <2>3
<1>8. LockInv' /\ OneDeliveryAtATime'
  BY <1>6 DEF IInv, LockInv, OneDeliveryAtATime
<1>9. BranchInv'
  BY <1>5, <1>6, <1>7, BranchType DEF IInv, BranchInv
<1>10. ASSUME NEW e \in Attempts PROVE ThreadOK(e)'
  <2>1. ThreadOK(e)
    BY DEF IInv, ThreadInv
  <2>2. CASE e = d
    <3>1. call[d].pc = "deliver" => Owned(d, b)'
      BY <1>3, <1>6 DEF Owned
    <3>2. thread[d].at # "off"
      BY DEF Push
    <3> QED BY <2>2, <1>b, <1>1, <1>2, <1>5, <1>6, <3>1, <3>2 DEF ThreadOK
  <2>3. CASE e # d
    <3>1. /\ thread'[e] = thread[e] /\ call' = call /\ lost' = lost
          /\ Current(e)' = Current(e) /\ Branch(thread[e].cat)' = Branch(thread[e].cat)
      BY <2>3, <1>2, <1>5, <1>6
    <3>2. CASE thread[e].at = "pushed" /\ call[e].pc = "deliver"
      <4>1. InSection(e) /\ Owned(e, Branch(thread[e].cat))
        BY <2>1, <3>2 DEF ThreadOK, InSection, Live, Running
      <4>2. PICK x \in Branches : x = Branch(thread[e].cat)
        BY BranchType
      <4>3. Owned(e, x)'
        BY <2>3, <4>1, <4>2, <1>7
      <4>4. Branch(thread[e].cat)' = x
        BY <3>1, <4>2
      <4>5. Owned(e, Branch(thread[e].cat))'
        BY <4>3, <4>4 DEF Owned
      <4> QED BY <2>1, <3>1, <3>2, <4>5 DEF ThreadOK
    <3>3. CASE ~(thread[e].at = "pushed" /\ call[e].pc = "deliver")
      BY <2>1, <3>1, <3>3 DEF ThreadOK
    <3> QED BY <3>2, <3>3
  <2> QED BY <2>2, <2>3
<1>11. ThreadInv'
  BY <1>10 DEF ThreadInv
<1> QED BY <1>4, <1>8, <1>9, <1>11 DEF IInv

\* A pull request is reported for a branch that has been pushed.
LEMMA ThreadEndsStep ==
  ASSUME IInv, NEW d \in Attempts, NEW r \in Results, ThreadEnds(d, r)
  PROVE  IInv'
<1>t. TypeOK /\ call \in [Attempts -> Call] /\ thread \in [Attempts -> Thread]
  BY DEF IInv, TypeOK
<1>1. /\ thread' \in [Attempts -> Thread] /\ thread'[d].at = "off"
      /\ \A e \in Attempts : e # d => thread'[e] = thread[e]
  BY <1>t DEF ThreadEnds, NoThread, Thread
<1>2. ThreadOK(d) /\ thread[d].at # "off"
  BY DEF IInv, ThreadInv, ThreadEnds
<1>3. CASE call[d].pc = "deliver"
  <2>1. /\ call' \in [Attempts -> Call]
        /\ \A e \in Attempts : e # d => call'[e] = call[e]
        /\ call'[d].pc = call[d].pc /\ call'[d].dry = call[d].dry /\ call'[d].t = call[d].t
        /\ call'[d].outcome = [call[d].outcome EXCEPT ![Current(d)] = r]
    BY <1>t, <1>2, <1>3, SettleForm DEF ThreadEnds, ThreadOK
  <2>2. TypeOK'
    BY <1>t, <1>1, <2>1 DEF ThreadEnds, TypeOK
  <2>3. call[d].outcome \in [Categories -> Results]
    BY <1>t DEF Call
  <2>4. r = "pr" => Owned(d, Branch(Current(d)))
    BY <1>2, <1>3 DEF ThreadEnds, ThreadOK
  <2>5. ASSUME NEW c \in Categories, call'[d].outcome[c] = "pr"
        PROVE  call[d].outcome[c] = "pr" \/ Owned(d, Branch(c))
    <3>1. CASE c = Current(d)
      BY <2>1, <2>3, <2>4, <2>5, <3>1
    <3>2. CASE c # Current(d)
      BY <2>1, <2>3, <2>5, <3>2
    <3> QED BY <3>1, <3>2
  <2>6. InSection(d)' => InSection(d)
    BY <2>1 DEF InSection, Live
  <2> QED BY <1>1, <2>1, <2>2, <2>5, <2>6, OffOK, OwnStep DEF ThreadEnds
<1>4. CASE call[d].pc # "deliver"
  <2>1. call' = call /\ TypeOK'
    BY <1>t, <1>1, <1>4 DEF ThreadEnds, TypeOK
  <2>2. InSection(d)' => InSection(d)
    BY <2>1 DEF InSection, Live
  <2> QED BY <1>1, <2>1, <2>2, OffOK, OwnStep DEF ThreadEnds
<1> QED BY <1>3, <1>4

\* The SLO watch touches only the status of the row.
LEMMA VerifyStep ==
  ASSUME IInv, NEW d \in Attempts, VerifyEnds(d)
  PROVE  IInv'
<1>1. TypeOK'
  BY DEF IInv, VerifyEnds, TypeOK, Rows
<1>2. InSection(d)' => InSection(d)
  BY DEF InSection, Live, VerifyEnds
<1>3. ThreadOK(d)'
  BY DEF IInv, ThreadInv, ThreadOK, Owned, Branch, Mechanism, Current, VerifyEnds
<1> QED BY <1>1, <1>2, <1>3, OwnStep DEF VerifyEnds

\* Nothing runs after a crash.
LEMMA CrashStep ==
  ASSUME IInv, Crash
  PROVE  IInv'
<1>t. /\ TypeOK /\ call \in [Attempts -> Call]
      /\ lost \in [Attempts -> {"no", "cancelled", "crashed", "store"}]
  BY DEF IInv, TypeOK
<1>1. EndedCall \in Call /\ EndedCall.pc = "end"
  BY NewCallType DEF EndedCall, Phases, NewCall
<1>2. NoThread \in Thread /\ NoThread.at = "off"
  BY DEF NoThread, Thread
<1>3. TypeOK'
  BY <1>t, <1>1, <1>2 DEF Crash, TypeOK
<1>4. \A d \in Attempts : ~InSection(d)'
  BY <1>t, <1>1 DEF Crash, InSection, Live, Running
<1>5. ThreadInv'
  BY <1>2 DEF Crash, ThreadInv, ThreadOK
<1> QED BY <1>3, <1>4, <1>5 DEF IInv, LockInv, OneDeliveryAtATime, BranchInv

\* The lock and the delivery that holds it age together.
LEMMA TickStep ==
  ASSUME IInv, Tick
  PROVE  IInv'
<1>t. /\ TypeOK /\ call \in [Attempts -> Call]
      /\ lock \in [held : BOOLEAN, age : 0..(StaleAfter + 1)]
      /\ StaleAfter \in Nat /\ WorkBound \in Nat /\ WorkBound <= StaleAfter
  BY TimingAssumption DEF IInv, TypeOK
<1>1. ASSUME NEW d \in Attempts
      PROVE  /\ call'[d] \in Call /\ call'[d].pc = call[d].pc /\ call'[d].dry = call[d].dry
             /\ call'[d].left = call[d].left /\ call'[d].outcome = call[d].outcome
             /\ InSection(d) => call'[d].t = call[d].t + 1 /\ call[d].t < WorkBound
  <2>1. PICK k \in Call : k = call[d]
    BY <1>t
  <2>2. CASE InSection(d)
    <3>1. k.t < WorkBound /\ call'[d] = [k EXCEPT !.t = k.t + 1]
      BY <2>1, <2>2 DEF Tick
    <3>2. k.t + 1 \in 0..WorkBound
      BY <3>1, <1>t DEF Call
    <3> QED BY <2>1, <3>1, <3>2 DEF Call
  <2>3. CASE ~InSection(d)
    BY <2>1, <2>3 DEF Tick
  <2> QED BY <2>2, <2>3
<1>2. call' \in [Attempts -> Call]
  BY <1>1 DEF Tick
<1>3. /\ lock' \in [held : BOOLEAN, age : 0..(StaleAfter + 1)]
      /\ lock'.held = lock.held
      /\ lock.held /\ lock.age <= StaleAfter => lock'.age = lock.age + 1
  BY <1>t DEF Tick
<1>4. TypeOK'
  BY <1>t, <1>2, <1>3 DEF Tick, TypeOK
<1>5. \A d \in Attempts : /\ InSection(d)' = InSection(d) /\ Current(d)' = Current(d)
                          /\ \A x : Owned(d, x)' = Owned(d, x) /\ Branch(x)' = Branch(x)
  BY <1>1 DEF InSection, Live, Current, Owned, Branch, Mechanism, Tick
<1>6. LockInv'
  <2> SUFFICES ASSUME NEW d \in Attempts, InSection(d)
               PROVE  lock'.held /\ lock'.age = call'[d].t
    BY <1>5 DEF LockInv
  <2>1. lock.held /\ lock.age = call[d].t /\ call[d].t \in 0..WorkBound
    BY <1>t DEF IInv, LockInv, Call
  <2> QED BY <1>t, <1>1, <1>3, <2>1
<1>7. OneDeliveryAtATime'
  BY <1>5 DEF IInv, OneDeliveryAtATime
<1>8. ThreadInv'
  <2> SUFFICES ASSUME NEW d \in Attempts PROVE ThreadOK(d)'
    BY DEF ThreadInv
  <2>1. ThreadOK(d) /\ thread' = thread /\ lost' = lost
    BY DEF IInv, ThreadInv, Tick
  <2> QED BY <1>1, <1>5, <2>1 DEF ThreadOK
<1>9. BranchInv'
  BY <1>1, <1>5 DEF IInv, BranchInv
<1> QED BY <1>4, <1>6, <1>7, <1>8, <1>9 DEF IInv

-----------------------------------------------------------------------------
(* The theorems. *)

\* Every step keeps the invariant.
LEMMA NextIInv == IInv /\ [Next]_vars => IInv'
<1> SUFFICES ASSUME IInv, [Next]_vars PROVE IInv'
  OBVIOUS
<1>1. ASSUME NEW d \in Attempts, RouterStep(d) PROVE IInv'
  BY <1>1, RouterStepInv, UnlockStep
<1>2. ASSUME NEW d \in Attempts, ThreadStep(d) PROVE IInv'
  BY <1>2, PushStep, ThreadEndsStep DEF ThreadStep
<1>3. ASSUME NEW d \in Attempts, Refused(d) PROVE IInv'
  <2>1. TypeOK /\ call \in [Attempts -> Call]
    BY DEF IInv, TypeOK
  <2>2. TypeOK'
    BY <1>3, <2>1, ReturnForm DEF Refused, TypeOK
  <2>3. thread[d].at = "off"
    BY <1>3 DEF IInv, ThreadInv, ThreadOK, Refused
  <2> QED BY <1>3, <2>2, <2>3, ReturnStep DEF Refused
<1>4. CASE UNCHANGED vars
  <2>1. TypeOK' /\ LockInv' /\ OneDeliveryAtATime'
    BY <1>4 DEF vars, IInv, TypeOK, LockInv, OneDeliveryAtATime, InSection, Live
  <2>2. ThreadInv'
    <3>1. \A d \in Attempts : Current(d)' = Current(d)
      BY <1>4 DEF vars, Current
    <3>2. \A d \in Attempts : \A c : Owned(d, Branch(c))' = Owned(d, Branch(c))
      BY <1>4 DEF vars, Owned, Branch, Mechanism
    <3> QED BY <1>4, <3>1, <3>2 DEF vars, IInv, ThreadInv, ThreadOK
  <2>3. BranchInv'
    BY <1>4 DEF vars, IInv, BranchInv, InSection, Live, Current, Owned, Branch, Mechanism
  <2> QED BY <2>1, <2>2, <2>3 DEF IInv
<1> QED BY <1>1, <1>2, <1>3, <1>4, RouteStep, CancelStep, VerifyStep, CrashStep, TickStep
        DEF Next

\* The inductive invariant: the lock is as old as the critical section of its holder,
\* one delivery at a time, threads and branches accounted for.
THEOREM Invariance == Spec => []IInv
BY InitIInv, NextIInv, PTL DEF Spec

\* The rows, calls and threads of route_and_deliver stay within their types.
THEOREM TypeCorrect == Spec => []TypeOK
<1>1. IInv => TypeOK
  BY DEF IInv
<1> QED BY <1>1, Invariance, PTL

\* claim_delivery_lock excludes, whatever crashes, cancellations, errors of the store and
\* take-overs happen.
THEOREM LockExcludes == Spec => []OneDeliveryAtATime
<1>1. IInv => OneDeliveryAtATime
  BY DEF IInv
<1> QED BY <1>1, Invariance, PTL

\* The branches of a delivery in progress are force-pushed by no other delivery but a
\* cancelled one.
THEOREM BranchesAreOwn == Spec => []NoForeignPush
<1>1. IInv => NoForeignPush
  BY DEF IInv, BranchInv, Owned, NoForeignPush
<1> QED BY <1>1, Invariance, PTL
=============================================================================
