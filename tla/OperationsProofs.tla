-------------------------- MODULE OperationsProofs --------------------------
(***************************************************************************)
(* The safety properties of the records and watchers beside the delivery   *)
(* loop, for every set of pull requests, page loads, assessments, edits,   *)
(* runs and contents and without the bounds of the model's cfg: each is    *)
(* proved of the composition OperationsMC, whose steps are steps of one    *)
(* part.                                                                   *)
(***************************************************************************)
EXTENDS OperationsMC, SequenceTheorems, TLAPS

-----------------------------------------------------------------------------
(* A step of the composition is a step of each part, or leaves it alone.   *)

\* ... of the pull requests.
LEMMA PullsStep == [Next]_vars => [P!Next]_(P!vars)
<1>. SUFFICES ASSUME Next \/ UNCHANGED vars PROVE P!Next \/ UNCHANGED P!vars
  OBVIOUS
<1>1. CASE part # "pulls"
  BY <1>1 DEF Next, vars, Pulls, Apps, Review, Slo, Health, GitOps, Branch, prVars, P!vars
<1>2. CASE part = "pulls"
  <2>1. CASE UNCHANGED vars
    BY <2>1 DEF vars, prVars, P!vars
  <2>2. CASE Next
    BY <1>2, <2>2 DEF Next, Apps, Review, Slo, Health, GitOps, Branch, P!Next
  <2>. QED  BY <2>1, <2>2
<1>. QED  BY <1>1, <1>2

\* ... of the records of applications.
LEMMA AppsStep == [Next]_vars => [A!Next]_(A!vars)
<1>. SUFFICES ASSUME Next \/ UNCHANGED vars PROVE A!Next \/ UNCHANGED A!vars
  OBVIOUS
<1>1. CASE part # "apps"
  BY <1>1 DEF Next, vars, Pulls, Apps, Review, Slo, Health, GitOps, Branch, appVars, A!vars
<1>2. CASE part = "apps"
  <2>1. CASE UNCHANGED vars
    BY <2>1 DEF vars, appVars, A!vars
  <2>2. CASE Next
    BY <1>2, <2>2 DEF Next, Pulls, Review, Slo, Health, GitOps, Branch, A!Next
  <2>. QED  BY <2>1, <2>2
<1>. QED  BY <1>1, <1>2

\* ... of the manifests under review.
LEMMA ReviewStep == [Next]_vars => [M!Next]_(M!vars)
<1>. SUFFICES ASSUME Next \/ UNCHANGED vars PROVE M!Next \/ UNCHANGED M!vars
  OBVIOUS
<1>1. CASE part # "review"
  BY <1>1 DEF Next, vars, Pulls, Apps, Review, Slo, Health, GitOps, Branch, reviewVars, M!vars
<1>2. CASE part = "review"
  <2>1. CASE UNCHANGED vars
    BY <2>1 DEF vars, reviewVars, M!vars
  <2>2. CASE Next
    BY <1>2, <2>2 DEF Next, Pulls, Apps, Slo, Health, GitOps, Branch, M!Next
  <2>. QED  BY <2>1, <2>2
<1>. QED  BY <1>1, <1>2

\* ... of the delivery branch.
LEMMA BranchStep == [Next]_vars => [B!Next]_(B!vars)
<1>. SUFFICES ASSUME Next \/ UNCHANGED vars PROVE B!Next \/ UNCHANGED B!vars
  OBVIOUS
<1>1. CASE part # "branch"
  BY <1>1 DEF Next, vars, Pulls, Apps, Review, Slo, Health, GitOps, Branch, branchVars, B!vars
<1>2. CASE part = "branch"
  <2>1. CASE UNCHANGED vars
    BY <2>1 DEF vars, branchVars, B!vars
  <2>2. CASE Next
    BY <1>2, <2>2 DEF Next, Pulls, Apps, Review, Slo, Health, GitOps, B!Next
  <2>. QED  BY <2>1, <2>2
<1>. QED  BY <1>1, <1>2

-----------------------------------------------------------------------------
(* A rejection is filed once (PullRequests).                               *)

Shown == [PRs -> P!States \cup {P!Unseen}]
SyncRows == [outcome : {"rejected", "merged", "edited"}, by : {"sync"}]
PrRows == {P!NoRow} \cup SyncRows \cup [outcome : {"rejected"}, by : {"route"}]
PrLoads == {P!Idle} \cup [step : {"poll"}, seen : Shown, gen : {0, 1, 2}]
                    \cup [step : {"sync"}, seen : Shown, todo : SUBSET PRs]
                    \cup [step : {"record", "effects", "sync"}, seen : Shown,
                          todo : SUBSET PRs, pr : PRs, row : SyncRows]

PrTypes ==
  /\ gh \in [PRs -> P!States]
  /\ row \in [PRs -> PrRows]
  /\ feedback \in [PRs -> [P!Names -> Nat]]
  /\ cache \in [fresh : BOOLEAN, data : Shown, gen : {0, 1}]
  /\ load \in [P!Loads -> PrLoads]
  /\ click \in [Clicks -> {P!Idle} \cup [step : {"close", "record"}, pr : PRs]]

Filing(l, p) == load[l].step = "effects" /\ load[l].pr = p

\* Only the load that wrote the row of a rejection files it, and it has not yet.
PrFiled ==
  /\ \A p \in PRs : row[p] = P!NoRow => P!Filed(p) = 0
  /\ \A l \in P!Loads, p \in PRs : Filing(l, p) =>
       /\ P!Filed(p) = 0
       /\ row[p].outcome = "rejected" /\ row[p].by = "sync"
       /\ \A k \in P!Loads : Filing(k, p) => k = l

PrInv == PrTypes /\ PrFiled /\ P!RejectionFiledOnce

\* What the steps of a load make of it is a load again.
LEMMA PrLoadForms ==
  ASSUME NEW l \in P!Loads, NEW v \in PrLoads, PrTypes
  PROVE  [load EXCEPT ![l] = v] \in [P!Loads -> PrLoads]
BY DEF PrTypes

\* A load that has a row to record, or to file, has all its fields.
LEMMA PrRecording ==
  ASSUME PrTypes, NEW l \in P!Loads, load[l].step \in {"record", "effects"}
  PROVE  load[l] \in [step : {"record", "effects", "sync"}, seen : Shown,
                      todo : SUBSET PRs, pr : PRs, row : SyncRows]
<1>1. load[l] \in PrLoads  BY DEF PrTypes
<1>. QED  BY <1>1 DEF PrLoads, P!Idle

\* A load on its way to a row lists pull requests.
LEMMA PrSyncing ==
  ASSUME PrTypes, NEW l \in P!Loads, load[l].step = "sync"
  PROVE  load[l].seen \in Shown /\ load[l].todo \in SUBSET PRs
<1>1. load[l] \in PrLoads  BY DEF PrTypes
<1>. QED  BY <1>1 DEF PrLoads, P!Idle

\* A load that polls has a dictionary.
LEMMA PrPolling ==
  ASSUME PrTypes, NEW l \in P!Loads, load[l].step = "poll"
  PROVE  load[l] \in [step : {"poll"}, seen : Shown, gen : {0, 1, 2}]
<1>1. load[l] \in PrLoads  BY DEF PrTypes
<1>. QED  BY <1>1 DEF PrLoads, P!Idle

\* A step that leaves the rows, what is filed and who is filing alone.
LEMMA PrQuiet ==
  ASSUME PrFiled, P!RejectionFiledOnce, UNCHANGED <<row, feedback>>, missed \subseteq missed',
         \A l \in P!Loads, p \in PRs : Filing(l, p)' <=> Filing(l, p)
  PROVE  PrFiled' /\ P!RejectionFiledOnce'
<1>1. \A p \in PRs : P!Filed(p)' = P!Filed(p)  BY DEF P!Filed
<1>2. \A p \in PRs : P!InFlight(p)' <=> P!InFlight(p)  BY DEF P!InFlight, Filing
<1>3. PrFiled'  BY <1>1 DEF PrFiled
<1>4. P!RejectionFiledOnce'  BY <1>1, <1>2 DEF P!RejectionFiledOnce
<1>. QED  BY <1>3, <1>4

\* A step of a load that neither was filing nor is.
LEMMA PrLoadMoves ==
  ASSUME PrTypes, PrFiled, P!RejectionFiledOnce, UNCHANGED <<row, feedback, missed>>,
         NEW l \in P!Loads, NEW v, load' = [load EXCEPT ![l] = v],
         load[l].step # "effects", v.step # "effects"
  PROVE  PrFiled' /\ P!RejectionFiledOnce'
<1>1. \A k \in P!Loads : load'[k] = IF k = l THEN v ELSE load[k]  BY DEF PrTypes
<1>2. \A k \in P!Loads, p \in PRs : Filing(k, p)' <=> Filing(k, p)  BY <1>1 DEF Filing
<1>. QED  BY <1>2, PrQuiet

\* record_pr_outcome: the one load that finds no row goes on to file.
LEMMA PrRecord ==
  ASSUME PrInv, NEW l \in P!Loads, P!Record(l)
  PROVE  PrInv'
<1>. DEFINE p == load[l].pr
            to == IF row[p] = P!NoRow /\ load[l].row.outcome = "rejected" THEN "effects" ELSE "sync"
            v == [load[l] EXCEPT !.step = to]
<1>0. PrTypes /\ PrFiled /\ P!RejectionFiledOnce  BY DEF PrInv
<1>1. /\ load[l] \in [step : {"record", "effects", "sync"}, seen : Shown,
                       todo : SUBSET PRs, pr : PRs, row : SyncRows]
      /\ load[l].step = "record"
  BY <1>0, PrRecording DEF P!Record
<1>2. /\ v \in PrLoads /\ v.step = to /\ v.pr = p
      /\ load' = [load EXCEPT ![l] = v]
  BY <1>1 DEF P!Record, PrLoads
<1>. HIDE DEF v
<1>3. \A k \in P!Loads : load'[k] = IF k = l THEN v ELSE load[k]  BY <1>0, <1>2 DEF PrTypes
<1>4. p \in PRs /\ load[l].row \in SyncRows  BY <1>1
<1>5. \A q \in PRs : row'[q] = IF q = p /\ row[p] = P!NoRow THEN load[l].row ELSE row[q]
  BY <1>0, <1>4 DEF P!Record, PrTypes
<1>6. PrTypes'
  <2>1. load' \in [P!Loads -> PrLoads]  BY <1>0, <1>2, PrLoadForms
  <2>2. row' \in [PRs -> PrRows]  BY <1>0, <1>4, <1>5 DEF P!Record, PrTypes, PrRows
  <2>. QED  BY <1>0, <2>1, <2>2 DEF P!Record, PrTypes
<1>7. \A q \in PRs : P!Filed(q)' = P!Filed(q)  BY DEF P!Filed, P!Record
<1>8. \A k \in P!Loads, q \in PRs : Filing(k, q)' <=> Filing(k, q) \/ (k = l /\ q = p /\ to = "effects")
  BY <1>1, <1>2, <1>3 DEF Filing
<1>9. \A q \in PRs : P!NoRow.outcome # "rejected"  BY DEF P!NoRow
<1>10. \A k \in P!Loads, q \in PRs : Filing(k, q) => row[q] # P!NoRow
  BY <1>0, <1>9 DEF PrFiled
<1>11. load[l].row.by = "sync" /\ load[l].row.outcome # "none"  BY <1>4 DEF SyncRows
<1>12. PrFiled'
  <2>1. \A q \in PRs : row'[q] = P!NoRow => P!Filed(q)' = 0
    BY <1>0, <1>5, <1>7, <1>11 DEF PrFiled, P!NoRow
  <2>2. ASSUME NEW k \in P!Loads, NEW q \in PRs, Filing(k, q)'
        PROVE  /\ P!Filed(q)' = 0
               /\ row'[q].outcome = "rejected" /\ row'[q].by = "sync"
               /\ \A j \in P!Loads : Filing(j, q)' => j = k
    <3>1. CASE Filing(k, q)
      <4>1. row'[q] = row[q]  BY <1>5, <1>10, <3>1
      <4>2. q = p => to # "effects"  BY <1>10, <3>1
      <4>. QED  BY <1>0, <1>7, <1>8, <3>1, <4>1, <4>2 DEF PrFiled
    <3>2. CASE k = l /\ q = p /\ to = "effects"
      BY <1>0, <1>5, <1>7, <1>8, <1>10, <1>11, <3>2 DEF PrFiled
    <3>. QED  BY <1>8, <2>2, <3>1, <3>2
  <2>. QED  BY <2>1, <2>2 DEF PrFiled
<1>13. P!RejectionFiledOnce'
  <2>. SUFFICES ASSUME NEW q \in PRs
                PROVE  /\ P!Filed(q)' <= 1
                       /\ row'[q].outcome = "rejected" /\ row'[q].by = "sync" /\ q \notin missed'
                            => P!Filed(q)' = 1 \/ P!InFlight(q)'
                       /\ P!Filed(q)' = 1 => row'[q].outcome = "rejected"
    BY DEF P!RejectionFiledOnce
  <2>1. P!InFlight(q) => P!InFlight(q)'  BY <1>8 DEF P!InFlight, Filing
  <2>2. q = p /\ to = "effects" => P!InFlight(q)'  BY <1>8 DEF P!InFlight, Filing
  <2>3. CASE row'[q] = row[q]
    BY <1>0, <1>7, <2>1, <2>3 DEF P!RejectionFiledOnce, P!Record
  <2>4. CASE q = p /\ row[p] = P!NoRow /\ row'[q] = load[l].row
    BY <1>0, <1>7, <2>2, <2>4 DEF PrFiled
  <2>. QED  BY <1>5, <2>3, <2>4
<1>. QED  BY <1>6, <1>12, <1>13 DEF PrInv

\* _record_rejection_side_effects: filed, or lost, and no longer in flight.
LEMMA PrEffects ==
  ASSUME PrInv, NEW l \in P!Loads, P!Effects(l)
  PROVE  PrInv'
<1>. DEFINE v == [load[l] EXCEPT !.step = "sync"]
<1>0. PrTypes /\ PrFiled /\ P!RejectionFiledOnce  BY DEF PrInv
<1>1. /\ load[l] \in [step : {"record", "effects", "sync"}, seen : Shown,
                       todo : SUBSET PRs, pr : PRs, row : SyncRows]
      /\ load[l].step = "effects"
  BY <1>0, PrRecording DEF P!Effects
<1>p. PICK p \in PRs : p = load[l].pr  BY <1>1
<1>2. /\ v \in PrLoads /\ v.step = "sync"
      /\ load' = [load EXCEPT ![l] = v]
  BY <1>1 DEF P!Effects, PrLoads
<1>. HIDE DEF v
<1>3. \A k \in P!Loads : load'[k] = IF k = l THEN v ELSE load[k]  BY <1>0, <1>2 DEF PrTypes
<1>4. \A k \in P!Loads, q \in PRs : Filing(k, q)' <=> Filing(k, q) /\ k # l
  BY <1>2, <1>3 DEF Filing
<1>5. Filing(l, p)  BY <1>1, <1>p DEF Filing
<1>6. /\ P!Filed(p) = 0 /\ row[p].outcome = "rejected"
      /\ \A k \in P!Loads : Filing(k, p) => k = l
  BY <1>0, <1>1, <1>5 DEF PrFiled
<1>7. /\ PrTypes'
      /\ \/ P!Filed(p)' = 1
         \/ P!Filed(p)' = 0 /\ p \in missed'
      /\ \A q \in PRs : q # p => P!Filed(q)' = P!Filed(q)
      /\ missed \subseteq missed' /\ row' = row
  <2>0. load' \in [P!Loads -> PrLoads]  BY <1>0, <1>2, PrLoadForms
  <2>1. CASE feedback' = [feedback EXCEPT ![p][P!NameOf(l)] = @ + 1] /\ UNCHANGED missed
    <3>1. P!NameOf(l) \in P!Names /\ P!Names = {"app", "blank"}  BY DEF P!NameOf, P!Names
    <3>2. feedback' \in [PRs -> [P!Names -> Nat]]  BY <1>0, <1>p, <2>1, <3>1 DEF PrTypes
    <3>3. \A q \in PRs : q # p => feedback'[q] = feedback[q]  BY <1>0, <2>1 DEF PrTypes
    <3>4. feedback'[p] = [feedback[p] EXCEPT ![P!NameOf(l)] = @ + 1]
      BY <1>0, <1>p, <2>1 DEF PrTypes
    <3>5. feedback[p] \in [P!Names -> Nat]  BY <1>0, <1>p DEF PrTypes
    <3>6. feedback[p]["app"] + feedback[p]["blank"] = 0  BY <1>6 DEF P!Filed
    <3>7. feedback'[p]["app"] + feedback'[p]["blank"] = 1
      BY <3>1, <3>4, <3>5, <3>6
    <3>. QED  BY <1>0, <2>0, <2>1, <3>2, <3>3, <3>7 DEF P!Filed, P!Effects, PrTypes
  <2>2. CASE missed' = missed \cup {p} /\ UNCHANGED feedback
    BY <1>0, <1>6, <2>0, <2>2 DEF P!Filed, P!Effects, PrTypes
  <2>. QED  BY <1>p, <2>1, <2>2 DEF P!Effects
<1>8. PrFiled'
  <2>1. \A q \in PRs : row'[q] = P!NoRow => P!Filed(q)' = 0
    BY <1>0, <1>6, <1>7 DEF PrFiled, P!NoRow
  <2>2. ASSUME NEW k \in P!Loads, NEW q \in PRs, Filing(k, q)'
        PROVE  /\ P!Filed(q)' = 0
               /\ row'[q].outcome = "rejected" /\ row'[q].by = "sync"
               /\ \A j \in P!Loads : Filing(j, q)' => j = k
    <3>1. Filing(k, q) /\ q # p  BY <1>4, <1>6, <2>2
    <3>. QED  BY <1>0, <1>4, <1>7, <3>1 DEF PrFiled
  <2>. QED  BY <2>1, <2>2 DEF PrFiled
<1>9. P!RejectionFiledOnce'
  <2>. SUFFICES ASSUME NEW q \in PRs
                PROVE  /\ P!Filed(q)' <= 1
                       /\ row'[q].outcome = "rejected" /\ row'[q].by = "sync" /\ q \notin missed'
                            => P!Filed(q)' = 1 \/ P!InFlight(q)'
                       /\ P!Filed(q)' = 1 => row'[q].outcome = "rejected"
    BY DEF P!RejectionFiledOnce
  <2>1. CASE q = p  BY <1>6, <1>7, <2>1
  <2>2. CASE q # p
    <3>1. P!InFlight(q) => P!InFlight(q)'
      BY <1>4, <1>5, <2>2 DEF P!InFlight, Filing
    <3>. QED  BY <1>0, <1>7, <2>2, <3>1 DEF P!RejectionFiledOnce
  <2>. QED  BY <2>1, <2>2
<1>. QED  BY <1>7, <1>8, <1>9 DEF PrInv

\* The Close button writes a row of its own, and files nothing.
LEMMA PrRecordClose ==
  ASSUME PrInv, NEW c \in Clicks, P!RecordClose(c)
  PROVE  PrInv'
<1>. DEFINE p == click[c].pr
            new == [outcome |-> "rejected", by |-> "route"]
<1>0. PrTypes /\ PrFiled /\ P!RejectionFiledOnce  BY DEF PrInv
<1>1. p \in PRs  BY <1>0 DEF P!RecordClose, PrTypes, P!Idle
<1>2. \/ row' = row
      \/ row[p] = P!NoRow /\ row' = [row EXCEPT ![p] = new]
  BY <1>0, <1>1 DEF P!RecordClose, PrTypes
<1>a. row \in [PRs -> PrRows] /\ new \in PrRows  BY <1>0 DEF PrTypes, PrRows
<1>b. \A q \in PRs : \/ row'[q] = row[q]
                     \/ /\ q = p /\ row[p] = P!NoRow
                        /\ row'[q] = new
  BY <1>2, <1>a
<1>3. PrTypes'
  <2>1. row' \in [PRs -> PrRows]  BY <1>2, <1>a
  <2>. QED  BY <1>0, <2>1 DEF P!RecordClose, PrTypes
<1>4. \A q \in PRs : P!Filed(q)' = P!Filed(q)  BY DEF P!Filed, P!RecordClose
<1>5. \A k \in P!Loads, q \in PRs : Filing(k, q)' <=> Filing(k, q)
  BY DEF Filing, P!RecordClose
<1>6. \A k \in P!Loads, q \in PRs : Filing(k, q) => row[q] # P!NoRow
  BY <1>0 DEF PrFiled, P!NoRow
<1>7. new.outcome = "rejected" /\ new.by = "route" /\ new # P!NoRow  BY DEF P!NoRow
<1>8. PrFiled'
  <2>1. \A q \in PRs : row'[q] = P!NoRow => P!Filed(q)' = 0
    BY <1>0, <1>b, <1>4, <1>7 DEF PrFiled
  <2>2. \A k \in P!Loads, q \in PRs : Filing(k, q) => row'[q] = row[q]  BY <1>b, <1>6
  <2>. QED  BY <1>0, <1>4, <1>5, <2>1, <2>2 DEF PrFiled
<1>9. P!RejectionFiledOnce'
  <2>1. \A q \in PRs : P!InFlight(q) <=> P!InFlight(q)'  BY <1>5 DEF P!InFlight, Filing
  <2>2. \A q \in PRs : \/ row'[q] = row[q]
                       \/ row'[q].outcome = "rejected" /\ row'[q].by = "route" /\ P!Filed(q)' = 0
    BY <1>0, <1>b, <1>4, <1>7 DEF PrFiled
  <2>. QED  BY <1>0, <1>4, <2>1, <2>2 DEF P!RejectionFiledOnce, P!RecordClose
<1>. QED  BY <1>3, <1>8, <1>9 DEF PrInv

\* A crash loses what was being filed, and says so.
LEMMA PrCrash ==
  ASSUME PrInv, P!Crash
  PROVE  PrInv'
<1>0. PrTypes /\ PrFiled /\ P!RejectionFiledOnce  BY DEF PrInv
<1>1. \A k \in P!Loads : load'[k] = P!Idle  BY DEF P!Crash
<1>2. \A k \in P!Loads, q \in PRs : ~ Filing(k, q)'  BY <1>1 DEF Filing, P!Idle
<1>3. \A q \in PRs : P!Filed(q)' = P!Filed(q)  BY DEF P!Filed, P!Crash
<1>4. \A q \in PRs : P!InFlight(q) => q \in missed'  BY DEF P!InFlight, P!Crash
<1>5. missed \subseteq missed' /\ row' = row  BY DEF P!Crash
<1>6. PrTypes'
  <2>1. P!Blank \in Shown  BY DEF P!Blank, Shown
  <2>. QED  BY <1>0, <2>1 DEF P!Crash, PrTypes, PrLoads
<1>7. PrFiled'  BY <1>0, <1>2, <1>3, <1>5 DEF PrFiled
<1>8. P!RejectionFiledOnce'
  BY <1>0, <1>3, <1>4, <1>5 DEF P!RejectionFiledOnce
<1>. QED  BY <1>6, <1>7, <1>8 DEF PrInv

\* Begin, poll, resolve, choose and end: a load that files nothing yet, or no more.
LEMMA PrLoadSteps ==
  ASSUME PrInv, NEW l \in P!Loads,
         \/ P!BeginFleet(l) \/ P!BeginApp(l) \/ P!Resolve(l) \/ P!EndLoad(l)
         \/ \E p \in PRs : P!Poll(l, p) \/ P!Compute(l, p)
  PROVE  PrInv'
<1>0. PrTypes /\ PrFiled /\ P!RejectionFiledOnce  BY DEF PrInv
<1>1. P!Blank \in Shown  BY DEF P!Blank, Shown
<1>2. ASSUME NEW v \in PrLoads, load' = [load EXCEPT ![l] = v], UNCHANGED <<gh, row, feedback, click, missed>>,
             cache' \in [fresh : BOOLEAN, data : Shown, gen : {0, 1}],
             load[l].step # "effects", v.step # "effects"
      PROVE  PrInv'
  <2>1. PrTypes'  BY <1>0, <1>2, PrLoadForms DEF PrTypes
  <2>2. PrFiled' /\ P!RejectionFiledOnce'  BY <1>0, <1>2, PrLoadMoves
  <2>. QED  BY <2>1, <2>2 DEF PrInv
<1>3. cache \in [fresh : BOOLEAN, data : Shown, gen : {0, 1}]  BY <1>0 DEF PrTypes
<1>4. CASE P!BeginFleet(l)
  <2>. DEFINE v == [step |-> "poll", seen |-> cache'.data, gen |-> cache'.gen]
  <2>1. cache' \in [fresh : BOOLEAN, data : Shown, gen : {0, 1}]
    BY <1>1, <1>3, <1>4 DEF P!BeginFleet
  <2>2. v \in PrLoads /\ v.step # "effects"  BY <2>1 DEF PrLoads
  <2>3. load[l].step # "effects"  BY <1>4 DEF P!BeginFleet, P!Idle
  <2>4. load' = [load EXCEPT ![l] = v] /\ UNCHANGED <<gh, row, feedback, click, missed>>
    BY <1>4 DEF P!BeginFleet
  <2>. QED  BY <1>2, <2>1, <2>2, <2>3, <2>4
<1>5. CASE P!BeginApp(l)
  <2>. DEFINE v == [step |-> "poll", seen |-> P!Blank, gen |-> 2]
  <2>1. v \in PrLoads /\ v.step # "effects"  BY <1>1 DEF PrLoads
  <2>2. load[l].step # "effects"  BY <1>5 DEF P!BeginApp, P!Idle
  <2>3. load' = [load EXCEPT ![l] = v] /\ UNCHANGED <<gh, row, feedback, cache, click, missed>>
    BY <1>5 DEF P!BeginApp
  <2>. QED  BY <1>2, <1>3, <2>1, <2>2, <2>3
<1>6. CASE P!Resolve(l)
  <2>0. load[l] \in [step : {"poll"}, seen : Shown, gen : {0, 1, 2}] /\ load[l].step = "poll"
    BY <1>0, <1>6, PrPolling DEF P!Resolve
  <2>. DEFINE v == [step |-> "sync", seen |-> load[l].seen,
                    todo |-> {p \in PRs : load[l].seen[p] \in {"merged", "closed"} /\ row[p] = P!NoRow}]
  <2>1. v \in PrLoads /\ v.step # "effects"
    <3>1. v \in [step : {"sync"}, seen : Shown, todo : SUBSET PRs]  BY <2>0
    <3>. QED  BY <3>1 DEF PrLoads
  <2>2. cache' \in [fresh : BOOLEAN, data : Shown, gen : {0, 1}]
    BY <1>3, <1>6, <2>0 DEF P!Resolve
  <2>3. load' = [load EXCEPT ![l] = v] /\ UNCHANGED <<gh, row, feedback, click, missed>>
    BY <1>0, <1>6 DEF P!Resolve, PrTypes
  <2>. QED  BY <1>2, <2>0, <2>1, <2>2, <2>3
<1>7. CASE P!EndLoad(l)
  <2>1. P!Idle \in PrLoads /\ P!Idle.step # "effects"  BY DEF PrLoads, P!Idle
  <2>. QED  BY <1>2, <1>3, <1>7, <2>1 DEF P!EndLoad
<1>8. ASSUME NEW p \in PRs, P!Poll(l, p)
      PROVE  PrInv'
  <2>0. load[l] \in [step : {"poll"}, seen : Shown, gen : {0, 1, 2}] /\ load[l].step = "poll"
    BY <1>0, <1>8, PrPolling DEF P!Poll
  <2>1. PICK s \in {gh[p], "unknown"} : load' = [load EXCEPT ![l].seen[p] = s]  BY <1>8 DEF P!Poll
  <2>2. s \in P!States  BY <1>0 DEF PrTypes, P!States
  <2>. DEFINE v == [load[l] EXCEPT !.seen[p] = s]
  <2>3. v \in [step : {"poll"}, seen : Shown, gen : {0, 1, 2}]
    <3>1. [load[l].seen EXCEPT ![p] = s] \in Shown  BY <2>0, <2>2 DEF Shown
    <3>. QED  BY <2>0, <3>1
  <2>4. load' = [load EXCEPT ![l] = v]  BY <2>1
  <2>5. UNCHANGED <<gh, row, feedback, cache, click, missed>>  BY <1>8 DEF P!Poll
  <2>6. v \in PrLoads /\ v.step # "effects"  BY <2>3 DEF PrLoads
  <2>. HIDE DEF v
  <2>. QED  BY <1>2, <1>3, <2>0, <2>4, <2>5, <2>6
<1>9. ASSUME NEW p \in PRs, P!Compute(l, p)
      PROVE  PrInv'
  <2>0. load[l].seen \in Shown /\ load[l].todo \in SUBSET PRs /\ load[l].step = "sync"
    BY <1>0, <1>9, PrSyncing DEF P!Compute
  <2>1. PICK outcome \in {"rejected", "merged", "edited"} : load' = [load EXCEPT ![l] =
          [step |-> "record", seen |-> @.seen, todo |-> @.todo \ {p},
           pr |-> p, row |-> [outcome |-> outcome, by |-> "sync"]]]
    BY <1>9 DEF P!Compute
  <2>. DEFINE v == [step |-> "record", seen |-> load[l].seen, todo |-> load[l].todo \ {p},
                    pr |-> p, row |-> [outcome |-> outcome, by |-> "sync"]]
  <2>2. load' = [load EXCEPT ![l] = v]  BY <1>0, <2>1 DEF PrTypes
  <2>3. v.row \in SyncRows  BY DEF SyncRows
  <2>4. v \in PrLoads /\ v.step # "effects"  BY <2>0, <2>3 DEF PrLoads
  <2>5. UNCHANGED <<gh, row, feedback, cache, click, missed>>  BY <1>9 DEF P!Compute
  <2>. HIDE DEF v
  <2>. QED  BY <1>2, <1>3, <2>0, <2>2, <2>4, <2>5
<1>. QED  BY <1>4, <1>5, <1>6, <1>7, <1>8, <1>9

\* GitHub, the cache and the Close button on its way leave what is filed alone.
LEMMA PrElsewhere ==
  ASSUME PrInv, UNCHANGED <<row, feedback, load, missed>>,
         \/ \E p \in PRs : P!Decide(p) \/ P!Reopen(p) \/ P!MergeRoute(p)
         \/ P!Expire
         \/ \E c \in Clicks : \/ P!ClosePr(c) \/ P!CloseFails(c)
                              \/ \E p \in PRs : P!ClickClose(c, p)
         \/ UNCHANGED P!vars
  PROVE  PrInv'
<1>0. PrTypes /\ PrFiled /\ P!RejectionFiledOnce  BY DEF PrInv
<1>1. PrFiled' /\ P!RejectionFiledOnce'
  <2>1. \A l \in P!Loads, p \in PRs : Filing(l, p)' <=> Filing(l, p)  BY DEF Filing
  <2>. QED  BY <1>0, <2>1, PrQuiet
<1>2. PrTypes'
  <2>1. gh' \in [PRs -> P!States]
    BY <1>0 DEF PrTypes, P!States, P!Decide, P!Reopen, P!MergeRoute, P!Expire, P!ClosePr,
                P!CloseFails, P!ClickClose, P!vars
  <2>2. cache' \in [fresh : BOOLEAN, data : Shown, gen : {0, 1}]
    BY <1>0 DEF PrTypes, P!Decide, P!Reopen, P!MergeRoute, P!Expire, P!ClosePr,
                P!CloseFails, P!ClickClose, P!vars
  <2>3. click' \in [Clicks -> {P!Idle} \cup [step : {"close", "record"}, pr : PRs]]
    <3>1. CASE click' = click  BY <1>0, <3>1 DEF PrTypes
    <3>2. ASSUME NEW c \in Clicks, P!ClosePr(c)
          PROVE  click' \in [Clicks -> {P!Idle} \cup [step : {"close", "record"}, pr : PRs]]
      <4>1. click[c] \in [step : {"close", "record"}, pr : PRs]
        BY <1>0, <3>2 DEF PrTypes, P!ClosePr, P!Idle
      <4>2. [click[c] EXCEPT !.step = "record"] \in [step : {"close", "record"}, pr : PRs]
        BY <4>1
      <4>3. click' = [click EXCEPT ![c] = [click[c] EXCEPT !.step = "record"]]
        BY <3>2 DEF P!ClosePr
      <4>. QED  BY <1>0, <4>2, <4>3 DEF PrTypes
    <3>3. ASSUME NEW c \in Clicks, P!CloseFails(c) \/ \E p \in PRs : P!ClickClose(c, p)
          PROVE  click' \in [Clicks -> {P!Idle} \cup [step : {"close", "record"}, pr : PRs]]
      BY <1>0, <3>3 DEF PrTypes, P!CloseFails, P!ClickClose
    <3>. QED  BY <3>1, <3>2, <3>3 DEF P!Decide, P!Reopen, P!MergeRoute, P!Expire, P!vars
  <2>. QED  BY <1>0, <2>1, <2>2, <2>3 DEF PrTypes
<1>. QED  BY <1>0, <1>1, <1>2 DEF PrInv

\* Every step keeps the invariant of the pull requests.
LEMMA PrStep == PrInv /\ [P!Next]_(P!vars) => PrInv'
<1>. SUFFICES ASSUME PrInv, P!Next \/ UNCHANGED P!vars PROVE PrInv'
  OBVIOUS
<1>1. CASE UNCHANGED P!vars
  BY <1>1, PrElsewhere DEF P!vars
<1>2. CASE P!Next
  <2>1. ASSUME NEW p \in PRs, P!Decide(p) \/ P!Reopen(p) \/ P!MergeRoute(p)
        PROVE  PrInv'
    <3>1. UNCHANGED <<row, feedback, load, missed>>
      BY <2>1 DEF P!Decide, P!Reopen, P!MergeRoute
    <3>. QED  BY <2>1, <3>1, PrElsewhere
  <2>2. CASE P!Expire
    <3>1. UNCHANGED <<row, feedback, load, missed>>  BY <2>2 DEF P!Expire
    <3>. QED  BY <2>2, <3>1, PrElsewhere
  <2>3. ASSUME NEW c \in Clicks, \/ P!ClosePr(c) \/ P!CloseFails(c)
                                 \/ \E p \in PRs : P!ClickClose(c, p)
        PROVE  PrInv'
    <3>1. UNCHANGED <<row, feedback, load, missed>>
      BY <2>3 DEF P!ClosePr, P!CloseFails, P!ClickClose
    <3>. QED  BY <2>3, <3>1, PrElsewhere
  <2>. QED  BY <1>2, <2>1, <2>2, <2>3, PrLoadSteps, PrRecord, PrEffects, PrRecordClose, PrCrash
         DEF P!Next
<1>. QED  BY <1>1, <1>2

\* However many pages, buttons, reopenings and restarts find a pull request
\* closed, record_pr_outcome and _record_rejection_side_effects file its
\* rejection once at most, and a recorded one is filed, in flight or known lost.
THEOREM FiledOnce == Spec => []RejectionFiledOnce
<1>1. Init => PrInv
  <2>. SUFFICES ASSUME P!Init PROVE PrInv
    BY DEF Init
  <2>1. P!Blank \in Shown  BY DEF P!Blank, Shown
  <2>2. PrTypes
    BY <2>1 DEF P!Init, PrTypes, P!States, PrRows, PrLoads, P!Names
  <2>3. \A p \in PRs : P!Filed(p) = 0 /\ row[p].outcome # "rejected"
    BY DEF P!Init, P!Filed, P!Names, P!NoRow
  <2>4. \A l \in P!Loads, p \in PRs : ~ Filing(l, p)  BY DEF P!Init, Filing, P!Idle
  <2>. QED  BY <2>2, <2>3, <2>4 DEF PrInv, PrFiled, P!RejectionFiledOnce
<1>2. PrInv /\ [Next]_vars => PrInv'  BY PullsStep, PrStep
<1>3. PrInv => RejectionFiledOnce  BY DEF PrInv, RejectionFiledOnce
<1>. QED  BY <1>1, <1>2, <1>3, PTL DEF Spec

-----------------------------------------------------------------------------
(* No assessed application drops off the schedule (AppRecords).            *)

Infras == Repos \cup {None, Default}
IsAppRow(r) ==
  /\ r.url \in A!Urls /\ r.embedded \in A!Urls /\ r.infra \in Infras
  /\ r = [url |-> r.url, embedded |-> r.embedded, infra |-> r.infra, at |-> r.at]
AppFacts == [infra : Infras, cadence : A!Cadences]
AppSaves == {A!Idle, [step |-> "done"]} \cup [step : {"insert", "upsert"}, infra : Infras]

AppTypes ==
  /\ \A i \in Saves : assessments[i] = A!NoRow \/ IsAppRow(assessments[i])
  /\ assessments = [i \in Saves |-> assessments[i]]
  /\ apps \in [A!Urls -> {A!NoApp} \cup AppFacts]
  /\ save \in [Saves -> AppSaves]
  /\ reg.step \in {"idle", "get", "write", "app"}
  /\ reg.step # "idle" => reg.id \in Saves /\ reg.infra \in Infras
  /\ reg.step = "write" => reg.report.embedded \in A!Urls
  /\ \/ reg.step \in {"idle", "get"}
     \/ reg = [step |-> reg.step, id |-> reg.id, infra |-> reg.infra, report |-> reg.report]

\* A pipeline that is about to write the application's row has its assessment under
\* the spelling that row will have, and none before.
AppUnderWay ==
  \A i \in Saves : /\ save[i].step \in {"idle", "insert"} => assessments[i] = A!NoRow
                   /\ A!Saving(i) /\ assessments[i] # A!NoRow => assessments[i].url = "canon"

\* NeverDropped, of every spelling with an assessment and not of the newest ones alone.
AppKept ==
  \A u \in A!Urls : A!RowsOf(u) # {} =>
    apps[u] # A!NoApp \/ \E j \in A!RowsOf(u) : A!Saving(j) \/ j \in lost

AppInv == AppTypes /\ AppUnderWay /\ AppKept

\* A row of assessments is never the absence of one, nor a row of apps.
LEMMA AppForms ==
  /\ \A r : IsAppRow(r) => r # A!NoRow
  /\ \A a \in AppFacts : a # A!NoApp
  /\ \A infra \in Infras : A!NewApp(infra) \in AppFacts
  /\ \A a \in AppFacts, infra \in Infras : [a EXCEPT !.infra = infra] \in AppFacts
  /\ \A a \in AppFacts, cadence \in A!Cadences : [a EXCEPT !.cadence = cadence] \in AppFacts
<1>1. ASSUME NEW r, IsAppRow(r), r = A!NoRow PROVE FALSE
  BY <1>1 DEF IsAppRow, A!NoRow, A!Urls
<1>2. ASSUME NEW a \in AppFacts, a = A!NoApp PROVE FALSE
  BY <1>2 DEF AppFacts, A!NoApp, A!Cadences
<1>. QED  BY <1>1, <1>2 DEF AppFacts, A!NewApp, A!Cadences

\* The rows of one spelling, read off the assessments.
LEMMA AppRows ==
  ASSUME AppTypes, NEW u \in A!Urls
  PROVE  A!RowsOf(u) = {i \in Saves : IsAppRow(assessments[i]) /\ assessments[i].url = u}
BY AppForms DEF AppTypes, A!RowsOf, A!Saved

\* What is obtained for an application is a repository.
LEMMA AppObtained ==
  ASSUME NEW given \in Repos \cup {None}, NEW infra \in A!Obtained(given)
  PROVE  infra \in Infras
BY DEF A!Obtained, A!Shared, A!Custom, Infras

\* _upsert_app leaves a row under the normalised spelling, and the others alone.
LEMMA AppUpserted ==
  ASSUME AppTypes, NEW infra \in Infras
  PROVE  /\ A!Upserted(infra) \in [A!Urls -> {A!NoApp} \cup AppFacts]
         /\ A!Upserted(infra)["canon"] # A!NoApp
         /\ \A u \in A!Urls : apps[u] # A!NoApp => A!Upserted(infra)[u] # A!NoApp
<1>. DEFINE a == apps["canon"]
            b == IF a = A!NoApp THEN A!NewApp(infra)
                 ELSE IF infra = None THEN a ELSE [a EXCEPT !.infra = infra]
<1>1. "canon" \in A!Urls /\ a \in {A!NoApp} \cup AppFacts  BY DEF AppTypes, A!Urls
<1>2. b \in AppFacts  BY <1>1, AppForms
<1>3. A!Upserted(infra) = [apps EXCEPT !["canon"] = b]  BY DEF A!Upserted
<1>4. b # A!NoApp  BY <1>2, AppForms
<1>. HIDE DEF a, b
<1>. QED  BY <1>1, <1>2, <1>3, <1>4 DEF AppTypes

\* Nothing is dropped while the assessments stay, rows of apps stay rows, and who is on
\* the way there, or was stopped, remains known.
LEMMA AppQuiet ==
  ASSUME AppTypes, AppKept, UNCHANGED assessments,
         \A u \in A!Urls : apps[u] # A!NoApp => apps'[u] # A!NoApp,
         \A j \in Saves : A!Saving(j) \/ j \in lost =>
            \/ A!Saving(j)' \/ j \in lost'
            \/ apps'["canon"] # A!NoApp /\ (assessments[j] # A!NoRow => assessments[j].url = "canon")
  PROVE  AppKept'
<1>1. \A u \in A!Urls : A!RowsOf(u)' = A!RowsOf(u)  BY DEF A!RowsOf, A!Saved
<1>2. \A u \in A!Urls : \A j \in A!RowsOf(u) : j \in Saves /\ assessments[j] # A!NoRow /\ assessments[j].url = u
  BY DEF A!RowsOf, A!Saved
<1>. QED  BY <1>1, <1>2 DEF AppKept

\* Assess, a push, or a due re-assessment begins a pipeline.
LEMMA AppBegin ==
  ASSUME AppInv, NEW i \in Saves, NEW infra \in Infras, save[i] = A!Idle,
         save' = [save EXCEPT ![i] = [step |-> "insert", infra |-> infra]],
         UNCHANGED <<assessments, apps, reg, lost>>
  PROVE  AppInv'
<1>0. AppTypes /\ AppUnderWay /\ AppKept  BY DEF AppInv
<1>. DEFINE v == [step |-> "insert", infra |-> infra]
<1>1. v \in AppSaves /\ v.step = "insert"  BY DEF AppSaves
<1>2. \A k \in Saves : save'[k] = IF k = i THEN v ELSE save[k]  BY <1>0 DEF AppTypes
<1>3. save' \in [Saves -> AppSaves]  BY <1>0, <1>1 DEF AppTypes
<1>. HIDE DEF v
<1>4. AppTypes'  BY <1>0, <1>3 DEF AppTypes
<1>5. save[i].step = "idle"  BY DEF A!Idle
<1>6. AppUnderWay'  BY <1>0, <1>1, <1>2, <1>5 DEF AppUnderWay, A!Saving
<1>7. \A k \in Saves : A!Saving(k) => A!Saving(k)'  BY <1>2, <1>5 DEF A!Saving
<1>8. AppKept'  BY <1>0, <1>7, AppQuiet
<1>. QED  BY <1>4, <1>6, <1>8 DEF AppInv

\* The assessment is inserted, and its row of apps comes next.
LEMMA AppInsert ==
  ASSUME AppInv, NEW i \in Saves, A!InsertRow(i)
  PROVE  AppInv'
<1>0. AppTypes /\ AppUnderWay /\ AppKept  BY DEF AppInv
<1>1. save[i] \in [step : {"insert", "upsert"}, infra : Infras] /\ save[i].step = "insert"
  BY <1>0 DEF A!InsertRow, AppTypes, AppSaves, A!Idle
<1>. DEFINE v == [save[i] EXCEPT !.step = "upsert"]
            r == A!Row("canon", save[i].infra, A!Now + 1)
<1>2. v \in AppSaves /\ v.step = "upsert"  BY <1>1 DEF AppSaves
<1>3. IsAppRow(r) /\ r.url = "canon"  BY <1>1 DEF A!Row, IsAppRow, A!Urls
<1>4. assessments' = [assessments EXCEPT ![i] = r] /\ save' = [save EXCEPT ![i] = v]
      /\ UNCHANGED <<apps, reg, lost>>
  BY DEF A!InsertRow
<1>. HIDE DEF v, r
<1>5. /\ \A k \in Saves : save'[k] = IF k = i THEN v ELSE save[k]
      /\ \A k \in Saves : assessments'[k] = IF k = i THEN r ELSE assessments[k]
  BY <1>0, <1>4 DEF AppTypes
<1>6. AppTypes'
  <2>1. save' \in [Saves -> AppSaves]  BY <1>0, <1>2, <1>4 DEF AppTypes
  <2>2. assessments' = [k \in Saves |-> assessments'[k]]  BY <1>0, <1>4 DEF AppTypes
  <2>3. \A k \in Saves : assessments'[k] = A!NoRow \/ IsAppRow(assessments'[k])
    BY <1>0, <1>3, <1>5 DEF AppTypes
  <2>. QED  BY <1>0, <1>4, <2>1, <2>2, <2>3 DEF AppTypes
<1>7. AppUnderWay'  BY <1>0, <1>2, <1>3, <1>5 DEF AppUnderWay, A!Saving
<1>8. assessments[i] = A!NoRow  BY <1>0, <1>1 DEF AppUnderWay
<1>9. AppKept'
  <2>. SUFFICES ASSUME NEW u \in A!Urls, A!RowsOf(u)' # {}
                PROVE  apps'[u] # A!NoApp \/ \E j \in A!RowsOf(u)' : A!Saving(j)' \/ j \in lost'
    BY DEF AppKept
  <2>1. A!RowsOf(u)' = {k \in Saves : IsAppRow(assessments'[k]) /\ assessments'[k].url = u}
    BY <1>6, AppForms DEF AppTypes, A!RowsOf, A!Saved
  <2>2. A!RowsOf(u) = {k \in Saves : IsAppRow(assessments[k]) /\ assessments[k].url = u}
    BY <1>0, AppRows
  <2>3. i \notin A!RowsOf(u)  BY <1>8, <2>2, AppForms
  <2>4. CASE u = "canon"
    BY <1>2, <1>3, <1>5, <2>1, <2>4 DEF A!Saving
  <2>5. CASE u # "canon"
    <3>1. A!RowsOf(u)' = A!RowsOf(u)  BY <1>3, <1>5, <2>1, <2>2, <2>3, <2>5
    <3>2. \A j \in A!RowsOf(u) : A!Saving(j) => A!Saving(j)'
      BY <1>5, <2>2, <2>3 DEF A!Saving
    <3>. QED  BY <1>0, <1>4, <3>1, <3>2 DEF AppKept
  <2>. QED  BY <2>4, <2>5
<1>. QED  BY <1>6, <1>7, <1>9 DEF AppInv

\* The pipeline writes the row of apps.
LEMMA AppFinishSave ==
  ASSUME AppInv, NEW i \in Saves, A!FinishSave(i)
  PROVE  AppInv'
<1>0. AppTypes /\ AppUnderWay /\ AppKept  BY DEF AppInv
<1>1. save[i].infra \in Infras /\ save[i].step = "upsert"
  BY <1>0 DEF A!FinishSave, AppTypes, AppSaves, A!Idle
<1>2. /\ apps' \in [A!Urls -> {A!NoApp} \cup AppFacts]
      /\ apps'["canon"] # A!NoApp
      /\ \A u \in A!Urls : apps[u] # A!NoApp => apps'[u] # A!NoApp
  BY <1>0, <1>1, AppUpserted DEF A!FinishSave
<1>3. save' = [save EXCEPT ![i] = [step |-> "done"]] /\ UNCHANGED <<assessments, reg, lost>>
  BY DEF A!FinishSave
<1>4. \A k \in Saves : save'[k] = IF k = i THEN [step |-> "done"] ELSE save[k]  BY <1>0, <1>3 DEF AppTypes
<1>5. AppTypes'
  <2>1. save' \in [Saves -> AppSaves]  BY <1>0, <1>3 DEF AppTypes, AppSaves
  <2>. QED  BY <1>0, <1>2, <1>3, <2>1 DEF AppTypes
<1>6. AppUnderWay'  BY <1>0, <1>3, <1>4 DEF AppUnderWay, A!Saving
<1>7. AppKept'
  <2>1. \A k \in Saves : A!Saving(k) => A!Saving(k)' \/ k = i  BY <1>4 DEF A!Saving
  <2>2. assessments[i] # A!NoRow => assessments[i].url = "canon"
    BY <1>0, <1>1 DEF AppUnderWay, A!Saving
  <2>. QED  BY <1>0, <1>2, <1>3, <2>1, <2>2, AppQuiet
<1>. QED  BY <1>5, <1>6, <1>7 DEF AppInv

\* The portal stops: a pipeline between its two statements is known to be lost.
LEMMA AppCrash ==
  ASSUME AppInv, A!Crash
  PROVE  AppInv'
<1>0. AppTypes /\ AppUnderWay /\ AppKept  BY DEF AppInv
<1>1. \A k \in Saves : save'[k] = IF save[k].step \in {"insert", "upsert"} THEN [step |-> "done"] ELSE save[k]
  BY DEF A!Crash
<1>2. UNCHANGED <<assessments, apps>> /\ reg' = A!Idle  BY DEF A!Crash
<1>3. AppTypes'
  <2>1. save' \in [Saves -> AppSaves]  BY <1>0, <1>1 DEF AppTypes, AppSaves, A!Crash
  <2>2. reg'.step = "idle"  BY <1>2 DEF A!Idle
  <2>. QED  BY <1>0, <1>2, <2>1, <2>2 DEF AppTypes
<1>4. AppUnderWay'  BY <1>0, <1>1, <1>2 DEF AppUnderWay, A!Saving
<1>5. \A k \in Saves : A!Saving(k) \/ k \in lost => k \in lost'  BY DEF A!Crash, A!Saving
<1>6. AppKept'  BY <1>0, <1>2, <1>5, AppQuiet
<1>. QED  BY <1>3, <1>4, <1>6 DEF AppInv

\* register_gitops: the rows keep their spelling, and apps only gains.
LEMMA AppRegister ==
  ASSUME AppInv,
         \/ \E i \in Saves, given \in Repos \cup {None} : A!BeginRegister(i, given)
         \/ A!GetReport \/ A!FinishRegister
  PROVE  AppInv'
<1>0. AppTypes /\ AppUnderWay /\ AppKept  BY DEF AppInv
<1>1. UNCHANGED <<assessments, save, lost>>  BY DEF A!BeginRegister, A!GetReport, A!FinishRegister
<1>2. AppUnderWay'  BY <1>0, <1>1 DEF AppUnderWay, A!Saving
<1>3. \A k \in Saves : A!Saving(k)' <=> A!Saving(k)  BY <1>1 DEF A!Saving
<1>4. ASSUME NEW i \in Saves, NEW given \in Repos \cup {None}, A!BeginRegister(i, given)
      PROVE  AppTypes' /\ AppKept'
  <2>1. PICK infra \in A!Obtained(given) : reg' = [step |-> "get", id |-> i, infra |-> infra]
    BY <1>4 DEF A!BeginRegister
  <2>2. infra \in Infras  BY AppObtained
  <2>3. UNCHANGED apps  BY <1>4 DEF A!BeginRegister
  <2>4. AppTypes'  BY <1>0, <1>1, <2>1, <2>2, <2>3 DEF AppTypes
  <2>. QED  BY <1>0, <1>1, <1>3, <2>3, <2>4, AppQuiet
<1>5. CASE A!GetReport
  <2>0. UNCHANGED apps /\ reg.step = "get"  BY <1>5 DEF A!GetReport
  <2>1. AppTypes'
    <3>1. CASE reg.id \in A!Saved
      <4>1. reg.id \in Saves /\ reg.infra \in Infras  BY <1>0, <2>0 DEF AppTypes
      <4>2. IsAppRow(assessments[reg.id])  BY <1>0, <3>1 DEF AppTypes, A!Saved
      <4>3. [assessments[reg.id] EXCEPT !.infra = reg.infra].embedded \in A!Urls
        BY <4>2 DEF IsAppRow
      <4>4. reg' = [step |-> "write", id |-> reg.id, infra |-> reg.infra,
                    report |-> [assessments[reg.id] EXCEPT !.infra = reg.infra]]
        BY <1>5, <3>1 DEF A!GetReport
      <4>. QED  BY <1>0, <1>1, <2>0, <4>1, <4>3, <4>4 DEF AppTypes
    <3>2. CASE reg.id \notin A!Saved
      <4>1. reg'.step = "idle"  BY <1>5, <3>2 DEF A!GetReport, A!Idle
      <4>. QED  BY <1>0, <1>1, <2>0, <4>1 DEF AppTypes
    <3>. QED  BY <3>1, <3>2
  <2>2. AppKept'
    <3>1. \A u \in A!Urls : apps[u] # A!NoApp => apps'[u] # A!NoApp  BY <2>0
    <3>. QED  BY <1>0, <1>1, <1>3, <3>1, AppQuiet
  <2>. QED  BY <1>2, <2>1, <2>2 DEF AppInv
<1>6. CASE A!FinishRegister
  <2>1. reg.infra \in Infras  BY <1>0, <1>6 DEF A!FinishRegister, AppTypes
  <2>2. /\ apps' \in [A!Urls -> {A!NoApp} \cup AppFacts]
        /\ \A u \in A!Urls : apps[u] # A!NoApp => apps'[u] # A!NoApp
    BY <1>0, <1>6, <2>1, AppUpserted DEF A!FinishRegister
  <2>3. reg'.step = "idle"  BY <1>6 DEF A!FinishRegister, A!Idle
  <2>4. AppTypes'  BY <1>0, <1>1, <2>2, <2>3 DEF AppTypes
  <2>5. AppKept'
    <3>1. \A u \in A!Urls : apps[u] # A!NoApp => apps'[u] # A!NoApp  BY <2>2
    <3>. QED  BY <1>0, <1>1, <1>3, <3>1, AppQuiet
  <2>. QED  BY <1>2, <2>4, <2>5 DEF AppInv
<1>. QED  BY <1>2, <1>4, <1>5, <1>6 DEF AppInv

\* set_infra_repo_url writes the report back: the row keeps its spelling.
LEMMA AppWriteReport ==
  ASSUME AppInv, A!WriteReport
  PROVE  AppInv'
<1>0. AppTypes /\ AppUnderWay /\ AppKept  BY DEF AppInv
<1>1. UNCHANGED <<apps, save, lost>>  BY DEF A!WriteReport
<1>2. reg.step = "write" /\ reg.id \in Saves /\ reg.infra \in Infras /\ reg.report.embedded \in A!Urls
  BY <1>0 DEF A!WriteReport, AppTypes
<1>3. /\ reg'.step = "app" /\ reg'.id = reg.id /\ reg'.infra = reg.infra
      /\ reg' = [step |-> reg'.step, id |-> reg'.id, infra |-> reg'.infra, report |-> reg'.report]
  BY <1>0, <1>2 DEF A!WriteReport, AppTypes
<1>4. /\ assessments' = [k \in Saves |-> assessments'[k]]
      /\ \A k \in Saves : \/ assessments'[k] = assessments[k]
                          \/ /\ assessments[k] # A!NoRow
                             /\ IsAppRow(assessments'[k]) /\ assessments'[k].url = assessments[k].url
  <2>1. CASE reg.id \notin A!Saved
    BY <1>0, <2>1 DEF A!WriteReport, AppTypes
  <2>2. CASE reg.id \in A!Saved
    <3>. DEFINE r == [assessments[reg.id] EXCEPT !.embedded = reg.report.embedded]
                s == [r EXCEPT !.infra = reg.infra]
    <3>1. IsAppRow(assessments[reg.id]) /\ assessments[reg.id] # A!NoRow
      BY <1>0, <2>2 DEF AppTypes, A!Saved
    <3>2. /\ r = [url |-> r.url, embedded |-> r.embedded, infra |-> r.infra, at |-> r.at]
          /\ r.url = assessments[reg.id].url /\ r.url \in A!Urls /\ r.embedded \in A!Urls
      BY <1>2, <3>1 DEF IsAppRow
    <3>3. assessments' = [[assessments EXCEPT ![reg.id] = r] EXCEPT ![reg.id] = s]
      BY <1>0, <1>2, <2>2 DEF A!WriteReport, AppTypes
    <3>. HIDE DEF r
    <3>4. IsAppRow(s) /\ s.url = assessments[reg.id].url
      BY <1>2, <3>2 DEF IsAppRow
    <3>. HIDE DEF s
    <3>. QED  BY <1>0, <1>2, <3>1, <3>3, <3>4 DEF AppTypes
  <2>. QED  BY <2>1, <2>2
<1>5. \A k \in Saves : assessments'[k] = A!NoRow <=> assessments[k] = A!NoRow  BY <1>4, AppForms
<1>6. \A k \in Saves : assessments[k] # A!NoRow => assessments'[k].url = assessments[k].url  BY <1>4
<1>7. AppTypes'  BY <1>0, <1>1, <1>2, <1>3, <1>4 DEF AppTypes
<1>8. \A k \in Saves : A!Saving(k)' <=> A!Saving(k)  BY <1>1 DEF A!Saving
<1>9. AppUnderWay'  BY <1>0, <1>1, <1>5, <1>6, <1>8 DEF AppUnderWay
<1>10. \A u \in A!Urls : A!RowsOf(u)' = A!RowsOf(u)  BY <1>5, <1>6 DEF A!RowsOf, A!Saved
<1>11. \A u \in A!Urls : A!RowsOf(u) \subseteq Saves  BY DEF A!RowsOf, A!Saved
<1>12. AppKept'  BY <1>0, <1>1, <1>8, <1>10, <1>11 DEF AppKept
<1>. QED  BY <1>7, <1>9, <1>12 DEF AppInv

\* set_assessment_cadence updates a row of apps, and makes or unmakes none.
LEMMA AppCadence ==
  ASSUME AppInv, NEW i \in Saves, NEW cadence \in A!Cadences, A!SetCadence(i, cadence)
  PROVE  AppInv'
<1>0. AppTypes /\ AppUnderWay /\ AppKept  BY DEF AppInv
<1>1. UNCHANGED <<assessments, save, reg, lost>>  BY DEF A!SetCadence
<1>2. PICK url \in A!Urls :
        apps' = IF apps[url] = A!NoApp THEN apps ELSE [apps EXCEPT ![url].cadence = cadence]
  <2>1. assessments[i].embedded \in A!Urls
    BY <1>0 DEF A!SetCadence, A!Saved, AppTypes, IsAppRow
  <2>. QED  BY <2>1 DEF A!SetCadence
<1>3. /\ apps' \in [A!Urls -> {A!NoApp} \cup AppFacts]
      /\ \A u \in A!Urls : apps[u] # A!NoApp => apps'[u] # A!NoApp
  <2>1. CASE apps[url] = A!NoApp  BY <1>0, <1>2, <2>1 DEF AppTypes
  <2>2. CASE apps[url] # A!NoApp
    <3>. DEFINE a == [apps[url] EXCEPT !.cadence = cadence]
    <3>1. apps' = [apps EXCEPT ![url] = a]  BY <1>2, <2>2
    <3>2. a \in AppFacts /\ a # A!NoApp
      <4>1. apps[url] \in AppFacts  BY <1>0, <2>2 DEF AppTypes
      <4>2. a \in AppFacts  BY <4>1, AppForms
      <4>. QED  BY <4>2, AppForms
    <3>. HIDE DEF a
    <3>. QED  BY <1>0, <3>1, <3>2 DEF AppTypes
  <2>. QED  BY <2>1, <2>2
<1>4. AppTypes'  BY <1>0, <1>1, <1>3 DEF AppTypes
<1>5. \A k \in Saves : A!Saving(k)' <=> A!Saving(k)  BY <1>1 DEF A!Saving
<1>6. AppUnderWay'  BY <1>0, <1>1, <1>5 DEF AppUnderWay
<1>7. AppKept'  BY <1>0, <1>1, <1>3, <1>5, AppQuiet
<1>. QED  BY <1>4, <1>6, <1>7 DEF AppInv

\* delete: all rows of a spelling go together.
LEMMA AppDelete ==
  ASSUME AppInv, NEW i \in Saves, A!Delete(i)
  PROVE  AppInv'
<1>0. AppTypes /\ AppUnderWay /\ AppKept  BY DEF AppInv
<1>1. UNCHANGED <<apps, save, reg, lost>>  BY DEF A!Delete
<1>2. IsAppRow(assessments[i])  BY <1>0 DEF A!Delete, A!Saved, AppTypes
<1>3. PICK url \in A!Urls : url = assessments[i].url  BY <1>2 DEF IsAppRow
<1>4. /\ assessments' = [k \in Saves |-> assessments'[k]]
      /\ \A k \in Saves : assessments'[k] = IF k \in A!RowsOf(url) THEN A!NoRow ELSE assessments[k]
  BY <1>3 DEF A!Delete
<1>5. AppTypes'
  <2>1. \A k \in Saves : assessments'[k] = A!NoRow \/ IsAppRow(assessments'[k])
    BY <1>0, <1>4 DEF AppTypes
  <2>. QED  BY <1>0, <1>1, <1>4, <2>1 DEF AppTypes
<1>6. \A k \in Saves : A!Saving(k)' <=> A!Saving(k)  BY <1>1 DEF A!Saving
<1>7. AppUnderWay'  BY <1>0, <1>1, <1>4, <1>6 DEF AppUnderWay
<1>8. \A u \in A!Urls : A!RowsOf(u)' = IF u = url THEN {} ELSE A!RowsOf(u)
  BY <1>4 DEF A!RowsOf, A!Saved
<1>9. \A u \in A!Urls : A!RowsOf(u) \subseteq Saves  BY DEF A!RowsOf, A!Saved
<1>10. AppKept'  BY <1>0, <1>1, <1>6, <1>8, <1>9 DEF AppKept
<1>. QED  BY <1>5, <1>7, <1>10 DEF AppInv

\* _merge_app_repo_url keeps a row when there was one, under the normalised spelling.
LEMMA AppMerged ==
  ASSUME AppTypes, NEW newer \in A!Urls
  PROVE  /\ A!MergedApp(newer) \in [A!Urls -> {A!NoApp} \cup AppFacts]
         /\ \A u \in A!Urls : apps[u] # A!NoApp => A!MergedApp(newer)["canon"] # A!NoApp
<1>0. A!Urls = {"canon", "legacy"} /\ apps \in [A!Urls -> {A!NoApp} \cup AppFacts]
  BY DEF A!Urls, AppTypes
<1>. DEFINE older == IF newer = "legacy" THEN "canon" ELSE "legacy"
            infra == IF apps[newer].infra = None THEN apps[older].infra ELSE apps[newer].infra
<1>1. CASE apps["legacy"] = A!NoApp
  <2>1. A!MergedApp(newer) = apps  BY <1>1 DEF A!MergedApp
  <2>. QED  BY <1>0, <1>1, <2>1
<1>2. CASE apps["legacy"] # A!NoApp /\ apps["canon"] = A!NoApp
  <2>1. A!MergedApp(newer) = [u \in A!Urls |-> IF u = "canon" THEN apps["legacy"] ELSE A!NoApp]
    BY <1>2 DEF A!MergedApp
  <2>. QED  BY <1>0, <1>2, <2>1
<1>3. CASE apps["legacy"] # A!NoApp /\ apps["canon"] # A!NoApp
  <2>1. A!MergedApp(newer) = [apps EXCEPT !["legacy"] = A!NoApp, !["canon"].infra = infra]
    BY <1>3 DEF A!MergedApp
  <2>2. apps["canon"] \in AppFacts /\ apps["legacy"] \in AppFacts  BY <1>0, <1>3
  <2>3. infra \in Infras  BY <1>0, <2>2 DEF AppFacts
  <2>. DEFINE a == [apps["canon"] EXCEPT !.infra = infra]
  <2>4. a \in AppFacts  BY <2>2, <2>3, AppForms
  <2>5. a # A!NoApp  BY <2>4, AppForms
  <2>6. A!MergedApp(newer) = [[apps EXCEPT !["legacy"] = A!NoApp] EXCEPT !["canon"] = a]
    BY <1>0, <2>1
  <2>. HIDE DEF a
  <2>. QED  BY <1>0, <2>4, <2>5, <2>6
<1>. QED  BY <1>1, <1>2, <1>3

\* dedupe_repo_urls: the rows of the other spelling join the normalised one, and so does
\* the application, or the pipeline that is to make it.
LEMMA AppDedupe ==
  ASSUME AppInv, A!Dedupe
  PROVE  AppInv'
<1>0. AppTypes /\ AppUnderWay /\ AppKept  BY DEF AppInv
<1>1. UNCHANGED <<save, reg, lost>>  BY DEF A!Dedupe
<1>2. PICK newer \in A!Urls : apps' = A!MergedApp(newer)  BY DEF A!Dedupe
<1>3. /\ apps' \in [A!Urls -> {A!NoApp} \cup AppFacts]
      /\ \A u \in A!Urls : apps[u] # A!NoApp => apps'["canon"] # A!NoApp
  BY <1>0, <1>2, AppMerged
<1>4. "canon" \in A!Urls /\ "legacy" \in A!Urls /\ A!Urls = {"canon", "legacy"}  BY DEF A!Urls
<1>5. \A u \in A!Urls : A!RowsOf(u) = {k \in Saves : IsAppRow(assessments[k]) /\ assessments[k].url = u}
  BY <1>0, AppRows
<1>6. /\ assessments' = [k \in Saves |-> assessments'[k]]
      /\ \A k \in Saves :
           IF k \in A!RowsOf("legacy")
           THEN IsAppRow(assessments'[k]) /\ assessments'[k].url = "canon"
           ELSE assessments'[k] = assessments[k]
  <2>1. \A k \in Saves : k \in A!RowsOf("legacy") => IsAppRow(assessments[k])  BY <1>4, <1>5
  <2>2. ASSUME NEW r, IsAppRow(r), NEW s, s = [r EXCEPT !.url = "canon", !.embedded = "canon"]
        PROVE  IsAppRow(s) /\ s.url = "canon"
    <3>. DEFINE w == [url |-> "canon", embedded |-> "canon", infra |-> r.infra, at |-> r.at]
    <3>1. r = [url |-> r.url, embedded |-> r.embedded, infra |-> r.infra, at |-> r.at]
      BY <2>2 DEF IsAppRow
    <3>2. s = w  BY <2>2, <3>1
    <3>3. IsAppRow(w)  BY <1>4, <2>2 DEF IsAppRow
    <3>. QED  BY <3>2, <3>3
  <2>3. assessments' = [k \in Saves |-> IF k \in A!RowsOf("legacy")
                          THEN [assessments[k] EXCEPT !.url = "canon", !.embedded = "canon"]
                          ELSE assessments[k]]
    BY DEF A!Dedupe
  <2>4. \A k \in Saves : k \in A!RowsOf("legacy") =>
          assessments'[k] = [assessments[k] EXCEPT !.url = "canon", !.embedded = "canon"]
    BY <2>3
  <2>5. \A k \in Saves : k \in A!RowsOf("legacy") =>
          IsAppRow(assessments'[k]) /\ assessments'[k].url = "canon"
    BY <2>1, <2>2, <2>4
  <2>6. \A k \in Saves : k \notin A!RowsOf("legacy") => assessments'[k] = assessments[k]
    BY <2>3
  <2>7. assessments' = [k \in Saves |-> assessments'[k]]  BY <2>3
  <2>. QED  BY <2>5, <2>6, <2>7
<1>7. AppTypes'
  <2>1. \A k \in Saves : assessments'[k] = A!NoRow \/ IsAppRow(assessments'[k])
    BY <1>0, <1>6 DEF AppTypes
  <2>. QED  BY <1>0, <1>1, <1>3, <1>6, <2>1 DEF AppTypes
<1>8. \A k \in Saves : A!Saving(k)' <=> A!Saving(k)  BY <1>1 DEF A!Saving
<1>9. AppUnderWay'
  <2>1. \A k \in Saves : k \in A!RowsOf("legacy") => assessments[k] # A!NoRow
    BY <1>4, <1>5, AppForms
  <2>. QED  BY <1>0, <1>1, <1>6, <1>8, <2>1 DEF AppUnderWay
<1>10. \A u \in A!Urls : A!RowsOf(u)' = {k \in Saves : IsAppRow(assessments'[k]) /\ assessments'[k].url = u}
  BY <1>7, AppForms DEF AppTypes, A!RowsOf, A!Saved
<1>11. A!RowsOf("legacy")' = {} /\ A!RowsOf("canon")' = A!RowsOf("canon") \cup A!RowsOf("legacy")
  <2>1. A!RowsOf("legacy")' = {}  BY <1>4, <1>5, <1>6, <1>10
  <2>2. A!RowsOf("canon")' = A!RowsOf("canon") \cup A!RowsOf("legacy")
    BY <1>4, <1>5, <1>6, <1>10
  <2>. QED  BY <2>1, <2>2
<1>12. AppKept'
  <2>1. ASSUME A!RowsOf("canon")' # {}, apps'["canon"] = A!NoApp
        PROVE  \E j \in A!RowsOf("canon")' : A!Saving(j)' \/ j \in lost'
    <3>1. PICK u \in A!Urls : A!RowsOf(u) # {}  BY <1>4, <1>11, <2>1
    <3>2. PICK j \in A!RowsOf(u) : A!Saving(j) \/ j \in lost  BY <1>0, <1>3, <2>1, <3>1 DEF AppKept
    <3>3. j \in A!RowsOf("canon")' /\ j \in Saves  BY <1>4, <1>5, <1>11
    <3>. QED  BY <1>1, <1>8, <3>2, <3>3
  <2>. QED  BY <1>4, <1>11, <2>1 DEF AppKept
<1>. QED  BY <1>7, <1>9, <1>12 DEF AppInv

\* Every step keeps the invariant of the applications' records.
LEMMA AppStep == AppInv /\ [A!Next]_(A!vars) => AppInv'
<1>. SUFFICES ASSUME AppInv, A!Next \/ UNCHANGED A!vars PROVE AppInv'
  OBVIOUS
<1>0. AppTypes /\ AppUnderWay /\ AppKept  BY DEF AppInv
<1>1. ASSUME UNCHANGED <<assessments, apps, save, reg, lost>>
      PROVE  AppInv'
  <2>1. AppTypes'  BY <1>0, <1>1 DEF AppTypes
  <2>2. \A k \in Saves : A!Saving(k)' <=> A!Saving(k)  BY <1>1 DEF A!Saving
  <2>3. AppUnderWay'  BY <1>0, <1>1, <2>2 DEF AppUnderWay
  <2>4. AppKept'  BY <1>0, <1>1, <2>2, AppQuiet
  <2>. QED  BY <2>1, <2>3, <2>4 DEF AppInv
<1>2. A!LastKnown \in Infras
  <2>1. apps["canon"] \in {A!NoApp} \cup AppFacts  BY <1>0 DEF AppTypes, A!Urls
  <2>. QED  BY <2>1 DEF A!LastKnown, AppFacts, Infras
<1>3. ASSUME NEW i \in Saves, A!BeginSave(i) \/ A!TriggerAssess(i)
      PROVE  AppInv'
  BY <1>2, <1>3, AppBegin DEF A!BeginSave, A!TriggerAssess
<1>4. ASSUME NEW i \in Saves, NEW given \in Repos \cup {None}, A!BeginAssess(i, given)
      PROVE  AppInv'
  <2>1. PICK infra \in A!Obtained(given) : save' = [save EXCEPT ![i] = [step |-> "insert", infra |-> infra]]
    BY <1>4 DEF A!BeginAssess
  <2>2. infra \in Infras  BY AppObtained
  <2>. QED  BY <1>4, <2>1, <2>2, AppBegin DEF A!BeginAssess
<1>5. CASE A!Elapse \/ A!CheckDueApps \/ A!TriggerFails \/ UNCHANGED A!vars
  BY <1>1, <1>5 DEF A!Elapse, A!CheckDueApps, A!TriggerFails, A!vars
<1>. QED  BY <1>3, <1>4, <1>5, AppInsert, AppFinishSave, AppDelete, AppCadence, AppRegister,
             AppWriteReport, AppDedupe, AppCrash DEF A!Next

\* Every application on the Fleet page is one the scheduler can find, however saves,
\* registrations, merges of spellings (dedupe_repo_urls), deletions and rescheduling
\* interleave, but for a pipeline that stopped between its two statements.
THEOREM AppsNeverDropped == Spec => []NeverDropped
<1>1. Init => AppInv
  <2>. SUFFICES ASSUME A!Init PROVE AppInv
    BY DEF Init
  <2>1. PICK old \in {{}} \cup {{i} : i \in Saves}, url \in A!Urls, infra \in Repos \cup {None},
             cadence \in A!Cadences :
       /\ old = {} => url = "canon" /\ infra = None /\ cadence = "daily"
       /\ assessments = [i \in Saves |-> IF i \in old THEN A!Row(url, infra, 1) ELSE A!NoRow]
       /\ apps = [u \in A!Urls |-> IF old # {} /\ u = url
                                 THEN [infra |-> infra, cadence |-> cadence] ELSE A!NoApp]
       /\ save = [i \in Saves |-> IF i \in old THEN [step |-> "done"] ELSE A!Idle]
    BY Zenon DEF A!Init
  <2>2. IsAppRow(A!Row(url, infra, 1)) /\ A!Row(url, infra, 1).url = url
    BY DEF A!Row, IsAppRow, Infras
  <2>3. AppTypes
    <3>1. \A i \in Saves : assessments[i] = A!NoRow \/ IsAppRow(assessments[i])  BY <2>1, <2>2
    <3>2. apps \in [A!Urls -> {A!NoApp} \cup AppFacts]  BY <2>1 DEF AppFacts, Infras
    <3>3. save \in [Saves -> AppSaves]  BY <2>1 DEF AppSaves
    <3>4. reg.step = "idle"  BY DEF A!Init, A!Idle
    <3>. QED  BY <2>1, <3>1, <3>2, <3>3, <3>4 DEF AppTypes
  <2>4. AppUnderWay  BY <2>1 DEF AppUnderWay, A!Saving, A!Idle
  <2>5. AppKept
    <3>1. \A u \in A!Urls : A!RowsOf(u) # {} => old # {} /\ u = url
      BY <2>1, <2>2 DEF A!RowsOf, A!Saved
    <3>2. [infra |-> infra, cadence |-> cadence] # A!NoApp
      <4>1. [infra |-> infra, cadence |-> cadence] \in AppFacts  BY DEF AppFacts, Infras
      <4>. QED  BY <4>1, AppForms
    <3>. QED  BY <2>1, <3>1, <3>2 DEF AppKept
  <2>. QED  BY <2>3, <2>4, <2>5 DEF AppInv
<1>2. AppInv /\ [Next]_vars => AppInv'  BY AppsStep, AppStep
<1>3. AppInv => NeverDropped
  <2>. SUFFICES ASSUME AppInv, NEW i \in A!Fleet
                PROVE  \/ apps[assessments[i].url] # A!NoApp
                       \/ \E j \in A!RowsOf(assessments[i].url) : A!Saving(j) \/ j \in lost
    BY DEF NeverDropped, A!NeverDropped
  <2>1. PICK u \in A!Urls : i \in A!RowsOf(u)  BY DEF A!Fleet, A!Latest
  <2>2. assessments[i].url = u  BY <2>1 DEF A!RowsOf
  <2>. QED  BY <2>1, <2>2 DEF AppInv, AppKept
<1>. QED  BY <1>1, <1>2, <1>3, PTL DEF Spec

-----------------------------------------------------------------------------
(* A person's edit stays in its row (ManifestReview).                      *)

ReviewRows == [nr : Nat, files : M!Manifests]

ReviewTypes ==
  /\ saved \subseteq Reviews
  /\ onboardings \in [Reviews -> Seq(ReviewRows)]
  /\ edit \in [Edits -> {M!Idle} \cup [step : {"write", "clear", "done"}, id : Reviews,
                                       file : Files, nr : Nat, files : M!Manifests]]
  /\ run \in [ReviewRuns -> {M!Idle} \cup [step : {"validate", "save"}, id : Reviews,
                                           files : M!Manifests]]

\* The newest row has the highest number, and an edit is of a row that was saved.
ReviewOrder ==
  /\ \A i \in Reviews : \A k \in DOMAIN onboardings[i] : onboardings[i][k].nr <= M!Current(i).nr
  /\ \A e \in Edits : edit[e].step # "idle" /\ edit[e].id \in saved =>
       onboardings[edit[e].id] # <<>> /\ edit[e].nr <= M!Current(edit[e].id).nr

ReviewInv == ReviewTypes /\ ReviewOrder /\ M!EditsSurvive

\* Picking files, or marking some of them, leaves a set of manifests.
LEMMA ReviewFiles ==
  /\ [f \in Files |-> M!Generated] \in M!Manifests
  /\ \A files \in M!Manifests : \A kept \in SUBSET DOMAIN files : [f \in kept |-> files[f]] \in M!Manifests
  /\ \A files \in M!Manifests : \A kept, fixes \in SUBSET DOMAIN files :
       [f \in kept |-> IF f \in fixes THEN M!Fixed ELSE files[f]] \in M!Manifests
  /\ \A files \in M!Manifests : \A f \in DOMAIN files, e \in Edits :
       f \in Files /\ [files EXCEPT ![f] = e] \in M!Manifests
<1>1. \A D \in SUBSET Files : \A m \in [D -> M!Contents] : m \in M!Manifests  BY DEF M!Manifests
<1>2. ASSUME NEW files \in M!Manifests
      PROVE  \E D \in SUBSET Files : files \in [D -> M!Contents]
  BY DEF M!Manifests
<1>3. [f \in Files |-> M!Generated] \in M!Manifests
  <2>1. [f \in Files |-> M!Generated] \in [Files -> M!Contents]  BY DEF M!Contents
  <2>. QED  BY <1>1, <2>1
<1>4. ASSUME NEW files \in M!Manifests, NEW kept \in SUBSET DOMAIN files
      PROVE  [f \in kept |-> files[f]] \in M!Manifests
  <2>1. PICK D \in SUBSET Files : files \in [D -> M!Contents]  BY <1>2
  <2>2. kept \in SUBSET Files /\ [f \in kept |-> files[f]] \in [kept -> M!Contents]  BY <2>1
  <2>. QED  BY <1>1, <2>2
<1>5. ASSUME NEW files \in M!Manifests, NEW kept \in SUBSET DOMAIN files, NEW fixes \in SUBSET DOMAIN files
      PROVE  [f \in kept |-> IF f \in fixes THEN M!Fixed ELSE files[f]] \in M!Manifests
  <2>1. PICK D \in SUBSET Files : files \in [D -> M!Contents]  BY <1>2
  <2>2. /\ kept \in SUBSET Files
        /\ [f \in kept |-> IF f \in fixes THEN M!Fixed ELSE files[f]] \in [kept -> M!Contents]
    BY <2>1 DEF M!Contents
  <2>. QED  BY <1>1, <2>2
<1>6. ASSUME NEW files \in M!Manifests, NEW f \in DOMAIN files, NEW e \in Edits
      PROVE  f \in Files /\ [files EXCEPT ![f] = e] \in M!Manifests
  <2>1. PICK D \in SUBSET Files : files \in [D -> M!Contents]  BY <1>2
  <2>2. f \in Files /\ [files EXCEPT ![f] = e] \in [D -> M!Contents]  BY <2>1 DEF M!Contents
  <2>. QED  BY <1>1, <2>2
<1>. QED  BY <1>3, <1>4, <1>5, <1>6

\* The newest row of an assessment that has rows.
LEMMA ReviewCurrent ==
  ASSUME ReviewTypes, NEW i \in Reviews
  PROVE  /\ onboardings[i] \in Seq(ReviewRows) /\ DOMAIN onboardings[i] = 1..Len(onboardings[i])
         /\ Len(onboardings[i]) \in Nat
         /\ onboardings[i] # <<>> => /\ Len(onboardings[i]) \in DOMAIN onboardings[i]
                                     /\ M!Current(i) \in ReviewRows
                                     /\ M!Current(i).nr \in Nat /\ M!Current(i).files \in M!Manifests
         /\ M!NewNr(i) \in Nat
         /\ onboardings[i] # <<>> => M!NewNr(i) > M!Current(i).nr
<1>1. onboardings[i] \in Seq(ReviewRows)  BY DEF ReviewTypes
<1>2. onboardings[i] # <<>> => Len(onboardings[i]) \in DOMAIN onboardings[i] /\ M!Current(i) \in ReviewRows
  BY <1>1 DEF M!Current
<1>3. onboardings[i] # <<>> => M!Current(i).nr \in Nat /\ M!Current(i).files \in M!Manifests
  BY <1>2 DEF ReviewRows
<1>. QED  BY <1>1, <1>2, <1>3 DEF M!NewNr

\* save_onboarding: a new row, of a higher number than any edit is of.
LEMMA ReviewNewRow ==
  ASSUME ReviewInv, NEW i \in saved, NEW files \in M!Manifests,
         onboardings' = M!WithRow(i, files), UNCHANGED <<saved, edit>>
  PROVE  /\ onboardings' \in [Reviews -> Seq(ReviewRows)]
         /\ ReviewOrder' /\ M!EditsSurvive'
<1>0. ReviewTypes /\ ReviewOrder /\ M!EditsSurvive  BY DEF ReviewInv
<1>1. i \in Reviews  BY <1>0 DEF ReviewTypes
<1>. DEFINE r == [nr |-> M!NewNr(i), files |-> files]
            old == onboardings[i]
            new == Append(old, r)
<1>2. old \in Seq(ReviewRows) /\ DOMAIN old = 1..Len(old) /\ Len(old) \in Nat  BY <1>0, <1>1, ReviewCurrent
<1>3. r \in ReviewRows /\ r.nr = M!NewNr(i) /\ M!NewNr(i) \in Nat  BY <1>0, <1>1, ReviewCurrent DEF ReviewRows
<1>4. onboardings' = [onboardings EXCEPT ![i] = new]  BY DEF M!WithRow
<1>5. /\ new \in Seq(ReviewRows) /\ Len(new) = Len(old) + 1 /\ DOMAIN new = 1..(Len(old) + 1)
      /\ new # <<>>
      /\ \A k \in 1..Len(old) : new[k] = old[k]
      /\ new[Len(old) + 1] = r
  BY <1>2, <1>3
<1>. HIDE DEF r, new
<1>6. \A j \in Reviews : onboardings'[j] = IF j = i THEN new ELSE onboardings[j]
  BY <1>0, <1>4 DEF ReviewTypes
<1>7. \A j \in Reviews : M!Current(j)' = IF j = i THEN r ELSE M!Current(j)
  BY <1>2, <1>5, <1>6 DEF M!Current
<1>8. \A k \in 1..Len(old) : old[k].nr < r.nr
  <2>. SUFFICES ASSUME NEW k \in 1..Len(old) PROVE old[k].nr < r.nr
    OBVIOUS
  <2>1. old # <<>>  BY <1>2
  <2>2. old[k].nr <= M!Current(i).nr /\ M!NewNr(i) > M!Current(i).nr /\ M!Current(i).nr \in Nat
    BY <1>0, <1>1, <1>2, <2>1, ReviewCurrent DEF ReviewOrder
  <2>3. old[k] \in ReviewRows  BY <1>2
  <2>4. old[k].nr \in Nat  BY <2>3 DEF ReviewRows
  <2>. QED  BY <1>3, <2>2, <2>4
<1>9. \A e \in Edits : edit[e].step # "idle" /\ edit[e].id = i => edit[e].nr < r.nr /\ edit[e].nr \in Nat
  <2>. SUFFICES ASSUME NEW e \in Edits, edit[e].step # "idle", edit[e].id = i
                PROVE  edit[e].nr < r.nr /\ edit[e].nr \in Nat
    OBVIOUS
  <2>1. onboardings[i] # <<>> /\ edit[e].nr <= M!Current(i).nr  BY <1>0 DEF ReviewOrder
  <2>2. M!NewNr(i) > M!Current(i).nr /\ M!Current(i).nr \in Nat  BY <1>0, <1>1, <2>1, ReviewCurrent
  <2>3. edit[e].nr \in Nat  BY <1>0 DEF ReviewTypes, M!Idle
  <2>. QED  BY <1>3, <2>1, <2>2, <2>3
<1>10. onboardings' \in [Reviews -> Seq(ReviewRows)]  BY <1>0, <1>4, <1>5 DEF ReviewTypes
<1>11. ReviewOrder'
  <2>1. ASSUME NEW j \in Reviews, NEW k \in DOMAIN onboardings'[j]
        PROVE  onboardings'[j][k].nr <= M!Current(j)'.nr
    <3>1. CASE j # i  BY <1>0, <1>6, <1>7, <2>1, <3>1 DEF ReviewOrder
    <3>2. CASE j = i /\ k = Len(old) + 1  BY <1>3, <1>5, <1>6, <1>7, <3>2
    <3>3. CASE j = i /\ k \in 1..Len(old)
      <4>1. onboardings'[j][k] = old[k] /\ M!Current(j)' = r  BY <1>5, <1>6, <1>7, <3>3
      <4>2. old[k] \in ReviewRows  BY <1>2, <3>3
      <4>3. old[k].nr \in Nat  BY <4>2 DEF ReviewRows
      <4>. QED  BY <1>3, <1>8, <3>3, <4>1, <4>3
    <3>. QED  BY <1>2, <1>5, <1>6, <2>1, <3>1, <3>2, <3>3
  <2>2. ASSUME NEW e \in Edits, edit'[e].step # "idle", edit'[e].id \in saved'
        PROVE  onboardings'[edit'[e].id] # <<>> /\ edit'[e].nr <= M!Current(edit[e].id)'.nr
    <3>1. PICK j \in Reviews : j = edit[e].id  BY <1>0, <2>2 DEF ReviewTypes
    <3>2. M!Current(edit[e].id)' = M!Current(j)'  BY <3>1 DEF M!Current
    <3>3. CASE j = i
      <4>1. edit'[e].nr < r.nr /\ edit'[e].nr \in Nat /\ r.nr \in Nat  BY <1>3, <1>9, <2>2, <3>1, <3>3
      <4>2. M!Current(edit[e].id)' = r  BY <1>7, <3>2, <3>3
      <4>3. onboardings'[edit'[e].id] = new  BY <1>6, <3>1, <3>3
      <4>. QED  BY <1>5, <4>1, <4>2, <4>3
    <3>4. CASE j # i  BY <1>0, <1>6, <1>7, <2>2, <3>1, <3>2, <3>4 DEF ReviewOrder
    <3>. QED  BY <3>3, <3>4
  <2>. QED  BY <2>1, <2>2 DEF ReviewOrder
<1>12. M!EditsSurvive'
  <2>. SUFFICES ASSUME NEW e \in Edits, M!Written(e)', NEW k \in DOMAIN onboardings'[edit'[e].id],
                       onboardings'[edit'[e].id][k].nr = edit'[e].nr
                PROVE  \E o \in Edits : /\ M!Written(o)' /\ edit'[o].id = edit'[e].id
                                        /\ edit'[o].nr = onboardings'[edit'[e].id][k].nr
                                        /\ onboardings'[edit'[e].id][k].files = edit'[o].files
    BY DEF M!EditsSurvive
  <2>1. \A o \in Edits : M!Written(o)' <=> M!Written(o)  BY DEF M!Written
  <2>2. edit[e].step # "idle" /\ edit[e].id \in Reviews /\ edit[e].id \in saved
    BY <1>0, <2>1 DEF M!Written, ReviewTypes
  <2>3. /\ k \in DOMAIN onboardings[edit[e].id]
        /\ onboardings'[edit'[e].id][k] = onboardings[edit[e].id][k]
    <3>1. CASE edit[e].id # i  BY <1>6, <2>2, <3>1
    <3>2. CASE edit[e].id = i
      <4>1. k \in 1..(Len(old) + 1) /\ onboardings'[edit'[e].id][k] = new[k]  BY <1>1, <1>5, <1>6, <3>2
      <4>2. k # Len(old) + 1  BY <1>3, <1>5, <1>9, <2>2, <3>2, <4>1
      <4>3. k \in 1..Len(old)  BY <1>2, <4>1, <4>2
      <4>. QED  BY <1>2, <1>5, <3>2, <4>1, <4>3
    <3>. QED  BY <3>1, <3>2
  <2>4. \E o \in Edits : /\ M!Written(o) /\ edit[o].id = edit[e].id
                         /\ edit[o].nr = onboardings[edit[e].id][k].nr
                         /\ onboardings[edit[e].id][k].files = edit[o].files
    BY <1>0, <2>1, <2>3 DEF M!EditsSurvive
  <2>. QED  BY <2>1, <2>3, <2>4
<1>. QED  BY <1>10, <1>11, <1>12

\* What was written stays, when rows only go and the written edits are the same, those of
\* a deleted assessment apart.
LEMMA ReviewQuiet ==
  ASSUME M!EditsSurvive, saved' \subseteq saved,
         \A o \in Edits : M!Written(o)' => M!Written(o),
         \A o \in Edits : M!Written(o) /\ edit[o].id \in saved' => M!Written(o)',
         \A o \in Edits : M!Written(o)' =>
           edit'[o].id = edit[o].id /\ edit'[o].nr = edit[o].nr /\ edit'[o].files = edit[o].files,
         \A o \in Edits : M!Written(o)' => \A k \in DOMAIN onboardings'[edit[o].id] :
           \E j \in DOMAIN onboardings[edit[o].id] : onboardings[edit[o].id][j] = onboardings'[edit[o].id][k]
  PROVE  M!EditsSurvive'
<1>. SUFFICES ASSUME NEW e \in Edits, M!Written(e)', NEW k \in DOMAIN onboardings'[edit'[e].id],
                     onboardings'[edit'[e].id][k].nr = edit'[e].nr
              PROVE  \E o \in Edits : /\ M!Written(o)' /\ edit'[o].id = edit'[e].id
                                      /\ edit'[o].nr = onboardings'[edit'[e].id][k].nr
                                      /\ onboardings'[edit'[e].id][k].files = edit'[o].files
  BY DEF M!EditsSurvive
<1>1. M!Written(e) /\ edit'[e].id = edit[e].id /\ edit'[e].nr = edit[e].nr  OBVIOUS
<1>2. edit[e].id \in saved'  BY <1>1 DEF M!Written
<1>3. PICK j \in DOMAIN onboardings[edit[e].id] :
        onboardings[edit[e].id][j] = onboardings'[edit[e].id][k]
  BY <1>1
<1>4. PICK o \in Edits : /\ M!Written(o) /\ edit[o].id = edit[e].id
                         /\ edit[o].nr = onboardings[edit[e].id][j].nr
                         /\ onboardings[edit[e].id][j].files = edit[o].files
  BY <1>1, <1>3 DEF M!EditsSurvive
<1>5. M!Written(o)'  BY <1>2, <1>4
<1>6. edit'[o].id = edit[o].id /\ edit'[o].nr = edit[o].nr /\ edit'[o].files = edit[o].files
  BY <1>5
<1>. QED  BY <1>1, <1>3, <1>4, <1>5, <1>6

\* The steps of a run that save nothing, and a preview, which saves no row.
LEMMA ReviewElsewhere ==
  ASSUME ReviewInv, UNCHANGED <<saved, onboardings, edit>>
  PROVE  ReviewOrder' /\ M!EditsSurvive'
<1>0. ReviewTypes /\ ReviewOrder /\ M!EditsSurvive  BY DEF ReviewInv
<1>1. ReviewOrder'  BY <1>0 DEF ReviewOrder, M!Current
<1>2. M!EditsSurvive'  BY <1>0 DEF M!EditsSurvive, M!Written
<1>. QED  BY <1>1, <1>2

\* Onboarding, Validate and Deliver begin with a row of what they will validate.
LEMMA ReviewStartRun ==
  ASSUME ReviewInv, NEW r \in ReviewRuns, NEW i \in Reviews, M!StartRun(r, i)
  PROVE  ReviewInv'
<1>0. ReviewTypes /\ ReviewOrder /\ M!EditsSurvive  BY DEF ReviewInv
<1>1. i \in saved /\ UNCHANGED <<saved, edit>>  BY DEF M!StartRun
<1>2. PICK files \in {[f \in Files |-> M!Generated]} \cup (IF M!Onboarded(i) THEN {M!Current(i).files} ELSE {}) :
        \E kept \in SUBSET DOMAIN files :
          /\ onboardings' = M!WithRow(i, [f \in kept |-> files[f]])
          /\ run' = [run EXCEPT ![r] = IF kept = {} THEN M!Idle
                       ELSE [step |-> "validate", id |-> i, files |-> [f \in kept |-> files[f]]]]
  BY DEF M!StartRun
<1>3. files \in M!Manifests
  <2>1. M!Onboarded(i) => M!Current(i).files \in M!Manifests
    BY <1>0, ReviewCurrent DEF M!Onboarded
  <2>. QED  BY <2>1, ReviewFiles
<1>4. PICK kept \in SUBSET DOMAIN files :
          /\ onboardings' = M!WithRow(i, [f \in kept |-> files[f]])
          /\ run' = [run EXCEPT ![r] = IF kept = {} THEN M!Idle
                       ELSE [step |-> "validate", id |-> i, files |-> [f \in kept |-> files[f]]]]
  BY <1>2
<1>. DEFINE m == [f \in kept |-> files[f]]
<1>5. m \in M!Manifests  BY <1>3, ReviewFiles
<1>6. onboardings' \in [Reviews -> Seq(ReviewRows)] /\ ReviewOrder' /\ M!EditsSurvive'
  BY <1>1, <1>4, <1>5, ReviewNewRow
<1>7. run' \in [ReviewRuns -> {M!Idle} \cup [step : {"validate", "save"}, id : Reviews, files : M!Manifests]]
  <2>. HIDE DEF m
  <2>1. [step |-> "validate", id |-> i, files |-> m] \in
          [step : {"validate", "save"}, id : Reviews, files : M!Manifests]
    BY <1>5
  <2>2. run' = [run EXCEPT ![r] = IF kept = {} THEN M!Idle ELSE [step |-> "validate", id |-> i, files |-> m]]
    BY <1>4 DEF m
  <2>. QED  BY <1>0, <2>1, <2>2 DEF ReviewTypes
<1>8. ReviewTypes'  BY <1>0, <1>1, <1>6, <1>7 DEF ReviewTypes
<1>. QED  BY <1>6, <1>8 DEF ReviewInv

\* Validation picks and fixes files; the final snapshot is a row of its own.
LEMMA ReviewRun ==
  ASSUME ReviewInv, NEW r \in ReviewRuns, M!Validate(r) \/ M!SaveDelivered(r)
  PROVE  ReviewInv'
<1>0. ReviewTypes /\ ReviewOrder /\ M!EditsSurvive  BY DEF ReviewInv
<1>1. UNCHANGED <<saved, edit>>  BY DEF M!Validate, M!SaveDelivered
<1>2. run[r] \in [step : {"validate", "save"}, id : Reviews, files : M!Manifests]
  BY <1>0 DEF M!Validate, M!SaveDelivered, ReviewTypes, M!Idle
<1>3. CASE M!Validate(r)
  <2>1. PICK delivered \in SUBSET DOMAIN run[r].files, fixes \in SUBSET DOMAIN run[r].files :
          run' = [run EXCEPT ![r] =
            IF delivered = {} THEN M!Idle
            ELSE [step |-> "save", id |-> run[r].id,
                  files |-> [f \in delivered |-> IF f \in fixes THEN M!Fixed ELSE run[r].files[f]]]]
    BY <1>0, <1>3 DEF M!Validate, ReviewTypes
  <2>. DEFINE m == [f \in delivered |-> IF f \in fixes THEN M!Fixed ELSE run[r].files[f]]
  <2>2. m \in M!Manifests  BY <1>2, ReviewFiles
  <2>3. run' = [run EXCEPT ![r] = IF delivered = {} THEN M!Idle
                                  ELSE [step |-> "save", id |-> run[r].id, files |-> m]]
    BY <2>1
  <2>. HIDE DEF m
  <2>4. ReviewTypes'
    BY <1>0, <1>1, <1>2, <1>3, <2>2, <2>3 DEF ReviewTypes, M!Validate
  <2>5. UNCHANGED onboardings  BY <1>3 DEF M!Validate
  <2>. QED  BY <1>1, <2>4, <2>5, ReviewElsewhere DEF ReviewInv
<1>4. CASE M!SaveDelivered(r)
  <2>1. run' = [run EXCEPT ![r] = M!Idle]  BY <1>4 DEF M!SaveDelivered
  <2>2. run' \in [ReviewRuns -> {M!Idle} \cup [step : {"validate", "save"}, id : Reviews, files : M!Manifests]]
    BY <1>0, <2>1 DEF ReviewTypes
  <2>3. CASE UNCHANGED onboardings
    <3>1. ReviewTypes'  BY <1>0, <1>1, <2>2, <2>3 DEF ReviewTypes
    <3>. QED  BY <1>1, <2>3, <3>1, ReviewElsewhere DEF ReviewInv
  <2>4. CASE run[r].id \in saved /\ onboardings' = M!WithRow(run[r].id, run[r].files)
    <3>1. PICK i \in saved, m \in M!Manifests : i = run[r].id /\ m = run[r].files  BY <1>2, <2>4
    <3>2. onboardings' = M!WithRow(i, m)  BY <2>4, <3>1
    <3>3. onboardings' \in [Reviews -> Seq(ReviewRows)] /\ ReviewOrder' /\ M!EditsSurvive'
      BY <1>1, <3>2, ReviewNewRow
    <3>4. ReviewTypes'  BY <1>0, <1>1, <2>2, <3>3 DEF ReviewTypes
    <3>. QED  BY <3>3, <3>4 DEF ReviewInv
  <2>. QED  BY <1>4, <2>3, <2>4 DEF M!SaveDelivered
<1>. QED  BY <1>3, <1>4

\* delete takes the rows of an assessment along with it.
LEMMA ReviewDelete ==
  ASSUME ReviewInv, NEW i \in Reviews, M!Delete(i)
  PROVE  ReviewInv'
<1>0. ReviewTypes /\ ReviewOrder /\ M!EditsSurvive  BY DEF ReviewInv
<1>1. saved' = saved \ {i} /\ UNCHANGED <<edit, run>>  BY DEF M!Delete
<1>2. \A j \in Reviews : onboardings'[j] = IF j = i THEN <<>> ELSE onboardings[j]
  BY <1>0 DEF M!Delete, ReviewTypes
<1>3. ReviewTypes'  BY <1>0, <1>1 DEF M!Delete, ReviewTypes
<1>4. \A e \in Edits : edit[e].step # "idle" => edit[e].id \in Reviews
  BY <1>0 DEF ReviewTypes, M!Idle
<1>5. ReviewOrder'
  <2>1. \A j \in Reviews : j # i => M!Current(j)' = M!Current(j)  BY <1>2 DEF M!Current
  <2>2. \A j \in Reviews : \A k \in DOMAIN onboardings'[j] : onboardings'[j][k].nr <= M!Current(j)'.nr
    BY <1>0, <1>2, <2>1 DEF ReviewOrder
  <2>3. ASSUME NEW e \in Edits, edit'[e].step # "idle", edit'[e].id \in saved'
        PROVE  onboardings'[edit'[e].id] # <<>> /\ edit'[e].nr <= M!Current(edit[e].id)'.nr
    <3>1. PICK j \in Reviews : j = edit[e].id  BY <1>1, <1>4, <2>3
    <3>2. j # i /\ j \in saved  BY <1>1, <2>3, <3>1
    <3>3. M!Current(edit[e].id)' = M!Current(j)'  BY <1>1, <3>1 DEF M!Current
    <3>. QED  BY <1>0, <1>1, <1>2, <2>1, <2>3, <3>1, <3>2, <3>3 DEF ReviewOrder
  <2>. QED  BY <2>2, <2>3 DEF ReviewOrder
<1>6. M!EditsSurvive'
  <2>1. \A o \in Edits : M!Written(o)' <=> M!Written(o) /\ edit[o].id # i  BY <1>1 DEF M!Written
  <2>2. \A o \in Edits : M!Written(o)' => onboardings'[edit[o].id] = onboardings[edit[o].id]
    BY <1>1, <1>2, <1>4, <2>1 DEF M!Written
  <2>. QED  BY <1>0, <1>1, <2>1, <2>2, ReviewQuiet
<1>. QED  BY <1>3, <1>5, <1>6 DEF ReviewInv

\* purge_old_data keeps the newest row of each assessment.
LEMMA ReviewPurge ==
  ASSUME ReviewInv, M!Purge
  PROVE  ReviewInv'
<1>0. ReviewTypes /\ ReviewOrder /\ M!EditsSurvive  BY DEF ReviewInv
<1>1. UNCHANGED <<saved, edit, run>>  BY DEF M!Purge
<1>2. PICK old \in SUBSET Reviews :
        onboardings' = [i \in Reviews |-> IF i \in old /\ onboardings[i] # <<>>
                                          THEN <<M!Current(i)>> ELSE onboardings[i]]
  BY DEF M!Purge
<1>3. \A j \in Reviews : \/ onboardings'[j] = onboardings[j]
                         \/ onboardings[j] # <<>> /\ onboardings'[j] = <<M!Current(j)>>
  BY <1>2
<1>4. ASSUME NEW j \in Reviews
      PROVE  /\ onboardings'[j] \in Seq(ReviewRows)
             /\ M!Current(j)' = M!Current(j)
             /\ onboardings'[j] # <<>> <=> onboardings[j] # <<>>
             /\ \A k \in DOMAIN onboardings'[j] :
                  \E l \in DOMAIN onboardings[j] : onboardings[j][l] = onboardings'[j][k]
  <2>1. CASE onboardings'[j] = onboardings[j]
    BY <1>0, <2>1 DEF ReviewTypes, M!Current
  <2>2. CASE onboardings[j] # <<>> /\ onboardings'[j] = <<M!Current(j)>>
    <3>1. M!Current(j) \in ReviewRows /\ Len(onboardings[j]) \in DOMAIN onboardings[j]
      BY <1>0, <2>2, ReviewCurrent
    <3>2. M!Current(j)' = M!Current(j)  BY <2>2 DEF M!Current
    <3>3. onboardings[j][Len(onboardings[j])] = M!Current(j)  BY DEF M!Current
    <3>. QED  BY <2>2, <3>1, <3>2, <3>3
  <2>. QED  BY <1>3, <2>1, <2>2
<1>5. ReviewTypes'
  <2>1. onboardings' \in [Reviews -> Seq(ReviewRows)]  BY <1>2, <1>4
  <2>. QED  BY <1>0, <1>1, <2>1 DEF ReviewTypes
<1>6. ReviewOrder'
  <2>1. \A j \in Reviews : \A k \in DOMAIN onboardings'[j] : onboardings'[j][k].nr <= M!Current(j)'.nr
    BY <1>0, <1>4 DEF ReviewOrder
  <2>2. ASSUME NEW e \in Edits, edit'[e].step # "idle", edit'[e].id \in saved'
        PROVE  onboardings'[edit'[e].id] # <<>> /\ edit'[e].nr <= M!Current(edit[e].id)'.nr
    <3>1. PICK j \in Reviews : j = edit[e].id  BY <1>0, <1>1, <2>2 DEF ReviewTypes
    <3>2. M!Current(edit[e].id)' = M!Current(j)'  BY <1>1, <3>1 DEF M!Current
    <3>. QED  BY <1>0, <1>1, <1>4, <2>2, <3>1, <3>2 DEF ReviewOrder
  <2>. QED  BY <2>1, <2>2 DEF ReviewOrder
<1>7. M!EditsSurvive'
  <2>1. \A o \in Edits : M!Written(o)' <=> M!Written(o)  BY <1>1 DEF M!Written
  <2>2. \A o \in Edits : M!Written(o) => edit[o].id \in Reviews  BY <1>0 DEF M!Written, ReviewTypes
  <2>. QED  BY <1>0, <1>1, <1>4, <2>1, <2>2, ReviewQuiet
<1>. QED  BY <1>5, <1>6, <1>7 DEF ReviewInv

EditForms == [step : {"write", "clear", "done"}, id : Reviews, file : Files, nr : Nat, files : M!Manifests]

\* The edit form reads the newest row.
LEMMA ReviewRead ==
  ASSUME ReviewInv, NEW e \in Edits, NEW i \in Reviews, NEW f \in Files, M!ReadFiles(e, i, f)
  PROVE  ReviewInv'
<1>0. ReviewTypes /\ ReviewOrder /\ M!EditsSurvive  BY DEF ReviewInv
<1>1. UNCHANGED <<saved, onboardings, run>> /\ i \in saved /\ onboardings[i] # <<>>
      /\ edit[e].step = "idle" /\ f \in DOMAIN M!Current(i).files
  BY DEF M!ReadFiles, M!Onboarded, M!Idle
<1>2. M!Current(i).nr \in Nat /\ M!Current(i).files \in M!Manifests  BY <1>0, <1>1, ReviewCurrent
<1>. DEFINE m == [M!Current(i).files EXCEPT ![f] = e]
            v == [step |-> "write", id |-> i, file |-> f, nr |-> M!Current(i).nr, files |-> m]
<1>3. m \in M!Manifests  BY <1>1, <1>2, ReviewFiles
<1>4. edit' = [edit EXCEPT ![e] = v]  BY DEF M!ReadFiles
<1>. HIDE DEF m
<1>5. v \in EditForms /\ v.step = "write" /\ v.id = i /\ v.nr = M!Current(i).nr  BY <1>2, <1>3 DEF EditForms
<1>. HIDE DEF v
<1>6. \A o \in Edits : edit'[o] = IF o = e THEN v ELSE edit[o]  BY <1>0, <1>4 DEF ReviewTypes
<1>7. ReviewTypes'
  <2>1. edit' \in [Edits -> {M!Idle} \cup EditForms]  BY <1>0, <1>4, <1>5 DEF ReviewTypes, EditForms
  <2>. QED  BY <1>0, <1>1, <2>1 DEF ReviewTypes, EditForms
<1>8. ReviewOrder'
  <2>1. \A j \in Reviews : M!Current(j)' = M!Current(j)  BY <1>1 DEF M!Current
  <2>2. \A j \in Reviews : \A k \in DOMAIN onboardings'[j] : onboardings'[j][k].nr <= M!Current(j)'.nr
    BY <1>0, <1>1, <2>1 DEF ReviewOrder
  <2>3. ASSUME NEW o \in Edits, edit'[o].step # "idle", edit'[o].id \in saved'
        PROVE  onboardings'[edit'[o].id] # <<>> /\ edit'[o].nr <= M!Current(edit[o].id)'.nr
    <3>1. PICK j \in Reviews : j = edit'[o].id  BY <1>0, <1>1, <2>3 DEF ReviewTypes
    <3>2. M!Current(edit[o].id)' = M!Current(j)'  BY <3>1 DEF M!Current
    <3>3. CASE o = e
      <4>1. j = i /\ edit'[o].nr = M!Current(i).nr  BY <1>5, <1>6, <3>1, <3>3
      <4>. QED  BY <1>1, <1>2, <2>1, <3>1, <3>2, <4>1
    <3>4. CASE o # e  BY <1>0, <1>1, <1>6, <2>1, <2>3, <3>1, <3>2, <3>4 DEF ReviewOrder
    <3>. QED  BY <3>3, <3>4
  <2>. QED  BY <2>2, <2>3 DEF ReviewOrder
<1>9. M!EditsSurvive'
  <2>1. \A o \in Edits : M!Written(o)' <=> M!Written(o) /\ o # e
    BY <1>1, <1>5, <1>6 DEF M!Written
  <2>2. ~ M!Written(e)  BY <1>1 DEF M!Written
  <2>3. \A o \in Edits : M!Written(o)' => edit'[o] = edit[o]  BY <1>6, <2>1
  <2>. QED  BY <1>0, <1>1, <2>1, <2>2, <2>3, ReviewQuiet
<1>. QED  BY <1>7, <1>8, <1>9 DEF ReviewInv

\* The results of an edited assessment are cleared; a crash ends what was under way.
LEMMA ReviewEditMoves ==
  ASSUME ReviewInv, UNCHANGED <<saved, onboardings>>,
         run' \in [ReviewRuns -> {M!Idle} \cup [step : {"validate", "save"}, id : Reviews, files : M!Manifests]],
         edit' \in [Edits -> {M!Idle} \cup EditForms],
         \A o \in Edits :
           \/ edit'[o] = M!Idle /\ edit[o].step \in {"idle", "write"}
           \/ edit'[o] = edit[o]
           \/ /\ edit[o].step \in {"clear", "done"} /\ edit'[o].step = "done"
              /\ edit'[o].id = edit[o].id /\ edit'[o].nr = edit[o].nr /\ edit'[o].files = edit[o].files
  PROVE  ReviewInv'
<1>0. ReviewTypes /\ ReviewOrder /\ M!EditsSurvive  BY DEF ReviewInv
<1>1. ReviewTypes'  BY <1>0 DEF ReviewTypes, EditForms
<1>2. M!Idle.step = "idle"  BY DEF M!Idle
<1>3. \A o \in Edits : edit'[o].step # "idle" =>
        edit[o].step # "idle" /\ edit'[o].id = edit[o].id /\ edit'[o].nr = edit[o].nr
  BY <1>2
<1>4. ReviewOrder'
  <2>1. \A j \in Reviews : M!Current(j)' = M!Current(j)  BY DEF M!Current
  <2>2. \A j \in Reviews : \A k \in DOMAIN onboardings'[j] : onboardings'[j][k].nr <= M!Current(j)'.nr
    BY <1>0, <2>1 DEF ReviewOrder
  <2>3. ASSUME NEW o \in Edits, edit'[o].step # "idle", edit'[o].id \in saved'
        PROVE  onboardings'[edit'[o].id] # <<>> /\ edit'[o].nr <= M!Current(edit[o].id)'.nr
    <3>1. PICK j \in Reviews : j = edit'[o].id  BY <1>0, <2>3 DEF ReviewTypes
    <3>2. M!Current(edit[o].id)' = M!Current(j)'  BY <3>1 DEF M!Current
    <3>. QED  BY <1>0, <1>3, <2>1, <2>3, <3>1, <3>2 DEF ReviewOrder
  <2>. QED  BY <2>2, <2>3 DEF ReviewOrder
<1>5. M!EditsSurvive'
  <2>1. \A o \in Edits : M!Written(o)' <=> M!Written(o)  BY <1>2 DEF M!Written
  <2>2. \A o \in Edits : M!Written(o)' =>
          edit'[o].id = edit[o].id /\ edit'[o].nr = edit[o].nr /\ edit'[o].files = edit[o].files
    BY <1>2 DEF M!Written
  <2>. QED  BY <1>0, <2>1, <2>2, ReviewQuiet
<1>. QED  BY <1>1, <1>4, <1>5 DEF ReviewInv

\* An edit writes the rows of its number, and no other.
LEMMA ReviewWrite ==
  ASSUME ReviewInv, NEW e \in Edits, M!WriteFiles(e)
  PROVE  ReviewInv'
<1>0. ReviewTypes /\ ReviewOrder /\ M!EditsSurvive  BY DEF ReviewInv
<1>1. edit[e] \in EditForms /\ edit[e].step = "write"
  BY <1>0 DEF M!WriteFiles, ReviewTypes, EditForms, M!Idle
<1>2. PICK i \in Reviews, n \in Nat, m \in M!Manifests :
        i = edit[e].id /\ n = edit[e].nr /\ m = edit[e].files
  BY <1>1 DEF EditForms
<1>. DEFINE v == [edit[e] EXCEPT !.step = "clear"]
            old == onboardings[i]
            At(k) == IF old[k].nr = n THEN [old[k] EXCEPT !.files = m] ELSE old[k]
            new == [k \in DOMAIN old |-> At(k)]
<1>3. UNCHANGED <<saved, run>> /\ edit' = [edit EXCEPT ![e] = v]  BY DEF M!WriteFiles
<1>4. v \in EditForms /\ v.step = "clear" /\ v.id = i /\ v.nr = n /\ v.files = m
  BY <1>1, <1>2 DEF EditForms
<1>5. onboardings' = [onboardings EXCEPT ![i] = new]
  BY <1>0, <1>2 DEF M!WriteFiles, ReviewTypes
<1>. HIDE DEF v
<1>6. old \in Seq(ReviewRows) /\ DOMAIN old = 1..Len(old) /\ Len(old) \in Nat  BY <1>0, ReviewCurrent
<1>7. \A k \in 1..Len(old) : /\ At(k) \in ReviewRows /\ At(k).nr = old[k].nr
                             /\ IF old[k].nr = n THEN At(k).files = m ELSE At(k) = old[k]
  <2>. SUFFICES ASSUME NEW k \in 1..Len(old)
                PROVE  /\ At(k) \in ReviewRows /\ At(k).nr = old[k].nr
                       /\ IF old[k].nr = n THEN At(k).files = m ELSE At(k) = old[k]
    OBVIOUS
  <2>1. old[k] \in ReviewRows  BY <1>6
  <2>. QED  BY <2>1 DEF ReviewRows
<1>. HIDE DEF At
<1>8. new \in Seq(ReviewRows) /\ Len(new) = Len(old) /\ \A k \in 1..Len(old) : new[k] = At(k)
  <2>1. new = [k \in 1..Len(old) |-> At(k)]  BY <1>6
  <2>2. new \in [1..Len(old) -> ReviewRows]  BY <1>7, <2>1
  <2>3. new \in Seq(ReviewRows)  BY <1>6, <2>2, SeqDef
  <2>4. DOMAIN new = 1..Len(old)  BY <2>1
  <2>. QED  BY <1>6, <2>1, <2>3, <2>4
<1>. HIDE DEF new
<1>9. \A j \in Reviews : onboardings'[j] = IF j = i THEN new ELSE onboardings[j]
  BY <1>0, <1>5 DEF ReviewTypes
<1>10. \A o \in Edits : edit'[o] = IF o = e THEN v ELSE edit[o]  BY <1>0, <1>3 DEF ReviewTypes
<1>11. ReviewTypes'
  <2>1. edit' \in [Edits -> {M!Idle} \cup EditForms]  BY <1>0, <1>3, <1>4 DEF ReviewTypes, EditForms
  <2>2. onboardings' \in [Reviews -> Seq(ReviewRows)]  BY <1>0, <1>5, <1>8 DEF ReviewTypes
  <2>. QED  BY <1>0, <1>3, <2>1, <2>2 DEF ReviewTypes, EditForms
<1>12. \A j \in Reviews : /\ onboardings[j] # <<>> => onboardings'[j] # <<>> /\ M!Current(j)'.nr = M!Current(j).nr
                          /\ onboardings[j] = <<>> => onboardings'[j] = <<>>
  <2>1. ASSUME NEW j \in Reviews, j # i
        PROVE  onboardings'[j] = onboardings[j] /\ M!Current(j)' = M!Current(j)
    BY <1>9, <2>1 DEF M!Current
  <2>2. CASE old # <<>>
    <3>1. Len(old) \in 1..Len(old)  BY <1>6, <2>2
    <3>2. onboardings'[i] = new /\ new # <<>>  BY <1>6, <1>8, <1>9, <2>2
    <3>3. M!Current(i)' = new[Len(old)] /\ M!Current(i) = old[Len(old)]
      BY <1>8, <3>2 DEF M!Current
    <3>. QED  BY <1>7, <1>8, <2>1, <3>1, <3>2, <3>3
  <2>3. CASE old = <<>>
    <3>1. new = <<>>  BY <1>8, <2>3
    <3>. QED  BY <1>9, <2>1, <2>3, <3>1
  <2>. QED  BY <2>2, <2>3
<1>13. ReviewOrder'
  <2>1. ASSUME NEW j \in Reviews, NEW k \in DOMAIN onboardings'[j]
        PROVE  onboardings'[j][k].nr <= M!Current(j)'.nr
    <3>1. /\ k \in DOMAIN onboardings[j] /\ onboardings[j] # <<>>
          /\ onboardings'[j][k].nr = onboardings[j][k].nr
      <4>1. CASE j # i
        <5>1. k \in DOMAIN onboardings[j] /\ onboardings'[j][k] = onboardings[j][k]  BY <1>9, <2>1, <4>1
        <5>. QED  BY <5>1
      <4>2. CASE j = i
        <5>1. k \in 1..Len(old) /\ onboardings'[j][k] = new[k]  BY <1>8, <1>9, <2>1, <4>2
        <5>2. old # <<>>  BY <1>6, <5>1
        <5>. QED  BY <1>6, <1>7, <1>8, <4>2, <5>1, <5>2
      <4>. QED  BY <4>1, <4>2
    <3>. QED  BY <1>0, <1>12, <3>1 DEF ReviewOrder
  <2>2. ASSUME NEW o \in Edits, edit'[o].step # "idle", edit'[o].id \in saved'
        PROVE  onboardings'[edit'[o].id] # <<>> /\ edit'[o].nr <= M!Current(edit[o].id)'.nr
    <3>1. PICK j \in Reviews : j = edit'[o].id  BY <1>11, <2>2 DEF ReviewTypes
    <3>2. M!Current(edit[o].id)' = M!Current(j)'  BY <3>1 DEF M!Current
    <3>3. edit[o].step # "idle" /\ edit'[o].id = edit[o].id /\ edit'[o].nr = edit[o].nr
      BY <1>1, <1>2, <1>4, <1>10, <2>2
    <3>4. onboardings[j] # <<>> /\ edit[o].nr <= M!Current(j).nr
      BY <1>0, <1>3, <2>2, <3>1, <3>3 DEF ReviewOrder
    <3>. QED  BY <1>12, <3>1, <3>2, <3>3, <3>4
  <2>. QED  BY <2>1, <2>2 DEF ReviewOrder
<1>14. M!EditsSurvive'
  <2>1. \A o \in Edits : M!Written(o) => M!Written(o)' /\ o # e /\ edit'[o] = edit[o]
    BY <1>1, <1>3, <1>10 DEF M!Written
  <2>. SUFFICES ASSUME NEW o \in Edits, M!Written(o)', NEW k \in DOMAIN onboardings'[edit'[o].id],
                       onboardings'[edit'[o].id][k].nr = edit'[o].nr
                PROVE  \E u \in Edits : /\ M!Written(u)' /\ edit'[u].id = edit'[o].id
                                        /\ edit'[u].nr = onboardings'[edit'[o].id][k].nr
                                        /\ onboardings'[edit'[o].id][k].files = edit'[u].files
    BY DEF M!EditsSurvive
  <2>2. PICK j \in Reviews : j = edit'[o].id  BY <1>11 DEF M!Written, ReviewTypes, M!Idle
  <2>3. j \in saved  BY <1>3, <2>2 DEF M!Written
  <2>4. CASE j = i /\ edit'[o].nr = n
    <3>1. M!Written(e)' /\ edit'[e].id = i /\ edit'[e].nr = n /\ edit'[e].files = m
      BY <1>3, <1>4, <1>10, <2>3, <2>4 DEF M!Written
    <3>2. k \in 1..Len(old) /\ onboardings'[j][k] = new[k]  BY <1>8, <1>9, <2>2, <2>4
    <3>3. new[k].files = m  BY <1>7, <1>8, <2>2, <2>4, <3>2
    <3>. QED  BY <2>2, <2>4, <3>1, <3>2, <3>3
  <2>5. CASE ~ (j = i /\ edit'[o].nr = n)
    <3>1. o # e  BY <1>4, <1>10, <2>2, <2>5
    <3>2. edit'[o] = edit[o] /\ M!Written(o)  BY <1>3, <1>10, <3>1 DEF M!Written
    <3>3. k \in DOMAIN onboardings[j] /\ onboardings'[j][k] = onboardings[j][k]
      <4>1. CASE j # i  BY <1>9, <2>2, <4>1
      <4>2. CASE j = i
        <5>1. k \in 1..Len(old) /\ onboardings'[j][k] = At(k)  BY <1>8, <1>9, <2>2, <4>2
        <5>2. old[k].nr # n  BY <1>7, <2>2, <2>5, <4>2, <5>1
        <5>. QED  BY <1>6, <1>7, <4>2, <5>1, <5>2
      <4>. QED  BY <4>1, <4>2
    <3>4. PICK u \in Edits : /\ M!Written(u) /\ edit[u].id = edit[o].id
                             /\ edit[u].nr = onboardings[j][k].nr
                             /\ onboardings[j][k].files = edit[u].files
      BY <1>0, <2>2, <3>2, <3>3 DEF M!EditsSurvive
    <3>. QED  BY <2>1, <2>2, <3>2, <3>3, <3>4
  <2>. QED  BY <2>4, <2>5
<1>. QED  BY <1>11, <1>13, <1>14 DEF ReviewInv

\* Every step keeps the invariant of the manifests under review.
LEMMA ReviewInvStep == ReviewInv /\ [M!Next]_(M!vars) => ReviewInv'
<1>. SUFFICES ASSUME ReviewInv, M!Next \/ UNCHANGED M!vars PROVE ReviewInv'
  OBVIOUS
<1>0. ReviewTypes /\ ReviewOrder /\ M!EditsSurvive  BY DEF ReviewInv
<1>1. ASSUME UNCHANGED <<saved, onboardings, edit, run>> PROVE ReviewInv'
  BY <1>0, <1>1, ReviewElsewhere DEF ReviewInv, ReviewTypes
<1>2. CASE M!EndPreview \/ UNCHANGED M!vars
  BY <1>1, <1>2 DEF M!EndPreview, M!vars
<1>3. ASSUME NEW i \in Reviews, M!BeginPreview(i) PROVE ReviewInv'
  BY <1>1, <1>3 DEF M!BeginPreview
<1>4. ASSUME NEW e \in Edits, M!ClearResults(e) PROVE ReviewInv'
  <2>1. edit[e] \in EditForms /\ edit[e].step = "clear"
    BY <1>0, <1>4 DEF M!ClearResults, ReviewTypes, EditForms, M!Idle
  <2>. DEFINE v == [edit[e] EXCEPT !.step = "done"]
  <2>2. v \in EditForms /\ v.step = "done" /\ v.id = edit[e].id /\ v.nr = edit[e].nr /\ v.files = edit[e].files
    BY <2>1 DEF EditForms
  <2>3. edit' = [edit EXCEPT ![e] = v] /\ UNCHANGED <<saved, onboardings, run>>  BY <1>4 DEF M!ClearResults
  <2>. HIDE DEF v
  <2>4. edit' \in [Edits -> {M!Idle} \cup EditForms]  BY <1>0, <2>2, <2>3 DEF ReviewTypes, EditForms
  <2>5. \A o \in Edits : edit'[o] = IF o = e THEN v ELSE edit[o]  BY <1>0, <2>3 DEF ReviewTypes
  <2>6. run' \in [ReviewRuns -> {M!Idle} \cup [step : {"validate", "save"}, id : Reviews, files : M!Manifests]]
    BY <1>0, <2>3 DEF ReviewTypes
  <2>. QED  BY <2>1, <2>2, <2>3, <2>4, <2>5, <2>6, ReviewEditMoves
<1>5. CASE M!Crash
  <2>1. UNCHANGED <<saved, onboardings>>  BY <1>5 DEF M!Crash
  <2>2. run' \in [ReviewRuns -> {M!Idle} \cup [step : {"validate", "save"}, id : Reviews, files : M!Manifests]]
    BY <1>5 DEF M!Crash
  <2>3. edit' = [e \in Edits |-> IF edit[e].step \in {"clear", "done"} THEN [edit[e] EXCEPT !.step = "done"]
                                 ELSE M!Idle]
    BY <1>5 DEF M!Crash
  <2>4. ASSUME NEW o \in Edits
        PROVE  /\ edit'[o] \in {M!Idle} \cup EditForms
               /\ \/ edit'[o] = M!Idle /\ edit[o].step \in {"idle", "write"}
                  \/ edit'[o] = edit[o]
                  \/ /\ edit[o].step \in {"clear", "done"} /\ edit'[o].step = "done"
                     /\ edit'[o].id = edit[o].id /\ edit'[o].nr = edit[o].nr /\ edit'[o].files = edit[o].files
    <3>1. edit[o] \in {M!Idle} \cup EditForms  BY <1>0 DEF ReviewTypes, EditForms
    <3>2. CASE edit[o].step \in {"clear", "done"}
      <4>1. edit[o] \in EditForms  BY <3>1, <3>2 DEF M!Idle
      <4>2. edit'[o] = [edit[o] EXCEPT !.step = "done"]  BY <2>3, <3>2
      <4>3. edit'[o] \in EditForms  BY <4>1, <4>2 DEF EditForms
      <4>. QED  BY <3>2, <4>1, <4>2, <4>3 DEF EditForms
    <3>3. CASE edit[o].step \notin {"clear", "done"}
      <4>1. edit'[o] = M!Idle  BY <2>3, <3>3
      <4>2. edit[o].step \in {"idle", "write"}  BY <3>1, <3>3 DEF EditForms, M!Idle
      <4>. QED  BY <4>1, <4>2
    <3>. QED  BY <3>2, <3>3
  <2>5. edit' \in [Edits -> {M!Idle} \cup EditForms]  BY <2>3, <2>4
  <2>. QED  BY <2>1, <2>2, <2>4, <2>5, ReviewEditMoves
<1>. QED  BY <1>2, <1>3, <1>4, <1>5, ReviewStartRun, ReviewRun, ReviewRead, ReviewWrite,
             ReviewDelete, ReviewPurge DEF M!Next

\* Once update_onboarding_file wrote an edit, its row holds what an edit of that row wrote:
\* no run, snapshot, preview, purge or restart puts generated files there.
THEOREM EditsAreKept == Spec => []EditsSurvive
<1>1. Init => ReviewInv
  <2>. SUFFICES ASSUME M!Init PROVE ReviewInv
    BY DEF Init
  <2>1. ReviewTypes  BY DEF M!Init, ReviewTypes
  <2>2. \A e \in Edits : edit[e].step = "idle"  BY DEF M!Init, M!Idle
  <2>3. ReviewOrder  BY <2>2 DEF M!Init, ReviewOrder
  <2>4. M!EditsSurvive  BY <2>2 DEF M!EditsSurvive, M!Written
  <2>. QED  BY <2>1, <2>3, <2>4 DEF ReviewInv
<1>2. ReviewInv /\ [Next]_vars => ReviewInv'  BY ReviewStep, ReviewInvStep
<1>3. ReviewInv => EditsSurvive  BY DEF ReviewInv, EditsSurvive
<1>. QED  BY <1>1, <1>2, <1>3, PTL DEF Spec

-----------------------------------------------------------------------------
(* The delivery branch and its pull requests (BranchDelivery).             *)

Bases == Texts \cup {NoFile, NoRef}
Commits == [by : {"agentit", "person"}, content : Texts]
PullStates == {"open", "merged", "closed", "detached"}
PullForms == [state : PullStates, log : Seq(Commits), held : SUBSET Texts]
JobSteps == {"gate", "base", "compare", "commit", "ref", "open", "find", "done"}
Results == [kind : {"error", "skipped"}] \cup [kind : {"pr"}, url : Nat]
JobForms == [step : JobSteps, kind : B!Kinds, content : Texts, base : Bases, result : Results]

\* AgentIT's one commit is the first, and people's follow.
OwnThenPeoples(log) ==
  /\ log # <<>>
  /\ \A k \in DOMAIN log : k > 1 <=> log[k].by = "person"

BranchTypes ==
  /\ main \in Bases
  /\ branch \in [base : Bases, log : Seq(Commits)]
  /\ pulls \in Seq(PullForms)
  /\ job \in {B!Idle} \cup JobForms

\* A forced branch starts with the commit of the call, and takes every pull request along
\* that can still show it; without the branch none can.
BranchShown ==
  /\ branch # B!Absent => OwnThenPeoples(branch.log)
  /\ \A n \in DOMAIN pulls : OwnThenPeoples(pulls[n].log)
  /\ branch = B!Absent => \A n \in DOMAIN pulls : pulls[n].state \notin {"open", "closed"}
  /\ job.step = "open" => /\ branch # B!Absent => branch.log[1].content = job.content
                          /\ \A n \in DOMAIN pulls : B!IsOpen(n) => job.content \in pulls[n].held
  /\ job.step = "find" => \E n \in DOMAIN pulls : job.content \in pulls[n].held

BranchInv == BranchTypes /\ BranchShown /\ B!ReportedIsShown

\* What is on a branch: AgentIT's commit alone, or with one more of a person's on top.
LEMMA BranchLogs ==
  /\ \A c \in Texts : /\ <<B!Commit("agentit", c)>> \in Seq(Commits)
                      /\ OwnThenPeoples(<<B!Commit("agentit", c)>>)
                      /\ <<B!Commit("agentit", c)>>[1].content = c
  /\ \A log \in Seq(Commits), c \in Texts : OwnThenPeoples(log) =>
       /\ Append(log, B!Commit("person", c)) \in Seq(Commits)
       /\ OwnThenPeoples(Append(log, B!Commit("person", c)))
       /\ Append(log, B!Commit("person", c))[1] = log[1]
  /\ \A log \in Seq(Commits) : {log[k].content : k \in DOMAIN log} \in SUBSET Texts
  /\ \A log \in Seq(Commits) : log # <<>> => log[1].content \in {log[k].content : k \in DOMAIN log}
<1>1. ASSUME NEW c \in Texts
      PROVE  /\ <<B!Commit("agentit", c)>> \in Seq(Commits)
             /\ OwnThenPeoples(<<B!Commit("agentit", c)>>)
             /\ <<B!Commit("agentit", c)>>[1].content = c
  <2>1. B!Commit("agentit", c) \in Commits /\ B!Commit("agentit", c).by = "agentit"
        /\ B!Commit("agentit", c).content = c
    BY DEF B!Commit, Commits
  <2>. QED  BY <2>1 DEF OwnThenPeoples
<1>2. ASSUME NEW log \in Seq(Commits), NEW c \in Texts, OwnThenPeoples(log)
      PROVE  /\ Append(log, B!Commit("person", c)) \in Seq(Commits)
             /\ OwnThenPeoples(Append(log, B!Commit("person", c)))
             /\ Append(log, B!Commit("person", c))[1] = log[1]
  <2>. DEFINE r == B!Commit("person", c)
              new == Append(log, r)
  <2>1. r \in Commits /\ r.by = "person"  BY DEF B!Commit, Commits
  <2>. HIDE DEF r
  <2>2. Len(log) \in Nat /\ Len(log) >= 1 /\ DOMAIN log = 1..Len(log)  BY <1>2 DEF OwnThenPeoples
  <2>3. /\ new \in Seq(Commits) /\ DOMAIN new = 1..(Len(log) + 1) /\ new # <<>>
        /\ new[Len(log) + 1] = r /\ \A k \in 1..Len(log) : new[k] = log[k]
    BY <2>1, <2>2
  <2>. HIDE DEF new
  <2>4. OwnThenPeoples(new)
    <3>1. ASSUME NEW k \in 1..(Len(log) + 1) PROVE k > 1 <=> new[k].by = "person"
      <4>1. CASE k = Len(log) + 1  BY <2>1, <2>2, <2>3, <4>1
      <4>2. CASE k \in 1..Len(log)  BY <1>2, <2>2, <2>3, <4>2 DEF OwnThenPeoples
      <4>. QED  BY <2>2, <4>1, <4>2
    <3>. QED  BY <2>3, <3>1 DEF OwnThenPeoples
  <2>. QED  BY <2>2, <2>3, <2>4 DEF r, new
<1>3. ASSUME NEW log \in Seq(Commits) PROVE {log[k].content : k \in DOMAIN log} \in SUBSET Texts
  <2>1. \A k \in DOMAIN log : log[k] \in Commits  OBVIOUS
  <2>. QED  BY <2>1 DEF Commits
<1>4. ASSUME NEW log \in Seq(Commits), log # <<>>
      PROVE  log[1].content \in {log[k].content : k \in DOMAIN log}
  <2>1. 1 \in DOMAIN log  BY <1>4
  <2>. QED  BY <2>1
<1>. QED  BY <1>1, <1>2, <1>3, <1>4

\* Pull requests that change keep their numbers.
LEMMA BranchPulls ==
  ASSUME pulls \in Seq(PullForms), NEW q, q = [n \in DOMAIN pulls |-> q[n]],
         \A n \in DOMAIN pulls : q[n] \in PullForms
  PROVE  q \in Seq(PullForms) /\ DOMAIN q = DOMAIN pulls
<1>1. DOMAIN pulls = 1..Len(pulls) /\ Len(pulls) \in Nat  OBVIOUS
<1>2. DOMAIN q = DOMAIN pulls  OBVIOUS
<1>3. q \in [1..Len(pulls) -> PullForms]  BY <1>1
<1>. QED  BY <1>1, <1>2, <1>3, SeqDef

\* What people do to the branch and its pull requests.
LEMMA BranchPeople ==
  ASSUME BranchInv, UNCHANGED job,
         main' \in Bases, branch' \in [base : Bases, log : Seq(Commits)], pulls' \in Seq(PullForms),
         DOMAIN pulls' = DOMAIN pulls,
         \A n \in DOMAIN pulls : pulls[n].held \subseteq pulls'[n].held,
         \A n \in DOMAIN pulls : OwnThenPeoples(pulls'[n].log),
         branch' # B!Absent => /\ branch # B!Absent /\ OwnThenPeoples(branch'.log)
                               /\ branch'.log[1] = branch.log[1],
         branch' = B!Absent => \A n \in DOMAIN pulls : pulls'[n].state \notin {"open", "closed"},
         \A n \in DOMAIN pulls : pulls'[n].state = "open" =>
           \/ pulls[n].state = "open"
           \/ branch # B!Absent /\ branch.log[1].content \in pulls'[n].held
  PROVE  BranchInv'
<1>0. BranchTypes /\ BranchShown /\ B!ReportedIsShown  BY DEF BranchInv
<1>1. BranchTypes'  BY <1>0 DEF BranchTypes
<1>2. B!Reported' <=> B!Reported  BY DEF B!Reported
<1>3. B!ReportedIsShown'  BY <1>0, <1>2 DEF B!ReportedIsShown
<1>4. BranchShown'
  <2>1. ASSUME job.step = "open", NEW n \in DOMAIN pulls, B!IsOpen(n)' PROVE job.content \in pulls'[n].held
    <3>1. pulls'[n].state = "open"  BY <2>1 DEF B!IsOpen
    <3>2. CASE pulls[n].state = "open"
      BY <1>0, <2>1, <3>2 DEF BranchShown, B!IsOpen
    <3>3. CASE branch # B!Absent /\ branch.log[1].content \in pulls'[n].held
      BY <1>0, <2>1, <3>3 DEF BranchShown
    <3>. QED  BY <3>1, <3>2, <3>3
  <2>2. job.step = "find" => \E n \in DOMAIN pulls : job.content \in pulls'[n].held
    BY <1>0 DEF BranchShown
  <2>3. job.step = "open" /\ branch' # B!Absent => branch'.log[1].content = job.content
    BY <1>0 DEF BranchShown
  <2>. QED  BY <2>1, <2>2, <2>3 DEF BranchShown
<1>. QED  BY <1>1, <1>3, <1>4 DEF BranchInv

\* The steps of a call that touch neither the branch nor its pull requests.
LEMMA BranchQuiet ==
  ASSUME BranchInv, UNCHANGED <<branch, pulls>>, main' \in Bases, job' \in {B!Idle} \cup JobForms,
         job'.step \notin {"open", "find"}, ~ B!Reported'
  PROVE  BranchInv'
<1>0. BranchTypes /\ BranchShown /\ B!ReportedIsShown  BY DEF BranchInv
<1>1. BranchTypes'  BY <1>0 DEF BranchTypes
<1>2. BranchShown'  BY <1>0 DEF BranchShown
<1>3. B!ReportedIsShown'  BY DEF B!ReportedIsShown
<1>. QED  BY <1>1, <1>2, <1>3 DEF BranchInv

\* A person's commit goes on top of the branch, and into what is open.
LEMMA BranchPersonPushes ==
  ASSUME BranchInv, NEW c \in Texts, B!PersonPushes(c)
  PROVE  BranchInv'
<1>0. BranchTypes /\ BranchShown  BY DEF BranchInv
<1>1. branch \in [base : Bases, log : Seq(Commits)] /\ branch # B!Absent /\ OwnThenPeoples(branch.log)
  BY <1>0 DEF BranchTypes, BranchShown, B!PersonPushes
<1>. DEFINE log == Append(branch.log, B!Commit("person", c))
            b == [branch EXCEPT !.log = log]
<1>2. branch' = b /\ pulls' = B!Followed(b) /\ UNCHANGED <<main, job>>  BY DEF B!PersonPushes
<1>3. log \in Seq(Commits) /\ OwnThenPeoples(log) /\ log[1] = branch.log[1]  BY <1>1, BranchLogs
<1>. HIDE DEF log
<1>4. b \in [base : Bases, log : Seq(Commits)] /\ b.log = log  BY <1>1, <1>3
<1>5. b # B!Absent  BY <1>3, <1>4 DEF B!Absent, OwnThenPeoples
<1>. HIDE DEF b
<1>. DEFINE new == {b.log[k].content : k \in DOMAIN b.log}
<1>6. new \in SUBSET Texts  BY <1>3, <1>4, BranchLogs
<1>7. ASSUME NEW n \in DOMAIN pulls
      PROVE  /\ pulls'[n] \in PullForms /\ pulls'[n].state = pulls[n].state
             /\ pulls[n].held \subseteq pulls'[n].held
             /\ OwnThenPeoples(pulls'[n].log)
  <2>1. pulls[n] \in PullForms  BY <1>0 DEF BranchTypes
  <2>2. CASE B!IsOpen(n)
    <3>1. pulls'[n] = [pulls[n] EXCEPT !.log = b.log, !.held = @ \cup new]
      BY <1>2, <2>2 DEF B!Followed
    <3>. HIDE DEF new
    <3>. QED  BY <1>3, <1>4, <1>6, <2>1, <3>1 DEF PullForms
  <2>3. CASE ~ B!IsOpen(n)
    <3>1. pulls'[n] = pulls[n]  BY <1>2, <2>3 DEF B!Followed
    <3>. QED  BY <1>0, <2>1, <3>1 DEF BranchShown
  <2>. QED  BY <2>2, <2>3
<1>8. pulls' \in Seq(PullForms) /\ DOMAIN pulls' = DOMAIN pulls
  <2>1. B!Followed(b) = [n \in DOMAIN pulls |-> B!Followed(b)[n]]  BY DEF B!Followed
  <2>2. pulls \in Seq(PullForms)  BY <1>0 DEF BranchTypes
  <2>. QED  BY <1>2, <1>7, <2>1, <2>2, BranchPulls
<1>9. main' \in Bases /\ branch' = b  BY <1>0, <1>2 DEF BranchTypes
<1>. QED  BY <1>1, <1>2, <1>3, <1>4, <1>5, <1>7, <1>8, <1>9, BranchPeople

\* People edit the default branch, merge, close, reopen and delete.
LEMMA BranchPersonActs ==
  ASSUME BranchInv,
         \/ \E c \in Texts : B!PersonEditsMain(c)
         \/ \E n \in DOMAIN pulls : B!Merge(n) \/ B!Close(n) \/ B!Reopen(n)
         \/ B!DeleteBranch
  PROVE  BranchInv'
<1>0. BranchTypes /\ BranchShown  BY DEF BranchInv
<1>1. /\ main \in Bases /\ branch \in [base : Bases, log : Seq(Commits)] /\ pulls \in Seq(PullForms)
      /\ branch # B!Absent => OwnThenPeoples(branch.log)
      /\ \A n \in DOMAIN pulls : pulls[n] \in PullForms /\ OwnThenPeoples(pulls[n].log)
      /\ branch = B!Absent => \A n \in DOMAIN pulls : pulls[n].state \notin {"open", "closed"}
  BY <1>0 DEF BranchTypes, BranchShown
<1>2. ASSUME NEW c \in Texts, B!PersonEditsMain(c) PROVE BranchInv'
  <2>1. main' \in Bases /\ UNCHANGED <<branch, pulls, job>>  BY <1>2 DEF B!PersonEditsMain, Bases
  <2>. QED  BY <1>1, <2>1, BranchPeople
<1>3. ASSUME NEW n \in DOMAIN pulls, NEW s \in {"merged", "closed"}, main' \in Bases,
             pulls' = [pulls EXCEPT ![n].state = s], UNCHANGED <<branch, job>>, B!IsOpen(n)
      PROVE  BranchInv'
  <2>. DEFINE v == [pulls[n] EXCEPT !.state = s]
  <2>1. v \in PullForms /\ v.state = s /\ v.held = pulls[n].held /\ v.log = pulls[n].log
    BY <1>1 DEF PullForms, PullStates
  <2>2. pulls' = [pulls EXCEPT ![n] = v]  BY <1>3
  <2>. HIDE DEF v
  <2>3. \A m \in DOMAIN pulls : pulls'[m] = IF m = n THEN v ELSE pulls[m]  BY <1>1, <2>2
  <2>4. pulls' \in Seq(PullForms) /\ DOMAIN pulls' = DOMAIN pulls  BY <1>1, <2>1, <2>2
  <2>5. branch # B!Absent  BY <1>1, <1>3 DEF B!IsOpen
  <2>. QED  BY <1>1, <1>3, <2>1, <2>3, <2>4, <2>5, BranchPeople
<1>4. ASSUME NEW n \in DOMAIN pulls, B!Merge(n) PROVE BranchInv'
  <2>1. branch # B!Absent  BY <1>1, <1>4 DEF B!Merge, B!IsOpen
  <2>2. B!Last(branch.log).content \in Bases
    <3>1. B!Last(branch.log) \in Commits  BY <1>1, <2>1 DEF OwnThenPeoples, B!Last
    <3>. QED  BY <3>1 DEF Commits, Bases
  <2>. QED  BY <1>3, <1>4, <2>2 DEF B!Merge
<1>5. ASSUME NEW n \in DOMAIN pulls, B!Close(n) PROVE BranchInv'
  BY <1>1, <1>3, <1>5 DEF B!Close
<1>6. ASSUME NEW n \in DOMAIN pulls, B!Reopen(n) PROVE BranchInv'
  <2>. DEFINE new == {branch.log[k].content : k \in DOMAIN branch.log}
              v == [pulls[n] EXCEPT !.state = "open", !.log = branch.log, !.held = @ \cup new]
  <2>1. branch # B!Absent /\ UNCHANGED <<main, branch, job>>  BY <1>1, <1>6 DEF B!Reopen
  <2>2. new \in SUBSET Texts /\ branch.log[1].content \in new
    BY <1>1, <2>1, BranchLogs DEF OwnThenPeoples
  <2>3. pulls' = [pulls EXCEPT ![n] = v]  BY <1>1, <1>6 DEF B!Reopen
  <2>. HIDE DEF new
  <2>4. v \in PullForms /\ v.held = pulls[n].held \cup new /\ v.log = branch.log
    BY <1>1, <2>2 DEF PullForms, PullStates
  <2>. HIDE DEF v
  <2>5. \A m \in DOMAIN pulls : pulls'[m] = IF m = n THEN v ELSE pulls[m]  BY <1>1, <2>3
  <2>6. pulls' \in Seq(PullForms) /\ DOMAIN pulls' = DOMAIN pulls  BY <1>1, <2>3, <2>4
  <2>. QED  BY <1>1, <2>1, <2>2, <2>4, <2>5, <2>6, BranchPeople
<1>7. CASE B!DeleteBranch
  <2>1. branch' = B!Absent /\ pulls' = B!Detached /\ UNCHANGED <<main, job>>  BY <1>7 DEF B!DeleteBranch
  <2>2. B!Absent \in [base : Bases, log : Seq(Commits)]  BY DEF B!Absent, Bases
  <2>3. \A m \in DOMAIN pulls :
          /\ pulls'[m] \in PullForms /\ pulls'[m].held = pulls[m].held /\ pulls'[m].log = pulls[m].log
          /\ pulls'[m].state \notin {"open", "closed"}
    <3>. SUFFICES ASSUME NEW m \in DOMAIN pulls
                  PROVE  /\ pulls'[m] \in PullForms /\ pulls'[m].held = pulls[m].held
                         /\ pulls'[m].log = pulls[m].log /\ pulls'[m].state \notin {"open", "closed"}
      OBVIOUS
    <3>1. pulls'[m] = IF pulls[m].state \in {"open", "closed"}
                      THEN [pulls[m] EXCEPT !.state = "detached"] ELSE pulls[m]
      BY <2>1 DEF B!Detached
    <3>. QED  BY <1>1, <3>1 DEF PullForms, PullStates
  <2>4. pulls' \in Seq(PullForms) /\ DOMAIN pulls' = DOMAIN pulls
    <3>1. B!Detached = [m \in DOMAIN pulls |-> B!Detached[m]]  BY DEF B!Detached
    <3>. QED  BY <1>1, <2>1, <2>3, <3>1, BranchPulls
  <2>. QED  BY <1>1, <2>1, <2>2, <2>3, <2>4, BranchPeople
<1>. QED  BY <1>2, <1>4, <1>5, <1>6, <1>7

\* The update of the branch reference: forced, so it starts with this call's commit.
LEMMA BranchUpdateRef ==
  ASSUME BranchInv, B!UpdateRef
  PROVE  BranchInv'
<1>0. BranchTypes /\ BranchShown  BY DEF BranchInv
<1>1. job \in JobForms /\ job.content \in Texts /\ job.base \in Bases
  BY <1>0 DEF B!UpdateRef, BranchTypes, B!Idle, JobForms
<1>. DEFINE log == <<B!Commit("agentit", job.content)>>
            b == [base |-> job.base, log |-> log]
<1>2. branch' = b /\ UNCHANGED main /\ job' = [job EXCEPT !.step = "open"]
  BY DEF B!UpdateRef, B!Delivered, B!Goto
<1>3. log \in Seq(Commits) /\ OwnThenPeoples(log) /\ log[1].content = job.content  BY <1>1, BranchLogs
<1>. HIDE DEF log
<1>4. b \in [base : Bases, log : Seq(Commits)] /\ b.log = log  BY <1>1, <1>3
<1>5. job' \in JobForms /\ job'.step = "open" /\ job'.content = job.content
  BY <1>1, <1>2 DEF JobForms, JobSteps
<1>. HIDE DEF b
<1>. DEFINE new == {b.log[k].content : k \in DOMAIN b.log}
<1>6. new \in SUBSET Texts /\ job.content \in new  BY <1>3, <1>4, BranchLogs DEF OwnThenPeoples
<1>7. pulls' = [n \in DOMAIN pulls |-> IF pulls[n].state = "closed" THEN [pulls[n] EXCEPT !.state = "detached"]
                                       ELSE B!Followed(b)[n]]
  BY <1>2 DEF B!UpdateRef
<1>8. ASSUME NEW n \in DOMAIN pulls
      PROVE  /\ pulls'[n] \in PullForms /\ OwnThenPeoples(pulls'[n].log)
             /\ pulls'[n].state = "open" => job.content \in pulls'[n].held
  <2>1. pulls[n] \in PullForms /\ OwnThenPeoples(pulls[n].log)  BY <1>0 DEF BranchTypes, BranchShown
  <2>2. CASE pulls[n].state = "closed"
    <3>1. pulls'[n] = [pulls[n] EXCEPT !.state = "detached"]  BY <1>7, <2>2
    <3>. QED  BY <2>1, <3>1 DEF PullForms, PullStates
  <2>3. CASE pulls[n].state = "open"
    <3>1. pulls'[n] = [pulls[n] EXCEPT !.log = b.log, !.held = @ \cup new]
      BY <1>7, <2>3 DEF B!Followed, B!IsOpen
    <3>. HIDE DEF new
    <3>. QED  BY <1>3, <1>4, <1>6, <2>1, <3>1 DEF PullForms
  <2>4. CASE pulls[n].state \notin {"open", "closed"}
    <3>1. pulls'[n] = pulls[n]  BY <1>7, <2>4 DEF B!Followed, B!IsOpen
    <3>. QED  BY <2>1, <2>4, <3>1
  <2>. QED  BY <2>2, <2>3, <2>4
<1>9. pulls' \in Seq(PullForms) /\ DOMAIN pulls' = DOMAIN pulls
  <2>1. pulls \in Seq(PullForms)  BY <1>0 DEF BranchTypes
  <2>2. pulls' = [n \in DOMAIN pulls |-> pulls'[n]]  BY <1>7
  <2>. QED  BY <1>8, <2>1, <2>2, BranchPulls
<1>10. b # B!Absent  BY <1>3, <1>4 DEF B!Absent, OwnThenPeoples
<1>11. BranchTypes'  BY <1>0, <1>2, <1>4, <1>5, <1>9 DEF BranchTypes
<1>12. BranchShown'  BY <1>2, <1>3, <1>4, <1>5, <1>8, <1>9, <1>10 DEF BranchShown, B!IsOpen
<1>13. B!ReportedIsShown'  BY <1>5 DEF B!ReportedIsShown, B!Reported
<1>. QED  BY <1>11, <1>12, <1>13 DEF BranchInv

\* The end of a call: opened, or looked up.
LEMMA BranchReports ==
  ASSUME BranchInv, B!OpenPr \/ B!AlreadyOpen \/ B!FindExisting
  PROVE  BranchInv'
<1>0. BranchTypes /\ BranchShown  BY DEF BranchInv
<1>1. job \in JobForms /\ pulls \in Seq(PullForms) /\ branch \in [base : Bases, log : Seq(Commits)]
  BY <1>0 DEF B!OpenPr, B!AlreadyOpen, B!FindExisting, BranchTypes, B!Idle
<1>2. UNCHANGED <<main, branch>>  BY DEF B!OpenPr, B!AlreadyOpen, B!FindExisting
<1>3. ASSUME NEW u \in Nat, job' = [job EXCEPT !.step = "done", !.result = [kind |-> "pr", url |-> u]]
      PROVE  job' \in JobForms /\ job'.step = "done" /\ job'.content = job.content
  <2>1. [kind |-> "pr", url |-> u] \in Results  BY DEF Results
  <2>. QED  BY <1>1, <1>3, <2>1 DEF JobForms, JobSteps
<1>4. CASE B!OpenPr
  <2>. DEFINE v == B!Opened
  <2>1. branch # B!Absent /\ job.step = "open"  BY <1>4 DEF B!OpenPr
  <2>2. OwnThenPeoples(branch.log) /\ branch.log[1].content = job.content
    BY <1>0, <2>1 DEF BranchShown
  <2>3. {branch.log[k].content : k \in DOMAIN branch.log} \in SUBSET Texts
        /\ job.content \in {branch.log[k].content : k \in DOMAIN branch.log}
    BY <1>1, <2>2, BranchLogs DEF OwnThenPeoples
  <2>4. v \in PullForms /\ job.content \in v.held /\ v.log = branch.log
    BY <1>1, <2>3 DEF B!Opened, PullForms, PullStates
  <2>. HIDE DEF v
  <2>5. pulls' = Append(pulls, v)  BY <1>4 DEF B!OpenPr, v
  <2>6. /\ pulls' \in Seq(PullForms) /\ Len(pulls') \in Nat /\ DOMAIN pulls' = 1..(Len(pulls) + 1)
        /\ pulls'[Len(pulls) + 1] = v /\ \A n \in 1..Len(pulls) : pulls'[n] = pulls[n]
        /\ DOMAIN pulls = 1..Len(pulls) /\ Len(pulls) \in Nat /\ Len(pulls) + 1 \in DOMAIN pulls'
    BY <1>1, <2>4, <2>5
  <2>7. job' \in JobForms /\ job'.step = "done" /\ job'.content = job.content
    <3>1. job' = [job EXCEPT !.step = "done", !.result = [kind |-> "pr", url |-> Len(pulls')]]
      BY <1>4 DEF B!OpenPr, B!Return
    <3>. QED  BY <1>3, <2>6, <3>1
  <2>8. BranchTypes'  BY <1>0, <1>2, <2>6, <2>7 DEF BranchTypes
  <2>9. \A n \in DOMAIN pulls' : OwnThenPeoples(pulls'[n].log)
    <3>1. \A n \in DOMAIN pulls : OwnThenPeoples(pulls[n].log)  BY <1>0 DEF BranchShown
    <3>2. \A n \in DOMAIN pulls' : n \in DOMAIN pulls \/ n = Len(pulls) + 1  BY <2>6
    <3>. QED  BY <2>2, <2>4, <2>6, <3>1, <3>2
  <2>10. BranchShown'  BY <1>0, <1>2, <2>1, <2>7, <2>9 DEF BranchShown
  <2>11. B!ReportedIsShown'  BY <2>4, <2>6, <2>7 DEF B!ReportedIsShown
  <2>. QED  BY <2>8, <2>10, <2>11 DEF BranchInv
<1>5. CASE B!AlreadyOpen
  <2>1. job' = [job EXCEPT !.step = "find"] /\ UNCHANGED pulls /\ job.step = "open"
    BY <1>5 DEF B!AlreadyOpen, B!Goto
  <2>2. job' \in JobForms /\ job'.step = "find" /\ job'.content = job.content
    BY <1>1, <2>1 DEF JobForms, JobSteps
  <2>3. \E n \in DOMAIN pulls : job.content \in pulls[n].held
    BY <1>0, <1>5, <2>1 DEF BranchShown, B!AlreadyOpen, B!HasOpen
  <2>4. BranchTypes'  BY <1>0, <1>2, <2>1, <2>2 DEF BranchTypes
  <2>5. BranchShown'  BY <1>0, <1>2, <2>1, <2>2, <2>3 DEF BranchShown
  <2>6. B!ReportedIsShown'  BY <2>2 DEF B!ReportedIsShown, B!Reported
  <2>. QED  BY <2>4, <2>5, <2>6 DEF BranchInv
<1>6. CASE B!FindExisting
  <2>1. PICK u \in {Len(pulls), 0} : job' = [job EXCEPT !.step = "done", !.result = [kind |-> "pr", url |-> u]]
    BY <1>6 DEF B!FindExisting, B!Return
  <2>2. u \in Nat  BY <1>1
  <2>3. job' \in JobForms /\ job'.step = "done" /\ job'.content = job.content  BY <1>3, <2>1, <2>2
  <2>4. UNCHANGED pulls /\ job.step = "find"  BY <1>6 DEF B!FindExisting
  <2>5. \E n \in DOMAIN pulls : job.content \in pulls[n].held  BY <1>0, <2>4 DEF BranchShown
  <2>6. BranchTypes'  BY <1>0, <1>2, <2>3, <2>4 DEF BranchTypes
  <2>7. BranchShown'  BY <1>0, <1>2, <2>3, <2>4 DEF BranchShown
  <2>8. B!ReportedIsShown'  BY <2>3, <2>4, <2>5 DEF B!ReportedIsShown
  <2>. QED  BY <2>6, <2>7, <2>8 DEF BranchInv
<1>. QED  BY <1>4, <1>5, <1>6

\* The other requests of a call, and its ways of giving up.
LEMMA BranchCalls ==
  ASSUME BranchInv,
         \/ \E kind \in B!Kinds, c \in Texts : B!Begin(kind, c)
         \/ B!Gate \/ B!GetBase \/ B!Compare \/ B!CommitTree \/ B!OpenRefused \/ B!CallFails
  PROVE  BranchInv'
<1>0. BranchTypes  BY DEF BranchInv
<1>1. UNCHANGED <<branch, pulls>>
  BY DEF B!Begin, B!Gate, B!GetBase, B!Compare, B!CommitTree, B!OpenRefused, B!CallFails
<1>2. B!Bootstrapped \in Bases /\ main \in Bases  BY <1>0 DEF BranchTypes, B!Bootstrapped, Bases
<1>3. main' \in Bases
  BY <1>2 DEF B!Begin, B!Gate, B!GetBase, B!Compare, B!CommitTree, B!OpenRefused, B!CallFails
<1>4. B!Failed \in Results /\ B!Skipped \in Results /\ B!Failed.kind # "pr" /\ B!Skipped.kind # "pr"
  BY DEF Results, B!Failed, B!Skipped
<1>5. ASSUME NEW result \in {B!Failed, B!Skipped}, B!Return(result), job \in JobForms
      PROVE  BranchInv'
  <2>1. job' \in JobForms /\ job'.step = "done" /\ job'.result = result
    BY <1>4, <1>5 DEF B!Return, JobForms, JobSteps
  <2>2. ~ B!Reported'  BY <1>4, <2>1 DEF B!Reported
  <2>. QED  BY <1>1, <1>3, <2>1, <2>2, BranchQuiet
<1>6. ASSUME NEW step \in {"base", "commit", "ref"}, B!Goto(step), job \in JobForms
      PROVE  BranchInv'
  <2>1. job' \in JobForms /\ job'.step = step  BY <1>6 DEF B!Goto, JobForms, JobSteps
  <2>2. ~ B!Reported'  BY <1>6, <2>1 DEF B!Reported
  <2>. QED  BY <1>1, <1>3, <1>6, <2>1, <2>2, BranchQuiet
<1>7. job.step # "idle" => job \in JobForms  BY <1>0 DEF BranchTypes, B!Idle
<1>8. ASSUME NEW kind \in B!Kinds, NEW c \in Texts, B!Begin(kind, c) PROVE BranchInv'
  <2>1. job' \in JobForms /\ job'.step \in {"gate", "base"}
    BY <1>4, <1>8 DEF B!Begin, JobForms, JobSteps, Bases
  <2>2. ~ B!Reported'  BY <2>1 DEF B!Reported
  <2>. QED  BY <1>1, <1>3, <2>1, <2>2, BranchQuiet
<1>9. CASE B!Gate \/ B!Compare \/ B!CommitTree \/ B!OpenRefused \/ B!CallFails
  <2>1. job \in JobForms
    BY <1>7, <1>9 DEF B!Gate, B!Compare, B!CommitTree, B!OpenRefused, B!CallFails
  <2>2. \/ \E result \in {B!Failed, B!Skipped} : B!Return(result)
        \/ \E step \in {"base", "commit", "ref"} : B!Goto(step)
    BY <1>9 DEF B!Gate, B!Compare, B!CommitTree, B!OpenRefused, B!CallFails
  <2>. QED  BY <1>5, <1>6, <2>1, <2>2
<1>10. CASE B!GetBase
  <2>1. job \in JobForms  BY <1>7, <1>10 DEF B!GetBase
  <2>2. PICK s \in {"compare", "commit"} : job' = [job EXCEPT !.base = main', !.step = s]
    BY <1>10 DEF B!GetBase
  <2>3. job' \in JobForms /\ job'.step = s  BY <1>3, <2>1, <2>2 DEF JobForms, JobSteps
  <2>4. ~ B!Reported'  BY <2>3 DEF B!Reported
  <2>. QED  BY <1>1, <1>3, <2>3, <2>4, BranchQuiet
<1>. QED  BY <1>8, <1>9, <1>10

\* Every step keeps the invariant of the delivery branch, which holds at first.
LEMMA BranchInvariant == Spec => []BranchInv
<1>1. Init => BranchInv
  <2>. SUFFICES ASSUME B!Init PROVE BranchInv
    BY DEF Init
  <2>1. BranchTypes  BY DEF B!Init, BranchTypes, Bases, B!Absent
  <2>2. BranchShown  BY DEF B!Init, BranchShown, B!Idle
  <2>3. B!ReportedIsShown  BY DEF B!Init, B!ReportedIsShown, B!Reported, B!Idle
  <2>. QED  BY <2>1, <2>2, <2>3 DEF BranchInv
<1>2. BranchInv /\ [Next]_vars => BranchInv'
  <2>. SUFFICES ASSUME BranchInv, B!Next \/ UNCHANGED B!vars PROVE BranchInv'
    BY BranchStep
  <2>1. CASE UNCHANGED B!vars
    <3>1. UNCHANGED <<main, branch, pulls, job>>  BY <2>1 DEF B!vars
    <3>2. BranchTypes' /\ BranchShown'  BY <3>1 DEF BranchInv, BranchTypes, BranchShown, B!IsOpen
    <3>3. B!ReportedIsShown'  BY <3>1 DEF BranchInv, B!ReportedIsShown, B!Reported
    <3>. QED  BY <3>2, <3>3 DEF BranchInv
  <2>2. CASE B!Next
    BY <2>2, BranchPersonPushes, BranchPersonActs, BranchCalls, BranchUpdateRef, BranchReports
       DEF B!Next
  <2>. QED  BY <2>1, <2>2
<1>. QED  BY <1>1, <1>2, PTL DEF Spec

\* What commit_to_infra_repo or create_source_patch_pr reports as delivered was shown to
\* reviewers in a pull request of the branch, whatever people pushed, merged, closed,
\* reopened or deleted between its requests.
THEOREM DeliveryIsShown == Spec => []ReportedIsShown
<1>1. BranchInv => ReportedIsShown  BY DEF BranchInv, ReportedIsShown
<1>. QED  BY <1>1, BranchInvariant, PTL

\* What get_pr_extra_commits counts as people's edits of a merged pull request is what
\* people pushed, however often the branch was delivered to again.
THEOREM ExtraCommitsArePeoples == Spec => []EditsArePeoples
<1>1. BranchInv => EditsArePeoples
  <2>. SUFFICES ASSUME BranchInv, NEW n \in DOMAIN pulls
                PROVE  B!ExtraCommits(n) = {k \in DOMAIN pulls[n].log : pulls[n].log[k].by = "person"}
    BY DEF EditsArePeoples, B!EditsArePeoples
  <2>1. OwnThenPeoples(pulls[n].log)  BY DEF BranchInv, BranchShown
  <2>. QED  BY <2>1 DEF OwnThenPeoples, B!ExtraCommits
<1>. QED  BY <1>1, BranchInvariant, PTL
=============================================================================
