------------------------- MODULE AutoDeliveryProofs -------------------------
(***************************************************************************)
(* Proofs for AutoDelivery: for every batch of files, every set of         *)
(* findings and every bound on cluster size and iterations.                *)
(***************************************************************************)
EXTENDS AutoDelivery, TLAPS

InLoop == {"next", "simulate", "validate", "fix", "converged", "deliver"}

AtHand == InLoop \ {"next"}

\* A converged pack is what the last dry run has seen; a pack under delivery is, too, as
\* far as the dry run looks at it.
PackInv ==
  /\ pc = "converged" => pack = seen
  /\ DeliveredIsValidated

\* The set clear_evidence_recorded bounds the rows written.
RejectInv ==
  \A f \in Findings :
    /\ rejects[f]["clear-evidence"] <= 1
    /\ f \notin recorded => rejects[f]["clear-evidence"] = 0

\* Before the loop nothing is partitioned or judged; in it every cluster is still to do,
\* at hand or judged.
LoopInv ==
  /\ pc \in {"capability", "gate", "partition"} =>
       \A x \in Files : part[x] = NoCluster
  /\ pc \in InLoop =>
       \A x \in Files :
         part[x] # NoCluster => part[x] \in todo \/ part[x] = cur \/ verdict[part[x]] # "none"
  /\ pc \notin AtHand /\ pc # "end" => cur = NoCluster
  /\ pc \in AtHand => cur \in Clusters
  /\ EveryClusterJudged

\* A cluster has a pull request if and only if its verdict says so; one that is still to
\* do or at hand has no verdict.
VerdictInv ==
  /\ \A c \in Clusters : shipped[c] # {} <=> verdict[c] = "pr"
  /\ \A c \in todo : verdict[c] = "none"
  /\ pc \in AtHand => cur \notin todo /\ verdict[cur] = "none"
  /\ pc \in {"capability", "gate", "partition"} => \A c \in Clusters : verdict[c] = "none"
  /\ ResultIsHonest

IInv == TypeOK /\ PackInv /\ RejectInv /\ LoopInv /\ VerdictInv

LEMMA NoClusterIsNone == NoCluster \notin Clusters
  BY FindingsAssumption DEF NoCluster, Clusters

LEMMA NoPackIsPack == NoPack \in Packs
  BY DEF NoPack, Packs

LEMMA InitInv == Init => IInv
  <1> SUFFICES ASSUME Init PROVE IInv
    OBVIOUS
  <1>1. TypeOK
    BY NoPackIsPack, BoundsAssumption DEF Init, TypeOK, Phases, Verdicts, Results
  <1> QED
    BY <1>1 DEF Init, IInv, PackInv, RejectInv, LoopInv, VerdictInv, InLoop, AtHand,
       DeliveredIsValidated, EveryClusterJudged, ResultIsHonest, Reasons

\* What Judge does to the state.
LEMMA JudgeType ==
  ASSUME TypeOK, NEW c \in Clusters, NEW v \in Verdicts, Judge(c, v)
  PROVE  /\ verdict' \in [Clusters -> Verdicts]
         /\ pc' \in Phases
         /\ cur' \in Clusters \cup {NoCluster}
         /\ pack' \in Packs
         /\ targets' \in SUBSET Findings
         /\ iter' \in 1..MaxIterations
         /\ seen' \in Packs
  BY NoPackIsPack, BoundsAssumption DEF TypeOK, Judge, Phases

\* The cluster at hand is a cluster.
LEMMA AtHandIsCluster ==
  ASSUME IInv, pc \in AtHand
  PROVE  cur \in Clusters
  BY DEF IInv, LoopInv

\* Every step keeps the types.
LEMMA TypeStep == IInv /\ [Next]_vars => TypeOK'
  <1> SUFFICES ASSUME IInv, [Next]_vars PROVE TypeOK'
    OBVIOUS
  <1> TypeOK
    BY DEF IInv
  <1>1. CASE Capability
    BY <1>1 DEF Capability, Return, TypeOK, Phases, Results, atHand
  <1>2. CASE Gate
    BY <1>2 DEF Gate, Return, RightLayer, InSource, TypeOK, Phases, Results, atHand
  <1>3. CASE Review
    <2>1. rejects' \in [Findings -> [Reasons -> Nat]]
      <3>1. CASE UNCHANGED rejects
        BY <3>1 DEF TypeOK
      <3>2. CASE rejects' = [f \in Findings |->
                  IF \E x \in kept : info[x].tie = f
                  THEN [rejects[f] EXCEPT !["llm-review"] = @ + 1] ELSE rejects[f]]
        <4>1. ASSUME NEW f \in Findings
              PROVE  [rejects[f] EXCEPT !["llm-review"] = @ + 1] \in [Reasons -> Nat]
          BY DEF TypeOK, Reasons
        <4> QED
          BY <3>2, <4>1 DEF TypeOK
      <3> QED
        BY <1>3, <3>1, <3>2 DEF Review
    <2> QED
      BY <1>3, <2>1 DEF Review, TypeOK, Phases, atHand
  <1>4. ASSUME NEW c \in Clusters, Prepare(c) PROVE TypeOK'
    <2>1. /\ UNCHANGED <<info, open, kept, part, shipped, recorded, rejects, result>>
          /\ todo' \in SUBSET Clusters
      BY <1>4 DEF Prepare, TypeOK
    <2>2. CASE \E v \in Verdicts : Judge(c, v)
      BY <2>1, <2>2, JudgeType DEF TypeOK
    <2>3. CASE /\ pc' = "simulate" /\ cur' = c /\ pack' \in Packs
               /\ targets' \in SUBSET Findings
               /\ UNCHANGED <<verdict, iter, seen>>
      BY <2>1, <2>3 DEF Phases, TypeOK
    <2>4. c[1] \in Findings
      BY DEF Clusters
    <2> QED
      BY <1>4, <2>2, <2>3, <2>4 DEF Prepare, Verdicts
  <1>5. CASE SimulationPasses
    BY <1>5 DEF SimulationPasses, TypeOK, Phases, atHand
  <1>6. CASE SimulationRefuses
    <2>1. cur \in Clusters /\ cur[1] \in Findings
      BY <1>6, AtHandIsCluster DEF SimulationRefuses, AtHand, InLoop, Clusters
    <2>2. rejects' \in [Findings -> [Reasons -> Nat]]
      BY <1>6, <2>1 DEF SimulationRefuses, TypeOK, Reasons
    <2>3. Judge(cur, "refused") /\ "refused" \in Verdicts
      BY <1>6 DEF SimulationRefuses, Verdicts
    <2> QED
      BY <1>6, <2>1, <2>2, <2>3, JudgeType DEF SimulationRefuses, TypeOK
  <1>7. CASE DryRun
    <2>1. pack' \in Packs
      BY <1>7 DEF DryRun, TypeOK, Packs
    <2> QED
      BY <1>7, <2>1 DEF DryRun, TypeOK, Phases
  <1>8. CASE Fix
    BY <1>8, BoundsAssumption DEF Fix, MergeFixes, TypeOK, Phases
  <1>9. CASE Diverged
    <2>1. cur \in Clusters /\ "refused" \in Verdicts
      BY <1>9, AtHandIsCluster DEF Diverged, AtHand, InLoop, Verdicts
    <2> QED
      BY <1>9, <2>1, JudgeType DEF Diverged, TypeOK
  <1>10. CASE Converged
    <2>1. cur \in Clusters /\ "refused" \in Verdicts
      BY <1>10, AtHandIsCluster DEF Converged, AtHand, InLoop, Verdicts
    <2>2. CASE Judge(cur, "refused")
      BY <1>10, <2>1, <2>2, JudgeType DEF Converged, TypeOK
    <2>3. CASE pc' = "deliver" /\ UNCHANGED <<verdict, atHand>>
      BY <1>10, <2>3 DEF Converged, TypeOK, Phases, atHand
    <2> QED
      BY <1>10, <2>2, <2>3 DEF Converged
  <1>11. CASE Deliver
    <2>1. cur \in Clusters
      BY <1>11, AtHandIsCluster DEF Deliver, AtHand, InLoop
    <2>2. PICK v \in Verdicts : Judge(cur, v)
      BY <1>11 DEF Deliver, Verdicts
    <2>3. shipped' \in [Clusters -> SUBSET Files]
      BY <1>11, <2>1 DEF Deliver, Paths, TypeOK
    <2> QED
      BY <1>11, <2>1, <2>2, <2>3, JudgeType DEF Deliver, TypeOK
  <1>12. CASE Report
    BY <1>12 DEF Report, Return, TypeOK, Phases, atHand
  <1>13. CASE Cut
    BY <1>13 DEF Cut, Return, TypeOK, Phases, Results, atHand
  <1>14. CASE UNCHANGED vars
    BY <1>14 DEF vars, TypeOK
  <1> QED
    BY <1>1, <1>2, <1>3, <1>4, <1>5, <1>6, <1>7, <1>8, <1>9, <1>10, <1>11, <1>12, <1>13,
       <1>14 DEF Next, Step

\* Between a dry run that passes and the delivery nothing rewrites the pack.
LEMMA PackStep == IInv /\ [Next]_vars => PackInv'
  <1> SUFFICES ASSUME IInv, [Next]_vars PROVE PackInv'
    OBVIOUS
  <1> PackInv
    BY DEF IInv
  <1> USE DEF PackInv, DeliveredIsValidated
  <1>1. CASE Capability \/ Gate \/ Review \/ Report \/ Cut
    BY <1>1 DEF Capability, Gate, Review, Report, Cut, Return
  <1>2. CASE \E c \in Clusters : Prepare(c)
    BY <1>2 DEF Prepare, Judge
  <1>3. CASE SimulationPasses
    BY <1>3 DEF SimulationPasses, InCluster, atHand
  <1>4. CASE SimulationRefuses \/ Diverged \/ Deliver
    BY <1>4 DEF SimulationRefuses, Diverged, Deliver, Judge
  <1>5. CASE DryRun
    BY <1>5 DEF DryRun
  <1>6. CASE Fix
    BY <1>6 DEF Fix
  <1>7. CASE Converged
    BY <1>7 DEF Converged, Judge, InCluster, atHand
  <1>8. CASE UNCHANGED vars
    BY <1>8 DEF vars, InCluster, Paths
  <1> QED
    BY <1>1, <1>2, <1>3, <1>4, <1>5, <1>6, <1>7, <1>8 DEF Next, Step

\* A row is written only for a finding that is then remembered.
LEMMA RejectStep == IInv /\ [Next]_vars => RejectInv'
  <1> SUFFICES ASSUME IInv, [Next]_vars PROVE RejectInv'
    OBVIOUS
  <1> RejectInv /\ TypeOK
    BY DEF IInv
  <1>1. CASE Review
    <2> SUFFICES ASSUME NEW f \in Findings
                 PROVE  rejects'[f]["clear-evidence"] = rejects[f]["clear-evidence"]
      BY <1>1 DEF Review, RejectInv
    <2>1. rejects[f] \in [Reasons -> Nat]
      BY DEF TypeOK
    <2> QED
      BY <1>1, <2>1 DEF Review, Reasons
  <1>2. CASE SimulationRefuses
    <2>1. cur[1] \in Findings
      BY <1>2, AtHandIsCluster DEF SimulationRefuses, AtHand, InLoop, Clusters
    <2>2. recorded' = recorded \cup {cur[1]}
      BY <1>2 DEF SimulationRefuses
    <2>3. CASE UNCHANGED rejects
      BY <2>2, <2>3 DEF RejectInv
    <2>4. CASE /\ cur[1] \notin recorded
               /\ rejects' = [rejects EXCEPT ![cur[1]]["clear-evidence"] = @ + 1]
      <3> SUFFICES ASSUME NEW f \in Findings
                   PROVE  /\ rejects'[f]["clear-evidence"] <= 1
                          /\ f \notin recorded' => rejects'[f]["clear-evidence"] = 0
        BY DEF RejectInv
      <3>1. rejects[f] \in [Reasons -> Nat] /\ "clear-evidence" \in Reasons
        BY DEF TypeOK, Reasons
      <3>2. CASE f = cur[1]
        <4>1. rejects[f]["clear-evidence"] = 0
          BY <2>4, <3>2 DEF RejectInv
        <4>2. rejects'[f]["clear-evidence"] = 1
          BY <2>1, <2>4, <3>1, <3>2, <4>1 DEF TypeOK
        <4> QED
          BY <2>2, <3>2, <4>2
      <3>3. CASE f # cur[1]
        <4>1. rejects'[f] = rejects[f]
          BY <2>4, <3>3 DEF TypeOK
        <4> QED
          BY <2>2, <3>3, <4>1 DEF RejectInv
      <3> QED
        BY <3>2, <3>3
    <2> QED
      BY <1>2, <2>3, <2>4 DEF SimulationRefuses
  <1>3. CASE UNCHANGED <<rejects, recorded>>
    BY <1>3 DEF RejectInv
  <1> QED
    BY <1>1, <1>2, <1>3 DEF Next, Step, vars, Capability, Gate, Prepare, SimulationPasses,
       DryRun, Fix, Diverged, Converged, Deliver, Report, Cut

\* What the loop does to one cluster leaves the others to do or judged.
LEMMA LoopStep == IInv /\ [Next]_vars => LoopInv'
  <1> SUFFICES ASSUME IInv, [Next]_vars PROVE LoopInv'
    OBVIOUS
  <1> LoopInv /\ TypeOK
    BY DEF IInv
  <1> USE NoClusterIsNone DEF LoopInv, InLoop, AtHand, EveryClusterJudged
  <1>1. CASE Capability
    BY <1>1 DEF Capability, Return, atHand
  <1>2. CASE Gate
    BY <1>2 DEF Gate, Return, atHand
  <1>3. CASE Review
    BY <1>3 DEF Review, Members, atHand, TypeOK
  <1>4. ASSUME NEW c \in Clusters, Prepare(c) PROVE LoopInv'
    <2>1. CASE \E v \in Verdicts : v # "none" /\ Judge(c, v)
      BY <1>4, <2>1 DEF Prepare, Judge, TypeOK
    <2>2. CASE pc' = "simulate" /\ cur' = c /\ UNCHANGED verdict
      BY <1>4, <2>2 DEF Prepare
    <2> QED
      BY <1>4, <2>1, <2>2 DEF Prepare, Verdicts
  <1>5. CASE SimulationPasses \/ DryRun \/ Fix
    BY <1>5 DEF SimulationPasses, DryRun, Fix, atHand
  <1>6. CASE /\ pc \in AtHand
             /\ \E v \in Verdicts : v # "none" /\ Judge(cur, v)
             /\ UNCHANGED <<part, todo, result>>
    BY <1>6 DEF Judge, TypeOK
  <1>7. CASE Converged
    <2>1. CASE pc' = "deliver" /\ UNCHANGED <<verdict, atHand>>
      BY <1>7, <2>1 DEF Converged, atHand
    <2> QED
      BY <1>6, <1>7, <2>1 DEF Converged, Verdicts
  <1>8. CASE SimulationRefuses \/ Diverged \/ Deliver
    BY <1>6, <1>8 DEF SimulationRefuses, Diverged, Deliver, Verdicts
  <1>9. CASE Report
    BY <1>9 DEF Report, Return
  <1>10. CASE Cut
    BY <1>10 DEF Cut, Return
  <1>11. CASE UNCHANGED vars
    BY <1>11 DEF vars
  <1> QED
    BY <1>1, <1>2, <1>3, <1>4, <1>5, <1>7, <1>8, <1>9, <1>10, <1>11 DEF Next, Step

\* The verdict "pr" and the pull request come in one step.
LEMMA VerdictStep == IInv /\ [Next]_vars => VerdictInv'
  <1> SUFFICES ASSUME IInv, [Next]_vars PROVE VerdictInv'
    OBVIOUS
  <1> VerdictInv /\ TypeOK
    BY DEF IInv
  <1> USE DEF VerdictInv, ResultIsHonest, AtHand, InLoop
  <1>1. CASE Capability
    BY <1>1 DEF Capability, Return
  <1>2. CASE Gate
    BY <1>2 DEF Gate, Return
  <1>3. CASE Review \/ SimulationPasses \/ DryRun \/ Fix
    BY <1>3 DEF Review, SimulationPasses, DryRun, Fix, atHand
  <1>4. ASSUME NEW c \in Clusters, Prepare(c) PROVE VerdictInv'
    <2>1. verdict[c] = "none" /\ c \notin todo'
      BY <1>4 DEF Prepare
    <2>2. CASE \E v \in Verdicts : v # "pr" /\ Judge(c, v)
      BY <1>4, <2>1, <2>2 DEF Prepare, Judge, TypeOK
    <2>3. CASE pc' = "simulate" /\ cur' = c /\ UNCHANGED verdict
      BY <1>4, <2>1, <2>3 DEF Prepare
    <2> QED
      BY <1>4, <2>2, <2>3 DEF Prepare, Verdicts
  <1>5. ASSUME NEW v \in Verdicts, v # "pr", Judge(cur, v), pc \in AtHand,
               UNCHANGED <<todo, shipped, result>>
        PROVE  VerdictInv'
    BY <1>5, AtHandIsCluster DEF Judge, TypeOK
  <1>6. CASE SimulationRefuses \/ Diverged
    BY <1>5, <1>6 DEF SimulationRefuses, Diverged, Verdicts
  <1>7. CASE Converged
    <2>1. CASE pc' = "deliver" /\ UNCHANGED <<verdict, atHand>>
      BY <1>7, <2>1 DEF Converged, atHand
    <2> QED
      BY <1>5, <1>7, <2>1 DEF Converged, Verdicts
  <1>8. CASE Deliver
    <2>1. cur \in Clusters
      BY <1>8, AtHandIsCluster DEF Deliver
    <2>2. CASE UNCHANGED shipped /\ \E v \in Verdicts : v # "pr" /\ Judge(cur, v)
      BY <1>5, <1>8, <2>2 DEF Deliver
    <2>3. CASE \E S \in (SUBSET Files) \ {{}} :
                 Judge(cur, "pr") /\ shipped' = [shipped EXCEPT ![cur] = S]
      BY <1>8, <2>1, <2>3 DEF Deliver, Judge, TypeOK
    <2> QED
      BY <1>8, <2>2, <2>3 DEF Deliver, Verdicts, Paths
  <1>9. CASE Report
    <2>1. PICK s \in Results : Outcome(s) /\ result' = s
      BY <1>9 DEF Report, Return
    <2>2. s = "delivered" <=> \E c \in Clusters : verdict[c] = "pr"
      BY <2>1 DEF Outcome, Some
    <2> QED
      BY <1>9, <2>1, <2>2 DEF Report, Return
  <1>10. CASE Cut
    BY <1>10 DEF Cut, Return
  <1>11. CASE UNCHANGED vars
    BY <1>11 DEF vars
  <1> QED
    BY <1>1, <1>2, <1>3, <1>4, <1>6, <1>7, <1>8, <1>9, <1>10, <1>11 DEF Next, Step

LEMMA Inductive == Spec => []IInv
  <1>1. IInv /\ [Next]_vars => IInv'
    BY TypeStep, PackStep, RejectStep, LoopStep, VerdictStep DEF IInv
  <1> QED
    BY InitInv, <1>1, PTL DEF Spec

\* auto_validate_and_deliver keeps its types, for every batch and every bound.
THEOREM TypeCorrect == Spec => []TypeOK
  BY Inductive, PTL DEF IInv

\* No manifest of a pull request has been rewritten since its last dry run.
THEOREM Validated == Spec => []DeliveredIsValidated
  BY Inductive, PTL DEF IInv, PackInv

\* A call counts a finding's clear-evidence refusals at most once, however many clusters
\* the finding has.
THEOREM OncePerCall == Spec => []RejectedOncePerCall
  <1>1. IInv => RejectedOncePerCall
    BY DEF IInv, RejectInv, RejectedOncePerCall
  <1> QED
    BY Inductive, <1>1, PTL

\* A call that returns has judged every cluster of its batch.
THEOREM AllJudged == Spec => []EveryClusterJudged
  BY Inductive, PTL DEF IInv, LoopInv

\* The status is "delivered" exactly when a pull request was opened.
THEOREM HonestStatus == Spec => []ResultIsHonest
  BY Inductive, PTL DEF IInv, VerdictInv
=============================================================================
