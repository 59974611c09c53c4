---------------------------- MODULE AutoDelivery ----------------------------
(***************************************************************************)
(* One call of auto_validate_and_deliver (portal/auto_delivery.py): from   *)
(* the files an onboarding has generated to at most one pull request per   *)
(* finding cluster.  A batch passes the capability filter, the finding     *)
(* gate and the finding filter, is partitioned into clusters, and every    *)
(* cluster goes through its own preparation, clear-evidence simulation,    *)
(* validate-fix loop and delivery, whatever becomes of the others.         *)
(*                                                                         *)
(* What a file says is abstracted to what these gates see of it (Contents) *)
(* and arbitrary, and so are the cluster's and GitHub's answers.           *)
(***************************************************************************)
EXTENDS Naturals, FiniteSets

CONSTANTS
  Files,            \* the files that skills may generate, by path
  Findings,         \* finding categories
  NoFinding,
  Batches,          \* the generated batches considered: what each file is for, its layer
  Remediable,       \* findings whose contract allows an automatic pull request
  SourceOnly,       \* findings that clear via a patch of the source repository
  PropertyChecked,  \* findings that property_verifier checks
  MaxFiles,         \* MAX_FILES_PER_CLUSTER_PR
  MaxIterations     \* MAX_VALIDATION_ITERATIONS

ASSUME FindingsAssumption ==
  /\ NoFinding \notin Findings
  /\ Remediable \subseteq Findings
  /\ SourceOnly \subseteq Findings
  /\ PropertyChecked \subseteq Findings

\* The skill a file comes from clears the finding tie, or none.
FileInfo == [tie : Findings \cup {NoFinding}, layer : {"source", "cluster"}]

ASSUME BatchesAssumption == IsFiniteSet(Files) /\ Batches \subseteq [Files -> FileInfo]

ASSUME BoundsAssumption == MaxFiles \in Nat \ {0} /\ MaxIterations \in Nat \ {0}

\* What a file does for the finding of its cluster: "good" clears it and has its property,
\* "partial" clears it and lacks the property, "weak" neither, "blank" is good but for an
\* unresolved placeholder.
Contents == {"good", "partial", "weak", "blank"}

\* A pack of files in memory: what each says, if it is there.
Packs == [Files -> Contents \cup {"absent"}]

NoPack == [x \in Files |-> "absent"]

Paths(p) == {x \in Files : p[x] # "absent"}

\* A finding and a chunk of its files: the cluster keys "key", "key#2", ...
Clusters == Findings \X (1..Cardinality(Files))

NoCluster == <<NoFinding, 0>>

VARIABLES
  info,      \* the generated batch
  open,      \* the open findings the call is made for
  pc,        \* phase of the call
  kept,      \* the files left of the batch
  part,      \* the cluster of every file
  todo,      \* clusters not yet handled
  cur,       \* the cluster at hand ...
  pack,      \* ... its files as they are now ...
  targets,   \* ... the findings it is to clear ...
  iter,      \* ... the iteration of its validate-fix loop ...
  seen,      \* ... and as the last dry run has seen them
  verdict,   \* what became of each cluster
  shipped,   \* the files of each pull request
  recorded,  \* clear_evidence_recorded
  rejects,   \* skill_effectiveness rows written by the call
  result     \* the status returned

vars == <<info, open, pc, kept, part, todo, cur, pack, targets, iter, seen,
          verdict, shipped, recorded, rejects, result>>

atHand == <<cur, pack, targets, iter, seen>>

Phases == {"capability", "gate", "partition", "next", "simulate", "validate", "fix",
           "converged", "deliver", "end"}

Verdicts == {"none", "refused", "skipped", "pr", "error", "unchanged", "stripped"}

Results == {"none", "delivered", "unchanged", "needs_attention", "delivery_failed", "cut"}

Reasons == {"llm-review", "clear-evidence"}

TypeOK ==
  /\ info \in Batches
  /\ open \in SUBSET Findings
  /\ pc \in Phases
  /\ kept \in SUBSET Files
  /\ part \in [Files -> Clusters \cup {NoCluster}]
  /\ todo \in SUBSET Clusters
  /\ cur \in Clusters \cup {NoCluster}
  /\ pack \in Packs
  /\ targets \in SUBSET Findings
  /\ iter \in 1..MaxIterations
  /\ seen \in Packs
  /\ verdict \in [Clusters -> Verdicts]
  /\ shipped \in [Clusters -> SUBSET Files]
  /\ recorded \in SUBSET Findings
  /\ rejects \in [Findings -> [Reasons -> Nat]]
  /\ result \in Results

Init ==
  /\ info \in Batches
  /\ open \in SUBSET Findings
  /\ pc = "capability"
  /\ kept = {}
  /\ part = [x \in Files |-> NoCluster]
  /\ todo = {}
  /\ cur = NoCluster
  /\ pack = NoPack
  /\ targets = {}
  /\ iter = 1
  /\ seen = NoPack
  /\ verdict = [c \in Clusters |-> "none"]
  /\ shipped = [c \in Clusters |-> {}]
  /\ recorded = {}
  /\ rejects = [f \in Findings |-> [r \in Reasons |-> 0]]
  /\ result = "none"

-----------------------------------------------------------------------------
(* The batch. *)

InCluster(S) == {x \in S : info[x].layer = "cluster"}

InSource(S) == {x \in S : info[x].layer = "source"}

\* resolve_target_findings, remediable_findings.
Resolved == open \cap Remediable

\* Tier 1 "fix" files; the others are companions.
Fixes(S) == {x \in S : info[x].tie \in Resolved}

Return(s) == pc' = "end" /\ result' = s

\* filter_files_for_cluster_capabilities, and the snapshot before validation.
Capability ==
  /\ pc = "capability"
  /\ \E gone \in SUBSET InCluster(Files) : kept' = Files \ gone
  /\ IF kept' = {} THEN Return("needs_attention") ELSE pc' = "gate" /\ UNCHANGED result
  /\ UNCHANGED <<info, open, part, todo, atHand, verdict, shipped, recorded, rejects>>

\* strip_wrong_layer_companions for the findings fs.
RightLayer(S, fs) == IF fs # {} /\ fs \subseteq SourceOnly THEN InSource(S) ELSE S

\* finding_gate_allows_pr, filter_files_to_open_findings: companions that may not ride
\* along are dropped, and for source findings the fixes of other skills than the
\* contract's, too.
Gate ==
  /\ pc = "gate"
  /\ \E drop \in SUBSET kept :
       /\ drop \cap Fixes(kept) # {} => Resolved \subseteq SourceOnly
       /\ kept' = RightLayer(kept \ drop, Resolved)
  /\ IF Resolved = {} \/ Fixes(kept') = {}
     THEN Return("needs_attention")
     ELSE pc' = "partition" /\ UNCHANGED result
  /\ UNCHANGED <<info, open, part, todo, atHand, verdict, shipped, recorded, rejects>>

Members(p, c) == {x \in Files : p[x] = c}

Room(p, c) == Cardinality(Members(p, c)) < MaxFiles

SameLayer(p, x, c) ==
  \E y \in Members(p, c) : y \in Fixes(kept) /\ info[y].layer = info[x].layer

\* partition_by_finding_cluster: the fixes of a finding in chunks of MaxFiles, all but
\* the last one full; a companion joins a cluster of its layer that has room, and is
\* dropped only if there is none.
Partition(p) ==
  /\ \A x \in Files \ kept : p[x] = NoCluster
  /\ \A x \in Fixes(kept) : p[x] \in Clusters /\ p[x][1] = info[x].tie
  /\ \A x \in kept \ Fixes(kept) :
       \/ p[x] \in Clusters /\ SameLayer(p, x, p[x])
       \/ p[x] = NoCluster /\ \A c \in Clusters : SameLayer(p, x, c) => ~Room(p, c)
  /\ \A c \in Clusters :
       /\ Cardinality(Members(p, c)) <= MaxFiles
       /\ c[2] > 1 /\ Members(p, c) # {} =>
            Cardinality(Members(p, <<c[1], c[2] - 1>>) \cap Fixes(kept)) = MaxFiles

\* review_final_manifests: flagged concerns count against the skills of the batch.
Review ==
  /\ pc = "partition"
  /\ \E p \in [Files -> Clusters \cup {NoCluster}] :
       /\ Partition(p)
       /\ part' = p
       /\ todo' = {c \in Clusters : Members(p, c) # {}}
  /\ \/ UNCHANGED rejects
     \/ rejects' = [f \in Findings |->
          IF \E x \in kept : info[x].tie = f
          THEN [rejects[f] EXCEPT !["llm-review"] = @ + 1] ELSE rejects[f]]
  /\ pc' = "next"
  /\ UNCHANGED <<info, open, kept, atHand, verdict, shipped, recorded, result>>

-----------------------------------------------------------------------------
(* One cluster. *)

\* The cluster c is dealt with: on to the next one.
Judge(c, v) ==
  /\ verdict' = [verdict EXCEPT ![c] = v]
  /\ pc' = "next"
  /\ cur' = NoCluster
  /\ pack' = NoPack
  /\ targets' = {}
  /\ iter' = 1
  /\ seen' = NoPack

\* Layer strip, the fleet HPA gate and the enrichment of source patches.  Emptied by the
\* first two, the cluster is refused; emptied by the enrichment, it is refused unless the
\* enrichment failed half way.  An audit that is already wired is no target any more, and
\* without files its cluster is skipped.
Prepare(c) ==
  /\ pc = "next"
  /\ c \in todo
  /\ todo' = todo \ {c}
  /\ \E p \in Packs, wired \in BOOLEAN :
       LET gone == Members(part, c) \ Paths(p)
       IN  /\ Paths(p) \subseteq RightLayer(Members(part, c), {c[1]})
           /\ wired => InSource(gone) # {} /\ Fixes(Paths(p)) = {}
           /\ \/ /\ Paths(p) = {}
                 /\ Judge(c, IF wired THEN "skipped" ELSE "refused")
              \/ /\ Paths(p) # {} \/ InSource(gone) # {}
                 /\ pc' = "simulate"
                 /\ cur' = c
                 /\ pack' = p
                 /\ targets' = IF wired THEN {} ELSE {c[1]}
                 /\ UNCHANGED <<verdict, iter, seen>>
  /\ UNCHANGED <<info, open, kept, part, shipped, recorded, rejects, result>>

\* The files that count as evidence for f: those of its skill, or all if there is none.
Evidence(p, f) ==
  LET own == {x \in Paths(p) : info[x].tie = f}
  IN  IF own = {} THEN Paths(p) ELSE own

\* clear_evidence_simulation_ok: every remediable finding has a file that would clear it.
Clears(p, fs) ==
  /\ fs \cap Remediable # {}
  /\ \A f \in fs \cap Remediable : \E x \in Evidence(p, f) : p[x] # "weak"

SimulationPasses ==
  /\ pc = "simulate"
  /\ Clears(pack, targets)
  /\ pc' = IF InCluster(Paths(pack)) = {} THEN "deliver" ELSE "validate"
  /\ UNCHANGED <<info, open, kept, part, todo, atHand, verdict, shipped, recorded,
                 rejects, result>>

\* The refusal counts against the finding's skill, once per call; a failing insert is
\* only logged.
SimulationRefuses ==
  /\ pc = "simulate"
  /\ ~Clears(pack, targets)
  /\ Judge(cur, "refused")
  /\ recorded' = recorded \cup {cur[1]}
  /\ \/ /\ cur[1] \notin recorded
        /\ rejects' = [rejects EXCEPT ![cur[1]]["clear-evidence"] = @ + 1]
     \/ UNCHANGED rejects
  /\ UNCHANGED <<info, open, kept, part, todo, shipped, result>>

-----------------------------------------------------------------------------
(* validate_and_fix_manifests. *)

\* Properties of targeted findings that no file of the pack has.
Missing(p) ==
  {f \in targets \cap PropertyChecked : \A x \in Paths(p) : p[x] \notin {"good", "blank"}}

\* Server-side dry run, property check.  Files the cluster forbids or does not know are
\* dropped from the pack; files with placeholders are no error.
DryRun ==
  /\ pc = "validate"
  /\ \E skip \in SUBSET InCluster(Paths(pack)), hard \in BOOLEAN :
       /\ hard => InCluster(Paths(pack)) # {}
       /\ pack' = [x \in Files |-> IF x \in skip THEN "absent" ELSE pack[x]]
       /\ pc' = IF ~hard /\ Missing(pack') = {} THEN "converged" ELSE "fix"
  /\ seen' = pack'
  /\ UNCHANGED <<info, open, kept, part, todo, cur, targets, iter, verdict, shipped,
                 recorded, rejects, result>>

\* What the dispatcher may regenerate: fixes of missing properties, files with
\* placeholders.
Fixable ==
  {x \in Files : \/ info[x].layer = "cluster" /\ info[x].tie \in Missing(pack)
                 \/ pack[x] = "blank"}

\* _merge_fix_files: regenerated files replace or join the pack.
MergeFixes ==
  \E new \in SUBSET Fixable :
    /\ new # {}
    /\ pack' \in Packs
    /\ \A x \in Files : IF x \in new THEN pack'[x] # "absent" ELSE pack'[x] = pack[x]

\* Mutants of Fix: the iterations are not counted; the fixes of the last iteration are
\* trusted.
Fix_Uncounted ==
  /\ pc = "fix"
  /\ MergeFixes
  /\ pc' = "validate"
  /\ UNCHANGED <<info, open, kept, part, todo, cur, targets, iter, seen, verdict, shipped,
                 recorded, rejects, result>>
Fix_Trusted ==
  /\ pc = "fix"
  /\ MergeFixes
  /\ IF iter < MaxIterations
     THEN pc' = "validate" /\ iter' = iter + 1
     ELSE pc' = "converged" /\ UNCHANGED iter
  /\ UNCHANGED <<info, open, kept, part, todo, cur, targets, seen, verdict, shipped, recorded,
                 rejects, result>>

\* Some fix is there: validate again.
Fix ==
  /\ pc = "fix"
  /\ iter < MaxIterations
  /\ MergeFixes
  /\ pc' = "validate"
  /\ iter' = iter + 1
  /\ UNCHANGED <<info, open, kept, part, todo, cur, targets, seen, verdict, shipped, recorded,
                 rejects, result>>

\* Mutant of Diverged: the loop over the clusters breaks instead of going on.
Diverged_Breaks ==
  /\ pc = "fix"
  /\ Judge(cur, "refused")
  /\ todo' = {}
  /\ UNCHANGED <<info, open, kept, part, shipped, recorded, rejects, result>>

\* Nothing could be fixed, or the iterations are used up: the cluster is refused.
Diverged ==
  /\ pc = "fix"
  /\ Judge(cur, "refused")
  /\ UNCHANGED <<info, open, kept, part, todo, shipped, recorded, rejects, result>>

\* An emptied pack or a resource collision refuses the cluster, too.
Converged ==
  /\ pc = "converged"
  /\ \/ Judge(cur, "refused")
     \/ Paths(pack) # {} /\ pc' = "deliver" /\ UNCHANGED <<verdict, atHand>>
  /\ UNCHANGED <<info, open, kept, part, todo, shipped, recorded, rejects, result>>

-----------------------------------------------------------------------------
(* Delivery and report. *)

\* route_and_deliver strips files with placeholders; if nothing is left it reports no
\* outcome at all.
Deliver ==
  /\ pc = "deliver"
  /\ LET rest == {x \in Paths(pack) : pack[x] # "blank"}
     IN  IF rest = {}
         THEN Judge(cur, "stripped") /\ UNCHANGED shipped
         ELSE \E v \in {"pr", "error", "unchanged"} :
                /\ Judge(cur, v)
                /\ shipped' = IF v = "pr" THEN [shipped EXCEPT ![cur] = rest] ELSE shipped
  /\ UNCHANGED <<info, open, kept, part, todo, recorded, rejects, result>>

Some(vs) == \E c \in Clusters : verdict[c] \in vs

\* Mutant of Outcome: refusals are looked at first.
Outcome_RefusalsFirst(s) ==
  CASE Some({"refused", "error"}) -> s \in {"needs_attention", "delivery_failed"}
    [] Some({"pr"}) -> s = "delivered"
    [] OTHER -> s = "unchanged"

\* Which status it is after refusals depends on their wording.
Outcome(s) ==
  CASE Some({"pr"}) -> s = "delivered"
    [] Some({"refused", "error"}) /\ ~Some({"pr", "unchanged", "stripped"}) ->
         s \in {"needs_attention", "delivery_failed"}
    [] OTHER -> s = "unchanged"

Report ==
  /\ pc = "next"
  /\ todo = {}
  /\ \E s \in Results : Outcome(s) /\ Return(s)
  /\ UNCHANGED <<info, open, kept, part, todo, atHand, verdict, shipped, recorded,
                 rejects>>

\* An exception (the store, discovery, DeliveryInProgressError), with_timeout or a crash:
\* what has been done stays, no status is returned.
Cut ==
  /\ pc # "end"
  /\ Return("cut")
  /\ UNCHANGED <<info, open, kept, part, todo, atHand, verdict, shipped, recorded,
                 rejects>>

Step ==
  \/ Capability \/ Gate \/ Review \/ \E c \in Clusters : Prepare(c)
  \/ SimulationPasses \/ SimulationRefuses \/ DryRun \/ Fix \/ Diverged \/ Converged
  \/ Deliver \/ Report

Next == Step \/ Cut

Spec == Init /\ [][Next]_vars

FairSpec == Spec /\ WF_vars(Step)

-----------------------------------------------------------------------------
(* Properties. *)

\* validate_and_fix_manifests: what is delivered of a cluster has passed the last dry run
\* in exactly the form in which it is delivered; a regenerated file is validated again.
DeliveredIsValidated ==
  pc = "deliver" => \A x \in InCluster(Paths(pack)) : pack[x] = seen[x]

\* "unrelated clusters are unaffected": when the call returns, every cluster of the batch
\* has had its own verdict, whatever happened to the others.
EveryClusterJudged ==
  pc = "end" /\ result # "cut" =>
    \A x \in Files : part[x] # NoCluster => verdict[part[x]] # "none"

\* clear_evidence_recorded: "multi-cluster theater refusals must not double-count into
\* cool-down within a single call", even if a finding has several clusters.
RejectedOncePerCall ==
  \A f \in Findings : rejects[f]["clear-evidence"] <= 1

\* The status returned: "delivered" if and only if a pull request was opened, so that the
\* job never hides one from the people who are to merge it.
ResultIsHonest ==
  pc = "end" /\ result # "cut" =>
    (result = "delivered" <=> \E c \in Clusters : shipped[c] # {})

\* The validate-fix loop is bounded: every call ends.
CallEnds == <>(pc = "end")
=============================================================================
