---------------------------- MODULE FindingLoop ----------------------------
(***************************************************************************)
(* The finding loop of one application (portal/delivery.py, Phases 3 and   *)
(* 4): every push-triggered re-assessment checks the deliveries that wait  *)
(* for their target findings to clear, and a finding that is still present *)
(* is re-dispatched or, after repeated failures, escalated to a human.     *)
(*                                                                         *)
(* A run is one call of check_pending_delivery_verifications; runs of two  *)
(* pushes overlap.  The code keeps the loop's memory in three tables:      *)
(* deliveries (rows), skill_effectiveness (rejects), events (open).        *)
(***************************************************************************)
EXTENDS Naturals, FiniteSets

CONSTANTS
  Findings,    \* finding keys, one per category
  Contract,    \* the findings whose category a contract skill owns
  Runs,        \* checks that may be in progress at once
  MaxRows,     \* bound on the deliveries of the application
  Threshold,   \* FINDING_ESCALATION_THRESHOLD
  CooldownAt   \* SKILL_COOLDOWN_SAME_REASON

ASSUME FindingsAssumption == Contract \subseteq Findings

ASSUME RunsAssumption == IsFiniteSet(Runs)

ASSUME BoundsAssumption ==
  MaxRows \in Nat /\ Threshold \in Nat \ {0} /\ CooldownAt \in Nat \ {0}

VARIABLES
  present,  \* the findings an assessment would report now
  rows,     \* deliveries: target_findings, finding_resolution, does an outcome have a PR
  rejects,  \* "still present after merge" rejects of the finding's skill since the last
            \* clear_skill_cooldown, counted up to CooldownAt
  open,     \* unacknowledged finding-escalated events
  run,      \* the checks in progress
  tries,    \* re-dispatches so far
  fate,     \* what became of the last confirmed failure of a finding
  undone    \* the findings of which a confirmed failure was overwritten with "resolved"

vars == <<present, rows, rejects, open, run, tries, fate, undone>>

RowIds == 1..MaxRows

Resolutions == {"null", "resolved", "still_present", "not_delivered"}

Row == [targets : SUBSET Findings, res : Resolutions, used : BOOLEAN]

NoRow == [targets |-> {}, res |-> "null", used |-> FALSE]

Phases == {"idle", "query", "next", "record", "decide", "escalate", "log", "dispatch"}

\* keys are the still-present findings of the row at hand that are yet to be handled,
\* the one being handled included.
Run == [pc : Phases, report : SUBSET Findings, todo : SUBSET RowIds,
        keys : SUBSET Findings, key : SUBSET Findings]

IdleRun == [pc |-> "idle", report |-> {}, todo |-> {}, keys |-> {}, key |-> {}]

Fates == {"none", "owed", "handled", "busy", "store", "crash"}

TypeOK ==
  /\ present \in SUBSET Findings
  /\ rows \in [RowIds -> Row]
  /\ rejects \in [Findings -> 0..CooldownAt]
  /\ open \in [Findings -> Nat]
  /\ run \in [Runs -> Run]
  /\ tries \in [Findings -> Nat]
  /\ fate \in [Findings -> Fates]
  /\ undone \in SUBSET Findings

Init ==
  /\ present \in SUBSET Findings
  /\ rows = [r \in RowIds |-> NoRow]
  /\ rejects = [f \in Findings |-> 0]
  /\ open = [f \in Findings |-> 0]
  /\ run = [w \in Runs |-> IdleRun]
  /\ tries = [f \in Findings |-> 0]
  /\ fate = [f \in Findings |-> "none"]
  /\ undone = {}

-----------------------------------------------------------------------------
(* The deliveries table. *)

\* list_deliveries_pending_finding_check: a target, a PR, no resolution yet.
Pending(r) == rows[r].used /\ rows[r].targets # {} /\ rows[r].res = "null"

\* get_finding_failure_count: every unresolved row that targets the category counts,
\* whichever of its targets was still present.
FailureCount(f) ==
  Cardinality({r \in RowIds : rows[r].res = "still_present" /\ f \in rows[r].targets})

\* create_delivery for targets ts; a delivery that opened no PR is never checked.
Insert(ts, pr) ==
  \E r \in RowIds :
    /\ ~rows[r].used /\ \A q \in RowIds : q < r => rows[q].used
    /\ rows' = [rows EXCEPT ![r] =
         [targets |-> ts, res |-> IF pr THEN "null" ELSE "not_delivered", used |-> TRUE]]

-----------------------------------------------------------------------------
(* check_pending_delivery_verifications. *)

Goto(w, p) == run' = [run EXCEPT ![w].pc = p]

\* The re-assessment; the world may have changed by the time its report is used.
Assess(w) ==
  /\ run[w].pc = "idle"
  /\ run' = [run EXCEPT ![w].pc = "query", ![w].report = present]
  /\ UNCHANGED <<present, rows, rejects, open, tries, fate, undone>>

Query(w) ==
  /\ run[w].pc = "query"
  /\ run' = [run EXCEPT ![w].pc = "next", ![w].todo = {r \in RowIds : Pending(r)}]
  /\ UNCHANGED <<present, rows, rejects, open, tries, fate, undone>>

Oldest(w) == CHOOSE r \in run[w].todo : \A q \in run[w].todo : r <= q

StillPresent(w, r) == rows[r].targets \cap run[w].report

\* correlate_delivery_finding, then update_delivery: whatever another run has written
\* meanwhile is overwritten.
Resolve(w) ==
  /\ run[w].pc = "next" /\ run[w].todo # {}
  /\ StillPresent(w, Oldest(w)) = {}
  /\ rows' = [rows EXCEPT ![Oldest(w)].res = "resolved"]
  /\ run' = [run EXCEPT ![w].todo = @ \ {Oldest(w)}]
  /\ undone' = undone \cup {f \in Findings : /\ rows[Oldest(w)].res = "still_present"
                                            /\ f \in rows[Oldest(w)].targets}
  /\ UNCHANGED <<present, rejects, open, tries, fate>>

Confirm(w) ==
  /\ run[w].pc = "next" /\ run[w].todo # {}
  /\ LET still == StillPresent(w, Oldest(w))
     IN  /\ still # {}
         /\ rows' = [rows EXCEPT ![Oldest(w)].res = "still_present"]
         /\ run' = [run EXCEPT ![w].pc = "record", ![w].keys = still,
                               ![w].todo = @ \ {Oldest(w)}]
         /\ fate' = [f \in Findings |-> IF f \in still THEN "owed" ELSE fate[f]]
  /\ UNCHANGED <<present, rejects, open, tries, undone>>

\* record_skill_outcomes_for_findings: a failing insert is only logged.
RecordRejects(w) ==
  /\ run[w].pc = "record"
  /\ \E S \in SUBSET (run[w].keys \cap Contract) :
       rejects' = [f \in Findings |->
                     IF f \in S /\ rejects[f] < CooldownAt THEN rejects[f] + 1 ELSE rejects[f]]
  /\ Goto(w, "decide")
  /\ UNCHANGED <<present, rows, open, tries, fate, undone>>

CoolingDown(f) == rejects[f] >= CooldownAt

\* Mutant of Exhausted: one retry too many.
Exhausted_OffByOne(f) == FailureCount(f) > Threshold

Exhausted(f) == FailureCount(f) >= Threshold

\* handle_confirmed_finding_failure for one of the keys.  A cool-down that cannot be read
\* counts as none.
Decide(w) ==
  /\ run[w].pc = "decide"
  /\ \E f \in run[w].keys :
       \/ /\ Exhausted(f) \/ CoolingDown(f)
          /\ run' = [run EXCEPT ![w].key = {f}, ![w].pc = "escalate"]
       \/ /\ ~Exhausted(f)
          /\ run' = [run EXCEPT ![w].key = {f}, ![w].pc = "dispatch"]
  /\ UNCHANGED <<present, rows, rejects, open, tries, fate, undone>>

\* Mutant of KeysDone: the loop over the keys is left early.
KeysDone_Break(w) ==
  /\ run[w].pc = "decide"
  /\ Goto(w, "next")
  /\ UNCHANGED <<present, rows, rejects, open, tries, fate, undone>>

KeysDone(w) ==
  /\ run[w].pc = "decide" /\ run[w].keys = {}
  /\ Goto(w, "next")
  /\ UNCHANGED <<present, rows, rejects, open, tries, fate, undone>>

CheckEnds(w) ==
  /\ run[w].pc = "next" /\ run[w].todo = {}
  /\ run' = [run EXCEPT ![w] = IdleRun]
  /\ UNCHANGED <<present, rows, rejects, open, tries, fate, undone>>

\* The key of w is dealt with: the run turns to the next one.
Handled(w, how) ==
  /\ run' = [run EXCEPT ![w].pc = "decide", ![w].keys = @ \ run[w].key, ![w].key = {}]
  /\ fate' = [f \in Findings |-> IF f \in run[w].key THEN how ELSE fate[f]]

\* Mutant of AlreadyOpen: escalations are not deduplicated.
AlreadyOpen_Never(f) == FALSE

\* list_unresolved_escalations has one of the category.
AlreadyOpen(f) == open[f] > 0

\* escalate_unresolved_finding reads first ...
Escalate(w) ==
  /\ run[w].pc = "escalate"
  /\ IF \A f \in run[w].key : AlreadyOpen(f)
     THEN Handled(w, "handled")
     ELSE Goto(w, "log") /\ UNCHANGED fate
  /\ UNCHANGED <<present, rows, rejects, open, tries, undone>>

\* ... and then logs the event; a failing insert is only logged.
LogEscalation(w) ==
  /\ run[w].pc = "log"
  /\ \/ /\ open' = [f \in Findings |-> IF f \in run[w].key THEN open[f] + 1 ELSE open[f]]
        /\ Handled(w, "handled")
     \/ UNCHANGED open /\ Handled(w, "store")
  /\ UNCHANGED <<present, rows, rejects, tries, undone>>

CountTry(w) ==
  tries' = [f \in Findings |-> IF f \in run[w].key THEN tries[f] + 1 ELSE tries[f]]

\* redispatch_finding_fix: no fix (none registered, the skill is cooling down), or a new
\* delivery for this finding, with or without a PR.
Redispatch(w) ==
  /\ run[w].pc = "dispatch"
  /\ CountTry(w)
  /\ UNCHANGED rows \/ \E pr \in BOOLEAN : Insert(run[w].key, pr)
  /\ Handled(w, "handled")
  /\ UNCHANGED <<present, rejects, open, undone>>

\* The exception leaves check_pending_delivery_verifications: the keys at hand are not
\* handled, and their row, already marked, is never pending again.
Drop(w, why) ==
  /\ run' = [run EXCEPT ![w] = IdleRun]
  /\ fate' = [f \in Findings |-> IF f \in run[w].keys THEN why ELSE fate[f]]

\* route_and_deliver raises: another delivery holds the lock, or the delivery failed.
RedispatchRaises(w) ==
  /\ run[w].pc = "dispatch"
  /\ CountTry(w)
  /\ Drop(w, "busy")
  /\ UNCHANGED <<present, rows, rejects, open, undone>>

StoreFails(w) ==
  /\ run[w].pc \in {"query", "next", "decide", "escalate", "dispatch"}
  /\ Drop(w, "store")
  /\ UNCHANGED <<present, rows, rejects, open, tries, undone>>

RunStep(w) ==
  \/ Query(w) \/ Resolve(w) \/ Confirm(w) \/ RecordRejects(w) \/ Decide(w) \/ KeysDone(w)
  \/ CheckEnds(w) \/ Escalate(w) \/ LogEscalation(w)
  \/ Redispatch(w) \/ RedispatchRaises(w) \/ StoreFails(w)

-----------------------------------------------------------------------------
(* Everything else that touches the tables. *)

\* A delivery of the onboard pipeline opens a PR for some findings.
NewDelivery(ts) ==
  /\ ts # {}
  /\ Insert(ts, TRUE)
  /\ UNCHANGED <<present, rejects, open, run, tries, fate, undone>>

\* Merges and commits fix findings or bring them back.
WorldChanges ==
  /\ present' \in SUBSET Findings
  /\ UNCHANGED <<rows, rejects, open, run, tries, fate, undone>>

acknowledge_finding_escalation(f) ==
  /\ open[f] > 0
  /\ open' = [open EXCEPT ![f] = @ - 1]
  /\ UNCHANGED <<present, rows, rejects, run, tries, fate, undone>>

clear_skill_cooldown(f) ==
  /\ rejects' = [rejects EXCEPT ![f] = 0]
  /\ UNCHANGED <<present, rows, open, run, tries, fate, undone>>

Crash ==
  /\ run' = [w \in Runs |-> IdleRun]
  /\ fate' = [f \in Findings |->
                IF fate[f] = "owed" THEN "crash" ELSE fate[f]]
  /\ UNCHANGED <<present, rows, rejects, open, tries, undone>>

Next ==
  \/ \E w \in Runs : Assess(w) \/ RunStep(w)
  \/ \E ts \in SUBSET Findings : NewDelivery(ts)
  \/ \E f \in Findings : acknowledge_finding_escalation(f) \/ clear_skill_cooldown(f)
  \/ WorldChanges \/ Crash

\* The event loop runs every check to its end.
Fairness == \A w \in Runs : WF_vars(RunStep(w))

Spec == Init /\ [][Next]_vars

FairSpec == Spec /\ Fairness

-----------------------------------------------------------------------------
(* Properties. *)

\* handle_confirmed_finding_failure, the stop condition: a finding is re-dispatched at
\* most once per check in progress for each failure below the threshold, however often
\* it comes back, cool-downs are cleared and escalations acknowledged.  The exception:
\* an overlapping check with an older or a newer report takes a confirmed failure back.
RetriesBounded ==
  \A f \in Findings \ undone : tries[f] <= (Threshold - 1) * Cardinality(Runs)

\* escalate_unresolved_finding, "don't pile up duplicates": one open escalation per
\* finding category and check in progress; a single check never opens a second one.
EscalationsBounded ==
  \A f \in Findings : open[f] <= Cardinality(Runs)

\* check_pending_delivery_verifications: a confirmed failure is re-dispatched or
\* escalated, unless the check is cut short.
FailureIsAnswered ==
  \A f \in Findings : fate[f] = "owed" ~> fate[f] # "owed"

\* Its docstring, "a still-present target finding always either re-dispatches a fresh
\* fix attempt or escalates", as long as store and process work.
AlwaysRetriedOrEscalated ==
  \A f \in Findings : fate[f] = "owed" ~> fate[f] \in {"handled", "store", "crash"}
=============================================================================
