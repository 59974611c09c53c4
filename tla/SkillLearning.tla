--------------------------- MODULE SkillLearning ---------------------------
(***************************************************************************)
(* How skills are judged and who reacts to it.  Every outcome of a         *)
(* generated fix is a row of skill_effectiveness; two queries read it as a *)
(* cool-down that stops the skill for one app (the scan uses one, the      *)
(* dispatcher the other), two more flag the skill for improvement.  The    *)
(* skill-learner watcher researches flagged skills, at most Limit of them  *)
(* a tick, backs off from those that keep failing, and sweeps CVEs when    *)
(* there is nothing to improve; the portal's button does the same at any   *)
(* time.  Ticks are Interval apart, also across restarts of the pod.       *)
(*                                                                         *)
(* Time is counted in units longer than a research run.  What is told      *)
(* apart of a row is its outcome and, of a rejection, the normalised       *)
(* reason.                                                                 *)
(***************************************************************************)
EXTENDS Naturals, Sequences, FiniteSets

CONSTANTS
  Apps, Skills,
  Reasons,      \* reason prefixes of rejections; the empty one counts nowhere
  NoReason,
  Threshold,    \* SKILL_COOLDOWN_SAME_REASON
  MinCount,     \* outcomes before a skill can be low-effectiveness
  OnDisk,       \* the skills in the directory the learner reads
  Limit,        \* skills researched per tick
  Attempts,     \* improvement_cooldown_attempts
  Window,       \* improvement_cooldown_hours, in units of time
  Interval,     \* time between two ticks
  RunsRead,     \* learning-run events the back-off reads
  MaxRows       \* bound on the rows of the table

VARIABLES
  rows,     \* per app and skill, the outcomes in the order of created_at
  making,   \* per app, the skills whose fixes await an outcome
  pc,       \* the learner: "boot", "sleep", "tick" or "record"
  wake,     \* time left to sleep
  beat,     \* age of the learner's last recorded tick
  runs      \* the learning-run events, newest first

vars == <<rows, making, pc, wake, beat, runs>>

Rejections == Reasons \cup {NoReason}
Outcomes == Rejections \cup {"approved", "cooldown_cleared"}
Never == Interval + 1

Pairs == Apps \X Skills

Init ==
  /\ rows = [p \in Pairs |-> <<>>]
  /\ making = [a \in Apps |-> {}]
  /\ pc = "boot" /\ wake = 0 /\ beat = Never
  /\ runs = <<>>

-----------------------------------------------------------------------------
(* The queries on skill_effectiveness.                                     *)

Count(p, r, from) == Cardinality({i \in from .. Len(rows[p]) : rows[p][i] = r})

\* The rejects of one pair after its latest clear, grouped by prefix: the
\* pair is cooling down when the most common prefix reaches the threshold.
CoolingDown(p) ==
  LET clears == {i \in DOMAIN rows[p] : rows[p][i] = "cooldown_cleared"}
      after == {i \in DOMAIN rows[p] : \A c \in clears : c < i}
  IN \E r \in Reasons :
       Cardinality({i \in after : rows[p][i] = r}) >= Threshold

\* Mutant of ListCooled: the listing does not look at clearings.
ListCooled_KeepsClears(a) ==
  {s \in Skills : \E r \in Reasons : Count(<<a, s>>, r, 1) >= Threshold}

\* The last clear of a pair; 0 when it was never cleared.
LastCleared(p) ==
  LET clears == {0} \cup {i \in DOMAIN rows[p] : rows[p][i] = "cooldown_cleared"}
  IN CHOOSE i \in clears : \A j \in clears : j <= i

\* One pass over the rejects of an app and one over its clears: a reject at or
\* before the last clear of its own pair is dropped.
ListCooled(a) ==
  {s \in Skills : \E r \in Reasons :
     Count(<<a, s>>, r, LastCleared(<<a, s>>) + 1) >= Threshold}

All(s, r) == {x \in Apps \X (1 .. MaxRows) :
                /\ x[2] \in DOMAIN rows[<<x[1], s>>]
                /\ rows[<<x[1], s>>][x[2]] = r}

\* The fast path: rejects of all apps together, clears ignored.
IdenticalRejects ==
  {s \in Skills : \E r \in Reasons : Cardinality(All(s, r)) >= Threshold}

Approved(s) == Cardinality(All(s, "approved"))
Rejected(s) == Cardinality(UNION {All(s, r) : r \in Rejections})

\* Rates are weighted by age: a skill whose outcomes differ may fall on either
\* side of the limit, one rejected every time is always low.
LowEffectiveness ==
  {S \in SUBSET {s \in Skills : Approved(s) + Rejected(s) >= MinCount
                                /\ Rejected(s) > 0} :
     \A s \in Skills : Approved(s) + Rejected(s) >= MinCount /\ Approved(s) = 0
                         => s \in S}

-----------------------------------------------------------------------------
(* The engine.                                                             *)

Size == Cardinality({x \in Pairs \X (1 .. MaxRows) : x[2] \in DOMAIN rows[x[1]]})

\* run_all: of the skills the report calls for, the cooled ones are skipped (if
\* the lookup works), and so are those whose finding category people rejected.
Scan(a) ==
  /\ making[a] = {}
  /\ \E wanted \in SUBSET Skills \ {{}}, barred \in SUBSET Skills :
       \E cooled \in {ListCooled(a), {}} :
         /\ making' = [making EXCEPT ![a] = wanted \ (cooled \cup barred)]
         /\ making'[a] # {}
  /\ UNCHANGED <<rows, pc, wake, beat, runs>>

\* The dispatcher asks for one finding's skill.
Dispatch(a, s) ==
  /\ ~ CoolingDown(<<a, s>>)
  /\ s \notin making[a]
  /\ making' = [making EXCEPT ![a] = @ \cup {s}]
  /\ UNCHANGED <<rows, pc, wake, beat, runs>>

\* A fix is applied, merged, refused or closed: its skill's outcome is a row,
\* unless the insert fails.
RecordOutcome(a, s) ==
  /\ s \in making[a]
  /\ making' = [making EXCEPT ![a] = @ \ {s}]
  /\ \/ /\ Size < MaxRows
        /\ \E o \in Rejections \cup {"approved"} :
             rows' = [rows EXCEPT ![<<a, s>>] = Append(@, o)]
     \/ UNCHANGED rows
  /\ UNCHANGED <<pc, wake, beat, runs>>

\* A person gives a reason and clears the cool-down of one pair, cooling or not.
ClearCooldown(p) ==
  /\ Size < MaxRows
  /\ rows' = [rows EXCEPT ![p] = Append(@, "cooldown_cleared")]
  /\ UNCHANGED <<making, pc, wake, beat, runs>>

-----------------------------------------------------------------------------
(* The learner.                                                            *)

\* describe_learning_run and log_event: the newest RunsRead events matter, and
\* of each which skills an improvement run skipped (none, in other modes).  The
\* model remembers which were the learner's, made with the history at hand.
Logged(skipped, own) ==
  LET log == <<[age |-> 0, skipped |-> skipped, own |-> own]>> \o runs
  IN SubSeq(log, 1, IF Len(log) < RunsRead THEN Len(log) ELSE RunsRead)

\* The log is best effort; a run that is not logged leaves no trace.
LogRun(skipped, own) == runs' \in {Logged(skipped, own), runs}

\* Mutant of Failures: the window is one too short.
Failures_ShortWindow(s) ==
  Cardinality({i \in DOMAIN runs : s \in runs[i].skipped /\ runs[i].age + 1 < Window})

\* Runs of either trigger in the last Window that tried the skill in vain.  A
\* run is logged before the sleep that ages it, so at age Window it is too old.
Failures(s) ==
  Cardinality({i \in DOMAIN runs : s \in runs[i].skipped /\ runs[i].age < Window})

\* The first Limit entries of a list whose order is not modelled.
Chosen(S) ==
  {T \in SUBSET S : IF Cardinality(S) < Limit THEN T = S ELSE Cardinality(T) = Limit}

\* What becomes of the skills a run tries: one not on disk is skipped, as is one
\* the model has no answer for; a draft neither the portal nor the disk takes
\* is neither saved nor skipped.
Trial(tried, found) ==
  {t \in [saved : SUBSET (tried \cap found), skipped : SUBSET tried] :
     /\ t.saved \cap t.skipped = {}
     /\ tried \ found \subseteq t.skipped}

\* Mutant of Startup: it sleeps for what has passed.
Startup_SleepsElapsed ==
  /\ pc = "boot"
  /\ IF beat < Interval
       THEN pc' = "sleep" /\ wake' = beat
       ELSE pc' = "tick" /\ UNCHANGED wake
  /\ UNCHANGED <<rows, making, beat, runs>>

\* After the probe of the draft route: sleep what is left of the interval.
Startup ==
  /\ pc = "boot"
  /\ IF beat < Interval
       THEN pc' = "sleep" /\ wake' = Interval - beat
       ELSE pc' = "tick" /\ UNCHANGED wake
  /\ UNCHANGED <<rows, making, beat, runs>>

\* The registry cannot be read: the learner ticks at once.
StartupBlind ==
  /\ pc = "boot"
  /\ pc' = "tick"
  /\ UNCHANGED <<rows, making, wake, beat, runs>>

WakeUp ==
  /\ pc = "sleep" /\ wake = 0
  /\ pc' = "tick"
  /\ UNCHANGED <<rows, making, wake, beat, runs>>

\* No model this tick.
NoModel ==
  /\ pc = "tick"
  /\ LogRun({}, FALSE)
  /\ pc' = "record"
  /\ UNCHANGED <<rows, making, wake, beat>>

\* Flagged skills first, those that failed too often left out, unless the
\* history cannot be read.
Improve ==
  /\ pc = "tick"
  /\ \E low \in LowEffectiveness, seen \in BOOLEAN :
     LET flagged == low \cup IdenticalRejects
         eligible == {s \in flagged : seen => Failures(s) < Attempts}
     IN \E tried \in Chosen(eligible) :
          \E t \in Trial(tried, OnDisk) :
            /\ t.saved \cup t.skipped # {}
            /\ LogRun(t.skipped, seen)
  /\ pc' = "record"
  /\ UNCHANGED <<rows, making, wake, beat>>

\* Nothing flagged, everything backed off, or nothing that could be kept.
Sweep ==
  /\ pc = "tick"
  /\ \E low \in LowEffectiveness, seen \in BOOLEAN :
     LET flagged == low \cup IdenticalRejects
         eligible == {s \in flagged : seen => Failures(s) < Attempts}
     IN \E tried \in Chosen(eligible) : tried \subseteq OnDisk
  /\ LogRun({}, FALSE)
  /\ pc' = "record"
  /\ UNCHANGED <<rows, making, wake, beat>>

\* record_tick is best effort as well; the heartbeat may stay as it was.
RecordTick ==
  /\ pc = "record"
  /\ beat' \in {0, beat}
  /\ pc' = "sleep" /\ wake' = Interval
  /\ UNCHANGED <<rows, making, runs>>

\* The pod is redeployed, or killed by its probe, wherever it is.
Restart ==
  /\ pc' = "boot" /\ wake' = 0
  /\ UNCHANGED <<rows, making, beat, runs>>

\* The portal's button: the low-effectiveness list only, no back-off, and the
\* catalogue of the portal, where every skill is found.  With nothing saved or
\* skipped it sweeps, and logs that.
LearnNow ==
  /\ \E low \in LowEffectiveness :
       \E tried \in Chosen(low) :
         \E t \in Trial(tried, Skills) :
           runs' = Logged(t.skipped, FALSE)
  /\ UNCHANGED <<rows, making, pc, wake, beat>>

\* No model, or the run exceeds its time: an error is logged.
LearnFails ==
  /\ runs' = Logged({}, FALSE)
  /\ UNCHANGED <<rows, making, pc, wake, beat>>

\* Time passes while the learner sleeps or is down.
Pass ==
  /\ pc \in {"boot", "sleep"}
  /\ pc = "sleep" => wake > 0
  /\ wake' = IF pc = "sleep" THEN wake - 1 ELSE wake
  /\ beat' = IF beat < Never THEN beat + 1 ELSE beat
  /\ runs' = [i \in DOMAIN runs |->
                [runs[i] EXCEPT !.age = IF @ < Window THEN @ + 1 ELSE @]]
  /\ UNCHANGED <<rows, making, pc>>

Next ==
  \/ \E a \in Apps : Scan(a) \/ \E s \in Skills : Dispatch(a, s) \/ RecordOutcome(a, s)
  \/ \E p \in Pairs : ClearCooldown(p)
  \/ Startup \/ StartupBlind \/ WakeUp
  \/ NoModel \/ Improve \/ Sweep \/ RecordTick \/ Restart
  \/ LearnNow \/ LearnFails
  \/ Pass

Spec == Init /\ [][Next]_vars

-----------------------------------------------------------------------------
(* Properties.                                                             *)

TypeOK ==
  /\ \A p \in Pairs : \A i \in DOMAIN rows[p] : rows[p][i] \in Outcomes
  /\ Size <= MaxRows
  /\ making \in [Apps -> SUBSET Skills]
  /\ pc \in {"boot", "sleep", "tick", "record"}
  /\ wake \in 0 .. Interval
  /\ beat \in 0 .. Never
  /\ Len(runs) <= RunsRead
  /\ \A i \in DOMAIN runs :
       runs[i] \in [age : 0 .. Window, skipped : SUBSET Skills, own : BOOLEAN]

\* The scan's list of cooled skills and the dispatcher's question about one
\* skill are different queries over the same rows.  They must never disagree:
\* a cleared skill the scan went on skipping, or one the scan regenerates while
\* the dispatcher refuses it, would never show in either query's own test.
CooldownViewsAgree ==
  \A a \in Apps, s \in Skills : s \in ListCooled(a) <=> CoolingDown(<<a, s>>)

\* The runs in which the learner, knowing what had failed before, tried s in vain.
InVain(s) == {i \in DOMAIN runs : runs[i].own /\ s \in runs[i].skipped}

\* The back-off of research_once, for any window and interval: in no Window of
\* the log does the learner try one skill in vain more than Attempts times,
\* however often its pod restarts, the registry is unreadable and the button is
\* pressed in between.
BacksOff ==
  \A s \in Skills :
    Cardinality({i \in InVain(s) : runs[i].age < Window}) <= Attempts

\* What the back-off is there for (skill_learner.py:96-104): a skill that cannot
\* be improved is not "re-attempted every single tick forever", so it is not
\* tried in vain in more than Attempts runs in a row.  It fails when an interval
\* is as long as the window, as it is by default: the last failure is always
\* out of the window when the next tick counts.
RetriesEnd == \A s \in Skills : ~ 1 .. Attempts + 1 \subseteq InVain(s)

\* A tick starts at least Interval after the last one that was recorded, also
\* when the pod restarted in between, unless the registry could not be read.
TicksApart ==
  [][pc # "tick" /\ pc' = "tick" /\ ~ StartupBlind => beat >= Interval]_vars
=============================================================================
