------------------------- MODULE FindingLoopProofs -------------------------
(***************************************************************************)
(* Proofs about FindingLoop: escalations do not pile up and re-dispatches  *)
(* are bounded, for every set of findings, every number of overlapping     *)
(* checks and deliveries and all thresholds.                               *)
(***************************************************************************)
EXTENDS FindingLoop, FiniteSetTheorems, WellFoundedInduction, TLAPS

\* The run handles exactly one finding.
KeyInv ==
  \A w \in Runs :
    run[w].pc \in {"escalate", "log", "dispatch"} => \E f \in Findings : run[w].key = {f}

\* The runs that have found no open escalation for f and are about to log one.
Logging(f) == {w \in Runs : run[w].pc = "log" /\ f \in run[w].key}

\* Those runs are counted with the escalations they will open.
OpenInv ==
  \A f \in Findings : open[f] + Cardinality(Logging(f)) <= Cardinality(Runs)

IInv == TypeOK /\ KeyInv /\ OpenInv

\* The runs in Logging are finitely many.
LEMMA LoggingFinite ==
  ASSUME NEW f
  PROVE  /\ IsFiniteSet(Logging(f)) /\ Cardinality(Logging(f)) \in Nat
         /\ Cardinality(Runs) \in Nat /\ Cardinality(Logging(f)) <= Cardinality(Runs)
BY RunsAssumption, FS_Subset, FS_CardinalityType DEF Logging

\* A step that adds neither an escalation nor a run that is about to log one.
LEMMA QuietStep ==
  ASSUME IInv, TypeOK', KeyInv',
         \A f \in Findings : open'[f] <= open[f],
         \A f \in Findings : Logging(f)' \subseteq Logging(f)
  PROVE  IInv'
<1> SUFFICES ASSUME NEW f \in Findings
             PROVE  open'[f] + Cardinality(Logging(f)') <= Cardinality(Runs)
  BY DEF IInv, OpenInv
<1>1. /\ Cardinality(Logging(f)') <= Cardinality(Logging(f))
      /\ Cardinality(Logging(f)') \in Nat
  BY LoggingFinite, FS_Subset, FS_CardinalityType
<1>2. open[f] \in Nat /\ open'[f] \in Nat
  BY DEF IInv, TypeOK
<1>3. open[f] + Cardinality(Logging(f)) <= Cardinality(Runs) /\ open'[f] <= open[f]
  BY DEF IInv, OpenInv
<1> QED BY <1>1, <1>2, <1>3, LoggingFinite

\* As QuietStep, for a step of run w that does not start to log.
LEMMA QuietRun ==
  ASSUME IInv, NEW w \in Runs, TypeOK', UNCHANGED open,
         \A v \in Runs : v # w => run'[v] = run[v],
         run'[w].pc # "log",
         run'[w].pc \in {"escalate", "dispatch"} => \E f \in Findings : run'[w].key = {f}
  PROVE  IInv'
<1>1. KeyInv'
  BY DEF IInv, KeyInv
<1>2. \A f \in Findings : Logging(f)' \subseteq Logging(f)
  BY DEF Logging
<1>3. \A f \in Findings : open'[f] <= open[f]
  BY DEF IInv, TypeOK
<1> QED BY <1>1, <1>2, <1>3, QuietStep

\* What Handled does to the runs and the fates.
LEMMA HandledForm ==
  ASSUME IInv, NEW w \in Runs, NEW how \in Fates, Handled(w, how)
  PROVE  /\ run' \in [Runs -> Run] /\ run'[w].pc = "decide"
         /\ \A v \in Runs : v # w => run'[v] = run[v]
         /\ fate' \in [Findings -> Fates]
<1>1. run \in [Runs -> Run] /\ fate \in [Findings -> Fates]
  BY DEF IInv, TypeOK
<1>2. PICK k \in Run : k = run[w]
  BY <1>1
<1>3. PICK S \in SUBSET Findings : S = k.keys \ k.key
  BY DEF Run
<1>4. run' = [run EXCEPT ![w] = [k EXCEPT !.pc = "decide", !.keys = S, !.key = {}]]
  BY <1>2, <1>3 DEF Handled
<1>5. [k EXCEPT !.pc = "decide", !.keys = S, !.key = {}] \in Run
  BY DEF Run, Phases
<1>6. fate' \in [Findings -> Fates]
  BY <1>1 DEF Handled
<1> QED BY <1>1, <1>4, <1>5, <1>6 DEF Run

\* Initially nothing runs and nothing is open.
LEMMA InitIInv == Init => IInv
<1> SUFFICES ASSUME Init PROVE IInv
  OBVIOUS
<1>1. IdleRun \in Run /\ IdleRun.pc = "idle" /\ NoRow \in Row
  BY DEF IdleRun, Run, Phases, NoRow, Row, Resolutions
<1>2. TypeOK
  BY <1>1, BoundsAssumption DEF Init, TypeOK, Fates
<1>3. KeyInv
  BY <1>1 DEF Init, KeyInv
<1>4. OpenInv
  BY LoggingFinite DEF Init, OpenInv
<1> QED BY <1>2, <1>3, <1>4 DEF IInv

\* The steps of run w that neither log an escalation nor decide to.
LEMMA RunStepInv ==
  ASSUME IInv, NEW w \in Runs, Assess(w) \/ RunStep(w)
  PROVE  IInv' \/ Escalate(w) \/ LogEscalation(w)
<1>t. /\ present \in SUBSET Findings /\ rows \in [RowIds -> Row]
      /\ rejects \in [Findings -> 0..CooldownAt] /\ open \in [Findings -> Nat]
      /\ run \in [Runs -> Run] /\ tries \in [Findings -> Nat]
      /\ fate \in [Findings -> Fates] /\ undone \in SUBSET Findings
  BY DEF IInv, TypeOK
<1>k. /\ run[w].pc \in Phases /\ run[w].report \in SUBSET Findings
      /\ run[w].todo \in SUBSET RowIds /\ run[w].keys \in SUBSET Findings
      /\ run[w].key \in SUBSET Findings
  BY <1>t DEF Run
<1>i. IdleRun \in Run /\ IdleRun.pc = "idle"
  BY DEF IdleRun, Run, Phases
<1>1. CASE Assess(w)
  <2>1. /\ run' \in [Runs -> Run] /\ run'[w].pc = "query"
        /\ \A v \in Runs : v # w => run'[v] = run[v]
    <3>1. PICK k \in Run : k = run[w]
      BY <1>t
    <3>2. run' = [run EXCEPT ![w] = [k EXCEPT !.pc = "query", !.report = present]]
      BY <3>1, <1>1 DEF Assess
    <3>3. [k EXCEPT !.pc = "query", !.report = present] \in Run
      BY <1>t DEF Run, Phases
    <3> QED BY <1>t, <3>2, <3>3 DEF Run
  <2>2. TypeOK'
    BY <1>1, <1>t, <2>1 DEF Assess, TypeOK
  <2> QED BY <1>1, <2>1, <2>2, QuietRun DEF Assess
<1>2. CASE Query(w)
  <2>1. /\ run' \in [Runs -> Run] /\ run'[w].pc = "next"
        /\ \A v \in Runs : v # w => run'[v] = run[v]
    <3>1. PICK k \in Run : k = run[w]
      BY <1>t
    <3>2. run' = [run EXCEPT ![w] = [k EXCEPT !.pc = "next", !.todo = {r \in RowIds : Pending(r)}]]
      BY <3>1, <1>2 DEF Query
    <3>3. [k EXCEPT !.pc = "next", !.todo = {r \in RowIds : Pending(r)}] \in Run
      BY DEF Run, Phases
    <3> QED BY <1>t, <3>2, <3>3 DEF Run
  <2>2. TypeOK'
    BY <1>2, <1>t, <2>1 DEF Query, TypeOK
  <2> QED BY <1>2, <2>1, <2>2, QuietRun DEF Query
<1>3. CASE Resolve(w)
  <2>1. /\ run' \in [Runs -> Run] /\ run'[w].pc = "next"
        /\ \A v \in Runs : v # w => run'[v] = run[v]
    BY <1>3, <1>t DEF Resolve, Run
  <2>2. rows' \in [RowIds -> Row]
    BY <1>3, <1>t DEF Resolve, Row, Resolutions
  <2>4. undone' \in SUBSET Findings
    BY <1>3, <1>t DEF Resolve
  <2>5. TypeOK'
    BY <1>3, <1>t, <2>1, <2>2, <2>4 DEF Resolve, TypeOK
  <2> QED BY <1>3, <2>1, <2>5, QuietRun DEF Resolve
<1>4. CASE Confirm(w)
  <2>1. StillPresent(w, Oldest(w)) \in SUBSET Findings
    BY <1>k DEF StillPresent
  <2>2. /\ run' \in [Runs -> Run] /\ run'[w].pc = "record"
        /\ \A v \in Runs : v # w => run'[v] = run[v]
    <3>1. PICK S \in SUBSET Findings, T \in SUBSET RowIds :
            run' = [run EXCEPT ![w].pc = "record", ![w].keys = S, ![w].todo = T]
      BY <1>4, <1>k, <2>1 DEF Confirm
    <3>2. PICK k \in Run : k = run[w]
      BY <1>t
    <3>3. run' = [run EXCEPT ![w] = [k EXCEPT !.pc = "record", !.keys = S, !.todo = T]]
      BY <3>1, <3>2
    <3>4. [k EXCEPT !.pc = "record", !.keys = S, !.todo = T] \in Run
      BY DEF Run, Phases
    <3> QED BY <1>t, <3>3, <3>4 DEF Run
  <2>3. rows' \in [RowIds -> Row]
    BY <1>4, <1>t DEF Confirm, Row, Resolutions
  <2>4. fate' \in [Findings -> Fates]
    BY <1>4, <1>t DEF Confirm, Fates
  <2>5. TypeOK'
    BY <1>4, <1>t, <2>2, <2>3, <2>4 DEF Confirm, TypeOK
  <2> QED BY <1>4, <2>2, <2>5, QuietRun DEF Confirm
<1>5. CASE RecordRejects(w)
  <2>1. /\ run' \in [Runs -> Run] /\ run'[w].pc = "decide"
        /\ \A v \in Runs : v # w => run'[v] = run[v]
    <3>1. PICK k \in Run : k = run[w]
      BY <1>t
    <3>2. run' = [run EXCEPT ![w] = [k EXCEPT !.pc = "decide"]]
      BY <3>1, <1>5 DEF RecordRejects, Goto
    <3>3. [k EXCEPT !.pc = "decide"] \in Run
      BY DEF Run, Phases
    <3> QED BY <1>t, <3>2, <3>3 DEF Run
  <2>2. rejects' \in [Findings -> 0..CooldownAt]
    BY <1>5, <1>t, BoundsAssumption DEF RecordRejects
  <2>3. TypeOK'
    BY <1>5, <1>t, <2>1, <2>2 DEF RecordRejects, TypeOK
  <2> QED BY <1>5, <2>1, <2>3, QuietRun DEF RecordRejects
<1>6. CASE Decide(w)
  <2>1. PICK f \in run[w].keys, p \in {"escalate", "dispatch"} :
          run' = [run EXCEPT ![w].key = {f}, ![w].pc = p]
    BY <1>6 DEF Decide
  <2>2. f \in Findings
    BY <1>k
  <2>3. /\ run' \in [Runs -> Run] /\ run'[w].pc = p /\ run'[w].key = {f}
        /\ \A v \in Runs : v # w => run'[v] = run[v]
    <3>1. PICK k \in Run : k = run[w]
      BY <1>t
    <3>2. run' = [run EXCEPT ![w] = [k EXCEPT !.key = {f}, !.pc = p]]
      BY <2>1, <3>1
    <3>3. [k EXCEPT !.key = {f}, !.pc = p] \in Run
      BY <2>2 DEF Run, Phases
    <3> QED BY <1>t, <3>2, <3>3 DEF Run
  <2>4. TypeOK'
    BY <1>6, <1>t, <2>3 DEF Decide, TypeOK
  <2> QED BY <1>6, <2>2, <2>3, <2>4, QuietRun DEF Decide
<1>7. CASE KeysDone(w)
  <2>1. /\ run' \in [Runs -> Run] /\ run'[w].pc = "next"
        /\ \A v \in Runs : v # w => run'[v] = run[v]
    <3>1. PICK k \in Run : k = run[w]
      BY <1>t
    <3>2. run' = [run EXCEPT ![w] = [k EXCEPT !.pc = "next"]]
      BY <3>1, <1>7 DEF KeysDone, Goto
    <3>3. [k EXCEPT !.pc = "next"] \in Run
      BY DEF Run, Phases
    <3> QED BY <1>t, <3>2, <3>3 DEF Run
  <2>2. TypeOK'
    BY <1>7, <1>t, <2>1 DEF KeysDone, TypeOK
  <2> QED BY <1>7, <2>1, <2>2, QuietRun DEF KeysDone
<1>8. CASE CheckEnds(w)
  <2>1. /\ run' \in [Runs -> Run] /\ run'[w].pc = "idle"
        /\ \A v \in Runs : v # w => run'[v] = run[v]
    BY <1>8, <1>t, <1>i DEF CheckEnds
  <2>2. TypeOK'
    BY <1>8, <1>t, <2>1 DEF CheckEnds, TypeOK
  <2> QED BY <1>8, <2>1, <2>2, QuietRun DEF CheckEnds
<1>9. CASE Redispatch(w)
  <2>1. /\ run' \in [Runs -> Run] /\ run'[w].pc = "decide"
        /\ \A v \in Runs : v # w => run'[v] = run[v]
    BY <1>9, HandledForm DEF Redispatch, Fates
  <2>2. rows' \in [RowIds -> Row]
    <3>1. ASSUME NEW pr \in BOOLEAN, Insert(run[w].key, pr) PROVE rows' \in [RowIds -> Row]
      <4>1. PICK r \in RowIds, x \in Resolutions :
              rows' = [rows EXCEPT ![r] = [targets |-> run[w].key, res |-> x, used |-> TRUE]]
        BY <3>1 DEF Insert, Resolutions
      <4>2. [targets |-> run[w].key, res |-> x, used |-> TRUE] \in Row
        BY <1>k DEF Row
      <4> QED BY <1>t, <4>1, <4>2
    <3> QED BY <1>9, <1>t, <3>1 DEF Redispatch
  <2>3. tries' \in [Findings -> Nat] /\ fate' \in [Findings -> Fates]
    BY <1>9, <1>t DEF Redispatch, CountTry, Handled, Fates
  <2>4. TypeOK'
    BY <1>9, <1>t, <2>1, <2>2, <2>3 DEF Redispatch, TypeOK
  <2> QED BY <1>9, <2>1, <2>4, QuietRun DEF Redispatch
<1>10. CASE RedispatchRaises(w) \/ StoreFails(w)
  <2>1. /\ run' \in [Runs -> Run] /\ run'[w].pc = "idle"
        /\ \A v \in Runs : v # w => run'[v] = run[v]
    BY <1>10, <1>t, <1>i DEF RedispatchRaises, StoreFails, Drop
  <2>2. tries' \in [Findings -> Nat] /\ fate' \in [Findings -> Fates]
    BY <1>10, <1>t DEF RedispatchRaises, StoreFails, Drop, CountTry, Fates
  <2>3. TypeOK'
    BY <1>10, <1>t, <2>1, <2>2 DEF RedispatchRaises, StoreFails, TypeOK
  <2> QED BY <1>10, <2>1, <2>3, QuietRun DEF RedispatchRaises, StoreFails
<1> QED BY <1>1, <1>2, <1>3, <1>4, <1>5, <1>6, <1>7, <1>8, <1>9, <1>10 DEF RunStep

\* A run finds no open escalation: it logs one, at most as many as there are runs.
LEMMA EscalateStep ==
  ASSUME IInv, NEW w \in Runs, Escalate(w)
  PROVE  IInv'
<1>t. TypeOK /\ run \in [Runs -> Run] /\ open \in [Findings -> Nat]
  BY DEF IInv, TypeOK
<1>1. PICK g \in Findings : run[w].key = {g}
  BY DEF IInv, KeyInv, Escalate
<1>2. CASE AlreadyOpen(g)
  <2>1. Handled(w, "handled")
    BY <1>1, <1>2 DEF Escalate
  <2>2. /\ run' \in [Runs -> Run] /\ run'[w].pc = "decide" /\ fate' \in [Findings -> Fates]
        /\ \A v \in Runs : v # w => run'[v] = run[v]
    BY <2>1, HandledForm DEF Fates
  <2>3. TypeOK'
    BY <1>t, <2>2 DEF Escalate, TypeOK
  <2> QED BY <2>2, <2>3, QuietRun DEF Escalate
<1>3. CASE ~AlreadyOpen(g)
  <2>1. Goto(w, "log") /\ UNCHANGED fate
    BY <1>1, <1>3 DEF Escalate
  <2>2. /\ run' \in [Runs -> Run] /\ run'[w].pc = "log" /\ run'[w].key = {g}
        /\ \A v \in Runs : v # w => run'[v] = run[v]
    BY <1>t, <1>1, <2>1 DEF Goto, Run, Phases
  <2>3. TypeOK'
    BY <1>t, <2>1, <2>2 DEF Escalate, TypeOK
  <2>4. KeyInv'
    BY <2>2 DEF IInv, KeyInv
  <2>5. OpenInv'
    <3> SUFFICES ASSUME NEW f \in Findings
                 PROVE  open[f] + Cardinality(Logging(f)') <= Cardinality(Runs)
      BY DEF OpenInv, Escalate
    <3>1. CASE f = g
      <4>1. open[f] = 0
        BY <1>3, <1>t, <3>1 DEF AlreadyOpen
      <4>2. Logging(f)' \subseteq Runs
        BY DEF Logging
      <4>3. Cardinality(Logging(f)') \in Nat /\ Cardinality(Logging(f)') <= Cardinality(Runs)
        BY <4>2, RunsAssumption, FS_Subset, FS_CardinalityType
      <4> QED BY <4>1, <4>3, LoggingFinite
    <3>2. CASE f # g
      <4>1. Logging(f)' = Logging(f)
        BY <2>2, <1>1, <3>2 DEF Logging, Escalate
      <4> QED BY <4>1 DEF IInv, OpenInv
    <3> QED BY <3>1, <3>2
  <2> QED BY <2>3, <2>4, <2>5 DEF IInv
<1> QED BY <1>2, <1>3

\* The run that logs an escalation is one of those counted for it.
LEMMA LogStep ==
  ASSUME IInv, NEW w \in Runs, LogEscalation(w)
  PROVE  IInv'
<1>t. /\ TypeOK /\ run \in [Runs -> Run] /\ open \in [Findings -> Nat]
      /\ Cardinality(Runs) \in Nat
  BY LoggingFinite DEF IInv, TypeOK
<1>1. PICK g \in Findings : run[w].key = {g}
  BY DEF IInv, KeyInv, LogEscalation
<1>2. PICK how \in Fates : Handled(w, how)
  BY DEF LogEscalation, Fates
<1>3. /\ run' \in [Runs -> Run] /\ run'[w].pc = "decide" /\ fate' \in [Findings -> Fates]
      /\ \A v \in Runs : v # w => run'[v] = run[v]
  BY <1>2, HandledForm
<1>4. CASE UNCHANGED open
  <2>1. TypeOK'
    BY <1>t, <1>3, <1>4 DEF LogEscalation, TypeOK
  <2> QED BY <1>3, <1>4, <2>1, QuietRun
<1>5. CASE open' = [f \in Findings |-> IF f \in run[w].key THEN open[f] + 1 ELSE open[f]]
  <2>1. TypeOK'
    <3>1. open' \in [Findings -> Nat]
      BY <1>t, <1>5
    <3> QED BY <1>t, <1>3, <3>1 DEF LogEscalation, TypeOK
  <2>2. KeyInv'
    BY <1>3 DEF IInv, KeyInv
  <2>3. OpenInv'
    <3> SUFFICES ASSUME NEW f \in Findings
                 PROVE  open'[f] + Cardinality(Logging(f)') <= Cardinality(Runs)
      BY DEF OpenInv
    <3>1. open[f] + Cardinality(Logging(f)) <= Cardinality(Runs)
      BY DEF IInv, OpenInv
    <3>2. CASE f = g
      <4>1. w \in Logging(f) /\ Logging(f)' = Logging(f) \ {w}
        BY <1>1, <1>3, <3>2 DEF Logging, LogEscalation
      <4>2. Cardinality(Logging(f)') = Cardinality(Logging(f)) - 1
        BY <4>1, LoggingFinite, FS_RemoveElement
      <4>3. open'[f] = open[f] + 1 /\ open[f] \in Nat
        BY <1>t, <1>1, <1>5, <3>2
      <4> QED BY <3>1, <4>2, <4>3, <1>t, LoggingFinite
    <3>3. CASE f # g
      <4>1. Logging(f)' = Logging(f) /\ open'[f] = open[f]
        BY <1>1, <1>3, <1>5, <3>3 DEF Logging
      <4> QED BY <3>1, <4>1
    <3> QED BY <3>2, <3>3
  <2> QED BY <2>1, <2>2, <2>3 DEF IInv
<1> QED BY <1>4, <1>5 DEF LogEscalation

\* What the rest of the portal does to the tables.
LEMMA EnvironmentStep ==
  ASSUME IInv,
         \/ \E ts \in SUBSET Findings : NewDelivery(ts)
         \/ \E f \in Findings : acknowledge_finding_escalation(f) \/ clear_skill_cooldown(f)
         \/ WorldChanges \/ Crash
  PROVE  IInv'
<1>t. /\ TypeOK /\ run \in [Runs -> Run] /\ open \in [Findings -> Nat]
      /\ rows \in [RowIds -> Row] /\ fate \in [Findings -> Fates]
      /\ rejects \in [Findings -> 0..CooldownAt]
  BY DEF IInv, TypeOK
<1>i. IdleRun \in Run /\ IdleRun.pc = "idle"
  BY DEF IdleRun, Run, Phases
<1>1. ASSUME UNCHANGED run, TypeOK', \A f \in Findings : open'[f] <= open[f]
      PROVE  IInv'
  <2>1. KeyInv'
    BY <1>1 DEF IInv, KeyInv
  <2>2. \A f \in Findings : Logging(f)' \subseteq Logging(f)
    BY <1>1 DEF Logging
  <2> QED BY <1>1, <2>1, <2>2, QuietStep
<1>2. ASSUME NEW ts \in SUBSET Findings, NewDelivery(ts) PROVE IInv'
  <2>1. PICK r \in RowIds :
          rows' = [rows EXCEPT ![r] = [targets |-> ts, res |-> "null", used |-> TRUE]]
    BY <1>2 DEF NewDelivery, Insert
  <2>2. [targets |-> ts, res |-> "null", used |-> TRUE] \in Row
    BY DEF Row, Resolutions
  <2>3. TypeOK'
    BY <1>2, <1>t, <2>1, <2>2 DEF NewDelivery, TypeOK
  <2> QED BY <1>2, <1>t, <1>1, <2>3 DEF NewDelivery
<1>3. ASSUME NEW f \in Findings, acknowledge_finding_escalation(f) PROVE IInv'
  <2>1. open' \in [Findings -> Nat] /\ \A g \in Findings : open'[g] <= open[g]
    BY <1>3, <1>t DEF acknowledge_finding_escalation
  <2>2. TypeOK'
    BY <1>3, <1>t, <2>1 DEF acknowledge_finding_escalation, TypeOK
  <2> QED BY <1>3, <1>1, <2>1, <2>2 DEF acknowledge_finding_escalation
<1>4. ASSUME NEW f \in Findings, clear_skill_cooldown(f) PROVE IInv'
  <2>1. rejects' \in [Findings -> 0..CooldownAt]
    BY <1>4, <1>t, BoundsAssumption DEF clear_skill_cooldown
  <2>2. TypeOK'
    BY <1>4, <1>t, <2>1 DEF clear_skill_cooldown, TypeOK
  <2> QED BY <1>4, <1>t, <1>1, <2>2 DEF clear_skill_cooldown
<1>5. CASE WorldChanges
  <2>1. TypeOK'
    BY <1>5, <1>t DEF WorldChanges, TypeOK
  <2> QED BY <1>5, <1>t, <1>1, <2>1 DEF WorldChanges
<1>6. CASE Crash
  <2>1. TypeOK'
    BY <1>6, <1>t, <1>i DEF Crash, TypeOK, Fates
  <2>2. KeyInv' /\ \A f \in Findings : Logging(f)' \subseteq Logging(f)
    BY <1>6, <1>i DEF Crash, KeyInv, Logging
  <2>3. \A f \in Findings : open'[f] <= open[f]
    BY <1>6, <1>t DEF Crash
  <2> QED BY <2>1, <2>2, <2>3, QuietStep
<1> QED BY <1>2, <1>3, <1>4, <1>5, <1>6

\* Every step keeps the invariant.
LEMMA NextIInv == IInv /\ [Next]_vars => IInv'
<1> SUFFICES ASSUME IInv, [Next]_vars PROVE IInv'
  OBVIOUS
<1>1. CASE UNCHANGED vars
  BY <1>1 DEF vars, IInv, TypeOK, KeyInv, OpenInv, Logging
<1>2. ASSUME NEW w \in Runs, Assess(w) \/ RunStep(w) PROVE IInv'
  BY <1>2, RunStepInv, EscalateStep, LogStep
<1> QED BY <1>1, <1>2, EnvironmentStep DEF Next

\* The inductive invariant: checks about to log an escalation count as open ones.
THEOREM Invariance == Spec => []IInv
BY InitIInv, NextIInv, PTL DEF Spec

\* The tables and checks of the finding loop stay within their types.
THEOREM TypeCorrect == Spec => []TypeOK
<1>1. IInv => TypeOK
  BY DEF IInv
<1> QED BY <1>1, Invariance, PTL

\* escalate_unresolved_finding reads, then inserts, without a transaction: duplicates are
\* bounded by the checks in progress, however long the portal runs.
THEOREM NoPileUp == Spec => []EscalationsBounded
<1>1. ASSUME IInv PROVE EscalationsBounded
  <2> SUFFICES ASSUME NEW f \in Findings PROVE open[f] <= Cardinality(Runs)
    BY DEF EscalationsBounded
  <2>1. open[f] \in Nat /\ open[f] + Cardinality(Logging(f)) <= Cardinality(Runs)
    BY <1>1 DEF IInv, TypeOK, OpenInv
  <2> QED BY <2>1, LoggingFinite
<1>2. IInv => EscalationsBounded
  BY <1>1
<1> QED BY <1>2, Invariance, PTL

-----------------------------------------------------------------------------
(***************************************************************************)
(* The stop condition: a finding is re-dispatched a bounded number of times. *)
(*                                                                         *)
(* Each confirmed failure of a delivery entitles each check in progress to *)
(* one re-dispatch.  A check owes f an answer when f is among the keys it  *)
(* is handling, and may yet come to owe one for every failed row in its    *)
(* list; what was tried and what is owed never exceeds the entitlement.    *)
(***************************************************************************)

FailRows(f) == {r \in RowIds : rows[r].res = "still_present" /\ f \in rows[r].targets}

\* <<w, 0>>: f is one of the keys of w.  <<w, r>>: w still has the failed row r to visit.
Debt(f) == {d \in Runs \X (0..MaxRows) :
              \/ d[2] = 0 /\ f \in run[d[1]].keys
              \/ d[2] # 0 /\ d[2] \in run[d[1]].todo \cap FailRows(f)}

\* The checks that have decided to re-dispatch f.
Under(f) == {d \in Runs \X {0} : run[d[1]].pc = "dispatch" /\ f \in run[d[1]].key}

Bounded(f) ==
  /\ tries[f] + Cardinality(Debt(f)) <= Cardinality(Runs) * FailureCount(f)
  /\ tries[f] + Cardinality(Under(f)) <= Cardinality(Runs) * (Threshold - 1)

\* Only deliveries that were made are checked, and a check turns to the next delivery
\* when it has handled all keys.
ListInv ==
  /\ \A r \in RowIds : rows[r].res = "still_present" => rows[r].used
  /\ \A w \in Runs : /\ \A r \in run[w].todo : rows[r].used
                     /\ run[w].pc \in {"idle", "query", "next"} => run[w].keys = {}
                     /\ run[w].key \subseteq run[w].keys

TryInv == ListInv /\ \A f \in Findings \ undone : Bounded(f)

-----------------------------------------------------------------------------
(* Counting.                                                               *)

\* What the provers need of multiplication.
LEMMA Product ==
  ASSUME NEW a \in Nat, NEW b \in Nat, NEW c \in Nat, a <= b
  PROVE  c * a <= c * b /\ c * (a + 1) = c * a + c
  OBVIOUS

\* Every list of rows has an oldest one.
LEMMA SmallestExists ==
  ASSUME NEW S \in SUBSET Nat, S # {}
  PROVE  \E r \in S : \A q \in S : r <= q
<1>1. PICK r \in S : \A q \in S : <<q, r>> \notin OpToRel(<, Nat)
  BY NatLessThanWellFounded, WFMin
<1>2. \A q \in S : ~(q < r)
  BY <1>1 DEF OpToRel
<1> QED BY <1>2

\* Everything counted is finite.
LEMMA Finite ==
  ASSUME NEW f
  PROVE  /\ IsFiniteSet(Debt(f)) /\ Cardinality(Debt(f)) \in Nat
         /\ IsFiniteSet(Under(f)) /\ Cardinality(Under(f)) \in Nat
         /\ IsFiniteSet(FailRows(f)) /\ FailureCount(f) \in Nat
         /\ FailureCount(f) = Cardinality(FailRows(f))
         /\ Cardinality(Runs) \in Nat
<1>1. IsFiniteSet(0..MaxRows) /\ IsFiniteSet(RowIds)
  BY FS_Interval, BoundsAssumption DEF RowIds
<1>2. IsFiniteSet(Runs \X (0..MaxRows)) /\ IsFiniteSet(Runs \X {0})
  BY <1>1, RunsAssumption, FS_Product, FS_Singleton
<1>3. IsFiniteSet(Debt(f)) /\ IsFiniteSet(Under(f)) /\ IsFiniteSet(FailRows(f))
  <2>1. Debt(f) \subseteq Runs \X (0..MaxRows)
    BY DEF Debt
  <2>2. Under(f) \subseteq Runs \X {0}
    BY DEF Under
  <2>3. FailRows(f) \subseteq RowIds
    BY DEF FailRows
  <2> QED BY <1>1, <1>2, <2>1, <2>2, <2>3, FS_Subset
<1>4. FailureCount(f) = Cardinality(FailRows(f))
  BY DEF FailureCount, FailRows
<1> QED BY <1>3, <1>4, RunsAssumption, FS_CardinalityType

\* get_finding_failure_count counts the failed rows, in the next state too.
LEMMA CountsFailRows == ASSUME NEW f PROVE FailureCount(f)' = Cardinality(FailRows(f)')
  BY DEF FailureCount, FailRows

\* A step that owes f no more than before.
LEMMA Shrinks ==
  ASSUME NEW f \in Findings, tries[f] \in Nat, Bounded(f), tries'[f] = tries[f],
         Debt(f)' \subseteq Debt(f), Under(f)' \subseteq Under(f),
         FailRows(f)' = FailRows(f)
  PROVE  Bounded(f)'
<1>1. /\ Cardinality(Debt(f)') \in Nat /\ Cardinality(Debt(f)') <= Cardinality(Debt(f))
      /\ Cardinality(Under(f)') \in Nat /\ Cardinality(Under(f)') <= Cardinality(Under(f))
  BY Finite, FS_Subset, FS_CardinalityType
<1>2. FailureCount(f)' = FailureCount(f)
  BY Finite, CountsFailRows
<1>3. /\ Cardinality(Runs) * FailureCount(f) \in Nat
      /\ Cardinality(Runs) * (Threshold - 1) \in Nat
  BY Finite, BoundsAssumption
<1>4. /\ tries[f] + Cardinality(Debt(f)') <= Cardinality(Runs) * FailureCount(f)
      /\ tries[f] + Cardinality(Under(f)') <= Cardinality(Runs) * (Threshold - 1)
  BY <1>1, <1>3, Finite DEF Bounded
<1> QED BY <1>2, <1>4 DEF Bounded

\* A re-dispatch of f that one check decided on and owed.
LEMMA Pays ==
  ASSUME NEW f \in Findings, tries[f] \in Nat, Bounded(f), tries'[f] = tries[f] + 1,
         NEW d, d \in Debt(f), d \in Under(f),
         Debt(f)' \subseteq Debt(f) \ {d}, Under(f)' \subseteq Under(f) \ {d},
         FailRows(f)' = FailRows(f)
  PROVE  Bounded(f)'
<1>0. /\ IsFiniteSet(Debt(f) \ {d}) /\ Cardinality(Debt(f) \ {d}) = Cardinality(Debt(f)) - 1
      /\ IsFiniteSet(Under(f) \ {d}) /\ Cardinality(Under(f) \ {d}) = Cardinality(Under(f)) - 1
  BY Finite, FS_RemoveElement
<1>1. /\ Cardinality(Debt(f)') \in Nat /\ Cardinality(Debt(f)') <= Cardinality(Debt(f)) - 1
      /\ Cardinality(Under(f)') \in Nat /\ Cardinality(Under(f)') <= Cardinality(Under(f)) - 1
  BY <1>0, FS_Subset, FS_CardinalityType
<1>2. FailureCount(f)' = FailureCount(f)
  BY Finite, CountsFailRows
<1>3. /\ Cardinality(Runs) * FailureCount(f) \in Nat
      /\ Cardinality(Runs) * (Threshold - 1) \in Nat
  BY Finite, BoundsAssumption
<1>4. /\ tries[f] + 1 + Cardinality(Debt(f)') <= Cardinality(Runs) * FailureCount(f)
      /\ tries[f] + 1 + Cardinality(Under(f)') <= Cardinality(Runs) * (Threshold - 1)
  BY <1>1, <1>3, Finite DEF Bounded
<1> QED BY <1>2, <1>4 DEF Bounded

\* A check owes for its keys what it owed for a row.
LEMMA Exchanges ==
  ASSUME NEW f \in Findings, tries[f] \in Nat, Bounded(f), tries'[f] = tries[f],
         NEW d, d \in Debt(f), NEW e, e \notin Debt(f),
         Debt(f)' \subseteq (Debt(f) \ {d}) \cup {e}, Under(f)' \subseteq Under(f),
         FailRows(f)' = FailRows(f)
  PROVE  Bounded(f)'
<1> DEFINE D == Debt(f) \ {d}
<1>0. IsFiniteSet(D) /\ Cardinality(D) = Cardinality(Debt(f)) - 1 /\ e \notin D
  BY Finite, FS_RemoveElement
<1> HIDE DEF D
<1>1. IsFiniteSet(D \cup {e}) /\ Cardinality(D \cup {e}) = Cardinality(Debt(f)) - 1 + 1
  BY <1>0, FS_AddElement
<1>2. Cardinality(Debt(f)') \in Nat /\ Cardinality(Debt(f)') <= Cardinality(Debt(f))
  BY <1>1, Finite, FS_Subset, FS_CardinalityType DEF D
<1>3. Cardinality(Under(f)') \in Nat /\ Cardinality(Under(f)') <= Cardinality(Under(f))
  BY Finite, FS_Subset, FS_CardinalityType
<1>4. FailureCount(f)' = FailureCount(f)
  BY Finite, CountsFailRows
<1>5. /\ Cardinality(Runs) * FailureCount(f) \in Nat
      /\ Cardinality(Runs) * (Threshold - 1) \in Nat
  BY Finite, BoundsAssumption
<1>6. /\ tries[f] + Cardinality(Debt(f)') <= Cardinality(Runs) * FailureCount(f)
      /\ tries[f] + Cardinality(Under(f)') <= Cardinality(Runs) * (Threshold - 1)
  BY <1>2, <1>3, <1>5, Finite DEF Bounded
<1> QED BY <1>4, <1>6 DEF Bounded

\* A newly failed row r: w owes f an answer, and whoever else has r in its list may.
LEMMA Fails ==
  ASSUME NEW f \in Findings, tries[f] \in Nat, Bounded(f), tries'[f] = tries[f],
         NEW w \in Runs, NEW r, r \notin FailRows(f), FailRows(f)' = FailRows(f) \cup {r},
         Debt(f)' \subseteq Debt(f) \cup (((Runs \ {w}) \X {r}) \cup {<<w, 0>>}),
         Under(f)' \subseteq Under(f)
  PROVE  Bounded(f)'
<1> DEFINE X == (Runs \ {w}) \X {r}
           Y == X \cup {<<w, 0>>}
<1>1. IsFiniteSet(Runs \ {w}) /\ Cardinality(Runs \ {w}) = Cardinality(Runs) - 1
  BY RunsAssumption, FS_RemoveElement
<1>2. IsFiniteSet(X) /\ Cardinality(X) = Cardinality(Runs) - 1
  <2> DEFINE A == Runs \ {w}
             B == {r}
  <2>1. IsFiniteSet(B) /\ Cardinality(B) = 1
    BY FS_Singleton
  <2>2. IsFiniteSet(A) /\ Cardinality(A) = Cardinality(Runs) - 1 /\ X = A \X B
    BY <1>1
  <2> HIDE DEF A, B, X
  <2>3. IsFiniteSet(A \X B) /\ Cardinality(A \X B) = Cardinality(A) * Cardinality(B)
    BY <2>1, <2>2, FS_Product
  <2> QED BY <2>1, <2>2, <2>3, Finite
<1>3. IsFiniteSet(Y) /\ Cardinality(Y) <= Cardinality(Runs) /\ Cardinality(Y) \in Nat
  <2> HIDE DEF X
  <2>1. IsFiniteSet(Y) /\ Cardinality(Y) = IF <<w, 0>> \in X THEN Cardinality(X) ELSE Cardinality(X) + 1
    BY <1>2, FS_AddElement
  <2>2. Cardinality(Y) \in Nat
    BY <2>1, FS_CardinalityType
  <2> HIDE DEF Y
  <2> QED BY <1>2, <2>1, <2>2, Finite
<1> HIDE DEF Y
<1>4. /\ IsFiniteSet(Debt(f) \cup Y)
      /\ Cardinality(Debt(f) \cup Y) <= Cardinality(Debt(f)) + Cardinality(Y)
  <2>1. /\ IsFiniteSet(Debt(f) \cup Y) /\ IsFiniteSet(Debt(f) \cap Y)
        /\ Cardinality(Debt(f) \cup Y)
             = Cardinality(Debt(f)) + Cardinality(Y) - Cardinality(Debt(f) \cap Y)
    BY <1>3, Finite, FS_Union, FS_Intersection
  <2>2. Cardinality(Debt(f) \cap Y) \in Nat
    BY <2>1, FS_CardinalityType
  <2> QED BY <1>3, <2>1, <2>2, Finite
<1>5. Debt(f)' \subseteq Debt(f) \cup Y
  BY DEF Y
<1>6. Cardinality(Debt(f)') \in Nat /\ Cardinality(Debt(f)') <= Cardinality(Debt(f) \cup Y)
      /\ Cardinality(Debt(f) \cup Y) \in Nat
  BY <1>4, <1>5, FS_Subset, FS_CardinalityType
<1>7. Cardinality(Debt(f)') <= Cardinality(Debt(f)) + Cardinality(Runs)
  BY <1>3, <1>4, <1>6, Finite
<1>8. FailureCount(f)' = FailureCount(f) + 1
  BY Finite, CountsFailRows, FS_AddElement
<1>9. Cardinality(Runs) * (FailureCount(f) + 1) = Cardinality(Runs) * FailureCount(f) + Cardinality(Runs)
      /\ Cardinality(Runs) * FailureCount(f) \in Nat
  BY Finite, Product
<1>10. tries[f] + Cardinality(Debt(f)') <= Cardinality(Runs) * (FailureCount(f) + 1)
  BY <1>6, <1>7, <1>9, Finite DEF Bounded
<1>11. Cardinality(Under(f)') \in Nat /\ Cardinality(Under(f)') <= Cardinality(Under(f))
  BY Finite, FS_Subset, FS_CardinalityType
<1>12. Cardinality(Runs) * (Threshold - 1) \in Nat
  BY Finite, BoundsAssumption
<1>13. tries[f] + Cardinality(Under(f)') <= Cardinality(Runs) * (Threshold - 1)
  BY <1>11, <1>12, Finite DEF Bounded
<1> QED BY <1>8, <1>10, <1>13 DEF Bounded

\* A decision to re-dispatch f below the threshold.
LEMMA Decides ==
  ASSUME NEW f \in Findings, tries[f] \in Nat, Bounded(f), tries'[f] = tries[f],
         ~Exhausted(f), Debt(f)' = Debt(f), Under(f)' \subseteq Debt(f),
         FailRows(f)' = FailRows(f)
  PROVE  Bounded(f)'
<1>1. Cardinality(Under(f)') \in Nat /\ Cardinality(Under(f)') <= Cardinality(Debt(f))
  BY Finite, FS_Subset, FS_CardinalityType
<1>2. FailureCount(f)' = FailureCount(f)
  BY Finite, CountsFailRows
<1>3. FailureCount(f) <= Threshold - 1 /\ Threshold - 1 \in Nat
  BY Finite, BoundsAssumption DEF Exhausted
<1>4. /\ Cardinality(Runs) * FailureCount(f) <= Cardinality(Runs) * (Threshold - 1)
      /\ Cardinality(Runs) * FailureCount(f) \in Nat
      /\ Cardinality(Runs) * (Threshold - 1) \in Nat
  BY <1>3, Finite, Product
<1>5. tries[f] + Cardinality(Under(f)') <= Cardinality(Runs) * (Threshold - 1)
  BY <1>1, <1>4, Finite DEF Bounded
<1> QED BY <1>2, <1>5 DEF Bounded

-----------------------------------------------------------------------------
(* What a step does to the check that takes it.                            *)

\* Check w moves to p with rows T to visit, keys K to handle and key k at hand.
Turn(w, p, T, K, k) ==
  /\ run'[w].pc = p /\ run'[w].todo = T /\ run'[w].keys = K /\ run'[w].key = k
  /\ \A v \in Runs : v # w => run'[v] = run[v]

\* A step that gives check w the record q.
LEMMA TurnTo ==
  ASSUME NEW w \in Runs, run \in [Runs -> Run], NEW q, run' = [run EXCEPT ![w] = q]
  PROVE  Turn(w, q.pc, q.todo, q.keys, q.key)
  BY DEF Turn

\* A step of w that changes its pc alone.
LEMMA PcTurn ==
  ASSUME NEW w \in Runs, run \in [Runs -> Run], NEW p, Goto(w, p)
  PROVE  Turn(w, p, run[w].todo, run[w].keys, run[w].key)
<1> DEFINE q == [run[w] EXCEPT !.pc = p]
<1>1. q.pc = p /\ q.todo = run[w].todo /\ q.keys = run[w].keys /\ q.key = run[w].key
  BY DEF Run
<1>2. run' = [run EXCEPT ![w] = q]
  BY DEF Goto
<1> HIDE DEF q
<1> QED BY <1>1, <1>2, TurnTo

\* A check that ends or is cut short.
LEMMA IdleTurn ==
  ASSUME NEW w \in Runs, run \in [Runs -> Run], run' = [run EXCEPT ![w] = IdleRun]
  PROVE  Turn(w, "idle", {}, {}, {})
  BY TurnTo DEF IdleRun, Turn

\* A key that is dealt with is no longer owed.
LEMMA HandledTurn ==
  ASSUME NEW w \in Runs, run \in [Runs -> Run], NEW how, Handled(w, how)
  PROVE  Turn(w, "decide", run[w].todo, run[w].keys \ run[w].key, {})
<1> DEFINE K == run[w].keys \ run[w].key
           q == [run[w] EXCEPT !.pc = "decide", !.keys = K, !.key = {}]
<1>1. run' = [run EXCEPT ![w] = q]
  BY DEF Handled
<1> HIDE DEF K
<1>2. q.pc = "decide" /\ q.todo = run[w].todo /\ q.keys = K /\ q.key = {}
  BY DEF Run
<1> HIDE DEF q
<1> QED BY <1>1, <1>2, TurnTo DEF K

\* The rows and tries stay, w takes up nothing new and decides on nothing.
LEMMA TurnShrinks ==
  ASSUME TypeOK, NEW w \in Runs, NEW p, NEW T, NEW K, NEW k, Turn(w, p, T, K, k),
         NEW f \in Findings, Bounded(f), tries'[f] = tries[f], FailRows(f)' = FailRows(f),
         T \cap FailRows(f) \subseteq run[w].todo, K \subseteq run[w].keys,
         p # "dispatch" \/ f \notin k
  PROVE  Bounded(f)'
<1>1. tries[f] \in Nat
  BY DEF TypeOK
<1>2. Debt(f)' \subseteq Debt(f)
  BY DEF Turn, Debt
<1>3. Under(f)' \subseteq Under(f)
  BY DEF Turn, Under
<1> QED BY <1>1, <1>2, <1>3, Shrinks

\* Rows that are not inserted stay used, and so do the lists.
LEMMA TurnLists ==
  ASSUME ListInv, NEW w \in Runs, NEW p, NEW T, NEW K, NEW k, Turn(w, p, T, K, k),
         \A r \in RowIds : /\ rows[r].used => rows'[r].used
                           /\ rows'[r].res = "still_present" => rows'[r].used,
         \A v \in Runs : run[v].todo \subseteq RowIds,
         T \subseteq RowIds, \A r \in T : rows[r].used,
         p \in {"idle", "query", "next"} => K = {},
         k \subseteq K
  PROVE  ListInv'
  BY DEF ListInv, Turn

\* A new delivery is none of the failed ones.
LEMMA InsertKeeps ==
  ASSUME TypeOK, ListInv, NEW ts, NEW pr \in BOOLEAN, Insert(ts, pr)
  PROVE  /\ \A r \in RowIds : /\ rows[r].used => rows'[r].used
                              /\ rows'[r].res = "still_present" => rows'[r].used
         /\ \A f \in Findings : FailRows(f)' = FailRows(f)
<1>1. PICK r \in RowIds :
        /\ ~rows[r].used
        /\ rows' = [rows EXCEPT ![r] = [targets |-> ts, res |-> IF pr THEN "null" ELSE "not_delivered",
                                        used |-> TRUE]]
  BY DEF Insert
<1>2. rows'[r].used /\ rows'[r].res # "still_present" /\ rows[r].res # "still_present"
  BY <1>1 DEF TypeOK, ListInv
<1>3. \A q \in RowIds : q # r => rows'[q] = rows[q]
  BY <1>1 DEF TypeOK
<1>4. \A f \in Findings : FailRows(f)' = FailRows(f)
  BY <1>2, <1>3 DEF FailRows
<1> QED BY <1>2, <1>3, <1>4 DEF ListInv

-----------------------------------------------------------------------------
(* The steps.                                                              *)

\* A step of w that leaves the table and the counts alone.
LEMMA PlainTurn ==
  ASSUME TypeOK, TryInv, NEW w \in Runs, NEW p, NEW T, NEW K, NEW k, Turn(w, p, T, K, k),
         UNCHANGED <<rows, tries, undone>>,
         T \subseteq run[w].todo, K \subseteq run[w].keys, k \subseteq K,
         p # "dispatch",
         p \in {"idle", "query", "next"} => K = {}
  PROVE  TryInv'
<1>1. \A v \in Runs : run[v].todo \subseteq RowIds
  BY DEF TypeOK, Run
<1>2. ListInv'
  BY <1>1, TurnLists DEF TryInv, ListInv
<1>3. ASSUME NEW f \in Findings \ undone' PROVE Bounded(f)'
  <2>1. FailRows(f)' = FailRows(f)
    BY DEF FailRows
  <2> QED BY <2>1, TurnShrinks DEF TryInv
<1> QED BY <1>2, <1>3 DEF TryInv

\* list_deliveries_pending_finding_check lists no failed row.
LEMMA QueryTries == ASSUME TypeOK, TryInv, NEW w \in Runs, Query(w) PROVE TryInv'
<1> DEFINE T == {r \in RowIds : Pending(r)}
<1>1. Turn(w, "next", T, run[w].keys, run[w].key)
  <2> DEFINE q == [run[w] EXCEPT !.pc = "next", !.todo = T]
  <2>1. run' = [run EXCEPT ![w] = q]
    BY DEF Query
  <2> HIDE DEF T
  <2>2. q.pc = "next" /\ q.todo = T /\ q.keys = run[w].keys /\ q.key = run[w].key
    BY DEF TypeOK, Run
  <2> HIDE DEF q
  <2> QED BY <2>1, <2>2, TurnTo DEF TypeOK
<1>2. /\ \A v \in Runs : run[v].todo \subseteq RowIds
      /\ run[w].keys = {} /\ run[w].key \subseteq run[w].keys
  BY DEF TypeOK, Run, TryInv, ListInv, Query
<1>3. T \subseteq RowIds /\ \A r \in T : rows[r].used /\ rows[r].res = "null"
  BY DEF Pending
<1>4. UNCHANGED <<rows, tries, undone>>
  BY DEF Query
<1> HIDE DEF T
<1>5. ListInv'
  BY <1>1, <1>2, <1>3, <1>4, TurnLists DEF TryInv, ListInv
<1>6. ASSUME NEW f \in Findings \ undone' PROVE Bounded(f)'
  <2>1. FailRows(f)' = FailRows(f)
    BY <1>4 DEF FailRows
  <2>2. T \cap FailRows(f) = {}
    BY <1>3 DEF FailRows
  <2> QED BY <1>1, <1>4, <2>1, <2>2, TurnShrinks DEF TryInv
<1> QED BY <1>5, <1>6 DEF TryInv

\* The row at hand is one of the list.
LEMMA OldestIsListed ==
  ASSUME TypeOK, NEW w \in Runs, run[w].todo # {}
  PROVE  Oldest(w) \in run[w].todo /\ Oldest(w) \in RowIds
<1>1. run[w].todo \in SUBSET RowIds
  BY DEF TypeOK, Run
<1>2. run[w].todo \subseteq Nat
  BY <1>1, BoundsAssumption DEF RowIds
<1>3. \E r \in run[w].todo : \A q \in run[w].todo : r <= q
  BY <1>2, SmallestExists
<1> QED BY <1>1, <1>3 DEF Oldest

\* A row that resolves was no failure of f, or f is in undone from now on.
LEMMA ResolveTries == ASSUME TypeOK, TryInv, NEW w \in Runs, Resolve(w) PROVE TryInv'
<1> DEFINE o == Oldest(w)
<1>0. /\ run[w].pc = "next" /\ run[w].todo # {}
      /\ rows' = [rows EXCEPT ![o].res = "resolved"]
      /\ run' = [run EXCEPT ![w].todo = @ \ {o}]
      /\ undone' = undone \cup {f \in Findings : rows[o].res = "still_present" /\ f \in rows[o].targets}
      /\ UNCHANGED tries
  BY DEF Resolve
<1>o. o \in run[w].todo /\ o \in RowIds
  BY <1>0, OldestIsListed
<1> HIDE DEF o
<1>1. Turn(w, "next", run[w].todo \ {o}, run[w].keys, run[w].key)
  <2> DEFINE T == run[w].todo \ {o}
             q == [run[w] EXCEPT !.todo = T]
  <2>1. run' = [run EXCEPT ![w] = q]
    BY <1>0
  <2> HIDE DEF T
  <2>2. q.pc = "next" /\ q.todo = T /\ q.keys = run[w].keys /\ q.key = run[w].key
    BY <1>0 DEF TypeOK, Run
  <2> HIDE DEF q
  <2> QED BY <2>1, <2>2, TurnTo DEF TypeOK, T
<1>2. /\ \A v \in Runs : run[v].todo \subseteq RowIds
      /\ run[w].keys = {} /\ run[w].key \subseteq run[w].keys
  BY <1>0 DEF TypeOK, Run, TryInv, ListInv
<1>3. /\ \A r \in RowIds : r # o => rows'[r] = rows[r]
      /\ rows'[o].res = "resolved" /\ rows'[o].used = rows[o].used
  BY <1>0, <1>o DEF TypeOK, Row
<1>4. ListInv'
  BY <1>1, <1>2, <1>3, TurnLists DEF TryInv, ListInv
<1>5. ASSUME NEW f \in Findings \ undone' PROVE Bounded(f)'
  <2>1. f \notin undone /\ ~(rows[o].res = "still_present" /\ f \in rows[o].targets)
    BY <1>0
  <2>2. FailRows(f)' = FailRows(f)
    BY <1>3, <2>1 DEF FailRows
  <2> QED BY <1>0, <1>1, <2>1, <2>2, TurnShrinks DEF TryInv
<1> QED BY <1>4, <1>5 DEF TryInv

\* A confirmed failure, the first of its row or one more by another check.
LEMMA ConfirmTries == ASSUME TypeOK, TryInv, NEW w \in Runs, Confirm(w) PROVE TryInv'
<1> DEFINE o == Oldest(w)
           S == StillPresent(w, o)
<1>0. /\ run[w].pc = "next" /\ run[w].todo # {}
      /\ rows' = [rows EXCEPT ![o].res = "still_present"]
      /\ run' = [run EXCEPT ![w].pc = "record", ![w].keys = S, ![w].todo = @ \ {o}]
      /\ UNCHANGED <<tries, undone>>
  BY DEF Confirm
<1>o. o \in run[w].todo /\ o \in RowIds /\ S \subseteq rows[o].targets
  BY <1>0, OldestIsListed DEF StillPresent
<1> HIDE DEF o, S
<1>1. Turn(w, "record", run[w].todo \ {o}, S, run[w].key)
  <2> DEFINE T == run[w].todo \ {o}
             q == [run[w] EXCEPT !.pc = "record", !.keys = S, !.todo = T]
  <2>1. run' = [run EXCEPT ![w] = q]
    BY <1>0
  <2> HIDE DEF T
  <2>2. q.pc = "record" /\ q.todo = T /\ q.keys = S /\ q.key = run[w].key
    BY <1>0 DEF TypeOK, Run
  <2> HIDE DEF q
  <2> QED BY <2>1, <2>2, TurnTo DEF TypeOK, T
<1>2. /\ \A v \in Runs : run[v].todo \subseteq RowIds
      /\ run[w].keys = {} /\ run[w].key = {} /\ rows[o].used
  BY <1>0, <1>o DEF TypeOK, Run, TryInv, ListInv
<1>3. /\ \A r \in RowIds : r # o => rows'[r] = rows[r]
      /\ rows'[o].res = "still_present" /\ rows'[o].used = rows[o].used
      /\ rows'[o].targets = rows[o].targets
  BY <1>0, <1>o DEF TypeOK, Row
<1>4. ListInv'
  <2>1. \A r \in RowIds : /\ rows[r].used => rows'[r].used
                          /\ rows'[r].res = "still_present" => rows'[r].used
    BY <1>2, <1>3 DEF TryInv, ListInv
  <2>2. /\ run[w].todo \ {o} \subseteq RowIds
        /\ \A r \in run[w].todo \ {o} : rows[r].used
        /\ run[w].key \subseteq S
    BY <1>2 DEF TryInv, ListInv
  <2> QED BY <1>1, <1>2, <2>1, <2>2, TurnLists DEF TryInv
<1>5. ASSUME NEW f \in Findings \ undone' PROVE Bounded(f)'
  <2>0. f \notin undone /\ Bounded(f) /\ tries'[f] = tries[f] /\ tries[f] \in Nat
    BY <1>0 DEF TryInv, TypeOK
  <2>1. Under(f)' \subseteq Under(f)
    BY <1>1 DEF Under, Turn
  <2>z. o # 0 /\ o \in 0..MaxRows /\ 0 \in 0..MaxRows
    BY <1>o, BoundsAssumption DEF RowIds
  <2>2. CASE f \notin rows[o].targets
    <3>1. FailRows(f)' = FailRows(f)
      BY <1>3, <2>2 DEF FailRows
    <3>2. f \notin S
      BY <1>o, <2>2
    <3>3. Debt(f)' \subseteq Debt(f)
      BY <1>1, <3>1, <3>2 DEF Debt, Turn
    <3> QED BY <2>0, <2>1, <3>1, <3>3, Shrinks
  <2>3. CASE f \in rows[o].targets /\ o \in FailRows(f)
    <3>1. FailRows(f)' = FailRows(f)
      BY <1>3, <1>o, <2>3 DEF FailRows
    <3>2. <<w, o>> \in Debt(f) /\ <<w, 0>> \notin Debt(f)
      BY <1>o, <1>2, <2>3, <2>z DEF Debt
    <3>3. Debt(f)' \subseteq (Debt(f) \ {<<w, o>>}) \cup {<<w, 0>>}
      <4> SUFFICES ASSUME NEW d \in Debt(f)', d # <<w, 0>> PROVE d \in Debt(f) /\ d # <<w, o>>
        OBVIOUS
      <4>1. PICK v \in Runs, n \in 0..MaxRows : d = <<v, n>>
        BY DEF Debt
      <4>2. CASE v = w
        <5>1. n # 0
          BY <4>1, <4>2
        <5>2. n \in run'[w].todo \cap FailRows(f)'
          BY <4>1, <4>2, <5>1 DEF Debt
        <5>3. n \in run[w].todo /\ n # o /\ n \in FailRows(f)
          BY <5>2, <3>1, <1>1 DEF Turn
        <5> QED BY <4>1, <4>2, <5>1, <5>3 DEF Debt
      <4>3. CASE v # w
        BY <4>1, <4>3, <3>1, <1>1 DEF Debt, Turn
      <4> QED BY <4>2, <4>3
    <3>4. Bounded(f)'
      BY <2>0, <2>1, <3>1, <3>2, <3>3, Exchanges
    <3> QED BY <3>4
  <2>4. CASE f \in rows[o].targets /\ o \notin FailRows(f)
    <3>1. FailRows(f)' = FailRows(f) \cup {o}
      BY <1>3, <1>o, <2>4 DEF FailRows
    <3>3. Debt(f)' \subseteq Debt(f) \cup (((Runs \ {w}) \X {o}) \cup {<<w, 0>>})
      <4> SUFFICES ASSUME NEW d \in Debt(f)', d # <<w, 0>>, d \notin (Runs \ {w}) \X {o}
                   PROVE  d \in Debt(f)
        OBVIOUS
      <4>1. PICK v \in Runs, n \in 0..MaxRows : d = <<v, n>>
        BY DEF Debt
      <4>2. CASE v = w
        <5>1. n # 0
          BY <4>1, <4>2
        <5>2. n \in run'[w].todo \cap FailRows(f)'
          BY <4>1, <4>2, <5>1 DEF Debt
        <5>3. n \in run[w].todo /\ n # o /\ n \in FailRows(f)
          BY <5>2, <3>1, <1>1 DEF Turn
        <5> QED BY <4>1, <4>2, <5>1, <5>3 DEF Debt
      <4>3. CASE v # w
        <5>1. n # o
          BY <4>1, <4>3
        <5>2. run'[v] = run[v]
          BY <1>1, <4>3 DEF Turn
        <5>3. \/ n = 0 /\ f \in run'[v].keys
              \/ n # 0 /\ n \in run'[v].todo \cap FailRows(f)'
          BY <4>1 DEF Debt
        <5>4. \/ n = 0 /\ f \in run[v].keys
              \/ n # 0 /\ n \in run[v].todo \cap FailRows(f)
          BY <5>1, <5>2, <5>3, <3>1
        <5> QED BY <4>1, <5>4 DEF Debt
      <4> QED BY <4>2, <4>3
    <3> QED BY <2>0, <2>1, <2>4, <3>1, <3>3, Fails
  <2> QED BY <2>2, <2>3, <2>4
<1> QED BY <1>4, <1>5 DEF TryInv

\* A decision to re-dispatch is taken below the threshold only.
LEMMA DecideTries == ASSUME TypeOK, TryInv, NEW w \in Runs, Decide(w) PROVE TryInv'
<1>0. PICK g \in run[w].keys, p \in {"escalate", "dispatch"} :
        /\ p = "dispatch" => ~Exhausted(g)
        /\ run' = [run EXCEPT ![w].key = {g}, ![w].pc = p]
  BY DEF Decide
<1>u. run[w].pc = "decide" /\ UNCHANGED <<rows, tries, undone>>
  BY DEF Decide
<1>1. Turn(w, p, run[w].todo, run[w].keys, {g})
  <2> DEFINE q == [run[w] EXCEPT !.key = {g}, !.pc = p]
  <2>1. run' = [run EXCEPT ![w] = q]
    BY <1>0
  <2>2. q.pc = p /\ q.todo = run[w].todo /\ q.keys = run[w].keys /\ q.key = {g}
    BY DEF TypeOK, Run
  <2> HIDE DEF q
  <2> QED BY <2>1, <2>2, TurnTo DEF TypeOK
<1>2. \A v \in Runs : run[v].todo \subseteq RowIds
  BY DEF TypeOK, Run
<1>3. ListInv'
  BY <1>u, <1>1, <1>2, TurnLists DEF TryInv, ListInv
<1>4. ASSUME NEW f \in Findings \ undone' PROVE Bounded(f)'
  <2>0. Bounded(f) /\ tries'[f] = tries[f] /\ tries[f] \in Nat
    BY <1>u DEF TryInv, TypeOK
  <2>1. FailRows(f)' = FailRows(f)
    BY <1>u DEF FailRows
  <2>2. CASE f # g \/ p # "dispatch"
    BY <1>1, <2>0, <2>1, <2>2, TurnShrinks
  <2>3. CASE f = g /\ p = "dispatch"
    <3>1. Debt(f)' = Debt(f)
      BY <1>1, <2>1 DEF Debt, Turn
    <3>2. Under(f)' \subseteq Debt(f)
      <4> SUFFICES ASSUME NEW d \in Under(f)' PROVE d \in Debt(f)
        OBVIOUS
      <4>1. PICK v \in Runs : d = <<v, 0>>
        BY DEF Under
      <4>2. f \in run'[v].key
        BY <4>1 DEF Under
      <4>3. f \in run[v].keys
        BY <4>2, <1>0, <1>1, <2>3 DEF Turn, TryInv, ListInv
      <4>4. 0 \in 0..MaxRows
        BY BoundsAssumption
      <4> QED BY <4>1, <4>3, <4>4 DEF Debt
    <3> QED BY <1>0, <2>0, <2>1, <2>3, <3>1, <3>2, Decides
  <2> QED BY <2>2, <2>3
<1> QED BY <1>3, <1>4 DEF TryInv

\* A re-dispatch uses up what its check owed.
LEMMA RedispatchTries ==
  ASSUME TypeOK, KeyInv, TryInv, NEW w \in Runs, Redispatch(w) \/ RedispatchRaises(w)
  PROVE  TryInv'
<1>0. run[w].pc = "dispatch" /\ CountTry(w) /\ UNCHANGED undone
  BY DEF Redispatch, RedispatchRaises
<1>1. PICK g \in Findings : run[w].key = {g}
  BY <1>0 DEF KeyInv
<1>2. /\ \A v \in Runs : run[v].todo \subseteq RowIds
      /\ g \in run[w].keys /\ \A r \in run[w].todo : rows[r].used
  BY <1>1 DEF TypeOK, Run, TryInv, ListInv
<1>3. /\ \A r \in RowIds : /\ rows[r].used => rows'[r].used
                           /\ rows'[r].res = "still_present" => rows'[r].used
      /\ \A f \in Findings : FailRows(f)' = FailRows(f)
  <2>1. CASE UNCHANGED rows
    BY <2>1 DEF TryInv, ListInv, FailRows
  <2>2. ASSUME NEW pr \in BOOLEAN, Insert(run[w].key, pr)
        PROVE  /\ \A r \in RowIds : /\ rows[r].used => rows'[r].used
                                    /\ rows'[r].res = "still_present" => rows'[r].used
               /\ \A f \in Findings : FailRows(f)' = FailRows(f)
    BY <2>2, InsertKeeps DEF TryInv
  <2> QED BY <2>1, <2>2 DEF Redispatch, RedispatchRaises
<1>4. PICK p \in {"decide", "idle"}, T \in SUBSET run[w].todo, K \in SUBSET (run[w].keys \ {g}) :
        /\ Turn(w, p, T, K, {})
        /\ p = "idle" => K = {}
  <2>1. CASE Redispatch(w)
    <3>1. Turn(w, "decide", run[w].todo, run[w].keys \ run[w].key, {})
      BY <2>1, HandledTurn DEF Redispatch, TypeOK
    <3> QED BY <3>1, <1>1
  <2>2. CASE RedispatchRaises(w)
    <3>1. Turn(w, "idle", {}, {}, {})
      BY <2>2, IdleTurn DEF RedispatchRaises, Drop, TypeOK
    <3> QED BY <3>1
  <2> QED BY <2>1, <2>2
<1>5. ListInv'
  BY <1>2, <1>3, <1>4, TurnLists DEF TryInv
<1>6. ASSUME NEW f \in Findings \ undone' PROVE Bounded(f)'
  <2>0. Bounded(f) /\ tries[f] \in Nat /\ FailRows(f)' = FailRows(f)
    BY <1>0, <1>3 DEF TryInv, TypeOK
  <2>1. CASE f # g
    <3>1. tries'[f] = tries[f]
      BY <1>0, <1>1, <2>1 DEF CountTry
    <3> QED BY <1>4, <2>0, <3>1, TurnShrinks
  <2>2. CASE f = g
    <3>1. tries'[f] = tries[f] + 1
      BY <1>0, <1>1, <2>2 DEF CountTry
    <3>z. 0 \in 0..MaxRows
      BY BoundsAssumption
    <3>2. <<w, 0>> \in Debt(f) /\ <<w, 0>> \in Under(f)
      BY <1>0, <1>1, <1>2, <2>2, <3>z DEF Debt, Under
    <3>3. Debt(f)' \subseteq Debt(f) \ {<<w, 0>>}
      <4> SUFFICES ASSUME NEW d \in Debt(f)' PROVE d \in Debt(f) /\ d # <<w, 0>>
        OBVIOUS
      <4>1. PICK v \in Runs, n \in 0..MaxRows : d = <<v, n>>
        BY DEF Debt
      <4>2. \/ n = 0 /\ f \in run'[v].keys
            \/ n # 0 /\ n \in run'[v].todo \cap FailRows(f)
        BY <4>1, <2>0 DEF Debt
      <4>3. CASE v = w
        <5>1. n # 0 /\ n \in run[w].todo \cap FailRows(f)
          BY <4>2, <4>3, <1>4, <2>2 DEF Turn
        <5> QED BY <4>1, <4>3, <5>1 DEF Debt
      <4>4. CASE v # w
        BY <4>1, <4>2, <4>4, <1>4 DEF Debt, Turn
      <4> QED BY <4>3, <4>4
    <3>4. Under(f)' \subseteq Under(f) \ {<<w, 0>>}
      <4> SUFFICES ASSUME NEW d \in Under(f)' PROVE d \in Under(f) /\ d # <<w, 0>>
        OBVIOUS
      <4>1. PICK v \in Runs : d = <<v, 0>>
        BY DEF Under
      <4>2. run'[v].pc = "dispatch" /\ f \in run'[v].key
        BY <4>1 DEF Under
      <4>3. v # w
        BY <4>2, <1>4 DEF Turn
      <4> QED BY <4>1, <4>2, <4>3, <1>4 DEF Under, Turn
    <3> QED BY <2>0, <3>1, <3>2, <3>3, <3>4, Pays
  <2> QED BY <2>1, <2>2
<1> QED BY <1>5, <1>6 DEF TryInv

\* The steps of a check.
LEMMA RunTries ==
  ASSUME IInv, TryInv, NEW w \in Runs, Assess(w) \/ RunStep(w)
  PROVE  TryInv'
<1>t. TypeOK /\ KeyInv /\ run \in [Runs -> Run]
  BY DEF IInv, TypeOK
<1>l. /\ run[w].pc \in {"idle", "query", "next"} => run[w].keys = {}
      /\ run[w].key \subseteq run[w].keys
  BY DEF TryInv, ListInv
<1>1. CASE Assess(w)
  <2>1. Turn(w, "query", run[w].todo, run[w].keys, run[w].key)
    <3> DEFINE q == [run[w] EXCEPT !.pc = "query", !.report = present]
    <3>1. run' = [run EXCEPT ![w] = q]
      BY <1>1 DEF Assess
    <3>2. q.pc = "query" /\ q.todo = run[w].todo /\ q.keys = run[w].keys /\ q.key = run[w].key
      BY <1>t DEF Run
    <3> HIDE DEF q
    <3> QED BY <1>t, <3>1, <3>2, TurnTo
  <2>2. run[w].keys = {} /\ UNCHANGED <<rows, tries, undone>>
    BY <1>1, <1>l DEF Assess
  <2> QED BY <1>t, <1>l, <2>1, <2>2, PlainTurn
<1>2. CASE RecordRejects(w)
  <2>1. Turn(w, "decide", run[w].todo, run[w].keys, run[w].key)
    BY <1>2, <1>t, PcTurn DEF RecordRejects
  <2>2. UNCHANGED <<rows, tries, undone>>
    BY <1>2 DEF RecordRejects
  <2> QED BY <1>t, <1>l, <2>1, <2>2, PlainTurn
<1>3. CASE KeysDone(w)
  <2>1. Turn(w, "next", run[w].todo, run[w].keys, run[w].key)
    BY <1>3, <1>t, PcTurn DEF KeysDone
  <2>2. run[w].keys = {} /\ UNCHANGED <<rows, tries, undone>>
    BY <1>3 DEF KeysDone
  <2> QED BY <1>t, <1>l, <2>1, <2>2, PlainTurn
<1>4. CASE CheckEnds(w) \/ StoreFails(w)
  <2>1. Turn(w, "idle", {}, {}, {})
    BY <1>4, <1>t, IdleTurn DEF CheckEnds, StoreFails, Drop
  <2>2. UNCHANGED <<rows, tries, undone>>
    BY <1>4 DEF CheckEnds, StoreFails
  <2> QED BY <1>t, <2>1, <2>2, PlainTurn
<1>5. CASE Escalate(w) \/ LogEscalation(w)
  <2>1. UNCHANGED <<rows, tries, undone>>
    BY <1>5 DEF Escalate, LogEscalation
  <2>2. CASE Goto(w, "log")
    <3>1. Turn(w, "log", run[w].todo, run[w].keys, run[w].key)
      BY <2>2, <1>t, PcTurn
    <3> QED BY <1>t, <1>l, <2>1, <3>1, PlainTurn
  <2>3. ASSUME NEW how, Handled(w, how) PROVE TryInv'
    <3>1. Turn(w, "decide", run[w].todo, run[w].keys \ run[w].key, {})
      BY <2>3, <1>t, HandledTurn
    <3> QED BY <1>t, <2>1, <3>1, PlainTurn
  <2> QED BY <1>5, <2>2, <2>3 DEF Escalate, LogEscalation
<1> QED BY <1>t, <1>1, <1>2, <1>3, <1>4, <1>5, QueryTries, ResolveTries, ConfirmTries,
           DecideTries, RedispatchTries DEF RunStep

\* What the rest of the portal does.
LEMMA EnvironmentTries ==
  ASSUME IInv, TryInv,
         \/ \E ts \in SUBSET Findings : NewDelivery(ts)
         \/ \E f \in Findings : acknowledge_finding_escalation(f) \/ clear_skill_cooldown(f)
         \/ WorldChanges \/ Crash \/ UNCHANGED vars
  PROVE  TryInv'
<1>t. TypeOK /\ \A f \in Findings : tries[f] \in Nat
  BY DEF IInv, TypeOK
<1>r. \A v \in Runs : run[v].todo \subseteq RowIds
  BY DEF IInv, TypeOK, Run
<1>1. ASSUME UNCHANGED <<run, tries, undone>>,
             \A r \in RowIds : /\ rows[r].used => rows'[r].used
                               /\ rows'[r].res = "still_present" => rows'[r].used,
             \A f \in Findings : FailRows(f)' = FailRows(f)
      PROVE  TryInv'
  <2>1. ListInv'
    BY <1>1, <1>r DEF TryInv, ListInv
  <2>2. ASSUME NEW f \in Findings \ undone' PROVE Bounded(f)'
    <3>1. Debt(f)' \subseteq Debt(f) /\ Under(f)' \subseteq Under(f)
      BY <1>1 DEF Debt, Under
    <3> QED BY <1>1, <1>t, <3>1, Shrinks DEF TryInv
  <2> QED BY <2>1, <2>2 DEF TryInv
<1>2. ASSUME UNCHANGED <<rows, run, tries, undone>> PROVE TryInv'
  BY <1>1, <1>2 DEF TryInv, ListInv, FailRows
<1>3. ASSUME NEW ts \in SUBSET Findings, NewDelivery(ts) PROVE TryInv'
  <2>1. Insert(ts, TRUE) /\ UNCHANGED <<run, tries, undone>>
    BY <1>3 DEF NewDelivery
  <2> QED BY <1>1, <1>t, <2>1, InsertKeeps DEF TryInv
<1>4. CASE Crash
  <2>1. \A v \in Runs : run'[v].pc = "idle" /\ run'[v].todo = {} /\ run'[v].keys = {} /\ run'[v].key = {}
    BY <1>4 DEF Crash, IdleRun
  <2>2. UNCHANGED <<rows, tries, undone>>
    BY <1>4 DEF Crash
  <2>3. ListInv'
    BY <2>1, <2>2 DEF TryInv, ListInv
  <2>4. ASSUME NEW f \in Findings \ undone' PROVE Bounded(f)'
    <3>1. Debt(f)' \subseteq Debt(f) /\ Under(f)' \subseteq Under(f)
      BY <2>1 DEF Debt, Under
    <3>2. FailRows(f)' = FailRows(f)
      BY <2>2 DEF FailRows
    <3> QED BY <1>t, <2>2, <3>1, <3>2, Shrinks DEF TryInv
  <2> QED BY <2>3, <2>4 DEF TryInv
<1>5. CASE UNCHANGED vars
  BY <1>2, <1>5 DEF vars
<1> QED BY <1>2, <1>3, <1>4, <1>5 DEF acknowledge_finding_escalation, clear_skill_cooldown,
                                      WorldChanges

\* Initially nothing was tried and nothing is owed.
LEMMA InitTries == Init => TryInv
<1> SUFFICES ASSUME Init PROVE TryInv
  OBVIOUS
<1>1. /\ \A v \in Runs : run[v].pc = "idle" /\ run[v].todo = {} /\ run[v].keys = {} /\ run[v].key = {}
      /\ \A r \in RowIds : rows[r].res = "null"
  BY DEF Init, IdleRun, NoRow
<1>2. ListInv
  BY <1>1 DEF ListInv
<1>3. ASSUME NEW f \in Findings PROVE Bounded(f)
  <2>1. Debt(f) = {} /\ Under(f) = {}
    BY <1>1 DEF Debt, Under
  <2>2. /\ Cardinality(Runs) * FailureCount(f) \in Nat
        /\ Cardinality(Runs) * (Threshold - 1) \in Nat
    BY Finite, BoundsAssumption
  <2>3. tries[f] = 0
    BY DEF Init
  <2> QED BY <2>1, <2>2, <2>3, FS_EmptySet DEF Bounded
<1> QED BY <1>2, <1>3 DEF TryInv

\* handle_confirmed_finding_failure stops: below the threshold every confirmed failure
\* allows each check in progress one re-dispatch, and from the threshold on there is none,
\* unless an overlapping check takes a confirmed failure back.
THEOREM LoopStops == Spec => []RetriesBounded
<1>1. IInv /\ TryInv /\ [Next]_vars => TryInv'
  BY RunTries, EnvironmentTries DEF Next
<1>2. ASSUME IInv, TryInv PROVE RetriesBounded
  <2> SUFFICES ASSUME NEW f \in Findings \ undone
               PROVE  tries[f] <= (Threshold - 1) * Cardinality(Runs)
    BY DEF RetriesBounded
  <2>1. /\ tries[f] \in Nat /\ Cardinality(Under(f)) \in Nat /\ Cardinality(Runs) \in Nat
        /\ Threshold - 1 \in Nat
        /\ tries[f] + Cardinality(Under(f)) <= Cardinality(Runs) * (Threshold - 1)
    BY <1>2, Finite, BoundsAssumption DEF IInv, TypeOK, TryInv, Bounded
  <2> QED BY <2>1
<1>3. IInv /\ TryInv => RetriesBounded
  BY <1>2
<1> QED BY InitTries, Invariance, <1>1, <1>3, PTL DEF Spec
=============================================================================
