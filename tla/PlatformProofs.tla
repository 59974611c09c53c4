--------------------------- MODULE PlatformProofs ---------------------------
(***************************************************************************)
(* The safety properties of the scan, the learning loop, the skill catalog *)
(* and the capability scout, for every value of the constants: each is     *)
(* proved of the composition PlatformMC, whose steps are steps of one      *)
(* loop.                                                                   *)
(***************************************************************************)
EXTENDS PlatformMC, FiniteSetTheorems, SequenceTheorems, WellFoundedInduction, TLAPS

-----------------------------------------------------------------------------
(* A step of the composition is a step of each part, or leaves it alone.   *)

\* ... of the scan.
LEMMA ScanningStep == [PlatformNext]_platformVars => [R!Next]_(R!vars)
<1>. SUFFICES ASSUME PlatformNext \/ UNCHANGED platformVars PROVE R!Next \/ UNCHANGED R!vars
  OBVIOUS
<1>1. CASE loop # "scan"
  BY <1>1 DEF PlatformNext, platformVars, Eventing, Sending, Faulting, Consuming, Judging, Feeding, Learning,
     Catalog, Scout, Scanning, scanVars, R!vars
<1>2. CASE loop = "scan"
  <2>1. CASE UNCHANGED platformVars
    BY <2>1 DEF platformVars, scanVars, R!vars
  <2>2. CASE PlatformNext
    BY <1>2, <2>2 DEF PlatformNext, Eventing, Sending, Faulting, Consuming, Judging, Feeding, Learning, Catalog, Scout,
       R!Next
  <2>. QED  BY <2>1, <2>2
<1>. QED  BY <1>1, <1>2

\* ... of the learning loop.
LEMMA LearningStep == [PlatformNext]_platformVars => [L!Next]_(L!vars)
<1>. SUFFICES ASSUME PlatformNext \/ UNCHANGED platformVars PROVE L!Next \/ UNCHANGED L!vars
  OBVIOUS
<1>1. CASE loop \notin {"skills", "judging", "learning"}
  BY <1>1 DEF PlatformNext, platformVars, Eventing, Sending, Faulting, Consuming, Judging, Feeding, Learning,
     Catalog, Scout, Scanning, learningVars, L!vars
<1>2. CASE loop \in {"skills", "judging", "learning"}
  <2>1. CASE UNCHANGED platformVars
    BY <2>1 DEF platformVars, learningVars, L!vars
  <2>2. CASE PlatformNext
    BY <1>2, <2>2 DEF PlatformNext, Eventing, Sending, Faulting, Consuming, Catalog, Scout, Scanning,
       L!Next, Feeding, Learning
  <2>. QED  BY <2>1, <2>2
<1>. QED  BY <1>1, <1>2

\* ... of the skill catalog.
LEMMA CatalogStep == [PlatformNext]_platformVars => [C!Next]_(C!vars)
<1>. SUFFICES ASSUME PlatformNext \/ UNCHANGED platformVars PROVE C!Next \/ UNCHANGED C!vars
  OBVIOUS
<1>1. CASE loop \notin {"files", "drafting", "catalog"}
  BY <1>1 DEF PlatformNext, platformVars, Eventing, Sending, Faulting, Consuming, Judging, Feeding, Learning,
     Catalog, Scout, Scanning, catalogVars, C!vars
<1>2. CASE loop \in {"files", "drafting", "catalog"}
  <2>1. CASE UNCHANGED platformVars
    BY <2>1 DEF platformVars, catalogVars, C!vars
  <2>2. CASE PlatformNext
    BY <1>2, <2>2 DEF PlatformNext, Eventing, Sending, Faulting, Consuming, Judging, Feeding, Learning, Scout, Scanning,
       C!Next
  <2>. QED  BY <2>1, <2>2
<1>. QED  BY <1>1, <1>2

\* ... of the capability scout.
LEMMA ScoutStep == [PlatformNext]_platformVars => [S!Next]_(S!vars)
<1>. SUFFICES ASSUME PlatformNext \/ UNCHANGED platformVars PROVE S!Next \/ UNCHANGED S!vars
  OBVIOUS
<1>1. CASE loop # "scout"
  BY <1>1 DEF PlatformNext, platformVars, Eventing, Sending, Faulting, Consuming, Judging, Feeding, Learning,
     Catalog, Scout, Scanning, scoutVars, S!vars
<1>2. CASE loop = "scout"
  <2>1. CASE UNCHANGED platformVars
    BY <2>1 DEF platformVars, scoutVars, S!vars
  <2>2. CASE PlatformNext
    BY <1>2, <2>2 DEF PlatformNext, Eventing, Sending, Faulting, Consuming, Judging, Feeding, Learning, Catalog, Scanning,
       S!Next
  <2>. QED  BY <2>1, <2>2
<1>. QED  BY <1>1, <1>2

-----------------------------------------------------------------------------
(* The ticks of the learner.                                               *)

\* What the learner still sleeps makes up for what is missing of the interval
\* since the last recorded tick.
TickInv ==
  /\ beat \in 0 .. Interval + 1
  /\ wake \in 0 .. Interval
  /\ pc = "sleep" => beat + wake >= Interval

\* The learner boots having never ticked.
LEMMA TickInit == L!Init => TickInv
BY IntervalAssumption DEF L!Init, TickInv, L!Never

\* Every step of the learning loop keeps it; the clock moves both sides.
LEMMA TickStep == TickInv /\ [L!Next]_(L!vars) => TickInv'
<1>. USE IntervalAssumption
<1>. SUFFICES ASSUME TickInv, L!Next \/ UNCHANGED L!vars PROVE TickInv'
  OBVIOUS
<1>. USE DEF TickInv
<1>1. CASE UNCHANGED L!vars
  BY <1>1 DEF L!vars
<1>2. ASSUME NEW a \in Apps, L!Scan(a) PROVE TickInv'
  BY <1>2 DEF L!Scan
<1>3. ASSUME NEW a \in Apps, NEW s \in Skills, L!Dispatch(a, s) \/ L!RecordOutcome(a, s)
      PROVE TickInv'
  BY <1>3 DEF L!Dispatch, L!RecordOutcome
<1>4. ASSUME NEW p \in L!Pairs, L!ClearCooldown(p) PROVE TickInv'
  BY <1>4 DEF L!ClearCooldown
<1>5. CASE L!Startup
  BY <1>5 DEF L!Startup
<1>6. CASE L!StartupBlind \/ L!WakeUp \/ L!NoModel \/ L!Improve \/ L!Sweep
  BY <1>6 DEF L!StartupBlind, L!WakeUp, L!NoModel, L!Improve, L!Sweep
<1>7. CASE L!RecordTick
  <2>1. wake' = Interval /\ (beat' = 0 \/ beat' = beat)
    BY <1>7 DEF L!RecordTick
  <2>2. 0 \in 0 .. Interval + 1 /\ Interval \in 0 .. Interval
    OBVIOUS
  <2>. QED  BY <2>1, <2>2
<1>8. CASE L!Restart
  BY <1>8 DEF L!Restart
<1>9. CASE L!LearnNow \/ L!LearnFails
  BY <1>9 DEF L!LearnNow, L!LearnFails
<1>10. CASE L!Pass
  BY <1>10 DEF L!Pass, L!Never
<1>. QED
  BY <1>1, <1>2, <1>3, <1>4, <1>5, <1>6, <1>7, <1>8, <1>9, <1>10 DEF L!Next

\* run_skill_learner_loop: whatever restarts, failing heartbeats and manual
\* runs come between, a tick starts an interval or more after the last one the
\* registry knows of, unless the registry could not be read at startup.
THEOREM LearnerKeepsItsInterval == PlatformSpec => TicksApart
<1>. DEFINE Apart == pc # "tick" /\ pc' = "tick" /\ ~ L!StartupBlind => beat >= Interval
<1>1. PlatformInit => TickInv
  BY TickInit DEF PlatformInit
<1>2. TickInv /\ [PlatformNext]_platformVars => TickInv'
  BY TickStep, LearningStep
<1>3. TickInv /\ [PlatformNext]_platformVars => [Apart]_(L!vars)
  <2>. SUFFICES ASSUME TickInv, L!Next, pc # "tick", pc' = "tick", ~ L!StartupBlind
                PROVE  beat >= Interval
    BY LearningStep
  <2>. USE IntervalAssumption
  <2>1. CASE \E a \in Apps : L!Scan(a) \/ \E s \in Skills : L!Dispatch(a, s) \/ L!RecordOutcome(a, s)
    BY <2>1 DEF L!Scan, L!Dispatch, L!RecordOutcome
  <2>2. CASE \E p \in L!Pairs : L!ClearCooldown(p)
    BY <2>2 DEF L!ClearCooldown
  <2>3. CASE L!Startup \/ L!WakeUp
    BY <2>3 DEF L!Startup, L!WakeUp, TickInv
  <2>4. CASE L!NoModel \/ L!Improve \/ L!Sweep
    BY <2>4 DEF L!NoModel, L!Improve, L!Sweep
  <2>5. CASE L!RecordTick \/ L!Restart \/ L!LearnNow \/ L!LearnFails \/ L!Pass
    BY <2>5 DEF L!RecordTick, L!Restart, L!LearnNow, L!LearnFails, L!Pass
  <2>. QED  BY <2>1, <2>2, <2>3, <2>4, <2>5 DEF L!Next
<1>. QED  BY <1>1, <1>2, <1>3, PTL DEF PlatformSpec, TicksApart, L!TicksApart

-----------------------------------------------------------------------------
(* The two views of a cool-down.                                           *)

\* The rows of every pair are a sequence.
RowsInv == \A p \in L!Pairs : outcomeRows[p] \in Seq(L!Outcomes) /\ p \in DOMAIN outcomeRows

\* A set of positions that contains 0 has a greatest one.
LEMMA GreatestPosition ==
  ASSUME NEW n \in Nat, NEW T \in SUBSET (0 .. n), T # {}
  PROVE  \E i \in T : \A j \in T : j <= i
<1>. DEFINE D == {k \in Nat : n - k \in T}
<1>1. PICK i \in T : TRUE
  OBVIOUS
<1>2. n - i \in D
  BY <1>1
<1>3. PICK k \in D : \A m \in D : ~ (<<m, k>> \in OpToRel(<, Nat))
  BY <1>2, NatLessThanWellFounded, WFMin
<1>4. \A j \in T : j <= n - k
  <2>. SUFFICES ASSUME NEW j \in T PROVE j <= n - k
    OBVIOUS
  <2>1. n - j \in D
    OBVIOUS
  <2>2. ~ (n - j < k)
    BY <2>1, <1>3 DEF OpToRel
  <2>. QED  BY <2>2
<1>. QED  BY <1>4

\* The last clear of a pair is 0 or one of its rows, and no clear is later.
LEMMA LastClearedIsLast ==
  ASSUME RowsInv, NEW p \in L!Pairs
  PROVE  LET clears == {i \in DOMAIN outcomeRows[p] : outcomeRows[p][i] = "cooldown_cleared"}
         IN /\ L!LastCleared(p) \in {0} \cup clears
            /\ \A c \in clears : c <= L!LastCleared(p)
<1>. DEFINE clears == {i \in DOMAIN outcomeRows[p] : outcomeRows[p][i] = "cooldown_cleared"}
            all == {0} \cup clears
<1>1. Len(outcomeRows[p]) \in Nat /\ DOMAIN outcomeRows[p] = 1 .. Len(outcomeRows[p])
  BY DEF RowsInv
<1>2. all \in SUBSET (0 .. Len(outcomeRows[p])) /\ all # {}
  BY <1>1
<1>3. \E i \in all : \A j \in all : j <= i
  BY <1>1, <1>2, GreatestPosition, Zenon
<1>4. L!LastCleared(p) = CHOOSE i \in all : \A j \in all : j <= i
  BY DEF L!LastCleared
<1>. HIDE DEF all
<1>5. L!LastCleared(p) \in all /\ \A j \in all : j <= L!LastCleared(p)
  BY <1>3, <1>4
<1>. QED  BY <1>5 DEF all

\* Hence the rows after the last clear are those after every clear.
LEMMA ViewsAgree == RowsInv => CooldownViewsAgree
<1>. SUFFICES ASSUME RowsInv, NEW a \in Apps, NEW s \in Skills
              PROVE  s \in L!ListCooled(a) <=> L!CoolingDown(<<a, s>>)
  BY DEF CooldownViewsAgree, L!CooldownViewsAgree
<1>. DEFINE p == <<a, s>>
            clears == {i \in DOMAIN outcomeRows[p] : outcomeRows[p][i] = "cooldown_cleared"}
            after == {i \in DOMAIN outcomeRows[p] : \A c \in clears : c < i}
<1>0. p \in L!Pairs
  BY DEF L!Pairs
<1>1. Len(outcomeRows[p]) \in Nat /\ DOMAIN outcomeRows[p] = 1 .. Len(outcomeRows[p])
  BY <1>0 DEF RowsInv
<1>2. L!LastCleared(p) \in {0} \cup clears /\ \A c \in clears : c <= L!LastCleared(p)
  BY <1>0, LastClearedIsLast
<1>3. after = L!LastCleared(p) + 1 .. Len(outcomeRows[p])
  BY <1>1, <1>2
<1>4. \A r : {i \in L!LastCleared(p) + 1 .. Len(outcomeRows[p]) : outcomeRows[p][i] = r}
             = {i \in after : outcomeRows[p][i] = r}
  BY <1>3
<1>5. \A r : L!Count(p, r, L!LastCleared(p) + 1) = Cardinality({i \in after : outcomeRows[p][i] = r})
  <2>. TAKE r
  <2>1. L!Count(p, r, L!LastCleared(p) + 1)
          = Cardinality({i \in L!LastCleared(p) + 1 .. Len(outcomeRows[p]) : outcomeRows[p][i] = r})
    BY Zenon DEF L!Count, L!Cardinality, Cardinality
  <2>. QED  BY <1>3, <2>1
<1>6. s \in L!ListCooled(a) <=> \E r \in Reasons : L!Count(p, r, L!LastCleared(p) + 1) >= Threshold
  BY DEF L!ListCooled
<1>7. L!CoolingDown(p)
        <=> \E r \in Reasons : Cardinality({i \in after : outcomeRows[p][i] = r}) >= Threshold
  BY Zenon DEF L!CoolingDown, L!Cardinality, Cardinality
<1>. HIDE DEF p, after
<1>8. s \in L!ListCooled(a) <=> L!CoolingDown(p)
  BY <1>5, <1>6, <1>7
<1>. QED  BY <1>8 DEF p

\* Rows are only appended, each an outcome.
LEMMA RowsStep == RowsInv /\ [L!Next]_(L!vars) => RowsInv'
<1>. SUFFICES ASSUME RowsInv, L!Next \/ UNCHANGED L!vars PROVE RowsInv'
  OBVIOUS
<1>1. CASE UNCHANGED outcomeRows
  BY <1>1 DEF RowsInv, L!Outcomes, L!Rejections, L!Pairs
<1>2. ASSUME NEW q \in L!Pairs, NEW o \in L!Outcomes,
             outcomeRows' = [outcomeRows EXCEPT ![q] = Append(@, o)]
      PROVE  RowsInv'
  <2>. SUFFICES ASSUME NEW p \in L!Pairs
                PROVE  outcomeRows'[p] \in Seq(L!Outcomes) /\ p \in DOMAIN outcomeRows'
    BY DEF RowsInv, L!Outcomes, L!Rejections, L!Pairs
  <2>. HIDE DEF L!Outcomes
  <2>1. outcomeRows[p] \in Seq(L!Outcomes) /\ p \in DOMAIN outcomeRows
    BY DEF RowsInv
  <2>2. Append(outcomeRows[p], o) \in Seq(L!Outcomes)
    BY <2>1, AppendProperties
  <2>3. outcomeRows'[p] = IF p = q THEN Append(outcomeRows[p], o) ELSE outcomeRows[p]
    BY <1>2, <2>1
  <2>4. p \in DOMAIN outcomeRows'
    BY <1>2, <2>1
  <2>. QED  BY <2>1, <2>2, <2>3, <2>4
<1>3. ASSUME NEW a \in Apps, NEW s \in Skills, L!RecordOutcome(a, s) PROVE RowsInv'
  BY <1>1, <1>2, <1>3 DEF L!RecordOutcome, L!Pairs, L!Outcomes
<1>4. ASSUME NEW p \in L!Pairs, L!ClearCooldown(p) PROVE RowsInv'
  BY <1>2, <1>4 DEF L!ClearCooldown, L!Outcomes
<1>5. UNCHANGED L!vars => UNCHANGED outcomeRows
  BY DEF L!vars
<1>6. \A a \in Apps : L!Scan(a) \/ (\E s \in Skills : L!Dispatch(a, s)) => UNCHANGED outcomeRows
  BY DEF L!Scan, L!Dispatch
<1>7. L!Startup \/ L!StartupBlind \/ L!WakeUp \/ L!NoModel \/ L!Improve \/ L!Sweep
        => UNCHANGED outcomeRows
  BY DEF L!Startup, L!StartupBlind, L!WakeUp, L!NoModel, L!Improve, L!Sweep
<1>8. L!RecordTick \/ L!Restart \/ L!LearnNow \/ L!LearnFails \/ L!Pass => UNCHANGED outcomeRows
  BY DEF L!RecordTick, L!Restart, L!LearnNow, L!LearnFails, L!Pass
<1>. QED
  BY <1>1, <1>3, <1>4, <1>5, <1>6, <1>7, <1>8 DEF L!Next

\* list_cooled_skills and get_skill_cooldown are two queries over the same
\* rows; whatever was recorded and cleared in whatever order, for however many
\* apps, skills and reasons, they give the same answer.
THEOREM CooldownQueriesAgree == PlatformSpec => []CooldownViewsAgree
<1>1. PlatformInit => RowsInv
  BY EmptySeq DEF PlatformInit, L!Init, RowsInv
<1>2. RowsInv /\ [PlatformNext]_platformVars => RowsInv'
  BY RowsStep, LearningStep
<1>. QED  BY <1>1, <1>2, ViewsAgree, PTL DEF PlatformSpec

-----------------------------------------------------------------------------
(* The scout.                                                              *)

PrRecords == [title : Titles, state : {"open", "merged", "closed"},
              reason : S!CloseReasons, old : BOOLEAN]
OutcomeRecords == [pr : Nat, state : {"merged", "closed", "stale"},
                   reason : S!CloseReasons, fresh : BOOLEAN]
RunRecords ==
  {S!Idle}
    \cup [step : {"sync"}, todo : SUBSET Nat, due : SUBSET Nat]
    \cup [step : {"propose"}, blocked : SUBSET Titles, due : SUBSET Nat]
    \cup [step : {"gates", "tests", "open"}, title : Titles, due : SUBSET Nat]

\* The shapes of the scout's state.
ScoutTypes ==
  /\ proposals \in Seq(PrRecords)
  /\ outcomes \in Seq(OutcomeRecords)
  /\ run \in [ScoutRuns -> RunRecords]

Opened == {i \in S!Numbers : S!Open(i)}
PastCap == {r \in ScoutRuns : run[r].step \in {"tests", "open"}}

\* A run that is past the count is counted as the pull request it may open.
CapInv == Cardinality(Opened) + Cardinality(PastCap) <= MaxOpen + Cardinality(ScoutRuns) - 1

\* What a run knows of the settled pull requests it must not repeat: they stay
\* settled; each is still to be polled or recorded; once the outcomes are read
\* its title is blocked or it was misrecorded; once a title is chosen, only the
\* latter is left.
Informed(r) ==
  /\ run[r] # S!Idle => run[r].due \subseteq S!Settled
  /\ run[r].step = "sync" => run[r].due \subseteq run[r].todo \cup S!Recorded
  /\ run[r].step = "propose" =>
       \A i \in run[r].due : proposals[i].title \in run[r].blocked \/ i \in S!Misrecorded
  /\ run[r].step \in {"gates", "tests", "open"} => run[r].due \subseteq S!Misrecorded

DueInv == \A r \in ScoutRuns : Informed(r)

\* The pull requests are numbered from 1.
LEMMA NumbersAre ==
  ASSUME ScoutTypes
  PROVE  /\ S!Numbers = 1 .. Len(proposals) /\ Len(proposals) \in Nat
         /\ \A i \in S!Numbers : proposals[i] \in PrRecords
BY DEF ScoutTypes, S!Numbers

\* What is recorded, and recorded wrongly, over all outcomes.
LEMMA RecordedAre ==
  ASSUME ScoutTypes
  PROVE  /\ DOMAIN outcomes = 1 .. Len(outcomes) /\ Len(outcomes) \in Nat
         /\ \A k \in DOMAIN outcomes : outcomes[k] \in OutcomeRecords
         /\ S!Read(Len(outcomes)) = {outcomes[k] : k \in DOMAIN outcomes}
         /\ S!Recorded = {outcomes[k].pr : k \in DOMAIN outcomes}
         /\ \A i : i \in S!Misrecorded <=>
              \E k \in DOMAIN outcomes :
                 /\ outcomes[k].pr = i
                 /\ \/ outcomes[k].state # proposals[i].state
                    \/ outcomes[k].reason # proposals[i].reason
<1>1. /\ DOMAIN outcomes = 1 .. Len(outcomes) /\ Len(outcomes) \in Nat
      /\ \A k \in DOMAIN outcomes : outcomes[k] \in OutcomeRecords
  BY DEF ScoutTypes
<1>2. {x \in DOMAIN outcomes : x + Len(outcomes) > Len(outcomes)} = DOMAIN outcomes
  BY <1>1
<1>3. S!Read(Len(outcomes)) = {outcomes[k] : k \in DOMAIN outcomes}
  BY <1>2 DEF S!Read
<1>4. S!Recorded = {outcomes[k].pr : k \in DOMAIN outcomes}
  BY <1>3 DEF S!Recorded, S!PrsOf
<1>. QED  BY <1>1, <1>3, <1>4 DEF S!Misrecorded, S!PrsOf

\* Whatever part of the outcomes is read, it is recorded.
LEMMA ReadIsRecorded ==
  ASSUME ScoutTypes, NEW limit
  PROVE  /\ S!Read(limit) \subseteq S!Read(Len(outcomes))
         /\ S!PrsOf(S!Read(limit)) \subseteq S!Recorded
<1>1. S!Read(limit) \subseteq S!Read(Len(outcomes))
  BY RecordedAre DEF S!Read
<1>. QED  BY <1>1 DEF S!PrsOf, S!Recorded

\* How one run's record is replaced.
LEMMA RunReplaced ==
  ASSUME run \in [ScoutRuns -> RunRecords], NEW r \in ScoutRuns, NEW v \in RunRecords,
         run' = [run EXCEPT ![r] = v]
  PROVE  /\ run' \in [ScoutRuns -> RunRecords]
         /\ run'[r] = v
         /\ \A x \in ScoutRuns \ {r} : run'[x] = run[x]
OBVIOUS

\* Each step of a run, seen from its record.
LEMMA RunStep ==
  ASSUME ScoutTypes, NEW r \in ScoutRuns,
         \/ S!BeginSync(r) \/ S!SyncFails(r) \/ S!Gather(r)
         \/ \E i \in S!Numbers : S!SyncOne(r, i) \/ S!SkipOne(r, i)
         \/ S!NoProposal(r) \/ \E title \in Titles : S!Propose(r, title)
         \/ S!PassCap(r) \/ S!PassTests(r) \/ S!GateBlocked(r)
         \/ S!OpenPr(r) \/ S!OpenFails(r) \/ S!Cancel(r)
  PROVE  \E v \in RunRecords : run' = [run EXCEPT ![r] = v]
<1>. USE DEF ScoutTypes
<1>0. run[r] \in RunRecords /\ S!Idle \in RunRecords
  BY DEF RunRecords
<1>1. CASE S!BeginSync(r)
  <2>1. PICK tracked \in SUBSET S!Numbers, listed \in {S!Listed, {}}, read \in {S!Read(SyncRead), {}} :
          run' = [run EXCEPT ![r] = [step |-> "sync", todo |-> (tracked \cup listed) \ S!PrsOf(read),
                                     due |-> S!Settled \cap (listed \cup S!Recorded)]]
    BY <1>1 DEF S!BeginSync
  <2>2. /\ (tracked \cup listed) \ S!PrsOf(read) \in SUBSET Nat
        /\ S!Settled \cap (listed \cup S!Recorded) \in SUBSET Nat
    <3>1. S!Numbers \subseteq Nat /\ S!Listed \subseteq S!Numbers /\ S!Settled \subseteq S!Numbers
      BY NumbersAre DEF S!Listed, S!Settled
    <3>. QED  BY <3>1
  <2>3. [step |-> "sync", todo |-> (tracked \cup listed) \ S!PrsOf(read),
         due |-> S!Settled \cap (listed \cup S!Recorded)] \in RunRecords
    BY <2>2 DEF RunRecords
  <2>. QED  BY <2>1, <2>3
<1>2. CASE S!SyncFails(r)
  <2>. DEFINE v == [run[r] EXCEPT !.todo = {}, !.due = @ \cap S!Recorded]
  <2>1. run[r] \in [step : {"sync"}, todo : SUBSET Nat, due : SUBSET Nat]
    BY <1>0, <1>2 DEF RunRecords, S!SyncFails, S!Idle
  <2>2. v \in RunRecords
    BY <2>1 DEF RunRecords
  <2>3. run' = [run EXCEPT ![r] = v]
    BY <1>2 DEF S!SyncFails
  <2>. QED  BY <2>2, <2>3
<1>3. CASE S!Gather(r)
  <2>1. run[r] \in [step : {"sync"}, todo : SUBSET Nat, due : SUBSET Nat]
    BY <1>0, <1>3 DEF RunRecords, S!Gather, S!Idle
  <2>. DEFINE v == [step |-> "propose", blocked |-> S!Blocked(S!Read(OutcomesRead)),
                    due |-> run[r].due \ S!Overtaken]
              w == [step |-> "propose", blocked |-> {}, due |-> {}]
  <2>2. run' = [run EXCEPT ![r] = v] \/ run' = [run EXCEPT ![r] = w]
    BY <1>3 DEF S!Gather
  <2>3. S!Blocked(S!Read(OutcomesRead)) \in SUBSET Titles
    BY DEF S!Blocked
  <2>4. v \in RunRecords /\ w \in RunRecords
    BY <2>1, <2>3 DEF RunRecords
  <2>. QED  BY <2>2, <2>4
<1>4. ASSUME NEW i \in S!Numbers, S!SyncOne(r, i) \/ S!SkipOne(r, i)
      PROVE  \E v \in RunRecords : run' = [run EXCEPT ![r] = v]
  <2>1. run[r] \in [step : {"sync"}, todo : SUBSET Nat, due : SUBSET Nat]
    BY <1>0, <1>4 DEF RunRecords, S!SyncOne, S!SkipOne, S!Idle
  <2>. DEFINE v == [run[r] EXCEPT !.todo = @ \ {i}]
              w == [run[r] EXCEPT !.todo = @ \ {i}, !.due = @ \ {i}]
  <2>2. v \in RunRecords /\ w \in RunRecords
    BY <2>1 DEF RunRecords
  <2>3. run' = [run EXCEPT ![r] = v] \/ run' = [run EXCEPT ![r] = w]
    BY <1>4 DEF S!SyncOne, S!SkipOne
  <2>. QED  BY <2>2, <2>3
<1>5. ASSUME NEW title \in Titles, S!Propose(r, title)
      PROVE  \E v \in RunRecords : run' = [run EXCEPT ![r] = v]
  <2>1. run[r] \in [step : {"propose"}, blocked : SUBSET Titles, due : SUBSET Nat]
    BY <1>0, <1>5 DEF RunRecords, S!Propose, S!Idle
  <2>. DEFINE v == [step |-> "gates", title |-> title,
                    due |-> {i \in run[r].due : proposals[i].title = title}]
  <2>2. v \in RunRecords
    BY <2>1 DEF RunRecords
  <2>3. run' = [run EXCEPT ![r] = v]
    BY <1>5 DEF S!Propose
  <2>. QED  BY <2>2, <2>3
<1>6. CASE S!PassCap(r) \/ S!PassTests(r)
  <2>1. run[r] \in [step : {"gates", "tests", "open"}, title : Titles, due : SUBSET Nat]
    BY <1>0, <1>6 DEF RunRecords, S!PassCap, S!PassTests, S!Idle
  <2>. DEFINE v == [run[r] EXCEPT !.step = "tests"]
              w == [run[r] EXCEPT !.step = "open"]
  <2>2. v \in RunRecords /\ w \in RunRecords
    BY <2>1 DEF RunRecords
  <2>3. run' = [run EXCEPT ![r] = v] \/ run' = [run EXCEPT ![r] = w]
    BY <1>6 DEF S!PassCap, S!PassTests
  <2>. QED  BY <2>2, <2>3
<1>7. CASE \/ S!NoProposal(r) \/ S!GateBlocked(r) \/ S!OpenPr(r) \/ S!OpenFails(r) \/ S!Cancel(r)
  BY <1>0, <1>7 DEF S!NoProposal, S!GateBlocked, S!OpenPr, S!OpenFails, S!Cancel, S!End
<1>. QED  BY <1>1, <1>2, <1>3, <1>4, <1>5, <1>6, <1>7

\* What a step may do to the pull requests: nothing, open one in a run's name,
\* or change one that is open.
Opens(r) ==
  /\ S!OpenPr(r)
  /\ proposals' = Append(proposals, [title |-> run[r].title, state |-> "open",
                                     reason |-> "other", old |-> FALSE])
Alters(i) ==
  /\ i \in S!Numbers /\ S!Open(i)
  /\ UNCHANGED <<outcomes, run>>
  /\ \E v \in PrRecords : proposals' = [proposals EXCEPT ![i] = v]

\* A person's decision, or age, changes one open pull request.
LEMMA DecisionAlters ==
  ASSUME ScoutTypes, NEW i \in S!Numbers, S!Merge(i) \/ S!Close(i) \/ S!GrowOld(i)
  PROVE  Alters(i)
<1>1. proposals[i] \in PrRecords
  BY NumbersAre
<1>2. CASE S!Merge(i)
  <2>. DEFINE v == [proposals[i] EXCEPT !.state = "merged", !.old = FALSE]
  <2>1. v \in PrRecords
    BY <1>1 DEF PrRecords
  <2>2. proposals' = [proposals EXCEPT ![i] = v]
    BY <1>2 DEF S!Merge
  <2>. QED  BY <1>2, <2>1, <2>2 DEF Alters, S!Merge, S!CanDecide
<1>3. CASE S!Close(i)
  <2>1. PICK reason \in S!CloseReasons :
          proposals' = [proposals EXCEPT ![i].state = "closed", ![i].reason = reason,
                                         ![i].old = FALSE]
    BY <1>3 DEF S!Close
  <2>. DEFINE v == [proposals[i] EXCEPT !.state = "closed", !.reason = reason, !.old = FALSE]
  <2>2. v \in PrRecords
    BY <1>1 DEF PrRecords
  <2>3. proposals' = [proposals EXCEPT ![i] = v]
    BY <2>1
  <2>. QED  BY <1>3, <2>2, <2>3 DEF Alters, S!Close, S!CanDecide
<1>4. CASE S!GrowOld(i)
  <2>. DEFINE v == [proposals[i] EXCEPT !.old = TRUE]
  <2>1. v \in PrRecords
    BY <1>1 DEF PrRecords
  <2>2. proposals' = [proposals EXCEPT ![i] = v]
    BY <1>4 DEF S!GrowOld
  <2>. QED  BY <1>4, <2>1, <2>2 DEF Alters, S!GrowOld
<1>. QED  BY <1>2, <1>3, <1>4

\* No pull request is renumbered, and one that is decided stays as it is.
LEMMA DecidedStays ==
  ASSUME ScoutTypes,
         \/ UNCHANGED proposals
         \/ \E r \in ScoutRuns : Opens(r)
         \/ \E i \in S!Numbers : Alters(i)
  PROVE  /\ S!Numbers \subseteq S!Numbers'
         /\ \A i \in S!Numbers : ~ S!Open(i) => proposals'[i] = proposals[i]
<1>1. CASE UNCHANGED proposals
  BY <1>1 DEF S!Numbers
<1>2. ASSUME NEW r \in ScoutRuns, Opens(r)
      PROVE  /\ S!Numbers \subseteq S!Numbers'
             /\ \A i \in S!Numbers : proposals'[i] = proposals[i]
  <2>. DEFINE v == [title |-> run[r].title, state |-> "open", reason |-> "other", old |-> FALSE]
  <2>1. proposals' = Append(proposals, v)
    BY <1>2 DEF Opens
  <2>. HIDE DEF v
  <2>. QED  BY <2>1, NumbersAre DEF S!Numbers, ScoutTypes
<1>3. ASSUME NEW i \in S!Numbers, Alters(i)
      PROVE  /\ S!Numbers \subseteq S!Numbers'
             /\ \A j \in S!Numbers : ~ S!Open(j) => proposals'[j] = proposals[j]
  BY <1>3 DEF Alters, S!Numbers
<1>. QED  BY <1>1, <1>2, <1>3

\* Every step is one of a run, of a person or the clock, or of an outcome that
\* expires; the last two leave the runs alone.
LEMMA ScoutCases ==
  ASSUME ScoutTypes, S!Next \/ UNCHANGED S!vars
  PROVE  \/ UNCHANGED <<proposals, outcomes, run>>
         \/ \E r \in ScoutRuns : /\ Opens(r) \/ UNCHANGED proposals
                                 /\ \E v \in RunRecords : run' = [run EXCEPT ![r] = v]
         \/ \E i \in S!Numbers : Alters(i)
         \/ (\E k \in DOMAIN outcomes : S!Expire(k)) /\ UNCHANGED <<proposals, run>>
<1>1. CASE UNCHANGED S!vars
  BY <1>1 DEF S!vars
<1>2. ASSUME NEW r \in ScoutRuns,
         \/ S!BeginSync(r) \/ S!SyncFails(r) \/ S!Gather(r)
         \/ \E i \in S!Numbers : S!SyncOne(r, i) \/ S!SkipOne(r, i)
         \/ S!NoProposal(r) \/ \E title \in Titles : S!Propose(r, title)
         \/ S!PassCap(r) \/ S!PassTests(r) \/ S!GateBlocked(r)
         \/ S!OpenPr(r) \/ S!OpenFails(r) \/ S!Cancel(r)
      PROVE  /\ Opens(r) \/ UNCHANGED proposals
             /\ \E v \in RunRecords : run' = [run EXCEPT ![r] = v]
  <2>1. \E v \in RunRecords : run' = [run EXCEPT ![r] = v]
    BY <1>2, RunStep
  <2>2. CASE S!OpenPr(r)
    BY <2>1, <2>2 DEF Opens, S!OpenPr
  <2>3. CASE ~ S!OpenPr(r)
    BY <1>2, <2>1, <2>3 DEF S!BeginSync, S!SyncFails, S!Gather, S!SyncOne, S!SkipOne,
       S!NoProposal, S!Propose, S!PassCap, S!PassTests, S!GateBlocked, S!OpenFails, S!Cancel
  <2>. QED  BY <2>2, <2>3
<1>3. ASSUME NEW i \in S!Numbers, S!Merge(i) \/ S!Close(i) \/ S!GrowOld(i) PROVE Alters(i)
  BY <1>3, DecisionAlters
<1>4. ASSUME NEW k \in DOMAIN outcomes, S!Expire(k) PROVE UNCHANGED <<proposals, run>>
  BY <1>4 DEF S!Expire
<1>. QED  BY <1>1, <1>2, <1>3, <1>4 DEF S!Next

\* The outcomes grow, or one of them expires.
LEMMA OutcomesGrow ==
  ASSUME ScoutTypes, S!Next \/ UNCHANGED S!vars
  PROVE  \/ UNCHANGED outcomes
         \/ \E r \in ScoutRuns, i \in S!Numbers : S!SyncOne(r, i)
         \/ \E k \in DOMAIN outcomes : S!Expire(k)
<1>. QED
  BY DEF S!Next, S!vars, S!BeginSync, S!SyncFails, S!Gather, S!SkipOne, S!NoProposal, S!Propose,
     S!PassCap, S!PassTests, S!GateBlocked, S!OpenPr, S!OpenFails, S!Cancel, S!Merge, S!Close,
     S!GrowOld

\* What an outcome that is recorded looks like.
LEMMA OutcomeTypes ==
  ASSUME ScoutTypes, NEW i \in S!Numbers, S!HasOutcome(i), NEW reason \in S!CloseReasons
  PROVE  S!OutcomeOf(i, reason) \in OutcomeRecords
<1>1. proposals[i] \in PrRecords /\ i \in Nat
  BY NumbersAre
<1>2. proposals[i].state \in {"open", "merged", "closed"}
  BY <1>1 DEF PrRecords
<1>. QED  BY <1>1, <1>2 DEF S!OutcomeOf, S!Open, OutcomeRecords

\* A step of the sync adds one outcome, if there is one.
LEMMA SyncOneAdds ==
  ASSUME ScoutTypes, NEW r \in ScoutRuns, NEW i \in S!Numbers, S!SyncOne(r, i)
  PROVE  \/ ~ S!HasOutcome(i) /\ UNCHANGED outcomes
         \/ \E reason \in S!CloseReasons :
              /\ S!OutcomeOf(i, reason) \in OutcomeRecords
              /\ outcomes' = Append(outcomes, S!OutcomeOf(i, reason))
<1>1. CASE ~ S!HasOutcome(i)
  BY <1>1 DEF S!SyncOne
<1>2. CASE S!HasOutcome(i)
  <2>1. PICK reason \in {proposals[i].reason, "other"} :
           outcomes' = Append(outcomes, S!OutcomeOf(i, reason))
    BY <1>2 DEF S!SyncOne
  <2>2. proposals[i] \in PrRecords
    BY NumbersAre
  <2>3. reason \in S!CloseReasons
    BY <2>1, <2>2 DEF PrRecords, S!CloseReasons
  <2>. QED  BY <1>2, <2>1, <2>3, OutcomeTypes
<1>. QED  BY <1>1, <1>2

\* Every step keeps the shapes.
LEMMA ScoutTypesStep == ScoutTypes /\ [S!Next]_(S!vars) => ScoutTypes'
<1>. SUFFICES ASSUME ScoutTypes, S!Next \/ UNCHANGED S!vars PROVE ScoutTypes'
  OBVIOUS
<1>0. /\ \/ UNCHANGED proposals
         \/ \E r \in ScoutRuns : Opens(r)
         \/ \E i \in S!Numbers : Alters(i)
      /\ \/ UNCHANGED run
         \/ \E r \in ScoutRuns, v \in RunRecords : run' = [run EXCEPT ![r] = v]
  BY ScoutCases DEF Alters
<1>1. run' \in [ScoutRuns -> RunRecords]
  BY <1>0, RunReplaced DEF ScoutTypes
<1>2. proposals' \in Seq(PrRecords)
  <2>1. CASE UNCHANGED proposals
    BY <2>1 DEF ScoutTypes
  <2>2. ASSUME NEW r \in ScoutRuns, Opens(r) PROVE proposals' \in Seq(PrRecords)
    <3>. DEFINE v == [title |-> run[r].title, state |-> "open", reason |-> "other", old |-> FALSE]
    <3>1. run[r] \in RunRecords /\ run[r].step = "open"
      BY <2>2 DEF ScoutTypes, Opens, S!OpenPr
    <3>2. run[r].title \in Titles
      BY <3>1 DEF RunRecords, S!Idle
    <3>3. v \in PrRecords
      BY <3>2 DEF PrRecords, S!CloseReasons
    <3>. HIDE DEF v
    <3>4. Append(proposals, v) \in Seq(PrRecords)
      BY <3>3, AppendProperties DEF ScoutTypes
    <3>. QED  BY <2>2, <3>4 DEF Opens, v
  <2>3. ASSUME NEW i \in S!Numbers, Alters(i) PROVE proposals' \in Seq(PrRecords)
    <3>1. PICK v \in PrRecords : proposals' = [proposals EXCEPT ![i] = v]
      BY <2>3 DEF Alters
    <3>2. proposals \in [1 .. Len(proposals) -> PrRecords] /\ Len(proposals) \in Nat
      BY DEF ScoutTypes
    <3>3. proposals' \in [1 .. Len(proposals) -> PrRecords]
      BY <3>1, <3>2
    <3>. QED  BY <3>2, <3>3, SeqDef
  <2>. QED  BY <1>0, <2>1, <2>2, <2>3
<1>3. outcomes' \in Seq(OutcomeRecords)
  <2>. HIDE DEF OutcomeRecords
  <2>1. outcomes \in Seq(OutcomeRecords)
    BY DEF ScoutTypes
  <2>2. ASSUME NEW r \in ScoutRuns, NEW i \in S!Numbers, S!SyncOne(r, i)
        PROVE  outcomes' \in Seq(OutcomeRecords)
    BY <2>1, <2>2, SyncOneAdds, AppendProperties
  <2>3. ASSUME NEW k \in DOMAIN outcomes, S!Expire(k) PROVE outcomes' \in Seq(OutcomeRecords)
    <3>1. outcomes[k] \in OutcomeRecords
      BY <2>1
    <3>. DEFINE v == [outcomes[k] EXCEPT !.fresh = FALSE]
    <3>2. v \in OutcomeRecords
      BY <3>1 DEF OutcomeRecords
    <3>3. outcomes' = [outcomes EXCEPT ![k] = v]
      BY <2>3 DEF S!Expire
    <3>. HIDE DEF v
    <3>4. outcomes \in [1 .. Len(outcomes) -> OutcomeRecords] /\ Len(outcomes) \in Nat
      BY <2>1
    <3>5. outcomes' \in [1 .. Len(outcomes) -> OutcomeRecords]
      BY <3>2, <3>3, <3>4
    <3>. QED  BY <3>4, <3>5, SeqDef
  <2>. QED  BY <2>1, <2>2, <2>3, OutcomesGrow
<1>. QED  BY <1>1, <1>2, <1>3 DEF ScoutTypes

\* The cap counts as the library does.
LEMMA ScoutCard == \A T : S!Cardinality(T) = Cardinality(T)
BY DEF S!Cardinality, Cardinality

\* The sets that are counted are finite.
LEMMA ScoutFinite ==
  ASSUME ScoutTypes
  PROVE  /\ IsFiniteSet(Opened) /\ IsFiniteSet(PastCap)
         /\ Cardinality(Opened) \in Nat /\ Cardinality(PastCap) \in Nat
         /\ Cardinality(PastCap) <= Cardinality(ScoutRuns) /\ Cardinality(ScoutRuns) \in Nat \ {0}
<1>1. IsFiniteSet(1 .. Len(proposals))
  BY NumbersAre, FS_Interval
<1>2. Opened \subseteq 1 .. Len(proposals)
  BY NumbersAre DEF Opened
<1>3. PastCap \subseteq ScoutRuns
  BY DEF PastCap
<1>4. IsFiniteSet(Opened) /\ IsFiniteSet(PastCap) /\ IsFiniteSet(ScoutRuns)
  BY <1>1, <1>2, <1>3, FS_Subset, ScoutAssumption
<1>5. Cardinality(ScoutRuns) # 0
  BY FS_EmptySet, ScoutAssumption
<1>6. Cardinality(PastCap) <= Cardinality(ScoutRuns)
  BY <1>3, FS_Subset, ScoutAssumption
<1>. QED  BY <1>4, <1>5, <1>6, FS_CardinalityType

\* A run that passes the cap joins those that have; one that opens its pull
\* request leaves them, and every other step leaves both counts or lowers one.
LEMMA CapStep == ScoutTypes /\ CapInv /\ [S!Next]_(S!vars) => CapInv'
<1>. SUFFICES ASSUME ScoutTypes, CapInv, S!Next \/ UNCHANGED S!vars PROVE CapInv'
  OBVIOUS
<1>. DEFINE before == Cardinality(Opened) + Cardinality(PastCap)
<1>a. MaxOpen \in Nat /\ ScoutTypes'
  BY ScoutAssumption, ScoutTypesStep
<1>b. /\ IsFiniteSet(Opened') /\ IsFiniteSet(PastCap')
      /\ Cardinality(Opened') \in Nat /\ Cardinality(PastCap') \in Nat
      /\ Cardinality(PastCap') <= Cardinality(ScoutRuns) /\ Cardinality(ScoutRuns) \in Nat \ {0}
  <2>1. (ScoutTypes => /\ IsFiniteSet(Opened) /\ IsFiniteSet(PastCap)
                       /\ Cardinality(Opened) \in Nat /\ Cardinality(PastCap) \in Nat
                       /\ Cardinality(PastCap) <= Cardinality(ScoutRuns)
                       /\ Cardinality(ScoutRuns) \in Nat \ {0})'
    BY ScoutFinite, PTL
  <2>. QED  BY <2>1, <1>a
<1>c. ASSUME Opened' \subseteq Opened, PastCap' \subseteq PastCap PROVE CapInv'
  <2>1. Cardinality(Opened') <= Cardinality(Opened) /\ Cardinality(PastCap') <= Cardinality(PastCap)
    BY <1>c, ScoutFinite, FS_Subset
  <2>. QED  BY <1>a, <1>b, <2>1, ScoutFinite DEF CapInv
<1>d. UNCHANGED proposals => Opened' = Opened
  BY DEF Opened, S!Numbers, S!Open
<1>e. UNCHANGED run => PastCap' = PastCap
  BY DEF PastCap
<1>1. CASE UNCHANGED S!vars
  BY <1>1, <1>c, <1>d, <1>e DEF S!vars
<1>2. ASSUME NEW r \in ScoutRuns, S!PassCap(r) PROVE CapInv'
  <2>1. Cardinality(Opened) < MaxOpen
    BY <1>2, ScoutCard DEF S!PassCap, S!PrGate, Opened
  <2>2. Opened' = Opened
    BY <1>2, <1>d DEF S!PassCap
  <2>. QED  BY <1>a, <1>b, <2>1, <2>2, ScoutFinite DEF CapInv
<1>3. ASSUME NEW r \in ScoutRuns, S!OpenPr(r) PROVE CapInv'
  <2>. DEFINE v == [title |-> run[r].title, state |-> "open", reason |-> "other", old |-> FALSE]
  <2>1. proposals' = Append(proposals, v) /\ v.state = "open"
    BY <1>3 DEF S!OpenPr
  <2>. HIDE DEF v
  <2>2. Opened' = Opened \cup {Len(proposals) + 1} /\ Len(proposals) + 1 \notin Opened
    BY <2>1, NumbersAre DEF Opened, S!Numbers, S!Open, ScoutTypes
  <2>3. Cardinality(Opened') = Cardinality(Opened) + 1
    BY <2>2, ScoutFinite, FS_AddElement
  <2>4. PastCap' = PastCap \ {r} /\ r \in PastCap
    BY <1>3 DEF PastCap, S!OpenPr, S!End, S!Idle, ScoutTypes
  <2>5. Cardinality(PastCap') = Cardinality(PastCap) - 1
    BY <2>4, ScoutFinite, FS_RemoveElement
  <2>. QED  BY <2>3, <2>5, ScoutFinite, <1>a DEF CapInv
<1>4. ASSUME NEW r \in ScoutRuns,
         \/ S!BeginSync(r) \/ S!SyncFails(r) \/ S!Gather(r)
         \/ \E i \in S!Numbers : S!SyncOne(r, i) \/ S!SkipOne(r, i)
         \/ S!NoProposal(r) \/ \E title \in Titles : S!Propose(r, title)
         \/ S!PassTests(r) \/ S!GateBlocked(r) \/ S!OpenFails(r) \/ S!Cancel(r)
      PROVE CapInv'
  <2>1. UNCHANGED proposals
    BY <1>4 DEF S!BeginSync, S!SyncFails, S!Gather, S!SyncOne, S!SkipOne,
       S!NoProposal, S!Propose, S!PassTests, S!GateBlocked, S!OpenFails, S!Cancel
  <2>2. PICK v \in RunRecords : run' = [run EXCEPT ![r] = v]
    BY <1>4, RunStep
  <2>3. run'[r].step \in {"tests", "open"} => run[r].step = "tests"
    <3>1. run[r] \in RunRecords
      BY DEF ScoutTypes
    <3>2. CASE S!BeginSync(r)
      BY <3>2 DEF S!BeginSync, ScoutTypes
    <3>3. CASE S!SyncFails(r) \/ \E i \in S!Numbers : S!SyncOne(r, i) \/ S!SkipOne(r, i)
      <4>1. run[r] \in [step : {"sync"}, todo : SUBSET Nat, due : SUBSET Nat]
        <5>1. run[r].step = "sync"
          BY <3>3 DEF S!SyncFails, S!SyncOne, S!SkipOne
        <5>. QED  BY <3>1, <5>1 DEF RunRecords, S!Idle
      <4>2. \E T, D : run' = [run EXCEPT ![r] = [run[r] EXCEPT !.todo = T, !.due = D]]
        <5>1. CASE S!SyncFails(r)
          BY <5>1 DEF S!SyncFails
        <5>2. ASSUME NEW i \in S!Numbers, S!SkipOne(r, i)
              PROVE  \E T, D : run' = [run EXCEPT ![r] = [run[r] EXCEPT !.todo = T, !.due = D]]
          BY <5>2 DEF S!SkipOne
        <5>3. ASSUME NEW i \in S!Numbers, S!SyncOne(r, i)
              PROVE  \E T, D : run' = [run EXCEPT ![r] = [run[r] EXCEPT !.todo = T, !.due = D]]
          <6>1. run' = [run EXCEPT ![r] = [run[r] EXCEPT !.todo = @ \ {i}]]
            BY <5>3 DEF S!SyncOne
          <6>2. [run[r] EXCEPT !.todo = @ \ {i}]
                  = [run[r] EXCEPT !.todo = run[r].todo \ {i}, !.due = run[r].due]
            BY <4>1
          <6>. QED  BY <6>1, <6>2
        <5>. QED  BY <3>3, <5>1, <5>2, <5>3
      <4>. QED  BY <4>1, <4>2 DEF ScoutTypes
    <3>4. CASE S!Gather(r)
      BY <3>4 DEF S!Gather, ScoutTypes
    <3>5. CASE \E title \in Titles : S!Propose(r, title)
      BY <3>5 DEF S!Propose, ScoutTypes
    <3>6. CASE S!PassTests(r)
      BY <3>6 DEF S!PassTests
    <3>7. CASE S!NoProposal(r) \/ S!GateBlocked(r) \/ S!OpenFails(r) \/ S!Cancel(r)
      BY <3>7 DEF S!NoProposal, S!GateBlocked, S!OpenFails, S!Cancel, S!End, S!Idle, ScoutTypes
    <3>. QED  BY <1>4, <3>2, <3>3, <3>4, <3>5, <3>6, <3>7
  <2>4. PastCap' \subseteq PastCap
    BY <2>2, <2>3, RunReplaced DEF PastCap, ScoutTypes
  <2>. QED  BY <2>1, <2>4, <1>c, <1>d
<1>5. ASSUME NEW i \in S!Numbers, S!Merge(i) \/ S!Close(i) \/ S!GrowOld(i) PROVE CapInv'
  <2>1. Alters(i)
    BY <1>5, DecisionAlters
  <2>2. Opened' \subseteq Opened
    BY <2>1 DEF Alters, Opened, S!Numbers, S!Open
  <2>. QED  BY <2>1, <2>2, <1>c, <1>e DEF Alters
<1>6. ASSUME NEW k \in DOMAIN outcomes, S!Expire(k) PROVE CapInv'
  BY <1>6, <1>c, <1>d, <1>e DEF S!Expire
<1>. QED
  BY <1>1, <1>2, <1>3, <1>4, <1>5, <1>6 DEF S!Next

\* check_no_open_self_improve_pr counts long before the pull request is opened.
\* However many runs there are and however slow their test suites, the open
\* pull requests exceed the cap by no more than the other runs in flight.
THEOREM OpenIsBounded == PlatformSpec => []OpenBounded
<1>1. PlatformInit => ScoutTypes /\ CapInv
  <2>. SUFFICES ASSUME S!Init PROVE ScoutTypes /\ CapInv
    BY DEF PlatformInit
  <2>1. ScoutTypes
    BY EmptySeq DEF S!Init, ScoutTypes, RunRecords
  <2>2. Opened = {} /\ PastCap = {}
    BY DEF S!Init, Opened, PastCap, S!Numbers, S!Idle
  <2>. QED  BY <2>1, <2>2, FS_EmptySet, ScoutFinite, ScoutAssumption DEF CapInv
<1>2. ScoutTypes /\ CapInv /\ [PlatformNext]_platformVars => (ScoutTypes /\ CapInv)'
  BY ScoutTypesStep, CapStep, ScoutStep
<1>3. ScoutTypes /\ CapInv => OpenBounded
  BY ScoutFinite, ScoutAssumption, ScoutCard DEF CapInv, OpenBounded, S!OpenBounded, Opened
<1>. QED  BY <1>1, <1>2, <1>3, PTL DEF PlatformSpec

-----------------------------------------------------------------------------
(* What the scout proposes.                                                *)

\* An outcome once recorded stays, but for its freshness.
LEMMA OutcomesStay ==
  ASSUME ScoutTypes, S!Next \/ UNCHANGED S!vars, NEW k \in DOMAIN outcomes
  PROVE  /\ k \in DOMAIN outcomes'
         /\ outcomes'[k].pr = outcomes[k].pr
         /\ outcomes'[k].state = outcomes[k].state
         /\ outcomes'[k].reason = outcomes[k].reason
<1>0. outcomes \in Seq(OutcomeRecords) /\ outcomes[k] \in OutcomeRecords
  BY RecordedAre DEF ScoutTypes
<1>1. ASSUME NEW x \in DOMAIN outcomes, S!Expire(x)
      PROVE  /\ k \in DOMAIN outcomes'
             /\ outcomes'[k] = outcomes[k] \/ outcomes'[k] = [outcomes[k] EXCEPT !.fresh = FALSE]
  BY <1>1 DEF S!Expire
<1>2. ASSUME NEW r \in ScoutRuns, NEW i \in S!Numbers, S!SyncOne(r, i)
      PROVE  k \in DOMAIN outcomes' /\ outcomes'[k] = outcomes[k]
  <2>1. CASE UNCHANGED outcomes
    BY <2>1
  <2>2. ASSUME NEW v \in OutcomeRecords, outcomes' = Append(outcomes, v)
        PROVE  k \in DOMAIN outcomes' /\ outcomes'[k] = outcomes[k]
    BY <1>0, <2>2, AppendProperties
  <2>. QED  BY <1>2, <2>1, <2>2, SyncOneAdds
<1>3. [outcomes[k] EXCEPT !.fresh = FALSE].pr = outcomes[k].pr
      /\ [outcomes[k] EXCEPT !.fresh = FALSE].state = outcomes[k].state
      /\ [outcomes[k] EXCEPT !.fresh = FALSE].reason = outcomes[k].reason
  BY <1>0 DEF OutcomeRecords
<1>. QED  BY <1>1, <1>2, <1>3, OutcomesGrow

\* What is settled, recorded or misrecorded stays so.
LEMMA KnowledgeStays ==
  ASSUME ScoutTypes, S!Next \/ UNCHANGED S!vars
  PROVE  /\ \A i \in S!Settled : i \in S!Settled' /\ proposals'[i] = proposals[i]
         /\ S!Recorded \subseteq S!Recorded'
         /\ \A i \in S!Settled : i \in S!Misrecorded => i \in S!Misrecorded'
<1>1. /\ S!Numbers \subseteq S!Numbers'
      /\ \A i \in S!Numbers : ~ S!Open(i) => proposals'[i] = proposals[i]
  BY ScoutCases, DecidedStays
<1>2. \A i \in S!Settled : i \in S!Numbers /\ ~ S!Open(i)
  BY DEF S!Settled, S!Open
<1>3. \A i \in S!Settled : i \in S!Settled' /\ proposals'[i] = proposals[i]
  BY <1>1, <1>2 DEF S!Settled
<1>4. /\ S!Recorded' = {outcomes'[k].pr : k \in DOMAIN outcomes'}
      /\ \A i : i \in S!Misrecorded' <=>
           \E k \in DOMAIN outcomes' :
              /\ outcomes'[k].pr = i
              /\ \/ outcomes'[k].state # proposals'[i].state
                 \/ outcomes'[k].reason # proposals'[i].reason
  <2>1. ScoutTypes'
    BY ScoutTypesStep
  <2>2. (ScoutTypes =>
          /\ S!Recorded = {outcomes[k].pr : k \in DOMAIN outcomes}
          /\ \A i : i \in S!Misrecorded <=>
               \E k \in DOMAIN outcomes :
                  /\ outcomes[k].pr = i
                  /\ \/ outcomes[k].state # proposals[i].state
                     \/ outcomes[k].reason # proposals[i].reason)'
    BY RecordedAre, PTL
  <2>. QED  BY <2>1, <2>2
<1>5. S!Recorded \subseteq S!Recorded'
  BY <1>4, OutcomesStay, RecordedAre
<1>6. ASSUME NEW i \in S!Settled, i \in S!Misrecorded PROVE i \in S!Misrecorded'
  BY <1>3, <1>4, <1>6, OutcomesStay, RecordedAre
<1>. QED  BY <1>3, <1>5, <1>6

\* A run that does not move stays informed.
LEMMA StaysInformed ==
  ASSUME ScoutTypes, S!Next \/ UNCHANGED S!vars, NEW r \in ScoutRuns, Informed(r), run'[r] = run[r]
  PROVE  Informed(r)'
<1>0. S!Idle' = S!Idle
  BY DEF S!Idle
<1>1. run[r] # S!Idle => run[r].due \subseteq S!Settled /\ run[r].due \subseteq S!Settled'
  BY KnowledgeStays DEF Informed
<1>2. run[r].step # "idle" => run[r] # S!Idle
  BY DEF S!Idle
<1>3. run[r].step = "sync" => run[r].due \subseteq run[r].todo \cup S!Recorded'
  BY KnowledgeStays DEF Informed
<1>4. run[r].step = "propose" =>
        \A i \in run[r].due : proposals'[i].title \in run[r].blocked \/ i \in S!Misrecorded'
  BY <1>1, <1>2, KnowledgeStays DEF Informed
<1>5. run[r].step \in {"gates", "tests", "open"} => run[r].due \subseteq S!Misrecorded'
  BY <1>1, <1>2, KnowledgeStays DEF Informed
<1>. QED  BY <1>0, <1>1, <1>3, <1>4, <1>5 DEF Informed

\* A run that ended has nothing to know.
LEMMA EndInformed == ASSUME NEW r \in ScoutRuns, run'[r] = S!Idle PROVE Informed(r)'
BY DEF Informed, S!Idle

\* The steps of the sync: what is settled when the run begins is polled, found
\* recorded, or given up.
LEMMA SyncInformed ==
  ASSUME ScoutTypes, DueInv, NEW r \in ScoutRuns,
         \/ S!BeginSync(r) \/ S!SyncFails(r)
         \/ \E i \in S!Numbers : S!SyncOne(r, i) \/ S!SkipOne(r, i)
  PROVE  Informed(r)'
<1>0. S!Next /\ run[r] \in RunRecords /\ Informed(r)
  BY DEF S!Next, ScoutTypes, DueInv
<1>1. CASE S!BeginSync(r)
  <2>1. PICK tracked \in SUBSET S!Numbers, listed \in {S!Listed, {}}, read \in {S!Read(SyncRead), {}} :
          run'[r] = [step |-> "sync", todo |-> (tracked \cup listed) \ S!PrsOf(read),
                     due |-> S!Settled \cap (listed \cup S!Recorded)]
    BY <1>1 DEF S!BeginSync, ScoutTypes
  <2>2. UNCHANGED <<proposals, outcomes>>
    BY <1>1 DEF S!BeginSync
  <2>3. S!Settled' = S!Settled /\ S!Recorded' = S!Recorded
    BY <2>2 DEF S!Settled, S!Recorded, S!Read, S!PrsOf, S!Numbers
  <2>4. S!PrsOf(read) \subseteq S!Recorded
    BY ReadIsRecorded DEF S!PrsOf
  <2>5. /\ run'[r].step = "sync"
        /\ run'[r].todo = (tracked \cup listed) \ S!PrsOf(read)
        /\ run'[r].due = S!Settled \cap (listed \cup S!Recorded)
    BY <2>1
  <2>. QED  BY <2>3, <2>4, <2>5 DEF Informed
<1>2. ASSUME run[r].step = "sync" PROVE run[r] \in [step : {"sync"}, todo : SUBSET Nat, due : SUBSET Nat]
  BY <1>0, <1>2 DEF RunRecords, S!Idle
<1>3. ASSUME run[r].step = "sync" PROVE /\ run[r].due \subseteq S!Settled
                                        /\ run[r].due \subseteq run[r].todo \cup S!Recorded
  BY <1>0, <1>3 DEF Informed, S!Idle
<1>4. ASSUME NEW T \in SUBSET Nat, NEW D \in SUBSET Nat, run[r].step = "sync",
             run'[r] = [run[r] EXCEPT !.todo = T, !.due = D],
             D \subseteq run[r].due, D \subseteq T \cup S!Recorded'
      PROVE  Informed(r)'
  <2>1. run'[r].step = "sync" /\ run'[r].todo = T /\ run'[r].due = D
    BY <1>2, <1>4
  <2>2. D \subseteq S!Settled'
    BY <1>0, <1>3, <1>4, KnowledgeStays
  <2>. QED  BY <1>4, <2>1, <2>2 DEF Informed
<1>5. CASE S!SyncFails(r)
  <2>1. run[r].step = "sync" /\ run'[r] = [run[r] EXCEPT !.todo = {}, !.due = run[r].due \cap S!Recorded]
    BY <1>5 DEF S!SyncFails, ScoutTypes
  <2>2. S!Recorded' = S!Recorded
    BY <1>5 DEF S!SyncFails, S!Recorded, S!Read, S!PrsOf
  <2>. DEFINE D == run[r].due \cap S!Recorded
  <2>3. {} \in SUBSET Nat /\ D \in SUBSET Nat /\ D \subseteq run[r].due /\ D \subseteq {} \cup S!Recorded'
    BY <1>2, <2>1, <2>2
  <2>4. run'[r] = [run[r] EXCEPT !.todo = {}, !.due = D]
    BY <2>1
  <2>. HIDE DEF D
  <2>. QED  BY <1>4, <2>1, <2>3, <2>4
<1>6. ASSUME NEW i \in S!Numbers, S!SkipOne(r, i) PROVE Informed(r)'
  <2>1. run[r].step = "sync" /\ run'[r] = [run[r] EXCEPT !.todo = run[r].todo \ {i}, !.due = run[r].due \ {i}]
    BY <1>6 DEF S!SkipOne, ScoutTypes
  <2>2. S!Recorded' = S!Recorded
    BY <1>6 DEF S!SkipOne, S!Recorded, S!Read, S!PrsOf
  <2>. DEFINE T == run[r].todo \ {i}
              D == run[r].due \ {i}
  <2>3. T \in SUBSET Nat /\ D \in SUBSET Nat /\ D \subseteq run[r].due /\ D \subseteq T \cup S!Recorded'
    BY <1>2, <1>3, <2>1, <2>2
  <2>4. run'[r] = [run[r] EXCEPT !.todo = T, !.due = D]
    BY <2>1
  <2>. HIDE DEF T, D
  <2>. QED  BY <1>4, <2>1, <2>3, <2>4
<1>7. ASSUME NEW i \in S!Numbers, S!SyncOne(r, i) PROVE Informed(r)'
  <2>1. run[r].step = "sync" /\ run'[r] = [run[r] EXCEPT !.todo = run[r].todo \ {i}]
    BY <1>7 DEF S!SyncOne, ScoutTypes
  <2>2. run'[r] = [run[r] EXCEPT !.todo = run[r].todo \ {i}, !.due = run[r].due]
    BY <1>2, <2>1
  <2>3. i \in run[r].due => i \in S!Recorded'
    <3>1. SUFFICES ASSUME i \in run[r].due PROVE i \in S!Recorded'
      OBVIOUS
    <3>2. ~ S!Open(i)
      BY <1>3, <2>1, <3>1 DEF S!Settled, S!Open
    <3>3. PICK reason \in S!CloseReasons :
             /\ S!OutcomeOf(i, reason) \in OutcomeRecords
             /\ outcomes' = Append(outcomes, S!OutcomeOf(i, reason))
      BY <1>7, <3>2, SyncOneAdds DEF S!HasOutcome
    <3>. DEFINE n == Len(outcomes) + 1
    <3>4. n \in DOMAIN outcomes' /\ outcomes'[n].pr = i
      <4>1. S!OutcomeOf(i, reason).pr = i
        BY DEF S!OutcomeOf
      <4>. QED  BY <3>3, <4>1, AppendProperties DEF ScoutTypes
    <3>5. S!Recorded' = {outcomes'[k].pr : k \in DOMAIN outcomes'}
      <4>1. ScoutTypes'
        BY <1>0, ScoutTypesStep
      <4>2. (ScoutTypes => S!Recorded = {outcomes[k].pr : k \in DOMAIN outcomes})'
        BY RecordedAre, PTL
      <4>. QED  BY <4>1, <4>2
    <3>. QED  BY <3>4, <3>5
  <2>4. run[r].due \subseteq (run[r].todo \ {i}) \cup S!Recorded'
    BY <1>0, <1>3, <2>1, <2>3, KnowledgeStays
  <2>. QED  BY <1>2, <1>4, <2>1, <2>2, <2>4
<1>. QED  BY <1>1, <1>5, <1>6, <1>7

\* Reading the outcomes blocks the titles of what is recorded as it is.
LEMMA GatherInformed ==
  ASSUME ScoutTypes, DueInv, NEW r \in ScoutRuns, S!Gather(r)
  PROVE  Informed(r)'
<1>0. run[r] \in RunRecords /\ Informed(r) /\ run[r].step = "sync" /\ run[r].todo = {}
  BY DEF S!Gather, ScoutTypes, DueInv
<1>1. UNCHANGED <<proposals, outcomes>>
  BY DEF S!Gather
<1>2. /\ S!Settled' = S!Settled /\ S!Misrecorded' = S!Misrecorded /\ S!Idle' = S!Idle
      /\ S!Recorded' = S!Recorded
  BY <1>1 DEF S!Settled, S!Misrecorded, S!Recorded, S!Read, S!PrsOf, S!Numbers, S!Idle
<1>3. run[r].due \subseteq S!Settled /\ run[r].due \subseteq S!Recorded
  BY <1>0 DEF Informed, S!Idle
<1>. DEFINE seen == S!Read(OutcomesRead)
<1>4. \/ run'[r] = [step |-> "propose", blocked |-> S!Blocked(seen), due |-> run[r].due \ S!Overtaken]
      \/ run'[r] = [step |-> "propose", blocked |-> {}, due |-> {}]
  BY DEF S!Gather, ScoutTypes
<1>5. ASSUME NEW i \in run[r].due \ S!Overtaken
      PROVE  proposals[i].title \in S!Blocked(seen) \/ i \in S!Misrecorded
  <2>1. PICK o \in seen : o.pr = i
    BY <1>3, <1>5 DEF S!Overtaken, S!PrsOf
  <2>2. SUFFICES ASSUME i \notin S!Misrecorded PROVE proposals[i].title \in S!Blocked(seen)
    OBVIOUS
  <2>3. o.state = proposals[i].state /\ o.reason = proposals[i].reason
    BY <2>1, <2>2, ReadIsRecorded DEF S!Misrecorded, S!PrsOf
  <2>4. i \in S!Settled
    BY <1>3, <1>5
  <2>5. proposals[i].title \in Titles
    BY <2>4, NumbersAre DEF S!Settled, PrRecords
  <2>6. S!Blocks(o, proposals[i].title)
    BY <2>1, <2>3, <2>4 DEF S!Blocks, S!Settled
  <2>. QED  BY <2>1, <2>5, <2>6 DEF S!Blocked
<1>. HIDE DEF seen
<1>6. run'[r].step = "propose" /\ run'[r].due \subseteq run[r].due
  BY <1>4
<1>7. run'[r].due \subseteq S!Settled'
  BY <1>2, <1>3, <1>6
<1>8. \A i \in run'[r].due : proposals'[i].title \in run'[r].blocked \/ i \in S!Misrecorded'
  <2>1. CASE run'[r] = [step |-> "propose", blocked |-> S!Blocked(seen), due |-> run[r].due \ S!Overtaken]
    BY <1>1, <1>2, <1>5, <2>1
  <2>2. CASE run'[r] = [step |-> "propose", blocked |-> {}, due |-> {}]
    BY <2>2
  <2>. QED  BY <1>4, <2>1, <2>2
<1>. QED  BY <1>6, <1>7, <1>8 DEF Informed

\* A title that is not blocked leaves only what was misrecorded.
LEMMA ProposeInformed ==
  ASSUME ScoutTypes, DueInv, NEW r \in ScoutRuns, NEW title \in Titles, S!Propose(r, title)
  PROVE  Informed(r)'
<1>0. Informed(r) /\ run[r].step = "propose" /\ title \notin run[r].blocked
  BY DEF S!Propose, DueInv
<1>1. UNCHANGED <<proposals, outcomes>>
  BY DEF S!Propose
<1>2. S!Settled' = S!Settled /\ S!Misrecorded' = S!Misrecorded
  BY <1>1 DEF S!Settled, S!Misrecorded, S!Read, S!PrsOf, S!Numbers
<1>3. run[r].due \subseteq S!Settled
  BY <1>0 DEF Informed, S!Idle
<1>4. run'[r] = [step |-> "gates", title |-> title,
                 due |-> {i \in run[r].due : proposals[i].title = title}]
  BY DEF S!Propose, ScoutTypes
<1>5. run'[r].step = "gates" /\ run'[r].due = {i \in run[r].due : proposals[i].title = title}
  BY <1>4
<1>6. run'[r].due \subseteq S!Misrecorded
  BY <1>0, <1>5 DEF Informed
<1>. QED  BY <1>2, <1>3, <1>5, <1>6 DEF Informed

\* The gates change nothing of it.
LEMMA GatesInformed ==
  ASSUME ScoutTypes, DueInv, NEW r \in ScoutRuns, S!PassCap(r) \/ S!PassTests(r)
  PROVE  Informed(r)'
<1>0. run[r] \in RunRecords /\ Informed(r) /\ run[r].step \in {"gates", "tests"}
  BY DEF S!PassCap, S!PassTests, ScoutTypes, DueInv
<1>1. UNCHANGED <<proposals, outcomes>>
  BY DEF S!PassCap, S!PassTests
<1>2. S!Settled' = S!Settled /\ S!Misrecorded' = S!Misrecorded
  BY <1>1 DEF S!Settled, S!Misrecorded, S!Read, S!PrsOf, S!Numbers
<1>3. run[r].due \subseteq S!Settled /\ run[r].due \subseteq S!Misrecorded
  BY <1>0 DEF Informed, S!Idle
<1>4. run[r] \in [step : {"gates", "tests", "open"}, title : Titles, due : SUBSET Nat]
  BY <1>0 DEF RunRecords, S!Idle
<1>5. \E v \in {"tests", "open"} : run'[r] = [run[r] EXCEPT !.step = v]
  BY DEF S!PassCap, S!PassTests, ScoutTypes
<1>6. run'[r].step \in {"tests", "open"} /\ run'[r].due = run[r].due
  BY <1>4, <1>5
<1>. QED  BY <1>2, <1>3, <1>6 DEF Informed

\* Every step keeps every run informed.
LEMMA DueStep == ScoutTypes /\ DueInv /\ [S!Next]_(S!vars) => DueInv'
<1>. SUFFICES ASSUME ScoutTypes, DueInv, S!Next \/ UNCHANGED S!vars, NEW x \in ScoutRuns
              PROVE  Informed(x)'
  BY DEF DueInv
<1>1. CASE run'[x] = run[x]
  BY <1>1, StaysInformed DEF DueInv
<1>2. CASE run'[x] # run[x]
  <2>1. ASSUME NEW r \in ScoutRuns, NEW v \in RunRecords, run' = [run EXCEPT ![r] = v]
        PROVE  x = r
    BY <1>2, <2>1 DEF ScoutTypes
  <2>2. ASSUME NEW r \in ScoutRuns,
           \/ S!BeginSync(r) \/ S!SyncFails(r)
           \/ \E i \in S!Numbers : S!SyncOne(r, i) \/ S!SkipOne(r, i)
        PROVE Informed(x)'
    BY <2>1, <2>2, RunStep, SyncInformed
  <2>3. ASSUME NEW r \in ScoutRuns, S!Gather(r) PROVE Informed(x)'
    BY <2>1, <2>3, RunStep, GatherInformed
  <2>4. ASSUME NEW r \in ScoutRuns, NEW title \in Titles, S!Propose(r, title) PROVE Informed(x)'
    BY <2>1, <2>4, RunStep, ProposeInformed
  <2>5. ASSUME NEW r \in ScoutRuns, S!PassCap(r) \/ S!PassTests(r) PROVE Informed(x)'
    BY <2>1, <2>5, RunStep, GatesInformed
  <2>6. ASSUME NEW r \in ScoutRuns,
           \/ S!NoProposal(r) \/ S!GateBlocked(r) \/ S!OpenPr(r) \/ S!OpenFails(r) \/ S!Cancel(r)
        PROVE  Informed(x)'
    <3>1. x = r
      BY <2>1, <2>6, RunStep
    <3>2. run'[r] = S!Idle
      BY <2>6 DEF S!NoProposal, S!GateBlocked, S!OpenPr, S!OpenFails, S!Cancel, S!End, ScoutTypes
    <3>. QED  BY <3>1, <3>2, EndInformed
  <2>7. ~ (UNCHANGED run)
    BY <1>2
  <2>8. \E r \in ScoutRuns :
           \/ S!BeginSync(r) \/ S!SyncFails(r) \/ S!Gather(r)
           \/ \E i \in S!Numbers : S!SyncOne(r, i) \/ S!SkipOne(r, i)
           \/ S!NoProposal(r) \/ \E title \in Titles : S!Propose(r, title)
           \/ S!PassCap(r) \/ S!PassTests(r) \/ S!GateBlocked(r)
           \/ S!OpenPr(r) \/ S!OpenFails(r) \/ S!Cancel(r)
    BY <2>7 DEF S!Next, S!vars, S!Merge, S!Close, S!GrowOld, S!Expire
  <2>. QED  BY <2>2, <2>3, <2>4, <2>5, <2>6, <2>8
<1>. QED  BY <1>1, <1>2

\* sync_proposal_outcomes and proposal_blocked_by_outcome: whatever runs, people
\* and failing calls come between and whatever the limits of the listings, a run
\* opens no pull request for what was merged or closed as a duplicate before it
\* began and was then listed or recorded, unless a poll, a query or a log of its
\* own failed on it, OutcomesRead other outcomes were recorded since, or an
\* earlier sync recorded it wrongly.
THEOREM SettledIsNotReproposed == PlatformSpec => NeverReproposed
<1>1. PlatformInit => ScoutTypes /\ DueInv
  <2>. SUFFICES ASSUME S!Init PROVE ScoutTypes /\ DueInv
    BY DEF PlatformInit
  <2>1. ScoutTypes
    BY EmptySeq DEF S!Init, ScoutTypes, RunRecords
  <2>2. DueInv
    BY DEF S!Init, DueInv, Informed, S!Idle
  <2>. QED  BY <2>1, <2>2
<1>2. ScoutTypes /\ DueInv /\ [PlatformNext]_platformVars => (ScoutTypes /\ DueInv)'
  BY ScoutTypesStep, DueStep, ScoutStep
<1>3. ScoutTypes /\ DueInv /\ [PlatformNext]_platformVars
        => [S!Reproposed \subseteq S!Misrecorded]_(S!vars)
  <2>. SUFFICES ASSUME ScoutTypes, DueInv, S!Next, NEW x \in ScoutRuns,
                       proposals' # proposals, run[x] # S!Idle, run'[x] = S!Idle
                PROVE  run[x].due \subseteq S!Misrecorded
    BY ScoutStep DEF S!Reproposed
  <2>1. PICK r \in ScoutRuns : Opens(r)
    BY ScoutCases DEF Alters
  <2>2. x = r
    BY <2>1 DEF Opens, S!OpenPr, S!End, ScoutTypes
  <2>. QED  BY <2>1, <2>2 DEF Opens, S!OpenPr, DueInv, Informed
<1>. QED  BY <1>1, <1>2, <1>3, PTL DEF PlatformSpec, NeverReproposed, S!NeverReproposed

-----------------------------------------------------------------------------
(* The skill files.                                                        *)

FileRecords == [id : Nat, status : {"absent"} \cup C!Statuses]
FileTrees == [Skills -> FileRecords]
ReqRecords == {C!Idle} \cup [step : {"verify", "checkout", "commit", "push"}, skill : Skills,
                             file : FileRecords, branch : Nat]
PostRecords == {C!Idle} \cup [step : {"post", "park"}, skill : Skills, id : Nat,
                              status : C!Statuses, try : Nat]
SkillPrs == [deploy : Nat, branch : Nat, base : FileTrees, tip : FileTrees]

\* The shapes of the catalog's state.
CatalogTypes ==
  /\ pod \in FileTrees /\ main \in FileTrees
  /\ base \in [branch : Nat, tree : FileTrees]
  /\ tips \in Seq(FileTrees) /\ Len(tips) > 0
  /\ prs \subseteq SkillPrs
  /\ req \in [Requests -> ReqRecords]
  /\ \A q \in Requests : req[q].step = "push" => req[q].branch \in 1 .. Len(tips)
  /\ \A q \in Requests : req[q].step = "commit" => req[q].branch \in 1 .. Len(tips)
  /\ post \in PostRecords
  /\ drafts \in Nat /\ deploys \in Nat

\* What may be in use: what was reviewed, and what no draft status held back.
Cleared == reviewed \cup unmarked
InUse(f) == f.status \in {"active", "deprecated", "none"}
TreeReviewed(t) == \A s \in Skills : InUse(t[s]) => t[s].id \in Cleared

\* What is in use anywhere it may come from has been cleared: in the pod, on
\* main, on a branch of the checkout and in a pull request.
CatalogReviewed ==
  /\ TreeReviewed(pod) /\ TreeReviewed(main)
  /\ \A k \in 1 .. Len(tips) : TreeReviewed(tips[k])
  /\ \A p \in prs : TreeReviewed(p.tip)

\* A tree with one file replaced by a cleared one holds cleared ones.
LEMMA TreePut ==
  ASSUME NEW t \in FileTrees, NEW s \in Skills, NEW f \in FileRecords,
         NEW old, NEW new, old \subseteq new,
         \A x \in Skills : InUse(t[x]) => t[x].id \in old,
         InUse(f) => f.id \in new
  PROVE  /\ [t EXCEPT ![s] = f] \in FileTrees
         /\ \A x \in Skills : InUse([t EXCEPT ![s] = f][x]) => [t EXCEPT ![s] = f][x].id \in new
BY DEF FileTrees

\* What is reviewed stays so: a step that adds no file keeps the trees it keeps.
LEMMA TreeKept ==
  ASSUME NEW t, TreeReviewed(t), Cleared \subseteq Cleared'
  PROVE  \A x \in Skills : InUse(t[x]) => t[x].id \in Cleared'
BY DEF TreeReviewed

\* The steps of a draft: what a model wrote is in use only if it is not marked a draft.
LEMMA DraftsKeep ==
  ASSUME CatalogTypes, CatalogReviewed,
         \/ \E s \in Skills : C!LearnHere(s) \/ C!Draft(s)
         \/ C!PortalSaves \/ C!PortalRefuses \/ C!Park
  PROVE  CatalogTypes' /\ CatalogReviewed'
<1>0. UNCHANGED <<main, tips, base, prs, req, reviewed, deploys>> /\ Cleared \subseteq Cleared'
  BY DEF C!LearnHere, C!Draft, C!PortalSaves, C!PortalRefuses, C!Park, C!Write, Cleared
<1>1. /\ main' \in FileTrees
      /\ base' \in [branch : Nat, tree : FileTrees]
      /\ tips' \in Seq(FileTrees) /\ Len(tips') > 0
      /\ prs' \subseteq SkillPrs
      /\ req' \in [Requests -> ReqRecords]
      /\ \A q \in Requests : req'[q].step = "push" => req'[q].branch \in 1 .. Len(tips')
      /\ \A q \in Requests : req'[q].step = "commit" => req'[q].branch \in 1 .. Len(tips')
      /\ deploys' \in Nat
  BY <1>0 DEF CatalogTypes
<1>2. /\ TreeReviewed(main)'
      /\ \A k \in 1 .. Len(tips') : TreeReviewed(tips[k])'
      /\ \A p \in prs' : TreeReviewed(p.tip)'
  BY <1>0 DEF CatalogReviewed, TreeReviewed, InUse
<1>3. ASSUME NEW s \in Skills, NEW id \in Nat, NEW status \in C!Statuses, C!Write(s, id, status)
      PROVE  pod' \in FileTrees /\ TreeReviewed(pod)'
  <2>. DEFINE f == [id |-> id, status |-> status]
  <2>1. f \in FileRecords /\ (InUse(f) => f.id \in Cleared')
    BY <1>3 DEF FileRecords, InUse, C!Write, Cleared
  <2>2. pod' = [pod EXCEPT ![s] = f]
    BY <1>3 DEF C!Write
  <2>3. pod \in FileTrees /\ \A x \in Skills : InUse(pod[x]) => pod[x].id \in Cleared
    BY DEF CatalogTypes, CatalogReviewed, TreeReviewed
  <2>. HIDE DEF f
  <2>4. /\ [pod EXCEPT ![s] = f] \in FileTrees
        /\ \A x \in Skills : InUse([pod EXCEPT ![s] = f][x]) => [pod EXCEPT ![s] = f][x].id \in Cleared'
    BY <1>0, <2>1, <2>3, TreePut
  <2>. QED  BY <1>0, <2>2, <2>4 DEF TreeReviewed, InUse
<1>4. UNCHANGED pod => pod' \in FileTrees /\ TreeReviewed(pod)'
  BY <1>0 DEF CatalogTypes, CatalogReviewed, TreeReviewed, InUse
<1>5. ASSUME post \in PostRecords, post # C!Idle
      PROVE  post \in [step : {"post", "park"}, skill : Skills, id : Nat, status : C!Statuses, try : Nat]
  BY <1>5 DEF PostRecords
<1>6. post \in PostRecords /\ C!Idle \in PostRecords /\ drafts \in Nat
  BY DEF CatalogTypes, PostRecords
<1>7. ASSUME NEW s \in Skills, C!LearnHere(s)
      PROVE  /\ pod' \in FileTrees /\ TreeReviewed(pod)'
             /\ post' \in PostRecords /\ drafts' \in Nat
  BY <1>3, <1>6, <1>7 DEF C!LearnHere
<1>8. ASSUME NEW s \in Skills, C!Draft(s)
      PROVE  /\ UNCHANGED pod
             /\ post' \in PostRecords /\ drafts' \in Nat
  BY <1>6, <1>8 DEF C!Draft, PostRecords
<1>9. CASE C!PortalSaves
  <2>1. post.step = "post" /\ C!Write(post.skill, post.id, post.status) /\ drafts' = drafts
    BY <1>9 DEF C!PortalSaves
  <2>2. post \in [step : {"post", "park"}, skill : Skills, id : Nat, status : C!Statuses, try : Nat]
    BY <1>5, <1>6, <2>1 DEF C!Idle
  <2>3. pod' \in FileTrees /\ TreeReviewed(pod)'
    BY <1>3, <2>1, <2>2
  <2>4. post' \in PostRecords
    BY <1>6, <1>9, <2>2 DEF C!PortalSaves, C!Fallback, PostRecords
  <2>. QED  BY <1>1, <1>2, <1>6, <2>1, <2>3, <2>4 DEF CatalogTypes, CatalogReviewed
<1>10. CASE C!PortalRefuses \/ C!Park
  <2>1. UNCHANGED <<pod, drafts>>
    BY <1>10 DEF C!PortalRefuses, C!Park
  <2>2. CASE C!PortalRefuses
    <3>1. post \in [step : {"post", "park"}, skill : Skills, id : Nat, status : C!Statuses, try : Nat]
      BY <1>5, <1>6, <2>2 DEF C!Idle, C!PortalRefuses
    <3>2. post' \in PostRecords
      BY <2>2, <3>1 DEF C!PortalRefuses, C!Fallback, PostRecords
    <3>. QED  BY <1>1, <1>2, <1>4, <1>6, <2>1, <3>2 DEF CatalogTypes, CatalogReviewed
  <2>3. CASE C!Park
    <3>1. post' \in PostRecords
      BY <1>6, <2>3 DEF C!Park
    <3>. QED  BY <1>1, <1>2, <1>4, <1>6, <2>1, <3>1 DEF CatalogTypes, CatalogReviewed
  <2>. QED  BY <1>10, <2>2, <2>3
<1>11. CASE \E s \in Skills : C!LearnHere(s) \/ C!Draft(s)
  BY <1>1, <1>2, <1>4, <1>7, <1>8, <1>11 DEF CatalogTypes, CatalogReviewed
<1>. QED  BY <1>9, <1>10, <1>11

\* How one request's record is replaced.
LEMMA ReqReplaced ==
  ASSUME CatalogTypes, NEW q \in Requests, NEW v \in ReqRecords, req' = [req EXCEPT ![q] = v],
         Len(tips') >= Len(tips), Len(tips') \in Nat,
         v.step \in {"commit", "push"} => v.branch \in 1 .. Len(tips')
  PROVE  /\ req' \in [Requests -> ReqRecords]
         /\ \A x \in Requests : req'[x].step = "push" => req'[x].branch \in 1 .. Len(tips')
         /\ \A x \in Requests : req'[x].step = "commit" => req'[x].branch \in 1 .. Len(tips')
<1>1. req \in [Requests -> ReqRecords] /\ Len(tips) \in Nat
  BY DEF CatalogTypes
<1>2. req' \in [Requests -> ReqRecords] /\ req'[q] = v
  BY <1>1
<1>3. ASSUME NEW x \in Requests, x # q, req'[x].step \in {"commit", "push"}
      PROVE  req'[x].branch \in 1 .. Len(tips')
  <2>1. req'[x] = req[x]
    BY <1>1, <1>3
  <2>2. req[x].branch \in 1 .. Len(tips)
    BY <1>3, <2>1 DEF CatalogTypes
  <2>. QED  BY <1>1, <2>1, <2>2
<1>. QED  BY <1>2, <1>3

\* A request that is not idle has a skill, a file and a branch.
LEMMA ReqBusy ==
  ASSUME CatalogTypes, NEW q \in Requests, req[q].step # "idle"
  PROVE  req[q] \in [step : {"verify", "checkout", "commit", "push"}, skill : Skills,
                     file : FileRecords, branch : Nat]
<1>1. req[q] \in ReqRecords
  BY DEF CatalogTypes
<1>. QED  BY <1>1 DEF ReqRecords, C!Idle

\* The steps of a decision: what is put in use passed the review just now, or
\* was in use before.
LEMMA DecisionsKeep ==
  ASSUME CatalogTypes, CatalogReviewed, NEW q \in Requests,
         \/ \E s \in Skills : C!Review(q, s) \/ C!Deprecate(q, s)
         \/ C!Activate(q) \/ C!Block(q)
  PROVE  CatalogTypes' /\ CatalogReviewed'
<1>0. UNCHANGED <<main, tips, base, prs, post, drafts, deploys>> /\ Cleared \subseteq Cleared'
  BY DEF C!Review, C!Deprecate, C!Activate, C!Block, Cleared
<1>1. /\ main' \in FileTrees
      /\ base' \in [branch : Nat, tree : FileTrees]
      /\ tips' \in Seq(FileTrees) /\ Len(tips') > 0
      /\ prs' \subseteq SkillPrs
      /\ post' \in PostRecords
      /\ drafts' \in Nat /\ deploys' \in Nat
  BY <1>0 DEF CatalogTypes
<1>2. /\ TreeReviewed(main)'
      /\ \A k \in 1 .. Len(tips') : TreeReviewed(tips[k])'
      /\ \A p \in prs' : TreeReviewed(p.tip)'
  BY <1>0 DEF CatalogReviewed, TreeReviewed, InUse
<1>3. Len(tips') = Len(tips) /\ Len(tips) \in Nat /\ C!Idle \in ReqRecords /\ C!Idle.step = "idle"
  BY <1>0 DEF CatalogTypes, ReqRecords, C!Idle
<1>4. UNCHANGED pod => pod' \in FileTrees /\ TreeReviewed(pod)'
  BY <1>0 DEF CatalogTypes, CatalogReviewed, TreeReviewed, InUse
<1>5. ASSUME NEW v \in ReqRecords, req' = [req EXCEPT ![q] = v], v.step \notin {"commit", "push"},
             pod' \in FileTrees, TreeReviewed(pod)'
      PROVE  CatalogTypes' /\ CatalogReviewed'
  <2>1. /\ req' \in [Requests -> ReqRecords]
        /\ \A x \in Requests : req'[x].step = "push" => req'[x].branch \in 1 .. Len(tips')
        /\ \A x \in Requests : req'[x].step = "commit" => req'[x].branch \in 1 .. Len(tips')
    <3>1. Len(tips') >= Len(tips) /\ Len(tips') \in Nat
      BY <1>3
    <3>. QED  BY <1>5, <3>1, ReqReplaced
  <2>. QED  BY <1>1, <1>2, <1>5, <2>1 DEF CatalogTypes, CatalogReviewed
<1>6. ASSUME NEW s \in Skills, NEW f \in FileRecords, C!Decide(q, s, f), InUse(f) => f.id \in Cleared'
      PROVE  CatalogTypes' /\ CatalogReviewed'
  <2>. DEFINE v == [step |-> "checkout", skill |-> s, file |-> f, branch |-> 0]
  <2>1. v \in ReqRecords /\ v.step \notin {"commit", "push"}
    BY DEF ReqRecords
  <2>2. req' = [req EXCEPT ![q] = v] /\ pod' = [pod EXCEPT ![s] = f]
    BY <1>6 DEF C!Decide
  <2>. HIDE DEF v
  <2>3. pod \in FileTrees /\ \A x \in Skills : InUse(pod[x]) => pod[x].id \in Cleared
    BY DEF CatalogTypes, CatalogReviewed, TreeReviewed
  <2>4. /\ [pod EXCEPT ![s] = f] \in FileTrees
        /\ \A x \in Skills : InUse([pod EXCEPT ![s] = f][x]) => [pod EXCEPT ![s] = f][x].id \in Cleared'
    BY <1>0, <1>6, <2>3, TreePut
  <2>5. pod' \in FileTrees /\ TreeReviewed(pod)'
    BY <2>2, <2>4 DEF TreeReviewed, InUse
  <2>. QED  BY <1>5, <2>1, <2>2, <2>5
<1>7. ASSUME NEW s \in Skills, C!Review(q, s) PROVE CatalogTypes' /\ CatalogReviewed'
  <2>. DEFINE v == [step |-> "verify", skill |-> s, file |-> pod[s], branch |-> 0]
  <2>1. v \in ReqRecords /\ v.step \notin {"commit", "push"}
    BY DEF ReqRecords, CatalogTypes, FileTrees
  <2>2. req' = [req EXCEPT ![q] = v] /\ UNCHANGED pod
    BY <1>7 DEF C!Review
  <2>. HIDE DEF v
  <2>. QED  BY <1>4, <1>5, <2>1, <2>2
<1>8. ASSUME NEW s \in Skills, C!Deprecate(q, s) PROVE CatalogTypes' /\ CatalogReviewed'
  <2>. DEFINE f == [pod[s] EXCEPT !.status = "deprecated"]
  <2>1. pod[s] \in FileRecords /\ pod[s].status = "active"
    BY <1>8 DEF CatalogTypes, FileTrees, C!Deprecate
  <2>2. f \in FileRecords /\ f.id = pod[s].id
    BY <2>1 DEF FileRecords, C!Statuses
  <2>3. InUse(f) => pod[s].id \in Cleared'
    BY <1>0, <2>1 DEF CatalogReviewed, TreeReviewed, InUse
  <2>4. C!Decide(q, s, f)
    BY <1>8 DEF C!Deprecate
  <2>. HIDE DEF f
  <2>. QED  BY <1>6, <2>2, <2>3, <2>4
<1>9. CASE C!Activate(q)
  <2>. DEFINE f == [req[q].file EXCEPT !.status = "active"]
  <2>1. req[q].file \in FileRecords /\ req[q].skill \in Skills
    BY <1>9, ReqBusy DEF C!Activate
  <2>2. f \in FileRecords /\ f.id = req[q].file.id
    BY <2>1 DEF FileRecords, C!Statuses
  <2>3. C!Decide(q, req[q].skill, f) /\ req[q].file.id \in Cleared'
    BY <1>9 DEF C!Activate, Cleared
  <2>. HIDE DEF f
  <2>. QED  BY <1>6, <2>1, <2>2, <2>3
<1>10. CASE C!Block(q)
  <2>1. req' = [req EXCEPT ![q] = C!Idle] /\ UNCHANGED pod
    BY <1>10 DEF C!Block
  <2>. QED  BY <1>3, <1>4, <1>5, <2>1
<1>. QED  BY <1>7, <1>8, <1>9, <1>10

\* The steps of git: a branch begins as the last one, and a commit adds a file
\* of the pod.
LEMMA GitKeeps ==
  ASSUME CatalogTypes, CatalogReviewed, NEW q \in Requests,
         C!Checkout(q) \/ C!Commit(q) \/ C!Propose(q) \/ C!PersistFails(q)
  PROVE  CatalogTypes' /\ CatalogReviewed'
<1>0. UNCHANGED <<pod, main, base, Cleared, post, drafts, deploys>>
  BY DEF C!Checkout, C!Commit, C!Propose, C!PersistFails, Cleared
<1>1. /\ pod' \in FileTrees /\ main' \in FileTrees
      /\ base' \in [branch : Nat, tree : FileTrees]
      /\ post' \in PostRecords
      /\ drafts' \in Nat /\ deploys' \in Nat
  BY <1>0 DEF CatalogTypes
<1>2. TreeReviewed(pod)' /\ TreeReviewed(main)'
  BY <1>0 DEF CatalogReviewed, TreeReviewed, InUse
<1>3. /\ tips \in Seq(FileTrees) /\ Len(tips) \in Nat \ {0}
      /\ \A k \in 1 .. Len(tips) : tips[k] \in FileTrees
      /\ C!Idle \in ReqRecords /\ C!Idle.step = "idle"
  BY DEF CatalogTypes, ReqRecords, C!Idle
<1>4. req[q] \in [step : {"verify", "checkout", "commit", "push"}, skill : Skills,
                  file : FileRecords, branch : Nat]
  BY ReqBusy DEF C!Checkout, C!Commit, C!Propose, C!PersistFails
<1>5. UNCHANGED tips => /\ tips' \in Seq(FileTrees) /\ Len(tips') > 0
                        /\ \A k \in 1 .. Len(tips') : TreeReviewed(tips[k])'
  BY <1>0 DEF CatalogTypes, CatalogReviewed, TreeReviewed, InUse
<1>6. UNCHANGED prs => prs' \subseteq SkillPrs /\ \A p \in prs' : TreeReviewed(p.tip)'
  BY <1>0 DEF CatalogTypes, CatalogReviewed, TreeReviewed, InUse
<1>7. ASSUME NEW v \in ReqRecords, req' = [req EXCEPT ![q] = v],
             tips' \in Seq(FileTrees), Len(tips') >= Len(tips),
             v.step \in {"commit", "push"} => v.branch \in 1 .. Len(tips'),
             \A k \in 1 .. Len(tips') : TreeReviewed(tips[k])',
             prs' \subseteq SkillPrs, \A p \in prs' : TreeReviewed(p.tip)'
      PROVE  CatalogTypes' /\ CatalogReviewed'
  <2>1. Len(tips') \in Nat /\ Len(tips') > 0
    BY <1>3, <1>7
  <2>2. /\ req' \in [Requests -> ReqRecords]
        /\ \A x \in Requests : req'[x].step = "push" => req'[x].branch \in 1 .. Len(tips')
        /\ \A x \in Requests : req'[x].step = "commit" => req'[x].branch \in 1 .. Len(tips')
    BY <1>7, <2>1, ReqReplaced
  <2>. QED  BY <1>1, <1>2, <1>7, <2>1, <2>2 DEF CatalogTypes, CatalogReviewed
<1>8. CASE C!Checkout(q)
  <2>. DEFINE v == [req[q] EXCEPT !.step = "commit", !.branch = Len(tips) + 1]
              t == tips[Len(tips)]
  <2>1. req' = [req EXCEPT ![q] = v] /\ tips' = Append(tips, t) /\ UNCHANGED prs
    BY <1>8 DEF C!Checkout, C!Current
  <2>2. v \in ReqRecords /\ v.branch = Len(tips) + 1
    <3>. DEFINE n == Len(tips) + 1
    <3>1. n \in Nat
      BY <1>3
    <3>. HIDE DEF n
    <3>2. /\ [req[q] EXCEPT !.step = "commit", !.branch = n]
               \in [step : {"verify", "checkout", "commit", "push"}, skill : Skills,
                   file : FileRecords, branch : Nat]
          /\ [req[q] EXCEPT !.step = "commit", !.branch = n].branch = n
      BY <1>4, <3>1
    <3>. QED  BY <3>2 DEF ReqRecords, n
  <2>3. t \in FileTrees /\ TreeReviewed(t)
    BY <1>3 DEF CatalogReviewed
  <2>. HIDE DEF v, t
  <2>4. /\ tips' \in Seq(FileTrees) /\ Len(tips') = Len(tips) + 1
        /\ \A k \in 1 .. Len(tips) : tips'[k] = tips[k]
        /\ tips'[Len(tips) + 1] = t
    BY <1>3, <2>1, <2>3, AppendProperties
  <2>5. ASSUME NEW k \in 1 .. Len(tips') PROVE TreeReviewed(tips[k])'
    <3>1. TreeReviewed(tips'[k])
      BY <1>3, <2>3, <2>4 DEF CatalogReviewed
    <3>. QED  BY <1>0, <3>1 DEF TreeReviewed, InUse
  <2>6. v.branch \in 1 .. Len(tips') /\ Len(tips') >= Len(tips)
    BY <1>3, <2>2, <2>4
  <2>. QED  BY <1>6, <1>7, <2>1, <2>2, <2>4, <2>5, <2>6
<1>9. CASE C!Commit(q)
  <2>. DEFINE v == [req[q] EXCEPT !.step = "push"]
              s == req[q].skill
              n == Len(tips)
              t == [tips[n] EXCEPT ![s] = pod[s]]
  <2>1. req' = [req EXCEPT ![q] = v] /\ tips' = [tips EXCEPT ![n] = t] /\ UNCHANGED prs
    BY <1>9 DEF C!Commit, C!Current
  <2>2. v \in ReqRecords /\ v.branch = req[q].branch
    BY <1>3, <1>4 DEF ReqRecords
  <2>3. req[q].branch \in 1 .. Len(tips)
    BY <1>9 DEF C!Commit, CatalogTypes
  <2>4. s \in Skills /\ pod[s] \in FileRecords /\ (InUse(pod[s]) => pod[s].id \in Cleared)
    BY <1>4 DEF CatalogTypes, CatalogReviewed, TreeReviewed, FileTrees
  <2>5. tips[n] \in FileTrees /\ \A x \in Skills : InUse(tips[n][x]) => tips[n][x].id \in Cleared
    BY <1>3 DEF CatalogReviewed, TreeReviewed
  <2>. HIDE DEF v, s, n
  <2>6. t \in FileTrees /\ TreeReviewed(t)
    BY <2>4, <2>5, TreePut DEF TreeReviewed
  <2>. HIDE DEF t
  <2>7. tips' \in [1 .. Len(tips) -> FileTrees] /\ DOMAIN tips' = 1 .. Len(tips)
    <3>1. tips \in [1 .. Len(tips) -> FileTrees]
      BY <1>3
    <3>2. n \in 1 .. Len(tips)
      BY <1>3 DEF n
    <3>. QED  BY <2>1, <2>6, <3>1, <3>2
  <2>8. tips' \in Seq(FileTrees) /\ Len(tips') = Len(tips)
    BY <1>3, <2>7, SeqDef
  <2>9. ASSUME NEW k \in 1 .. Len(tips') PROVE TreeReviewed(tips[k])'
    <3>0. k \in 1 .. Len(tips) /\ (tips'[k] = t \/ tips'[k] = tips[k])
      BY <1>3, <2>1, <2>8
    <3>1. TreeReviewed(tips'[k])
      BY <2>6, <3>0 DEF CatalogReviewed
    <3>. QED  BY <1>0, <3>1 DEF TreeReviewed, InUse
  <2>10. v.branch \in 1 .. Len(tips') /\ Len(tips') >= Len(tips)
    BY <1>3, <2>2, <2>3, <2>8
  <2>. QED  BY <1>6, <1>7, <2>1, <2>2, <2>8, <2>9, <2>10
<1>10. CASE C!Propose(q)
  <2>1. req' = [req EXCEPT ![q] = C!Idle] /\ UNCHANGED tips
    BY <1>10 DEF C!Propose, C!Report
  <2>2. req[q].branch \in 1 .. Len(tips)
    BY <1>10 DEF C!Propose, CatalogTypes
  <2>. DEFINE p == [deploy |-> deploys, branch |-> req[q].branch, base |-> base.tree,
                    tip |-> tips[req[q].branch]]
  <2>3. prs' = prs \cup {p}
    BY <1>10 DEF C!Propose
  <2>4. p \in SkillPrs /\ TreeReviewed(p.tip)
    BY <1>3, <2>2 DEF SkillPrs, CatalogTypes, CatalogReviewed
  <2>5. prs' \subseteq SkillPrs /\ \A x \in prs' : TreeReviewed(x.tip)
    BY <2>3, <2>4 DEF CatalogTypes, CatalogReviewed
  <2>6. \A x \in prs' : TreeReviewed(x.tip)'
    BY <1>0, <2>5 DEF TreeReviewed, InUse
  <2>7. tips' \in Seq(FileTrees) /\ Len(tips') >= Len(tips)
    BY <1>3, <2>1
  <2>. QED  BY <1>3, <1>5, <1>7, <2>1, <2>5, <2>6, <2>7
<1>11. CASE C!PersistFails(q)
  <2>1. req' = [req EXCEPT ![q] = C!Idle] /\ UNCHANGED <<tips, prs>>
    BY <1>11 DEF C!PersistFails, C!Report
  <2>2. tips' \in Seq(FileTrees) /\ Len(tips') >= Len(tips)
    BY <1>3, <2>1
  <2>. QED  BY <1>3, <1>5, <1>6, <1>7, <2>1, <2>2
<1>. QED  BY <1>8, <1>9, <1>10, <1>11

\* The steps of people and of the cluster: main takes files of a pull request,
\* a new pod those of main.
LEMMA PeopleKeep ==
  ASSUME CatalogTypes, CatalogReviewed,
         (\E pr \in prs : C!Merge(pr) \/ C!Close(pr)) \/ C!Redeploy
  PROVE  CatalogTypes' /\ CatalogReviewed'
<1>0. UNCHANGED <<Cleared, post, drafts>>
  BY DEF C!Merge, C!Close, C!Redeploy, Cleared
<1>1. post' \in PostRecords /\ drafts' \in Nat
  BY <1>0 DEF CatalogTypes
<1>2. /\ UNCHANGED pod => pod' \in FileTrees /\ TreeReviewed(pod)'
      /\ UNCHANGED main => main' \in FileTrees /\ TreeReviewed(main)'
      /\ UNCHANGED tips => /\ tips' \in Seq(FileTrees) /\ Len(tips') > 0
                           /\ \A k \in 1 .. Len(tips') : TreeReviewed(tips[k])'
      /\ UNCHANGED prs => prs' \subseteq SkillPrs /\ \A p \in prs' : TreeReviewed(p.tip)'
  BY <1>0 DEF CatalogTypes, CatalogReviewed, TreeReviewed, InUse
<1>3. UNCHANGED <<req, tips>> =>
        /\ req' \in [Requests -> ReqRecords]
        /\ \A x \in Requests : req'[x].step = "push" => req'[x].branch \in 1 .. Len(tips')
        /\ \A x \in Requests : req'[x].step = "commit" => req'[x].branch \in 1 .. Len(tips')
  BY DEF CatalogTypes
<1>4. ASSUME NEW pr \in prs, C!Merge(pr) PROVE CatalogTypes' /\ CatalogReviewed'
  <2>0. UNCHANGED <<pod, tips, req, deploys>>
    BY <1>4 DEF C!Merge
  <2>1. pr \in SkillPrs /\ TreeReviewed(pr.tip)
    BY DEF CatalogTypes, CatalogReviewed
  <2>2. pr.tip \in FileTrees /\ pr.branch \in Nat
    BY <2>1 DEF SkillPrs
  <2>3. \E changed \in SUBSET Skills :
           main' = [s \in Skills |-> IF s \in changed THEN pr.tip[s] ELSE main[s]]
    <3>. DEFINE changed == {s \in Skills : pr.tip[s] # pr.base[s]}
    <3>1. changed \in SUBSET Skills
      OBVIOUS
    <3>2. main' = [s \in Skills |-> IF s \in changed THEN pr.tip[s] ELSE main[s]]
      BY <1>4 DEF C!Merge
    <3>. QED  BY <3>1, <3>2
  <2>4. main' \in FileTrees /\ TreeReviewed(main)'
    BY <1>0, <2>1, <2>2, <2>3 DEF CatalogTypes, CatalogReviewed, TreeReviewed, InUse, FileTrees
  <2>5. base' \in [branch : Nat, tree : FileTrees]
    BY <1>4, <2>2 DEF C!Merge, CatalogTypes
  <2>6. ASSUME NEW p \in prs'
        PROVE  p \in SkillPrs /\ TreeReviewed(p.tip)
    <3>1. PICK x \in prs : p = [x EXCEPT !.base = IF x.deploy = pr.deploy THEN pr.tip ELSE @]
      BY <1>4, <2>6 DEF C!Merge
    <3>2. x \in SkillPrs /\ TreeReviewed(x.tip)
      BY DEF CatalogTypes, CatalogReviewed
    <3>3. p \in SkillPrs /\ p.tip = x.tip
      BY <2>2, <3>1, <3>2 DEF SkillPrs
    <3>. QED  BY <3>2, <3>3
  <2>7. prs' \subseteq SkillPrs /\ \A p \in prs' : TreeReviewed(p.tip)'
    BY <1>0, <2>6 DEF TreeReviewed, InUse
  <2>8. deploys' \in Nat
    BY <2>0 DEF CatalogTypes
  <2>. QED  BY <1>1, <1>2, <1>3, <2>0, <2>4, <2>5, <2>7, <2>8 DEF CatalogTypes, CatalogReviewed
<1>5. ASSUME NEW pr \in prs, C!Close(pr) PROVE CatalogTypes' /\ CatalogReviewed'
  <2>0. UNCHANGED <<pod, main, tips, base, req, deploys>> /\ prs' \subseteq prs
    BY <1>5 DEF C!Close
  <2>1. prs' \subseteq SkillPrs /\ \A p \in prs' : TreeReviewed(p.tip)'
    BY <1>0, <2>0 DEF CatalogTypes, CatalogReviewed, TreeReviewed, InUse
  <2>2. deploys' \in Nat /\ base' \in [branch : Nat, tree : FileTrees]
    BY <2>0 DEF CatalogTypes
  <2>. QED  BY <1>1, <1>2, <1>3, <2>0, <2>1, <2>2 DEF CatalogTypes, CatalogReviewed
<1>6. CASE C!Redeploy
  <2>0. /\ pod' = main /\ tips' = <<main>> /\ base' = [branch |-> 1, tree |-> main]
        /\ req' = [q \in Requests |-> C!Idle] /\ deploys' = deploys + 1
        /\ UNCHANGED <<main, prs>>
    BY <1>6 DEF C!Redeploy
  <2>1. main \in FileTrees /\ TreeReviewed(main) /\ deploys' \in Nat
    BY <2>0 DEF CatalogTypes, CatalogReviewed
  <2>2. pod' \in FileTrees /\ TreeReviewed(pod)'
    BY <1>0, <2>0, <2>1 DEF TreeReviewed, InUse
  <2>3. tips' \in Seq(FileTrees) /\ Len(tips') = 1 /\ tips'[1] = main
    BY <2>0, <2>1
  <2>4. \A k \in 1 .. Len(tips') : TreeReviewed(tips[k])'
    BY <1>0, <2>1, <2>3 DEF TreeReviewed, InUse
  <2>5. base' \in [branch : Nat, tree : FileTrees]
    BY <2>0, <2>1
  <2>6. /\ req' \in [Requests -> ReqRecords]
        /\ \A x \in Requests : req'[x].step = "idle"
    BY <2>0 DEF ReqRecords, C!Idle
  <2>. QED  BY <1>1, <1>2, <2>0, <2>1, <2>2, <2>3, <2>4, <2>5, <2>6 DEF CatalogTypes, CatalogReviewed
<1>. QED  BY <1>4, <1>5, <1>6

\* The first image has shipped what it holds.
LEMMA CatalogInit == PlatformInit => CatalogTypes /\ CatalogReviewed
<1>. SUFFICES ASSUME C!Init PROVE CatalogTypes /\ CatalogReviewed
  BY DEF PlatformInit
<1>1. main \in FileTrees /\ reviewed = {0} /\ \A s \in Skills : main[s].id = 0
  BY DEF C!Init, FileTrees, FileRecords, C!Absent, C!Statuses
<1>2. /\ pod = main /\ tips = <<main>> /\ base = [branch |-> 1, tree |-> main] /\ prs = {}
      /\ drafts = 0 /\ deploys = 0 /\ post = C!Idle
  BY DEF C!Init
<1>3. /\ req \in [Requests -> ReqRecords]
      /\ \A x \in Requests : req[x].step = "idle"
  BY DEF C!Init, ReqRecords, C!Idle
<1>4. tips \in Seq(FileTrees) /\ Len(tips) = 1 /\ tips[1] = main
  BY <1>1, <1>2
<1>5. base \in [branch : Nat, tree : FileTrees]
  BY <1>1, <1>2
<1>6. CatalogTypes
  BY <1>1, <1>2, <1>3, <1>4, <1>5 DEF CatalogTypes, PostRecords
<1>7. TreeReviewed(main)
  BY <1>1 DEF TreeReviewed, Cleared
<1>. QED  BY <1>2, <1>4, <1>6, <1>7 DEF CatalogReviewed

\* Every step of the catalog keeps the shapes, and what is in use reviewed.
LEMMA CatalogKept ==
  CatalogTypes /\ CatalogReviewed /\ [PlatformNext]_platformVars => (CatalogTypes /\ CatalogReviewed)'
<1>. SUFFICES ASSUME CatalogTypes, CatalogReviewed, C!Next \/ UNCHANGED C!vars
              PROVE  CatalogTypes' /\ CatalogReviewed'
  BY CatalogStep
<1>1. CASE UNCHANGED C!vars
  BY <1>1 DEF C!vars, CatalogTypes, CatalogReviewed, TreeReviewed, InUse, Cleared
<1>2. CASE C!Next
  BY <1>2, DraftsKeep, DecisionsKeep, GitKeeps, PeopleKeep DEF C!Next
<1>. QED  BY <1>1, <1>2

\* activate_skill_route: although drafts are written over files under review,
\* requests share one checkout, pull requests carry files into main and pods
\* are replaced, whatever status a model writes, the scan generates from no file
\* that did not ship, pass verify_skill as it stands, or come from the model
\* without the draft status generate_skill asks for and nothing enforces.
THEOREM ScanUsesReviewed == PlatformSpec => []ScanIsReviewed
<1>1. CatalogReviewed => ScanIsReviewed
  BY DEF CatalogReviewed, TreeReviewed, InUse, Cleared, ScanIsReviewed, C!ScanIsReviewed, C!Matches
<1>. QED  BY CatalogInit, CatalogKept, <1>1, PTL DEF PlatformSpec

-----------------------------------------------------------------------------
(* The decisions on skills.                                                *)

\* A decision that is kept track of is what the pod's file holds.
FlipInv ==
  /\ flip \in FileTrees
  /\ \A s \in Skills : flip[s] # C!NoDecision => flip[s] = pod[s]

Ours(p) == p.deploy = deploys
OnBranch(q) == req[q].step \in {"commit", "push"}

\* A branch belongs to one request: none is proposed, merged or used by another
\* while its request has not pushed it.
BranchInv ==
  /\ base.branch \in 1 .. Len(tips)
  /\ \A p \in prs : p.deploy <= deploys /\ (Ours(p) => p.branch \in base.branch .. Len(tips))
  /\ \A q \in Requests : OnBranch(q) =>
       /\ req[q].branch # base.branch
       /\ \A p \in prs : Ours(p) => p.branch # req[q].branch
       /\ \A r \in Requests : r # q /\ OnBranch(r) => req[r].branch # req[q].branch

\* The decision is on branch b and on every later one, here, proposed or merged.
HeldFrom(s, b) ==
  /\ \A c \in b .. Len(tips) : tips[c][s] = flip[s]
  /\ \A p \in prs : Ours(p) /\ p.branch >= b => p.tip[s] = flip[s]
  /\ base.branch >= b => base.tree[s] = flip[s]
Pushing(s, b) == \E q \in Requests : req[q].step = "push" /\ req[q].skill = s /\ req[q].branch = b
Proposed(b) == \E p \in prs : Ours(p) /\ p.branch >= b
Traced(s, b) == HeldFrom(s, b) /\ (Pushing(s, b) \/ Proposed(b) \/ base.branch >= b)
Pending(s) == \E q \in Requests : req[q].step \in {"checkout", "commit"} /\ req[q].skill = s

\* Where a decision is that its author was not warned of.
DecisionInv ==
  \A s \in Skills : flip[s] # C!NoDecision /\ s \notin warned =>
    Pending(s) \/ \E b \in 1 .. Len(tips) : Traced(s, b)

\* A decision that can be traced is safe from a redeploy.
LEMMA TracedIsSafe == ASSUME BranchInv, DecisionInv PROVE NoSilentRevert
<1>. SUFFICES ASSUME NEW s \in Skills, flip[s] # C!NoDecision, main[s] = base.tree[s], s \notin warned,
                     main[s] # flip[s], \A p \in prs : p.tip[s] # flip[s]
              PROVE  \E q \in Requests : req[q] # C!Idle /\ req[q].step # "verify" /\ req[q].skill = s
  BY DEF NoSilentRevert, C!NoSilentRevert
<1>1. \A q \in Requests : req[q].step \in {"checkout", "commit", "push"}
                            => req[q] # C!Idle /\ req[q].step # "verify"
  BY DEF C!Idle
<1>2. CASE Pending(s)
  BY <1>1, <1>2 DEF Pending
<1>3. ASSUME NEW b \in 1 .. Len(tips), Traced(s, b)
      PROVE  \E q \in Requests : req[q] # C!Idle /\ req[q].step # "verify" /\ req[q].skill = s
  <2>1. ~ Proposed(b) /\ ~ (base.branch >= b)
    BY <1>3 DEF Traced, HeldFrom, Proposed
  <2>2. Pushing(s, b)
    BY <1>3, <2>1 DEF Traced
  <2>. QED  BY <1>1, <2>2 DEF Pushing
<1>. QED  BY <1>2, <1>3 DEF DecisionInv

\* A step that leaves the checkout and the pull requests alone keeps the
\* decisions it does not make, drop or report, and the requests about them.
LEMMA QuietKeeps ==
  ASSUME BranchInv, DecisionInv, UNCHANGED <<tips, prs, base, deploys>>,
         \A q \in Requests : OnBranch(q)' => req'[q] = req[q],
         \A s \in Skills :
           \/ flip'[s] = C!NoDecision \/ s \in warned' \/ Pending(s)'
           \/ /\ flip'[s] = flip[s] /\ s \notin warned
              /\ \A q \in Requests : req[q].step \in {"checkout", "commit", "push"} /\ req[q].skill = s
                                       => req'[q] = req[q]
  PROVE  BranchInv' /\ DecisionInv'
<1>1. BranchInv'
  <2>1. ASSUME NEW q \in Requests, OnBranch(q)' PROVE OnBranch(q) /\ req'[q] = req[q]
    BY <2>1 DEF OnBranch
  <2>. QED  BY <2>1 DEF BranchInv, Ours
<1>2. ASSUME NEW s \in Skills, flip'[s] # C!NoDecision, s \notin warned', ~ Pending(s)'
      PROVE  \E b \in 1 .. Len(tips') : Traced(s, b)'
  <2>1. /\ flip'[s] = flip[s] /\ s \notin warned
        /\ \A q \in Requests : req[q].step \in {"checkout", "commit", "push"} /\ req[q].skill = s
                                 => req'[q] = req[q]
    BY <1>2
  <2>2. ~ Pending(s)
    BY <1>2, <2>1 DEF Pending
  <2>3. PICK b \in 1 .. Len(tips) : Traced(s, b)
    BY <1>2, <2>1, <2>2 DEF DecisionInv
  <2>4. HeldFrom(s, b)'
    BY <2>1, <2>3 DEF Traced, HeldFrom, Ours
  <2>5. Pushing(s, b) => Pushing(s, b)'
    BY <2>1 DEF Pushing
  <2>6. Proposed(b) => Proposed(b)'
    BY DEF Proposed, Ours
  <2>7. Traced(s, b)'
    BY <2>3, <2>4, <2>5, <2>6 DEF Traced
  <2>. QED  BY <2>7
<1>. QED  BY <1>1, <1>2 DEF DecisionInv

\* A draft written over a file ends what was decided of it.
LEMMA DraftsTraced ==
  ASSUME CatalogTypes, FlipInv, BranchInv, DecisionInv,
         \/ \E s \in Skills : C!LearnHere(s) \/ C!Draft(s)
         \/ C!PortalSaves \/ C!PortalRefuses \/ C!Park
  PROVE  FlipInv' /\ BranchInv' /\ DecisionInv'
<1>0. UNCHANGED <<tips, prs, base, deploys, req, warned>>
  BY DEF C!LearnHere, C!Draft, C!PortalSaves, C!PortalRefuses, C!Park
<1>1. \/ UNCHANGED <<pod, flip>>
      \/ \E s, id, status : C!Write(s, id, status)
  BY DEF C!LearnHere, C!Draft, C!PortalSaves, C!PortalRefuses, C!Park
<1>2. /\ flip' \in FileTrees
      /\ \A x \in Skills : flip'[x] = C!NoDecision \/ (flip'[x] = flip[x] /\ pod'[x] = pod[x])
  <2>1. CASE UNCHANGED <<pod, flip>>
    BY <2>1 DEF FlipInv
  <2>2. ASSUME NEW s, NEW id, NEW status, C!Write(s, id, status)
        PROVE  /\ flip' \in FileTrees
               /\ \A x \in Skills : flip'[x] = C!NoDecision \/ (flip'[x] = flip[x] /\ pod'[x] = pod[x])
    <3>1. C!NoDecision \in FileRecords
      BY DEF C!NoDecision, C!Absent, FileRecords
    <3>2. flip' = [flip EXCEPT ![s] = C!NoDecision] /\ pod' = [pod EXCEPT ![s] = [id |-> id, status |-> status]]
      BY <2>2 DEF C!Write
    <3>3. flip \in [Skills -> FileRecords] /\ pod \in [Skills -> FileRecords]
      BY DEF FlipInv, CatalogTypes, FileTrees
    <3>4. flip' \in [Skills -> FileRecords]
      BY <3>1, <3>2, <3>3
    <3>5. ASSUME NEW x \in Skills
          PROVE  flip'[x] = C!NoDecision \/ (flip'[x] = flip[x] /\ pod'[x] = pod[x])
      BY <3>2, <3>3
    <3>. QED  BY <3>4, <3>5 DEF FileTrees
  <2>. QED  BY <1>1, <2>1, <2>2
<1>3. FlipInv'
  BY <1>2 DEF FlipInv, C!NoDecision, C!Absent
<1>4. \A q \in Requests : OnBranch(q)' => req'[q] = req[q]
  BY <1>0
<1>5. \A s \in Skills :
        \/ flip'[s] = C!NoDecision \/ s \in warned' \/ Pending(s)'
        \/ /\ flip'[s] = flip[s] /\ s \notin warned
           /\ \A q \in Requests : req[q].step \in {"checkout", "commit", "push"} /\ req[q].skill = s
                                    => req'[q] = req[q]
  BY <1>0, <1>2
<1>. QED  BY <1>0, <1>3, <1>4, <1>5, QuietKeeps

\* A decision begins its way at once; a review decides nothing.
LEMMA DecisionsTraced ==
  ASSUME CatalogTypes, FlipInv, BranchInv, DecisionInv, NEW q \in Requests,
         \/ \E s \in Skills : C!Review(q, s) \/ C!Deprecate(q, s)
         \/ C!Activate(q) \/ C!Block(q)
  PROVE  FlipInv' /\ BranchInv' /\ DecisionInv'
<1>0. /\ UNCHANGED <<tips, prs, base, deploys>>
      /\ req[q].step \notin {"checkout", "commit", "push"}
      /\ req \in [Requests -> ReqRecords]
  <2>1. UNCHANGED <<tips, prs, base, deploys>> /\ (req[q] = C!Idle \/ req[q].step = "verify")
    BY DEF C!Review, C!Deprecate, C!Activate, C!Block
  <2>2. req[q].step \notin {"checkout", "commit", "push"}
    BY <2>1 DEF C!Idle
  <2>. QED  BY <2>1, <2>2 DEF CatalogTypes
<1>1. ASSUME NEW v, req' = [req EXCEPT ![q] = v], v.step \notin {"commit", "push"},
             UNCHANGED <<flip, warned>> \/ (\E s \in Skills, f \in FileRecords : C!Decide(q, s, f))
      PROVE  BranchInv' /\ DecisionInv'
  <2>1. req'[q] = v /\ \A x \in Requests : x # q => req'[x] = req[x]
    BY <1>0, <1>1
  <2>2. \A x \in Requests : OnBranch(x)' => req'[x] = req[x]
    BY <1>1, <2>1 DEF OnBranch
  <2>3. \A x \in Requests : req[x].step \in {"checkout", "commit", "push"} => req'[x] = req[x]
    BY <1>0, <2>1
  <2>4. ASSUME NEW s \in Skills
        PROVE  \/ flip'[s] = C!NoDecision \/ s \in warned' \/ Pending(s)'
               \/ /\ flip'[s] = flip[s] /\ s \notin warned
                  /\ \A x \in Requests : req[x].step \in {"checkout", "commit", "push"} /\ req[x].skill = s
                                           => req'[x] = req[x]
    <3>1. CASE UNCHANGED <<flip, warned>>
      BY <1>1, <2>3, <3>1
    <3>2. ASSUME NEW z \in Skills, NEW f \in FileRecords, C!Decide(q, z, f)
          PROVE  Pending(s)' \/ (flip'[s] = flip[s] /\ (s \in warned <=> s \in warned'))
      <4>1. /\ flip' = [flip EXCEPT ![z] = f] /\ warned' = warned \ {z}
            /\ req' = [req EXCEPT ![q] = [step |-> "checkout", skill |-> z, file |-> f, branch |-> 0]]
        BY <3>2 DEF C!Decide
      <4>2. CASE s = z
        <5>1. req'[q].step = "checkout" /\ req'[q].skill = s
          BY <1>0, <4>1, <4>2
        <5>. QED  BY <5>1 DEF Pending
      <4>3. CASE s # z
        BY <4>1, <4>3 DEF FlipInv, FileTrees
      <4>. QED  BY <4>2, <4>3
    <3>. QED  BY <1>1, <2>3, <3>1, <3>2
  <2>. QED  BY <1>0, <2>2, <2>4, QuietKeeps
<1>2. ASSUME NEW s \in Skills, NEW f \in FileRecords, C!Decide(q, s, f)
      PROVE  FlipInv' /\ BranchInv' /\ DecisionInv'
  <2>. DEFINE v == [step |-> "checkout", skill |-> s, file |-> f, branch |-> 0]
  <2>1. /\ pod' = [pod EXCEPT ![s] = f] /\ flip' = [flip EXCEPT ![s] = f]
        /\ req' = [req EXCEPT ![q] = v] /\ v.step \notin {"commit", "push"}
        /\ warned' = warned \ {s}
    BY <1>2 DEF C!Decide
  <2>. HIDE DEF v
  <2>2. flip \in [Skills -> FileRecords] /\ pod \in [Skills -> FileRecords]
    BY DEF FlipInv, CatalogTypes, FileTrees
  <2>3. FlipInv'
    <3>1. flip' \in [Skills -> FileRecords]
      BY <2>1, <2>2
    <3>2. ASSUME NEW x \in Skills, flip'[x] # C!NoDecision PROVE flip'[x] = pod'[x]
      BY <2>1, <2>2, <3>2 DEF FlipInv
    <3>. QED  BY <3>1, <3>2 DEF FlipInv, FileTrees, C!NoDecision, C!Absent
  <2>. QED  BY <1>1, <1>2, <2>1, <2>3
<1>3. ASSUME NEW s \in Skills, C!Review(q, s) PROVE FlipInv' /\ BranchInv' /\ DecisionInv'
  <2>. DEFINE v == [step |-> "verify", skill |-> s, file |-> pod[s], branch |-> 0]
  <2>1. /\ req' = [req EXCEPT ![q] = v] /\ v.step \notin {"commit", "push"}
        /\ UNCHANGED <<pod, flip, warned>>
    BY <1>3 DEF C!Review
  <2>. HIDE DEF v
  <2>2. FlipInv'
    BY <2>1 DEF FlipInv
  <2>. QED  BY <1>1, <2>1, <2>2
<1>4. ASSUME NEW s \in Skills, C!Deprecate(q, s) PROVE FlipInv' /\ BranchInv' /\ DecisionInv'
  <2>1. [pod[s] EXCEPT !.status = "deprecated"] \in FileRecords
    BY DEF CatalogTypes, FileTrees, FileRecords, C!Statuses
  <2>. QED  BY <1>2, <1>4, <2>1 DEF C!Deprecate
<1>5. CASE C!Activate(q)
  <2>1. req[q].file \in FileRecords /\ req[q].skill \in Skills
    BY <1>5, ReqBusy DEF C!Activate
  <2>2. [req[q].file EXCEPT !.status = "active"] \in FileRecords
    BY <2>1 DEF FileRecords, C!Statuses
  <2>. QED  BY <1>2, <1>5, <2>1, <2>2 DEF C!Activate
<1>6. CASE C!Block(q)
  <2>1. req' = [req EXCEPT ![q] = C!Idle] /\ UNCHANGED <<pod, flip, warned>>
    BY <1>6 DEF C!Block
  <2>2. C!Idle.step \notin {"commit", "push"}
    BY DEF C!Idle
  <2>3. FlipInv'
    BY <2>1 DEF FlipInv
  <2>. QED  BY <1>1, <2>1, <2>2, <2>3
<1>. QED  BY <1>3, <1>4, <1>5, <1>6

\* What a failure interrupts, its author is told of.
LEMMA FailureTraced ==
  ASSUME CatalogTypes, FlipInv, BranchInv, DecisionInv, NEW q \in Requests, C!PersistFails(q)
  PROVE  FlipInv' /\ BranchInv' /\ DecisionInv'
<1>1. /\ UNCHANGED <<tips, prs, base, deploys, pod, flip>>
      /\ req' = [req EXCEPT ![q] = C!Idle] /\ warned' = warned \cup {req[q].skill}
      /\ req \in [Requests -> ReqRecords]
  BY DEF C!PersistFails, C!Report, CatalogTypes
<1>2. req'[q].step = "idle" /\ \A x \in Requests : x # q => req'[x] = req[x]
  BY <1>1 DEF C!Idle
<1>3. \A x \in Requests : OnBranch(x)' => req'[x] = req[x]
  BY <1>2 DEF OnBranch
<1>4. ASSUME NEW s \in Skills
      PROVE  \/ flip'[s] = C!NoDecision \/ s \in warned' \/ Pending(s)'
             \/ /\ flip'[s] = flip[s] /\ s \notin warned
                /\ \A x \in Requests : req[x].step \in {"checkout", "commit", "push"} /\ req[x].skill = s
                                         => req'[x] = req[x]
  BY <1>1, <1>2
<1>5. FlipInv'
  BY <1>1 DEF FlipInv
<1>. QED  BY <1>1, <1>3, <1>4, <1>5, QuietKeeps

\* A new branch begins as the last one, which holds what the earlier ones hold.
LEMMA CheckoutTraced ==
  ASSUME CatalogTypes, FlipInv, BranchInv, DecisionInv, NEW q \in Requests, C!Checkout(q)
  PROVE  FlipInv' /\ BranchInv' /\ DecisionInv'
<1>. DEFINE n == Len(tips)
            v == [req[q] EXCEPT !.step = "commit", !.branch = n + 1]
<1>1. /\ req[q].step = "checkout"
      /\ tips' = Append(tips, tips[n]) /\ req' = [req EXCEPT ![q] = v]
      /\ UNCHANGED <<pod, prs, base, flip, warned, deploys>>
  BY DEF C!Checkout, C!Current
<1>2. n \in Nat /\ n >= 1 /\ tips \in Seq(FileTrees) /\ req \in [Requests -> ReqRecords]
  BY DEF CatalogTypes
<1>3. req[q] \in [step : {"verify", "checkout", "commit", "push"}, skill : Skills,
                  file : FileRecords, branch : Nat]
  BY <1>1, ReqBusy
<1>4. v.step = "commit" /\ v.branch = n + 1 /\ v.skill = req[q].skill
  BY <1>3
<1>. HIDE DEF v
<1>5. req'[q] = v /\ \A x \in Requests : x # q => req'[x] = req[x]
  BY <1>1, <1>2
<1>. HIDE DEF n
<1>6. /\ Len(tips') = n + 1 /\ \A k \in 1 .. n : tips'[k] = tips[k]
      /\ tips'[n + 1] = tips[n]
  <2>1. tips[n] \in FileTrees
    BY <1>2, ElementOfSeq DEF n
  <2>. QED  BY <1>1, <1>2, <2>1, AppendProperties DEF n
<1>7. \A x \in Requests : OnBranch(x) => req[x].branch \in 1 .. n
  BY DEF CatalogTypes, OnBranch, n
<1>8. /\ base.branch \in 1 .. n
      /\ \A p \in prs : p.deploy <= deploys /\ (Ours(p) => p.branch \in base.branch .. n)
  BY DEF BranchInv, n
<1>9. BranchInv'
  <2>1. base'.branch \in 1 .. Len(tips')
    BY <1>1, <1>2, <1>6, <1>8
  <2>2. ASSUME NEW p \in prs'
        PROVE  p.deploy <= deploys' /\ (Ours(p)' => p.branch \in base'.branch .. Len(tips'))
    BY <1>1, <1>2, <1>6, <1>8 DEF Ours
  <2>3. ASSUME NEW x \in Requests, OnBranch(x)'
        PROVE  /\ req'[x].branch # base'.branch
               /\ \A p \in prs' : Ours(p)' => p.branch # req'[x].branch
               /\ \A r \in Requests : r # x /\ OnBranch(r)' => req'[r].branch # req'[x].branch
    <3>1. CASE x = q
      <4>1. req'[x].branch = n + 1
        BY <1>4, <1>5, <3>1
      <4>2. ASSUME NEW r \in Requests, r # x, OnBranch(r)' PROVE req'[r].branch \in 1 .. n
        BY <1>5, <1>7, <3>1, <4>2 DEF OnBranch
      <4>. QED  BY <1>1, <1>2, <1>8, <4>1, <4>2 DEF Ours
    <3>2. CASE x # q
      <4>1. req'[x] = req[x] /\ OnBranch(x) /\ req[x].branch \in 1 .. n
        BY <1>5, <1>7, <2>3, <3>2 DEF OnBranch
      <4>2. ASSUME NEW r \in Requests, r # x, OnBranch(r)' PROVE req'[r].branch # req'[x].branch
        <5>1. CASE r = q
          BY <1>2, <1>4, <1>5, <4>1, <5>1
        <5>2. CASE r # q
          BY <1>5, <4>1, <4>2, <5>2 DEF OnBranch, BranchInv
        <5>. QED  BY <5>1, <5>2
      <4>. QED  BY <1>1, <4>1, <4>2 DEF BranchInv, Ours
    <3>. QED  BY <3>1, <3>2
  <2>. QED  BY <2>1, <2>2, <2>3 DEF BranchInv
<1>10. ASSUME NEW s \in Skills, flip'[s] # C!NoDecision, s \notin warned'
       PROVE  Pending(s)' \/ \E b \in 1 .. Len(tips') : Traced(s, b)'
  <2>1. Pending(s) => Pending(s)'
    <3>1. ASSUME NEW x \in Requests, req[x].step \in {"checkout", "commit"}, req[x].skill = s
          PROVE  req'[x].step \in {"checkout", "commit"} /\ req'[x].skill = s
      BY <1>4, <1>5, <3>1
    <3>. QED  BY <3>1 DEF Pending
  <2>2. ASSUME NEW b \in 1 .. n, Traced(s, b) PROVE b \in 1 .. Len(tips') /\ Traced(s, b)'
    <3>1. ASSUME NEW c \in b .. Len(tips') PROVE tips'[c][s] = flip'[s]
      <4>1. \A k \in b .. n : tips[k][s] = flip[s]
        BY <2>2 DEF Traced, HeldFrom, n
      <4>2. CASE c = n + 1
        BY <1>1, <1>2, <1>6, <4>1, <4>2
      <4>3. CASE c # n + 1
        <5>1. c \in b .. n /\ c \in 1 .. n
          BY <1>2, <1>6, <4>3
        <5>. QED  BY <1>1, <1>6, <4>1, <5>1
      <4>. QED  BY <4>2, <4>3
    <3>2. HeldFrom(s, b)'
      BY <1>1, <2>2, <3>1 DEF Traced, HeldFrom, Ours
    <3>3. Pushing(s, b) => Pushing(s, b)'
      BY <1>1, <1>5 DEF Pushing
    <3>4. Proposed(b) => Proposed(b)'
      BY <1>1 DEF Proposed, Ours
    <3>5. b \in 1 .. Len(tips')
      BY <1>2, <1>6
    <3>. QED  BY <1>1, <2>2, <3>2, <3>3, <3>4, <3>5 DEF Traced
  <2>3. Pending(s) \/ \E b \in 1 .. n : Traced(s, b)
    BY <1>1, <1>10 DEF DecisionInv, n
  <2>. QED  BY <2>1, <2>2, <2>3
<1>11. FlipInv'
  BY <1>1 DEF FlipInv
<1>. QED  BY <1>9, <1>10, <1>11 DEF DecisionInv

\* A commit on its own branch puts the decision where no proposal is yet.
LEMMA CommitTraced ==
  ASSUME CatalogTypes, FlipInv, BranchInv, DecisionInv, NEW q \in Requests, C!Commit(q)
  PROVE  FlipInv' /\ BranchInv' /\ DecisionInv'
<1>. DEFINE n == Len(tips)
            z == req[q].skill
            v == [req[q] EXCEPT !.step = "push"]
            t == [tips[n] EXCEPT ![z] = pod[z]]
<1>1. /\ req[q].step = "commit"
      /\ tips' = [tips EXCEPT ![n] = t] /\ req' = [req EXCEPT ![q] = v]
      /\ flip' = IF req[q].branch = n THEN flip ELSE [flip EXCEPT ![z] = C!NoDecision]
      /\ UNCHANGED <<pod, prs, base, warned, deploys>>
  BY DEF C!Commit, C!Current
<1>2. /\ n \in Nat /\ n >= 1 /\ tips \in Seq(FileTrees) /\ req \in [Requests -> ReqRecords]
      /\ DOMAIN tips = 1 .. n /\ flip \in [Skills -> FileRecords]
  BY DEF CatalogTypes, FlipInv, FileTrees
<1>3. req[q] \in [step : {"verify", "checkout", "commit", "push"}, skill : Skills,
                  file : FileRecords, branch : Nat]
  BY <1>1, ReqBusy
<1>4. v.step = "push" /\ v.branch = req[q].branch /\ v.skill = z /\ z \in Skills
  BY <1>3
<1>5. req'[q] = v /\ \A x \in Requests : x # q => req'[x] = req[x]
  BY <1>1, <1>2
<1>6. tips[n] \in [Skills -> FileRecords]
  BY <1>2, ElementOfSeq DEF FileTrees
<1>7. t[z] = pod[z] /\ \A x \in Skills : x # z => t[x] = tips[n][x]
  BY <1>4, <1>6
<1>8. Len(tips') = n
  <2>1. DOMAIN tips' = 1 .. n /\ tips' \in Seq(FileTrees)
    <3>1. t \in FileTrees
      <4>1. pod[z] \in FileRecords
        BY <1>4 DEF CatalogTypes, FileTrees
      <4>. QED  BY <1>4, <1>6, <4>1 DEF FileTrees
    <3>. HIDE DEF t, n
    <3>2. tips \in [1 .. n -> FileTrees]
      BY <1>2 DEF n
    <3>3. tips' \in [1 .. n -> FileTrees]
      BY <1>1, <3>1, <3>2
    <3>. QED  BY <1>2, <3>3, SeqDef
  <2>. QED  BY <1>2, <2>1, LenProperties
<1>. HIDE DEF v, t, n, z
<1>9. tips'[n] = t /\ \A k \in 1 .. n : k # n => tips'[k] = tips[k]
  BY <1>1, <1>2
<1>10. \A x \in Requests : req'[x].branch = req[x].branch /\ (OnBranch(x)' <=> OnBranch(x))
  BY <1>1, <1>4, <1>5 DEF OnBranch
<1>11. BranchInv'
  <2>1. ASSUME NEW x \in Requests, OnBranch(x)'
        PROVE  /\ req'[x].branch # base'.branch
               /\ \A p \in prs' : Ours(p)' => p.branch # req'[x].branch
               /\ \A r \in Requests : r # x /\ OnBranch(r)' => req'[r].branch # req'[x].branch
    BY <1>1, <1>10, <2>1 DEF BranchInv, Ours
  <2>2. /\ base'.branch \in 1 .. Len(tips')
        /\ \A p \in prs' : p.deploy <= deploys' /\ (Ours(p)' => p.branch \in base'.branch .. Len(tips'))
    BY <1>1, <1>8 DEF BranchInv, Ours, n
  <2>. QED  BY <2>1, <2>2 DEF BranchInv
<1>12. FlipInv'
  <2>1. C!NoDecision \in FileRecords
    BY DEF C!NoDecision, C!Absent, FileRecords
  <2>2. flip' \in [Skills -> FileRecords] /\ \A x \in Skills : flip'[x] = flip[x] \/ flip'[x] = C!NoDecision
    BY <1>1, <1>2, <2>1
  <2>. QED  BY <1>1, <2>2 DEF FlipInv, FileTrees, C!NoDecision, C!Absent
<1>13. ASSUME NEW s \in Skills, s = z, NEW m \in Nat, m = n, flip'[s] # C!NoDecision
       PROVE  m \in 1 .. Len(tips') /\ Traced(s, m)'
  <2>1. req[q].branch = m /\ flip' = flip
    BY <1>1, <1>2, <1>4, <1>13
  <2>2. flip'[s] = pod[s]
    BY <1>13, <2>1 DEF FlipInv
  <2>3. \A c \in m .. Len(tips') : tips'[c][s] = flip'[s]
    BY <1>2, <1>7, <1>8, <1>9, <1>13, <2>2
  <2>4. OnBranch(q)
    BY <1>1 DEF OnBranch
  <2>5. base.branch # m /\ base.branch \in 1 .. m
    BY <1>13, <2>1, <2>4 DEF BranchInv, n
  <2>6. ASSUME NEW p \in prs, Ours(p) PROVE p.branch \in base.branch .. m /\ p.branch # m
    BY <1>13, <2>1, <2>4, <2>6 DEF BranchInv, n
  <2>7. HeldFrom(s, m)'
    <3>1. ~ (base'.branch >= m)
      BY <1>1, <2>5
    <3>2. ASSUME NEW p \in prs', Ours(p)' PROVE ~ (p.branch >= m)
      BY <1>1, <2>5, <2>6, <3>2 DEF Ours
    <3>. QED  BY <2>3, <3>1, <3>2 DEF HeldFrom
  <2>8. Pushing(s, m)'
    BY <1>4, <1>5, <1>13, <2>1 DEF Pushing
  <2>. QED  BY <1>2, <1>8, <1>13, <2>7, <2>8 DEF Traced
<1>14. ASSUME NEW s \in Skills, flip'[s] # C!NoDecision, s \notin warned', s # z
       PROVE  Pending(s)' \/ \E b \in 1 .. Len(tips') : Traced(s, b)'
  <2>0. flip'[s] = flip[s]
    BY <1>1, <1>2, <1>14
  <2>1. Pending(s) => Pending(s)'
    BY <1>5, <1>14 DEF Pending, z
  <2>2. ASSUME NEW b \in 1 .. n, Traced(s, b) PROVE Traced(s, b)'
    <3>1. ASSUME NEW c \in b .. n PROVE tips'[c][s] = flip'[s]
      <4>1. tips[c][s] = flip[s] /\ c \in 1 .. n
        BY <1>2, <2>2 DEF Traced, HeldFrom, n
      <4>2. tips'[c][s] = tips[c][s]
        BY <1>7, <1>9, <1>14, <4>1
      <4>. QED  BY <2>0, <4>1, <4>2
    <3>2. HeldFrom(s, b)'
      BY <1>1, <1>8, <2>0, <2>2, <3>1 DEF Traced, HeldFrom, Ours
    <3>3. Pushing(s, b) => Pushing(s, b)'
      BY <1>5, <1>14 DEF Pushing, z
    <3>4. Proposed(b) => Proposed(b)'
      BY <1>1 DEF Proposed, Ours
    <3>. QED  BY <1>1, <2>2, <3>2, <3>3, <3>4 DEF Traced
  <2>3. Pending(s) \/ \E b \in 1 .. n : Traced(s, b)
    BY <1>1, <1>14, <2>0 DEF DecisionInv, n
  <2>. QED  BY <1>8, <2>1, <2>2, <2>3
<1>15. DecisionInv'
  <2>1. ASSUME NEW s \in Skills, flip'[s] # C!NoDecision, s \notin warned'
        PROVE  Pending(s)' \/ \E b \in 1 .. Len(tips') : Traced(s, b)'
    <3>1. CASE s = z
      <4>1. PICK m \in Nat : m = n
        BY <1>2
      <4>. QED  BY <1>13, <2>1, <3>1, <4>1
    <3>2. CASE s # z
      BY <1>14, <2>1, <3>2
    <3>. QED  BY <3>1, <3>2
  <2>. QED  BY <2>1 DEF DecisionInv
<1>. QED  BY <1>11, <1>12, <1>15

\* A proposal of a branch at or after the one a decision is on holds it too.
LEMMA ProposeTraced ==
  ASSUME CatalogTypes, FlipInv, BranchInv, DecisionInv, NEW q \in Requests, C!Propose(q)
  PROVE  FlipInv' /\ BranchInv' /\ DecisionInv'
<1>. DEFINE w == [deploy |-> deploys, branch |-> req[q].branch, base |-> base.tree,
                  tip |-> tips[req[q].branch]]
<1>1. /\ req[q].step = "push" /\ req[q].branch >= base.branch
      /\ prs' = prs \cup {w} /\ req' = [req EXCEPT ![q] = C!Idle]
      /\ UNCHANGED <<pod, tips, base, flip, warned, deploys>>
  BY DEF C!Propose, C!Report
<1>2. /\ req \in [Requests -> ReqRecords] /\ req[q].branch \in 1 .. Len(tips) /\ Len(tips) \in Nat
      /\ deploys \in Nat
  BY <1>1 DEF CatalogTypes
<1>3. req'[q].step = "idle" /\ \A x \in Requests : x # q => req'[x] = req[x]
  BY <1>1, <1>2 DEF C!Idle
<1>4. w.deploy = deploys /\ w.branch = req[q].branch /\ w.tip = tips[req[q].branch]
  OBVIOUS
<1>. HIDE DEF w
<1>5. ASSUME NEW x \in Requests, OnBranch(x)' PROVE x # q /\ OnBranch(x) /\ req'[x] = req[x]
  BY <1>3, <1>5 DEF OnBranch
<1>6. OnBranch(q)
  BY <1>1 DEF OnBranch
<1>7. BranchInv'
  <2>1. /\ base.branch \in 1 .. Len(tips)
        /\ \A p \in prs : p.deploy <= deploys /\ (Ours(p) => p.branch \in base.branch .. Len(tips))
    BY DEF BranchInv
  <2>2. w.deploy <= deploys /\ w.branch \in base.branch .. Len(tips)
    BY <1>1, <1>2, <1>4, <2>1
  <2>3. /\ base'.branch \in 1 .. Len(tips')
        /\ \A p \in prs' : p.deploy <= deploys' /\ (Ours(p)' => p.branch \in base'.branch .. Len(tips'))
    BY <1>1, <2>1, <2>2 DEF Ours
  <2>4. ASSUME NEW x \in Requests, OnBranch(x)'
        PROVE  /\ req'[x].branch # base'.branch
               /\ \A p \in prs' : Ours(p)' => p.branch # req'[x].branch
               /\ \A r \in Requests : r # x /\ OnBranch(r)' => req'[r].branch # req'[x].branch
    <3>1. x # q /\ OnBranch(x) /\ req'[x] = req[x]
      BY <1>5, <2>4
    <3>2. w.branch # req[x].branch
      BY <1>4, <1>6, <3>1 DEF BranchInv
    <3>3. \A r \in Requests : r # x /\ OnBranch(r)' => req'[r].branch # req'[x].branch
      BY <1>5, <3>1 DEF BranchInv
    <3>4. \A p \in prs' : Ours(p)' => p.branch # req'[x].branch
      BY <1>1, <3>1, <3>2 DEF BranchInv, Ours
    <3>. QED  BY <1>1, <3>1, <3>3, <3>4 DEF BranchInv
  <2>. QED  BY <2>3, <2>4 DEF BranchInv
<1>8. ASSUME NEW s \in Skills, flip'[s] # C!NoDecision, s \notin warned'
      PROVE  Pending(s)' \/ \E b \in 1 .. Len(tips') : Traced(s, b)'
  <2>1. Pending(s) => Pending(s)'
    <3>1. ASSUME NEW x \in Requests, req[x].step \in {"checkout", "commit"} PROVE req'[x] = req[x]
      BY <1>1, <1>3, <3>1
    <3>. QED  BY <3>1 DEF Pending
  <2>2. ASSUME NEW b \in 1 .. Len(tips), Traced(s, b) PROVE Traced(s, b)'
    <3>1. w.branch >= b => w.tip[s] = flip[s]
      BY <1>2, <1>4, <2>2 DEF Traced, HeldFrom
    <3>2. HeldFrom(s, b)'
      BY <1>1, <2>2, <3>1 DEF Traced, HeldFrom, Ours
    <3>3. Proposed(b) => Proposed(b)'
      BY <1>1 DEF Proposed, Ours
    <3>4. Pushing(s, b) => Pushing(s, b)' \/ Proposed(b)'
      <4>1. SUFFICES ASSUME NEW x \in Requests, req[x].step = "push", req[x].skill = s, req[x].branch = b
                     PROVE  Pushing(s, b)' \/ Proposed(b)'
        BY DEF Pushing
      <4>2. CASE x = q
        <5>1. PICK p : p = w
          OBVIOUS
        <5>2. p \in prs' /\ p.deploy = deploys' /\ p.branch >= b
          BY <1>1, <1>2, <1>4, <4>1, <4>2, <5>1
        <5>. QED  BY <5>2 DEF Proposed, Ours
      <4>3. CASE x # q
        BY <1>3, <4>1, <4>3 DEF Pushing
      <4>. QED  BY <4>2, <4>3
    <3>. QED  BY <1>1, <2>2, <3>2, <3>3, <3>4 DEF Traced
  <2>3. Pending(s) \/ \E b \in 1 .. Len(tips) : Traced(s, b)
    BY <1>1, <1>8 DEF DecisionInv
  <2>. QED  BY <1>1, <2>1, <2>2, <2>3
<1>9. FlipInv'
  BY <1>1 DEF FlipInv
<1>. QED  BY <1>7, <1>8, <1>9 DEF DecisionInv

\* A merge takes with it the branches below the merged one, whose decisions
\* the merged one holds.
LEMMA MergeTraced ==
  ASSUME CatalogTypes, FlipInv, BranchInv, DecisionInv, NEW w \in prs, C!Merge(w)
  PROVE  FlipInv' /\ BranchInv' /\ DecisionInv'
<1>1. /\ UNCHANGED <<pod, tips, req, warned, deploys>>
      /\ base' = IF w.deploy = deploys THEN [branch |-> w.branch, tree |-> w.tip] ELSE base
      /\ flip' = [s \in Skills |-> IF w.deploy # deploys /\ w.tip[s] # w.base[s]
                                    THEN C!NoDecision ELSE flip[s]]
      /\ prs' = {[p EXCEPT !.base = IF p.deploy = w.deploy THEN w.tip ELSE @] :
                   p \in {x \in prs : x.deploy = w.deploy => x.branch > w.branch}}
  BY DEF C!Merge
<1>2. /\ prs \subseteq SkillPrs /\ Len(tips) \in Nat /\ deploys \in Nat
      /\ base.branch \in Nat
  BY DEF CatalogTypes
<1>3. ASSUME NEW p \in prs'
      PROVE  \E x \in prs : /\ p.deploy = x.deploy /\ p.branch = x.branch /\ p.tip = x.tip
                            /\ x.deploy = w.deploy => x.branch > w.branch
  <2>1. PICK x \in prs : /\ p = [x EXCEPT !.base = IF x.deploy = w.deploy THEN w.tip ELSE @]
                         /\ x.deploy = w.deploy => x.branch > w.branch
    BY <1>1, <1>3
  <2>2. x \in [deploy : Nat, branch : Nat, base : FileTrees, tip : FileTrees]
    BY <1>2 DEF SkillPrs
  <2>. QED  BY <2>1, <2>2
<1>4. ASSUME NEW x \in prs, x.deploy = w.deploy => x.branch > w.branch
      PROVE  \E p \in prs' : p.deploy = x.deploy /\ p.branch = x.branch
  <2>. DEFINE p == [x EXCEPT !.base = IF x.deploy = w.deploy THEN w.tip ELSE @]
  <2>1. p \in prs'
    BY <1>1, <1>4
  <2>2. x \in [deploy : Nat, branch : Nat, base : FileTrees, tip : FileTrees]
    BY <1>2 DEF SkillPrs
  <2>3. p.deploy = x.deploy /\ p.branch = x.branch
    BY <2>2
  <2>. QED  BY <2>1, <2>3
<1>5. w.branch \in Nat /\ w.deploy \in Nat
  BY <1>2 DEF SkillPrs
<1>6. base'.branch = (IF w.deploy = deploys THEN w.branch ELSE base.branch)
      /\ base'.tree = (IF w.deploy = deploys THEN w.tip ELSE base.tree)
  BY <1>1
<1>7. /\ base.branch \in 1 .. Len(tips)
      /\ \A p \in prs : p.deploy <= deploys /\ (Ours(p) => p.branch \in base.branch .. Len(tips))
  BY DEF BranchInv
<1>8. BranchInv'
  <2>1. base'.branch \in 1 .. Len(tips')
    BY <1>1, <1>2, <1>6, <1>7 DEF Ours
  <2>2. ASSUME NEW p \in prs'
        PROVE  p.deploy <= deploys' /\ (Ours(p)' => p.branch \in base'.branch .. Len(tips'))
    <3>1. PICK x \in prs : /\ p.deploy = x.deploy /\ p.branch = x.branch
                           /\ x.deploy = w.deploy => x.branch > w.branch
      BY <1>3
    <3>. QED  BY <1>1, <1>2, <1>5, <1>6, <1>7, <3>1 DEF Ours
  <2>3. ASSUME NEW x \in Requests, OnBranch(x)'
        PROVE  /\ req'[x].branch # base'.branch
               /\ \A p \in prs' : Ours(p)' => p.branch # req'[x].branch
               /\ \A r \in Requests : r # x /\ OnBranch(r)' => req'[r].branch # req'[x].branch
    <3>1. /\ req[x].branch # base.branch
          /\ \A p \in prs : Ours(p) => p.branch # req[x].branch
          /\ \A r \in Requests : r # x /\ OnBranch(r) => req[r].branch # req[x].branch
      BY <1>1, <2>3 DEF BranchInv, OnBranch
    <3>2. req'[x].branch # base'.branch
      BY <1>1, <1>6, <3>1 DEF Ours
    <3>3. \A p \in prs' : Ours(p)' => p.branch # req'[x].branch
      BY <1>1, <1>3, <3>1 DEF Ours
    <3>. QED  BY <1>1, <3>1, <3>2, <3>3 DEF OnBranch
  <2>. QED  BY <2>1, <2>2, <2>3 DEF BranchInv
<1>9. /\ flip' \in FileTrees
      /\ \A s \in Skills : flip'[s] = C!NoDecision \/ flip'[s] = flip[s]
  <2>1. C!NoDecision \in FileRecords
    BY DEF C!NoDecision, C!Absent, FileRecords
  <2>2. \A s \in Skills : flip[s] \in FileRecords
    BY DEF FlipInv, FileTrees
  <2>. QED  BY <1>1, <2>1, <2>2 DEF FileTrees
<1>10. FlipInv'
  BY <1>1, <1>9 DEF FlipInv, C!NoDecision, C!Absent
<1>11. ASSUME NEW s \in Skills, flip'[s] # C!NoDecision, s \notin warned'
       PROVE  Pending(s)' \/ \E b \in 1 .. Len(tips') : Traced(s, b)'
  <2>0. flip'[s] = flip[s]
    BY <1>9, <1>11
  <2>1. Pending(s) => Pending(s)'
    BY <1>1 DEF Pending
  <2>2. ASSUME NEW b \in 1 .. Len(tips), Traced(s, b) PROVE Traced(s, b)'
    <3>1. \A c \in b .. Len(tips) : tips'[c][s] = flip'[s]
      BY <1>1, <2>0, <2>2 DEF Traced, HeldFrom
    <3>2. ASSUME NEW p \in prs', Ours(p)', p.branch >= b PROVE p.tip[s] = flip'[s]
      <4>1. PICK x \in prs : p.deploy = x.deploy /\ p.branch = x.branch /\ p.tip = x.tip
        BY <1>3
      <4>. QED  BY <1>1, <2>0, <2>2, <3>2, <4>1 DEF Traced, HeldFrom, Ours
    <3>3. base'.branch >= b => base'.tree[s] = flip'[s]
      BY <1>1, <1>6, <2>0, <2>2 DEF Traced, HeldFrom, Ours
    <3>4. HeldFrom(s, b)'
      BY <1>1, <3>1, <3>2, <3>3 DEF HeldFrom
    <3>5. Pushing(s, b) => Pushing(s, b)'
      BY <1>1 DEF Pushing
    <3>6. base.branch >= b => base'.branch >= b
      BY <1>2, <1>5, <1>6, <1>7 DEF Ours
    <3>7. Proposed(b) => Proposed(b)' \/ base'.branch >= b
      <4>1. SUFFICES ASSUME NEW x \in prs, Ours(x), x.branch >= b
                     PROVE  Proposed(b)' \/ base'.branch >= b
        BY DEF Proposed
      <4>2. x.branch \in Nat
        BY <1>2 DEF SkillPrs
      <4>3. CASE x.deploy = w.deploy /\ ~ (x.branch > w.branch)
        BY <1>5, <1>6, <4>1, <4>2, <4>3 DEF Ours
      <4>4. CASE x.deploy = w.deploy => x.branch > w.branch
        <5>1. PICK p \in prs' : p.deploy = x.deploy /\ p.branch = x.branch
          BY <1>4, <4>4
        <5>. QED  BY <1>1, <4>1, <5>1 DEF Proposed, Ours
      <4>. QED  BY <4>3, <4>4
    <3>. QED  BY <2>2, <3>4, <3>5, <3>6, <3>7 DEF Traced
  <2>3. Pending(s) \/ \E b \in 1 .. Len(tips) : Traced(s, b)
    BY <1>1, <1>11, <2>0 DEF DecisionInv
  <2>. QED  BY <1>1, <2>1, <2>2, <2>3
<1>. QED  BY <1>8, <1>10, <1>11 DEF DecisionInv

\* Closing a pull request drops the decisions it carried and no other.
LEMMA CloseTraced ==
  ASSUME CatalogTypes, FlipInv, BranchInv, DecisionInv, NEW w \in prs, C!Close(w)
  PROVE  FlipInv' /\ BranchInv' /\ DecisionInv'
<1>1. /\ UNCHANGED <<pod, tips, base, req, warned, deploys>> /\ prs' = prs \ {w}
      /\ flip' = [s \in Skills |-> IF w.tip[s] = flip[s] THEN C!NoDecision ELSE flip[s]]
  BY DEF C!Close
<1>2. BranchInv'
  BY <1>1 DEF BranchInv, Ours, OnBranch
<1>3. FlipInv'
  <2>1. C!NoDecision \in FileRecords
    BY DEF C!NoDecision, C!Absent, FileRecords
  <2>2. \A s \in Skills : flip[s] \in FileRecords
    BY DEF FlipInv, FileTrees
  <2>3. flip' \in FileTrees
    BY <1>1, <2>1, <2>2 DEF FileTrees
  <2>. QED  BY <1>1, <2>3 DEF FlipInv, C!NoDecision, C!Absent
<1>4. ASSUME NEW s \in Skills, flip'[s] # C!NoDecision, s \notin warned'
      PROVE  Pending(s)' \/ \E b \in 1 .. Len(tips') : Traced(s, b)'
  <2>0. flip'[s] = flip[s] /\ w.tip[s] # flip[s]
    BY <1>1, <1>4
  <2>1. Pending(s) => Pending(s)'
    BY <1>1 DEF Pending
  <2>2. ASSUME NEW b \in 1 .. Len(tips), Traced(s, b) PROVE Traced(s, b)'
    <3>1. HeldFrom(s, b)'
      BY <1>1, <2>0, <2>2 DEF Traced, HeldFrom, Ours
    <3>2. Pushing(s, b) => Pushing(s, b)'
      BY <1>1 DEF Pushing
    <3>3. Proposed(b) => Proposed(b)'
      BY <1>1, <2>0, <2>2 DEF Proposed, Traced, HeldFrom, Ours
    <3>. QED  BY <1>1, <2>2, <3>1, <3>2, <3>3 DEF Traced
  <2>3. Pending(s) \/ \E b \in 1 .. Len(tips) : Traced(s, b)
    BY <1>1, <1>4, <2>0 DEF DecisionInv
  <2>. QED  BY <1>1, <2>1, <2>2, <2>3
<1>. QED  BY <1>2, <1>3, <1>4 DEF DecisionInv

\* A new pod shows main and no decision.
LEMMA RedeployTraced ==
  ASSUME CatalogTypes, FlipInv, BranchInv, DecisionInv, C!Redeploy
  PROVE  FlipInv' /\ BranchInv' /\ DecisionInv'
<1>1. /\ tips' = <<main>> /\ base' = [branch |-> 1, tree |-> main] /\ UNCHANGED prs
      /\ req' = [q \in Requests |-> C!Idle] /\ deploys' = deploys + 1
      /\ flip' = [s \in Skills |-> C!NoDecision]
  BY DEF C!Redeploy
<1>2. Len(tips') = 1 /\ base'.branch = 1
  BY <1>1
<1>3. \A q \in Requests : ~ OnBranch(q)'
  BY <1>1 DEF OnBranch, C!Idle
<1>4. ASSUME NEW p \in prs' PROVE p.deploy <= deploys' /\ ~ Ours(p)'
  <2>1. p.deploy \in Nat /\ deploys \in Nat /\ p.deploy <= deploys
    BY <1>1 DEF CatalogTypes, SkillPrs, BranchInv
  <2>. QED  BY <1>1, <2>1 DEF Ours
<1>5. BranchInv'
  BY <1>2, <1>3, <1>4 DEF BranchInv
<1>6. FlipInv'
  <2>1. C!NoDecision \in FileRecords
    BY DEF C!NoDecision, C!Absent, FileRecords
  <2>. QED  BY <1>1, <2>1 DEF FlipInv, FileTrees, C!NoDecision, C!Absent
<1>7. DecisionInv'
  BY <1>1 DEF DecisionInv, C!NoDecision, C!Absent
<1>. QED  BY <1>5, <1>6, <1>7

\* _persist_skill_status_change: however many people decide at once on however
\* many skills, in one checkout whose branches stack, and whatever is merged,
\* closed or replaced meanwhile, a decision the pod shows is under way, was
\* reported as lost, is on main or is in an open pull request, unless its
\* commit landed on another request's branch or the pull request of an earlier
\* pod changed the skill on main.
THEOREM DecisionsAreNotReverted == PlatformSpec => []NoSilentRevert
<1>. DEFINE I == CatalogTypes /\ CatalogReviewed /\ FlipInv /\ BranchInv /\ DecisionInv
<1>1. PlatformInit => I
  <2>. SUFFICES ASSUME PlatformInit PROVE FlipInv /\ BranchInv /\ DecisionInv
    BY CatalogInit
  <2>1. /\ tips = <<main>> /\ base = [branch |-> 1, tree |-> main] /\ prs = {}
        /\ req = [q \in Requests |-> C!Idle] /\ flip = [s \in Skills |-> C!NoDecision]
    BY DEF PlatformInit, C!Init
  <2>2. C!NoDecision \in FileRecords
    BY DEF C!NoDecision, C!Absent, FileRecords
  <2>3. FlipInv
    BY <2>1, <2>2 DEF FlipInv, FileTrees
  <2>4. Len(tips) = 1 /\ base.branch = 1 /\ \A q \in Requests : ~ OnBranch(q)
    BY <2>1 DEF OnBranch, C!Idle
  <2>5. BranchInv
    BY <2>1, <2>4 DEF BranchInv
  <2>6. DecisionInv
    BY <2>1 DEF DecisionInv
  <2>. QED  BY <2>3, <2>5, <2>6
<1>2. I /\ [PlatformNext]_platformVars => I'
  <2>. SUFFICES ASSUME I, C!Next \/ UNCHANGED C!vars PROVE FlipInv' /\ BranchInv' /\ DecisionInv'
    BY CatalogStep, CatalogKept
  <2>1. CASE UNCHANGED C!vars
    <3>1. UNCHANGED <<pod, tips, prs, base, deploys, req, flip, warned>>
      BY <2>1 DEF C!vars
    <3>2. FlipInv'
      BY <3>1 DEF FlipInv
    <3>. QED  BY <3>1, <3>2, QuietKeeps
  <2>2. CASE C!Next
    BY <2>2, DraftsTraced, DecisionsTraced, FailureTraced, CheckoutTraced, CommitTraced,
       ProposeTraced, MergeTraced, CloseTraced, RedeployTraced DEF C!Next
  <2>. QED  BY <2>1, <2>2
<1>3. I => NoSilentRevert
  BY TracedIsSafe
<1>. QED  BY <1>1, <1>2, <1>3, PTL DEF PlatformSpec

-----------------------------------------------------------------------------
(* The report of a scan.                                                   *)

ScanRecords ==
  [step : {"analyze", "live", "merge", "save"}, seen : SUBSET R!Problems, todo : SUBSET R!Dims,
   found : SUBSET R!Findings, verdict : R!Verdicts, cleared : BOOLEAN]

\* What the analyzers that have ended are bound to have found.
SecurityFound(r) ==
  /\ "plain" \in r.seen => "plain" \in r.found
  /\ "secret" \in r.seen /\ r.verdict # "dropped" => "secret" \in r.found
QuotaFound(r) == "quota" \in r.seen /\ ~ r.cleared => "quota" \in r.found
ChecksFound(r) == "quota-check" \in r.found <=> shipped > 0 /\ "quota" \in r.seen

\* The scan under way: an analyzer that is done has left its findings, the
\* evidence of the cluster clears no other, and the checks come last.
ScanInv ==
  /\ source \in SUBSET R!Problems /\ live \in BOOLEAN
  /\ \/ scan = R!Idle
     \/ /\ scan \in ScanRecords
        /\ "security" \notin scan.todo => SecurityFound(scan)
        /\ "infrastructure" \notin scan.todo => QuotaFound(scan)
        /\ scan.step # "analyze" => scan.todo = {}
        /\ scan.step \in {"analyze", "live"} => scan.cleared = FALSE
        /\ IF scan.step = "save" THEN ChecksFound(scan) ELSE "quota-check" \notin scan.found

\* The reports: nothing that is there is missing.
ReportsInv ==
  /\ \E T : reports \in Seq(T)
  /\ \A k \in 1 .. Len(reports) :
       /\ reports[k].found \subseteq R!Findings
       /\ SecurityFound(reports[k]) /\ QuotaFound(reports[k]) /\ ChecksFound(reports[k])

\* A scan under way has the shape of one.
LEMMA ScanBusy ==
  ASSUME ScanInv, scan.step # "idle"
  PROVE  scan \in ScanRecords
BY DEF ScanInv, R!Idle

\* An analyzer ends: what it found is added, the rest of the scan is kept.
LEMMA AnalyzerEnds ==
  ASSUME ScanInv, NEW d \in R!Dims, NEW found \in SUBSET R!Problems, NEW verdict \in R!Verdicts,
         scan.step = "analyze", d \in scan.todo, R!Analyzed(d, found, verdict),
         UNCHANGED <<source, live, shipped>>,
         d = "security" => /\ "plain" \in scan.seen => "plain" \in found
                           /\ "secret" \in scan.seen /\ verdict # "dropped" => "secret" \in found,
         d = "infrastructure" => /\ verdict = scan.verdict
                                 /\ "quota" \in scan.seen => "quota" \in found
  PROVE  ScanInv'
<1>. DEFINE todo == scan.todo \ {d}
            step == IF todo = {} THEN "live" ELSE "analyze"
<1>1. scan \in ScanRecords
  BY ScanBusy
<1>2. /\ scan.seen \in SUBSET R!Problems /\ scan.todo \in SUBSET R!Dims
      /\ scan.found \in SUBSET R!Findings /\ scan.cleared \in BOOLEAN
  BY <1>1 DEF ScanRecords
<1>3. scan' = [scan EXCEPT !.todo = todo, !.found = scan.found \cup found, !.verdict = verdict,
                           !.step = step]
  BY DEF R!Analyzed
<1>4. scan' = [step |-> step, seen |-> scan.seen, todo |-> todo, found |-> scan.found \cup found,
               verdict |-> verdict, cleared |-> scan.cleared]
  BY <1>1, <1>3 DEF ScanRecords
<1>5. scan' \in ScanRecords
  BY <1>2, <1>4 DEF ScanRecords, R!Findings
<1>6. "quota-check" \notin scan.found \cup found
  BY <1>1 DEF ScanInv, ScanRecords, R!Problems, R!Idle
<1>7. "security" \notin todo =>
        /\ "plain" \in scan.seen => "plain" \in scan.found \cup found
        /\ "secret" \in scan.seen /\ verdict # "dropped" => "secret" \in scan.found \cup found
  <2>1. CASE d = "security"
    BY <2>1
  <2>2. CASE d = "infrastructure"
    BY <1>1, <2>2 DEF ScanInv, SecurityFound, ScanRecords, R!Idle
  <2>. QED  BY <2>1, <2>2 DEF R!Dims
<1>8. "infrastructure" \notin todo =>
        ("quota" \in scan.seen /\ ~ scan.cleared => "quota" \in scan.found \cup found)
  <2>1. CASE d = "infrastructure"
    BY <2>1
  <2>2. CASE d = "security"
    BY <1>1, <2>2 DEF ScanInv, QuotaFound, ScanRecords, R!Idle
  <2>. QED  BY <2>1, <2>2 DEF R!Dims
<1>9. step # "save" /\ (step # "analyze" => todo = {}) /\ scan.cleared = FALSE
  BY DEF ScanInv, R!Idle
<1>. QED  BY <1>4, <1>5, <1>6, <1>7, <1>8, <1>9 DEF ScanInv, SecurityFound, QuotaFound

\* Every step of the scan keeps what it is bound to have found.
LEMMA ScanInvStep == ScanInv /\ [R!Next]_(R!vars) => ScanInv'
<1>. SUFFICES ASSUME ScanInv, R!Next \/ UNCHANGED R!vars PROVE ScanInv'
  OBVIOUS
<1>t. source' \in SUBSET R!Problems /\ live' \in BOOLEAN
  <2>1. CASE UNCHANGED <<source, live>>
    BY <2>1 DEF ScanInv, R!Problems
  <2>2. ASSUME NEW p \in R!Problems, R!Change(p) PROVE source' \in SUBSET R!Problems /\ live' \in BOOLEAN
    BY <2>2 DEF ScanInv, R!Change
  <2>3. CASE R!Sync
    BY <2>3 DEF ScanInv, R!Sync
  <2>4. (\A p \in R!Problems : ~ R!Change(p)) /\ ~ R!Sync => UNCHANGED <<source, live>>
    BY DEF R!Next, R!vars, R!Cool, R!AnalyzerFails, R!StartScan, R!AnalyzeSecurity,
       R!AnalyzeInfrastructure, R!LiveClear, R!MergeChecks, R!Save
  <2>. QED  BY <2>1, <2>2, <2>3, <2>4
<1>0. UNCHANGED <<scan, shipped>> => ScanInv'
  BY <1>t DEF ScanInv, ScanRecords, SecurityFound, QuotaFound, ChecksFound, R!Idle, R!Problems, R!Dims,
         R!Findings, R!Verdicts
<1>i. scan' = R!Idle => ScanInv'
  BY <1>t DEF ScanInv, R!Idle
<1>1. CASE UNCHANGED R!vars \/ (\E p \in R!Problems : R!Change(p)) \/ R!Sync \/ R!Cool
  BY <1>0, <1>1 DEF R!vars, R!Change, R!Sync, R!Cool
<1>2. CASE (\E d \in R!Dims : R!AnalyzerFails(d)) \/ R!Save
  BY <1>i, <1>2 DEF R!AnalyzerFails, R!Save
<1>3. CASE R!StartScan
  <2>1. scan' = [step |-> "analyze", seen |-> source, todo |-> R!Dims, found |-> {},
                 verdict |-> "none", cleared |-> FALSE]
    BY <1>3 DEF R!StartScan, R!Snapshot
  <2>2. scan' \in ScanRecords
    BY <2>1 DEF ScanInv, ScanRecords, R!Verdicts
  <2>3. "security" \in scan'.todo /\ "infrastructure" \in scan'.todo /\ scan'.found = {}
        /\ scan'.step = "analyze" /\ scan'.cleared = FALSE
    BY <2>1 DEF R!Dims
  <2>. QED  BY <1>t, <2>2, <2>3 DEF ScanInv
<1>4. CASE R!AnalyzeSecurity
  <2>1. PICK verdict \in R!Verdicts :
          R!Analyzed("security", (scan.seen \cap {"plain"}) \cup R!Secret(verdict), verdict)
    BY <1>4 DEF R!AnalyzeSecurity
  <2>. DEFINE found == (scan.seen \cap {"plain"}) \cup R!Secret(verdict)
  <2>2. found \in SUBSET R!Problems
    BY DEF R!Secret, R!Problems
  <2>3. /\ "plain" \in scan.seen => "plain" \in found
        /\ "secret" \in scan.seen /\ verdict # "dropped" => "secret" \in found
    BY DEF R!Secret
  <2>4. scan.step = "analyze" /\ "security" \in scan.todo /\ UNCHANGED <<source, live, shipped>>
    BY <1>4 DEF R!AnalyzeSecurity
  <2>. HIDE DEF found
  <2>5. R!Analyzed("security", found, verdict)
    BY <2>1 DEF found
  <2>6. "security" \in R!Dims /\ "security" # "infrastructure"
    BY DEF R!Dims
  <2>. QED  BY <2>2, <2>3, <2>4, <2>5, <2>6, AnalyzerEnds
<1>5. CASE R!AnalyzeInfrastructure
  <2>1. PICK answer \in R!Answers :
          R!Analyzed("infrastructure", (scan.seen \cap {"quota"}) \cup R!ModelFindings(answer), scan.verdict)
    BY <1>5 DEF R!AnalyzeInfrastructure
  <2>. DEFINE found == (scan.seen \cap {"quota"}) \cup R!ModelFindings(answer)
  <2>2. found \in SUBSET R!Problems
    BY DEF R!ModelFindings, R!Problems
  <2>3. "quota" \in scan.seen => "quota" \in found
    OBVIOUS
  <2>4. scan.step = "analyze" /\ "infrastructure" \in scan.todo /\ UNCHANGED <<source, live, shipped>>
    BY <1>5 DEF R!AnalyzeInfrastructure
  <2>. HIDE DEF found
  <2>5. R!Analyzed("infrastructure", found, scan.verdict)
    BY <2>1 DEF found
  <2>6. "infrastructure" \in R!Dims /\ "security" # "infrastructure"
    BY DEF R!Dims
  <2>7. scan.verdict \in R!Verdicts
    BY <2>4, ScanBusy DEF ScanRecords
  <2>. QED  BY <2>2, <2>3, <2>4, <2>5, <2>6, <2>7, AnalyzerEnds
<1>6. CASE R!LiveClear
  <2>0. scan \in ScanRecords /\ scan.step = "live" /\ UNCHANGED shipped
    BY <1>6, ScanBusy DEF R!LiveClear
  <2>1. PICK evidence \in R!Evidence :
          scan' = [scan EXCEPT !.step = "merge", !.cleared = evidence,
                     !.found = IF evidence THEN {f \in @ : R!Category(f) # "quota"} ELSE @]
    BY <1>6 DEF R!LiveClear
  <2>2. evidence \in BOOLEAN
    BY DEF R!Evidence, ScanInv
  <2>. DEFINE found == IF evidence THEN {f \in scan.found : R!Category(f) # "quota"} ELSE scan.found
  <2>3. scan' = [step |-> "merge", seen |-> scan.seen, todo |-> scan.todo, found |-> found,
                 verdict |-> scan.verdict, cleared |-> evidence]
    BY <2>0, <2>1 DEF ScanRecords
  <2>4. found \subseteq scan.found /\ (~ evidence => found = scan.found)
        /\ ("plain" \in scan.found => "plain" \in found) /\ ("secret" \in scan.found => "secret" \in found)
    BY DEF R!Category
  <2>5. scan' \in ScanRecords
    BY <2>0, <2>2, <2>3, <2>4 DEF ScanRecords
  <2>6. scan.todo = {} /\ SecurityFound(scan) /\ QuotaFound(scan) /\ "quota-check" \notin scan.found
        /\ scan.cleared \in BOOLEAN
    BY <2>0 DEF ScanInv, R!Idle, ScanRecords
  <2>. HIDE DEF found
  <2>7. SecurityFound(scan')
    BY <2>3, <2>4, <2>6 DEF SecurityFound
  <2>8. QuotaFound(scan')
    <3>1. scan.cleared = FALSE
      BY <2>0 DEF ScanInv, R!Idle
    <3>. QED  BY <2>2, <2>3, <2>4, <2>6, <3>1 DEF QuotaFound
  <2>9. scan'.step = "merge" /\ scan'.todo = {} /\ "quota-check" \notin scan'.found
    BY <2>3, <2>4, <2>6
  <2>. QED  BY <1>t, <2>5, <2>7, <2>8, <2>9 DEF ScanInv, SecurityFound, QuotaFound
<1>7. CASE R!MergeChecks
  <2>0. scan \in ScanRecords /\ scan.step = "merge" /\ UNCHANGED shipped
    BY <1>7, ScanBusy DEF R!MergeChecks
  <2>1. scan' = [scan EXCEPT !.step = "save", !.found = scan.found \cup R!Failing]
    BY <1>7 DEF R!MergeChecks
  <2>2. scan' = [step |-> "save", seen |-> scan.seen, todo |-> scan.todo,
                 found |-> scan.found \cup R!Failing, verdict |-> scan.verdict,
                 cleared |-> scan.cleared]
    BY <2>0, <2>1 DEF ScanRecords
  <2>3. R!Failing \subseteq {"quota-check"} /\ ("quota-check" \in R!Failing <=> shipped > 0 /\ "quota" \in scan.seen)
    BY DEF R!Failing
  <2>4. scan' \in ScanRecords
    BY <2>0, <2>2, <2>3 DEF ScanRecords, R!Findings
  <2>5. scan.todo = {} /\ SecurityFound(scan) /\ QuotaFound(scan) /\ "quota-check" \notin scan.found
    BY <2>0 DEF ScanInv, R!Idle, ScanRecords
  <2>6. SecurityFound(scan') /\ QuotaFound(scan')
    BY <2>2, <2>5 DEF SecurityFound, QuotaFound
  <2>7. scan'.step = "save" /\ scan'.todo = {} /\ ChecksFound(scan')
    BY <2>2, <2>3, <2>5 DEF ChecksFound
  <2>. QED  BY <1>t, <2>0, <2>4, <2>6, <2>7 DEF ScanInv, SecurityFound, QuotaFound, ChecksFound
<1>. QED  BY <1>1, <1>2, <1>3, <1>4, <1>5, <1>6, <1>7 DEF R!Next

\* A report is saved as the scan left it; no other step touches one.
LEMMA ReportsStep == ScanInv /\ ReportsInv /\ [R!Next]_(R!vars) => ReportsInv'
<1>. SUFFICES ASSUME ScanInv, ReportsInv, R!Next \/ UNCHANGED R!vars PROVE ReportsInv'
  OBVIOUS
<1>0. UNCHANGED shipped
  BY DEF R!Next, R!vars, R!Change, R!Sync, R!Cool, R!AnalyzerFails, R!StartScan, R!AnalyzeSecurity,
     R!AnalyzeInfrastructure, R!LiveClear, R!MergeChecks, R!Save
<1>1. CASE UNCHANGED reports
  BY <1>0, <1>1 DEF ReportsInv, SecurityFound, QuotaFound, ChecksFound, R!Findings, R!Problems
<1>2. CASE R!Save
  <2>. DEFINE e == [found |-> scan.found, seen |-> scan.seen, verdict |-> scan.verdict,
                    cleared |-> scan.cleared, score |-> R!Overall(scan.found, R!Failing)]
              n == Len(reports)
  <2>1. reports' = Append(reports, e)
    BY <1>2 DEF R!Save
  <2>2. scan.step = "save" /\ scan \in ScanRecords
    BY <1>2, ScanBusy DEF R!Save
  <2>3. scan.found \subseteq R!Findings /\ SecurityFound(scan) /\ QuotaFound(scan) /\ ChecksFound(scan)
    BY <2>2 DEF ScanInv, ScanRecords, R!Idle
  <2>4. e.found \subseteq R!Findings /\ SecurityFound(e) /\ QuotaFound(e) /\ ChecksFound(e)
    BY <2>3 DEF SecurityFound, QuotaFound, ChecksFound
  <2>. HIDE DEF e
  <2>5. PICK T : reports \in Seq(T)
    BY DEF ReportsInv
  <2>6. reports \in [1 .. n -> T \cup {e}] /\ n \in Nat
    BY <2>5
  <2>7. reports \in Seq(T \cup {e})
    BY <2>6, SeqDef
  <2>8. /\ reports' \in Seq(T \cup {e}) /\ Len(reports') = n + 1
        /\ \A k \in 1 .. n : reports'[k] = reports[k]
        /\ reports'[n + 1] = e
    BY <2>1, <2>7, AppendProperties
  <2>. HIDE DEF n
  <2>9. ASSUME NEW k \in 1 .. n + 1
        PROVE  /\ reports'[k].found \subseteq R!Findings
               /\ SecurityFound(reports'[k]) /\ QuotaFound(reports'[k]) /\ ChecksFound(reports'[k])
    <3>1. CASE k = n + 1
      BY <2>4, <2>8, <3>1
    <3>2. CASE k \in 1 .. n
      BY <2>8, <3>2 DEF ReportsInv, n
    <3>. QED  BY <2>6, <3>1, <3>2
  <2>10. \A k \in 1 .. Len(reports') :
           /\ reports'[k].found \subseteq R!Findings
           /\ SecurityFound(reports'[k]) /\ QuotaFound(reports'[k]) /\ ChecksFound(reports'[k])
    BY <2>8, <2>9
  <2>11. \E U : reports' \in Seq(U)
    BY <2>8
  <2>. QED  BY <1>0, <2>10, <2>11 DEF ReportsInv, SecurityFound, QuotaFound, ChecksFound, R!Findings, R!Problems
<1>3. ~ R!Save => UNCHANGED reports
  BY DEF R!Next, R!vars, R!Change, R!Sync, R!Cool, R!AnalyzerFails, R!StartScan, R!AnalyzeSecurity,
     R!AnalyzeInfrastructure, R!LiveClear, R!MergeChecks
<1>. QED  BY <1>1, <1>2, <1>3

\* Nothing has been scanned or saved at the start.
LEMMA ScanInit == R!Init => ScanInv /\ ReportsInv
<1>. SUFFICES ASSUME R!Init PROVE ScanInv /\ ReportsInv
  OBVIOUS
<1>1. ScanInv
  BY DEF R!Init, ScanInv
<1>2. reports \in Seq({}) /\ Len(reports) = 0
  BY EmptySeq DEF R!Init
<1>. QED  BY <1>1, <1>2 DEF ReportsInv

\* run_assessment and diff_assessments: for every order of pushes, analyzers,
\* model failures and cluster answers, a finding of the analyzers and checks
\* counts as resolved only when the snapshot no longer has its problem, the
\* cluster was seen to have what was missing, or the model judged the line.
THEOREM OnlyTheGoneIsResolved == PlatformSpec => []ResolvedIsGone
<1>1. PlatformInit => ScanInv /\ ReportsInv
  BY ScanInit DEF PlatformInit
<1>2. ScanInv /\ ReportsInv /\ [PlatformNext]_platformVars => (ScanInv /\ ReportsInv)'
  BY ScanInvStep, ReportsStep, ScanningStep
<1>3. ReportsInv => ResolvedIsGone
  <2>. SUFFICES ASSUME ReportsInv, NEW k \in R!Consecutive,
                       NEW f \in R!Resolved(reports[k-1], reports[k]) \ {"eol"}
                PROVE  R!Gone(f, reports[k])
    BY DEF ResolvedIsGone, R!ResolvedIsGone
  <2>1. k \in 1 .. Len(reports) /\ k - 1 \in 1 .. Len(reports)
    BY DEF R!Consecutive, ReportsInv
  <2>2. f \in reports[k-1].found /\ f \notin reports[k].found
    BY DEF R!Resolved
  <2>3. f \in {"plain", "secret", "quota", "quota-check"}
    BY <2>1, <2>2 DEF ReportsInv, R!Findings, R!Problems
  <2>4. SecurityFound(reports[k]) /\ QuotaFound(reports[k]) /\ ChecksFound(reports[k]) /\ ChecksFound(reports[k-1])
    BY <2>1 DEF ReportsInv
  <2>. QED  BY <2>2, <2>3, <2>4 DEF SecurityFound, QuotaFound, ChecksFound, R!Gone, R!Category
<1>. QED  BY <1>1, <1>2, <1>3, PTL DEF PlatformSpec

-----------------------------------------------------------------------------
(* The scores.                                                             *)

\* What division and remainder are.
LEMMA Division ==
  ASSUME NEW a \in Nat, NEW n \in Nat \ {0}
  PROVE  a \div n \in Nat /\ a % n \in Nat /\ a % n < n /\ a = n * (a \div n) + (a % n)
OBVIOUS

\* Products of greater numbers are greater.
LEMMA TimesMonotone ==
  ASSUME NEW a \in Nat, NEW b \in Nat, NEW c \in Nat, NEW d \in Nat, a <= b, c <= d
  PROVE  a * c <= b * d
OBVIOUS

\* A greater part of the controls never rounds to a smaller percentage, ties to even included.
LEMMA PercentMonotone ==
  ASSUME NEW p \in Nat, NEW n \in Nat \ {0}, NEW u \in Nat, NEW v \in Nat \ {0}, p * v <= u * n
  PROVE  R!Percent(p, n) \in Nat /\ R!Percent(u, v) \in Nat /\ R!Percent(p, n) <= R!Percent(u, v)
<1>. DEFINE q == (100 * p) \div n
            r == (100 * p) % n
            x == (100 * u) \div v
            y == (100 * u) % v
<1>1. q \in Nat /\ r \in Nat /\ r < n /\ 100 * p = n * q + r
  BY Division
<1>2. x \in Nat /\ y \in Nat /\ y < v /\ 100 * u = v * x + y
  BY Division
<1>. HIDE DEF q, r, x, y
<1>3. R!Percent(p, n) = IF 2 * r < n \/ (2 * r = n /\ q % 2 = 0) THEN q ELSE q + 1
  BY DEF R!Percent, q, r
<1>4. R!Percent(u, v) = IF 2 * y < v \/ (2 * y = v /\ x % 2 = 0) THEN x ELSE x + 1
  BY DEF R!Percent, x, y
<1>5. n * v * q + r * v <= v * n * x + y * n
  <2>1. (n * q + r) * v <= (v * x + y) * n
    BY <1>1, <1>2
  <2>. QED  BY <1>1, <1>2, <2>1
<1>6. q <= x
  <2>. SUFFICES ASSUME q >= x + 1 PROVE FALSE
    BY <1>1, <1>2
  <2>1. n * v * q >= n * v * (x + 1)
    BY <1>1, <1>2
  <2>2. y * n < v * n
    BY <1>1, <1>2
  <2>3. r * v >= 0
    BY <1>1, <1>2
  <2>. QED  BY <1>1, <1>2, <1>5, <2>1, <2>2, <2>3
<1>7. CASE q < x
  BY <1>1, <1>2, <1>3, <1>4, <1>7
<1>8. CASE q = x
  <2>1. r * v <= y * n
    BY <1>1, <1>2, <1>5, <1>8
  <2>2. 2 * r > n => 2 * y > v
    <3>. SUFFICES ASSUME 2 * r > n, 2 * y <= v PROVE FALSE
      BY <1>1, <1>2
    <3>1. 2 * r * v > n * v
      BY <1>1, <1>2
    <3>2. 2 * y * n <= v * n
      BY <1>1, <1>2
    <3>. QED  BY <1>1, <1>2, <2>1, <3>1, <3>2
  <2>3. 2 * r = n => 2 * y >= v
    <3>. SUFFICES ASSUME 2 * r = n, 2 * y < v PROVE FALSE
      BY <1>1, <1>2
    <3>1. 2 * r * v = n * v
      BY <1>1, <1>2
    <3>2. 2 * y * n < v * n
      BY <1>1, <1>2
    <3>. QED  BY <1>1, <1>2, <2>1, <3>1, <3>2
  <2>. QED  BY <1>1, <1>2, <1>3, <1>4, <1>8, <2>2, <2>3
<1>. QED  BY <1>1, <1>2, <1>6, <1>7, <1>8

\* The findings are finitely many; those of a set are counted with those of a greater one.
LEMMA FindingsCounted ==
  ASSUME NEW A, NEW B, A \subseteq B, B \subseteq R!Findings
  PROVE  R!Cardinality(A) \in Nat /\ R!Cardinality(B) \in Nat /\ R!Cardinality(A) <= R!Cardinality(B)
<1>1. IsFiniteSet(R!Findings)
  <2>1. R!Findings = {"plain", "secret", "eol", "quota", "quota-check"}
    BY DEF R!Findings, R!Problems
  <2>2. IsFiniteSet({"plain"} \cup {"secret"} \cup {"eol"} \cup {"quota"} \cup {"quota-check"})
    BY FS_Singleton, FS_Union
  <2>3. R!Findings = {"plain"} \cup {"secret"} \cup {"eol"} \cup {"quota"} \cup {"quota-check"}
    BY <2>1
  <2>. QED  BY <2>2, <2>3
<1>2. IsFiniteSet(B) /\ Cardinality(A) <= Cardinality(B)
  BY <1>1, FS_Subset
<1>3. Cardinality(A) \in Nat /\ Cardinality(B) \in Nat
  BY <1>2, FS_Subset, FS_CardinalityType
<1>4. \A T : R!Cardinality(T) = Cardinality(T)
  BY DEF R!Cardinality, Cardinality
<1>. QED  BY <1>2, <1>3, <1>4

\* The greater of two numbers.
LEMMA MaxOfTwo ==
  ASSUME NEW a \in Nat, NEW b \in Nat
  PROVE  R!Max({a, b}) = IF a >= b THEN a ELSE b
<1>1. \E m \in {a, b} : \A x \in {a, b} : m >= x
  <2>1. CASE a >= b
    BY <2>1
  <2>2. CASE b >= a
    BY <2>2
  <2>. QED  BY <2>1, <2>2
<1>. DEFINE m == R!Max({a, b})
<1>2. m \in {a, b} /\ \A x \in {a, b} : m >= x
  BY <1>1 DEF R!Max
<1>. HIDE DEF m
<1>. QED  BY <1>2 DEF m

\* calculate_dimension_score_v2: fewer findings and fewer failing checks never score lower.
LEMMA DimensionMonotone ==
  ASSUME NEW A, NEW B, A \subseteq B, B \subseteq R!Findings, NEW n \in Nat, NEW f \in Nat, NEW g \in Nat,
         f <= g, n > 0 => g <= n
  PROVE  /\ R!DimensionScore(A, n, f) \in Nat /\ R!DimensionScore(B, n, g) \in Nat
         /\ R!DimensionScore(B, n, g) <= R!DimensionScore(A, n, f)
<1>. DEFINE a == R!Cardinality(A)
            b == R!Cardinality(B)
<1>1. a \in Nat /\ b \in Nat /\ a <= b
  BY FindingsCounted
<1>. HIDE DEF a, b
<1>2. CASE n = 0
  <2>. DEFINE v == R!Max({Baseline, a})
              w == R!Max({Baseline, b})
  <2>1. v = (IF Baseline >= a THEN Baseline ELSE a) /\ w = (IF Baseline >= b THEN Baseline ELSE b)
    BY <1>1, ScoreAssumption, MaxOfTwo
  <2>. HIDE DEF v, w
  <2>2. v \in Nat \ {0} /\ w \in Nat \ {0} /\ v - a \in Nat /\ w - b \in Nat
    BY <1>1, <2>1, ScoreAssumption
  <2>3. a * w <= b * v
    <3>1. CASE w = b
      <4>1. a * b <= v * b
        BY <1>1, <2>2, TimesMonotone
      <4>. QED  BY <1>1, <2>2, <3>1, <4>1
    <3>2. CASE w = Baseline /\ v = Baseline
      BY <1>1, <2>2, <3>2, TimesMonotone
    <3>. QED  BY <1>1, <2>1, <3>1, <3>2, ScoreAssumption
  <2>4. (w - b) * v <= (v - a) * w
    BY <1>1, <2>2, <2>3
  <2>5. /\ R!DimensionScore(A, n, f) = R!Percent(v - a, v)
        /\ R!DimensionScore(B, n, g) = R!Percent(w - b, w)
    BY <1>2 DEF R!DimensionScore, v, w, a, b
  <2>. QED  BY <2>2, <2>4, <2>5, PercentMonotone
<1>3. CASE n > 0
  <2>1. n - f \in Nat /\ n - g \in Nat /\ n - g <= n - f
    BY <1>3
  <2>2. n + a \in Nat \ {0} /\ n + b \in Nat \ {0} /\ n + a <= n + b
    BY <1>1, <1>3
  <2>3. (n - g) * (n + a) <= (n - f) * (n + b)
    BY <2>1, <2>2, TimesMonotone
  <2>4. /\ R!DimensionScore(A, n, f) = R!Percent(n - f, n + a)
        /\ R!DimensionScore(B, n, g) = R!Percent(n - g, n + b)
    BY <1>3 DEF R!DimensionScore, a, b
  <2>. QED  BY <2>1, <2>2, <2>3, <2>4, PercentMonotone
<1>. QED  BY <1>2, <1>3

\* The score of a report of these findings.
ScoreFor(found) == R!Overall(found, found \cap {"quota-check"})

\* apply_score_model_v2 and weighted_overall_score: fewer findings never score lower.
LEMMA OverallMonotone ==
  ASSUME shipped \in Nat, NEW A, NEW B, A \subseteq B, B \subseteq R!Findings
  PROVE  ScoreFor(A) >= ScoreFor(B)
<1>1. ASSUME NEW d \in R!Dims
      PROVE  /\ R!ScoreOf(d, A, A \cap {"quota-check"}) \in Nat
             /\ R!ScoreOf(d, B, B \cap {"quota-check"}) \in Nat
             /\ R!ScoreOf(d, B, B \cap {"quota-check"}) <= R!ScoreOf(d, A, A \cap {"quota-check"})
  <2>. DEFINE AD == {f \in A : R!DimOf(f) = d}
              BD == {f \in B : R!DimOf(f) = d}
              AF == {f \in A \cap {"quota-check"} : R!DimOf(f) = d}
              BF == {f \in B \cap {"quota-check"} : R!DimOf(f) = d}
  <2>1. AD \subseteq BD /\ BD \subseteq R!Findings /\ AF \subseteq BF /\ BF \subseteq R!Findings
    OBVIOUS
  <2>2. /\ R!ScoreOf(d, A, A \cap {"quota-check"}) = R!DimensionScore(AD, R!Loaded(d), R!Cardinality(AF))
        /\ R!ScoreOf(d, B, B \cap {"quota-check"}) = R!DimensionScore(BD, R!Loaded(d), R!Cardinality(BF))
    BY DEF R!ScoreOf
  <2>3. R!Loaded(d) \in Nat
    BY DEF R!Loaded
  <2>4. R!Loaded(d) > 0 => R!Cardinality(BF) <= R!Loaded(d)
    <3>1. BF = {} \/ BF = {"quota-check"}
      OBVIOUS
    <3>2. Cardinality({}) = 0 /\ Cardinality({"quota-check"}) = 1
      BY FS_EmptySet, FS_Singleton
    <3>3. R!Cardinality(BF) = Cardinality(BF)
      BY DEF R!Cardinality, Cardinality
    <3>. HIDE DEF BF
    <3>4. R!Cardinality(BF) \in {0, 1}
      BY <3>1, <3>2, <3>3
    <3>. QED  BY <2>3, <3>4
  <2>5. R!Cardinality(AF) \in Nat /\ R!Cardinality(BF) \in Nat /\ R!Cardinality(AF) <= R!Cardinality(BF)
    BY <2>1, FindingsCounted
  <2>. HIDE DEF AD, BD, AF, BF
  <2>. QED  BY <2>1, <2>2, <2>3, <2>4, <2>5, DimensionMonotone
<1>2. "security" \in R!Dims /\ "infrastructure" \in R!Dims
  BY DEF R!Dims
<1>. DEFINE s(d, T) == R!ScoreOf(d, T, T \cap {"quota-check"})
<1>3. /\ s("security", A) \in Nat /\ s("security", B) \in Nat /\ s("security", B) <= s("security", A)
      /\ s("infrastructure", A) \in Nat /\ s("infrastructure", B) \in Nat
      /\ s("infrastructure", B) <= s("infrastructure", A)
  BY <1>1, <1>2
<1>4. /\ ScoreFor(A) = 115 * s("security", A) + 100 * s("infrastructure", A)
      /\ ScoreFor(B) = 115 * s("security", B) + 100 * s("infrastructure", B)
  BY DEF ScoreFor, R!Overall
<1>. HIDE DEF s
<1>. QED  BY <1>3, <1>4

\* Every report has the score of its findings.
ScoresInv ==
  /\ shipped \in Nat
  /\ \A k \in 1 .. Len(reports) : reports[k].score = ScoreFor(reports[k].found)

\* A report is scored when it is saved, with the checks that failed among its findings.
LEMMA ScoresStep == ScanInv /\ ReportsInv /\ ScoresInv /\ [R!Next]_(R!vars) => ScoresInv'
<1>. SUFFICES ASSUME ScanInv, ReportsInv, ScoresInv, R!Next \/ UNCHANGED R!vars PROVE ScoresInv'
  OBVIOUS
<1>0. UNCHANGED shipped
  BY DEF R!Next, R!vars, R!Change, R!Sync, R!Cool, R!AnalyzerFails, R!StartScan, R!AnalyzeSecurity,
     R!AnalyzeInfrastructure, R!LiveClear, R!MergeChecks, R!Save
<1>s. ASSUME NEW A, NEW s, s = ScoreFor(A) PROVE s = ScoreFor(A)'
  BY <1>0, <1>s DEF ScoreFor, R!Overall, R!ScoreOf, R!Loaded
<1>1. CASE UNCHANGED reports
  <2>1. ASSUME NEW k \in 1 .. Len(reports') PROVE reports'[k].score = ScoreFor(reports[k].found)'
    <3>1. PICK A, s : A = reports[k].found /\ s = reports[k].score
      OBVIOUS
    <3>2. s = ScoreFor(A)
      BY <1>1, <3>1 DEF ScoresInv
    <3>3. s = ScoreFor(A)'
      BY <1>s, <3>2
    <3>. QED  BY <1>1, <3>1, <3>3
  <2>. QED  BY <1>0, <2>1 DEF ScoresInv
<1>2. CASE R!Save
  <2>. DEFINE e == [found |-> scan.found, seen |-> scan.seen, verdict |-> scan.verdict,
                    cleared |-> scan.cleared, score |-> R!Overall(scan.found, R!Failing)]
              n == Len(reports)
  <2>1. reports' = Append(reports, e)
    BY <1>2 DEF R!Save
  <2>2. scan.step = "save" /\ scan \in ScanRecords
    BY <1>2, ScanBusy DEF R!Save
  <2>3. R!Failing = scan.found \cap {"quota-check"}
    BY <2>2 DEF ScanInv, R!Idle, ChecksFound, R!Failing
  <2>4. e.found = scan.found /\ e.score = ScoreFor(scan.found)
    BY <2>3 DEF ScoreFor
  <2>. HIDE DEF e
  <2>5. PICK T : reports \in Seq(T)
    BY DEF ReportsInv
  <2>6. /\ Len(reports') = n + 1 /\ n \in Nat
        /\ \A k \in 1 .. n : reports'[k] = reports[k]
        /\ reports'[n + 1] = e
    BY <2>1, <2>5
  <2>7. ASSUME NEW k \in 1 .. Len(reports') PROVE reports'[k].score = ScoreFor(reports[k].found)'
    <3>1. PICK A, s : A = reports'[k].found /\ s = reports'[k].score
      OBVIOUS
    <3>2. CASE k = n + 1
      <4>1. s = ScoreFor(A)
        BY <2>4, <2>6, <3>1, <3>2
      <4>2. s = ScoreFor(A)'
        BY <1>s, <4>1
      <4>. QED  BY <3>1, <4>2
    <3>3. CASE k \in 1 .. n
      <4>1. s = ScoreFor(A)
        BY <2>6, <3>1, <3>3 DEF ScoresInv
      <4>2. s = ScoreFor(A)'
        BY <1>s, <4>1
      <4>. QED  BY <3>1, <4>2
    <3>. QED  BY <2>6, <3>2, <3>3
  <2>. QED  BY <1>0, <2>7 DEF ScoresInv
<1>3. ~ R!Save => UNCHANGED reports
  BY DEF R!Next, R!vars, R!Change, R!Sync, R!Cool, R!AnalyzerFails, R!StartScan, R!AnalyzeSecurity,
     R!AnalyzeInfrastructure, R!LiveClear, R!MergeChecks
<1>. QED  BY <1>1, <1>2, <1>3

\* scoring.py and score_aggregate.py: whatever checks are shipped and whatever the
\* baseline, a report whose findings are all in the one before it never scores
\* lower, rounding half to even included.
THEOREM RepairsNeverCost == PlatformSpec => []RepairNeverLowersScore
<1>1. PlatformInit => ScanInv /\ ReportsInv /\ ScoresInv
  <2>1. ASSUME R!Init PROVE ScoresInv
    <3>1. Len(reports) = 0 /\ shipped \in Nat
      BY <2>1, EmptySeq, ScoreAssumption DEF R!Init
    <3>. QED  BY <3>1 DEF ScoresInv
  <2>. QED  BY <2>1, ScanInit DEF PlatformInit
<1>2. ScanInv /\ ReportsInv /\ ScoresInv /\ [PlatformNext]_platformVars
        => (ScanInv /\ ReportsInv /\ ScoresInv)'
  BY ScanInvStep, ReportsStep, ScoresStep, ScanningStep
<1>3. ReportsInv /\ ScoresInv => RepairNeverLowersScore
  <2>. SUFFICES ASSUME ReportsInv, ScoresInv, NEW k \in R!Consecutive,
                       reports[k].found \subseteq reports[k-1].found
                PROVE  reports[k].score >= reports[k-1].score
    BY DEF RepairNeverLowersScore, R!RepairNeverLowersScore
  <2>1. k \in 1 .. Len(reports) /\ k - 1 \in 1 .. Len(reports)
    BY DEF R!Consecutive, ReportsInv
  <2>2. ScoreFor(reports[k].found) >= ScoreFor(reports[k-1].found)
    BY <2>1, OverallMonotone DEF ReportsInv, ScoresInv
  <2>. QED  BY <2>1, <2>2 DEF ScoresInv
<1>. QED  BY <1>1, <1>2, <1>3, PTL DEF PlatformSpec

-----------------------------------------------------------------------------
(* The back-off of the learner.                                            *)

LoggedRuns == [age : Nat, skipped : SUBSET Skills, own : BOOLEAN]
RunsInv == runs \in Seq(LoggedRuns)

\* The learner's failures at s in the window, and those of either trigger.
Young(s) == {i \in L!InVain(s) : runs[i].age < Window}
Failed(s) == {i \in DOMAIN runs : s \in runs[i].skipped /\ runs[i].age < Window}

\* The learner counts as the library does.
LEMMA LearnCard == \A T : L!Cardinality(T) = Cardinality(T)
BY DEF L!Cardinality, Cardinality

\* What the property and the query count.
LEMMA BacksOffCounts ==
  /\ BacksOff <=> \A s \in Skills : Cardinality(Young(s)) <= Attempts
  /\ \A s : L!Failures(s) = Cardinality(Failed(s))
BY LearnCard DEF BacksOff, L!BacksOff, L!Failures, Young, Failed

\* Both sets are finite, and the learner's failures are among the failures.
LEMMA YoungAreFailed ==
  ASSUME RunsInv, NEW s
  PROVE  /\ IsFiniteSet(Young(s)) /\ Cardinality(Young(s)) \in Nat
         /\ Cardinality(Failed(s)) \in Nat /\ Cardinality(Young(s)) <= Cardinality(Failed(s))
<1>1. IsFiniteSet(DOMAIN runs)
  BY FS_Interval DEF RunsInv
<1>2. Failed(s) \subseteq DOMAIN runs /\ Young(s) \subseteq Failed(s)
  BY DEF Young, Failed, L!InVain
<1>3. IsFiniteSet(Failed(s))
  BY <1>1, <1>2, FS_Subset
<1>. QED  BY <1>2, <1>3, FS_Subset, FS_CardinalityType

\* What a logged run makes of the log.
LEMMA LoggedShape ==
  ASSUME RunsInv, NEW T \in SUBSET Skills, NEW own \in BOOLEAN
  PROVE  /\ L!Logged(T, own) \in Seq(LoggedRuns)
         /\ Len(L!Logged(T, own)) <= Len(runs) + 1
         /\ 1 <= Len(L!Logged(T, own)) =>
              L!Logged(T, own)[1] = [age |-> 0, skipped |-> T, own |-> own]
         /\ \A i \in 1 .. Len(runs) :
              i + 1 <= Len(L!Logged(T, own)) => L!Logged(T, own)[i + 1] = runs[i]
<1>. DEFINE e == [age |-> 0, skipped |-> T, own |-> own]
            g == <<e>> \o runs
            n == IF Len(g) < RunsRead THEN Len(g) ELSE RunsRead
<1>1. e \in LoggedRuns /\ <<e>> \in Seq(LoggedRuns) /\ Len(<<e>>) = 1 /\ <<e>>[1] = e
  BY DEF LoggedRuns
<1>2. runs \in Seq(LoggedRuns) /\ Len(runs) \in Nat /\ RunsRead \in Nat
  BY BackOffAssumption DEF RunsInv
<1>. HIDE DEF e
<1>3. /\ g \in Seq(LoggedRuns) /\ Len(g) = Len(runs) + 1 /\ g[1] = e
      /\ \A i \in 1 .. Len(runs) : g[i + 1] = runs[i]
  <2>1. g \in Seq(LoggedRuns) /\ Len(g) = Len(runs) + 1
    BY <1>1, <1>2
  <2>2. g[1] = e
    BY <1>1, <1>2
  <2>3. ASSUME NEW i \in 1 .. Len(runs) PROVE g[i + 1] = runs[i]
    BY <1>1, <1>2
  <2>. QED  BY <2>1, <2>2, <2>3
<1>4. L!Logged(T, own) = SubSeq(g, 1, n)
  BY DEF L!Logged, e
<1>. HIDE DEF g
<1>5. n \in Nat /\ n <= Len(g)
  BY <1>2, <1>3
<1>. HIDE DEF n
<1>6. SubSeq(g, 1, n) \in Seq(LoggedRuns) /\ Len(SubSeq(g, 1, n)) = n
      /\ \A i \in 1 .. n : SubSeq(g, 1, n)[i] = g[i]
  BY <1>3, <1>5
<1>7. ASSUME 1 <= n PROVE SubSeq(g, 1, n)[1] = e
  BY <1>3, <1>5, <1>6, <1>7
<1>8. ASSUME NEW i \in 1 .. Len(runs), i + 1 <= n PROVE SubSeq(g, 1, n)[i + 1] = runs[i]
  BY <1>2, <1>3, <1>5, <1>6, <1>8
<1>. QED  BY <1>3, <1>4, <1>5, <1>6, <1>7, <1>8 DEF e

\* A logged run pushes the others one position back; it is a failure of the
\* learner's when it is its own and skipped the skill.
LEMMA YoungShift ==
  ASSUME RunsInv, NEW T \in SUBSET Skills, NEW own \in BOOLEAN, runs' = L!Logged(T, own),
         NEW s \in Skills
  PROVE  /\ RunsInv'
         /\ Cardinality(Young(s)' \ {1}) <= Cardinality(Young(s))
         /\ 1 \in Young(s)' => own /\ s \in T
<1>1. /\ runs' \in Seq(LoggedRuns) /\ Len(runs') \in Nat /\ Len(runs') <= Len(runs) + 1
      /\ 1 <= Len(runs') => runs'[1] = [age |-> 0, skipped |-> T, own |-> own]
      /\ \A i \in 1 .. Len(runs) : i + 1 <= Len(runs') => runs'[i + 1] = runs[i]
  <2>1. runs' \in Seq(LoggedRuns)
    BY LoggedShape
  <2>. QED  BY <2>1, LoggedShape
<1>2. DOMAIN runs = 1 .. Len(runs) /\ Len(runs) \in Nat /\ DOMAIN runs' = 1 .. Len(runs')
  BY <1>1 DEF RunsInv
<1>3. RunsInv'
  BY <1>1 DEF RunsInv, LoggedRuns
<1>4. \A j : j \in Young(s)' => /\ j \in DOMAIN runs'
                                /\ runs'[j].own /\ s \in runs'[j].skipped /\ runs'[j].age < Window
  BY DEF Young, L!InVain
<1>5. ASSUME NEW j \in Young(s)' \ {1}
      PROVE  j - 1 \in Young(s) /\ j \in Nat
  <2>1. j \in 1 .. Len(runs') /\ j # 1
    BY <1>2, <1>4, <1>5
  <2>2. j - 1 \in 1 .. Len(runs) /\ (j - 1) + 1 = j /\ j <= Len(runs')
    BY <1>1, <1>2, <2>1
  <2>3. runs'[j] = runs[j - 1]
    BY <1>1, <2>2
  <2>. QED  BY <1>2, <1>4, <1>5, <2>1, <2>2, <2>3 DEF Young, L!InVain
<1>6. 1 \in Young(s)' => own /\ s \in T
  BY <1>1, <1>2, <1>4
<1>. DEFINE D == Young(s)' \ {1}
            g == [j \in D |-> j - 1]
<1>7. g \in Injection(D, Young(s))
  <2>1. g \in [D -> Young(s)]
    BY <1>5
  <2>2. ASSUME NEW j \in D, NEW k \in D, g[j] = g[k] PROVE j = k
    BY <1>5, <2>2
  <2>. HIDE DEF g, D
  <2>. QED  BY <2>1, <2>2 DEF Injection, IsInjective
<1>8. Cardinality(D) <= Cardinality(Young(s))
  BY <1>7, YoungAreFailed, FS_Injection
<1>. QED  BY <1>3, <1>6, <1>8

\* A run is logged: one of the learner's own that knew of the failures tried
\* nothing that had failed Attempts times.
LEMMA LogBacksOff ==
  ASSUME RunsInv, BacksOff, NEW T \in SUBSET Skills, NEW own \in BOOLEAN,
         own => \A s \in T : L!Failures(s) < Attempts,
         runs' \in {L!Logged(T, own), runs}
  PROVE  RunsInv' /\ BacksOff'
<1>1. CASE runs' = runs
  BY <1>1 DEF RunsInv, LoggedRuns, BacksOff, L!BacksOff, L!InVain
<1>2. CASE runs' = L!Logged(T, own)
  <2>0. RunsInv'
    BY <1>2, LoggedShape DEF RunsInv, LoggedRuns
  <2>1. ASSUME NEW s \in Skills PROVE Cardinality(Young(s)') <= Attempts
    <3>1. /\ Cardinality(Young(s)' \ {1}) <= Cardinality(Young(s))
          /\ 1 \in Young(s)' => own /\ s \in T
      BY <1>2, YoungShift
    <3>2. IsFiniteSet(Young(s)') /\ Cardinality(Young(s)') \in Nat
      <4>1. (RunsInv => IsFiniteSet(Young(s)) /\ Cardinality(Young(s)) \in Nat)'
        BY YoungAreFailed, PTL
      <4>. QED  BY <2>0, <4>1
    <3>3. /\ Cardinality(Young(s)) \in Nat /\ Cardinality(Young(s)) <= Attempts
          /\ Attempts \in Nat
      BY YoungAreFailed, BacksOffCounts, BackOffAssumption
    <3>4. CASE 1 \notin Young(s)'
      <4>1. Young(s)' \ {1} = Young(s)'
        BY <3>4
      <4>. QED  BY <3>1, <3>2, <3>3, <4>1
    <3>5. CASE 1 \in Young(s)'
      <4>1. Cardinality(Young(s)' \ {1}) = Cardinality(Young(s)') - 1
        BY <3>2, <3>5, FS_RemoveElement
      <4>2. Cardinality(Failed(s)) < Attempts
        BY <3>1, <3>5, BacksOffCounts
      <4>3. Cardinality(Young(s)) <= Cardinality(Failed(s)) /\ Cardinality(Failed(s)) \in Nat
        BY YoungAreFailed
      <4>. QED  BY <3>1, <3>2, <3>3, <4>1, <4>2, <4>3
    <3>. QED  BY <3>4, <3>5
  <2>2. (BacksOff <=> \A s \in Skills : Cardinality(Young(s)) <= Attempts)'
    BY BacksOffCounts, PTL
  <2>. QED  BY <2>0, <2>1, <2>2
<1>. QED  BY <1>1, <1>2

\* A tick that improves logs what it tried in vain.
LEMMA ImproveBacksOff ==
  ASSUME RunsInv, BacksOff, L!Improve PROVE RunsInv' /\ BacksOff'
<1>1. PICK low \in L!LowEffectiveness, seen \in BOOLEAN :
        LET flagged == low \cup L!IdenticalRejects
            eligible == {s \in flagged : seen => L!Failures(s) < Attempts}
        IN \E tried \in L!Chosen(eligible) :
             \E t \in L!Trial(tried, OnDisk) :
               /\ t.saved \cup t.skipped # {}
               /\ L!LogRun(t.skipped, seen)
  BY DEF L!Improve
<1>. DEFINE eligible == {s \in low \cup L!IdenticalRejects : seen => L!Failures(s) < Attempts}
<1>2. PICK tried \in L!Chosen(eligible) : \E t \in L!Trial(tried, OnDisk) : L!LogRun(t.skipped, seen)
  BY <1>1
<1>3. PICK t \in L!Trial(tried, OnDisk) : L!LogRun(t.skipped, seen)
  BY <1>2
<1>4. low \subseteq Skills /\ L!IdenticalRejects \subseteq Skills
  BY DEF L!LowEffectiveness, L!IdenticalRejects
<1>5. tried \subseteq eligible /\ t.skipped \subseteq tried
  BY DEF L!Chosen, L!Trial
<1>6. t.skipped \in SUBSET Skills /\ (seen => \A s \in t.skipped : L!Failures(s) < Attempts)
  BY <1>4, <1>5
<1>7. runs' \in {L!Logged(t.skipped, seen), runs}
  BY <1>3 DEF L!LogRun
<1>. QED  BY <1>6, <1>7, LogBacksOff

\* The clock only makes runs older.
LEMMA PassBacksOff ==
  ASSUME RunsInv, BacksOff, L!Pass PROVE RunsInv' /\ BacksOff'
<1>1. /\ runs \in [1 .. Len(runs) -> LoggedRuns] /\ Len(runs) \in Nat
      /\ DOMAIN runs = 1 .. Len(runs) /\ Window \in Nat
  BY BackOffAssumption DEF RunsInv
<1>2. /\ DOMAIN runs' = 1 .. Len(runs)
      /\ \A i \in 1 .. Len(runs) :
           runs'[i] = [runs[i] EXCEPT !.age = IF @ < Window THEN @ + 1 ELSE @]
  BY <1>1 DEF L!Pass
<1>3. ASSUME NEW i \in 1 .. Len(runs)
      PROVE  /\ runs'[i] \in LoggedRuns
             /\ runs'[i].skipped = runs[i].skipped /\ runs'[i].own = runs[i].own
             /\ runs'[i].age < Window => runs[i].age < Window
  <2>1. runs[i] \in LoggedRuns
    BY <1>1
  <2>. QED  BY <1>1, <1>2, <2>1 DEF LoggedRuns
<1>4. runs' \in [1 .. Len(runs) -> LoggedRuns]
  BY <1>2, <1>3 DEF L!Pass
<1>5. RunsInv'
  <2>1. runs' \in Seq(LoggedRuns)
    BY <1>1, <1>4, SeqDef
  <2>. QED  BY <2>1 DEF RunsInv, LoggedRuns
<1>6. ASSUME NEW s \in Skills PROVE Cardinality(Young(s)') <= Attempts
  <2>1. Young(s)' \subseteq Young(s)
    BY <1>1, <1>2, <1>3 DEF Young, L!InVain
  <2>2. IsFiniteSet(Young(s)) /\ Cardinality(Young(s)) \in Nat /\ Cardinality(Young(s)) <= Attempts
    BY YoungAreFailed, BacksOffCounts
  <2>3. Cardinality(Young(s)') <= Cardinality(Young(s)) /\ Cardinality(Young(s)') \in Nat
    BY <2>1, <2>2, FS_Subset, FS_CardinalityType
  <2>. QED  BY <2>2, <2>3, BackOffAssumption
<1>7. (BacksOff <=> \A s \in Skills : Cardinality(Young(s)) <= Attempts)'
  BY BacksOffCounts, PTL
<1>. QED  BY <1>5, <1>6, <1>7

\* Every other step leaves the log alone, or adds a run that is not the learner's.
LEMMA BackStep == RunsInv /\ BacksOff /\ [L!Next]_(L!vars) => RunsInv' /\ BacksOff'
<1>. SUFFICES ASSUME RunsInv, BacksOff, L!Next \/ UNCHANGED L!vars PROVE RunsInv' /\ BacksOff'
  OBVIOUS
<1>1. ASSUME UNCHANGED runs PROVE RunsInv' /\ BacksOff'
  BY <1>1 DEF RunsInv, LoggedRuns, BacksOff, L!BacksOff, L!InVain
<1>2. UNCHANGED L!vars => UNCHANGED runs
  BY DEF L!vars
<1>3. (\E a \in Apps : L!Scan(a) \/ \E s \in Skills : L!Dispatch(a, s) \/ L!RecordOutcome(a, s))
        => UNCHANGED runs
  BY DEF L!Scan, L!Dispatch, L!RecordOutcome
<1>4. (\E p \in L!Pairs : L!ClearCooldown(p)) => UNCHANGED runs
  BY DEF L!ClearCooldown
<1>5. L!Startup \/ L!StartupBlind \/ L!WakeUp \/ L!RecordTick \/ L!Restart => UNCHANGED runs
  BY DEF L!Startup, L!StartupBlind, L!WakeUp, L!RecordTick, L!Restart
<1>6. ASSUME NEW T \in SUBSET Skills, runs' \in {L!Logged(T, FALSE), runs}
      PROVE  RunsInv' /\ BacksOff'
  BY <1>6, LogBacksOff
<1>7. ASSUME L!NoModel \/ L!Sweep \/ L!LearnFails PROVE RunsInv' /\ BacksOff'
  <2>1. runs' \in {L!Logged({}, FALSE), runs}
    BY <1>7 DEF L!NoModel, L!Sweep, L!LearnFails, L!LogRun
  <2>2. {} \in SUBSET Skills
    OBVIOUS
  <2>. QED  BY <1>6, <2>1, <2>2
<1>8. ASSUME L!LearnNow PROVE RunsInv' /\ BacksOff'
  <2>1. PICK low \in L!LowEffectiveness : \E tried \in L!Chosen(low) :
          \E t \in L!Trial(tried, Skills) : runs' = L!Logged(t.skipped, FALSE)
    BY <1>8 DEF L!LearnNow
  <2>2. PICK tried \in L!Chosen(low) :
          \E t \in L!Trial(tried, Skills) : runs' = L!Logged(t.skipped, FALSE)
    BY <2>1
  <2>3. PICK t \in L!Trial(tried, Skills) : runs' = L!Logged(t.skipped, FALSE)
    BY <2>2
  <2>4. low \subseteq Skills /\ tried \subseteq low /\ t.skipped \subseteq tried
    BY DEF L!LowEffectiveness, L!Chosen, L!Trial
  <2>. QED  BY <1>6, <2>3, <2>4
<1>. QED
  BY <1>1, <1>2, <1>3, <1>4, <1>5, <1>7, <1>8, ImproveBacksOff, PassBacksOff DEF L!Next

\* get_skills_in_improvement_cooldown: for any window, interval and number of
\* attempts, whatever is recorded, restarted or learned by hand in between, the
\* log shows no window in which the learner, knowing of what had failed, tried
\* one skill in vain more than Attempts times.
THEOREM LearnerBacksOff == PlatformSpec => []BacksOff
<1>1. PlatformInit => RunsInv /\ BacksOff
  <2>. SUFFICES ASSUME PlatformInit PROVE RunsInv /\ BacksOff
    OBVIOUS
  <2>1. runs = <<>>
    BY DEF PlatformInit, L!Init
  <2>2. RunsInv
    BY <2>1, EmptySeq DEF RunsInv
  <2>3. ASSUME NEW s \in Skills PROVE Cardinality(Young(s)) <= Attempts
    <3>1. Young(s) = {}
      BY <2>1 DEF Young, L!InVain
    <3>. QED  BY <3>1, FS_EmptySet, BackOffAssumption
  <2>. QED  BY <2>2, <2>3, BacksOffCounts
<1>2. RunsInv /\ BacksOff /\ [PlatformNext]_platformVars => (RunsInv /\ BacksOff)'
  BY BackStep, LearningStep
<1>. QED  BY <1>1, <1>2, PTL DEF PlatformSpec
=============================================================================
