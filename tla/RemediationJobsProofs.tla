----------------------- MODULE RemediationJobsProofs -----------------------
(***************************************************************************)
(* Proofs about RemediationJobs: the reaper and an onboard runner never    *)
(* contradict each other, for every number of jobs and all timings with    *)
(* GenTimeout + SideBound + DeliverTimeout <= ReapAge.                     *)
(***************************************************************************)
EXTENDS RemediationJobs, TLAPS

\* The age of an onboard job when its runner entered phase p, at most.
Entry(p) ==
  CASE p = "side" -> GenTimeout
    [] p = "deliver" -> GenTimeout + SideBound
    [] OTHER -> 0

\* A live onboard runner is within its time, and its row is not terminal.
OnTime(j) ==
  /\ pc[j] \in {"start", "generate", "side", "deliver"}
  /\ status[j] \in {"pending", "running"}
  /\ age[j] <= Entry(pc[j]) + t[j]
  /\ pc[j] = "start" => t[j] = 0
  /\ pc[j] # "start" => t[j] <= Limit(pc[j])

\* Between create_remediation_job and the scheduling, the chained row is fresh and
\* belongs to one assess job.
Chained(j) ==
  /\ kind[j] = "assess"
  /\ next[j] \in Jobs
  /\ kind[next[j]] = "onboard"
  /\ pc[next[j]] = "off" /\ status[next[j]] = "pending"
  /\ age[next[j]] = 0 /\ t[next[j]] = 0

Chaining(j) == pc[j] \in {"chained", "schedule"}

OnboardInv == \A j \in Jobs : kind[j] = "onboard" /\ Live(j) => OnTime(j)

ChainInv ==
  /\ \A j \in Jobs : Chaining(j) => Chained(j)
  /\ \A i, j \in Jobs : Chaining(i) /\ Chaining(j) /\ next[i] = next[j] => i = j

AssessPhases == {"clone", "saving", "chained", "schedule"}

AssessInv ==
  \A j \in Jobs :
    /\ Live(j) => (kind[j] = "assess" <=> pc[j] \in AssessPhases)
    /\ kind[j] = "none" => pc[j] = "off" /\ t[j] = 0 /\ age[j] = 0 /\ status[j] = "none"
    /\ next[j] \in Jobs => kind[next[j]] = "onboard"
    /\ kind[j] = "assess" /\ chain[j] /\ status[j] = "completed" => next[j] \in Jobs
    /\ kind[j] # "assess" => ~chain[j] /\ next[j] = NoJob

IInv == TypeOK /\ OnboardInv /\ ChainInv /\ AssessInv

-----------------------------------------------------------------------------
(* The invariant holds initially. *)

\* No row and no runner: every conjunct holds vacuously.
LEMMA InitIInv == Init => IInv
<1> SUFFICES ASSUME Init PROVE IInv
  OBVIOUS
<1>1. TypeOK
  BY JobsAssumption, TimingAssumption DEF Init, TypeOK, Kinds, Statuses, Phases
<1>2. OnboardInv
  BY DEF Init, OnboardInv
<1>3. ChainInv
  BY DEF Init, ChainInv, Chaining
<1>4. AssessInv
  BY JobsAssumption DEF Init, AssessInv, Live
<1> QED BY <1>1, <1>2, <1>3, <1>4 DEF IInv

-----------------------------------------------------------------------------
(* Steps of one runner that leave the other jobs alone. *)

\* A runner that writes status s to its own row and goes on to phase p, where p is
\* "off" if it ends: the invariant survives if the row keeps its promises.
LEMMA WriteStep ==
  ASSUME IInv, NEW j \in Jobs, NEW s \in Statuses, NEW p \in Phases,
         Live(j), Write(j, s, p), UNCHANGED <<kind, age, chain, next>>,
         p # "off" => (kind[j] = "assess" <=> p \in AssessPhases),
         p \in {"chained", "schedule"} => Chaining(j),
         kind[j] = "assess" /\ chain[j] /\ s = "completed" => next[j] \in Jobs,
         kind[j] = "onboard" /\ p # "off" =>
           /\ p \in {"generate", "side", "deliver"}
           /\ s \in {"pending", "running"}
           /\ age[j] <= Entry(p)
  PROVE  IInv'
<1> USE DEF Live
<1>1. TypeOK'
  BY DEF IInv, TypeOK, Write
<1>2. kind[j] # "none"
  BY DEF IInv, AssessInv
<1>3. \A i \in Jobs : Chaining(i) => next[i] # j
  BY DEF IInv, ChainInv, Chained
<1>4. \A i \in Jobs : Chaining(i)' => Chaining(i)
  BY DEF IInv, TypeOK, Write, Chaining
<1>5. \A i \in Jobs : i # j => pc'[i] = pc[i] /\ status'[i] = status[i] /\ t'[i] = t[i]
  BY DEF IInv, TypeOK, Write
<1>6. pc'[j] = p /\ status'[j] = s /\ t'[j] = 0
  BY DEF IInv, TypeOK, Write
<1>7. OnboardInv'
  <2> SUFFICES ASSUME NEW i \in Jobs, kind[i] = "onboard", pc'[i] # "off"
               PROVE  OnTime(i)'
    BY DEF OnboardInv
  <2>1. CASE i # j
    BY <2>1, <1>5 DEF IInv, OnboardInv, OnTime, Entry, Limit
  <2>2. CASE i = j
    <3>1. Entry(p) \in Nat /\ age[j] \in Nat /\ 0 <= Limit(p)
      BY <2>2, <1>6, TimingAssumption DEF Entry, Limit, IInv, TypeOK
    <3>2. age[j] <= Entry(p) + 0
      BY <2>2, <1>6, <3>1
    <3> QED BY <2>2, <1>6, <3>1, <3>2 DEF OnTime
  <2> QED BY <2>1, <2>2
<1>8. ChainInv'
  BY <1>3, <1>4, <1>5 DEF IInv, ChainInv, Chained
<1>9. AssessInv'
  <2> SUFFICES ASSUME NEW i \in Jobs
               PROVE /\ pc'[i] # "off" => (kind[i] = "assess" <=> pc'[i] \in AssessPhases)
                     /\ kind[i] = "none" => pc'[i] = "off" /\ t'[i] = 0 /\ age[i] = 0 /\ status'[i] = "none"
                     /\ next[i] \in Jobs => kind[next[i]] = "onboard"
                     /\ kind[i] = "assess" /\ chain[i] /\ status'[i] = "completed" => next[i] \in Jobs
                     /\ kind[i] # "assess" => ~chain[i] /\ next[i] = NoJob
    BY DEF AssessInv
  <2>1. CASE i # j
    BY <2>1, <1>5 DEF IInv, AssessInv
  <2>2. CASE i = j
    BY <2>2, <1>2, <1>6 DEF IInv, AssessInv
  <2> QED BY <2>1, <2>2
<1> QED BY <1>1, <1>7, <1>8, <1>9 DEF IInv

\* Every report of a runner about its own row is such a write: an onboard runner enters
\* a phase no later than the limits of the phases before it allow.
LEMMA ReportStep ==
  ASSUME IInv, NEW j \in Jobs,
         \/ AssessFails(j) \/ AssessSaves(j) \/ AssessCompletes(j) \/ ScheduleFails(j)
         \/ StartFails(j) \/ OnboardStarts(j) \/ ValidationStarts(j)
         \/ Generated(j) \/ GenerationTimesOut(j) \/ WebhookRegistered(j)
         \/ Delivered(j) \/ DeliveryTimesOut(j) \/ RunRaises(j)
  PROVE  IInv'
<1> USE DEF Live, Statuses, Phases, Chaining, AssessPhases
<1>1. kind[j] = "onboard" /\ Live(j) => OnTime(j)
  BY DEF IInv, OnboardInv
<1>2. Live(j) => (kind[j] = "assess" <=> pc[j] \in AssessPhases)
  BY DEF IInv, AssessInv
<1>3. Chaining(j) => next[j] \in Jobs
  BY DEF IInv, ChainInv, Chained
<1>4. status[j] \in Statuses /\ t[j] \in Nat /\ age[j] \in Nat
  BY TimingAssumption DEF IInv, TypeOK
<1>5. CASE AssessFails(j) \/ ScheduleFails(j) \/ StartFails(j) \/ RunRaises(j)
  BY <1>2, <1>5, WriteStep DEF AssessFails, ScheduleFails, StartFails, RunRaises, Finish
<1>6. CASE AssessSaves(j)
  BY <1>6, <1>2, WriteStep DEF AssessSaves, Advance
<1>7. CASE AssessCompletes(j)
  <2>1. CASE pc[j] = "saving" /\ ~chain[j] /\ Finish(j, "completed")
    BY <2>1, WriteStep DEF Finish
  <2>2. CASE pc[j] = "chained" /\ Advance(j, "completed", "schedule")
    BY <2>2, <1>2, <1>3, WriteStep DEF Advance
  <2> QED BY <1>7, <2>1, <2>2 DEF AssessCompletes
<1>8. CASE GenerationTimesOut(j) \/ Delivered(j) \/ DeliveryTimesOut(j)
  <2>1. PICK s \in {"completed", "failed", "needs_attention"} : Finish(j, s)
    BY <1>8 DEF GenerationTimesOut, Delivered, DeliveryTimesOut
  <2>2. pc[j] \in {"generate", "deliver"}
    BY <1>8 DEF GenerationTimesOut, Delivered, DeliveryTimesOut
  <2> QED BY <1>2, <2>1, <2>2, WriteStep DEF Finish
<1>9. CASE OnboardStarts(j)
  <2>1. age[j] <= Entry("generate")
    BY <1>9, <1>1, <1>4 DEF OnboardStarts, OnTime, Entry
  <2> QED BY <1>2, <1>9, <2>1, WriteStep DEF OnboardStarts, Advance
<1>10. CASE ValidationStarts(j)
  BY <1>2, <1>10, <1>4, WriteStep DEF ValidationStarts, Advance
<1>11. CASE Generated(j)
  <2>1. kind[j] = "onboard" => age[j] <= Entry("side")
    BY <1>11, <1>1, <1>4, TimingAssumption DEF Generated, OnTime, Entry, Limit
  <2> QED BY <1>2, <1>11, <2>1, WriteStep DEF Generated, Advance
<1>12. CASE WebhookRegistered(j)
  <2>1. kind[j] = "onboard" => age[j] <= Entry("deliver")
    BY <1>12, <1>1, <1>4, TimingAssumption DEF WebhookRegistered, OnTime, Entry, Limit
  <2> QED BY <1>2, <1>12, <2>1, WriteStep DEF WebhookRegistered, Advance
<1> QED BY <1>5, <1>6, <1>7, <1>8, <1>9, <1>10, <1>11, <1>12

\* A runner that vanishes leaves its row behind, which only the reaper will change.
LEMMA DieStep ==
  ASSUME IInv, NEW S \in SUBSET Jobs,
         pc' = [j \in Jobs |-> IF j \in S THEN "off" ELSE pc[j]],
         UNCHANGED <<kind, status, t, age, chain, next>>
  PROVE  IInv'
<1>1. TypeOK'
  BY DEF IInv, TypeOK, Phases
<1>2. \A j \in Jobs : pc'[j] = pc[j] \/ pc'[j] = "off"
  OBVIOUS
<1>3. OnboardInv'
  BY <1>2 DEF IInv, OnboardInv, OnTime, Live, Entry, Limit
<1>4. ChainInv'
  BY <1>2 DEF IInv, ChainInv, Chained, Chaining
<1>5. AssessInv'
  BY <1>2 DEF IInv, AssessInv, Live
<1> QED BY <1>1, <1>3, <1>4, <1>5 DEF IInv

-----------------------------------------------------------------------------
(* Steps that create a row, link two jobs or touch every job. *)

\* A new row is fresh, and no chaining assess job refers to it.
LEMMA CreateStep ==
  ASSUME IInv, NEW j \in Jobs, kind[j] = "none",
         NEW k \in Kinds \ {"none"}, NEW s \in {"pending", "assessing"},
         NEW p \in {"clone", "start"}, NEW c \in BOOLEAN,
         kind' = [kind EXCEPT ![j] = k],
         chain' = [chain EXCEPT ![j] = c],
         Write(j, s, p), UNCHANGED <<age, next>>,
         k = "assess" <=> p = "clone",
         k = "assess" <=> s = "assessing",
         c => k = "assess"
  PROVE  IInv'
<1> USE DEF Live
<1>1. TypeOK'
  BY DEF IInv, TypeOK, Write, Kinds, Statuses, Phases
<1>2. \A i \in Jobs : i # j => /\ pc'[i] = pc[i] /\ status'[i] = status[i] /\ t'[i] = t[i]
                               /\ kind'[i] = kind[i] /\ chain'[i] = chain[i]
  BY DEF IInv, TypeOK, Write
<1>3. /\ pc'[j] = p /\ status'[j] = s /\ t'[j] = 0 /\ kind'[j] = k /\ chain'[j] = c
      /\ age[j] = 0 /\ next[j] = NoJob
  BY DEF IInv, TypeOK, AssessInv, Write
<1>4. \A i \in Jobs : next[i] # j
  BY JobsAssumption DEF IInv, AssessInv
<1>5. OnboardInv'
  <2> SUFFICES ASSUME NEW i \in Jobs, kind'[i] = "onboard", pc'[i] # "off"
               PROVE  OnTime(i)'
    BY DEF OnboardInv
  <2>1. CASE i # j
    BY <2>1, <1>2 DEF IInv, OnboardInv, OnTime, Entry, Limit
  <2>2. CASE i = j
    <3>1. p = "start" /\ s = "pending" /\ 0 <= Entry("start") + 0
      BY <2>2, <1>3 DEF Entry
    <3> QED BY <2>2, <1>3, <3>1 DEF OnTime
  <2> QED BY <2>1, <2>2
<1>6. ChainInv'
  <2>1. ~Chaining(j)'
    BY <1>3 DEF Chaining
  <2>2. \A i \in Jobs : Chaining(i)' => Chaining(i)
    BY <2>1, <1>2 DEF Chaining
  <2> QED BY <2>1, <2>2, <1>2, <1>4 DEF IInv, ChainInv, Chained
<1>7. AssessInv'
  <2>1. ASSUME NEW i \in Jobs, next[i] \in Jobs PROVE kind'[next[i]] = "onboard"
    BY <2>1, <1>2, <1>4 DEF IInv, AssessInv
  <2> QED BY <2>1, <1>2, <1>3 DEF IInv, AssessInv, AssessPhases
<1> QED BY <1>1, <1>5, <1>6, <1>7 DEF IInv

\* The chained onboard row is new, so it belongs to this assess job alone.
LEMMA ChainStep ==
  ASSUME IInv, NEW j \in Jobs, NEW o \in Jobs, ChainOnboard(j, o)
  PROVE  IInv'
<1> USE DEF Live
<1>1. TypeOK'
  BY DEF IInv, TypeOK, ChainOnboard, Kinds, Statuses, Phases
<1>2. /\ pc[j] = "saving" /\ kind[j] = "assess" /\ o # j
      /\ pc[o] = "off" /\ t[o] = 0 /\ age[o] = 0 /\ status[o] = "none"
      /\ ~chain[o] /\ next[o] = NoJob
  BY DEF IInv, AssessInv, AssessPhases, ChainOnboard
<1>3. /\ kind' = [kind EXCEPT ![o] = "onboard"]
      /\ status' = [status EXCEPT ![o] = "pending"]
      /\ next' = [next EXCEPT ![j] = o]
      /\ pc' = [pc EXCEPT ![j] = "chained"]
      /\ t' = [t EXCEPT ![j] = 0]
      /\ age' = age /\ chain' = chain
  BY DEF ChainOnboard
<1>4. /\ kind'[o] = "onboard" /\ status'[o] = "pending" /\ pc'[o] = "off" /\ t'[o] = 0
      /\ next'[o] = NoJob
      /\ kind'[j] = "assess" /\ status'[j] = status[j] /\ pc'[j] = "chained" /\ next'[j] = o
  BY <1>2, <1>3 DEF IInv, TypeOK
<1>5. \A i \in Jobs \ {j, o} :
        /\ kind'[i] = kind[i] /\ status'[i] = status[i] /\ pc'[i] = pc[i]
        /\ t'[i] = t[i] /\ next'[i] = next[i]
  BY <1>3 DEF IInv, TypeOK
<1>6. \A i \in Jobs : next[i] # o
  BY <1>2, JobsAssumption DEF IInv, AssessInv, ChainOnboard
<1>7. \A i \in Jobs : Chaining(i) => next[i] # j
  BY <1>2 DEF IInv, ChainInv, Chained
<1>8. OnboardInv'
  BY <1>3, <1>4, <1>5 DEF IInv, OnboardInv, OnTime, Entry, Limit
<1>9. ChainInv'
  <2>1. Chained(j)'
    BY <1>2, <1>3, <1>4 DEF Chained
  <2>2. \A i \in Jobs : Chaining(i)' => i = j \/ (i # o /\ Chaining(i))
    BY <1>4, <1>5 DEF Chaining
  <2>3. ASSUME NEW i \in Jobs \ {j, o}, Chaining(i)  PROVE Chained(i)' /\ next'[i] # o
    <3>1. Chained(i) /\ next[i] \in Jobs \ {j, o}
      BY <2>3, <1>6, <1>7 DEF IInv, ChainInv, Chained
    <3> QED BY <3>1, <1>3, <1>5, <1>6 DEF Chained
  <2> QED BY <2>1, <2>2, <2>3, <1>4, <1>5 DEF IInv, ChainInv
<1>10. AssessInv'
  <2>1. ASSUME NEW i \in Jobs, next'[i] \in Jobs PROVE kind'[next'[i]] = "onboard"
    <3>1. CASE i = j
      BY <3>1, <1>4
    <3>2. CASE i = o
      BY <2>1, <3>2, <1>4, JobsAssumption
    <3>3. CASE i \notin {j, o}
      <4>1. kind[next[i]] = "onboard" /\ next[i] \notin {j, o}
        BY <2>1, <3>3, <1>2, <1>5, <1>6 DEF IInv, AssessInv
      <4> QED BY <2>1, <3>3, <4>1, <1>5
    <3> QED BY <3>1, <3>2, <3>3
  <2> QED BY <2>1, <1>2, <1>3, <1>4, <1>5 DEF IInv, AssessInv, AssessPhases
<1> QED BY <1>1, <1>8, <1>9, <1>10 DEF IInv

\* The chained onboard runner starts on a row that is as fresh as when it was created.
LEMMA ScheduleStep ==
  ASSUME IInv, NEW j \in Jobs, ScheduleOnboard(j)
  PROVE  IInv'
<1> USE DEF Live
<1>1. PICK o \in Jobs :
      /\ o = next[j] /\ pc[j] = "schedule" /\ kind[j] = "assess" /\ o # j
      /\ kind[o] = "onboard" /\ pc[o] = "off" /\ status[o] = "pending"
      /\ age[o] = 0 /\ t[o] = 0
  BY DEF IInv, ChainInv, Chained, Chaining, ScheduleOnboard
<1>2. pc' = [pc EXCEPT ![j] = "off", ![o] = "start"] /\ UNCHANGED <<kind, status, t, age, chain, next>>
  BY <1>1 DEF ScheduleOnboard
<1>3. \A i \in Jobs : Chaining(i) /\ i # j => next[i] # o
  BY <1>1 DEF IInv, ChainInv, Chaining
<1>4. TypeOK'
  BY <1>1, <1>2 DEF IInv, TypeOK, Phases
<1>5. /\ pc'[j] = "off" /\ pc'[o] = "start"
      /\ \A i \in Jobs \ {j, o} : pc'[i] = pc[i]
  BY <1>1, <1>2 DEF IInv, TypeOK
<1>6. OnboardInv'
  <2>1. 0 <= Entry("start") + 0
    BY DEF Entry
  <2>2. OnTime(o)'
    BY <1>1, <1>2, <1>5, <2>1 DEF OnTime
  <2>3. ASSUME NEW i \in Jobs \ {j, o}, kind[i] = "onboard", pc[i] # "off" PROVE OnTime(i)'
    BY <2>3, <1>2, <1>5 DEF IInv, OnboardInv, OnTime, Entry, Limit
  <2> QED BY <2>2, <2>3, <1>2, <1>5 DEF OnboardInv
<1>7. ChainInv'
  <2>1. \A i \in Jobs : Chaining(i)' => i \notin {j, o} /\ Chaining(i)
    BY <1>5 DEF Chaining
  <2>2. ASSUME NEW i \in Jobs \ {j, o}, Chaining(i) PROVE Chained(i)'
    <3>1. Chained(i) /\ next[i] # o /\ next[i] # j
      BY <2>2, <1>1, <1>3 DEF IInv, ChainInv, Chained
    <3> QED BY <3>1, <1>2, <1>5 DEF Chained
  <2> QED BY <2>1, <2>2, <1>2 DEF IInv, ChainInv
<1>8. AssessInv'
  <2>1. ASSUME NEW i \in Jobs, pc'[i] # "off"
        PROVE  kind[i] = "assess" <=> pc'[i] \in AssessPhases
    BY <2>1, <1>1, <1>5 DEF IInv, AssessInv, AssessPhases
  <2>2. ASSUME NEW i \in Jobs, kind[i] = "none" PROVE pc'[i] = "off"
    BY <2>2, <1>1, <1>5 DEF IInv, AssessInv
  <2> QED BY <2>1, <2>2, <1>2 DEF IInv, AssessInv
<1> QED BY <1>4, <1>6, <1>7, <1>8 DEF IInv

\* auto-delivery's progress reports keep the row non-terminal.
LEMMA ProgressStep ==
  ASSUME IInv, NEW j \in Jobs, Progress(j)
  PROVE  IInv'
<1>1. /\ pc[j] = "deliver" /\ Live(j) /\ ~Chaining(j) /\ kind[j] # "none"
      /\ status' = [status EXCEPT ![j] = "running"]
      /\ UNCHANGED <<kind, pc, t, age, chain, next>>
  BY DEF Progress, Live, Chaining, IInv, AssessInv
<1>2. TypeOK'
  BY <1>1 DEF IInv, TypeOK, Statuses
<1>3. OnboardInv'
  BY <1>1 DEF IInv, TypeOK, OnboardInv, OnTime, Live, Entry, Limit
<1>4. ChainInv'
  BY <1>1 DEF IInv, TypeOK, ChainInv, Chained, Chaining
<1>5. AssessInv'
  BY <1>1 DEF IInv, TypeOK, AssessInv, Live
<1> QED BY <1>2, <1>3, <1>4, <1>5 DEF IInv

\* An onboard runner that lives is younger than the reaper's age: its row is spared.
LEMMA LiveOnboardNotOrphaned ==
  ASSUME IInv, NEW j \in Jobs, kind[j] = "onboard", Live(j)
  PROVE  ~Orphaned(j)
<1>1. OnTime(j)
  BY DEF IInv, OnboardInv
<1>2. age[j] \in Nat /\ t[j] \in Nat
  BY TimingAssumption DEF IInv, TypeOK
<1>3. Entry(pc[j]) + t[j] <= ReapAge
  BY <1>1, <1>2, TimingAssumption DEF OnTime, Entry, Limit
<1> QED BY <1>1, <1>2, <1>3, TimingAssumption DEF OnTime, Orphaned, Entry

\* The reaper changes the status of orphaned rows only, and those have no onboard
\* runner and are not about to get one.
LEMMA ReapStep ==
  ASSUME IInv, reap_orphaned_jobs
  PROVE  IInv'
<1>1. /\ status' = [j \in Jobs |-> IF Orphaned(j) THEN "failed" ELSE status[j]]
      /\ UNCHANGED <<kind, pc, t, age, chain, next>>
  BY DEF reap_orphaned_jobs
<1>2. \A j \in Jobs : age[j] = 0 => ~Orphaned(j)
  BY TimingAssumption DEF Orphaned
<1>3. \A j \in Jobs : status'[j] = status[j] \/ (status'[j] = "failed" /\ Orphaned(j))
  BY <1>1
<1>4. TypeOK'
  BY <1>1 DEF IInv, TypeOK, Statuses
<1>5. OnboardInv'
  BY <1>1, <1>3, LiveOnboardNotOrphaned DEF IInv, OnboardInv, OnTime, Live, Entry, Limit
<1>6. ChainInv'
  BY <1>1, <1>2, <1>3 DEF IInv, ChainInv, Chained, Chaining
<1>7. AssessInv'
  BY <1>1, <1>3 DEF IInv, AssessInv, Live, Orphaned
<1> QED BY <1>4, <1>5, <1>6, <1>7 DEF IInv

\* Time passes only where every bounded phase has some left.
LEMMA TickStep ==
  ASSUME IInv, Tick
  PROVE  IInv'
<1>1. /\ \A j \in Jobs : MayWait(j)
      /\ t' = [j \in Jobs |-> IF Timed(j) THEN t[j] + 1 ELSE t[j]]
      /\ age' = [j \in Jobs |-> TickAge(j)]
      /\ UNCHANGED <<kind, status, pc, chain, next>>
  BY DEF Tick
<1>2. \A j \in Jobs : t[j] \in Nat /\ age[j] \in 0..(ReapAge + 1) /\ age[j] \in Nat
  BY TimingAssumption DEF IInv, TypeOK
<1>3. TypeOK'
  <2>1. ASSUME NEW j \in Jobs PROVE TickAge(j) \in 0..(ReapAge + 1)
    <3>1. CASE kind[j] = "none" \/ age[j] > ReapAge
      BY <3>1, <1>2 DEF TickAge
    <3>2. CASE kind[j] # "none" /\ ~(age[j] > ReapAge)
      BY <3>2, <1>2, TimingAssumption DEF TickAge
    <3> QED BY <3>1, <3>2
  <2> QED BY <1>1, <1>2, <2>1 DEF IInv, TypeOK
<1>4. OnboardInv'
  <2> SUFFICES ASSUME NEW j \in Jobs, kind[j] = "onboard", pc[j] # "off"
               PROVE  OnTime(j)'
    BY <1>1 DEF OnboardInv, Live
  <2>1. OnTime(j) /\ MayWait(j)
    BY <1>1 DEF IInv, OnboardInv, Live
  <2>2. pc[j] \in {"generate", "side", "deliver"} /\ Timed(j)
    BY <2>1 DEF OnTime, MayWait, Timed
  <2>3. t'[j] = t[j] + 1 /\ age'[j] <= age[j] + 1 /\ age'[j] \in Nat
    BY <2>2, <1>1, <1>2 DEF TickAge
  <2>4. t[j] + 1 <= Limit(pc[j])
    BY <2>1, <2>2, <1>2, TimingAssumption DEF MayWait, Limit
  <2>5. Entry(pc[j]) \in Nat
    BY TimingAssumption DEF Entry
  <2>6. age'[j] <= Entry(pc[j]) + t'[j]
    BY <2>1, <2>3, <2>5, <1>2 DEF OnTime
  <2> QED BY <2>1, <2>2, <2>3, <2>4, <2>6, <1>1 DEF OnTime
<1>5. ChainInv'
  <2>1. \A j \in Jobs : pc[j] # "chained" /\ pc[j] # "schedule"
    BY <1>1 DEF MayWait
  <2> QED BY <2>1, <1>1 DEF ChainInv, Chaining
<1>6. AssessInv'
  <2>1. ASSUME NEW j \in Jobs, kind[j] = "none" PROVE t'[j] = 0 /\ age'[j] = 0
    BY <2>1, <1>1 DEF IInv, AssessInv, Timed, TickAge
  <2> QED BY <2>1, <1>1 DEF IInv, AssessInv, Live
<1> QED BY <1>3, <1>4, <1>5, <1>6 DEF IInv

-----------------------------------------------------------------------------
(* The theorems. *)

\* Every step of the specification preserves the invariant.
LEMMA NextIInv == IInv /\ [Next]_vars => IInv'
<1> SUFFICES ASSUME IInv, [Next]_vars PROVE IInv'
  OBVIOUS
<1>1. CASE UNCHANGED vars
  BY <1>1 DEF vars, IInv, TypeOK, OnboardInv, OnTime, ChainInv, Chained, Chaining,
              AssessInv, Live, Entry, Limit
<1>2. ASSUME NEW j \in Jobs, NEW c \in BOOLEAN, create_assessment_job(j, c) PROVE IInv'
  BY <1>2, CreateStep DEF create_assessment_job, Kinds
<1>3. ASSUME NEW j \in Jobs, NEW k \in {"onboard", "validation"},
             create_remediation_job(j, k)
      PROVE  IInv'
  <2>1. chain' = [chain EXCEPT ![j] = FALSE]
    BY <1>3 DEF create_remediation_job, IInv, TypeOK, AssessInv
  <2> QED BY <1>3, <2>1, CreateStep DEF create_remediation_job, Kinds
<1>4. ASSUME NEW j \in Jobs, RunnerDies(j) PROVE IInv'
  <2>1. pc' = [i \in Jobs |-> IF i \in {j} THEN "off" ELSE pc[i]]
    BY <1>4 DEF RunnerDies, IInv, TypeOK
  <2> QED BY <1>4, <2>1, DieStep DEF RunnerDies
<1>5. CASE Crash
  <2>1. pc' = [i \in Jobs |-> IF i \in Jobs THEN "off" ELSE pc[i]]
    BY <1>5 DEF Crash
  <2> QED BY <1>5, <2>1, DieStep DEF Crash
<1>6. ASSUME NEW j \in Jobs, RunnerStep(j) PROVE IInv'
  BY <1>6, <1>4, ReportStep, ChainStep, ScheduleStep DEF RunnerStep
<1> QED BY <1>1, <1>2, <1>3, <1>5, <1>6, ProgressStep, ReapStep, TickStep DEF Next

\* The inductive invariant holds in every reachable state.
THEOREM Invariance == Spec => []IInv
BY InitIInv, NextIInv, PTL DEF Spec

\* Type correctness: in particular the status column only ever holds a status that
\* Terminal and the progress page know.
THEOREM TypeCorrect == Spec => []TypeOK
<1>1. IInv => TypeOK
  BY DEF IInv
<1> QED BY <1>1, Invariance, PTL

\* start_assess_job: a poller never sees a completed assess job, asked to continue,
\* without its onboard job.
THEOREM ChainComplete == Spec => []CompletedChainHasOnboardJob
<1>1. IInv => CompletedChainHasOnboardJob
  BY DEF IInv, AssessInv, CompletedChainHasOnboardJob
<1> QED BY <1>1, Invariance, PTL

\* reap_orphaned_jobs never touches the row of an onboard job whose runner lives.
THEOREM OnboardSpared == Spec => OnboardNeverFalseFailed
<1>1. IInv /\ [Next]_vars =>
        [\A j \in Jobs :
           kind[j] = "onboard" /\ Live(j) /\ reap_orphaned_jobs => status'[j] = status[j]]_vars
  BY LiveOnboardNotOrphaned DEF reap_orphaned_jobs
<1> QED BY <1>1, Invariance, PTL DEF Spec, OnboardNeverFalseFailed

\* No step, of a runner, of the reaper or of another job, overwrites the terminal
\* status of an onboard job.
THEOREM TerminalFinal == Spec => OnboardTerminalIsFinal
<1>1. IInv /\ [Next]_vars =>
        [\A j \in Jobs :
           kind[j] = "onboard" /\ status[j] \in Terminal => status'[j] = status[j]]_vars
  <2> SUFFICES ASSUME IInv, Next, NEW j \in Jobs, kind[j] = "onboard", status[j] \in Terminal
               PROVE  status'[j] = status[j]
    BY DEF vars
  <2>1. pc[j] = "off"
    BY DEF IInv, OnboardInv, OnTime, Live, Terminal
  <2>2. ASSUME NEW i \in Jobs, NEW s, NEW p, i # j, Write(i, s, p) PROVE status'[j] = status[j]
    BY <2>2 DEF Write, IInv, TypeOK
  <2>3. ASSUME NEW i \in Jobs, RunnerStep(i) PROVE status'[j] = status[j]
    <3>1. CASE \E o \in Jobs : ChainOnboard(i, o)
      BY <3>1 DEF ChainOnboard, IInv, TypeOK
    <3>2. CASE ScheduleOnboard(i) \/ RunnerDies(i)
      BY <3>2 DEF ScheduleOnboard, RunnerDies
    <3>3. CASE ~(\E o \in Jobs : ChainOnboard(i, o)) /\ ~ScheduleOnboard(i) /\ ~RunnerDies(i)
      <4>1. i # j /\ \E s, p : Write(i, s, p)
        BY <2>1, <2>3, <3>3
           DEF RunnerStep, AssessFails, AssessSaves, AssessCompletes, ScheduleFails,
               StartFails, OnboardStarts, ValidationStarts, Generated, GenerationTimesOut,
               WebhookRegistered, Delivered, DeliveryTimesOut, RunRaises, Finish, Advance
      <4> QED BY <4>1, <2>2
    <3> QED BY <3>1, <3>2, <3>3
  <2>4. ASSUME NEW i \in Jobs, Progress(i) PROVE status'[j] = status[j]
    BY <2>1, <2>4 DEF Progress, IInv, TypeOK
  <2>5. ASSUME NEW i \in Jobs, NEW c \in BOOLEAN, create_assessment_job(i, c)
        PROVE  status'[j] = status[j]
    BY <2>2, <2>5 DEF create_assessment_job
  <2>6. ASSUME NEW i \in Jobs, NEW k \in {"onboard", "validation"}, create_remediation_job(i, k)
        PROVE  status'[j] = status[j]
    BY <2>2, <2>6 DEF create_remediation_job
  <2>7. CASE Crash \/ reap_orphaned_jobs \/ Tick
    BY <2>7 DEF Crash, reap_orphaned_jobs, Orphaned, Tick
  <2> QED BY <2>3, <2>4, <2>5, <2>6, <2>7 DEF Next
<1> QED BY <1>1, Invariance, PTL DEF Spec, OnboardTerminalIsFinal
=============================================================================
