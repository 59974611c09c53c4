------------------------ MODULE EventPipelineProofs ------------------------
(***************************************************************************)
(* The event path keeps its types, and the publisher implements            *)
(* AtLeastOnce, for any number of processes, events and partitions,        *)
(* whoever shares a buffer file with whom; what the consumer promises, for *)
(* any number of partitions, is in the second half.                        *)
(***************************************************************************)
EXTENDS EventPipeline, SequenceTheorems, TLAPS

\* Rows of one buffer file have different ids.
IdsDiffer == \A f \in Files : \A r, s \in buffer[f] : r.id = s.id => r = s

\* So have the rows a drain read.
TodoIdsDiffer == \A x \in Procs : \A r, s \in proc[x].todo : r.id = s.id => r = s

\* What a drain still has to send is in the file, or another process deleted it.
TodoIsBuffered == \A x \in Procs : \A d \in proc[x].todo :
    d.id \in stale[x] \/ d \in buffer[Db[x]]

\* Only a process that resolves the same file deletes rows another has read.
StaleIsShared == \A x \in Procs : stale[x] # {} => \E y \in Procs : y # x /\ Db[y] = Db[x]

\* Where an event can be; what a drain read has gone nowhere else.
Known == Buffered \cup Delivered \cup lost \cup displaced
TodoIsKnown == \A x \in Procs : \A d \in proc[x].todo : d.ev \in Known

\* A process has an event in hand exactly where publish() is under way.
HandMatchesPc == \A x \in Procs :
    /\ proc[x].pc \in {"idle", "down", "relabel"} => proc[x].ev = None
    /\ proc[x].pc \in {"send", "buffer"} => proc[x].ev \in Events

\* A row about to be deleted has been sent, or the broker refused it.
DeletedIsSent == \A x \in Procs : proc[x].pc = "delete" =>
    \A d \in proc[x].todo : IsFirst(d, proc[x].todo) => d.ev \in Delivered \cup lost

\* What a drained, retried or dead-lettered message is made of.
PubTypes == /\ proc \in [Procs -> Proc]
            /\ buffer \in [Files -> SUBSET BufferRows]
            /\ stale \in [Procs -> SUBSET (1 .. MaxBuffer)]
            /\ log \in [Partitions -> Seq(Events)]
LogFits == \A p \in Partitions : Len(log[p]) <= MaxLog
Row == [ev : Events, at : Records, label : Labels]
RowTypes == rows \in Seq(Row) /\ Len(rows) <= MaxDead
Counts == lost \subseteq Events /\ displaced \subseteq Events /\ accepted \subseteq Events
ConTypes == /\ consumer \in Consumer
            /\ committed \in [Partitions -> 0 .. MaxLog + 1]
            /\ fate \in [Records -> Fates]
            /\ attempts \in [Records -> 0 .. MaxRetries]

ShareInv == StaleIsShared /\ TodoIsKnown
DrainInv == IdsDiffer /\ TodoIdsDiffer /\ TodoIsBuffered /\ HandMatchesPc /\ DeletedIsSent

\* What is buffered depends on the buffer files alone.
LEMMA UsesBuffer == ASSUME UNCHANGED buffer PROVE Buffered' = Buffered
  BY DEF Buffered, Files

\* What is delivered depends on the log alone.
LEMMA UsesLog == ASSUME UNCHANGED log PROVE Delivered' = Delivered
  BY DEF Delivered, InLog

\* A write adds its event to the delivered ones, and no other.
LEMMA WrittenDelivers ==
  ASSUME log \in [Partitions -> Seq(Events)], NEW e \in Events, Written(e)
  PROVE  /\ log' \in [Partitions -> Seq(Events)]
         /\ Delivered' = Delivered \cup {e}
<1>1. PICK p \in Partitions : log' = [log EXCEPT ![p] = Append(@, e)]
  BY DEF Written
<1>2. log' \in [Partitions -> Seq(Events)]
  BY <1>1
<1>3. \A q \in Partitions : q # p => log'[q] = log[q]
  BY <1>1
<1>4. /\ log'[p] = Append(log[p], e)
      /\ Len(log'[p]) = Len(log[p]) + 1
      /\ log'[p][Len(log[p]) + 1] = e
      /\ \A o \in 1 .. Len(log[p]) : log'[p][o] = log[p][o]
      /\ Len(log[p]) \in Nat
  BY <1>1
<1>5. ASSUME NEW v \in Events, InLog(v) PROVE InLog(v)'
  <2>0. PICK q \in Partitions : \E o \in 1 .. Len(log[q]) : log[q][o] = v
    BY <1>5 DEF InLog
  <2>1. PICK o \in 1 .. Len(log[q]) : log[q][o] = v
    BY <2>0
  <2>2. CASE q = p
    <3>1. o \in 1 .. Len(log'[p]) /\ log'[p][o] = v
      BY <2>1, <2>2, <1>4
    <3> QED BY <3>1 DEF InLog
  <2>3. CASE q # p
    BY <2>1, <2>3, <1>3 DEF InLog
  <2> QED BY <2>2, <2>3
<1>6. InLog(e)'
  <2>1. Len(log[p]) + 1 \in 1 .. Len(log'[p])
    BY <1>4
  <2> QED BY <2>1, <1>4 DEF InLog
<1>7. ASSUME NEW v \in Events, InLog(v)', v # e PROVE InLog(v)
  <2>0. PICK q \in Partitions : \E o \in 1 .. Len(log'[q]) : log'[q][o] = v
    BY <1>7 DEF InLog
  <2>1. PICK o \in 1 .. Len(log'[q]) : log'[q][o] = v
    BY <2>0
  <2>2. CASE q = p
    <3>1. o \in 1 .. Len(log[p]) /\ log[p][o] = v
      BY <2>1, <2>2, <1>4, <1>7
    <3> QED BY <3>1 DEF InLog
  <2>3. CASE q # p
    BY <2>1, <2>3, <1>3 DEF InLog
  <2> QED BY <2>2, <2>3
<1> QED BY <1>2, <1>5, <1>6, <1>7 DEF Delivered

\* _buffer_locally adds its event to the buffered ones, and no other.
LEMMA InsertBuffers ==
  ASSUME buffer \in [Files -> SUBSET BufferRows], NEW x \in Procs, NEW e \in Events,
         NEW i \in 1 .. MaxBuffer,
         buffer' = [buffer EXCEPT ![Db[x]] = @ \cup {[id |-> i, ev |-> e]}]
  PROVE  Buffered' = Buffered \cup {e}
<1>1. Db[x] \in Files
  BY DEF Files
<1>2. \A f \in Files : buffer'[f] = IF f = Db[x] THEN buffer[f] \cup {[id |-> i, ev |-> e]} ELSE buffer[f]
  BY <1>1
<1> DEFINE new == [id |-> i, ev |-> e]
<1>3. ASSUME NEW v \in Events
      PROVE  (\E f \in Files : \E r \in buffer'[f] : r.ev = v)
               <=> (v = e \/ \E f \in Files : \E r \in buffer[f] : r.ev = v)
  <2>1. new \in buffer'[Db[x]] /\ new.ev = e
    BY <1>1, <1>2
  <2>2. \A f \in Files : \A r \in buffer[f] : r \in buffer'[f]
    BY <1>2
  <2>3. \A f \in Files : \A r \in buffer'[f] : r \in buffer[f] \/ r = new
    BY <1>2
  <2> HIDE DEF new
  <2> QED BY <1>1, <2>1, <2>2, <2>3
<1> QED BY <1>3 DEF Buffered, Files

\* A delete by id takes no other event out of the buffer than its row's.
LEMMA DeleteForgets ==
  ASSUME buffer \in [Files -> SUBSET BufferRows], NEW x \in Procs, NEW d \in buffer[Db[x]],
         IdsDiffer,
         buffer' = [buffer EXCEPT ![Db[x]] = {r \in @ : r.id # d.id}]
  PROVE  d.ev \in Buffered /\ (Buffered' = Buffered \/ Buffered' = Buffered \ {d.ev})
<1>1. Db[x] \in Files
  BY DEF Files
<1>2. d \in BufferRows /\ d.ev \in Events
  BY <1>1 DEF BufferRows
<1>3. \A f \in Files : buffer'[f] = IF f = Db[x] THEN {r \in buffer[f] : r.id # d.id} ELSE buffer[f]
  BY <1>1
<1>4. \A r \in buffer[Db[x]] : r # d => r.id # d.id
  BY <1>1 DEF IdsDiffer
<1>5. d.ev \in Buffered
  BY <1>1, <1>2 DEF Buffered
<1>6. ASSUME NEW v \in Events, v # d.ev
      PROVE  (\E f \in Files : \E r \in buffer'[f] : r.ev = v)
               <=> (\E f \in Files : \E r \in buffer[f] : r.ev = v)
  BY <1>3, <1>4, <1>6
<1>7. \A v \in Events : v # d.ev => (v \in Buffered' <=> v \in Buffered)
  BY <1>6 DEF Buffered, Files
<1>8. Buffered \subseteq Events /\ Buffered' \subseteq Events
  BY DEF Buffered
<1> QED BY <1>5, <1>7, <1>8

\* A delete by the id of a row that is no longer there takes what EventsUnder names.
LEMMA DeleteTakes ==
  ASSUME buffer \in [Files -> SUBSET BufferRows], NEW x \in Procs, NEW i, IdsDiffer,
         buffer' = [buffer EXCEPT ![Db[x]] = {r \in @ : r.id # i}]
  PROVE  \/ EventsUnder(i, buffer[Db[x]]) = {} /\ Buffered' = Buffered
         \/ \E e \in Events : /\ EventsUnder(i, buffer[Db[x]]) = {e}
                              /\ e \in Buffered
                              /\ Buffered' = Buffered \/ Buffered' = Buffered \ {e}
<1>1. Db[x] \in Files
  BY DEF Files
<1>2. CASE \E d \in buffer[Db[x]] : d.id = i
  <2>1. PICK d \in buffer[Db[x]] : d.id = i
    BY <1>2
  <2>2. d.ev \in Buffered /\ (Buffered' = Buffered \/ Buffered' = Buffered \ {d.ev})
    BY <2>1, DeleteForgets
  <2>3. \A s \in buffer[Db[x]] : s.id = i => s = d
    BY <1>1, <2>1 DEF IdsDiffer
  <2>4. EventsUnder(i, buffer[Db[x]]) = {d.ev}
    BY <2>1, <2>3 DEF EventsUnder
  <2>5. d.ev \in Events
    BY <2>2 DEF Buffered
  <2> QED BY <2>2, <2>4, <2>5
<1>3. CASE \A d \in buffer[Db[x]] : d.id # i
  <2>1. EventsUnder(i, buffer[Db[x]]) = {}
    BY <1>3 DEF EventsUnder
  <2>2. {r \in buffer[Db[x]] : r.id # i} = buffer[Db[x]]
    BY <1>3
  <2>3. buffer' = buffer
    BY <1>1, <2>2
  <2> QED BY <2>1, <2>3, UsesBuffer
<1> QED BY <1>2, <1>3

-----------------------------------------------------------------------------
(* What each step of a process does to its own record and to the others'.  *)

\* The type invariant in the parts that different steps disturb.
LEMMA TypeParts == TypeOK <=> PubTypes /\ LogFits /\ RowTypes /\ Counts /\ ConTypes
  BY DEF TypeOK, PubTypes, LogFits, RowTypes, Row, Counts, ConTypes

\* Process x moves to pc p with event e and rows T left to drain.
Moves(x, p, e, T) == /\ proc' \in [Procs -> Proc]
                     /\ proc'[x].pc = p /\ proc'[x].ev = e /\ proc'[x].todo = T
                     /\ \A y \in Procs : y # x => proc'[y] = proc[y]

\* A step that gives process x the record q.
LEMMA MoveTo ==
  ASSUME NEW x \in Procs, proc \in [Procs -> Proc], NEW q \in Proc,
         proc' = [proc EXCEPT ![x] = q]
  PROVE  Moves(x, q.pc, q.ev, q.todo)
<1>1. proc' \in [Procs -> Proc] /\ proc'[x] = q
  OBVIOUS
<1>2. \A y \in Procs : y # x => proc'[y] = proc[y]
  OBVIOUS
<1> QED BY <1>1, <1>2 DEF Moves

\* A step of x that changes its pc alone.
LEMMA PcMoves ==
  ASSUME NEW x \in Procs, proc \in [Procs -> Proc], NEW p \in Pcs,
         proc' = [proc EXCEPT ![x].pc = p]
  PROVE  Moves(x, p, proc[x].ev, proc[x].todo)
<1> DEFINE q == [proc[x] EXCEPT !.pc = p]
<1>1. q \in Proc /\ q.pc = p /\ q.ev = proc[x].ev /\ q.todo = proc[x].todo
  BY DEF Proc
<1>2. proc' = [proc EXCEPT ![x] = q]
  OBVIOUS
<1> HIDE DEF q
<1> QED BY <1>1, <1>2, MoveTo

\* A drain that is cut short.
LEMMA TodoEnds ==
  ASSUME NEW x \in Procs, proc \in [Procs -> Proc], proc' = [proc EXCEPT ![x].todo = {}]
  PROVE  Moves(x, proc[x].pc, proc[x].ev, {})
<1> DEFINE q == [proc[x] EXCEPT !.todo = {}]
<1>1. q \in Proc /\ q.pc = proc[x].pc /\ q.ev = proc[x].ev /\ q.todo = {}
  BY DEF Proc
<1>2. proc' = [proc EXCEPT ![x] = q]
  OBVIOUS
<1> HIDE DEF q
<1> QED BY <1>1, <1>2, MoveTo

\* A drain that goes on with the rows T.
LEMMA TodoMoves ==
  ASSUME NEW x \in Procs, proc \in [Procs -> Proc], NEW p \in Pcs, NEW T \in SUBSET BufferRows,
         proc' = [proc EXCEPT ![x].pc = p, ![x].todo = T]
  PROVE  Moves(x, p, proc[x].ev, T)
<1> DEFINE q == [proc[x] EXCEPT !.pc = p, !.todo = T]
<1>1. q \in Proc /\ q.pc = p /\ q.ev = proc[x].ev /\ q.todo = T
  BY DEF Proc
<1>2. proc' = [proc EXCEPT ![x] = q]
  OBVIOUS
<1> HIDE DEF q
<1> QED BY <1>1, <1>2, MoveTo

\* The start of publish().
LEMMA GivenMoves ==
  ASSUME NEW x \in Procs, proc \in [Procs -> Proc], NEW p \in Pcs, NEW e \in Events,
         NEW r \in 0 .. MaxDead,
         proc' = [proc EXCEPT ![x].pc = p, ![x].ev = e, ![x].row = r]
  PROVE  Moves(x, p, e, proc[x].todo)
<1> DEFINE q == [proc[x] EXCEPT !.pc = p, !.ev = e, !.row = r]
<1>1. q \in Proc /\ q.pc = p /\ q.ev = e /\ q.todo = proc[x].todo
  BY DEF Proc
<1>2. proc' = [proc EXCEPT ![x] = q]
  OBVIOUS
<1> HIDE DEF q
<1> QED BY <1>1, <1>2, MoveTo

\* _connect, with a producer or without one.
LEMMA ConnectMoves ==
  ASSUME NEW x \in Procs, PubTypes, Connect(x)
  PROVE  \/ /\ Moves(x, "drain", proc[x].ev, buffer[Db[x]])
            /\ stale' = [stale EXCEPT ![x] = {}]
         \/ /\ Moves(x, IF proc[x].ev = None THEN "idle" ELSE "buffer", proc[x].ev, proc[x].todo)
            /\ UNCHANGED stale
<1>t. proc \in [Procs -> Proc] /\ buffer[Db[x]] \in SUBSET BufferRows
  BY DEF PubTypes, Files
<1>1. CASE /\ proc' = [proc EXCEPT ![x].pc = "drain", ![x].up = TRUE, ![x].todo = buffer[Db[x]]]
           /\ stale' = [stale EXCEPT ![x] = {}]
  <2> DEFINE q == [proc[x] EXCEPT !.pc = "drain", !.up = TRUE, !.todo = buffer[Db[x]]]
  <2>1. q \in Proc /\ q.pc = "drain" /\ q.ev = proc[x].ev /\ q.todo = buffer[Db[x]]
    BY <1>t DEF Proc, Pcs
  <2>2. proc' = [proc EXCEPT ![x] = q]
    BY <1>1
  <2> HIDE DEF q
  <2>3. Moves(x, "drain", proc[x].ev, buffer[Db[x]])
    BY <1>t, <2>1, <2>2, MoveTo
  <2> QED BY <1>1, <2>3
<1>2. CASE /\ proc' = [proc EXCEPT ![x].pc = IF proc[x].ev = None THEN "idle" ELSE "buffer",
                                   ![x].up = FALSE]
           /\ UNCHANGED stale
  <2> DEFINE p == IF proc[x].ev = None THEN "idle" ELSE "buffer"
             q == [proc[x] EXCEPT !.pc = p, !.up = FALSE]
  <2>1. q \in Proc /\ q.pc = p /\ q.ev = proc[x].ev /\ q.todo = proc[x].todo
    BY <1>t DEF Proc, Pcs
  <2>2. proc' = [proc EXCEPT ![x] = q]
    BY <1>2
  <2> HIDE DEF q
  <2>3. Moves(x, p, proc[x].ev, proc[x].todo)
    BY <1>t, <2>1, <2>2, MoveTo
  <2> QED BY <1>2, <2>3
<1> QED BY <1>1, <1>2 DEF Connect

\* The end of publish().
LEMMA ReturnMoves ==
  ASSUME NEW x \in Procs, proc \in [Procs -> Proc], NEW up \in BOOLEAN, Returns(x, up)
  PROVE  /\ accepted' = accepted \cup {proc[x].ev}
         /\ \E p \in {"idle", "relabel"} : Moves(x, p, None, proc[x].todo)
<1> DEFINE p == IF proc[x].row = 0 THEN "idle" ELSE "relabel"
           q == [proc[x] EXCEPT !.pc = p, !.up = up, !.ev = None]
<1>1. q \in Proc /\ q.pc = p /\ q.ev = None /\ q.todo = proc[x].todo
  BY DEF Proc, Pcs
<1>2. proc' = [proc EXCEPT ![x] = q]
  BY DEF Returns
<1>3. p \in {"idle", "relabel"}
  OBVIOUS
<1> HIDE DEF q
<1>4. Moves(x, p, None, proc[x].todo)
  BY <1>1, <1>2, MoveTo
<1> QED BY <1>3, <1>4 DEF Returns

\* A process that dies has nothing in hand.
LEMMA CrashMoves ==
  ASSUME NEW x \in Procs, proc \in [Procs -> Proc], Crash(x)
  PROVE  Moves(x, "down", None, {})
<1> DEFINE q == [pc |-> "down", up |-> FALSE, ev |-> None, row |-> 0, todo |-> {}]
<1>1. q \in Proc
  BY BoundsArePositive DEF Proc, Pcs
<1>2. q.pc = "down" /\ q.ev = None /\ q.todo = {}
  OBVIOUS
<1>3. proc' = [proc EXCEPT ![x] = q]
  BY DEF Crash
<1> HIDE DEF q
<1> QED BY <1>1, <1>2, <1>3, MoveTo

\* The end of retry_dlq_message.
LEMMA RelabelMoves ==
  ASSUME NEW x \in Procs, proc \in [Procs -> Proc], Relabel(x)
  PROVE  Moves(x, "idle", proc[x].ev, proc[x].todo)
<1> DEFINE q == [proc[x] EXCEPT !.pc = "idle", !.row = 0]
<1>0. 0 \in 0 .. MaxDead
  BY BoundsArePositive
<1>1. q \in Proc /\ q.pc = "idle" /\ q.ev = proc[x].ev /\ q.todo = proc[x].todo
  BY <1>0 DEF Proc, Pcs
<1>2. proc' = [proc EXCEPT ![x] = q]
  BY DEF Relabel
<1> HIDE DEF q
<1> QED BY <1>1, <1>2, MoveTo

-----------------------------------------------------------------------------
(* Types.                                                                  *)

\* A write stays within the bound on the log.
LEMMA WrittenFits ==
  ASSUME log \in [Partitions -> Seq(Events)], LogFits, NEW e \in Events, Written(e)
  PROVE  LogFits'
<1>1. PICK p \in Partitions : Len(log[p]) < MaxLog /\ log' = [log EXCEPT ![p] = Append(@, e)]
  BY DEF Written
<1>2. Len(log'[p]) = Len(log[p]) + 1 /\ Len(log[p]) \in Nat
  BY <1>1
<1>3. Len(log'[p]) <= MaxLog
  BY <1>1, <1>2, BoundsArePositive
<1>4. \A q \in Partitions : q # p => log'[q] = log[q]
  BY <1>1
<1> QED BY <1>3, <1>4 DEF LogFits

\* A relabelled row is a row.
LEMMA RelabelTyped ==
  ASSUME RowTypes, NEW r, NEW label \in Labels, rows' = Relabelled(r, label)
  PROVE  RowTypes'
<1>1. CASE r \in 1 .. Len(rows)
  <2> DEFINE q == [rows[r] EXCEPT !.label = IF @ = "dead-letter" THEN label ELSE @]
  <2>1. rows[r] \in Row
    BY <1>1, ElementOfSeq DEF RowTypes
  <2>2. q \in Row
    BY <2>1 DEF Row
  <2>3. rows' = [rows EXCEPT ![r] = q]
    BY DEF Relabelled
  <2> HIDE DEF q
  <2>4. rows' \in Seq(Row) /\ Len(rows') = Len(rows)
    BY <1>1, <2>2, <2>3, ExceptSeq DEF RowTypes
  <2> QED BY <2>4 DEF RowTypes
<1>2. CASE r \notin 1 .. Len(rows)
  <2>1. DOMAIN rows = 1 .. Len(rows)
    BY LenProperties DEF RowTypes
  <2>2. rows' = rows
    BY <1>2, <2>1 DEF Relabelled, RowTypes
  <2> QED BY <2>2 DEF RowTypes
<1> QED BY <1>1, <1>2

\* dismiss_dlq_message and dismiss_all_dlq relabel rows.
LEMMA DismissTyped == ASSUME RowTypes, Dismiss PROVE RowTypes'
<1>1. CASE \E r \in 1 .. Len(rows) : rows' = Relabelled(r, "dlq-dismissed")
  BY <1>1, RelabelTyped DEF Labels
<1> DEFINE q(r) == [rows[r] EXCEPT !.label = IF @ = "dead-letter" THEN "dlq-dismissed" ELSE @]
<1>2. CASE rows' = [r \in 1 .. Len(rows) |-> q(r)]
  <2>1. Len(rows) \in Nat
    BY LenProperties DEF RowTypes
  <2>2. ASSUME NEW r \in 1 .. Len(rows) PROVE q(r) \in Row
    <3>1. rows[r] \in Row
      BY ElementOfSeq DEF RowTypes
    <3> QED BY <3>1 DEF Row, Labels
  <2> HIDE DEF q
  <2>3. rows' \in [1 .. Len(rows) -> Row]
    BY <1>2, <2>2
  <2>4. rows' \in Seq(Row)
    BY <2>1, <2>3, SeqDef
  <2>5. Len(rows') = Len(rows)
    BY <2>1, <2>3, <2>4, LenProperties
  <2> QED BY <2>4, <2>5 DEF RowTypes
<1> QED BY <1>1, <1>2 DEF Dismiss

\* Where the consumer stands, once its record of partition p is seen to.
LEMMA AdvancedTyped ==
  ASSUME ConTypes, LogFits, log \in [Partitions -> Seq(Events)],
         NEW p \in Partitions, HasRecord(p), NEW n \in 0 .. MaxRetries
  PROVE  /\ consumer.pos[p] \in Offsets
         /\ consumer.pos[p] \in 1 .. Len(log[p])
         /\ Advanced(p, consumer.pos[p], n) \in Consumer
<1>1. consumer.pos[p] \in 1 .. MaxLog + 1 /\ consumer.pos[p] <= Len(log[p])
      /\ Len(log[p]) <= MaxLog /\ Len(log[p]) \in Nat
  BY DEF ConTypes, Consumer, HasRecord, LogFits
<1>2. consumer.pos[p] \in Offsets /\ consumer.pos[p] \in 1 .. Len(log[p])
      /\ consumer.pos[p] + 1 \in 1 .. MaxLog + 1
  BY <1>1, BoundsArePositive DEF Offsets
<1> DEFINE o == consumer.pos[p]
           ps == [consumer.pos EXCEPT ![p] = o + 1]
           ct == [consumer.count EXCEPT ![o] = n]
<1>3. ps \in [Partitions -> 1 .. MaxLog + 1]
  BY <1>2 DEF ConTypes, Consumer
<1>4. ct \in [Offsets -> 0 .. MaxRetries]
  BY <1>2 DEF ConTypes, Consumer
<1>5. Advanced(p, o, n) = [consumer EXCEPT !.pos = ps, !.count = ct]
  BY DEF Advanced
<1> HIDE DEF ps, ct
<1>6. [consumer EXCEPT !.pos = ps, !.count = ct] \in Consumer
  BY <1>3, <1>4 DEF ConTypes, Consumer
<1> QED BY <1>2, <1>5, <1>6

\* _blocked_offset of a partition is set to an offset or cleared.
LEMMA BlockedTyped ==
  ASSUME NEW c \in Consumer, NEW p \in Partitions, NEW b \in 0 .. MaxLog
  PROVE  [c EXCEPT !.blocked[p] = b] \in Consumer
<1> DEFINE bl == [c.blocked EXCEPT ![p] = b]
<1>1. bl \in [Partitions -> 0 .. MaxLog]
  BY DEF Consumer
<1>2. [c EXCEPT !.blocked[p] = b] = [c EXCEPT !.blocked = bl]
  OBVIOUS
<1> HIDE DEF bl
<1>3. [c EXCEPT !.blocked = bl] \in Consumer
  BY <1>1 DEF Consumer
<1> QED BY <1>2, <1>3

\* _commit_resolved commits positions.
LEMMA CommitTyped ==
  ASSUME NEW c \in Consumer, NEW p \in Partitions, NEW o,
         committed \in [Partitions -> 0 .. MaxLog + 1], CommitResolved(p, o, c)
  PROVE  consumer' \in Consumer /\ committed' \in [Partitions -> 0 .. MaxLog + 1]
<1>1. 0 \in 0 .. MaxLog
  BY BoundsArePositive
<1>2. CASE consumer' = c /\ UNCHANGED committed
  BY <1>2
<1>3. CASE consumer' = [c EXCEPT !.blocked[p] = 0] /\ committed' = c.pos
  <2>1. consumer' \in Consumer
    BY <1>1, <1>3, BlockedTyped
  <2>2. c.pos \in [Partitions -> 1 .. MaxLog + 1]
    BY DEF Consumer
  <2>3. committed' \in [Partitions -> 0 .. MaxLog + 1]
    BY <1>3, <2>2
  <2> QED BY <2>1, <2>3
<1> QED BY <1>2, <1>3 DEF CommitResolved

\* The count of deliveries saturates.
LEMMA TriedTyped ==
  ASSUME attempts \in [Records -> 0 .. MaxRetries], NEW m \in Records, Tried(m)
  PROVE  attempts' \in [Records -> 0 .. MaxRetries]
<1>1. attempts[m] \in 0 .. MaxRetries
      /\ (attempts[m] < MaxRetries => attempts[m] + 1 \in 0 .. MaxRetries)
  BY BoundsArePositive
<1> QED BY <1>1 DEF Tried

\* A record gets a fate.
LEMMA FateTyped ==
  ASSUME fate \in [Records -> Fates], NEW m \in Records, NEW k \in Fates,
         fate' = [fate EXCEPT ![m] = k]
  PROVE  fate' \in [Records -> Fates]
  OBVIOUS

\* The group starts at an offset of the log or behind its end.
LEMMA SeekTyped ==
  ASSUME ConTypes, LogFits, log \in [Partitions -> Seq(Events)]
  PROVE  Seek \in [Partitions -> 1 .. MaxLog + 1] /\ PassedOver \in [Records -> Fates]
<1>1. ASSUME NEW p \in Partitions
      PROVE  (IF committed[p] = 0 THEN Len(log[p]) + 1 ELSE committed[p]) \in 1 .. MaxLog + 1
  <2>1. Len(log[p]) \in Nat /\ Len(log[p]) <= MaxLog /\ committed[p] \in 0 .. MaxLog + 1
    BY DEF LogFits, ConTypes
  <2> QED BY <2>1, BoundsArePositive
<1>2. Seek \in [Partitions -> 1 .. MaxLog + 1]
  BY <1>1 DEF Seek
<1>3. PassedOver \in [Records -> Fates]
  BY DEF PassedOver, ConTypes, Fates
<1> QED BY <1>2, <1>3

\* The state before consume().
LEMMA NoConsumerTyped == NoConsumer \in Consumer
<1>1. 1 \in 1 .. MaxLog + 1 /\ 0 \in 0 .. MaxLog /\ 0 \in 0 .. MaxRetries
  BY BoundsArePositive
<1> QED BY <1>1 DEF NoConsumer, Consumer

\* A consumer step keeps the types of the consumer and of the dead-letter rows.
LEMMA ConsumerTyped ==
  ASSUME PubTypes, LogFits, RowTypes, ConTypes, ConsumerStep
  PROVE  RowTypes' /\ ConTypes'
<1>l. log \in [Partitions -> Seq(Events)]
  BY DEF PubTypes
<1>s. Seek \in [Partitions -> 1 .. MaxLog + 1] /\ PassedOver \in [Records -> Fates]
  BY <1>l, SeekTyped
<1>1. CASE StartConsumer
  <2>1. [NoConsumer EXCEPT !.on = TRUE, !.pos = Seek] \in Consumer
    BY <1>s, NoConsumerTyped DEF Consumer
  <2> QED BY <1>1, <1>s, <2>1 DEF StartConsumer, ConTypes, RowTypes
<1>2. CASE Rebalance
  <2>1. [consumer EXCEPT !.pos = Seek] \in Consumer
    BY <1>s DEF Consumer, ConTypes
  <2> QED BY <1>2, <1>s, <2>1 DEF Rebalance, ConTypes, RowTypes
<1>3. CASE StopConsumer
  BY <1>3, NoConsumerTyped DEF StopConsumer, ConTypes, RowTypes
<1>4. ASSUME NEW p \in Partitions, HasRecord(p)
      PROVE  /\ <<p, consumer.pos[p]>> \in Records
             /\ consumer.pos[p] \in Offsets
             /\ consumer.pos[p] \in 1 .. Len(log[p])
             /\ \A n \in 0 .. MaxRetries : Advanced(p, consumer.pos[p], n) \in Consumer
  BY <1>4, <1>l, AdvancedTyped, BoundsArePositive DEF Records
<1>z. 0 \in 0 .. MaxRetries /\ 1 \in 0 .. MaxRetries
  BY BoundsArePositive
<1>o. \A o \in Offsets : o \in 0 .. MaxLog
  BY BoundsArePositive DEF Offsets
<1>5. ASSUME NEW p \in Partitions, HandleOk(p) PROVE RowTypes' /\ ConTypes'
  <2>h. HasRecord(p)
    BY <1>5 DEF HandleOk
  <2>1. consumer' \in Consumer /\ committed' \in [Partitions -> 0 .. MaxLog + 1]
    BY <1>5, <2>h, <1>4, <1>z, CommitTyped DEF HandleOk, ConTypes
  <2>2. fate' \in [Records -> Fates]
    BY <1>5, <2>h, <1>4, FateTyped DEF HandleOk, ConTypes, Fates
  <2> QED BY <1>5, <2>1, <2>2 DEF HandleOk, ConTypes, RowTypes
<1>6. ASSUME NEW p \in Partitions, CommitRaises(p) PROVE RowTypes' /\ ConTypes'
  <2>h. HasRecord(p)
    BY <1>6 DEF CommitRaises
  <2>0. consumer.pos[p] \in 0 .. MaxLog
    BY <2>h, <1>4, <1>o
  <2>1. consumer' \in Consumer
    BY <1>6, <2>h, <2>0, <1>4, <1>z, BlockedTyped DEF CommitRaises
  <2>2. fate' \in [Records -> Fates]
    BY <1>6, <2>h, <1>4, FateTyped DEF CommitRaises, ConTypes, Fates
  <2>3. attempts' \in [Records -> 0 .. MaxRetries]
    BY <1>6, <2>h, <1>4, TriedTyped DEF CommitRaises, ConTypes
  <2> QED BY <1>6, <2>1, <2>2, <2>3 DEF CommitRaises, ConTypes, RowTypes
<1>7. ASSUME NEW p \in Partitions, HandleFails(p) PROVE RowTypes' /\ ConTypes'
  <2>h. HasRecord(p)
    BY <1>7 DEF HandleFails
  <2> DEFINE o == consumer.pos[p]
             n == consumer.count[o] + 1
             c == Advanced(p, o, n)
             b == IF c.blocked[p] = 0 THEN o ELSE c.blocked[p]
  <2>0. o \in 0 .. MaxLog /\ o \in Offsets
    BY <2>h, <1>4, <1>o
  <2>1. n \in 0 .. MaxRetries
    <3>1. consumer.count[o] \in 0 .. MaxRetries
      BY <2>0 DEF ConTypes, Consumer
    <3> QED BY <3>1, <1>7, BoundsArePositive DEF HandleFails
  <2>2. c \in Consumer
    BY <2>h, <2>1, <1>4
  <2>3. b \in 0 .. MaxLog
    BY <2>0, <2>2 DEF Consumer
  <2>4. consumer' = [c EXCEPT !.blocked[p] = b]
    BY <1>7 DEF HandleFails
  <2> HIDE DEF c, b, n
  <2>5. consumer' \in Consumer
    BY <2>2, <2>3, <2>4, BlockedTyped
  <2>6. fate' \in [Records -> Fates]
    BY <1>7, <2>h, <1>4, FateTyped DEF HandleFails, ConTypes, Fates
  <2>7. attempts' \in [Records -> 0 .. MaxRetries]
    BY <1>7, <2>h, <1>4, TriedTyped DEF HandleFails, ConTypes
  <2> QED BY <1>7, <2>5, <2>6, <2>7 DEF HandleFails, ConTypes, RowTypes
<1>8. ASSUME NEW p \in Partitions, DeadLetter(p) PROVE RowTypes' /\ ConTypes'
  <2>h. HasRecord(p)
    BY <1>8 DEF DeadLetter
  <2>1. consumer' \in Consumer /\ committed' \in [Partitions -> 0 .. MaxLog + 1]
    BY <1>8, <2>h, <1>4, <1>z, CommitTyped DEF DeadLetter, ConTypes
  <2>2. fate' \in [Records -> Fates]
    BY <1>8, <2>h, <1>4, FateTyped DEF DeadLetter, ConTypes, Fates
  <2>3. attempts' \in [Records -> 0 .. MaxRetries]
    BY <1>8, <2>h, <1>4, TriedTyped DEF DeadLetter, ConTypes
  <2> DEFINE o == consumer.pos[p]
             d == [ev |-> log[p][o], at |-> <<p, o>>, label |-> "dead-letter"]
  <2>4. log[p][o] \in Events
    BY <1>l, <2>h, <1>4, ElementOfSeq
  <2>5. d \in Row
    BY <2>4, <2>h, <1>4 DEF Row, Labels
  <2> HIDE DEF d
  <2>8. RowTypes'
    <3>1. CASE Len(rows) < MaxDead /\ rows' = Append(rows, d)
      <4>1. rows' \in Seq(Row) /\ Len(rows') = Len(rows) + 1 /\ Len(rows) \in Nat
        BY <2>5, <3>1 DEF RowTypes
      <4>2. Len(rows') <= MaxDead
        BY <3>1, <4>1, BoundsArePositive
      <4> QED BY <4>1, <4>2 DEF RowTypes
    <3>2. CASE UNCHANGED rows
      BY <3>2 DEF RowTypes
    <3> QED BY <1>8, <3>1, <3>2 DEF DeadLetter, d
  <2> QED BY <2>1, <2>2, <2>3, <2>8 DEF ConTypes
<1> QED BY <1>1, <1>2, <1>3, <1>5, <1>6, <1>7, <1>8 DEF ConsumerStep

\* A fresh event and a retried dead letter enter publish() alike.
LEMMA PublishMoves ==
  ASSUME NEW x \in Procs, PubTypes, RowTypes, Publish(x) \/ Retry(x)
  PROVE  /\ proc[x].pc = "idle"
         /\ \E e \in Events, p \in {"send", "connect", "buffer"} :
               Moves(x, p, e, proc[x].todo)
         /\ UNCHANGED <<buffer, stale, log, lost, displaced, accepted, conVars, rows>>
<1>1. PICK e \in Events, r \in 0 .. MaxDead : StartPublish(x, e, r)
  <2>1. CASE Publish(x)
    <3>1. 0 \in 0 .. MaxDead
      BY BoundsArePositive
    <3> QED BY <2>1, <3>1 DEF Publish
  <2>2. CASE Retry(x)
    <3>1. PICK r \in 1 .. Len(rows) : StartPublish(x, rows[r].ev, r)
      BY <2>2 DEF Retry
    <3>2. rows[r] \in Row
      BY ElementOfSeq DEF RowTypes
    <3>3. Len(rows) \in Nat /\ Len(rows) <= MaxDead
      BY LenProperties DEF RowTypes
    <3>4. r \in 0 .. MaxDead
      BY <3>3, BoundsArePositive
    <3>5. rows[r].ev \in Events
      BY <3>2 DEF Row
    <3> QED BY <3>1, <3>4, <3>5
  <2> QED BY <2>1, <2>2
<1>2. PICK p \in {"send", "connect", "buffer"} :
         proc' = [proc EXCEPT ![x].pc = p, ![x].ev = e, ![x].row = r]
  BY <1>1 DEF StartPublish
<1>3. proc \in [Procs -> Proc] /\ p \in Pcs
  BY <1>2 DEF PubTypes, Pcs
<1>4. Moves(x, p, e, proc[x].todo)
  BY <1>2, <1>3, GivenMoves
<1> QED BY <1>1, <1>4 DEF StartPublish

\* One row of a drain.
LEMMA SendMoves ==
  ASSUME NEW x \in Procs, PubTypes, DrainSend(x)
  PROVE  \E d \in proc[x].todo :
            /\ IsFirst(d, proc[x].todo)
            /\ d \in BufferRows
            /\ \/ /\ Written(d.ev)
                  /\ Moves(x, "delete", proc[x].ev, proc[x].todo)
                  /\ UNCHANGED lost
               \/ /\ Unwritten
                  /\ lost' = lost \cup {d.ev}
                  /\ Moves(x, "delete", proc[x].ev, proc[x].todo)
               \/ /\ Written(d.ev) \/ Unwritten
                  /\ Moves(x, "drain", proc[x].ev, {})
                  /\ UNCHANGED lost
<1>1. proc \in [Procs -> Proc] /\ "delete" \in Pcs /\ proc[x].pc = "drain"
      /\ proc[x].todo \subseteq BufferRows
  BY DEF PubTypes, Pcs, Proc, DrainSend
<1>2. (proc' = [proc EXCEPT ![x].pc = "delete"]) => Moves(x, "delete", proc[x].ev, proc[x].todo)
  BY <1>1, PcMoves
<1>3. (proc' = [proc EXCEPT ![x].todo = {}]) => Moves(x, "drain", proc[x].ev, {})
  BY <1>1, TodoEnds
<1> QED BY <1>1, <1>2, <1>3 DEF DrainSend

\* What a drain's delete leaves to the others.
Deletes(x, d) ==
    /\ \A y \in Procs : stale'[y] = IF y # x /\ Db[y] = Db[x]
                                     THEN stale[y] \cup {d.id} ELSE stale[y]
    /\ displaced' = displaced \cup
          IF d.id \in stale[x] THEN EventsUnder(d.id, buffer[Db[x]]) ELSE {}

\* _drain_buffer after a row was sent.
LEMMA DeleteMoves ==
  ASSUME NEW x \in Procs, PubTypes, DrainDelete(x)
  PROVE  \/ \E d \in proc[x].todo :
               /\ IsFirst(d, proc[x].todo)
               /\ buffer' = [buffer EXCEPT ![Db[x]] = {r \in @ : r.id # d.id}]
               /\ Moves(x, "drain", proc[x].ev, proc[x].todo \ {d})
               /\ Deletes(x, d)
         \/ Moves(x, "drain", proc[x].ev, {}) /\ UNCHANGED <<buffer, stale, displaced>>
<1>1. proc \in [Procs -> Proc] /\ "drain" \in Pcs /\ proc[x].todo \subseteq BufferRows
  BY DEF PubTypes, Pcs, Proc
<1>2. ASSUME NEW d \in proc[x].todo, proc' = [proc EXCEPT ![x].pc = "drain", ![x].todo = @ \ {d}]
      PROVE  Moves(x, "drain", proc[x].ev, proc[x].todo \ {d})
  <2>1. proc[x].todo \ {d} \in SUBSET BufferRows
    BY <1>1
  <2>2. proc' = [proc EXCEPT ![x].pc = "drain", ![x].todo = proc[x].todo \ {d}]
    BY <1>2
  <2> QED BY <1>1, <2>1, <2>2, TodoMoves
<1>3. ASSUME proc' = [proc EXCEPT ![x].pc = "drain", ![x].todo = {}]
      PROVE  Moves(x, "drain", proc[x].ev, {})
  BY <1>1, <1>3, TodoMoves
<1> QED BY <1>2, <1>3 DEF DrainDelete, Deletes

\* A step that writes one buffer file.
LEMMA FilesTyped ==
  ASSUME NEW x \in Procs, buffer \in [Files -> SUBSET BufferRows], NEW B \in SUBSET BufferRows,
         buffer' = [buffer EXCEPT ![Db[x]] = B]
  PROVE  buffer' \in [Files -> SUBSET BufferRows]
  OBVIOUS

\* A process takes an event in hand when publish() starts and lets go of it at its end.
LEMMA HandProc ==
  ASSUME PubTypes, RowTypes, HandMatchesPc, NEW x \in Procs, ProcStep(x)
  PROVE  HandMatchesPc'
<1>t. proc \in [Procs -> Proc] /\ proc[x].ev \in Events \cup {None}
  BY DEF PubTypes, Proc
<1>m. ASSUME NEW p, NEW e, NEW T, Moves(x, p, e, T),
             p \in {"idle", "down", "relabel"} => e = None,
             p \in {"send", "buffer"} => e \in Events
      PROVE  HandMatchesPc'
  BY <1>m DEF HandMatchesPc, Moves
<1>1. CASE StartProcess(x)
  BY <1>1, <1>t, <1>m, PcMoves DEF StartProcess, Pcs
<1>2. CASE Publish(x) \/ Retry(x)
  BY <1>2, <1>m, PublishMoves
<1>3. CASE Connect(x)
  BY <1>3, <1>t, <1>m, ConnectMoves
<1>4. CASE DrainSend(x)
  <2>1. \E p \in {"delete", "drain"} : \E T : Moves(x, p, proc[x].ev, T)
    BY <1>4, SendMoves
  <2> QED BY <2>1, <1>m
<1>5. CASE DrainDelete(x)
  <2>1. \E T : Moves(x, "drain", proc[x].ev, T)
    BY <1>5, DeleteMoves
  <2> QED BY <2>1, <1>m
<1>6. CASE DrainEnd(x)
  <2> DEFINE p == IF proc[x].ev = None THEN "idle" ELSE "send"
  <2>1. /\ p \in Pcs /\ proc' = [proc EXCEPT ![x].pc = p]
        /\ p \in {"idle", "down", "relabel"} => proc[x].ev = None
        /\ p \in {"send", "buffer"} => proc[x].ev \in Events
    BY <1>6, <1>t DEF Pcs, DrainEnd
  <2> HIDE DEF p
  <2> QED BY <1>t, <1>m, <2>1, PcMoves
<1>7. CASE Send(x) \/ BufferLocally(x)
  <2>1. CASE \E up \in BOOLEAN : Returns(x, up)
    BY <1>t, <1>m, <2>1, ReturnMoves
  <2>2. CASE proc[x].pc = "send" /\ proc' = [proc EXCEPT ![x].pc = "buffer"]
    <3>1. Moves(x, "buffer", proc[x].ev, proc[x].todo) /\ proc[x].ev \in Events
      BY <1>t, <2>2, PcMoves DEF Pcs, HandMatchesPc
    <3> QED BY <3>1, <1>m
  <2> QED BY <1>7, <2>1, <2>2 DEF Send, BufferLocally
<1>8. CASE Crash(x)
  BY <1>8, <1>t, <1>m, CrashMoves
<1>9. CASE Relabel(x)
  <2>1. Moves(x, "idle", proc[x].ev, proc[x].todo) /\ proc[x].ev = None
    BY <1>9, <1>t, RelabelMoves DEF Relabel, HandMatchesPc
  <2> QED BY <2>1, <1>m
<1> QED BY <1>1, <1>2, <1>3, <1>4, <1>5, <1>6, <1>7, <1>8, <1>9 DEF ProcStep

\* A step of a process keeps the types of everything but the consumer.
LEMMA ProcTyped ==
  ASSUME PubTypes, LogFits, RowTypes, Counts, HandMatchesPc, NEW x \in Procs, ProcStep(x)
  PROVE  PubTypes' /\ LogFits' /\ RowTypes' /\ Counts'
<1>t. /\ proc \in [Procs -> Proc]
      /\ proc[x].todo \subseteq BufferRows
      /\ proc[x].ev \in Events \cup {None}
      /\ Db[x] \in Files
  BY DEF PubTypes, Proc, Files
<1>u. ASSUME UNCHANGED <<buffer, stale, log, lost, displaced, accepted, rows>>, proc' \in [Procs -> Proc]
      PROVE  PubTypes' /\ LogFits' /\ RowTypes' /\ Counts'
  BY <1>u DEF PubTypes, LogFits, RowTypes, Counts, Files
<1>1. CASE StartProcess(x)
  BY <1>1, <1>t, <1>u, PcMoves DEF StartProcess, Moves, Pcs
<1>2. CASE Publish(x) \/ Retry(x)
  BY <1>2, <1>u, PublishMoves DEF Moves
<1>3. CASE Connect(x)
  <2>1. proc' \in [Procs -> Proc] /\ (UNCHANGED stale \/ stale' = [stale EXCEPT ![x] = {}])
    BY <1>3, ConnectMoves DEF Moves
  <2>2. stale' \in [Procs -> SUBSET (1 .. MaxBuffer)]
    BY <2>1 DEF PubTypes
  <2> QED BY <1>3, <2>1, <2>2 DEF Connect, PubTypes, LogFits, RowTypes, Counts, Files
<1>4. CASE DrainSend(x)
  <2>1. PICK d \in proc[x].todo : /\ d \in BufferRows
                                  /\ Written(d.ev) \/ Unwritten
                                  /\ lost' \in {lost, lost \cup {d.ev}}
                                  /\ proc' \in [Procs -> Proc]
    BY <1>4, SendMoves DEF Moves
  <2>2. d.ev \in Events
    BY <2>1 DEF BufferRows
  <2>3. log' \in [Partitions -> Seq(Events)] /\ LogFits'
    <3>1. CASE Written(d.ev)
      BY <2>2, <3>1, WrittenDelivers, WrittenFits DEF PubTypes
    <3>2. CASE Unwritten
      BY <3>2 DEF Unwritten, PubTypes, LogFits
    <3> QED BY <2>1, <3>1, <3>2
  <2> QED BY <1>4, <2>1, <2>2, <2>3 DEF DrainSend, PubTypes, RowTypes, Counts, Files
<1>5. CASE DrainDelete(x)
  <2>1. buffer' \in [Files -> SUBSET BufferRows] /\ proc' \in [Procs -> Proc]
    <3>1. CASE UNCHANGED buffer
      BY <1>5, <3>1, DeleteMoves DEF Moves, PubTypes
    <3>2. CASE \E d : buffer' = [buffer EXCEPT ![Db[x]] = {r \in @ : r.id # d.id}]
      <4>1. PICK d : buffer' = [buffer EXCEPT ![Db[x]] = {r \in buffer[Db[x]] : r.id # d.id}]
        BY <3>2
      <4>2. {r \in buffer[Db[x]] : r.id # d.id} \in SUBSET BufferRows
        BY <1>t DEF PubTypes
      <4>3. buffer' \in [Files -> SUBSET BufferRows]
        BY <4>1, <4>2, FilesTyped DEF PubTypes
      <4> QED BY <1>5, <4>3, DeleteMoves DEF Moves
    <3> QED BY <1>5, <3>1, <3>2, DeleteMoves
  <2>2. stale' \in [Procs -> SUBSET (1 .. MaxBuffer)] /\ displaced' \subseteq Events
    <3>1. CASE UNCHANGED <<stale, displaced>>
      BY <3>1 DEF PubTypes, Counts
    <3>2. ASSUME NEW d \in proc[x].todo,
                 stale' = [y \in Procs |-> IF y # x /\ Db[y] = Db[x]
                                           THEN stale[y] \cup {d.id} ELSE stale[y]],
                 displaced' = displaced \cup
                   IF d.id \in stale[x] THEN EventsUnder(d.id, buffer[Db[x]]) ELSE {}
          PROVE  stale' \in [Procs -> SUBSET (1 .. MaxBuffer)] /\ displaced' \subseteq Events
      <4>1. d.id \in 1 .. MaxBuffer
        BY <1>t DEF BufferRows
      <4>2. \A r \in buffer[Db[x]] : r.ev \in Events
        BY <1>t DEF PubTypes, BufferRows
      <4>3. EventsUnder(d.id, buffer[Db[x]]) \subseteq Events
        BY <4>2 DEF EventsUnder
      <4> QED BY <3>2, <4>1, <4>3 DEF PubTypes, Counts
    <3> QED BY <1>5, <3>1, <3>2 DEF DrainDelete
  <2> QED BY <1>5, <2>1, <2>2 DEF DrainDelete, PubTypes, LogFits, RowTypes, Counts, Files
<1>6. CASE DrainEnd(x)
  BY <1>6, <1>t, <1>u, PcMoves DEF DrainEnd, Moves, Pcs
<1>7. ASSUME NEW up \in BOOLEAN, Returns(x, up), proc[x].ev \in Events
      PROVE  proc' \in [Procs -> Proc] /\ accepted' \subseteq Events
  BY <1>7, <1>t, ReturnMoves DEF Moves, Counts
<1>8. CASE Send(x)
  <2>1. proc[x].ev \in Events
    BY <1>8 DEF Send, HandMatchesPc
  <2>2. log' \in [Partitions -> Seq(Events)] /\ LogFits'
    <3>1. CASE Written(proc[x].ev)
      BY <2>1, <3>1, WrittenDelivers, WrittenFits DEF PubTypes
    <3>2. CASE Unwritten
      BY <3>2 DEF Unwritten, PubTypes, LogFits
    <3> QED BY <1>8, <3>1, <3>2 DEF Send
  <2>3. proc' \in [Procs -> Proc] /\ Counts'
    <3>0. displaced' \subseteq Events /\ lost' \subseteq Events
      BY <1>8, <2>1 DEF Send, Counts
    <3>1. CASE Returns(x, TRUE)
      BY <3>0, <3>1, <2>1, <1>7 DEF Counts
    <3>2. CASE proc' = [proc EXCEPT ![x].pc = "buffer"] /\ UNCHANGED <<lost, accepted>>
      BY <3>0, <3>2, <1>t, PcMoves DEF Moves, Pcs, Counts
    <3> QED BY <1>8, <3>1, <3>2 DEF Send
  <2> QED BY <1>8, <2>2, <2>3 DEF Send, PubTypes, RowTypes, Files
<1>9. CASE BufferLocally(x)
  <2>1. proc[x].ev \in Events
    BY <1>9 DEF BufferLocally, HandMatchesPc
  <2>2. proc' \in [Procs -> Proc] /\ accepted' \subseteq Events
    BY <1>9, <2>1, <1>7 DEF BufferLocally
  <2>3. buffer' \in [Files -> SUBSET BufferRows]
    <3>1. CASE UNCHANGED buffer
      BY <3>1 DEF PubTypes
    <3>2. ASSUME NEW i \in 1 .. MaxBuffer,
                 buffer' = [buffer EXCEPT ![Db[x]] = @ \cup {[id |-> i, ev |-> proc[x].ev]}]
          PROVE  buffer' \in [Files -> SUBSET BufferRows]
      <4>1. buffer[Db[x]] \cup {[id |-> i, ev |-> proc[x].ev]} \in SUBSET BufferRows
        BY <1>t, <2>1 DEF PubTypes, BufferRows
      <4> QED BY <3>2, <4>1, FilesTyped DEF PubTypes
    <3> QED BY <1>9, <3>1, <3>2 DEF BufferLocally
  <2>4. lost' \subseteq Events
    BY <1>9, <2>1 DEF BufferLocally, Counts
  <2> QED BY <1>9, <2>2, <2>3, <2>4 DEF BufferLocally, PubTypes, LogFits, RowTypes, Counts
<1>10. CASE Crash(x)
  BY <1>10, <1>t, <1>u, CrashMoves DEF Crash, Moves
<1>11. CASE Relabel(x)
  <2>1. proc' \in [Procs -> Proc]
    BY <1>11, <1>t, RelabelMoves DEF Moves
  <2>2. RowTypes'
    BY <1>11, RelabelTyped DEF Relabel, Labels
  <2> QED BY <1>11, <2>1, <2>2 DEF Relabel, PubTypes, LogFits, Counts, Files
<1> QED BY <1>1, <1>2, <1>3, <1>4, <1>5, <1>6, <1>8, <1>9, <1>10, <1>11 DEF ProcStep

-----------------------------------------------------------------------------
(* The drain.                                                              *)

\* Nothing but the event path of one process matters to DrainInv.
LEMMA DrainStays ==
  ASSUME DrainInv, ShareInv, UNCHANGED <<proc, buffer, stale, log, lost, displaced>>
  PROVE  DrainInv' /\ ShareInv'
<1>1. Delivered' = Delivered /\ Buffered' = Buffered
  BY UsesLog, UsesBuffer
<1>2. DrainInv'
  BY <1>1 DEF DrainInv, IdsDiffer, TodoIdsDiffer, TodoIsBuffered, HandMatchesPc, DeletedIsSent,
              IsFirst, Files
<1>3. ShareInv'
  BY <1>1 DEF ShareInv, StaleIsShared, TodoIsKnown, Known
<1> QED BY <1>2, <1>3

\* A step of x that leaves its rows to drain alone, or forgets them, and that
\* neither changes a file nor takes an event back.
LEMMA QuietMove ==
  ASSUME DrainInv, NEW x \in Procs, NEW p, NEW e, NEW T, Moves(x, p, e, T),
         UNCHANGED <<buffer, stale>>, T \subseteq proc[x].todo,
         p # "delete",
         p \in {"idle", "down", "relabel"} => e = None,
         p \in {"send", "buffer"} => e \in Events,
         Delivered \subseteq Delivered', lost \subseteq lost'
  PROVE  DrainInv'
<1>1. IdsDiffer'
  BY DEF DrainInv, IdsDiffer, Files
<1>0. \A y \in Procs : proc'[y].todo \subseteq proc[y].todo
  BY DEF Moves
<1>2. TodoIsBuffered' /\ TodoIdsDiffer'
  BY <1>0 DEF DrainInv, TodoIsBuffered, TodoIdsDiffer
<1>3. HandMatchesPc'
  BY DEF DrainInv, HandMatchesPc, Moves
<1>4. DeletedIsSent'
  BY DEF DrainInv, DeletedIsSent, Moves, IsFirst
<1> QED BY <1>1, <1>2, <1>3, <1>4 DEF DrainInv

\* Only one row of a drain has the smallest id.
LEMMA FirstIsOne ==
  ASSUME PubTypes, DrainInv, NEW x \in Procs,
         NEW d, IsFirst(d, proc[x].todo), NEW r, IsFirst(r, proc[x].todo)
  PROVE  d = r
<1>1. d \in proc[x].todo /\ r \in proc[x].todo
  BY DEF IsFirst
<1>2. d \in BufferRows /\ r \in BufferRows
  BY <1>1 DEF PubTypes, Proc
<1>3. d.id \in Nat /\ r.id \in Nat
  BY <1>2, BoundsArePositive DEF BufferRows
<1>4. d.id <= r.id /\ r.id <= d.id
  BY DEF IsFirst
<1>5. d.id = r.id
  BY <1>3, <1>4
<1> QED BY <1>1, <1>5 DEF DrainInv, TodoIdsDiffer

\* Sending never takes an event out of the log.
LEMMA SentIsDelivered ==
  ASSUME PubTypes, NEW e \in Events, Written(e) \/ Unwritten
  PROVE  Delivered \subseteq Delivered'
<1>1. CASE Written(e)
  BY <1>1, WrittenDelivers DEF PubTypes
<1>2. CASE Unwritten
  BY <1>2, UsesLog DEF Unwritten
<1> QED BY <1>1, <1>2

\* A step of a process keeps the drain invariant; whoever deletes a row another has read
\* leaves it stale there.
LEMMA DrainProc ==
  ASSUME PubTypes, RowTypes, DrainInv, NEW x \in Procs, ProcStep(x)
  PROVE  DrainInv'
<1>t. /\ proc \in [Procs -> Proc]
      /\ proc[x].ev \in Events \cup {None}
      /\ proc[x].todo \subseteq BufferRows
      /\ Db[x] \in Files
      /\ buffer[Db[x]] \subseteq BufferRows
  BY DEF PubTypes, Proc, Files
<1>h. /\ proc[x].pc \in {"idle", "down", "relabel"} => proc[x].ev = None
      /\ proc[x].pc \in {"send", "buffer"} => proc[x].ev \in Events
  BY DEF DrainInv, HandMatchesPc
<1>l. UNCHANGED log => Delivered \subseteq Delivered'
  BY UsesLog
<1>1. CASE StartProcess(x)
  <2>1. Moves(x, "connect", proc[x].ev, proc[x].todo)
    BY <1>1, <1>t, PcMoves DEF StartProcess, Pcs
  <2> QED BY <1>1, <1>t, <1>l, <2>1, QuietMove DEF StartProcess
<1>2. CASE Publish(x) \/ Retry(x)
  <2>1. PICK e \in Events, p \in {"send", "connect", "buffer"} : Moves(x, p, e, proc[x].todo)
    BY <1>2, PublishMoves
  <2>2. UNCHANGED <<buffer, stale, log, lost>>
    BY <1>2, PublishMoves
  <2> QED BY <1>t, <1>l, <2>1, <2>2, QuietMove
<1>3. CASE Connect(x)
  <2>1. UNCHANGED <<buffer, log, lost>>
    BY <1>3 DEF Connect
  <2>2. CASE /\ Moves(x, "drain", proc[x].ev, buffer[Db[x]])
             /\ stale' = [stale EXCEPT ![x] = {}]
    <3>0. \A y \in Procs : y # x => stale'[y] = stale[y]
      BY <2>2 DEF PubTypes
    <3>1. IdsDiffer'
      BY <2>1 DEF DrainInv, IdsDiffer, Files
    <3>2. TodoIsBuffered'
      BY <2>1, <2>2, <3>0 DEF DrainInv, TodoIsBuffered, Moves
    <3>3. TodoIdsDiffer'
      BY <1>t, <2>2 DEF DrainInv, TodoIdsDiffer, IdsDiffer, Moves
    <3>4. HandMatchesPc'
      BY <2>2 DEF DrainInv, HandMatchesPc, Moves
    <3>5. DeletedIsSent'
      BY <1>l, <2>1, <2>2 DEF DrainInv, DeletedIsSent, Moves, IsFirst
    <3> QED BY <3>1, <3>2, <3>3, <3>4, <3>5 DEF DrainInv
  <2>3. CASE /\ Moves(x, IF proc[x].ev = None THEN "idle" ELSE "buffer", proc[x].ev, proc[x].todo)
             /\ UNCHANGED stale
    <3> DEFINE p == IF proc[x].ev = None THEN "idle" ELSE "buffer"
    <3>1. /\ p # "delete"
          /\ p \in {"idle", "down", "relabel"} => proc[x].ev = None
          /\ p \in {"send", "buffer"} => proc[x].ev \in Events
      BY <1>t
    <3> HIDE DEF p
    <3> QED BY <1>t, <1>l, <2>1, <2>3, <3>1, QuietMove DEF p
  <2> QED BY <1>3, <2>2, <2>3, ConnectMoves
<1>4. CASE DrainSend(x)
  <2>1. PICK d \in proc[x].todo :
            /\ IsFirst(d, proc[x].todo)
            /\ d \in BufferRows
            /\ \/ /\ Written(d.ev)
                  /\ Moves(x, "delete", proc[x].ev, proc[x].todo)
                  /\ UNCHANGED lost
               \/ /\ Unwritten
                  /\ lost' = lost \cup {d.ev}
                  /\ Moves(x, "delete", proc[x].ev, proc[x].todo)
               \/ /\ Written(d.ev) \/ Unwritten
                  /\ Moves(x, "drain", proc[x].ev, {})
                  /\ UNCHANGED lost
    BY <1>4, SendMoves
  <2>2. d.ev \in Events /\ UNCHANGED <<buffer, stale>>
    BY <1>4, <2>1 DEF BufferRows, DrainSend
  <2>3. Delivered \subseteq Delivered' /\ lost \subseteq lost'
    BY <2>1, <2>2, SentIsDelivered
  <2>4. CASE Moves(x, "drain", proc[x].ev, {})
    BY <1>t, <2>2, <2>3, <2>4, QuietMove
  <2>5. CASE Moves(x, "delete", proc[x].ev, proc[x].todo) /\ d.ev \in Delivered' \cup lost'
    <3>1. IdsDiffer'
      BY <2>2 DEF DrainInv, IdsDiffer, Files
    <3>2. TodoIsBuffered' /\ TodoIdsDiffer'
      BY <2>2, <2>5 DEF DrainInv, TodoIsBuffered, TodoIdsDiffer, Moves
    <3>3. HandMatchesPc'
      BY <2>5 DEF DrainInv, HandMatchesPc, Moves
    <3>4. \A r \in proc[x].todo : IsFirst(r, proc[x].todo) => r = d
      BY <2>1, FirstIsOne
    <3>5. ASSUME NEW y \in Procs, proc'[y].pc = "delete",
                 NEW r \in proc'[y].todo, IsFirst(r, proc'[y].todo)
          PROVE  r.ev \in Delivered' \cup lost'
      <4>1. CASE y = x
        BY <4>1, <3>4, <3>5, <2>5 DEF Moves
      <4>2. CASE y # x
        BY <4>2, <3>5, <2>3, <2>5 DEF Moves, DrainInv, DeletedIsSent
      <4> QED BY <4>1, <4>2
    <3>6. DeletedIsSent'
      BY <3>5 DEF DeletedIsSent, IsFirst
    <3> QED BY <3>1, <3>2, <3>3, <3>6 DEF DrainInv
  <2>6. Written(d.ev) => d.ev \in Delivered'
    BY <2>2, WrittenDelivers DEF PubTypes
  <2> QED BY <2>1, <2>4, <2>5, <2>6
<1>5. CASE DrainDelete(x)
  <2>1. UNCHANGED <<log, lost>>
    BY <1>5 DEF DrainDelete
  <2>2. CASE Moves(x, "drain", proc[x].ev, {}) /\ UNCHANGED <<buffer, stale>>
    BY <1>t, <1>l, <2>1, <2>2, QuietMove
  <2>3. ASSUME NEW d \in proc[x].todo, IsFirst(d, proc[x].todo),
               buffer' = [buffer EXCEPT ![Db[x]] = {r \in @ : r.id # d.id}],
               Moves(x, "drain", proc[x].ev, proc[x].todo \ {d}), Deletes(x, d)
        PROVE  DrainInv'
    <3>1. /\ buffer'[Db[x]] = {r \in buffer[Db[x]] : r.id # d.id}
          /\ \A f \in Files : f # Db[x] => buffer'[f] = buffer[f]
      BY <1>t, <2>3 DEF PubTypes
    <3>2. IdsDiffer'
      BY <3>1 DEF DrainInv, IdsDiffer, Files
    <3>3. \A r \in proc[x].todo \ {d} : r.id # d.id
      BY <1>t, <2>3 DEF DrainInv, TodoIdsDiffer
    <3>4. ASSUME NEW y \in Procs, NEW r \in proc'[y].todo
          PROVE  r.id \in stale'[y] \/ r \in buffer'[Db[y]]
      <4>0. r \in proc[y].todo /\ Db[y] \in Files
        BY <2>3, <3>4 DEF Moves, Files
      <4>1. r.id \in stale[y] \/ r \in buffer[Db[y]]
        BY <4>0 DEF DrainInv, TodoIsBuffered
      <4>2. stale[y] \subseteq stale'[y]
        BY <2>3 DEF Deletes
      <4>3. CASE Db[y] # Db[x]
        BY <4>0, <4>1, <4>2, <4>3, <3>1
      <4>4. CASE y # x /\ Db[y] = Db[x]
        <5>1. d.id \in stale'[y]
          BY <4>4, <2>3 DEF Deletes
        <5> QED BY <4>1, <4>2, <4>4, <5>1, <3>1
      <4>5. CASE y = x
        <5>1. r.id # d.id
          BY <4>5, <3>3, <3>4, <2>3 DEF Moves
        <5> QED BY <4>1, <4>2, <4>5, <5>1, <3>1
      <4> QED BY <4>3, <4>4, <4>5
    <3>8. TodoIdsDiffer'
      BY <2>3 DEF DrainInv, TodoIdsDiffer, Moves
    <3>5. HandMatchesPc'
      BY <2>3 DEF DrainInv, HandMatchesPc, Moves
    <3>6. Delivered' = Delivered
      BY <2>1, UsesLog
    <3>7. DeletedIsSent'
      BY <2>1, <2>3, <3>6 DEF DrainInv, DeletedIsSent, Moves, IsFirst
    <3> QED BY <3>2, <3>4, <3>5, <3>7, <3>8 DEF DrainInv, TodoIsBuffered
  <2> QED BY <1>5, <2>2, <2>3, DeleteMoves
<1>6. CASE DrainEnd(x)
  <2> DEFINE p == IF proc[x].ev = None THEN "idle" ELSE "send"
  <2>1. /\ p \in Pcs
        /\ p # "delete"
        /\ p \in {"idle", "down", "relabel"} => proc[x].ev = None
        /\ p \in {"send", "buffer"} => proc[x].ev \in Events
    BY <1>t DEF Pcs
  <2>2. UNCHANGED <<buffer, stale, log, lost>> /\ proc' = [proc EXCEPT ![x].pc = p]
    BY <1>6 DEF DrainEnd
  <2> HIDE DEF p
  <2>3. Moves(x, p, proc[x].ev, proc[x].todo)
    BY <1>t, <2>1, <2>2, PcMoves
  <2> QED BY <1>t, <1>l, <2>1, <2>2, <2>3, QuietMove
<1>7. CASE Send(x)
  <2>1. proc[x].ev \in Events /\ UNCHANGED <<buffer, stale>>
    BY <1>7, <1>h DEF Send
  <2>2. Delivered \subseteq Delivered' /\ lost \subseteq lost'
    BY <1>7, <2>1, SentIsDelivered DEF Send
  <2>3. CASE Returns(x, TRUE)
    <3>1. PICK p \in {"idle", "relabel"} : Moves(x, p, None, proc[x].todo)
      BY <1>t, <2>3, ReturnMoves
    <3> QED BY <1>t, <2>1, <2>2, <3>1, QuietMove
  <2>4. CASE proc' = [proc EXCEPT ![x].pc = "buffer"]
    <3>1. Moves(x, "buffer", proc[x].ev, proc[x].todo)
      BY <1>t, <2>4, PcMoves DEF Pcs
    <3> QED BY <1>t, <2>1, <2>2, <3>1, QuietMove
  <2> QED BY <1>7, <2>3, <2>4 DEF Send
<1>8. CASE BufferLocally(x)
  <2>1. PICK p \in {"idle", "relabel"} : Moves(x, p, None, proc[x].todo)
    BY <1>8, <1>t, ReturnMoves DEF BufferLocally
  <2>2. proc[x].ev \in Events /\ UNCHANGED <<log, stale>> /\ lost \subseteq lost'
    BY <1>8, <1>h DEF BufferLocally
  <2>3. CASE UNCHANGED buffer
    BY <1>t, <1>l, <2>1, <2>2, <2>3, QuietMove
  <2>4. ASSUME NEW i \in 1 .. MaxBuffer, NextRowId(buffer[Db[x]], i),
               buffer' = [buffer EXCEPT ![Db[x]] = @ \cup {[id |-> i, ev |-> proc[x].ev]}]
        PROVE  DrainInv'
    <3> DEFINE new == [id |-> i, ev |-> proc[x].ev]
    <3>1. /\ buffer'[Db[x]] = buffer[Db[x]] \cup {new}
          /\ \A f \in Files : f # Db[x] => buffer'[f] = buffer[f]
      BY <1>t, <2>4 DEF PubTypes
    <3>2. \A r \in buffer[Db[x]] : r.id # i
      <4>1. \A r \in buffer[Db[x]] : r.id \in Nat /\ r.id < i
        BY <1>t, <2>4, BoundsArePositive DEF NextRowId, BufferRows
      <4>2. i \in Nat
        BY BoundsArePositive
      <4> QED BY <4>1, <4>2
    <3>3. new.id = i
      OBVIOUS
    <3> HIDE DEF new
    <3>4. IdsDiffer'
      BY <3>1, <3>2, <3>3 DEF DrainInv, IdsDiffer, Files
    <3>5. \A f \in Files : buffer[f] \subseteq buffer'[f]
      BY <3>1
    <3>6. \A y \in Procs : proc'[y].todo = proc[y].todo
      BY <2>1 DEF Moves
    <3>7. TodoIsBuffered' /\ TodoIdsDiffer'
      BY <2>2, <3>5, <3>6 DEF DrainInv, TodoIsBuffered, TodoIdsDiffer, Files
    <3>8. HandMatchesPc'
      BY <2>1 DEF DrainInv, HandMatchesPc, Moves
    <3>9. DeletedIsSent'
      BY <1>l, <2>1, <2>2 DEF DrainInv, DeletedIsSent, Moves, IsFirst
    <3> QED BY <3>4, <3>7, <3>8, <3>9 DEF DrainInv
  <2> QED BY <1>8, <2>3, <2>4 DEF BufferLocally
<1>9. CASE Crash(x)
  BY <1>9, <1>t, <1>l, CrashMoves, QuietMove DEF Crash
<1>10. CASE Relabel(x)
  <2>1. Moves(x, "idle", proc[x].ev, proc[x].todo) /\ proc[x].ev = None
    BY <1>10, <1>t, <1>h, RelabelMoves DEF Relabel
  <2> QED BY <1>10, <1>t, <1>l, <2>1, QuietMove DEF Relabel
<1> QED BY <1>1, <1>2, <1>3, <1>4, <1>5, <1>6, <1>7, <1>8, <1>9, <1>10 DEF ProcStep

\* No step loses track of an event: what leaves the files was sent, refused or displaced.
LEMMA KnownGrows ==
  ASSUME PubTypes, RowTypes, DrainInv, NEW x \in Procs, ProcStep(x)
  PROVE  Known \subseteq Known'
<1>t. buffer \in [Files -> SUBSET BufferRows] /\ proc \in [Procs -> Proc]
      /\ proc[x].todo \subseteq BufferRows
  BY DEF PubTypes, Proc
<1>l. /\ UNCHANGED log => Delivered' = Delivered
      /\ UNCHANGED buffer => Buffered' = Buffered
  BY UsesLog, UsesBuffer
<1>1. CASE StartProcess(x) \/ Connect(x) \/ DrainEnd(x) \/ Crash(x) \/ Relabel(x)
  <2>1. UNCHANGED <<buffer, log, lost, displaced>>
    BY <1>1 DEF StartProcess, Connect, DrainEnd, Crash, Relabel
  <2> QED BY <1>l, <2>1 DEF Known
<1>2. CASE Publish(x) \/ Retry(x)
  <2>1. UNCHANGED <<buffer, log, lost, displaced>>
    BY <1>2, PublishMoves
  <2> QED BY <1>l, <2>1 DEF Known
<1>3. CASE DrainSend(x)
  <2>1. PICK d \in proc[x].todo : Written(d.ev) \/ Unwritten
    BY <1>3 DEF DrainSend
  <2>2. d.ev \in Events
    BY <1>t DEF BufferRows
  <2>3. Delivered \subseteq Delivered'
    BY <2>1, <2>2, SentIsDelivered
  <2>4. UNCHANGED <<buffer, displaced>> /\ lost \subseteq lost'
    BY <1>3 DEF DrainSend
  <2> QED BY <1>l, <2>3, <2>4 DEF Known
<1>4. CASE DrainDelete(x)
  <2>1. UNCHANGED <<log, lost>> /\ proc[x].pc = "delete"
    BY <1>4 DEF DrainDelete
  <2>2. CASE UNCHANGED <<buffer, stale, displaced>>
    BY <1>l, <2>1, <2>2 DEF Known
  <2>3. ASSUME NEW d \in proc[x].todo, IsFirst(d, proc[x].todo),
               buffer' = [buffer EXCEPT ![Db[x]] = {r \in @ : r.id # d.id}], Deletes(x, d)
        PROVE  Known \subseteq Known'
    <3>1. CASE d.id \notin stale[x]
      <4>1. d \in buffer[Db[x]] /\ displaced' = displaced
        BY <2>3, <3>1 DEF DrainInv, TodoIsBuffered, Deletes
      <4>2. Buffered' = Buffered \/ Buffered' = Buffered \ {d.ev}
        BY <1>t, <2>3, <4>1, DeleteForgets DEF DrainInv
      <4>3. d.ev \in Delivered \cup lost
        BY <2>1, <2>3 DEF DrainInv, DeletedIsSent
      <4> QED BY <1>l, <2>1, <4>1, <4>2, <4>3 DEF Known
    <3>2. CASE d.id \in stale[x]
      <4>1. displaced' = displaced \cup EventsUnder(d.id, buffer[Db[x]])
        BY <2>3, <3>2 DEF Deletes
      <4>2. \/ EventsUnder(d.id, buffer[Db[x]]) = {} /\ Buffered' = Buffered
            \/ \E e \in Events : /\ EventsUnder(d.id, buffer[Db[x]]) = {e}
                                 /\ e \in Buffered
                                 /\ Buffered' = Buffered \/ Buffered' = Buffered \ {e}
        BY <1>t, <2>3, DeleteTakes DEF DrainInv
      <4> QED BY <1>l, <2>1, <4>1, <4>2 DEF Known
    <3> QED BY <3>1, <3>2
  <2> QED BY <1>4, <2>2, <2>3, DeleteMoves
<1>5. CASE Send(x)
  <2>1. proc[x].ev \in Events /\ UNCHANGED <<buffer, displaced>> /\ lost \subseteq lost'
    BY <1>5 DEF Send, DrainInv, HandMatchesPc
  <2>2. Delivered \subseteq Delivered'
    BY <1>5, <2>1, SentIsDelivered DEF Send
  <2> QED BY <1>l, <2>1, <2>2 DEF Known
<1>6. CASE BufferLocally(x)
  <2>1. proc[x].ev \in Events /\ UNCHANGED <<log, displaced>> /\ lost \subseteq lost'
    BY <1>6 DEF BufferLocally, DrainInv, HandMatchesPc
  <2>2. Buffered \subseteq Buffered'
    BY <1>6, <1>l, <1>t, <2>1, InsertBuffers DEF BufferLocally
  <2> QED BY <1>l, <2>1, <2>2 DEF Known
<1> QED BY <1>1, <1>2, <1>3, <1>4, <1>5, <1>6 DEF ProcStep

\* A process comes to rows to drain by reading its file, and to stale ones by another's delete.
LEMMA ShareProc ==
  ASSUME PubTypes, RowTypes, DrainInv, ShareInv, NEW x \in Procs, ProcStep(x)
  PROVE  ShareInv'
<1>t. proc \in [Procs -> Proc] /\ Db[x] \in Files /\ buffer[Db[x]] \subseteq BufferRows
  BY DEF PubTypes, Files
<1>k. Known \subseteq Known'
  BY KnownGrows
<1>1. ASSUME UNCHANGED stale, \A y \in Procs : proc'[y].todo \subseteq proc[y].todo
      PROVE  ShareInv'
  BY <1>1, <1>k DEF ShareInv, StaleIsShared, TodoIsKnown
<1>2. ASSUME NEW p, NEW e, NEW T, Moves(x, p, e, T), T \subseteq proc[x].todo, UNCHANGED stale
      PROVE  ShareInv'
  <2>1. \A y \in Procs : proc'[y].todo \subseteq proc[y].todo
    BY <1>2 DEF Moves
  <2> QED BY <1>1, <1>2, <2>1
<1>3. CASE StartProcess(x)
  BY <1>3, <1>t, <1>2, PcMoves DEF StartProcess, Pcs
<1>4. CASE Publish(x) \/ Retry(x)
  BY <1>4, <1>2, PublishMoves
<1>5. CASE Connect(x)
  <2>1. CASE /\ Moves(x, "drain", proc[x].ev, buffer[Db[x]])
             /\ stale' = [stale EXCEPT ![x] = {}]
    <3>1. StaleIsShared'
      BY <2>1 DEF ShareInv, StaleIsShared, PubTypes
    <3>2. \A d \in buffer[Db[x]] : d.ev \in Buffered
      BY <1>t DEF Buffered, BufferRows
    <3>3. TodoIsKnown'
      BY <2>1, <3>2, <1>k DEF ShareInv, TodoIsKnown, Known, Moves
    <3> QED BY <3>1, <3>3 DEF ShareInv
  <2> QED BY <1>2, <1>5, <2>1, ConnectMoves
<1>6. CASE DrainSend(x)
  <2>1. UNCHANGED stale
    BY <1>6 DEF DrainSend
  <2>2. \E p, T : T \subseteq proc[x].todo /\ Moves(x, p, proc[x].ev, T)
    BY <1>6, SendMoves
  <2> QED BY <1>2, <2>1, <2>2
<1>7. CASE DrainDelete(x)
  <2>1. CASE Moves(x, "drain", proc[x].ev, {}) /\ UNCHANGED <<buffer, stale, displaced>>
    BY <1>2, <2>1
  <2>2. ASSUME NEW d \in proc[x].todo, Deletes(x, d),
               Moves(x, "drain", proc[x].ev, proc[x].todo \ {d})
        PROVE  ShareInv'
    <3>1. StaleIsShared'
      BY <2>2 DEF ShareInv, StaleIsShared, Deletes
    <3>2. \A y \in Procs : proc'[y].todo \subseteq proc[y].todo
      BY <2>2 DEF Moves
    <3>3. TodoIsKnown'
      BY <3>2, <1>k DEF ShareInv, TodoIsKnown
    <3> QED BY <3>1, <3>3 DEF ShareInv
  <2> QED BY <1>7, <2>1, <2>2, DeleteMoves
<1>8. CASE DrainEnd(x)
  <2> DEFINE p == IF proc[x].ev = None THEN "idle" ELSE "send"
  <2>1. p \in Pcs /\ proc' = [proc EXCEPT ![x].pc = p] /\ UNCHANGED stale
    BY <1>8 DEF DrainEnd, Pcs
  <2> HIDE DEF p
  <2> QED BY <1>2, <1>t, <2>1, PcMoves
<1>9. CASE Send(x) \/ BufferLocally(x)
  <2>1. UNCHANGED stale
    BY <1>9 DEF Send, BufferLocally
  <2>2. CASE \E up \in BOOLEAN : Returns(x, up)
    BY <1>2, <1>t, <2>1, <2>2, ReturnMoves
  <2>3. CASE proc' = [proc EXCEPT ![x].pc = "buffer"]
    BY <1>2, <1>t, <2>1, <2>3, PcMoves DEF Pcs
  <2> QED BY <1>9, <2>2, <2>3 DEF Send, BufferLocally
<1>10. CASE Crash(x)
  BY <1>10, <1>t, <1>2, CrashMoves DEF Crash
<1>11. CASE Relabel(x)
  BY <1>11, <1>t, <1>2, RelabelMoves DEF Relabel
<1> QED BY <1>3, <1>4, <1>5, <1>6, <1>7, <1>8, <1>9, <1>10, <1>11 DEF ProcStep

-----------------------------------------------------------------------------
(* The theorems.                                                           *)

TypeInv == TypeOK /\ HandMatchesPc

IInv == TypeOK /\ DrainInv /\ ShareInv

\* The inductive invariant holds at the start ...
LEMMA InitHolds == Init => IInv
<1> SUFFICES ASSUME Init PROVE IInv
  OBVIOUS
<1>1. PubTypes /\ LogFits
  <2>1. [pc |-> "down", up |-> FALSE, ev |-> None, row |-> 0, todo |-> {}] \in Proc
    BY BoundsArePositive DEF Proc, Pcs
  <2>2. <<>> \in Seq(Events) /\ Len(<<>>) = 0
    BY EmptySeq
  <2>3. \A p \in Partitions : log[p] = <<>>
    BY DEF Init
  <2>4. 0 <= MaxLog
    BY BoundsArePositive
  <2> QED BY <2>1, <2>2, <2>3, <2>4 DEF Init, PubTypes, LogFits
<1>2. RowTypes
  BY EmptySeq, BoundsArePositive DEF Init, RowTypes
<1>3. ConTypes
  <2>1. 0 \in 0 .. MaxLog + 1 /\ 1 \in 0 .. MaxLog + 1 /\ 0 \in 0 .. MaxRetries
    BY BoundsArePositive
  <2>2. committed \in [Partitions -> 0 .. MaxLog + 1]
    BY <2>1 DEF Init
  <2> QED BY <2>1, <2>2, NoConsumerTyped DEF Init, ConTypes, Fates
<1>4. Counts
  BY DEF Init, Counts
<1>5. /\ \A f \in Files : buffer[f] = {}
      /\ \A x \in Procs : /\ proc[x].pc = "down" /\ proc[x].ev = None /\ proc[x].todo = {}
                          /\ stale[x] = {}
  BY DEF Init
<1>6. DrainInv /\ ShareInv
  BY <1>5 DEF DrainInv, IdsDiffer, TodoIdsDiffer, TodoIsBuffered, HandMatchesPc, DeletedIsSent,
              ShareInv, StaleIsShared, TodoIsKnown
<1> QED BY <1>1, <1>2, <1>3, <1>4, <1>6, TypeParts DEF IInv

\* ... and every step keeps the types ...
LEMMA StepTyped == ASSUME TypeInv, [Next]_vars PROVE TypeInv'
<1>t. PubTypes /\ LogFits /\ RowTypes /\ Counts /\ ConTypes /\ HandMatchesPc
  BY TypeParts DEF TypeInv
<1>p. TypeOK' <=> PubTypes' /\ LogFits' /\ RowTypes' /\ Counts' /\ ConTypes'
  BY DEF TypeOK, PubTypes, LogFits, RowTypes, Row, Counts, ConTypes
<1>1. ASSUME NEW x \in Procs, ProcStep(x) PROVE TypeInv'
  <2>1. PubTypes' /\ LogFits' /\ RowTypes' /\ Counts' /\ HandMatchesPc'
    BY <1>t, <1>1, ProcTyped, HandProc
  <2>2. UNCHANGED conVars
    BY <1>1 DEF ProcStep, StartProcess, Publish, Retry, StartPublish, Connect, DrainSend,
                DrainDelete, DrainEnd, Send, BufferLocally, Crash, Relabel
  <2>3. ConTypes'
    BY <1>t, <2>2 DEF ConTypes, conVars
  <2> QED BY <2>1, <2>3, <1>p DEF TypeInv
<1>h. UNCHANGED proc => HandMatchesPc'
  BY <1>t DEF HandMatchesPc
<1>2. CASE ConsumerStep
  <2>1. UNCHANGED <<pubVars, log>>
    BY <1>2 DEF ConsumerStep, StartConsumer, Rebalance, StopConsumer, HandleOk, CommitRaises,
                HandleFails, DeadLetter
  <2>2. RowTypes' /\ ConTypes'
    BY <1>t, <1>2, ConsumerTyped
  <2>3. PubTypes' /\ LogFits' /\ Counts'
    BY <1>t, <2>1 DEF PubTypes, LogFits, Counts, pubVars, Files
  <2> QED BY <2>1, <2>2, <2>3, <1>h, <1>p DEF TypeInv, pubVars
<1>3. CASE Dismiss
  <2>1. UNCHANGED <<pubVars, log, conVars>>
    BY <1>3 DEF Dismiss
  <2>2. RowTypes'
    BY <1>t, <1>3, DismissTyped
  <2>3. PubTypes' /\ LogFits' /\ Counts' /\ ConTypes'
    BY <1>t, <2>1 DEF PubTypes, LogFits, Counts, ConTypes, pubVars, conVars, Files
  <2> QED BY <2>1, <2>2, <2>3, <1>h, <1>p DEF TypeInv, pubVars
<1>4. CASE UNCHANGED vars
  <2>1. PubTypes' /\ LogFits' /\ RowTypes' /\ Counts' /\ ConTypes'
    BY <1>t, <1>4 DEF vars, PubTypes, LogFits, RowTypes, Counts, ConTypes, Files
  <2> QED BY <1>4, <2>1, <1>h, <1>p DEF TypeInv, vars
<1> QED BY <1>1, <1>2, <1>3, <1>4 DEF Next

\* ... and the drain invariant.
LEMMA StepHolds == ASSUME IInv, [Next]_vars PROVE IInv'
<1>t. PubTypes /\ RowTypes /\ DrainInv /\ ShareInv /\ TypeInv
  BY TypeParts DEF IInv, TypeInv, DrainInv
<1>1. TypeOK'
  BY <1>t, StepTyped DEF TypeInv
<1>2. ASSUME NEW x \in Procs, ProcStep(x) PROVE DrainInv' /\ ShareInv'
  BY <1>t, <1>2, DrainProc, ShareProc
<1>3. ASSUME ConsumerStep \/ Dismiss \/ UNCHANGED vars PROVE DrainInv' /\ ShareInv'
  <2>1. UNCHANGED <<proc, buffer, stale, log, lost, displaced>>
    BY <1>3 DEF ConsumerStep, StartConsumer, Rebalance, StopConsumer, HandleOk, CommitRaises,
                HandleFails, DeadLetter, Dismiss, pubVars, vars
  <2> QED BY <1>t, <2>1, DrainStays
<1> QED BY <1>1, <1>2, <1>3 DEF Next, IInv

\* What each publisher has in hand, as AtLeastOnce sees it.
Hand == [x \in Procs |-> proc[x].ev]

\* The event in hand changes with the record of the process that moves.
LEMMA HandMoves ==
  ASSUME NEW x \in Procs, NEW p, NEW e, NEW T, Moves(x, p, e, T)
  PROVE  /\ Hand' = [Hand EXCEPT ![x] = e]
         /\ e = proc[x].ev => Hand' = Hand
<1>1. \A y \in Procs : proc'[y].ev = IF y = x THEN e ELSE proc[y].ev
  BY DEF Moves
<1> QED BY <1>1 DEF Hand

\* Every step of a process is a step of AtLeastOnce or changes nothing it shows.
LEMMA ProcRefines ==
  ASSUME PubTypes, RowTypes, DrainInv, ShareInv, NEW x \in Procs, ProcStep(x)
  PROVE  [Queue!ANext]_(Queue!avars)
<1>t. /\ proc \in [Procs -> Proc]
      /\ proc[x].ev \in Events \cup {None}
      /\ Db[x] \in Files
      /\ Hand[x] = proc[x].ev
      /\ buffer \in [Files -> SUBSET BufferRows]
  BY DEF PubTypes, Proc, Files, Hand
<1>h. /\ proc[x].pc = "idle" => proc[x].ev = None
      /\ proc[x].pc \in {"send", "buffer"} => proc[x].ev \in Events
      /\ proc[x].pc = "relabel" => proc[x].ev = None
  BY DEF DrainInv, HandMatchesPc
<1>l. /\ UNCHANGED log => Delivered' = Delivered
      /\ UNCHANGED buffer => Buffered' = Buffered
  BY UsesLog, UsesBuffer
<1>s. ASSUME Hand' = Hand, Buffered' = Buffered, Delivered' = Delivered,
             UNCHANGED <<accepted, lost, displaced>>
      PROVE  UNCHANGED Queue!avars
  BY <1>s DEF Queue!avars, Hand
<1>q. ASSUME NEW p, NEW T, Moves(x, p, proc[x].ev, T),
             UNCHANGED <<buffer, log, accepted, lost, displaced>>
      PROVE  UNCHANGED Queue!avars
  BY <1>q, <1>l, <1>s, HandMoves
<1>d. ASSUME NEW e \in Events, e \in Known \/ Hand[x] = e, Written(e), Hand' = Hand,
             UNCHANGED <<buffer, accepted, lost, displaced>>
      PROVE  [Queue!ANext]_(Queue!avars)
  <2>1. Delivered' = Delivered \cup {e} /\ Buffered' = Buffered
    BY <1>d, <1>l, WrittenDelivers DEF PubTypes
  <2>2. CASE e \in Delivered
    BY <1>d, <1>s, <2>1, <2>2
  <2>3. CASE e \notin Delivered
    <3>1. Queue!Deliver(e)
      BY <1>d, <2>1, <2>3 DEF Queue!Deliver, Hand, Known
    <3> QED BY <3>1 DEF Queue!ANext
  <2> QED BY <2>2, <2>3
<1>1. CASE StartProcess(x)
  BY <1>1, <1>t, <1>q, PcMoves DEF StartProcess, Pcs
<1>2. CASE Publish(x) \/ Retry(x)
  <2>1. PICK e \in Events, p \in {"send", "connect", "buffer"} : Moves(x, p, e, proc[x].todo)
    BY <1>2, PublishMoves
  <2>2. proc[x].ev = None /\ UNCHANGED <<buffer, log, lost, displaced, accepted>>
    BY <1>2, <1>h, PublishMoves DEF Publish, Retry, StartPublish
  <2>3. Queue!Give(x, e)
    BY <1>t, <1>l, <2>1, <2>2, HandMoves DEF Queue!Give, Hand
  <2> QED BY <2>3 DEF Queue!ANext
<1>3. CASE Connect(x)
  BY <1>3, <1>q, ConnectMoves DEF Connect
<1>4. CASE DrainSend(x)
  <2>1. PICK d \in proc[x].todo :
            /\ d \in BufferRows
            /\ \/ Written(d.ev) /\ UNCHANGED lost
               \/ Unwritten /\ lost' = lost \cup {d.ev}
               \/ Unwritten /\ UNCHANGED lost
            /\ \E p, T : Moves(x, p, proc[x].ev, T)
    BY <1>4, SendMoves
  <2>2. d.ev \in Events /\ UNCHANGED <<buffer, displaced, accepted>>
    BY <1>4, <2>1 DEF BufferRows, DrainSend
  <2>3. d.ev \in Known
    BY <2>1 DEF ShareInv, TodoIsKnown
  <2>4. Hand' = Hand
    BY <2>1, HandMoves
  <2>5. CASE Written(d.ev) /\ UNCHANGED lost
    BY <2>2, <2>3, <2>4, <2>5, <1>d
  <2>6. CASE Unwritten /\ lost' = lost \cup {d.ev}
    <3>1. CASE d.ev \in Buffered \cup Delivered
      <4>1. Queue!Refuse(d.ev)
        BY <1>l, <2>2, <2>4, <2>6, <3>1 DEF Queue!Refuse, Hand, Unwritten
      <4> QED BY <2>2, <4>1 DEF Queue!ANext
    <3>2. CASE d.ev \in lost \cup displaced
      BY <1>l, <2>2, <2>4, <2>6, <3>2 DEF Queue!avars, Hand, Unwritten
    <3> QED BY <2>3, <3>1, <3>2 DEF Known
  <2>7. CASE Unwritten /\ UNCHANGED lost
    BY <1>l, <1>s, <2>2, <2>4, <2>7 DEF Unwritten
  <2> QED BY <2>1, <2>5, <2>6, <2>7
<1>5. CASE DrainDelete(x)
  <2>0. proc[x].pc = "delete" /\ UNCHANGED <<log, lost, accepted>>
    BY <1>5 DEF DrainDelete
  <2>1. CASE Moves(x, "drain", proc[x].ev, {}) /\ UNCHANGED <<buffer, displaced>>
    BY <1>q, <2>0, <2>1
  <2>2. ASSUME NEW d \in proc[x].todo, IsFirst(d, proc[x].todo),
               buffer' = [buffer EXCEPT ![Db[x]] = {r \in @ : r.id # d.id}],
               Moves(x, "drain", proc[x].ev, proc[x].todo \ {d}), Deletes(x, d)
        PROVE  [Queue!ANext]_(Queue!avars)
    <3>1. d.ev \in Delivered \cup lost
      BY <2>0, <2>2 DEF DrainInv, DeletedIsSent
    <3>2. Hand' = Hand /\ Delivered' = Delivered
      BY <1>l, <2>0, <2>2, HandMoves
    <3>3. CASE d.id \notin stale[x]
      <4>0. d \in buffer[Db[x]] /\ UNCHANGED displaced
        BY <2>2, <3>3 DEF DrainInv, TodoIsBuffered, Deletes
      <4>1. d.ev \in Buffered /\ (Buffered' = Buffered \/ Buffered' = Buffered \ {d.ev})
        BY <1>t, <2>2, <4>0, DeleteForgets DEF DrainInv
      <4>2. CASE Buffered' = Buffered
        BY <1>s, <2>0, <3>2, <4>0, <4>2
      <4>3. CASE Buffered' = Buffered \ {d.ev}
        <5>1. Queue!LetGo(d.ev)
          BY <2>0, <3>1, <3>2, <4>0, <4>1, <4>3 DEF Queue!LetGo, Hand
        <5>2. d.ev \in Events
          BY <4>1 DEF Buffered
        <5> QED BY <5>1, <5>2 DEF Queue!ANext
      <4> QED BY <4>1, <4>2, <4>3
    <3>4. CASE d.id \in stale[x]
      <4> DEFINE U == EventsUnder(d.id, buffer[Db[x]])
      <4>0. displaced' = displaced \cup U
        BY <2>2, <3>4 DEF Deletes
      <4>1. \/ U = {} /\ Buffered' = Buffered
            \/ \E e \in Events : /\ U = {e} /\ e \in Buffered
                                 /\ Buffered' = Buffered \/ Buffered' = Buffered \ {e}
        BY <1>t, <2>2, DeleteTakes DEF DrainInv
      <4> HIDE DEF U
      <4>2. CASE U = {} /\ Buffered' = Buffered
        BY <1>s, <2>0, <3>2, <4>0, <4>2
      <4>3. ASSUME NEW e \in Events, U = {e}, e \in Buffered,
                   Buffered' = Buffered \/ Buffered' = Buffered \ {e}
            PROVE  [Queue!ANext]_(Queue!avars)
        <5>1. \E a, b \in Procs : a # b /\ Db[a] = Db[b]
          BY <3>4 DEF ShareInv, StaleIsShared
        <5>2. (lost \cup displaced)' = (lost \cup displaced) \cup {e}
          BY <2>0, <4>0, <4>3
        <5>3. Queue!Displace(e)
          BY <2>0, <3>2, <4>3, <5>1, <5>2 DEF Queue!Displace, Hand
        <5> QED BY <5>3 DEF Queue!ANext
      <4> QED BY <4>1, <4>2, <4>3
    <3> QED BY <3>3, <3>4
  <2> QED BY <1>5, <2>1, <2>2, DeleteMoves
<1>6. CASE DrainEnd(x)
  <2> DEFINE p == IF proc[x].ev = None THEN "idle" ELSE "send"
  <2>1. p \in Pcs /\ proc' = [proc EXCEPT ![x].pc = p]
    BY <1>6 DEF Pcs, DrainEnd
  <2> HIDE DEF p
  <2> QED BY <1>6, <1>t, <1>q, <2>1, PcMoves DEF DrainEnd
<1>r. ASSUME NEW up \in BOOLEAN, Returns(x, up), proc[x].ev \in Events
      PROVE  /\ Hand' = [Hand EXCEPT ![x] = None]
             /\ accepted' = accepted \cup {Hand[x]}
  BY <1>r, <1>t, ReturnMoves, HandMoves
<1>7. CASE Send(x)
  <2>1. proc[x].ev \in Events /\ UNCHANGED <<buffer, displaced>>
    BY <1>7, <1>h DEF Send
  <2>2. CASE Written(proc[x].ev) /\ Returns(x, TRUE) /\ UNCHANGED lost
    <3>1. Delivered' = Delivered \cup {Hand[x]}
      BY <1>t, <2>1, <2>2, WrittenDelivers DEF PubTypes
    <3>2. Queue!Return(x)
      BY <1>t, <1>l, <1>r, <2>1, <2>2, <3>1 DEF Queue!Return, Hand
    <3> QED BY <3>2 DEF Queue!ANext
  <2>3. CASE Unwritten /\ Returns(x, TRUE) /\ lost' = lost \cup {proc[x].ev}
    <3>1. Queue!Return(x)
      BY <1>t, <1>l, <1>r, <2>1, <2>3 DEF Queue!Return, Hand, Unwritten
    <3> QED BY <3>1 DEF Queue!ANext
  <2>4. CASE /\ Written(proc[x].ev) \/ Unwritten
             /\ proc' = [proc EXCEPT ![x].pc = "buffer"]
             /\ UNCHANGED <<lost, accepted>>
    <3>1. Hand' = Hand
      BY <1>t, <2>4, PcMoves, HandMoves DEF Pcs
    <3>2. CASE Written(proc[x].ev)
      BY <1>t, <1>d, <2>1, <2>4, <3>1, <3>2
    <3>3. CASE Unwritten
      BY <1>l, <1>s, <2>1, <2>4, <3>1, <3>3 DEF Unwritten
    <3> QED BY <2>4, <3>2, <3>3
  <2> QED BY <1>7, <2>2, <2>3, <2>4 DEF Send
<1>8. CASE BufferLocally(x)
  <2>1. proc[x].ev \in Events /\ UNCHANGED <<log, displaced>>
    BY <1>8, <1>h DEF BufferLocally
  <2>2. Hand' = [Hand EXCEPT ![x] = None] /\ accepted' = accepted \cup {Hand[x]}
    BY <1>8, <1>r, <2>1 DEF BufferLocally
  <2>3. \/ Buffered' = Buffered \cup {Hand[x]} /\ UNCHANGED lost
        \/ Buffered' = Buffered /\ lost' = lost \cup {Hand[x]}
    BY <1>8, <1>l, <1>t, <2>1, InsertBuffers DEF BufferLocally
  <2>4. Queue!Return(x)
    BY <1>l, <1>t, <2>1, <2>2, <2>3 DEF Queue!Return, Hand
  <2> QED BY <2>4 DEF Queue!ANext
<1>9. CASE Crash(x)
  <2>1. Moves(x, "down", None, {}) /\ UNCHANGED <<buffer, log, lost, displaced, accepted>>
    BY <1>9, <1>t, CrashMoves DEF Crash
  <2>2. CASE proc[x].ev = None
    BY <1>q, <2>1, <2>2
  <2>3. CASE proc[x].ev \in Events
    <3>1. Queue!Abandon(x)
      BY <1>l, <1>t, <2>1, <2>3, HandMoves DEF Queue!Abandon, Hand
    <3> QED BY <3>1 DEF Queue!ANext
  <2> QED BY <1>t, <2>2, <2>3
<1>10. CASE Relabel(x)
  BY <1>10, <1>t, <1>q, RelabelMoves DEF Relabel
<1> QED BY <1>1, <1>2, <1>3, <1>4, <1>5, <1>6, <1>7, <1>8, <1>9, <1>10 DEF ProcStep

\* At the start nothing is in hand, kept or delivered.
LEMMA InitRefines == Init => Queue!AInit
<1> SUFFICES ASSUME Init PROVE Queue!AInit
  OBVIOUS
<1>1. [x \in Procs |-> proc[x].ev] = [x \in Procs |-> None]
  BY DEF Init
<1>2. Buffered = {}
  BY DEF Init, Buffered
<1>3. Delivered = {}
  <2>1. \A p \in Partitions : log[p] = <<>>
    BY DEF Init
  <2>2. \A p \in Partitions : 1 .. Len(log[p]) = {}
    BY <2>1
  <2> QED BY <2>2 DEF Delivered, InLog
<1> QED BY <1>1, <1>2, <1>3 DEF Init, Queue!AInit

\* Every step is a step of AtLeastOnce or changes nothing it shows.
LEMMA StepRefines == ASSUME IInv, [Next]_vars PROVE [Queue!ANext]_(Queue!avars)
<1>t. PubTypes /\ RowTypes /\ DrainInv /\ ShareInv
  BY TypeParts DEF IInv
<1>1. ASSUME NEW x \in Procs, ProcStep(x) PROVE [Queue!ANext]_(Queue!avars)
  BY <1>t, <1>1, ProcRefines
<1>2. ASSUME UNCHANGED <<proc, buffer, log, lost, displaced, accepted>> PROVE UNCHANGED Queue!avars
  BY <1>2, UsesLog, UsesBuffer DEF Queue!avars
<1>3. CASE ConsumerStep
  BY <1>3, <1>2 DEF ConsumerStep, StartConsumer, Rebalance, StopConsumer, HandleOk,
                    CommitRaises, HandleFails, DeadLetter, pubVars
<1>4. CASE Dismiss
  BY <1>4, <1>2 DEF Dismiss, pubVars
<1>5. CASE UNCHANGED vars
  BY <1>5, <1>2 DEF vars
<1> QED BY <1>1, <1>3, <1>4, <1>5 DEF Next

(***************************************************************************)
(* Buffer rows, log records, offsets and dead-letter rows keep their types *)
(* through drains, crashes, rebalances and retries, and publish() never    *)
(* sends or buffers without an event in hand.                              *)
(***************************************************************************)
THEOREM TypeCorrect == Spec => [](TypeOK /\ HandMatchesPc)
<1>1. Init => TypeInv
  BY InitHolds DEF IInv, DrainInv, TypeInv
<1>2. TypeInv /\ [Next]_vars => TypeInv'
  BY StepTyped
<1>3. TypeInv => TypeOK /\ HandMatchesPc
  BY DEF TypeInv
<1> QED BY <1>1, <1>2, <1>3, PTL DEF Spec

(***************************************************************************)
(* EventPublisher (events.py) keeps the promise of AtLeastOnce: an event   *)
(* whose publish() returned stays in the buffer file until it was sent to  *)
(* Kafka, or was lost to a failed insert or a refusal of the broker,       *)
(* whatever crashes, timeouts and half-finished drains come between; where *)
(* processes resolve one file, and only there, a drain may also take away  *)
(* the row another process wrote under the id of the row it had read.      *)
(***************************************************************************)
THEOREM Implements == Spec => PublishesAtLeastOnce
<1>1. IInv /\ [Next]_vars => IInv'
  BY StepHolds
<1>2. IInv /\ [Next]_vars => [Queue!ANext]_(Queue!avars)
  BY StepRefines
<1> QED BY InitHolds, InitRefines, <1>1, <1>2, PTL DEF Spec, PublishesAtLeastOnce, Queue!ASpec

\* AtLeastOnce lets no promised event vanish.
LEMMA PromiseKept == ASSUME NoSilentLoss, [Queue!ANext]_(Queue!avars) PROVE NoSilentLoss'
<1>1. CASE UNCHANGED Queue!avars
  BY <1>1 DEF Queue!avars, NoSilentLoss
<1>2. ASSUME NEW c \in Procs, Queue!Return(c) \/ Queue!Abandon(c) PROVE NoSilentLoss'
  BY <1>2 DEF Queue!Return, Queue!Abandon, NoSilentLoss
<1>3. ASSUME NEW c \in Procs, NEW e \in Events, Queue!Give(c, e) PROVE NoSilentLoss'
  BY <1>3 DEF Queue!Give, NoSilentLoss
<1>4. ASSUME NEW e \in Events,
             Queue!Deliver(e) \/ Queue!LetGo(e) \/ Queue!Refuse(e) \/ Queue!Displace(e)
      PROVE  NoSilentLoss'
  BY <1>4 DEF Queue!Deliver, Queue!LetGo, Queue!Refuse, Queue!Displace, NoSilentLoss
<1> QED BY <1>1, <1>2, <1>3, <1>4 DEF Queue!ANext

(***************************************************************************)
(* So no event whose publish() returned vanishes: it is in Kafka or in a   *)
(* buffer file, or a failed insert or the broker took it, or the drain of  *)
(* a process that had read another row under the id of its row.            *)
(***************************************************************************)
THEOREM NothingVanishes == Spec => []NoSilentLoss
<1>1. Init => NoSilentLoss
  BY DEF Init, NoSilentLoss
<1>2. IInv /\ [Next]_vars => IInv'
  BY StepHolds
<1>3. IInv /\ NoSilentLoss /\ [Next]_vars => NoSilentLoss'
  BY StepRefines, PromiseKept
<1> QED BY InitHolds, <1>1, <1>2, <1>3, PTL DEF Spec

-----------------------------------------------------------------------------
(***************************************************************************)
(* What EventConsumer (consumer.py) promises, for any number of publishers, *)
(* partitions and records, any retry limit, and any sequence of restarts    *)
(* and rebalances.                                                          *)
(***************************************************************************)

\* A counted failure of an offset is one of the record at that offset, or of the record
\* another partition has there.
CountInv == \A p \in Partitions : \A o \in Offsets :
    consumer.count[o] <= attempts[<<p, o>>] \/ FailedElsewhere(<<p, o>>)

\* Whatever is behind the position is resolved, or a failed record at or behind
\* _blocked_offset, or behind what the group has committed.
Behind(p, o) == \/ fate[<<p, o>>] \in Resolved
                \/ /\ fate[<<p, o>>] = "failed"
                   /\ consumer.blocked[p] # 0 /\ consumer.blocked[p] <= o
                \/ o < committed[p]
BehindInv == consumer.on => \A p \in Partitions : \A o \in Offsets :
                               o < consumer.pos[p] => Behind(p, o)

\* Without an open failure the consumer stands where it committed; an open failure is
\* never ahead of it, nor of what it goes back to in a rebalance.
Stands(p) == /\ committed[p] <= consumer.pos[p]
             /\ consumer.blocked[p] <= consumer.pos[p]
             /\ consumer.pos[p] <= Len(log[p]) + 1
             /\ consumer.blocked[p] <= Len(log[p])
             /\ committed[p] # 0 => /\ consumer.blocked[p] <= committed[p]
                                    /\ consumer.blocked[p] = 0 => consumer.pos[p] = committed[p]
StandInv == consumer.on => \A p \in Partitions : Stands(p)

\* The group's offset is never past the end of the log, whether a consumer runs or not.
GroupInv == \A p \in Partitions : committed[p] <= Len(log[p]) + 1

ConInv == BehindInv /\ StandInv /\ GroupInv
DeadInv == CountInv /\ DeadAfterRetries

-----------------------------------------------------------------------------
(* The commits.                                                            *)

\* The consumer moves past offset o of partition p, and stays where it is in the others.
Passes(p, o, b, n) ==
    /\ consumer'.on /\ consumer'.pos[p] = o + 1 /\ consumer'.blocked[p] = b
    /\ consumer'.count = [consumer.count EXCEPT ![o] = n]
    /\ \A q \in Partitions \ {p} : /\ consumer'.pos[q] = consumer.pos[q]
                                   /\ consumer'.blocked[q] = consumer.blocked[q]

\* What the provers need of the numbers involved.
LEMMA Numbers ==
  ASSUME TypeOK, NEW p \in Partitions
  PROVE  /\ consumer.pos[p] \in 1 .. MaxLog + 1 /\ consumer.blocked[p] \in 0 .. MaxLog
         /\ consumer.pos[p] \in Nat \ {0} /\ consumer.blocked[p] \in Nat
         /\ committed[p] \in Nat /\ Len(log[p]) \in Nat /\ Len(log[p]) <= MaxLog
         /\ MaxLog \in Nat /\ Offsets \subseteq Nat
<1>1. consumer.pos[p] \in 1 .. MaxLog + 1 /\ consumer.blocked[p] \in 0 .. MaxLog
      /\ committed[p] \in 0 .. MaxLog + 1
  BY DEF TypeOK, Consumer
<1>2. Len(log[p]) \in Nat /\ Len(log[p]) <= MaxLog
  BY DEF TypeOK
<1> QED BY <1>1, <1>2, BoundsArePositive DEF Offsets

\* The record of one partition changes no other record's fate.
LEMMA OthersKeepFate ==
  ASSUME TypeOK, NEW m, NEW k, fate' = [fate EXCEPT ![m] = k],
         NEW q \in Partitions, NEW i \in Offsets, <<q, i>> # m
  PROVE  fate'[<<q, i>>] = fate[<<q, i>>]
<1>1. fate \in [Records -> Fates] /\ <<q, i>> \in Records
  BY DEF TypeOK, Records
<1> QED BY <1>1

\* Record p, o is resolved and nothing before it is open: commit() moves past it and to
\* the position of every other partition.
LEMMA PassCommits ==
  ASSUME TypeOK, ConInv, NEW p \in Partitions, HasRecord(p), NEW n,
         Passes(p, consumer.pos[p], 0, n),
         \A q \in Partitions : committed'[q] = consumer'.pos[q], UNCHANGED log
  PROVE  ConInv'
<1> DEFINE o == consumer.pos[p]
<1>n. o \in Nat \ {0} /\ Len(log[p]) \in Nat
  BY Numbers
<1>o. consumer.on /\ o <= Len(log[p])
  BY DEF HasRecord
<1>1. BehindInv'
  BY DEF BehindInv, Behind
<1>2. ASSUME NEW q \in Partitions PROVE Stands(q)' /\ committed'[q] <= Len(log[q]) + 1
  <2>1. CASE q = p
    BY <2>1, <1>n, <1>o DEF Stands, Passes
  <2>2. CASE q # p
    <3>1. /\ consumer'.pos[q] = consumer.pos[q] /\ committed'[q] = consumer.pos[q]
          /\ consumer'.blocked[q] = consumer.blocked[q]
      BY <2>2 DEF Passes
    <3>2. Stands(q)
      BY <1>o DEF ConInv, StandInv
    <3>3. consumer.pos[q] \in Nat /\ consumer.blocked[q] \in Nat
      BY Numbers
    <3> QED BY <3>1, <3>2, <3>3 DEF Stands
  <2> QED BY <2>1, <2>2
<1> QED BY <1>1, <1>2 DEF ConInv, StandInv, GroupInv

\* Record p, o fails, or an earlier one is open: no commit, and the first open failure
\* stays the blocked one.
LEMMA PassHolds ==
  ASSUME TypeOK, ConInv, NEW p \in Partitions, HasRecord(p),
         NEW k \in Resolved \cup {"failed"}, NEW n,
         Passes(p, consumer.pos[p],
                IF consumer.blocked[p] = 0 THEN consumer.pos[p] ELSE consumer.blocked[p], n),
         fate' = [fate EXCEPT ![<<p, consumer.pos[p]>>] = k],
         UNCHANGED <<committed, log>>
  PROVE  ConInv'
<1> DEFINE o == consumer.pos[p]
           a == consumer.blocked[p]
           b == IF a = 0 THEN o ELSE a
           c == committed[p]
<1>n. /\ o \in Nat \ {0} /\ a \in Nat /\ c \in Nat /\ Len(log[p]) \in Nat
      /\ Offsets \subseteq Nat
  BY Numbers
<1>o. consumer.on /\ o <= Len(log[p])
  BY DEF HasRecord
<1>2. /\ c <= o /\ a <= o /\ a <= Len(log[p]) /\ c <= Len(log[p]) + 1
      /\ c # 0 => a <= c /\ (a = 0 => o = c)
  BY <1>o DEF ConInv, StandInv, Stands, GroupInv
<1>3. /\ consumer'.on /\ consumer'.pos[p] = o + 1 /\ consumer'.blocked[p] = b
      /\ \A q \in Partitions \ {p} : /\ consumer'.pos[q] = consumer.pos[q]
                                     /\ consumer'.blocked[q] = consumer.blocked[q]
  BY DEF Passes
<1>4. ASSUME NEW q \in Partitions, NEW i \in Offsets, <<q, i>> # <<p, o>>
      PROVE fate'[<<q, i>>] = fate[<<q, i>>]
  BY <1>4, OthersKeepFate
<1>5. ASSUME NEW q \in Partitions, NEW i \in Offsets, i < consumer.pos[q] PROVE Behind(q, i)
  BY <1>5, <1>o DEF ConInv, BehindInv
<1>6. o \in Offsets => fate'[<<p, o>>] = k
  BY DEF TypeOK, Records
<1>9. BehindInv'
  <2> SUFFICES ASSUME NEW q \in Partitions, NEW i \in Offsets, i < consumer'.pos[q]
               PROVE  Behind(q, i)'
    BY DEF BehindInv
  <2>1. CASE q # p
    <3>1. Behind(q, i) /\ fate'[<<q, i>>] = fate[<<q, i>>]
      BY <1>3, <1>4, <1>5, <2>1
    <3> QED BY <1>3, <2>1, <3>1 DEF Behind
  <2>2. CASE q = p /\ i = o
    <3>1. fate'[<<p, o>>] = k /\ b # 0 /\ b <= o
      BY <1>6, <1>n, <1>2, <2>2
    <3> QED BY <1>3, <2>2, <3>1 DEF Behind
  <2>3. CASE q = p /\ i # o
    <3>1. i < o
      BY <2>3, <1>n, <1>3
    <3>2. Behind(p, i) /\ fate'[<<p, i>>] = fate[<<p, i>>]
      BY <1>4, <1>5, <2>3, <3>1
    <3>3. a # 0 => b = a
      OBVIOUS
    <3> HIDE DEF b
    <3> QED BY <1>3, <2>3, <3>2, <3>3 DEF Behind
  <2> QED BY <2>1, <2>2, <2>3
<1>10. ASSUME NEW q \in Partitions PROVE Stands(q)'
  <2>1. CASE q = p
    <3>1. /\ c <= o + 1 /\ b <= o + 1 /\ o + 1 <= Len(log[p]) + 1 /\ b <= Len(log[p]) /\ b # 0
          /\ c # 0 => b <= c
      BY <1>n, <1>o, <1>2
    <3> HIDE DEF b, o, c
    <3> QED BY <1>3, <2>1, <3>1 DEF Stands, c
  <2>2. CASE q # p
    BY <1>o, <1>3, <2>2 DEF ConInv, StandInv, Stands
  <2> QED BY <2>1, <2>2
<1> QED BY <1>9, <1>10 DEF ConInv, StandInv, GroupInv

-----------------------------------------------------------------------------
(* The steps of the consumer.                                              *)

\* Advanced moves the position and sets one count ...
LEMMA AdvancedPasses ==
  ASSUME TypeOK, NEW p \in Partitions, HasRecord(p), NEW n,
         consumer' = Advanced(p, consumer.pos[p], n)
  PROVE  Passes(p, consumer.pos[p], consumer.blocked[p], n)
<1>1. consumer \in Consumer /\ consumer.on
  BY DEF TypeOK, HasRecord
<1> QED BY <1>1 DEF Consumer, Advanced, Passes

\* ... and _blocked_offset may be set on top of it.
LEMMA BlockedPasses ==
  ASSUME TypeOK, NEW p \in Partitions, HasRecord(p), NEW n, NEW b,
         consumer' = [Advanced(p, consumer.pos[p], n) EXCEPT !.blocked[p] = b]
  PROVE  Passes(p, consumer.pos[p], b, n)
<1>1. consumer \in Consumer /\ consumer.on
  BY DEF TypeOK, HasRecord
<1> QED BY <1>1 DEF Consumer, Advanced, Passes

\* What the commit reads of the consumer that has moved on.
LEMMA AdvancedFields ==
  ASSUME TypeOK, NEW p \in Partitions, NEW n
  PROVE  /\ Advanced(p, consumer.pos[p], n).blocked[p] = consumer.blocked[p]
         /\ Advanced(p, consumer.pos[p], n).pos[p] = consumer.pos[p] + 1
         /\ \A q \in Partitions \ {p} : Advanced(p, consumer.pos[p], n).pos[q] = consumer.pos[q]
<1>1. consumer \in Consumer
  BY DEF TypeOK
<1> QED BY <1>1 DEF Consumer, Advanced

\* _commit_resolved after a record that is resolved.
LEMMA CommitHolds ==
  ASSUME TypeOK, ConInv, NEW p \in Partitions, HasRecord(p),
         NEW k \in Resolved, NEW n,
         CommitResolved(p, consumer.pos[p], Advanced(p, consumer.pos[p], n)),
         fate' = [fate EXCEPT ![<<p, consumer.pos[p]>>] = k], UNCHANGED log
  PROVE  ConInv' /\ \E b : Passes(p, consumer.pos[p], b, n)
<1> DEFINE c == Advanced(p, consumer.pos[p], n)
<1>1. /\ c.blocked[p] = consumer.blocked[p] /\ c.pos[p] = consumer.pos[p] + 1
      /\ \A q \in Partitions \ {p} : c.pos[q] = consumer.pos[q]
  BY AdvancedFields
<1>2. CASE consumer.blocked[p] \notin {0, consumer.pos[p]}
  <2>1. consumer' = c /\ UNCHANGED committed
    BY <1>1, <1>2 DEF CommitResolved
  <2>2. Passes(p, consumer.pos[p], consumer.blocked[p], n)
    BY <2>1, AdvancedPasses
  <2>3. Passes(p, consumer.pos[p],
               IF consumer.blocked[p] = 0 THEN consumer.pos[p] ELSE consumer.blocked[p], n)
    BY <1>2, <2>2
  <2> QED BY <2>1, <2>2, <2>3, PassHolds
<1>3. CASE consumer.blocked[p] \in {0, consumer.pos[p]}
  <2>1. consumer' = [c EXCEPT !.blocked[p] = 0] /\ committed' = c.pos
    BY <1>1, <1>3 DEF CommitResolved
  <2>2. Passes(p, consumer.pos[p], 0, n)
    BY <2>1, BlockedPasses
  <2> HIDE DEF c
  <2>3. \A q \in Partitions : committed'[q] = consumer'.pos[q]
    BY <2>1, <2>2, <1>1 DEF Passes
  <2> QED BY <2>2, <2>3, PassCommits
<1> QED BY <1>2, <1>3

\* What such a commit passes over in its own partition is resolved; in another it has
\* been delivered, and failed if it is not resolved.
LEMMA CommitPasses ==
  ASSUME TypeOK, ConInv, NEW p \in Partitions, HasRecord(p),
         NEW k \in Resolved, NEW n,
         CommitResolved(p, consumer.pos[p], Advanced(p, consumer.pos[p], n)),
         fate' = [fate EXCEPT ![<<p, consumer.pos[p]>>] = k],
         NEW q \in Partitions, NEW i \in Offsets, PassedBy(q, i)
  PROVE  consumer'.pos[q] = consumer.pos[q] /\ fate[<<q, i>>] = "failed"
<1> DEFINE c == Advanced(p, consumer.pos[p], n)
           o == consumer.pos[p]
<1>n. /\ o \in Nat \ {0} /\ consumer.blocked[p] \in Nat /\ committed[q] \in Nat
      /\ consumer.pos[q] \in Nat /\ i \in Nat
  BY Numbers
<1>1. /\ c.blocked[p] = consumer.blocked[p] /\ c.pos[p] = o + 1
      /\ \A r \in Partitions \ {p} : c.pos[r] = consumer.pos[r]
  BY AdvancedFields
<1>2. /\ committed[q] <= i /\ i < committed'[q] /\ fate'[<<q, i>>] \notin Resolved
  BY DEF PassedBy
<1>3. consumer.blocked[p] \in {0, o}
  <2>1. ASSUME UNCHANGED committed PROVE FALSE
    BY <2>1, <1>2, <1>n
  <2> QED BY <1>1, <2>1 DEF CommitResolved
<1>4. consumer' = [c EXCEPT !.blocked[p] = 0] /\ committed' = c.pos
  BY <1>1, <1>3 DEF CommitResolved
<1>5. Passes(p, o, 0, n)
  BY <1>4, BlockedPasses
<1>6. <<q, i>> # <<p, o>>
  <2>1. ASSUME <<q, i>> = <<p, o>> PROVE FALSE
    <3>1. <<q, i>> \in Records /\ fate \in [Records -> Fates]
      BY DEF TypeOK, Records
    <3>2. fate'[<<q, i>>] = k
      BY <2>1, <3>1
    <3> QED BY <1>2, <3>2
  <2> QED BY <2>1
<1>7. fate'[<<q, i>>] = fate[<<q, i>>]
  BY <1>6, OthersKeepFate
<1>8. ASSUME i < consumer.pos[q]
      PROVE  fate[<<q, i>>] = "failed" /\ consumer.blocked[q] # 0 /\ consumer.blocked[q] <= i
  <2>1. Behind(q, i)
    BY <1>8 DEF ConInv, BehindInv, HasRecord
  <2> QED BY <2>1, <1>2, <1>7, <1>n DEF Behind
<1> HIDE DEF c
<1>9. CASE q # p
  <2>1. consumer'.pos[q] = consumer.pos[q] /\ committed'[q] = consumer.pos[q]
    BY <1>1, <1>4, <1>5, <1>9 DEF Passes
  <2> QED BY <1>2, <1>8, <2>1
<1>10. CASE q = p
  <2>1. i < o
    BY <1>1, <1>2, <1>4, <1>6, <1>10, <1>n
  <2> QED BY <1>3, <1>8, <1>10, <1>n, <2>1
<1> QED BY <1>9, <1>10

\* The group starts, or goes back to its offset: what it passes over is resolved.
LEMMA SeekHolds ==
  ASSUME TypeOK, ConInv, consumer'.on, consumer'.pos = Seek, fate' = PassedOver,
         \/ \A p \in Partitions : consumer'.blocked[p] = 0
         \/ consumer.on /\ consumer'.blocked = consumer.blocked,
         UNCHANGED <<committed, log>>
  PROVE  ConInv'
<1>f. ASSUME NEW p \in Partitions, NEW o \in Offsets
      PROVE  /\ fate[<<p, o>>] \in Resolved => fate'[<<p, o>>] \in Resolved
             /\ committed[p] = 0 /\ o <= Len(log[p]) => fate'[<<p, o>>] \in Resolved
  <2>1. <<p, o>> \in Records /\ fate[<<p, o>>] \in Fates
    BY DEF TypeOK, Records
  <2>2. fate'[<<p, o>>] = IF /\ committed[p] = 0
                             /\ o <= Len(log[p])
                             /\ fate[<<p, o>>] \in {"new", "failed"}
                          THEN "skipped" ELSE fate[<<p, o>>]
    BY <2>1 DEF PassedOver
  <2> QED BY <2>1, <2>2 DEF Fates, Resolved
<1>2. ASSUME NEW p \in Partitions
      PROVE  consumer'.pos[p] = IF committed[p] = 0 THEN Len(log[p]) + 1 ELSE committed[p]
  BY DEF Seek
<1>3. BehindInv'
  <2> SUFFICES ASSUME NEW p \in Partitions, NEW o \in Offsets, o < consumer'.pos[p]
               PROVE  fate'[<<p, o>>] \in Resolved \/ o < committed[p]
    BY DEF BehindInv, Behind
  <2>1. o \in Nat /\ Len(log[p]) \in Nat
    BY Numbers
  <2>2. CASE committed[p] = 0
    BY <1>2, <1>f, <2>1, <2>2
  <2>3. CASE committed[p] # 0
    BY <1>2, <2>3
  <2> QED BY <2>2, <2>3
<1>4. StandInv'
  <2> SUFFICES ASSUME NEW p \in Partitions
               PROVE  /\ committed[p] <= consumer'.pos[p]
                      /\ consumer'.blocked[p] <= consumer'.pos[p]
                      /\ consumer'.pos[p] <= Len(log[p]) + 1
                      /\ consumer'.blocked[p] <= Len(log[p])
                      /\ committed[p] # 0 => /\ consumer'.blocked[p] <= committed[p]
                                             /\ consumer'.blocked[p] = 0
                                                  => consumer'.pos[p] = committed[p]
    BY DEF StandInv, Stands
  <2>1. consumer.blocked[p] \in Nat /\ committed[p] \in Nat /\ Len(log[p]) \in Nat
    BY Numbers
  <2>2. committed[p] <= Len(log[p]) + 1
    BY DEF ConInv, GroupInv
  <2>3. consumer'.blocked[p] \in Nat /\ consumer'.blocked[p] <= Len(log[p])
        /\ (committed[p] # 0 => consumer'.blocked[p] <= committed[p])
    BY <2>1 DEF ConInv, StandInv, Stands
  <2> QED BY <1>2, <2>1, <2>2, <2>3
<1>5. GroupInv'
  BY DEF ConInv, GroupInv
<1> QED BY <1>3, <1>4, <1>5 DEF ConInv

\* Every step of the consumer keeps its commits behind what is resolved.
LEMMA ConsumerHolds ==
  ASSUME TypeOK, ConInv, ConsumerStep PROVE ConInv'
<1>1. ASSUME NEW p \in Partitions, HandleOk(p) PROVE ConInv'
  <2>1. "done" \in Resolved
    BY DEF Resolved
  <2> QED BY <1>1, <2>1, CommitHolds DEF HandleOk
<1>2. ASSUME NEW p \in Partitions, DeadLetter(p) PROVE ConInv'
  <2>1. "dead" \in Resolved
    BY DEF Resolved
  <2> QED BY <1>2, <2>1, CommitHolds DEF DeadLetter
<1>3. ASSUME NEW p \in Partitions, CommitRaises(p) PROVE ConInv'
  <2> DEFINE o == consumer.pos[p]
             b == IF consumer.blocked[p] = 0 THEN o ELSE consumer.blocked[p]
  <2>1. /\ HasRecord(p) /\ b = o
        /\ consumer' = [Advanced(p, o, 1) EXCEPT !.blocked[p] = o]
        /\ fate' = [fate EXCEPT ![<<p, o>>] = "done"]
        /\ UNCHANGED <<committed, log>>
    BY <1>3 DEF CommitRaises
  <2>2. Passes(p, o, b, 1)
    BY <2>1, BlockedPasses
  <2>3. "done" \in Resolved
    BY DEF Resolved
  <2> QED BY <2>1, <2>2, <2>3, PassHolds
<1>4. ASSUME NEW p \in Partitions, HandleFails(p) PROVE ConInv'
  <2> DEFINE o == consumer.pos[p]
             n == consumer.count[o] + 1
             b == IF consumer.blocked[p] = 0 THEN o ELSE consumer.blocked[p]
  <2>1. /\ HasRecord(p)
        /\ consumer' = [Advanced(p, o, n) EXCEPT !.blocked[p] = IF @ = 0 THEN o ELSE @]
        /\ fate' = [fate EXCEPT ![<<p, o>>] = "failed"]
        /\ UNCHANGED <<committed, log>>
    BY <1>4 DEF HandleFails
  <2>2. consumer' = [Advanced(p, o, n) EXCEPT !.blocked[p] = b]
    BY <2>1, AdvancedFields
  <2>3. Passes(p, o, b, n)
    BY <2>1, <2>2, BlockedPasses
  <2> QED BY <2>1, <2>3, PassHolds
<1>5. CASE StartConsumer
  <2>1. /\ consumer'.on /\ consumer'.pos = Seek
        /\ \A p \in Partitions : consumer'.blocked[p] = 0
        /\ fate' = PassedOver /\ UNCHANGED <<committed, log>>
    BY <1>5 DEF StartConsumer, NoConsumer
  <2> QED BY <2>1, SeekHolds
<1>6. CASE Rebalance
  <2>0. consumer \in Consumer
    BY DEF TypeOK
  <2>1. /\ consumer.on /\ consumer'.on /\ consumer'.pos = Seek
        /\ consumer'.blocked = consumer.blocked
        /\ fate' = PassedOver /\ UNCHANGED <<committed, log>>
    BY <1>6, <2>0 DEF Rebalance, Consumer
  <2> QED BY <2>1, SeekHolds
<1>7. CASE StopConsumer
  <2>1. ~consumer'.on /\ UNCHANGED <<committed, fate, log>>
    BY <1>7 DEF StopConsumer, NoConsumer
  <2> QED BY <2>1 DEF ConInv, BehindInv, StandInv, GroupInv
<1> QED BY <1>1, <1>2, <1>3, <1>4, <1>5, <1>6, <1>7 DEF ConsumerStep

\* Records are only ever added to a partition.
LEMMA LogGrows ==
  ASSUME TypeOK, NEW x \in Procs, ProcStep(x), NEW p \in Partitions
  PROVE  Len(log'[p]) \in Nat /\ Len(log[p]) <= Len(log'[p])
<1>t. log \in [Partitions -> Seq(Events)] /\ Len(log[p]) \in Nat
  BY DEF TypeOK
<1>1. ASSUME NEW e, Written(e) PROVE Len(log'[p]) \in Nat /\ Len(log[p]) <= Len(log'[p])
  <2>1. PICK q \in Partitions : log' = [log EXCEPT ![q] = Append(@, e)]
    BY <1>1 DEF Written
  <2>2. log'[p] = log[p] \/ log'[p] = Append(log[p], e)
    BY <1>t, <2>1
  <2>3. Len(Append(log[p], e)) = Len(log[p]) + 1
    BY <1>t, AppendProperties
  <2> QED BY <1>t, <2>2, <2>3
<1>2. (\E e : Written(e)) \/ UNCHANGED log
  BY DEF ProcStep, StartProcess, Publish, Retry, StartPublish, Connect, DrainSend, DrainDelete,
         DrainEnd, Send, BufferLocally, Crash, Relabel, Unwritten
<1> QED BY <1>t, <1>1, <1>2

\* Nothing a publisher or the dead-letter page does touches the consumer.
LEMMA OthersLeaveConsumer ==
  ASSUME (\E x \in Procs : ProcStep(x)) \/ Dismiss \/ UNCHANGED vars
  PROVE  UNCHANGED <<consumer, committed, fate, attempts>>
  BY DEF ProcStep, StartProcess, Publish, Retry, StartPublish, Connect, DrainSend, DrainDelete,
         DrainEnd, Send, BufferLocally, Crash, Relabel, Dismiss, vars, conVars

\* Every step of the event path keeps the invariant of the commits.
LEMMA CommitStep ==
  ASSUME TypeOK, ConInv, [Next]_vars PROVE ConInv'
<1>1. ASSUME UNCHANGED <<consumer, committed, fate>>,
             \A p \in Partitions : Len(log'[p]) \in Nat /\ Len(log[p]) <= Len(log'[p])
      PROVE  ConInv'
  <2>1. ASSUME NEW p \in Partitions
        PROVE  /\ consumer.pos[p] \in Nat /\ consumer.blocked[p] \in Nat
               /\ committed[p] \in Nat /\ Len(log[p]) \in Nat
    BY Numbers
  <2>2. BehindInv'
    BY <1>1 DEF ConInv, BehindInv, Behind
  <2>3. GroupInv'
    BY <1>1, <2>1 DEF ConInv, GroupInv
  <2>4. StandInv'
    BY <1>1, <2>1 DEF ConInv, StandInv, Stands
  <2> QED BY <2>2, <2>3, <2>4 DEF ConInv
<1>2. ASSUME NEW x \in Procs, ProcStep(x) PROVE ConInv'
  BY <1>1, <1>2, LogGrows, OthersLeaveConsumer
<1>3. CASE ConsumerStep
  BY <1>3, ConsumerHolds
<1>4. CASE Dismiss \/ UNCHANGED vars
  <2>1. UNCHANGED log
    BY <1>4 DEF Dismiss, vars
  <2>2. \A p \in Partitions : Len(log'[p]) \in Nat /\ Len(log[p]) <= Len(log'[p])
    BY <2>1, Numbers
  <2> QED BY <1>1, <1>4, <2>2, OthersLeaveConsumer
<1> QED BY <1>2, <1>3, <1>4 DEF Next

\* At the start there is nothing behind an offset.
LEMMA CommitInit == Init => ConInv
<1> SUFFICES ASSUME Init PROVE ConInv
  OBVIOUS
<1>1. ~consumer.on
  BY DEF Init, NoConsumer
<1>2. \A p \in Partitions : committed[p] \in {0, 1} /\ Len(log[p]) = 0
  BY DEF Init
<1>4. GroupInv
  BY <1>2 DEF GroupInv
<1> QED BY <1>1, <1>4 DEF ConInv, BehindInv, StandInv

\* One step of the event path, as OwnPartitionHolds sees it.
LEMMA OwnStep ==
  ASSUME TypeOK, ConInv, [Next]_vars, NEW q \in Partitions, NEW i \in Offsets, PassedBy(q, i)
  PROVE  consumer'.pos[q] = consumer.pos[q] /\ fate[<<q, i>>] = "failed"
<1>0. ~UNCHANGED committed
  <2>1. committed[q] \in Nat /\ i \in Nat
    BY Numbers
  <2> QED BY <2>1 DEF PassedBy
<1>1. ASSUME NEW p \in Partitions, HandleOk(p) PROVE consumer'.pos[q] = consumer.pos[q] /\ fate[<<q, i>>] = "failed"
  <2>1. "done" \in Resolved
    BY DEF Resolved
  <2> QED BY <1>1, <2>1, CommitPasses DEF HandleOk
<1>2. ASSUME NEW p \in Partitions, DeadLetter(p) PROVE consumer'.pos[q] = consumer.pos[q] /\ fate[<<q, i>>] = "failed"
  <2>1. "dead" \in Resolved
    BY DEF Resolved
  <2> QED BY <1>2, <2>1, CommitPasses DEF DeadLetter
<1>3. \E p \in Partitions : HandleOk(p) \/ DeadLetter(p)
  BY <1>0, OthersLeaveConsumer
     DEF Next, ConsumerStep, StartConsumer, Rebalance, StopConsumer, CommitRaises, HandleFails
<1> QED BY <1>1, <1>2, <1>3

(***************************************************************************)
(* consume() (consumer.py) never commits past a record that was not        *)
(* delivered, and past an unresolved one only when it failed and the commit *)
(* is for a record of another partition, whatever failures, failing        *)
(* commits, restarts and rebalances come between.                          *)
(***************************************************************************)
THEOREM OwnPartition == Spec => OwnPartitionHolds
<1>1. TypeOK /\ ConInv /\ [Next]_vars => ConInv'
  BY CommitStep
<1>2. TypeOK /\ ConInv /\ [Next]_vars =>
        [\A p \in Partitions : \A o \in Offsets :
            PassedBy(p, o) => /\ consumer'.pos[p] = consumer.pos[p]
                              /\ fate[<<p, o>>] = "failed"]_vars
  BY OwnStep
<1>3. TypeOK /\ HandMatchesPc => TypeOK
  OBVIOUS
<1> QED BY CommitInit, <1>1, <1>2, <1>3, TypeCorrect, PTL DEF Spec, OwnPartitionHolds

-----------------------------------------------------------------------------
(* The dead letters.                                                       *)

\* What a step that leaves the records' histories alone must keep: the rows stand for the
\* same records, and no count has grown.
LEMMA DeadKept ==
  ASSUME TypeOK, DeadInv, UNCHANGED attempts,
         \A o \in Offsets : consumer'.count[o] = consumer.count[o] \/ consumer'.count[o] = 0,
         Len(rows') = Len(rows), \A r \in 1 .. Len(rows) : rows'[r].at = rows[r].at
  PROVE  DeadInv'
<1>1. \A p \in Partitions : \A o \in Offsets : attempts[<<p, o>>] \in Nat
  BY BoundsArePositive DEF TypeOK, Records
<1>2. CountInv'
  <2> SUFFICES ASSUME NEW p \in Partitions, NEW o \in Offsets
               PROVE  consumer'.count[o] <= attempts[<<p, o>>] \/ FailedElsewhere(<<p, o>>)'
    BY DEF CountInv
  <2>1. consumer.count[o] <= attempts[<<p, o>>] \/ FailedElsewhere(<<p, o>>)
    BY DEF DeadInv, CountInv
  <2>2. 0 <= attempts[<<p, o>>]
    BY <1>1
  <2>3. FailedElsewhere(<<p, o>>) => FailedElsewhere(<<p, o>>)'
    BY DEF FailedElsewhere
  <2> QED BY <2>1, <2>2, <2>3
<1>3. DeadAfterRetries'
  BY DEF DeadInv, DeadAfterRetries, FailedElsewhere
<1> QED BY <1>2, <1>3 DEF DeadInv

\* Relabelling a row leaves the record it stands for.
LEMMA RelabelKeeps ==
  ASSUME TypeOK, NEW r, NEW label, rows' = Relabelled(r, label)
  PROVE  Len(rows') = Len(rows) /\ \A s \in 1 .. Len(rows) : rows'[s].at = rows[s].at
<1>t. rows \in Seq(Row) /\ DOMAIN rows = 1 .. Len(rows) /\ Len(rows) \in Nat
  BY LenProperties DEF TypeOK, Row
<1>1. DOMAIN rows' = DOMAIN rows
  BY DEF Relabelled
<1>2. Len(rows') = Len(rows)
  BY <1>t, <1>1 DEF Relabelled
<1>3. ASSUME NEW s \in 1 .. Len(rows) PROVE rows'[s].at = rows[s].at
  <2>1. rows[s] \in Row
    BY <1>t, ElementOfSeq
  <2>2. rows'[s] = rows[s]
          \/ rows'[s] = [rows[s] EXCEPT !.label = IF @ = "dead-letter" THEN label ELSE @]
    BY <1>t DEF Relabelled
  <2> QED BY <2>1, <2>2 DEF Row
<1> QED BY <1>2, <1>3

\* dismiss_dlq_message and dismiss_all_dlq do the same.
LEMMA DismissKeeps ==
  ASSUME TypeOK, Dismiss
  PROVE  Len(rows') = Len(rows) /\ \A s \in 1 .. Len(rows) : rows'[s].at = rows[s].at
<1>t. rows \in Seq(Row) /\ Len(rows) \in Nat /\ RowTypes /\ RowTypes'
  BY TypeParts, DismissTyped, LenProperties DEF RowTypes
<1> DEFINE q(r) == [rows[r] EXCEPT !.label = IF @ = "dead-letter" THEN "dlq-dismissed" ELSE @]
<1>1. CASE \E r \in 1 .. Len(rows) : rows' = Relabelled(r, "dlq-dismissed")
  BY <1>1, RelabelKeeps
<1>2. CASE rows' = [r \in 1 .. Len(rows) |-> q(r)]
  <2>1. rows' \in Seq(Row) /\ DOMAIN rows' = 1 .. Len(rows)
    BY <1>2, <1>t DEF RowTypes
  <2>2. Len(rows') = Len(rows)
    BY <1>t, <2>1, LenProperties
  <2>3. ASSUME NEW s \in 1 .. Len(rows) PROVE rows'[s].at = rows[s].at
    <3>1. rows[s] \in Row
      BY <1>t, ElementOfSeq
    <3> QED BY <1>2, <3>1 DEF Row
  <2> QED BY <2>2, <2>3
<1> QED BY <1>1, <1>2 DEF Dismiss

\* No record's history gets shorter.
Grows == \A m \in Records : attempts[m] <= attempts'[m]

\* A delivery that resolves nothing is counted, up to the limit.
LEMMA TriedCounts ==
  ASSUME TypeOK, NEW p \in Partitions, NEW o \in Offsets, Tried(<<p, o>>)
  PROVE  /\ Grows
         /\ attempts'[<<p, o>>] = IF attempts[<<p, o>>] < MaxRetries
                                  THEN attempts[<<p, o>>] + 1 ELSE attempts[<<p, o>>]
         /\ attempts[<<p, o>>] \in 0 .. MaxRetries
<1>1. attempts \in [Records -> 0 .. MaxRetries] /\ <<p, o>> \in Records
  BY DEF TypeOK, Records
<1>2. \A m \in Records : attempts[m] \in Nat
  BY <1>1, BoundsArePositive
<1> QED BY <1>1, <1>2 DEF Tried, Grows

\* Then a failure elsewhere stays one.
LEMMA ElsewhereGrows ==
  ASSUME TypeOK, TypeOK', Grows, NEW m \in Records, FailedElsewhere(m)
  PROVE  FailedElsewhere(m)'
<1>1. PICK q \in Partitions \ {m[1]} : attempts[<<q, m[2]>>] > 0
  BY DEF FailedElsewhere
<1>2. <<q, m[2]>> \in Records
  BY DEF Records
<1>3. attempts[<<q, m[2]>>] \in Nat /\ attempts'[<<q, m[2]>>] \in Nat
  BY <1>2, BoundsArePositive DEF TypeOK, Records, Offsets
<1>4. attempts'[<<q, m[2]>>] > 0
  BY <1>1, <1>2, <1>3 DEF Grows
<1> QED BY <1>1, <1>4 DEF FailedElsewhere

\* The consumer moves past a record with n failures counted: they are in its history, or
\* another partition's record at the offset has failed.
LEMMA CountPasses ==
  ASSUME TypeOK, TypeOK', DeadInv, NEW p \in Partitions, NEW o \in Offsets, NEW b, NEW n,
         Passes(p, o, b, n), Grows,
         n <= attempts'[<<p, o>>] \/ FailedElsewhere(<<p, o>>),
         n = 0 \/ attempts'[<<p, o>>] > 0
  PROVE  CountInv'
<1>1. consumer.count \in [Offsets -> 0 .. MaxRetries]
  BY DEF TypeOK, Consumer
<1>2. \A i \in Offsets : consumer'.count[i] = IF i = o THEN n ELSE consumer.count[i]
  BY <1>1 DEF Passes
<1> SUFFICES ASSUME NEW q \in Partitions, NEW i \in Offsets
             PROVE  consumer'.count[i] <= attempts'[<<q, i>>] \/ FailedElsewhere(<<q, i>>)'
  BY DEF CountInv
<1>3. <<q, i>> \in Records
  BY DEF Records
<1>4. attempts[<<q, i>>] \in Nat /\ attempts'[<<q, i>>] \in Nat
      /\ attempts[<<q, i>>] <= attempts'[<<q, i>>]
  BY <1>3, BoundsArePositive DEF TypeOK, Grows, Records, Offsets
<1>5. CASE i # o
  <2>1. consumer.count[i] <= attempts[<<q, i>>] \/ FailedElsewhere(<<q, i>>)
    BY DEF DeadInv, CountInv
  <2>2. consumer'.count[i] = consumer.count[i] /\ consumer.count[i] \in Nat
    BY <1>1, <1>2, <1>5, BoundsArePositive
  <2> QED BY <1>3, <1>4, <2>1, <2>2, ElsewhereGrows
<1>6. CASE i = o /\ q = p
  BY <1>2, <1>3, <1>6, ElsewhereGrows
<1>7. CASE i = o /\ q # p
  <2>1. CASE n = 0
    BY <1>2, <1>4, <1>7, <2>1
  <2>2. CASE attempts'[<<p, o>>] > 0
    BY <1>7, <2>2 DEF FailedElsewhere
  <2> QED BY <2>1, <2>2
<1> QED BY <1>5, <1>6, <1>7

\* What the row of record m says of it.
Used(m) == attempts[m] >= MaxRetries \/ FailedElsewhere(m)

\* A longer history of the records leaves a row of the page right.
LEMMA RowGrows ==
  ASSUME TypeOK, TypeOK', DeadInv, Grows, NEW r \in 1 .. Len(rows)
  PROVE  \E m \in Records : m = rows[r].at /\ Used(m)'
<1>0. rows[r] \in Row
  BY ElementOfSeq DEF TypeOK, Row
<1>1. PICK m \in Records : m = rows[r].at
  BY <1>0 DEF Row
<1>2. attempts[m] >= MaxRetries \/ FailedElsewhere(m)
  BY <1>1 DEF DeadInv, DeadAfterRetries
<1>3. attempts[m] \in Nat /\ attempts'[m] \in Nat /\ MaxRetries \in Nat
      /\ attempts[m] <= attempts'[m]
  BY BoundsArePositive DEF TypeOK, Grows, Records, Offsets
<1>4. FailedElsewhere(m) => FailedElsewhere(m)'
  BY ElsewhereGrows
<1>5. Used(m)'
  BY <1>2, <1>3, <1>4 DEF Used
<1> QED BY <1>1, <1>5

\* So all of them, when none is added.
LEMMA HistoryGrows ==
  ASSUME TypeOK, TypeOK', DeadInv, UNCHANGED rows, Grows
  PROVE  DeadAfterRetries'
<1> SUFFICES ASSUME NEW r \in 1 .. Len(rows') PROVE Used(rows[r].at)'
  BY DEF DeadAfterRetries, Used
<1>1. PICK m \in Records : m = rows[r].at /\ Used(m)'
  BY RowGrows
<1>2. m = rows'[r].at
  BY <1>1
<1> QED BY <1>1, <1>2 DEF Used

\* Every step of the consumer keeps the counts below the history, and writes a row only
\* for a record that has used up its deliveries.
LEMMA ConsumerCounts ==
  ASSUME TypeOK, TypeOK', DeadInv, ConsumerStep PROVE DeadInv'
<1>t. /\ ConTypes /\ LogFits /\ log \in [Partitions -> Seq(Events)]
      /\ MaxRetries \in Nat /\ MaxRetries > 1 /\ 0 \in 0 .. MaxRetries
      /\ consumer.count \in [Offsets -> 0 .. MaxRetries]
  <2>1. ConTypes /\ LogFits /\ log \in [Partitions -> Seq(Events)]
    BY TypeParts DEF PubTypes
  <2>2. MaxRetries \in Nat /\ MaxRetries > 1 /\ 0 \in 0 .. MaxRetries
    BY BoundsArePositive
  <2>3. consumer.count \in [Offsets -> 0 .. MaxRetries]
    BY DEF TypeOK, Consumer
  <2> QED BY <2>1, <2>2, <2>3
<1>o. ASSUME NEW p \in Partitions, HasRecord(p)
      PROVE  /\ consumer.pos[p] \in Offsets
             /\ consumer.count[consumer.pos[p]] \in 0 .. MaxRetries
             /\ \/ consumer.count[consumer.pos[p]] <= attempts[<<p, consumer.pos[p]>>]
                \/ FailedElsewhere(<<p, consumer.pos[p]>>)
             /\ attempts[<<p, consumer.pos[p]>>] \in 0 .. MaxRetries
  <2>1. consumer.pos[p] \in Offsets
    BY <1>t, <1>o, AdvancedTyped
  <2>2. <<p, consumer.pos[p]>> \in Records
    BY <2>1 DEF Records
  <2> QED BY <1>t, <2>1, <2>2 DEF TypeOK, DeadInv, CountInv
<1>p. ASSUME NEW p \in Partitions, NEW o, NEW n,
             CommitResolved(p, o, Advanced(p, o, n)), o = consumer.pos[p], HasRecord(p)
      PROVE  \E b : Passes(p, o, b, n)
  BY <1>p, AdvancedPasses, BlockedPasses DEF CommitResolved
<1>1. ASSUME NEW p \in Partitions, HandleOk(p) PROVE DeadInv'
  <2> DEFINE o == consumer.pos[p]
  <2>1. HasRecord(p) /\ UNCHANGED <<attempts, rows>>
        /\ CommitResolved(p, o, Advanced(p, o, 0))
    BY <1>1 DEF HandleOk
  <2>2. o \in Offsets /\ 0 <= attempts'[<<p, o>>]
    BY <1>o, <2>1
  <2>3. PICK b : Passes(p, o, b, 0)
    BY <1>p, <2>1
  <2>4. Grows
    <3>1. \A m \in Records : attempts[m] \in Nat
      BY <1>t DEF TypeOK
    <3> QED BY <2>1, <3>1 DEF Grows
  <2>6. CountInv'
    BY <2>2, <2>3, <2>4, CountPasses
  <2>5. DeadAfterRetries'
    BY <2>1, <2>4, HistoryGrows
  <2> QED BY <2>5, <2>6 DEF DeadInv
<1>2. ASSUME NEW p \in Partitions, CommitRaises(p) PROVE DeadInv'
  <2> DEFINE o == consumer.pos[p]
  <2>1. HasRecord(p) /\ UNCHANGED rows /\ Tried(<<p, o>>)
        /\ consumer' = [Advanced(p, o, 1) EXCEPT !.blocked[p] = o]
    BY <1>2 DEF CommitRaises
  <2>2. o \in Offsets /\ attempts[<<p, o>>] \in 0 .. MaxRetries
    BY <1>o, <2>1
  <2>3. 1 <= attempts'[<<p, o>>] /\ attempts'[<<p, o>>] > 0
    BY <1>t, <2>1, <2>2, TriedCounts
  <2>4. Passes(p, o, o, 1)
    BY <2>1, BlockedPasses
  <2>5. CountInv'
    BY <2>1, <2>2, <2>3, <2>4, TriedCounts, CountPasses
  <2>6. DeadAfterRetries'
    BY <2>1, <2>2, TriedCounts, HistoryGrows
  <2> QED BY <2>5, <2>6 DEF DeadInv
<1>3. ASSUME NEW p \in Partitions, HandleFails(p) PROVE DeadInv'
  <2>0. PICK o \in Offsets : o = consumer.pos[p]
    BY <1>3, <1>o DEF HandleFails
  <2> DEFINE n == consumer.count[o] + 1
             b == IF Advanced(p, o, n).blocked[p] = 0 THEN o ELSE Advanced(p, o, n).blocked[p]
  <2>1. HasRecord(p) /\ UNCHANGED rows /\ Tried(<<p, o>>) /\ n < MaxRetries
        /\ consumer' = [Advanced(p, o, n) EXCEPT !.blocked[p] = b]
    BY <1>3, <2>0 DEF HandleFails
  <2>2. /\ attempts[<<p, o>>] \in 0 .. MaxRetries
        /\ consumer.count[o] \in 0 .. MaxRetries
        /\ consumer.count[o] <= attempts[<<p, o>>] \/ FailedElsewhere(<<p, o>>)
    BY <1>o, <2>0, <2>1
  <2>3. /\ n <= attempts'[<<p, o>>] \/ FailedElsewhere(<<p, o>>)
        /\ attempts'[<<p, o>>] > 0 /\ Grows
    <3>1. /\ attempts'[<<p, o>>] = IF attempts[<<p, o>>] < MaxRetries
                                   THEN attempts[<<p, o>>] + 1 ELSE attempts[<<p, o>>]
          /\ Grows
      BY <2>1, TriedCounts
    <3>2. attempts'[<<p, o>>] > 0
      BY <1>t, <2>2, <3>1
    <3>3. consumer.count[o] <= attempts[<<p, o>>] => n <= attempts'[<<p, o>>]
      <4>1. n < MaxRetries
        BY <2>1
      <4> QED BY <1>t, <2>2, <3>1, <4>1
    <3> HIDE DEF n
    <3> QED BY <2>2, <3>1, <3>2, <3>3
  <2>4. Passes(p, o, b, n)
    BY <2>0, <2>1, BlockedPasses
  <2>5. CountInv'
    BY <2>2, <2>3, <2>4, CountPasses
  <2>6. DeadAfterRetries'
    BY <2>1, <2>3, HistoryGrows
  <2> QED BY <2>5, <2>6 DEF DeadInv
<1>4. ASSUME NEW p \in Partitions, DeadLetter(p) PROVE DeadInv'
  <2>0. PICK o \in Offsets : o = consumer.pos[p]
    BY <1>4, <1>o DEF DeadLetter
  <2> DEFINE row == [ev |-> log[p][o], at |-> <<p, o>>, label |-> "dead-letter"]
  <2>1. HasRecord(p) /\ Tried(<<p, o>>) /\ consumer.count[o] + 1 >= MaxRetries
        /\ CommitResolved(p, o, Advanced(p, o, 0))
        /\ (rows' = Append(rows, row) \/ UNCHANGED rows)
    BY <1>4, <2>0 DEF DeadLetter
  <2>2. /\ attempts[<<p, o>>] \in 0 .. MaxRetries /\ consumer.count[o] \in 0 .. MaxRetries
        /\ consumer.count[o] <= attempts[<<p, o>>] \/ FailedElsewhere(<<p, o>>)
    BY <1>o, <2>0, <2>1
  <2>r. <<p, o>> \in Records
    BY DEF Records
  <2>3. /\ attempts'[<<p, o>>] = IF attempts[<<p, o>>] < MaxRetries
                                 THEN attempts[<<p, o>>] + 1 ELSE attempts[<<p, o>>]
        /\ Grows
    BY <2>1, TriedCounts
  <2>4. Used(<<p, o>>)' /\ 0 <= attempts'[<<p, o>>]
    <3>1. FailedElsewhere(<<p, o>>) => FailedElsewhere(<<p, o>>)'
      BY <2>r, <2>3, ElsewhereGrows
    <3> QED BY <1>t, <2>1, <2>2, <2>3, <3>1 DEF Used
  <2>5. CountInv'
    <3>1. PICK b : Passes(p, o, b, 0)
      BY <1>p, <2>0, <2>1
    <3> QED BY <2>3, <2>4, <3>1, CountPasses
  <2>6. CASE UNCHANGED rows
    <3>1. DeadAfterRetries'
      BY <2>3, <2>6, HistoryGrows
    <3> QED BY <2>5, <3>1 DEF DeadInv
  <2>7. CASE rows' = Append(rows, row)
    <3>1. rows \in Seq(Row) /\ Len(rows) \in Nat
      BY LenProperties DEF TypeOK, Row
    <3>2. /\ Len(rows') = Len(rows) + 1 /\ rows'[Len(rows) + 1] = row
          /\ \A r \in 1 .. Len(rows) : rows'[r] = rows[r]
      BY <2>7, <3>1, AppendProperties
    <3>3. row.at = <<p, o>>
      OBVIOUS
    <3> HIDE DEF row
    <3>4. ASSUME NEW r \in 1 .. Len(rows) PROVE \E m \in Records : m = rows[r].at /\ Used(m)'
      BY <2>3, RowGrows
    <3>5. ASSUME NEW r \in 1 .. Len(rows') PROVE \E m \in Records : m = rows'[r].at /\ Used(m)'
      <4>1. CASE r \in 1 .. Len(rows)
        BY <3>2, <3>4, <4>1
      <4>2. CASE r = Len(rows) + 1
        <5>1. rows'[r].at = <<p, o>>
          BY <3>2, <3>3, <4>2
        <5> QED BY <2>4, <2>r, <5>1
      <4> QED BY <3>1, <3>2, <4>1, <4>2
    <3>6. DeadAfterRetries'
      <4> SUFFICES ASSUME NEW r \in 1 .. Len(rows') PROVE Used(rows[r].at)'
        BY DEF DeadAfterRetries, Used
      <4>1. PICK m \in Records : m = rows'[r].at /\ Used(m)'
        BY <3>5
      <4> QED BY <4>1 DEF Used
    <3> QED BY <2>5, <3>6 DEF DeadInv
  <2> QED BY <2>1, <2>6, <2>7
<1>5. CASE StartConsumer \/ Rebalance \/ StopConsumer
  <2>0. consumer \in Consumer
    BY DEF TypeOK
  <2>1. UNCHANGED <<attempts, rows>>
    BY <1>5 DEF StartConsumer, Rebalance, StopConsumer
  <2>2. \A i \in Offsets : consumer'.count[i] = consumer.count[i] \/ consumer'.count[i] = 0
    <3>1. CASE Rebalance
      BY <2>0, <3>1 DEF Rebalance, Consumer
    <3>2. CASE StartConsumer
      <4>1. consumer'.count = [i \in Offsets |-> 0]
        BY <3>2 DEF StartConsumer, NoConsumer
      <4> QED BY <4>1
    <3>3. CASE StopConsumer
      <4>1. consumer'.count = [i \in Offsets |-> 0]
        BY <3>3 DEF StopConsumer, NoConsumer
      <4> QED BY <4>1
    <3> QED BY <1>5, <3>1, <3>2, <3>3
  <2> QED BY <2>1, <2>2, DeadKept
<1> QED BY <1>1, <1>2, <1>3, <1>4, <1>5 DEF ConsumerStep

\* Every step of the event path keeps the invariant of the dead letters.
LEMMA DeadStep ==
  ASSUME TypeOK, TypeOK', DeadInv, [Next]_vars PROVE DeadInv'
<1>1. CASE ConsumerStep
  BY <1>1, ConsumerCounts
<1>2. ASSUME UNCHANGED <<consumer, attempts>>, Len(rows') = Len(rows),
             \A r \in 1 .. Len(rows) : rows'[r].at = rows[r].at
      PROVE  DeadInv'
  BY <1>2, DeadKept
<1>3. ASSUME NEW x \in Procs, ProcStep(x) PROVE DeadInv'
  <2>1. UNCHANGED rows \/ rows' = Relabelled(proc[x].row, "dlq-retry")
    BY <1>3 DEF ProcStep, StartProcess, Publish, Retry, StartPublish, Connect, DrainSend,
                DrainDelete, DrainEnd, Send, BufferLocally, Crash, Relabel
  <2>2. Len(rows') = Len(rows) /\ \A r \in 1 .. Len(rows) : rows'[r].at = rows[r].at
    BY <2>1, RelabelKeeps
  <2> QED BY <1>2, <1>3, <2>2, OthersLeaveConsumer
<1>4. CASE Dismiss
  BY <1>2, <1>4, DismissKeeps, OthersLeaveConsumer
<1>5. CASE UNCHANGED vars
  BY <1>2, <1>5 DEF vars
<1> QED BY <1>1, <1>3, <1>4, <1>5 DEF Next

(***************************************************************************)
(* A record is dead-lettered (_dead_letter, consumer.py) only after        *)
(* max_retries deliveries of that record ended without a commit, or after  *)
(* the record at the same offset of another partition failed, across       *)
(* restarts and rebalances.                                                *)
(***************************************************************************)
THEOREM DeadLast == Spec => []DeadAfterRetries
<1>1. Init => DeadInv
  <2>1. ASSUME Init PROVE CountInv /\ DeadAfterRetries
    BY <2>1 DEF Init, CountInv, DeadAfterRetries, NoConsumer, Records
  <2> QED BY <2>1 DEF DeadInv
<1>2. TypeOK /\ TypeOK' /\ DeadInv /\ [Next]_vars => DeadInv'
  BY DeadStep
<1>3. DeadInv => DeadAfterRetries
  BY DEF DeadInv
<1>4. TypeOK /\ HandMatchesPc => TypeOK
  OBVIOUS
<1> QED BY <1>1, <1>2, <1>3, <1>4, TypeCorrect, PTL DEF Spec

-----------------------------------------------------------------------------
(* Retried dead letters.                                                   *)

\* Event e of record m is published again, or taken by a fault on record: in the
\* log at another place, or in a buffer row that the drain which read it is not about
\* to delete.
Doomed(f, d) == \E y \in Procs : /\ Db[y] = f /\ proc[y].pc = "delete"
                                 /\ IsFirst(d, proc[y].todo) /\ d.id \notin stale[y]
Carried(e, m) ==
    \/ e \in lost \cup displaced
    \/ \E p \in Partitions : \E o \in 1 .. Len(log[p]) : log[p][o] = e /\ <<p, o>> # m
    \/ \E f \in Files : \E d \in buffer[f] : d.ev = e /\ ~ Doomed(f, d)

\* Dead letters are of records that are in the log; a relabelled one is carried.
RowInv == \A r \in 1 .. Len(rows) :
    /\ rows[r].at[2] <= Len(log[rows[r].at[1]])
    /\ rows[r].label = "dlq-retry" => Carried(rows[r].ev, rows[r].at)

\* retry_dlq_message has its row's event in hand until publish() returned, and
\* then the event is carried, whatever becomes of the row meanwhile.
RetryInv == \A x \in Procs :
    proc[x].row # 0 \/ proc[x].pc = "relabel" =>
       /\ proc[x].row \in 1 .. Len(rows)
       /\ IF proc[x].pc = "relabel"
            THEN Carried(rows[proc[x].row].ev, rows[proc[x].row].at)
            ELSE proc[x].ev = rows[proc[x].row].ev

\* A record in the log stays where it is.
LEMMA LogKeeps ==
  ASSUME TypeOK, (\E x \in Procs : ProcStep(x)) \/ UNCHANGED log,
         NEW p \in Partitions, NEW o \in 1 .. Len(log[p])
  PROVE  o \in 1 .. Len(log'[p]) /\ log'[p][o] = log[p][o]
<1>t. log \in [Partitions -> Seq(Events)] /\ Len(log[p]) \in Nat
  BY DEF TypeOK
<1>1. ASSUME NEW e, Written(e) PROVE o \in 1 .. Len(log'[p]) /\ log'[p][o] = log[p][o]
  <2>1. PICK q \in Partitions : log' = [log EXCEPT ![q] = Append(@, e)]
    BY <1>1 DEF Written
  <2>2. log'[p] = log[p] \/ log'[p] = Append(log[p], e)
    BY <1>t, <2>1
  <2>3. Len(Append(log[p], e)) = Len(log[p]) + 1 /\ Append(log[p], e)[o] = log[p][o]
    BY <1>t, AppendProperties
  <2> QED BY <1>t, <2>2, <2>3
<1>2. (\E e : Written(e)) \/ UNCHANGED log
  BY DEF ProcStep, StartProcess, Publish, Retry, StartPublish, Connect, DrainSend, DrainDelete,
         DrainEnd, Send, BufferLocally, Crash, Relabel, Unwritten
<1> QED BY <1>1, <1>2

\* What is written now is at another place than a record written before.
LEMMA WrittenElsewhere ==
  ASSUME TypeOK, NEW e, Written(e), NEW m \in Records, m[2] <= Len(log[m[1]])
  PROVE  Carried(e, m)'
<1>t. log \in [Partitions -> Seq(Events)] /\ m[1] \in Partitions /\ m[2] \in Nat
  BY BoundsArePositive DEF TypeOK, Records, Offsets
<1>1. PICK q \in Partitions : log' = [log EXCEPT ![q] = Append(@, e)]
  BY DEF Written
<1> DEFINE n == Len(log[q]) + 1
<1>2. log'[q] = Append(log[q], e) /\ Len(log[q]) \in Nat
  BY <1>t, <1>1
<1>3. n \in 1 .. Len(log'[q]) /\ log'[q][n] = e
  BY <1>t, <1>2, AppendProperties
<1>4. <<q, n>> # m
  <2>1. CASE m[1] = q
    BY <1>t, <1>2, <2>1
  <2>2. CASE m[1] # q
    BY <2>2
  <2> QED BY <2>1, <2>2
<1> HIDE DEF n
<1> QED BY <1>3, <1>4 DEF Carried

\* Nobody begins to delete what he read.
NoneBegins == \A y \in Procs : proc'[y].pc = "delete" => /\ proc'[y] = proc[y]
                                                         /\ stale[y] \subseteq stale'[y]

\* Then no row is doomed that was not.
LEMMA StaysSafe ==
  ASSUME NEW f, NEW d, NoneBegins, ~ Doomed(f, d)
  PROVE  ~ Doomed(f, d)'
<1> SUFFICES ASSUME NEW y \in Procs, Db[y] = f, proc'[y].pc = "delete",
                    IsFirst(d, proc'[y].todo), d.id \notin stale'[y]
             PROVE  FALSE
  BY DEF Doomed, IsFirst
<1>1. proc'[y] = proc[y] /\ stale[y] \subseteq stale'[y]
  BY DEF NoneBegins
<1> QED BY <1>1 DEF Doomed

\* A step that takes nothing from a file and begins no delete leaves what is carried
\* carried.
LEMMA QuietCarries ==
  ASSUME NEW e, NEW m, Carried(e, m), lost \subseteq lost', displaced \subseteq displaced',
         \A f \in Files : buffer[f] \subseteq buffer'[f],
         \A p \in Partitions : \A o \in 1 .. Len(log[p]) :
            o \in 1 .. Len(log'[p]) /\ log'[p][o] = log[p][o],
         NoneBegins
  PROVE  Carried(e, m)'
<1>1. CASE e \in lost \cup displaced
  BY <1>1 DEF Carried
<1>2. CASE \E p \in Partitions : \E o \in 1 .. Len(log[p]) : log[p][o] = e /\ <<p, o>> # m
  BY <1>2 DEF Carried
<1>3. ASSUME NEW f \in Files, NEW d \in buffer[f], d.ev = e, ~ Doomed(f, d)
      PROVE  Carried(e, m)'
  <2>1. d \in buffer'[f] /\ ~ Doomed(f, d)'
    BY <1>3, StaysSafe
  <2> QED BY <1>3, <2>1 DEF Carried, Files
<1> QED BY <1>1, <1>2, <1>3 DEF Carried

\* No step of a process takes away the last trace of a carried event: a drain deletes a
\* row it read only after it sent its event to a new place, and another row is displaced.
LEMMA ProcCarries ==
  ASSUME IInv, NEW x \in Procs, ProcStep(x), NEW e \in Events,
         NEW m \in Records, m[2] <= Len(log[m[1]]), Carried(e, m)
  PROVE  Carried(e, m)'
<1>t. PubTypes /\ RowTypes /\ DrainInv /\ TypeOK /\ proc \in [Procs -> Proc]
  BY TypeParts DEF IInv, PubTypes
<1>l. \A p \in Partitions : \A o \in 1 .. Len(log[p]) :
         o \in 1 .. Len(log'[p]) /\ log'[p][o] = log[p][o]
  BY <1>t, LogKeeps
<1>q. ASSUME NEW p, NEW v, NEW T, Moves(x, p, v, T), p # "delete",
             \A f \in Files : buffer[f] \subseteq buffer'[f],
             \A y \in Procs : y # x => stale'[y] = stale[y],
             lost \subseteq lost', displaced \subseteq displaced'
      PROVE  Carried(e, m)'
  <2>1. NoneBegins
    BY <1>q DEF Moves, NoneBegins
  <2> QED BY <1>l, <1>q, <2>1, QuietCarries
<1>1. CASE StartProcess(x)
  BY <1>1, <1>t, <1>q, PcMoves DEF StartProcess, Pcs
<1>2. CASE Publish(x) \/ Retry(x)
  <2>1. PICK v \in Events, p \in {"send", "connect", "buffer"} : Moves(x, p, v, proc[x].todo)
    BY <1>2, <1>t, PublishMoves
  <2>2. UNCHANGED <<buffer, stale, lost, displaced>>
    BY <1>2 DEF Publish, Retry, StartPublish
  <2> QED BY <1>q, <2>1, <2>2
<1>3. CASE Connect(x)
  <2>1. UNCHANGED <<buffer, lost, displaced>>
    BY <1>3 DEF Connect
  <2>2. \E p, v, T : p # "delete" /\ Moves(x, p, v, T)
    BY <1>3, <1>t, ConnectMoves
  <2>3. \A y \in Procs : y # x => stale'[y] = stale[y]
    BY <1>3, <1>t DEF Connect, PubTypes
  <2> QED BY <1>q, <2>1, <2>2, <2>3
<1>4. CASE DrainSend(x)
  <2>1. PICK d \in proc[x].todo :
            /\ IsFirst(d, proc[x].todo)
            /\ d \in BufferRows
            /\ \/ /\ Written(d.ev)
                  /\ Moves(x, "delete", proc[x].ev, proc[x].todo)
                  /\ UNCHANGED lost
               \/ /\ Unwritten
                  /\ lost' = lost \cup {d.ev}
                  /\ Moves(x, "delete", proc[x].ev, proc[x].todo)
               \/ /\ Written(d.ev) \/ Unwritten
                  /\ Moves(x, "drain", proc[x].ev, {})
                  /\ UNCHANGED lost
    BY <1>4, <1>t, SendMoves
  <2>2. UNCHANGED <<buffer, stale, displaced>> /\ lost \subseteq lost'
    BY <1>4, <2>1 DEF DrainSend
  <2>3. CASE Moves(x, "drain", proc[x].ev, {})
    BY <1>q, <2>2, <2>3
  <2>4. CASE Moves(x, "delete", proc[x].ev, proc[x].todo) /\ (Written(d.ev) \/ d.ev \in lost')
    <3>1. CASE d.ev = e /\ Written(d.ev)
      BY <1>t, <3>1, WrittenElsewhere
    <3>2. CASE d.ev = e /\ d.ev \in lost'
      BY <3>2 DEF Carried
    <3>3. CASE d.ev # e
      <4>1. CASE e \in lost \cup displaced
        BY <4>1, <2>2 DEF Carried
      <4>2. CASE \E p \in Partitions : \E o \in 1 .. Len(log[p]) : log[p][o] = e /\ <<p, o>> # m
        BY <4>2, <1>l DEF Carried
      <4>3. ASSUME NEW f \in Files, NEW r \in buffer[f], r.ev = e, ~ Doomed(f, r)
            PROVE  Carried(e, m)'
        <5>1. ~ Doomed(f, r)'
          <6> SUFFICES ASSUME NEW y \in Procs, Db[y] = f, proc'[y].pc = "delete",
                              IsFirst(r, proc'[y].todo), r.id \notin stale[y]
                       PROVE  FALSE
            BY <2>2 DEF Doomed, IsFirst
          <6>1. CASE y # x
            BY <4>3, <2>4, <6>1 DEF Moves, Doomed
          <6>2. CASE y = x
            <7>1. proc'[y].todo = proc[x].todo
              BY <2>4, <6>2 DEF Moves
            <7>2. r # d
              BY <3>3, <4>3
            <7>3. ~ IsFirst(r, proc[x].todo)
              BY <1>t, <2>1, <7>2, FirstIsOne
            <7> QED BY <7>1, <7>3
          <6> QED BY <6>1, <6>2
        <5> QED BY <4>3, <2>2, <5>1 DEF Carried, Files
      <4> QED BY <4>1, <4>2, <4>3 DEF Carried
    <3> QED BY <2>4, <3>1, <3>2, <3>3
  <2> QED BY <2>1, <2>3, <2>4
<1>5. CASE DrainDelete(x)
  <2>1. UNCHANGED <<log, lost>> /\ proc[x].pc = "delete"
    BY <1>5 DEF DrainDelete
  <2>2. CASE Moves(x, "drain", proc[x].ev, {}) /\ UNCHANGED <<buffer, stale, displaced>>
    BY <1>q, <2>1, <2>2
  <2>3. ASSUME NEW d \in proc[x].todo, IsFirst(d, proc[x].todo),
               buffer' = [buffer EXCEPT ![Db[x]] = {r \in @ : r.id # d.id}],
               Moves(x, "drain", proc[x].ev, proc[x].todo \ {d}), Deletes(x, d)
        PROVE  Carried(e, m)'
    <3>1. /\ Db[x] \in Files
          /\ buffer'[Db[x]] = {r \in buffer[Db[x]] : r.id # d.id}
          /\ \A f \in Files : f # Db[x] => buffer'[f] = buffer[f]
      BY <1>t, <2>3 DEF PubTypes, Files
    <3>2. CASE e \in lost \cup displaced
      BY <3>2, <2>1, <2>3 DEF Carried, Deletes
    <3>3. CASE \E p \in Partitions : \E o \in 1 .. Len(log[p]) : log[p][o] = e /\ <<p, o>> # m
      BY <3>3, <1>l DEF Carried
    <3>n. NoneBegins
      <4>1. \A y \in Procs : stale[y] \subseteq stale'[y]
        BY <2>3 DEF Deletes
      <4> QED BY <2>3, <4>1 DEF NoneBegins, Moves
    <3>4. ASSUME NEW f \in Files, NEW r \in buffer[f], r.ev = e, ~ Doomed(f, r)
          PROVE  Carried(e, m)'
      <4>1. CASE r \in buffer'[f]
        <5>1. ~ Doomed(f, r)'
          BY <3>4, <3>n, StaysSafe
        <5> QED BY <3>4, <4>1, <5>1 DEF Carried, Files
      <4>2. CASE r \notin buffer'[f]
        <5>1. f = Db[x] /\ r.id = d.id
          BY <3>1, <4>2
        <5>2. CASE d.id \in stale[x]
          <6>1. e \in EventsUnder(d.id, buffer[Db[x]])
            BY <3>4, <5>1 DEF EventsUnder
          <6>2. e \in displaced'
            BY <2>3, <5>2, <6>1 DEF Deletes
          <6> QED BY <6>2 DEF Carried
        <5>3. CASE d.id \notin stale[x]
          <6>1. d \in buffer[Db[x]]
            BY <1>t, <5>3 DEF DrainInv, TodoIsBuffered
          <6>2. r = d
            BY <1>t, <3>1, <5>1, <6>1 DEF DrainInv, IdsDiffer
          <6> QED BY <2>1, <2>3, <3>4, <5>1, <5>3, <6>2 DEF Doomed
        <5> QED BY <5>2, <5>3
      <4> QED BY <4>1, <4>2
    <3> QED BY <3>2, <3>3, <3>4 DEF Carried
  <2> QED BY <1>5, <1>t, <2>2, <2>3, DeleteMoves
<1>6. CASE DrainEnd(x)
  <2> DEFINE p == IF proc[x].ev = None THEN "idle" ELSE "send"
  <2>1. p \in Pcs /\ p # "delete"
    BY DEF Pcs
  <2>2. UNCHANGED <<buffer, stale, lost, displaced>> /\ proc' = [proc EXCEPT ![x].pc = p]
    BY <1>6 DEF DrainEnd
  <2> HIDE DEF p
  <2>3. Moves(x, p, proc[x].ev, proc[x].todo)
    BY <1>t, <2>1, <2>2, PcMoves
  <2> QED BY <1>q, <2>1, <2>2, <2>3
<1>7. CASE Send(x)
  <2>1. UNCHANGED <<buffer, stale, displaced>> /\ lost \subseteq lost'
    BY <1>7 DEF Send
  <2>2. CASE Returns(x, TRUE)
    <3>1. PICK p \in {"idle", "relabel"} : Moves(x, p, None, proc[x].todo)
      BY <1>t, <2>2, ReturnMoves
    <3> QED BY <1>q, <2>1, <3>1
  <2>3. CASE proc' = [proc EXCEPT ![x].pc = "buffer"]
    BY <1>t, <1>q, <2>1, <2>3, PcMoves DEF Pcs
  <2> QED BY <1>7, <2>2, <2>3 DEF Send
<1>8. CASE BufferLocally(x)
  <2>1. PICK p \in {"idle", "relabel"} : Moves(x, p, None, proc[x].todo)
    BY <1>8, <1>t, ReturnMoves DEF BufferLocally
  <2>2. /\ lost \subseteq lost' /\ \A f \in Files : buffer[f] \subseteq buffer'[f]
        /\ UNCHANGED <<stale, displaced>>
    BY <1>8, <1>t DEF BufferLocally, PubTypes
  <2> QED BY <1>q, <2>1, <2>2
<1>9. CASE Crash(x)
  BY <1>9, <1>t, <1>q, CrashMoves DEF Crash
<1>10. CASE Relabel(x)
  BY <1>10, <1>t, <1>q, RelabelMoves DEF Relabel
<1> QED BY <1>1, <1>2, <1>3, <1>4, <1>5, <1>6, <1>7, <1>8, <1>9, <1>10 DEF ProcStep

\* Relabelling changes a label, and only that of a dead letter.
LEMMA RelabelOne ==
  ASSUME TypeOK, NEW r, NEW label, rows' = Relabelled(r, label), NEW s \in 1 .. Len(rows)
  PROVE  /\ rows'[s].ev = rows[s].ev /\ rows'[s].at = rows[s].at
         /\ rows'[s].label = rows[s].label \/ (s = r /\ rows'[s].label = label)
<1>1. DOMAIN rows = 1 .. Len(rows) /\ rows[s] \in Row
  BY LenProperties, ElementOfSeq DEF TypeOK, Row
<1>2. CASE s = r
  BY <1>1, <1>2 DEF Relabelled, Row
<1>3. CASE s # r
  BY <1>1, <1>3 DEF Relabelled
<1> QED BY <1>2, <1>3

\* dismiss_dlq_message and dismiss_all_dlq relabel nothing as retried.
LEMMA DismissOne ==
  ASSUME TypeOK, Dismiss, NEW s \in 1 .. Len(rows)
  PROVE  /\ rows'[s].ev = rows[s].ev /\ rows'[s].at = rows[s].at
         /\ rows'[s].label = "dlq-retry" => rows[s].label = "dlq-retry"
<1>1. CASE \E r \in 1 .. Len(rows) : rows' = Relabelled(r, "dlq-dismissed")
  BY <1>1, RelabelOne
<1>2. CASE rows' = [r \in 1 .. Len(rows) |->
                      [rows[r] EXCEPT !.label = IF @ = "dead-letter"
                                                  THEN "dlq-dismissed" ELSE @]]
  <2>1. rows[s] \in Row
    BY ElementOfSeq DEF TypeOK, Row
  <2> QED BY <1>2, <2>1 DEF Row
<1> QED BY <1>1, <1>2 DEF Dismiss

\* What a step does to the row a process retries.
LEMMA RetryMoves ==
  ASSUME IInv, NEW x \in Procs, ProcStep(x)
  PROVE  /\ \A y \in Procs : y # x => proc'[y] = proc[y]
         /\ \/ /\ proc'[x].row = proc[x].row /\ proc'[x].ev = proc[x].ev
               /\ proc'[x].pc # "relabel" /\ proc[x].pc # "relabel"
            \/ proc'[x].row = 0 /\ proc'[x].pc # "relabel"
            \/ /\ proc'[x].row \in 1 .. Len(rows) /\ proc'[x].ev = rows[proc'[x].row].ev
               /\ proc'[x].pc # "relabel"
            \/ /\ proc[x].pc \in {"send", "buffer"} /\ proc'[x].row = proc[x].row
               /\ proc'[x].pc = IF proc[x].row = 0 THEN "idle" ELSE "relabel"
               /\ \A e, m : e = proc[x].ev /\ m \in Records /\ m[2] <= Len(log[m[1]])
                             => Carried(e, m)'
<1>t. TypeOK /\ proc \in [Procs -> Proc] /\ proc[x] \in Proc
  BY DEF IInv, TypeOK
<1>1. ASSUME StartProcess(x) \/ Connect(x) \/ DrainEnd(x)
      PROVE  /\ \A y \in Procs : y # x => proc'[y] = proc[y]
             /\ proc'[x].row = proc[x].row /\ proc'[x].ev = proc[x].ev
             /\ proc'[x].pc # "relabel" /\ proc[x].pc # "relabel"
  BY <1>1, <1>t DEF StartProcess, Connect, DrainEnd, Proc
<1>2. ASSUME DrainSend(x) \/ DrainDelete(x)
      PROVE  /\ \A y \in Procs : y # x => proc'[y] = proc[y]
             /\ proc'[x].row = proc[x].row /\ proc'[x].ev = proc[x].ev
             /\ proc'[x].pc # "relabel" /\ proc[x].pc # "relabel"
  BY <1>2, <1>t DEF DrainSend, DrainDelete, Proc
<1>3. ASSUME NEW v, NEW r, StartPublish(x, v, r)
      PROVE  /\ \A y \in Procs : y # x => proc'[y] = proc[y]
             /\ proc'[x].row = r /\ proc'[x].ev = v /\ proc'[x].pc # "relabel"
  BY <1>3, <1>t DEF StartPublish, Proc
<1>4. ASSUME Crash(x) \/ Relabel(x)
      PROVE  /\ \A y \in Procs : y # x => proc'[y] = proc[y]
             /\ proc'[x].row = 0 /\ proc'[x].pc # "relabel"
  BY <1>4, <1>t DEF Crash, Relabel, Proc
<1>5. ASSUME NEW up \in BOOLEAN, Returns(x, up)
      PROVE  /\ \A y \in Procs : y # x => proc'[y] = proc[y]
             /\ proc'[x].row = proc[x].row
             /\ proc'[x].pc = IF proc[x].row = 0 THEN "idle" ELSE "relabel"
  BY <1>5, <1>t DEF Returns, Proc
<1>6. CASE Send(x)
  <2>1. CASE proc' = [proc EXCEPT ![x].pc = "buffer"]
    BY <1>6, <1>t, <2>1 DEF Send, Proc
  <2>2. CASE Returns(x, TRUE) /\ (Written(proc[x].ev) \/ lost' = lost \cup {proc[x].ev})
    <3>2. ASSUME NEW e, NEW m \in Records, e = proc[x].ev, m[2] <= Len(log[m[1]])
          PROVE  Carried(e, m)'
      <4>1. CASE Written(e)
        BY <1>t, <3>2, <4>1, WrittenElsewhere
      <4>2. CASE e \in lost'
        BY <4>2 DEF Carried
      <4> QED BY <2>2, <3>2, <4>1, <4>2
    <3> QED BY <1>5, <1>6, <2>2, <3>2 DEF Send
  <2> QED BY <1>6, <2>1, <2>2 DEF Send
<1>7. CASE BufferLocally(x)
  <2>1. proc[x].pc = "buffer" /\ Returns(x, FALSE) /\ Db[x] \in Files
    BY <1>7 DEF BufferLocally, Files
  <2>3. ASSUME NEW e, NEW m \in Records, e = proc[x].ev PROVE Carried(e, m)'
    <3>1. CASE lost' = lost \cup {proc[x].ev}
      BY <2>3, <3>1 DEF Carried
    <3>2. ASSUME NEW i \in 1 .. MaxBuffer,
                 NextRowId(buffer[Db[x]], i),
                 buffer' = [buffer EXCEPT ![Db[x]] = @ \cup {[id |-> i, ev |-> proc[x].ev]}]
          PROVE  Carried(e, m)'
      <4>0. PICK d : d = [id |-> i, ev |-> e]
        OBVIOUS
      <4>1. d \in buffer'[Db[x]] /\ d.ev = e /\ d.id = i
        BY <1>t, <2>1, <2>3, <3>2, <4>0 DEF TypeOK
      <4>2. ASSUME NEW y \in Procs, Db[y] = Db[x], proc'[y].pc = "delete",
                   IsFirst(d, proc'[y].todo), d.id \notin stale[y]
            PROVE  FALSE
        <5>1. y # x
          BY <1>t, <2>1, <4>2 DEF Returns, Proc
        <5>2. d \in proc[y].todo
          BY <1>5, <2>1, <4>2, <5>1 DEF IsFirst
        <5>3. d \in buffer[Db[x]]
          BY <4>2, <5>2 DEF IInv, DrainInv, TodoIsBuffered
        <5> QED BY <3>2, <4>1, <5>3 DEF NextRowId
      <4>3. ~ Doomed(Db[x], d)'
        BY <1>7, <4>2 DEF Doomed, BufferLocally, IsFirst
      <4> QED BY <2>1, <4>1, <4>3 DEF Carried, Files
    <3> QED BY <1>7, <3>1, <3>2 DEF BufferLocally
  <2> QED BY <1>5, <2>1, <2>3
<1>8. CASE Publish(x)
  <2>1. PICK v : StartPublish(x, v, 0)
    BY <1>8 DEF Publish
  <2> QED BY <2>1, <1>3
<1>9. CASE Retry(x)
  <2>1. PICK r \in 1 .. Len(rows) : StartPublish(x, rows[r].ev, r)
    BY <1>9 DEF Retry
  <2> QED BY <2>1, <1>3
<1> QED BY <1>1, <1>2, <1>4, <1>6, <1>7, <1>8, <1>9 DEF ProcStep

\* Every step keeps what is known of retried rows.
LEMMA RetryStep ==
  ASSUME IInv, RowInv, RetryInv, [Next]_vars
  PROVE  RowInv' /\ RetryInv'
<1>t. /\ TypeOK /\ Len(rows) \in Nat
      /\ \A r \in 1 .. Len(rows) : rows[r] \in Row /\ rows[r].ev \in Events /\ rows[r].at \in Records
      /\ \A x \in Procs : proc[x] \in Proc
  <2>1. TypeOK /\ rows \in Seq(Row) /\ proc \in [Procs -> Proc]
    BY DEF IInv, TypeOK, Row
  <2>2. \A r \in 1 .. Len(rows) : rows[r] \in Row
    BY <2>1, ElementOfSeq
  <2>3. \A r \in Row : r.ev \in Events /\ r.at \in Records
    BY DEF Row
  <2> QED BY <2>1, <2>2, <2>3, LenProperties
<1>r. \A m \in Records : m[1] \in Partitions /\ m[2] \in Nat
  BY BoundsArePositive DEF Records, Offsets
<1>1. ASSUME NEW x \in Procs, ProcStep(x) PROVE RowInv' /\ RetryInv'
  <2>1. UNCHANGED rows \/ (Relabel(x) /\ rows' = Relabelled(proc[x].row, "dlq-retry"))
    BY <1>1 DEF ProcStep, StartProcess, Publish, Retry, StartPublish, Connect, DrainSend,
                DrainDelete, DrainEnd, Send, BufferLocally, Crash, Relabel
  <2>2. Len(rows') = Len(rows)
    BY <1>t, <2>1, RelabelKeeps
  <2>3. \A r \in 1 .. Len(rows) : rows'[r].ev = rows[r].ev /\ rows'[r].at = rows[r].at
    BY <1>t, <2>1, RelabelOne
  <2>4. ASSUME NEW r \in 1 .. Len(rows), Carried(rows[r].ev, rows[r].at)
        PROVE  \A e, m : e = rows[r].ev /\ m = rows[r].at => Carried(e, m)'
    <3> SUFFICES ASSUME NEW e, NEW m, e = rows[r].ev, m = rows[r].at PROVE Carried(e, m)'
      OBVIOUS
    <3>1. e \in Events /\ m \in Records /\ m[2] <= Len(log[m[1]])
      BY <1>t DEF RowInv
    <3>2. Carried(e, m)
      BY <2>4
    <3> QED BY <1>1, <3>1, <3>2, ProcCarries
  <2>5. ASSUME NEW r \in 1 .. Len(rows'), rows'[r].label = "dlq-retry" PROVE Carried(rows[r].ev, rows[r].at)
    <3>1. CASE rows[r].label = "dlq-retry"
      BY <2>2, <3>1 DEF RowInv
    <3>2. CASE rows[r].label # "dlq-retry"
      <4>1. Relabel(x) /\ r = proc[x].row
        BY <1>t, <2>1, <2>2, <2>5, <3>2, RelabelOne
      <4>2. proc[x].pc = "relabel"
        BY <4>1 DEF Relabel
      <4> QED BY <4>1, <4>2 DEF RetryInv
    <3> QED BY <3>1, <3>2
  <2>6. RowInv'
    <3> SUFFICES ASSUME NEW r \in 1 .. Len(rows')
                 PROVE  /\ rows'[r].at[2] <= Len(log'[rows'[r].at[1]])
                        /\ rows'[r].label = "dlq-retry" => Carried(rows[r].ev, rows[r].at)'
      BY DEF RowInv
    <3>1. PICK e, m : e = rows[r].ev /\ m = rows[r].at
      OBVIOUS
    <3>2. rows'[r].ev = e /\ rows'[r].at = m /\ m \in Records /\ m[2] <= Len(log[m[1]])
      BY <1>t, <2>2, <2>3, <3>1 DEF RowInv
    <3>3. Len(log'[m[1]]) \in Nat /\ Len(log[m[1]]) <= Len(log'[m[1]]) /\ Len(log[m[1]]) \in Nat
      BY <1>t, <1>r, <1>1, <3>2, LogGrows DEF TypeOK
    <3>4. m[2] <= Len(log'[m[1]])
      BY <1>r, <3>2, <3>3
    <3>5. rows'[r].label = "dlq-retry" => Carried(e, m)'
      BY <2>2, <2>4, <2>5, <3>1
    <3> QED BY <3>2, <3>4, <3>5 DEF Carried
  <2>7. RetryInv'
    <3>1. ASSUME NEW y \in Procs, proc'[y].row # 0 \/ proc'[y].pc = "relabel"
          PROVE  /\ proc'[y].row \in 1 .. Len(rows)
                 /\ proc'[y].pc # "relabel" => proc'[y].ev = rows[proc'[y].row].ev
                 /\ proc'[y].pc = "relabel" =>
                       \A e, m : e = rows[proc'[y].row].ev /\ m = rows[proc'[y].row].at
                                   => Carried(e, m)'
      <4>1. CASE proc'[y] = proc[y]
        BY <2>4, <3>1, <4>1 DEF RetryInv
      <4>2. CASE y = x /\ proc'[x].row = proc[x].row /\ proc'[x].ev = proc[x].ev
                 /\ proc'[x].pc # "relabel" /\ proc[x].pc # "relabel"
        BY <3>1, <4>2 DEF RetryInv
      <4>3. CASE y = x /\ proc'[x].row \in 1 .. Len(rows) /\ proc'[x].ev = rows[proc'[x].row].ev
                 /\ proc'[x].pc # "relabel"
        BY <4>3
      <4>4. CASE /\ y = x
                 /\ proc[x].pc \in {"send", "buffer"} /\ proc'[x].row = proc[x].row
                 /\ proc'[x].pc = IF proc[x].row = 0 THEN "idle" ELSE "relabel"
                 /\ \A e, m : e = proc[x].ev /\ m \in Records /\ m[2] <= Len(log[m[1]])
                               => Carried(e, m)'
        <5>1. proc[x].row # 0
          BY <3>1, <4>4
        <5>2. proc[x].row \in 1 .. Len(rows) /\ proc[x].ev = rows[proc[x].row].ev
          BY <4>4, <5>1 DEF RetryInv
        <5>3. rows[proc[x].row].at \in Records /\ rows[proc[x].row].at[2] <= Len(log[rows[proc[x].row].at[1]])
          BY <1>t, <5>2 DEF RowInv
        <5> QED BY <4>4, <5>1, <5>2, <5>3
      <4> QED BY <1>1, <3>1, <4>1, <4>2, <4>3, <4>4, RetryMoves
    <3>2. ASSUME NEW y \in Procs, proc'[y].pc = "relabel"
          PROVE  Carried(rows[proc[y].row].ev, rows[proc[y].row].at)'
      <4>1. PICK e, m : e = rows[proc'[y].row].ev /\ m = rows[proc'[y].row].at
        OBVIOUS
      <4>2. Carried(e, m)' /\ rows'[proc'[y].row].ev = e /\ rows'[proc'[y].row].at = m
        BY <2>3, <3>1, <3>2, <4>1
      <4> QED BY <4>2 DEF Carried
    <3> QED BY <2>2, <2>3, <3>1, <3>2 DEF RetryInv
  <2> QED BY <2>6, <2>7
<1>2. ASSUME UNCHANGED <<proc, buffer, stale, log, lost, displaced>>,
             Len(rows') \in Nat, Len(rows) <= Len(rows'),
             \A r \in 1 .. Len(rows) :
                /\ rows'[r].ev = rows[r].ev /\ rows'[r].at = rows[r].at
                /\ rows'[r].label = "dlq-retry" => rows[r].label = "dlq-retry",
             \A r \in 1 .. Len(rows') : r \notin 1 .. Len(rows) =>
                /\ rows'[r].at[2] <= Len(log[rows'[r].at[1]])
                /\ rows'[r].label # "dlq-retry"
      PROVE  RowInv' /\ RetryInv'
  <2>1. ASSUME NEW r \in 1 .. Len(rows), Carried(rows[r].ev, rows[r].at)
        PROVE  Carried(rows[r].ev, rows[r].at)'
    BY <1>2, <2>1 DEF Carried, Doomed, IsFirst, Files
  <2>2. RowInv'
    BY <1>2, <2>1 DEF RowInv
  <2>3. 1 .. Len(rows) \subseteq 1 .. Len(rows')
    BY <1>t, <1>2
  <2>4. ASSUME NEW x \in Procs, proc'[x].row # 0 \/ proc'[x].pc = "relabel"
        PROVE  /\ proc'[x].row \in 1 .. Len(rows')
               /\ proc'[x].pc # "relabel" => proc'[x].ev = rows'[proc'[x].row].ev
               /\ proc'[x].pc = "relabel" => Carried(rows[proc[x].row].ev, rows[proc[x].row].at)'
    <3>1. proc'[x] = proc[x] /\ proc[x].row \in 1 .. Len(rows)
      BY <1>2, <2>4 DEF RetryInv
    <3>2. proc[x].pc # "relabel" => proc[x].ev = rows[proc[x].row].ev
      BY <2>4, <3>1 DEF RetryInv
    <3>3. CASE proc[x].pc = "relabel"
      <4>1. Carried(rows[proc[x].row].ev, rows[proc[x].row].at)
        BY <3>3 DEF RetryInv
      <4>2. PICK r \in 1 .. Len(rows) : r = proc[x].row
        BY <3>1
      <4>3. Carried(rows[r].ev, rows[r].at)'
        BY <4>1, <4>2, <2>1
      <4> QED BY <3>1, <3>3, <4>2, <4>3, <2>3
    <3>4. CASE proc[x].pc # "relabel"
      BY <1>2, <2>3, <3>1, <3>2, <3>4
    <3> QED BY <3>3, <3>4
  <2> QED BY <2>2, <2>4 DEF RetryInv
<1>3. CASE Dismiss
  <2>1. UNCHANGED <<proc, buffer, stale, log, lost, displaced>> /\ Len(rows') = Len(rows)
    BY <1>t, <1>3, DismissKeeps DEF Dismiss, pubVars
  <2> QED BY <1>t, <1>2, <1>3, <2>1, DismissOne
<1>4. CASE UNCHANGED vars
  BY <1>t, <1>2, <1>4 DEF vars
<1>5. CASE ConsumerStep
  <2>1. UNCHANGED <<proc, buffer, stale, log, lost, displaced>>
    BY <1>5 DEF ConsumerStep, StartConsumer, Rebalance, StopConsumer, HandleOk, CommitRaises,
                HandleFails, DeadLetter, pubVars
  <2>2. CASE UNCHANGED rows
    BY <1>t, <1>2, <2>1, <2>2
  <2>3. ASSUME NEW p \in Partitions, HasRecord(p), NEW v,
               v = [ev |-> log[p][consumer.pos[p]], at |-> <<p, consumer.pos[p]>>,
                    label |-> "dead-letter"],
               rows' = Append(rows, v)
        PROVE  RowInv' /\ RetryInv'
    <3>1. v.at[2] <= Len(log[v.at[1]]) /\ v.label # "dlq-retry"
      BY <2>3 DEF HasRecord
    <3>2. /\ Len(rows') = Len(rows) + 1 /\ rows'[Len(rows) + 1] = v
          /\ \A r \in 1 .. Len(rows) : rows'[r] = rows[r]
      BY <2>3, <1>t DEF TypeOK
    <3>3. \A r \in 1 .. Len(rows') : r \notin 1 .. Len(rows) => r = Len(rows) + 1
      BY <1>t, <3>2
    <3> QED BY <1>t, <1>2, <2>1, <3>1, <3>2, <3>3
  <2> QED BY <1>5, <2>2, <2>3 DEF ConsumerStep, StartConsumer, Rebalance, StopConsumer, HandleOk,
                                  CommitRaises, HandleFails, DeadLetter
<1> QED BY <1>1, <1>3, <1>4, <1>5 DEF Next

(***************************************************************************)
(* retry_dlq_message (portal/store/events.py) relabels a dead letter only  *)
(* when its message was published again: the message is a second time in   *)
(* the log, waits in a buffer file, was lost to a fault on record or its   *)
(* row was displaced, also when a drain of another process sends and       *)
(* deletes at the same time, the row is dismissed or retried twice, or the *)
(* portal dies half way.                                                   *)
(***************************************************************************)
THEOREM RetriedIsRepublished == Spec => []RetryRepublishes
<1>1. Init => RowInv /\ RetryInv
  <2> SUFFICES ASSUME Init PROVE RowInv /\ RetryInv
    OBVIOUS
  <2>1. Len(rows) = 0 /\ \A x \in Procs : proc[x].row = 0 /\ proc[x].pc # "relabel"
    BY EmptySeq DEF Init
  <2> QED BY <2>1 DEF RowInv, RetryInv
<1>2. IInv /\ [Next]_vars => IInv'
  BY StepHolds
<1>3. IInv /\ RowInv /\ RetryInv /\ [Next]_vars => RowInv' /\ RetryInv'
  BY RetryStep
<1>4. IInv /\ RowInv => RetryRepublishes
  <2> SUFFICES ASSUME IInv, RowInv, NEW r \in 1 .. Len(rows), rows[r].label = "dlq-retry"
               PROVE  \/ rows[r].ev \in Buffered \cup lost \cup displaced
                      \/ \E p \in Partitions : \E o \in 1 .. Len(log[p]) :
                            log[p][o] = rows[r].ev /\ <<p, o>> # rows[r].at
    BY DEF RetryRepublishes
  <2>1. Carried(rows[r].ev, rows[r].at)
    BY DEF RowInv
  <2>2. ASSUME NEW f \in Files, NEW d \in buffer[f], d.ev = rows[r].ev
        PROVE  rows[r].ev \in Buffered
    <3>1. d \in BufferRows
      BY DEF IInv, TypeOK
    <3>2. d.ev \in Events
      BY <3>1 DEF BufferRows
    <3> QED BY <2>2, <3>1, <3>2 DEF Buffered
  <2> QED BY <2>1, <2>2 DEF Carried
<1> QED BY InitHolds, <1>1, <1>2, <1>3, <1>4, PTL DEF Spec
=============================================================================
