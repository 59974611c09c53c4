---------------------------- MODULE EventPipeline ----------------------------
(***************************************************************************)
(* The event path: EventPublisher (events.py) with its SQLite fallback     *)
(* buffer, the Kafka topic, EventConsumer (consumer.py) with its manual    *)
(* offset commits, and the dead-letter rows of the events table with the   *)
(* retry and dismiss buttons of the portal.                                *)
(*                                                                         *)
(* The processes of Procs each own one publisher; Db names the buffer file *)
(* a process resolves (the portal, the vuln-watcher and the slo-tracker    *)
(* mount the same volume at /data and share one file).  Time is            *)
(* abstracted: the 60 s reconnect cooldown has elapsed or not, a flush     *)
(* succeeds or times out.                                                  *)
(***************************************************************************)
EXTENDS Integers, Sequences, FiniteSets

CONSTANTS Procs,       \* publishing processes
          Portals,     \* those that serve the portal and its dead-letter page
          Db,          \* Db[x]: the buffer file of process x
          Events,      \* the events ever published
          None,        \* no event
          Partitions,  \* partitions of the consumed topic
          MaxRetries,  \* EventConsumer's max_retries
          MaxLog,      \* bound: records per partition
          MaxDead,     \* bound: dead-letter rows ever written
          MaxBuffer    \* bound: row ids of a buffer file

ASSUME NoneIsNoEvent == None \notin Events
ASSUME BoundsArePositive == /\ MaxRetries \in Nat \ {0, 1}
                            /\ MaxLog \in Nat
                            /\ MaxDead \in Nat
                            /\ MaxBuffer \in Nat

VARIABLES proc,        \* proc[x]: where process x is in publish() or its constructor
          buffer,      \* buffer[f]: rows of the buffered_events table of file f
          log,         \* log[p]: the records of partition p
          stale,       \* stale[x]: row ids others deleted since x read its rows to drain
          lost,        \* events a storage or broker fault took
          displaced,   \* events whose row a stale drain deleted
          accepted,    \* events whose publish() returned
          consumer,    \* the EventConsumer object
          committed,   \* committed[p]: the group's offset, 0 when it has none
          fate,        \* fate[m]: what became of record m at the consumer
          attempts,    \* attempts[m]: deliveries of record m that resolved nothing
          rows         \* dead-letter rows of the events table

pubVars == <<proc, buffer, stale, lost, displaced, accepted>>
conVars == <<consumer, committed, fate, attempts>>
vars == <<proc, buffer, stale, log, lost, displaced, accepted, consumer, committed, fate,
          attempts, rows>>

Files == {Db[x] : x \in Procs}
Offsets == 1 .. MaxLog
Records == Partitions \X Offsets
BufferRows == [id : 1 .. MaxBuffer, ev : Events]
Fates == {"new", "failed", "done", "dead", "skipped"}
Labels == {"dead-letter", "dlq-retry", "dlq-dismissed"}
Pcs == {"down", "idle", "connect", "drain", "delete", "send", "buffer", "relabel"}

Proc == [pc : Pcs,
         up : BOOLEAN,                 \* self._producer is set
         ev : Events \cup {None},      \* the event being published
         row : 0 .. MaxDead,           \* the dead-letter row being retried
         todo : SUBSET BufferRows]     \* rows _drain_buffer still has to send

Consumer == [on : BOOLEAN,
             pos : [Partitions -> 1 .. MaxLog + 1],
             blocked : [Partitions -> 0 .. MaxLog],   \* _blocked_offset, 0: none
             count : [Offsets -> 0 .. MaxRetries]]    \* _retry_counts

NoConsumer == [on |-> FALSE,
               pos |-> [p \in Partitions |-> 1],
               blocked |-> [p \in Partitions |-> 0],
               count |-> [o \in Offsets |-> 0]]

InLog(e) == \E p \in Partitions : \E o \in 1 .. Len(log[p]) : log[p][o] = e
Delivered == {e \in Events : InLog(e)}
Buffered == {e \in Events : \E f \in Files : \E r \in buffer[f] : r.ev = e}

TypeOK == /\ proc \in [Procs -> Proc]
          /\ buffer \in [Files -> SUBSET BufferRows]
          /\ log \in [Partitions -> Seq(Events)]
          /\ \A p \in Partitions : Len(log[p]) <= MaxLog
          /\ stale \in [Procs -> SUBSET (1 .. MaxBuffer)]
          /\ lost \subseteq Events
          /\ displaced \subseteq Events
          /\ accepted \subseteq Events
          /\ consumer \in Consumer
          /\ committed \in [Partitions -> 0 .. MaxLog + 1]
          /\ fate \in [Records -> Fates]
          /\ attempts \in [Records -> 0 .. MaxRetries]
          /\ rows \in Seq([ev : Events, at : Records, label : Labels])
          /\ Len(rows) <= MaxDead

\* A group with committed offsets and one without: both are deployments.
Init == /\ proc = [x \in Procs |-> [pc |-> "down", up |-> FALSE, ev |-> None,
                                    row |-> 0, todo |-> {}]]
        /\ buffer = [f \in Files |-> {}]
        /\ log = [p \in Partitions |-> <<>>]
        /\ stale = [x \in Procs |-> {}]
        /\ lost = {}
        /\ displaced = {}
        /\ accepted = {}
        /\ consumer = NoConsumer
        /\ \E c \in {0, 1} : committed = [p \in Partitions |-> c]
        /\ fate = [m \in Records |-> "new"]
        /\ attempts = [m \in Records |-> 0]
        /\ rows = <<>>

(***************************************************************************)
(* The broker.  The client library picks the partition.  send() + flush()  *)
(* returns with the record written, returns with the record refused (flush *)
(* waits for an answer and raises on a timeout only), or raises with the   *)
(* record written or not.                                                  *)
(***************************************************************************)
Written(e) == \E p \in Partitions : /\ Len(log[p]) < MaxLog
                                    /\ log' = [log EXCEPT ![p] = Append(@, e)]

Unwritten == UNCHANGED log

\* Process x is done with its event: publish() returns.
Returns(x, up) ==
    /\ accepted' = accepted \cup {proc[x].ev}
    /\ proc' = [proc EXCEPT ![x].pc = IF proc[x].row = 0 THEN "idle" ELSE "relabel",
                            ![x].up = up,
                            ![x].ev = None]

\* EventPublisher.__init__: create the table and connect.
StartProcess(x) ==
    /\ proc[x].pc = "down"
    /\ proc' = [proc EXCEPT ![x].pc = "connect"]
    /\ UNCHANGED <<buffer, stale, log, lost, displaced, accepted, conVars, rows>>

\* Top of publish(): with no producer, _try_reconnect unless within the cooldown.
StartPublish(x, e, r) ==
    /\ proc[x].pc = "idle"
    /\ \E pc \in IF proc[x].up THEN {"send"} ELSE {"connect", "buffer"} :
          proc' = [proc EXCEPT ![x].pc = pc, ![x].ev = e, ![x].row = r]
    /\ UNCHANGED <<buffer, stale, log, lost, displaced, accepted, conVars, rows>>

\* Every event gets an id of its own.
Fresh(e) == /\ e \notin accepted \cup Delivered \cup Buffered
            /\ \A x \in Procs : proc[x].ev # e

Publish(x) == \E e \in Events : Fresh(e) /\ StartPublish(x, e, 0)

\* _connect: build the producer, then read the rows to drain.
Connect(x) ==
    /\ proc[x].pc = "connect"
    /\ \/ /\ proc' = [proc EXCEPT ![x].pc = "drain", ![x].up = TRUE,
                                  ![x].todo = buffer[Db[x]]]
          /\ stale' = [stale EXCEPT ![x] = {}]
       \/ /\ proc' = [proc EXCEPT ![x].pc = IF proc[x].ev = None THEN "idle" ELSE "buffer",
                                  ![x].up = FALSE]
          /\ UNCHANGED stale
    /\ UNCHANGED <<buffer, log, lost, displaced, accepted, conVars, rows>>

\* The events of the rows with id i: one at most.
EventsUnder(i, B) == {r.ev : r \in {s \in B : s.id = i}}

\* ORDER BY id
IsFirst(d, T) == d \in T /\ \A r \in T : d.id <= r.id

\* _drain_buffer, one row: send and flush it; an exception ends the drain and
\* leaves the producer set.
DrainSend(x) ==
    /\ proc[x].pc = "drain"
    /\ \E d \in proc[x].todo :
       /\ IsFirst(d, proc[x].todo)
       /\ \/ /\ Written(d.ev)
             /\ proc' = [proc EXCEPT ![x].pc = "delete"]
             /\ UNCHANGED lost
          \/ /\ Unwritten
             /\ lost' = lost \cup {d.ev}
             /\ proc' = [proc EXCEPT ![x].pc = "delete"]
          \/ /\ Written(d.ev) \/ Unwritten
             /\ proc' = [proc EXCEPT ![x].todo = {}]
             /\ UNCHANGED lost
    /\ UNCHANGED <<buffer, stale, displaced, accepted, conVars, rows>>

\* ... and delete it by its id, under which a shared file may hold another row by
\* now; SQLite may refuse, which ends the drain too.
DrainDelete(x) ==
    /\ proc[x].pc = "delete"
    /\ \/ \E d \in proc[x].todo :
             /\ IsFirst(d, proc[x].todo)
             /\ buffer' = [buffer EXCEPT ![Db[x]] = {r \in @ : r.id # d.id}]
             /\ stale' = [y \in Procs |-> IF y # x /\ Db[y] = Db[x]
                                           THEN stale[y] \cup {d.id} ELSE stale[y]]
             /\ displaced' = displaced \cup
                   IF d.id \in stale[x] THEN EventsUnder(d.id, buffer[Db[x]]) ELSE {}
             /\ proc' = [proc EXCEPT ![x].pc = "drain", ![x].todo = @ \ {d}]
       \/ /\ proc' = [proc EXCEPT ![x].pc = "drain", ![x].todo = {}]
          /\ UNCHANGED <<buffer, stale, displaced>>
    /\ UNCHANGED <<log, lost, accepted, conVars, rows>>

DrainEnd(x) ==
    /\ proc[x].pc = "drain"
    /\ proc[x].todo = {}
    /\ proc' = [proc EXCEPT ![x].pc = IF proc[x].ev = None THEN "idle" ELSE "send"]
    /\ UNCHANGED <<buffer, stale, log, lost, displaced, accepted, conVars, rows>>

\* publish() with a producer.
Send(x) ==
    /\ proc[x].pc = "send"
    /\ \/ Written(proc[x].ev) /\ Returns(x, TRUE) /\ UNCHANGED lost
       \/ Unwritten /\ Returns(x, TRUE) /\ lost' = lost \cup {proc[x].ev}
       \/ /\ Written(proc[x].ev) \/ Unwritten
          /\ proc' = [proc EXCEPT ![x].pc = "buffer"]
          /\ UNCHANGED <<lost, accepted>>
    /\ UNCHANGED <<buffer, stale, displaced, conVars, rows>>

\* INTEGER PRIMARY KEY without AUTOINCREMENT: one more than the largest id present.
NextRowId(B, i) == /\ \A r \in B : r.id < i
                   /\ i = 1 \/ \E r \in B : r.id = i - 1

\* Mutant: an exception of the insert returns as if the row were there.
BufferLocallyForgets(x) ==
    /\ proc[x].pc = "buffer"
    /\ Returns(x, FALSE)
    /\ UNCHANGED <<buffer, stale, lost, displaced, log, conVars, rows>>

\* _buffer_locally: a failed insert is logged and the event is gone.
BufferLocally(x) ==
    /\ proc[x].pc = "buffer"
    /\ Returns(x, FALSE)
    /\ \/ /\ \E i \in 1 .. MaxBuffer :
                /\ NextRowId(buffer[Db[x]], i)
                /\ buffer' = [buffer EXCEPT ![Db[x]] = @ \cup {[id |-> i, ev |-> proc[x].ev]}]
          /\ UNCHANGED lost
       \/ lost' = lost \cup {proc[x].ev} /\ UNCHANGED buffer
    /\ UNCHANGED <<stale, displaced, log, conVars, rows>>

\* The process dies; the buffer file survives on its volume.
Crash(x) ==
    /\ proc[x].pc # "down"
    /\ proc' = [proc EXCEPT ![x] = [pc |-> "down", up |-> FALSE, ev |-> None,
                                    row |-> 0, todo |-> {}]]
    /\ UNCHANGED <<buffer, stale, log, lost, displaced, accepted, conVars, rows>>

(***************************************************************************)
(* The dead-letter page.                                                   *)
(***************************************************************************)
Relabelled(r, label) == [rows EXCEPT ![r].label = IF @ = "dead-letter" THEN label ELSE @]

\* Mutant: the row is relabelled before the message is published.
RetryRelabelsFirst(x) ==
    /\ proc[x].pc = "idle"
    /\ \E r \in 1 .. Len(rows) :
          /\ rows[r].label = "dead-letter"
          /\ rows' = Relabelled(r, "dlq-retry")
          /\ proc' = [proc EXCEPT ![x].pc = "buffer", ![x].ev = rows[r].ev, ![x].row = r]
    /\ UNCHANGED <<buffer, stale, log, lost, displaced, accepted, conVars>>

\* retry_dlq_message reads the row, publishes the original message ...
Retry(x) ==
    /\ x \in Portals
    /\ \E r \in 1 .. Len(rows) : /\ rows[r].label = "dead-letter"
                                 /\ StartPublish(x, rows[r].ev, r)

\* ... and relabels the row when publish() has returned.
Relabel(x) ==
    /\ proc[x].pc = "relabel"
    /\ rows' = Relabelled(proc[x].row, "dlq-retry")
    /\ proc' = [proc EXCEPT ![x].pc = "idle", ![x].row = 0]
    /\ UNCHANGED <<buffer, stale, log, lost, displaced, accepted, conVars>>

\* dismiss_dlq_message; dismiss_all_dlq.
Dismiss ==
    /\ \/ \E r \in 1 .. Len(rows) : /\ rows[r].label = "dead-letter"
                                    /\ rows' = Relabelled(r, "dlq-dismissed")
       \/ rows' = [r \in 1 .. Len(rows) |->
                      [rows[r] EXCEPT !.label = IF @ = "dead-letter"
                                                  THEN "dlq-dismissed" ELSE @]]
    /\ UNCHANGED <<pubVars, log, conVars>>

(***************************************************************************)
(* EventConsumer.                                                          *)
(***************************************************************************)
\* Where the broker starts the group: at its committed offset, else at the end
\* (auto_offset_reset = latest), which passes over everything not yet handled.
Seek == [p \in Partitions |-> IF committed[p] = 0 THEN Len(log[p]) + 1 ELSE committed[p]]
PassedOver == [m \in Records |->
                  IF /\ committed[m[1]] = 0
                     /\ m[2] <= Len(log[m[1]])
                     /\ fate[m] \in {"new", "failed"}
                  THEN "skipped" ELSE fate[m]]

\* EventConsumer.__init__ and the start of consume().
StartConsumer ==
    /\ ~consumer.on
    /\ consumer' = [NoConsumer EXCEPT !.on = TRUE, !.pos = Seek]
    /\ fate' = PassedOver
    /\ UNCHANGED <<pubVars, log, committed, attempts, rows>>

\* The group rejoins: positions go back to the committed offsets, while
\* _blocked_offset and _retry_counts stay.
Rebalance ==
    /\ consumer.on
    /\ consumer' = [consumer EXCEPT !.pos = Seek]
    /\ fate' = PassedOver
    /\ UNCHANGED <<pubVars, log, committed, attempts, rows>>

\* Five quiet seconds end the iterator (consumer_timeout_ms), or the process dies.
StopConsumer ==
    /\ consumer.on
    /\ consumer' = NoConsumer
    /\ UNCHANGED <<pubVars, log, committed, fate, attempts, rows>>

\* Mutant: no look at _blocked_offset.
CommitAlways(p, o, c) == /\ consumer' = [c EXCEPT !.blocked[p] = 0]
                         /\ committed' = c.pos

\* _commit_resolved: hold the commit behind an earlier open failure of the same
\* partition, else commit() the positions of all partitions.
CommitResolved(p, o, c) ==
    IF c.blocked[p] \notin {0, o}
    THEN consumer' = c /\ UNCHANGED committed
    ELSE /\ consumer' = [c EXCEPT !.blocked[p] = 0]
         /\ committed' = c.pos

Tried(m) == attempts' = [attempts EXCEPT ![m] = IF @ < MaxRetries THEN @ + 1 ELSE @]
Advanced(p, o, n) == [consumer EXCEPT !.pos[p] = o + 1, !.count[o] = n]
HasRecord(p) == consumer.on /\ consumer.pos[p] <= Len(log[p])

HandleOk(p) ==
    /\ HasRecord(p)
    /\ LET o == consumer.pos[p] IN
       /\ CommitResolved(p, o, Advanced(p, o, 0))
       /\ fate' = [fate EXCEPT ![<<p, o>>] = "done"]
    /\ UNCHANGED <<pubVars, log, attempts, rows>>

\* commit() itself raises: the except branch counts a failure of the record.
CommitRaises(p) ==
    /\ HasRecord(p)
    /\ LET o == consumer.pos[p] IN
       /\ consumer.blocked[p] \in {0, o}
       /\ consumer' = [Advanced(p, o, 1) EXCEPT !.blocked[p] = o]
       /\ fate' = [fate EXCEPT ![<<p, o>>] = "done"]
       /\ Tried(<<p, o>>)
    /\ UNCHANGED <<pubVars, log, committed, rows>>

HandleFails(p) ==
    /\ HasRecord(p)
    /\ LET o == consumer.pos[p]
           n == consumer.count[o] + 1 IN
       /\ n < MaxRetries
       /\ consumer' = [Advanced(p, o, n) EXCEPT !.blocked[p] = IF @ = 0 THEN o ELSE @]
       /\ fate' = [fate EXCEPT ![<<p, o>>] = "failed"]
       /\ Tried(<<p, o>>)
    /\ UNCHANGED <<pubVars, log, committed, rows>>

\* Mutant: one delivery too few.
DeadLetterEarly(p) ==
    /\ HasRecord(p)
    /\ LET o == consumer.pos[p] IN
       /\ consumer.count[o] + 2 >= MaxRetries
       /\ CommitResolved(p, o, Advanced(p, o, 0))
       /\ fate' = [fate EXCEPT ![<<p, o>>] = "dead"]
       /\ Tried(<<p, o>>)
       /\ Len(rows) < MaxDead
       /\ rows' = Append(rows, [ev |-> log[p][o], at |-> <<p, o>>, label |-> "dead-letter"])
    /\ UNCHANGED <<pubVars, log>>

\* The last allowed failure: _dead_letter, whose row may fail to be written.
DeadLetter(p) ==
    /\ HasRecord(p)
    /\ LET o == consumer.pos[p] IN
       /\ consumer.count[o] + 1 >= MaxRetries
       /\ CommitResolved(p, o, Advanced(p, o, 0))
       /\ fate' = [fate EXCEPT ![<<p, o>>] = "dead"]
       /\ Tried(<<p, o>>)
       /\ \/ /\ Len(rows) < MaxDead
             /\ rows' = Append(rows, [ev |-> log[p][o], at |-> <<p, o>>,
                                      label |-> "dead-letter"])
          \/ UNCHANGED rows
    /\ UNCHANGED <<pubVars, log>>

ProcStep(x) == \/ StartProcess(x) \/ Publish(x) \/ Connect(x)
               \/ DrainSend(x) \/ DrainDelete(x) \/ DrainEnd(x)
               \/ Send(x) \/ BufferLocally(x) \/ Crash(x)
               \/ Retry(x) \/ Relabel(x)

ConsumerStep == \/ StartConsumer \/ Rebalance \/ StopConsumer
                \/ \E p \in Partitions : \/ HandleOk(p) \/ CommitRaises(p)
                                         \/ HandleFails(p) \/ DeadLetter(p)

Next == (\E x \in Procs : ProcStep(x)) \/ ConsumerStep \/ Dismiss

Spec == Init /\ [][Next]_vars

-----------------------------------------------------------------------------
(***************************************************************************)
(* An event whose publish() returned is in Kafka or in a buffer file, unless *)
(* an insert failed, the broker refused it, or a drain that had read another *)
(* row under the same id deleted it: no crash, no timeout and no             *)
(* half-finished drain makes it vanish.                                      *)
(***************************************************************************)
NoSilentLoss == accepted \subseteq Delivered \cup Buffered \cup lost \cup displaced

(***************************************************************************)
(* "local, durable disk queue" (_resolve_buffer_db, events.py:71): nothing   *)
(* that was buffered is gone but by a fault.  Two processes that share       *)
(* /data/event-buffer.db break it, see displaced.                            *)
(***************************************************************************)
BufferIsDurable == accepted \subseteq Delivered \cup Buffered \cup lost

(***************************************************************************)
(* consume() commits an offset only past records that are resolved: handled, *)
(* dead-lettered, or passed over by a group that had no offset yet.  Its      *)
(* docstring: "Offsets are committed only after successful handler execution *)
(* or after exhausting retries".                                             *)
(***************************************************************************)
Resolved == {"done", "dead", "skipped"}
CommitsOnlyResolved ==
    \A p \in Partitions : \A o \in Offsets :
        o < committed[p] => fate[<<p, o>>] \in Resolved

(***************************************************************************)
(* What _commit_resolved does ensure, whatever the number of partitions: a  *)
(* commit passes over no record that was never delivered, and a partition's *)
(* own records are committed only when all of them up to there are          *)
(* resolved; a failed record is passed over only by a commit for a record   *)
(* of another partition (this one's position stands still).                 *)
(***************************************************************************)
PassedBy(p, o) == /\ committed[p] <= o /\ o < committed'[p]
                  /\ fate'[<<p, o>>] \notin Resolved
OwnPartitionHolds ==
    [][\A p \in Partitions : \A o \in Offsets :
          PassedBy(p, o) => /\ consumer'.pos[p] = consumer.pos[p]
                            /\ fate[<<p, o>>] = "failed"]_vars

(***************************************************************************)
(* A record reaches the dead-letter page only after max_retries deliveries  *)
(* of that record ended without a commit, or after a failure at the same    *)
(* offset of another partition (_retry_counts is keyed by topic and offset), *)
(* across restarts and rebalances of the consumer.                          *)
(***************************************************************************)
FailedElsewhere(m) == \E q \in Partitions \ {m[1]} : attempts[<<q, m[2]>>] > 0
DeadAfterRetries ==
    \A r \in 1 .. Len(rows) : \/ attempts[rows[r].at] >= MaxRetries
                              \/ FailedElsewhere(rows[r].at)

(***************************************************************************)
(* A row relabelled dlq-retry has been published again: its event is a      *)
(* second time in the log, waits in a buffer, was lost to a fault, or its   *)
(* row was displaced.  A crash inside retry_dlq_message never hides the     *)
(* message from the page.                                                   *)
(***************************************************************************)
RetryRepublishes ==
    \A r \in 1 .. Len(rows) :
        rows[r].label = "dlq-retry" =>
            \/ rows[r].ev \in Buffered \cup lost \cup displaced
            \/ \E p \in Partitions : \E o \in 1 .. Len(log[p]) :
                  log[p][o] = rows[r].ev /\ <<p, o>> # rows[r].at

(***************************************************************************)
(* The publisher keeps the promise of AtLeastOnce to every process; an event *)
(* is displaced only where two processes resolve one buffer file.           *)
(***************************************************************************)
Queue == INSTANCE AtLeastOnce WITH Clients <- Procs,
                                   Sharing <- \E x, y \in Procs : x # y /\ Db[x] = Db[y],
                                   hand <- [x \in Procs |-> proc[x].ev],
                                   kept <- Buffered,
                                   delivered <- Delivered,
                                   promised <- accepted,
                                   given_up <- lost \cup displaced
PublishesAtLeastOnce == Queue!ASpec

==============================================================================
