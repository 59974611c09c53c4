---------------------------- MODULE PullRequests ----------------------------
(***************************************************************************)
(* What becomes of the pull requests AgentIT opened.  GitHub is the truth; *)
(* no page stores a state of its own.  Every load of the Ledger, of the    *)
(* nav badge or of an assessment's page polls the pull requests (the       *)
(* fleet-wide pages through a cache), and records the outcome of each one  *)
(* it finds merged or closed in pr_outcomes, once per pull request.  A     *)
(* rejection also becomes a row of agent_feedback and one of               *)
(* skill_effectiveness per skill: the signal that makes the loop back off. *)
(* The portal's own Merge and Close buttons act on GitHub directly.        *)
(*                                                                         *)
(* Of a pull request, its state is told apart; the reason a person gives   *)
(* and the commits they push are evidence kept in the row, and whether     *)
(* GitHub could be asked for it is a choice of the model.                  *)
(***************************************************************************)
EXTENDS Naturals, FiniteSets

CONSTANTS
  PRs,
  FleetLoads,   \* page loads of the fleet: collect_fleet_pr_records
  AppLoads,     \* page loads of one application: get_app_pr_history
  Clicks,       \* requests of the Close button
  MaxReopens    \* bound on closed pull requests opened again

VARIABLES
  gh,        \* the pull requests on GitHub
  row,       \* pr_outcomes
  feedback,  \* rejections in agent_feedback and skill_effectiveness, per pull
             \* request and per name of the application they were filed under
  cache,     \* _fleet_pr_status_cache
  load, click,
  missed,    \* pull requests whose rejection was lost after its row was written
  reopens

vars == <<gh, row, feedback, cache, load, click, missed, reopens>>

Loads == FleetLoads \cup AppLoads
States == {"open", "merged", "closed", "unknown"}
Unseen == "unseen"
NoRow == [outcome |-> "none"]
Names == {"app", "blank"}
Idle == [step |-> "idle"]
Blank == [p \in PRs |-> Unseen]

Init ==
  /\ gh = [p \in PRs |-> "open"]
  /\ row = [p \in PRs |-> NoRow]
  /\ feedback = [p \in PRs |-> [n \in Names |-> 0]]
  /\ cache = [fresh |-> FALSE, data |-> Blank, gen |-> 0]
  /\ load = [l \in Loads |-> Idle]
  /\ click = [c \in Clicks |-> Idle]
  /\ missed = {}
  /\ reopens = 0

-----------------------------------------------------------------------------
(* GitHub.                                                                 *)

\* People merge, close with or without a comment, and open again.
Decide(p) ==
  /\ gh[p] = "open"
  /\ \E s \in {"merged", "closed"} : gh' = [gh EXCEPT ![p] = s]
  /\ UNCHANGED <<row, feedback, cache, load, click, missed, reopens>>

Reopen(p) ==
  /\ gh[p] = "closed" /\ reopens < MaxReopens
  /\ gh' = [gh EXCEPT ![p] = "open"]
  /\ reopens' = reopens + 1
  /\ UNCHANGED <<row, feedback, cache, load, click, missed>>

\* The Merge button: a squash of whatever the branch holds.
MergeRoute(p) ==
  /\ gh[p] = "open"
  /\ gh' = [gh EXCEPT ![p] = "merged"]
  /\ UNCHANGED <<row, feedback, cache, load, click, missed, reopens>>

-----------------------------------------------------------------------------
(* A page load: poll, then record.                                         *)

\* The fleet's pages start from the cache, or from a new one when it is older
\* than its time to live; a load keeps the dictionary it started with.
BeginFleet(l) ==
  /\ l \in FleetLoads /\ load[l] = Idle
  /\ cache' = IF cache.fresh THEN cache
              ELSE [fresh |-> TRUE, data |-> Blank, gen |-> 1 - cache.gen]
  /\ load' = [load EXCEPT ![l] = [step |-> "poll", seen |-> cache'.data, gen |-> cache'.gen]]
  /\ UNCHANGED <<gh, row, feedback, click, missed, reopens>>

BeginApp(l) ==
  /\ l \in AppLoads /\ load[l] = Idle
  /\ load' = [load EXCEPT ![l] = [step |-> "poll", seen |-> Blank, gen |-> 2]]
  /\ UNCHANGED <<gh, row, feedback, cache, click, missed, reopens>>

\* Polls are shorter than two lifetimes of the cache.
Expire ==
  /\ cache.fresh
  /\ \A l \in FleetLoads : load[l].step = "poll" => load[l].gen = cache.gen
  /\ cache' = [cache EXCEPT !.fresh = FALSE]
  /\ UNCHANGED <<gh, row, feedback, load, click, missed, reopens>>

\* get_pr_status, in threads of their own: any failure is the state "unknown".
Poll(l, p) ==
  /\ load[l].step = "poll" /\ load[l].seen[p] = Unseen
  /\ \E s \in {gh[p], "unknown"} : load' = [load EXCEPT ![l].seen[p] = s]
  /\ UNCHANGED <<gh, row, feedback, cache, click, missed, reopens>>

\* The statuses go into the load's dictionary, which is the cache unless that
\* was replaced since; sync_pr_outcomes asks which of the decided ones have a
\* row already.
Resolve(l) ==
  /\ load[l].step = "poll" /\ \A p \in PRs : load[l].seen[p] # Unseen
  /\ cache' = IF load[l].gen = cache.gen THEN [cache EXCEPT !.data = load[l].seen] ELSE cache
  /\ load' = [load EXCEPT ![l] =
       [step |-> "sync", seen |-> @.seen,
        todo |-> {p \in PRs : @.seen[p] \in {"merged", "closed"} /\ row[p] = NoRow}]]
  /\ UNCHANGED <<gh, row, feedback, click, missed, reopens>>

\* _compute_outcome: a merged one counts as edited when GitHub tells of commits
\* after AgentIT's own; what cannot be read counts as no edit, and as no reason.
Compute(l, p) ==
  /\ load[l].step = "sync" /\ p \in load[l].todo
  /\ \E outcome \in IF load[l].seen[p] = "closed" THEN {"rejected"} ELSE {"merged", "edited"} :
       load' = [load EXCEPT ![l] = [step |-> "record", seen |-> @.seen, todo |-> @.todo \ {p},
                                    pr |-> p, row |-> [outcome |-> outcome, by |-> "sync"]]]
  /\ UNCHANGED <<gh, row, feedback, cache, click, missed, reopens>>

\* Mutant of Record: what another load has recorded is overwritten.
Record_Upserts(l) ==
  /\ load[l].step = "record"
  /\ row' = [row EXCEPT ![load[l].pr] = load[l].row]
  /\ load' = [load EXCEPT ![l].step = IF load[l].row.outcome = "rejected" THEN "effects" ELSE "sync"]
  /\ UNCHANGED <<gh, feedback, cache, click, missed, reopens>>

\* record_pr_outcome: ON CONFLICT DO NOTHING; only the load that wrote the row
\* goes on to the side effects of a rejection.
Record(l) ==
  /\ load[l].step = "record"
  /\ LET p == load[l].pr IN
       /\ row' = [row EXCEPT ![p] = IF @ = NoRow THEN load[l].row ELSE @]
       /\ load' = [load EXCEPT ![l].step =
            IF row[p] = NoRow /\ load[l].row.outcome = "rejected" THEN "effects" ELSE "sync"]
  /\ UNCHANGED <<gh, feedback, cache, click, missed, reopens>>

\* The records of an application's page carry no app_name; those of the fleet
\* do.
NameOf(l) == IF l \in FleetLoads THEN "app" ELSE "blank"

\* _record_rejection_side_effects: best effort.
Effects(l) ==
  /\ load[l].step = "effects"
  /\ LET p == load[l].pr IN
       \/ /\ feedback' = [feedback EXCEPT ![p][NameOf(l)] = @ + 1]
          /\ UNCHANGED missed
       \/ /\ missed' = missed \cup {p}
          /\ UNCHANGED feedback
  /\ load' = [load EXCEPT ![l].step = "sync"]
  /\ UNCHANGED <<gh, row, cache, click, reopens>>

EndLoad(l) ==
  /\ load[l].step = "sync" /\ load[l].todo = {}
  /\ load' = [load EXCEPT ![l] = Idle]
  /\ UNCHANGED <<gh, row, feedback, cache, click, missed, reopens>>

-----------------------------------------------------------------------------
(* The Close button.                                                       *)

\* close_pr: the reason is posted as a comment, then the state is changed.
ClickClose(c, p) ==
  /\ click[c] = Idle
  /\ click' = [click EXCEPT ![c] = [step |-> "close", pr |-> p]]
  /\ UNCHANGED <<gh, row, feedback, cache, load, missed, reopens>>

\* GitHub leaves one that is closed or merged by now as it is, and reports no error.
ClosePr(c) ==
  /\ click[c].step = "close"
  /\ gh' = [gh EXCEPT ![click[c].pr] = IF @ = "open" THEN "closed" ELSE @]
  /\ click' = [click EXCEPT ![c].step = "record"]
  /\ UNCHANGED <<row, feedback, cache, load, missed, reopens>>

CloseFails(c) ==
  /\ click[c].step = "close"
  /\ click' = [click EXCEPT ![c] = Idle]
  /\ UNCHANGED <<gh, row, feedback, cache, load, missed, reopens>>

\* The row, written at once with the reason the person typed, if the form names
\* the application and the insert works.
RecordClose(c) ==
  /\ click[c].step = "record"
  /\ LET p == click[c].pr
         new == [outcome |-> "rejected", by |-> "route"]
     IN row' \in {row, [row EXCEPT ![p] = IF @ = NoRow THEN new ELSE @]}
  /\ click' = [click EXCEPT ![c] = Idle]
  /\ UNCHANGED <<gh, feedback, cache, load, missed, reopens>>

\* The portal stops: requests and cache are gone.
Crash ==
  /\ load' = [l \in Loads |-> Idle]
  /\ click' = [c \in Clicks |-> Idle]
  /\ cache' = [fresh |-> FALSE, data |-> Blank, gen |-> 0]
  /\ missed' = missed \cup {load[l].pr : l \in {k \in Loads : load[k].step = "effects"}}
  /\ UNCHANGED <<gh, row, feedback, reopens>>

Next ==
  \/ \E p \in PRs : Decide(p) \/ Reopen(p) \/ MergeRoute(p)
  \/ \E l \in Loads : \/ BeginFleet(l) \/ BeginApp(l) \/ Resolve(l)
                      \/ Record(l) \/ Effects(l) \/ EndLoad(l)
                      \/ \E p \in PRs : Poll(l, p) \/ Compute(l, p)
  \/ Expire
  \/ \E c \in Clicks : \/ ClosePr(c) \/ CloseFails(c) \/ RecordClose(c)
                       \/ \E p \in PRs : ClickClose(c, p)
  \/ Crash

Spec == Init /\ [][Next]_vars

-----------------------------------------------------------------------------
(* Properties.                                                             *)

TypeOK ==
  /\ gh \in [PRs -> States \ {"unknown"}]
  /\ \A p \in PRs : row[p].outcome \in {"none", "rejected", "merged", "edited"}
  /\ cache.data \in [PRs -> States \cup {Unseen}]
  /\ missed \subseteq PRs

Filed(p) == feedback[p]["app"] + feedback[p]["blank"]
InFlight(p) == \E l \in Loads : load[l].step = "effects" /\ load[l].pr = p

\* However many pages, buttons, reopenings and restarts find the same pull
\* request closed, its rejection is filed once at most; and a rejection that a
\* page recorded has been filed, or is being filed, unless the portal stopped
\* or the database failed in between.
RejectionFiledOnce ==
  \A p \in PRs :
    /\ Filed(p) <= 1
    /\ row[p].outcome = "rejected" /\ row[p].by = "sync" /\ p \notin missed
         => Filed(p) = 1 \/ InFlight(p)
    /\ Filed(p) = 1 => row[p].outcome = "rejected"

\* _record_rejection_side_effects: "get_rejection_count() ... must keep seeing
\* real rejection signal", which it looks up by the name of the application.
RejectionIsSeen ==
  \A p \in PRs : row[p].outcome = "rejected" /\ p \notin missed /\ ~ InFlight(p)
                   => feedback[p]["app"] = 1
=============================================================================
