--------------------------- MODULE ClusterGitOps ---------------------------
(***************************************************************************)
(* The fleet's ApplicationSet and the drift detector that keeps it right.  *)
(* Registering an application and delivering it call ensure_applicationset *)
(* in the portal, the detector calls it in its own process, and people     *)
(* patch the object by hand; each call reads the object and then patches   *)
(* the whole spec, with no resourceVersion.  Every call of the cluster's   *)
(* API goes through the circuit breaker of its process.  The same tick     *)
(* re-syncs Argo CD applications, outside the breaker, and deprecates the  *)
(* skills of an API that is gone.                                          *)
(*                                                                         *)
(* One application, one API kind, one skill that outputs it.  Argo CD, the *)
(* API server and the people with kubectl are external.                    *)
(***************************************************************************)
EXTENDS Naturals

CONSTANTS
  Repos, Default,  \* GitOps repositories, and the one of the fleet
  Untrusted,       \* those on a host that is not trusted
  Bogus,           \* a URL that someone patched in
  None,
  Calls,           \* calls of the portal
  Threshold,       \* failures that open a breaker
  MaxByHand        \* bound on changes by hand

VARIABLES
  appset,  \* the object, or None
  call,    \* the portal's calls of ensure_applicationset
  tick,    \* the detector: where its tick is
  brk,     \* the breaker of each process
  synced,  \* Argo CD has the application in sync
  api,     \* the cluster serves the kind
  snapshot,\* whether the detector's snapshot lists it, or None
  skill,   \* the status of the skill's file in the detector's pod
  byHand

vars == <<appset, call, tick, brk, synced, api, snapshot, skill, byHand>>
cluster == <<synced, api, snapshot, skill, byHand>>

Urls == Repos \cup {Bogus}
Shape == {"none", "plain", "full"}  \* of an entry: absent, without values.repoURL, whole
AppSet == [gens : [Urls -> Shape], tmpl : BOOLEAN]
Procs == {"portal", "watcher"}
Closed == [fails |-> 0, hot |-> FALSE]
Idle == [step |-> "idle"]
Asleep == [step |-> "sleep"]

Init ==
  /\ appset = None
  /\ call = [c \in Calls |-> Idle] /\ tick = Asleep
  /\ brk = [p \in Procs |-> Closed]
  /\ synced = TRUE /\ api = TRUE /\ snapshot = None /\ skill = "active" /\ byHand = 0

-----------------------------------------------------------------------------
(* kube_breaker, around every call.                                        *)

\* is_open: hot stands for reset_after since the last failure.
Open(p) == brk[p].fails = Threshold /\ brk[p].hot

Succeeds(p) == ~ Open(p) /\ brk' = [brk EXCEPT ![p].fails = 0]

Fails(p) ==
  \/ Open(p) /\ UNCHANGED brk
  \/ /\ ~ Open(p)
     /\ brk' = [brk EXCEPT ![p] = [fails |-> IF @.fails = Threshold THEN @.fails ELSE @.fails + 1,
                                   hot |-> TRUE]]

Cool(p) ==
  /\ brk[p].hot /\ brk' = [brk EXCEPT ![p].hot = FALSE]
  /\ UNCHANGED <<appset, call, tick, cluster>>

\* The rest of the portal calls the API as well; the detector's process has
\* nothing else to do.
Traffic ==
  /\ Succeeds("portal") \/ Fails("portal")
  /\ UNCHANGED <<appset, call, tick, cluster>>

-----------------------------------------------------------------------------
(* ensure_applicationset.                                                  *)

\* The spec it writes from the object it read: the entry appended, or written
\* over in place, every other entry as read, and the whole template.
Ensured(read, url) ==
  [gens |-> [u \in Urls |-> IF u = url THEN "full" ELSE IF read = None THEN "none" ELSE read.gens[u]],
   tmpl |-> TRUE]

Ensure(c, url) ==
  /\ call[c] = Idle
  /\ call' = [call EXCEPT ![c] = IF url \in Untrusted THEN [step |-> "done"]
                                 ELSE [step |-> "get", url |-> url]]
  /\ UNCHANGED <<appset, tick, brk, cluster>>

Get(c) ==
  /\ call[c].step = "get" /\ Succeeds("portal")
  /\ call' = [call EXCEPT ![c] = [step |-> "write", url |-> @.url, read |-> appset]]
  /\ UNCHANGED <<appset, tick, cluster>>

\* create answers 409 when the object has appeared meanwhile, and that counts
\* as a failure; patch writes over whatever is there.
Write(c) ==
  /\ call[c].step = "write"
  /\ \/ /\ call[c].read = None => appset = None
        /\ appset' = Ensured(call[c].read, call[c].url) /\ Succeeds("portal")
     \/ call[c].read = None /\ appset # None /\ Fails("portal") /\ UNCHANGED appset
  /\ call' = [call EXCEPT ![c] = [step |-> "done"]]
  /\ UNCHANGED <<tick, cluster>>

CallFails(c) ==
  /\ call[c].step \in {"get", "write"} /\ Fails("portal")
  /\ call' = [call EXCEPT ![c] = [step |-> "done"]]
  /\ UNCHANGED <<appset, tick, cluster>>

-----------------------------------------------------------------------------
(* People with kubectl.                                                    *)

Overwrite ==
  /\ appset # None /\ byHand < MaxByHand /\ byHand' = byHand + 1
  /\ \/ \E u \in Repos : /\ appset.gens[u] # "none"
                         /\ appset' = [appset EXCEPT !.gens = [@ EXCEPT ![u] = "none", ![Bogus] = "plain"]]
     \/ \E u \in Repos : /\ appset.gens[u] = "full"
                         /\ appset' = [appset EXCEPT !.gens[u] = "plain"]
     \/ appset.tmpl /\ appset' = [appset EXCEPT !.tmpl = FALSE]
  /\ UNCHANGED <<call, tick, brk, synced, api, snapshot, skill>>

Diverge ==
  /\ synced /\ byHand < MaxByHand /\ byHand' = byHand + 1
  /\ synced' = FALSE
  /\ UNCHANGED <<appset, call, tick, brk, api, snapshot, skill>>

RemoveApi ==
  /\ api /\ byHand < MaxByHand /\ byHand' = byHand + 1
  /\ api' = FALSE
  /\ UNCHANGED <<appset, call, tick, brk, synced, snapshot, skill>>

-----------------------------------------------------------------------------
(* A tick of the detector: detect_once.                                    *)

\* Mutant of Drifted: only the presence of the entry is looked at.
Drifted_EntryOnly(spec) == spec.gens[Default] = "none"

\* The default entry is missing or the template is not the expected one.
Drifted(spec) == spec.gens[Default] = "none" \/ ~ spec.tmpl

\* The interval of 600 s outlasts the breaker's reset time of 60 s.
WakeUp ==
  /\ tick = Asleep /\ tick' = Idle
  /\ brk' = [brk EXCEPT !["watcher"].hot = FALSE]
  /\ UNCHANGED <<appset, call, cluster>>

FetchAppSet ==
  /\ tick = Idle /\ Succeeds("watcher")
  /\ tick' = IF appset = None \/ ~ Drifted(appset) THEN [step |-> "apps"] ELSE [step |-> "get"]
  /\ UNCHANGED <<appset, call, cluster>>

HealGet ==
  /\ tick.step = "get" /\ Succeeds("watcher")
  /\ tick' = [step |-> "write", read |-> appset]
  /\ UNCHANGED <<appset, call, cluster>>

HealWrite ==
  /\ tick.step = "write" /\ Succeeds("watcher")
  /\ appset' = Ensured(tick.read, Default)
  /\ tick' = [step |-> "apps"]
  /\ UNCHANGED <<call, cluster>>

\* A read or a patch that fails is reported, and the tick goes on.
HealFails ==
  /\ tick.step \in {"idle", "get", "write"} /\ Fails("watcher")
  /\ tick' = [step |-> "apps"]
  /\ UNCHANGED <<appset, call, cluster>>

\* The list of applications; without one the tick ends.
ListApps ==
  /\ tick.step = "apps" /\ Succeeds("watcher")
  /\ tick' = IF synced THEN [step |-> "apis"] ELSE [step |-> "sync"]
  /\ UNCHANGED <<appset, call, cluster>>

ListFails ==
  /\ tick.step = "apps" /\ Fails("watcher")
  /\ tick' = Asleep
  /\ UNCHANGED <<appset, call, cluster>>

\* _maybe_auto_sync: the patch starts a sync of what Git has.
AutoSync ==
  /\ tick.step = "sync" /\ synced' = TRUE
  /\ tick' = [step |-> "apis"]
  /\ UNCHANGED <<appset, call, brk, api, snapshot, skill, byHand>>

SyncFails ==
  /\ tick.step = "sync" /\ tick' = [step |-> "apis"]
  /\ UNCHANGED <<appset, call, brk, cluster>>

\* discover_platform and detect_drift: an API that cannot be asked for is not
\* among the kinds, and the snapshot is written before anything is done.
Discover ==
  /\ tick.step = "apis"
  /\ \E seen \in {api, FALSE} :
       /\ IF seen THEN Succeeds("watcher") ELSE Succeeds("watcher") \/ Fails("watcher")
       /\ snapshot' = seen
       /\ tick' = IF snapshot = TRUE /\ ~ seen THEN [step |-> "deprecate"] ELSE Asleep
  /\ UNCHANGED <<appset, call, synced, api, skill, byHand>>

Deprecate ==
  /\ tick.step = "deprecate" /\ skill' = "deprecated"
  /\ tick' = Asleep
  /\ UNCHANGED <<appset, call, brk, synced, api, snapshot, byHand>>

\* A new pod: breaker, snapshot and skill files are those of the image.
Restart ==
  /\ tick' = Idle /\ snapshot' = None /\ skill' = "active"
  /\ brk' = [brk EXCEPT !["watcher"] = Closed]
  /\ UNCHANGED <<appset, call, synced, api, byHand>>

Tick ==
  \/ WakeUp \/ FetchAppSet \/ HealGet \/ HealWrite \/ HealFails \/ ListApps \/ ListFails
  \/ AutoSync \/ SyncFails \/ Discover \/ Deprecate

Next ==
  \/ \E p \in Procs : Cool(p)
  \/ Traffic
  \/ \E c \in Calls, url \in Repos : Ensure(c, url)
  \/ \E c \in Calls : Get(c) \/ Write(c) \/ CallFails(c)
  \/ Overwrite \/ Diverge \/ RemoveApi
  \/ Tick \/ Restart

\* The detector's loop runs for ever, and a call of the API that can be made
\* again and again succeeds in the end.
Fairness ==
  /\ WF_vars(Tick)
  /\ SF_vars(FetchAppSet) /\ SF_vars(HealGet) /\ SF_vars(HealWrite)
  /\ SF_vars(ListApps) /\ SF_vars(AutoSync)

Spec == Init /\ [][Next]_vars /\ Fairness

-----------------------------------------------------------------------------
(* Properties.                                                             *)

TypeOK ==
  /\ appset \in AppSet \cup {None}
  /\ brk \in [Procs -> [fails : 0..Threshold, hot : BOOLEAN]]
  /\ synced \in BOOLEAN /\ api \in BOOLEAN /\ snapshot \in BOOLEAN \cup {None}
  /\ skill \in {"active", "deprecated"} /\ byHand \in 0..MaxByHand

\* Once nobody changes the cluster by hand, the detector leaves the fleet with
\* its entry, its template and a synced application, through failed calls, an
\* open breaker, restarts and the portal's own patches.
Heals == /\ <>[](appset # None => appset.tmpl /\ appset.gens[Default] # "none")
         /\ <>[]synced

\* The detector's docstring: healing "can never remove or replace any OTHER
\* (custom-repo) generator entry already present".
HealKeepsOthers ==
  [][HealWrite /\ appset # None =>
       \A u \in Repos : appset.gens[u] # "none" => appset'.gens[u] # "none"]_vars

\* The detector's comment: it deprecates "skills that generate removed API kinds".
OnlyRemovedDeprecated == skill = "deprecated" => ~ api
=============================================================================
