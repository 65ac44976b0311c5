------------------------------ MODULE CreditsWindow ------------------------------
(***************************************************************************)
(* The credits checker of MCPTap against the request log it sums up        *)
(* (mcptap/credits_checker.py, mcptap/log_store.py, log_retention.py).     *)
(*                                                                         *)
(* A provider bills every post.  A check asks it for its total usage,      *)
(* compares the growth since the last snapshot with the cost of the rows   *)
(* logged since that snapshot, and stores a snapshot.  Requests start, are *)
(* billed and are logged while a check is suspended, and a change of the   *)
(* provider cancels the check.  Every post is billed 1; its row has that    *)
(* cost, or 0 where the answer does not tell it.                            *)
(***************************************************************************)
EXTENDS Naturals, FiniteSets

CONSTANTS
  Requests,     (* handlers of a proxied request                            *)
  Providers,
  Metered,      (* providers with a credits URL                             *)
  RowProvider,  (* the provider column of a row, by the selected provider   *)
  MaxPosts,     (* bound: posts of a request                                *)
  MaxTasks,     (* bound: loops started in the life of the database         *)
  MaxChecks     (* bound: checks begun                                      *)

ASSUME MeteredAssumption == Metered \subseteq Providers
ASSUME RowAssumption == DOMAIN RowProvider = Providers
ASSUME BoundsAssumption == MaxPosts \in Nat /\ MaxTasks \in Nat \ {0} /\ MaxChecks \in Nat
ASSUME RequestsAssumption == IsFiniteSet(Requests)

Tasks == 1..MaxTasks

VARIABLES
  clock,     (* time.time(), as a count of the moments that are compared    *)
  provider,  (* settings.upstream_provider                                  *)
  usage,     (* what each provider has billed                               *)
  req,       (* the locals of a handler                                     *)
  rows,      (* table request_logs                                          *)
  snaps,     (* table credit_snapshots, without the rows of failed checks   *)
  active,    (* _active_provider                                            *)
  task,      (* _task, 0 for None                                           *)
  loop,      (* the state of each loop that was ever started                *)
  checks,    (* checks begun                                                *)
  service,   (* the application: running, stopping the checker, past it     *)
  lost       (* history: providers whose costs miss a post, or have one too *)
             (* many, since their last snapshot                             *)

log == <<usage, req, rows>>
checker == <<active, task, loop, checks>>
vars == <<clock, provider, log, snaps, checker, service, lost>>

NoRequest == [phase |-> "idle", start |-> 0, from |-> CHOOSE p \in Providers : TRUE,
              by |-> CHOOSE p \in Providers : TRUE, posts |-> 0]
Finished == [NoRequest EXCEPT !.phase = "done"]
NoLoop == [phase |-> "none", provider |-> CHOOSE p \in Providers : TRUE, remote |-> 0,
           status |-> "ok", clean |-> TRUE, excused |-> FALSE]

Live == {"sleeping", "asking", "answered", "alerting", "reporting"}

TypeOK ==
  /\ clock \in Nat
  /\ provider \in Providers
  /\ usage \in [Providers -> Nat]
  /\ req \in [Requests -> [phase : {"idle", "open", "billed", "done"}, start : Nat,
                           from : Providers, by : Providers, posts : 0..MaxPosts]]
  /\ \A row \in rows : row.req \in Requests /\ row.at \in 1..clock /\ row.cost \in {0, 1}
  /\ \A s \in snaps : s.provider \in Metered /\ s.at \in 1..clock /\ s.usage \in Nat
  /\ active \in Providers
  /\ task \in 0..MaxTasks
  /\ \A t \in Tasks : loop[t].phase \in Live \cup {"none", "ended"}
  /\ lost \in SUBSET Providers

Init ==
  /\ clock = 0
  /\ provider \in Providers
  /\ usage = [p \in Providers |-> 0]
  /\ req = [r \in Requests |-> NoRequest]
  /\ rows = {}
  /\ snaps = {}
  /\ active = provider
  /\ task = IF provider \in Metered THEN 1 ELSE 0
  /\ loop = [t \in Tasks |-> [NoLoop EXCEPT !.phase = IF t = task THEN "sleeping" ELSE "none"]]
  /\ checks = 0
  /\ service = "running"
  /\ lost = {}

-----------------------------------------------------------------------------
(* Requests.  A row is logged when the answer is complete, with the time    *)
(* its handler started; the provider column is read at the start by the     *)
(* intercept loop and at the end by the direct path.                        *)

InFlight == {r \in Requests : req[r].phase \in {"open", "billed"}}

(* Loops between the provider's answer and the snapshot see the request     *)
(* that starts now on one side of the comparison only.                      *)
Start(r) ==
  /\ req[r].phase = "idle"
  /\ clock' = clock + 1
  /\ req' = [req EXCEPT ![r].phase = "open", ![r].start = clock', ![r].from = provider]
  /\ loop' = [t \in Tasks |-> [loop[t] EXCEPT !.clean = @ /\ loop[t].phase \notin {"answered", "alerting"}]]
  /\ UNCHANGED <<provider, usage, rows, snaps, active, task, checks, service, lost>>

(* The target is read from the settings when the request arrives, or again  *)
(* for each post of the loop.                                               *)
Bill(r) ==
  /\ req[r].phase = "open"
  /\ req[r].posts < MaxPosts
  /\ \E p \in {req[r].from, provider} :
       /\ req' = [req EXCEPT ![r].phase = "billed", ![r].by = p, ![r].posts = @ + 1]
       /\ usage' = [usage EXCEPT ![p] = @ + 1]
  /\ UNCHANGED <<clock, provider, rows, snaps, checker, service, lost>>

(* extract_usage_details finds no cost in the usage of a chat completion,   *)
(* which _chat_usage_to_responses reduces to tokens, nor in an answer that  *)
(* has none or cannot be parsed: the row is logged with 0.                  *)
Record(r) ==
  /\ req[r].phase = "billed"
  /\ \E q \in {req[r].from, provider}, next \in {"open", "done"}, cost \in {0, 1} :
       /\ rows' = rows \cup {[req |-> r, post |-> req[r].posts, at |-> req[r].start,
                              provider |-> RowProvider[q], cost |-> cost]}
       /\ req' = [req EXCEPT ![r] = IF next = "done" THEN Finished ELSE [@ EXCEPT !.phase = next]]
       /\ lost' = IF cost = 0 THEN lost \cup {req[r].by}
                    ELSE IF q = req[r].by THEN lost ELSE lost \cup {q, req[r].by}
  /\ UNCHANGED <<clock, provider, usage, snaps, checker, service>>

(* The connection breaks, or the post fails after it was billed: no row.    *)
Abandon(r) ==
  /\ r \in InFlight
  /\ req' = [req EXCEPT ![r] = Finished]
  /\ lost' = IF req[r].phase = "billed" THEN lost \cup {req[r].by} ELSE lost
  /\ UNCHANGED <<clock, provider, usage, rows, snaps, checker, service>>

-----------------------------------------------------------------------------
(* _check_once, between its awaits.                                         *)

Baselines(p) == {s \in snaps : s.provider = p}

(* get_last_credit_snapshot; only where there is one. *)
LastSnapshot(p) == CHOOSE s \in Baselines(p) : \A t \in Baselines(p) : t.at <= s.at

(* sum_cost_since: the rows of cost 1 are what the sum amounts to. *)
CostSince(p, since) ==
  Cardinality({row \in rows : row.provider = p /\ row.at >= since /\ row.cost = 1})

(* Slip: the provider is the one now selected. *)
AskSelected(t) ==
  /\ loop[t].phase = "sleeping"
  /\ checks < MaxChecks
  /\ checks' = checks + 1
  /\ loop' = [loop EXCEPT ![t].phase = "asking", ![t].provider = provider]
  /\ UNCHANGED <<clock, provider, log, snaps, active, task, service, lost>>

Ask(t) ==
  /\ loop[t].phase = "sleeping"
  /\ checks < MaxChecks
  /\ checks' = checks + 1
  /\ loop' = [loop EXCEPT ![t].phase = "asking", ![t].provider = active]
  /\ UNCHANGED <<clock, provider, log, snaps, active, task, service, lost>>

(* The provider takes its total; the answer is on its way. *)
Answer(t) ==
  /\ loop[t].phase = "asking"
  /\ loop' = [loop EXCEPT ![t].phase = "answered", ![t].remote = usage[loop[t].provider],
                          ![t].clean = (InFlight = {})]
  /\ UNCHANGED <<clock, provider, log, snaps, active, task, checks, service, lost>>

(* _store_snapshot: fetched_at is the time of storing, not of fetching. *)
Store(t, status, excused) ==
  /\ clock' = clock + 1
  /\ snaps' = snaps \cup {[provider |-> loop[t].provider, at |-> clock', usage |-> loop[t].remote,
                           status |-> status, clean |-> loop[t].clean, excused |-> excused]}
  /\ lost' = lost \ {loop[t].provider}
  /\ loop' = [loop EXCEPT ![t] = [NoLoop EXCEPT !.phase = "sleeping"]]

(* The comparison.  Excused: the difference has a cause the windows cannot  *)
(* account for: no baseline, a request in flight during this check or the   *)
(* one that made the baseline, a row that is missing, of another provider   *)
(* or without its cost.                                                     *)
Compare(t) ==
  LET p == loop[t].provider
      last == IF Baselines(p) = {} THEN [usage |-> 0, at |-> 0, clean |-> FALSE]
              ELSE LastSnapshot(p)
      status == IF loop[t].remote = last.usage + CostSince(p, last.at) THEN "ok" ELSE "mismatch"
      excused == ~loop[t].clean \/ ~last.clean \/ p \in lost
  IN /\ loop[t].phase = "answered"
     /\ \/ /\ status = "ok"
           /\ Store(t, status, excused)
        \/ /\ status = "mismatch"
           /\ loop' = [loop EXCEPT ![t].phase = "alerting", ![t].status = status,
                                   ![t].excused = excused]
           /\ UNCHANGED <<clock, snaps, lost>>
     /\ UNCHANGED <<provider, log, active, task, checks, service>>

(* The Telegram alert ended, or there is none to send; the mismatch is stored. *)
Alerted(t) ==
  /\ loop[t].phase = "alerting"
  /\ Store(t, loop[t].status, loop[t].excused)
  /\ UNCHANGED <<provider, log, active, task, checks, service>>

(* The fetch fails or times out: its snapshot is no baseline, the alert is awaited. *)
FetchFails(t) ==
  /\ loop[t].phase \in {"asking", "answered"}
  /\ loop' = [loop EXCEPT ![t] = [NoLoop EXCEPT !.phase = "reporting"]]
  /\ UNCHANGED <<clock, provider, log, snaps, active, task, checks, service, lost>>

Reported(t) ==
  /\ loop[t].phase = "reporting"
  /\ loop' = [loop EXCEPT ![t].phase = "sleeping"]
  /\ UNCHANGED <<clock, provider, log, snaps, active, task, checks, service, lost>>

-----------------------------------------------------------------------------
(* The life of the loops.                                                   *)

Started == {t \in Tasks : loop[t].phase # "none"}
NextTask == Cardinality(Started) + 1

(* reload_settings. *)
ReloadSettings ==
  /\ service # "stopped"
  /\ provider' \in Providers \ {provider}
  /\ UNCHANGED <<clock, log, snaps, checker, service, lost>>

(* Slip: the old loop is forgotten, not cancelled. *)
OnProviderChangedKeepsLoop ==
  /\ service # "stopped"
  /\ active # provider
  /\ active' = provider
  /\ provider \in Metered => NextTask \in Tasks
  /\ task' = IF provider \in Metered THEN NextTask ELSE 0
  /\ loop' = [t \in Tasks |->
                IF t = task' THEN [NoLoop EXCEPT !.phase = "sleeping"] ELSE loop[t]]
  /\ UNCHANGED <<clock, provider, log, snaps, checks, service, lost>>

(* on_provider_changed, which reload_env_and_propagate calls some awaits    *)
(* after reload_settings; it returns at once when nothing changed.  The     *)
(* cancelled loop ends at its await and stores nothing more.                *)
OnProviderChanged ==
  /\ service # "stopped"
  /\ active # provider
  /\ active' = provider
  /\ provider \in Metered => NextTask \in Tasks
  /\ task' = IF provider \in Metered THEN NextTask ELSE 0
  /\ loop' = [t \in Tasks |->
                IF t = task' THEN [NoLoop EXCEPT !.phase = "sleeping"]
                ELSE IF t = task THEN [NoLoop EXCEPT !.phase = "ended"] ELSE loop[t]]
  /\ UNCHANGED <<clock, provider, log, snaps, checks, service, lost>>

(* stop: cancel the loop and await its end ... *)
BeginStop ==
  /\ service = "running"
  /\ service' = IF task = 0 THEN "stopped" ELSE "stopping"
  /\ loop' = [t \in Tasks |-> IF t = task THEN [NoLoop EXCEPT !.phase = "ended"] ELSE loop[t]]
  /\ UNCHANGED <<clock, provider, log, snaps, active, task, checks, lost>>

(* ... and forget whatever loop there is now. *)
EndStop ==
  /\ service = "stopping"
  /\ service' = "stopped"
  /\ task' = 0
  /\ UNCHANGED <<clock, provider, log, snaps, active, loop, checks, lost>>

(* The process ends, with or without a shutdown, and is started again with  *)
(* the same database: requests in flight leave no row, build_app makes a    *)
(* checker, its startup hook a loop.                                        *)
Restart ==
  /\ provider \in Metered => NextTask \in Tasks
  /\ task' = IF provider \in Metered THEN NextTask ELSE 0
  /\ task' # 0 \/ task # 0
  /\ active' = provider
  /\ service' = "running"
  /\ loop' = [t \in Tasks |->
                IF t = task' THEN [NoLoop EXCEPT !.phase = "sleeping"]
                ELSE IF t \in Started THEN [NoLoop EXCEPT !.phase = "ended"] ELSE loop[t]]
  /\ req' = [r \in Requests |-> IF r \in InFlight THEN Finished ELSE req[r]]
  /\ lost' = lost \cup {req[r].by : r \in {x \in Requests : req[x].phase = "billed"}}
  /\ UNCHANGED <<clock, provider, usage, rows, snaps, checks>>

(* Slip: the snapshots are kept. *)
PurgeRowsOnly ==
  \E cutoff \in 1..clock :
    /\ rows' = {row \in rows : row.at >= cutoff}
    /\ rows' # rows
    /\ UNCHANGED <<clock, provider, usage, req, snaps, checker, service, lost>>

(* LogRetentionTask: purge_old deletes old rows and snapshots in one transaction. *)
Purge ==
  \E cutoff \in 1..clock :
    /\ rows' = {row \in rows : row.at >= cutoff}
    /\ snaps' = {s \in snaps : s.at >= cutoff}
    /\ <<rows', snaps'>> # <<rows, snaps>>
    /\ UNCHANGED <<clock, provider, usage, req, checker, service, lost>>

LoopStep(t) == Ask(t) \/ Answer(t) \/ Compare(t) \/ Alerted(t) \/ FetchFails(t) \/ Reported(t)

Next ==
  \/ \E r \in Requests : Start(r) \/ Bill(r) \/ Record(r) \/ Abandon(r)
  \/ \E t \in Tasks : LoopStep(t)
  \/ ReloadSettings
  \/ OnProviderChanged
  \/ BeginStop
  \/ EndStop
  \/ Restart
  \/ Purge

Spec == Init /\ [][Next]_vars

-----------------------------------------------------------------------------
(* Properties.                                                              *)

(* A mismatch is stored only where the windows of two consecutive checks    *)
(* cannot agree: for the first check of a provider, when a request was in   *)
(* flight between the provider's answer and the snapshot of this check or   *)
(* of the last, and when a billed post left no row of this provider or one  *)
(* without its cost, as every post in chat completions mode does.  On a     *)
(* quiet proxy whose answers tell their costs every alert is a real billing *)
(* difference.                                                              *)
MismatchIsExplained == \A s \in snaps : s.status = "mismatch" => s.excused

(* Later baselines of a provider never have a lower usage: a check that is  *)
(* overtaken by a provider change does not store what it learnt before it.  *)
BaselineInOrder ==
  \A s, t \in snaps : s.provider = t.provider /\ s.at < t.at => s.usage <= t.usage
=============================================================================
