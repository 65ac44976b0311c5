----------------------------- MODULE EncryptedReplay -----------------------------
(***************************************************************************)
(* Replay of model-bound encrypted items (reasoning, compaction).  A route  *)
(* of the upstream (provider, model, key, path) accepts only the items it   *)
(* minted itself.  The proxy remembers, per session and route, the items    *)
(* that route accepted or minted, drops the others from a request, and for  *)
(* a session it knows nothing of tries the request as it is and once again  *)
(* without any such item (mcptap/session.py, mcptap/encrypted_replay.py,    *)
(* mcptap/upstream.py, and their callers in app.py and response_flow.py).   *)
(*                                                                         *)
(* The memory is volatile: a restart of the proxy empties it while clients  *)
(* keep their histories.  A route has two parts: the address, which the     *)
(* settings select and which is read again after a request was prepared,    *)
(* and the model, which is in the payload from then on and differs between  *)
(* the requests of a session: plan mode asks for another one.               *)
(***************************************************************************)
EXTENDS Naturals, FiniteSets

CONSTANTS
  Requests, Sessions, SessionOf, None,
  Addresses,       (* of upstreams: base URL, provider, key                  *)
  Models,          (* what a payload says of its route: model, provider      *)
                   (* block, path                                            *)
  Items,           (* encrypted items, by their hash                         *)
  MintedBy,        (* the route that minted an item                          *)
  MaxTurns,        (* settings.intercept_max_iterations                      *)
  MaxSwitches,     (* bound: configuration changes of the route              *)
  MaxRestarts,     (* bound: restarts of the proxy                           *)
  Disturbances     (* bound: what may happen that the records do not allow   *)
                   (* for: a switch under a request in "flight", a blocked   *)
                   (* "batch" of another route, a recorded "redirect"        *)

(* What build_route_fingerprint tells apart. *)
Routes == Addresses \X Models

ASSUME RouteAssumption == /\ None \notin Routes \cup Addresses
                          /\ MintedBy \in [Items -> Routes]
                          /\ SessionOf \in [Requests -> Sessions]
ASSUME TurnsAssumption == /\ MaxTurns \in Nat \ {0}
                          /\ MaxSwitches \in Nat
                          /\ MaxRestarts \in Nat
ASSUME DisturbancesAssumption == Disturbances \subseteq {"flight", "batch", "redirect"}

VARIABLES
  address,    (* the upstream the settings select                            *)
  switches,   (* configuration changes so far                                *)
  restarts,   (* restarts so far                                             *)
  accepted,   (* SessionTracker._encrypted_replay_hashes                     *)
  lastRoute,  (* SessionTracker._last_replay_route                           *)
  saved,      (* encrypted items of the response ToolHookGateway._pending    *)
              (* holds for a session, None without one                       *)
  history,    (* the encrypted items the client of a session holds           *)
  unknown,    (* of those, the ones delivered before the last restart        *)
  pc,         (* where a handler is suspended, idle between requests         *)
  req,        (* the local state of a handler, see Locals                    *)
  answer,     (* what the client got for the last request of a handler       *)
  disturbed   (* history: the Disturbances that happened                     *)

settings == <<address, switches>>
tracker  == <<accepted, lastRoute>>
client   == <<history, unknown>>
vars     == <<settings, restarts, tracker, saved, client, pc, req, answer, disturbed>>

Modes   == {"forward", "loop", "decision"}
Answers == {"none", "ok", "replay404", "error"}

Locals == [mode      : Modes,                  (* what posts it, see Begin    *)
           arrivedOn : Addresses \cup {None},  (* target_url                  *)
           print     : Routes \cup {None},     (* replay_context: fingerprint *)
           retry     : BOOLEAN,                (* ... and retry_on_404        *)
           target    : Routes \cup {None},     (* route of the last post      *)
           turn      : 0..(MaxTurns - 1),      (* iteration of the loop       *)
           input     : SUBSET Items,           (* in the request body         *)
           reply     : SUBSET Items]           (* in the response the hook    *)
                                               (* decides or that is relayed  *)

NoRequest == [mode |-> "loop", arrivedOn |-> None, print |-> None, retry |-> FALSE,
              target |-> None, turn |-> 0, input |-> {}, reply |-> {}]

TypeOK ==
  /\ address \in Addresses
  /\ switches \in 0..MaxSwitches
  /\ restarts \in 0..MaxRestarts
  /\ accepted \in [Sessions -> [Routes -> SUBSET Items]]
  /\ lastRoute \in [Sessions -> Routes \cup {None}]
  /\ saved \in [Sessions -> (SUBSET Items) \cup {None}]
  /\ history \in [Sessions -> SUBSET Items]
  /\ unknown \in [Sessions -> SUBSET Items]
  /\ pc \in [Requests -> {"idle", "body", "hook", "post", "relay"}]
  /\ req \in [Requests -> Locals]
  /\ answer \in [Requests -> Answers]
  /\ disturbed \subseteq Disturbances
  /\ \A r \in Requests : pc[r] \in {"hook", "post", "relay"} =>
       req[r].print # None /\ req[r].target # None

(* The proxy starts; clients may come with histories of earlier runs. *)
Init ==
  /\ address \in Addresses
  /\ switches = 0
  /\ restarts = 0
  /\ accepted = [s \in Sessions |-> [f \in Routes |-> {}]]
  /\ lastRoute = [s \in Sessions |-> None]
  /\ saved = [s \in Sessions |-> None]
  /\ history \in [Sessions -> SUBSET Items]
  /\ unknown = history
  /\ pc = [r \in Requests |-> "idle"]
  /\ req = [r \in Requests |-> NoRequest]
  /\ answer = [r \in Requests |-> "none"]
  /\ disturbed = {}

-----------------------------------------------------------------------------
(* The surroundings *)

(* Reload of the environment files selects another upstream; requests in    *)
(* flight under that are noted.  The settings' models are read only when a  *)
(* request is prepared, which any of the Models may be.                     *)
Switch ==
  /\ switches < MaxSwitches
  /\ address' \in Addresses \ {address}
  /\ switches' = switches + 1
  /\ disturbed' = disturbed \cup {k \in {"flight"} : \E r \in Requests : pc[r] # "idle"}
  /\ disturbed' \subseteq Disturbances
  /\ UNCHANGED <<restarts, tracker, saved, client, pc, req, answer>>

(* The process ends and comes back: requests in flight are lost. *)
Restart ==
  /\ restarts < MaxRestarts
  /\ restarts' = restarts + 1
  /\ accepted' = [s \in Sessions |-> [f \in Routes |-> {}]]
  /\ lastRoute' = [s \in Sessions |-> None]
  /\ saved' = [s \in Sessions |-> None]
  /\ unknown' = history
  /\ pc' = [r \in Requests |-> "idle"]
  /\ req' = [r \in Requests |-> NoRequest]
  /\ UNCHANGED <<settings, history, answer, disturbed>>

Finish(r, kind) ==
  /\ pc' = [pc EXCEPT ![r] = "idle"]
  /\ req' = [req EXCEPT ![r] = NoRequest]
  /\ answer' = [answer EXCEPT ![r] = kind]

Deliver(r, items) ==
  /\ history' = [history EXCEPT ![SessionOf[r]] = @ \cup items]
  /\ unknown' = [unknown EXCEPT ![SessionOf[r]] = @ \ items]

-----------------------------------------------------------------------------
(* The tracker *)

(* A session without any record: nothing is filtered, a 404 is retried. *)
Unrecorded(r) == lastRoute[SessionOf[r]] = None

(* Slip: a route that is not recorded yet filters nothing. *)
FilteredLenient(r, f) ==
  LET allowed == accepted[SessionOf[r]][f] IN
  IF allowed = {} THEN req[r].input ELSE req[r].input \cap allowed

(* prepare_encrypted_replay under the fingerprint f: what it leaves of the  *)
(* items in the body.                                                       *)
Filtered(r, f) == IF Unrecorded(r) THEN req[r].input
                                   ELSE req[r].input \cap accepted[SessionOf[r]][f]

(* Slip: the items of the response are not recorded. *)
RecordRequestOnly(r, items) ==
  LET s == SessionOf[r] IN
  /\ accepted' = [accepted EXCEPT ![s][req[r].print] = @ \cup req[r].input]
  /\ lastRoute' = [lastRoute EXCEPT ![s] = req[r].print]

(* record_encrypted_replay of the request's input and the response's items. *)
Record(r, items) ==
  LET s == SessionOf[r] IN
  /\ accepted' = [accepted EXCEPT ![s][req[r].print] = @ \cup req[r].input \cup items]
  /\ lastRoute' = [lastRoute EXCEPT ![s] = req[r].print]

-----------------------------------------------------------------------------
(* A request up to its first post *)

(* proxy: target_url is computed, the body is awaited.  The client replays  *)
(* any part of its history.                                                 *)
Arrive(r, replayed) ==
  /\ pc[r] = "idle"
  /\ replayed \subseteq history[SessionOf[r]]
  /\ pc' = [pc EXCEPT ![r] = "body"]
  /\ req' = [req EXCEPT ![r].arrivedOn = address, ![r].input = replayed]
  /\ answer' = [answer EXCEPT ![r] = "none"]
  /\ UNCHANGED <<settings, restarts, tracker, saved, client, disturbed>>

(* The request is prepared and posted without suspending in between: by     *)
(* forward_rewritten to the target_url computed on arrival, by a buffered   *)
(* post to what the settings select now.  Which part of the code takes it   *)
(* is up to the settings (hook, interception) and to a saved response.  The *)
(* model is the settings' model or, for the reasoning effort that triggers  *)
(* plan mode, the settings' plan mode model.                                *)
Begin(r, m, model) ==
  LET again == req[r].input # {} /\ Unrecorded(r)
      f     == <<address, model>> IN
  /\ pc[r] = "body"
  /\ m = "decision" => saved[SessionOf[r]] # None
  /\ pc' = [pc EXCEPT ![r] = IF m = "decision" THEN "hook" ELSE "post"]
  /\ req' = [req EXCEPT
       ![r].mode = m,
       ![r].arrivedOn = None,
       ![r].print = f,
       ![r].retry = again,
       ![r].input = Filtered(r, f),
       ![r].reply = IF m = "decision" THEN saved[SessionOf[r]] ELSE {},
       ![r].target = IF m = "forward" /\ ~again THEN <<req[r].arrivedOn, model>> ELSE f]
  /\ UNCHANGED <<settings, restarts, tracker, saved, client, answer, disturbed>>

(* The rewriting refuses the request: too large an input for plan mode.     *)
Refused(r) ==
  /\ pc[r] = "body"
  /\ Finish(r, "error")
  /\ UNCHANGED <<settings, restarts, tracker, saved, client, disturbed>>

(* Where a buffered post goes now: the payload keeps its model.             *)
Current(r) == <<address, req[r].print[2]>>

-----------------------------------------------------------------------------
(* Answers of the upstream *)

Foreign(r) == {i \in req[r].input : MintedBy[i] # req[r].target}

(* What a route can put into a response, at most one item at a time. *)
Mints(f) == {{}} \cup {{i} : i \in {j \in Items : MintedBy[j] = f}}

Buffered(r) == req[r].mode # "forward" \/ req[r].retry

Accepts(r, items) ==
  /\ pc[r] = "post"
  /\ Foreign(r) = {}
  /\ items \in Mints(req[r].target)

(* The first post of a request prepared for an unrecorded session. *)
MayRetry(r) == req[r].retry /\ req[r].turn = 0 /\ req[r].mode # "decision"

(* The route rejects items of another one: post again without any. *)
RetryStripped(r) ==
  /\ pc[r] = "post"
  /\ Foreign(r) # {}
  /\ MayRetry(r)
  /\ req' = [req EXCEPT ![r].input = {}, ![r].target = Current(r)]
  /\ UNCHANGED <<settings, restarts, tracker, saved, client, pc, answer, disturbed>>

(* Slip: the items are recorded whatever the status of the answer. *)
RejectedRecorded(r) ==
  /\ pc[r] = "post"
  /\ Foreign(r) # {}
  /\ ~MayRetry(r)
  /\ Record(r, {})
  /\ Finish(r, "replay404")
  /\ UNCHANGED <<settings, restarts, saved, client, disturbed>>

(* The rejection is passed on. *)
Rejected(r) ==
  /\ pc[r] = "post"
  /\ Foreign(r) # {}
  /\ ~MayRetry(r)
  /\ Finish(r, "replay404")
  /\ UNCHANGED <<settings, restarts, tracker, saved, client, disturbed>>

(* Any other failure: connection, 401, 429, 5xx. *)
Fails(r) ==
  /\ pc[r] = "post"
  /\ Finish(r, "error")
  /\ UNCHANGED <<settings, restarts, tracker, saved, client, disturbed>>

(* A status of 3xx, which is passed on: the intercept loop records every    *)
(* status below 400, the other parts of the code only 2xx.                  *)
Redirected(r) ==
  /\ pc[r] = "post"
  /\ IF req[r].mode = "loop" THEN /\ Record(r, {})
                                  /\ disturbed' = disturbed \cup {"redirect"}
                             ELSE UNCHANGED <<tracker, disturbed>>
  /\ disturbed' \subseteq Disturbances
  /\ Finish(r, "error")
  /\ UNCHANGED <<settings, restarts, saved, client>>

(* The final response of a buffered request: recorded, then written. *)
Success(r, items) ==
  /\ Accepts(r, items)
  /\ Buffered(r)
  /\ Record(r, items)
  /\ Deliver(r, items)
  /\ Finish(r, "ok")
  /\ UNCHANGED <<settings, restarts, saved, disturbed>>

(* Slip: one iteration too many. *)
NextTurnLate(r, items) ==
  /\ Accepts(r, items)
  /\ req[r].mode = "loop"
  /\ req[r].turn < MaxTurns
  /\ Record(r, items)
  /\ req' = [req EXCEPT ![r].input = @ \cup items, ![r].turn = @ + 1, ![r].target = Current(r)]
  /\ UNCHANGED <<settings, restarts, saved, client, pc, answer, disturbed>>

(* The loop continues: the output items, encrypted ones included, join the  *)
(* input, and the next post goes to the upstream selected now.              *)
NextTurn(r, items) ==
  /\ Accepts(r, items)
  /\ req[r].mode = "loop"
  /\ req[r].turn + 1 < MaxTurns
  /\ Record(r, items)
  /\ req' = [req EXCEPT ![r].input = @ \cup items, ![r].turn = @ + 1, ![r].target = Current(r)]
  /\ UNCHANGED <<settings, restarts, saved, client, pc, answer, disturbed>>

(* forward_rewritten streams the response to the client ... *)
Relay(r, items) ==
  /\ Accepts(r, items)
  /\ ~Buffered(r)
  /\ Deliver(r, items)
  /\ req' = [req EXCEPT ![r].reply = items]
  /\ pc' = [pc EXCEPT ![r] = "relay"]
  /\ UNCHANGED <<settings, restarts, tracker, saved, answer, disturbed>>

(* ... and its items are recorded after the last byte was written. *)
RecordRelayed(r) ==
  /\ pc[r] = "relay"
  /\ Record(r, req[r].reply)
  /\ Finish(r, "ok")
  /\ UNCHANGED <<settings, restarts, saved, client, disturbed>>

-----------------------------------------------------------------------------
(* The tool hook *)

(* A response with client calls is saved, the client gets the synthetic one.*)
Defer(r, items) ==
  /\ Accepts(r, items)
  /\ req[r].mode = "loop"
  /\ Record(r, items)
  /\ saved' = [saved EXCEPT ![SessionOf[r]] = items]
  /\ Finish(r, "ok")
  /\ UNCHANGED <<settings, restarts, client, disturbed>>

(* Without a synthetic tool the hook runs at once. *)
DirectHook(r, items) ==
  /\ Accepts(r, items)
  /\ req[r].mode = "loop"
  /\ Record(r, items)
  /\ req' = [req EXCEPT ![r].reply = items]
  /\ pc' = [pc EXCEPT ![r] = "hook"]
  /\ UNCHANGED <<settings, restarts, saved, client, answer, disturbed>>

ClearSaved(r) ==
  saved' = IF req[r].mode = "decision" THEN [saved EXCEPT ![SessionOf[r]] = None]
                                       ELSE saved

HookAllows(r) ==
  /\ pc[r] = "hook"
  /\ ClearSaved(r)
  /\ Deliver(r, req[r].reply)
  /\ Finish(r, "ok")
  /\ UNCHANGED <<settings, restarts, tracker, disturbed>>

(* The hook fails, or answers an allow with malformed lists, which raises   *)
(* before the saved response is cleared.                                    *)
HookErrs(r) ==
  /\ pc[r] = "hook"
  /\ ClearSaved(r) \/ UNCHANGED saved
  /\ Finish(r, "error")
  /\ UNCHANGED <<settings, restarts, tracker, client, disturbed>>

(* The saved output joins the input as it is, without the filter, and the   *)
(* request is posted once, under the fingerprint it was prepared with.  It  *)
(* is noted when the output has items of another route: the settings, or    *)
(* the request that was answered with it, selected another one.             *)
HookBlocks(r) ==
  /\ pc[r] = "hook"
  /\ ClearSaved(r)
  /\ disturbed' = disturbed
       \cup {k \in {"batch"} : \E i \in req[r].reply : MintedBy[i] # Current(r)}
  /\ disturbed' \subseteq Disturbances
  /\ req' = [req EXCEPT ![r].mode = "decision", ![r].target = Current(r),
                        ![r].input = @ \cup req[r].reply, ![r].reply = {}]
  /\ pc' = [pc EXCEPT ![r] = "post"]
  /\ UNCHANGED <<settings, restarts, tracker, client, answer>>

Handler(r) ==
  \/ \E replayed \in SUBSET Items : Arrive(r, replayed)
  \/ \E m \in Modes, model \in Models : Begin(r, m, model)
  \/ Refused(r)
  \/ RetryStripped(r) \/ Rejected(r) \/ Fails(r) \/ Redirected(r)
  \/ \E items \in SUBSET Items :
       \/ Success(r, items) \/ NextTurn(r, items) \/ Relay(r, items)
       \/ Defer(r, items) \/ DirectHook(r, items)
  \/ RecordRelayed(r)
  \/ HookAllows(r) \/ HookErrs(r) \/ HookBlocks(r)

Next == Switch \/ Restart \/ \E r \in Requests : Handler(r)

Spec == Init /\ [][Next]_vars

-----------------------------------------------------------------------------
(* Properties *)

TrueRecords ==
  \A s \in Sessions, f \in Routes : \A i \in accepted[s][f] : MintedBy[i] = f

NoRejection == \A r \in Requests : answer[r] # "replay404"

(* As long as no upstream switches under a request and no redirect is       *)
(* recorded, an item recorded for a route is one that route accepts:        *)
(* concurrent requests of a session, restarts and decided batches included. *)
RecordsAreTrue == disturbed \subseteq {"batch"} => TrueRecords

(* Unless the upstream switched under a request, a redirect was recorded or *)
(* a blocked response brought in items of another route, the client never   *)
(* gets the rejection of its encrypted items: not after a switch, not after *)
(* a restart, not with requests for several models in flight.               *)
NoReplayError == disturbed = {} => NoRejection

(* Every item a client was given since the start of the proxy is recorded   *)
(* for its route, or is about to be by the handler that relayed it: when    *)
(* the session returns to the route, the item is replayed and not dropped.  *)
(* A response saved for the hook and delivered much later is no exception.  *)
DeliveredIsRecorded ==
  "flight" \notin disturbed =>
    \A s \in Sessions : \A i \in history[s] \ unknown[s] :
      \/ i \in accepted[s][MintedBy[i]]
      \/ \E r \in Requests : SessionOf[r] = s /\ pc[r] = "relay" /\ i \in req[r].reply

(* CHANGELOG.md: stale items are removed after route changes.  They are     *)
(* not from the response that was saved for the hook before the change,     *)
(* whether the settings changed or only the model of the next request.      *)
StaleItemsRemoved == disturbed \subseteq {"batch"} => NoRejection

=============================================================================
