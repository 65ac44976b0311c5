------------------------------ MODULE ResponseFlow ------------------------------
(***************************************************************************)
(* The multi-turn handler of MCPTap's /responses endpoint                   *)
(* (mcptap/app.py proxy, mcptap/response_flow.py) together with the         *)
(* tool-call hook gateway it consults (mcptap/tool_hook.py).                *)
(*                                                                         *)
(* All handlers run on one asyncio loop, so a handler is a sequence of      *)
(* atomic steps that end where it really suspends: reading the request      *)
(* body, waiting for the upstream, for an MCP tool or for the hook script.  *)
(* The asyncio.Lock sections of ToolHookGateway contain no await and are    *)
(* never contended, so get_pending, set_pending and clear_pending do not    *)
(* suspend and belong to the step that calls them.                          *)
(*                                                                         *)
(* A request saves at most one upstream response, so the batch of client    *)
(* tool calls that request r deferred is identified by r itself.            *)
(***************************************************************************)
EXTENDS Naturals

CONSTANTS
  Requests,       (* the requests that ever arrive                           *)
  Sessions,       (* values of the session-id header ("default" included)    *)
  SessionOf,      (* the session a request names                             *)
  None,
  MaxIterations,  (* settings.intercept_max_iterations                       *)
  PendingTtl,     (* settings.use_tool_hook_pending_ttl                      *)
  MaxTime,        (* bound: ticks of the clock                               *)
  MaxReloads,     (* bound: configuration changes                            *)
  Disciplined     (* the client keeps one request of a session in flight and *)
                  (* answers a synthetic call with its very next request     *)

ASSUME RequestsAssumption == None \notin Requests
ASSUME SessionAssumption  == SessionOf \in [Requests -> Sessions]
ASSUME BoundsAssumption   == /\ MaxIterations \in Nat \ {0}
                             /\ PendingTtl \in Nat
                             /\ MaxTime \in Nat
                             /\ MaxReloads \in Nat
ASSUME ClientAssumption   == Disciplined \in BOOLEAN

VARIABLES
  now,        (* time.time()                                                 *)
  reloads,    (* configuration changes so far                                *)
  hookOn,     (* hook_gateway.enabled                                        *)
  synthMode,  (* settings.use_tool_hook_synthetic_tool is non-empty          *)
  toolsOn,    (* app["mcp_intercept"].enabled                                *)
  pending,    (* ToolHookGateway._pending: the batch saved for a session     *)
  createdAt,  (* PendingState.created_at of a request's batch                *)
  edited,     (* batches whose saved_body_json the hook's updates rewrote    *)
  blocklist,  (* the batch whose blocked_files the control file lists        *)
  pc,         (* where the handler of a request is suspended                 *)
  goal,       (* the request carries the result of the synthetic call        *)
  tools,      (* intercept.enabled of the interceptor the handler captured   *)
  iter,       (* the loop's iteration                                        *)
  last,       (* kind of the last upstream response the loop received        *)
  held,       (* the batch a handler decides (pending_state)                 *)
  verdict,    (* the hook's decision about held                              *)
  answer,     (* what the client of the request got                          *)
  calls,      (* the function calls in that answer                           *)
  goalOwed    (* client: the session's last answer was a synthetic call      *)

config  == <<reloads, hookOn, synthMode, toolsOn>>
gateway == <<pending, createdAt>>
effects == <<edited, blocklist>>
input   == <<goal, tools>>
loop    == <<iter, last>>
hook    == <<held, verdict>>
client  == <<answer, calls, goalOwed>>
vars    == <<now, config, gateway, effects, pc, input, loop, hook, client>>

(* "text" has no calls, "client" only calls of client tools, "intercepted"  *)
(* only calls of MCP-backed tools, "mixed" both.                            *)
CallKinds == {"text", "client", "intercepted", "mixed"}

(* What one post to the upstream can bring: a parsed body, a body that does *)
(* not parse, a status of 400 or more, or ClientError / OSError.            *)
Responses == CallKinds \cup {"unparsed", "error", "neterr"}

PcStates == {"idle", "body", "forward", "upstream", "mcp", "hook",
             "directHook", "afterBlock", "done"}

AnswerKinds == {"none", "model", "synthetic", "saved", "hookError",
                "badGateway", "crash"}

TypeOK ==
  /\ now \in 0..MaxTime
  /\ reloads \in 0..MaxReloads
  /\ hookOn \in BOOLEAN /\ synthMode \in BOOLEAN /\ toolsOn \in BOOLEAN
  /\ pending \in [Sessions -> Requests \cup {None}]
  /\ createdAt \in [Requests -> 0..MaxTime]
  /\ edited \in SUBSET Requests
  /\ blocklist \in [Sessions -> Requests \cup {None}]
  /\ pc \in [Requests -> PcStates]
  /\ goal \in [Requests -> BOOLEAN]
  /\ tools \in [Requests -> BOOLEAN]
  /\ iter \in [Requests -> 0..MaxIterations]
  /\ last \in [Requests -> CallKinds]
  /\ held \in [Requests -> Requests \cup {None}]
  /\ verdict \in [Requests -> {"none", "allow", "malformed", "block", "error"}]
  /\ answer \in [Requests -> AnswerKinds]
  /\ calls \in [Requests -> CallKinds]
  /\ goalOwed \in [Sessions -> BOOLEAN]

Init ==
  /\ now = 0
  /\ reloads = 0
  /\ hookOn \in BOOLEAN /\ synthMode \in BOOLEAN /\ toolsOn \in BOOLEAN
  /\ pending = [s \in Sessions |-> None]
  /\ createdAt = [r \in Requests |-> 0]
  /\ edited = {}
  /\ blocklist = [s \in Sessions |-> None]
  /\ pc = [r \in Requests |-> "idle"]
  /\ goal = [r \in Requests |-> FALSE]
  /\ tools = [r \in Requests |-> FALSE]
  /\ iter = [r \in Requests |-> 0]
  /\ last = [r \in Requests |-> "text"]
  /\ held = [r \in Requests |-> None]
  /\ verdict = [r \in Requests |-> "none"]
  /\ answer = [r \in Requests |-> "none"]
  /\ calls = [r \in Requests |-> "text"]
  /\ goalOwed = [s \in Sessions |-> FALSE]

-----------------------------------------------------------------------------
(* Helpers *)

(* PendingState.is_expired, of the batch saved for session s. *)
Expired(s) == pending[s] # None /\ now > createdAt[pending[s]] + PendingTtl

(* The calls the client can execute out of a response passed on to it. *)
Shown(k) == IF k \in CallKinds THEN k ELSE "text"

(* Calls of intercepted names exist only if the handler's interceptor       *)
(* exposes tools: tool_names() is empty otherwise.                          *)
ResponsesTo(r) == IF tools[r] THEN Responses
                  ELSE Responses \ {"intercepted", "mixed"}

(* The handler returns; calls are those of the response it writes. *)
Finish(r, kind, shown) ==
  /\ pc' = [pc EXCEPT ![r] = "done"]
  /\ answer' = [answer EXCEPT ![r] = kind]
  /\ calls' = [calls EXCEPT ![r] = shown]
  /\ goalOwed' = [goalOwed EXCEPT ![SessionOf[r]] = (kind = "synthetic")]

(* The handler suspends again. *)
Suspend(r, where) ==
  /\ pc' = [pc EXCEPT ![r] = where]
  /\ UNCHANGED client

(* ToolHookGateway.set_pending: sweep every expired state, save this one. *)
SetPending(r) ==
  /\ pending' = [s \in Sessions |->
                   IF s = SessionOf[r] THEN r
                   ELSE IF Expired(s) THEN None ELSE pending[s]]
  /\ createdAt' = [createdAt EXCEPT ![r] = now]

(* Slip: the state survives when the hook script fails. *)
ClearPendingUnlessError(r) ==
  /\ pending' = IF pc[r] = "hook" /\ verdict'[r] # "error"
                THEN [pending EXCEPT ![SessionOf[r]] = None] ELSE pending
  /\ UNCHANGED createdAt

(* Slip: nothing clears the state; it waits for its time to run out. *)
ClearPendingNever(r) == UNCHANGED <<pending, createdAt>>

(* ToolHookGateway.clear_pending, which only _handle_hook_decision calls:   *)
(* it drops whatever is saved for the session.                              *)
ClearPending(r) ==
  /\ pending' = IF pc[r] = "hook" THEN [pending EXCEPT ![SessionOf[r]] = None]
                ELSE pending
  /\ UNCHANGED createdAt

-----------------------------------------------------------------------------
(* The client and the configuration *)

(* A disciplined client sends the next request of a session only after the  *)
(* answer to the previous one, and answers a synthetic call at once.        *)
ClientMaySend(r, g) ==
  /\ g => \E q \in Requests : SessionOf[q] = SessionOf[r] /\ answer[q] = "synthetic"
  /\ Disciplined =>
       /\ g = goalOwed[SessionOf[r]]
       /\ \A q \in Requests : SessionOf[q] = SessionOf[r] => pc[q] \in {"idle", "done"}

(* proxy: capture app["mcp_intercept"], then await the request body. *)
Arrive(r, g) ==
  /\ pc[r] = "idle"
  /\ ClientMaySend(r, g)
  /\ Suspend(r, "body")
  /\ goal' = [goal EXCEPT ![r] = g]
  /\ tools' = [tools EXCEPT ![r] = toolsOn]
  /\ UNCHANGED <<now, config, gateway, effects, loop, hook>>

(* reload_settings and reload_tool_hook run without suspending between them. *)
ReloadSettings ==
  /\ reloads < MaxReloads
  /\ reloads' = reloads + 1
  /\ hookOn' \in BOOLEAN
  /\ synthMode' \in BOOLEAN
  /\ UNCHANGED <<now, toolsOn, gateway, effects, pc, input, loop, hook, client>>

(* reload_intercept replaces app["mcp_intercept"]. *)
ReplaceInterceptor ==
  /\ reloads < MaxReloads
  /\ reloads' = reloads + 1
  /\ toolsOn' \in BOOLEAN
  /\ UNCHANGED <<now, hookOn, synthMode, gateway, effects, pc, input, loop, hook, client>>

Tick ==
  /\ now < MaxTime
  /\ now' = now + 1
  /\ UNCHANGED <<config, gateway, effects, pc, input, loop, hook, client>>

-----------------------------------------------------------------------------
(* The handler *)

(* The body is there and neither the hook nor interception is enabled. *)
Forward(r) ==
  /\ pc[r] = "body"
  /\ ~hookOn /\ ~tools[r]
  /\ Suspend(r, "forward")
  /\ UNCHANGED <<now, config, gateway, effects, input, loop, hook>>

(* Slip: the state is looked up without the session. *)
TakePendingOfAny(r) ==
  /\ pc[r] = "body"
  /\ hookOn
  /\ \E s \in Sessions : /\ pending[s] # None
                         /\ ~Expired(s)
                         /\ held' = [held EXCEPT ![r] = pending[s]]
  /\ Suspend(r, "hook")
  /\ UNCHANGED <<now, config, gateway, effects, input, loop, verdict>>

(* Slip: get_pending pops the state it returns. *)
TakePendingPops(r) ==
  LET s == SessionOf[r] IN
  /\ pc[r] = "body"
  /\ hookOn
  /\ pending[s] # None
  /\ ~Expired(s)
  /\ Suspend(r, "hook")
  /\ held' = [held EXCEPT ![r] = pending[s]]
  /\ pending' = [pending EXCEPT ![s] = None]
  /\ UNCHANGED <<now, config, createdAt, effects, input, loop, verdict>>

(* get_pending finds a live state of the session: its hook is started. The  *)
(* handler does not look whether this request carries the synthetic result. *)
TakePending(r) ==
  LET s == SessionOf[r] IN
  /\ pc[r] = "body"
  /\ hookOn
  /\ pending[s] # None
  /\ ~Expired(s)
  /\ Suspend(r, "hook")
  /\ held' = [held EXCEPT ![r] = pending[s]]
  /\ UNCHANGED <<now, config, gateway, effects, input, loop, verdict>>

(* No live state: get_pending drops an expired one and the loop starts. *)
EnterLoop(r) ==
  LET s == SessionOf[r] IN
  /\ pc[r] = "body"
  /\ hookOn \/ tools[r]
  /\ hookOn => pending[s] = None \/ Expired(s)
  /\ Suspend(r, "upstream")
  /\ pending' = IF hookOn THEN [pending EXCEPT ![s] = None] ELSE pending
  /\ UNCHANGED <<now, config, createdAt, effects, input, loop, hook>>

(* forward_rewritten relays what the upstream sent. *)
ForwardReply(r, k) ==
  /\ pc[r] = "forward"
  /\ k \in ResponsesTo(r)
  /\ Finish(r, IF k = "neterr" THEN "badGateway" ELSE "model", Shown(k))
  /\ UNCHANGED <<now, config, gateway, effects, input, loop, hook>>

(* Slip: client calls end the loop whether or not the hook is enabled. *)
FinalReplyUngated(r, k) ==
  /\ pc[r] = "upstream"
  /\ k \in {"text", "unparsed", "error", "neterr", "client"}
  /\ Finish(r, IF k = "neterr" THEN "badGateway" ELSE "model", Shown(k))
  /\ last' = [last EXCEPT ![r] = Shown(k)]
  /\ UNCHANGED <<now, config, gateway, effects, input, iter, hook>>

(* The loop got a response that ends it: it is passed on as it is. *)
FinalReply(r, k) ==
  /\ pc[r] = "upstream"
  /\ k \in ResponsesTo(r)
  /\ k \in {"text", "unparsed", "error", "neterr"} \/ (k = "client" /\ ~hookOn)
  /\ Finish(r, IF k = "neterr" THEN "badGateway" ELSE "model", Shown(k))
  /\ last' = [last EXCEPT ![r] = Shown(k)]
  /\ UNCHANGED <<now, config, gateway, effects, input, iter, hook>>

(* The response has intercepted calls: all output items, the client calls   *)
(* of a mixed batch included, are appended to the input and the intercepted *)
(* ones are executed.                                                       *)
InterceptReply(r, k) ==
  /\ pc[r] = "upstream"
  /\ k \in ResponsesTo(r) \cap {"intercepted", "mixed"}
  /\ Suspend(r, "mcp")
  /\ last' = [last EXCEPT ![r] = k]
  /\ UNCHANGED <<now, config, gateway, effects, input, iter, hook>>

(* Slip: the bound is tested after one iteration too many. *)
McpReplyLate(r) ==
  /\ pc[r] = "mcp"
  /\ iter' = [iter EXCEPT ![r] = @ + 1]
  /\ IF iter'[r] <= MaxIterations THEN Suspend(r, "upstream")
                                  ELSE Finish(r, "model", last[r])
  /\ UNCHANGED <<now, config, gateway, effects, input, last, hook>>

(* Slip: a "while True" loop that counts no iterations. *)
McpReplyUncounted(r) ==
  /\ pc[r] = "mcp"
  /\ Suspend(r, "upstream")
  /\ UNCHANGED <<now, config, gateway, effects, input, loop, hook>>

(* All intercepted calls of the response returned a text: next iteration,   *)
(* or the loop is exhausted and the last response is passed on.             *)
McpReply(r) ==
  /\ pc[r] = "mcp"
  /\ iter' = [iter EXCEPT ![r] = @ + 1]
  /\ IF iter'[r] < MaxIterations THEN Suspend(r, "upstream")
                                 ELSE Finish(r, "model", last[r])
  /\ UNCHANGED <<now, config, gateway, effects, input, last, hook>>

(* MCPInterceptor.call raised (the captured interceptor has no session):    *)
(* nothing catches it and aiohttp answers 500.                              *)
McpRaise(r) ==
  /\ pc[r] = "mcp"
  /\ Finish(r, "crash", "text")
  /\ UNCHANGED <<now, config, gateway, effects, input, loop, hook>>

(* Client calls while the hook is enabled, synthetic mode: save the         *)
(* response and answer with the synthetic call.                             *)
DeferReply(r) ==
  /\ pc[r] = "upstream"
  /\ hookOn /\ synthMode
  /\ SetPending(r)
  /\ last' = [last EXCEPT ![r] = "client"]
  /\ Finish(r, "synthetic", "text")
  /\ UNCHANGED <<now, config, effects, input, iter, hook>>

(* Client calls while the hook is enabled, direct mode: start the hook. *)
DirectHookReply(r) ==
  /\ pc[r] = "upstream"
  /\ hookOn /\ ~synthMode
  /\ last' = [last EXCEPT ![r] = "client"]
  /\ held' = [held EXCEPT ![r] = r]
  /\ Suspend(r, "directHook")
  /\ UNCHANGED <<now, config, gateway, effects, input, iter, verdict>>

Deciding(r) == pc[r] \in {"hook", "directHook"}

(* Slip: a failing hook script lets the saved response through. *)
HookErrorReleases(r) ==
  /\ Deciding(r)
  /\ verdict' = [verdict EXCEPT ![r] = "error"]
  /\ ClearPending(r)
  /\ Finish(r, "saved", "client")
  /\ UNCHANGED <<now, config, effects, input, loop, held>>

(* run_hook raised RuntimeError: spawn failure, timeout, exit code, output. *)
HookError(r) ==
  /\ Deciding(r)
  /\ verdict' = [verdict EXCEPT ![r] = "error"]
  /\ ClearPending(r)
  /\ Finish(r, "hookError", "text")
  /\ UNCHANGED <<now, config, effects, input, loop, held>>

(* The hook allowed: blocked_files replace the control file of the session, *)
(* updates rewrite the saved body in place, the saved response is returned. *)
HookAllow(r, files, updates) ==
  /\ Deciding(r)
  /\ verdict' = [verdict EXCEPT ![r] = "allow"]
  /\ ClearPending(r)
  /\ blocklist' = IF files THEN [blocklist EXCEPT ![SessionOf[r]] = held[r]]
                  ELSE blocklist
  /\ edited' = IF updates THEN edited \cup {held[r]} ELSE edited
  /\ Finish(r, "saved", "client")
  /\ UNCHANGED <<now, config, input, loop, held>>

(* The hook allowed and what follows raised: write_blocklist, before or after *)
(* it truncated or filled the control file, or apply_tool_call_updates on an *)
(* entry that is no object.  The saved response is gone: aiohttp answers 500.*)
HookAllowRaises(r, file) ==
  /\ Deciding(r)
  /\ file \in {blocklist[SessionOf[r]], held[r], None}
  /\ verdict' = [verdict EXCEPT ![r] = "allow"]
  /\ ClearPending(r)
  /\ blocklist' = [blocklist EXCEPT ![SessionOf[r]] = file]
  /\ Finish(r, "crash", "text")
  /\ UNCHANGED <<now, config, edited, input, loop, held>>

(* The hook allowed with a blocked_files or updated_tool_calls that has no    *)
(* length (null, a number): the log call's len() raises before clear_pending, *)
(* so the client gets a 500 and the batch stays saved.                       *)
HookAllowMalformed(r) ==
  /\ Deciding(r)
  /\ verdict' = [verdict EXCEPT ![r] = "malformed"]
  /\ Finish(r, "crash", "text")
  /\ UNCHANGED <<now, config, gateway, effects, input, loop, held>>

(* Slip: the block branch falls through to the saved response. *)
HookBlockReleases(r) ==
  /\ Deciding(r)
  /\ verdict' = [verdict EXCEPT ![r] = "block"]
  /\ ClearPending(r)
  /\ Finish(r, "saved", "client")
  /\ UNCHANGED <<now, config, effects, input, loop, held>>

(* The hook blocked: the saved output and the block message go upstream. *)
HookBlock(r) ==
  /\ Deciding(r)
  /\ verdict' = [verdict EXCEPT ![r] = "block"]
  /\ ClearPending(r)
  /\ Suspend(r, "afterBlock")
  /\ UNCHANGED <<now, config, effects, input, loop, held>>

(* The model's reaction to the block is passed through once, whatever calls *)
(* it contains.                                                             *)
BlockReply(r, k) ==
  /\ pc[r] = "afterBlock"
  /\ k \in ResponsesTo(r)
  /\ Finish(r, IF k = "neterr" THEN "badGateway" ELSE "model", Shown(k))
  /\ UNCHANGED <<now, config, gateway, effects, input, loop, hook>>

-----------------------------------------------------------------------------

UpstreamAnswers(r) ==
  \/ \E k \in Responses : ForwardReply(r, k) \/ FinalReply(r, k)
                          \/ InterceptReply(r, k) \/ BlockReply(r, k)
  \/ DeferReply(r)
  \/ DirectHookReply(r)

McpAnswers(r) == McpReply(r) \/ McpRaise(r)

HookSettles(r) ==
  \/ HookError(r)
  \/ \E files, updates \in BOOLEAN : HookAllow(r, files, updates)
  \/ \E file \in Requests \cup {None} : HookAllowRaises(r, file)
  \/ HookBlock(r)

HookAnswers(r) == HookSettles(r) \/ HookAllowMalformed(r)

Dispatch(r) == Forward(r) \/ TakePending(r) \/ EnterLoop(r)

Handler(r) == Dispatch(r) \/ UpstreamAnswers(r) \/ McpAnswers(r) \/ HookAnswers(r)

Next ==
  \/ \E r \in Requests, g \in BOOLEAN : Arrive(r, g)
  \/ ReloadSettings
  \/ ReplaceInterceptor
  \/ Tick
  \/ \E r \in Requests : Handler(r)

Spec == Init /\ [][Next]_vars

(* The loop schedules every runnable handler; run_hook and MCPInterceptor   *)
(* .call bound their waits with asyncio.wait_for. The answer of the         *)
(* upstream is the one assumption about the environment: the client session *)
(* has no total and no read timeout.                                        *)
Fairness == \A r \in Requests : WF_vars(Handler(r))

FairSpec == Spec /\ Fairness

-----------------------------------------------------------------------------
(* Properties *)

(* A batch the hook has settled is no longer saved: on an allow (a failing    *)
(* control file or update included), a block or a failing script, no later   *)
(* request of the session finds the batch again.  The one answer excepted is *)
(* an allow whose blocked_files or updated_tool_calls has no length: it      *)
(* raises between the decision and clear_pending (response_flow.py:527-530), *)
(* and the batch, decided but saved, is put to the hook once more.           *)
SettledNotPending ==
  \A r \in Requests :
    verdict[r] \notin {"none", "malformed"} => pending[SessionOf[r]] # held[r]

(* What is stored or used under a session came from that session: the saved *)
(* response, the batch being decided, and the control file of blocked files.*)
SessionIsolation ==
  /\ \A s \in Sessions : pending[s] # None => SessionOf[pending[s]] = s
  /\ \A r \in Requests : held[r] # None => SessionOf[held[r]] = SessionOf[r]
  /\ \A s \in Sessions : blocklist[s] # None => SessionOf[blocklist[s]] = s

(* A saved response leaves the proxy only to a request that itself got an   *)
(* allow for it, and a saved batch belongs to a finished request whose      *)
(* client got the synthetic call instead of the calls.                      *)
ReleaseIsBacked ==
  /\ \A r \in Requests : answer[r] = "saved" => verdict[r] = "allow" /\ held[r] # None
  /\ \A s \in Sessions : pending[s] # None => answer[pending[s]] = "synthetic"

(* While the hook is enabled, client calls reach the client only with an    *)
(* allow obtained by this request, in the one answer passed through after a *)
(* block, in an answer whose forwarding began with the hook off, or (mixed  *)
(* with intercepted calls) when the loop is exhausted.                      *)
Delivers(r) == pc[r] # "done" /\ pc'[r] = "done" /\ calls'[r] = "client"
GatedWhileOn ==
  [][\A r \in Requests : Delivers(r) /\ hookOn =>
       verdict'[r] = "allow" \/ verdict[r] = "block" \/ pc[r] = "forward"]_vars

(* A saved batch is removed only because its time is over or because the    *)
(* request that holds it has just got the hook's decision: clear_pending,   *)
(* which takes no batch, never hits another one.                            *)
DroppedOnlyWhenDue ==
  [][\A s \in Sessions : pending[s] # None /\ pending'[s] # pending[s] =>
       \/ Expired(s)
       \/ \E r \in Requests : /\ held[r] = pending[s]
                              /\ verdict[r] = "none"
                              /\ verdict'[r] # "none"]_vars

(* What the model is told about a blocked batch is what it asked for:       *)
(* a disciplined session decides each batch in one request only, so the     *)
(* in-place updates of the saved body never precede the block.              *)
FeedbackIsOriginal ==
  [][\A r \in Requests : pc[r] # "afterBlock" /\ pc'[r] = "afterBlock" =>
       held[r] \notin edited]_vars

(* Every request whose body arrived is answered. *)
Answered == \A r \in Requests : pc[r] = "body" ~> pc[r] = "done"

-----------------------------------------------------------------------------
(* The abstract gate: what becomes of one deferred batch. *)

Decided(b, verdicts) == \E r \in Requests : held[r] = b /\ verdict[r] \in verdicts

Withheld(b) == \/ pending[SessionOf[b]] = b
               \/ \E r \in Requests : held[r] = b /\ Deciding(r)

Stage(b) == IF Decided(b, {"allow"}) THEN "granted"
            ELSE IF Decided(b, {"block", "error"}) THEN "refused"
            ELSE IF Withheld(b) THEN "held"
            ELSE IF answer[b] = "synthetic" \/ Decided(b, {"malformed"}) THEN "dropped"
            ELSE "unseen"

Receivers(b) == {r \in Requests : answer[r] = "saved" /\ held[r] = b}

Gate == INSTANCE ToolCallGate
          WITH Batches <- Requests, Clients <- Requests,
               stage <- [b \in Requests |-> Stage(b)],
               receivers <- [b \in Requests |-> Receivers(b)]

(* Every batch goes through the gate as ToolCallGate promises: withheld, then *)
(* granted to one client, refused or dropped, once and for good.            *)
GateSpec == Gate!Spec
=============================================================================
