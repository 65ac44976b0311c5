--------------------------- MODULE ResponseFlowProofs ---------------------------
(***************************************************************************)
(* Proofs about ResponseFlow, for any set of requests and sessions, any     *)
(* iteration limit, any time to live and any client.                        *)
(***************************************************************************)
EXTENDS ResponseFlow, TLAPS

USE RequestsAssumption, SessionAssumption, BoundsAssumption, ClientAssumption

-----------------------------------------------------------------------------
(* The inductive invariant *)

(* Before its hook decision a handler holds no batch; an answer ends it; the *)
(* loop counter is below the limit while the loop runs.                     *)
HandlerInv ==
  \A r \in Requests :
    /\ pc[r] \notin {"hook", "directHook", "afterBlock", "done"} =>
         held[r] = None /\ verdict[r] = "none"
    /\ Deciding(r) => held[r] # None /\ verdict[r] = "none"
    /\ pc[r] = "directHook" => held[r] = r
    /\ answer[r] # "none" => pc[r] = "done"
    /\ pc[r] \in {"idle", "body", "upstream", "mcp"} => iter[r] < MaxIterations
    /\ verdict[r] # "none" => held[r] # None
    /\ pc[r] = "mcp" => last[r] \in {"intercepted", "mixed"}
    /\ pc[r] = "afterBlock" => verdict[r] = "block"

(* A saved batch is the one of a finished request answered synthetically. *)
PendingInv ==
  \A s \in Sessions : pending[s] # None =>
    /\ SessionOf[pending[s]] = s
    /\ pc[pending[s]] = "done"
    /\ answer[pending[s]] = "synthetic"

(* A handler holds its own batch or one of a finished request.              *)
HeldInv ==
  \A r \in Requests : held[r] # None =>
    /\ SessionOf[held[r]] = SessionOf[r]
    /\ held[r] = r \/ pc[held[r]] = "done"

BlocklistInv ==
  \A s \in Sessions : blocklist[s] # None => SessionOf[blocklist[s]] = s

SavedInv ==
  \A r \in Requests : answer[r] = "saved" => verdict[r] = "allow" /\ held[r] # None

IInv == /\ TypeOK
        /\ HandlerInv
        /\ PendingInv
        /\ HeldInv
        /\ BlocklistInv
        /\ SavedInv
        /\ SettledNotPending

-----------------------------------------------------------------------------
LEMMA InitIInv == Init => IInv
BY DEF Init, IInv, TypeOK, HandlerInv, PendingInv, HeldInv, BlocklistInv,
       SavedInv, SettledNotPending, PcStates, AnswerKinds, CallKinds, Deciding

LEMMA ArriveIInv ==
  ASSUME IInv, NEW r \in Requests, NEW g \in BOOLEAN, Arrive(r, g)
  PROVE  IInv'
<1> USE DEF Arrive, Suspend, config, gateway, effects, loop, hook, client, input
<1>1. TypeOK'
  BY DEF IInv, TypeOK, PcStates
<1>2. HandlerInv'
  BY DEF IInv, TypeOK, HandlerInv, Deciding
<1>3. PendingInv'
  BY DEF IInv, TypeOK, PendingInv
<1>4. HeldInv'
  BY DEF IInv, TypeOK, HeldInv
<1>5. BlocklistInv' /\ SavedInv' /\ SettledNotPending'
  BY DEF IInv, TypeOK, BlocklistInv, SavedInv, SettledNotPending
<1> QED BY <1>1, <1>2, <1>3, <1>4, <1>5 DEF IInv

LEMMA EnvironmentIInv ==
  ASSUME IInv, ReloadSettings \/ ReplaceInterceptor \/ Tick \/ UNCHANGED vars
  PROVE  IInv'
<1> USE DEF vars, config, gateway, effects, input, loop, hook, client
<1>1. TypeOK'
  BY DEF IInv, TypeOK, ReloadSettings, ReplaceInterceptor, Tick
<1>2. UNCHANGED <<gateway, effects, pc, input, loop, hook, client>>
  BY DEF ReloadSettings, ReplaceInterceptor, Tick
<1>3. HandlerInv' /\ PendingInv' /\ HeldInv'
  BY <1>2 DEF IInv, HandlerInv, PendingInv, HeldInv, Deciding
<1>4. BlocklistInv' /\ SavedInv' /\ SettledNotPending'
  BY <1>2 DEF IInv, BlocklistInv, SavedInv, SettledNotPending
<1> QED BY <1>1, <1>3, <1>4 DEF IInv

LEMMA ForwardIInv ==
  ASSUME IInv, NEW r \in Requests, Forward(r)
  PROVE  IInv'
<1> USE DEF Forward, Suspend, config, gateway, effects,
            input, loop, hook, client
<1>1. TypeOK'
  BY DEF IInv, TypeOK, HandlerInv, PcStates, AnswerKinds, CallKinds
<1>2. HandlerInv'
  BY DEF IInv, TypeOK, HandlerInv, Deciding
<1>3. PendingInv'
  BY DEF IInv, TypeOK, HandlerInv, PendingInv, Deciding
<1>4. HeldInv'
  BY DEF IInv, TypeOK, HandlerInv, HeldInv, PendingInv, Deciding
<1>5. BlocklistInv'
  BY DEF IInv, TypeOK, BlocklistInv, HeldInv
<1>6. SavedInv'
  BY DEF IInv, TypeOK, HandlerInv, SavedInv
<1>7. SettledNotPending'
  BY DEF IInv, TypeOK, HandlerInv, PendingInv, HeldInv, SettledNotPending
<1> QED BY <1>1, <1>2, <1>3, <1>4, <1>5, <1>6, <1>7 DEF IInv

LEMMA TakePendingIInv ==
  ASSUME IInv, NEW r \in Requests, TakePending(r)
  PROVE  IInv'
<1> USE DEF TakePending, Suspend, Expired, config, gateway, effects,
            input, loop, hook, client
<1>1. TypeOK'
  BY DEF IInv, TypeOK, HandlerInv, PcStates, AnswerKinds, CallKinds
<1>2. HandlerInv'
  BY DEF IInv, TypeOK, HandlerInv, Deciding
<1>3. PendingInv'
  BY DEF IInv, TypeOK, HandlerInv, PendingInv, Deciding
<1>4. HeldInv'
  BY DEF IInv, TypeOK, HandlerInv, HeldInv, PendingInv, Deciding
<1>5. BlocklistInv'
  BY DEF IInv, TypeOK, BlocklistInv, HeldInv
<1>6. SavedInv'
  BY DEF IInv, TypeOK, HandlerInv, SavedInv
<1>7. SettledNotPending'
  BY DEF IInv, TypeOK, HandlerInv, PendingInv, HeldInv, SettledNotPending
<1> QED BY <1>1, <1>2, <1>3, <1>4, <1>5, <1>6, <1>7 DEF IInv

LEMMA EnterLoopIInv ==
  ASSUME IInv, NEW r \in Requests, EnterLoop(r)
  PROVE  IInv'
<1> USE DEF EnterLoop, Suspend, config, gateway, effects,
            input, loop, hook, client
<1>1. TypeOK'
  BY DEF IInv, TypeOK, HandlerInv, PcStates, AnswerKinds, CallKinds
<1>2. HandlerInv'
  BY DEF IInv, TypeOK, HandlerInv, Deciding
<1>3. PendingInv'
  BY DEF IInv, TypeOK, HandlerInv, PendingInv, Deciding
<1>4. HeldInv'
  BY DEF IInv, TypeOK, HandlerInv, HeldInv, PendingInv, Deciding
<1>5. BlocklistInv'
  BY DEF IInv, TypeOK, BlocklistInv, HeldInv
<1>6. SavedInv'
  BY DEF IInv, TypeOK, HandlerInv, SavedInv
<1>7. SettledNotPending'
  BY DEF IInv, TypeOK, HandlerInv, PendingInv, HeldInv, SettledNotPending
<1> QED BY <1>1, <1>2, <1>3, <1>4, <1>5, <1>6, <1>7 DEF IInv

LEMMA ForwardReplyIInv ==
  ASSUME IInv, NEW r \in Requests, NEW k \in Responses, ForwardReply(r, k)
  PROVE  IInv'
<1> USE DEF ForwardReply, Finish, Shown, Responses, config, gateway, effects,
            input, loop, hook, client
<1>1. TypeOK'
  BY DEF IInv, TypeOK, HandlerInv, PcStates, AnswerKinds, CallKinds
<1>2. HandlerInv'
  BY DEF IInv, TypeOK, HandlerInv, Deciding
<1>3. PendingInv'
  BY DEF IInv, TypeOK, HandlerInv, PendingInv, Deciding
<1>4. HeldInv'
  BY DEF IInv, TypeOK, HandlerInv, HeldInv, PendingInv, Deciding
<1>5. BlocklistInv'
  BY DEF IInv, TypeOK, BlocklistInv, HeldInv
<1>6. SavedInv'
  BY DEF IInv, TypeOK, HandlerInv, SavedInv
<1>7. SettledNotPending'
  BY DEF IInv, TypeOK, HandlerInv, PendingInv, HeldInv, SettledNotPending
<1> QED BY <1>1, <1>2, <1>3, <1>4, <1>5, <1>6, <1>7 DEF IInv

LEMMA FinalReplyIInv ==
  ASSUME IInv, NEW r \in Requests, NEW k \in Responses, FinalReply(r, k)
  PROVE  IInv'
<1> USE DEF FinalReply, Finish, Shown, Responses, config, gateway, effects,
            input, loop, hook, client
<1>1. TypeOK'
  BY DEF IInv, TypeOK, HandlerInv, PcStates, AnswerKinds, CallKinds
<1>2. HandlerInv'
  BY DEF IInv, TypeOK, HandlerInv, Deciding
<1>3. PendingInv'
  BY DEF IInv, TypeOK, HandlerInv, PendingInv, Deciding
<1>4. HeldInv'
  BY DEF IInv, TypeOK, HandlerInv, HeldInv, PendingInv, Deciding
<1>5. BlocklistInv'
  BY DEF IInv, TypeOK, BlocklistInv, HeldInv
<1>6. SavedInv'
  BY DEF IInv, TypeOK, HandlerInv, SavedInv
<1>7. SettledNotPending'
  BY DEF IInv, TypeOK, HandlerInv, PendingInv, HeldInv, SettledNotPending
<1> QED BY <1>1, <1>2, <1>3, <1>4, <1>5, <1>6, <1>7 DEF IInv

LEMMA InterceptReplyIInv ==
  ASSUME IInv, NEW r \in Requests, NEW k \in Responses, InterceptReply(r, k)
  PROVE  IInv'
<1> USE DEF InterceptReply, Suspend, Responses, config, gateway, effects,
            input, loop, hook, client
<1>1. TypeOK'
  BY DEF IInv, TypeOK, HandlerInv, PcStates, AnswerKinds, CallKinds
<1>2. HandlerInv'
  BY DEF IInv, TypeOK, HandlerInv, Deciding
<1>3. PendingInv'
  BY DEF IInv, TypeOK, HandlerInv, PendingInv, Deciding
<1>4. HeldInv'
  BY DEF IInv, TypeOK, HandlerInv, HeldInv, PendingInv, Deciding
<1>5. BlocklistInv'
  BY DEF IInv, TypeOK, BlocklistInv, HeldInv
<1>6. SavedInv'
  BY DEF IInv, TypeOK, HandlerInv, SavedInv
<1>7. SettledNotPending'
  BY DEF IInv, TypeOK, HandlerInv, PendingInv, HeldInv, SettledNotPending
<1> QED BY <1>1, <1>2, <1>3, <1>4, <1>5, <1>6, <1>7 DEF IInv

LEMMA McpReplyIInv ==
  ASSUME IInv, NEW r \in Requests, McpReply(r)
  PROVE  IInv'
<1> USE DEF McpReply, Suspend, Finish, config, gateway, effects,
            input, loop, hook, client
<1>1. TypeOK'
  <2>1. iter' \in [Requests -> 0..MaxIterations]
    <3>1. iter[r] < MaxIterations /\ iter \in [Requests -> 0..MaxIterations]
      BY DEF IInv, TypeOK, HandlerInv
    <3>2. iter[r] + 1 \in 0..MaxIterations
      BY <3>1
    <3> QED BY <3>1, <3>2
  <2>2. pc' \in [Requests -> PcStates]
    BY DEF IInv, TypeOK, PcStates
  <2>3. answer' \in [Requests -> AnswerKinds]
    BY DEF IInv, TypeOK, AnswerKinds
  <2>4. calls' \in [Requests -> CallKinds]
    BY DEF IInv, TypeOK
  <2>5. goalOwed' \in [Sessions -> BOOLEAN]
    BY DEF IInv, TypeOK
  <2> QED BY <2>1, <2>2, <2>3, <2>4, <2>5 DEF IInv, TypeOK
<1>2. HandlerInv'
  BY DEF IInv, TypeOK, HandlerInv, Deciding
<1>3. PendingInv'
  BY DEF IInv, TypeOK, HandlerInv, PendingInv, Deciding
<1>4. HeldInv'
  BY DEF IInv, TypeOK, HandlerInv, HeldInv, PendingInv, Deciding
<1>5. BlocklistInv'
  BY DEF IInv, TypeOK, BlocklistInv, HeldInv
<1>6. SavedInv'
  BY DEF IInv, TypeOK, HandlerInv, SavedInv
<1>7. SettledNotPending'
  BY DEF IInv, TypeOK, HandlerInv, PendingInv, HeldInv, SettledNotPending
<1> QED BY <1>1, <1>2, <1>3, <1>4, <1>5, <1>6, <1>7 DEF IInv

LEMMA McpRaiseIInv ==
  ASSUME IInv, NEW r \in Requests, McpRaise(r)
  PROVE  IInv'
<1> USE DEF McpRaise, Finish, config, gateway, effects,
            input, loop, hook, client
<1>1. TypeOK'
  BY DEF IInv, TypeOK, HandlerInv, PcStates, AnswerKinds, CallKinds
<1>2. HandlerInv'
  BY DEF IInv, TypeOK, HandlerInv, Deciding
<1>3. PendingInv'
  BY DEF IInv, TypeOK, HandlerInv, PendingInv, Deciding
<1>4. HeldInv'
  BY DEF IInv, TypeOK, HandlerInv, HeldInv, PendingInv, Deciding
<1>5. BlocklistInv'
  BY DEF IInv, TypeOK, BlocklistInv, HeldInv
<1>6. SavedInv'
  BY DEF IInv, TypeOK, HandlerInv, SavedInv
<1>7. SettledNotPending'
  BY DEF IInv, TypeOK, HandlerInv, PendingInv, HeldInv, SettledNotPending
<1> QED BY <1>1, <1>2, <1>3, <1>4, <1>5, <1>6, <1>7 DEF IInv

LEMMA DeferReplyIInv ==
  ASSUME IInv, NEW r \in Requests, DeferReply(r)
  PROVE  IInv'
<1> USE DEF DeferReply, SetPending, Finish, Expired, config, gateway, effects,
            input, loop, hook, client
<1>1. TypeOK'
  BY DEF IInv, TypeOK, HandlerInv, PcStates, AnswerKinds, CallKinds
<1>2. HandlerInv'
  BY DEF IInv, TypeOK, HandlerInv, Deciding
<1>3. PendingInv'
  BY DEF IInv, TypeOK, HandlerInv, PendingInv, Deciding
<1>4. HeldInv'
  BY DEF IInv, TypeOK, HandlerInv, HeldInv, PendingInv, Deciding
<1>5. BlocklistInv'
  BY DEF IInv, TypeOK, BlocklistInv, HeldInv
<1>6. SavedInv'
  BY DEF IInv, TypeOK, HandlerInv, SavedInv
<1>7. SettledNotPending'
  BY DEF IInv, TypeOK, HandlerInv, PendingInv, HeldInv, SettledNotPending
<1> QED BY <1>1, <1>2, <1>3, <1>4, <1>5, <1>6, <1>7 DEF IInv

LEMMA DirectHookReplyIInv ==
  ASSUME IInv, NEW r \in Requests, DirectHookReply(r)
  PROVE  IInv'
<1> USE DEF DirectHookReply, Suspend, config, gateway, effects,
            input, loop, hook, client
<1>1. TypeOK'
  BY DEF IInv, TypeOK, HandlerInv, PcStates, AnswerKinds, CallKinds
<1>2. HandlerInv'
  BY DEF IInv, TypeOK, HandlerInv, Deciding
<1>3. PendingInv'
  BY DEF IInv, TypeOK, HandlerInv, PendingInv, Deciding
<1>4. HeldInv'
  BY DEF IInv, TypeOK, HandlerInv, HeldInv, PendingInv, Deciding
<1>5. BlocklistInv'
  BY DEF IInv, TypeOK, BlocklistInv, HeldInv
<1>6. SavedInv'
  BY DEF IInv, TypeOK, HandlerInv, SavedInv
<1>7. SettledNotPending'
  BY DEF IInv, TypeOK, HandlerInv, PendingInv, HeldInv, SettledNotPending
<1> QED BY <1>1, <1>2, <1>3, <1>4, <1>5, <1>6, <1>7 DEF IInv

LEMMA HookErrorIInv ==
  ASSUME IInv, NEW r \in Requests, HookError(r)
  PROVE  IInv'
<1> USE DEF HookError, ClearPending, Finish, Deciding, config, gateway, effects,
            input, loop, hook, client
<1>1. TypeOK'
  BY DEF IInv, TypeOK, HandlerInv, PcStates, AnswerKinds, CallKinds
<1>2. HandlerInv'
  BY DEF IInv, TypeOK, HandlerInv, Deciding
<1>3. PendingInv'
  BY DEF IInv, TypeOK, HandlerInv, PendingInv, Deciding
<1>4. HeldInv'
  BY DEF IInv, TypeOK, HandlerInv, HeldInv, PendingInv, Deciding
<1>5. BlocklistInv'
  BY DEF IInv, TypeOK, BlocklistInv, HeldInv
<1>6. SavedInv'
  BY DEF IInv, TypeOK, HandlerInv, SavedInv
<1>7. SettledNotPending'
  BY DEF IInv, TypeOK, HandlerInv, PendingInv, HeldInv, SettledNotPending
<1> QED BY <1>1, <1>2, <1>3, <1>4, <1>5, <1>6, <1>7 DEF IInv

LEMMA HookAllowIInv ==
  ASSUME IInv, NEW r \in Requests, NEW files \in BOOLEAN, NEW updates \in BOOLEAN, HookAllow(r, files, updates)
  PROVE  IInv'
<1> USE DEF HookAllow, ClearPending, Finish, Deciding, config, gateway, effects,
            input, loop, hook, client
<1>1. TypeOK'
  BY DEF IInv, TypeOK, HandlerInv, PcStates, AnswerKinds, CallKinds
<1>2. HandlerInv'
  BY DEF IInv, TypeOK, HandlerInv, Deciding
<1>3. PendingInv'
  BY DEF IInv, TypeOK, HandlerInv, PendingInv, Deciding
<1>4. HeldInv'
  BY DEF IInv, TypeOK, HandlerInv, HeldInv, PendingInv, Deciding
<1>5. BlocklistInv'
  BY DEF IInv, TypeOK, BlocklistInv, HeldInv
<1>6. SavedInv'
  BY DEF IInv, TypeOK, HandlerInv, SavedInv
<1>7. SettledNotPending'
  BY DEF IInv, TypeOK, HandlerInv, PendingInv, HeldInv, SettledNotPending
<1> QED BY <1>1, <1>2, <1>3, <1>4, <1>5, <1>6, <1>7 DEF IInv

LEMMA HookAllowRaisesIInv ==
  ASSUME IInv, NEW r \in Requests, NEW file \in Requests \cup {None},
         HookAllowRaises(r, file)
  PROVE  IInv'
<1> USE DEF HookAllowRaises, ClearPending, Finish, Deciding, config, gateway, effects,
            input, loop, hook, client
<1>1. TypeOK'
  BY DEF IInv, TypeOK, HandlerInv, PcStates, AnswerKinds, CallKinds
<1>2. HandlerInv'
  BY DEF IInv, TypeOK, HandlerInv, Deciding
<1>3. PendingInv'
  BY DEF IInv, TypeOK, HandlerInv, PendingInv, Deciding
<1>4. HeldInv'
  BY DEF IInv, TypeOK, HandlerInv, HeldInv, PendingInv, Deciding
<1>5. BlocklistInv'
  BY DEF IInv, TypeOK, BlocklistInv, HeldInv
<1>6. SavedInv'
  BY DEF IInv, TypeOK, HandlerInv, SavedInv
<1>7. SettledNotPending'
  BY DEF IInv, TypeOK, HandlerInv, PendingInv, HeldInv, SettledNotPending
<1> QED BY <1>1, <1>2, <1>3, <1>4, <1>5, <1>6, <1>7 DEF IInv

LEMMA HookAllowMalformedIInv ==
  ASSUME IInv, NEW r \in Requests, HookAllowMalformed(r)
  PROVE  IInv'
<1> USE DEF HookAllowMalformed, Finish, Deciding, config, gateway, effects,
            input, loop, hook, client
<1>1. TypeOK'
  BY DEF IInv, TypeOK, HandlerInv, PcStates, AnswerKinds, CallKinds
<1>2. HandlerInv'
  BY DEF IInv, TypeOK, HandlerInv, Deciding
<1>3. PendingInv'
  BY DEF IInv, TypeOK, HandlerInv, PendingInv, Deciding
<1>4. HeldInv'
  BY DEF IInv, TypeOK, HandlerInv, HeldInv, PendingInv, Deciding
<1>5. BlocklistInv'
  BY DEF IInv, TypeOK, BlocklistInv, HeldInv
<1>6. SavedInv'
  BY DEF IInv, TypeOK, HandlerInv, SavedInv
<1>7. SettledNotPending'
  BY DEF IInv, TypeOK, HandlerInv, PendingInv, HeldInv, SettledNotPending
<1> QED BY <1>1, <1>2, <1>3, <1>4, <1>5, <1>6, <1>7 DEF IInv

LEMMA HookBlockIInv ==
  ASSUME IInv, NEW r \in Requests, HookBlock(r)
  PROVE  IInv'
<1> USE DEF HookBlock, ClearPending, Suspend, Deciding, config, gateway, effects,
            input, loop, hook, client
<1>1. TypeOK'
  BY DEF IInv, TypeOK, HandlerInv, PcStates, AnswerKinds, CallKinds
<1>2. HandlerInv'
  BY DEF IInv, TypeOK, HandlerInv, Deciding
<1>3. PendingInv'
  BY DEF IInv, TypeOK, HandlerInv, PendingInv, Deciding
<1>4. HeldInv'
  BY DEF IInv, TypeOK, HandlerInv, HeldInv, PendingInv, Deciding
<1>5. BlocklistInv'
  BY DEF IInv, TypeOK, BlocklistInv, HeldInv
<1>6. SavedInv'
  BY DEF IInv, TypeOK, HandlerInv, SavedInv
<1>7. SettledNotPending'
  BY DEF IInv, TypeOK, HandlerInv, PendingInv, HeldInv, SettledNotPending
<1> QED BY <1>1, <1>2, <1>3, <1>4, <1>5, <1>6, <1>7 DEF IInv

LEMMA BlockReplyIInv ==
  ASSUME IInv, NEW r \in Requests, NEW k \in Responses, BlockReply(r, k)
  PROVE  IInv'
<1> USE DEF BlockReply, Finish, Shown, Responses, config, gateway, effects,
            input, loop, hook, client
<1>1. TypeOK'
  BY DEF IInv, TypeOK, HandlerInv, PcStates, AnswerKinds, CallKinds
<1>2. HandlerInv'
  BY DEF IInv, TypeOK, HandlerInv, Deciding
<1>3. PendingInv'
  BY DEF IInv, TypeOK, HandlerInv, PendingInv, Deciding
<1>4. HeldInv'
  BY DEF IInv, TypeOK, HandlerInv, HeldInv, PendingInv, Deciding
<1>5. BlocklistInv'
  BY DEF IInv, TypeOK, BlocklistInv, HeldInv
<1>6. SavedInv'
  BY DEF IInv, TypeOK, HandlerInv, SavedInv
<1>7. SettledNotPending'
  BY DEF IInv, TypeOK, HandlerInv, PendingInv, HeldInv, SettledNotPending
<1> QED BY <1>1, <1>2, <1>3, <1>4, <1>5, <1>6, <1>7 DEF IInv

LEMMA NextIInv == IInv /\ [Next]_vars => IInv'
<1> SUFFICES ASSUME IInv, [Next]_vars PROVE IInv'
  OBVIOUS
<1>1. ASSUME NEW r \in Requests, NEW g \in BOOLEAN, Arrive(r, g) PROVE IInv'
  BY <1>1, ArriveIInv
<1>2. ASSUME NEW r \in Requests, Dispatch(r) PROVE IInv'
  BY <1>2, ForwardIInv, TakePendingIInv, EnterLoopIInv DEF Dispatch
<1>3. ASSUME NEW r \in Requests, UpstreamAnswers(r) PROVE IInv'
  BY <1>3, ForwardReplyIInv, FinalReplyIInv, InterceptReplyIInv, BlockReplyIInv,
     DeferReplyIInv, DirectHookReplyIInv DEF UpstreamAnswers
<1>4. ASSUME NEW r \in Requests, McpAnswers(r) PROVE IInv'
  BY <1>4, McpReplyIInv, McpRaiseIInv DEF McpAnswers
<1>5. ASSUME NEW r \in Requests, HookAnswers(r) PROVE IInv'
  BY <1>5, HookErrorIInv, HookAllowIInv, HookAllowRaisesIInv, HookBlockIInv,
     HookAllowMalformedIInv DEF HookAnswers, HookSettles
<1>6. CASE ReloadSettings \/ ReplaceInterceptor \/ Tick \/ UNCHANGED vars
  BY <1>6, EnvironmentIInv
<1> QED BY <1>1, <1>2, <1>3, <1>4, <1>5, <1>6 DEF Next, Handler

(* Every reachable state satisfies the inductive invariant. *)
THEOREM Invariance == Spec => []IInv
<1> QED BY InitIInv, NextIInv, PTL DEF Spec

(* Type correctness of the handler's and the gateway's state. *)
THEOREM TypeCorrect == Spec => []TypeOK
<1>1. IInv => TypeOK
  BY DEF IInv
<1> QED BY Invariance, <1>1, PTL

(* A batch the hook has settled is never found again by another request,    *)
(* whatever the interleaving of the session's requests; an allow that raises *)
(* before clear_pending settles nothing.                                    *)
THEOREM SettledIsGone == Spec => []SettledNotPending
<1>1. IInv => SettledNotPending
  BY DEF IInv
<1> QED BY Invariance, <1>1, PTL

(* Saved responses, decisions and control files never cross sessions. *)
THEOREM SessionsAreIsolated == Spec => []SessionIsolation
<1>1. IInv => SessionIsolation
  BY DEF IInv, PendingInv, HeldInv, BlocklistInv, SessionIsolation
<1> QED BY Invariance, <1>1, PTL

(* No saved response is released without an allow of the same request. *)
THEOREM ReleasesAreBacked == Spec => []ReleaseIsBacked
<1>1. IInv => ReleaseIsBacked
  BY DEF IInv, SavedInv, PendingInv, ReleaseIsBacked
<1> QED BY Invariance, <1>1, PTL

(* One step of a handler delivers client calls, with the hook enabled, only  *)
(* in the ways GatedWhileOn lists.                                          *)
LEMMA HandlerIsGated ==
  ASSUME IInv, hookOn, NEW q \in Requests, Handler(q),
         NEW r \in Requests, Delivers(r)
  PROVE  verdict'[r] = "allow" \/ verdict[r] = "block" \/ pc[r] = "forward"
<1> USE DEF Delivers, Finish, Suspend, client, hook
<1>1. CASE Dispatch(q)
  BY <1>1 DEF Dispatch, Forward, TakePending, EnterLoop, IInv, TypeOK
<1>2. CASE UpstreamAnswers(q)
  <2>1. CASE DeferReply(q) \/ DirectHookReply(q)
    BY <2>1 DEF DeferReply, DirectHookReply, IInv, TypeOK
  <2>2. ASSUME NEW k \in Responses, ForwardReply(q, k) PROVE pc[r] = "forward"
    BY <2>2 DEF ForwardReply, IInv, TypeOK
  <2>3. ASSUME NEW k \in Responses, FinalReply(q, k) \/ InterceptReply(q, k)
        PROVE  FALSE
    BY <2>3 DEF FinalReply, InterceptReply, Shown, IInv, TypeOK, ResponsesTo
  <2>4. ASSUME NEW k \in Responses, BlockReply(q, k) PROVE verdict[r] = "block"
    BY <2>4 DEF BlockReply, IInv, TypeOK, HandlerInv
  <2> QED BY <1>2, <2>1, <2>2, <2>3, <2>4 DEF UpstreamAnswers
<1>3. CASE McpAnswers(q)
  BY <1>3 DEF McpAnswers, McpReply, McpRaise, IInv, TypeOK, HandlerInv
<1>4. CASE HookAnswers(q)
  BY <1>4 DEF HookAnswers, HookSettles, HookError, HookAllow, HookAllowRaises,
              HookBlock, HookAllowMalformed, IInv, TypeOK
<1> QED BY <1>1, <1>2, <1>3, <1>4 DEF Handler

(* With the hook enabled, no client call is delivered around the gate. *)
THEOREM CallsAreGated == Spec => GatedWhileOn
<1>1. IInv /\ [Next]_vars =>
        [\A r \in Requests : Delivers(r) /\ hookOn =>
           verdict'[r] = "allow" \/ verdict[r] = "block" \/ pc[r] = "forward"]_vars
  <2> SUFFICES ASSUME IInv, Next, hookOn, NEW r \in Requests, Delivers(r)
               PROVE  verdict'[r] = "allow" \/ verdict[r] = "block" \/ pc[r] = "forward"
    OBVIOUS
  <2>1. ASSUME NEW q \in Requests, Handler(q)
        PROVE  verdict'[r] = "allow" \/ verdict[r] = "block" \/ pc[r] = "forward"
    BY <2>1, HandlerIsGated
  <2>2. CASE \E q \in Requests, g \in BOOLEAN : Arrive(q, g)
    BY <2>2 DEF Arrive, Suspend, Delivers, IInv, TypeOK
  <2>3. CASE ReloadSettings \/ ReplaceInterceptor \/ Tick
    BY <2>3 DEF ReloadSettings, ReplaceInterceptor, Tick, Delivers
  <2> QED BY <2>1, <2>2, <2>3 DEF Next
<1> QED BY <1>1, Invariance, PTL DEF Spec, GatedWhileOn

-----------------------------------------------------------------------------
(* The refinement: with a disciplined client the handlers implement          *)
(* ToolCallGate.  What the client's discipline adds to the invariant:        *)

(* One request of a session is in flight. *)
OneInFlight ==
  \A q, r \in Requests :
    SessionOf[q] = SessionOf[r] /\ q # r =>
      pc[q] \in {"idle", "done"} \/ pc[r] \in {"idle", "done"}

(* A batch is taken by one request, which decides it or has decided it, and  *)
(* by requests that an allow of the wrong shape made crash before.          *)
TakenOnce ==
  \A q, r \in Requests : held[q] # None /\ held[q] = held[r] =>
    q = r \/ verdict[q] = "malformed" \/ verdict[r] = "malformed"

TakenIsDecided ==
  \A r \in Requests : held[r] # None => Deciding(r) \/ verdict[r] # "none"

(* While the hook runs, its batch is still saved unless it was swept. *)
HookPending ==
  \A r \in Requests : pc[r] = "hook" => pending[SessionOf[r]] \in {held[r], None}

(* A saved body is edited by an allow. *)
EditedInv == \A b \in edited : Decided(b, {"allow"})

DInv == /\ IInv
        /\ OneInFlight
        /\ TakenOnce
        /\ TakenIsDecided
        /\ HookPending
        /\ EditedInv

-----------------------------------------------------------------------------
(* Steps of the gate *)

(* What becomes of one batch, as ToolCallGate says it. *)
GateStep(b) ==
  \/ Stage(b)' = Stage(b) /\ Receivers(b)' = Receivers(b)
  \/ Stage(b) = "unseen" /\ Stage(b)' = "held" /\ Receivers(b)' = {}
  \/ /\ Stage(b) = "held" /\ Stage(b)' = "granted"
     /\ Receivers(b)' = {} \/ \E c \in Requests : Receivers(b)' = {c}
  \/ Stage(b) = "held" /\ Stage(b)' \in {"refused", "dropped"} /\ Receivers(b)' = {}

LEMMA GateSteps == (\A b \in Requests : GateStep(b)) => Gate!Next
BY DEF GateStep, Gate!Next, Gate!Stay, Gate!Hold, Gate!Grant, Gate!Reject

LEMMA GateStays == UNCHANGED vars => UNCHANGED Gate!vars
BY DEF vars, gateway, hook, client, Gate!vars, Stage, Receivers, Decided, Withheld, Deciding

LEMMA GateStarts == Init => Gate!Init
<1> SUFFICES ASSUME Init PROVE Gate!Init
  OBVIOUS
<1>1. ASSUME NEW b \in Requests PROVE Stage(b) = "unseen" /\ Receivers(b) = {}
  <2>1. \A vs : ~ Decided(b, vs)
    BY DEF Init, Decided
  <2>2. ~ Withheld(b) /\ answer[b] # "synthetic"
    BY DEF Init, Withheld, Deciding
  <2>3. Receivers(b) = {}
    BY DEF Init, Receivers
  <2> QED BY <2>1, <2>2, <2>3 DEF Stage
<1> QED BY <1>1 DEF Gate!Init

(* A batch whose decisions and receivers stay keeps its stage, or is        *)
(* discarded from the store undecided.                                      *)
LEMMA QuietGate ==
  ASSUME IInv, NEW b \in Requests,
         Decided(b, {"allow"})' <=> Decided(b, {"allow"}),
         Decided(b, {"block", "error"})' <=> Decided(b, {"block", "error"}),
         Decided(b, {"malformed"})' <=> Decided(b, {"malformed"}),
         Withheld(b)' => Withheld(b),
         Withheld(b) => Withheld(b)' \/ pending[SessionOf[b]] = b,
         answer'[b] = "synthetic" <=> answer[b] = "synthetic",
         Receivers(b)' = Receivers(b)
  PROVE  GateStep(b)
<1>1. CASE Decided(b, {"allow"}) \/ Decided(b, {"block", "error"})
  BY <1>1 DEF Stage, GateStep
<1>2. CASE ~ Decided(b, {"allow"}) /\ ~ Decided(b, {"block", "error"})
  <2>1. pending[SessionOf[b]] = b => answer[b] = "synthetic"
    BY DEF IInv, PendingInv
  <2>2. Receivers(b) = {}
    BY <1>2 DEF Receivers, Decided, IInv, SavedInv
  <2>3. Stage(b) = IF Withheld(b) THEN "held"
                   ELSE IF answer[b] = "synthetic" \/ Decided(b, {"malformed"})
                          THEN "dropped" ELSE "unseen"
    BY <1>2 DEF Stage
  <2>4. Stage(b)' = IF Withheld(b)' THEN "held"
                    ELSE IF answer'[b] = "synthetic" \/ Decided(b, {"malformed"})'
                           THEN "dropped" ELSE "unseen"
    BY <1>2 DEF Stage
  <2> QED BY <2>1, <2>2, <2>3, <2>4 DEF GateStep
<1> QED BY <1>1, <1>2

(* A step of r that decides nothing and saves no new batch. *)
LEMMA PassGate ==
  ASSUME IInv, NEW r \in Requests, NEW b \in Requests,
         UNCHANGED hook,
         \A q \in Requests \ {r} : pc'[q] = pc[q] /\ answer'[q] = answer[q],
         ~ Deciding(r), ~ Deciding(r)',
         answer[r] # "saved", answer'[r] # "saved",
         answer'[b] = "synthetic" <=> answer[b] = "synthetic",
         pending'[SessionOf[b]] = b => pending[SessionOf[b]] = b
  PROVE  GateStep(b)
<1>1. held' = held /\ verdict' = verdict
  BY DEF hook
<1>2. \A q \in Requests : Deciding(q)' <=> Deciding(q)
  BY DEF Deciding
<1>3. \A q \in Requests : answer'[q] = "saved" <=> answer[q] = "saved"
  OBVIOUS
<1>4. Receivers(b)' = Receivers(b)
  BY <1>1, <1>3 DEF Receivers
<1>5. /\ Decided(b, {"allow"})' <=> Decided(b, {"allow"})
      /\ Decided(b, {"block", "error"})' <=> Decided(b, {"block", "error"})
      /\ Decided(b, {"malformed"})' <=> Decided(b, {"malformed"})
  BY <1>1 DEF Decided
<1>6. Withheld(b)' => Withheld(b)
  BY <1>1, <1>2 DEF Withheld
<1>7. Withheld(b) => Withheld(b)' \/ pending[SessionOf[b]] = b
  BY <1>1, <1>2 DEF Withheld
<1> QED BY <1>4, <1>5, <1>6, <1>7, QuietGate

-----------------------------------------------------------------------------
(* Each action makes a step of the gate *)

LEMMA ArriveGate ==
  ASSUME IInv, NEW r \in Requests, NEW g \in BOOLEAN, Arrive(r, g), NEW b \in Requests
  PROVE  GateStep(b)
<1>1. ~ Deciding(r) /\ ~ Deciding(r)' /\ answer[r] = "none"
  BY DEF Arrive, Suspend, Deciding, IInv, TypeOK, HandlerInv
<1>2. UNCHANGED hook /\ UNCHANGED client /\ UNCHANGED gateway
  BY DEF Arrive, Suspend
<1>3. \A q \in Requests \ {r} : pc'[q] = pc[q]
  BY DEF Arrive, Suspend, IInv, TypeOK
<1> QED BY <1>1, <1>2, <1>3, PassGate DEF client, gateway

LEMMA EnvironmentGate ==
  ASSUME IInv, ReloadSettings \/ ReplaceInterceptor \/ Tick \/ UNCHANGED vars,
         NEW b \in Requests
  PROVE  GateStep(b)
<1>1. UNCHANGED <<gateway, pc, hook, client>>
  BY DEF ReloadSettings, ReplaceInterceptor, Tick, vars
<1> QED BY <1>1 DEF GateStep, Stage, Receivers, Decided, Withheld, Deciding,
                   gateway, hook, client

LEMMA DispatchGate ==
  ASSUME IInv, NEW r \in Requests, Forward(r) \/ EnterLoop(r), NEW b \in Requests
  PROVE  GateStep(b)
<1>1. ~ Deciding(r) /\ ~ Deciding(r)' /\ answer[r] = "none"
  BY DEF Forward, EnterLoop, Suspend, Deciding, IInv, TypeOK, HandlerInv
<1>2. UNCHANGED hook /\ UNCHANGED client
  BY DEF Forward, EnterLoop, Suspend
<1>3. \A q \in Requests \ {r} : pc'[q] = pc[q]
  BY DEF Forward, EnterLoop, Suspend, IInv, TypeOK
<1>4. pending'[SessionOf[b]] = b => pending[SessionOf[b]] = b
  BY DEF Forward, EnterLoop, gateway, IInv, TypeOK
<1> QED BY <1>1, <1>2, <1>3, <1>4, PassGate DEF client

LEMMA TakePendingGate ==
  ASSUME IInv, NEW r \in Requests, TakePending(r), NEW b \in Requests
  PROVE  GateStep(b)
<1> DEFINE s == SessionOf[r]
<1>1. /\ pc[r] = "body" /\ pc' = [pc EXCEPT ![r] = "hook"]
      /\ held' = [held EXCEPT ![r] = pending[s]]
      /\ verdict' = verdict /\ answer' = answer /\ pending' = pending
      /\ pending[s] # None
  BY DEF TakePending, Suspend, client, gateway
<1>2. held[r] = None /\ verdict[r] = "none" /\ answer[r] = "none"
  BY <1>1 DEF IInv, TypeOK, HandlerInv
<1>3. SessionOf[pending[s]] = s
  BY <1>1 DEF IInv, PendingInv
<1>4. /\ \A q \in Requests \ {r} : held'[q] = held[q] /\ pc'[q] = pc[q]
      /\ held'[r] = pending[s]
  BY <1>1 DEF IInv, TypeOK
<1> HIDE DEF s
<1>5. Receivers(b)' = Receivers(b)
  BY <1>1, <1>2, <1>4 DEF Receivers
<1>6. /\ Decided(b, {"allow"})' <=> Decided(b, {"allow"})
      /\ Decided(b, {"block", "error"})' <=> Decided(b, {"block", "error"})
      /\ Decided(b, {"malformed"})' <=> Decided(b, {"malformed"})
  BY <1>1, <1>2, <1>4 DEF Decided
<1>7. Withheld(b)' => Withheld(b)
  BY <1>1, <1>2, <1>3, <1>4 DEF Withheld, Deciding
<1>8. Withheld(b) => Withheld(b)'
  BY <1>1, <1>2, <1>4 DEF Withheld, Deciding
<1> QED BY <1>1, <1>5, <1>6, <1>7, <1>8, QuietGate

LEMMA ReplyGate ==
  ASSUME IInv, NEW r \in Requests, NEW k \in Responses, NEW b \in Requests,
         \/ ForwardReply(r, k) \/ FinalReply(r, k)
         \/ InterceptReply(r, k) \/ BlockReply(r, k)
         \/ McpReply(r) \/ McpRaise(r)
  PROVE  GateStep(b)
<1>1. /\ pc[r] \in {"forward", "upstream", "afterBlock", "mcp"}
      /\ UNCHANGED <<gateway, hook>>
  BY DEF ForwardReply, FinalReply, InterceptReply, BlockReply, McpReply, McpRaise
<1>2. answer[r] = "none"
  BY <1>1 DEF IInv, HandlerInv
<1>3. \/ \E where \in {"mcp", "upstream"} : Suspend(r, where)
      \/ \E kind \in {"model", "badGateway", "crash"}, shown \in CallKinds \cup {last[r]} :
           Finish(r, kind, shown)
  <2>1. CASE InterceptReply(r, k) \/ McpReply(r)
    BY <2>1 DEF InterceptReply, McpReply
  <2>2. CASE ForwardReply(r, k) \/ FinalReply(r, k) \/ BlockReply(r, k) \/ McpRaise(r)
    <3>1. Shown(k) \in CallKinds /\ "text" \in CallKinds
      BY DEF Shown, CallKinds
    <3> QED BY <2>2, <3>1 DEF ForwardReply, FinalReply, BlockReply, McpRaise
  <2> QED BY <2>1, <2>2
<1>4. /\ \A q \in Requests \ {r} : pc'[q] = pc[q] /\ answer'[q] = answer[q]
      /\ pc'[r] \in {"mcp", "upstream", "done"}
      /\ answer'[r] \in {"none", "model", "badGateway", "crash"}
  BY <1>2, <1>3 DEF Suspend, Finish, client, IInv, TypeOK
<1>5. answer'[b] = "synthetic" <=> answer[b] = "synthetic"
  BY <1>2, <1>4
<1>6. ~ Deciding(r) /\ ~ Deciding(r)'
  BY <1>1, <1>4 DEF Deciding
<1> QED BY <1>1, <1>2, <1>4, <1>5, <1>6, PassGate DEF gateway

(* Nobody knows the batch of a request that is not done. *)
LEMMA FreshIsUnseen ==
  ASSUME IInv, NEW r \in Requests, pc[r] = "upstream"
  PROVE  /\ Stage(r) = "unseen"
         /\ \A q \in Requests : held[q] # r
<1>1. held[r] = None /\ answer[r] = "none"
  BY DEF IInv, HandlerInv
<1>2. \A q \in Requests : held[q] # r
  BY <1>1 DEF IInv, HeldInv
<1>3. pending[SessionOf[r]] # r
  BY DEF IInv, PendingInv
<1> QED BY <1>1, <1>2, <1>3 DEF Stage, Decided, Withheld

LEMMA DeferReplyGate ==
  ASSUME IInv, NEW r \in Requests, DeferReply(r), NEW b \in Requests
  PROVE  GateStep(b)
<1>1. /\ pc[r] = "upstream" /\ UNCHANGED hook
      /\ pc' = [pc EXCEPT ![r] = "done"]
      /\ answer' = [answer EXCEPT ![r] = "synthetic"]
  BY DEF DeferReply, Finish
<1>2. /\ pc'[r] = "done" /\ answer'[r] = "synthetic"
      /\ \A q \in Requests \ {r} : pc'[q] = pc[q] /\ answer'[q] = answer[q]
  BY <1>1 DEF IInv, TypeOK
<1>3. /\ pending'[SessionOf[r]] = r
      /\ \A s \in Sessions \ {SessionOf[r]} : pending'[s] \in {pending[s], None}
  BY DEF DeferReply, SetPending
<1>4. Stage(r) = "unseen" /\ \A q \in Requests : held[q] # r
  BY <1>1, FreshIsUnseen
<1>5. CASE b = r
  <2>1. Receivers(r)' = {} /\ ~ Decided(r, {"allow"})' /\ ~ Decided(r, {"block", "error"})'
    BY <1>1, <1>4 DEF Receivers, Decided, hook
  <2>2. Withheld(r)'
    BY <1>3 DEF Withheld
  <2>3. Stage(r)' = "held"
    BY <2>1, <2>2 DEF Stage
  <2> QED BY <1>4, <1>5, <2>1, <2>3 DEF GateStep
<1>6. CASE b # r
  <2>1. pending'[SessionOf[b]] = b => pending[SessionOf[b]] = b
    BY <1>3, <1>6
  <2>2. answer[r] = "none"
    BY <1>1 DEF IInv, HandlerInv
  <2> QED BY <1>1, <1>2, <1>6, <2>1, <2>2, PassGate DEF Deciding
<1> QED BY <1>5, <1>6

LEMMA DirectHookReplyGate ==
  ASSUME IInv, NEW r \in Requests, DirectHookReply(r), NEW b \in Requests
  PROVE  GateStep(b)
<1>1. /\ pc[r] = "upstream" /\ pc' = [pc EXCEPT ![r] = "directHook"]
      /\ held' = [held EXCEPT ![r] = r]
      /\ verdict' = verdict /\ answer' = answer /\ pending' = pending
  BY DEF DirectHookReply, Suspend, client, gateway
<1>2. held[r] = None /\ verdict[r] = "none" /\ answer[r] = "none"
  BY <1>1 DEF IInv, TypeOK, HandlerInv
<1>3. Stage(r) = "unseen" /\ \A q \in Requests : held[q] # r
  BY <1>1, FreshIsUnseen
<1>4. /\ \A q \in Requests \ {r} : held'[q] = held[q] /\ pc'[q] = pc[q]
      /\ held'[r] = r /\ pc'[r] = "directHook"
  BY <1>1 DEF IInv, TypeOK
<1>5. Receivers(b)' = Receivers(b)
  BY <1>1, <1>2, <1>4 DEF Receivers
<1>6. /\ Decided(b, {"allow"})' <=> Decided(b, {"allow"})
      /\ Decided(b, {"block", "error"})' <=> Decided(b, {"block", "error"})
      /\ Decided(b, {"malformed"})' <=> Decided(b, {"malformed"})
  BY <1>1, <1>2, <1>4 DEF Decided
<1>7. CASE b = r
  <2>1. ~ Decided(r, {"allow"}) /\ ~ Decided(r, {"block", "error"})
    BY <1>3 DEF Decided
  <2>2. Receivers(r)' = {}
    BY <1>1, <1>2, <1>3, <1>5, <1>7 DEF Receivers
  <2>3. Withheld(r)'
    BY <1>4 DEF Withheld, Deciding
  <2>4. Stage(r)' = "held"
    BY <1>6, <1>7, <2>1, <2>3 DEF Stage
  <2> QED BY <1>3, <1>7, <2>2, <2>4 DEF GateStep
<1>8. CASE b # r
  <2>1. Withheld(b)' <=> Withheld(b)
    BY <1>1, <1>2, <1>4, <1>8 DEF Withheld, Deciding
  <2> QED BY <1>1, <1>5, <1>6, <2>1, QuietGate
<1> QED BY <1>7, <1>8

(* What the hook answers that settle a batch have in common. *)
Decides(r) ==
  /\ Deciding(r)
  /\ ClearPending(r)
  /\ held' = held
  /\ \E v \in {"allow", "block", "error"}, a \in {"none", "saved", "hookError", "crash"} :
       /\ verdict' = [verdict EXCEPT ![r] = v]
       /\ answer' = [answer EXCEPT ![r] = a]
       /\ a = "saved" => v = "allow"
  /\ \E where \in {"afterBlock", "done"} : pc' = [pc EXCEPT ![r] = where]

LEMMA HookDecides ==
  ASSUME IInv, NEW r \in Requests, HookSettles(r)
  PROVE  Decides(r)
<1>1. CASE HookError(r)
  BY <1>1 DEF HookError, Finish, Decides
<1>2. ASSUME NEW files \in BOOLEAN, NEW updates \in BOOLEAN, HookAllow(r, files, updates)
      PROVE  Decides(r)
  BY <1>2 DEF HookAllow, Finish, Decides
<1>3. ASSUME NEW file \in Requests \cup {None}, HookAllowRaises(r, file)
      PROVE  Decides(r)
  BY <1>3 DEF HookAllowRaises, Finish, Decides
<1>4. CASE HookBlock(r)
  <2>1. answer[r] = "none"
    BY <1>4 DEF HookBlock, Deciding, IInv, HandlerInv
  <2>2. answer' = [answer EXCEPT ![r] = "none"]
    BY <1>4, <2>1 DEF HookBlock, Suspend, client, IInv, TypeOK
  <2> QED BY <1>4, <2>2 DEF HookBlock, Suspend, Decides
<1> QED BY <1>1, <1>2, <1>3, <1>4 DEF HookSettles

(* The decision settles the batch r holds and no other; a batch saved for   *)
(* the session meanwhile would be dropped.                                  *)
LEMMA DecideGate ==
  ASSUME IInv, TakenOnce, NEW r \in Requests, Decides(r), NEW b \in Requests
  PROVE  GateStep(b)
<1>1. PICK v \in {"allow", "block", "error"}, a \in {"none", "saved", "hookError", "crash"} :
        /\ verdict' = [verdict EXCEPT ![r] = v]
        /\ answer' = [answer EXCEPT ![r] = a]
        /\ a = "saved" => v = "allow"
  BY DEF Decides
<1>2. /\ verdict'[r] = v /\ answer'[r] = a
      /\ \A q \in Requests \ {r} : verdict'[q] = verdict[q] /\ answer'[q] = answer[q]
  BY <1>1 DEF IInv, TypeOK
<1>3. /\ pc'[r] \in {"afterBlock", "done"}
      /\ \A q \in Requests \ {r} : pc'[q] = pc[q]
  BY DEF Decides, IInv, TypeOK
<1>4. held[r] # None /\ verdict[r] = "none" /\ answer[r] = "none"
  BY DEF Decides, Deciding, IInv, HandlerInv
<1>5. held' = held /\ Deciding(r)
  BY DEF Decides
<1>6. \A s \in Sessions : pending'[s] \in {pending[s], None}
  BY DEF Decides, ClearPending, IInv, TypeOK
<1>7. ~ Deciding(r)' /\ \A q \in Requests \ {r} : Deciding(q)' <=> Deciding(q)
  BY <1>3 DEF Deciding
<1>8. CASE b = held[r]
  <2>1. /\ \A q \in Requests : held[q] = b => q = r \/ verdict[q] = "malformed"
        /\ \A q \in Requests : held[q] = b /\ answer[q] = "saved" => q = r
    BY <1>4, <1>8 DEF TakenOnce, IInv, SavedInv
  <2>2. ~ Decided(b, {"allow"}) /\ ~ Decided(b, {"block", "error"})
    BY <1>4, <2>1 DEF Decided
  <2>3. Stage(b) = "held"
    BY <1>5, <1>8, <2>2 DEF Stage, Withheld
  <2>4. Receivers(b)' = IF a = "saved" THEN {r} ELSE {}
    BY <1>2, <1>5, <1>8, <2>1 DEF Receivers
  <2>5. CASE v = "allow"
    <3>1. Stage(b)' = "granted"
      BY <1>2, <1>5, <1>8, <2>5 DEF Stage, Decided
    <3> QED BY <2>3, <2>4, <3>1 DEF GateStep
  <2>6. CASE v \in {"block", "error"}
    <3>1. ~ Decided(b, {"allow"})' /\ Decided(b, {"block", "error"})'
      BY <1>2, <1>5, <1>8, <2>1, <2>6 DEF Decided
    <3>2. Stage(b)' = "refused"
      BY <3>1 DEF Stage
    <3> QED BY <1>1, <2>3, <2>4, <2>6, <3>2 DEF GateStep
  <2> QED BY <2>5, <2>6
<1>9. CASE b # held[r]
  <2>1. Receivers(b)' = Receivers(b)
    BY <1>2, <1>5, <1>9 DEF Receivers
  <2>2. /\ Decided(b, {"allow"})' <=> Decided(b, {"allow"})
        /\ Decided(b, {"block", "error"})' <=> Decided(b, {"block", "error"})
        /\ Decided(b, {"malformed"})' <=> Decided(b, {"malformed"})
    BY <1>2, <1>5, <1>9 DEF Decided
  <2>3. Withheld(b)' => Withheld(b)
    BY <1>5, <1>6, <1>7 DEF Withheld
  <2>4. Withheld(b) => Withheld(b)' \/ pending[SessionOf[b]] = b
    BY <1>5, <1>7, <1>9 DEF Withheld
  <2>5. answer'[b] = "synthetic" <=> answer[b] = "synthetic"
    BY <1>2, <1>4
  <2> QED BY <2>1, <2>2, <2>3, <2>4, <2>5, QuietGate
<1> QED BY <1>8, <1>9

(* An allow of the wrong shape leaves a saved batch held, and one that was   *)
(* not saved is lost.                                                       *)
LEMMA MalformedGate ==
  ASSUME IInv, TakenOnce, NEW r \in Requests, HookAllowMalformed(r), NEW b \in Requests
  PROVE  GateStep(b)
<1>1. /\ verdict'[r] = "malformed" /\ answer'[r] = "crash" /\ pc'[r] = "done"
      /\ \A q \in Requests \ {r} : /\ verdict'[q] = verdict[q]
                                    /\ answer'[q] = answer[q]
                                    /\ pc'[q] = pc[q]
  BY DEF HookAllowMalformed, Finish, IInv, TypeOK
<1>2. held' = held /\ pending' = pending /\ Deciding(r)
  BY DEF HookAllowMalformed, gateway
<1>3. held[r] # None /\ verdict[r] = "none" /\ answer[r] = "none"
  BY <1>2 DEF IInv, HandlerInv, Deciding
<1>4. ~ Deciding(r)' /\ \A q \in Requests \ {r} : Deciding(q)' <=> Deciding(q)
  BY <1>1 DEF Deciding
<1>5. Receivers(b)' = Receivers(b)
  BY <1>1, <1>2, <1>3 DEF Receivers
<1>6. /\ Decided(b, {"allow"})' <=> Decided(b, {"allow"})
      /\ Decided(b, {"block", "error"})' <=> Decided(b, {"block", "error"})
  BY <1>1, <1>2, <1>3 DEF Decided
<1>7. Withheld(b)' => Withheld(b)
  BY <1>2, <1>4 DEF Withheld
<1>8. answer'[b] = "synthetic" <=> answer[b] = "synthetic"
  BY <1>1, <1>3
<1>9. CASE b = held[r]
  <2>1. /\ \A q \in Requests : held[q] = b => q = r \/ verdict[q] = "malformed"
        /\ \A q \in Requests : held[q] = b => answer[q] # "saved"
    BY <1>3, <1>9 DEF TakenOnce, IInv, SavedInv
  <2>2. ~ Decided(b, {"allow"}) /\ ~ Decided(b, {"block", "error"})
    BY <1>3, <2>1 DEF Decided
  <2>3. Stage(b) = "held"
    BY <1>2, <1>9, <2>2 DEF Stage, Withheld
  <2>4. Decided(b, {"malformed"})'
    BY <1>1, <1>2, <1>9 DEF Decided
  <2>5. Stage(b)' \in {"held", "dropped"}
    BY <1>6, <2>2, <2>4 DEF Stage
  <2>6. Receivers(b)' = {}
    BY <1>5, <2>1 DEF Receivers
  <2> QED BY <1>5, <2>3, <2>5, <2>6 DEF GateStep
<1>10. CASE b # held[r]
  <2>1. Decided(b, {"malformed"})' <=> Decided(b, {"malformed"})
    BY <1>1, <1>2, <1>10 DEF Decided
  <2>2. Withheld(b) => Withheld(b)'
    BY <1>2, <1>4, <1>10 DEF Withheld
  <2> QED BY <1>5, <1>6, <1>7, <1>8, <2>1, <2>2, QuietGate
<1> QED BY <1>9, <1>10

LEMMA NextGate ==
  ASSUME IInv, TakenOnce, [Next]_vars
  PROVE  [Gate!Next]_(Gate!vars)
<1> SUFFICES ASSUME Next, NEW b \in Requests PROVE GateStep(b)
  BY GateSteps, GateStays
<1>1. ASSUME NEW r \in Requests, NEW g \in BOOLEAN, Arrive(r, g) PROVE GateStep(b)
  BY <1>1, ArriveGate
<1>2. ASSUME NEW r \in Requests, Dispatch(r) PROVE GateStep(b)
  BY <1>2, DispatchGate, TakePendingGate DEF Dispatch
<1>3. ASSUME NEW r \in Requests, UpstreamAnswers(r) PROVE GateStep(b)
  BY <1>3, ReplyGate, DeferReplyGate, DirectHookReplyGate DEF UpstreamAnswers
<1>4. ASSUME NEW r \in Requests, McpAnswers(r) PROVE GateStep(b)
  <2>1. "text" \in Responses
    BY DEF Responses, CallKinds
  <2> QED BY <1>4, <2>1, ReplyGate DEF McpAnswers
<1>5. ASSUME NEW r \in Requests, HookAnswers(r) PROVE GateStep(b)
  BY <1>5, HookDecides, DecideGate, MalformedGate DEF HookAnswers
<1>6. CASE ReloadSettings \/ ReplaceInterceptor \/ Tick
  BY <1>6, EnvironmentGate
<1> QED BY <1>1, <1>2, <1>3, <1>4, <1>5, <1>6 DEF Next, Handler

-----------------------------------------------------------------------------
(* The disciplined client keeps DInv *)

(* A step that decides nothing: the handler was not and is not deciding,    *)
(* and of the saved batches only the one of its session can be replaced.    *)
Passes(r) ==
  /\ UNCHANGED <<hook, edited>>
  /\ ~ Deciding(r) /\ ~ Deciding(r)'
  /\ \A s \in Sessions \ {SessionOf[r]} : pending'[s] \in {pending[s], None}

LEMMA HandlerCases ==
  ASSUME IInv, NEW r \in Requests, Handler(r)
  PROVE  /\ pc[r] \notin {"idle", "done"}
         /\ \A q \in Requests \ {r} : pc'[q] = pc[q]
         /\ \/ TakePending(r)
            \/ DirectHookReply(r)
            \/ HookAnswers(r)
            \/ Passes(r)
<1> USE DEF Suspend, Finish, Deciding, Passes, client, gateway, effects
<1>1. CASE Dispatch(r)
  BY <1>1 DEF Dispatch, Forward, TakePending, EnterLoop, IInv, TypeOK
<1>2. CASE UpstreamAnswers(r)
  <2>1. CASE DeferReply(r)
    BY <2>1 DEF DeferReply, SetPending, IInv, TypeOK
  <2>2. CASE DirectHookReply(r)
    BY <2>2 DEF DirectHookReply, IInv, TypeOK
  <2>3. ASSUME NEW k \in Responses, ForwardReply(r, k) \/ FinalReply(r, k)
        PROVE  /\ pc[r] \notin {"idle", "done"} /\ Passes(r)
               /\ \A q \in Requests \ {r} : pc'[q] = pc[q]
    BY <2>3 DEF ForwardReply, FinalReply, IInv, TypeOK
  <2>4. ASSUME NEW k \in Responses, InterceptReply(r, k) \/ BlockReply(r, k)
        PROVE  /\ pc[r] \notin {"idle", "done"} /\ Passes(r)
               /\ \A q \in Requests \ {r} : pc'[q] = pc[q]
    BY <2>4 DEF InterceptReply, BlockReply, IInv, TypeOK
  <2> QED BY <1>2, <2>1, <2>2, <2>3, <2>4 DEF UpstreamAnswers
<1>3. CASE McpAnswers(r)
  BY <1>3 DEF McpAnswers, McpReply, McpRaise, IInv, TypeOK
<1>4. CASE HookAnswers(r)
  <2>1. CASE HookSettles(r)
    BY <1>4, <2>1, HookDecides DEF Decides, IInv, TypeOK
  <2>2. CASE HookAllowMalformed(r)
    BY <1>4, <2>2 DEF HookAllowMalformed, IInv, TypeOK
  <2> QED BY <1>4, <2>1, <2>2 DEF HookAnswers
<1> QED BY <1>1, <1>2, <1>3, <1>4 DEF Handler

(* A step of the client, the configuration or the clock. *)
LEMMA OutsideCases ==
  ASSUME IInv, Next, ~ \E r \in Requests : Handler(r)
  PROVE  /\ UNCHANGED <<gateway, hook, edited>>
         /\ \/ UNCHANGED pc
            \/ \E r \in Requests, g \in BOOLEAN :
                 /\ Arrive(r, g)
                 /\ pc' = [pc EXCEPT ![r] = "body"]
BY DEF Next, Arrive, ReloadSettings, ReplaceInterceptor, Tick, Suspend, effects

LEMMA OneInFlightStays ==
  ASSUME Disciplined, IInv, OneInFlight, Next
  PROVE  OneInFlight'
<1>1. ASSUME NEW r \in Requests, Handler(r) PROVE OneInFlight'
  <2>1. pc[r] \notin {"idle", "done"} /\ \A q \in Requests \ {r} : pc'[q] = pc[q]
    BY <1>1, HandlerCases
  <2> QED BY <2>1 DEF OneInFlight
<1>2. ASSUME NEW r \in Requests, NEW g \in BOOLEAN, Arrive(r, g) PROVE OneInFlight'
  <2>1. \A q \in Requests : SessionOf[q] = SessionOf[r] => pc[q] \in {"idle", "done"}
    BY <1>2 DEF Arrive, ClientMaySend
  <2>2. \A q \in Requests \ {r} : pc'[q] = pc[q]
    BY <1>2 DEF Arrive, Suspend, IInv, TypeOK
  <2> QED BY <2>1, <2>2 DEF OneInFlight
<1>3. CASE UNCHANGED pc
  BY <1>3 DEF OneInFlight
<1> QED BY <1>1, <1>2, <1>3, OutsideCases

(* A batch in the store is held by no request but one the hook is asked     *)
(* about in the same session, and a disciplined client has no other then.   *)
LEMMA SavedIsFree ==
  ASSUME DInv, NEW r \in Requests, pc[r] = "body", pending[SessionOf[r]] # None,
         NEW q \in Requests
  PROVE  held[q] # pending[SessionOf[r]] \/ verdict[q] = "malformed"
<1> SUFFICES ASSUME held[q] = pending[SessionOf[r]], verdict[q] # "malformed" PROVE FALSE
  OBVIOUS
<1>1. SessionOf[q] = SessionOf[r]
  BY DEF DInv, IInv, PendingInv, HeldInv
<1>2. q # r
  BY DEF DInv, IInv, HandlerInv
<1>3. pc[q] \in {"idle", "done"}
  BY <1>1, <1>2 DEF DInv, OneInFlight
<1>4. verdict[q] # "none"
  BY <1>3 DEF DInv, TakenIsDecided, Deciding
<1> QED BY <1>1, <1>4 DEF DInv, IInv, SettledNotPending

LEMMA TakePendingDInv ==
  ASSUME DInv, NEW r \in Requests, TakePending(r)
  PROVE  TakenOnce' /\ TakenIsDecided' /\ HookPending' /\ EditedInv'
<1> DEFINE b == pending[SessionOf[r]]
<1>1. /\ pc[r] = "body" /\ b # None /\ verdict' = verdict /\ pending' = pending
      /\ edited' = edited
  BY DEF TakePending, gateway, effects
<1>2. /\ held'[r] = b /\ pc'[r] = "hook"
      /\ \A q \in Requests \ {r} : held'[q] = held[q] /\ pc'[q] = pc[q]
  BY DEF TakePending, Suspend, DInv, IInv, TypeOK
<1>3. held[r] = None /\ verdict[r] = "none"
  BY <1>1 DEF DInv, IInv, HandlerInv
<1>4. \A q \in Requests : held[q] # b \/ verdict[q] = "malformed"
  BY <1>1, SavedIsFree
<1>5. TakenOnce'
  BY <1>1, <1>2, <1>4 DEF DInv, TakenOnce
<1>6. TakenIsDecided'
  BY <1>1, <1>2 DEF DInv, TakenIsDecided, Deciding
<1>7. HookPending'
  BY <1>1, <1>2 DEF DInv, HookPending
<1>8. EditedInv'
  BY <1>1, <1>2, <1>3 DEF DInv, EditedInv, Decided
<1> QED BY <1>5, <1>6, <1>7, <1>8

LEMMA DirectHookReplyDInv ==
  ASSUME DInv, NEW r \in Requests, DirectHookReply(r)
  PROVE  TakenOnce' /\ TakenIsDecided' /\ HookPending' /\ EditedInv'
<1>1. /\ pc[r] = "upstream" /\ verdict' = verdict /\ pending' = pending
      /\ edited' = edited
  BY DEF DirectHookReply, gateway, effects
<1>2. /\ held'[r] = r /\ pc'[r] = "directHook"
      /\ \A q \in Requests \ {r} : held'[q] = held[q] /\ pc'[q] = pc[q]
  BY DEF DirectHookReply, Suspend, DInv, IInv, TypeOK
<1>3. held[r] = None /\ verdict[r] = "none"
  BY <1>1 DEF DInv, IInv, HandlerInv
<1>4. \A q \in Requests : held[q] # r
  BY <1>1, FreshIsUnseen DEF DInv
<1>5. TakenOnce'
  BY <1>1, <1>2, <1>4 DEF DInv, TakenOnce
<1>6. TakenIsDecided'
  BY <1>1, <1>2 DEF DInv, TakenIsDecided, Deciding
<1>7. HookPending'
  BY <1>1, <1>2 DEF DInv, HookPending
<1>8. EditedInv'
  BY <1>1, <1>2, <1>3 DEF DInv, EditedInv, Decided
<1> QED BY <1>5, <1>6, <1>7, <1>8

(* An allow is the only decision that edits, and it edits what it decides. *)
LEMMA HookEdits ==
  ASSUME IInv, NEW r \in Requests, HookAnswers(r)
  PROVE  \/ edited' = edited
         \/ verdict'[r] = "allow" /\ edited' = edited \cup {held[r]}
BY DEF HookAnswers, HookSettles, HookError, HookAllow, HookAllowRaises, HookBlock,
       HookAllowMalformed, effects, IInv, TypeOK

LEMMA HookAnswersDInv ==
  ASSUME DInv, NEW r \in Requests, HookAnswers(r)
  PROVE  TakenOnce' /\ TakenIsDecided' /\ HookPending' /\ EditedInv'
<1>1. /\ Deciding(r) /\ held' = held
      /\ \E v \in {"allow", "block", "error", "malformed"} :
           verdict' = [verdict EXCEPT ![r] = v]
      /\ \E where \in {"afterBlock", "done"} : pc' = [pc EXCEPT ![r] = where]
      /\ pending' = pending \/ ClearPending(r)
  <2>1. CASE HookSettles(r)
    BY <2>1, HookDecides DEF Decides, DInv
  <2>2. CASE HookAllowMalformed(r)
    BY <2>2 DEF HookAllowMalformed, Finish, gateway
  <2> QED BY <2>1, <2>2 DEF HookAnswers
<1>2. PICK v \in {"allow", "block", "error", "malformed"} :
        verdict' = [verdict EXCEPT ![r] = v]
  BY <1>1
<1>3. /\ verdict'[r] # "none" /\ verdict[r] = "none"
      /\ \A q \in Requests \ {r} : verdict'[q] = verdict[q]
  BY <1>1, <1>2 DEF DInv, IInv, TypeOK, HandlerInv
<1>4. /\ pc'[r] \notin {"hook", "directHook"} /\ held' = held
      /\ \A q \in Requests \ {r} : pc'[q] = pc[q]
  BY <1>1 DEF DInv, IInv, TypeOK
<1>5. \A s \in Sessions : pending'[s] \in {pending[s], None}
  BY <1>1 DEF ClearPending, DInv, IInv, TypeOK
<1>6. TakenOnce'
  BY <1>3, <1>4 DEF DInv, TakenOnce
<1>7. TakenIsDecided'
  BY <1>3, <1>4 DEF DInv, TakenIsDecided, Deciding
<1>8. HookPending'
  BY <1>4, <1>5 DEF DInv, HookPending
<1>9. EditedInv'
  <2> SUFFICES ASSUME NEW b \in edited' PROVE Decided(b, {"allow"})'
    BY DEF EditedInv
  <2>1. CASE b \in edited
    BY <1>3, <1>4, <2>1 DEF DInv, EditedInv, Decided
  <2>2. CASE b \notin edited
    BY <1>4, <2>2, HookEdits DEF DInv, Decided
  <2> QED BY <2>1, <2>2
<1> QED BY <1>6, <1>7, <1>8, <1>9

LEMMA PassesDInv ==
  ASSUME DInv, NEW r \in Requests, Passes(r), pc[r] \notin {"idle", "done"},
         \A q \in Requests \ {r} : pc'[q] = pc[q]
  PROVE  TakenOnce' /\ TakenIsDecided' /\ HookPending' /\ EditedInv'
<1>1. held' = held /\ verdict' = verdict /\ edited' = edited
  BY DEF Passes, hook
<1>2. \A q \in Requests : Deciding(q)' <=> Deciding(q)
  BY DEF Passes, Deciding
<1>3. TakenOnce' /\ TakenIsDecided' /\ EditedInv'
  BY <1>1, <1>2 DEF DInv, TakenOnce, TakenIsDecided, EditedInv, Decided
<1>4. ASSUME NEW q \in Requests, pc'[q] = "hook"
      PROVE  pending'[SessionOf[q]] \in {held'[q], None}
  <2>1. q # r /\ pc[q] = "hook"
    BY <1>4 DEF Passes, Deciding
  <2>2. SessionOf[q] # SessionOf[r]
    BY <2>1 DEF DInv, OneInFlight
  <2>3. pending'[SessionOf[q]] \in {pending[SessionOf[q]], None}
    BY <2>2 DEF Passes
  <2> QED BY <1>1, <2>1, <2>3 DEF DInv, HookPending
<1> QED BY <1>3, <1>4 DEF HookPending

LEMMA OutsideDInv ==
  ASSUME DInv, UNCHANGED <<gateway, hook, edited>>,
         \/ UNCHANGED pc
         \/ \E r \in Requests, g \in BOOLEAN :
              Arrive(r, g) /\ pc' = [pc EXCEPT ![r] = "body"]
  PROVE  TakenOnce' /\ TakenIsDecided' /\ HookPending' /\ EditedInv'
<1>1. held' = held /\ verdict' = verdict /\ edited' = edited /\ pending' = pending
  BY DEF gateway, hook
<1>2. \A q \in Requests : /\ pc'[q] = "hook" <=> pc[q] = "hook"
                          /\ Deciding(q)' <=> Deciding(q)
  BY DEF Arrive, Deciding, DInv, IInv, TypeOK
<1> QED BY <1>1, <1>2 DEF DInv, TakenOnce, TakenIsDecided, HookPending, EditedInv, Decided

LEMMA NextDInv ==
  ASSUME Disciplined, DInv, [Next]_vars
  PROVE  DInv'
<1>1. IInv'
  BY NextIInv DEF DInv
<1>2. CASE UNCHANGED vars
  <2>1. UNCHANGED <<gateway, hook, edited, pc>>
    BY <1>2 DEF vars, effects
  <2>2. OneInFlight'
    BY <2>1 DEF DInv, OneInFlight
  <2> QED BY <1>1, <2>1, <2>2, OutsideDInv DEF DInv
<1>3. CASE Next
  <2>1. OneInFlight'
    BY <1>3, OneInFlightStays DEF DInv
  <2>2. TakenOnce' /\ TakenIsDecided' /\ HookPending' /\ EditedInv'
    <3>1. ASSUME NEW r \in Requests, Handler(r)
          PROVE  TakenOnce' /\ TakenIsDecided' /\ HookPending' /\ EditedInv'
      BY <3>1, HandlerCases, TakePendingDInv, DirectHookReplyDInv, HookAnswersDInv,
         PassesDInv DEF DInv
    <3> QED BY <1>3, <3>1, OutsideCases, OutsideDInv DEF DInv
  <2> QED BY <1>1, <2>1, <2>2 DEF DInv
<1> QED BY <1>2, <1>3

LEMMA InitDInv == Init => DInv
BY InitIInv DEF Init, DInv, OneInFlight, TakenOnce, TakenIsDecided, HookPending,
                EditedInv

(* With a disciplined client every reachable state satisfies DInv. *)
THEOREM DisciplineInvariance == ASSUME Disciplined PROVE Spec => []DInv
<1>1. DInv /\ [Next]_vars => DInv'
  BY NextDInv
<1> QED BY InitDInv, <1>1, PTL DEF Spec

(* The handlers of a disciplined client implement the gate: whatever the     *)
(* sessions, the configuration changes, the expiries and the hook's answers, *)
(* a deferred batch is withheld, then granted to one request, refused or     *)
(* dropped, once and for good.                                              *)
THEOREM ImplementsTheGate == ASSUME Disciplined PROVE Spec => GateSpec
<1>1. DInv /\ [Next]_vars => [Gate!Next]_(Gate!vars)
  BY NextGate DEF DInv
<1> QED BY GateStarts, DisciplineInvariance, <1>1, PTL DEF Spec, GateSpec, Gate!Spec

(* A batch that goes back to the model after a block was not rewritten: the  *)
(* in-place edits of an allow cannot precede the block.                      *)
THEOREM BlocksTellTheOriginal == ASSUME Disciplined PROVE Spec => FeedbackIsOriginal
<1> DEFINE A == \A r \in Requests : pc[r] # "afterBlock" /\ pc'[r] = "afterBlock" =>
                  held[r] \notin edited
<1>1. DInv /\ [Next]_vars => [A]_vars
  <2> SUFFICES ASSUME DInv, Next, NEW r \in Requests, pc[r] # "afterBlock",
                      pc'[r] = "afterBlock", held[r] \in edited
               PROVE  FALSE
    OBVIOUS
  <2>1. Deciding(r)
    <3>1. PICK q \in Requests : Handler(q)
      BY OutsideCases DEF DInv, IInv, TypeOK
    <3>2. q = r
      BY <3>1, HandlerCases DEF DInv
    <3> QED BY <3>1, <3>2 DEF Handler, Dispatch, UpstreamAnswers, McpAnswers, HookAnswers,
         Forward, TakePending, EnterLoop, ForwardReply, FinalReply, InterceptReply, BlockReply,
         DeferReply, DirectHookReply, McpReply, McpRaise, HookSettles, HookError,
         HookAllow, HookAllowRaises, HookAllowMalformed, HookBlock, Suspend, Finish, DInv, IInv, TypeOK
  <2>2. held[r] # None /\ verdict[r] = "none"
    BY <2>1 DEF DInv, IInv, HandlerInv
  <2>3. PICK q \in Requests : held[q] = held[r] /\ verdict[q] = "allow"
    BY DEF DInv, EditedInv, Decided
  <2>4. q = r
    BY <2>2, <2>3 DEF DInv, TakenOnce
  <2> QED BY <2>2, <2>3, <2>4
<1> QED BY <1>1, DisciplineInvariance, PTL DEF Spec, FeedbackIsOriginal

-----------------------------------------------------------------------------
(* Without configuration changes nothing but its decision or its time       *)
(* removes a saved batch.                                                   *)

(* The loop starts, with the hook on, once the session's batch is gone.     *)
LoopPending ==
  \A r \in Requests : hookOn /\ pc[r] \in {"upstream", "mcp"} =>
    pending[SessionOf[r]] = None

LEMMA ConfigStays ==
  ASSUME MaxReloads = 0, IInv, [Next]_vars
  PROVE  hookOn' = hookOn
BY DEF Next, Handler, Dispatch, UpstreamAnswers, McpAnswers, HookAnswers, Arrive,
       ReloadSettings, ReplaceInterceptor, Tick, Forward, TakePending, EnterLoop,
       ForwardReply, FinalReply, InterceptReply, BlockReply, DeferReply,
       DirectHookReply, McpReply, McpRaise, HookSettles, HookError, HookAllow,
       HookAllowRaises, HookAllowMalformed, HookBlock, config, vars, IInv, TypeOK

(* What a handler does to the saved batch of its own session. *)
LEMMA OwnPending ==
  ASSUME DInv, NEW r \in Requests, Handler(r)
  PROVE  \/ /\ pending' = pending
            /\ pc'[r] \in {"upstream", "mcp"} => pc[r] \in {"upstream", "mcp"}
         \/ EnterLoop(r)
         \/ DeferReply(r)
         \/ ClearPending(r) /\ HookSettles(r)
<1> USE DEF Suspend, Finish, gateway, DInv, IInv, TypeOK
<1>1. CASE Dispatch(r)
  BY <1>1 DEF Dispatch, Forward, TakePending
<1>2. CASE UpstreamAnswers(r)
  BY <1>2 DEF UpstreamAnswers, ForwardReply, FinalReply, InterceptReply, BlockReply,
              DirectHookReply
<1>3. CASE McpAnswers(r)
  BY <1>3 DEF McpAnswers, McpReply, McpRaise
<1>4. CASE HookAnswers(r)
  <2>1. CASE HookSettles(r)
    BY <2>1, HookDecides DEF Decides
  <2>2. CASE HookAllowMalformed(r)
    BY <2>2 DEF HookAllowMalformed
  <2> QED BY <1>4, <2>1, <2>2 DEF HookAnswers
<1> QED BY <1>1, <1>2, <1>3, <1>4 DEF Handler

LEMMA NextLoopPending ==
  ASSUME Disciplined, MaxReloads = 0, DInv, LoopPending, [Next]_vars
  PROVE  LoopPending'
<1>1. hookOn' = hookOn
  BY ConfigStays DEF DInv
<1> SUFFICES ASSUME NEW q \in Requests, hookOn, pc'[q] \in {"upstream", "mcp"}
             PROVE  pending'[SessionOf[q]] = None
  BY <1>1 DEF LoopPending
<1>2. ASSUME NEW r \in Requests, Handler(r) PROVE pending'[SessionOf[q]] = None
  <2>1. pc[r] \notin {"idle", "done"} /\ \A p \in Requests \ {r} : pc'[p] = pc[p]
    BY <1>2, HandlerCases DEF DInv
  <2>2. CASE q = r
    <3>1. CASE EnterLoop(r)
      BY <2>2, <3>1 DEF EnterLoop, DInv, IInv, TypeOK
    <3>2. CASE DeferReply(r)
      BY <2>2, <3>2 DEF DeferReply, Finish, DInv, IInv, TypeOK
    <3>3. CASE HookSettles(r)
      BY <2>2, <3>3, HookDecides DEF Decides, DInv, IInv, TypeOK
    <3>4. CASE pending' = pending /\ pc[r] \in {"upstream", "mcp"}
      BY <2>2, <3>4 DEF LoopPending
    <3> QED BY <1>2, <2>2, <3>1, <3>2, <3>3, <3>4, OwnPending
  <2>3. CASE q # r
    <3>1. pc[q] \in {"upstream", "mcp"}
      BY <2>1, <2>3
    <3>2. SessionOf[q] # SessionOf[r]
      BY <2>1, <2>3, <3>1 DEF DInv, OneInFlight
    <3>3. pending'[SessionOf[q]] \in {pending[SessionOf[q]], None}
      BY <1>2, <3>2, OwnPending DEF EnterLoop, DeferReply, SetPending, ClearPending,
                                    DInv, IInv, TypeOK
    <3> QED BY <3>1, <3>3 DEF LoopPending
  <2> QED BY <2>2, <2>3
<1>3. CASE UNCHANGED vars
  BY <1>3 DEF vars, gateway, LoopPending
<1>4. CASE Next /\ ~ \E r \in Requests : Handler(r)
  <2>1. pending' = pending /\ pc[q] \in {"upstream", "mcp"}
    BY <1>4, OutsideCases DEF gateway, DInv, IInv, TypeOK
  <2> QED BY <2>1 DEF LoopPending
<1> QED BY <1>2, <1>3, <1>4

(* clear_pending and set_pending take no batch, and yet a disciplined client *)
(* loses one only to the sweep or to the decision about it.  With reloads    *)
(* it may: the loop can start with the hook off and save over a live batch.  *)
THEOREM DropsAreDue ==
  ASSUME Disciplined, MaxReloads = 0
  PROVE  Spec => DroppedOnlyWhenDue
<1> DEFINE Due(s) == \/ Expired(s)
                     \/ \E r \in Requests : /\ held[r] = pending[s]
                                            /\ verdict[r] = "none"
                                            /\ verdict'[r] # "none"
           A == \A s \in Sessions : pending[s] # None /\ pending'[s] # pending[s] => Due(s)
<1>1. Init => LoopPending
  BY DEF Init, LoopPending
<1>2. DInv /\ LoopPending /\ [Next]_vars => LoopPending'
  BY NextLoopPending
<1>3. DInv /\ LoopPending /\ [Next]_vars => [A]_vars
  <2> SUFFICES ASSUME DInv, LoopPending, Next, NEW s \in Sessions,
                      pending[s] # None, pending'[s] # pending[s]
               PROVE  Due(s)
    OBVIOUS
  <2>1. PICK r \in Requests : Handler(r)
    BY OutsideCases DEF DInv, gateway
  <2>2. CASE EnterLoop(r)
    BY <2>2 DEF EnterLoop, DInv, IInv, TypeOK
  <2>3. CASE DeferReply(r)
    BY <2>3 DEF DeferReply, SetPending, LoopPending
  <2>4. CASE ClearPending(r) /\ HookSettles(r)
    <3>1. pc[r] = "hook" /\ s = SessionOf[r]
      BY <2>4 DEF ClearPending, DInv, IInv, TypeOK
    <3>2. held[r] = pending[s]
      BY <3>1 DEF DInv, HookPending
    <3>3. verdict[r] = "none" /\ verdict'[r] # "none"
      <4>1. Decides(r)
        BY <2>4, HookDecides DEF DInv
      <4> QED BY <4>1, <3>1 DEF Decides, Deciding, DInv, IInv, TypeOK, HandlerInv
    <3> QED BY <3>2, <3>3
  <2> QED BY <2>1, <2>2, <2>3, <2>4, OwnPending
<1> QED BY <1>1, <1>2, <1>3, DisciplineInvariance, PTL DEF Spec, DroppedOnlyWhenDue
=============================================================================
