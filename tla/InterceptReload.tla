----------------------------- MODULE InterceptReload -----------------------------
(***************************************************************************)
(* The life cycle of MCPTap's MCP interceptor: started with the             *)
(* application, replaced by the configuration reloader while requests use   *)
(* it, stopped with the application (mcptap/mcp_intercept.py,               *)
(* mcptap/config_reloader.py reload_intercept, mcptap/app.py).              *)
(*                                                                         *)
(* Interceptor instances are numbered in the order they are created; app    *)
(* is the one in app["mcp_intercept"].  A handler captures that object when *)
(* its request arrives and keeps it, so calls of one handler may run        *)
(* against an instance that is being started, stopped or replaced.          *)
(***************************************************************************)
EXTENDS Naturals, Sequences

CONSTANTS
  Handlers,     (* requests whose model calls intercepted tools             *)
  MaxReloads,   (* bound: reloads of the interceptor                        *)
  MaxCalls      (* bound: intercepted calls of one handler                  *)

ASSUME ReloadsAssumption == MaxReloads \in Nat
ASSUME CallsAssumption == MaxCalls \in Nat

Instances == 0..MaxReloads

VARIABLES
  app,       (* app["mcp_intercept"]                                         *)
  exposes,   (* instances with a non-empty tools list (enabled)              *)
  session,   (* instances whose _session and _exit_stack are set             *)
  started,   (* instances whose _started is True                             *)
  procs,     (* instances whose exit stack holds a subprocess                *)
  lost,      (* of these, history: the stack was let go without closing      *)
  manager,   (* where the startup hook or the reloader task is suspended     *)
  serving,   (* the server accepts requests                                  *)
  lock,      (* _lock of an instance: its holder first, then the waiters     *)
  pc,        (* where a handler is                                           *)
  uses,      (* the instance a handler captured                              *)
  made       (* intercepted calls a handler got an output text for           *)

instances == <<app, exposes, session, started>>
stacks    == <<procs, lost>>
vars      == <<instances, stacks, manager, serving, lock, pc, uses, made>>

ManagerStates == {"spawning", "initializing", "undoing", "listing", "idle",
                  "closing", "exiting", "down"}
HandlerStates == {"idle", "ready", "waiting", "calling", "done", "crashed"}

InLock(i) == {lock[i][k] : k \in 1..Len(lock[i])}

(* An instance's lock knows exactly the handlers that are in call().        *)
TypeOK ==
  /\ app \in Instances
  /\ exposes \in SUBSET Instances
  /\ session \in SUBSET Instances
  /\ started \in SUBSET Instances
  /\ procs \in SUBSET Instances
  /\ lost \in SUBSET Instances
  /\ manager \in ManagerStates
  /\ serving \in BOOLEAN
  /\ lock \in [Instances -> Seq(Handlers)]
  /\ pc \in [Handlers -> HandlerStates]
  /\ uses \in [Handlers -> Instances]
  /\ made \in [Handlers -> 0..MaxCalls]
  /\ \A i \in Instances :
       InLock(i) = {h \in Handlers : uses[h] = i /\ pc[h] \in {"waiting", "calling"}}

(* build_app has created instance 0; the startup hook starts it if enabled. *)
Init ==
  /\ app = 0
  /\ exposes \in {{}, {0}}
  /\ session = {}
  /\ started = {}
  /\ procs = {}
  /\ lost = {}
  /\ manager = IF 0 \in exposes THEN "spawning" ELSE "idle"
  /\ serving = (manager = "idle")
  /\ lock = [i \in Instances |-> <<>>]
  /\ pc = [h \in Handlers |-> "idle"]
  /\ uses = [h \in Handlers |-> 0]
  /\ made = [h \in Handlers |-> 0]

handlers == <<lock, pc, uses, made>>

-----------------------------------------------------------------------------
(* MCPInterceptor.start, by the startup hook or by reload_intercept.         *)
(* Whoever awaits it logs a failure and goes on.                            *)

(* The exit stack of the instance is closed, or closing it raised and the    *)
(* exception is logged: either way nobody keeps the stack.                  *)
CloseStack(closed) ==
  /\ procs' = IF closed THEN procs \ {app} ELSE procs
  /\ lost' = IF closed THEN lost ELSE lost \cup {app}

(* stdio_client runs the server process. *)
Spawned ==
  /\ manager = "spawning"
  /\ procs' = procs \cup {app}
  /\ manager' = "initializing"
  /\ UNCHANGED <<instances, lost, serving, handlers>>

(* The process cannot be run: the stack is empty. *)
SpawnFails ==
  /\ manager = "spawning"
  /\ manager' = "idle"
  /\ serving' = TRUE
  /\ UNCHANGED <<instances, stacks, handlers>>

(* Slip: the session stays a local variable of start. *)
InitializedUnset ==
  /\ manager = "initializing"
  /\ manager' = "listing"
  /\ UNCHANGED <<instances, stacks, serving, handlers>>

(* session.initialize() returned: stack, session and lock are stored. *)
Initialized ==
  /\ manager = "initializing"
  /\ session' = session \cup {app}
  /\ manager' = "listing"
  /\ UNCHANGED <<app, exposes, started, stacks, serving, handlers>>

(* initialize raised: start awaits the end of the stack, nothing is stored. *)
InitializeFails ==
  /\ manager = "initializing"
  /\ manager' = "undoing"
  /\ UNCHANGED <<instances, stacks, serving, handlers>>

StartUndone(closed) ==
  /\ manager = "undoing"
  /\ CloseStack(closed)
  /\ manager' = "idle"
  /\ serving' = TRUE
  /\ UNCHANGED <<instances, handlers>>

(* list_tools returned: schemas are resolved and the start is complete. *)
ToolsListed ==
  /\ manager = "listing"
  /\ started' = started \cup {app}
  /\ manager' = "idle"
  /\ serving' = TRUE
  /\ UNCHANGED <<app, exposes, session, stacks, handlers>>

(* list_tools raised: the session stays open, _started stays False. *)
ListToolsFails ==
  /\ manager = "listing"
  /\ manager' = "idle"
  /\ serving' = TRUE
  /\ UNCHANGED <<instances, stacks, handlers>>

-----------------------------------------------------------------------------
(* reload_intercept *)

(* The old instance is stopped: its session is forgotten ... *)
Forget ==
  /\ session' = session \ {app}
  /\ started' = started \ {app}

(* What load_intercept_config and the constructor make of the YAML file: an *)
(* invalid one is replaced by none, a refused one passes the loader and     *)
(* makes MCPInterceptor raise (an override that is no object).              *)
Configs == {"valid", "empty", "invalid", "refused"}

(* ... and a new instance takes its place, without tools if there is no     *)
(* configuration.  A refused one leaves the stopped instance in place: the  *)
(* exception ends reload_intercept.                                         *)
Replace(new) ==
  /\ app' = IF new = "refused" THEN app ELSE app + 1
  /\ exposes' = IF new = "valid" THEN exposes \cup {app + 1} ELSE exposes
  /\ manager' = IF new = "valid" THEN "spawning" ELSE "idle"

(* stop() of an instance with an exit stack suspends in aclose(); until it  *)
(* is over the old instance is still the application's and has a session.   *)
ReloadBegins ==
  /\ manager = "idle" /\ serving
  /\ app < MaxReloads
  /\ app \in session
  /\ manager' = "closing"
  /\ UNCHANGED <<instances, stacks, serving, handlers>>

ReloadReplaces(new, closed) ==
  /\ manager = "closing"
  /\ CloseStack(closed)
  /\ Forget
  /\ Replace(new)
  /\ UNCHANGED <<serving, handlers>>

(* Slip: stop() does nothing unless the start of the instance completed. *)
ReloadIdleUnlessStarted(new) ==
  /\ manager = "idle" /\ serving
  /\ app < MaxReloads
  /\ app \notin started
  /\ Replace(new)
  /\ UNCHANGED <<session, started, stacks, serving, handlers>>

(* stop() of an instance without an exit stack does not suspend. *)
ReloadIdle(new) ==
  /\ manager = "idle" /\ serving
  /\ app < MaxReloads
  /\ app \notin session
  /\ Forget
  /\ Replace(new)
  /\ UNCHANGED <<stacks, serving, handlers>>

-----------------------------------------------------------------------------
(* Cleanup of the application: the reloader task is cancelled wherever it   *)
(* is suspended, then the current instance is stopped.                      *)

Inactive(h) == pc[h] \in {"idle", "done", "crashed"}

(* CancelledError passes "except Exception": a start cut off in initialize  *)
(* leaves its stack open, one cut off while it closes the stack may.        *)
Shutdown(closed) ==
  /\ serving
  /\ \A h \in Handlers : Inactive(h)
  /\ serving' = FALSE
  /\ manager' = IF app \in session THEN "exiting" ELSE "down"
  /\ IF manager \in {"initializing", "undoing"}
     THEN /\ manager = "initializing" => ~closed
          /\ CloseStack(closed)
     ELSE UNCHANGED stacks
  /\ UNCHANGED <<instances, handlers>>

ExitCloses(closed) ==
  /\ manager = "exiting"
  /\ CloseStack(closed)
  /\ Forget
  /\ manager' = "down"
  /\ UNCHANGED <<app, exposes, serving, handlers>>

-----------------------------------------------------------------------------
(* Handlers *)

Move(h, to) == pc' = [pc EXCEPT ![h] = to]

(* proxy captures the instance; only one that exposes tools can be called. *)
Capture(h) ==
  /\ serving
  /\ pc[h] = "idle"
  /\ uses' = [uses EXCEPT ![h] = app]
  /\ Move(h, IF app \in exposes THEN "ready" ELSE "done")
  /\ UNCHANGED <<instances, stacks, manager, serving, lock, made>>

(* call: without a session or a lock it raises, and the request ends in 500. *)
CallRaises(h) ==
  /\ pc[h] = "ready"
  /\ made[h] < MaxCalls
  /\ uses[h] \notin session
  /\ Move(h, "crashed")
  /\ UNCHANGED <<instances, stacks, manager, serving, lock, uses, made>>

(* Slip: the lock is not taken. *)
CallUnlocked(h) ==
  /\ pc[h] = "ready"
  /\ made[h] < MaxCalls
  /\ uses[h] \in session
  /\ lock' = [lock EXCEPT ![uses[h]] = Append(@, h)]
  /\ Move(h, "calling")
  /\ UNCHANGED <<instances, stacks, manager, serving, uses, made>>

(* call: take the instance's lock, or wait for it in FIFO order. *)
Call(h) ==
  /\ pc[h] = "ready"
  /\ made[h] < MaxCalls
  /\ uses[h] \in session
  /\ lock' = [lock EXCEPT ![uses[h]] = Append(@, h)]
  /\ Move(h, IF lock[uses[h]] = <<>> THEN "calling" ELSE "waiting")
  /\ UNCHANGED <<instances, stacks, manager, serving, uses, made>>

Holds(h) == lock[uses[h]] # <<>> /\ Head(lock[uses[h]]) = h

(* Release the lock with an output text for the model. *)
Output(h) ==
  /\ lock' = [lock EXCEPT ![uses[h]] = Tail(@)]
  /\ made' = [made EXCEPT ![h] = @ + 1]
  /\ Move(h, "ready")
  /\ UNCHANGED <<instances, stacks, manager, serving, uses>>

(* The lock is free for this waiter and the session is still there. *)
Acquire(h) ==
  /\ pc[h] = "waiting"
  /\ Holds(h)
  /\ uses[h] \in session
  /\ Move(h, "calling")
  /\ UNCHANGED <<instances, stacks, manager, serving, lock, uses, made>>

(* Slip: the waiter gives up without releasing the lock. *)
AcquireAfterStopLeaks(h) ==
  /\ pc[h] = "waiting"
  /\ Holds(h)
  /\ uses[h] \notin session
  /\ made' = [made EXCEPT ![h] = @ + 1]
  /\ Move(h, "ready")
  /\ UNCHANGED <<instances, stacks, manager, serving, lock, uses>>

(* The instance was stopped meanwhile: _session is None, the AttributeError *)
(* becomes an error text.                                                   *)
AcquireAfterStop(h) ==
  /\ pc[h] = "waiting"
  /\ Holds(h)
  /\ uses[h] \notin session
  /\ Output(h)

(* A result, the timeout of asyncio.wait_for, or the error of a session     *)
(* that was closed during the call: each becomes a text.                    *)
Return(h) ==
  /\ pc[h] = "calling"
  /\ Output(h)

(* The model's final answer. *)
Leave(h) ==
  /\ pc[h] = "ready"
  /\ Move(h, "done")
  /\ UNCHANGED <<instances, stacks, manager, serving, lock, uses, made>>

-----------------------------------------------------------------------------

Manage ==
  \/ Spawned \/ SpawnFails \/ Initialized \/ InitializeFails
  \/ ToolsListed \/ ListToolsFails
  \/ ReloadBegins
  \/ \E new \in Configs : ReloadIdle(new)
  \/ \E closed \in BOOLEAN :
       \/ StartUndone(closed) \/ Shutdown(closed) \/ ExitCloses(closed)
       \/ \E new \in Configs : ReloadReplaces(new, closed)

InCall(h) == AcquireAfterStop(h) \/ Acquire(h) \/ Return(h)

Next ==
  \/ Manage
  \/ \E h \in Handlers : Capture(h) \/ CallRaises(h) \/ Call(h) \/ InCall(h) \/ Leave(h)

Spec == Init /\ [][Next]_vars

(* A call is bounded by wait_for and a woken waiter is scheduled.  Nothing  *)
(* is assumed of the manager: initialize and list_tools have no timeout.    *)
FairSpec == Spec /\ \A h \in Handlers : WF_vars(InCall(h))

-----------------------------------------------------------------------------
(* Properties *)

(* An MCP session serves one call at a time: requests and replies on the    *)
(* stdio pipe of one subprocess never interleave.                           *)
OneCallAtATime ==
  \A g, h \in Handlers : pc[g] = "calling" /\ pc[h] = "calling" /\ uses[g] = uses[h]
                           => g = h

(* Only the application's current instance has a session, and a server       *)
(* process belongs to it or to an instance whose stack could not be closed:  *)
(* aclose() raised, or the shutdown cut off a start before it stored the     *)
(* stack.  Neither a reload nor a start that failed halfway leaves one      *)
(* behind in any other way, and nothing else survives the application.      *)
NoStraySession ==
  /\ session \subseteq {app}
  /\ started \subseteq session
  /\ session \subseteq procs
  /\ procs \subseteq {app} \cup lost
  /\ manager \in {"idle", "down"} => procs \subseteq session \cup lost
  /\ manager = "down" => session = {}

(* Once the manager is at rest on a completely started instance, a handler  *)
(* that captured it gets its calls answered; a request fails with 500 only  *)
(* around a reload or after a failed start.                                 *)
CrashNeedsReload ==
  [][\A h \in Handlers : pc[h] # "crashed" /\ pc'[h] = "crashed" =>
       ~(manager = "idle" /\ app \in started /\ uses[h] = app)]_vars

(* A handler waiting for the lock or in a call always gets a text back,     *)
(* whatever happens to the instance: stop() strands nobody.                 *)
CallsEnd ==
  \A h \in Handlers : pc[h] \in {"waiting", "calling"} ~> pc[h] \in {"ready", "done"}

=============================================================================
