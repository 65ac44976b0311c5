# Formal verification of MCPTap

MCPTap is a Python (aiohttp) proxy between a coding agent and an upstream model
API. It rewrites requests, executes tool calls on MCP servers without the client
noticing, holds the other tool calls back until a hook script has decided about
them, and keeps model-bound encrypted items from being replayed to a route that
would reject them. Behind the handlers it keeps a request log, checks the
provider's bill against it, reloads its configuration while it runs, and
translates between two API dialects. This directory holds TLA+ modules of these
parts, the TLC configurations that check them and TLAPS proofs about them.

    tlc -config MCResponseFlow.cfg MCResponseFlow      # one of the runs below
    tlapm ResponseFlowProofs.tla                       # the proofs, likewise
                                                       # InterceptReloadProofs, EncryptedReplayProofs,
                                                       # CreditsWindowProofs, ConfigPollProofs, LogStoreProofs,
                                                       # ChatTurnsProofs, ChatConversionProofs

## 1. Inventory

Everything runs on one asyncio loop. A handler is interrupted only where it
really suspends, so atomicity is decided by the `await`s, not by the locks; many
`async with self._lock` sections have no await inside and are never contended.

| Component | State | Operations | Talks to |
|---|---|---|---|
| Proxy handler (`app.py`) | application dictionary, background tasks | `proxy`, `passthrough`, startup and cleanup hooks | all others |
| Response flow (`response_flow.py`) | locals of a handler: working payload, iteration, pending state | `handle_responses_with_intercept`, `_handle_hook_decision`, `_handle_direct_hook` | upstream, interceptor, gateway, tracker |
| Tool-hook gateway (`tool_hook.py`) | `_pending` (one saved response per session), `enabled` | `get_pending`, `set_pending`, `clear_pending`, `run_hook` | hook script |
| MCP interceptor (`mcp_intercept.py`) | `tools`, `_session`, `_exit_stack`, `_lock`, `_started` | `start`, `stop`, `call` | MCP server (stdio) |
| Configuration reloader (`config_reloader.py`) | mtimes, poll task | `_poll_loop`, `reload_*` | settings, interceptor, gateway, credits checker |
| Session tracker (`session.py`) | sessions, replay hashes per session and route, last route | `prepare_`/`record_encrypted_replay`, `track_request`, `add_usage` | handlers |
| Encrypted replay (`encrypted_replay.py`) | none | fingerprint, filter, recognise the rejection | tracker, handlers |
| Upstream transport (`upstream.py`) | client session, chat history | buffered post, sanitized retry, repair of call pairs, relay | upstream |
| Chat-completions conversion (`chat_completions.py`) | what it has gathered of a stream | requests and answers in both directions, truncation | upstream transport, chat store |
| Response helpers, rewriting (`responses.py`, `rewrite.py`) | none | classification, updates, payload rewriting | handlers |
| File block (`file_block.py`, `file_block/file_block.c`) | control file per session; descriptor table of each process | write list; intercepted libc calls | hook decision, agent's processes |
| Log store, retention (`log_store.py`, `log_retention.py`) | SQLite tables, schema version | `migrate`, `record`, `query`, `purge_old` | handlers, log viewer |
| Log viewer (`log_api.py`, `static/logs.html`) | the rows listed, the page on its way | load a page, change the range | log store |
| Credits checker (`credits_checker.py`) | active provider, poll task, snapshots | `_check_once`, `on_provider_changed` | credits API, log store |
| Chat history store (`chat_store.py`) | SQLite table with TTL and caps | `store`, `get`, `_prune` | upstream transport |
| Pareto data, provider switch (`pareto_data.py`, `pareto_api.py`) | data files, provider environment files | refresh, switch provider | reloader (through the files) |
| Settings (`settings.py`) | environment, current settings | `reload_settings` | everything |

What makes each correct, and what is hard about it:

* **Response flow and gateway.** No client call passes an enabled hook unseen;
  each batch is decided once; sessions never mix; nothing stays saved after its
  decision. Hard: a batch lives across two requests, the hook runs between
  `get_pending` and `clear_pending`, the configuration changes in between, the
  state expires, the hook or the control file fails.
* **Interceptor.** One call at a time on the stdio session, no subprocess left
  behind, no call stranded. Hard: the reloader stops an instance handlers still
  use; a start fails halfway.
* **Encrypted replay.** What is replayed is accepted by the route, what was
  delivered can be replayed later. Hard: the route switches under a request or
  between saving and deciding a batch; restarts empty the memory; several
  requests of one session are in flight.
* **Credits checker.** On a quiet proxy the bill and the log agree; baselines do
  not run backwards. Hard: requests are billed and logged while a check awaits
  the provider or an alert, the provider changes under a check, rows are purged.
* **Reloader and settings.** A reload is as good as a restart, and no provider
  runs with the key of another. Hard: the environment keeps what was loaded
  before; edits come during a cascade, files are broken, a switch writes two.
* **Log store and viewer.** A migration interrupted anywhere is completed by any
  later start; pages neither repeat nor skip rows. Hard: rows appear with the
  time their handler started, are purged and leave the range between two pages.
* **Chat store and conversion.** What is posted is the conversation the client
  continues; nothing is lost between the dialects that need not be. Hard: lost
  and evicted histories, truncated ones that are stored again, fragments.
* **File block.** Readers of a control file never see half of it.

`PROJECT.json` lists these components with their status, and the hazards with
the line where each bites.

## 2. Plan

Done, in order of importance:

1. `ToolCallGate` - what the hook promises about one batch (abstract).
2. `ResponseFlow` - handlers and gateway; implements `ToolCallGate`.
3. `InterceptReload` - life cycle of the interceptor under handlers.
4. `EncryptedReplay` - tracker, filter, retry, with the loop and the hook.
5. `CreditsWindow` - cost windows of the credits checker against a log that
   grows during its awaits, and provider changes that cancel a check.
6. `ConfigPoll` - polling by modification time, failing reloads, the cascade of
   callbacks, the provider switch.
7. `LogStore` - migrations with crashes and programs of several ages, the pages
   of the viewer against writers and the purge.
8. `ChatTurns` - chained conversations over a bounded, crashing history table.
9. `ChatConversion` - the translation between the dialects.

Left: a module `FileBlock` for the control file rewritten under its readers; an
abstract bounded map that `ChatTurns` implements.

Composition. Each module treats its neighbours as the environment they are:
`ResponseFlow` takes the interceptor as answering or raising, and
`InterceptReload` shows when it raises; `EncryptedReplay` repeats the control of
the loop and the hook only as far as posts and records depend on it; `ConfigPoll`
says when the settings and the components change, which the other modules allow
at any moment; `CreditsWindow` uses of the log store what `LogStore` shows of its
rows (late, of one time per handler, purged) and combines it with the snapshots.

## 3. The modules

### ResponseFlow and ToolCallGate

`pc` names the place where the handler of a request is suspended:

| `pc` | place in the code | actions that leave it |
|---|---|---|
| `idle` | before the request | `Arrive` |
| `body` | `await request.read()` | `Forward`, `TakePending`, `EnterLoop` |
| `forward` | `forward_rewritten` | `ForwardReply` |
| `upstream` | a post of the intercept loop | `FinalReply`, `InterceptReply`, `DeferReply`, `DirectHookReply` |
| `mcp` | the calls of `intercept.call` | `McpReply`, `McpRaise` |
| `hook`, `directHook` | `run_hook` | `HookError`, `HookAllow`, `HookAllowRaises`, `HookAllowMalformed`, `HookBlock` |
| `afterBlock` | the post that tells the model of a block | `BlockReply` |

`pending`, `createdAt` and `hookOn` are the gateway; `edited` and `blocklist`
are the effects of an allow (in-place updates of the saved body, the control
file). An allow may raise in two places: before the batch is removed, if what
should be a list is none (`HookAllowMalformed`: a 500, and the batch stays saved
to be decided again), or after it, in the updates or the control file
(`HookAllowRaises`). A request saves at most one response, so a batch is named
by the request that saved it. A response of the upstream is one of seven kinds
(which calls it contains, or how it failed). `ReloadSettings` and
`ReplaceInterceptor` change the configuration at any moment, `Tick` moves the
clock. `Disciplined` chooses between any client and one that keeps a single
request of a session in flight and answers the synthetic call with its next
request, which is what a Codex session does.

`ToolCallGate` knows no requests: a batch is withheld, then granted to at most
one client, refused or dropped, once and for good. `Stage` and `Receivers` in
`ResponseFlow` compute it from the handlers, `GateSpec` is the refinement.

### InterceptReload

Instances of `MCPInterceptor` are numbered; `app` is the application's. A handler
captures `app` before its body arrives (`uses`) and keeps it. `manager` is where
the startup hook or the reloader is suspended: spawning the server, in
`initialize`, undoing a start that failed, in `list_tools`, in the `aclose` of the
old instance, or at cleanup. `lock` is the FIFO queue of an instance's
`asyncio.Lock`, holder first. `stop` sets `_lock` to None; handlers that wait keep
the lock object itself, so the queue outlives it. A call is a handler's: one that
`wait_for` has abandoned may still run in the server.

`procs` are the instances whose exit stack holds a subprocess, which is so before
there is a session. `lost` are those whose stack was let go without being closed:
`aclose` raised and was logged, or the shutdown cancelled a start, since
`except Exception` lets a `CancelledError` pass. A configuration that parses but
makes `MCPInterceptor` raise ("refused") leaves the stopped instance in place.

### EncryptedReplay

A route is an address (what the settings select: provider, key, path) and a
model, which each request gets from the rewriting: the settings' model, or the
one of plan mode. So two requests of a session may have different routes at the
same time (`Begin` chooses the model, `Current` is where a handler's next post
goes). A request may also be refused there (`Refused`). An item is accepted only
by the route that minted it (`MintedBy`, the upstream's rule as
`encrypted_replay.py` states it). `accepted` and `lastRoute` are the tracker,
`history` is what the client of a session holds and may replay, `saved` is the
response withheld for the hook. A handler's locals form the record `req[r]`:
`print` is the route it was prepared for, `target` the route its last post went
to. These differ exactly when a reload came in between, which `Switch` may do at
any time. `Restart` empties the memory and loses the requests in flight, never
the clients' histories. A handler serves any number of requests one after the
other. Expiry of `saved` is left to `ResponseFlow`. `disturbed` is a history
variable: what happened that the tracker makes no allowance for: a switch under
a request in flight ("flight"), a blocked batch with items of another route than
that of the request that posts it ("batch", after a switch, or because that
request has another model), a recorded redirect. `Disturbances` bounds which of
these a run may contain.

### CreditsWindow

Joins a handler's post and row, the check of `credits_checker.py` cut at its
awaits, and the purge. Every post is billed 1. Its row has that cost, or 0: in
chat-completions mode the conversion of the usage drops the cost, and an answer
may have none or not parse. A sum is thus a number of rows of cost 1. `clock`
counts the moments that are compared: starts of handlers (the time of their
rows) and stores of snapshots. `loop[t]` is one poll task; a provider change
cancels it and starts the next, `stop` and a restart of the process end it.
`Answer` is the moment the provider takes its total, `Compare` the moment it has
arrived. `clean` and `excused` record what the windows of two checks cannot see:
requests in flight at this check or the last, and (`lost`) a billed post without
a row of its provider, or with one of cost 0. `RowProvider` is the provider
column of a row.

### ConfigPoll

The files, the environment they are loaded into, the settings built from it, and
each component that holds a copy. Modification times only matter against the
recorded ones, so `unseen` is the set of files that are newer. `PollEnv` is a
poll up to the await in `reload_intercept`, `StopDone` and `StartDone` what
follows; edits, deletions and switches happen at any time. A file may be
incomplete or broken, as one saved in place is for a moment. `Fresh` is what a
restart would load, `Startable` whether it would run.

What the code does not cope with is in the model, and recorded. `missed` are
files that changed behind the reloader's back: deleted (`_detect_changes` skips
what is not there), replaced by an older one, or edited before the first times
were recorded. `cut` says that the last cascade of an environment reload ended
in `MCPInterceptor` raising, before the credits checker was told. A key may
stand `twice` in a file: the switch replaces the first line, dotenv takes the
last. The rest of `proxy.env` may be a number that does not parse, which stops
the reload before the settings are swapped, or a log file that cannot be opened,
which stops it after. `Normal` is what the settings make of a provider's model
name (requesty's tag is cut, and a suffix may be added). A switch may name any
file there is, one that no provider stands for included (`Unknown`). `InOrder`
is the condition under which a reload is held to what a restart does.

### LogStore

`Migrate` does one statement of a migration, `Exit` comes between any two, and
each `Start` may be of another program version. The rows are those of a handler's
posts. The viewer holds `shown`, and `loading` is a page on its way; `Pages` is
what the query may return, in any order among rows of one time. `known` are the
rows there were when the first page was read.

### ChatTurns and ChatConversion

`ChatTurns` is about where a history lives: a turn looks its predecessor up,
posts, may go through rounds of intercepted calls, and stores. Every message has
length 1. `Store` is the insertion with `Prune`, which keeps an entry exactly if
all that is newer fits with it; `StoreFails` and `Crash` come between the two.
`said` is what the conversation really was.

`ChatConversion` is about what a history is: items, messages and fragments of
the two dialects, for one conversation held twice, by a client that resends its
items and one that sends `previous_response_id`. `Repair`, `InputToMessages`,
`Truncate`, `ToResponses`, `BuildSse` and `FromSse` are the functions of those
names. Of the model's reasoning there is only whether a message, a call or an
answer has any (`thought`); the store keeps it with its messages, items resent
keep that of calls only. An "other" item (reasoning, a compaction) makes no
message but ends a row of calls. Any chunk of a call may have its id. The items
of custom tools are left out, since `_is_function_tool` never offers such a tool
to this kind of upstream. `Walk` is the loop of `Truncate`, message by message,
and `HaveRoom` its two checks: the sum of the sizes, and the size of the list,
whose brackets and separators count too. The sum of some sizes, `SumAt`, is a
number of pairs. `Pick` takes the elements at some positions, in order: what a
loop keeps of a list is stated as a set of positions, so that it can be reasoned
about. `Group`, calls in a row as one message, is the part the two conversions
to messages share. An id tells in which post, by whom and for which index it was
given.

### Slips

Operators whose comment begins with "Slip:" are not part of any specification.
Each is a definition of its module with one plausible mistake. Put in the place
of the original it makes the property named in `PROJECT.json` fail, which shows
that the property depends on that piece of code.

## 4. Runs

| Configuration | Shows |
|---|---|
| `MCResponseFlow` | Three requests, two sessions, any client, expiry, one reload: settled batches are gone, but for an allow that raised before the removal (`SettledNotPending`), sessions do not mix, a saved response is released only on an allow, no client call passes the enabled hook (`GatedWhileOn`). |
| `MCDisciplined` | Three requests of one session, disciplined client: drops only when due, feedback unedited, and the refinement `GateSpec`: each batch is settled once. With fairness, every request is answered (`Answered`: the loop is bounded). |
| `MCInterceptReload` | Three handlers of a call, two reloads, shutdown: `OneCallAtATime`, no session or process left behind but where its stack could not be closed (`NoStraySession`), `CrashNeedsReload`, lock and handlers agree (`TypeOK`); with fairness, stopping an instance strands no call (`CallsEnd`). |
| `MCEncryptedReplay` | Two handlers of a session with requests for two models, an upstream switched away and back, a restart: records are true, no rejection reaches the client, what was delivered is recorded. |
| `MCCreditsWindow` | Two requests against two loops and two checks: a stored mismatch has a cause (`MismatchIsExplained`), baselines never run backwards (`BaselineInOrder`). |
| `MCConfigPoll` | Three edits, deletions or switches, of two providers and four other files: a reload equals a restart, no key leaks, a switch that was answered takes effect; with fairness, the configuration in use converges. |
| `MCLogStore` | Three migrations, two starts, three handlers, pages of two rows: the schema version is never ahead of the tables; the list is ordered and misses only rows of a listed time. |
| `MCChatTurns` | Three turns of two rounds: the prompt is the end of the conversation, the caps hold once pruned, eviction takes no more than it must and the oldest first, an answer can be continued at once. |
| `MCChatConversion` | Every short conversation: whole answers from any fragments, also of broken streams; calls answered once; sound truncation; both ways of keeping a conversation post the same, if messages come without reasoning. |

These find a counterexample: the code does not do what its documentation says.

| Configuration | Documented | What happens |
|---|---|---|
| `MCStaleItems` | CHANGELOG: stale items are removed after route changes | those of a saved response are posted unfiltered after a block, also when only the model of the request differs |
| `MCPinnedProvider` | CHANGELOG: the checker compares the total with local costs | with `MCPTAP_OPENROUTER_PROVIDER` the rows carry another provider, the local sum is 0 |
| `MCRoundsForget` | FEATURES.md: the translation preserves conversation history | after an intercepted call or a block the model no longer sees what was before the turn |

Other disagreements met while modelling are not run; the modules do what the
code does. FEATURES.md says that the client never sees intercepted calls: it
does when the loop is exhausted and in the reaction to a block. It says that of
mixed calls the client's are deferred to the hook: the model is asked again
instead. `tool_hook.py` says that the hook runs on the request with the get_goal
result: it runs on any next request of the session. `reload_intercept` says that
the old interceptor is kept on failure: it is stopped first.
`reload_env_and_propagate` promises the full cascade: if `MCPInterceptor`
raises, the credits checker is left with the old provider until an environment
file changes again. In chat-completions mode every row costs 0, so that the
checker has nothing to compare. The startup hook logs that it continues without
interception: the tools stay exposed and their calls fail. The CHANGELOG says
that items are tracked per route: a switch under a request records an item for
the wrong one. `record_encrypted_replay` speaks of successful routes: the loop
records redirects too.

### Bounds

Interference in this code is between a request and one other party (another
request of the session, the reloader, the clock), and a session isolation breach
needs a second session: three requests, two of one session, contain every such
pair together with a bystander. One reload toggles each flag; one tick with a TTL
of zero separates fresh from expired. `MaxIterations` is 1 where the loop is not
the subject, 2 and 3 where it is. Three handlers at a lock are a holder and two
waiters, with a call each; two reloads make an instance both new and old. Two
upstreams with two models, and an item of each upstream, make every item foreign
to three routes; two switches go away and come back.

In `CreditsWindow` two requests are one on each side of a check, two loops the
cancelled one and its successor, two checks a baseline and a comparison. In
`ConfigPoll` three changes are one that breaks something, one during the cascade
it starts and one that repairs it; two providers and two models make a leak
visible. One provider, requesty, has what is special: names that the settings
change, a file with a key twice, a file that changes unnoticed; the other one is
its control. In `LogStore` three migrations leave one done, one half done and one to
do; three handlers of two rows fill three pages of two, and a handler's rows can
straddle a page boundary; the window of two lets rows leave the range. In
`ChatTurns` three turns branch or chain; `MaxRows` 3 of up to six entries and
`MaxBytes` 10 with entries of up to 4 make each cap the one that evicts, and
`MaxPrompt` 4 truncates the second continuation; `MCRoundsForget` has room for
one message more so that truncation is not to blame. In `ChatConversion` three
posts store a history twice, two calls interleave, and a message of length 12
meets a limit of 14 beside the system message. The last post has no answer, the
client says nothing that cannot be posted, and an item that makes no message comes
once, after a first answer that ends in a call. `PerModel = TRUE` breaks
`SamePrompt`, since only a first request gets the model's instructions.

`MaxTime`, `MaxReloads`, `MaxCalls`, `MaxSwitches`, `MaxRestarts`,
`Disturbances`, `MaxPosts`, `MaxTasks`, `MaxChecks`, `MaxEdits`, `Doubled`,
`Unnoticed`, `MaxRows` of `LogStore`, `MaxStarts`, `Lengths`, `MaxDeltas` and
`MaxOutputs` exist only for the model; the other constants are settings, files
or limits of the code. Handlers, requests and turns that are symmetric are
permuted.

Deadlock is not an error in these runs: a bounded model stops when all requests
are served or the application is down.

### Fairness

`ResponseFlow` assumes weak fairness of each handler's step. The event loop
schedules every runnable handler; `run_hook` and `MCPInterceptor.call` bound
their waits with `asyncio.wait_for`. That the upstream answers is an assumption
about the environment: the client session has no total and no read timeout.
`InterceptReload` assumes it of a handler in `call` only. Nothing is assumed of
the manager, because `initialize` and `list_tools` have no timeout. `ConfigPoll`
assumes weak fairness of the reloader: its loop wakes every two seconds and
survives any exception of a reload; that a start or stop of the interceptor ends
is an assumption about the MCP server. Clients, the clock, edits and reloads are
never assumed to act.

## 5. Proofs

`ResponseFlowProofs` proves, for all sets of requests and sessions and all values
of the bounds, `TypeOK`, `SettledNotPending`, `SessionIsolation`,
`ReleaseIsBacked` and `GatedWhileOn`. The assumptions are those named in
`ResponseFlow`: None is no request, every request has a session, the bounds are
natural numbers and `MaxIterations` is positive.

`SettledNotPending` is not inductive: a request that arrives late could save a
batch another handler has already settled, unless one knows that a handler holds
its own batch or that of a finished request, and that a finished request saves
nothing more. `IInv` adds what is needed:

* `HandlerInv` - what `pc` says about the locals of a handler: before its
  decision it has no verdict, only deciding handlers hold a batch, the iteration
  is below its bound, a handler in `mcp` got intercepted calls;
* `PendingInv` - a saved batch is of its session, of a finished request, and was
  answered with the synthetic call;
* `HeldInv` - a held batch is of the handler's session, and is the handler's own
  or a finished request's;
* `BlocklistInv`, `SavedInv` - the control file's session; a released response
  has an allow.

There is one lemma per action, with one step per conjunct. `Invariance` combines
them; the invariants follow. `GatedWhileOn` is an action property: the lemma
`HandlerIsGated` goes through the actions under `IInv`.

Under the hypothesis `Disciplined` the same module proves the refinement
`GateSpec` and `FeedbackIsOriginal`, with any number of configuration changes.
What a step does to a batch is `GateStep`; `QuietGate` is the step that settles
nothing, and the only actions with another one are the two that defer a batch
(`FreshIsUnseen`: nobody knows it yet) and the hook's answers. These settle the
batch held, and no other, because of `TakenOnce`: a batch is held by one request.
That is where discipline is needed. Two requests of a session at once would both
find the batch saved, since only the decision removes it. `DInv` adds to `IInv`

* `OneInFlight` - what the client keeps to;
* `TakenOnce` and `TakenIsDecided` - the request that took a batch decides it or
  has decided it, and a settled batch is not saved (`SettledNotPending`), so no
  later request takes it again (`SavedIsFree`); those whose allow raised before
  the removal have settled nothing and do not count (`MalformedGate`);
* `HookPending` - while the hook runs its batch is still the saved one or swept;
* `EditedInv` - an edited body has been allowed, so that it is not blocked later.

`DroppedOnlyWhenDue` is proved for a disciplined client without configuration
changes (`MaxReloads = 0`), as it is checked: `LoopPending` says that the loop
runs, the hook being enabled, only once the session's batch is gone. A reload
breaks it: a loop started with the hook off does not look for a saved batch, and
if the hook is on when client calls arrive it saves over a live one.

`InterceptReloadProofs` proves `TypeOK`, `OneCallAtATime`, `NoStraySession` and
the action property `CrashNeedsReload` for any set of handlers and any number of
reloads and calls; the only assumption is that the two bounds are natural
numbers. `OneCallAtATime` needs to know that whoever is in a call is the first at
its instance's lock; that this survives a release needs that nobody is at a lock
twice, and that the lock holds exactly the handlers in `call` (the last conjunct
of `TypeOK`). `LockInv` says so. `NoStraySession` needs `ManagerInv`, what the
current instance owns, a process or a session, while the manager is suspended in
a start or a stop.
`Enqueue` and `Dequeue` are the facts about `Append` and `Tail` this rests on.
The lemmas follow who acts: the manager, a handler outside `call`, one that joins
the queue, one that becomes the first, one that leaves.

`EncryptedReplayProofs` proves `TypeOK`, `RecordsAreTrue`, `NoReplayError` and
`DeliveredIsRecorded` for any sets of requests, sessions, upstreams, models and
items, any bounds and any admitted disturbances. The assumptions: None is no
address and no route, an item is minted by one route, `MaxTurns` is positive.
None of the three is inductive; `IInv` adds, for a handler,

* `LocalOK` - between requests the locals are empty, a request has not taken a
  turn before its first post, and what is relayed was accepted;
* `RouteOK` - while no upstream switched under a request in flight, fingerprint
  and target are the selected upstream with the request's own model, what is
  relayed was minted by it, and what the hook decides about is recorded;
* `ReplayOK` - undisturbed, a post with foreign items is one that is retried, and
  what a block adds to is of the handler's route (so is what it adds, or the
  block is noted as "batch");

and `SavedOK` for a session: a saved response was recorded before it was saved,
so that a request that finds it is filtered and needs no retry. This is why
the post after a block can do without one. `OthersOK` is the interference argument:
records only grow, so a step of one handler cannot spoil what another one relies
on. `EndIInv` treats the ways a request ends at once.

`CreditsWindowProofs` proves `TypeOK` and `BaselineInOrder` for any providers,
any finite set of requests and any bounds, and `MismatchIsExplained` under
`OwnColumn`: rows carry the selected provider (the run `MCPinnedProvider` shows
what happens otherwise). `LoopInv` says that one loop at most is alive; hence
nobody stores between a loop's answer and its snapshot, which `OrderInv` turns
into the order of the baselines. For the mismatch, `CountInv` counts: while
nothing is lost, what a provider has billed since its newest clean baseline is
the rows of cost 1 since then and the posts billed and not yet logged. It holds
because a post is logged once (`RowsInv`), because whatever is in flight started
after every clean baseline (`StartInv`), and because a purge that leaves a
baseline leaves the rows behind it. `CleanInv` says that a clean answer is still
what is billed, so that `ComparisonIsSound`: with no excuse the sums are equal.
`NewestInv` replaces an induction over the snapshots.

`ConfigPollProofs` proves `TypeOK`, `NoLeak`, `LiveEqualsRestart` and
`SwitchTakesEffect` for all values of the constants. The assumptions: None and
Unknown are no providers, no provider's file is another of the files, there is a
model. `Settled` says that the environment files were all read since they changed,
can be run with and leave nothing to the environment; then loading into an old
environment gives what a fresh one would (`LoadIsFresh`). `SyncInv` says what is
in step with settled files while a cascade is under way: what is neither unseen
nor missed nor still to be called back, nor left out by a cut. With `PhaseInv`,
that a loop at rest owes no callback, it is inductive, and `InOrderSettles` takes
it to the property. `PromiseInv` adds that a switch is what the files say until
one of them changes, unless a key stands there twice.

`LogStoreProofs` proves `TypeOK`, `SchemaIsComplete`, `ListIsOrdered` and
`MissedOnlyTies` for any handlers, migrations, windows and page sizes; the page
size is positive. `ListInv` states the list properties of the rows listed and of
the list a page on its way would make, so that what is recorded, purged or leaves
the range in between cannot spoil it. `RowsInv` says that a time is one handler's
and that a row never changes, `SchemaIsComplete` is inductive with the types.

`ChatTurnsProofs` proves `TypeOK`, `CapsHold`, `PromptIsSuffix`,
`DropsOnlyOldest` and `AnswerIsRemembered` for any turns, any caps and any prompt
limit, from the two assumptions of the module: limits and caps are positive, and
no entry is larger than the table may be. The size of a set of entries is a
cardinality and `Prune` a comprehension, so that what pruning does follows
without a recursion: the rest fits the caps (`PruneCaps`), the newest entry stays
(`PruneKeepsNewest`), what goes is older than what stays (`PruneDropsOldest`).
`PromptIsSuffix` relates the posted prompt to the history variable `said`; it
needs `EntryInv`, that the history stored for a response the client has got ends
what was said up to it, and `TurnInv`, which says so of what a turn carries from
its lookup to its insertion. `DeliveredInv` says that a delivered response was
the last of its turn, so that `said` does not grow under it. The `Ends` lemmas
are the facts about ends of sequences this rests on.

`ChatConversionProofs` proves `TypeOK`, `AnswerIsWhole`, `CallsAnsweredOnce`,
`TruncationIsSound` and `SamePrompt` for any conversation, any number of calls
and any fragments, from the assumption that lengths and bounds are natural
numbers and the limit is positive; `SamePrompt` needs `PerModel = FALSE`
besides. All rest on `PickIs`: an increasing listing of the positions (`Lists`)
is what `Pick` goes by, and there is one for every finite set (`CanBeListed`).
`AggInv` says that what is gathered is what was sent, fragment by fragment,
`AnswerInv` that the client has what was gathered; `ConvertedAnswer`,
`SseIsWhole` and `SsePrefix` say what the conversions make of it, read to its
end or cut. `CallsAnsweredOnce` holds only because of what the items are:
`PairInv` says that no two calls share an id, that an output follows the call it
is of, and that outputs grow fresher. That ids do not repeat comes from the
posts in them. Then the last output of a call is the one `Repair` keeps
(`PairsRepaired`), and a call without an output is an orphan once.

`TruncationIsSound` is a statement about a loop. `NumbersFrom0` is induction over a
set of numbers, which first-order provers can use where the library's induction
over an operator cannot; with it `WalkIs` says that the loop's function exists and
`WalkKeeps` that it keeps exactly the messages that fit in with all that is newer
and not too large. Its invariant, `WalkInv`, needs the newest message to fit: then
what has been kept is never empty when one that is larger than the room is met.
What has room has it also without some of it (`FewerHaveRoom`), which is said of
both checks of `HaveRoom` at once (`ListedSum`, `RoomIsListed`).
`SumOfBoth`, `SumGrows` and `SumMoved` are what sums need, `PartsOf` says that the
system messages and the others are found again in what is posted, and
`MessagesInv` that what is posted is what the items make.

`SamePrompt` relates the two histories of a conversation through every
conversion. `Prompt` is what items make, without the calls `Repair` has to
answer itself, and `Brief` items whose prompt is within the limit. `HistoryInv`
says that the items split into those up to the last response and what is new
(`Held`), that no output of the first is sent again, that the history stored
makes the prompt of the first once messages that say nothing are left out, and
that what is posted is the prompt of all. It is kept because each conversion of
the whole is that of its parts: `DedupeSplits` where no output is superseded
across the cut, `GroupSplits` where no row of calls is cut in two, which holds
since an answer follows an item that is no call, `NormalizeSplits` always.
`AnswerItems` says that an answer whose calls have ids is the same for the store
and the client, and `JsonMessages` that the items of an answer in one body make
the message that is stored as it is. Both need what `plain` records: without an
id, or with text and calls in one body, they differ. So they do where a message
of the model has reasoning, which only the store keeps (`Quiet`,
`QuietUnthought`). With instructions of a model's own (`PerModel = TRUE`) only a
first request has them, the two clients have different messages posted, and the
theorem says nothing.

Only model-checked: liveness (`Answered`, `CallsEnd`, `Converges`), out of reach
of the prover.

## 6. Not modelled

Contents of payloads beyond the kinds of calls, the encrypted items and, in
`ChatConversion`, texts, calls and whether there is reasoning; headers, provider
quirks, tools, formats and wording; token usage and logging, which only inform;
the MCP protocol and the hook script, which may do anything their callers
distinguish. Of `rewrite.py` only the instructions of a model are modelled, the
rest is a pure function of payload and configuration, as are the provider tables
of `settings.py`. The refresh of the chart data is a download into a temporary
file that is renamed. The file-block library runs in other processes, in C, and
only reads; the setup script and the examples are plain input and output.

Known weaknesses no property is about: the control file is truncated and written
in place, so a reader may see half of it; nothing calls the expiry of sessions,
whose records stay in memory; a `ClientError` of the buffered direct post is not
caught and becomes a 500; a changed API key of the same provider does
not restart the credits checker; an edit that leaves the modification time as it
was is not seen. Others are exceptions the properties state: a start cancelled at
shutdown keeps its process (`lost`), a cut cascade its old provider (`cut`), an
allow of the wrong shape its batch (`malformed`).
