-------------------------------- MODULE ChatTurns --------------------------------
(***************************************************************************)
(* Conversations over a Chat Completions upstream (mcptap/chat_store.py,   *)
(* upstream.py, chat_completions.py, the loop of response_flow.py).        *)
(*                                                                         *)
(* The client sends a turn with the id of the response it continues; the   *)
(* proxy finds that response's history in a bounded SQLite table, puts it  *)
(* before the turn, posts it, and stores the new history under a new id.   *)
(* A message has length 1, before and after compression.                   *)
(***************************************************************************)
EXTENDS Naturals, FiniteSets, Sequences, SequencesExt

CONSTANTS
  Turns,        (* handlers, each of one turn of a client                   *)
  MaxRounds,    (* settings.intercept_max_iterations                        *)
  TTL,          (* DEFAULT_TTL_SECONDS                                      *)
  MaxRows,      (* DEFAULT_MAX_ROWS                                         *)
  MaxBytes,     (* DEFAULT_MAX_BYTES                                        *)
  MaxEntry,     (* DEFAULT_MAX_ENTRY_BYTES                                  *)
  MaxPrompt,    (* CHAT_MAX_CHARS                                           *)
  MaxTime       (* bound: time.time()                                       *)

ASSUME RoundsAssumption == MaxRounds \in Nat \ {0} /\ MaxPrompt \in Nat \ {0}
ASSUME CapsAssumption ==
  /\ {TTL, MaxTime} \subseteq Nat
  /\ {MaxRows, MaxBytes, MaxEntry} \subseteq Nat \ {0}
  /\ MaxEntry <= MaxBytes

VARIABLES
  now,        (* time.time(); no two stores have the same                   *)
  table,      (* chat_histories                                             *)
  due,        (* rows were added since _prune last ran                      *)
  turn,       (* the locals of a handler                                    *)
  delivered   (* ids of the responses clients have got                      *)

vars == <<now, table, due, turn, delivered>>

Ids == Turns \X (1..MaxRounds)
None == <<>>
Message == Turns \X (1..2 * MaxRounds)

(* said: what was said so far in the turn's conversation; input: the turn's *)
(* own part of it; messages: what is posted; first: what was posted first.  *)
NoTurn == [phase |-> "idle", prev |-> None, round |-> 0,
           said |-> <<>>, input |-> <<>>, messages |-> <<>>, first |-> <<>>]

Size(entry) == Len(entry.messages)

(* SUM(bytes): all messages of all entries, each of length 1. *)
Bytes(entries) == Cardinality(UNION {{e} \X DOMAIN e.messages : e \in entries})
Expired(entry, time) == entry.at + TTL < time

TypeOK ==
  /\ now \in 0..MaxTime
  /\ due \in BOOLEAN
  /\ delivered \subseteq Ids
  /\ \A e \in table : e.id \in Ids /\ e.at \in 0..now /\ Size(e) \in 1..MaxEntry
  /\ \A e, f \in table : e.id = f.id \/ e.at = f.at => e = f
  /\ \A t \in Turns :
       /\ turn[t].phase \in {"idle", "posted", "done"}
       /\ turn[t].prev \in delivered \cup {None}
       /\ turn[t].messages \in Seq(Message) /\ Len(turn[t].messages) <= MaxPrompt

Init ==
  /\ now = 0
  /\ table = {}
  /\ due = FALSE
  /\ turn = [t \in Turns |-> NoTurn]
  /\ delivered = {}

-----------------------------------------------------------------------------
(* PersistentChatStore.                                                     *)

Newer(entry, entries) == {e \in entries : e.at >= entry.at}

(* Slip: ORDER BY created_at DESC. *)
PruneNewest(entries, time) ==
  LET live == {e \in entries : ~Expired(e, time)}
      capped == {e \in live : Cardinality({f \in live : f.at <= e.at}) <= MaxRows}
  IN {e \in capped : Bytes({f \in capped : f.at <= e.at}) <= MaxBytes}

(* Slip: the row cap is not applied to a table of one row more. *)
PruneLate(entries, time) ==
  LET live == {e \in entries : ~Expired(e, time)}
      capped == {e \in live : Cardinality(Newer(e, live)) <= MaxRows + 1}
  IN {e \in capped : Bytes(Newer(e, capped)) <= MaxBytes}

(* Slip: "while total >= max_bytes". *)
PruneEarly(entries, time) ==
  LET live == {e \in entries : ~Expired(e, time)}
      capped == {e \in live : Cardinality(Newer(e, live)) <= MaxRows}
  IN {e \in capped : Bytes(Newer(e, capped)) < MaxBytes}

(* _prune: the expired, then the oldest beyond the row cap, then the oldest *)
(* until the rest is within the byte cap: what stays is, of every age, what *)
(* fits together with all that is newer.                                    *)
Prune(entries, time) ==
  LET live == {e \in entries : ~Expired(e, time)}
      capped == {e \in live : Cardinality(Newer(e, live)) <= MaxRows}
  IN {e \in capped : Bytes(Newer(e, capped)) <= MaxBytes}

(* Slip: the size of an entry is not checked. *)
InsertAny(entry) == table \cup {entry}

(* store: INSERT, committed, of an entry that is not too large, ... *)
Insert(entry) == IF Size(entry) > MaxEntry THEN table ELSE table \cup {entry}

(* ... and then _prune. *)
Store(entry) ==
  /\ table' = IF Insert(entry) = table THEN table ELSE Prune(Insert(entry), entry.at)
  /\ due' = (due /\ Insert(entry) = table)

(* get: an expired or unreadable entry is deleted. *)
Get(id) ==
  LET found == {e \in table : e.id = id}
      fresh == {e \in found : ~Expired(e, now)}
  IN {[messages |-> e.messages, table |-> table] : e \in fresh}
       \cup {[messages |-> <<>>, table |-> table \ found]}

-----------------------------------------------------------------------------
(* A turn.                                                                  *)

(* Slip: the newest messages are dropped. *)
KeepOldest(messages) ==
  SubSeq(messages, 1, IF Len(messages) < MaxPrompt THEN Len(messages) ELSE MaxPrompt)

(* _truncate_chat_messages, for messages of length 1. *)
Truncate(messages) ==
  SubSeq(messages, IF Len(messages) > MaxPrompt THEN Len(messages) - MaxPrompt + 1 ELSE 1,
         Len(messages))

(* responses_request_to_chat: the history of previous_response_id, which is *)
(* not there if its entry is not, and the turn's input.                     *)
Ask(t, prev) ==
  /\ turn[t].phase = "idle"
  /\ \E got \in IF prev = None THEN {[messages |-> <<>>, table |-> table]} ELSE Get(prev) :
       LET question == <<<<t, 1>>>>
           messages == Truncate(got.messages \o question)
       IN /\ table' = got.table
          /\ turn' = [turn EXCEPT ![t] =
               [phase |-> "posted", prev |-> prev, round |-> 1,
                said |-> (IF prev = None THEN <<>> ELSE turn[prev[1]].said) \o question,
                input |-> question, messages |-> messages, first |-> messages]]
  /\ UNCHANGED <<now, due, delivered>>

Answer(t) == <<t, 2 * turn[t].round>>
Entry(t) == [id |-> <<t, turn[t].round>>, at |-> now', messages |-> Append(turn[t].messages, Answer(t))]

Storing(t) ==
  /\ turn[t].phase = "posted"
  /\ now < MaxTime
  /\ now' = now + 1

(* The answer is stored and goes to the client. *)
Finish(t) ==
  /\ Storing(t)
  /\ Store(Entry(t))
  /\ delivered' = delivered \cup {<<t, turn[t].round>>}
  /\ turn' = [turn EXCEPT ![t].phase = "done", ![t].said = Append(@, Answer(t))]

(* The answer holds an intercepted call, or the hook blocks its calls: it   *)
(* is stored, it and what follows are added to the input, and that is       *)
(* posted without previous_response_id.                                     *)
Intercept(t) ==
  /\ Storing(t)
  /\ turn[t].round < MaxRounds
  /\ Store(Entry(t))
  /\ LET round == turn[t].round
         added == <<Answer(t), <<t, 2 * round + 1>>>>
         input == turn[t].input \o added
     IN turn' = [turn EXCEPT ![t].round = round + 1, ![t].said = @ \o added, ![t].input = input,
                             ![t].messages = Truncate(input)]
  /\ UNCHANGED delivered

Ended == [t \in Turns |-> IF turn[t].phase = "posted" THEN [turn[t] EXCEPT !.phase = "done"]
                          ELSE turn[t]]

(* The upstream fails or answers with an error: nothing is stored. *)
Fail(t) ==
  /\ turn[t].phase = "posted"
  /\ turn' = [turn EXCEPT ![t].phase = "done"]
  /\ UNCHANGED <<now, table, due, delivered>>

(* The database is locked for longer than busy_timeout: the answer is lost, *)
(* its entry may have been inserted.                                        *)
StoreFails(t) ==
  /\ Storing(t)
  /\ Insert(Entry(t)) # table
  /\ \/ UNCHANGED <<table, due>>
     \/ table' = Insert(Entry(t)) /\ due' = TRUE
  /\ turn' = [turn EXCEPT ![t].phase = "done"]
  /\ UNCHANGED delivered

-----------------------------------------------------------------------------
(* Time, retention and crashes.                                             *)

Tick ==
  /\ now < MaxTime
  /\ now' = now + 1
  /\ UNCHANGED <<table, due, turn, delivered>>

(* LogStore.purge_old, from the retention task. *)
PurgeExpired ==
  /\ table' = {e \in table : ~Expired(e, now)}
  /\ table' # table
  /\ UNCHANGED <<now, due, turn, delivered>>

(* The process ends, maybe between the INSERT and _prune, and starts again. *)
Crash ==
  /\ Ended # turn
  /\ turn' = Ended
  /\ \/ UNCHANGED <<now, table, due>>
     \/ \E t \in Turns : /\ Storing(t)
                         /\ table' = Insert(Entry(t))
                         /\ table' # table
                         /\ due' = TRUE
  /\ UNCHANGED delivered

Next ==
  \/ \E t \in Turns : \/ \E prev \in delivered \cup {None} : Ask(t, prev)
                      \/ Finish(t) \/ Intercept(t) \/ Fail(t) \/ StoreFails(t)
  \/ Tick \/ PurgeExpired \/ Crash

Spec == Init /\ [][Next]_vars

-----------------------------------------------------------------------------
(* Properties.                                                              *)

(* Once _prune has run, the table is within both caps, whatever was left    *)
(* over by a crash or a failed store before ("LRU/expiry cleanup").         *)
CapsHold == ~due => Cardinality(table) <= MaxRows /\ Bytes(table) <= MaxBytes

(* What is posted is the end of the conversation the client continues: no   *)
(* message of another one, none twice, none missing in between, although    *)
(* entries are lost and histories are truncated and stored again.           *)
PromptIsSuffix ==
  \A t \in Turns : turn[t].phase = "posted" => IsSuffix(turn[t].messages, turn[t].said)

(* A store gives up no more of the table than it must: an entry it drops    *)
(* has expired, or is older than all it keeps and does not fit in with them.*)
DropsOnlyOldest ==
  [][LET added == table' \ table
         dropped == table \ table'
     IN added # {} =>
          \A d \in dropped :
            \/ Expired(d, now')
            \/ /\ \A e \in table' : d.at < e.at
               /\ LET rest == {e \in table \cup added : ~Expired(e, now') /\ e.at >= d.at}
                  IN Cardinality(rest) > MaxRows \/ Bytes(rest) > MaxBytes]_vars

(* A response that a client has got can be continued right away, unless its *)
(* history is too large for an entry.                                       *)
AnswerIsRemembered ==
  [][\A id \in delivered' \ delivered :
       \/ \E e \in table' : e.id = id
       \/ Len(turn[id[1]].messages) + 1 > MaxEntry]_vars

(* "preserves function tool calls and conversation history" (FEATURES.md):  *)
(* the posts that follow an intercepted call hold all the first one held.   *)
RoundsKeepHistory ==
  \A t \in Turns : turn[t].phase = "posted" /\ Len(turn[t].said) <= MaxPrompt =>
    IsPrefix(turn[t].first, turn[t].messages)
=============================================================================
